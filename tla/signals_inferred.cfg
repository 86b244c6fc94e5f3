SPECIFICATION Spec
CONSTANTS
  c1 = c1
  c2 = c2
  proc1 = proc1
  proc2 = proc2
  a = a
  b = b
  Calls = {c1}
  Setups <- Raising
  Items = {a, b}
  Listing <- MCListing
  Published <- PublishedLater
  DateOf <- DateOnPage
  Disallowed = {}
  StartDelay = 0
  Window = 1
  Skew = 0
  Tolerance = 0
  TopRecency = 25
  NoState = NoState
  Never = Never
  DetailFails = TRUE
  Failures = FALSE
  MaxTime = 2
INVARIANTS
  InferredIsNew
CHECK_DEADLOCK FALSE
