SPECIFICATION Spec
CONSTANTS
  c1 = c1
  c2 = c2
  proc1 = proc1
  proc2 = proc2
  a = a
  b = b
  Calls = {c1, c2}
  Setups <- AllSetups
  Items = {a, b}
  Listing <- MCListing
  Published <- PublishedBefore
  DateOf <- DateInListing
  Disallowed = {b}
  StartDelay = 1
  Window = 1
  Skew = 0
  Tolerance = 0
  TopRecency = 0
  NoState = NoState
  Never = Never
  DetailFails = TRUE
  Failures = TRUE
  MaxTime = 1
INVARIANTS
  SignalInv
  OneRowPerUrl
  WatermarkMeansComplete
PROPERTIES
  ImplementsSignalLedger
  EveryRunEnds
CHECK_DEADLOCK FALSE
