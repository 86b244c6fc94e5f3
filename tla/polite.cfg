SPECIFICATION Spec
CONSTANTS
  r1 = r1
  r2 = r2
  r3 = r3
  r4 = r4
  d1 = d1
  d2 = d2
  Requests = {r1, r2, r3, r4}
  Rendered = {r3, r4}
  Domains = {d1, d2}
  DomainOf <- ThreeAndOne
  GlobalSlots = 3
  DomainSlots = 2
  Delay = 1
  MinPause = 1
  RetryAfters = {3}
  MaxRetries = 1
  Backoff <- ConstantBackoff
  Nobody = Nobody
INVARIANTS
  PoliteInv
PROPERTIES
  PoliteSpacing
  ImplementsPoliteClient
  EveryFetchEnds
CHECK_DEADLOCK FALSE
