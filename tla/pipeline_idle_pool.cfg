SPECIFICATION Spec
CONSTANTS
  p1 = p1
  p2 = p2
  None = None
  Producers = {p1, p2}
  Registered = {p1, p2}
  Workers = {w1, w2}
  Limit <- LimitShort
  MaxSize = 3
  SlowDiscovery = TRUE
  Signals = FALSE
PROPERTY
  RunTerminates
CHECK_DEADLOCK FALSE
