SPECIFICATION Spec
CONSTANTS
  p1 = p1
  p2 = p2
  None = None
  Producers = {p1, p2}
  Registered = {p1}
  Workers = {w1, w2, w3}
  Limit <- LimitLong
  MaxSize = 2
  SlowDiscovery = TRUE
  Signals = TRUE
INVARIANTS
  PipelineInv
  TaskInOnePlace
  TaskDoneBalance
  NoTaskBehindPill
  StuckInThreeWays
  UninterruptedRunConsumesAll
PROPERTIES
  ImplementsWorkPool
  ReturnsUnlessStuck
  EveryTaskConsumed
CHECK_DEADLOCK FALSE
