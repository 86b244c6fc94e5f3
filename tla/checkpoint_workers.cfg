SPECIFICATION Spec
CONSTANTS
  w1 = w1
  w2 = w2
  Workers = {w1, w2}
  BatchSize = 2
  Limit = 3
  Dropped = {1}
  NoRow = NoRow
  Failures = TRUE
  BadResponses = TRUE
  MaxGrowth = 1
  MaxRuns = 2
SYMMETRY WorkerSymmetry
INVARIANTS
  CheckpointInv
  CollectedNeverOvercounts
CHECK_DEADLOCK FALSE
