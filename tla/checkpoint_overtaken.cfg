SPECIFICATION Spec
CONSTANTS
  w1 = w1
  w2 = w2
  Workers = {w1, w2}
  BatchSize = 2
  Limit = 3
  Dropped = {1}
  NoRow = NoRow
  Failures = FALSE
  BadResponses = FALSE
  MaxGrowth = 0
  MaxRuns = 2
PROPERTIES
  EverythingCollected
CHECK_DEADLOCK FALSE
