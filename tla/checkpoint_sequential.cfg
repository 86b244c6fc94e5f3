SPECIFICATION Spec
CONSTANTS
  w1 = w1
  w2 = w2
  Workers = {w1}
  BatchSize = 2
  Limit = 3
  Dropped = {1}
  NoRow = NoRow
  Failures = TRUE
  BadResponses = TRUE
  MaxGrowth = 1
  MaxRuns = 3
INVARIANTS
  NothingSkipped
PROPERTIES
  ImplementsSequentialCrawl
  EverythingCollected
CHECK_DEADLOCK FALSE
