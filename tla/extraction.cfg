SPECIFICATION Spec
CONSTANTS
  Chains <- ChainChoices
  Registered = {"gemini", "groq"}
  Size = 11
  Chunks <- CutAtFive
  Reduced <- InTwos
  Statuses = {0, 413, 429}
  MaxRetries = 2
  RepairsAllowed = 2
INVARIANTS
  EngineInv
  AtMostOneStray
PROPERTIES
  ImplementsFallback
  ExtractionEnds
CHECK_DEADLOCK FALSE
