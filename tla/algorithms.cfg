SPECIFICATION Spec
CONSTANTS
  Texts <- MCTexts
  MaxChars = 4
  MaxTotalChunks = 5
  Paths = {"field", "field.stars", "field.stars.sum"}
  Above <- MCAbove
  Strings = {"a", "b", "cc"}
  ListItems = {1, 2, 3}
  CandidateLists <- MCCandidates
  Stopwords = {"lab"}
  NoDomain = NoDomain
  Nothing = Nothing
  Seeds <- MCSeeds
  Queries <- MCQueries
  ShownFigures <- MCFigures
  Pages <- MCPages
  Clocks = {100, 101}
  Locales = {"en_US", "en_GB"}
INVARIANTS
  ChunksFit
  NothingLost
  MergedIsRichest
  SeedOrderIrrelevant
  LanguagesAgree
  NoRedirect
  LocalesAgree
  MarkupSettles
PROPERTIES
  ChunkingProgresses
CHECK_DEADLOCK FALSE
