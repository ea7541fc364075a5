SPECIFICATION ReaderSpec
CONSTANTS
  Vocabularies <- MCVocabularies
  Options <- MCOptions
  MaxElements = 5
CHECK_DEADLOCK FALSE
INVARIANTS
  ListsMeanDocument
  LatestElementCounts
  SilentWhenAsked
PROPERTIES
  ReadingEnds
