SPECIFICATION Spec
CONSTANTS
  MaxLength = 3
  MaxBatch = 2
INVARIANTS InSyncUnlessSkewed PositionsRoundTrip
PROPERTY TypingRangeCovers
CHECK_DEADLOCK FALSE
