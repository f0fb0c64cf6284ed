SPECIFICATION Spec
CONSTANTS
  Names = {1, 2, 3, 4}
  Definitions <- Bodies
  MaxDepth = 2
  NoName = NoName
INVARIANTS TypeOK NamesWithinDepth CompleteUnlessTruncated CapFlagExact
CHECK_DEADLOCK FALSE
