SPECIFICATION Spec
CONSTANTS
  Total = 5
  FirstBlock = 1
  Block = 2
  Limits <- MCDisabled
  SlotPoints = {}
  NoPiece = NoPiece
  MaxCalls = 2
  MaxDepth = 1
INVARIANTS
  NoLimitStreamsAll
CHECK_DEADLOCK FALSE
