SPECIFICATION FairSpec
CONSTANTS
  Total = 5
  FirstBlock = 1
  Block = 3
  Limits <- MCLimits
  SlotPoints = {"altered", "started", "inserted", "received"}
  NoPiece = NoPiece
  MaxCalls = 4
  MaxDepth = 3
INVARIANTS
  TypeOK
  Gapless
  OnePieceUnderWay
  NoIdleRunning
  EndMeansAll
  LimitKept
PROPERTIES
  StreamsEnd
CHECK_DEADLOCK FALSE
