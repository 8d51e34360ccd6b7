\* Flushes, blocking calls and stops, nested in waits and slots.
SPECIFICATION FairSpec
CONSTANTS
  MaxOps = 3
  MaxCalls = 3
  MaxDepth = 3
  SlotPoints <- MCSlotPoints
INVARIANTS
  TypeOK
  ReadyShowsLatest
  NoIdleRunning
  NoneHeldUp
PROPERTIES
  CallsReturn
CHECK_DEADLOCK FALSE
