SPECIFICATION FairSpec
CONSTANTS
  MaxOps = 4
  Kinds = {"read", "direct", "write"}
  SyncSignals = TRUE
  KeptHandles = {FALSE}
INVARIANTS
  TypeOK
  ConflictsInOrder
  StartedInOrder
  DirectOverlapOnlyInAbort
  UpdatesNeverDropped
  NoMissedNotification
PROPERTIES
  ImplementsOrder
  OperationsEnd
CHECK_DEADLOCK FALSE
