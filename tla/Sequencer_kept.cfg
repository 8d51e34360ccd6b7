SPECIFICATION Spec
CONSTANTS
  MaxOps = 3
  Kinds = {"read", "write"}
  SyncSignals = FALSE
  KeptHandles = {TRUE, FALSE}
PROPERTIES
  AbortedNeverStarts
CHECK_DEADLOCK FALSE
