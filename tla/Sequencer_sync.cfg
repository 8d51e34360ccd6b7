SPECIFICATION Spec
CONSTANTS
  MaxOps = 3
  Kinds = {"direct", "write"}
  SyncSignals = TRUE
  KeptHandles = {FALSE}
INVARIANTS
  AnsweredOperationsEnd
CHECK_DEADLOCK FALSE
