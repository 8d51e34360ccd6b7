SPECIFICATION FairSpec
CONSTANTS
  Tx = {t1, t2}
  Sub = {s1, s2}
  NoTx = NoTx
  Modes = {{}, {"Exclusive", "CommitOnDestroy", "Inactive"}}
  Blocking = {TRUE, FALSE}
  DirectHandles = TRUE
  MaxOps = 2
  MaxBatches = 2
  MaxDepth = 3
INVARIANTS
  ActiveIsCurrent
  SentInOrder
PROPERTIES
  CallsReturn
