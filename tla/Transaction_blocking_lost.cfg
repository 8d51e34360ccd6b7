SPECIFICATION Spec
CONSTANTS
  Tx = {t1, t2}
  Sub = {s1}
  NoTx = NoTx
  Modes = {{}}
  Blocking = {TRUE, FALSE}
  DirectHandles = FALSE
  MaxOps = 2
  MaxBatches = 3
  MaxDepth = 3
INVARIANTS
  NothingLost
