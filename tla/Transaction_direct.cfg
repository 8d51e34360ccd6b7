SPECIFICATION Spec
CONSTANTS
  Tx = {t1, t2}
  Sub = {s1, s2}
  NoTx = NoTx
  Modes = {{}}
  Blocking = {FALSE}
  DirectHandles = TRUE
  MaxOps = 2
  MaxBatches = 3
  MaxDepth = 2
PROPERTIES
  FinishedByLastSharer
