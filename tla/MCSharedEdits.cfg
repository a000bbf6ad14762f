SPECIFICATION Spec
CONSTANTS
  t1 = t1
  t2 = t2
  t3 = t3
  n1 = n1
  n2 = n2
  Tx = {t1, t2}
  Node = {n1, n2}
  MaxLoss = 2
  Requests <- DraftRequests
  MaxTries = 1
  InitialLosses = {1, 2}
  InitialTrees <- Trees
  Original = original
  NoTx = noTx
PROPERTIES SharedEditsInvalidate
