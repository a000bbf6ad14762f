SPECIFICATION Spec
CONSTANTS
  t1 = t1
  t2 = t2
  t3 = t3
  n1 = n1
  n2 = n2
  Tx = {t1, t2, t3}
  Node = {n1, n2}
  MaxLoss = 4
  Requests <- AllRequests
  MaxTries = 1
  InitialLosses = {1, 2}
  InitialTrees <- Trees
  Original = original
  NoTx = noTx
SYMMETRY Perms
INVARIANTS TreesInv OneAuthorPerRevision ProtocolInv NoGuardDeadlock
PROPERTIES AcceptedIsDone GuardHolds UnseenOnlyIfMoved ImplementsAtomicRevisions
