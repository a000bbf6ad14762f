SPECIFICATION StagingSpec
CONSTANTS
  l1 = l1
  l2 = l2
  e1 = e1
  s1 = s1
  n1 = n1
  n2 = n2
  p1 = p1
  None = None
  Nothing = Nothing
  Node = {n1, n2}
  Existing = {n1}
  Property = {p1}
  MaxStaged = 2
  Loss = {l1, l2}
  Edit = {e1, s1}
  Setting = {s1}
  MaxVersion = 2
  MaxGeneration = 1
  Files <- MCFiles
SYMMETRY Symmetric
CHECK_DEADLOCK FALSE
INVARIANTS EditsOfRequest
PROPERTIES SavesOnceOverSeen EditsLeaveByChoice ArrangementFits TheirsReplacedByEdit DiscardIsAsked
