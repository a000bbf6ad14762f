SPECIFICATION Spec
CONSTANTS
  e1 = e1
  e2 = e2
  a1 = a1
  s1 = s1
  c1 = c1
  p = p
  q = q
  Tx = {t1, t2, t3}
  Entity = {e1, e2}
  Asset = {a1, a2}
  State = {s1}
  Connection = {c1}
  Purpose = purpose
  Participates <- Interfaces
  RelType = {"HOLDS", "USES"}
  Prop = {p, q}
  Assured = p
  MaxReq = 3
  Meetings <- MatrixOrNodes
  Original = original
  NoTx = noTx
  Absent = absent
  AnyState = anyState
SYMMETRY Perms
INVARIANTS TypeOK OneCurrentUnlessOverlap VersionsFollowCommits NoDuplicateRequirement DeletedStateInvalidates
PROPERTIES UndisturbedIsDerived
