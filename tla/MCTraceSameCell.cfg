SPECIFICATION Spec
CONSTANTS
  e1 = e1
  e2 = e2
  a1 = a1
  s1 = s1
  c1 = c1
  p = p
  q = q
  Tx = {t1, t2}
  Entity = {e1, e2}
  Asset = {a1}
  State = {s1}
  Connection = {c1}
  Purpose = purpose
  Participates <- Interfaces
  RelType = {"HOLDS", "USES"}
  Prop = {p}
  Assured = p
  MaxReq = 3
  Meetings <- TraceSameCell
  Original = original
  NoTx = noTx
  Absent = absent
  AnyState = anyState
INVARIANT OneCurrentPerCell
