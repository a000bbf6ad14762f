SPECIFICATION StateSpec
CONSTANTS
  t1 = t1
  t2 = t2
  l1 = l1
  r1 = r1
  None = None
  Transition = {t1, t2}
  First <- MCFirst
  Link = {l1, r1}
  Requirement = r1
  Others = TRUE
  MaxOut = 1
CHECK_DEADLOCK FALSE
PROPERTIES RecreateAccepted
