SPECIFICATION ToolsSpec
CONSTANTS
  t1 = t1
  t2 = t2
  l1 = l1
  r1 = r1
  None = None
  Transition = {t1, t2}
  First <- MCFirst
  Link = {l1, r1}
  Requirement = r1
  Others = TRUE
  MaxOut = 1
  haz = haz
  State <- MCStates
  InitialStates = {1, 2}
  Leads <- MCLeads
  Criterion = {haz}
  Relates <- MCRelates
  Width = 1
  Room <- MCRoom
  MaxRow = 1
  NoState = 0
  Attack = {1, 2, 3}
  InitialAttacks = {1, 2}
  ViaHazard = {1}
  Level = {2, 3}
  Passing = {3}
  Editable = {1}
  Focus = 0
  AttackOthers = TRUE
  NoAttack = 0
  a1 = a1
  a2 = a2
  e1 = e1
  s1 = s1
  s2 = s2
  H = H
  U = U
  Asset = {a1, a2}
  Entity = {e1}
  TraceState = {s1, s2}
  InitialTraced = {s1}
  Cycle <- MCCycle
  NoType = NoType
  NoAsset = NoAsset
  Traceable <- MCTraceable
  Rewriting <- MCRewriting
  c1 = c1
  k1 = k1
  h1 = h1
  ContextState = {c1}
  Env = {1, 2}
  Kind = {k1}
  Loss = {1, 2}
  InitialAllocations <- MCAllocations
  Hazard = {h1}
  InitialHazards = {}
  Contended = {1}
  Absent = Absent
  NoEnv = 0
CHECK_DEADLOCK FALSE
INVARIANT BlocksApart
PROPERTIES RecreateKeepsOthers TreeNotDag CommitIsWhatIsShown GenerationCovers
