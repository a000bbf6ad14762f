----------------------------- MODULE AttackTool -----------------------------
(***************************************************************************)
(* The Attack Tool (AttackTool.tsx): the Attacks of a System, which of     *)
(* them exploit the entity selected, and their hierarchy, edited from one  *)
(* window while others edit it too.  Commits are prepared on the window's  *)
(* copy of the SoI, which may be older than what they are applied to: that *)
(* others change it, or the window reads it again, while a commit is out   *)
(* has the effect of the same steps before and after it.                   *)
(*                                                                         *)
(* Of an Attack's properties only its level is modelled, for all of those  *)
(* the detail panel edits.  The filters keep the Attacks of an Asset: here *)
(* those that exploit the entity, and those a Hazard uses.                 *)
(***************************************************************************)
EXTENDS Naturals, Sequences, FiniteSets, FiniteSetsExt

CONSTANTS
  Attack,        \* numbers: the Attacks there are and may be, in the order listed
  InitialAttacks,
  ViaHazard,     \* the Attacks a Hazard that threatens the Asset uses
  Level,         \* the levels used: 1 STRATEGY, 2 TACTIC, 3 PROCEDURE
  Focus,         \* the Attack the tool was opened for, or NoAttack
  Editable,      \* bound: the Attacks whose level is edited
  Passing,       \* bound: the Attacks that are deleted and associated anew
  AttackOthers,  \* whether other users change the hierarchy meanwhile
  NoAttack

ASSUME AttackToolAssumption ==
  /\ Attack \subseteq Nat \ {0} /\ IsFiniteSet(Attack)
  /\ InitialAttacks \cup ViaHazard \cup Passing \cup Editable \subseteq Attack
  /\ Level \subseteq 1..3 /\ {2, 3} \subseteq Level /\ NoAttack = 0
  /\ Focus \in InitialAttacks \cup {NoAttack} /\ AttackOthers \in BOOLEAN

VARIABLES
  base,      \* the database: the Attacks' levels, who is subordinate to whom, and
             \* which of them exploit the entity
  listed,    \* the window's copy of it
  selected,  \* the Attack of the detail panel
  draft      \* what the panel holds

attackVars == <<base, listed, selected, draft>>

Alive(b)      == {a \in Attack : b.level[a] # NoAttack}
Parents(b, a) == {p \in Attack : <<a, p>> \in b.above}
\* The first parent answered: the tool expects one at most.
ParentOf(b, a) == IF Parents(b, a) = {} THEN NoAttack ELSE Min(Parents(b, a))

Scoped(b, on) ==
  {a \in Alive(b) : on => a \in ViaHazard \/ a \in b.exploits}


\* Whether c is p or above it, going up as long as the list shown has the parents.
WouldSelfParent(b, shown, p, c) ==
  LET up[n \in 0..Cardinality(Attack)] ==
        IF n = 0 THEN {p}
        ELSE LET below == up[n - 1] IN
             (below \cup {ParentOf(b, a) : a \in below \cap shown}) \ {NoAttack}
  IN  c \in up[Cardinality(Attack)]

NextLevelDown(l) == IF l = 1 THEN 2 ELSE 3

AttackInit ==
  /\ base = [level |-> [a \in Attack |-> IF a \in InitialAttacks THEN 2 ELSE NoAttack],
             above |-> {}, exploits |-> InitialAttacks]
  /\ listed = base /\ selected = Focus
  /\ draft = IF Focus = NoAttack THEN 2 ELSE base.level[Focus]

-----------------------------------------------------------------------------
\* The window.

\* The panel takes the Attack's values when another one is selected, and when
\* the Attack selected comes back changed.
Node(b, a) == IF a = NoAttack THEN <<>> ELSE <<b.level[a], Parents(b, a), a \in b.exploits>>
Seed ==
  draft' = IF selected' \notin Alive(listed')
              \/ (selected' = selected /\ Node(listed', selected) = Node(listed, selected))
           THEN draft ELSE listed'.level[selected']

\* The Attack the tool was opened for is selected again with every new copy.
AttackRefetch ==
  /\ listed # base
  /\ listed' = base
  /\ selected' = IF Focus \in Alive(base) THEN Focus ELSE selected
  /\ Seed
  /\ UNCHANGED base

SelectAttack(a) ==
  /\ a \in Alive(listed) /\ a # selected
  /\ selected' = a /\ UNCHANGED listed /\ Seed
  /\ UNCHANGED base

EditLevel(l) ==
  /\ selected \in Alive(listed) \cap Editable /\ l # draft
  /\ draft' = l
  /\ UNCHANGED <<base, listed, selected>>

-----------------------------------------------------------------------------
\* A commit: the relationships to remove, then those to create, the level to
\* write and the Attack to create.  What is created is not there already and
\* closes no cycle; nodes that are named exist; else nothing is done.
Nothing == [new |-> NoAttack, remove |-> {}, add |-> {}, level |-> <<>>,
            exploit |-> {}, spare |-> {}]

AcyclicAbove(above) ==
  \A some \in (SUBSET Attack) \ {{}} : \E a \in some : \A p \in some : <<a, p>> \notin above

AboveAfter(r) == (base.above \ r.remove) \cup r.add
NamedBy(r) == {pair[1] : pair \in r.add \cup r.remove} \cup {pair[2] : pair \in r.add \cup r.remove}
              \cup r.exploit \cup r.spare \cup (IF r.level = <<>> THEN {} ELSE {r.level[1]})

Accepts(r) ==
  /\ NamedBy(r) \subseteq Alive(base) \cup {r.new}
  /\ r.add \cap (base.above \ r.remove) = {}
  /\ r.exploit \cap base.exploits = {}
  /\ AcyclicAbove(AboveAfter(r))

Submit(r) ==
  base' = IF Accepts(r)
          THEN [level    |-> IF r.level = <<>> THEN base.level
                             ELSE [base.level EXCEPT ![r.level[1]] = r.level[2]],
                above    |-> AboveAfter(r),
                exploits |-> (base.exploits \ r.spare) \cup r.exploit]
          ELSE base

Unused(a) == a \notin Alive(base) \cup Alive(listed)

\* "New Attack", and "Add Sub" on an Attack that is not a PROCEDURE.
CanBeParent(p) == p \in listed.exploits /\ listed.level[p] # 3
CreateAttack(p, a, l) ==
  /\ p # NoAttack => CanBeParent(p)
  /\ Unused(a)
  /\ Submit([Nothing EXCEPT !.new = a, !.level = <<a, l>>, !.exploit = {a},
                            !.add = IF p = NoAttack THEN {} ELSE {<<a, p>>}])
  /\ UNCHANGED <<listed, selected, draft>>

\* "... or attach an existing Attack": one without a parent that is not above it.
CandidatesWithParent(p) ==
  {c \in Alive(listed) \ {p} : ~WouldSelfParent(listed, Alive(listed), p, c)}
AttachCandidates(p) ==
  {c \in Alive(listed) \ {p} : /\ ParentOf(listed, c) = NoAttack
                               /\ ~WouldSelfParent(listed, Alive(listed), p, c)}
AttachOf(p, c) == [Nothing EXCEPT !.add = {<<c, p>>},
                                  !.level = <<c, NextLevelDown(listed.level[p])>>]
AttachExisting(p, c) ==
  /\ CanBeParent(p) /\ c \in AttachCandidates(p)
  /\ Submit(AttachOf(p, c))
  /\ UNCHANGED <<listed, selected, draft>>

\* The hierarchy's select, with the Asset filter or without: another parent, of
\* those listed, or none.
ParentChoices(scoped) ==
  LET shown == Scoped(listed, scoped) IN
  {p \in shown \ {selected} : ~WouldSelfParent(listed, shown, p, selected)}
SetParentOf(p) ==
  LET old == ParentOf(listed, selected) IN
  [Nothing EXCEPT !.remove = IF old = NoAttack THEN {} ELSE {<<selected, old>>},
                  !.add    = IF p = NoAttack THEN {} ELSE {<<selected, p>>}]
SetParent(p) ==
  /\ selected \in Alive(listed) /\ p \in ParentChoices(FALSE) \cup ParentChoices(TRUE) \cup {NoAttack}
  /\ p # ParentOf(listed, selected)
  /\ Submit(SetParentOf(p))
  /\ UNCHANGED <<listed, selected, draft>>

\* The panel writes all it holds.
SaveAttack ==
  /\ selected \in Alive(listed) \cap Editable
  /\ Submit([Nothing EXCEPT !.level = <<selected, draft>>])
  /\ UNCHANGED <<listed, selected, draft>>

Associate(a) ==
  /\ a \in (Alive(listed) \ listed.exploits) \cap Passing
  /\ Submit([Nothing EXCEPT !.exploit = {a}])
  /\ UNCHANGED <<listed, selected, draft>>

RemoveAssociation(a) ==
  /\ a \in listed.exploits \cap Passing
  /\ Submit([Nothing EXCEPT !.spare = {a}])
  /\ UNCHANGED <<listed, selected, draft>>

\* A technique of the reference catalogue, as a new Attack, which is selected.
\* (The link to the catalogue is created next; the Attack stays without it.)
CloneReference(a) ==
  /\ Unused(a)
  /\ Submit([Nothing EXCEPT !.new = a, !.level = <<a, 2>>, !.exploit = {a}])
  /\ selected' = a
  /\ UNCHANGED <<listed, draft>>

-----------------------------------------------------------------------------
\* Other users.
TheirAttackEdit ==
  /\ AttackOthers
  /\ listed = base                  \* bound: one change of theirs not seen yet
  /\ \/ \E a \in Alive(base) \cap Editable : \E l \in Level \ {base.level[a]} :
          base' = [base EXCEPT !.level[a] = l]
     \/ \E c, p \in Alive(base) :
          /\ <<c, p>> \notin base.above /\ Parents(base, c) = {}
          /\ AcyclicAbove(base.above \cup {<<c, p>>})
          /\ base' = [base EXCEPT !.above = @ \cup {<<c, p>>}]
     \/ \E pair \in base.above : base' = [base EXCEPT !.above = @ \ {pair}]
     \/ \E a \in Alive(base) \cap Passing :
          base' = [level |-> [base.level EXCEPT ![a] = NoAttack],
                   above |-> {pair \in base.above : a \notin {pair[1], pair[2]}},
                   exploits |-> base.exploits \ {a}]
  /\ UNCHANGED <<listed, selected, draft>>

AttackNext ==
  \/ AttackRefetch \/ SaveAttack \/ TheirAttackEdit
  \/ \E a \in Attack : SelectAttack(a) \/ Associate(a) \/ RemoveAssociation(a)
  \/ \E p \in Attack \cup {NoAttack} : SetParent(p)
  \/ \E p \in Attack, c \in Attack : AttachExisting(p, c)
  \/ \E l \in Level : EditLevel(l)
  \/ \E a \in Attack, l \in Level, p \in Attack \cup {NoAttack} : CreateAttack(p, a, l)
  \/ \E a \in Attack : CloneReference(a)

AttackSpec == AttackInit /\ [][AttackNext]_attackVars

-----------------------------------------------------------------------------
\* The hierarchy stays a tree as long as what it is edited on is what there is:
\* no commit prepared so gives an Attack a second parent.
Tree(b) == \A a \in Attack : Cardinality(Parents(b, a)) <= 1
TreeNotDag ==
  [][base' # base /\ listed = base /\ Tree(base) => Tree(base')]_attackVars

=============================================================================
