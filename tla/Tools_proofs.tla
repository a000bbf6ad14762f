------------------------------ MODULE Tools_proofs ------------------------------
(* The tool windows, for every size of the SoI: what the Trace Tool shows is what *)
(* it commits, the Attack Tool's hierarchy stays a tree, and the State Tool draws *)
(* no two blocks in one place and keeps the transitions it does not edit.         *)
EXTENDS StateTool, StateDiagram, AttackTool, TraceTool, ContextTool,
        FiniteSetTheorems, SequenceTheorems, WellFoundedInduction, TLAPS

\* A set of natural numbers has a smallest one.
LEMMA LessIsWellFounded ==
  \E R : IsWellFoundedOn(R, Nat) /\ \A x, y \in Nat : <<y, x>> \in R <=> y < x
  <1>1. \A x, y \in Nat : <<y, x>> \in OpToRel(<, Nat) <=> y < x
    BY DEF OpToRel
  <1>. QED
    BY <1>1, NatLessThanWellFounded, Zenon

LEMMA Smallest ==
  ASSUME NEW S \in SUBSET Nat, S # {}
  PROVE  Min(S) \in S /\ \A y \in S : Min(S) <= y
  <1>1. PICK R : IsWellFoundedOn(R, Nat) /\ \A x, y \in Nat : <<y, x>> \in R <=> y < x
    BY LessIsWellFounded
  <1>2. PICK x \in S : \A y \in S : ~ (<<y, x>> \in R)
    BY <1>1, WFMin
  <1>3. \A y \in S : ~(y < x)
    BY <1>1, <1>2
  <1>4. \A y \in S : x <= y
    BY <1>3
  <1>. QED
    BY <1>4 DEF Min

-----------------------------------------------------------------------------
\* The Trace Tool.

Types == ToSet(Cycle)
TraceGraph ==
  [rel : [Asset \X TraceCell -> Types], invalid : SUBSET (Asset \X TraceCell \X Types),
   alive : SUBSET TraceState, born : SUBSET TraceState, flags : [Asset \cup Entity -> BOOLEAN]]

MatrixInv ==
  /\ graph \in TraceGraph /\ matrix \in TraceGraph /\ asset \in Asset \cup {NoAsset}
  /\ DOMAIN marks \subseteq TraceCell
  /\ \A c \in DOMAIN marks : marks[c] \in Types
  /\ DOMAIN marks # {} => asset \in Asset

LEMMA CycleTypes ==
  /\ NoType \in Types /\ RelType \subseteq Types
  /\ \A i \in 1..Len(Cycle) : Cycle[i] \in Types
  /\ \A t \in Types : NextType(t) \in Types
  <1>1. Cycle \in Seq(Types) /\ NoType \in Types /\ Types = {Cycle[i] : i \in DOMAIN Cycle}
    BY TraceToolAssumption DEF Types, ToSet
  <1>2. DOMAIN Cycle = 1..Len(Cycle) /\ Len(Cycle) \in Nat
    BY <1>1
  <1>3. \A i \in 1..Len(Cycle) : Cycle[i] \in Types
    BY <1>1, <1>2
  <1>4. ASSUME NEW t \in Types PROVE NextType(t) \in Types
    <2>. DEFINE i == CHOOSE i \in DOMAIN Cycle : Cycle[i] = t
    <2>1. i \in 1..Len(Cycle) /\ Len(Cycle) > 0
      BY <1>1, <1>2
    <2>. HIDE DEF i
    <2>2. (i % Len(Cycle)) + 1 \in 1..Len(Cycle)
      BY <1>2, <2>1
    <2>3. Cycle[(i % Len(Cycle)) + 1] \in Types
      BY <1>3, <2>2
    <2>. QED
      BY <2>3 DEF NextType, i
  <1>. QED
    BY <1>1, <1>3, <1>4 DEF RelType, Types

\* What the Backend makes of operations on one Asset's cells.
LEMMA RecomputedTypes ==
  ASSUME NEW g \in TraceGraph
  PROVE  Recomputed(g) \in TraceGraph /\ Recomputed(g).rel = g.rel
  BY DEF Recomputed, TraceGraph, Inherits

LEMMA CommittedTypes ==
  ASSUME NEW g \in TraceGraph, NEW a \in Asset, NEW ops, \A o \in ops : o.type \in Types
  PROVE  /\ Committed(g, a, ops) \in TraceGraph
         /\ \A b \in Asset, c \in TraceCell :
              Committed(g, a, ops).rel[<<b, c>>] =
                IF b = a THEN Traced(g, a, c, ops) ELSE g.rel[<<b, c>>]
  <1>. DEFINE rel == [x \in DOMAIN g.rel |->
                        IF x[1] = a THEN Traced(g, a, x[2], ops) ELSE g.rel[x]]
              h == [g EXCEPT !.rel = rel]
  <1>1. \A c \in TraceCell : Traced(g, a, c, ops) \in Types
    <2>. SUFFICES ASSUME NEW c \in TraceCell PROVE Traced(g, a, c, ops) \in Types
      OBVIOUS
    <2>1. g.rel[<<a, c>>] \in Types
      BY DEF TraceGraph
    <2>. QED
      BY <2>1, CycleTypes DEF Traced
  <1>2. rel \in [Asset \X TraceCell -> Types]
    BY <1>1 DEF TraceGraph
  <1>3. \A b \in Asset, c \in TraceCell :
          rel[<<b, c>>] = IF b = a THEN Traced(g, a, c, ops) ELSE g.rel[<<b, c>>]
    BY DEF TraceGraph
  <1>4. Committed(g, a, ops) = Recomputed(h)
    BY DEF Committed
  <1>. HIDE DEF rel
  <1>5. h \in TraceGraph /\ h.rel = rel
    BY <1>2 DEF TraceGraph
  <1>. HIDE DEF h
  <1>. QED
    BY <1>3, <1>4, <1>5, RecomputedTypes

LEMMA CommittedCell ==
  ASSUME NEW g \in TraceGraph, NEW a \in Asset, NEW ops, \A o \in ops : o.type \in Types,
         NEW b \in Asset, NEW c \in TraceCell
  PROVE  Committed(g, a, ops).rel[<<b, c>>] =
           IF b = a THEN Traced(g, a, c, ops) ELSE g.rel[<<b, c>>]
  BY CommittedTypes

LEMMA WithoutStateTypes ==
  ASSUME NEW g \in TraceGraph, NEW s \in TraceState
  PROVE  WithoutState(g, s) \in TraceGraph
  <1>. DEFINE rel == [x \in DOMAIN g.rel |-> IF x[2][2] = s THEN NoType ELSE g.rel[x]]
              gone == {<<x[1], x[2], g.rel[x]>> : x \in
                         {x \in DOMAIN g.rel : x[2][2] = s /\ g.rel[x] # NoType}}
              h == [g EXCEPT !.alive = @ \ {s}, !.rel = rel, !.invalid = @ \cup gone]
  <1>1. rel \in [Asset \X TraceCell -> Types]
    BY CycleTypes DEF TraceGraph
  <1>2. gone \subseteq Asset \X TraceCell \X Types
    BY DEF TraceGraph
  <1>3. WithoutState(g, s) = Recomputed(h)
    BY DEF WithoutState
  <1>. HIDE DEF rel, gone
  <1>4. h \in TraceGraph
    BY <1>1, <1>2 DEF TraceGraph
  <1>. HIDE DEF h
  <1>. QED
    BY <1>3, <1>4, RecomputedTypes

LEMMA OperationTypes ==
  ASSUME MatrixInv
  PROVE  \A o \in Operations : o.type \in Types
  <1>1. \A c \in DOMAIN marks : marks[c] \in Types /\ Persisted(c) \in Types
    BY DEF MatrixInv, Persisted, TraceGraph
  <1>. QED
    BY <1>1 DEF Operations, TraceOp, ClearOp

LEMMA MatrixInit ==
  ASSUME TraceInit
  PROVE  MatrixInv
  <1>1. graph \in TraceGraph
    BY CycleTypes, TraceToolAssumption DEF TraceInit, TraceGraph
  <1>. QED
    BY <1>1 DEF TraceInit, MatrixInv

LEMMA MatrixNext ==
  ASSUME MatrixInv, [TraceNext]_traceVars
  PROVE  MatrixInv'
  <1>1. CASE UNCHANGED traceVars
    BY <1>1 DEF MatrixInv, traceVars, TraceCell, Types
  <1>2. CASE CommitTrace
    <2>1. DOMAIN marks # {} \/ graph' = graph
      BY <1>2 DEF CommitTrace, Operations
    <2>2. graph' \in TraceGraph
      BY <1>2, <2>1, OperationTypes, CommittedTypes DEF CommitTrace, MatrixInv
    <2>3. marks' = marks \/ DOMAIN marks' = {}
      BY <1>2 DEF CommitTrace
    <2>. QED
      BY <1>2, <2>2, <2>3 DEF CommitTrace, MatrixInv
  <1>3. CASE RevertMarks \/ ReopenTrace \/ TraceRefetch
    BY <1>3 DEF RevertMarks, ReopenTrace, TraceRefetch, Free, MatrixInv
  <1>4. CASE NewColumn
    <2>1. PICK s \in TraceState :
            graph' = [graph EXCEPT !.alive = @ \cup {s}, !.born = @ \cup {s}]
      BY <1>4 DEF NewColumn
    <2>2. graph' \in TraceGraph
      BY <2>1 DEF MatrixInv, TraceGraph
    <2>. QED
      BY <1>4, <2>2 DEF NewColumn, MatrixInv
  <1>5. CASE TheirTrace
    <2>1. CASE \E pair \in Rewriting, c \in Entity \X graph.alive, t \in RelType :
                 \E o \in {TraceOp(c, t), ClearOp(c, t)} : graph' = Committed(graph, pair[1], {o})
      <3>1. PICK pair \in Rewriting, t \in RelType :
               \E o : graph' = Committed(graph, pair[1], {o}) /\ o.type = t
        BY <2>1 DEF TraceOp, ClearOp
      <3>2. PICK o : graph' = Committed(graph, pair[1], {o}) /\ o.type = t
        BY <3>1
      <3>3. pair[1] \in Asset /\ o.type \in Types
        BY <3>2, CycleTypes, TraceToolAssumption
      <3>. QED
        BY <1>5, <3>2, <3>3, CommittedTypes DEF TheirTrace, MatrixInv
    <2>2. CASE \E s \in graph.alive : graph' = WithoutState(graph, s)
      BY <1>5, <2>2, WithoutStateTypes DEF TheirTrace, MatrixInv, TraceGraph
    <2>3. CASE \E pair \in Rewriting : graph' = [graph EXCEPT !.flags[pair[1]] = TRUE]
      <3>1. graph' \in TraceGraph
        BY <2>3 DEF MatrixInv, TraceGraph
      <3>. QED
        BY <1>5, <3>1 DEF TheirTrace, MatrixInv
    <2>. QED
      BY <1>5, <2>1, <2>2, <2>3 DEF TheirTrace
  <1>6. ASSUME NEW a \in Asset \cup {NoAsset}, SelectAsset(a) PROVE MatrixInv'
    BY <1>6 DEF SelectAsset, Free, MatrixInv
  <1>7. ASSUME NEW c \in TraceCell, NEW t \in Types, SetCell(c, t) PROVE MatrixInv'
    <2>1. asset \in Asset
      BY <1>7, TraceToolAssumption DEF SetCell
    <2>. QED
      BY <1>7, <2>1 DEF SetCell, Free, MatrixInv, Unmarked
  <1>8. ASSUME NEW c \in TraceCell, CycleCell(c) PROVE MatrixInv'
    <2>1. asset \in Asset
      BY <1>8, TraceToolAssumption DEF CycleCell
    <2>2. Staged(c) \in Types
      BY <2>1 DEF Staged, Persisted, MatrixInv, TraceGraph
    <2>. QED
      BY <1>7, <1>8, <2>2, CycleTypes DEF CycleCell
  <1>9. ASSUME NEW x \in matrix.invalid, Acknowledge(x) PROVE MatrixInv'
    BY <1>9 DEF Acknowledge, MatrixInv
  <1>. QED
    BY <1>1, <1>2, <1>3, <1>4, <1>5, <1>6, <1>7, <1>8, <1>9 DEF TraceNext, Types

\* A staged cell has one operation, or none where there is nothing to clear.
LEMMA OneOperation ==
  ASSUME MatrixInv, NEW c \in TraceCell
  PROVE  {o \in Operations : c \in o.cells} =
           IF c \notin DOMAIN marks THEN {}
           ELSE IF marks[c] # NoType THEN {TraceOp(c, marks[c])}
           ELSE IF Persisted(c) # NoType THEN {ClearOp(c, Persisted(c))} ELSE {}
  BY DEF Operations, TraceOp, ClearOp

LEMMA TracedAsShown ==
  ASSUME MatrixInv, CommitTrace, NEW c \in TraceCell, asset \in Asset
  PROVE  IF c \in DOMAIN marks
         THEN graph.rel[<<asset, c>>] = Persisted(c) =>
                Traced(graph, asset, c, Operations) = Staged(c)
         ELSE Traced(graph, asset, c, Operations) = graph.rel[<<asset, c>>]
  <1>. DEFINE here == {o \in Operations : c \in o.cells}
  <1>1. CASE c \in DOMAIN marks /\ marks[c] # NoType
    <2>1. here = {TraceOp(c, marks[c])}
      BY <1>1, OneOperation
    <2>2. (CHOOSE o \in here : ~o.clear) = TraceOp(c, marks[c])
      BY <2>1 DEF TraceOp
    <2>. QED
      BY <1>1, <2>1, <2>2 DEF Traced, Staged, TraceOp
  <1>2. CASE c \in DOMAIN marks /\ marks[c] = NoType /\ Persisted(c) # NoType
    <2>1. here = {ClearOp(c, Persisted(c))}
      BY <1>2, OneOperation
    <2>2. /\ ClearOp(c, Persisted(c)).clear /\ ClearOp(c, Persisted(c)).type = Persisted(c)
          /\ Staged(c) = NoType
      BY <1>2 DEF Staged, ClearOp
    <2>3. graph.rel[<<asset, c>>] = Persisted(c) =>
            Traced(graph, asset, c, Operations) = NoType
      BY <2>1, <2>2 DEF Traced
    <2>. QED
      BY <1>2, <2>2, <2>3
  <1>3. CASE c \notin DOMAIN marks \/ (marks[c] = NoType /\ Persisted(c) = NoType)
    <2>1. here = {}
      BY <1>3, OneOperation
    <2>. QED
      BY <1>3, <2>1 DEF Traced, Staged
  <1>. QED
    BY <1>1, <1>2, <1>3

\* What the Trace Tool's matrix holds is well formed throughout.
THEOREM MatrixSafe == TraceSpec => []MatrixInv
  BY MatrixInit, MatrixNext, PTL DEF TraceSpec

\* A commit makes the cells staged what they were shown to be, and no other.
THEOREM CommittedAsShown == TraceSpec => CommitIsWhatIsShown
  <1>. DEFINE AsShown ==
         \A a \in Asset, c \in TraceCell :
           IF a = asset /\ c \in DOMAIN marks
           THEN graph.rel[<<a, c>>] = matrix.rel[<<a, c>>] => graph'.rel[<<a, c>>] = Staged(c)
           ELSE graph'.rel[<<a, c>>] = graph.rel[<<a, c>>]
  <1>1. ASSUME MatrixInv, CommitTrace PROVE AsShown
    <2>1. CASE asset \notin Asset
      <3>1. Operations = {} /\ graph' = graph
        BY <1>1, <2>1 DEF MatrixInv, CommitTrace, Operations
      <3>. QED
        BY <2>1, <3>1
    <2>2. CASE asset \in Asset /\ Operations # {}
      <3>1. graph' = Committed(graph, asset, Operations)
        BY <1>1, <2>2 DEF CommitTrace
      <3>2. \A b \in Asset, c \in TraceCell :
              graph'.rel[<<b, c>>] = IF b = asset THEN Traced(graph, asset, c, Operations)
                                     ELSE graph.rel[<<b, c>>]
        <4>1. graph \in TraceGraph /\ \A o \in Operations : o.type \in Types
          BY <1>1, OperationTypes DEF MatrixInv
        <4>2. PICK ops : ops = Operations
          OBVIOUS
        <4>3. graph' = Committed(graph, asset, ops)
          BY <3>1, <4>2
        <4>4. \A o \in ops : o.type \in Types
          BY <4>1, <4>2
        <4>5. \A b \in Asset, c \in TraceCell :
                Committed(graph, asset, ops).rel[<<b, c>>] =
                  IF b = asset THEN Traced(graph, asset, c, ops) ELSE graph.rel[<<b, c>>]
          <5>1. SUFFICES ASSUME NEW b \in Asset, NEW c \in TraceCell
                         PROVE  Committed(graph, asset, ops).rel[<<b, c>>] =
                                  IF b = asset THEN Traced(graph, asset, c, ops)
                                  ELSE graph.rel[<<b, c>>]
            OBVIOUS
          <5>2. graph \in TraceGraph /\ asset \in Asset
            BY <2>2, <4>1
          <5>. QED
            BY <4>4, <5>2, CommittedCell
        <4>. QED
          BY <4>2, <4>3, <4>5
      <3>. QED
        BY <1>1, <2>2, <3>2, TracedAsShown DEF Persisted
    <2>3. CASE asset \in Asset /\ Operations = {}
      <3>1. graph' = graph
        BY <1>1, <2>3 DEF CommitTrace
      <3>2. \A c \in DOMAIN marks : marks[c] = NoType /\ Persisted(c) = NoType
        BY <2>3 DEF Operations
      <3>. QED
        BY <3>1, <3>2 DEF Staged, Persisted
    <2>. QED
      BY <2>1, <2>2, <2>3
  <1>2. ASSUME MatrixInv, [TraceNext]_traceVars
        PROVE  [CommitTrace => AsShown]_traceVars
    BY <1>1, <1>2
  <1>. QED
    BY <1>2, MatrixSafe, PTL DEF TraceSpec, CommitIsWhatIsShown

-----------------------------------------------------------------------------
\* The Attack Tool.

LEMMA AtMostOne ==
  ASSUME NEW S, IsFiniteSet(S)
  PROVE  Cardinality(S) <= 1 <=> \A x, y \in S : x = y
  <1>1. Cardinality(S) \in Nat
    BY FS_CardinalityType
  <1>2. Cardinality(S) = 0 <=> S = {}
    BY FS_EmptySet
  <1>3. Cardinality(S) = 1 <=> \E x : S = {x}
    BY FS_Singleton
  <1>4. (\A x, y \in S : x = y) <=> S = {} \/ \E x : S = {x}
    OBVIOUS
  <1>5. Cardinality(S) <= 1 <=> Cardinality(S) = 0 \/ Cardinality(S) = 1
    BY <1>1
  <1>. QED
    BY <1>2, <1>3, <1>4, <1>5, Zenon

LEMMA ParentsFinite ==
  ASSUME NEW b, NEW a
  PROVE  IsFiniteSet(Parents(b, a)) /\ Parents(b, a) \subseteq Attack
  <1>1. Parents(b, a) \in SUBSET Attack
    BY DEF Parents
  <1>. QED
    BY <1>1, FS_Subset, AttackToolAssumption

\* A hierarchy in which an Attack has one parent at most.
OneParent(above) == \A a, p, q \in Attack : <<a, p>> \in above /\ <<a, q>> \in above => p = q

LEMMA TreeIsOneParent ==
  ASSUME NEW b
  PROVE  Tree(b) <=> OneParent(b.above)
  <1>1. ASSUME NEW a \in Attack
        PROVE  Cardinality(Parents(b, a)) <= 1
                 <=> \A p, q \in Attack : <<a, p>> \in b.above /\ <<a, q>> \in b.above => p = q
    <2>1. Cardinality(Parents(b, a)) <= 1 <=> \A p, q \in Parents(b, a) : p = q
      BY ParentsFinite, AtMostOne
    <2>. QED
      BY <2>1 DEF Parents
  <1>. QED
    BY <1>1 DEF Tree, OneParent

\* The parent that is answered is the one there is, if there is one.
LEMMA ParentOfTree ==
  ASSUME NEW b, OneParent(b.above), NEW a \in Attack
  PROVE  \/ ParentOf(b, a) = NoAttack /\ Parents(b, a) = {}
         \/ ParentOf(b, a) \in Attack /\ Parents(b, a) = {ParentOf(b, a)}
  <1>1. CASE Parents(b, a) = {}
    BY <1>1 DEF ParentOf
  <1>2. ASSUME NEW p \in Parents(b, a)
        PROVE  ParentOf(b, a) = p /\ Parents(b, a) = {p} /\ p \in Attack
    <2>1. p \in Attack /\ Parents(b, a) = {p}
      BY <1>2 DEF Parents, OneParent
    <2>2. p <= p
      BY <2>1, AttackToolAssumption
    <2>3. Min({p}) = p
      BY <2>2 DEF Min
    <2>. QED
      BY <2>1, <2>3 DEF ParentOf
  <1>. QED
    BY <1>1, <1>2

\* The database and the window's copy: Attacks there are, and pairs of them.
Base ==
  [level : [Attack -> Level \cup {NoAttack}], above : SUBSET (Attack \X Attack),
   exploits : SUBSET Attack]
Joins(b) == \A pair \in b.above : pair[1] \in Alive(b) /\ pair[2] \in Alive(b)

AttacksInv ==
  /\ base \in Base /\ Joins(base)
  /\ listed \in Base /\ Joins(listed)
  /\ selected \in Attack \cup {NoAttack} /\ draft \in Level

LEMMA LevelsAre ==
  2 \in Level /\ 3 \in Level /\ NoAttack \notin Level /\ NoAttack \notin Attack
  BY AttackToolAssumption

LEMMA AliveLevel ==
  ASSUME NEW b \in Base, NEW a \in Alive(b)
  PROVE  b.level[a] \in Level /\ a \in Attack
  BY DEF Alive, Base

\* What the window asks of the database.
Request ==
  [new : Attack \cup {NoAttack}, remove : SUBSET (Attack \X Attack),
   add : SUBSET (Attack \X Attack), level : {<<>>} \cup (Attack \X Level),
   exploit : SUBSET Attack, spare : SUBSET Attack]
Sound(r) == r \in Request /\ (r.new # NoAttack => r.level \in Attack \X Level /\ r.level[1] = r.new)

LEMMA SubmitInv ==
  ASSUME base \in Base, Joins(base), NEW r, Sound(r), Submit(r)
  PROVE  base' \in Base /\ Joins(base') /\ (base' = base \/ base'.above = AboveAfter(r))
  <1>1. CASE ~Accepts(r)
    BY <1>1 DEF Submit
  <1>2. CASE Accepts(r)
    <2>. DEFINE level == IF r.level = <<>> THEN base.level
                         ELSE [base.level EXCEPT ![r.level[1]] = r.level[2]]
                exploits == (base.exploits \ r.spare) \cup r.exploit
    <2>1. base' = [level |-> level, above |-> AboveAfter(r), exploits |-> exploits]
      BY <1>2 DEF Submit
    <2>2. /\ level \in [Attack -> Level \cup {NoAttack}]
          /\ \A a \in Attack : base.level[a] # NoAttack \/ a = r.new => level[a] # NoAttack
      <3>1. base.level \in [Attack -> Level \cup {NoAttack}]
        BY DEF Base
      <3>2. CASE r.level = <<>>
        BY <3>1, <3>2, LevelsAre DEF Sound
      <3>3. CASE r.level # <<>>
        <4>1. r.level[1] \in Attack /\ r.level[2] \in Level
          BY <3>3 DEF Sound, Request
        <4>2. r.new # NoAttack => r.level[1] = r.new
          BY DEF Sound
        <4>3. level = [base.level EXCEPT ![r.level[1]] = r.level[2]]
          BY <3>3
        <4>. HIDE DEF level
        <4>. QED
          BY <3>1, <4>1, <4>2, <4>3, LevelsAre
      <3>. QED
        BY <3>2, <3>3
    <2>3. AboveAfter(r) \in SUBSET (Attack \X Attack) /\ exploits \in SUBSET Attack
      BY DEF AboveAfter, Base, Sound, Request
    <2>4. \A pair \in AboveAfter(r) : \A i \in {1, 2} :
            pair[i] \in Attack /\ (base.level[pair[i]] # NoAttack \/ pair[i] = r.new)
      BY <1>2, <2>3, LevelsAre DEF Joins, AboveAfter, Accepts, NamedBy, Alive
    <2>. HIDE DEF level, exploits
    <2>. QED
      BY <2>1, <2>2, <2>3, <2>4 DEF Base, Joins, Alive
  <1>. QED
    BY <1>1, <1>2

\* What the window submits is well formed, and its effect on a tree it has the
\* present copy of is a tree.
NewAttack(p, a, l) ==
  [Nothing EXCEPT !.new = a, !.level = <<a, l>>, !.exploit = {a},
                  !.add = IF p = NoAttack THEN {} ELSE {<<a, p>>}]
Clone(a)       == [Nothing EXCEPT !.new = a, !.level = <<a, 2>>, !.exploit = {a}]
SaveOf(a, l)   == [Nothing EXCEPT !.level = <<a, l>>]
AssociateOf(a) == [Nothing EXCEPT !.exploit = {a}]
RemoveOf(a)    == [Nothing EXCEPT !.spare = {a}]

LEMMA NothingAsked ==
  /\ Nothing \in Request /\ Nothing.new = NoAttack
  /\ Nothing.remove = {} /\ Nothing.add = {}
  BY DEF Nothing, Request

LEMMA SoundRequests ==
  /\ \A p \in Attack \cup {NoAttack}, a \in Attack, l \in Level : Sound(NewAttack(p, a, l))
  /\ \A a \in Attack, l \in Level : Sound(Clone(a)) /\ Sound(SaveOf(a, l))
  /\ \A a \in Attack : Sound(AssociateOf(a)) /\ Sound(RemoveOf(a))
  <1>1. ASSUME NEW p \in Attack \cup {NoAttack}, NEW a \in Attack, NEW l \in Level
        PROVE  Sound(NewAttack(p, a, l))
    <2>. DEFINE add == IF p = NoAttack THEN {} ELSE {<<a, p>>}
    <2>1. add \in SUBSET (Attack \X Attack)
      OBVIOUS
    <2>2. NewAttack(p, a, l) = [Nothing EXCEPT !.new = a, !.level = <<a, l>>, !.exploit = {a},
                                               !.add = add]
      BY DEF NewAttack
    <2>. HIDE DEF add
    <2>3. PICK lv : lv = <<a, l>>
      OBVIOUS
    <2>4. lv \in Attack \X Level /\ lv[1] = a
      BY <2>3
    <2>5. NewAttack(p, a, l) = [Nothing EXCEPT !.new = a, !.level = lv, !.exploit = {a},
                                               !.add = add]
      BY <2>2, <2>3
    <2>6. NewAttack(p, a, l).new = a /\ NewAttack(p, a, l).level = lv
      BY <2>5, NothingAsked DEF Request
    <2>7. NewAttack(p, a, l) \in Request
      <3>1. /\ lv \in {<<>>} \cup (Attack \X Level) /\ {a} \in SUBSET Attack
            /\ a \in Attack \cup {NoAttack}
        BY <2>4
      <3>. QED
        BY <2>1, <2>5, <3>1, NothingAsked DEF Request
    <2>. QED
      BY <2>4, <2>6, <2>7 DEF Sound
  <1>2. ASSUME NEW a \in Attack, NEW l \in Level
        PROVE  Sound(Clone(a)) /\ Sound(SaveOf(a, l))
    BY NothingAsked, LevelsAre DEF Sound, Request, Clone, SaveOf
  <1>3. ASSUME NEW a \in Attack
        PROVE  Sound(AssociateOf(a)) /\ Sound(RemoveOf(a))
    BY NothingAsked DEF Sound, Request, AssociateOf, RemoveOf
  <1>. QED
    BY <1>1, <1>2, <1>3

LEMMA ParentOfType ==
  ASSUME NEW b, NEW a
  PROVE  ParentOf(b, a) \in Attack \cup {NoAttack}
  <1>1. Parents(b, a) \in SUBSET Nat
    BY ParentsFinite, AttackToolAssumption
  <1>. QED
    BY <1>1, ParentsFinite, Smallest DEF ParentOf

LEMMA SoundHierarchy ==
  /\ \A p, c \in Attack : Sound(AttachOf(p, c))
  /\ \A p \in Attack \cup {NoAttack} : selected \in Attack => Sound(SetParentOf(p))
  <1>1. ASSUME NEW p \in Attack, NEW c \in Attack
        PROVE  Sound(AttachOf(p, c))
    <2>1. NextLevelDown(listed.level[p]) \in Level
      BY LevelsAre DEF NextLevelDown
    <2>2. PICK lv : lv = <<c, NextLevelDown(listed.level[p])>>
      OBVIOUS
    <2>3. lv \in Attack \X Level /\ AttachOf(p, c) = [Nothing EXCEPT !.add = {<<c, p>>}, !.level = lv]
      BY <2>1, <2>2 DEF AttachOf
    <2>4. AttachOf(p, c).new = NoAttack
      BY <2>3, NothingAsked DEF Request
    <2>5. AttachOf(p, c) \in Request
      <3>1. lv \in {<<>>} \cup (Attack \X Level)
        BY <2>3
      <3>2. {<<c, p>>} \in SUBSET (Attack \X Attack)
        OBVIOUS
      <3>3. PICK add : add = {<<c, p>>} /\ add \in SUBSET (Attack \X Attack)
        BY <3>2
      <3>. QED
        BY <2>3, <3>1, <3>3, NothingAsked DEF Request
    <2>. QED
      BY <2>4, <2>5 DEF Sound
  <1>2. ASSUME NEW p \in Attack \cup {NoAttack}, selected \in Attack
        PROVE  Sound(SetParentOf(p))
    <2>. DEFINE old == ParentOf(listed, selected)
                remove == IF old = NoAttack THEN {} ELSE {<<selected, old>>}
                add == IF p = NoAttack THEN {} ELSE {<<selected, p>>}
    <2>1. SetParentOf(p) = [Nothing EXCEPT !.remove = remove, !.add = add]
      BY DEF SetParentOf
    <2>2. old \in Attack \cup {NoAttack}
      BY ParentOfType
    <2>3. remove \in SUBSET (Attack \X Attack) /\ add \in SUBSET (Attack \X Attack)
      BY <1>2, <2>2
    <2>. HIDE DEF remove, add
    <2>. QED
      BY <2>1, <2>3, NothingAsked DEF Sound, Request
  <1>. QED
    BY <1>1, <1>2

-----------------------------------------------------------------------------
\* What the window commits.
Commits(r) ==
  \/ \E p \in Attack \cup {NoAttack}, a \in Attack, l \in Level :
       r = NewAttack(p, a, l) /\ Unused(a)
  \/ \E p, c \in Attack : r = AttachOf(p, c) /\ c \in AttachCandidates(p)
  \/ selected \in Attack /\ \E p \in Attack \cup {NoAttack} : r = SetParentOf(p)
  \/ \E a \in Attack, l \in Level : r = Clone(a) \/ r = SaveOf(a, l)
  \/ \E a \in Attack : r = AssociateOf(a) \/ r = RemoveOf(a)

WindowSteps ==
  \/ SaveAttack
  \/ \E a \in Attack : Associate(a) \/ RemoveAssociation(a) \/ CloneReference(a)
  \/ \E p \in Attack \cup {NoAttack} : SetParent(p)
  \/ \E p \in Attack, c \in Attack : AttachExisting(p, c)
  \/ \E a \in Attack, l \in Level, p \in Attack \cup {NoAttack} : CreateAttack(p, a, l)

LEMMA WindowCommits ==
  ASSUME AttacksInv, WindowSteps
  PROVE  /\ \E r : Commits(r) /\ Submit(r)
         /\ listed' = listed /\ draft' = draft /\ selected' \in Attack \cup {NoAttack}
  <1>1. ASSUME SaveAttack PROVE \E r : Commits(r) /\ Submit(r)
    <2>1. selected \in Attack /\ Submit(SaveOf(selected, draft))
      BY <1>1 DEF SaveAttack, SaveOf, Alive
    <2>. QED
      BY <2>1 DEF Commits, AttacksInv
  <1>2. ASSUME NEW a \in Attack, Associate(a) \/ RemoveAssociation(a) \/ CloneReference(a)
        PROVE  \E r : Commits(r) /\ Submit(r)
    <2>1. Submit(AssociateOf(a)) \/ Submit(RemoveOf(a)) \/ Submit(Clone(a))
      BY <1>2 DEF Associate, RemoveAssociation, CloneReference, AssociateOf, RemoveOf, Clone
    <2>. QED
      BY <2>1, LevelsAre DEF Commits
  <1>3. ASSUME NEW p \in Attack \cup {NoAttack}, SetParent(p)
        PROVE  \E r : Commits(r) /\ Submit(r)
    BY <1>3 DEF SetParent, Commits, Alive
  <1>4. ASSUME NEW p \in Attack, NEW c \in Attack, AttachExisting(p, c)
        PROVE  \E r : Commits(r) /\ Submit(r)
    BY <1>4 DEF AttachExisting, Commits
  <1>5. ASSUME NEW a \in Attack, NEW l \in Level, NEW p \in Attack \cup {NoAttack},
               CreateAttack(p, a, l)
        PROVE  \E r : Commits(r) /\ Submit(r)
    <2>1. Submit(NewAttack(p, a, l)) /\ Unused(a)
      BY <1>5 DEF CreateAttack, NewAttack
    <2>. QED
      BY <2>1 DEF Commits
  <1>6. listed' = listed /\ draft' = draft /\ selected' \in Attack \cup {NoAttack}
    BY DEF WindowSteps, AttacksInv, SaveAttack, Associate, RemoveAssociation, CloneReference,
       SetParent, AttachExisting, CreateAttack
  <1>. QED
    BY <1>1, <1>2, <1>3, <1>4, <1>5, <1>6 DEF WindowSteps

LEMMA CommitsSound ==
  ASSUME NEW r, Commits(r)
  PROVE  Sound(r)
  BY SoundRequests, SoundHierarchy DEF Commits

\* What others do keeps pairs of Attacks there are.
LEMMA TheirsInv ==
  ASSUME AttacksInv, TheirAttackEdit
  PROVE  AttacksInv' /\ (OneParent(base.above) => OneParent(base'.above))
  <1>1. /\ base.level \in [Attack -> Level \cup {NoAttack}]
        /\ base.above \subseteq Attack \X Attack /\ base.exploits \subseteq Attack
    BY DEF AttacksInv, Base
  <1>2. UNCHANGED <<listed, selected, draft>>
    BY DEF TheirAttackEdit
  <1>3. ASSUME NEW a \in Alive(base), NEW l \in Level, base' = [base EXCEPT !.level[a] = l]
        PROVE  base' \in Base /\ Joins(base') /\ base'.above = base.above
    <2>1. base' \in Base /\ base'.above = base.above
          /\ base'.level = [base.level EXCEPT ![a] = l]
      BY <1>3 DEF AttacksInv, Base, Alive
    <2>2. \A x \in Attack : base.level[x] # NoAttack => base'.level[x] # NoAttack
      BY <1>1, <2>1, LevelsAre
    <2>. QED
      BY <2>1, <2>2 DEF AttacksInv, Joins, Alive
  <1>4. ASSUME NEW c \in Alive(base), NEW p \in Alive(base), Parents(base, c) = {},
               base' = [base EXCEPT !.above = @ \cup {<<c, p>>}]
        PROVE  /\ base' \in Base /\ Joins(base')
               /\ OneParent(base.above) => OneParent(base'.above)
    <2>1. base' \in Base /\ base'.above = base.above \cup {<<c, p>>} /\ base'.level = base.level
      BY <1>4 DEF AttacksInv, Base, Alive
    <2>2. \A q \in Attack : <<c, q>> \notin base.above
      BY <1>4 DEF Parents
    <2>. QED
      BY <2>1, <2>2 DEF AttacksInv, Joins, Alive, OneParent
  <1>5. ASSUME NEW pair \in base.above, base' = [base EXCEPT !.above = @ \ {pair}]
        PROVE  base' \in Base /\ Joins(base') /\ base'.above \subseteq base.above
    BY <1>5 DEF AttacksInv, Base, Joins, Alive
  <1>6. ASSUME NEW a \in Alive(base),
               base' = [level |-> [base.level EXCEPT ![a] = NoAttack],
                        above |-> {pair \in base.above : a \notin {pair[1], pair[2]}},
                        exploits |-> base.exploits \ {a}]
        PROVE  base' \in Base /\ Joins(base') /\ base'.above \subseteq base.above
    <2>1. base' \in Base
      BY <1>1, <1>6 DEF Base
    <2>. QED
      BY <1>1, <1>6, <2>1 DEF AttacksInv, Joins, Alive
  <1>7. base' \in Base /\ Joins(base')
        /\ (OneParent(base.above) => OneParent(base'.above))
    BY <1>3, <1>4, <1>5, <1>6 DEF TheirAttackEdit, OneParent
  <1>. QED
    BY <1>2, <1>7 DEF AttacksInv

LEMMA AttacksNext ==
  ASSUME AttacksInv, [AttackNext]_attackVars
  PROVE  AttacksInv'
  <1>1. CASE UNCHANGED attackVars
    BY <1>1 DEF AttacksInv, attackVars, Alive, Joins, Base
  <1>2. CASE WindowSteps
    <2>1. PICK r : Commits(r) /\ Submit(r)
      BY <1>2, WindowCommits
    <2>2. base' \in Base /\ Joins(base')
      BY <2>1, CommitsSound, SubmitInv DEF AttacksInv
    <2>. QED
      BY <1>2, <2>2, WindowCommits DEF AttacksInv
  <1>3. CASE TheirAttackEdit
    BY <1>3, TheirsInv
  <1>4. CASE AttackRefetch \/ \E a \in Attack : SelectAttack(a)
    <2>1. /\ listed' = base \/ listed' = listed
          /\ selected' \in Attack \cup {NoAttack} /\ Seed /\ UNCHANGED base
      BY <1>4, AttackToolAssumption DEF AttackRefetch, SelectAttack, AttacksInv
    <2>2. listed' \in Base /\ Joins(listed)'
      BY <2>1 DEF AttacksInv, Joins, Alive
    <2>3. \A b \in Base : \A a \in Alive(b) : b.level[a] \in Level
      BY AliveLevel
    <2>4. draft' \in Level
      BY <2>1, <2>2, <2>3 DEF Seed, AttacksInv
    <2>. QED
      BY <2>1, <2>2, <2>4 DEF AttacksInv, Joins, Alive
  <1>5. ASSUME NEW l \in Level, EditLevel(l) PROVE AttacksInv'
    BY <1>5 DEF EditLevel, AttacksInv, Joins, Alive
  <1>. QED
    BY <1>1, <1>2, <1>3, <1>4, <1>5 DEF AttackNext, WindowSteps

LEMMA AttacksInit ==
  ASSUME AttackInit
  PROVE  AttacksInv
  <1>1. base \in Base
    BY AttackToolAssumption, LevelsAre DEF AttackInit, Base
  <1>2. base.above = {} /\ listed = base /\ selected = Focus
    BY DEF AttackInit
  <1>3. draft \in Level
    BY AttackToolAssumption, LevelsAre DEF AttackInit
  <1>4. selected \in Attack \cup {NoAttack}
    BY <1>2, AttackToolAssumption
  <1>. QED
    BY <1>1, <1>2, <1>3, <1>4 DEF AttacksInv, Joins

\* The Attacks, their hierarchy and the panel are well formed throughout.
THEOREM AttacksSafe == AttackSpec => []AttacksInv
  BY AttacksInit, AttacksNext, PTL DEF AttackSpec

\* A commit prepared on the hierarchy as it is leaves a tree.
LEMMA CommitKeepsTree ==
  ASSUME AttacksInv, listed = base, OneParent(base.above), NEW r, Commits(r)
  PROVE  OneParent(AboveAfter(r))
  <1>1. ASSUME NEW p \in Attack \cup {NoAttack}, NEW a \in Attack, NEW l \in Level,
               r = NewAttack(p, a, l), Unused(a)
        PROVE  OneParent(AboveAfter(r))
    <2>1. r.remove = {} /\ r.add \subseteq {<<a, p>>}
      BY <1>1 DEF NewAttack, Nothing
    <2>2. \A q : <<a, q>> \notin base.above
      BY <1>1 DEF AttacksInv, Joins, Unused
    <2>. QED
      BY <2>1, <2>2 DEF OneParent, AboveAfter
  <1>2. ASSUME NEW p \in Attack, NEW c \in Attack, r = AttachOf(p, c), c \in AttachCandidates(p)
        PROVE  OneParent(AboveAfter(r))
    <2>1. r.remove = {} /\ r.add = {<<c, p>>}
      BY <1>2 DEF AttachOf, Nothing
    <2>2. Parents(base, c) = {}
      BY <1>2, ParentOfTree, LevelsAre DEF AttachCandidates
    <2>3. \A q \in Attack : <<c, q>> \notin base.above
      BY <2>2 DEF Parents
    <2>. QED
      BY <2>1, <2>3 DEF OneParent, AboveAfter
  <1>3. ASSUME selected \in Attack, NEW p \in Attack \cup {NoAttack}, r = SetParentOf(p)
        PROVE  OneParent(AboveAfter(r))
    <2>. DEFINE old == ParentOf(base, selected)
    <2>1. /\ r.remove = IF old = NoAttack THEN {} ELSE {<<selected, old>>}
          /\ r.add \subseteq {<<selected, p>>}
      BY <1>3 DEF SetParentOf, Nothing
    <2>2. \A q \in Attack : <<selected, q>> \in base.above => q = old /\ old # NoAttack
      BY <1>3, ParentOfTree, LevelsAre DEF Parents
    <2>. HIDE DEF old
    <2>. QED
      BY <2>1, <2>2 DEF OneParent, AboveAfter
  <1>4. ASSUME NEW a \in Attack, NEW l \in Level,
               r \in {Clone(a), SaveOf(a, l), AssociateOf(a), RemoveOf(a)}
        PROVE  OneParent(AboveAfter(r))
    <2>1. r.remove = {} /\ r.add = {}
      BY <1>4 DEF Nothing, Clone, SaveOf, AssociateOf, RemoveOf
    <2>. QED
      BY <2>1 DEF OneParent, AboveAfter
  <1>. QED
    BY <1>1, <1>2, <1>3, <1>4, LevelsAre DEF Commits

\* Prepared on the window's copy of what there is, no commit gives an Attack a
\* second parent: the hierarchy stays a tree, for every set of Attacks.
THEOREM HierarchyStaysTree == AttackSpec => TreeNotDag
  <1>1. ASSUME AttacksInv, [AttackNext]_attackVars, base' # base, listed = base, Tree(base)
        PROVE  Tree(base')
    <2>1. OneParent(base.above)
      BY <1>1, TreeIsOneParent
    <2>2. CASE WindowSteps
      <3>1. PICK r : Commits(r) /\ Submit(r)
        BY <1>1, <2>2, WindowCommits
      <3>2. base'.above = AboveAfter(r)
        BY <1>1, <3>1, CommitsSound, SubmitInv DEF AttacksInv
      <3>3. OneParent(base'.above)
        BY <1>1, <2>1, <3>1, <3>2, CommitKeepsTree
      <3>. QED
        BY <3>3, TreeIsOneParent
    <2>3. CASE TheirAttackEdit
      BY <1>1, <2>1, <2>3, TheirsInv, TreeIsOneParent
    <2>4. CASE UNCHANGED base
      BY <1>1, <2>4
    <2>. QED
      BY <1>1, <2>2, <2>3, <2>4 DEF AttackNext, WindowSteps, AttackRefetch, SelectAttack,
         EditLevel, attackVars
  <1>2. ASSUME AttacksInv, [AttackNext]_attackVars
        PROVE  [base' # base /\ listed = base /\ Tree(base) => Tree(base')]_attackVars
    BY <1>1, <1>2
  <1>. QED
    BY <1>2, AttacksSafe, PTL DEF AttackSpec, TreeNotDag

-----------------------------------------------------------------------------
\* The State Tool's canvas.

\* A row and a place in it tell which block of the grid it is.
LEMMA GridPlace ==
  ASSUME NEW i \in Nat, NEW j \in Nat, i % Width = j % Width, i \div Width = j \div Width
  PROVE  i = j
  <1>1. Width \in Nat /\ Width > 0
    BY StateDiagramAssumption
  <1>2. \A n \in Nat : n = Width * (n \div Width) + (n % Width)
    BY <1>1
  <1>. QED
    BY <1>2

LEMMA GridTypes ==
  ASSUME NEW i \in Nat
  PROVE  i % Width \in Nat /\ i \div Width \in Nat
  <1>1. Width \in Nat /\ Width > 0
    BY StateDiagramAssumption
  <1>. QED
    BY <1>1

\* The places of States in the order listed are different ones.
LEMMA BeforeType ==
  ASSUME NEW T \in SUBSET State, NEW s
  PROVE  Before(T, s) \in Nat
  <1>1. {t \in T : t < s} \in SUBSET State
    OBVIOUS
  <1>. QED
    BY <1>1, FS_Subset, FS_CardinalityType, StateDiagramAssumption DEF Before

LEMMA BeforeGrows ==
  ASSUME NEW T \in SUBSET State, NEW s \in T, NEW t \in T, s < t
  PROVE  Before(T, s) < Before(T, t)
  <1>. DEFINE S == {u \in T : u < s}
              U == {u \in T : u < t}
  <1>1. \A u \in T : u \in Nat
    BY StateDiagramAssumption
  <1>2. S \cup {s} \in SUBSET U /\ s \notin S
    BY <1>1
  <1>3. IsFiniteSet(S) /\ IsFiniteSet(U)
    BY FS_Subset, StateDiagramAssumption
  <1>. HIDE DEF S, U
  <1>4. Cardinality(S \cup {s}) = Cardinality(S) + 1
    BY <1>2, <1>3, FS_AddElement
  <1>5. Cardinality(S \cup {s}) <= Cardinality(U)
    BY <1>2, <1>3, FS_Subset
  <1>6. Cardinality(S) \in Nat /\ Cardinality(U) \in Nat
    BY <1>3, FS_CardinalityType
  <1>. QED
    BY <1>4, <1>5, <1>6 DEF Before, S, U

LEMMA BeforeInjective ==
  ASSUME NEW T \in SUBSET State, NEW s \in T, NEW t \in T, Before(T, s) = Before(T, t)
  PROVE  s = t
  <1>1. s \in Nat /\ t \in Nat
    BY StateDiagramAssumption
  <1>2. Before(T, s) \in Nat
    BY BeforeType
  <1>3. ~(s < t) /\ ~(t < s)
    BY <1>2, BeforeGrows
  <1>. QED
    BY <1>1, <1>3

\* A set of natural numbers that has a bound has a greatest one.
LEMMA Greatest ==
  ASSUME NEW S \in SUBSET Nat, S # {}, NEW bound \in Nat, \A x \in S : x <= bound
  PROVE  Max(S) \in S /\ \A y \in S : y <= Max(S)
  <1>. DEFINE over == {n \in Nat : \A x \in S : x <= n}
              m == Min(over)
  <1>1. over \in SUBSET Nat /\ over # {}
    OBVIOUS
  <1>2. m \in over /\ \A n \in over : m <= n
    BY <1>1, Smallest
  <1>3. m \in Nat /\ \A x \in S : x <= m
    BY <1>2
  <1>4. m \in S
    <2>1. SUFFICES ASSUME m \notin S PROVE FALSE
      OBVIOUS
    <2>2. PICK x \in S : TRUE
      OBVIOUS
    <2>3. \A y \in S : y <= m - 1 /\ m > 0
      BY <1>3, <2>1
    <2>4. m - 1 \in over
      BY <1>3, <2>2, <2>3
    <2>. QED
      BY <1>2, <1>3, <2>4
  <1>. HIDE DEF m, over
  <1>5. \A y \in S : m >= y
    BY <1>3
  <1>6. PICK x \in S : x = Max(S) /\ \A y \in S : x >= y
    BY <1>4, <1>5 DEF Max
  <1>. QED
    BY <1>6

\* Where blocks are: one place each.
Arrangement(f) ==
  /\ DOMAIN f \subseteq State
  /\ \A s \in DOMAIN f : f[s] \in Nat \X Nat
  /\ \A s, t \in DOMAIN f : f[s] = f[t] => s = t
SavedView(f) == Arrangement(f) /\ \A s \in DOMAIN f : f[s][2] <= MaxRow

\* The places that are kept and those below them are all different.
LEMMA PlacedApart ==
  ASSUME NEW shown \in SUBSET State, NEW saved, SavedView(saved)
  PROVE  Arrangement(Placed(shown, saved))
  <1>. DEFINE kept == shown \cap DOMAIN saved
              new  == shown \ DOMAIN saved
              p    == Placed(shown, saved)
  <1>1. CASE kept = {}
    <2>1. p = [s \in shown |-> <<Before(shown, s), 0>>]
      BY <1>1 DEF Placed
    <2>. HIDE DEF p
    <2>2. \A s \in shown : p[s] \in Nat \X Nat
      BY <2>1, BeforeType
    <2>3. \A s, t \in shown : p[s] = p[t] => s = t
      BY <2>1, BeforeInjective
    <2>. QED
      BY <2>1, <2>2, <2>3 DEF Arrangement, p
  <1>2. CASE kept # {}
    <2>. DEFINE rows == {saved[s][2] : s \in kept}
                cols == {saved[s][1] : s \in kept}
                y == Max(rows) + 1
                x == Min(cols)
    <2>1. /\ rows \in SUBSET Nat /\ rows # {} /\ \A r \in rows : r <= MaxRow
          /\ cols \in SUBSET Nat /\ cols # {}
      BY <1>2 DEF SavedView, Arrangement
    <2>2. Max(rows) \in Nat /\ \A r \in rows : r <= Max(rows)
      BY <2>1, Greatest, StateDiagramAssumption
    <2>3. Min(cols) \in Nat
      BY <2>1, Smallest
    <2>4. x \in Nat /\ y \in Nat /\ \A s \in kept : saved[s][2] < y /\ saved[s] \in Nat \X Nat
      <3>1. \A s \in kept : saved[s] \in Nat \X Nat /\ saved[s][2] \in rows
        BY DEF SavedView, Arrangement
      <3>. HIDE DEF rows, cols
      <3>2. \A r \in rows : r \in Nat /\ r < Max(rows) + 1
        BY <2>1, <2>2
      <3>. QED
        BY <2>2, <2>3, <3>1, <3>2
    <2>5. p = GridFrom(y, x, shown, saved)
      BY <1>2 DEF Placed
    <2>. HIDE DEF x, y
    <2>. DEFINE col == [s \in new |-> Before(new, s) % Width]
                row == [s \in new |-> Before(new, s) \div Width]
    <2>6. DOMAIN p = shown /\ \A s \in kept : p[s] = saved[s]
      BY <2>5 DEF GridFrom
    <2>7. \A s \in new : p[s] = <<x + col[s], y + row[s]>>
      BY <2>5 DEF GridFrom
    <2>. HIDE DEF p
    <2>8. /\ col \in [new -> Nat] /\ row \in [new -> Nat]
          /\ \A s, t \in new : col[s] = col[t] /\ row[s] = row[t] => s = t
      <3>1. \A s \in new : Before(new, s) \in Nat
        BY BeforeType
      <3>. QED
        BY <3>1, GridTypes, GridPlace, BeforeInjective
    <2>. HIDE DEF col, row
    <2>9. \A s \in new : p[s] \in Nat \X Nat /\ p[s][2] >= y
      BY <2>4, <2>7, <2>8
    <2>10. ASSUME NEW s \in new, NEW t \in new, p[s] = p[t]
           PROVE  s = t
      <3>1. col[s] \in Nat /\ col[t] \in Nat /\ row[s] \in Nat /\ row[t] \in Nat
        BY <2>8
      <3>2. x + col[s] = x + col[t] /\ y + row[s] = y + row[t]
        BY <2>7, <2>10
      <3>3. col[s] = col[t] /\ row[s] = row[t]
        BY <2>4, <3>1, <3>2
      <3>. QED
        BY <2>8, <3>3
    <2>11. ASSUME NEW s \in kept, NEW t \in shown, p[s] = p[t]
           PROVE  s = t
      <3>1. t \notin new
        BY <2>4, <2>6, <2>9, <2>11
      <3>. QED
        BY <2>6, <2>11, <3>1 DEF SavedView, Arrangement
    <2>12. \A s \in shown : p[s] \in Nat \X Nat
      BY <2>4, <2>6, <2>9
    <2>13. \A s, t \in shown : p[s] = p[t] => s = t
      BY <2>10, <2>11
    <2>. QED
      BY <2>6, <2>12, <2>13 DEF Arrangement, p
  <1>. QED
    BY <1>1, <1>2

DiagramInv ==
  /\ system = [states |-> system.states, view |-> system.view]
  /\ system.states \subseteq State /\ SavedView(system.view)
  /\ drawn = [states |-> drawn.states, view |-> drawn.view]
  /\ drawn.states \subseteq State /\ SavedView(drawn.view)
  /\ mode \in {"diagram", "context", "criteria"}
  /\ Arrangement(at)

LEMMA VisibleStates ==
  ASSUME NEW states \in SUBSET State, NEW m \in {"diagram", "context", "criteria"},
         NEW picks, NEW s
  PROVE  Visible(states, m, picks, s) \in SUBSET State
  <1>1. CASE m = "diagram"
    BY <1>1 DEF Visible
  <1>2. CASE m = "context"
    BY <1>2 DEF Visible
  <1>3. CASE m = "criteria"
    BY <1>3 DEF Visible
  <1>. QED
    BY <1>1, <1>2, <1>3

LEMMA EmptyView == SavedView(<<>>)
  BY DEF SavedView, Arrangement

LEMMA DiagramFirst ==
  ASSUME DiagramInit
  PROVE  DiagramInv
  <1>1. mode \in {"diagram", "context", "criteria"}
    BY DEF DiagramInit
  <1>2. Visible(InitialStates, mode, {}, NoState) \in SUBSET State
    BY <1>1, VisibleStates, StateDiagramAssumption
  <1>3. Arrangement(at)
    BY <1>2, EmptyView, PlacedApart DEF DiagramInit
  <1>. QED
    BY <1>1, <1>3, EmptyView, StateDiagramAssumption DEF DiagramInit, DiagramInv

LEMMA DiagramNextInv ==
  ASSUME DiagramInv, [DiagramNext]_diagramVars
  PROVE  DiagramInv'
  <1>1. CASE UNCHANGED diagramVars
    BY <1>1 DEF DiagramInv, diagramVars, choices, SavedView, Arrangement
  <1>2. ASSUME Redraw, UNCHANGED system, mode' \in {"diagram", "context", "criteria"},
               drawn' = drawn \/ drawn' = system
        PROVE  DiagramInv'
    <2>1. /\ drawn' = [states |-> drawn'.states, view |-> drawn'.view]
          /\ drawn'.states \in SUBSET State /\ SavedView(drawn'.view)
      BY <1>2 DEF DiagramInv
    <2>2. PICK shown \in SUBSET State : at' = at \/ at' = Placed(shown, drawn'.view)
      <3>1. Visible(drawn'.states, mode', filters', chosen') \in SUBSET State
        BY <1>2, <2>1, VisibleStates
      <3>. QED
        BY <1>2, <3>1 DEF Redraw
    <2>3. Arrangement(at)'
      <3>1. CASE at' = at
        BY <3>1 DEF DiagramInv, Arrangement
      <3>2. CASE at' = Placed(shown, drawn'.view)
        <4>1. Arrangement(at')
          BY <2>1, <3>2, PlacedApart
        <4>. QED
          BY <4>1
      <3>. QED
        BY <2>2, <3>1, <3>2
    <2>. QED
      BY <1>2, <2>1, <2>3 DEF DiagramInv
  <1>3. CASE \/ \E m \in {"diagram", "context", "criteria"} : SetMode(m)
             \/ \E c \in Criterion : ToggleFilter(c)
             \/ \E s \in State \cup {NoState} : Choose(s)
             \/ Redrawn
    BY <1>2, <1>3 DEF SetMode, ToggleFilter, Choose, Redrawn, DiagramInv, choices
  <1>4. ASSUME NEW s \in State, NEW cell \in Room, Drag(s, cell) PROVE DiagramInv'
    <2>1. s \in DOMAIN at /\ cell \in Nat \X Nat /\ \A t \in DOMAIN at : at[t] # cell
      BY <1>4, StateDiagramAssumption DEF Drag, Range
    <2>2. Arrangement(at)'
      BY <1>4, <2>1 DEF Drag, DiagramInv, Arrangement
    <2>. QED
      BY <1>4, <2>2 DEF Drag, DiagramInv, choices
  <1>5. CASE SaveLayout
    <2>1. SavedView(at)
      BY <1>5 DEF SaveLayout, SavedView, DiagramInv
    <2>2. system' = [states |-> system.states, view |-> at]
          /\ UNCHANGED <<drawn, choices, at>>
      BY <1>5 DEF SaveLayout, Saved, DiagramInv
    <2>. QED
      BY <2>1, <2>2 DEF DiagramInv, choices
  <1>6. CASE CreateState \/ \E s \in State : DeleteState(s)
    <2>1. PICK states \in SUBSET State : system' = [system EXCEPT !.states = states]
      BY <1>6 DEF CreateState, DeleteState, DiagramInv
    <2>2. system' = [states |-> states, view |-> system.view]
      BY <2>1 DEF DiagramInv
    <2>3. UNCHANGED <<drawn, choices, at>>
      BY <1>6 DEF CreateState, DeleteState
    <2>. QED
      BY <2>2, <2>3 DEF DiagramInv, choices
  <1>. QED
    BY <1>1, <1>3, <1>4, <1>5, <1>6 DEF DiagramNext

\* No two blocks are drawn in one place, for every set of States, every width of
\* the canvas and every arrangement, saved under filters or not.
THEOREM PlacedInOnePlace == DiagramSpec => []BlocksApart
  <1>1. DiagramInv => BlocksApart
    BY DEF DiagramInv, BlocksApart, Arrangement, IsInjective
  <1>. QED
    BY <1>1, DiagramFirst, DiagramNextInv, PTL DEF DiagramSpec
-----------------------------------------------------------------------------
\* The State Tool's transitions.

Item  == [name : Transition, text : {"old", "new"}]
SoI   == [between : Seq(Item), links : SUBSET Link]
Panel == [index : Nat, draft : Item, current : BOOLEAN]

\* What the panel commits, when list and choice are of the same time: the list
\* with one of its transitions rewritten or removed.
OneEdited(list, seenList, name, gone) ==
  \E i \in DOMAIN seenList :
    /\ seenList[i].name = name
    /\ \/ gone = {} /\ \E d \in Item : d.name = name /\ list = [seenList EXCEPT ![i] = d]
       \/ gone = {name} /\ list = RemoveAt(seenList, i)

Recreation ==
  {r \in [kind : {"recreate"}, list : Seq(Item), of : Transition, gone : SUBSET Transition,
          seen : Seq(Item) \cup {None}] :
     r.seen = None \/ OneEdited(r.list, r.seen, r.of, r.gone)}
Messages ==
  Recreation \cup [kind : {"create"}, name : Transition]
             \cup [kind : {"link", "unlink"}, link : Link]

TransitionsInv ==
  /\ soi \in SoI /\ seen \in SoI /\ out \in Seq(Messages)
  /\ \/ picked = None
     \/ /\ picked \in Panel
        /\ picked.current => /\ picked.index \in DOMAIN seen.between
                             /\ seen.between[picked.index].name = picked.draft.name

LEMMA Removed ==
  ASSUME NEW T, NEW s \in Seq(T), NEW i \in 1..Len(s)
  PROVE  /\ RemoveAt(s, i) \in Seq(T) /\ Len(RemoveAt(s, i)) = Len(s) - 1
         /\ \A j \in 1..(Len(s) - 1) : RemoveAt(s, i)[j] = IF j < i THEN s[j] ELSE s[j + 1]
  <1>1. /\ SubSeq(s, 1, i - 1) \in Seq(T) /\ Len(SubSeq(s, 1, i - 1)) = i - 1
        /\ \A j \in 1..(i - 1) : SubSeq(s, 1, i - 1)[j] = s[j]
    OBVIOUS
  <1>2. /\ SubSeq(s, i + 1, Len(s)) \in Seq(T) /\ Len(SubSeq(s, i + 1, Len(s))) = Len(s) - i
        /\ \A j \in 1..(Len(s) - i) : SubSeq(s, i + 1, Len(s))[j] = s[j + i]
    OBVIOUS
  <1>. DEFINE before == SubSeq(s, 1, i - 1)  after == SubSeq(s, i + 1, Len(s))
  <1>3. RemoveAt(s, i) = before \o after
    BY DEF RemoveAt
  <1>. HIDE DEF before, after
  <1>4. /\ before \in Seq(T) /\ Len(before) = i - 1 /\ \A j \in 1..(i - 1) : before[j] = s[j]
        /\ after \in Seq(T) /\ Len(after) = Len(s) - i
        /\ \A j \in 1..(Len(s) - i) : after[j] = s[j + i]
    BY <1>1, <1>2 DEF before, after
  <1>5. /\ before \o after \in Seq(T) /\ Len(before \o after) = Len(before) + Len(after)
        /\ \A j \in 1..(Len(before) + Len(after)) :
             (before \o after)[j] = IF j <= Len(before) THEN before[j] ELSE after[j - Len(before)]
    BY <1>4, ConcatProperties
  <1>6. ASSUME NEW j \in 1..(Len(s) - 1)
        PROVE  RemoveAt(s, i)[j] = IF j < i THEN s[j] ELSE s[j + 1]
    <2>1. CASE j < i
      BY <1>3, <1>4, <1>5, <2>1
    <2>2. CASE j >= i
      <3>1. j - Len(before) \in 1..(Len(s) - i) /\ (j - Len(before)) + i = j + 1
        BY <1>4, <2>2
      <3>2. after[j - Len(before)] = s[j + 1]
        BY <1>4, <3>1
      <3>. QED
        BY <1>3, <1>4, <1>5, <2>2, <3>2
    <2>. QED
      BY <2>1, <2>2
  <1>. QED
    BY <1>3, <1>4, <1>5, <1>6

LEMMA Turned ==
  ASSUME NEW T, NEW a \in T, NEW b \in T, NEW s \in Orders(<<a, b>>)
  PROVE  s \in Seq(T)
  <1>1. Reverse(<<a, b>>) \in Seq(T)
    <2>1. Reverse(<<a, b>>) = [i \in 1..2 |-> <<a, b>>[(2 - i) + 1]]
      BY DEF Reverse
    <2>2. \A i \in 1..2 : <<a, b>>[(2 - i) + 1] \in T
      OBVIOUS
    <2>3. [i \in 1..2 |-> <<a, b>>[(2 - i) + 1]] \in [1..2 -> T]
      BY <2>2
    <2>4. [1..2 -> T] \subseteq Seq(T)
      BY SeqDef
    <2>. QED
      BY <2>1, <2>3, <2>4
  <1>2. <<a, b>> \in Seq(T)
    OBVIOUS
  <1>. QED
    BY <1>1, <1>2 DEF Orders

\* A name more than once in a list of one or two makes it shorter as a set.
LEMMA NamesDiffer ==
  ASSUME NEW s \in Seq(Item), Len(s) <= 2, Cardinality(Names(s)) = Len(s)
  PROVE  \A i, j \in 1..Len(s) : s[i].name = s[j].name => i = j
  <1>1. SUFFICES ASSUME Len(s) = 2, s[1].name = s[2].name PROVE FALSE
    OBVIOUS
  <1>2. Names(s) = {s[1].name}
    BY <1>1 DEF Names, ToSet
  <1>3. Cardinality({s[1].name}) = 1
    BY FS_Singleton
  <1>. QED
    BY <1>1, <1>2, <1>3

\* One edited or removed: the others are the same.
LEMMA OthersKept ==
  ASSUME NEW b \in Seq(Item), NEW list \in Seq(Item), NEW name, NEW gone,
         OneEdited(list, b, name, gone), Len(list) <= 1, Cardinality(Names(b)) = Len(b)
  PROVE  /\ {w \in ToSet(list) : w.name # name} = {w \in ToSet(b) : w.name # name}
         /\ Names(list) = Names(b) \ gone
  <1>1. PICK i \in 1..Len(b) :
          /\ b[i].name = name
          /\ \/ gone = {} /\ \E d \in Item : d.name = name /\ list = [b EXCEPT ![i] = d]
             \/ gone = {name} /\ list = RemoveAt(b, i)
    BY DEF OneEdited
  <1>2. ASSUME gone = {}, NEW d \in Item, d.name = name, list = [b EXCEPT ![i] = d]
        PROVE  /\ {w \in ToSet(list) : w.name # name} = {w \in ToSet(b) : w.name # name}
               /\ Names(list) = Names(b) \ gone
    <2>1. Len(b) = 1 /\ Len(list) = 1 /\ i = 1 /\ list[1] = d
      BY <1>2
    <2>2. ToSet(list) = {d} /\ ToSet(b) = {b[1]}
      BY <2>1 DEF ToSet
    <2>3. Names(list) = {d.name} /\ Names(b) = {b[1].name}
      BY <2>2 DEF Names
    <2>4. /\ {w \in ToSet(list) : w.name # name} = {}
          /\ {w \in ToSet(b) : w.name # name} = {}
      BY <1>1, <1>2, <2>1, <2>2
    <2>. QED
      BY <1>1, <1>2, <2>1, <2>3, <2>4
  <1>3. ASSUME gone = {name}, list = RemoveAt(b, i)
        PROVE  /\ {w \in ToSet(list) : w.name # name} = {w \in ToSet(b) : w.name # name}
               /\ Names(list) = Names(b) \ gone
    <2>1. /\ Len(list) = Len(b) - 1
          /\ \A j \in 1..(Len(b) - 1) : list[j] = IF j < i THEN b[j] ELSE b[j + 1]
      BY <1>3, Removed
    <2>2. \A k, j \in 1..Len(b) : b[k].name = b[j].name => k = j
      BY <2>1, NamesDiffer
    <2>3. ToSet(list) = {b[j] : j \in (1..Len(b)) \ {i}}
      <3>1. ToSet(list) = {list[j] : j \in 1..(Len(b) - 1)}
        <4>1. DOMAIN list = 1..(Len(b) - 1)
          BY <2>1, LenProperties
        <4>. QED
          BY <4>1 DEF ToSet
      <3>2. \A j \in 1..(Len(b) - 1) : \E k \in (1..Len(b)) \ {i} : list[j] = b[k]
        BY <2>1
      <3>3. \A k \in (1..Len(b)) \ {i} : \E j \in 1..(Len(b) - 1) : list[j] = b[k]
        <4>1. TAKE k \in (1..Len(b)) \ {i}
        <4>2. CASE k < i
          BY <2>1, <4>2
        <4>3. CASE k > i
          <5>1. k - 1 \in 1..(Len(b) - 1) /\ ~(k - 1 < i) /\ (k - 1) + 1 = k
            BY <4>3
          <5>2. list[k - 1] = b[(k - 1) + 1]
            BY <2>1, <5>1
          <5>. QED
            BY <5>1, <5>2
        <4>. QED
          BY <4>2, <4>3
      <3>4. ASSUME NEW w \in ToSet(list) PROVE w \in {b[j] : j \in (1..Len(b)) \ {i}}
        BY <3>1, <3>2
      <3>5. ASSUME NEW w \in {b[j] : j \in (1..Len(b)) \ {i}} PROVE w \in ToSet(list)
        BY <3>1, <3>3
      <3>. QED
        BY <3>4, <3>5
    <2>4. ToSet(b) = {b[j] : j \in 1..Len(b)}
      BY DEF ToSet
    <2>5. \A j \in 1..Len(b) : b[j].name = name <=> j = i
      BY <1>1, <2>2
    <2>. HIDE DEF OneEdited
    <2>6. {w \in ToSet(list) : w.name # name} = {w \in ToSet(b) : w.name # name}
      BY <2>3, <2>4, <2>5
    <2>7. Names(list) = Names(b) \ {name}
      BY <2>3, <2>4, <2>5 DEF Names
    <2>. QED
      BY <1>3, <2>6, <2>7
  <1>. QED
    BY <1>1, <1>2, <1>3

LEMMA Appended ==
  ASSUME NEW T, NEW s \in Seq(T), NEW e \in T
  PROVE  Append(s, e) \in Seq(T)
  OBVIOUS

LEMMA TransitionsFirst ==
  ASSUME StateInit
  PROVE  TransitionsInv
  <1>. DEFINE b == [i \in DOMAIN First |-> [name |-> First[i], text |-> "old"]]
  <1>1. First \in Seq(Transition) /\ DOMAIN First = 1..Len(First) /\ Len(First) \in Nat
    BY StateToolAssumption, LenProperties
  <1>2. \A i \in 1..Len(First) : [name |-> First[i], text |-> "old"] \in Item
    BY <1>1 DEF Item
  <1>3. b \in [1..Len(First) -> Item]
    BY <1>1, <1>2
  <1>4. b \in Seq(Item)
    BY <1>1, <1>3, SeqDef
  <1>5. soi = [between |-> b, links |-> {}] /\ seen = soi /\ picked = None /\ out = <<>>
    BY DEF StateInit
  <1>. HIDE DEF b
  <1>. QED
    BY <1>4, <1>5 DEF TransitionsInv, SoI

\* What the panel sends: the list computed from the copy, which is the list it was
\* chosen from unless it says there is none.
LEMMA PanelSends ==
  ASSUME TransitionsInv, picked # None
  PROVE  /\ [kind |-> "recreate", list |-> Edited, of |-> picked.draft.name,
             gone |-> {}, seen |-> Basis] \in Recreation
         /\ [kind |-> "recreate", list |-> Without, of |-> picked.draft.name,
             gone |-> {picked.draft.name}, seen |-> Basis] \in Recreation
  <1>. DEFINE b == seen.between  i == picked.index  d == picked.draft
  <1>1. /\ b \in Seq(Item) /\ DOMAIN b = 1..Len(b) /\ i \in Nat /\ d \in Item
        /\ d.name \in Transition
        /\ picked.current => i \in DOMAIN b /\ b[i].name = d.name
    BY LenProperties DEF TransitionsInv, SoI, Panel, Item
  <1>2. Edited \in Seq(Item)
    <2>1. Edited = [k \in 1..Len(b) |-> IF k = i THEN d ELSE b[k]]
      BY <1>1 DEF Edited
    <2>2. Edited \in [1..Len(b) -> Item]
      BY <1>1, <2>1
    <2>. QED
      BY <1>1, <2>2, SeqDef, LenProperties
  <1>3. Without \in Seq(Item)
    <2>1. CASE i \in 1..Len(b)
      <3>1. RemoveAt(b, i) \in Seq(Item)
        BY <1>1, <2>1, Removed
      <3>. QED
        BY <1>1, <2>1, <3>1 DEF Without
    <2>2. CASE i \notin 1..Len(b)
      BY <1>1, <2>2 DEF Without
    <2>. QED
      BY <2>1, <2>2
  <1>4. Basis = IF picked.current THEN b ELSE None
    BY DEF Basis
  <1>5. ASSUME picked.current
        PROVE  OneEdited(Edited, b, d.name, {}) /\ OneEdited(Without, b, d.name, {d.name})
    <2>1. Edited = [b EXCEPT ![i] = d]
      BY <1>1, <1>5 DEF Edited
    <2>2. Without = RemoveAt(b, i)
      BY <1>1, <1>5 DEF Without
    <2>. QED
      BY <1>1, <1>5, <2>1, <2>2 DEF OneEdited
  <1>6. /\ Basis \in Seq(Item) \cup {None}
        /\ Basis = None \/ OneEdited(Edited, Basis, d.name, {})
        /\ Basis = None \/ OneEdited(Without, Basis, d.name, {d.name})
    <2>1. CASE picked.current
      BY <1>1, <1>4, <1>5, <2>1
    <2>2. CASE ~picked.current
      BY <1>4, <2>2
    <2>. QED
      BY <2>1, <2>2
  <1>7. {} \in SUBSET Transition /\ {d.name} \in SUBSET Transition
    BY <1>1
  <1>. QED
    BY <1>1, <1>2, <1>3, <1>6, <1>7 DEF Recreation

\* What a commit that is accepted writes.
LEMMA WrittenTyped ==
  ASSUME TransitionsInv, NEW r \in Messages, StateEffect(r)
  PROVE  soi' \in SoI
  <1>1. soi = [between |-> soi.between, links |-> soi.links]
        /\ soi.between \in Seq(Item) /\ soi.links \in SUBSET Link
    BY DEF TransitionsInv, SoI
  <1>2. CASE r \in Recreation
    <2>1. r.list \in Seq(Item) /\ soi' = [soi EXCEPT !.between = r.list]
      BY <1>2 DEF Recreation, StateEffect
    <2>. QED
      BY <1>1, <2>1 DEF SoI
  <1>3. CASE r \in [kind : {"create"}, name : Transition]
    <2>1. [name |-> r.name, text |-> "new"] \in Item
          /\ soi' = [soi EXCEPT !.between = <<[name |-> r.name, text |-> "new"]>>]
      BY <1>3 DEF Item, StateEffect
    <2>2. <<[name |-> r.name, text |-> "new"]>> \in Seq(Item)
      BY <2>1
    <2>. QED
      BY <1>1, <2>1, <2>2 DEF SoI
  <1>4. CASE r \in [kind : {"link", "unlink"}, link : Link]
    <2>1. \/ soi' = [soi EXCEPT !.links = @ \cup {r.link}]
          \/ soi' = [soi EXCEPT !.links = @ \ {r.link}]
      BY <1>4 DEF StateEffect
    <2>. QED
      BY <1>1, <1>4, <2>1 DEF SoI
  <1>. QED
    BY <1>2, <1>3, <1>4 DEF Messages

LEMMA TheirsTyped ==
  ASSUME TransitionsInv, StateTheirs
  PROVE  soi' \in SoI
  <1>1. soi = [between |-> soi.between, links |-> soi.links]
        /\ soi.between \in Seq(Item) /\ soi.links \in SUBSET Link
        /\ DOMAIN soi.between = 1..Len(soi.between) /\ Len(soi.between) \in Nat
    BY LenProperties DEF TransitionsInv, SoI
  <1>2. SUFFICES \/ \E b \in Seq(Item) : soi' = [soi EXCEPT !.between = b]
                 \/ \E l \in Link : soi' = [soi EXCEPT !.links = @ \cup {l}]
    BY <1>1 DEF SoI
  <1>3. ASSUME NEW t \in Transition
        PROVE  <<[name |-> t, text |-> "new"]>> \in Seq(Item)
    BY DEF Item
  <1>4. Rewritten(soi.between) \in Seq(Item)
    <2>1. \A i \in 1..Len(soi.between) : [soi.between[i] EXCEPT !.text = "new"] \in Item
      <3>1. \A w \in Item : [w EXCEPT !.text = "new"] \in Item
        BY DEF Item
      <3>. QED
        BY <1>1, <3>1
    <2>2. Rewritten(soi.between) = [i \in 1..Len(soi.between) |-> [soi.between[i] EXCEPT !.text = "new"]]
      BY <1>1 DEF Rewritten
    <2>3. Rewritten(soi.between) \in [1..Len(soi.between) -> Item]
      BY <2>1, <2>2
    <2>. QED
      BY <1>1, <2>3, SeqDef
  <1>5. ASSUME NEW i \in 1..2, Len(soi.between) = 2
        PROVE  RemoveAt(soi.between, i) \in Seq(Item)
    BY <1>1, <1>5, Removed
  <1>6. <<>> \in Seq(Item)
    OBVIOUS
  <1>. QED
    BY <1>3, <1>4, <1>5, <1>6 DEF StateTheirs

LEMMA TransitionsNext ==
  ASSUME TransitionsInv, [StateNext]_stateVars
  PROVE  TransitionsInv'
  <1>1. CASE UNCHANGED stateVars
    BY <1>1 DEF TransitionsInv, stateVars
  <1>2. CASE StateRefetch
    BY <1>2 DEF StateRefetch, TransitionsInv, Panel
  <1>3. CASE Deselect \/ OpenDialog
    BY <1>3 DEF Deselect, OpenDialog, TransitionsInv
  <1>4. CASE EditTransition
    <2>1. picked \in Panel /\ picked.draft \in Item
      BY <1>4 DEF EditTransition, TransitionsInv, Panel
    <2>2. /\ picked' = [picked EXCEPT !.draft = [picked.draft EXCEPT !.text = "new"]]
          /\ [picked.draft EXCEPT !.text = "new"] \in Item
          /\ [picked.draft EXCEPT !.text = "new"].name = picked.draft.name
      BY <1>4, <2>1 DEF EditTransition, Item
    <2>3. picked' \in Panel /\ picked'.current = picked.current /\ picked'.index = picked.index
          /\ picked'.draft.name = picked.draft.name
      BY <2>1, <2>2 DEF Panel
    <2>. QED
      BY <1>4, <2>1, <2>3 DEF EditTransition, TransitionsInv
  <1>5. ASSUME NEW r \in Messages, SendState(r), UNCHANGED <<soi, seen, picked, creating>>
        PROVE  TransitionsInv'
    <2>1. out' \in Seq(Messages)
      BY <1>5, Appended DEF SendState, TransitionsInv
    <2>. QED
      BY <1>5, <2>1 DEF TransitionsInv
  <1>6. CASE SaveTransition \/ RemoveTransition
    <2>1. \E r \in Recreation : SendState(r)
      BY <1>6, PanelSends DEF SaveTransition, RemoveTransition
    <2>. QED
      BY <1>5, <1>6, <2>1 DEF Messages, SaveTransition, RemoveTransition
  <1>7. CASE Create
    <2>1. PICK t \in Transition : SendState([kind |-> "create", name |-> t])
      BY <1>7 DEF Create
    <2>2. [kind |-> "create", name |-> t] \in Messages
      BY DEF Messages
    <2>. QED
      BY <1>5, <1>7, <2>1, <2>2 DEF Create
  <1>8. ASSUME NEW l \in Link, AddLink(l) \/ RemoveLink(l) PROVE TransitionsInv'
    <2>1. \E k \in {"link", "unlink"} : SendState([kind |-> k, link |-> l])
      BY <1>8 DEF AddLink, RemoveLink
    <2>2. \A k \in {"link", "unlink"} : [kind |-> k, link |-> l] \in Messages
      BY DEF Messages
    <2>. QED
      BY <1>5, <1>8, <2>1, <2>2 DEF AddLink, RemoveLink
  <1>9. CASE StateTheirs
    BY <1>9, TheirsTyped DEF StateTheirs, TransitionsInv
  <1>10. ASSUME NEW i \in Nat, SelectTransition(i) PROVE TransitionsInv'
    <2>1. i \in DOMAIN seen.between /\ seen.between[i] \in Item
      BY <1>10 DEF SelectTransition, TransitionsInv, SoI
    <2>2. \/ picked' = picked /\ picked # None
          \/ picked' = [index |-> i, draft |-> seen.between[i], current |-> TRUE]
      BY <1>10 DEF SelectTransition
    <2>. QED
      BY <1>10, <2>1, <2>2 DEF SelectTransition, TransitionsInv, Panel
  <1>11. ASSUME NEW k \in 1..MaxOut, k <= Len(out),
                \/ StateExecute(k) \/ StateUnanswered(k) \/ StateRefuse(k) \/ StateFail(k)
                \/ CreatedTogether(k)
         PROVE  TransitionsInv'
    <2>1. out \in Seq(Messages) /\ k \in 1..Len(out) /\ out[k] \in Messages
      BY <1>11, StateToolAssumption DEF TransitionsInv
    <2>2. out' \in Seq(Messages)
      BY <1>11, <2>1, Removed
         DEF StateExecute, StateUnanswered, StateRefuse, StateFail, CreatedTogether, StateRest
    <2>3. soi' \in SoI
      <3>1. CASE StateExecute(k) \/ StateUnanswered(k)
        BY <2>1, <3>1, WrittenTyped DEF StateExecute, StateUnanswered
      <3>2. CASE StateRefuse(k) \/ StateFail(k)
        BY <3>2 DEF StateRefuse, StateFail, TransitionsInv
      <3>3. CASE CreatedTogether(k)
        <4>1. out[k].name \in Transition
          BY <2>1, <3>3 DEF CreatedTogether, Messages, Recreation
        <4>2. PICK t \in Transition :
                \E b \in Orders(<<[name |-> out[k].name, text |-> "new"], [name |-> t, text |-> "new"]>>) :
                  soi' = [soi EXCEPT !.between = b]
          BY <3>3 DEF CreatedTogether
        <4>3. /\ [name |-> out[k].name, text |-> "new"] \in Item
              /\ [name |-> t, text |-> "new"] \in Item
          BY <4>1 DEF Item
        <4>4. PICK b \in Seq(Item) : soi' = [soi EXCEPT !.between = b]
          BY <4>2, <4>3, Turned
        <4>. QED
          BY <4>4 DEF TransitionsInv, SoI
      <3>. QED
        BY <1>11, <3>1, <3>2, <3>3
    <2>4. UNCHANGED seen /\ (picked' = None \/ picked' = picked)
      BY <1>11 DEF StateExecute, StateUnanswered, StateRefuse, StateFail, CreatedTogether
    <2>. QED
      BY <2>2, <2>3, <2>4 DEF TransitionsInv
  <1>. QED
    BY <1>1, <1>2, <1>3, <1>4, <1>6, <1>7, <1>8, <1>9, <1>10, <1>11 DEF StateNext

\* What the window shows, edits and has sent is well-formed, and a recreation that
\* names the list it was computed from is that list with one transition rewritten
\* or removed.
THEOREM TransitionsSafe == StateSpec => []TransitionsInv
  BY TransitionsFirst, TransitionsNext, PTL DEF StateSpec

\* A commit of one transition executed on the list it was chosen and computed from
\* leaves every other one as it was: the Backend refuses a list of two, so what it
\* rewrites is alone, and what it removes is one of two.
THEOREM OthersStay == StateSpec => RecreateKeepsOthers
  <1>1. ASSUME TransitionsInv, [StateNext]_stateVars, NEW k \in DOMAIN out,
               StateExecute(k) \/ StateUnanswered(k),
               out[k].kind = "recreate", out[k].seen = soi.between,
               Cardinality(Names(soi.between)) = Len(soi.between)
        PROVE  /\ {w \in ToSet(soi'.between) : w.name # out[k].of}
                    = {w \in ToSet(soi.between) : w.name # out[k].of}
               /\ Names(soi'.between) = Names(soi.between) \ out[k].gone
    <2>. DEFINE r == out[k]
    <2>1. r \in Recreation
      BY <1>1 DEF TransitionsInv, Messages
    <2>2. soi.between \in Seq(Item) /\ soi.between # None
      BY <1>1, StateToolAssumption DEF TransitionsInv, SoI, Item
    <2>3. OneEdited(r.list, soi.between, r.of, r.gone) /\ r.list \in Seq(Item)
      BY <1>1, <2>1, <2>2 DEF Recreation
    <2>4. Len(r.list) <= 1 /\ soi' = [soi EXCEPT !.between = r.list]
      BY <1>1 DEF StateExecute, StateUnanswered, StateAccepted, StateEffect
    <2>5. soi'.between = r.list
      BY <1>1, <2>4 DEF TransitionsInv, SoI
    <2>. HIDE DEF r
    <2>6. /\ {w \in ToSet(r.list) : w.name # r.of} = {w \in ToSet(soi.between) : w.name # r.of}
          /\ Names(r.list) = Names(soi.between) \ r.gone
      BY <1>1, <2>2, <2>3, <2>4, OthersKept
    <2>. QED
      BY <2>5, <2>6 DEF r
  <1>2. ASSUME TransitionsInv, [StateNext]_stateVars
        PROVE  [\A k \in DOMAIN out :
                  /\ StateExecute(k) \/ StateUnanswered(k)
                  /\ out[k].kind = "recreate" /\ out[k].seen = soi.between
                  /\ Cardinality(Names(soi.between)) = Len(soi.between)
                  => LET others(b) == {w \in ToSet(b) : w.name # out[k].of} IN
                     /\ others(soi'.between) = others(soi.between)
                     /\ Names(soi'.between) = Names(soi.between) \ out[k].gone]_stateVars
    BY <1>1, <1>2, Zenon
  <1>. QED
    BY <1>2, TransitionsSafe, PTL DEF StateSpec, RecreateKeepsOthers

-----------------------------------------------------------------------------
\* The Context Tool.

Allocation == [kind : Kind, env : Env \cup {NoEnv}]
Batches    == UNION {[D -> BOOLEAN] : D \in SUBSET Slot}
Proposal   == [kind : Kind, env : Env, loss : Loss \cup {Absent}]
Facts ==
  [valid : SUBSET Slot, kinds : {Kind}, losses : [Loss -> Allocation \cup {Absent}],
   hazard : [Hazard -> {"absent", "apart", "associated"}]]

ContextInv ==
  /\ facts \in Facts /\ sheet \in Facts
  /\ toggled \in Batches /\ batch \in [ops : Batches, live : BOOLEAN] \cup {Absent}
  /\ plan # Absent => plan \in SUBSET Proposal

LEMMA ContextInitInv == ContextInit => ContextInv
  <1>1. <<>> \in Batches
    <2>1. <<>> \in [{} -> BOOLEAN]
      OBVIOUS
    <2>. QED
      BY <2>1 DEF Batches
  <1>. QED
    BY <1>1, ContextToolAssumption DEF ContextInit, ContextInv, Facts, Allocation

\* The proposals are of the kinds and Environments there are.
LEMMA ProposalsTyped ==
  ASSUME NEW f \in Facts
  PROVE  MissingIn(f) \in SUBSET Proposal
  BY DEF MissingIn, Proposal, Facts

\* What is generated is allocated where it was proposed.
LEMMA GeneratedTyped ==
  ASSUME ContextInv, plan # Absent, NEW number
  PROVE  Generated(number) \in Facts
  <1>. DEFINE Hit(l, t) == l = t.loss \/ (t \in News /\ l = number[t])
              After == [l \in Loss |->
                         IF \E t \in plan : Hit(l, t)
                         THEN LET t == CHOOSE t \in plan : Hit(l, t)
                              IN  [kind |-> t.kind, env |-> t.env]
                         ELSE facts.losses[l]]
  <1>1. After \in [Loss -> Allocation \cup {Absent}]
    <2>. SUFFICES ASSUME NEW l \in Loss PROVE After[l] \in Allocation \cup {Absent}
      OBVIOUS
    <2>1. CASE \E t \in plan : Hit(l, t)
      <3>. DEFINE t == CHOOSE t \in plan : Hit(l, t)
      <3>1. t \in plan
        BY <2>1
      <3>2. After[l] = [kind |-> t.kind, env |-> t.env]
        BY <2>1
      <3>. HIDE DEF t, After
      <3>3. t \in Proposal
        BY <3>1 DEF ContextInv
      <3>. QED
        BY <3>2, <3>3 DEF Proposal, Allocation
    <2>2. CASE ~ \E t \in plan : Hit(l, t)
      BY <2>2 DEF ContextInv, Facts
    <2>. QED
      BY <2>1, <2>2
  <1>2. Generated(number) = [facts EXCEPT !.losses = After]
    BY DEF Generated
  <1>. HIDE DEF After
  <1>. QED
    BY <1>1, <1>2 DEF ContextInv, Facts

LEMMA ContextStepInv == ContextInv /\ [ContextNext]_contextVars => ContextInv'
  <1>. SUFFICES ASSUME ContextInv, [ContextNext]_contextVars PROVE ContextInv'
    OBVIOUS
  <1>. USE DEF ContextInv
  <1>1. CASE UNCHANGED contextVars
    BY <1>1 DEF contextVars
  <1>2. ASSUME NEW c \in Slot, Assign(c) PROVE ContextInv'
    <2>1. toggled' \in Batches
      <3>1. PICK D \in SUBSET Slot : toggled \in [D -> BOOLEAN]
        BY DEF Batches
      <3>2. toggled' \in [D \cup {c} -> BOOLEAN] \/ toggled' \in [D \ {c} -> BOOLEAN]
        BY <1>2, <3>1 DEF Assign, ToggleSlot, Staging, Unstaging
      <3>3. D \cup {c} \in SUBSET Slot /\ D \ {c} \in SUBSET Slot
        OBVIOUS
      <3>. QED
        BY <3>2, <3>3 DEF Batches
    <2>. QED
      BY <1>2, <2>1 DEF Assign
  <1>3. <<>> \in Batches
    <2>1. <<>> \in [{} -> BOOLEAN]
      OBVIOUS
    <2>. QED
      BY <2>1 DEF Batches
  <1>4. CASE CancelBatch
    BY <1>3, <1>4 DEF CancelBatch
  <1>5. CASE SendBatch
    BY <1>5 DEF SendBatch
  <1>6. CASE BatchAccepted
    <2>1. PICK D \in SUBSET Slot : batch.ops \in [D -> BOOLEAN]
      BY <1>6 DEF BatchAccepted, Busy, Batches
    <2>2. Makes(batch.ops) \subseteq Slot
      BY <2>1 DEF Makes
    <2>3. facts' \in Facts
      BY <1>6, <2>2 DEF BatchAccepted, Facts
    <2>. QED
      BY <1>3, <1>6, <2>3 DEF BatchAccepted
  <1>7. CASE BatchRefused \/ BatchFails
    BY <1>7 DEF BatchRefused, BatchFails
  <1>8. CASE SwitchTab
    BY <1>3, <1>8 DEF SwitchTab, Busy
  <1>9. CASE ComputeMissing
    BY <1>9, ProposalsTyped DEF ComputeMissing
  <1>10. CASE CancelPlan
    BY <1>10 DEF CancelPlan
  <1>11. CASE ExecuteGeneration
    <2>1. facts' \in Facts
      BY <1>11, GeneratedTyped DEF ExecuteGeneration
    <2>. QED
      BY <1>11, <2>1 DEF ExecuteGeneration
  <1>12. CASE ContextRefetch
    BY <1>12 DEF ContextRefetch
  <1>13. ASSUME NEW l \in Loss, NEW a \in Allocation \cup {Absent},
                facts' = [facts EXCEPT !.losses[l] = a], Rest
         PROVE  ContextInv'
    <2>1. facts' \in Facts
      BY <1>13 DEF Facts
    <2>. QED
      BY <1>13, <2>1 DEF Rest
  <1>14. ASSUME NEW l \in Present(facts), NEW e \in Env \cup {NoEnv},
                facts' = [facts EXCEPT !.losses[l].env = e], Rest
         PROVE  ContextInv'
    <2>1. l \in Loss /\ facts.losses[l] \in Allocation
      BY DEF Present, Facts
    <2>2. [facts.losses[l] EXCEPT !.env = e] \in Allocation
      BY <2>1 DEF Allocation
    <2>3. facts' = [facts EXCEPT !.losses[l] = [facts.losses[l] EXCEPT !.env = e]]
      BY <1>14, <2>1
    <2>. QED
      BY <1>13, <1>14, <2>1, <2>2, <2>3
  <1>15. ASSUME NEW h \in Hazard, NEW v \in {"absent", "apart", "associated"},
                facts' = [facts EXCEPT !.hazard[h] = v], Rest
         PROVE  ContextInv'
    <2>1. facts' \in Facts
      BY <1>15 DEF Facts
    <2>. QED
      BY <1>15, <2>1 DEF Rest
  <1>16. CASE facts' = facts /\ Rest
    BY <1>16 DEF Rest
  <1>17. CASE TheirContextEdit
    <2>1. Contended \subseteq Env
      BY ContextToolAssumption
    <2>2. ASSUME NEW c \in ContextState \X Contended,
                 facts' = [facts EXCEPT !.valid = IF c \in @ THEN @ \ {c} ELSE @ \cup {c}], Rest
          PROVE  ContextInv'
      <3>1. c \in Slot
        BY <2>1 DEF Slot
      <3>2. facts' \in Facts
        BY <2>2, <3>1 DEF Facts
      <3>. QED
        BY <2>2, <3>2 DEF Rest
    <2>3. ASSUME NEW l \in Loss \ Present(facts), NEW k \in Kind,
                 facts' = [facts EXCEPT !.losses[l] = [kind |-> k, env |-> NoEnv]], Rest
          PROVE  ContextInv'
      <3>1. [kind |-> k, env |-> NoEnv] \in Allocation
        BY DEF Allocation
      <3>. QED
        BY <1>13, <2>3, <3>1
    <2>4. ASSUME NEW l \in Present(facts), facts' = [facts EXCEPT !.losses[l] = Absent], Rest
          PROVE  ContextInv'
      BY <1>13, <2>4 DEF Present
    <2>. QED
      BY <1>14, <1>15, <1>17, <2>1, <2>2, <2>3, <2>4 DEF TheirContextEdit
  <1>18. ASSUME NEW h \in Hazard, AddHazard(h) \/ NewHazard(h) \/ RemoveHazard(h)
         PROVE  ContextInv'
    BY <1>15, <1>16, <1>18 DEF AddHazard, NewHazard, RemoveHazard
  <1>19. ASSUME NEW l \in Loss, Deallocate(l) PROVE ContextInv'
    BY <1>14, <1>16, <1>19 DEF Deallocate
  <1>20. ASSUME NEW l \in Loss, NEW e \in Env, Allocate(l, e) PROVE ContextInv'
    BY <1>14, <1>16, <1>20 DEF Allocate
  <1>. QED
    BY <1>1, <1>2, <1>4, <1>5, <1>6, <1>7, <1>8, <1>9, <1>10, <1>11, <1>12, <1>17, <1>18,
       <1>19, <1>20 DEF ContextNext

\* The Context Tool's copy and the database hold allocations of the Losses there may
\* be; what a window stages and proposes is of cells, kinds and Environments there are.
THEOREM ContextTyped == ContextSpec => []ContextInv
  BY ContextInitInv, ContextStepInv, PTL DEF ContextSpec

\* No two members of a finite set of numbers have equally many before them.
LEMMA RanksDiffer ==
  ASSUME NEW S \in SUBSET Nat, IsFiniteSet(S), NEW x \in S, NEW y \in S,
         Rank(S, x) = Rank(S, y)
  PROVE  x = y
  <1>1. ASSUME NEW a \in S, NEW b \in S, a < b PROVE Rank(S, a) # Rank(S, b)
    <2>. DEFINE A == {z \in S : z < a}
                B == {z \in S : z < b}
    <2>1. IsFiniteSet(B)
      BY FS_Subset
    <2>2. \A z \in S : z < a => z < b
      BY <1>1
    <2>3. a \in B /\ ~(a < a)
      BY <1>1
    <2>4. A \in SUBSET B /\ a \notin A
      BY <2>2, <2>3, Zenon
    <2>5. Cardinality(A) # Cardinality(B)
      BY <2>1, <2>3, <2>4, FS_Subset
    <2>. QED
      BY <2>5 DEF Rank
  <1>. QED
    BY <1>1

\* The Losses that generation allocates: one to each proposal, no two to the same,
\* none that is already somewhere else.
LEMMA SpareFits ==
  ASSUME ContextInv, NEW k \in Kind, NEW e \in Missing(facts, k)
  PROVE  LET l == Spare(facts, k, e)
             A == At(facts, k, NoEnv)
         IN  l = Absent \/ (l \in A /\ l \in Loss /\ Rank(A, l) = Rank(Missing(facts, k), e))
  BY DEF Spare, At, Present

LEMMA OneProposal ==
  ASSUME ContextInv, NEW k \in Kind, NEW e \in Missing(facts, k)
  PROVE  /\ [kind |-> k, env |-> e, loss |-> Spare(facts, k, e)] \in MissingIn(facts)
         /\ \A t \in MissingIn(facts) :
              t.kind = k /\ t.env = e =>
                t = [kind |-> k, env |-> e, loss |-> Spare(facts, k, e)]
  <1>1. e \in Env /\ facts.kinds = Kind
    BY DEF Missing, Inhabited, ContextInv, Facts
  <1>2. Spare(facts, k, e) \in Loss \cup {Absent}
    BY SpareFits
  <1>. QED
    BY <1>1, <1>2 DEF MissingIn

LEMMA ProposedOf ==
  ASSUME ContextInv, NEW t \in MissingIn(facts)
  PROVE  /\ t.kind \in Kind /\ t.env \in Missing(facts, t.kind) /\ t.env \in Env
         /\ t.loss = Spare(facts, t.kind, t.env)
         /\ t = [kind |-> t.kind, env |-> t.env, loss |-> t.loss]
  BY DEF MissingIn, ContextInv, Facts

LEMMA SparesDiffer ==
  ASSUME ContextInv, NEW t \in MissingIn(facts), NEW u \in MissingIn(facts),
         t.loss # Absent, t.loss = u.loss
  PROVE  t = u
  <1>1. /\ t.loss \in At(facts, t.kind, NoEnv) /\ u.loss \in At(facts, u.kind, NoEnv)
        /\ Rank(At(facts, t.kind, NoEnv), t.loss) = Rank(Missing(facts, t.kind), t.env)
        /\ Rank(At(facts, u.kind, NoEnv), u.loss) = Rank(Missing(facts, u.kind), u.env)
    BY ProposedOf, SpareFits
  <1>2. t.kind = u.kind
    BY <1>1 DEF At
  <1>3. Missing(facts, t.kind) \in SUBSET Nat /\ IsFiniteSet(Missing(facts, t.kind))
    <2>1. Missing(facts, t.kind) \in SUBSET Env
      BY DEF Missing, Inhabited
    <2>. QED
      BY <2>1, FS_Subset, ContextToolAssumption
  <1>4. t.env = u.env
    BY <1>1, <1>2, <1>3, RanksDiffer, ProposedOf
  <1>. QED
    BY <1>2, <1>4, ProposedOf

\* What was proposed on the SoI as it is, the Backend accepts.
LEMMA ProposalAccepted ==
  ASSUME ContextInv, plan = MissingIn(facts)
  PROVE  PlanAccepted
  <1>1. ASSUME NEW t \in plan \ News
        PROVE  t.loss \in Present(facts) /\ facts.losses[t.loss].env = NoEnv
    <2>1. t \in MissingIn(facts) /\ t.loss # Absent
      BY <1>1 DEF News
    <2>2. t.loss \in At(facts, t.kind, NoEnv)
      BY <2>1, ProposedOf, SpareFits
    <2>. QED
      BY <2>2 DEF At
  <1>2. \A t, u \in plan \ News : t # u => t.loss # u.loss
    BY SparesDiffer DEF News
  <1>. QED
    BY <1>1, <1>2 DEF PlanAccepted

\* The Loss of a proposal: the one it names, or the new one made for it.
LossOf(t, number) == IF t \in News THEN number[t] ELSE t.loss

LEMMA LossesOfProposals ==
  ASSUME ContextInv, plan = MissingIn(facts), NEW number \in Numbers,
         \A t, u \in News : t # u => number[t] # number[u]
  PROVE  /\ \A t \in plan : LossOf(t, number) \in Loss
         /\ \A t, u \in plan : LossOf(t, number) = LossOf(u, number) => t = u
         /\ \A t \in plan, k \in Kind, e \in Env : LossOf(t, number) \notin At(facts, k, e)
         /\ \A l \in Loss, t \in plan :
              (l = t.loss \/ (t \in News /\ l = number[t])) <=> l = LossOf(t, number)
  <1>1. \A t \in News : number[t] \in Loss \ Present(facts)
    BY DEF Numbers
  <1>2. ASSUME NEW t \in plan, t \notin News
        PROVE  t.loss \in At(facts, t.kind, NoEnv) /\ t.loss \in Present(facts) /\ t.loss \in Loss
    <2>1. t \in MissingIn(facts) /\ t.loss # Absent
      BY <1>2 DEF News
    <2>2. t.loss \in At(facts, t.kind, NoEnv)
      BY <2>1, ProposedOf, SpareFits
    <2>. QED
      BY <2>2 DEF At, Present
  <1>3. ASSUME NEW t \in plan PROVE LossOf(t, number) \in Loss
    BY <1>1, <1>2 DEF LossOf
  <1>4. ASSUME NEW t \in plan, NEW u \in plan, LossOf(t, number) = LossOf(u, number)
        PROVE  t = u
    <2>1. CASE t \in News /\ u \in News
      BY <1>4, <2>1 DEF LossOf
    <2>2. CASE t \notin News /\ u \notin News
      BY <1>4, <2>2, SparesDiffer DEF LossOf, News
    <2>3. CASE (t \in News) # (u \in News)
      BY <1>1, <1>2, <1>4, <2>3 DEF LossOf
    <2>. QED
      BY <2>1, <2>2, <2>3
  <1>5. ASSUME NEW t \in plan, NEW k \in Kind, NEW e \in Env
        PROVE  LossOf(t, number) \notin At(facts, k, e)
    <2>1. e # NoEnv
      BY ContextToolAssumption
    <2>2. CASE t \in News
      BY <1>1, <2>2 DEF LossOf, At
    <2>3. CASE t \notin News
      <3>1. LossOf(t, number) \in At(facts, t.kind, NoEnv)
        BY <1>2, <2>3 DEF LossOf
      <3>2. \A l : l \in At(facts, t.kind, NoEnv) => facts.losses[l].env = NoEnv
        BY DEF At
      <3>3. \A l : l \in At(facts, k, e) => facts.losses[l].env = e
        BY DEF At
      <3>. QED
        BY <2>1, <3>1, <3>2, <3>3
    <2>. QED
      BY <2>2, <2>3
  <1>6. ASSUME NEW l \in Loss, NEW t \in plan
        PROVE  (l = t.loss \/ (t \in News /\ l = number[t])) <=> l = LossOf(t, number)
    BY ContextToolAssumption DEF LossOf, News
  <1>. QED
    BY <1>3, <1>4, <1>5, <1>6

\* Every Loss of a proposal is where it was proposed, the others stay.
LEMMA GeneratedLosses ==
  ASSUME ContextInv, plan = MissingIn(facts), NEW number \in Numbers,
         \A t, u \in News : t # u => number[t] # number[u],
         facts' = Generated(number)
  PROVE  /\ \A t \in plan : facts'.losses[LossOf(t, number)] = [kind |-> t.kind, env |-> t.env]
         /\ \A l \in Loss : (\A t \in plan : l # LossOf(t, number)) =>
              facts'.losses[l] = facts.losses[l]
  <1>. DEFINE Hit(l, t) == l = t.loss \/ (t \in News /\ l = number[t])
              After == [l \in Loss |->
                         IF \E t \in plan : Hit(l, t)
                         THEN LET t == CHOOSE t \in plan : Hit(l, t)
                              IN  [kind |-> t.kind, env |-> t.env]
                         ELSE facts.losses[l]]
  <1>1. facts' = [facts EXCEPT !.losses = After]
    BY DEF Generated
  <1>2. facts'.losses = After
    <2>. HIDE DEF After
    <2>. QED
      BY <1>1 DEF ContextInv, Facts
  <1>3. ASSUME NEW t \in plan
        PROVE  After[LossOf(t, number)] = [kind |-> t.kind, env |-> t.env]
    <2>. DEFINE l == LossOf(t, number)
                u == CHOOSE u \in plan : Hit(l, u)
    <2>1. l \in Loss /\ Hit(l, t)
      BY LossesOfProposals
    <2>2. u \in plan /\ Hit(l, u)
      BY <2>1
    <2>3. l = LossOf(u, number)
      BY <2>1, <2>2, LossesOfProposals
    <2>4. u = t
      BY <2>2, <2>3, LossesOfProposals
    <2>5. After[l] = [kind |-> u.kind, env |-> u.env]
      BY <2>1
    <2>. QED
      BY <2>4, <2>5
  <1>4. ASSUME NEW l \in Loss, \A t \in plan : l # LossOf(t, number)
        PROVE  After[l] = facts.losses[l]
    <2>1. ~ \E t \in plan : Hit(l, t)
      BY <1>4, LossesOfProposals
    <2>. QED
      BY <2>1
  <1>. HIDE DEF After
  <1>. QED
    BY <1>2, <1>3, <1>4

LEMMA CoveredStep ==
  ASSUME ContextInv, ExecuteGeneration, plan = MissingIn(facts)
  PROVE  /\ \A k \in Kind, e \in Env :
              IF e \in Missing(facts, k) THEN Cardinality(At(facts', k, e)) = 1
              ELSE At(facts', k, e) = At(facts, k, e)
         /\ Unready(facts') = {}
  <1>1. PICK number \in Numbers :
          (\A t, u \in News : t # u => number[t] # number[u]) /\ facts' = Generated(number)
    BY ProposalAccepted DEF ExecuteGeneration
  <1>. DEFINE G(t) == LossOf(t, number)
  <1>2. /\ \A t \in plan : G(t) \in Loss
        /\ \A t, u \in plan : G(t) = G(u) => t = u
        /\ \A t \in plan, k \in Kind, e \in Env : G(t) \notin At(facts, k, e)
    BY <1>1, LossesOfProposals
  <1>3. /\ \A t \in plan : facts'.losses[G(t)] = [kind |-> t.kind, env |-> t.env]
        /\ \A l \in Loss : (\A t \in plan : l # G(t)) => facts'.losses[l] = facts.losses[l]
    BY <1>1, GeneratedLosses
  <1>. HIDE DEF G
  <1>4. \A t \in plan : t.kind \in Kind /\ t.env \in Env /\ t.env \in Missing(facts, t.kind)
    BY ProposedOf
  <1>5. ASSUME NEW k \in Kind, NEW e \in Env, NEW l \in Loss
        PROVE  l \in At(facts', k, e) <=> facts'.losses[l] = [kind |-> k, env |-> e]
    <2>1. [kind |-> k, env |-> e] # Absent
      BY ContextToolAssumption
    <2>. QED
      BY <2>1 DEF At, Present
  <1>6. ASSUME NEW k \in Kind, NEW e \in Env, NEW l \in Loss
        PROVE  l \in At(facts, k, e) <=> facts.losses[l] = [kind |-> k, env |-> e]
    <2>1. [kind |-> k, env |-> e] # Absent
      BY ContextToolAssumption
    <2>. QED
      BY <2>1 DEF At, Present
  <1>7. \A k \in Kind, e \in Env : At(facts', k, e) \subseteq Loss /\ At(facts, k, e) \subseteq Loss
    BY DEF At, Present
  <1>8. ASSUME NEW k \in Kind, NEW e \in Env, e \in Missing(facts, k)
        PROVE  Cardinality(At(facts', k, e)) = 1
    <2>1. PICK t \in plan : t.kind = k /\ t.env = e /\ \A u \in plan : u.kind = k /\ u.env = e => u = t
      <3>. DEFINE t == [kind |-> k, env |-> e, loss |-> Spare(facts, k, e)]
      <3>1. t \in plan /\ \A u \in plan : u.kind = k /\ u.env = e => u = t
        BY <1>8, OneProposal
      <3>2. t.kind = k /\ t.env = e
        OBVIOUS
      <3>. QED
        BY <3>1, <3>2
    <2>2. G(t) \in At(facts', k, e)
      BY <1>2, <1>3, <1>5, <2>1
    <2>3. ASSUME NEW l \in At(facts', k, e) PROVE l = G(t)
      <3>1. l \in Loss /\ facts'.losses[l] = [kind |-> k, env |-> e]
        BY <1>5, <1>7
      <3>2. CASE \E u \in plan : l = G(u)
        <4>1. PICK u \in plan : l = G(u)
          BY <3>2
        <4>2. [kind |-> u.kind, env |-> u.env] = [kind |-> k, env |-> e]
          BY <1>3, <3>1, <4>1
        <4>3. u.kind = k /\ u.env = e
          BY <4>2
        <4>. QED
          BY <2>1, <4>1, <4>3
      <3>3. CASE \A u \in plan : l # G(u)
        <4>1. l \in At(facts, k, e)
          BY <1>3, <1>6, <3>1, <3>3
        <4>. QED
          BY <1>8, <4>1 DEF Missing
      <3>. QED
        BY <3>2, <3>3
    <2>4. At(facts', k, e) = {G(t)}
      BY <2>2, <2>3
    <2>. QED
      BY <2>4, FS_Singleton
  <1>9. ASSUME NEW k \in Kind, NEW e \in Env, e \notin Missing(facts, k)
        PROVE  At(facts', k, e) = At(facts, k, e)
    <2>1. ASSUME NEW l \in At(facts', k, e) PROVE l \in At(facts, k, e)
      <3>1. l \in Loss /\ facts'.losses[l] = [kind |-> k, env |-> e]
        BY <1>5, <1>7
      <3>2. ASSUME NEW u \in plan, l = G(u) PROVE FALSE
        <4>1. [kind |-> u.kind, env |-> u.env] = [kind |-> k, env |-> e]
          BY <1>3, <3>1, <3>2
        <4>2. u.kind = k /\ u.env = e
          BY <4>1
        <4>. QED
          BY <1>4, <1>9, <4>2
      <3>. QED
        BY <1>3, <1>6, <3>1, <3>2
    <2>2. ASSUME NEW l \in At(facts, k, e) PROVE l \in At(facts', k, e)
      <3>1. l \in Loss /\ facts.losses[l] = [kind |-> k, env |-> e]
        BY <1>6, <1>7
      <3>2. \A t \in plan : l # G(t)
        BY <1>2
      <3>3. facts'.losses[l] = facts.losses[l]
        BY <1>3, <3>1, <3>2
      <3>. QED
        BY <1>5, <3>1, <3>3
    <2>. QED
      BY <2>1, <2>2
  <1>10. Unready(facts') = {}
    <2>1. PICK t \in plan : TRUE
      BY DEF ExecuteGeneration
    <2>2. ASSUME NEW k \in Kind PROVE \E e \in Env : At(facts', k, e) # {}
      <3>1. t.env \in Env /\ t.env \in Inhabited(facts)
        BY <1>4 DEF Missing
      <3>2. CASE t.env \in Missing(facts, k)
        <4>1. Cardinality(At(facts', k, t.env)) = 1
          BY <1>8, <3>1, <3>2
        <4>2. At(facts', k, t.env) # {}
          BY <4>1, FS_EmptySet
        <4>. QED
          BY <3>1, <4>2
      <3>3. CASE t.env \notin Missing(facts, k)
        <4>1. At(facts, k, t.env) # {}
          BY <3>1, <3>3 DEF Missing
        <4>. QED
          BY <1>9, <3>1, <3>3, <4>1
      <3>. QED
        BY <3>2, <3>3
    <2>. QED
      BY <2>2 DEF Unready
  <1>. QED
    BY <1>8, <1>9, <1>10

\* Generation covers what it proposes (GenerationCovers): done on the SoI as it is, it
\* gives every kind one Loss in every Environment with a State that had none of it,
\* moves no Loss that was allocated, and no Asset is left with none allocated.
THEOREM MissingIsGenerated == ContextSpec => GenerationCovers
  <1>1. ContextInv /\ [ContextNext]_contextVars =>
          [ExecuteGeneration /\ plan = MissingIn(facts) =>
             /\ \A k \in facts.kinds, e \in Env :
                  IF e \in Missing(facts, k) THEN Cardinality(At(facts', k, e)) = 1
                  ELSE At(facts', k, e) = At(facts, k, e)
             /\ Unready(facts') = {}]_contextVars
    <2>1. ContextInv => facts.kinds = Kind
      BY DEF ContextInv, Facts
    <2>. QED
      BY <2>1, CoveredStep
  <1>. QED
    BY <1>1, ContextTyped, PTL DEF ContextSpec, GenerationCovers

=============================================================================
