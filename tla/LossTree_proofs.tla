--------------------------- MODULE LossTree_proofs ---------------------------
(***************************************************************************)
(* Proofs about the tree of one Loss in the Loss Tool.  In order: the      *)
(* dialog of rules; what the edits keep and the canvas offers; scenarios   *)
(* as sets of leaves; the counts of paths; and the numbers: what the       *)
(* analysis rests on, its budget, and the worst plan there is.             *)
(***************************************************************************)
EXTENDS LossAnalysis, LossEditing, FiniteSetTheorems, FunctionTheorems, SequenceTheorems,
        WellFoundedInduction, TLAPS

-----------------------------------------------------------------------------
\* Recursion.

LEMMA Least ==
  ASSUME NEW T \in SUBSET Nat, T # {}
  PROVE  \E n \in T : \A m \in T : n <= m
  <1>1. IsWellFoundedOn(OpToRel(<, Nat), Nat)
    BY NatLessThanWellFounded
  <1>2. PICK n \in T : \A m \in T : ~(<<m, n>> \in OpToRel(<, Nat))
    BY <1>1, WFMin
  <1>3. \A m \in T : ~(m < n)
    BY <1>2 DEF OpToRel
  <1>. QED
    BY <1>3

\* A set that has whatever all of lower rank being in it puts there has everything.
LEMMA Ascent ==
  ASSUME NEW A, NEW rank \in [A -> Nat], NEW T,
         \A a \in A : (\A b \in A : rank[b] < rank[a] => b \in T) => a \in T
  PROVE  A \subseteq T
  <1>. DEFINE Bad == {rank[a] : a \in A \ T}
  <1>. SUFFICES ASSUME NEW a \in A \ T PROVE FALSE
    OBVIOUS
  <1>1. Bad \in SUBSET Nat /\ rank[a] \in Bad
    OBVIOUS
  <1>2. PICK r \in Bad : \A m \in Bad : r <= m
    <2>. HIDE DEF Bad
    <2>. QED
      BY <1>1, Least
  <1>3. PICK b \in A \ T : rank[b] = r
    BY <1>2
  <1>4. ASSUME NEW c \in A, rank[c] < rank[b], c \notin T PROVE FALSE
    <2>1. rank[c] \in Bad /\ rank[c] \in Nat /\ rank[b] \in Nat
      BY <1>4
    <2>. HIDE DEF Bad
    <2>. QED
      BY <2>1, <1>2, <1>3, <1>4
  <1>. QED
    BY <1>3, <1>4

LEMMA AscentOfNat ==
  ASSUME NEW T, 0 \in T, \A k \in Nat : k \in T => k + 1 \in T
  PROVE  Nat \subseteq T
  <1>. DEFINE rank == [k \in Nat |-> k]
  <1>1. ASSUME NEW k \in Nat, \A j \in Nat : rank[j] < rank[k] => j \in T
        PROVE  k \in T
    <2>1. CASE k = 0
      BY <2>1
    <2>2. CASE k # 0
      <3>1. k - 1 \in Nat /\ rank[k - 1] < rank[k] /\ (k - 1) + 1 = k
        BY <2>2
      <3>. QED
        BY <3>1, <1>1
    <2>. QED
      BY <2>1, <2>2
  <1>2. rank \in [Nat -> Nat]
    OBVIOUS
  <1>. HIDE DEF rank
  <1>. QED
    BY <1>1, <1>2, Ascent

\* B says what the value of a function on A is at each argument, once its values
\* at arguments of lower rank are given.
Founded(A, V, rank, B) ==
  /\ rank \in [A -> Nat] /\ [A -> V] # {} /\ B \in [A -> [[A -> V] -> V]]
  /\ \A a \in A : \A f, g \in [A -> V] :
       (\A b \in A : rank[b] < rank[a] => f[b] = g[b]) => B[a][f] = B[a][g]

LEMMA Recursion ==
  ASSUME NEW A, NEW V, NEW rank, NEW B, Founded(A, V, rank, B)
  PROVE  \E g \in [A -> V] : \A a \in A : g[a] = B[a][g]
  <1>. /\ rank \in [A -> Nat] /\ B \in [A -> [[A -> V] -> V]]
       /\ \A a \in A : \A f, g \in [A -> V] :
            (\A b \in A : rank[b] < rank[a] => f[b] = g[b]) => B[a][f] = B[a][g]
    BY DEF Founded
  <1>. PICK start \in [A -> V] : TRUE
    BY DEF Founded
  <1>. DEFINE Upto(k) == {g \in [A -> V] : \A a \in A : rank[a] < k => g[a] = B[a][g]}
  <1>1. \A k \in Nat : Upto(k) # {}
    <2>. DEFINE T == {k \in Nat : Upto(k) # {}}
    <2>1. 0 \in T
      <3>1. start \in Upto(0)
        OBVIOUS
      <3>. QED
        BY <3>1
    <2>2. ASSUME NEW k \in Nat, k \in T PROVE k + 1 \in T
      <3>1. PICK g \in Upto(k) : TRUE
        BY <2>2
      <3>2. g \in [A -> V] /\ \A a \in A : rank[a] < k => g[a] = B[a][g]
        BY <3>1
      <3>. DEFINE h == [a \in A |-> IF rank[a] < k THEN g[a] ELSE B[a][g]]
      <3>3. h \in [A -> V]
        BY <3>2
      <3>4. ASSUME NEW a \in A, rank[a] < k + 1
            PROVE  h[a] = B[a][h]
        <4>1. h[a] = B[a][g]
          BY <3>2
        <4>2. \A b \in A : rank[b] < rank[a] => h[b] = g[b]
          BY <3>4
        <4>. HIDE DEF h, Upto, T
        <4>3. B[a][h] = B[a][g]
          BY <3>2, <3>3, <4>2
        <4>. QED
          BY <4>1, <4>3
      <3>5. h \in Upto(k + 1)
        <4>. HIDE DEF h
        <4>. QED
          BY <3>3, <3>4
      <3>. HIDE DEF Upto
      <3>. QED
        BY <3>5
    <2>. HIDE DEF T
    <2>3. Nat \subseteq T
      BY <2>1, <2>2, AscentOfNat
    <2>. QED
      BY <2>3 DEF T
  <1>2. ASSUME NEW k \in Nat, NEW g \in Upto(k), NEW h \in Upto(k)
        PROVE  \A a \in A : rank[a] < k => g[a] = h[a]
    <2>. DEFINE T == {a \in A : rank[a] < k => g[a] = h[a]}
    <2>1. ASSUME NEW a \in A, \A b \in A : rank[b] < rank[a] => b \in T
          PROVE  a \in T
      <3>. SUFFICES ASSUME rank[a] < k PROVE g[a] = h[a]
        OBVIOUS
      <3>1. \A b \in A : rank[b] < rank[a] => g[b] = h[b]
        BY <2>1
      <3>2. g \in [A -> V] /\ h \in [A -> V] /\ g[a] = B[a][g] /\ h[a] = B[a][h]
        OBVIOUS
      <3>. HIDE DEF Upto, T
      <3>. QED
        BY <3>1, <3>2
    <2>. HIDE DEF T, Upto
    <2>2. A \subseteq T
      BY <2>1, Ascent
    <2>. QED
      BY <2>2 DEF T
  <1>. DEFINE G == [k \in Nat |-> CHOOSE g : g \in Upto(k)]
              f == [a \in A |-> G[rank[a] + 1][a]]
  <1>3. \A k \in Nat : G[k] \in Upto(k)
    <2>. HIDE DEF Upto
    <2>. QED
      BY <1>1
  <1>. HIDE DEF G
  <1>4. \A k \in Nat : G[k] \in [A -> V] /\ \A a \in A : rank[a] < k => G[k][a] = B[a][G[k]]
    BY <1>3
  <1>5. f \in [A -> V]
    BY <1>4
  <1>6. ASSUME NEW a \in A PROVE f[a] = B[a][f]
    <2>1. rank[a] \in Nat /\ rank[a] + 1 \in Nat
      OBVIOUS
    <2>2. f[a] = B[a][G[rank[a] + 1]]
      BY <2>1, <1>4
    <2>3. ASSUME NEW b \in A, rank[b] < rank[a]
          PROVE  f[b] = G[rank[a] + 1][b]
      <3>1. rank[b] + 1 \in Nat /\ rank[b] + 1 <= rank[a] + 1
        BY <2>3
      <3>2. G[rank[a] + 1] \in Upto(rank[b] + 1)
        <4>1. \A c \in A : rank[c] < rank[b] + 1 => rank[c] < rank[a] + 1
          BY <2>3
        <4>2. G[rank[a] + 1] \in [A -> V]
              /\ \A c \in A : rank[c] < rank[a] + 1 => G[rank[a] + 1][c] = B[c][G[rank[a] + 1]]
          BY <2>1, <1>4
        <4>. QED
          BY <4>1, <4>2
      <3>3. G[rank[b] + 1] \in Upto(rank[b] + 1)
        BY <3>1, <1>3
      <3>4. rank[b] < rank[b] + 1
        BY <2>3
      <3>. HIDE DEF Upto
      <3>5. G[rank[b] + 1][b] = G[rank[a] + 1][b]
        BY <3>1, <3>2, <3>3, <3>4, <1>2
      <3>. QED
        BY <3>5
    <2>4. G[rank[a] + 1] \in [A -> V]
      BY <2>1, <1>4
    <2>. HIDE DEF f
    <2>. QED
      BY <2>2, <2>3, <2>4, <1>5
  <1>. HIDE DEF f
  <1>. QED
    BY <1>5, <1>6
\* Whatever is computed from lower ranks in this way is that function.
LEMMA Determined ==
  ASSUME NEW A, NEW V, NEW rank, NEW B, Founded(A, V, rank, B),
         NEW g \in [A -> V], \A a \in A : g[a] = B[a][g], NEW h,
         \A a \in A : (\A b \in A : rank[b] < rank[a] => h[b] = g[b]) => h[a] = B[a][g]
  PROVE  \A a \in A : h[a] = g[a]
  <1>. DEFINE T == {a \in A : h[a] = g[a]}
  <1>1. rank \in [A -> Nat]
    BY DEF Founded
  <1>2. \A a \in A : (\A b \in A : rank[b] < rank[a] => b \in T) => a \in T
    OBVIOUS
  <1>. HIDE DEF T
  <1>3. A \subseteq T
    BY <1>1, <1>2, Ascent
  <1>. QED
    BY <1>3 DEF T

-----------------------------------------------------------------------------
\* The rules dialog.

\* What FoldSet makes of the metrics below some set of them.
RowsBelow(r, S) ==
  CHOOSE rows : rows = [s \in SUBSET S |->
    IF s = {} THEN <<>>
    ELSE LET id == CHOOSE x \in s : TRUE IN Append(rows[s \ {id}], Row(id, id, r[id]))]

\* The dialog opens with a row for a metric at a time, under its own id.
LEMMA RowsOf ==
  ASSUME NEW r, IsFiniteSet(DOMAIN r)
  PROVE  /\ Rows(r) \in Seq({Row(id, id, r[id]) : id \in DOMAIN r})
         /\ \A id \in DOMAIN r : \E i \in DOMAIN Rows(r) : Rows(r)[i].id = id
  <1>. DEFINE S == DOMAIN r
              A == SUBSET S
              V == Seq({Row(id, id, r[id]) : id \in S})
              rank == [s \in A |-> Cardinality(s)]
              pick(s) == CHOOSE x \in s : TRUE
              B == [s \in A |-> [f \in [A -> V] |->
                      IF s = {} THEN <<>>
                      ELSE Append(f[s \ {pick(s)}], Row(pick(s), pick(s), r[pick(s)]))]]
              start == [s \in A |-> <<>>]
  <1>1. rank \in [A -> Nat] /\ \A s \in A : IsFiniteSet(s)
    BY FS_Subset, FS_CardinalityType
  <1>2. ASSUME NEW s \in A, s # {}
        PROVE  pick(s) \in s /\ s \ {pick(s)} \in A /\ rank[s \ {pick(s)}] < rank[s]
    <2>1. pick(s) \in s
      BY <1>2
    <2>. HIDE DEF pick
    <2>2. s \ {pick(s)} \in A
      BY <2>1
    <2>3. Cardinality(s \ {pick(s)}) = Cardinality(s) - 1
      BY <2>1, <1>1, FS_RemoveElement
    <2>4. Cardinality(s) \in Nat
      BY <1>1, FS_CardinalityType
    <2>. QED
      BY <2>1, <2>2, <2>3, <2>4
  <1>3. B \in [A -> [[A -> V] -> V]]
    <2>1. ASSUME NEW s \in A, NEW f \in [A -> V], s # {}
          PROVE  Append(f[s \ {pick(s)}], Row(pick(s), pick(s), r[pick(s)])) \in V
      <3>. HIDE DEF pick
      <3>1. pick(s) \in S /\ f[s \ {pick(s)}] \in V
        BY <2>1, <1>2
      <3>. QED
        BY <3>1
    <2>2. <<>> \in V
      OBVIOUS
    <2>. HIDE DEF V, A, pick
    <2>. QED
      BY <2>1, <2>2
  <1>4. start \in [A -> V]
    OBVIOUS
  <1>5. ASSUME NEW s \in A, NEW f \in [A -> V], NEW g \in [A -> V],
               \A b \in A : rank[b] < rank[s] => f[b] = g[b]
        PROVE  B[s][f] = B[s][g]
    <2>1. CASE s = {}
      BY <2>1
    <2>2. CASE s # {}
      <3>1. f[s \ {pick(s)}] = g[s \ {pick(s)}]
        <4>. HIDE DEF pick, rank
        <4>. QED
          BY <2>2, <1>2, <1>5
      <3>. HIDE DEF pick, rank
      <3>. QED
        BY <3>1, <2>2
    <2>. QED
      BY <2>1, <2>2
  <1>0. Founded(A, V, rank, B)
    <2>. HIDE DEF A, V, rank, B, start
    <2>. QED
      BY <1>1, <1>3, <1>4, <1>5 DEF Founded
  <1>6. PICK g \in [A -> V] : \A s \in A : g[s] = B[s][g]
    <2>. HIDE DEF A, V, rank, B, start
    <2>. QED
      BY <1>0, Recursion
  <1>7. g = [s \in A |->
               IF s = {} THEN <<>>
               ELSE LET id == CHOOSE x \in s : TRUE IN Append(g[s \ {id}], Row(id, id, r[id]))]
    BY <1>6
  <1>8. RowsBelow(r, S) = [s \in A |->
               IF s = {} THEN <<>>
               ELSE LET id == CHOOSE x \in s : TRUE
                    IN  Append(RowsBelow(r, S)[s \ {id}], Row(id, id, r[id]))]
    BY <1>7, Zenon DEF RowsBelow
  <1>9. ASSUME NEW s \in A, \A b \in A : rank[b] < rank[s] => RowsBelow(r, S)[b] = g[b]
        PROVE  RowsBelow(r, S)[s] = B[s][g]
    <2>1. CASE s = {}
      BY <2>1, <1>8
    <2>2. CASE s # {}
      <3>1. RowsBelow(r, S)[s] = Append(RowsBelow(r, S)[s \ {pick(s)}], Row(pick(s), pick(s), r[pick(s)]))
        BY <2>2, <1>8
      <3>2. RowsBelow(r, S)[s \ {pick(s)}] = g[s \ {pick(s)}]
        <4>. HIDE DEF pick, rank
        <4>. QED
          BY <2>2, <1>2, <1>9
      <3>. HIDE DEF pick
      <3>. QED
        BY <3>1, <3>2, <2>2
    <2>. QED
      BY <2>1, <2>2
  <1>10. RowsBelow(r, S)[S] = g[S]
    <2>. HIDE DEF A, V, rank, B
    <2>1. \A s \in A : RowsBelow(r, S)[s] = g[s]
      BY <1>0, <1>6, <1>9, Determined
    <2>. QED
      BY <2>1 DEF A
  <1>11. Rows(r) = RowsBelow(r, S)[S]
    BY Zenon DEF Rows, FoldSet, MapThenFoldSet, RowsBelow
  <1>. DEFINE T == {s \in A : \A x \in s : \E i \in DOMAIN g[s] : g[s][i].id = x}
  <1>12. ASSUME NEW s \in A, \A b \in A : rank[b] < rank[s] => b \in T PROVE s \in T
    <2>1. CASE s = {}
      BY <2>1
    <2>2. CASE s # {}
      <3>. DEFINE before == g[s \ {pick(s)}] row == Row(pick(s), pick(s), r[pick(s)])
      <3>1. s \ {pick(s)} \in T /\ pick(s) \in s
        <4>. HIDE DEF pick, rank, T
        <4>. QED
          BY <2>2, <1>2, <1>12
      <3>2. before \in V /\ row.id = pick(s)
        BY <1>6, <3>1 DEF Row
      <3>3. g[s] = Append(before, row)
        BY <1>6, <2>2
      <3>4. \A x \in s \ {pick(s)} : \E i \in DOMAIN before : before[i].id = x
        BY <3>1
      <3>5. /\ DOMAIN g[s] = 1 .. Len(before) + 1 /\ DOMAIN before = 1 .. Len(before)
            /\ Len(before) \in Nat
            /\ \A i \in DOMAIN before : g[s][i] = before[i]
            /\ g[s][Len(before) + 1] = row
        <4>. HIDE DEF before, row
        <4>. QED
          BY <3>2, <3>3
      <3>6. \A x \in s : \E i \in DOMAIN g[s] : g[s][i].id = x
        <4>. HIDE DEF before, row, pick
        <4>. QED
          BY <3>1, <3>2, <3>4, <3>5
      <3>. QED
        BY <3>6
    <2>. QED
      BY <2>1, <2>2
  <1>13. S \in T
    <2>1. A \subseteq T
      <3>. HIDE DEF A, T, rank
      <3>. QED
        BY <1>1, <1>12, Ascent
    <2>. QED
      BY <2>1
  <1>14. \A id \in S : \E i \in DOMAIN g[S] : g[S][i].id = id
    <2>. HIDE DEF A, rank, B
    <2>. QED
      BY <1>13
  <1>15. g[S] \in V
    BY <1>6
  <1>. HIDE DEF T, S, V, A, rank, B
  <1>16. Rows(r) = g[S]
    BY <1>10, <1>11
  <1>. QED
    BY <1>14, <1>15, <1>16 DEF S, V
IsRow(row)   == DOMAIN row = {"id", "original", "rule"} /\ row.id # NoId
IsRows(rows) == rows \in Seq({rows[i] : i \in DOMAIN rows}) /\ \A i \in DOMAIN rows : IsRow(rows[i])

\* The values of a leaf are of metrics there are, and a metric has an id.
AnalysisInv ==
  /\ task \in Tasks
  /\ DOMAIN tree = {"nodes", "edges"} /\ DOMAIN inputs = tree.nodes
  /\ IsFiniteSet(DOMAIN rules) /\ NoId \notin DOMAIN rules
  /\ \A n \in tree.nodes : DOMAIN inputs[n] \subseteq DOMAIN rules
  /\ form.open => IsRows(form.rows)

LEMMA RowsIn ==
  ASSUME NEW R, \A row \in R : IsRow(row), NEW rows \in Seq(R)
  PROVE  IsRows(rows)
  <1>1. /\ Len(rows) \in Nat /\ DOMAIN rows = 1 .. Len(rows)
        /\ rows \in [1 .. Len(rows) -> {rows[i] : i \in DOMAIN rows}]
        /\ \A i \in DOMAIN rows : rows[i] \in R
    OBVIOUS
  <1>. QED
    BY <1>1 DEF IsRows

LEMMA RowsAre ==
  ASSUME NEW rows, IsRows(rows)
  PROVE  \E R : rows \in Seq(R) /\ \A row \in R : IsRow(row)
  BY DEF IsRows

LEMMA AnalysisStarts == AnalysisInit => AnalysisInv
  <1>. SUFFICES ASSUME AnalysisInit PROVE AnalysisInv
    OBVIOUS
  <1>1. /\ task \in Tasks /\ tree \in task.trees /\ rules = DefaultRules /\ form = Closed
        /\ inputs = [n \in tree.nodes |-> IF Out(tree, n) = {} THEN task.committed ELSE <<>>]
    BY DEF AnalysisInit
  <1>2. DOMAIN tree = {"nodes", "edges"} /\ DOMAIN task.committed \subseteq BuiltIn
    BY <1>1, TasksAssumption DEF IsTree
  <1>3. /\ BuiltIn = {"AttackCost", "AttackTime", "PhysicalPresenceRequired", "AttackerMoneyGain",
                      "VictimFinancialLoss", "RandomEventProbability"}
        /\ DOMAIN rules = BuiltIn
    BY <1>1 DEF BuiltIn, DefaultRules
  <1>4. IsFiniteSet(DOMAIN rules) /\ NoId \notin DOMAIN rules
    <2>. DEFINE A == {} \cup {"AttackCost"} B == A \cup {"AttackTime"}
                C == B \cup {"PhysicalPresenceRequired"} D == C \cup {"AttackerMoneyGain"}
                E == D \cup {"VictimFinancialLoss"} F == E \cup {"RandomEventProbability"}
    <2>1. F = DOMAIN rules
      BY <1>3
    <2>2. IsFiniteSet(A)
      BY FS_EmptySet, FS_AddElement
    <2>. HIDE DEF A
    <2>3. IsFiniteSet(B)
      BY <2>2, FS_AddElement
    <2>. HIDE DEF B
    <2>4. IsFiniteSet(C)
      BY <2>3, FS_AddElement
    <2>. HIDE DEF C
    <2>5. IsFiniteSet(D)
      BY <2>4, FS_AddElement
    <2>. HIDE DEF D
    <2>6. IsFiniteSet(E)
      BY <2>5, FS_AddElement
    <2>. HIDE DEF E
    <2>. QED
      BY <2>1, <2>6, <1>3, FS_AddElement DEF NoId
  <1>5. DOMAIN inputs = tree.nodes /\ \A n \in tree.nodes : DOMAIN inputs[n] \subseteq DOMAIN rules
    BY <1>1, <1>2, <1>3
  <1>6. ~form.open
    BY <1>1 DEF Closed
  <1>. QED
    BY <1>1, <1>2, <1>4, <1>5, <1>6 DEF AnalysisInv

\* Edits of the tree keep its nodes.
LEMMA RestagedInv ==
  ASSUME AnalysisInv, NEW t, NEW r, Restaged(t, r), DOMAIN t = DOMAIN tree, t.nodes = tree.nodes
  PROVE  AnalysisInv'
  BY DEF AnalysisInv, Restaged

LEMMA RestageInv ==
  ASSUME AnalysisInv, NEW p, NEW change, Restage(p, change)
  PROVE  AnalysisInv'
  <1>. DEFINE t == StageRelationship(tree, p, change)
  <1>1. DOMAIN tree = {"nodes", "edges"}
    BY DEF AnalysisInv
  <1>2. DOMAIN t = DOMAIN tree /\ t.nodes = tree.nodes
    BY <1>1 DEF StageRelationship, Normalize
  <1>. HIDE DEF t
  <1>. QED
    BY <1>2, RestagedInv DEF Restage, t

LEMMA StageLeafInv ==
  ASSUME AnalysisInv, NEW n \in tree.nodes, StageLeaf(n)
  PROVE  AnalysisInv'
  <1>1. PICK e \in task.entries :
          inputs' = [inputs EXCEPT ![n] =
                       [id \in DOMAIN rules |-> IF id \in DOMAIN e THEN e[id] ELSE Null]]
    BY DEF StageLeaf
  <1>2. /\ DOMAIN inputs' = DOMAIN inputs
        /\ \A m \in tree.nodes : DOMAIN inputs'[m] \subseteq DOMAIN rules
    BY <1>1 DEF AnalysisInv
  <1>. QED
    BY <1>2 DEF AnalysisInv, StageLeaf

LEMMA RewriteInv ==
  ASSUME AnalysisInv, NEW rows, Rewrite(rows), IsRows(rows)
  PROVE  AnalysisInv'
  <1>1. form' = Opened(rows)
    BY DEF Rewrite
  <1>2. form'.rows = rows
    BY <1>1 DEF Opened
  <1>. QED
    BY <1>2 DEF AnalysisInv, Rewrite

LEMMA OpenRulesInv ==
  ASSUME AnalysisInv, OpenRules
  PROVE  AnalysisInv'
  <1>. DEFINE R == {Row(id, id, rules[id]) : id \in DOMAIN rules}
  <1>1. Rows(rules) \in Seq(R)
    BY RowsOf DEF AnalysisInv
  <1>2. \A row \in R : IsRow(row)
    BY DEF AnalysisInv, IsRow, Row
  <1>3. IsRows(Rows(rules))
    <2>. HIDE DEF R
    <2>. QED
      BY <1>1, <1>2, RowsIn
  <1>4. form'.rows = Rows(rules)
    BY DEF OpenRules, Opened
  <1>. QED
    BY <1>3, <1>4 DEF AnalysisInv, OpenRules

\* What is typed or copied into the dialog is the id of a metric.
LEMMA DialogInv ==
  ASSUME AnalysisInv, form.open,
         \/ \E i \in DOMAIN form.rows :
              Rename(i) \/ ChangeRule(i) \/ DeleteRow(i) \/ CopyRow(i)
         \/ AddRow
  PROVE  AnalysisInv'
  <1>. DEFINE rows == form.rows
  <1>1. PICK R : rows \in Seq(R) /\ \A row \in R : IsRow(row)
    BY RowsAre DEF AnalysisInv
  <1>2. \A id \in task.custom : id # NoId
    BY TasksAssumption DEF AnalysisInv
  <1>3. ASSUME NEW row, IsRow(row)
        PROVE  /\ IsRows(Append(rows, row))
               /\ \A i \in DOMAIN rows : IsRows([rows EXCEPT ![i] = row])
    <2>. DEFINE Q == R \cup {row}
    <2>1. \A q \in Q : IsRow(q)
      BY <1>1, <1>3
    <2>2. Append(rows, row) \in Seq(Q) /\ \A i \in DOMAIN rows : [rows EXCEPT ![i] = row] \in Seq(Q)
      BY <1>1
    <2>. HIDE DEF Q, rows
    <2>. QED
      BY <2>1, <2>2, RowsIn
  <1>4. ASSUME NEW i \in DOMAIN rows, Rename(i) PROVE AnalysisInv'
    <2>1. PICK id \in task.custom : Rewrite([rows EXCEPT ![i] = [rows[i] EXCEPT !.id = id]])
      BY <1>4 DEF Rename
    <2>2. IsRow([rows[i] EXCEPT !.id = id])
      BY <1>1, <1>2 DEF IsRow
    <2>. HIDE DEF rows
    <2>. QED
      BY <2>1, <2>2, <1>3, RewriteInv
  <1>5. ASSUME NEW i \in DOMAIN rows, ChangeRule(i) PROVE AnalysisInv'
    <2>1. PICK r : Rewrite([rows EXCEPT ![i] = [rows[i] EXCEPT !.rule = r]])
      BY <1>5 DEF ChangeRule
    <2>2. IsRow([rows[i] EXCEPT !.rule = r])
      BY <1>1 DEF IsRow
    <2>. HIDE DEF rows
    <2>. QED
      BY <2>1, <2>2, <1>3, RewriteInv
  <1>6. ASSUME NEW i \in DOMAIN rows, DeleteRow(i) PROVE AnalysisInv'
    <2>1. RemoveAt(rows, i) \in Seq(R)
      BY <1>1 DEF RemoveAt
    <2>2. Rewrite(RemoveAt(rows, i))
      BY <1>6 DEF DeleteRow
    <2>. HIDE DEF rows
    <2>. QED
      BY <2>1, <2>2, <1>1, RowsIn, RewriteInv
  <1>7. ASSUME NEW i \in DOMAIN rows, CopyRow(i) PROVE AnalysisInv'
    <2>1. PICK id \in task.custom : Rewrite(Append(rows, Row(id, NoId, rows[i].rule)))
      BY <1>7 DEF CopyRow
    <2>2. IsRow(Row(id, NoId, rows[i].rule))
      BY <1>2 DEF IsRow, Row
    <2>. HIDE DEF rows
    <2>. QED
      BY <2>1, <2>2, <1>3, RewriteInv
  <1>8. ASSUME AddRow PROVE AnalysisInv'
    <2>1. PICK id \in task.custom, r \in task.ruleChoices : Rewrite(Append(rows, Row(id, NoId, r)))
      BY <1>8 DEF AddRow
    <2>2. IsRow(Row(id, NoId, r))
      BY <1>2 DEF IsRow, Row
    <2>. HIDE DEF rows
    <2>. QED
      BY <2>1, <2>2, <1>3, RewriteInv
  <1>. QED
    BY <1>4, <1>5, <1>6, <1>7, <1>8

LEMMA UpTo == ASSUME NEW n \in Nat PROVE IsFiniteSet(1 .. n) /\ Cardinality(1 .. n) = n
  <1>1. /\ IsFiniteSet(1 .. n)
        /\ Cardinality(1 .. n) = IF 1 > n THEN 0 ELSE n - 1 + 1
    BY FS_Interval
  <1>. QED
    BY <1>1

\* Rows with ids of their own are found by them.
LEMMA OwnIds ==
  ASSUME NEW rows, IsRows(rows), Cardinality(Ids(rows)) = Len(rows),
         NEW i \in DOMAIN rows, NEW j \in DOMAIN rows, rows[i].id = rows[j].id
  PROVE  i = j
  <1>. DEFINE f == [k \in 1 .. Len(rows) |-> rows[k].id]
  <1>1. Len(rows) \in Nat /\ DOMAIN rows = 1 .. Len(rows)
    BY DEF IsRows
  <1>2. f \in Surjection(1 .. Len(rows), Ids(rows))
    BY <1>1 DEF Surjection, Ids
  <1>3. IsFiniteSet(1 .. Len(rows)) /\ Cardinality(1 .. Len(rows)) = Len(rows)
    BY <1>1, UpTo
  <1>4. f \in Injection(1 .. Len(rows), Ids(rows))
    <2>. HIDE DEF f
    <2>. QED
      BY <1>2, <1>3, FS_Surjection
  <1>. QED
    BY <1>1, <1>4 DEF Injection, IsInjective

LEMMA StageRulesInv ==
  ASSUME AnalysisInv, StageRules
  PROVE  AnalysisInv'
  <1>. DEFINE rows == form.rows
  <1>1. IsRows(rows)
    BY DEF AnalysisInv, StageRules
  <1>2. /\ DOMAIN rules' = Ids(rows)
        /\ inputs' = [n \in tree.nodes |-> Migrate(inputs[n], rows)]
        /\ form' = Closed /\ UNCHANGED <<tree, task>>
    BY DEF StageRules
  <1>3. NoId \notin Ids(rows)
    BY <1>1 DEF IsRows, IsRow, Ids
  <1>4. IsFiniteSet(Ids(rows))
    <2>. DEFINE f == [k \in 1 .. Len(rows) |-> rows[k].id]
    <2>1. Len(rows) \in Nat /\ DOMAIN rows = 1 .. Len(rows)
      BY <1>1 DEF IsRows
    <2>2. f \in Surjection(1 .. Len(rows), Ids(rows)) /\ IsFiniteSet(1 .. Len(rows))
      BY <2>1, UpTo DEF Surjection, Ids
    <2>. HIDE DEF f
    <2>. QED
      BY <2>2, FS_Surjection
  <1>5. \A n \in tree.nodes : DOMAIN inputs'[n] \subseteq Ids(rows)
    BY <1>2 DEF Migrate, Ids
  <1>6. ~form'.open
    BY <1>2 DEF Closed
  <1>. QED
    BY <1>2, <1>3, <1>4, <1>5, <1>6 DEF AnalysisInv

LEMMA AnalysisStep == AnalysisInv /\ [AnalysisNext]_analysisVars => AnalysisInv'
  <1>. SUFFICES ASSUME AnalysisInv, [AnalysisNext]_analysisVars PROVE AnalysisInv'
    OBVIOUS
  <1>1. ASSUME NEW n \in tree.nodes, SetEventKind(n) PROVE AnalysisInv'
    BY <1>1, RestagedInv DEF SetEventKind
  <1>2. ASSUME NEW p \in DOMAIN tree.edges, SetGate(p) \/ SetTailor(p) \/ SetBlock(p)
        PROVE  AnalysisInv'
    BY <1>2, RestageInv DEF SetGate, SetTailor, SetBlock
  <1>3. ASSUME CancelRules PROVE AnalysisInv'
    BY <1>3 DEF CancelRules, Closed, AnalysisInv
  <1>4. CASE UNCHANGED analysisVars
    BY <1>4 DEF analysisVars, AnalysisInv
  <1>. QED
    BY <1>1, <1>2, <1>3, <1>4, StageLeafInv, OpenRulesInv, StageRulesInv, DialogInv
    DEF AnalysisNext

\* The values of the leaves stay those of the metrics there are.
THEOREM AnalysisSafe == AnalysisSpec => []AnalysisInv
  BY AnalysisStarts, AnalysisStep, PTL DEF AnalysisSpec
\* A metric of the analyst's own or one that came with the tool, in the row i.
Own(i) == LET row == form.rows[i] old == row.original IN
            row.id = old \/ (row.id \notin DOMAIN rules /\ old \notin Ids(form.rows))

\* What Migrate makes of the values of one leaf.
LEMMA MigratedKeeps ==
  ASSUME AnalysisInv, form.open, Cardinality(Ids(form.rows)) = Len(form.rows),
         NEW n \in tree.nodes, NEW i \in DOMAIN form.rows, Own(i)
  PROVE  LET row == form.rows[i]
             old == row.original
             new == Migrate(inputs[n], form.rows)
         IN  IF old \in DOMAIN inputs[n] THEN row.id \in DOMAIN new /\ new[row.id] = inputs[n][old]
             ELSE row.id \notin DOMAIN new
  <1>. DEFINE rows == form.rows
              values == inputs[n]
              was == [j \in DOMAIN rows |-> Was(values, rows[j], rows)]
              kept == {j \in DOMAIN rows : was[j] # NoId}
              at(d) == CHOOSE j \in kept : rows[j].id = d
              id == rows[i].id
              old == rows[i].original
  <1>1. IsRows(rows) /\ DOMAIN values \subseteq DOMAIN rules /\ NoId \notin DOMAIN values
    BY DEF AnalysisInv
  <1>2. id \in Ids(rows)
    BY DEF Ids
  <1>3. \A j \in DOMAIN rows : rows[j].id = id => j = i
    BY <1>1, OwnIds
  <1>4. Migrate(values, rows) = [d \in {rows[j].id : j \in kept} |-> values[was[at(d)]]]
    BY DEF Migrate
  <1>5. CASE old \in DOMAIN values
    <2>1. was[i] = old
      BY <1>1, <1>2, <1>5 DEF Own, Was
    <2>2. i \in kept
      BY <2>1, <1>1, <1>5
    <2>3. at(id) = i
      <3>. HIDE DEF was
      <3>. QED
        BY <2>2, <1>3
    <2>. HIDE DEF was, kept, at
    <2>4. id \in DOMAIN Migrate(values, rows) /\ Migrate(values, rows)[id] = values[was[i]]
      <3>. HIDE DEF values, rows
      <3>. QED
        BY <2>2, <2>3, <1>4
    <2>. QED
      BY <2>1, <2>4, <1>5
  <1>6. CASE old \notin DOMAIN values
    <2>1. was[i] = NoId
      BY <1>1, <1>2, <1>6 DEF Own, Was
    <2>2. id \notin {rows[j].id : j \in kept}
      <3>. HIDE DEF was
      <3>. QED
        BY <2>1, <1>3
    <2>. HIDE DEF was, kept, at
    <2>. QED
      BY <2>2, <1>4, <1>6
  <1>. QED
    BY <1>5, <1>6

\* Staging the dialog moves the values of every leaf with the metrics they are of,
\* whatever the analyst renamed, deleted, copied or added in between, if no row took
\* an id that another had given up in the same dialog.
THEOREM ValuesFollowMetrics == AnalysisSpec => RulesKeepValues
  <1>. DEFINE Kept == (form.open /\ ~form'.open /\ DOMAIN rules' = Ids(form.rows)) =>
       \A i \in DOMAIN form.rows :
         LET row == form.rows[i]
             old == row.original
             own == row.id = old \/ (row.id \notin DOMAIN rules /\ old \notin Ids(form.rows))
         IN  own => \A n \in tree.nodes :
               IF old \in DOMAIN inputs[n]
               THEN row.id \in DOMAIN inputs'[n] /\ inputs'[n][row.id] = inputs[n][old]
               ELSE row.id \notin DOMAIN inputs'[n]
  <1>1. ASSUME AnalysisInv, [AnalysisNext]_analysisVars
        PROVE  [Kept]_analysisVars
    <2>. SUFFICES ASSUME form.open, ~form'.open, DOMAIN rules' = Ids(form.rows), AnalysisNext,
                         NEW i \in DOMAIN form.rows, Own(i), NEW n \in tree.nodes
                  PROVE  LET row == form.rows[i] old == row.original IN
                           IF old \in DOMAIN inputs[n]
                           THEN row.id \in DOMAIN inputs'[n] /\ inputs'[n][row.id] = inputs[n][old]
                           ELSE row.id \notin DOMAIN inputs'[n]
      BY <1>1 DEF Own
    <2>1. CASE StageRules
      <3>1. /\ Cardinality(Ids(form.rows)) = Len(form.rows)
            /\ inputs'[n] = Migrate(inputs[n], form.rows)
        BY <2>1 DEF StageRules
      <3>. QED
        BY <3>1, <1>1, MigratedKeeps
    <2>2. CASE CancelRules
      <3>1. inputs' = inputs /\ DOMAIN rules = Ids(form.rows)
        BY <2>2 DEF CancelRules
      <3>2. form.rows[i].id = form.rows[i].original
        BY <3>1 DEF Own, Ids
      <3>. QED
        BY <3>1, <3>2
    <2>3. StageRules \/ CancelRules
      <3>1. \A rows : Rewrite(rows) => form'.open
        BY DEF Rewrite, Opened
      <3>. QED
        BY <3>1 DEF AnalysisNext, StageLeaf, SetEventKind, SetGate, SetTailor, SetBlock, Restage,
                    Restaged, OpenRules, Rename, ChangeRule, DeleteRow, CopyRow, AddRow
    <2>. QED
      BY <2>1, <2>2, <2>3
  <1>. QED
    BY <1>1, AnalysisSafe, PTL DEF AnalysisSpec, RulesKeepValues
-----------------------------------------------------------------------------
\* What is reached.

Layers(S, along) ==
  CHOOSE reach : reach = [k \in Nat |->
    IF k = 0 THEN S
    ELSE LET before == reach[k - 1]
         IN  before \cup {p[2] : p \in {q \in along : q[1] \in before}}]

LEMMA LayersOf ==
  ASSUME NEW S, NEW along
  PROVE  /\ Layers(S, along) \in [Nat -> SUBSET (S \cup {p[2] : p \in along})]
         /\ Layers(S, along)[0] = S
         /\ \A k \in Nat : Layers(S, along)[k + 1] =
              Layers(S, along)[k] \cup {p[2] : p \in {q \in along : q[1] \in Layers(S, along)[k]}}
         /\ \A t : ReachFrom(t, S, along) = Layers(S, along)[Cardinality(t.nodes)]
  <1>. DEFINE V == SUBSET (S \cup {p[2] : p \in along})
              rank == [k \in Nat |-> k]
              Next(before) == before \cup {p[2] : p \in {q \in along : q[1] \in before}}
              B == [k \in Nat |-> [f \in [Nat -> V] |-> IF k = 0 THEN S ELSE Next(f[k - 1])]]
  <1>1. Founded(Nat, V, rank, B)
    <2>1. rank \in [Nat -> Nat] /\ [k \in Nat |-> S] \in [Nat -> V]
      OBVIOUS
    <2>2. B \in [Nat -> [[Nat -> V] -> V]]
      <3>1. \A before \in V : Next(before) \in V
        OBVIOUS
      <3>2. S \in V
        OBVIOUS
      <3>. HIDE DEF V, Next
      <3>. QED
        BY <3>1, <3>2
    <2>3. ASSUME NEW k \in Nat, NEW f \in [Nat -> V], NEW g \in [Nat -> V],
                 \A j \in Nat : rank[j] < rank[k] => f[j] = g[j]
          PROVE  B[k][f] = B[k][g]
      <3>1. k # 0 => f[k - 1] = g[k - 1]
        BY <2>3
      <3>. HIDE DEF V, Next
      <3>. QED
        BY <3>1
    <2>. HIDE DEF V, rank, B
    <2>. QED
      BY <2>1, <2>2, <2>3 DEF Founded
  <1>2. PICK g \in [Nat -> V] : \A k \in Nat : g[k] = B[k][g]
    <2>. HIDE DEF V, rank, B
    <2>. QED
      BY <1>1, Recursion
  <1>3. g = [k \in Nat |->
               IF k = 0 THEN S
               ELSE LET before == g[k - 1]
                    IN  before \cup {p[2] : p \in {q \in along : q[1] \in before}}]
    BY <1>2
  <1>. DEFINE h == Layers(S, along)
  <1>4. h = [k \in Nat |-> IF k = 0 THEN S ELSE Next(h[k - 1])]
    BY <1>3, Zenon DEF Layers
  <1>. HIDE DEF h
  <1>5. \A k \in Nat : h[k] = g[k]
    <2>1. ASSUME NEW k \in Nat, \A j \in Nat : rank[j] < rank[k] => h[j] = g[j]
          PROVE  h[k] = B[k][g]
      <3>1. k # 0 => h[k - 1] = g[k - 1]
        BY <2>1
      <3>. HIDE DEF V, Next
      <3>. QED
        BY <3>1, <1>4
    <2>. HIDE DEF V, rank, B
    <2>. QED
      BY <2>1, <1>1, <1>2, Determined
  <1>6. h \in [Nat -> V]
    <2>. HIDE DEF V
    <2>. QED
      BY <1>4, <1>5
  <1>7. h[0] = S /\ \A k \in Nat : h[k + 1] = Next(h[k])
    <2>. HIDE DEF Next
    <2>. QED
      BY <1>4
  <1>8. \A t : ReachFrom(t, S, along) = h[Cardinality(t.nodes)]
    BY Zenon DEF ReachFrom, Layers, h
  <1>. QED
    BY <1>6, <1>7, <1>8 DEF h

\* One step further.
Onward(along, before) == before \cup {p[2] : p \in {q \in along : q[1] \in before}}
LEMMA LayerStep ==
  \A S, along : \A k \in Nat : Layers(S, along)[k + 1] = Onward(along, Layers(S, along)[k])
  <1>. SUFFICES ASSUME NEW S, NEW along, NEW k \in Nat
                PROVE  Layers(S, along)[k + 1] = Onward(along, Layers(S, along)[k])
    OBVIOUS
  <1>. QED
    BY LayersOf DEF Onward

\* A set with the first layer that follows every relationship holds what is reached.
LEMMA ReachedWithin ==
  ASSUME NEW S, NEW along, NEW Q, S \subseteq Q, \A p \in along : p[1] \in Q => p[2] \in Q
  PROVE  \A k \in Nat : Layers(S, along)[k] \subseteq Q
  <1>. DEFINE T == {k \in Nat : Layers(S, along)[k] \subseteq Q}
  <1>1. 0 \in T
    BY LayersOf
  <1>2. ASSUME NEW k \in Nat, k \in T PROVE k + 1 \in T
    <2>1. Layers(S, along)[k + 1] =
            Layers(S, along)[k] \cup {p[2] : p \in {q \in along : q[1] \in Layers(S, along)[k]}}
      BY LayersOf
    <2>. QED
      BY <1>2, <2>1
  <1>. HIDE DEF T
  <1>3. Nat \subseteq T
    BY <1>1, <1>2, AscentOfNat
  <1>. QED
    BY <1>3 DEF T
\* What is reached is closed: as many steps as there are nodes are enough.
LEMMA ReachedClosed ==
  ASSUME NEW t, IsFiniteSet(t.nodes), NEW S \in SUBSET t.nodes, NEW along,
         \A p \in along : p[2] \in t.nodes
  PROVE  /\ ReachFrom(t, S, along) \subseteq t.nodes
         /\ S \subseteq ReachFrom(t, S, along)
         /\ \A p \in along : p[1] \in ReachFrom(t, S, along) => p[2] \in ReachFrom(t, S, along)
  <1>. DEFINE L == Layers(S, along)
              N == Cardinality(t.nodes)
              Still(k) == \A p \in along : p[1] \in L[k] => p[2] \in L[k]
  <1>1. N \in Nat
    BY FS_CardinalityType
  <1>2. \A k \in Nat : /\ L[k] \subseteq t.nodes /\ S \subseteq L[k]
                       /\ L[k + 1] = L[k] \cup {p[2] : p \in {q \in along : q[1] \in L[k]}}
    <2>1. \A k \in Nat : L[k] \subseteq t.nodes
      BY ReachedWithin
    <2>. DEFINE T == {k \in Nat : S \subseteq L[k]}
    <2>2. 0 \in T /\ \A k \in Nat : k \in T => k + 1 \in T
      BY LayersOf
    <2>. HIDE DEF T
    <2>3. Nat \subseteq T
      BY <2>2, AscentOfNat
    <2>. QED
      BY <2>1, <2>3, LayersOf DEF T
  <1>. HIDE DEF L
  <1>3. ASSUME NEW k \in Nat, Still(k) PROVE L[k + 1] = L[k]
    <2>1. {p[2] : p \in {q \in along : q[1] \in L[k]}} \subseteq L[k]
      BY <1>3
    <2>. QED
      BY <1>2, <2>1
  <1>4. ASSUME NEW k \in Nat PROVE Still(k) \/ Cardinality(L[k]) >= k
    <2>. DEFINE T == {j \in Nat : Still(j) \/ Cardinality(L[j]) >= j}
    <2>1. \A j \in Nat : IsFiniteSet(L[j]) /\ Cardinality(L[j]) \in Nat
      BY <1>2, FS_Subset, FS_CardinalityType
    <2>2. 0 \in T
      BY <2>1
    <2>3. ASSUME NEW j \in Nat, j \in T PROVE j + 1 \in T
      <3>1. CASE Still(j)
        <4>1. L[j + 1] = L[j]
          BY <3>1, <1>3
        <4>. QED
          BY <3>1, <4>1
      <3>2. CASE ~Still(j)
        <4>1. Cardinality(L[j]) >= j
          BY <2>3, <3>2
        <4>2. L[j] \subseteq L[j + 1] /\ L[j] # L[j + 1]
          BY <1>2, <3>2
        <4>3. Cardinality(L[j]) <= Cardinality(L[j + 1]) /\ Cardinality(L[j]) # Cardinality(L[j + 1])
          BY <4>2, <2>1, FS_Subset
        <4>4. Cardinality(L[j + 1]) >= j + 1
          BY <4>1, <4>3, <2>1
        <4>. QED
          BY <4>4
      <3>. QED
        BY <3>1, <3>2
    <2>. HIDE DEF T
    <2>4. Nat \subseteq T
      BY <2>2, <2>3, AscentOfNat
    <2>. QED
      BY <2>4 DEF T
  <1>5. Still(N)
    <2>. SUFFICES ASSUME ~Still(N) PROVE FALSE
      OBVIOUS
    <2>1. Cardinality(L[N]) >= N
      BY <1>1, <1>4
    <2>2. L[N] \subseteq t.nodes
      BY <1>1, <1>2
    <2>3. Cardinality(L[N]) <= N /\ Cardinality(L[N]) \in Nat
          /\ (Cardinality(L[N]) = N => L[N] = t.nodes)
      BY <2>2, FS_Subset, FS_CardinalityType
    <2>4. L[N] = t.nodes
      BY <1>1, <2>1, <2>3
    <2>. QED
      BY <2>4
  <1>6. ReachFrom(t, S, along) = L[N]
    BY LayersOf DEF L
  <1>. QED
    BY <1>1, <1>2, <1>5, <1>6

-----------------------------------------------------------------------------
\* Depth.

Queue(t) ==
  CHOOSE taken : taken = [k \in Nat |->
    IF k = 0 THEN {}
    ELSE LET before == taken[k - 1]
         IN  t.nodes \ {p[2] : p \in {q \in DOMAIN t.edges : q[1] \notin before}}]

LEMMA QueueOf ==
  ASSUME NEW t
  PROVE  /\ Queue(t)[0] = {}
         /\ \A k \in Nat : Queue(t)[k + 1] =
              t.nodes \ {p[2] : p \in {q \in DOMAIN t.edges : q[1] \notin Queue(t)[k]}}
         /\ Acyclic(t) <=> Queue(t)[Cardinality(t.nodes)] = t.nodes
  <1>. DEFINE V == SUBSET t.nodes
              rank == [k \in Nat |-> k]
              Next(before) == t.nodes \ {p[2] : p \in {q \in DOMAIN t.edges : q[1] \notin before}}
              B == [k \in Nat |-> [f \in [Nat -> V] |-> IF k = 0 THEN {} ELSE Next(f[k - 1])]]
  <1>1. Founded(Nat, V, rank, B)
    <2>1. rank \in [Nat -> Nat] /\ [k \in Nat |-> {}] \in [Nat -> V]
      OBVIOUS
    <2>2. B \in [Nat -> [[Nat -> V] -> V]]
      <3>1. \A before \in V : Next(before) \in V
        OBVIOUS
      <3>2. {} \in V
        OBVIOUS
      <3>. HIDE DEF V, Next
      <3>. QED
        BY <3>1, <3>2
    <2>3. ASSUME NEW k \in Nat, NEW f \in [Nat -> V], NEW g \in [Nat -> V],
                 \A j \in Nat : rank[j] < rank[k] => f[j] = g[j]
          PROVE  B[k][f] = B[k][g]
      <3>1. k # 0 => f[k - 1] = g[k - 1]
        BY <2>3
      <3>. HIDE DEF V, Next
      <3>. QED
        BY <3>1
    <2>. HIDE DEF V, rank, B
    <2>. QED
      BY <2>1, <2>2, <2>3 DEF Founded
  <1>2. PICK g \in [Nat -> V] : \A k \in Nat : g[k] = B[k][g]
    <2>. HIDE DEF V, rank, B
    <2>. QED
      BY <1>1, Recursion
  <1>3. g = [k \in Nat |->
               IF k = 0 THEN {}
               ELSE LET before == g[k - 1]
                    IN  t.nodes \ {p[2] : p \in {q \in DOMAIN t.edges : q[1] \notin before}}]
    BY <1>2
  <1>. DEFINE h == Queue(t)
  <1>4. h = [k \in Nat |-> IF k = 0 THEN {} ELSE Next(h[k - 1])]
    BY <1>3, Zenon DEF Queue
  <1>5. Acyclic(t) <=> h[Cardinality(t.nodes)] = t.nodes
    BY Zenon DEF Acyclic, Queue, h
  <1>. HIDE DEF h
  <1>6. h[0] = {} /\ \A k \in Nat : h[k + 1] = Next(h[k])
    <2>. HIDE DEF Next
    <2>. QED
      BY <1>4
  <1>. QED
    BY <1>5, <1>6 DEF h

\* The nodes of an acyclic tree are taken one after the other: each after those from
\* which a relationship leads to it.
LEMMA Levels ==
  ASSUME NEW t, IsFiniteSet(t.nodes), Acyclic(t),
         \A p \in DOMAIN t.edges : p[1] \in t.nodes /\ p[2] \in t.nodes
  PROVE  \E level \in [t.nodes -> 0 .. Cardinality(t.nodes)] :
           \A p \in DOMAIN t.edges : level[p[1]] < level[p[2]]
  <1>. DEFINE N == Cardinality(t.nodes)
              At(n) == {k \in 0 .. N : n \in Queue(t)[k]}
              level == [n \in t.nodes |-> CHOOSE k \in At(n) : \A j \in At(n) : k <= j]
  <1>1. N \in Nat /\ Queue(t)[N] = t.nodes
    BY FS_CardinalityType, QueueOf
  <1>2. ASSUME NEW n \in t.nodes
        PROVE  level[n] \in At(n) /\ \A j \in At(n) : level[n] <= j
    <2>1. N \in At(n)
      BY <1>1
    <2>2. At(n) \in SUBSET Nat /\ At(n) # {}
      BY <2>1, <1>1
    <2>. HIDE DEF At
    <2>3. \E k \in At(n) : \A j \in At(n) : k <= j
      BY <2>2, Least
    <2>. QED
      BY <2>3
  <1>3. ASSUME NEW n \in t.nodes
        PROVE  level[n] \in 0 .. N /\ n \in Queue(t)[level[n]]
    BY <1>2
  <1>4. ASSUME NEW p \in DOMAIN t.edges
        PROVE  level[p[1]] < level[p[2]]
    <2>. DEFINE k == level[p[2]]
    <2>. HIDE DEF level
    <2>1. k \in Nat /\ k <= N /\ p[2] \in Queue(t)[k]
      BY <1>3, <1>1
    <2>2. k # 0
      BY <2>1, QueueOf
    <2>3. k - 1 \in Nat /\ (k - 1) + 1 = k /\ k - 1 <= N
      BY <2>1, <2>2, <1>1
    <2>4. Queue(t)[k] = t.nodes \ {q[2] : q \in {e \in DOMAIN t.edges : e[1] \notin Queue(t)[k - 1]}}
      BY <2>3, QueueOf
    <2>5. p[1] \in Queue(t)[k - 1]
      BY <2>1, <2>4
    <2>6. k - 1 \in At(p[1])
      BY <2>3, <2>5, <1>1
    <2>7. level[p[1]] <= k - 1 /\ level[p[1]] \in Nat
      <3>. HIDE DEF At, k
      <3>. QED
        BY <2>6, <1>2, <1>3, <1>1
    <2>. QED
      BY <2>7, <2>1
  <1>5. level \in [t.nodes -> 0 .. N]
    BY <1>3
  <1>. HIDE DEF level
  <1>. QED
    BY <1>4, <1>5

\* So they have a height: what a relationship leads to is lower.
LEMMA Heights ==
  ASSUME NEW t, IsFiniteSet(t.nodes), Acyclic(t),
         \A p \in DOMAIN t.edges : p[1] \in t.nodes /\ p[2] \in t.nodes
  PROVE  \E height \in [t.nodes -> Nat] :
           \A p \in DOMAIN t.edges : height[p[2]] < height[p[1]]
  <1>. DEFINE N == Cardinality(t.nodes)
  <1>1. N \in Nat
    BY FS_CardinalityType
  <1>2. PICK level \in [t.nodes -> 0 .. N] : \A p \in DOMAIN t.edges : level[p[1]] < level[p[2]]
    BY Levels
  <1>. HIDE DEF N
  <1>. DEFINE height == [n \in t.nodes |-> N - level[n]]
  <1>3. height \in [t.nodes -> Nat]
    BY <1>1, <1>2
  <1>4. \A p \in DOMAIN t.edges : height[p[2]] < height[p[1]]
    BY <1>1, <1>2
  <1>. QED
    BY <1>3, <1>4

\* And a tree whose nodes can be taken in some order is acyclic.
LEMMA AcyclicByLevels ==
  ASSUME NEW t, IsFiniteSet(t.nodes),
         \A p \in DOMAIN t.edges : p[1] \in t.nodes /\ p[2] \in t.nodes,
         NEW level \in [t.nodes -> Nat],
         \A p \in DOMAIN t.edges : level[p[1]] < level[p[2]]
  PROVE  Acyclic(t)
  <1>. DEFINE Q == Queue(t)
              N == Cardinality(t.nodes)
              Next(before) == t.nodes \ {p[2] : p \in {q \in DOMAIN t.edges : q[1] \notin before}}
  <1>1. Q[0] = {} /\ (\A k \in Nat : Q[k + 1] = Next(Q[k])) /\ (Acyclic(t) <=> Q[N] = t.nodes)
    BY QueueOf
  <1>2. N \in Nat
    BY FS_CardinalityType
  <1>. HIDE DEF Q, N
  <1>3. \A k \in Nat : Q[k] \subseteq t.nodes /\ Q[k] \subseteq Q[k + 1]
    <2>. DEFINE T == {k \in Nat : Q[k] \subseteq t.nodes /\ Q[k] \subseteq Q[k + 1]}
    <2>1. 0 \in T
      BY <1>1
    <2>2. ASSUME NEW k \in Nat, k \in T PROVE k + 1 \in T
      <3>1. Q[k + 1] = Next(Q[k]) /\ Q[(k + 1) + 1] = Next(Q[k + 1])
        BY <1>1
      <3>2. Q[k] \subseteq Q[k + 1]
        BY <2>2
      <3>3. Next(Q[k]) \subseteq Next(Q[k + 1]) /\ Next(Q[k]) \subseteq t.nodes
        BY <3>2
      <3>. HIDE DEF Next
      <3>. QED
        BY <3>1, <3>3
    <2>. HIDE DEF T
    <2>3. Nat \subseteq T
      BY <2>1, <2>2, AscentOfNat
    <2>. QED
      BY <2>3 DEF T
  <1>4. ASSUME NEW k \in Nat, Q[k + 1] = Q[k] PROVE t.nodes \subseteq Q[k]
    <2>1. ASSUME NEW n \in t.nodes, \A m \in t.nodes : level[m] < level[n] => m \in Q[k]
          PROVE  n \in Q[k]
      <3>1. n \in Next(Q[k])
        BY <2>1
      <3>. HIDE DEF Next
      <3>. QED
        BY <1>1, <1>4, <3>1
    <2>. QED
      BY <2>1, Ascent
  <1>5. ASSUME NEW k \in Nat PROVE Q[k] = t.nodes \/ Cardinality(Q[k]) >= k
    <2>. DEFINE T == {j \in Nat : Q[j] = t.nodes \/ Cardinality(Q[j]) >= j}
    <2>1. \A j \in Nat : IsFiniteSet(Q[j]) /\ Cardinality(Q[j]) \in Nat
      BY <1>3, FS_Subset, FS_CardinalityType
    <2>2. 0 \in T
      BY <2>1
    <2>3. ASSUME NEW j \in Nat, j \in T PROVE j + 1 \in T
      <3>0. j + 1 \in Nat /\ Q[j] \subseteq t.nodes /\ Q[j] \subseteq Q[j + 1]
        BY <1>3
      <3>1. CASE Q[j] = t.nodes
        <4>1. Q[j + 1] \subseteq t.nodes
          BY <3>0, <1>3
        <4>. QED
          BY <3>0, <3>1, <4>1
      <3>2. CASE Q[j] # t.nodes
        <4>1. Cardinality(Q[j]) >= j
          BY <2>3, <3>2
        <4>2. Q[j] \subseteq Q[j + 1] /\ Q[j] # Q[j + 1]
          <5>1. Q[j + 1] = Q[j] => t.nodes \subseteq Q[j]
            BY <1>4
          <5>. QED
            BY <3>0, <3>2, <5>1
        <4>3. Cardinality(Q[j]) <= Cardinality(Q[j + 1]) /\ Cardinality(Q[j]) # Cardinality(Q[j + 1])
          BY <4>2, <2>1, FS_Subset
        <4>4. Cardinality(Q[j + 1]) >= j + 1
          BY <4>1, <4>3, <2>1
        <4>. QED
          BY <4>4
      <3>. QED
        BY <3>1, <3>2
    <2>. HIDE DEF T
    <2>4. Nat \subseteq T
      BY <2>2, <2>3, AscentOfNat
    <2>. QED
      BY <2>4 DEF T
  <1>6. Q[N] = t.nodes
    <2>1. Cardinality(Q[N]) = N => Q[N] = t.nodes
      BY <1>2, <1>3, FS_Subset DEF N
    <2>2. Cardinality(Q[N]) <= N /\ Cardinality(Q[N]) \in Nat
      BY <1>2, <1>3, FS_Subset, FS_CardinalityType DEF N
    <2>. QED
      BY <1>2, <1>5, <2>1, <2>2
  <1>. QED
    BY <1>1, <1>6
-----------------------------------------------------------------------------
\* Sequences.

\* What is drawn: a tree whose relationships say what there is to say.
Drawn(t) == /\ DOMAIN t = {"nodes", "edges"} /\ IsFiniteSet(t.nodes) /\ t.nodes \subseteq Node
            /\ DOMAIN t.edges \subseteq t.nodes \X t.nodes
            /\ \A p \in DOMAIN t.edges : t.edges[p] \in Edge
\* u says what t says, but for the sequences.
SameButOrder(u, t) ==
  /\ DOMAIN u = {"nodes", "edges"} /\ u.nodes = t.nodes /\ DOMAIN u.edges = DOMAIN t.edges
  /\ \A p \in DOMAIN t.edges : /\ u.edges[p].gate = t.edges[p].gate
                               /\ u.edges[p].tailored = t.edges[p].tailored
                               /\ u.edges[p].blocked = t.edges[p].blocked
                               /\ u.edges[p].allowed = t.edges[p].allowed
Ahead(t, n, p) == {q \in Sequential(t, n) : Before(t, q, p)}
Numbering(t, p) == IF t.edges[p].gate # "SAND" THEN NoSeq
                   ELSE IF t.edges[p].tailored THEN t.edges[p].seq
                   ELSE Cardinality(Ahead(t, p[1], p))

LEMMA DrawnFinite ==
  ASSUME NEW t, Drawn(t)
  PROVE  /\ IsFiniteSet(DOMAIN t.edges)
         /\ \A n : IsFiniteSet(Out(t, n)) /\ IsFiniteSet(Active(t, n)) /\ IsFiniteSet(Sequential(t, n))
         /\ \A n, p : IsFiniteSet(Ahead(t, n, p)) /\ Cardinality(Ahead(t, n, p)) \in Nat
  <1>1. IsFiniteSet(t.nodes \X t.nodes)
    BY FS_Product DEF Drawn
  <1>2. IsFiniteSet(DOMAIN t.edges)
    BY <1>1, FS_Subset DEF Drawn
  <1>3. \A n : /\ Out(t, n) \subseteq DOMAIN t.edges /\ Active(t, n) \subseteq DOMAIN t.edges
               /\ Sequential(t, n) \subseteq DOMAIN t.edges
    BY DEF Out, Active, Sequential
  <1>4. \A n, p : Ahead(t, n, p) \subseteq DOMAIN t.edges
    BY <1>3 DEF Ahead
  <1>. QED
    BY <1>2, <1>3, <1>4, FS_Subset, FS_CardinalityType

LEMMA NormalOf ==
  ASSUME NEW t, Drawn(t)
  PROVE  /\ SameButOrder(Normalize(t), t) /\ Drawn(Normalize(t))
         /\ \A p \in DOMAIN t.edges : Normalize(t).edges[p].seq = Numbering(t, p)
  <1>. DEFINE u == Normalize(t)
  <1>1. /\ DOMAIN u = {"nodes", "edges"} /\ u.nodes = t.nodes
        /\ u.edges = [p \in DOMAIN t.edges |-> [t.edges[p] EXCEPT !.seq = Numbering(t, p)]]
    BY DEF Normalize, Numbering, Ahead, Drawn
  <1>2. ASSUME NEW p \in DOMAIN t.edges PROVE Numbering(t, p) \in Nat \cup {NoSeq}
    <2>1. t.edges[p].seq \in Nat \cup {NoSeq}
      BY DEF Drawn, Edge
    <2>. QED
      BY <2>1, DrawnFinite DEF Numbering
  <1>. HIDE DEF u
  <1>3. ASSUME NEW p \in DOMAIN t.edges
        PROVE  /\ u.edges[p].gate = t.edges[p].gate
               /\ u.edges[p].tailored = t.edges[p].tailored
               /\ u.edges[p].blocked = t.edges[p].blocked
               /\ u.edges[p].allowed = t.edges[p].allowed
               /\ u.edges[p].seq = Numbering(t, p) /\ u.edges[p] \in Edge
    <2>. DEFINE e == t.edges[p]
    <2>1. u.edges[p] = [e EXCEPT !.seq = Numbering(t, p)]
      BY <1>1
    <2>2. e \in Edge
      BY DEF Drawn
    <2>. HIDE DEF e
    <2>3. /\ u.edges[p].gate = e.gate /\ u.edges[p].tailored = e.tailored
          /\ u.edges[p].blocked = e.blocked /\ u.edges[p].allowed = e.allowed
          /\ u.edges[p].seq = Numbering(t, p)
      BY <2>1, <2>2 DEF Edge
    <2>4. u.edges[p] \in Edge
      BY <2>1, <2>2, <1>2 DEF Edge
    <2>. QED
      BY <2>3, <2>4 DEF e
  <1>4. DOMAIN u.edges = DOMAIN t.edges
    BY <1>1
  <1>5. SameButOrder(u, t)
    BY <1>1, <1>3, <1>4 DEF SameButOrder
  <1>6. Drawn(u)
    BY <1>1, <1>3, <1>4 DEF Drawn
  <1>. QED
    BY <1>3, <1>5, <1>6 DEF u

\* The relationships of a group are in an order in which no two are alike.
LEMMA InLine ==
  ASSUME NEW t, Drawn(t), NEW n, NEW S \in SUBSET Out(t, n)
  PROVE  /\ \A p \in S : ~Before(t, p, p)
         /\ \A p, q \in S : p # q => Before(t, p, q) \/ Before(t, q, p)
         /\ \A p, q, r \in S : Before(t, p, q) /\ Before(t, q, r) => Before(t, p, r)
  <1>1. ASSUME NEW p \in S
        PROVE  /\ p[1] = n /\ p[2] \in Node /\ p = <<p[1], p[2]>>
               /\ Order(t.edges[p].seq) \in Nat /\ Rank[p[2]] \in Nat
    <2>1. p \in DOMAIN t.edges /\ p[1] = n
      BY DEF Out
    <2>2. p \in t.nodes \X t.nodes /\ t.nodes \subseteq Node
      BY <2>1 DEF Drawn
    <2>3. t.edges[p].seq \in Nat \cup {NoSeq}
      BY <2>1 DEF Drawn, Edge
    <2>4. p[2] \in Node /\ p = <<p[1], p[2]>>
      BY <2>2
    <2>. QED
      BY <2>1, <2>3, <2>4, NodesAssumption DEF Order
  <1>2. \A p, q \in S : Rank[p[2]] = Rank[q[2]] => p = q
    <2>1. \A p, q \in S : p[2] = q[2] => p = q
      BY <1>1
    <2>. QED
      BY <1>1, <2>1, NodesAssumption
  <1>. QED
    BY <1>1, <1>2 DEF Before

\* An injection has an image as large as what it is of.
OneToOne(f, S) == f \in [S -> {f[x] : x \in S}] /\ \A x, y \in S : f[x] = f[y] => x = y
LEMMA ImageSize ==
  ASSUME NEW S, IsFiniteSet(S), NEW f, OneToOne(f, S)
  PROVE  IsFiniteSet({f[x] : x \in S}) /\ Cardinality({f[x] : x \in S}) = Cardinality(S)
  <1>. DEFINE I == {f[x] : x \in S}
  <1>1. f \in Surjection(S, I) /\ f \in Injection(S, I)
    BY DEF OneToOne, Surjection, Injection, IsInjective
  <1>. HIDE DEF I
  <1>. QED
    BY <1>1, FS_Surjection DEF I

\* So relationships of one node are numbered from 0 without a gap, and no two alike.
AheadIn(t, S, p) == {q \in S : Before(t, q, p)}
LEMMA NumberedIn ==
  ASSUME NEW t, Drawn(t), NEW n, NEW S \in SUBSET Out(t, n)
  PROVE  /\ {Cardinality(AheadIn(t, S, p)) : p \in S} = 0 .. Cardinality(S) - 1
         /\ \A p, q \in S : Cardinality(AheadIn(t, S, p)) = Cardinality(AheadIn(t, S, q)) => p = q
  <1>. DEFINE N == Cardinality(S)
              A(p) == AheadIn(t, S, p)
              f == [p \in S |-> Cardinality(A(p))]
              I == {f[p] : p \in S}
  <1>1. IsFiniteSet(S) /\ N \in Nat
    BY DrawnFinite, FS_Subset, FS_CardinalityType
  <1>2. \A p \in S : IsFiniteSet(A(p)) /\ Cardinality(A(p)) \in Nat
    BY <1>1, FS_Subset, FS_CardinalityType DEF AheadIn
  <1>3. ASSUME NEW p \in S PROVE f[p] \in 0 .. N - 1
    <2>1. A(p) \subseteq S /\ p \notin A(p)
      BY InLine DEF AheadIn
    <2>2. A(p) # S
      BY <2>1
    <2>3. Cardinality(A(p)) <= N /\ Cardinality(A(p)) # N
      BY <2>1, <2>2, <1>1, FS_Subset
    <2>. HIDE DEF A, N
    <2>. QED
      BY <2>3, <1>1, <1>2
  <1>4. ASSUME NEW p \in S, NEW q \in S, Before(t, p, q) PROVE f[p] < f[q]
    <2>1. A(p) \subseteq A(q)
      BY <1>4, InLine DEF AheadIn
    <2>2. p \in A(q) /\ p \notin A(p)
      BY <1>4, InLine DEF AheadIn
    <2>3. Cardinality(A(p)) <= Cardinality(A(q)) /\ Cardinality(A(p)) # Cardinality(A(q))
      <3>. HIDE DEF A
      <3>. QED
        BY <2>1, <2>2, <1>2, FS_Subset
    <2>. HIDE DEF A
    <2>. QED
      BY <2>3, <1>2
  <1>5. OneToOne(f, S)
    <2>1. \A p \in S : f[p] \in Nat
      BY <1>2
    <2>2. ASSUME NEW p \in S, NEW q \in S, f[p] = f[q] PROVE p = q
      <3>1. Before(t, p, q) => f[p] < f[q]
        BY <1>4
      <3>2. Before(t, q, p) => f[q] < f[p]
        BY <1>4
      <3>3. p # q => Before(t, p, q) \/ Before(t, q, p)
        BY InLine
      <3>. HIDE DEF f
      <3>. QED
        BY <2>1, <2>2, <3>1, <3>2, <3>3
    <2>3. f \in [S -> {f[p] : p \in S}]
      OBVIOUS
    <2>4. \A p, q \in S : f[p] = f[q] => p = q
      BY <2>2
    <2>. HIDE DEF f
    <2>. QED
      BY <2>3, <2>4 DEF OneToOne
  <1>6. Cardinality(I) = N
    <2>. HIDE DEF f
    <2>. QED
      BY <1>1, <1>5, ImageSize
  <1>7. I \subseteq 0 .. N - 1
    BY <1>3
  <1>8. IsFiniteSet(0 .. N - 1) /\ Cardinality(0 .. N - 1) = N
    <2>. HIDE DEF N
    <2>1. 0 \in Int /\ N - 1 \in Int
      BY <1>1
    <2>2. IsFiniteSet(0 .. N - 1) /\ Cardinality(0 .. N - 1) = IF 0 > N - 1 THEN 0 ELSE (N - 1) - 0 + 1
      BY <2>1, FS_Interval
    <2>. QED
      BY <2>2, <1>1
  <1>9. I = 0 .. N - 1
    <2>. HIDE DEF I, N
    <2>. QED
      BY <1>6, <1>7, <1>8, FS_Subset
  <1>10. \A p, q \in S : Cardinality(A(p)) = Cardinality(A(q)) => p = q
    BY <1>5 DEF OneToOne
  <1>. QED
    BY <1>9, <1>10

\* A group is numbered from 0 without a gap.
LEMMA Numbered ==
  ASSUME NEW t, Drawn(t), NEW n
  PROVE  {Cardinality(Ahead(t, n, p)) : p \in Sequential(t, n)} = 0 .. Cardinality(Sequential(t, n)) - 1
  <1>1. Sequential(t, n) \in SUBSET Out(t, n) /\ \A p : Ahead(t, n, p) = AheadIn(t, Sequential(t, n), p)
    BY DEF Sequential, Ahead, AheadIn
  <1>. DEFINE S == Sequential(t, n)
  <1>2. {Cardinality(AheadIn(t, S, p)) : p \in S} = 0 .. Cardinality(S) - 1
    BY <1>1, NumberedIn
  <1>. HIDE DEF S
  <1>. QED
    BY <1>1, <1>2 DEF S
-----------------------------------------------------------------------------
\* Edits.

LEMMA MadeEdge ==
  ASSUME NEW t, Drawn(t), NEW n, NEW m
  PROVE  MakeEdge(t, n, m) \in Edge
  <1>. DEFINE e == MakeEdge(t, n, m)
              open == {p \in Out(t, n) : ~t.edges[p].tailored}
  <1>1. \A g \in Gates(t, n) : g \in {"AND", "OR", "SAND"}
    BY DEF Gates, Active, Out, Drawn, Edge
  <1>2. Gates(t, n) # {} => (CHOOSE g \in Gates(t, n) : TRUE) \in Gates(t, n)
    OBVIOUS
  <1>3. e.gate \in {"AND", "OR", "SAND"}
    BY <1>1, <1>2 DEF MakeEdge
  <1>4. Cardinality(open) \in Nat
    <2>1. IsFiniteSet(Out(t, n)) /\ open \subseteq Out(t, n)
      BY DrawnFinite
    <2>. HIDE DEF open
    <2>. QED
      BY <2>1, FS_Subset, FS_CardinalityType
  <1>5. e.seq \in Nat \cup {NoSeq}
    BY <1>4 DEF MakeEdge
  <1>6. e = [gate |-> e.gate, seq |-> e.seq, tailored |-> FALSE, blocked |-> FALSE, allowed |-> FALSE]
    BY DEF MakeEdge
  <1>. HIDE DEF e
  <1>7. e \in Edge
    <2>1. \A g \in {"AND", "OR", "SAND"}, s \in Nat \cup {NoSeq} :
            [gate |-> g, seq |-> s, tailored |-> FALSE, blocked |-> FALSE, allowed |-> FALSE] \in Edge
      BY DEF Edge
    <2>. QED
      BY <1>3, <1>5, <1>6, <2>1
  <1>. QED
    BY <1>7 DEF e

LEMMA AttachDrawn ==
  ASSUME NEW t, Drawn(t), NEW n \in t.nodes, NEW m \in Node
  PROVE  Drawn(Attach(t, n, m))
  <1>. DEFINE added == [t EXCEPT !.nodes = @ \cup {m}]
              made == MakeEdge(added, n, m)
              w == [added EXCEPT !.edges = [p \in DOMAIN t.edges \cup {<<n, m>>} |->
                      IF p = <<n, m>> THEN made ELSE t.edges[p]]]
  <1>1. /\ DOMAIN added = {"nodes", "edges"} /\ added.nodes = t.nodes \cup {m}
        /\ added.edges = t.edges
    BY DEF Drawn
  <1>2. IsFiniteSet(t.nodes \cup {m})
    BY FS_AddElement DEF Drawn
  <1>3. Drawn(added)
    <2>. HIDE DEF added
    <2>. QED
      BY <1>1, <1>2 DEF Drawn
  <1>4. made \in Edge
    BY <1>3, MadeEdge
  <1>5. /\ DOMAIN w = {"nodes", "edges"} /\ w.nodes = t.nodes \cup {m}
        /\ w.edges = [p \in DOMAIN t.edges \cup {<<n, m>>} |->
                        IF p = <<n, m>> THEN made ELSE t.edges[p]]
    <2>. HIDE DEF added, made
    <2>. QED
      BY <1>1
  <1>6. Attach(t, n, m) = Normalize(w)
    BY DEF Attach
  <1>. HIDE DEF w, made
  <1>7. Drawn(w)
    <2>1. DOMAIN w.edges = DOMAIN t.edges \cup {<<n, m>>}
      BY <1>5
    <2>2. \A p \in DOMAIN w.edges : w.edges[p] \in Edge
      BY <1>4, <1>5 DEF Drawn
    <2>3. DOMAIN w.edges \subseteq w.nodes \X w.nodes
      BY <1>5, <2>1 DEF Drawn
    <2>4. w.nodes \subseteq Node
      BY <1>5 DEF Drawn
    <2>. QED
      BY <1>2, <1>5, <2>2, <2>3, <2>4 DEF Drawn
  <1>. QED
    BY <1>6, <1>7, NormalOf

\* What removing a branch leaves, before it is numbered.
Left(t, n) ==
  LET kept  == {p \in DOMAIN t.edges : p[2] # n}
      nodes == ReachFrom(t, {Root}, kept)
  IN  [nodes |-> t.nodes \cap nodes,
       edges |-> [p \in {q \in kept : {q[1], q[2]} \subseteq nodes} |-> t.edges[p]]]

LEMMA LeftDrawn ==
  ASSUME NEW t, Drawn(t), NEW n
  PROVE  /\ Prune(t, n) = Normalize(Left(t, n)) /\ Drawn(Left(t, n))
         /\ Left(t, n).nodes \subseteq t.nodes
         /\ \A p \in DOMAIN Left(t, n).edges : p \in DOMAIN t.edges /\ Left(t, n).edges[p] = t.edges[p]
  <1>. DEFINE kept == {p \in DOMAIN t.edges : p[2] # n}
              reached == ReachFrom(t, {Root}, kept)
              v == Left(t, n)
  <1>1. /\ DOMAIN v = {"nodes", "edges"} /\ v.nodes = t.nodes \cap reached
        /\ v.edges = [p \in {q \in kept : {q[1], q[2]} \subseteq reached} |-> t.edges[p]]
    BY DEF Left
  <1>2. Prune(t, n) = Normalize(v)
    BY DEF Prune, Left
  <1>. HIDE DEF v, reached
  <1>3. IsFiniteSet(v.nodes) /\ v.nodes \subseteq t.nodes
    BY <1>1, FS_Subset DEF Drawn
  <1>4. \A p \in DOMAIN v.edges : /\ p \in DOMAIN t.edges /\ v.edges[p] = t.edges[p]
                                  /\ {p[1], p[2]} \subseteq reached
    BY <1>1
  <1>5. DOMAIN v.edges \subseteq v.nodes \X v.nodes
    BY <1>1, <1>4 DEF Drawn
  <1>6. Drawn(v)
    BY <1>1, <1>3, <1>4, <1>5 DEF Drawn
  <1>. QED
    BY <1>2, <1>3, <1>4, <1>6 DEF v

LEMMA MinOfTwo ==
  ASSUME NEW i \in Nat, NEW j \in Nat
  PROVE  Min({i, j}) \in Nat
  <1>1. \E x \in {i, j} : \A y \in {i, j} : x <= y
    <2>1. CASE i <= j
      BY <2>1
    <2>2. CASE j <= i
      BY <2>2
    <2>. QED
      BY <2>1, <2>2
  <1>2. Min({i, j}) \in {i, j}
    BY <1>1 DEF Min
  <1>. QED
    BY <1>2

\* The draft on the canvas is always valid, and of nodes there are.
DraftInv == /\ DOMAIN draft = {"nodes", "edges"}
            /\ draft.nodes \subseteq Node
            /\ DOMAIN draft.edges \subseteq Node \X Node
            /\ \A p \in DOMAIN draft.edges : draft.edges[p] \in Edge
            /\ Valid(draft)

LEMMA DraftStarts == EditingInit => DraftInv
  BY EditingAssumption DEF EditingInit, DraftInv, IsTree

LEMMA DraftDrawn ==
  ASSUME DraftInv
  PROVE  /\ Drawn(draft) /\ Root \in draft.nodes
         /\ \A p \in DOMAIN draft.edges : p[1] \in draft.nodes /\ p[2] \in draft.nodes /\ p[2] # Root
  <1>1. IsFiniteSet(draft.nodes)
    BY NodesAssumption, FS_Subset DEF DraftInv
  <1>2. \A p \in DOMAIN draft.edges : {p[1], p[2]} \subseteq draft.nodes
    BY DEF DraftInv, Valid, Proper
  <1>3. DOMAIN draft.edges \subseteq draft.nodes \X draft.nodes
    BY <1>2 DEF DraftInv
  <1>4. Drawn(draft)
    BY <1>1, <1>3 DEF DraftInv, Drawn
  <1>. QED
    BY <1>2, <1>4 DEF DraftInv, Valid, Proper, In

\* What the inspector says replaces what a relationship says, and its operator that
\* of its siblings.
Group(t, p) == IF Context(p) THEN {} ELSE {q \in Out(t, p[1]) : ~Context(q)}
Restated(w, t, p, d) ==
  /\ Drawn(w) /\ w.nodes = t.nodes /\ DOMAIN w.edges = DOMAIN t.edges
  /\ w.edges[p].gate = d.gate /\ w.edges[p].blocked = d.blocked /\ w.edges[p].allowed = d.allowed
  /\ \A q \in DOMAIN t.edges \ {p} :
       /\ w.edges[q].gate = IF q \in Group(t, p) THEN d.gate ELSE t.edges[q].gate
       /\ w.edges[q].tailored = t.edges[q].tailored
       /\ w.edges[q].blocked = t.edges[q].blocked /\ w.edges[q].allowed = t.edges[q].allowed

LEMMA Restating ==
  ASSUME NEW t, Drawn(t), NEW p \in DOMAIN t.edges, NEW d \in Edge
  PROVE  \E w : Restated(w, t, p, d) /\ StageRelationship(t, p, d) = Normalize(w)
  <1>. DEFINE group == Group(t, p)
              edited == [t EXCEPT !.edges = [q \in DOMAIN t.edges |->
                    IF q = p THEN d
                    ELSE IF q \in group THEN [t.edges[q] EXCEPT !.gate = d.gate]
                    ELSE t.edges[q]]]
              others == {q \in group \ {p} : ~t.edges[q].tailored}
              ahead(q) == Cardinality({r \in others : Before(t, r, q)})
              place == Min({Order(d.seq), Cardinality(others)})
              seq(q) == IF ~d.tailored /\ ahead(q) >= place THEN ahead(q) + 1 ELSE ahead(q)
              numbered == [edited EXCEPT !.edges = [q \in DOMAIN t.edges |->
                    IF q \in others
                    THEN [edited.edges[q] EXCEPT !.seq = seq(q)]
                    ELSE IF q = p /\ ~d.tailored THEN [d EXCEPT !.seq = place]
                    ELSE edited.edges[q]]]
  <1>1. StageRelationship(t, p, d) = Normalize(IF d.gate = "SAND" THEN numbered ELSE edited)
    BY DEF StageRelationship, Group
  <1>2. IsFiniteSet(others) /\ Cardinality(others) \in Nat
    <2>1. others \subseteq DOMAIN t.edges
      BY DEF Group, Out
    <2>. HIDE DEF others
    <2>. QED
      BY <2>1, DrawnFinite, FS_Subset, FS_CardinalityType
  <1>3. \A q : ahead(q) \in Nat
    <2>. TAKE q
    <2>1. {r \in others : Before(t, r, q)} \subseteq others
      OBVIOUS
    <2>. HIDE DEF others
    <2>. QED
      BY <2>1, <1>2, FS_Subset, FS_CardinalityType
  <1>4. place \in Nat
    <2>1. Order(d.seq) \in Nat
      BY DEF Order, Edge
    <2>. HIDE DEF others
    <2>. QED
      BY <2>1, <1>2, MinOfTwo
  <1>. HIDE DEF others, ahead, place
  <1>5. \A q : seq(q) \in Nat
    BY <1>3
  <1>. HIDE DEF seq
  <1>6. /\ DOMAIN edited = {"nodes", "edges"} /\ edited.nodes = t.nodes
        /\ edited.edges = [q \in DOMAIN t.edges |->
             IF q = p THEN d
             ELSE IF q \in group THEN [t.edges[q] EXCEPT !.gate = d.gate]
             ELSE t.edges[q]]
    <2>. HIDE DEF group
    <2>. QED
      BY DEF Drawn
  <1>7. /\ DOMAIN numbered = {"nodes", "edges"} /\ numbered.nodes = t.nodes
        /\ numbered.edges = [q \in DOMAIN t.edges |->
             IF q \in others
             THEN [edited.edges[q] EXCEPT !.seq = seq(q)]
             ELSE IF q = p /\ ~d.tailored THEN [d EXCEPT !.seq = place]
             ELSE edited.edges[q]]
    <2>. HIDE DEF edited
    <2>. QED
      BY <1>6
  <1>. HIDE DEF edited, numbered
  <1>8. ASSUME NEW q \in DOMAIN t.edges
        PROVE  /\ edited.edges[q] \in Edge /\ (q = p => edited.edges[q] = d)
               /\ q # p => /\ edited.edges[q].gate = IF q \in group THEN d.gate ELSE t.edges[q].gate
                           /\ edited.edges[q].tailored = t.edges[q].tailored
                           /\ edited.edges[q].blocked = t.edges[q].blocked
                           /\ edited.edges[q].allowed = t.edges[q].allowed
    <2>. DEFINE e == t.edges[q]
    <2>1. e \in Edge
      BY DEF Drawn
    <2>2. edited.edges[q] = IF q = p THEN d ELSE IF q \in group THEN [e EXCEPT !.gate = d.gate] ELSE e
      BY <1>6
    <2>. HIDE DEF e, group
    <2>3. [e EXCEPT !.gate = d.gate] \in Edge
      BY <2>1 DEF Edge
    <2>4. LET x == [e EXCEPT !.gate = d.gate] IN
          x.gate = d.gate /\ x.tailored = e.tailored /\ x.blocked = e.blocked /\ x.allowed = e.allowed
      BY <2>1 DEF Edge
    <2>5. edited.edges[q] \in Edge /\ (q = p => edited.edges[q] = d)
      BY <2>1, <2>2, <2>3
    <2>6. q # p => /\ edited.edges[q].gate = IF q \in group THEN d.gate ELSE e.gate
                   /\ edited.edges[q].tailored = e.tailored
                   /\ edited.edges[q].blocked = e.blocked
                   /\ edited.edges[q].allowed = e.allowed
      BY <2>2, <2>4
    <2>. QED
      BY <2>5, <2>6 DEF e
  <1>9. ASSUME NEW q \in DOMAIN t.edges
        PROVE  /\ numbered.edges[q] \in Edge
               /\ numbered.edges[q].gate = edited.edges[q].gate
               /\ numbered.edges[q].tailored = edited.edges[q].tailored
               /\ numbered.edges[q].blocked = edited.edges[q].blocked
               /\ numbered.edges[q].allowed = edited.edges[q].allowed
    <2>. DEFINE e == edited.edges[q]
    <2>1. e \in Edge /\ (q = p => e = d)
      BY <1>8
    <2>2. \A i \in Nat : \A x \in Edge : LET y == [x EXCEPT !.seq = i] IN
            /\ y \in Edge /\ y.gate = x.gate /\ y.tailored = x.tailored
            /\ y.blocked = x.blocked /\ y.allowed = x.allowed
      BY DEF Edge
    <2>3. numbered.edges[q] = IF q \in others THEN [e EXCEPT !.seq = seq(q)]
                              ELSE IF q = p /\ ~d.tailored THEN [d EXCEPT !.seq = place] ELSE e
      BY <1>7
    <2>. HIDE DEF e
    <2>4. CASE q \in others
      BY <2>1, <2>2, <2>3, <2>4, <1>5 DEF e
    <2>5. CASE q \notin others /\ q = p /\ ~d.tailored
      BY <2>1, <2>2, <2>3, <2>5, <1>4 DEF e
    <2>6. CASE q \notin others /\ ~(q = p /\ ~d.tailored)
      BY <2>1, <2>3, <2>6 DEF e
    <2>. QED
      BY <2>4, <2>5, <2>6
  <1>10. DOMAIN edited.edges = DOMAIN t.edges /\ DOMAIN numbered.edges = DOMAIN t.edges
    BY <1>6, <1>7
  <1>11. Restated(edited, t, p, d)
    <2>1. Drawn(edited)
      BY <1>6, <1>8, <1>10 DEF Drawn
    <2>. QED
      BY <2>1, <1>6, <1>8, <1>10 DEF Restated
  <1>12. Restated(numbered, t, p, d)
    <2>1. Drawn(numbered)
      BY <1>7, <1>9, <1>10 DEF Drawn
    <2>2. \A q \in DOMAIN t.edges :
            /\ numbered.edges[q].gate = edited.edges[q].gate
            /\ numbered.edges[q].tailored = edited.edges[q].tailored
            /\ numbered.edges[q].blocked = edited.edges[q].blocked
            /\ numbered.edges[q].allowed = edited.edges[q].allowed
      BY <1>9
    <2>. QED
      BY <2>1, <2>2, <1>7, <1>10, <1>11 DEF Restated
  <1>. QED
    BY <1>1, <1>11, <1>12

LEMMA OfferedEdge ==
  ASSUME DraftInv, NEW p \in DOMAIN draft.edges, NEW d \in Offered(p)
  PROVE  d \in Edge
  <1>1. draft.edges[p] \in Edge
    BY DEF DraftInv
  <1>2. \A q \in DOMAIN draft.edges : draft.edges[q].gate \in {"AND", "OR", "SAND"}
    BY DEF DraftInv, Edge
  <1>3. /\ d.gate \in {"AND", "OR", "SAND"} /\ d.seq \in Nat \cup {NoSeq}
        /\ d.tailored \in BOOLEAN /\ d.blocked \in BOOLEAN /\ d.allowed \in BOOLEAN
        /\ d = [gate |-> d.gate, seq |-> d.seq, tailored |-> d.tailored,
                blocked |-> d.blocked, allowed |-> d.allowed]
    BY <1>1 DEF Offered, Edge
  <1>. QED
    BY <1>3 DEF Edge

LEMMA DraftStep == DraftInv /\ [EditingNext]_editingVars => DraftInv'
  <1>. SUFFICES ASSUME DraftInv, [EditingNext]_editingVars PROVE DraftInv'
    OBVIOUS
  <1>1. ASSUME NEW trees, \A t \in trees : Drawn(t), Edited(trees)
        PROVE  DraftInv'
    <2>1. PICK t \in trees : draft' = t /\ Valid(t)
      BY <1>1 DEF Edited
    <2>2. Drawn(t)
      BY <1>1
    <2>3. DOMAIN t.edges \subseteq Node \X Node
      BY <2>2 DEF Drawn
    <2>. QED
      BY <2>1, <2>2, <2>3 DEF DraftInv, Drawn
  <1>2. ASSUME NEW n \in draft.nodes, NEW m \in Node, Edited({Attach(draft, n, m)})
        PROVE  DraftInv'
    BY <1>1, <1>2, DraftDrawn, AttachDrawn
  <1>3. ASSUME NEW n \in draft.nodes, NEW m \in NewNode, AddNode(n, m) PROVE DraftInv'
    BY <1>2, <1>3, EditingAssumption DEF AddNode
  <1>4. ASSUME NEW n \in draft.nodes, NEW m \in draft.nodes \cup CoreNode, Link(n, m) PROVE DraftInv'
    BY <1>2, <1>4, EditingAssumption DEF Link, DraftInv
  <1>5. ASSUME NEW p \in DOMAIN draft.edges, Stage(p) PROVE DraftInv'
    <2>1. ASSUME NEW d \in Offered(p) PROVE Drawn(StageRelationship(draft, p, d))
      <3>1. PICK w : Restated(w, draft, p, d) /\ StageRelationship(draft, p, d) = Normalize(w)
        BY DraftDrawn, OfferedEdge, Restating
      <3>. QED
        BY <3>1, NormalOf DEF Restated
    <2>. DEFINE trees == {StageRelationship(draft, p, d) : d \in Offered(p)}
    <2>2. \A t \in trees : Drawn(t)
      BY <2>1
    <2>3. Edited(trees)
      BY <1>5 DEF Stage
    <2>. HIDE DEF trees
    <2>. QED
      BY <1>1, <2>2, <2>3
  <1>6. ASSUME NEW n, RemoveBranch(n) PROVE DraftInv'
    <2>1. Drawn(Prune(draft, n))
      BY DraftDrawn, LeftDrawn, NormalOf
    <2>. QED
      BY <1>1, <1>6, <2>1 DEF RemoveBranch
  <1>7. ASSUME Revert PROVE DraftInv'
    BY <1>7, EditingAssumption DEF Revert, DraftInv, IsTree
  <1>8. CASE UNCHANGED draft
    BY <1>8 DEF DraftInv
  <1>. QED
    BY <1>3, <1>4, <1>5, <1>6, <1>7, <1>8
    DEF EditingNext, editingVars, ToggleFold, Focus, RollDownAll

\* Whatever the analyst adds, links, stages, removes or reverts, the draft is a valid
\* tree: an edit that would make it another is refused.
THEOREM DraftSafe == EditingSpec => []DraftInv
  BY DraftStarts, DraftStep, PTL DEF EditingSpec

\* A valid tree has finitely many nodes, which its relationships join.
LEMMA DraftFinite ==
  ASSUME DraftInv
  PROVE  /\ IsFiniteSet(draft.nodes) /\ Root \in draft.nodes
         /\ \A p \in DOMAIN draft.edges : p[1] \in draft.nodes /\ p[2] \in draft.nodes /\ p[2] # Root
  BY DraftDrawn DEF Drawn

\* Whoever starts at the root and goes around n stays in Q.
Holds(Q, n) == Root \in Q /\ \A p \in DOMAIN draft.edges :
                 n \notin {p[1], p[2]} /\ p[1] \in Q => p[2] \in Q
PruneKeepsClosure ==
  \A n \in draft.nodes \ {Root}, m \in Node :
    m \in Prune(draft, n).nodes <=> \A Q \in SUBSET draft.nodes : Holds(Q, n) => m \in Q

\* Removing a branch is to drop what leads to its node and keep what is reached: no
\* path through the node is left then.
LEMMA PrunedApart ==
  ASSUME NEW n, n # Root
  PROVE  ReachFrom(draft, {Root}, {p \in DOMAIN draft.edges : p[2] # n}) =
           ReachFrom(draft, {Root}, {p \in DOMAIN draft.edges : n \notin {p[1], p[2]}})
  <1>. DEFINE kept  == {p \in DOMAIN draft.edges : p[2] # n}
              apart == {p \in DOMAIN draft.edges : n \notin {p[1], p[2]}}
              K == Layers({Root}, kept)
              A == Layers({Root}, apart)
              T == {k \in Nat : K[k] = A[k] /\ n \notin K[k]}
  <1>1. K[0] = {Root} /\ A[0] = {Root}
    BY LayersOf
  <1>2. /\ \A k \in Nat : K[k + 1] = K[k] \cup {p[2] : p \in {q \in kept : q[1] \in K[k]}}
        /\ \A k \in Nat : A[k + 1] = A[k] \cup {p[2] : p \in {q \in apart : q[1] \in A[k]}}
    <2>1. \A k \in Nat : K[k + 1] = Onward(kept, K[k])
      BY LayerStep
    <2>2. \A k \in Nat : A[k + 1] = Onward(apart, A[k])
      BY LayerStep
    <2>. QED
      BY <2>1, <2>2 DEF Onward
  <1>3. K \in [Nat -> SUBSET ({Root} \cup {p[2] : p \in kept})]
        /\ A \in [Nat -> SUBSET ({Root} \cup {p[2] : p \in apart})]
    BY LayersOf
  <1>4. ReachFrom(draft, {Root}, kept) = K[Cardinality(draft.nodes)]
        /\ ReachFrom(draft, {Root}, apart) = A[Cardinality(draft.nodes)]
    BY LayersOf
  <1>. HIDE DEF K, A
  <1>5. 0 \in T
    BY <1>1
  <1>6. ASSUME NEW k \in Nat, k \in T PROVE k + 1 \in T
    <2>1. {p[2] : p \in {q \in kept : q[1] \in K[k]}} = {p[2] : p \in {q \in apart : q[1] \in A[k]}}
      BY <1>6
    <2>2. n \notin {p[2] : p \in {q \in kept : q[1] \in K[k]}}
      OBVIOUS
    <2>3. K[k + 1] = A[k + 1] /\ n \notin K[k + 1]
      BY <1>2, <1>6, <2>1, <2>2
    <2>. QED
      BY <2>3
  <1>7. Nat \subseteq T
    <2>. HIDE DEF T
    <2>. QED
      BY <1>5, <1>6, AscentOfNat
  <1>8. K = A
    BY <1>7, <1>3
  <1>. QED
    BY <1>4, <1>8

\* "Shared descendants remain", for every tree an analyst can draw: removing a
\* branch keeps what is reached without its node, and what is reached is what is
\* in every set that holds the root and follows the relationships left.
THEOREM SharedRemain == EditingSpec => [](PruneKeepsShared /\ PruneKeepsClosure)
  <1>1. ASSUME DraftInv PROVE PruneKeepsShared
    <2>. SUFFICES ASSUME NEW n \in draft.nodes \ {Root}
                  PROVE  Prune(draft, n).nodes = draft.nodes \cap ReachFrom(draft, {Root},
                           {p \in DOMAIN draft.edges : n \notin {p[1], p[2]}})
      BY DEF PruneKeepsShared
    <2>1. Prune(draft, n).nodes =
            draft.nodes \cap ReachFrom(draft, {Root}, {p \in DOMAIN draft.edges : p[2] # n})
      BY DEF Prune, Normalize
    <2>. QED
      BY <2>1, PrunedApart
  <1>2. ASSUME DraftInv PROVE PruneKeepsClosure
    <2>. SUFFICES ASSUME NEW n \in draft.nodes \ {Root}
                  PROVE  \A m \in Node : m \in Prune(draft, n).nodes <=>
                           \A Q \in SUBSET draft.nodes : Holds(Q, n) => m \in Q
      BY DEF PruneKeepsClosure
    <2>. DEFINE apart == {p \in DOMAIN draft.edges : n \notin {p[1], p[2]}}
                R == ReachFrom(draft, {Root}, apart)
    <2>1. Prune(draft, n).nodes = draft.nodes \cap R
      BY <1>1, <1>2 DEF PruneKeepsShared
    <2>2. R \in SUBSET draft.nodes /\ Holds(R, n)
      BY <1>2, DraftFinite, ReachedClosed DEF Holds
    <2>3. ASSUME NEW Q \in SUBSET draft.nodes, Holds(Q, n) PROVE R \subseteq Q
      <3>1. \A k \in Nat : Layers({Root}, apart)[k] \subseteq Q
        BY <2>3, ReachedWithin DEF Holds
      <3>2. R = Layers({Root}, apart)[Cardinality(draft.nodes)]
        BY LayersOf
      <3>. QED
        BY <3>1, <3>2, <1>2, DraftFinite, FS_CardinalityType
    <2>. HIDE DEF R
    <2>. QED
      BY <2>1, <2>2, <2>3
  <1>. QED
    BY <1>1, <1>2, DraftSafe, PTL
-----------------------------------------------------------------------------
\* What the canvas offers.

\* Cycles, limits and what is reached are of the nodes and of what is joined.
AcyclicOn(nodes, joined) ==
  LET taken[k \in Nat] ==
        IF k = 0 THEN {}
        ELSE LET before == taken[k - 1]
             IN  nodes \ {p[2] : p \in {q \in joined : q[1] \notin before}}
  IN  taken[Cardinality(nodes)] = nodes
WithinOn(nodes, joined) ==
  LET below(S) == {p[2] : p \in {q \in joined : q[1] \in S}}
      deep[k \in Nat] == IF k = 0 THEN nodes ELSE below(deep[k - 1])
  IN  /\ Cardinality(nodes) <= Limits.nodes
      /\ deep[Limits.depth + 1] = {}
      /\ \A k \in 0 .. Limits.depth : LET at == deep[k] IN Cardinality(at \ below(at)) <= Limits.width

LEMMA SameShape ==
  ASSUME NEW t, NEW u, u.nodes = t.nodes, DOMAIN u.edges = DOMAIN t.edges
  PROVE  /\ Acyclic(u) <=> Acyclic(t)
         /\ WithinLimits(u) <=> WithinLimits(t)
         /\ \A S, along : ReachFrom(u, S, along) = ReachFrom(t, S, along)
         /\ \A n : Out(u, n) = Out(t, n) /\ In(u, n) = In(t, n)
  <1>1. \A w : Acyclic(w) <=> AcyclicOn(w.nodes, DOMAIN w.edges)
    BY Zenon DEF Acyclic, AcyclicOn
  <1>2. \A w : WithinLimits(w) <=> WithinOn(w.nodes, DOMAIN w.edges)
    BY Zenon DEF WithinLimits, WithinOn
  <1>3. \A S, along, w : ReachFrom(w, S, along) = Layers(S, along)[Cardinality(w.nodes)]
    BY LayersOf
  <1>. QED
    BY <1>1, <1>2, <1>3 DEF Out, In

LEMMA SameGates ==
  ASSUME NEW t, NEW u, SameButOrder(u, t)
  PROVE  \A n : Active(u, n) = Active(t, n) /\ Gates(u, n) = Gates(t, n)
  <1>1. \A n : Active(u, n) = Active(t, n)
    BY DEF SameButOrder, Active, Out
  <1>2. \A n : Active(t, n) \subseteq DOMAIN t.edges
    BY DEF Active, Out
  <1>. QED
    BY <1>1, <1>2 DEF SameButOrder, Gates

\* Proper but for the sequences.
Unnumbered(t) ==
  /\ {n \in t.nodes : TypeOf[n] = "Loss"} = {Root}
  /\ In(t, Root) = {}
  /\ Acyclic(t)
  /\ ReachFrom(t, {Root}, DOMAIN t.edges) = t.nodes
  /\ \A n \in t.nodes : \A p, q \in Active(t, n) : t.edges[p].gate = t.edges[q].gate
  /\ \A p \in Active(t, Root) : t.edges[p].gate # "AND"
  /\ \A p \in DOMAIN t.edges :
       /\ TypeOf[p[2]] \in AllowedChildren[TypeOf[p[1]]]
       /\ Context(p) => t.edges[p].gate = "AND"
       /\ t.edges[p].blocked => TypeOf[p[1]] = "Attack" /\ TypeOf[p[2]] = "Countermeasure"
       /\ t.edges[p].allowed => TypeOf[p[2]] = "Attack" /\ Out(t, p[2]) = {}

LEMMA AtMostOne ==
  ASSUME NEW S, IsFiniteSet(S)
  PROVE  Cardinality(S) <= 1 <=> \A x, y \in S : x = y
  <1>1. ASSUME Cardinality(S) <= 1, NEW x \in S, NEW y \in S PROVE x = y
    <2>1. IsFiniteSet({x}) /\ Cardinality({x}) = 1 /\ {x} \subseteq S
      BY FS_Singleton
    <2>2. Cardinality({x}) <= Cardinality(S) /\ Cardinality(S) \in Nat
          /\ (Cardinality({x}) = Cardinality(S) => {x} = S)
      BY <2>1, FS_Subset, FS_CardinalityType
    <2>3. {x} = S
      BY <1>1, <2>1, <2>2
    <2>. QED
      BY <2>3
  <1>2. ASSUME \A x, y \in S : x = y PROVE Cardinality(S) <= 1
    <2>1. S = {} \/ \E x : S = {x}
      BY <1>2
    <2>2. CASE S = {}
      BY <2>2, FS_EmptySet
    <2>3. CASE \E x : S = {x}
      BY <2>3, FS_Singleton
    <2>. QED
      BY <2>1, <2>2, <2>3
  <1>. QED
    BY <1>1, <1>2

LEMMA ProperUnnumbered ==
  ASSUME NEW t, Drawn(t), Proper(t)
  PROVE  Unnumbered(t)
  <1>1. ASSUME NEW n \in t.nodes, NEW p \in Active(t, n), NEW q \in Active(t, n)
        PROVE  t.edges[p].gate = t.edges[q].gate
    <2>1. Cardinality(Gates(t, n)) <= 1
      BY DEF Proper, NodeRules
    <2>2. IsFiniteSet(Gates(t, n))
      <3>1. IsFiniteSet(Active(t, n))
        BY DrawnFinite
      <3>. DEFINE f == [r \in Active(t, n) |-> t.edges[r].gate]
      <3>2. f \in Surjection(Active(t, n), Gates(t, n))
        BY DEF Surjection, Gates
      <3>. QED
        BY <3>1, <3>2, FS_Surjection
    <2>3. t.edges[p].gate \in Gates(t, n) /\ t.edges[q].gate \in Gates(t, n)
      BY DEF Gates
    <2>. QED
      BY <2>1, <2>2, <2>3, AtMostOne
  <1>2. ASSUME NEW p \in Active(t, Root) PROVE t.edges[p].gate # "AND"
    BY DEF Proper, NodeRules, Gates
  <1>3. \A p \in DOMAIN t.edges :
          /\ TypeOf[p[2]] \in AllowedChildren[TypeOf[p[1]]]
          /\ Context(p) => t.edges[p].gate = "AND"
          /\ t.edges[p].blocked => TypeOf[p[1]] = "Attack" /\ TypeOf[p[2]] = "Countermeasure"
          /\ t.edges[p].allowed => TypeOf[p[2]] = "Attack" /\ Out(t, p[2]) = {}
    BY DEF Proper, EdgeRules
  <1>. QED
    BY <1>1, <1>2, <1>3 DEF Proper, Unnumbered

\* Numbering makes it proper.
LEMMA NormalIsProper ==
  ASSUME NEW t, Drawn(t), Unnumbered(t)
  PROVE  Proper(Normalize(t))
  <1>. DEFINE u == Normalize(t)
  <1>1. SameButOrder(u, t) /\ Drawn(u) /\ \A p \in DOMAIN t.edges : u.edges[p].seq = Numbering(t, p)
    BY NormalOf
  <1>. HIDE DEF u
  <1>2. u.nodes = t.nodes /\ DOMAIN u.edges = DOMAIN t.edges
    BY <1>1 DEF SameButOrder
  <1>3. /\ Acyclic(u) /\ In(u, Root) = {} /\ ReachFrom(u, {Root}, DOMAIN u.edges) = u.nodes
        /\ \A n : Out(u, n) = Out(t, n)
    <2>1. /\ Acyclic(u) <=> Acyclic(t)
          /\ \A S, along : ReachFrom(u, S, along) = ReachFrom(t, S, along)
          /\ \A n : Out(u, n) = Out(t, n) /\ In(u, n) = In(t, n)
      BY <1>2, SameShape
    <2>2. Acyclic(t) /\ In(t, Root) = {} /\ ReachFrom(t, {Root}, DOMAIN t.edges) = t.nodes
      BY DEF Unnumbered
    <2>3. ReachFrom(u, {Root}, DOMAIN u.edges) = u.nodes
      BY <1>2, <2>1, <2>2
    <2>. QED
      BY <2>1, <2>2, <2>3
  <1>4. \A n : Active(u, n) = Active(t, n) /\ Gates(u, n) = Gates(t, n)
    BY <1>1, SameGates
  <1>5. ASSUME NEW n \in u.nodes PROVE NodeRules(u, n)
    <2>1. IsFiniteSet(Active(t, n)) /\ \A p, q \in Active(t, n) : t.edges[p].gate = t.edges[q].gate
      BY <1>2, DrawnFinite DEF Unnumbered
    <2>2. \A g, h \in Gates(t, n) : g = h
      BY <2>1 DEF Gates
    <2>3. Cardinality(Gates(t, n)) <= 1
      <3>1. IsFiniteSet(Gates(t, n))
        <4>1. Gates(t, n) = {} \/ \E g : Gates(t, n) = {g}
          BY <2>2
        <4>. QED
          BY <4>1, FS_EmptySet, FS_Singleton
      <3>. QED
        BY <2>2, <3>1, AtMostOne
    <2>4. ASSUME "SAND" \in Gates(t, n)
          PROVE  {u.edges[p].seq : p \in Active(u, n)} = 0 .. Cardinality(Active(u, n)) - 1
      <3>1. \A p \in Active(t, n) : t.edges[p].gate = "SAND"
        BY <2>4, <2>2 DEF Gates
      <3>2. Active(t, n) = Sequential(t, n)
        <4>1. Active(t, n) \subseteq Sequential(t, n)
          BY <3>1 DEF Active, Sequential
        <4>2. ASSUME NEW p \in Sequential(t, n) PROVE p \in Active(t, n)
          <5>1. p \in DOMAIN t.edges /\ t.edges[p].gate = "SAND"
            BY DEF Sequential, Out
          <5>2. ~Context(p)
            BY <5>1 DEF Unnumbered
          <5>. QED
            BY <5>2 DEF Active, Sequential
        <4>. QED
          BY <4>1, <4>2
      <3>3. \A p \in Sequential(t, n) : u.edges[p].seq = Cardinality(Ahead(t, n, p))
        <4>1. \A p \in Sequential(t, n) : /\ p \in DOMAIN t.edges /\ p[1] = n
                                            /\ t.edges[p].gate = "SAND" /\ ~t.edges[p].tailored
          BY DEF Sequential, Out
        <4>. QED
          BY <4>1, <1>1 DEF Numbering
      <3>4. {u.edges[p].seq : p \in Sequential(t, n)} = 0 .. Cardinality(Sequential(t, n)) - 1
        <4>1. {u.edges[p].seq : p \in Sequential(t, n)} =
                {Cardinality(Ahead(t, n, p)) : p \in Sequential(t, n)}
          BY <3>3
        <4>. QED
          BY <4>1, Numbered
      <3>. QED
        BY <3>2, <3>4, <1>4
    <2>5. n = Root => "AND" \notin Gates(t, n)
      BY DEF Unnumbered, Gates
    <2>. QED
      BY <2>3, <2>4, <2>5, <1>4 DEF NodeRules
  <1>6. ASSUME NEW p \in DOMAIN u.edges PROVE EdgeRules(u, p)
    <2>1. p \in DOMAIN t.edges
      BY <1>2
    <2>2. u.edges[p].gate # "SAND" => u.edges[p].seq = NoSeq
      <3>1. t.edges[p].gate # "SAND" => Numbering(t, p) = NoSeq
        BY DEF Numbering, Sequential
      <3>. QED
        BY <1>1, <2>1, <3>1 DEF SameButOrder
    <2>3. /\ u.edges[p].gate = t.edges[p].gate /\ u.edges[p].blocked = t.edges[p].blocked
          /\ u.edges[p].allowed = t.edges[p].allowed
      BY <1>1, <2>1 DEF SameButOrder
    <2>. QED
      BY <1>3, <2>1, <2>2, <2>3 DEF EdgeRules, Unnumbered
  <1>7. \A p \in DOMAIN u.edges : {p[1], p[2]} \subseteq u.nodes
    BY <1>1 DEF Drawn
  <1>8. {n \in u.nodes : TypeOf[n] = "Loss"} = {Root}
    BY <1>2 DEF Unnumbered
  <1>9. Proper(u)
    BY <1>3, <1>5, <1>6, <1>7, <1>8 DEF Proper
  <1>. QED
    BY <1>9 DEF u

\* Removing a branch leaves a proper tree.
LEMMA LeftUnnumbered ==
  ASSUME NEW t, Drawn(t), Root \in t.nodes, Unnumbered(t), NEW n, n # Root
  PROVE  Unnumbered(Left(t, n))
  <1>. DEFINE kept == {p \in DOMAIN t.edges : p[2] # n}
              R == ReachFrom(t, {Root}, kept)
              v == Left(t, n)
              Q == ReachFrom(v, {Root}, DOMAIN v.edges)
  <1>1. /\ v.nodes = t.nodes \cap R
        /\ v.edges = [p \in {q \in kept : {q[1], q[2]} \subseteq R} |-> t.edges[p]]
    BY DEF Left
  <1>2. /\ Drawn(v) /\ v.nodes \subseteq t.nodes
        /\ \A p \in DOMAIN v.edges : p \in DOMAIN t.edges /\ v.edges[p] = t.edges[p]
    BY LeftDrawn
  <1>3. /\ R \subseteq t.nodes /\ Root \in R
        /\ \A p \in kept : p[1] \in R => p[2] \in R
    <2>1. \A p \in kept : p[2] \in t.nodes
      BY DEF Drawn
    <2>2. IsFiniteSet(t.nodes) /\ {Root} \in SUBSET t.nodes
      BY DEF Drawn
    <2>. HIDE DEF kept
    <2>. QED
      BY <2>1, <2>2, ReachedClosed
  <1>. HIDE DEF v
  <1>4. v.nodes = R /\ Root \in v.nodes /\ DOMAIN v.edges = {q \in kept : {q[1], q[2]} \subseteq R}
    <2>. HIDE DEF R, kept
    <2>. QED
      BY <1>1, <1>3
  <1>5. ReachFrom(v, {Root}, DOMAIN v.edges) = v.nodes
    <2>1. /\ Q \subseteq v.nodes /\ Root \in Q
          /\ \A p \in DOMAIN v.edges : p[1] \in Q => p[2] \in Q
      <3>1. \A p \in DOMAIN v.edges : p[2] \in v.nodes
        BY <1>2 DEF Drawn
      <3>2. IsFiniteSet(v.nodes) /\ {Root} \in SUBSET v.nodes
        BY <1>2, <1>4 DEF Drawn
      <3>. QED
        BY <3>1, <3>2, ReachedClosed
    <2>2. \A p \in kept : p[1] \in Q => p[2] \in Q
      <3>. SUFFICES ASSUME NEW p \in kept, p[1] \in Q PROVE p[2] \in Q
        OBVIOUS
      <3>1. p[1] \in R
        BY <2>1, <1>4
      <3>2. p[2] \in R
        BY <3>1, <1>3
      <3>3. p \in DOMAIN v.edges
        BY <3>1, <3>2, <1>4
      <3>. QED
        BY <3>3, <2>1
    <2>. HIDE DEF Q, kept
    <2>3. \A k \in Nat : Layers({Root}, kept)[k] \subseteq Q
      BY <2>1, <2>2, ReachedWithin
    <2>4. R = Layers({Root}, kept)[Cardinality(t.nodes)] /\ Cardinality(t.nodes) \in Nat
      BY LayersOf, FS_CardinalityType DEF Drawn
    <2>5. R \subseteq Q
      BY <2>3, <2>4
    <2>6. Q = v.nodes
      BY <2>1, <2>5, <1>4
    <2>. QED
      BY <2>6 DEF Q
  <1>. HIDE DEF R, kept
  <1>6. Acyclic(v)
    <2>1. PICK level \in [t.nodes -> 0 .. Cardinality(t.nodes)] :
            \A p \in DOMAIN t.edges : level[p[1]] < level[p[2]]
      <3>1. IsFiniteSet(t.nodes) /\ Acyclic(t) /\ \A p \in DOMAIN t.edges : p[1] \in t.nodes /\ p[2] \in t.nodes
        BY DEF Drawn, Unnumbered
      <3>. QED
        BY <3>1, Levels
    <2>. DEFINE low == [m \in v.nodes |-> level[m]]
    <2>2. low \in [v.nodes -> Nat]
      <3>1. Cardinality(t.nodes) \in Nat
        BY FS_CardinalityType DEF Drawn
      <3>. QED
        BY <3>1, <2>1, <1>2
    <2>3. \A p \in DOMAIN v.edges : p[1] \in v.nodes /\ p[2] \in v.nodes
      BY <1>2 DEF Drawn
    <2>4. \A p \in DOMAIN v.edges : low[p[1]] < low[p[2]]
      BY <2>1, <2>3, <1>2
    <2>5. IsFiniteSet(v.nodes)
      BY <1>2 DEF Drawn
    <2>. HIDE DEF low
    <2>. QED
      BY <2>2, <2>3, <2>4, <2>5, AcyclicByLevels
  <1>7. \A m : Out(v, m) \subseteq Out(t, m) /\ In(v, m) \subseteq In(t, m)
    BY <1>2 DEF Out, In
  <1>8. \A m : \A p \in Active(v, m) : p \in Active(t, m) /\ v.edges[p] = t.edges[p]
    BY <1>2 DEF Active, Out
  <1>9. \A m \in v.nodes : \A p, q \in Active(v, m) : v.edges[p].gate = v.edges[q].gate
    BY <1>8, <1>2 DEF Unnumbered
  <1>10. \A p \in Active(v, Root) : v.edges[p].gate # "AND"
    BY <1>8 DEF Unnumbered
  <1>11. \A p \in DOMAIN v.edges :
          /\ TypeOf[p[2]] \in AllowedChildren[TypeOf[p[1]]]
          /\ Context(p) => v.edges[p].gate = "AND"
          /\ v.edges[p].blocked => TypeOf[p[1]] = "Attack" /\ TypeOf[p[2]] = "Countermeasure"
          /\ v.edges[p].allowed => TypeOf[p[2]] = "Attack" /\ Out(v, p[2]) = {}
    <2>. SUFFICES ASSUME NEW p \in DOMAIN v.edges
                  PROVE  /\ TypeOf[p[2]] \in AllowedChildren[TypeOf[p[1]]]
                         /\ Context(p) => v.edges[p].gate = "AND"
                         /\ v.edges[p].blocked => TypeOf[p[1]] = "Attack" /\ TypeOf[p[2]] = "Countermeasure"
                         /\ v.edges[p].allowed => TypeOf[p[2]] = "Attack" /\ Out(v, p[2]) = {}
      OBVIOUS
    <2>1. p \in DOMAIN t.edges /\ v.edges[p] = t.edges[p] /\ Out(v, p[2]) \subseteq Out(t, p[2])
      BY <1>2, <1>7
    <2>. QED
      BY <2>1 DEF Unnumbered
  <1>12. {m \in v.nodes : TypeOf[m] = "Loss"} = {Root}
    BY <1>2, <1>4 DEF Unnumbered
  <1>13. In(v, Root) = {}
    BY <1>7 DEF Unnumbered
  <1>14. Unnumbered(v)
    BY <1>5, <1>6, <1>9, <1>10, <1>11, <1>12, <1>13 DEF Unnumbered
  <1>. QED
    BY <1>14 DEF v

LEMMA DraftUnnumbered == DraftInv => Unnumbered(draft)
  BY DraftDrawn, ProperUnnumbered DEF DraftInv, Valid

LEMMA PruneOffered ==
  ASSUME DraftInv, NEW n \in draft.nodes \ {Root}
  PROVE  Proper(Prune(draft, n))
  <1>1. Drawn(draft) /\ Root \in draft.nodes /\ Unnumbered(draft)
    BY DraftDrawn, DraftUnnumbered
  <1>2. Unnumbered(Left(draft, n))
    BY <1>1, LeftUnnumbered
  <1>3. Prune(draft, n) = Normalize(Left(draft, n)) /\ Drawn(Left(draft, n))
    BY <1>1, LeftDrawn
  <1>. QED
    BY <1>2, <1>3, NormalIsProper

\* What the inspector offers of a relationship, rule by rule.
LEMMA OfferedRules ==
  ASSUME NEW p, NEW d \in Offered(p)
  PROVE  /\ Context(p) => d.gate = draft.edges[p].gate
         /\ d.blocked => \/ draft.edges[p].blocked
                         \/ TypeOf[p[1]] = "Attack" /\ TypeOf[p[2]] = "Countermeasure"
         /\ d.allowed => \/ draft.edges[p].allowed
                         \/ TypeOf[p[2]] = "Attack" /\ Out(draft, p[2]) = {}
  BY DEF Offered

\* So does restating one.
LEMMA RestatedUnnumbered ==
  ASSUME NEW t, NEW p \in DOMAIN t.edges, NEW d, NEW w, Unnumbered(t), Restated(w, t, p, d),
         p[1] = Root /\ d.gate = "AND" => Context(p),
         Context(p) => d.gate = t.edges[p].gate,
         d.blocked => t.edges[p].blocked \/ (TypeOf[p[1]] = "Attack" /\ TypeOf[p[2]] = "Countermeasure"),
         d.allowed => t.edges[p].allowed \/ (TypeOf[p[2]] = "Attack" /\ Out(t, p[2]) = {})
  PROVE  Unnumbered(w)
  <1>1. /\ w.nodes = t.nodes /\ DOMAIN w.edges = DOMAIN t.edges
        /\ w.edges[p].gate = d.gate /\ w.edges[p].blocked = d.blocked /\ w.edges[p].allowed = d.allowed
    BY DEF Restated
  <1>2. \A q \in DOMAIN t.edges \ {p} :
          /\ w.edges[q].gate = IF q \in Group(t, p) THEN d.gate ELSE t.edges[q].gate
          /\ w.edges[q].tailored = t.edges[q].tailored
          /\ w.edges[q].blocked = t.edges[q].blocked /\ w.edges[q].allowed = t.edges[q].allowed
    BY DEF Restated
  <1>3. /\ Acyclic(w) <=> Acyclic(t)
        /\ \A S, along : ReachFrom(w, S, along) = ReachFrom(t, S, along)
        /\ \A n : Out(w, n) = Out(t, n) /\ In(w, n) = In(t, n)
    BY <1>1, SameShape
  <1>4. /\ {n \in w.nodes : TypeOf[n] = "Loss"} = {Root} /\ Acyclic(w) /\ In(w, Root) = {}
        /\ ReachFrom(w, {Root}, DOMAIN w.edges) = w.nodes
    <2>1. ReachFrom(t, {Root}, DOMAIN t.edges) = t.nodes
      BY DEF Unnumbered
    <2>2. ReachFrom(w, {Root}, DOMAIN w.edges) = w.nodes
      BY <1>1, <1>3, <2>1
    <2>. QED
      BY <1>1, <1>3, <2>2 DEF Unnumbered
  <1>5. ASSUME NEW n, NEW q \in Active(w, n)
        PROVE  /\ q \in Out(t, n) /\ q[1] = n /\ q \in DOMAIN t.edges /\ ~Context(q)
               /\ IF ~Context(p) /\ n = p[1] THEN w.edges[q].gate = d.gate
                  ELSE q \in Active(t, n) /\ w.edges[q].gate = t.edges[q].gate
    <2>1. q \in Out(t, n) /\ q[1] = n /\ q \in DOMAIN t.edges /\ ~Context(q) /\ ~w.edges[q].tailored
      BY <1>3 DEF Active, Out
    <2>2. CASE ~Context(p) /\ n = p[1]
      <3>1. q \in Group(t, p)
        BY <2>1, <2>2 DEF Group
      <3>. QED
        BY <3>1, <2>1, <2>2, <1>1, <1>2
    <2>3. CASE ~(~Context(p) /\ n = p[1])
      <3>1. q # p /\ q \notin Group(t, p)
        BY <2>1, <2>3 DEF Group, Out
      <3>2. w.edges[q].tailored = t.edges[q].tailored /\ w.edges[q].gate = t.edges[q].gate
        BY <3>1, <2>1, <1>2
      <3>3. q \in Active(t, n)
        BY <2>1, <3>2 DEF Active
      <3>. QED
        BY <3>2, <3>3, <2>1, <2>3
    <2>. QED
      BY <2>2, <2>3
  <1>6. ASSUME NEW n \in w.nodes, NEW q \in Active(w, n), NEW r \in Active(w, n)
        PROVE  w.edges[q].gate = w.edges[r].gate
    <2>1. CASE ~Context(p) /\ n = p[1]
      BY <2>1, <1>5
    <2>2. CASE ~(~Context(p) /\ n = p[1])
      <3>1. q \in Active(t, n) /\ r \in Active(t, n) /\ w.edges[q].gate = t.edges[q].gate
            /\ w.edges[r].gate = t.edges[r].gate
        BY <2>2, <1>5
      <3>. QED
        BY <3>1, <1>1 DEF Unnumbered
    <2>. QED
      BY <2>1, <2>2
  <1>7. ASSUME NEW q \in Active(w, Root) PROVE w.edges[q].gate # "AND"
    <2>1. CASE ~Context(p) /\ Root = p[1]
      BY <2>1, <1>5
    <2>2. CASE ~(~Context(p) /\ Root = p[1])
      <3>1. q \in Active(t, Root) /\ w.edges[q].gate = t.edges[q].gate
        BY <2>2, <1>5
      <3>. QED
        BY <3>1 DEF Unnumbered
    <2>. QED
      BY <2>1, <2>2
  <1>8. ASSUME NEW q \in DOMAIN w.edges
        PROVE  /\ TypeOf[q[2]] \in AllowedChildren[TypeOf[q[1]]]
               /\ Context(q) => w.edges[q].gate = "AND"
               /\ w.edges[q].blocked => TypeOf[q[1]] = "Attack" /\ TypeOf[q[2]] = "Countermeasure"
               /\ w.edges[q].allowed => TypeOf[q[2]] = "Attack" /\ Out(w, q[2]) = {}
    <2>1. /\ q \in DOMAIN t.edges /\ TypeOf[q[2]] \in AllowedChildren[TypeOf[q[1]]]
          /\ Context(q) => t.edges[q].gate = "AND"
          /\ t.edges[q].blocked => TypeOf[q[1]] = "Attack" /\ TypeOf[q[2]] = "Countermeasure"
          /\ t.edges[q].allowed => TypeOf[q[2]] = "Attack" /\ Out(t, q[2]) = {}
      BY <1>1 DEF Unnumbered
    <2>2. Out(w, q[2]) = Out(t, q[2])
      BY <1>3
    <2>3. CASE q = p
      BY <2>1, <2>2, <2>3, <1>1
    <2>4. CASE q # p
      <3>1. Context(q) => q \notin Group(t, p)
        BY DEF Group
      <3>. QED
        BY <3>1, <2>1, <2>2, <2>4, <1>2
    <2>. QED
      BY <2>3, <2>4
  <1>. QED
    BY <1>4, <1>6, <1>7, <1>8 DEF Unnumbered

LEMMA StageOffered ==
  ASSUME DraftInv, NEW p \in DOMAIN draft.edges, NEW d \in Offered(p),
         p[1] = Root /\ d.gate = "AND" => Context(p)
  PROVE  Valid(StageRelationship(draft, p, d))
  <1>1. PICK w : Restated(w, draft, p, d) /\ StageRelationship(draft, p, d) = Normalize(w)
    BY DraftDrawn, OfferedEdge, Restating
  <1>2. Unnumbered(w)
    BY <1>1, DraftUnnumbered, OfferedRules, RestatedUnnumbered
  <1>3. Drawn(w)
    BY <1>1 DEF Restated
  <1>4. Proper(Normalize(w))
    BY <1>2, <1>3, NormalIsProper
  <1>5. Normalize(w).nodes = draft.nodes /\ DOMAIN Normalize(w).edges = DOMAIN draft.edges
    <2>1. SameButOrder(Normalize(w), w)
      BY <1>3, NormalOf
    <2>. QED
      BY <2>1, <1>1 DEF SameButOrder, Restated
  <1>6. WithinLimits(Normalize(w))
    <2>1. WithinLimits(Normalize(w)) <=> WithinLimits(draft)
      BY <1>5, SameShape
    <2>. QED
      BY <2>1 DEF DraftInv, Valid
  <1>. QED
    BY <1>1, <1>4, <1>6 DEF Valid

\* Whatever has been done to the draft before, every branch can be removed and what is
\* left is a proper tree, and everything the inspector offers of a relationship is a
\* valid one, but for AND on what is below the root.
THEOREM OffersAreValid == EditingSpec => []OfferedIsValid
  <1>1. DraftInv => OfferedIsValid
    BY PruneOffered, StageOffered DEF OfferedIsValid
  <1>. QED
    BY <1>1, DraftSafe, PTL
-----------------------------------------------------------------------------
\* Scenarios.

\* What the proofs below need of a tree.
Sound(t) == /\ IsFiniteSet(t.nodes) /\ Acyclic(t)
            /\ DOMAIN t.edges \subseteq t.nodes \X t.nodes

LEMMA DraftSound == DraftInv => Sound(draft)
  BY DraftFinite DEF DraftInv, Valid, Proper, Sound

LEMMA SoundHeights ==
  ASSUME NEW t, Sound(t)
  PROVE  \E height \in [t.nodes -> Nat] :
           \A n \in t.nodes : \A p \in Active(t, n) : p[2] \in t.nodes /\ height[p[2]] < height[n]
  <1>1. PICK height \in [t.nodes -> Nat] : \A p \in DOMAIN t.edges : height[p[2]] < height[p[1]]
    BY Heights DEF Sound
  <1>. QED
    BY <1>1 DEF Sound, Active, Out

\* What the relationships of a node give it, and what it makes of that.
ResultsOf(t, value, n) ==
  [p \in Active(t, n) |-> IF t.edges[p].blocked THEN Nothing ELSE value[p[2]]]
ValueAt(t, missing, n, result) ==
  LET kids == Active(t, n) IN
  IF \A p \in Out(t, n) : Context(p) THEN Leaf(n, missing)
  ELSE IF kids = {} THEN [scenarios |-> {}, complete |-> FALSE]
  ELSE IF Gates(t, n) = {"OR"} THEN Alternatives({result[p] : p \in kids})
  ELSE Together(kids, result)

LEMMA Values ==
  ASSUME NEW t, Sound(t), NEW missing
  PROVE  LET value == Evaluate(t, missing)
         IN  \A n \in t.nodes : value[n] = ValueAt(t, missing, n, ResultsOf(t, value, n))
  <1>. DEFINE V == [scenarios : SUBSET SUBSET t.nodes, complete : BOOLEAN]
              B == [n \in t.nodes |-> [f \in [t.nodes -> V] |->
                      ValueAt(t, missing, n, ResultsOf(t, f, n))]]
  <1>1. PICK height \in [t.nodes -> Nat] :
          \A n \in t.nodes : \A p \in Active(t, n) : p[2] \in t.nodes /\ height[p[2]] < height[n]
    BY SoundHeights
  <1>2. ASSUME NEW n \in t.nodes, NEW result \in [Active(t, n) -> V]
        PROVE  ValueAt(t, missing, n, result) \in V
    <2>1. Leaf(n, missing) \in V
      BY DEF Leaf
    <2>2. [scenarios |-> {}, complete |-> FALSE] \in V
      OBVIOUS
    <2>3. Alternatives({result[p] : p \in Active(t, n)}) \in V
      <3>. DEFINE S == {result[p] : p \in Active(t, n)}
      <3>1. \A r \in S : r.scenarios \subseteq SUBSET t.nodes
        OBVIOUS
      <3>. HIDE DEF S
      <3>2. UNION {r.scenarios : r \in S} \subseteq SUBSET t.nodes
        BY <3>1
      <3>. QED
        BY <3>2 DEF Alternatives, S
    <2>4. Together(Active(t, n), result) \in V
      <3>. DEFINE kids == Active(t, n)
                  picks == {f \in [kids -> UNION {result[k].scenarios : k \in kids}] :
                              \A k \in kids : f[k] \in result[k].scenarios}
      <3>1. \A f \in picks : \A k \in kids : f[k] \subseteq t.nodes
        OBVIOUS
      <3>. HIDE DEF picks, kids
      <3>2. {UNION {f[k] : k \in kids} : f \in picks} \subseteq SUBSET t.nodes
        BY <3>1
      <3>. QED
        BY <3>2 DEF Together, picks, kids
    <2>. HIDE DEF V
    <2>. QED
      BY <2>1, <2>2, <2>3, <2>4 DEF ValueAt
  <1>3. Nothing \in V
    BY DEF Nothing
  <1>4. ASSUME NEW n \in t.nodes, NEW f \in [t.nodes -> V]
        PROVE  ResultsOf(t, f, n) \in [Active(t, n) -> V]
    <2>. HIDE DEF V
    <2>. QED
      BY <1>1, <1>3 DEF ResultsOf
  <1>5. Founded(t.nodes, V, height, B)
    <2>. HIDE DEF V
    <2>1. [n \in t.nodes |-> Nothing] \in [t.nodes -> V]
      BY <1>3
    <2>2. B \in [t.nodes -> [[t.nodes -> V] -> V]]
      BY <1>2, <1>4
    <2>3. ASSUME NEW n \in t.nodes, NEW f \in [t.nodes -> V], NEW g \in [t.nodes -> V],
                 \A m \in t.nodes : height[m] < height[n] => f[m] = g[m]
          PROVE  B[n][f] = B[n][g]
      <3>1. ResultsOf(t, f, n) = ResultsOf(t, g, n)
        BY <1>1, <2>3 DEF ResultsOf
      <3>. QED
        BY <3>1
    <2>. HIDE DEF B
    <2>. QED
      BY <2>1, <2>2, <2>3 DEF Founded
  <1>6. PICK g \in [t.nodes -> V] : \A n \in t.nodes : g[n] = B[n][g]
    <2>. HIDE DEF V, B
    <2>. QED
      BY <1>5, Recursion
  <1>7. g = [n \in t.nodes |-> ValueAt(t, missing, n, ResultsOf(t, g, n))]
    <2>. HIDE DEF V
    <2>. QED
      BY <1>6
  <1>. DEFINE Is(value) == value = [n \in t.nodes |-> ValueAt(t, missing, n, ResultsOf(t, value, n))]
  <1>8. Evaluate(t, missing) = CHOOSE value : Is(value)
    BY Zenon DEF Evaluate, ValueAt, ResultsOf
  <1>9. Is(Evaluate(t, missing))
    <2>1. Is(g)
      BY <1>7
    <2>. HIDE DEF Is
    <2>. QED
      BY <1>8, <2>1
  <1>. QED
    BY <1>9
\* Whether the tree succeeds at a node when some leaves do (Succeeds, at every node).
OkOf(holds, n)      == {p \in Active(draft, n) : ~draft.edges[p].blocked /\ holds[p[2]]}
HoldsAt(leaves, n, ok) ==
  IF \A p \in Out(draft, n) : Context(p) THEN n \in leaves
  ELSE IF Gates(draft, n) = {"OR"} THEN \E p \in Active(draft, n) : p \in ok
  ELSE Active(draft, n) # {} /\ \A p \in Active(draft, n) : p \in ok
Success(leaves) ==
  CHOOSE holds : holds = [n \in draft.nodes |->
    LET kids  == Active(draft, n)
        ok(p) == ~draft.edges[p].blocked /\ holds[p[2]]
    IN  IF \A p \in Out(draft, n) : Context(p) THEN n \in leaves
        ELSE IF Gates(draft, n) = {"OR"} THEN \E p \in kids : ok(p)
        ELSE kids # {} /\ \A p \in kids : ok(p)]

LEMMA Successes ==
  ASSUME DraftInv, NEW leaves
  PROVE  /\ \A n \in draft.nodes :
              Success(leaves)[n] = HoldsAt(leaves, n, OkOf(Success(leaves), n))
         /\ Succeeds(leaves) <=> Success(leaves)[Root]
  <1>. DEFINE V == {TRUE} \cup {HoldsAt(leaves, x[1], x[2]) : x \in draft.nodes \X SUBSET DOMAIN draft.edges}
              B == [n \in draft.nodes |-> [f \in [draft.nodes -> V] |->
                      HoldsAt(leaves, n, OkOf(f, n))]]
  <1>1. PICK height \in [draft.nodes -> Nat] :
          \A n \in draft.nodes : \A p \in Active(draft, n) :
            p[2] \in draft.nodes /\ height[p[2]] < height[n]
    BY SoundHeights, DraftSound
  <1>2. ASSUME NEW n \in draft.nodes, NEW f PROVE HoldsAt(leaves, n, OkOf(f, n)) \in V
    <2>1. OkOf(f, n) \in SUBSET DOMAIN draft.edges
      BY DEF OkOf, Active, Out
    <2>. DEFINE x == <<n, OkOf(f, n)>>
    <2>2. x \in draft.nodes \X SUBSET DOMAIN draft.edges /\ x[1] = n /\ x[2] = OkOf(f, n)
      BY <2>1
    <2>. HIDE DEF x
    <2>. QED
      BY <2>2
  <1>3. Founded(draft.nodes, V, height, B)
    <2>1. [n \in draft.nodes |-> TRUE] \in [draft.nodes -> V]
      OBVIOUS
    <2>2. B \in [draft.nodes -> [[draft.nodes -> V] -> V]]
      BY <1>2
    <2>3. ASSUME NEW n \in draft.nodes, NEW f \in [draft.nodes -> V], NEW g \in [draft.nodes -> V],
                 \A m \in draft.nodes : height[m] < height[n] => f[m] = g[m]
          PROVE  B[n][f] = B[n][g]
      <3>1. OkOf(f, n) = OkOf(g, n)
        BY <1>1, <2>3 DEF OkOf
      <3>. QED
        BY <3>1
    <2>. HIDE DEF B, V
    <2>. QED
      BY <2>1, <2>2, <2>3 DEF Founded
  <1>4. PICK g \in [draft.nodes -> V] : \A n \in draft.nodes : g[n] = B[n][g]
    <2>. HIDE DEF V, B
    <2>. QED
      BY <1>3, Recursion
  <1>. DEFINE Is(holds) == holds = [n \in draft.nodes |->
    LET kids  == Active(draft, n)
        ok(p) == ~draft.edges[p].blocked /\ holds[p[2]]
    IN  IF \A p \in Out(draft, n) : Context(p) THEN n \in leaves
        ELSE IF Gates(draft, n) = {"OR"} THEN \E p \in kids : ok(p)
        ELSE kids # {} /\ \A p \in kids : ok(p)]
  <1>5. Is(g)
    <2>1. g = [n \in draft.nodes |-> HoldsAt(leaves, n, OkOf(g, n))]
      BY <1>4
    <2>. QED
      BY <2>1 DEF HoldsAt, OkOf
  <1>6. Success(leaves) = CHOOSE holds : Is(holds)
    BY Zenon DEF Success
  <1>7. Is(Success(leaves))
    <2>. HIDE DEF Is
    <2>. QED
      BY <1>5, <1>6
  <1>8. Succeeds(leaves) <=> Success(leaves)[Root]
    BY Zenon DEF Succeeds, Success
  <1>9. \A n \in draft.nodes : Success(leaves)[n] = HoldsAt(leaves, n, OkOf(Success(leaves), n))
    BY <1>7 DEF HoldsAt, OkOf
  <1>. QED
    BY <1>8, <1>9

\* Every scenario is a success of its node, whatever else succeeds too.
LEMMA ScenariosHold ==
  ASSUME DraftInv, NEW missing, NEW big
  PROVE  LET value == Evaluate(draft, missing) IN
         \A n \in draft.nodes : \A s \in value[n].scenarios : s \subseteq big => Success(big)[n]
  <1>. DEFINE value == Evaluate(draft, missing)
              T == {n \in draft.nodes : \A s \in value[n].scenarios : s \subseteq big => Success(big)[n]}
  <1>1. PICK height \in [draft.nodes -> Nat] :
          \A n \in draft.nodes : \A p \in Active(draft, n) :
            p[2] \in draft.nodes /\ height[p[2]] < height[n]
    BY SoundHeights, DraftSound
  <1>2. \A n \in draft.nodes : value[n] = ValueAt(draft, missing, n, ResultsOf(draft, value, n))
    BY Values, DraftSound
  <1>3. \A n \in draft.nodes : Success(big)[n] = HoldsAt(big, n, OkOf(Success(big), n))
    BY Successes
  <1>. HIDE DEF value
  <1>4. ASSUME NEW n \in draft.nodes, \A m \in draft.nodes : height[m] < height[n] => m \in T,
               NEW s \in value[n].scenarios, s \subseteq big
        PROVE  Success(big)[n]
    <2>. DEFINE kids == Active(draft, n)
                result == ResultsOf(draft, value, n)
                ok == OkOf(Success(big), n)
    <2>0. s \in ValueAt(draft, missing, n, result).scenarios
      BY <1>2, <1>4
    <2>1. ASSUME NEW p \in kids, NEW r \in result[p].scenarios, r \subseteq big
          PROVE  p \in ok
      <3>1. ~draft.edges[p].blocked /\ r \in value[p[2]].scenarios
        BY <2>1 DEF ResultsOf, Nothing
      <3>2. p[2] \in T
        BY <1>1, <1>4
      <3>. QED
        BY <2>1, <3>1, <3>2 DEF OkOf
    <2>. HIDE DEF ok, result, T
    <2>2. CASE \A p \in Out(draft, n) : Context(p)
      BY <2>0, <2>2, <1>3, <1>4 DEF ValueAt, Leaf, HoldsAt
    <2>3. CASE ~(\A p \in Out(draft, n) : Context(p)) /\ kids = {}
      BY <2>0, <2>3 DEF ValueAt
    <2>4. CASE ~(\A p \in Out(draft, n) : Context(p)) /\ kids # {} /\ Gates(draft, n) = {"OR"}
      <3>1. s \in Alternatives({result[p] : p \in kids}).scenarios
        BY <2>0, <2>4 DEF ValueAt
      <3>2. \E p \in kids : s \in result[p].scenarios
        BY <3>1 DEF Alternatives
      <3>3. \E p \in kids : p \in ok
        BY <3>2, <2>1, <1>4
      <3>. QED
        BY <3>3, <2>4, <1>3 DEF HoldsAt, ok
    <2>5. CASE ~(\A p \in Out(draft, n) : Context(p)) /\ kids # {} /\ Gates(draft, n) # {"OR"}
      <3>1. s \in Together(kids, result).scenarios
        BY <2>0, <2>5 DEF ValueAt
      <3>2. PICK f : s = UNION {f[k] : k \in kids} /\ \A k \in kids : f[k] \in result[k].scenarios
        BY <3>1 DEF Together
      <3>3. \A p \in kids : f[p] \subseteq big
        BY <3>2, <1>4
      <3>4. \A p \in kids : p \in ok
        BY <3>2, <3>3, <2>1
      <3>. QED
        BY <3>4, <2>5, <1>3 DEF HoldsAt, ok
    <2>. QED
      BY <2>2, <2>3, <2>4, <2>5
  <1>5. \A n \in draft.nodes : (\A m \in draft.nodes : height[m] < height[n] => m \in T) => n \in T
    BY <1>4
  <1>6. draft.nodes \subseteq T
    <2>. HIDE DEF T
    <2>. QED
      BY <1>5, Ascent
  <1>. QED
    BY <1>6 DEF T, value
\* A node whose calculation is complete and has no scenario does not succeed, and
\* something is blocked below it.
BlockedBelow(missing) ==
  {n \in draft.nodes :
     LET v == Evaluate(draft, missing)[n] IN
     v.complete /\ v.scenarios = {} =>
       /\ ~Success(Leaves)[n]
       /\ \E p \in DOMAIN draft.edges : draft.edges[p].blocked}

LEMMA NoScenarioBlocked ==
  ASSUME DraftInv, NEW missing
  PROVE  draft.nodes \subseteq BlockedBelow(missing)
  <1>. DEFINE value == Evaluate(draft, missing)
              T == BlockedBelow(missing)
  <1>1. PICK height \in [draft.nodes -> Nat] :
          \A n \in draft.nodes : \A p \in Active(draft, n) :
            p[2] \in draft.nodes /\ height[p[2]] < height[n]
    BY SoundHeights, DraftSound
  <1>2. \A n \in draft.nodes : value[n] = ValueAt(draft, missing, n, ResultsOf(draft, value, n))
    BY Values, DraftSound
  <1>3. \A n \in draft.nodes : Success(Leaves)[n] = HoldsAt(Leaves, n, OkOf(Success(Leaves), n))
    BY Successes
  <1>. HIDE DEF value
  <1>4. ASSUME NEW n \in draft.nodes, \A m \in draft.nodes : height[m] < height[n] => m \in T
        PROVE  n \in T
    <2>. DEFINE kids == Active(draft, n)
                result == ResultsOf(draft, value, n)
                ok == OkOf(Success(Leaves), n)
    <2>0. SUFFICES ASSUME value[n].complete, value[n].scenarios = {}
                   PROVE  ~Success(Leaves)[n] /\ \E p \in DOMAIN draft.edges : draft.edges[p].blocked
      BY DEF BlockedBelow, value
    <2>. HIDE DEF T
    <2>1. ValueAt(draft, missing, n, result).complete /\ ValueAt(draft, missing, n, result).scenarios = {}
      BY <2>0, <1>2
    <2>2. ASSUME NEW p \in kids, result[p].complete, result[p].scenarios = {}
          PROVE  p \notin ok /\ \E q \in DOMAIN draft.edges : draft.edges[q].blocked
      <3>1. p \in DOMAIN draft.edges
        BY DEF Active, Out
      <3>2. CASE draft.edges[p].blocked
        BY <3>1, <3>2 DEF OkOf
      <3>3. CASE ~draft.edges[p].blocked
        <4>1. value[p[2]].complete /\ value[p[2]].scenarios = {}
          BY <2>2, <3>3 DEF ResultsOf
        <4>2. p[2] \in T
          BY <1>1, <1>4
        <4>. QED
          BY <4>1, <4>2 DEF T, BlockedBelow, value, OkOf
      <3>. QED
        BY <3>2, <3>3
    <2>. HIDE DEF ok, result
    <2>3. ~(\A p \in Out(draft, n) : Context(p)) /\ kids # {}
      <3>1. ~(\A p \in Out(draft, n) : Context(p))
        BY <2>1 DEF ValueAt, Leaf
      <3>. QED
        BY <2>1, <3>1 DEF ValueAt
    <2>4. CASE Gates(draft, n) = {"OR"}
      <3>1. LET r == Alternatives({result[p] : p \in kids}) IN r.complete /\ r.scenarios = {}
        BY <2>1, <2>3, <2>4 DEF ValueAt
      <3>2. \A p \in kids : result[p].complete /\ result[p].scenarios = {}
        BY <3>1 DEF Alternatives
      <3>. QED
        BY <3>2, <2>2, <2>3, <2>4, <1>3 DEF HoldsAt, ok
    <2>5. CASE Gates(draft, n) # {"OR"}
      <3>. DEFINE picks == {f \in [kids -> UNION {result[k].scenarios : k \in kids}] :
                              \A k \in kids : f[k] \in result[k].scenarios}
      <3>1. LET r == Together(kids, result) IN r.complete /\ r.scenarios = {}
        BY <2>1, <2>3, <2>5 DEF ValueAt
      <3>2. (\A k \in kids : result[k].complete) /\ picks = {}
        <4>1. \A k \in kids : result[k].complete
          BY <3>1 DEF Together
        <4>2. {UNION {f[k] : k \in kids} : f \in picks} = {}
          BY <3>1 DEF Together
        <4>3. ASSUME NEW g \in picks PROVE FALSE
          <5>1. UNION {g[k] : k \in kids} \in {UNION {f[k] : k \in kids} : f \in picks}
            <6>. HIDE DEF picks, kids
            <6>. QED
              OBVIOUS
          <5>. QED
            BY <4>2, <5>1
        <4>. HIDE DEF picks
        <4>. QED
          BY <4>1, <4>3
      <3>3. \E p \in kids : result[p].scenarios = {}
        <4>. SUFFICES ASSUME \A p \in kids : result[p].scenarios # {} PROVE FALSE
          OBVIOUS
        <4>. DEFINE f == [k \in kids |-> CHOOSE s \in result[k].scenarios : TRUE]
        <4>1. \A k \in kids : f[k] \in result[k].scenarios
          OBVIOUS
        <4>2. f \in [kids -> UNION {result[k].scenarios : k \in kids}]
          <5>. HIDE DEF kids
          <5>. QED
            BY <4>1
        <4>. HIDE DEF f
        <4>3. f \in picks
          BY <4>1, <4>2
        <4>. QED
          BY <4>3, <3>2
      <3>. HIDE DEF picks
      <3>4. PICK p \in kids : p \notin ok /\ \E q \in DOMAIN draft.edges : draft.edges[q].blocked
        BY <3>2, <3>3, <2>2
      <3>. QED
        BY <3>4, <2>3, <2>5, <1>3 DEF HoldsAt, ok
    <2>. QED
      BY <2>4, <2>5
  <1>. HIDE DEF T
  <1>. QED
    BY <1>1, <1>4, Ascent DEF T

\* Every scenario the metrics are calculated from is one in which the Loss happens,
\* and where the analysis shows "blocked" it does not happen whatever succeeds.
THEOREM ScenariosAreSuccesses == EditingSpec => []ScenariosSucceed
  <1>1. ASSUME DraftInv PROVE ScenariosSucceed
    <2>. SUFFICES ASSUME NEW missing \in SUBSET Leaves
                  PROVE  LET value == Evaluate(draft, missing)[Root] IN
                         /\ \A s \in value.scenarios : Succeeds(s)
                         /\ Result(value) = "blocked" => ~Succeeds(Leaves)
                         /\ Result(value) = "blocked" => \E p \in DOMAIN draft.edges : draft.edges[p].blocked
      BY DEF ScenariosSucceed
    <2>. DEFINE value == Evaluate(draft, missing)[Root]
    <2>1. Root \in draft.nodes
      BY <1>1, DraftFinite
    <2>2. \A s \in value.scenarios : Succeeds(s)
      <3>. TAKE s \in value.scenarios
      <3>1. Success(s)[Root]
        BY <1>1, <2>1, ScenariosHold
      <3>. QED
        BY <1>1, <3>1, Successes
    <2>3. ASSUME Result(value) = "blocked"
          PROVE  ~Succeeds(Leaves) /\ \E p \in DOMAIN draft.edges : draft.edges[p].blocked
      <3>1. value.complete /\ value.scenarios = {}
        BY <2>3 DEF Result
      <3>2. Root \in BlockedBelow(missing)
        BY <1>1, <2>1, NoScenarioBlocked
      <3>3. ~Success(Leaves)[Root] /\ \E p \in DOMAIN draft.edges : draft.edges[p].blocked
        BY <3>1, <3>2 DEF BlockedBelow
      <3>. QED
        BY <1>1, <3>3, Successes
    <2>. HIDE DEF value
    <2>. QED
      BY <2>2, <2>3 DEF value
  <1>. QED
    BY <1>1, DraftSafe, PTL
-----------------------------------------------------------------------------
\* Sums.

Sums(f) ==
  CHOOSE iter : iter = [s \in SUBSET DOMAIN f |->
    IF s = {} THEN 0
    ELSE LET x == CHOOSE x \in s : TRUE IN f[x] + iter[s \ {x}]]

LEMMA SumsOf ==
  ASSUME NEW S, IsFiniteSet(S), NEW f \in [S -> Nat]
  PROVE  /\ Sums(f)[{}] = 0
         /\ \A s \in (SUBSET S) \ {{}} : \E x \in s : Sums(f)[s] = f[x] + Sums(f)[s \ {x}]
         /\ Total(f) = Sums(f)[S] /\ Total(f) \in Nat
  <1>. DEFINE A == SUBSET S
              rank == [s \in A |-> Cardinality(s)]
              pick(s) == CHOOSE x \in s : TRUE
              B == [s \in A |-> [g \in [A -> Nat] |->
                      IF s = {} THEN 0 ELSE f[pick(s)] + g[s \ {pick(s)}]]]
  <1>1. rank \in [A -> Nat] /\ \A s \in A : IsFiniteSet(s)
    BY FS_Subset, FS_CardinalityType
  <1>2. ASSUME NEW s \in A, s # {}
        PROVE  pick(s) \in s /\ pick(s) \in S /\ s \ {pick(s)} \in A /\ rank[s \ {pick(s)}] < rank[s]
    <2>1. pick(s) \in s
      BY <1>2
    <2>. HIDE DEF pick
    <2>2. s \ {pick(s)} \in A /\ pick(s) \in S
      BY <2>1
    <2>3. Cardinality(s \ {pick(s)}) = Cardinality(s) - 1
      BY <2>1, <1>1, FS_RemoveElement
    <2>4. Cardinality(s) \in Nat
      BY <1>1, FS_CardinalityType
    <2>. QED
      BY <2>1, <2>2, <2>3, <2>4
  <1>3. Founded(A, Nat, rank, B)
    <2>1. [s \in A |-> 0] \in [A -> Nat]
      OBVIOUS
    <2>2. ASSUME NEW s \in A, NEW g \in [A -> Nat], s # {}
          PROVE  f[pick(s)] + g[s \ {pick(s)}] \in Nat
      <3>1. pick(s) \in S /\ s \ {pick(s)} \in A
        BY <2>2, <1>2
      <3>. HIDE DEF pick, A
      <3>2. f[pick(s)] \in Nat /\ g[s \ {pick(s)}] \in Nat
        BY <3>1
      <3>. QED
        BY <3>2
    <2>3. B \in [A -> [[A -> Nat] -> Nat]]
      <3>. HIDE DEF pick, A
      <3>. QED
        BY <2>2
    <2>4. ASSUME NEW s \in A, NEW g \in [A -> Nat], NEW h \in [A -> Nat],
                 \A b \in A : rank[b] < rank[s] => g[b] = h[b]
          PROVE  B[s][g] = B[s][h]
      <3>1. s # {} => g[s \ {pick(s)}] = h[s \ {pick(s)}]
        <4>. HIDE DEF pick, rank, A
        <4>. QED
          BY <1>2, <2>4
      <3>. HIDE DEF pick, rank, A
      <3>. QED
        BY <3>1
    <2>. HIDE DEF A, B, rank
    <2>. QED
      BY <1>1, <2>1, <2>3, <2>4 DEF Founded
  <1>4. PICK g \in [A -> Nat] : \A s \in A : g[s] = B[s][g]
    <2>. HIDE DEF A, B, rank
    <2>. QED
      BY <1>3, Recursion
  <1>. DEFINE Is(iter) == iter = [s \in SUBSET S |->
    IF s = {} THEN 0
    ELSE LET x == CHOOSE x \in s : TRUE IN f[x] + iter[s \ {x}]]
  <1>5. Is(g)
    BY <1>4
  <1>6. DOMAIN f = S
    OBVIOUS
  <1>7. Sums(f) = CHOOSE iter : Is(iter)
    BY Zenon, <1>6 DEF Sums
  <1>8. Is(Sums(f))
    <2>. HIDE DEF Is
    <2>. QED
      BY <1>5, <1>7
  <1>9. Total(f) = Sums(f)[S]
    BY Zenon, <1>6 DEF Total, MapThenSumSet, MapThenFoldSet, Sums
  <1>10. ASSUME NEW s \in A, s # {} PROVE Sums(f)[s] = f[pick(s)] + Sums(f)[s \ {pick(s)}]
    BY <1>8, <1>10
  <1>11. Sums(f)[{}] = 0
    BY <1>8
  <1>12. Sums(f)[S] \in Nat
    <2>1. ASSUME NEW s \in A, \A b \in A : rank[b] < rank[s] => Sums(f)[b] = g[b]
          PROVE  Sums(f)[s] = B[s][g]
      <3>1. s # {} => Sums(f)[s \ {pick(s)}] = g[s \ {pick(s)}]
        <4>. HIDE DEF pick, rank, A
        <4>. QED
          BY <1>2, <2>1
      <3>. HIDE DEF pick, rank
      <3>. QED
        BY <3>1, <1>10, <1>11
    <2>2. \A s \in A : Sums(f)[s] = g[s]
      <3>. HIDE DEF A, B, rank
      <3>. QED
        BY <2>1, <1>3, <1>4, Determined
    <2>. QED
      BY <2>2
  <1>. HIDE DEF pick
  <1>. QED
    BY <1>2, <1>9, <1>10, <1>11, <1>12

\* Parts that have nothing in common have as many members together as their sizes
\* add up to.
LEMMA PartsAddUp ==
  ASSUME NEW S, IsFiniteSet(S), NEW f \in [S -> Nat], NEW U,
         \A p \in S : IsFiniteSet(U[p]) /\ Cardinality(U[p]) = f[p],
         \A p, q \in S : p # q => U[p] \cap U[q] = {}
  PROVE  /\ IsFiniteSet(UNION {U[p] : p \in S})
         /\ Cardinality(UNION {U[p] : p \in S}) = Total(f)
  <1>. DEFINE A == SUBSET S
              rank == [s \in A |-> Cardinality(s)]
              Part(s) == UNION {U[p] : p \in s}
              T == {s \in A : IsFiniteSet(Part(s)) /\ Cardinality(Part(s)) = Sums(f)[s]}
  <1>1. rank \in [A -> Nat] /\ \A s \in A : IsFiniteSet(s) /\ Cardinality(s) \in Nat
    BY FS_Subset, FS_CardinalityType
  <1>2. ASSUME NEW s \in A, \A b \in A : rank[b] < rank[s] => b \in T
        PROVE  s \in T
    <2>1. CASE s = {}
      <3>1. Part({}) = {}
        OBVIOUS
      <3>. HIDE DEF Part
      <3>. QED
        BY <2>1, <3>1, FS_EmptySet, SumsOf
    <2>2. CASE s # {}
      <3>1. PICK x \in s : Sums(f)[s] = f[x] + Sums(f)[s \ {x}]
        BY <2>2, SumsOf
      <3>. DEFINE r == s \ {x}
      <3>2. r \in A /\ rank[r] < rank[s]
        <4>1. r \in A
          OBVIOUS
        <4>2. Cardinality(r) = Cardinality(s) - 1
          BY <1>1, FS_RemoveElement
        <4>. QED
          BY <4>1, <4>2, <1>1
      <3>3. IsFiniteSet(Part(r)) /\ Cardinality(Part(r)) = Sums(f)[r]
        <4>. HIDE DEF r, rank, Part
        <4>. QED
          BY <3>2, <1>2
      <3>4. Part(s) = Part(r) \cup U[x] /\ Part(r) \cap U[x] = {}
        OBVIOUS
      <3>5. IsFiniteSet(U[x]) /\ Cardinality(U[x]) = f[x] /\ f[x] \in Nat
        OBVIOUS
      <3>6. Cardinality(Part(r)) \in Nat
        BY <3>3, FS_CardinalityType
      <3>. HIDE DEF Part, r
      <3>7. IsFiniteSet(Part(s)) /\ Cardinality(Part(s)) = Cardinality(Part(r)) + f[x]
        <4>1. IsFiniteSet(Part(r) \cup U[x])
              /\ Cardinality(Part(r) \cup U[x]) =
                   Cardinality(Part(r)) + Cardinality(U[x]) - Cardinality(Part(r) \cap U[x])
          BY <3>3, <3>5, FS_Union
        <4>2. Cardinality(Part(r) \cap U[x]) = 0
          BY <3>4, FS_EmptySet
        <4>. QED
          BY <4>1, <4>2, <3>4, <3>5, <3>6
      <3>. QED
        BY <3>1, <3>3, <3>6, <3>7 DEF r
    <2>. QED
      BY <2>1, <2>2
  <1>. HIDE DEF T, rank
  <1>3. A \subseteq T
    BY <1>1, <1>2, Ascent
  <1>4. S \in T
    BY <1>3
  <1>. QED
    BY <1>4, SumsOf DEF T
-----------------------------------------------------------------------------
\* Attack paths.

\* The routes from every node, those through one relationship, and how many there are.
Onto(n, r) == <<n>> \o r
RoutesThrough(t, routes, p) ==
  IF t.edges[p].blocked THEN {<<p[1], p[2]>>} ELSE {Onto(p[1], r) : r \in routes[p[2]]}
RoutesAt(t, n, through) ==
  IF Active(t, n) = {} THEN IF Terminal(n) THEN {<<n>>} ELSE {}
  ELSE UNION {through[p] : p \in Active(t, n)}
Through(t, routes, n) == [p \in Active(t, n) |-> RoutesThrough(t, routes, p)]

RoutesFrom(t) ==
  CHOOSE routes : routes = [n \in t.nodes |->
    IF Active(t, n) = {} THEN IF Terminal(n) THEN {<<n>>} ELSE {}
    ELSE UNION {IF t.edges[p].blocked THEN {<<n, p[2]>>}
                ELSE {<<n>> \o r : r \in routes[p[2]]} : p \in Active(t, n)}]

LEMMA Prefixed ==
  ASSUME NEW S, NEW n \in S
  PROVE  /\ <<n>> \in Seq(S) /\ \A m \in S : <<n, m>> \in Seq(S)
         /\ \A r \in Seq(S) : /\ Onto(n, r) \in Seq(S) /\ Len(Onto(n, r)) = Len(r) + 1
                              /\ Onto(n, r)[1] = n
                              /\ \A i \in 1 .. Len(r) : Onto(n, r)[i + 1] = r[i]
  BY DEF Onto

LEMMA RoutesOf ==
  ASSUME NEW t, Sound(t)
  PROVE  /\ \A n \in t.nodes :
              RoutesFrom(t)[n] = RoutesAt(t, n, Through(t, RoutesFrom(t), n))
         /\ Routes(t) = RoutesFrom(t)[Root]
  <1>. DEFINE V == SUBSET Seq(t.nodes)
              B == [n \in t.nodes |-> [f \in [t.nodes -> V] |-> RoutesAt(t, n, Through(t, f, n))]]
  <1>1. PICK height \in [t.nodes -> Nat] :
          \A n \in t.nodes : \A p \in Active(t, n) : p[2] \in t.nodes /\ height[p[2]] < height[n]
    BY SoundHeights
  <1>2. ASSUME NEW n \in t.nodes, NEW f \in [t.nodes -> V]
        PROVE  RoutesAt(t, n, Through(t, f, n)) \in V
    <2>1. <<n>> \in Seq(t.nodes) /\ \A r \in Seq(t.nodes) : Onto(n, r) \in Seq(t.nodes)
      BY Prefixed
    <2>2. ASSUME NEW p \in Active(t, n) PROVE RoutesThrough(t, f, p) \subseteq Seq(t.nodes)
      <3>1. p[1] = n /\ p[2] \in t.nodes /\ f[p[2]] \subseteq Seq(t.nodes)
        BY <1>1 DEF Active, Out
      <3>2. <<n, p[2]>> \in Seq(t.nodes)
        BY <3>1, Prefixed
      <3>. QED
        BY <3>1, <3>2, <2>1 DEF RoutesThrough
    <2>3. UNION {Through(t, f, n)[p] : p \in Active(t, n)} \subseteq Seq(t.nodes)
      BY <2>2 DEF Through
    <2>. QED
      BY <2>1, <2>3 DEF RoutesAt
  <1>3. Founded(t.nodes, V, height, B)
    <2>1. [n \in t.nodes |-> {}] \in [t.nodes -> V]
      OBVIOUS
    <2>. HIDE DEF V
    <2>2. B \in [t.nodes -> [[t.nodes -> V] -> V]]
      BY <1>2
    <2>3. ASSUME NEW n \in t.nodes, NEW f \in [t.nodes -> V], NEW g \in [t.nodes -> V],
                 \A m \in t.nodes : height[m] < height[n] => f[m] = g[m]
          PROVE  B[n][f] = B[n][g]
      <3>1. \A p \in Active(t, n) : f[p[2]] = g[p[2]]
        BY <1>1, <2>3
      <3>2. Through(t, f, n) = Through(t, g, n)
        BY <3>1 DEF Through, RoutesThrough
      <3>. QED
        BY <3>2
    <2>. HIDE DEF B
    <2>. QED
      BY <2>1, <2>2, <2>3 DEF Founded
  <1>4. PICK g \in [t.nodes -> V] : \A n \in t.nodes : g[n] = B[n][g]
    <2>. HIDE DEF V, B
    <2>. QED
      BY <1>3, Recursion
  <1>. DEFINE Is(routes) == routes = [n \in t.nodes |->
    IF Active(t, n) = {} THEN IF Terminal(n) THEN {<<n>>} ELSE {}
    ELSE UNION {IF t.edges[p].blocked THEN {<<n, p[2]>>}
                ELSE {<<n>> \o r : r \in routes[p[2]]} : p \in Active(t, n)}]
  <1>5. ASSUME NEW f, NEW n
        PROVE  RoutesAt(t, n, Through(t, f, n)) =
                 IF Active(t, n) = {} THEN IF Terminal(n) THEN {<<n>>} ELSE {}
                 ELSE UNION {IF t.edges[p].blocked THEN {<<n, p[2]>>}
                             ELSE {<<n>> \o r : r \in f[p[2]]} : p \in Active(t, n)}
    <2>1. ASSUME NEW p \in Active(t, n)
          PROVE  Through(t, f, n)[p] = IF t.edges[p].blocked THEN {<<n, p[2]>>}
                                       ELSE {<<n>> \o r : r \in f[p[2]]}
      <3>1. p[1] = n
        BY DEF Active, Out
      <3>. QED
        BY <3>1 DEF Through, RoutesThrough, Onto
    <2>2. {Through(t, f, n)[p] : p \in Active(t, n)} =
            {IF t.edges[p].blocked THEN {<<n, p[2]>>}
             ELSE {<<n>> \o r : r \in f[p[2]]} : p \in Active(t, n)}
      BY <2>1
    <2>. QED
      BY <2>2 DEF RoutesAt
  <1>6. Is(g)
    <2>1. g = [n \in t.nodes |-> RoutesAt(t, n, Through(t, g, n))]
      <3>. HIDE DEF V
      <3>. QED
        BY <1>4
    <2>. QED
      BY <2>1, <1>5
  <1>7. RoutesFrom(t) = CHOOSE routes : Is(routes)
    BY Zenon DEF RoutesFrom
  <1>8. Is(RoutesFrom(t))
    <2>. HIDE DEF Is
    <2>. QED
      BY <1>6, <1>7
  <1>9. Routes(t) = RoutesFrom(t)[Root]
    BY Zenon DEF Routes, RoutesFrom
  <1>. QED
    BY <1>5, <1>8, <1>9

\* The routes from a node start there, and are finitely many.
WellRouted(t) ==
  {n \in t.nodes : LET R == RoutesFrom(t)[n] IN
     /\ IsFiniteSet(R)
     /\ \A r \in R : r \in Seq(t.nodes) /\ Len(r) >= 1 /\ r[1] = n
     /\ Active(t, n) # {} => \A r \in R : Len(r) >= 2}

LEMMA ThroughOne ==
  ASSUME NEW t, Sound(t), NEW n \in t.nodes, NEW p \in Active(t, n), p[2] \in WellRouted(t)
  PROVE  LET R == RoutesThrough(t, RoutesFrom(t), p) IN
         /\ IsFiniteSet(R)
         /\ Cardinality(R) = IF t.edges[p].blocked THEN 1 ELSE Cardinality(RoutesFrom(t)[p[2]])
         /\ \A r \in R : r \in Seq(t.nodes) /\ Len(r) >= 2 /\ r[1] = n /\ r[2] = p[2]
  <1>. DEFINE R == RoutesThrough(t, RoutesFrom(t), p)
              S == RoutesFrom(t)[p[2]]
              f == [r \in S |-> Onto(n, r)]
  <1>1. p[1] = n /\ p[2] \in t.nodes
    BY DEF Active, Out, Sound
  <1>2. CASE t.edges[p].blocked
    <2>1. R = {<<n, p[2]>>}
      BY <1>1, <1>2 DEF RoutesThrough
    <2>2. LET r == <<n, p[2]>> IN r \in Seq(t.nodes) /\ Len(r) = 2 /\ r[1] = n /\ r[2] = p[2]
      BY <1>1, Prefixed
    <2>3. \A r \in R : r \in Seq(t.nodes) /\ Len(r) >= 2 /\ r[1] = n /\ r[2] = p[2]
      BY <2>1, <2>2
    <2>. HIDE DEF R
    <2>4. IsFiniteSet(R) /\ Cardinality(R) = 1
      BY <2>1, FS_Singleton
    <2>. QED
      BY <2>3, <2>4, <1>2 DEF R
  <1>3. CASE ~t.edges[p].blocked
    <2>1. IsFiniteSet(S) /\ \A r \in S : r \in Seq(t.nodes) /\ Len(r) >= 1 /\ r[1] = p[2]
      BY DEF WellRouted
    <2>2. R = {f[r] : r \in S}
      BY <1>1, <1>3 DEF RoutesThrough
    <2>3. \A r \in S : /\ f[r] \in Seq(t.nodes) /\ Len(f[r]) = Len(r) + 1 /\ f[r][1] = n
                       /\ \A i \in 1 .. Len(r) : f[r][i + 1] = r[i]
      <3>1. \A r \in Seq(t.nodes) : /\ Onto(n, r) \in Seq(t.nodes) /\ Len(Onto(n, r)) = Len(r) + 1
                                    /\ Onto(n, r)[1] = n
                                    /\ \A i \in 1 .. Len(r) : Onto(n, r)[i + 1] = r[i]
        BY Prefixed
      <3>2. \A r \in S : r \in Seq(t.nodes) /\ f[r] = Onto(n, r)
        BY <2>1
      <3>. HIDE DEF f, S
      <3>. QED
        BY <3>1, <3>2
    <2>4. ASSUME NEW x \in S, NEW y \in S, f[x] = f[y] PROVE x = y
      <3>1. x \in Seq(t.nodes) /\ y \in Seq(t.nodes) /\ Len(x) \in Nat /\ Len(y) \in Nat
        BY <2>1
      <3>. HIDE DEF f, S
      <3>2. Len(x) = Len(y)
        BY <2>3, <2>4, <3>1
      <3>3. \A i \in 1 .. Len(x) : x[i] = y[i]
        BY <2>3, <2>4, <3>2
      <3>. QED
        BY <3>1, <3>2, <3>3
    <2>5. \A r \in S : f[r] \in Seq(t.nodes) /\ Len(f[r]) >= 2 /\ f[r][1] = n /\ f[r][2] = p[2]
      <3>. SUFFICES ASSUME NEW r \in S
                    PROVE  f[r] \in Seq(t.nodes) /\ Len(f[r]) >= 2 /\ f[r][1] = n /\ f[r][2] = p[2]
        OBVIOUS
      <3>1. Len(r) \in Nat /\ Len(r) >= 1 /\ r[1] = p[2]
        BY <2>1
      <3>. HIDE DEF f, S
      <3>2. f[r][1 + 1] = r[1]
        BY <3>1, <2>3
      <3>. QED
        BY <3>1, <3>2, <2>3
    <2>6. OneToOne(f, S)
      <3>1. \A x, y \in S : f[x] = f[y] => x = y
        BY <2>4
      <3>2. f \in [S -> {f[r] : r \in S}]
        OBVIOUS
      <3>. HIDE DEF f, S
      <3>. QED
        BY <3>1, <3>2 DEF OneToOne
    <2>. HIDE DEF f, S, R
    <2>7. IsFiniteSet(R) /\ Cardinality(R) = Cardinality(S)
      <3>1. IsFiniteSet({f[r] : r \in S}) /\ Cardinality({f[r] : r \in S}) = Cardinality(S)
        BY <2>1, <2>6, ImageSize
      <3>. QED
        BY <3>1, <2>2
    <2>. QED
      BY <2>2, <2>5, <2>7, <1>3 DEF R, S
  <1>. QED
    BY <1>2, <1>3

\* The routes through two relationships of one node are not the same ones.
LEMMA ThroughAll ==
  ASSUME NEW t, Sound(t), NEW n \in t.nodes, \A p \in Active(t, n) : p[2] \in WellRouted(t)
  PROVE  /\ IsFiniteSet(Active(t, n))
         /\ \A p, q \in Active(t, n) : p # q =>
              RoutesThrough(t, RoutesFrom(t), p) \cap RoutesThrough(t, RoutesFrom(t), q) = {}
  <1>1. IsFiniteSet(t.nodes \X t.nodes)
    BY FS_Product DEF Sound
  <1>2. Active(t, n) \subseteq t.nodes \X t.nodes
    BY DEF Active, Out, Sound
  <1>3. ASSUME NEW p \in Active(t, n), NEW q \in Active(t, n), p # q,
               NEW r, r \in RoutesThrough(t, RoutesFrom(t), p), r \in RoutesThrough(t, RoutesFrom(t), q)
        PROVE  FALSE
    <2>1. r[2] = p[2] /\ r[2] = q[2]
      BY <1>3, ThroughOne
    <2>2. p[1] = n /\ q[1] = n
      BY DEF Active, Out
    <2>3. p = <<p[1], p[2]>> /\ q = <<q[1], q[2]>>
      BY <1>2
    <2>. QED
      BY <2>1, <2>2, <2>3, <1>3
  <1>. QED
    BY <1>1, <1>2, <1>3, FS_Subset

LEMMA AllRouted ==
  ASSUME NEW t, Sound(t)
  PROVE  t.nodes \subseteq WellRouted(t)
  <1>1. PICK height \in [t.nodes -> Nat] :
          \A n \in t.nodes : \A p \in Active(t, n) : p[2] \in t.nodes /\ height[p[2]] < height[n]
    BY SoundHeights
  <1>2. ASSUME NEW n \in t.nodes, \A m \in t.nodes : height[m] < height[n] => m \in WellRouted(t)
        PROVE  n \in WellRouted(t)
    <2>. DEFINE R == RoutesFrom(t)[n]
                U == Through(t, RoutesFrom(t), n)
                f == [p \in Active(t, n) |-> Cardinality(U[p])]
    <2>1. R = RoutesAt(t, n, U)
      BY RoutesOf
    <2>2. \A p \in Active(t, n) : p[2] \in WellRouted(t)
      BY <1>1, <1>2
    <2>3. CASE Active(t, n) = {}
      <3>1. R = {<<n>>} \/ R = {}
        BY <2>1, <2>3 DEF RoutesAt
      <3>2. <<n>> \in Seq(t.nodes) /\ Len(<<n>>) = 1 /\ <<n>>[1] = n
        BY Prefixed
      <3>3. IsFiniteSet({<<n>>}) /\ IsFiniteSet({})
        BY FS_Singleton, FS_EmptySet
      <3>4. IsFiniteSet(R)
        BY <3>1, <3>3
      <3>5. ASSUME NEW r \in R PROVE r \in Seq(t.nodes) /\ Len(r) >= 1 /\ r[1] = n
        <4>1. r = <<n>>
          BY <3>1
        <4>. QED
          BY <3>2, <4>1
      <3>. HIDE DEF R
      <3>. QED
        BY <3>4, <3>5, <2>3 DEF WellRouted, R
    <2>4. CASE Active(t, n) # {}
      <3>1. R = UNION {U[p] : p \in Active(t, n)}
        BY <2>1, <2>4 DEF RoutesAt
      <3>2. \A p \in Active(t, n) : /\ U[p] = RoutesThrough(t, RoutesFrom(t), p)
                                    /\ IsFiniteSet(U[p]) /\ Cardinality(U[p]) \in Nat
                                    /\ \A r \in U[p] : r \in Seq(t.nodes) /\ Len(r) >= 2 /\ r[1] = n
        <4>. SUFFICES ASSUME NEW p \in Active(t, n)
                      PROVE  /\ U[p] = RoutesThrough(t, RoutesFrom(t), p)
                             /\ IsFiniteSet(U[p]) /\ Cardinality(U[p]) \in Nat
                             /\ \A r \in U[p] : r \in Seq(t.nodes) /\ Len(r) >= 2 /\ r[1] = n
          OBVIOUS
        <4>1. U[p] = RoutesThrough(t, RoutesFrom(t), p)
          BY DEF Through
        <4>. HIDE DEF U
        <4>2. IsFiniteSet(U[p]) /\ \A r \in U[p] : r \in Seq(t.nodes) /\ Len(r) >= 2 /\ r[1] = n
          BY <4>1, <2>2, ThroughOne
        <4>. QED
          BY <4>1, <4>2, FS_CardinalityType
      <3>. HIDE DEF U
      <3>3. f \in [Active(t, n) -> Nat]
        BY <3>2
      <3>4. IsFiniteSet(Active(t, n)) /\ \A p, q \in Active(t, n) : p # q => U[p] \cap U[q] = {}
        BY <2>2, <3>2, ThroughAll
      <3>5. \A p \in Active(t, n) : f[p] = Cardinality(U[p])
        OBVIOUS
      <3>. HIDE DEF f
      <3>6. IsFiniteSet(R)
        BY <3>1, <3>2, <3>3, <3>4, <3>5, PartsAddUp
      <3>7. \A r \in R : r \in Seq(t.nodes) /\ Len(r) >= 2 /\ r[1] = n
        BY <3>1, <3>2
      <3>8. \A r \in R : Len(r) >= 1
        BY <3>7
      <3>. HIDE DEF R
      <3>. QED
        BY <3>6, <3>7, <3>8 DEF WellRouted, R
    <2>. QED
      BY <2>3, <2>4
  <1>. QED
    BY <1>1, <1>2, Ascent
-----------------------------------------------------------------------------
\* The counts of paths.

\* What is counted at a node: given where nothing is followed, and else the sum over
\* the relationships followed, some of which have a weight of their own.
TallyAt(t, base, weight, n, c) ==
  IF Active(t, n) = {} THEN base[n]
  ELSE Total([p \in Active(t, n) |-> IF p \in DOMAIN weight THEN weight[p] ELSE c[p[2]]])

LEMMA Tallies ==
  ASSUME NEW t, Sound(t), NEW base \in [t.nodes -> Nat], NEW S, NEW weight \in [S -> Nat]
  PROVE  \E c \in [t.nodes -> Nat] : \A n \in t.nodes : c[n] = TallyAt(t, base, weight, n, c)
  <1>. DEFINE B == [n \in t.nodes |-> [f \in [t.nodes -> Nat] |-> TallyAt(t, base, weight, n, f)]]
              part(f, n) == [p \in Active(t, n) |-> IF p \in DOMAIN weight THEN weight[p] ELSE f[p[2]]]
  <1>1. PICK height \in [t.nodes -> Nat] :
          \A n \in t.nodes : \A p \in Active(t, n) : p[2] \in t.nodes /\ height[p[2]] < height[n]
    BY SoundHeights
  <1>2. ASSUME NEW n \in t.nodes PROVE IsFiniteSet(Active(t, n))
    BY AllRouted, ThroughAll, <1>1
  <1>3. ASSUME NEW n \in t.nodes, NEW f \in [t.nodes -> Nat]
        PROVE  TallyAt(t, base, weight, n, f) \in Nat
    <2>1. part(f, n) \in [Active(t, n) -> Nat]
      BY <1>1
    <2>. HIDE DEF part
    <2>2. Total(part(f, n)) \in Nat
      BY <2>1, <1>2, SumsOf
    <2>. QED
      BY <2>2 DEF TallyAt, part
  <1>4. Founded(t.nodes, Nat, height, B)
    <2>1. [n \in t.nodes |-> 0] \in [t.nodes -> Nat]
      OBVIOUS
    <2>2. B \in [t.nodes -> [[t.nodes -> Nat] -> Nat]]
      BY <1>3
    <2>3. ASSUME NEW n \in t.nodes, NEW f \in [t.nodes -> Nat], NEW g \in [t.nodes -> Nat],
                 \A m \in t.nodes : height[m] < height[n] => f[m] = g[m]
          PROVE  B[n][f] = B[n][g]
      <3>1. \A p \in Active(t, n) : f[p[2]] = g[p[2]]
        BY <1>1, <2>3
      <3>2. part(f, n) = part(g, n)
        BY <3>1
      <3>3. TallyAt(t, base, weight, n, f) = TallyAt(t, base, weight, n, g)
        <4>. HIDE DEF part
        <4>. QED
          BY <3>2 DEF TallyAt, part
      <3>. QED
        BY <3>3
    <2>. HIDE DEF B
    <2>. QED
      BY <1>1, <2>1, <2>2, <2>3 DEF Founded
  <1>5. PICK g \in [t.nodes -> Nat] : \A n \in t.nodes : g[n] = B[n][g]
    <2>. HIDE DEF B
    <2>. QED
      BY <1>4, Recursion
  <1>. QED
    BY <1>5

CountsFrom(t) ==
  CHOOSE count : count = [n \in t.nodes |->
    IF Active(t, n) = {} THEN IF Terminal(n) THEN 1 ELSE 0
    ELSE Total([p \in Active(t, n) |-> IF t.edges[p].blocked THEN 1 ELSE count[p[2]]])]
RvFrom(t) ==
  CHOOSE rv : rv = [n \in t.nodes |->
    Total([p \in Active(t, n) |-> IF t.edges[p].blocked THEN 0
                                  ELSE IF Active(t, p[2]) # {} THEN rv[p[2]]
                                  ELSE IF Unaddressed(t, p) THEN 1 ELSE 0])]
RvPart(t, rv, p) ==
  IF t.edges[p].blocked THEN 0
  ELSE IF Active(t, p[2]) # {} THEN rv[p[2]]
  ELSE IF Unaddressed(t, p) THEN 1 ELSE 0

LEMMA CountsOf ==
  ASSUME NEW t, Sound(t)
  PROVE  /\ Count(t) = CountsFrom(t)[Root]
         /\ \A n \in t.nodes :
              /\ CountsFrom(t)[n] \in Nat
              /\ CountsFrom(t)[n] =
                   IF Active(t, n) = {} THEN IF Terminal(n) THEN 1 ELSE 0
                   ELSE Total([p \in Active(t, n) |->
                          IF t.edges[p].blocked THEN 1 ELSE CountsFrom(t)[p[2]]])
  <1>. DEFINE Is(count) == count = [n \in t.nodes |->
                IF Active(t, n) = {} THEN IF Terminal(n) THEN 1 ELSE 0
                ELSE Total([p \in Active(t, n) |-> IF t.edges[p].blocked THEN 1 ELSE count[p[2]]])]
              base == [n \in t.nodes |-> IF Terminal(n) THEN 1 ELSE 0]
              blocks == {p \in DOMAIN t.edges : t.edges[p].blocked}
              weight == [p \in blocks |-> 1]
  <1>1. base \in [t.nodes -> Nat] /\ weight \in [blocks -> Nat]
    OBVIOUS
  <1>2. PICK c \in [t.nodes -> Nat] : \A n \in t.nodes : c[n] = TallyAt(t, base, weight, n, c)
    <2>. HIDE DEF base, blocks, weight
    <2>. QED
      BY <1>1, Tallies
  <1>3. ASSUME NEW n \in t.nodes
        PROVE  c[n] = IF Active(t, n) = {} THEN IF Terminal(n) THEN 1 ELSE 0
                      ELSE Total([p \in Active(t, n) |-> IF t.edges[p].blocked THEN 1 ELSE c[p[2]]])
    <2>1. ASSUME NEW p \in Active(t, n)
          PROVE  (IF p \in DOMAIN weight THEN weight[p] ELSE c[p[2]]) =
                   IF t.edges[p].blocked THEN 1 ELSE c[p[2]]
      BY DEF Active, Out
    <2>2. [p \in Active(t, n) |-> IF p \in DOMAIN weight THEN weight[p] ELSE c[p[2]]] =
            [p \in Active(t, n) |-> IF t.edges[p].blocked THEN 1 ELSE c[p[2]]]
      <3>. HIDE DEF weight
      <3>. QED
        BY <2>1
    <2>3. base[n] = IF Terminal(n) THEN 1 ELSE 0
      OBVIOUS
    <2>. HIDE DEF weight, base
    <2>. QED
      BY <1>2, <2>2, <2>3 DEF TallyAt
  <1>4. Is(c)
    BY <1>3
  <1>5. CountsFrom(t) = CHOOSE count : Is(count)
    BY Zenon DEF CountsFrom
  <1>6. Is(CountsFrom(t))
    <2>. HIDE DEF Is
    <2>. QED
      BY <1>4, <1>5
  <1>7. Count(t) = CountsFrom(t)[Root]
    BY Zenon DEF Count, CountsFrom
  <1>8. PICK height \in [t.nodes -> Nat] :
          \A n \in t.nodes : \A p \in Active(t, n) : p[2] \in t.nodes /\ height[p[2]] < height[n]
    BY SoundHeights
  <1>. DEFINE C == CountsFrom(t)
              T == {n \in t.nodes : C[n] \in Nat}
  <1>9. ASSUME NEW n \in t.nodes
        PROVE  C[n] = IF Active(t, n) = {} THEN IF Terminal(n) THEN 1 ELSE 0
                      ELSE Total([p \in Active(t, n) |-> IF t.edges[p].blocked THEN 1 ELSE C[p[2]]])
    BY <1>6
  <1>10. ASSUME NEW n \in t.nodes, \A m \in t.nodes : height[m] < height[n] => m \in T
         PROVE  n \in T
    <2>. DEFINE part == [p \in Active(t, n) |-> IF t.edges[p].blocked THEN 1 ELSE C[p[2]]]
    <2>1. part \in [Active(t, n) -> Nat]
      <3>. HIDE DEF C
      <3>. QED
        BY <1>8, <1>10
    <2>2. IsFiniteSet(Active(t, n))
      BY AllRouted, ThroughAll, <1>8
    <2>3. Total(part) \in Nat
      <3>. HIDE DEF part
      <3>. QED
        BY <2>1, <2>2, SumsOf
    <2>. HIDE DEF C
    <2>. QED
      BY <2>3, <1>9
  <1>11. \A n \in t.nodes : C[n] \in Nat
    <2>. HIDE DEF T
    <2>1. t.nodes \subseteq T
      BY <1>8, <1>10, Ascent
    <2>. QED
      BY <2>1 DEF T
  <1>. QED
    BY <1>7, <1>9, <1>11

\* Alike for the attack paths that end at a leaf nothing addresses.
LEMMA RvOf ==
  ASSUME NEW t, Sound(t)
  PROVE  /\ RvCount(t) = RvFrom(t)[Root]
         /\ \A n \in t.nodes :
              /\ RvFrom(t)[n] \in Nat
              /\ RvFrom(t)[n] =
                   Total([p \in Active(t, n) |-> RvPart(t, RvFrom(t), p)])
  <1>. DEFINE part(rv, n) == [p \in Active(t, n) |-> RvPart(t, rv, p)]
              Is(rv) == rv = [n \in t.nodes |-> Total(part(rv, n))]
              base == [n \in t.nodes |-> 0]
              ends == {p \in DOMAIN t.edges : t.edges[p].blocked \/ Active(t, p[2]) = {}}
              weight == [p \in ends |-> IF ~t.edges[p].blocked /\ Unaddressed(t, p) THEN 1 ELSE 0]
  <1>1. base \in [t.nodes -> Nat] /\ weight \in [ends -> Nat]
    OBVIOUS
  <1>2. PICK c \in [t.nodes -> Nat] : \A n \in t.nodes : c[n] = TallyAt(t, base, weight, n, c)
    <2>. HIDE DEF base, ends, weight
    <2>. QED
      BY <1>1, Tallies
  <1>3. ASSUME NEW n \in t.nodes PROVE c[n] = Total(part(c, n))
    <2>1. ASSUME NEW p \in Active(t, n)
          PROVE  (IF p \in DOMAIN weight THEN weight[p] ELSE c[p[2]]) = RvPart(t, c, p)
      <3>1. p \in DOMAIN t.edges
        BY DEF Active, Out
      <3>. QED
        BY <3>1 DEF RvPart
    <2>2. [p \in Active(t, n) |-> IF p \in DOMAIN weight THEN weight[p] ELSE c[p[2]]] = part(c, n)
      <3>. HIDE DEF weight
      <3>. QED
        BY <2>1
    <2>3. CASE Active(t, n) # {}
      <3>. HIDE DEF weight, base, part
      <3>. QED
        BY <1>2, <2>2, <2>3 DEF TallyAt
    <2>4. CASE Active(t, n) = {}
      <3>1. c[n] = 0
        BY <1>2, <2>4 DEF TallyAt
      <3>2. part(c, n) \in [{} -> Nat]
        BY <2>4
      <3>. HIDE DEF part
      <3>3. Total(part(c, n)) = 0
        BY <3>2, SumsOf, FS_EmptySet
      <3>. QED
        BY <3>1, <3>3
    <2>. QED
      BY <2>3, <2>4
  <1>4. Is(c)
    BY <1>3
  <1>5. RvFrom(t) = CHOOSE rv : Is(rv)
    BY Zenon DEF RvFrom, RvPart
  <1>6. Is(RvFrom(t))
    <2>. HIDE DEF Is
    <2>. QED
      BY <1>4, <1>5
  <1>7. RvCount(t) = RvFrom(t)[Root]
    BY Zenon DEF RvCount, RvFrom
  <1>8. PICK height \in [t.nodes -> Nat] :
          \A n \in t.nodes : \A p \in Active(t, n) : p[2] \in t.nodes /\ height[p[2]] < height[n]
    BY SoundHeights
  <1>. DEFINE C == RvFrom(t)
              T == {n \in t.nodes : C[n] \in Nat}
  <1>9. ASSUME NEW n \in t.nodes PROVE C[n] = Total(part(C, n))
    BY <1>6
  <1>10. ASSUME NEW n \in t.nodes, \A m \in t.nodes : height[m] < height[n] => m \in T
         PROVE  n \in T
    <2>1. part(C, n) \in [Active(t, n) -> Nat]
      <3>. HIDE DEF C
      <3>. QED
        BY <1>8, <1>10 DEF RvPart
    <2>2. IsFiniteSet(Active(t, n))
      BY AllRouted, ThroughAll, <1>8
    <2>3. Total(part(C, n)) \in Nat
      <3>. HIDE DEF part
      <3>. QED
        BY <2>1, <2>2, SumsOf
    <2>. HIDE DEF C
    <2>. QED
      BY <2>3, <1>9
  <1>11. \A n \in t.nodes : C[n] \in Nat
    <2>. HIDE DEF T
    <2>1. t.nodes \subseteq T
      BY <1>8, <1>10, Ascent
    <2>. QED
      BY <2>1 DEF T
  <1>. QED
    BY <1>7, <1>9, <1>11

\* The count of a node is the number of the routes from it.
LEMMA CountsAreRoutes ==
  ASSUME NEW t, Sound(t)
  PROVE  \A n \in t.nodes : CountsFrom(t)[n] = Cardinality(RoutesFrom(t)[n])
  <1>. DEFINE C == CountsFrom(t)
              R == RoutesFrom(t)
              T == {n \in t.nodes : C[n] = Cardinality(R[n])}
  <1>1. PICK height \in [t.nodes -> Nat] :
          \A n \in t.nodes : \A p \in Active(t, n) : p[2] \in t.nodes /\ height[p[2]] < height[n]
    BY SoundHeights
  <1>2. ASSUME NEW n \in t.nodes, \A m \in t.nodes : height[m] < height[n] => m \in T
        PROVE  n \in T
    <2>. DEFINE U == Through(t, R, n)
                f == [p \in Active(t, n) |-> IF t.edges[p].blocked THEN 1 ELSE C[p[2]]]
    <2>1. R[n] = RoutesAt(t, n, U)
      BY RoutesOf
    <2>2. \A p \in Active(t, n) : p[2] \in WellRouted(t) /\ p[2] \in t.nodes /\ p[2] \in T
      BY <1>1, <1>2, AllRouted
    <2>3. CASE Active(t, n) = {}
      <3>1. R[n] = IF Terminal(n) THEN {<<n>>} ELSE {}
        BY <2>1, <2>3 DEF RoutesAt
      <3>2. C[n] = IF Terminal(n) THEN 1 ELSE 0
        BY <2>3, CountsOf
      <3>3. Cardinality({<<n>>}) = 1 /\ Cardinality({}) = 0
        BY FS_Singleton, FS_EmptySet
      <3>. HIDE DEF C, R
      <3>. QED
        BY <3>1, <3>2, <3>3
    <2>4. CASE Active(t, n) # {}
      <3>1. R[n] = UNION {U[p] : p \in Active(t, n)}
        BY <2>1, <2>4 DEF RoutesAt
      <3>2. C[n] = Total(f)
        BY <2>4, CountsOf
      <3>3. \A p \in Active(t, n) : U[p] = RoutesThrough(t, R, p)
        BY DEF Through
      <3>4. ASSUME NEW p \in Active(t, n)
            PROVE  IsFiniteSet(U[p]) /\ Cardinality(U[p]) = f[p] /\ f[p] \in Nat
        <4>1. /\ IsFiniteSet(RoutesThrough(t, R, p))
              /\ Cardinality(RoutesThrough(t, R, p)) =
                   IF t.edges[p].blocked THEN 1 ELSE Cardinality(R[p[2]])
          BY <2>2, ThroughOne
        <4>2. C[p[2]] = Cardinality(R[p[2]])
          BY <2>2
        <4>3. C[p[2]] \in Nat
          BY <2>2, CountsOf
        <4>. HIDE DEF C, R, U
        <4>. QED
          BY <4>1, <4>2, <4>3, <3>3
      <3>5. IsFiniteSet(Active(t, n))
            /\ \A p, q \in Active(t, n) :
                 p # q => RoutesThrough(t, R, p) \cap RoutesThrough(t, R, q) = {}
        BY <2>2, ThroughAll
      <3>6. \A p, q \in Active(t, n) : p # q => U[p] \cap U[q] = {}
        <4>. HIDE DEF R, U
        <4>. QED
          BY <3>3, <3>5
      <3>7. f \in [Active(t, n) -> Nat]
        <4>1. f = [p \in Active(t, n) |-> f[p]]
          OBVIOUS
        <4>. HIDE DEF f
        <4>. QED
          BY <3>4, <4>1
      <3>. HIDE DEF f, U, R, C
      <3>8. \A p \in Active(t, n) : IsFiniteSet(U[p]) /\ Cardinality(U[p]) = f[p]
        BY <3>4
      <3>9. Cardinality(UNION {U[p] : p \in Active(t, n)}) = Total(f)
        BY <3>5, <3>6, <3>7, <3>8, PartsAddUp
      <3>. QED
        BY <3>1, <3>2, <3>9
    <2>. QED
      BY <2>3, <2>4
  <1>. HIDE DEF T
  <1>3. t.nodes \subseteq T
    BY <1>1, <1>2, Ascent
  <1>. QED
    BY <1>3 DEF T

\* How a route ends does not depend on where it starts.
LEMMA StatusOnto ==
  ASSUME NEW t, NEW S, NEW n \in S, NEW r \in Seq(S), Len(r) >= 2
  PROVE  RouteStatus(t, Onto(n, r)) = RouteStatus(t, r)
  <1>. DEFINE o == Onto(n, r)
  <1>1. Len(r) \in Nat /\ Len(o) = Len(r) + 1 /\ \A i \in 1 .. Len(r) : o[i + 1] = r[i]
    <2>1. Len(r) \in Nat
      OBVIOUS
    <2>2. \A x \in Seq(S) : /\ Len(Onto(n, x)) = Len(x) + 1
                            /\ \A i \in 1 .. Len(x) : Onto(n, x)[i + 1] = x[i]
      BY Prefixed
    <2>. QED
      BY <2>1, <2>2
  <1>. HIDE DEF o
  <1>2. o[Len(r) + 1] = r[Len(r)]
    BY <1>1
  <1>3. o[(Len(r) - 1) + 1] = r[Len(r) - 1]
    BY <1>1
  <1>4. o[Len(o)] = r[Len(r)] /\ o[Len(o) - 1] = r[Len(r) - 1]
    BY <1>1, <1>2, <1>3
  <1>5. RouteStatus(t, o) = RouteStatus(t, r)
    BY <1>4 DEF RouteStatus
  <1>. QED
    BY <1>5 DEF o

\* The routes from a node that end at a leaf nothing addresses, and of them those
\* through one relationship.
RvRoutes(t, n) == {r \in RoutesFrom(t)[n] : Len(r) >= 2 /\ RouteStatus(t, r) = "RV"}
RvThrough(t, p) == {r \in RoutesThrough(t, RoutesFrom(t), p) : RouteStatus(t, r) = "RV"}

LEMMA RvThroughOne ==
  ASSUME NEW t, Sound(t), NEW n \in t.nodes, NEW p \in Active(t, n),
         RvFrom(t)[p[2]] = Cardinality(RvRoutes(t, p[2]))
  PROVE  /\ IsFiniteSet(RvThrough(t, p))
         /\ Cardinality(RvThrough(t, p)) = RvPart(t, RvFrom(t), p)
  <1>. DEFINE R == RoutesFrom(t)[p[2]]
              X == RoutesThrough(t, RoutesFrom(t), p)
              short == <<n, p[2]>>
  <1>1. p[1] = n /\ p[2] \in t.nodes /\ p = <<n, p[2]>>
    <2>1. p \in t.nodes \X t.nodes /\ p[1] = n
      BY DEF Active, Out, Sound
    <2>. QED
      BY <2>1
  <1>2. p[2] \in WellRouted(t)
    BY <1>1, AllRouted
  <1>3. IsFiniteSet(RvThrough(t, p))
    <2>1. IsFiniteSet(X)
      BY <1>2, ThroughOne
    <2>. QED
      BY <2>1, FS_Subset DEF RvThrough
  <1>4. RouteStatus(t, short) = IF t.edges[p].blocked THEN "BLOCKED"
                                ELSE IF TypeOf[p[2]] = "Asset" THEN "DERIVED"
                                ELSE IF t.edges[p].allowed THEN "ALLOWED" ELSE "RV"
    <2>1. Len(short) = 2 /\ short[1] = n /\ short[2] = p[2]
      OBVIOUS
    <2>2. <<short[Len(short) - 1], short[Len(short)]>> = p
      BY <1>1, <2>1
    <2>3. short[Len(short)] = p[2]
      BY <2>1
    <2>. HIDE DEF short
    <2>. QED
      BY <2>2, <2>3 DEF RouteStatus
  <1>5. CASE t.edges[p].blocked
    <2>1. X = {short}
      BY <1>1, <1>5 DEF RoutesThrough
    <2>2. RvThrough(t, p) = {}
      <3>. HIDE DEF short
      <3>. QED
        BY <2>1, <1>4, <1>5 DEF RvThrough
    <2>3. RvPart(t, RvFrom(t), p) = 0
      BY <1>5 DEF RvPart
    <2>. QED
      BY <1>3, <2>2, <2>3, FS_EmptySet
  <1>6. CASE ~t.edges[p].blocked /\ Active(t, p[2]) # {}
    <2>. DEFINE S == RvRoutes(t, p[2])
                f == [r \in S |-> Onto(n, r)]
    <2>1. \A r \in R : r \in Seq(t.nodes) /\ Len(r) >= 2
      BY <1>2, <1>6 DEF WellRouted
    <2>2. X = {Onto(n, r) : r \in R}
      BY <1>1, <1>6 DEF RoutesThrough
    <2>3. \A r \in R : RouteStatus(t, Onto(n, r)) = RouteStatus(t, r)
      BY <2>1, StatusOnto
    <2>4. RvThrough(t, p) = {f[r] : r \in S}
      <3>1. RvThrough(t, p) = {Onto(n, r) : r \in S}
        <4>. HIDE DEF R, X
        <4>1. RvThrough(t, p) = {o \in X : RouteStatus(t, o) = "RV"}
          BY DEF RvThrough, X
        <4>2. S = {r \in R : RouteStatus(t, r) = "RV"}
          BY <2>1 DEF RvRoutes, R
        <4>. HIDE DEF S
        <4>. QED
          BY <4>1, <4>2, <2>2, <2>3
      <3>. QED
        BY <3>1
    <2>5. \A r \in S : r \in R
      BY DEF RvRoutes
    <2>6. ASSUME NEW x \in S, NEW y \in S, f[x] = f[y] PROVE x = y
      <3>1. x \in Seq(t.nodes) /\ y \in Seq(t.nodes) /\ Len(x) \in Nat /\ Len(y) \in Nat
        BY <2>1, <2>5
      <3>2. \A r \in Seq(t.nodes) : /\ Len(Onto(n, r)) = Len(r) + 1
                                    /\ \A i \in 1 .. Len(r) : Onto(n, r)[i + 1] = r[i]
        BY Prefixed
      <3>3. Onto(n, x) = Onto(n, y)
        BY <2>6
      <3>. HIDE DEF f, S, R
      <3>4. Len(x) = Len(y)
        BY <3>1, <3>2, <3>3
      <3>5. \A i \in 1 .. Len(x) : x[i] = y[i]
        BY <3>1, <3>2, <3>3, <3>4
      <3>. QED
        BY <3>1, <3>4, <3>5
    <2>7. OneToOne(f, S)
      <3>1. f \in [S -> {f[r] : r \in S}]
        OBVIOUS
      <3>2. \A x, y \in S : f[x] = f[y] => x = y
        BY <2>6
      <3>. HIDE DEF f, S
      <3>. QED
        BY <3>1, <3>2 DEF OneToOne
    <2>8. IsFiniteSet(S)
      <3>1. IsFiniteSet(R)
        BY <1>2 DEF WellRouted
      <3>. QED
        BY <3>1, <2>5, FS_Subset DEF RvRoutes
    <2>. HIDE DEF f, S
    <2>9. Cardinality({f[r] : r \in S}) = Cardinality(S)
      BY <2>7, <2>8, ImageSize
    <2>10. RvPart(t, RvFrom(t), p) = Cardinality(S)
      BY <1>6 DEF RvPart, S
    <2>. QED
      BY <1>3, <2>4, <2>9, <2>10
  <1>7. CASE ~t.edges[p].blocked /\ Active(t, p[2]) = {}
    <2>1. R = IF Terminal(p[2]) THEN {<<p[2]>>} ELSE {}
      BY <1>1, <1>7, RoutesOf DEF RoutesAt
    <2>2. Onto(n, <<p[2]>>) = short
      <3>. DEFINE last == <<p[2]>>
                  o == Onto(n, last)
      <3>1. last \in Seq(t.nodes) /\ Len(last) = 1 /\ last[1] = p[2]
        BY <1>1, Prefixed
      <3>2. short \in Seq(t.nodes) /\ Len(short) = 2 /\ short[1] = n /\ short[2] = p[2]
        BY <1>1, Prefixed
      <3>. HIDE DEF last, short
      <3>3. /\ o \in Seq(t.nodes) /\ Len(o) = 2 /\ o[1] = n
            /\ \A i \in 1 .. 1 : o[i + 1] = last[i]
        <4>1. \A x \in Seq(t.nodes) : /\ Onto(n, x) \in Seq(t.nodes) /\ Len(Onto(n, x)) = Len(x) + 1
                                      /\ Onto(n, x)[1] = n
                                      /\ \A i \in 1 .. Len(x) : Onto(n, x)[i + 1] = x[i]
          BY Prefixed
        <4>2. o \in Seq(t.nodes) /\ Len(o) = Len(last) + 1 /\ o[1] = n
          BY <3>1, <4>1
        <4>3. \A i \in 1 .. Len(last) : o[i + 1] = last[i]
          BY <3>1, <4>1
        <4>. HIDE DEF o
        <4>. QED
          BY <3>1, <4>2, <4>3
      <3>. HIDE DEF o
      <3>4. o[1 + 1] = p[2]
        BY <3>1, <3>3
      <3>5. \A i \in 1 .. 2 : o[i] = short[i]
        BY <3>2, <3>3, <3>4
      <3>6. o = short
        BY <3>2, <3>3, <3>5
      <3>. QED
        BY <3>6 DEF o, last
    <2>3. X = IF Terminal(p[2]) THEN {short} ELSE {}
      <3>1. X = {Onto(n, r) : r \in R}
        BY <1>1, <1>7 DEF RoutesThrough
      <3>. HIDE DEF X, R, short
      <3>. QED
        BY <2>1, <2>2, <3>1
    <2>4. RvThrough(t, p) = IF Unaddressed(t, p) THEN {short} ELSE {}
      <3>. HIDE DEF short
      <3>. QED
        BY <2>3, <1>4, <1>7 DEF RvThrough, Unaddressed, Terminal
    <2>5. RvPart(t, RvFrom(t), p) = IF Unaddressed(t, p) THEN 1 ELSE 0
      BY <1>7 DEF RvPart
    <2>. HIDE DEF short
    <2>. QED
      BY <1>3, <2>4, <2>5, FS_EmptySet, FS_Singleton
  <1>. QED
    BY <1>5, <1>6, <1>7

LEMMA RvAreRoutes ==
  ASSUME NEW t, Sound(t)
  PROVE  \A n \in t.nodes : RvFrom(t)[n] = Cardinality(RvRoutes(t, n))
  <1>. DEFINE C == RvFrom(t)
              R == RoutesFrom(t)
              T == {n \in t.nodes : C[n] = Cardinality(RvRoutes(t, n))}
  <1>1. PICK height \in [t.nodes -> Nat] :
          \A n \in t.nodes : \A p \in Active(t, n) : p[2] \in t.nodes /\ height[p[2]] < height[n]
    BY SoundHeights
  <1>2. ASSUME NEW n \in t.nodes, \A m \in t.nodes : height[m] < height[n] => m \in T
        PROVE  n \in T
    <2>. DEFINE U == [p \in Active(t, n) |-> RvThrough(t, p)]
                f == [p \in Active(t, n) |-> RvPart(t, C, p)]
    <2>1. \A p \in Active(t, n) : p[2] \in WellRouted(t) /\ p[2] \in t.nodes /\ p[2] \in T
      BY <1>1, <1>2, AllRouted
    <2>2. ASSUME NEW p \in Active(t, n)
          PROVE  IsFiniteSet(U[p]) /\ Cardinality(U[p]) = f[p] /\ f[p] \in Nat
      <3>1. C[p[2]] = Cardinality(RvRoutes(t, p[2]))
        BY <2>1
      <3>. HIDE DEF T
      <3>2. IsFiniteSet(RvThrough(t, p)) /\ Cardinality(RvThrough(t, p)) = RvPart(t, C, p)
        BY <3>1, RvThroughOne
      <3>. QED
        BY <3>2, FS_CardinalityType
    <2>3. IsFiniteSet(Active(t, n))
          /\ \A p, q \in Active(t, n) :
               p # q => RoutesThrough(t, R, p) \cap RoutesThrough(t, R, q) = {}
      BY <2>1, ThroughAll
    <2>4. \A p, q \in Active(t, n) : p # q => U[p] \cap U[q] = {}
      <3>1. \A p \in Active(t, n) : U[p] \subseteq RoutesThrough(t, R, p)
        BY DEF RvThrough
      <3>. HIDE DEF U, R
      <3>. QED
        BY <3>1, <2>3
    <2>5. RvRoutes(t, n) = UNION {U[p] : p \in Active(t, n)}
      <3>1. R[n] = RoutesAt(t, n, Through(t, R, n))
        BY RoutesOf
      <3>2. CASE Active(t, n) = {}
        <4>1. \A r \in R[n] : r = <<n>>
          BY <3>1, <3>2 DEF RoutesAt
        <4>2. Len(<<n>>) = 1
          OBVIOUS
        <4>3. RvRoutes(t, n) = {}
          <5>. SUFFICES ASSUME NEW r \in RvRoutes(t, n) PROVE FALSE
            OBVIOUS
          <5>1. r \in R[n] /\ Len(r) >= 2
            BY DEF RvRoutes
          <5>2. r = <<n>>
            BY <5>1, <4>1
          <5>. QED
            BY <5>1, <5>2, <4>2
        <4>. QED
          BY <4>3, <3>2
      <3>3. CASE Active(t, n) # {}
        <4>1. R[n] = UNION {Through(t, R, n)[p] : p \in Active(t, n)}
          BY <3>1, <3>3 DEF RoutesAt
        <4>2. \A p \in Active(t, n) : Through(t, R, n)[p] = RoutesThrough(t, R, p)
          BY DEF Through
        <4>3. \A r \in R[n] : Len(r) >= 2
          BY <3>3, AllRouted DEF WellRouted
        <4>4. \A p \in Active(t, n) : U[p] = {r \in RoutesThrough(t, R, p) : RouteStatus(t, r) = "RV"}
          BY DEF RvThrough
        <4>5. RvRoutes(t, n) = {r \in R[n] : RouteStatus(t, r) = "RV"}
          BY <4>3 DEF RvRoutes
        <4>. HIDE DEF U, R
        <4>. QED
          BY <4>1, <4>2, <4>4, <4>5
      <3>. QED
        BY <3>2, <3>3
    <2>6. C[n] = Total(f)
      BY RvOf
    <2>7. f \in [Active(t, n) -> Nat]
      <3>1. f = [p \in Active(t, n) |-> f[p]]
        OBVIOUS
      <3>. HIDE DEF f
      <3>. QED
        BY <2>2, <3>1
    <2>. HIDE DEF f, U, R, C
    <2>8. \A p \in Active(t, n) : IsFiniteSet(U[p]) /\ Cardinality(U[p]) = f[p]
      BY <2>2
    <2>9. Cardinality(UNION {U[p] : p \in Active(t, n)}) = Total(f)
      BY <2>3, <2>4, <2>7, <2>8, PartsAddUp
    <2>. QED
      BY <2>5, <2>6, <2>9
  <1>. HIDE DEF T
  <1>3. t.nodes \subseteq T
    BY <1>1, <1>2, Ascent
  <1>. QED
    BY <1>3 DEF T

\* The counts the Loss Tool shows are the numbers of the attack paths it lists,
\* whatever the tree.
THEOREM CountsAreExact == EditingSpec => []CountsAgree
  <1>1. ASSUME DraftInv PROVE CountsAgree
    <2>. DEFINE R == RoutesFrom(draft)[Root]
    <2>1. Sound(draft) /\ Root \in draft.nodes
      BY <1>1, DraftSound, DraftFinite
    <2>2. Routes(draft) = R
      BY <2>1, RoutesOf
    <2>3. Count(draft) = Cardinality(R)
      BY <2>1, CountsOf, CountsAreRoutes
    <2>4. RvCount(draft) = Cardinality(RvRoutes(draft, Root))
      BY <2>1, RvOf, RvAreRoutes
    <2>5. \A r \in R : Len(r) >= 2
      <3>1. CASE Active(draft, Root) # {}
        BY <2>1, <3>1, AllRouted DEF WellRouted
      <3>2. CASE Active(draft, Root) = {}
        <4>1. ~Terminal(Root)
          <5>1. TypeOf[Root] = "Loss"
            BY <1>1 DEF DraftInv, Valid, Proper
          <5>. QED
            BY <5>1 DEF Terminal
        <4>2. R = {}
          BY <2>1, <3>2, <4>1, RoutesOf DEF RoutesAt
        <4>. QED
          BY <4>2
      <3>. QED
        BY <3>1, <3>2
    <2>6. RvRoutes(draft, Root) = {r \in R : RouteStatus(draft, r) = "RV"}
      BY <2>5 DEF RvRoutes
    <2>. HIDE DEF R
    <2>. QED
      BY <2>2, <2>3, <2>4, <2>6 DEF CountsAgree
  <1>. QED
    BY <1>1, DraftSafe, PTL

-----------------------------------------------------------------------------
\* What an analyst works on stays a valid tree with numbers at its leaves.

\* The rows of the dialog have one for each metric that came with the tool.
KeepsBuiltIn(rows) == /\ \A i \in DOMAIN rows : rows[i].rule.default \in Number
                /\ \A id \in BuiltIn : \E i \in DOMAIN rows : rows[i].id = id /\ rows[i].original = id

\* The tree is valid, the inputs and defaults are numbers and what the profile
\* needs is among the metrics.
NumbersInv ==
  /\ AnalysisInv
  /\ Drawn(tree) /\ Valid(tree) /\ random \in [tree.nodes -> BOOLEAN]
  /\ \A n \in tree.nodes : inputs[n] \in [DOMAIN inputs[n] -> Number]
  /\ \A id \in DOMAIN rules : rules[id].default \in Number
  /\ BuiltIn \subseteq DOMAIN rules
  /\ ValidProfile(profile, rules)
  /\ form.open => KeepsBuiltIn(form.rows)

\* A valid tree is drawn between its own nodes.
LEMMA TreesAreDrawn ==
  ASSUME NEW t, IsTree(t), Valid(t)
  PROVE  Drawn(t)
  <1>1. \A p \in DOMAIN t.edges : p[1] \in t.nodes /\ p[2] \in t.nodes
    BY DEF Valid, Proper
  <1>2. IsFiniteSet(t.nodes)
    BY NodesAssumption, FS_Subset DEF IsTree
  <1>3. \A p \in DOMAIN t.edges : p = <<p[1], p[2]>>
    BY DEF IsTree
  <1>. QED
    BY <1>1, <1>2, <1>3 DEF Drawn, IsTree

\* The tasks start with numbers only.
LEMMA NumbersStart == AnalysisInit => NumbersInv
  <1>. SUFFICES ASSUME AnalysisInit PROVE NumbersInv
    OBVIOUS
  <1>1. /\ task \in Tasks /\ tree \in task.trees /\ random = [n \in tree.nodes |-> FALSE]
        /\ rules = DefaultRules /\ form = Closed /\ ValidProfile(profile, rules)
        /\ inputs = [n \in tree.nodes |-> IF Out(tree, n) = {} THEN task.committed ELSE <<>>]
    BY DEF AnalysisInit
  <1>2. Drawn(tree) /\ Valid(tree)
    BY <1>1, TasksAssumption, TreesAreDrawn
  <1>3. \A n \in tree.nodes : inputs[n] \in [DOMAIN inputs[n] -> Number]
    <2>1. task.committed \in [DOMAIN task.committed -> Number]
      BY <1>1, TasksAssumption
    <2>2. <<>> \in [DOMAIN <<>> -> Number]
      OBVIOUS
    <2>. QED
      BY <1>1, <2>1, <2>2
  <1>4. \A id \in DOMAIN rules : rules[id].default \in Number
    BY <1>1, UnitAssumption DEF DefaultRules, Rule, Number, Null
  <1>5. BuiltIn \subseteq DOMAIN rules /\ ~form.open
    BY <1>1 DEF BuiltIn, Closed
  <1>. QED
    BY <1>1, <1>2, <1>3, <1>4, <1>5, AnalysisStarts DEF NumbersInv

\* Whatever is edited, the metrics and the profile apart, keeps what it does not touch.
LEMMA RestagedNumbers ==
  ASSUME NumbersInv, NEW t, NEW r, Restaged(t, r), Drawn(t), t.nodes = tree.nodes,
         r \in [tree.nodes -> BOOLEAN]
  PROVE  NumbersInv'
  <1>1. AnalysisInv'
    BY RestagedInv DEF NumbersInv, AnalysisInv, Drawn
  <1>2. /\ tree' = t /\ random' = r /\ Valid(tree')
        /\ UNCHANGED <<inputs, rules, profile, task, form>>
    BY DEF Restaged
  <1>. QED
    BY <1>1, <1>2 DEF NumbersInv

\* A relationship that is edited keeps the numbers.
LEMMA RestageNumbers ==
  ASSUME NumbersInv, NEW p \in DOMAIN tree.edges, NEW d \in Edge, Restage(p, d)
  PROVE  NumbersInv'
  <1>. DEFINE t == StageRelationship(tree, p, d)
  <1>1. PICK w : Restated(w, tree, p, d) /\ t = Normalize(w)
    BY Restating DEF NumbersInv
  <1>2. Drawn(w) /\ w.nodes = tree.nodes
    BY <1>1 DEF Restated
  <1>3. Drawn(t) /\ t.nodes = tree.nodes
    BY <1>1, <1>2, NormalOf DEF SameButOrder
  <1>. HIDE DEF t
  <1>. QED
    BY <1>3, RestagedNumbers DEF Restage, NumbersInv, t

\* The inputs of a leaf are staged as numbers.
LEMMA StageLeafNumbers ==
  ASSUME NumbersInv, NEW n \in tree.nodes, StageLeaf(n)
  PROVE  NumbersInv'
  <1>1. PICK e \in task.entries :
          inputs' = [inputs EXCEPT ![n] =
                       [id \in DOMAIN rules |-> IF id \in DOMAIN e THEN e[id] ELSE Null]]
    BY DEF StageLeaf
  <1>2. e \in [DOMAIN e -> Number]
    BY TasksAssumption DEF NumbersInv, AnalysisInv
  <1>3. \A m \in tree.nodes : inputs'[m] \in [DOMAIN inputs'[m] -> Number]
    <2>. DEFINE new == [id \in DOMAIN rules |-> IF id \in DOMAIN e THEN e[id] ELSE Null]
    <2>1. new \in [DOMAIN new -> Number]
      BY <1>2 DEF Number
    <2>. HIDE DEF new
    <2>. QED
      BY <1>1, <2>1 DEF NumbersInv, AnalysisInv, new
  <1>4. AnalysisInv'
    BY StageLeafInv DEF NumbersInv
  <1>5. UNCHANGED <<tree, random, rules, profile, form>>
    BY DEF StageLeaf
  <1>. QED
    BY <1>3, <1>4, <1>5 DEF NumbersInv

\* Rows that are rewritten keep the rules.
LEMMA RewriteNumbers ==
  ASSUME NumbersInv, NEW rows, Rewrite(rows), AnalysisInv', KeepsBuiltIn(rows)
  PROVE  NumbersInv'
  <1>1. form' = Opened(rows) /\ UNCHANGED <<tree, random, inputs, rules, profile>>
    BY DEF Rewrite
  <1>2. form'.rows = rows
    BY <1>1 DEF Opened
  <1>. QED
    BY <1>1, <1>2 DEF NumbersInv

\* The dialog opens with a row for every metric.
LEMMA OpenRulesNumbers ==
  ASSUME NumbersInv, OpenRules
  PROVE  NumbersInv'
  <1>. DEFINE rows == Rows(rules) R == {Row(id, id, rules[id]) : id \in DOMAIN rules}
  <1>1. rows \in Seq(R) /\ \A id \in DOMAIN rules : \E i \in DOMAIN rows : rows[i].id = id
    BY RowsOf DEF NumbersInv, AnalysisInv
  <1>2. \A i \in DOMAIN rows : rows[i].id = rows[i].original /\ rows[i].rule.default \in Number
    <2>1. \A row \in R : row.id = row.original /\ row.rule.default \in Number
      BY DEF NumbersInv, Row
    <2>. HIDE DEF R, rows
    <2>. QED
      BY <1>1, <2>1
  <1>3. KeepsBuiltIn(rows)
    <2>. HIDE DEF rows
    <2>. QED
      BY <1>1, <1>2 DEF NumbersInv, KeepsBuiltIn
  <1>4. form'.rows = rows /\ UNCHANGED <<tree, random, inputs, rules, profile>>
    BY DEF OpenRules, Opened
  <1>5. AnalysisInv'
    BY OpenRulesInv DEF NumbersInv
  <1>. HIDE DEF rows
  <1>. QED
    BY <1>3, <1>4, <1>5 DEF NumbersInv

\* Each edit of the dialog keeps the rows of the metrics that came with the tool.
LEMMA DialogNumbers ==
  ASSUME NumbersInv, form.open,
         \/ \E i \in DOMAIN form.rows :
              Rename(i) \/ ChangeRule(i) \/ DeleteRow(i) \/ CopyRow(i)
         \/ AddRow
  PROVE  NumbersInv'
  <1>. DEFINE rows == form.rows
  <1>0. AnalysisInv' /\ task \in Tasks
    BY DialogInv DEF NumbersInv, AnalysisInv
  <1>1. PICK R : rows \in Seq(R) /\ \A row \in R : IsRow(row)
    BY RowsAre DEF NumbersInv, AnalysisInv
  <1>2. KeepsBuiltIn(rows)
    BY DEF NumbersInv
  <1>3. ASSUME NEW row, row.rule.default \in Number PROVE KeepsBuiltIn(Append(rows, row))
    <2>. DEFINE new == Append(rows, row)
    <2>1. /\ DOMAIN new = 1 .. Len(rows) + 1 /\ DOMAIN rows = 1 .. Len(rows) /\ Len(rows) \in Nat
          /\ \A i \in DOMAIN rows : new[i] = rows[i]
          /\ new[Len(rows) + 1] = row
      BY <1>1
    <2>. HIDE DEF new, rows
    <2>. QED
      BY <1>2, <1>3, <2>1 DEF KeepsBuiltIn, new
  <1>4. ASSUME NEW i \in DOMAIN rows, NEW row, row.rule.default \in Number,
               \/ rows[i].original \notin BuiltIn
               \/ row.id = rows[i].id /\ row.original = rows[i].original
        PROVE  KeepsBuiltIn([rows EXCEPT ![i] = row])
    <2>. DEFINE new == [rows EXCEPT ![i] = row]
    <2>1. DOMAIN new = DOMAIN rows /\ new[i] = row /\ \A j \in DOMAIN rows : j # i => new[j] = rows[j]
      BY <1>4
    <2>. HIDE DEF new, rows
    <2>2. \A j \in DOMAIN new : new[j].rule.default \in Number
      BY <1>2, <1>4, <2>1 DEF KeepsBuiltIn
    <2>3. \A id \in BuiltIn : \E j \in DOMAIN new : new[j].id = id /\ new[j].original = id
      <3>. SUFFICES ASSUME NEW id \in BuiltIn
                    PROVE  \E j \in DOMAIN new : new[j].id = id /\ new[j].original = id
        OBVIOUS
      <3>1. PICK j \in DOMAIN rows : rows[j].id = id /\ rows[j].original = id
        BY <1>2 DEF KeepsBuiltIn
      <3>. QED
        BY <1>4, <2>1, <3>1
    <2>. QED
      BY <2>2, <2>3 DEF KeepsBuiltIn, new
  <1>5. ASSUME NEW i \in DOMAIN rows, Rename(i) PROVE NumbersInv'
    <2>1. PICK id \in task.custom : Rewrite([rows EXCEPT ![i] = [rows[i] EXCEPT !.id = id]])
      BY <1>5 DEF Rename
    <2>2. [rows[i] EXCEPT !.id = id].rule.default \in Number /\ rows[i].original \notin BuiltIn
      <3>1. rows[i].original \notin BuiltIn
        BY <1>5 DEF Rename, OwnRow
      <3>2. [rows[i] EXCEPT !.id = id].rule = rows[i].rule
        BY <1>1 DEF IsRow
      <3>. HIDE DEF rows
      <3>. QED
        BY <3>1, <3>2, <1>2 DEF KeepsBuiltIn
    <2>. HIDE DEF rows
    <2>. QED
      BY <2>1, <2>2, <1>0, <1>4, RewriteNumbers
  <1>6. ASSUME NEW i \in DOMAIN rows, ChangeRule(i) PROVE NumbersInv'
    <2>1. PICK r \in task.ruleChoices : Rewrite([rows EXCEPT ![i] = [rows[i] EXCEPT !.rule = r]])
      BY <1>6 DEF ChangeRule
    <2>2. r.default \in Number
      BY <1>0, TasksAssumption
    <2>3. LET row == [rows[i] EXCEPT !.rule = r]
          IN  row.rule = r /\ row.id = rows[i].id /\ row.original = rows[i].original
      BY <1>1 DEF IsRow
    <2>. HIDE DEF rows
    <2>. QED
      BY <2>1, <2>2, <2>3, <1>0, <1>4, RewriteNumbers
  <1>7. ASSUME NEW i \in DOMAIN rows, DeleteRow(i) PROVE NumbersInv'
    <2>. DEFINE new == RemoveAt(rows, i)
    <2>1. Rewrite(new) /\ rows[i].original \notin BuiltIn
      BY <1>7 DEF DeleteRow, OwnRow
    <2>2. /\ Len(rows) \in Nat /\ DOMAIN rows = 1 .. Len(rows) /\ DOMAIN new = 1 .. Len(rows) - 1
          /\ \A j \in 1 .. Len(rows) - 1 : new[j] = IF j < i THEN rows[j] ELSE rows[j + 1]
      <3>. DEFINE front == SubSeq(rows, 1, i - 1) back == SubSeq(rows, i + 1, Len(rows))
      <3>1. rows \in Seq(R) /\ i \in 1 .. Len(rows) /\ Len(rows) \in Nat /\ DOMAIN rows = 1 .. Len(rows)
        BY <1>1
      <3>2. /\ front \in Seq(R) /\ Len(front) = i - 1
            /\ \A j \in 1 .. i - 1 : front[j] = rows[j]
        BY <3>1
      <3>3. /\ back \in Seq(R) /\ Len(back) = Len(rows) - i
            /\ \A j \in 1 .. Len(rows) - i : back[j] = rows[j + i]
        BY <3>1
      <3>4. new = front \o back
        BY DEF RemoveAt
      <3>. HIDE DEF front, back, new, rows
      <3>5. /\ DOMAIN new = 1 .. Len(rows) - 1
            /\ \A j \in 1 .. Len(rows) - 1 : new[j] = IF j < i THEN front[j] ELSE back[j - (i - 1)]
        <4>1. /\ DOMAIN (front \o back) = 1 .. Len(front) + Len(back)
              /\ \A j \in 1 .. Len(front) + Len(back) : (front \o back)[j] =
                   IF j <= Len(front) THEN front[j] ELSE back[j - Len(front)]
          <5>1. /\ front \o back \in Seq(R) /\ Len(front \o back) = Len(front) + Len(back)
                /\ \A j \in 1 .. Len(front) + Len(back) : (front \o back)[j] =
                     IF j <= Len(front) THEN front[j] ELSE back[j - Len(front)]
            BY <3>2, <3>3, ConcatProperties
          <5>2. DOMAIN (front \o back) = 1 .. Len(front \o back)
            BY <5>1
          <5>. QED
            BY <5>1, <5>2
        <4>2. Len(front) + Len(back) = Len(rows) - 1 /\ \A j \in Nat : j <= Len(front) <=> j < i
          BY <3>1, <3>2, <3>3
        <4>. QED
          BY <4>1, <4>2, <3>2, <3>4
      <3>6. \A j \in 1 .. Len(rows) - 1 : new[j] = IF j < i THEN rows[j] ELSE rows[j + 1]
        <4>. SUFFICES ASSUME NEW j \in 1 .. Len(rows) - 1
                      PROVE  new[j] = IF j < i THEN rows[j] ELSE rows[j + 1]
          OBVIOUS
        <4>1. CASE j < i
          BY <4>1, <3>1, <3>2, <3>5
        <4>2. CASE j >= i
          <5>1. j - (i - 1) \in 1 .. Len(rows) - i /\ (j - (i - 1)) + i = j + 1
            BY <4>2, <3>1
          <5>. QED
            BY <4>2, <5>1, <3>1, <3>3, <3>5
        <4>. QED
          BY <4>1, <4>2, <3>1
      <3>. QED
        BY <3>1, <3>5, <3>6
    <2>. HIDE DEF new, rows
    <2>3. \A j \in DOMAIN new : new[j].rule.default \in Number
      BY <1>2, <2>2 DEF KeepsBuiltIn
    <2>4. \A id \in BuiltIn : \E j \in DOMAIN new : new[j].id = id /\ new[j].original = id
      <3>. SUFFICES ASSUME NEW id \in BuiltIn
                    PROVE  \E j \in DOMAIN new : new[j].id = id /\ new[j].original = id
        OBVIOUS
      <3>1. PICK j \in DOMAIN rows : rows[j].id = id /\ rows[j].original = id
        BY <1>2 DEF KeepsBuiltIn
      <3>2. CASE j < i
        BY <2>2, <3>1, <3>2, <1>7
      <3>3. CASE j > i
        <4>1. j - 1 \in DOMAIN new /\ new[j - 1] = rows[j]
          BY <2>2, <3>1, <3>3, <1>7
        <4>. QED
          BY <3>1, <4>1
      <3>. QED
        BY <2>1, <2>2, <3>1, <3>2, <3>3, <1>7
    <2>5. KeepsBuiltIn(new)
      BY <2>3, <2>4 DEF KeepsBuiltIn
    <2>. QED
      BY <2>1, <2>5, <1>0, RewriteNumbers
  <1>8. ASSUME NEW i \in DOMAIN rows, CopyRow(i) PROVE NumbersInv'
    <2>1. PICK id \in task.custom : Rewrite(Append(rows, Row(id, NoId, rows[i].rule)))
      BY <1>8 DEF CopyRow
    <2>2. Row(id, NoId, rows[i].rule).rule.default \in Number
      BY <1>2 DEF KeepsBuiltIn, Row
    <2>. HIDE DEF rows
    <2>. QED
      BY <2>1, <2>2, <1>0, <1>3, RewriteNumbers
  <1>9. ASSUME AddRow PROVE NumbersInv'
    <2>1. PICK id \in task.custom, r \in task.ruleChoices : Rewrite(Append(rows, Row(id, NoId, r)))
      BY <1>9 DEF AddRow
    <2>2. Row(id, NoId, r).rule.default \in Number
      BY <1>0, TasksAssumption DEF Row
    <2>. HIDE DEF rows
    <2>. QED
      BY <2>1, <2>2, <1>0, <1>3, RewriteNumbers
  <1>. QED
    BY <1>5, <1>6, <1>7, <1>8, <1>9

\* The rules that are staged have those metrics too, and a profile that fits them.
LEMMA StageRulesNumbers ==
  ASSUME NumbersInv, StageRules
  PROVE  NumbersInv'
  <1>. DEFINE rows == form.rows
              new  == [id \in Ids(rows) |-> rows[CHOOSE i \in DOMAIN rows : rows[i].id = id].rule]
  <1>1. /\ rules' = new /\ \E p : ValidProfile(p, new) /\ profile' = p
        /\ inputs' = [n \in tree.nodes |-> Migrate(inputs[n], rows)]
        /\ form' = Closed /\ UNCHANGED <<tree, random>>
    BY DEF StageRules
  <1>2. AnalysisInv' /\ ~form'.open
    BY <1>1, StageRulesInv DEF NumbersInv, Closed
  <1>3. KeepsBuiltIn(rows)
    BY DEF NumbersInv, StageRules
  <1>4. \A id \in Ids(rows) : LET i == CHOOSE i \in DOMAIN rows : rows[i].id = id
                              IN  i \in DOMAIN rows /\ rows[i].id = id
    BY DEF Ids
  <1>5. \A id \in DOMAIN new : new[id].default \in Number
    <2>. HIDE DEF rows
    <2>. QED
      BY <1>3, <1>4 DEF KeepsBuiltIn
  <1>6. BuiltIn \subseteq DOMAIN new
    <2>1. DOMAIN new = Ids(rows)
      OBVIOUS
    <2>. HIDE DEF rows, new
    <2>. QED
      BY <1>3, <2>1 DEF KeepsBuiltIn, Ids
  <1>7. \A n \in tree.nodes : inputs'[n] \in [DOMAIN inputs'[n] -> Number]
    <2>. SUFFICES ASSUME NEW n \in tree.nodes
                  PROVE  Migrate(inputs[n], rows) \in [DOMAIN Migrate(inputs[n], rows) -> Number]
      BY <1>1
    <2>. DEFINE values == inputs[n]
                was  == [i \in DOMAIN rows |-> Was(values, rows[i], rows)]
                kept == {i \in DOMAIN rows : was[i] # NoId}
    <2>1. values \in [DOMAIN values -> Number]
      BY DEF NumbersInv
    <2>2. \A i \in kept : was[i] \in DOMAIN values
      BY DEF Was
    <2>3. \A id \in {rows[i].id : i \in kept} : (CHOOSE i \in kept : rows[i].id = id) \in kept
      OBVIOUS
    <2>4. Migrate(values, rows) = [id \in {rows[i].id : i \in kept} |->
            values[was[CHOOSE i \in kept : rows[i].id = id]]]
      BY DEF Migrate
    <2>. HIDE DEF was, kept, values, rows
    <2>5. \A id \in {rows[i].id : i \in kept} :
            values[was[CHOOSE i \in kept : rows[i].id = id]] \in Number
      BY <2>1, <2>2, <2>3
    <2>. QED
      BY <2>4, <2>5 DEF values
  <1>8. rules' = new /\ profile' = profile' /\ ValidProfile(profile', new)
    BY <1>1
  <1>. HIDE DEF new, rows
  <1>9. ValidProfile(profile', rules')
    BY <1>8
  <1>10. UNCHANGED <<tree, random>>
    BY <1>1
  <1>. QED
    BY <1>2, <1>5, <1>6, <1>7, <1>8, <1>9, <1>10 DEF NumbersInv

\* Every step keeps the numbers.
LEMMA NumbersStep == NumbersInv /\ [AnalysisNext]_analysisVars => NumbersInv'
  <1>. SUFFICES ASSUME NumbersInv, [AnalysisNext]_analysisVars PROVE NumbersInv'
    OBVIOUS
  <1>1. ASSUME NEW n \in tree.nodes, SetEventKind(n) PROVE NumbersInv'
    <2>1. [random EXCEPT ![n] = ~@] \in [tree.nodes -> BOOLEAN] /\ Drawn(tree)
      BY DEF NumbersInv
    <2>. QED
      BY <1>1, <2>1, RestagedNumbers DEF SetEventKind
  <1>2. ASSUME NEW p \in DOMAIN tree.edges, SetGate(p) \/ SetTailor(p) \/ SetBlock(p)
        PROVE  NumbersInv'
    <2>1. tree.edges[p] \in Edge
      BY DEF NumbersInv, Drawn
    <2>2. CASE SetGate(p)
      <3>1. PICK g \in {"AND", "OR", "SAND"} : Restage(p, [tree.edges[p] EXCEPT !.gate = g])
        BY <2>2 DEF SetGate
      <3>2. [tree.edges[p] EXCEPT !.gate = g] \in Edge
        BY <2>1 DEF Edge
      <3>. QED
        BY <3>1, <3>2, RestageNumbers
    <2>3. CASE SetTailor(p)
      <3>1. [tree.edges[p] EXCEPT !.tailored = ~@] \in Edge
        BY <2>1 DEF Edge
      <3>. QED
        BY <2>3, <3>1, RestageNumbers DEF SetTailor
    <2>4. CASE SetBlock(p)
      <3>1. [tree.edges[p] EXCEPT !.blocked = ~@] \in Edge
        BY <2>1 DEF Edge
      <3>. QED
        BY <2>4, <3>1, RestageNumbers DEF SetBlock
    <2>. QED
      BY <1>2, <2>2, <2>3, <2>4
  <1>3. ASSUME CancelRules PROVE NumbersInv'
    <2>1. AnalysisInv'
      BY <1>3 DEF CancelRules, Closed, AnalysisInv, NumbersInv
    <2>. QED
      BY <1>3, <2>1 DEF CancelRules, Closed, NumbersInv
  <1>4. CASE UNCHANGED analysisVars
    BY <1>4 DEF analysisVars, AnalysisInv, NumbersInv
  <1>. QED
    BY <1>1, <1>2, <1>3, <1>4, StageLeafNumbers, OpenRulesNumbers, StageRulesNumbers, DialogNumbers
    DEF AnalysisNext

\* Whatever is edited, the tree stays valid, a leaf and a rule have numbers only, and
\* what the profile and the calculation rest on stays among the metrics.
THEOREM NumbersSafe == AnalysisSpec => []NumbersInv
  BY NumbersStart, NumbersStep, PTL DEF AnalysisSpec

-----------------------------------------------------------------------------
\* Sums and products.

\* Products of numbers are numbers.
LEMMA NatTimes == \A a, b \in Nat : a * b \in Nat
  OBVIOUS

\* Factors may be swapped.
LEMMA TimesSwaps == \A a, b, c \in Nat : a * (b * c) = b * (a * c)
  OBVIOUS

Prods(f) ==
  CHOOSE iter : iter = [s \in SUBSET DOMAIN f |->
    IF s = {} THEN 1
    ELSE LET x == CHOOSE x \in s : TRUE IN f[x] * iter[s \ {x}]]

\* The recursion of Multiplied, one factor at a time.
LEMMA ProductsOf ==
  ASSUME NEW S, IsFiniteSet(S), NEW f \in [S -> Nat]
  PROVE  /\ Prods(f)[{}] = 1
         /\ \A s \in (SUBSET S) \ {{}} : \E x \in s : Prods(f)[s] = f[x] * Prods(f)[s \ {x}]
         /\ Multiplied(f) = Prods(f)[S] /\ Multiplied(f) \in Nat
  <1>. DEFINE A == SUBSET S
              rank == [s \in A |-> Cardinality(s)]
              pick(s) == CHOOSE x \in s : TRUE
              B == [s \in A |-> [g \in [A -> Nat] |->
                      IF s = {} THEN 1 ELSE f[pick(s)] * g[s \ {pick(s)}]]]
  <1>1. rank \in [A -> Nat] /\ \A s \in A : IsFiniteSet(s)
    BY FS_Subset, FS_CardinalityType
  <1>2. ASSUME NEW s \in A, s # {}
        PROVE  pick(s) \in s /\ pick(s) \in S /\ s \ {pick(s)} \in A /\ rank[s \ {pick(s)}] < rank[s]
    <2>1. pick(s) \in s
      BY <1>2
    <2>. HIDE DEF pick
    <2>2. s \ {pick(s)} \in A /\ pick(s) \in S
      BY <2>1
    <2>3. Cardinality(s \ {pick(s)}) = Cardinality(s) - 1
      BY <2>1, <1>1, FS_RemoveElement
    <2>4. Cardinality(s) \in Nat
      BY <1>1, FS_CardinalityType
    <2>. QED
      BY <2>1, <2>2, <2>3, <2>4
  <1>3. Founded(A, Nat, rank, B)
    <2>1. [s \in A |-> 0] \in [A -> Nat]
      OBVIOUS
    <2>2. ASSUME NEW s \in A, NEW g \in [A -> Nat], s # {}
          PROVE  f[pick(s)] * g[s \ {pick(s)}] \in Nat
      <3>1. pick(s) \in S /\ s \ {pick(s)} \in A
        BY <2>2, <1>2
      <3>. HIDE DEF pick, A
      <3>2. f[pick(s)] \in Nat /\ g[s \ {pick(s)}] \in Nat
        BY <3>1
      <3>. QED
        BY <3>2, NatTimes
    <2>3. B \in [A -> [[A -> Nat] -> Nat]]
      <3>. HIDE DEF pick, A
      <3>. QED
        BY <2>2
    <2>4. ASSUME NEW s \in A, NEW g \in [A -> Nat], NEW h \in [A -> Nat],
                 \A b \in A : rank[b] < rank[s] => g[b] = h[b]
          PROVE  B[s][g] = B[s][h]
      <3>1. s # {} => g[s \ {pick(s)}] = h[s \ {pick(s)}]
        <4>. HIDE DEF pick, rank, A
        <4>. QED
          BY <1>2, <2>4
      <3>. HIDE DEF pick, rank, A
      <3>. QED
        BY <3>1
    <2>. HIDE DEF A, B, rank
    <2>. QED
      BY <1>1, <2>1, <2>3, <2>4 DEF Founded
  <1>4. PICK g \in [A -> Nat] : \A s \in A : g[s] = B[s][g]
    <2>. HIDE DEF A, B, rank
    <2>. QED
      BY <1>3, Recursion
  <1>. DEFINE Is(iter) == iter = [s \in SUBSET S |->
    IF s = {} THEN 1
    ELSE LET x == CHOOSE x \in s : TRUE IN f[x] * iter[s \ {x}]]
  <1>5. Is(g)
    BY <1>4
  <1>6. DOMAIN f = S
    OBVIOUS
  <1>7. Prods(f) = CHOOSE iter : Is(iter)
    BY Zenon, <1>6 DEF Prods
  <1>8. Is(Prods(f))
    <2>. HIDE DEF Is
    <2>. QED
      BY <1>5, <1>7
  <1>9. Multiplied(f) = Prods(f)[S]
    BY Zenon, <1>6 DEF Multiplied, MapThenFoldSet, Prods
  <1>10. ASSUME NEW s \in A, s # {} PROVE Prods(f)[s] = f[pick(s)] * Prods(f)[s \ {pick(s)}]
    BY <1>8, <1>10
  <1>11. Prods(f)[{}] = 1
    BY <1>8
  <1>12. Prods(f)[S] \in Nat
    <2>1. ASSUME NEW s \in A, \A b \in A : rank[b] < rank[s] => Prods(f)[b] = g[b]
          PROVE  Prods(f)[s] = B[s][g]
      <3>1. s # {} => Prods(f)[s \ {pick(s)}] = g[s \ {pick(s)}]
        <4>. HIDE DEF pick, rank, A
        <4>. QED
          BY <1>2, <2>1
      <3>. HIDE DEF pick, rank
      <3>. QED
        BY <3>1, <1>10, <1>11
    <2>2. \A s \in A : Prods(f)[s] = g[s]
      <3>. HIDE DEF A, B, rank
      <3>. QED
        BY <2>1, <1>3, <1>4, Determined
    <2>. QED
      BY <2>2
  <1>. HIDE DEF pick
  <1>. QED
    BY <1>2, <1>9, <1>10, <1>11, <1>12

\* Whatever is taken first, the sum of the others is added to it.
LEMMA SumsTake ==
  ASSUME NEW S, IsFiniteSet(S), NEW f \in [S -> Nat]
  PROVE  \A s \in SUBSET S : /\ Sums(f)[s] \in Nat
                              /\ \A x \in s : Sums(f)[s] = f[x] + Sums(f)[s \ {x}]
  <1>. DEFINE A == SUBSET S
              rank == [s \in A |-> Cardinality(s)]
              T == {s \in A : /\ Sums(f)[s] \in Nat
                              /\ \A x \in s : Sums(f)[s] = f[x] + Sums(f)[s \ {x}]}
  <1>1. \A s \in A : IsFiniteSet(s) /\ rank[s] \in Nat
    BY FS_Subset, FS_CardinalityType
  <1>2. ASSUME NEW s \in A, NEW x \in s PROVE s \ {x} \in A /\ rank[s \ {x}] < rank[s]
    <2>1. s \ {x} \in A /\ Cardinality(s \ {x}) = Cardinality(s) - 1
      BY <1>1, FS_RemoveElement
    <2>2. rank[s] = Cardinality(s) /\ rank[s \ {x}] = Cardinality(s \ {x}) /\ Cardinality(s) \in Nat
      BY <2>1, <1>1
    <2>. HIDE DEF rank
    <2>. QED
      BY <2>1, <2>2
  <1>3. ASSUME NEW s \in A, \A b \in A : rank[b] < rank[s] => b \in T
        PROVE  s \in T
    <2>1. CASE s = {}
      BY <2>1, SumsOf
    <2>2. CASE s # {}
      <3>1. PICK y \in s : Sums(f)[s] = f[y] + Sums(f)[s \ {y}]
        BY <2>2, SumsOf
      <3>2. f[y] \in Nat /\ Sums(f)[s \ {y}] \in Nat
        <4>1. s \ {y} \in T
          <5>. HIDE DEF rank, T
          <5>. QED
            BY <1>2, <1>3
        <4>. QED
          BY <4>1
      <3>3. ASSUME NEW x \in s, x # y PROVE Sums(f)[s] = f[x] + Sums(f)[s \ {x}]
        <4>. DEFINE r == (s \ {x}) \ {y}
        <4>1. s \ {x} \in T /\ s \ {y} \in T
          <5>. HIDE DEF rank, T
          <5>. QED
            BY <1>2, <1>3
        <4>2. y \in s \ {x} /\ x \in s \ {y} /\ r = (s \ {y}) \ {x}
          BY <3>3
        <4>3. Sums(f)[s \ {x}] = f[y] + Sums(f)[r] /\ Sums(f)[s \ {y}] = f[x] + Sums(f)[r]
          <5>. HIDE DEF r
          <5>. QED
            BY <4>1, <4>2 DEF r
        <4>4. r \in T
          <5>1. r \in A /\ rank[r] < rank[s \ {x}] /\ rank[s \ {x}] < rank[s]
            <6>. HIDE DEF rank, A
            <6>. QED
              BY <1>2, <4>2
          <5>2. rank[r] < rank[s]
            <6>1. rank[r] \in Nat /\ rank[s \ {x}] \in Nat /\ rank[s] \in Nat
              BY <5>1, <1>1, <1>2
            <6>. HIDE DEF rank, r
            <6>. QED
              BY <5>1, <6>1
          <5>. HIDE DEF rank, T, r
          <5>. QED
            BY <5>1, <5>2, <1>3
        <4>5. Sums(f)[r] \in Nat /\ f[x] \in Nat
          BY <4>4
        <4>. HIDE DEF r
        <4>. QED
          BY <3>1, <3>2, <4>3, <4>5
      <3>4. Sums(f)[s] \in Nat
        BY <3>1, <3>2
      <3>. QED
        BY <3>1, <3>3, <3>4
    <2>. QED
      BY <2>1, <2>2
  <1>. HIDE DEF T, rank
  <1>4. A \subseteq T
    <2>1. rank \in [A -> Nat]
      BY <1>1 DEF rank
    <2>. HIDE DEF A
    <2>. QED
      BY <2>1, <1>3, Ascent
  <1>. QED
    BY <1>4 DEF T

\* Likewise of products.
LEMMA ProductsTake ==
  ASSUME NEW S, IsFiniteSet(S), NEW f \in [S -> Nat]
  PROVE  \A s \in SUBSET S : /\ Prods(f)[s] \in Nat
                              /\ \A x \in s : Prods(f)[s] = f[x] * Prods(f)[s \ {x}]
  <1>. DEFINE A == SUBSET S
              rank == [s \in A |-> Cardinality(s)]
              T == {s \in A : /\ Prods(f)[s] \in Nat
                              /\ \A x \in s : Prods(f)[s] = f[x] * Prods(f)[s \ {x}]}
  <1>1. \A s \in A : IsFiniteSet(s) /\ rank[s] \in Nat
    BY FS_Subset, FS_CardinalityType
  <1>2. ASSUME NEW s \in A, NEW x \in s PROVE s \ {x} \in A /\ rank[s \ {x}] < rank[s]
    <2>1. s \ {x} \in A /\ Cardinality(s \ {x}) = Cardinality(s) - 1
      BY <1>1, FS_RemoveElement
    <2>2. rank[s] = Cardinality(s) /\ rank[s \ {x}] = Cardinality(s \ {x}) /\ Cardinality(s) \in Nat
      BY <2>1, <1>1
    <2>. HIDE DEF rank
    <2>. QED
      BY <2>1, <2>2
  <1>3. ASSUME NEW s \in A, \A b \in A : rank[b] < rank[s] => b \in T
        PROVE  s \in T
    <2>1. CASE s = {}
      BY <2>1, ProductsOf
    <2>2. CASE s # {}
      <3>1. PICK y \in s : Prods(f)[s] = f[y] * Prods(f)[s \ {y}]
        BY <2>2, ProductsOf
      <3>2. f[y] \in Nat /\ Prods(f)[s \ {y}] \in Nat
        <4>1. s \ {y} \in T
          <5>. HIDE DEF rank, T
          <5>. QED
            BY <1>2, <1>3
        <4>. QED
          BY <4>1
      <3>3. ASSUME NEW x \in s, x # y PROVE Prods(f)[s] = f[x] * Prods(f)[s \ {x}]
        <4>. DEFINE r == (s \ {x}) \ {y}
        <4>1. s \ {x} \in T /\ s \ {y} \in T
          <5>. HIDE DEF rank, T
          <5>. QED
            BY <1>2, <1>3
        <4>2. y \in s \ {x} /\ x \in s \ {y} /\ r = (s \ {y}) \ {x}
          BY <3>3
        <4>3. Prods(f)[s \ {x}] = f[y] * Prods(f)[r] /\ Prods(f)[s \ {y}] = f[x] * Prods(f)[r]
          <5>. HIDE DEF r
          <5>. QED
            BY <4>1, <4>2 DEF r
        <4>4. r \in T
          <5>1. r \in A /\ rank[r] < rank[s \ {x}] /\ rank[s \ {x}] < rank[s]
            <6>. HIDE DEF rank, A
            <6>. QED
              BY <1>2, <4>2
          <5>2. rank[r] < rank[s]
            <6>1. rank[r] \in Nat /\ rank[s \ {x}] \in Nat /\ rank[s] \in Nat
              BY <5>1, <1>1, <1>2
            <6>. HIDE DEF rank, r
            <6>. QED
              BY <5>1, <6>1
          <5>. HIDE DEF rank, T, r
          <5>. QED
            BY <5>1, <5>2, <1>3
        <4>5. Prods(f)[r] \in Nat /\ f[x] \in Nat
          BY <4>4
        <4>. HIDE DEF r
        <4>. QED
          BY <3>1, <3>2, <4>3, <4>5, TimesSwaps
      <3>4. Prods(f)[s] \in Nat
        BY <3>1, <3>2, NatTimes
      <3>. QED
        BY <3>1, <3>3, <3>4
    <2>. QED
      BY <2>1, <2>2
  <1>. HIDE DEF T, rank
  <1>4. A \subseteq T
    <2>1. rank \in [A -> Nat]
      BY <1>1 DEF rank
    <2>. HIDE DEF A
    <2>. QED
      BY <2>1, <1>3, Ascent
  <1>. QED
    BY <1>4 DEF T

\* h goes through S, one index for each member.
Enumerates(h, I, S) ==
  /\ h \in [I -> S]
  /\ \A i, j \in I : h[i] = h[j] => i = j
  /\ \A x \in S : \E i \in I : h[i] = x

\* The order in which the branches are taken makes no difference.
LEMMA SumInOrder ==
  ASSUME NEW I, NEW S, IsFiniteSet(I), IsFiniteSet(S), NEW h, Enumerates(h, I, S), NEW f \in [S -> Nat]
  PROVE  Total([i \in I |-> f[h[i]]]) = Total(f)
  <1>. DEFINE g == [i \in I |-> f[h[i]]]
              Image(s) == {h[i] : i \in s}
              A == SUBSET I
              rank == [s \in A |-> Cardinality(s)]
              T == {s \in A : Sums(g)[s] = Sums(f)[Image(s)]}
  <1>0. \A J \in SUBSET S : /\ Sums(f)[J] \in Nat
                            /\ \A x \in J : Sums(f)[J] = f[x] + Sums(f)[J \ {x}]
    <2>. HIDE DEF g, Image, A, rank, T
    <2>. QED
      BY SumsTake, ZenonT(60)
  <1>1. g \in [I -> Nat] /\ \A i \in I : g[i] = f[h[i]]
    BY DEF Enumerates
  <1>2. ASSUME NEW s \in A, \A b \in A : rank[b] < rank[s] => b \in T
        PROVE  s \in T
    <2>1. CASE s = {}
      <3>1. Image({}) = {}
        OBVIOUS
      <3>. HIDE DEF Image, g
      <3>2. Sums(f)[{}] = 0
        BY SumsOf
      <3>3. Sums(g)[{}] = 0
        BY <1>1, SumsOf
      <3>4. Sums(g)[s] = Sums(f)[Image(s)]
        BY <2>1, <3>1, <3>2, <3>3
      <3>. QED
        BY <3>4
    <2>2. CASE s # {}
      <3>1. PICK i \in s : TRUE
        BY <2>2
      <3>2. s \ {i} \in A /\ rank[s \ {i}] < rank[s]
        <4>1. IsFiniteSet(s) /\ Cardinality(s) \in Nat
          BY FS_Subset, FS_CardinalityType
        <4>2. Cardinality(s \ {i}) = Cardinality(s) - 1
          BY <4>1, FS_RemoveElement
        <4>. QED
          BY <4>1, <4>2
      <3>3. Sums(g)[s \ {i}] = Sums(f)[Image(s \ {i})]
        <4>1. s \ {i} \in T
          <5>. HIDE DEF rank, T
          <5>. QED
            BY <1>2, <3>2
        <4>. QED
          BY <4>1
      <3>4. Image(s) \ {h[i]} = Image(s \ {i}) /\ h[i] \in Image(s) /\ Image(s) \in SUBSET S
        BY DEF Enumerates
      <3>. HIDE DEF Image, g, rank
      <3>5. Sums(g)[s] = g[i] + Sums(g)[s \ {i}]
        BY <1>1, SumsTake
      <3>6. Sums(f)[Image(s)] = f[h[i]] + Sums(f)[Image(s) \ {h[i]}]
        BY <3>4, <1>0
      <3>. QED
        BY <1>1, <3>3, <3>4, <3>5, <3>6
    <2>. QED
      BY <2>1, <2>2
  <1>3. I \in T
    <2>1. rank \in [A -> Nat]
      BY FS_Subset, FS_CardinalityType
    <2>2. A \subseteq T
      <3>. HIDE DEF A, T, rank
      <3>. QED
        BY <1>2, <2>1, Ascent
    <2>. QED
      BY <2>2
  <1>4. Image(I) = S
    BY DEF Enumerates
  <1>5. Total(g) = Sums(g)[I] /\ Total(f) = Sums(f)[S]
    <2>. HIDE DEF g
    <2>. QED
      BY <1>1, SumsOf
  <1>. HIDE DEF g, Image
  <1>. QED
    BY <1>3, <1>4, <1>5 DEF g

\* Likewise of products.
LEMMA ProductInOrder ==
  ASSUME NEW I, NEW S, IsFiniteSet(I), IsFiniteSet(S), NEW h, Enumerates(h, I, S), NEW f \in [S -> Nat]
  PROVE  Multiplied([i \in I |-> f[h[i]]]) = Multiplied(f)
  <1>. DEFINE g == [i \in I |-> f[h[i]]]
              Image(s) == {h[i] : i \in s}
              A == SUBSET I
              rank == [s \in A |-> Cardinality(s)]
              T == {s \in A : Prods(g)[s] = Prods(f)[Image(s)]}
  <1>0. \A J \in SUBSET S : /\ Prods(f)[J] \in Nat
                            /\ \A x \in J : Prods(f)[J] = f[x] * Prods(f)[J \ {x}]
    <2>. HIDE DEF g, Image, A, rank, T
    <2>. QED
      BY ProductsTake, ZenonT(60)
  <1>1. g \in [I -> Nat] /\ \A i \in I : g[i] = f[h[i]]
    BY DEF Enumerates
  <1>2. ASSUME NEW s \in A, \A b \in A : rank[b] < rank[s] => b \in T
        PROVE  s \in T
    <2>1. CASE s = {}
      <3>1. Image({}) = {}
        OBVIOUS
      <3>. HIDE DEF Image, g
      <3>2. Prods(f)[{}] = 1
        BY ProductsOf
      <3>3. Prods(g)[{}] = 1
        BY <1>1, ProductsOf
      <3>4. Prods(g)[s] = Prods(f)[Image(s)]
        BY <2>1, <3>1, <3>2, <3>3
      <3>. QED
        BY <3>4
    <2>2. CASE s # {}
      <3>1. PICK i \in s : TRUE
        BY <2>2
      <3>2. s \ {i} \in A /\ rank[s \ {i}] < rank[s]
        <4>1. IsFiniteSet(s) /\ Cardinality(s) \in Nat
          BY FS_Subset, FS_CardinalityType
        <4>2. Cardinality(s \ {i}) = Cardinality(s) - 1
          BY <4>1, FS_RemoveElement
        <4>. QED
          BY <4>1, <4>2
      <3>3. Prods(g)[s \ {i}] = Prods(f)[Image(s \ {i})]
        <4>1. s \ {i} \in T
          <5>. HIDE DEF rank, T
          <5>. QED
            BY <1>2, <3>2
        <4>. QED
          BY <4>1
      <3>4. Image(s) \ {h[i]} = Image(s \ {i}) /\ h[i] \in Image(s) /\ Image(s) \in SUBSET S
        BY DEF Enumerates
      <3>. HIDE DEF Image, g, rank
      <3>5. Prods(g)[s] = g[i] * Prods(g)[s \ {i}]
        BY <1>1, ProductsTake
      <3>6. Prods(f)[Image(s)] = f[h[i]] * Prods(f)[Image(s) \ {h[i]}]
        BY <3>4, <1>0
      <3>. QED
        BY <1>1, <3>3, <3>4, <3>5, <3>6
    <2>. QED
      BY <2>1, <2>2
  <1>3. I \in T
    <2>1. rank \in [A -> Nat]
      BY FS_Subset, FS_CardinalityType
    <2>2. A \subseteq T
      <3>. HIDE DEF A, T, rank
      <3>. QED
        BY <1>2, <2>1, Ascent
    <2>. QED
      BY <2>2
  <1>4. Image(I) = S
    BY DEF Enumerates
  <1>5. Multiplied(g) = Prods(g)[I] /\ Multiplied(f) = Prods(f)[S]
    <2>. HIDE DEF g
    <2>. QED
      BY <1>1, ProductsOf
  <1>. HIDE DEF g, Image
  <1>. QED
    BY <1>3, <1>4, <1>5 DEF g

\* Of finitely many numbers one is the greatest.
LEMMA Greatest ==
  ASSUME NEW T \in SUBSET Nat, T # {}, IsFiniteSet(T)
  PROVE  \E n \in T : \A m \in T : m <= n
  <1>. DEFINE A == SUBSET T
              rank == [s \in A |-> Cardinality(s)]
              Good == {s \in A : s # {} => \E n \in s : \A m \in s : m <= n}
  <1>1. \A s \in A : IsFiniteSet(s) /\ Cardinality(s) \in Nat
    BY FS_Subset, FS_CardinalityType
  <1>2. ASSUME NEW s \in A, \A b \in A : rank[b] < rank[s] => b \in Good
        PROVE  s \in Good
    <2>1. CASE s = {}
      BY <2>1
    <2>2. CASE s # {}
      <3>1. PICK x \in s : TRUE
        BY <2>2
      <3>2. s \ {x} \in A /\ rank[s \ {x}] < rank[s]
        <4>1. Cardinality(s \ {x}) = Cardinality(s) - 1
          BY <1>1, FS_RemoveElement
        <4>. QED
          BY <4>1, <1>1
      <3>3. s \ {x} \in Good
        <4>. HIDE DEF rank, Good
        <4>. QED
          BY <3>2, <1>2
      <3>4. s \subseteq Nat
        OBVIOUS
      <3>5. CASE s \ {x} = {}
        <4>1. \A m \in s : m = x
          BY <3>5
        <4>. QED
          BY <4>1, <3>1, <3>4
      <3>6. CASE s \ {x} # {}
        <4>1. PICK n \in s \ {x} : \A m \in s \ {x} : m <= n
          BY <3>3, <3>6
        <4>2. CASE x <= n
          <5>1. \A m \in s : m <= n
            BY <4>1, <4>2
          <5>. QED
            BY <5>1
        <4>3. CASE ~(x <= n)
          <5>1. \A m \in s : m <= x
            BY <4>1, <4>3, <3>1, <3>4
          <5>. QED
            BY <5>1, <3>1
        <4>. QED
          BY <4>2, <4>3
      <3>. QED
        BY <3>5, <3>6
    <2>. QED
      BY <2>1, <2>2
  <1>3. rank \in [A -> Nat]
    BY <1>1
  <1>4. A \subseteq Good
    <2>. HIDE DEF A, rank, Good
    <2>. QED
      BY <1>2, <1>3, Ascent
  <1>. QED
    BY <1>4

\* Likewise at one factor.
LEMMA ProductsTakeOne ==
  ASSUME NEW S, IsFiniteSet(S), NEW f \in [S -> Nat], NEW J \in SUBSET S, NEW x \in J
  PROVE  Prods(f)[J] \in Nat /\ Prods(f)[J \ {x}] \in Nat /\ Prods(f)[J] = f[x] * Prods(f)[J \ {x}]
  <1>1. J \ {x} \in SUBSET S
    OBVIOUS
  <1>. QED
    BY <1>1, ProductsTake

\* A product of numbers that are not zero is none.
LEMMA ProductAboveZero ==
  ASSUME NEW S, IsFiniteSet(S), NEW f \in [S -> Nat], \A x \in S : f[x] # 0
  PROVE  Multiplied(f) \in Nat /\ Multiplied(f) # 0
  <1>. DEFINE A == SUBSET S
              rank == [s \in A |-> Cardinality(s)]
              Good == {s \in A : Prods(f)[s] # 0}
  <1>1. \A s \in A : IsFiniteSet(s) /\ Cardinality(s) \in Nat
    BY FS_Subset, FS_CardinalityType
  <1>2. ASSUME NEW s \in A, \A b \in A : rank[b] < rank[s] => b \in Good
        PROVE  s \in Good
    <2>1. CASE s = {}
      <3>1. Prods(f)[{}] = 1
        BY ProductsOf
      <3>. QED
        BY <2>1, <3>1
    <2>2. CASE s # {}
      <3>1. PICK x \in s : TRUE
        BY <2>2
      <3>2. s \ {x} \in A /\ rank[s \ {x}] < rank[s]
        <4>1. Cardinality(s \ {x}) = Cardinality(s) - 1
          BY <1>1, FS_RemoveElement
        <4>. QED
          BY <4>1, <1>1
      <3>3. s \ {x} \in Good
        <4>. HIDE DEF rank, Good
        <4>. QED
          BY <3>2, <1>2
      <3>4. Prods(f)[s] = f[x] * Prods(f)[s \ {x}] /\ Prods(f)[s \ {x}] \in Nat
        BY ProductsTakeOne
      <3>5. f[x] \in Nat /\ f[x] # 0 /\ Prods(f)[s \ {x}] # 0
        BY <3>3
      <3>6. \A a, b \in Nat : a # 0 /\ b # 0 => a * b # 0
        OBVIOUS
      <3>. QED
        BY <3>4, <3>5, <3>6
    <2>. QED
      BY <2>1, <2>2
  <1>3. rank \in [A -> Nat]
    BY <1>1
  <1>4. S \in Good
    <2>1. A \subseteq Good
      <3>. HIDE DEF A, rank, Good
      <3>. QED
        BY <1>2, <1>3, Ascent
    <2>. QED
      BY <2>1
  <1>. QED
    BY <1>4, ProductsOf

Units(S) == [k \in S |-> Unit]

\* What a product of fractions is divided by is not zero.
LEMMA UnitsAboveZero ==
  ASSUME NEW S, IsFiniteSet(S)
  PROVE  Multiplied(Units(S)) \in Nat /\ Multiplied(Units(S)) # 0
  <1>1. Units(S) \in [S -> Nat] /\ \A x \in S : Units(S)[x] # 0
    BY UnitAssumption DEF Units
  <1>. QED
    BY <1>1, ProductAboveZero

\* A product of fractions is a number.
LEMMA ProductNat ==
  ASSUME NEW S, IsFiniteSet(S), NEW f \in [S -> Nat]
  PROVE  Product(f) \in Nat
  <1>1. Multiplied(f) \in Nat
    BY ProductsOf
  <1>2. Multiplied(Units(S)) \in Nat /\ Multiplied(Units(S)) # 0
    BY UnitsAboveZero
  <1>3. Product(f) = (Multiplied(f) * Unit) \div Multiplied(Units(S))
    BY DEF Product, Units
  <1>4. Multiplied(f) * Unit \in Nat
    BY <1>1, NatTimes, UnitAssumption
  <1>5. \A a \in Nat, b \in Nat \ {0} : a \div b \in Nat
    OBVIOUS
  <1>. QED
    BY <1>2, <1>3, <1>4, <1>5

\* Aggregate, by what it is made of.
Taken(values, total, product, op) ==
  IF values = {} \/ Null \in values THEN Null ELSE
  CASE op = "SUM"     -> total
    [] op = "PRODUCT" -> product
    [] op = "MIN"     -> Min(values)
    [] OTHER          -> Max(values)

\* Aggregate is what is taken of the numbers.
LEMMA AggregateIs ==
  ASSUME NEW f, NEW op
  PROVE  Aggregate(f, op) = Taken({f[k] : k \in DOMAIN f}, Total(f), Product(f), op)
  BY DEF Aggregate, Taken

\* What is aggregated of known numbers is known, and a number or none in any case.
LEMMA AggregateNat ==
  ASSUME NEW S, IsFiniteSet(S), S # {}, NEW f \in [S -> Nat], NEW op
  PROVE  Aggregate(f, op) \in Nat
  <1>. DEFINE values == {f[k] : k \in DOMAIN f}
  <1>1. values \in SUBSET Nat /\ values # {} /\ Null \notin values
    BY DEF Null
  <1>2. IsFiniteSet(values)
    <2>. DEFINE g == [k \in S |-> f[k]]
    <2>1. g \in Surjection(S, values)
      BY DEF Surjection
    <2>. HIDE DEF g, values
    <2>. QED
      BY <2>1, FS_Surjection
  <1>. HIDE DEF values
  <1>3. Min(values) \in values
    <2>1. \E n \in values : \A m \in values : n <= m
      BY <1>1, Least
    <2>. QED
      BY <2>1 DEF Min
  <1>4. Max(values) \in values
    <2>1. \E n \in values : \A m \in values : n >= m
      BY <1>1, <1>2, Greatest
    <2>. QED
      BY <2>1 DEF Max
  <1>5. Total(f) \in Nat /\ Product(f) \in Nat
    BY SumsOf, ProductNat
  <1>. QED
    BY <1>1, <1>3, <1>4, <1>5 DEF Aggregate, values

\* Of numbers some of which are not known it is a number or none.
LEMMA AggregateNumber ==
  ASSUME NEW S, IsFiniteSet(S), NEW f \in [S -> Number], NEW op
  PROVE  Aggregate(f, op) \in Number
  <1>1. CASE S = {} \/ Null \in {f[k] : k \in DOMAIN f}
    BY <1>1 DEF Aggregate, Number
  <1>2. CASE S # {} /\ Null \notin {f[k] : k \in DOMAIN f}
    <2>1. f \in [S -> Nat]
      BY <1>2 DEF Number
    <2>. QED
      BY <1>2, <2>1, AggregateNat DEF Number
  <1>. QED
    BY <1>1, <1>2

\* It is the same in any order.
LEMMA AggregateInOrder ==
  ASSUME NEW I, NEW S, IsFiniteSet(I), IsFiniteSet(S), NEW h, Enumerates(h, I, S),
         NEW f \in [S -> Number], NEW op
  PROVE  Aggregate([i \in I |-> f[h[i]]], op) = Aggregate(f, op)
  <1>. DEFINE g == [i \in I |-> f[h[i]]]
              values == {f[k] : k \in S}
  <1>1. {g[i] : i \in DOMAIN g} = values /\ DOMAIN f = S
    BY DEF Enumerates
  <1>2. CASE values = {} \/ Null \in values
    <2>. HIDE DEF values
    <2>. QED
      BY <1>1, <1>2 DEF Aggregate, values
  <1>3. CASE ~(values = {} \/ Null \in values)
    <2>1. f \in [S -> Nat]
      BY <1>3 DEF Number
    <2>2. Total(g) = Total(f) /\ Multiplied(g) = Multiplied(f)
      BY <2>1, SumInOrder, ProductInOrder
    <2>3. Multiplied([i \in I |-> Units(S)[h[i]]]) = Multiplied(Units(S))
      <3>1. Units(S) \in [S -> Nat]
        BY UnitAssumption DEF Units
      <3>. QED
        BY <3>1, ProductInOrder
    <2>4. [i \in I |-> Units(S)[h[i]]] = [k \in DOMAIN g |-> Unit] /\ [k \in DOMAIN f |-> Unit] = Units(S)
      BY <1>1 DEF Units, Enumerates
    <2>. HIDE DEF g, values
    <2>5. Product(g) = Product(f)
      BY <2>2, <2>3, <2>4 DEF Product
    <2>6. {g[i] : i \in DOMAIN g} = {f[k] : k \in DOMAIN f}
      BY <1>1 DEF values
    <2>. QED
      <3>1. Aggregate(g, op) = Taken({g[i] : i \in DOMAIN g}, Total(g), Product(g), op)
        BY Zenon, AggregateIs
      <3>2. Aggregate(f, op) = Taken({f[k] : k \in DOMAIN f}, Total(f), Product(f), op)
        BY Zenon, AggregateIs
      <3>3. Aggregate(g, op) = Aggregate(f, op)
        BY Zenon, <3>1, <3>2, <2>2, <2>5, <2>6
      <3>. QED
        BY <3>3 DEF g
  <1>. QED
    BY <1>2, <1>3

\* Of one number whatever the operation is that number.
LEMMA AggregateOne ==
  ASSUME NEW e, NEW v \in Nat, NEW op
  PROVE  Aggregate([q \in {e} |-> v], op) = v
  <1>. DEFINE f == [q \in {e} |-> v]
  <1>1. f \in [{e} -> Nat] /\ IsFiniteSet({e})
    BY FS_Singleton
  <1>2. {f[k] : k \in DOMAIN f} = {v}
    OBVIOUS
  <1>3. Total(f) = v
    <2>. HIDE DEF f
    <2>1. Sums(f)[{}] = 0 /\ Total(f) = Sums(f)[{e}]
      BY <1>1, SumsOf
    <2>2. Sums(f)[{e}] = f[e] + Sums(f)[{e} \ {e}]
      BY <1>1, SumsTake
    <2>3. {e} \ {e} = {} /\ f[e] = v
      BY DEF f
    <2>. QED
      BY <2>1, <2>2, <2>3
  <1>. HIDE DEF f
  <1>4. ASSUME NEW g \in [{e} -> Nat] PROVE Multiplied(g) = g[e]
    <2>1. Prods(g)[{}] = 1 /\ Multiplied(g) = Prods(g)[{e}]
      BY <1>1, ProductsOf
    <2>2. \A J \in SUBSET {e} : /\ Prods(g)[J] \in Nat
                                /\ \A x \in J : Prods(g)[J] = g[x] * Prods(g)[J \ {x}]
      BY <1>1, ProductsTake
    <2>3. {e} \ {e} = {} /\ g[e] \in Nat
      OBVIOUS
    <2>4. Prods(g)[{e}] = g[e] * 1
      BY <2>1, <2>2, <2>3
    <2>. QED
      BY <2>1, <2>3, <2>4
  <1>5. Product(f) = v
    <2>1. Multiplied(f) = v
      <3>1. Multiplied(f) = f[e] /\ f[e] = v
        BY <1>1, <1>4 DEF f
      <3>. QED
        BY <3>1
    <2>2. Units({e}) \in [{e} -> Nat] /\ Units({e})[e] = Unit
      BY UnitAssumption DEF Units
    <2>. HIDE DEF f
    <2>3. Multiplied(Units({e})) = Unit
      BY <2>2, <1>4
    <2>4. Product(f) = (v * Unit) \div Unit
      BY <2>1, <2>3, <1>1 DEF Product, Units
    <2>5. \A a \in Nat, b \in Nat \ {0} : (a * b) \div b = a
      OBVIOUS
    <2>. QED
      BY <2>4, <2>5, UnitAssumption
  <1>6. Min({v}) = v /\ Max({v}) = v
    BY DEF Min, Max
  <1>. HIDE DEF f
  <1>7. Aggregate(f, op) = Taken({v}, v, v, op)
    <2>1. Aggregate(f, op) = Taken({f[k] : k \in DOMAIN f}, Total(f), Product(f), op)
      BY Zenon, AggregateIs
    <2>. QED
      BY Zenon, <2>1, <1>2, <1>3, <1>5
  <1>8. Taken({v}, v, v, op) = v
    BY <1>6 DEF Taken, Null
  <1>. QED
    BY <1>7, <1>8 DEF f

-----------------------------------------------------------------------------
\* The branches of a node in order, and what is made of sequences of scenarios.

\* The branches that are followed are numbered, each once.
LEMMA KidsInOrder ==
  ASSUME NEW t, Drawn(t), NEW n
  PROVE  LET kids == Kids(t, n) A == Active(t, n) size == Cardinality(Active(t, n)) IN
         /\ IsFiniteSet(A) /\ size \in Nat
         /\ DOMAIN kids = 1 .. size /\ Len(kids) = size
         /\ IsFiniteSet(1 .. size)
         /\ Enumerates(kids, 1 .. size, A)
  <1>. DEFINE kids == Kids(t, n) A == Active(t, n) size == Cardinality(A)
              at(p) == Cardinality(AheadIn(t, A, p))
              place(i) == CHOOSE p \in A : at(p) = i - 1
  <1>1. IsFiniteSet(A) /\ size \in Nat
    BY DrawnFinite, FS_CardinalityType
  <1>2. {at(p) : p \in A} = 0 .. size - 1 /\ \A p, q \in A : at(p) = at(q) => p = q
    <2>1. A \in SUBSET Out(t, n)
      BY DEF Active
    <2>. QED
      BY <2>1, NumberedIn
  <1>3. kids = [i \in 1 .. size |-> place(i)]
    BY DEF Kids, InOrder, AheadIn
  <1>. HIDE DEF at, A, size, kids
  <1>4. ASSUME NEW i \in 1 .. size PROVE place(i) \in A /\ at(place(i)) = i - 1
    <2>1. i - 1 \in 0 .. size - 1
      BY <1>1
    <2>2. \E p \in A : at(p) = i - 1
      BY <2>1, <1>2
    <2>. QED
      BY <2>2
  <1>5. ASSUME NEW p \in A PROVE \E i \in 1 .. size : place(i) = p
    <2>1. at(p) \in 0 .. size - 1
      BY <1>2
    <2>2. at(p) + 1 \in 1 .. size /\ (at(p) + 1) - 1 = at(p)
      BY <2>1, <1>1
    <2>3. place(at(p) + 1) = p
      <3>. HIDE DEF place
      <3>. QED
        BY <2>2, <1>2, <1>4
    <2>. QED
      BY <2>2, <2>3
  <1>. HIDE DEF place
  <1>6. Enumerates(kids, 1 .. size, A)
    <2>1. \A i, j \in 1 .. size : place(i) = place(j) => i = j
      <3>. SUFFICES ASSUME NEW i \in 1 .. size, NEW j \in 1 .. size, place(i) = place(j)
                    PROVE  i = j
        OBVIOUS
      <3>1. i - 1 = j - 1
        BY <1>4
      <3>. QED
        BY <3>1, <1>1
    <2>. QED
      BY <1>3, <1>4, <1>5, <2>1 DEF Enumerates
  <1>7. DOMAIN kids = 1 .. size
    BY <1>3
  <1>8. Len(kids) = size
    BY <1>1, <1>3
  <1>9. IsFiniteSet(1 .. size)
    BY <1>1, UpTo
  <1>. QED
    BY <1>1, <1>6, <1>7, <1>8, <1>9 DEF size, A, kids

SumTakes(f, J, x) ==
  Sums(f)[J] \in Nat /\ Sums(f)[J \ {x}] \in Nat /\ Sums(f)[J] = f[x] + Sums(f)[J \ {x}]

\* A sum, one member at a time.
LEMMA SumsTakeOne ==
  ASSUME NEW S, IsFiniteSet(S), NEW f \in [S -> Nat], NEW J \in SUBSET S, NEW x \in J
  PROVE  SumTakes(f, J, x)
  <1>1. J \ {x} \in SUBSET S
    OBVIOUS
  <1>. QED
    BY <1>1, SumsTake DEF SumTakes

\* A sum over the first k.
LEMMA SumsUpTo ==
  ASSUME NEW n \in Nat, NEW f \in [1 .. n -> Nat]
  PROVE  /\ Sums(f)[1 .. 0] = 0 /\ Total(f) = Sums(f)[1 .. n]
         /\ \A i \in 1 .. n : /\ Sums(f)[1 .. i] \in Nat /\ Sums(f)[1 .. i - 1] \in Nat
                             /\ Sums(f)[1 .. i] = f[i] + Sums(f)[1 .. i - 1]
  <1>1. IsFiniteSet(1 .. n) /\ 1 .. 0 = {}
    BY UpTo
  <1>2. ASSUME NEW i \in 1 .. n
        PROVE  /\ Sums(f)[1 .. i] \in Nat /\ Sums(f)[1 .. i - 1] \in Nat
               /\ Sums(f)[1 .. i] = f[i] + Sums(f)[1 .. i - 1]
    <2>1. (1 .. i) \in SUBSET (1 .. n) /\ i \in 1 .. i /\ (1 .. i) \ {i} = 1 .. i - 1
      OBVIOUS
    <2>2. SumTakes(f, 1 .. i, i)
      BY <1>1, <2>1, SumsTakeOne
    <2>. QED
      BY <2>1, <2>2 DEF SumTakes
  <1>3. Sums(f)[{}] = 0 /\ Total(f) = Sums(f)[1 .. n]
    <2>1. PICK S : S = 1 .. n
      OBVIOUS
    <2>. QED
      BY <2>1, <1>1, SumsOf
  <1>. QED
    BY <1>1, <1>2, <1>3

ProductTakes(f, J, x) ==
  Prods(f)[J] \in Nat /\ Prods(f)[J \ {x}] \in Nat /\ Prods(f)[J] = f[x] * Prods(f)[J \ {x}]

\* A product, one member at a time.
LEMMA ProductsTakeAt ==
  ASSUME NEW S, IsFiniteSet(S), NEW f \in [S -> Nat], NEW J \in SUBSET S, NEW x \in J
  PROVE  ProductTakes(f, J, x)
  <1>1. J \ {x} \in SUBSET S
    OBVIOUS
  <1>. QED
    BY <1>1, ProductsTake DEF ProductTakes

\* A product over the first k.
LEMMA ProductsUpTo ==
  ASSUME NEW n \in Nat, NEW f \in [1 .. n -> Nat]
  PROVE  /\ Prods(f)[1 .. 0] = 1 /\ Multiplied(f) = Prods(f)[1 .. n]
         /\ \A i \in 1 .. n : /\ Prods(f)[1 .. i] \in Nat /\ Prods(f)[1 .. i - 1] \in Nat
                             /\ Prods(f)[1 .. i] = f[i] * Prods(f)[1 .. i - 1]
  <1>1. IsFiniteSet(1 .. n) /\ 1 .. 0 = {}
    BY UpTo
  <1>2. ASSUME NEW i \in 1 .. n
        PROVE  /\ Prods(f)[1 .. i] \in Nat /\ Prods(f)[1 .. i - 1] \in Nat
               /\ Prods(f)[1 .. i] = f[i] * Prods(f)[1 .. i - 1]
    <2>1. (1 .. i) \in SUBSET (1 .. n) /\ i \in 1 .. i /\ (1 .. i) \ {i} = 1 .. i - 1
      OBVIOUS
    <2>2. ProductTakes(f, 1 .. i, i)
      BY <1>1, <2>1, ProductsTakeAt
    <2>. QED
      BY <2>1, <2>2 DEF ProductTakes
  <1>3. Prods(f)[{}] = 1 /\ Multiplied(f) = Prods(f)[1 .. n]
    <2>1. PICK S : S = 1 .. n
      OBVIOUS
    <2>. QED
      BY <2>1, <1>1, ProductsOf
  <1>. QED
    BY <1>1, <1>2, <1>3

\* FlattenSeq, up to one of the sequences.
Flattened(s) ==
  CHOOSE flatten : flatten = [i \in 1 .. Len(s) |->
    IF i = 1 THEN s[i] ELSE flatten[i - 1] \o s[i]]

\* Flattened sequences are as long as they are together, and have the same members.
LEMMA FlattenOf ==
  ASSUME NEW X, NEW s \in Seq(Seq(X))
  PROVE  /\ FlattenSeq(s) \in Seq(X)
         /\ Len(FlattenSeq(s)) = Total([i \in DOMAIN s |-> Len(s[i])])
         /\ Range(FlattenSeq(s)) = UNION {Range(s[i]) : i \in DOMAIN s}
  <1>. DEFINE n == Len(s)
              len == [i \in 1 .. n |-> Len(s[i])]
              A == 1 .. n
              V == Seq(X)
              rank == [i \in A |-> i]
              B == [i \in A |-> [f \in [A -> V] |-> IF i = 1 THEN s[i] ELSE f[i - 1] \o s[i]]]
  <1>1. n \in Nat /\ DOMAIN s = 1 .. n /\ \A i \in 1 .. n : s[i] \in Seq(X) /\ Len(s[i]) \in Nat
    OBVIOUS
  <1>2. len \in [A -> Nat] /\ IsFiniteSet(A)
    BY <1>1, UpTo
  <1>3. Sums(len)[{}] = 0 /\ Total(len) = Sums(len)[1 .. n]
    <2>. HIDE DEF len
    <2>. QED
      BY <1>2, SumsOf
  <1>4. CASE n = 0
    <2>1. s = <<>> /\ FlattenSeq(s) = s /\ DOMAIN s = {}
      BY <1>1, <1>4 DEF FlattenSeq
    <2>2. 1 .. n = {}
      BY <1>4
    <2>3. Total(len) = 0
      BY <1>3, <2>2
    <2>4. [i \in DOMAIN s |-> Len(s[i])] = len
      BY <1>1
    <2>5. Range(s) = {} /\ UNION {Range(s[i]) : i \in DOMAIN s} = {}
      BY <2>1 DEF Range
    <2>6. s \in Seq(X) /\ Len(s) = 0
      BY <2>1
    <2>. HIDE DEF len, n
    <2>. QED
      BY <2>1, <2>3, <2>4, <2>5, <2>6
  <1>5. CASE n # 0
    <2>1. Founded(A, V, rank, B)
      <3>1. [i \in A |-> s[i]] \in [A -> V] /\ rank \in [A -> Nat]
        BY <1>1
      <3>2. ASSUME NEW i \in A, NEW f \in [A -> V], i # 1 PROVE f[i - 1] \o s[i] \in V
        <4>1. i - 1 \in A
          BY <1>1, <3>2
        <4>2. f[i - 1] \in Seq(X) /\ s[i] \in Seq(X)
          BY <4>1, <1>1
        <4>. QED
          BY <4>2, ConcatProperties
      <3>3. B \in [A -> [[A -> V] -> V]]
        <4>. HIDE DEF A, V
        <4>. QED
          BY <1>1, <3>2 DEF A, V
      <3>4. ASSUME NEW i \in A, NEW f \in [A -> V], NEW g \in [A -> V],
                   \A b \in A : rank[b] < rank[i] => f[b] = g[b]
            PROVE  B[i][f] = B[i][g]
        <4>1. CASE i = 1
          BY <4>1
        <4>2. CASE i # 1
          <5>1. i - 1 \in A /\ rank[i - 1] < rank[i]
            BY <4>2, <1>1
          <5>2. f[i - 1] = g[i - 1]
            BY <5>1, <3>4
          <5>. QED
            BY <5>2
        <4>. QED
          BY <4>1, <4>2
      <3>. HIDE DEF A, V, rank, B
      <3>. QED
        BY <3>1, <3>3, <3>4 DEF Founded
    <2>2. PICK g \in [A -> V] : \A i \in A : g[i] = B[i][g]
      <3>. HIDE DEF A, V, rank, B
      <3>. QED
        BY <2>1, Recursion
    <2>. DEFINE Is(flatten) == flatten = [i \in 1 .. n |->
                  IF i = 1 THEN s[i] ELSE flatten[i - 1] \o s[i]]
    <2>3. Is(g)
      BY <2>2
    <2>4. Flattened(s) = CHOOSE flatten : Is(flatten)
      BY Zenon DEF Flattened
    <2>5. Is(Flattened(s))
      <3>. HIDE DEF Is
      <3>. QED
        BY <2>3, <2>4
    <2>. DEFINE F == Flattened(s)
    <2>6. F[1] = s[1] /\ \A i \in 2 .. n : F[i] = F[i - 1] \o s[i]
      <3>1. 1 \in 1 .. n /\ \A i \in 2 .. n : i \in 1 .. n /\ i # 1
        BY <1>1, <1>5
      <3>2. \A i \in 1 .. n : F[i] = IF i = 1 THEN s[i] ELSE F[i - 1] \o s[i]
        BY <2>5
      <3>. HIDE DEF F, n
      <3>. QED
        BY <3>1, <3>2
    <2>7. FlattenSeq(s) = F[n]
      <3>1. FlattenSeq(s) = IF Len(s) = 0 THEN s ELSE Flattened(s)[Len(s)]
        BY Zenon DEF FlattenSeq, Flattened
      <3>. QED
        BY <3>1, <1>5
    <2>. HIDE DEF F
    <2>. DEFINE T == {k \in Nat : k + 1 \in 1 .. n =>
                       /\ F[k + 1] \in Seq(X) /\ Len(F[k + 1]) = Sums(len)[1 .. k + 1]
                       /\ Range(F[k + 1]) = UNION {Range(s[i]) : i \in 1 .. k + 1}}
    <2>8. ASSUME NEW i \in 1 .. n PROVE Sums(len)[1 .. i] = Len(s[i]) + Sums(len)[1 .. i - 1]
      <3>1. len \in [1 .. n -> Nat] /\ len[i] = Len(s[i])
        BY <1>1
      <3>. HIDE DEF len, n
      <3>. QED
        BY <3>1, <1>1, SumsUpTo
    <2>9. 0 \in T
      <3>1. 1 .. 0 = {} /\ 1 \in 1 .. n /\ 1 .. 1 = {1}
        BY <1>1, <1>5
      <3>2. Sums(len)[1 .. 1] = Len(s[1]) + Sums(len)[1 .. 1 - 1]
        BY <3>1, <2>8
      <3>. HIDE DEF len
      <3>3. Sums(len)[1 .. 1] = Len(s[1])
        BY <3>1, <3>2, <1>1, <1>3
      <3>4. UNION {Range(s[i]) : i \in {1}} = Range(s[1])
        OBVIOUS
      <3>5. F[1] \in Seq(X) /\ Len(F[1]) = Sums(len)[1 .. 1] /\ Range(F[1]) = UNION {Range(s[i]) : i \in 1 .. 1}
        BY <2>6, <3>1, <3>3, <3>4, <1>1
      <3>6. 0 + 1 = 1
        OBVIOUS
      <3>. HIDE DEF F, n
      <3>. QED
        BY <3>5, <3>6
    <2>10. ASSUME NEW k \in Nat, k \in T PROVE k + 1 \in T
      <3>. SUFFICES ASSUME (k + 1) + 1 \in 1 .. n
                    PROVE  /\ F[(k + 1) + 1] \in Seq(X) /\ Len(F[(k + 1) + 1]) = Sums(len)[1 .. (k + 1) + 1]
                           /\ Range(F[(k + 1) + 1]) = UNION {Range(s[i]) : i \in 1 .. (k + 1) + 1}
        OBVIOUS
      <3>. DEFINE a == F[k + 1] i == (k + 1) + 1
      <3>1. k + 1 \in 1 .. n /\ i \in 2 .. n /\ i - 1 = k + 1 /\ i \in 1 .. n
        BY <1>1
      <3>2. a \in Seq(X) /\ Len(a) = Sums(len)[1 .. k + 1] /\ Range(a) = UNION {Range(s[j]) : j \in 1 .. k + 1}
        BY <2>10, <3>1
      <3>3. F[i] = a \o s[i] /\ s[i] \in Seq(X)
        BY <2>6, <3>1, <1>1
      <3>4. a \o s[i] \in Seq(X) /\ Len(a \o s[i]) = Len(a) + Len(s[i])
        BY <3>2, <3>3, ConcatProperties
      <3>5. Range(a \o s[i]) = Range(a) \cup Range(s[i])
        BY <3>2, <3>3, RangeConcatenation
      <3>6. 1 .. i = (1 .. k + 1) \cup {i}
        BY <3>1
      <3>7. UNION {Range(s[j]) : j \in (1 .. k + 1) \cup {i}} =
              Range(s[i]) \cup (UNION {Range(s[j]) : j \in 1 .. k + 1})
        <4>. DEFINE K == 1 .. k + 1
        <4>1. UNION {Range(s[j]) : j \in K \cup {i}} = Range(s[i]) \cup (UNION {Range(s[j]) : j \in K})
          <5>. HIDE DEF K, i
          <5>1. ASSUME NEW x PROVE x \in UNION {Range(s[j]) : j \in K \cup {i}} <=> \E j \in K \cup {i} : x \in Range(s[j])
            OBVIOUS
          <5>2. ASSUME NEW x PROVE x \in UNION {Range(s[j]) : j \in K} <=> \E j \in K : x \in Range(s[j])
            OBVIOUS
          <5>3. ASSUME NEW x PROVE x \in UNION {Range(s[j]) : j \in K \cup {i}} <=>
                                     x \in Range(s[i]) \cup (UNION {Range(s[j]) : j \in K})
            <6>1. x \in Range(s[i]) => x \in UNION {Range(s[j]) : j \in K \cup {i}}
              BY <5>1
            <6>2. x \in UNION {Range(s[j]) : j \in K} => x \in UNION {Range(s[j]) : j \in K \cup {i}}
              BY <5>1, <5>2
            <6>3. ASSUME x \in UNION {Range(s[j]) : j \in K \cup {i}}
                  PROVE  x \in UNION {Range(s[j]) : j \in K} \/ x \in Range(s[i])
              <7>1. PICK j \in K \cup {i} : x \in Range(s[j])
                BY <5>1, <6>3
              <7>2. CASE j = i
                BY <7>1, <7>2
              <7>3. CASE j \in K
                BY <7>1, <7>3, <5>2
              <7>. QED
                BY <7>2, <7>3
            <6>. QED
              BY <6>1, <6>2, <6>3
          <5>. QED
            BY <5>3
        <4>. QED
          BY <4>1
      <3>8. Sums(len)[1 .. i] = Len(s[i]) + Sums(len)[1 .. k + 1]
        BY <2>8, <3>1
      <3>9. Len(s[i]) \in Nat /\ Len(a) \in Nat
        BY <3>2, <3>3
      <3>. HIDE DEF a, i, len
      <3>10. F[i] \in Seq(X) /\ Len(F[i]) = Sums(len)[1 .. i]
        BY <3>2, <3>3, <3>4, <3>8, <3>9
      <3>11. Range(F[i]) = UNION {Range(s[j]) : j \in 1 .. i}
        BY <3>2, <3>3, <3>5, <3>6, <3>7
      <3>. QED
        BY <3>10, <3>11 DEF i
    <2>11. n - 1 \in T
      <3>. HIDE DEF T
      <3>1. Nat \subseteq T
        BY <2>9, <2>10, AscentOfNat
      <3>. QED
        BY <3>1, <1>1, <1>5
    <2>12. (n - 1) + 1 = n /\ n \in 1 .. n
      BY <1>1, <1>5
    <2>. HIDE DEF len, n
    <2>13. F[n] \in Seq(X) /\ Len(F[n]) = Sums(len)[1 .. n] /\ Range(F[n]) = UNION {Range(s[i]) : i \in 1 .. n}
      BY <2>11, <2>12
    <2>14. [i \in DOMAIN s |-> Len(s[i])] = len
      BY <1>1 DEF len
    <2>. QED
      BY <2>7, <2>13, <2>14, <1>1, <1>3
  <1>. QED
    BY <1>4, <1>5

FirstAre(X, f, k, s) ==
  /\ f \in Seq(X) /\ Len(f) = IF Len(s) <= k THEN Len(s) ELSE k
  /\ \A i \in 1 .. Len(f) : f[i] = s[i]
  /\ Len(s) <= k => f = s

\* The first k of a sequence.
LEMMA FirstOfIs ==
  ASSUME NEW X, NEW s \in Seq(X), NEW k \in Nat
  PROVE  FirstAre(X, FirstOf(k, s), k, s)
  <1>. DEFINE m == Min({k, Len(s)})
  <1>1. Len(s) \in Nat
    OBVIOUS
  <1>2. m = IF Len(s) <= k THEN Len(s) ELSE k
    <2>1. \E x \in {k, Len(s)} : \A y \in {k, Len(s)} : x <= y
      BY <1>1
    <2>2. m \in {k, Len(s)} /\ \A y \in {k, Len(s)} : m <= y
      BY <2>1 DEF Min
    <2>. QED
      BY <2>2, <1>1
  <1>. HIDE DEF m
  <1>3. FirstOf(k, s) = SubSeq(s, 1, m)
    BY DEF FirstOf, m
  <1>4. m \in Nat /\ m <= Len(s)
    BY <1>1, <1>2
  <1>5. SubSeq(s, 1, m) \in Seq(X) /\ Len(SubSeq(s, 1, m)) = m /\ \A i \in 1 .. m : SubSeq(s, 1, m)[i] = s[i]
    BY <1>1, <1>4
  <1>6. m = Len(s) => SubSeq(s, 1, m) = s
    BY <1>5
  <1>. QED
    BY <1>2, <1>3, <1>4, <1>5, <1>6 DEF FirstAre

-----------------------------------------------------------------------------
\* The picks of one scenario of each branch.

\* A number is what its quotient and remainder make.
LEMMA Split ==
  ASSUME NEW b \in Nat, NEW x \in Nat, NEW y \in 0 .. b - 1
  PROVE  (x * b + y) \div b = x /\ (x * b + y) % b = y
  OBVIOUS

\* The place of a pair, split into the places of its members.
LEMMA SplitWithin ==
  ASSUME NEW a \in Nat, NEW b \in Nat, NEW q \in 1 .. a * b
  PROVE  ((q - 1) \div b) + 1 \in 1 .. a /\ ((q - 1) % b) + 1 \in 1 .. b
  OBVIOUS

\* The places of two members, joined into that of their pair.
LEMMA JoinWithin ==
  ASSUME NEW a \in Nat, NEW b \in Nat, NEW x \in 0 .. a - 1, NEW y \in 0 .. b - 1
  PROVE  x * b + y + 1 \in 1 .. a * b
  OBVIOUS

\* A product is no less than its factor.
LEMMA TimesGrows ==
  ASSUME NEW a \in Nat, NEW b \in Nat, b # 0
  PROVE  a <= a * b /\ a * b \in Nat
  OBVIOUS

Paired(X, pairs, a, b) ==
  /\ pairs \in Seq(Seq(X)) /\ Len(pairs) = Len(a) * Len(b)
  /\ \A q \in 1 .. Len(pairs) : \E x \in 1 .. Len(a), y \in 1 .. Len(b) :
       pairs[q] = Append(a[x], b[y])
  /\ \A x \in 1 .. Len(a), y \in 1 .. Len(b) : \E q \in 1 .. Len(pairs) :
       pairs[q] = Append(a[x], b[y])

\* Every member of one sequence is paired with every member of the other.
LEMMA PairsOf ==
  ASSUME NEW X, NEW a \in Seq(Seq(X)), NEW b \in Seq(X)
  PROVE  Paired(X, Pairs(a, b), a, b)
  <1>. DEFINE A == Len(a)
              B == Len(b)
              row(q) == ((q - 1) \div B) + 1
              col(q) == ((q - 1) % B) + 1
              pairs == Pairs(a, b)
  <1>1. A \in Nat /\ B \in Nat
    OBVIOUS
  <1>2. A * B \in Nat
    BY <1>1, NatTimes
  <1>3. pairs = [q \in 1 .. A * B |-> Append(a[row(q)], b[col(q)])]
    BY DEF Pairs
  <1>. HIDE DEF pairs
  <1>4. ASSUME NEW q \in 1 .. A * B PROVE row(q) \in 1 .. A /\ col(q) \in 1 .. B
    <2>. HIDE DEF A, B
    <2>. QED
      BY <1>1, SplitWithin
  <1>5. ASSUME NEW x \in 1 .. A, NEW y \in 1 .. B
        PROVE  \E q \in 1 .. A * B : row(q) = x /\ col(q) = y
    <2>. HIDE DEF A, B
    <2>1. x - 1 \in 0 .. A - 1 /\ y - 1 \in 0 .. B - 1 /\ x - 1 \in Nat
      BY <1>1
    <2>. DEFINE q == (x - 1) * B + (y - 1) + 1
    <2>2. q \in 1 .. A * B
      BY <1>1, <2>1, JoinWithin
    <2>3. (x - 1) * B \in Nat
      BY <1>1, <2>1, NatTimes
    <2>4. q - 1 = (x - 1) * B + (y - 1)
      BY <2>1, <2>3
    <2>. HIDE DEF q
    <2>5. (q - 1) \div B = x - 1 /\ (q - 1) % B = y - 1
      <3>1. PICK u, w : u = x - 1 /\ w = y - 1
        OBVIOUS
      <3>2. u \in Nat /\ w \in 0 .. B - 1 /\ q - 1 = u * B + w
        BY <2>1, <2>4, <3>1
      <3>3. (u * B + w) \div B = u /\ (u * B + w) % B = w
        BY <1>1, <3>2, Split
      <3>. QED
        BY <3>1, <3>2, <3>3
    <2>. QED
      BY <2>1, <2>2, <2>5
  <1>. HIDE DEF row, col, A, B
  <1>6. \A x \in 1 .. A, y \in 1 .. B : a[x] \in Seq(X) /\ b[y] \in X /\ Append(a[x], b[y]) \in Seq(X)
    BY DEF A, B
  <1>7. pairs \in Seq(Seq(X)) /\ Len(pairs) = A * B
    <2>1. \A q \in 1 .. A * B : Append(a[row(q)], b[col(q)]) \in Seq(X)
      BY <1>4, <1>6
    <2>. DEFINE N == A * B
    <2>. HIDE DEF N
    <2>2. N \in Nat /\ pairs = [q \in 1 .. N |-> Append(a[row(q)], b[col(q)])]
          /\ \A q \in 1 .. N : Append(a[row(q)], b[col(q)]) \in Seq(X)
      BY <1>2, <1>3, <2>1 DEF N
    <2>3. pairs \in Seq(Seq(X)) /\ Len(pairs) = N
      BY <2>2
    <2>. QED
      BY <2>3 DEF N
  <1>8. \A q \in 1 .. Len(pairs) : \E x \in 1 .. A, y \in 1 .. B : pairs[q] = Append(a[x], b[y])
    BY <1>3, <1>4, <1>7
  <1>9. \A x \in 1 .. A, y \in 1 .. B : \E q \in 1 .. Len(pairs) : pairs[q] = Append(a[x], b[y])
    <2>. SUFFICES ASSUME NEW x \in 1 .. A, NEW y \in 1 .. B
                  PROVE  \E q \in 1 .. Len(pairs) : pairs[q] = Append(a[x], b[y])
      OBVIOUS
    <2>1. PICK q \in 1 .. A * B : row(q) = x /\ col(q) = y
      BY <1>5
    <2>. QED
      BY <1>3, <1>7, <2>1
  <1>. QED
    BY <1>7, <1>8, <1>9 DEF pairs, A, B, Paired

PicksFrom(results, p) ==
  CHOOSE picks : picks = [k \in 0 .. Len(results) |->
    IF k = 0 THEN << <<>> >>
    ELSE FirstOf(Budget(p) + 1, Pairs(picks[k - 1], results[k].scenarios))]

PickedFrom(X, results, p, P) ==
  /\ Picks(results, p) = P[Len(results)]
  /\ P[0] = << <<>> >>
  /\ \A k \in 0 .. Len(results) : P[k] \in Seq(Seq(X))
  /\ \A k \in 1 .. Len(results) :
       P[k] = FirstOf(Budget(p) + 1, Pairs(P[k - 1], results[k].scenarios))

\* The picks, one branch at a time.
LEMMA PicksOf ==
  ASSUME NEW X, NEW results, Len(results) \in Nat,
         \A k \in 1 .. Len(results) : results[k].scenarios \in Seq(X),
         NEW p, Budget(p) \in Nat
  PROVE  PickedFrom(X, results, p, PicksFrom(results, p))
  <1>. DEFINE n == Len(results)
              A == 0 .. n
              V == Seq(Seq(X))
              K == Budget(p) + 1
              rank == [k \in A |-> k]
              one == << <<>> >>
              next(k, a) == FirstOf(K, Pairs(a, results[k].scenarios))
              B == [k \in A |-> [f \in [A -> V] |-> IF k = 0 THEN one ELSE next(k, f[k - 1])]]
  <1>1. K \in Nat /\ n \in Nat
    OBVIOUS
  <1>2. one \in V
    OBVIOUS
  <1>. HIDE DEF K, n
  <1>3. ASSUME NEW k \in 1 .. n, NEW a \in V PROVE next(k, a) \in V
    <2>1. results[k].scenarios \in Seq(X)
      BY DEF n
    <2>2. Pairs(a, results[k].scenarios) \in V
      BY <2>1, PairsOf DEF Paired
    <2>. QED
      BY <2>2, <1>1, FirstOfIs DEF FirstAre
  <1>. HIDE DEF V, one, next
  <1>4. Founded(A, V, rank, B)
    <2>1. [k \in A |-> one] \in [A -> V] /\ rank \in [A -> Nat]
      BY <1>1, <1>2
    <2>2. \A k \in A : k # 0 => k \in 1 .. n /\ k - 1 \in A /\ rank[k - 1] < rank[k]
      BY <1>1
    <2>3. B \in [A -> [[A -> V] -> V]]
      <3>1. \A k \in A : \A f \in [A -> V] : (IF k = 0 THEN one ELSE next(k, f[k - 1])) \in V
        BY <2>2, <1>2, <1>3
      <3>. HIDE DEF A, next
      <3>. QED
        BY <3>1
    <2>4. ASSUME NEW i \in A, NEW f \in [A -> V], NEW g \in [A -> V],
                 \A b \in A : rank[b] < rank[i] => f[b] = g[b]
          PROVE  B[i][f] = B[i][g]
      <3>1. i # 0 => f[i - 1] = g[i - 1]
        BY <2>2, <2>4
      <3>. QED
        BY <3>1
    <2>. HIDE DEF A, rank, B
    <2>. QED
      BY <2>1, <2>3, <2>4 DEF Founded
  <1>5. PICK g \in [A -> V] : \A k \in A : g[k] = B[k][g]
    <2>. HIDE DEF A, rank, B
    <2>. QED
      BY <1>4, Recursion
  <1>. DEFINE Is(picks) == picks = [k \in 0 .. Len(results) |->
                 IF k = 0 THEN << <<>> >>
                 ELSE FirstOf(Budget(p) + 1, Pairs(picks[k - 1], results[k].scenarios))]
              P == PicksFrom(results, p)
  <1>6. Is(g)
    BY <1>5 DEF one, next, K, n
  <1>7. P = CHOOSE picks : Is(picks)
    BY Zenon DEF PicksFrom
  <1>8. Is(P)
    <2>. HIDE DEF Is, P
    <2>. QED
      BY <1>6, <1>7
  <1>9. Picks(results, p) = P[Len(results)]
    BY Zenon DEF Picks, PicksFrom
  <1>. HIDE DEF P
  <1>10. P[0] = one /\ \A k \in 1 .. n : P[k] = next(k, P[k - 1])
    <2>1. 0 \in 0 .. n /\ \A k \in 1 .. n : k \in 0 .. n /\ k # 0
      BY <1>1
    <2>2. P[0] = one
      BY <1>8, <2>1 DEF one, n
    <2>3. ASSUME NEW k \in 1 .. n PROVE P[k] = next(k, P[k - 1])
      BY <1>8, <2>1 DEF next, n, K
    <2>. QED
      BY <2>2, <2>3
  <1>11. \A k \in 0 .. n : P[k] \in V
    <2>. DEFINE T == {k \in Nat : k \in 0 .. n => P[k] \in V}
    <2>1. 0 \in T
      BY <1>2, <1>10
    <2>2. ASSUME NEW k \in Nat, k \in T PROVE k + 1 \in T
      <3>. SUFFICES ASSUME k + 1 \in 0 .. n PROVE P[k + 1] \in V
        OBVIOUS
      <3>1. k + 1 \in 1 .. n /\ (k + 1) - 1 = k /\ k \in 0 .. n
        BY <1>1
      <3>2. P[k] \in V
        BY <2>2, <3>1
      <3>. QED
        BY <3>1, <3>2, <1>3, <1>10
    <2>. HIDE DEF T
    <2>3. Nat \subseteq T
      BY <2>1, <2>2, AscentOfNat
    <2>. QED
      BY <2>3, <1>1 DEF T
  <1>. QED
    BY <1>9, <1>10, <1>11 DEF P, one, next, n, K, V, PickedFrom

\* What is picked is one scenario of each of the first k branches.
PickOf(results, k, c) ==
  Len(c) = k /\ \A j \in 1 .. k : c[j] \in Range(results[j].scenarios)

\* A pick of k branches and a scenario of the next is one of k + 1.
LEMMA PickGrows ==
  ASSUME NEW X, NEW results, NEW k \in Nat, NEW c \in Seq(X), NEW s \in X,
         PickOf(results, k, c), s \in Range(results[k + 1].scenarios)
  PROVE  Append(c, s) \in Seq(X) /\ PickOf(results, k + 1, Append(c, s))
  <1>1. Append(c, s) \in Seq(X) /\ Len(Append(c, s)) = k + 1
    BY DEF PickOf
  <1>2. \A j \in 1 .. k : Append(c, s)[j] = c[j]
    BY DEF PickOf
  <1>3. Append(c, s)[k + 1] = s
    BY DEF PickOf
  <1>4. \A j \in 1 .. k + 1 : j \in 1 .. k \/ j = k + 1
    OBVIOUS
  <1>. QED
    BY <1>1, <1>2, <1>3, <1>4 DEF PickOf

\* And the other way round.
LEMMA PickShrinks ==
  ASSUME NEW X, NEW results, NEW k \in Nat, NEW c \in Seq(X), PickOf(results, k + 1, c)
  PROVE  \E b \in Seq(X) : /\ PickOf(results, k, b) /\ c = Append(b, c[k + 1])
                           /\ c[k + 1] \in Range(results[k + 1].scenarios)
  <1>. DEFINE b == [j \in 1 .. k |-> c[j]]
  <1>1. Len(c) = k + 1 /\ \A j \in 1 .. k + 1 : c[j] \in X
    BY DEF PickOf
  <1>2. b \in Seq(X) /\ Len(b) = k /\ \A j \in 1 .. k : b[j] = c[j]
    BY <1>1
  <1>. HIDE DEF b
  <1>3. PickOf(results, k, b)
    BY <1>2 DEF PickOf
  <1>4. c[k + 1] \in X /\ k + 1 \in 1 .. k + 1
    BY <1>1
  <1>5. c = Append(b, c[k + 1])
    <2>. DEFINE d == Append(b, c[k + 1])
    <2>1. d \in Seq(X) /\ Len(d) = k + 1
      BY <1>2, <1>4
    <2>2. \A j \in 1 .. k : d[j] = c[j]
      BY <1>2, <1>4
    <2>3. d[k + 1] = c[k + 1]
      BY <1>2, <1>4
    <2>4. \A j \in 1 .. k + 1 : d[j] = c[j]
      <3>1. \A j \in 1 .. k + 1 : j \in 1 .. k \/ j = k + 1
        OBVIOUS
      <3>. HIDE DEF d
      <3>. QED
        BY <2>2, <2>3, <3>1
    <2>. HIDE DEF d
    <2>5. c = d
      BY <1>1, <2>1, <2>4
    <2>. QED
      BY <2>5 DEF d
  <1>. QED
    BY <1>2, <1>3, <1>4, <1>5 DEF PickOf

\* With a scenario of every branch there are as many picks as the product says, up
\* to one more than the budget; within the budget every pick is there.
PickedAll(X, results, p) ==
  LET picks == Picks(results, p)
      n     == Len(results)
      ways  == Multiplied([k \in 1 .. n |-> Len(results[k].scenarios)])
  IN  /\ picks \in Seq(Seq(X)) /\ ways \in Nat
      /\ Len(picks) = IF ways <= Budget(p) + 1 THEN ways ELSE Budget(p) + 1
      /\ \A q \in 1 .. Len(picks) : PickOf(results, n, picks[q])
      /\ Len(picks) <= Budget(p) =>
           \A c \in Seq(X) : PickOf(results, n, c) => \E q \in 1 .. Len(picks) : picks[q] = c

\* The picks are these, for every number of branches.
LEMMA PicksAre ==
  ASSUME NEW X, NEW results, Len(results) \in Nat,
         \A k \in 1 .. Len(results) : results[k].scenarios \in Seq(X) /\ results[k].scenarios # <<>>,
         NEW p, Budget(p) \in Nat
  PROVE  PickedAll(X, results, p)
  <1>. DEFINE n == Len(results)
              K == Budget(p) + 1
              size == [k \in 1 .. n |-> Len(results[k].scenarios)]
              P == PicksFrom(results, p)
              ways(k) == Prods(size)[1 .. k]
              All(k) == \A c \in Seq(X) : PickOf(results, k, c) => \E q \in 1 .. Len(P[k]) : P[k][q] = c
              Good(k) == /\ ways(k) \in Nat
                         /\ Len(P[k]) = IF ways(k) <= K THEN ways(k) ELSE K
                         /\ \A q \in 1 .. Len(P[k]) : PickOf(results, k, P[k][q])
                         /\ Len(P[k]) <= Budget(p) => All(k)
  <1>1. n \in Nat /\ K \in Nat /\ K = Budget(p) + 1 /\ K > 0
    OBVIOUS
  <1>2. \A k \in 1 .. n : size[k] = Len(results[k].scenarios) /\ size[k] \in Nat /\ size[k] # 0
    BY DEF n
  <1>3. size \in [1 .. n -> Nat]
    BY <1>2
  <1>4. /\ Picks(results, p) = P[n] /\ P[0] = << <<>> >>
        /\ \A k \in 0 .. n : P[k] \in Seq(Seq(X))
        /\ \A k \in 1 .. n : P[k] = FirstOf(K, Pairs(P[k - 1], results[k].scenarios))
    <2>1. \A k \in 1 .. Len(results) : results[k].scenarios \in Seq(X)
      OBVIOUS
    <2>2. PickedFrom(X, results, p, P)
      BY <2>1, PicksOf
    <2>. HIDE DEF P
    <2>. QED
      BY <2>2 DEF PickedFrom
  <1>. HIDE DEF P, K, size
  <1>5. /\ ways(0) = 1 /\ Multiplied(size) = ways(n)
        /\ \A k \in 1 .. n : ways(k) \in Nat /\ ways(k - 1) \in Nat /\ ways(k) = size[k] * ways(k - 1)
    <2>. HIDE DEF n
    <2>. QED
      BY <1>1, <1>3, ProductsUpTo
  <1>. HIDE DEF ways
  <1>6. Good(0)
    <2>1. Len(P[0]) = 1 /\ P[0][1] = <<>>
      BY <1>4
    <2>2. PickOf(results, 0, <<>>)
      BY DEF PickOf
    <2>3. All(0)
      <3>1. \A c \in Seq(X) : PickOf(results, 0, c) => c = <<>>
        BY DEF PickOf
      <3>. QED
        BY <2>1, <3>1
    <2>. HIDE DEF All
    <2>4. \A q \in 1 .. Len(P[0]) : q = 1
      BY <2>1
    <2>. QED
      BY <1>1, <1>5, <2>1, <2>2, <2>3, <2>4
  <1>7. ASSUME NEW k \in Nat, k + 1 \in 1 .. n, Good(k) PROVE Good(k + 1)
    <2>. DEFINE a == P[k]
                b == results[k + 1].scenarios
                pairs == Pairs(a, b)
                d == P[k + 1]
    <2>1. a \in Seq(Seq(X)) /\ b \in Seq(X) /\ Len(b) = size[k + 1] /\ size[k + 1] \in Nat /\ size[k + 1] # 0
      <3>1. k \in 0 .. n
        BY <1>7, <1>1
      <3>. QED
        BY <1>7, <1>2, <1>4, <3>1
    <2>2. d = FirstOf(K, pairs)
      <3>1. (k + 1) - 1 = k
        OBVIOUS
      <3>. QED
        BY <1>4, <1>7, <3>1
    <2>3. ways(k + 1) = size[k + 1] * ways(k) /\ ways(k + 1) \in Nat /\ ways(k) \in Nat
      <3>1. (k + 1) - 1 = k
        OBVIOUS
      <3>. QED
        BY <1>5, <1>7, <3>1
    <2>4. /\ Len(a) = IF ways(k) <= K THEN ways(k) ELSE K
          /\ \A q \in 1 .. Len(a) : PickOf(results, k, a[q])
          /\ Len(a) <= Budget(p) => All(k)
      BY <1>7
    <2>. HIDE DEF a, b, d, All
    <2>5. /\ pairs \in Seq(Seq(X)) /\ Len(pairs) = Len(a) * Len(b)
          /\ \A q \in 1 .. Len(pairs) : \E x \in 1 .. Len(a), y \in 1 .. Len(b) :
               pairs[q] = Append(a[x], b[y])
          /\ \A x \in 1 .. Len(a), y \in 1 .. Len(b) : \E q \in 1 .. Len(pairs) :
               pairs[q] = Append(a[x], b[y])
      <3>1. Paired(X, pairs, a, b)
        BY <2>1, PairsOf
      <3>. HIDE DEF pairs
      <3>. QED
        BY <3>1 DEF Paired
    <2>. HIDE DEF pairs
    <2>6. /\ d \in Seq(Seq(X)) /\ Len(d) = IF Len(pairs) <= K THEN Len(pairs) ELSE K
          /\ \A i \in 1 .. Len(d) : d[i] = pairs[i]
          /\ Len(pairs) <= K => d = pairs
      <3>1. pairs \in Seq(Seq(X))
        BY <2>5
      <3>. QED
        BY <1>1, <2>2, <3>1, FirstOfIs DEF FirstAre
    <2>7. Len(a) \in Nat /\ Len(b) \in Nat /\ Len(pairs) \in Nat /\ Len(d) \in Nat
      BY <2>1, <2>5, <2>6
    <2>8. Len(d) = IF ways(k + 1) <= K THEN ways(k + 1) ELSE K
      <3>. DEFINE u == ways(k) v == size[k + 1] l == Len(a)
      <3>1. u \in Nat /\ v \in Nat /\ v # 0 /\ l \in Nat /\ l = (IF u <= K THEN u ELSE K)
        BY <2>1, <2>3, <2>4, <2>7
      <3>2. Len(pairs) = l * v /\ ways(k + 1) = v * u
        BY <2>1, <2>3, <2>5
      <3>. HIDE DEF u, v, l
      <3>3. u <= u * v /\ l <= l * v /\ u * v \in Nat /\ l * v \in Nat
        BY <3>1, TimesGrows
      <3>4. v * u = u * v
        BY <3>1
      <3>. DEFINE uv == u * v lv == l * v
      <3>5. (u <= K => lv = uv) /\ (u > K => lv >= K /\ uv >= K /\ uv > K)
        BY <1>1, <3>1, <3>3
      <3>. HIDE DEF uv, lv
      <3>6. uv \in Nat /\ lv \in Nat /\ Len(pairs) = lv /\ ways(k + 1) = uv
        BY <3>2, <3>3, <3>4 DEF uv, lv
      <3>. QED
        BY <1>1, <2>6, <3>1, <3>5, <3>6
    <2>9. \A x \in 1 .. Len(a), y \in 1 .. Len(b) : PickOf(results, k + 1, Append(a[x], b[y]))
      <3>. SUFFICES ASSUME NEW x \in 1 .. Len(a), NEW y \in 1 .. Len(b)
                    PROVE  PickOf(results, k + 1, Append(a[x], b[y]))
        OBVIOUS
      <3>1. a[x] \in Seq(X) /\ b[y] \in X /\ b[y] \in Range(b)
        BY <2>1 DEF Range
      <3>2. PickOf(results, k, a[x])
        BY <2>4
      <3>3. b[y] \in Range(results[k + 1].scenarios)
        BY <3>1 DEF b
      <3>. QED
        BY <3>1, <3>2, <3>3, PickGrows
    <2>10. \A q \in 1 .. Len(d) : PickOf(results, k + 1, d[q])
      <3>1. \A q \in 1 .. Len(d) : q \in 1 .. Len(pairs)
        BY <2>6, <2>7, <1>1
      <3>2. ASSUME NEW q \in 1 .. Len(d) PROVE PickOf(results, k + 1, d[q])
        <4>1. PICK x \in 1 .. Len(a), y \in 1 .. Len(b) : pairs[q] = Append(a[x], b[y])
          BY <2>5, <3>1
        <4>2. d[q] = Append(a[x], b[y])
          BY <2>6, <4>1
        <4>. QED
          BY <2>9, <4>2
      <3>. QED
        BY <3>2
    <2>11. ASSUME Len(d) <= Budget(p) PROVE All(k + 1)
      <3>1. Len(pairs) <= Budget(p) /\ d = pairs
        BY <1>1, <2>6, <2>7, <2>11
      <3>2. Len(a) <= Len(a) * Len(b)
        BY <2>1, <2>7, TimesGrows
      <3>3. Len(a) <= Budget(p)
        BY <2>5, <2>7, <3>1, <3>2
      <3>4. All(k)
        BY <2>4, <3>3
      <3>5. ASSUME NEW c \in Seq(X), PickOf(results, k + 1, c)
            PROVE  \E q \in 1 .. Len(d) : d[q] = c
        <4>1. PICK f \in Seq(X) : /\ PickOf(results, k, f) /\ c = Append(f, c[k + 1])
                                  /\ c[k + 1] \in Range(results[k + 1].scenarios)
          BY <3>5, PickShrinks
        <4>2. PICK x \in 1 .. Len(a) : a[x] = f
          BY <3>4, <4>1 DEF All, a
        <4>3. PICK y \in 1 .. Len(b) : b[y] = c[k + 1]
          <5>1. c[k + 1] \in Range(b)
            BY <4>1 DEF b
          <5>2. DOMAIN b = 1 .. Len(b)
            BY <2>1
          <5>. QED
            BY <5>1, <5>2 DEF Range
        <4>4. PICK q \in 1 .. Len(pairs) : pairs[q] = Append(a[x], b[y])
          BY <2>5
        <4>5. pairs[q] = c
          <5>. HIDE DEF PickOf
          <5>. QED
            BY <4>1, <4>2, <4>3, <4>4
        <4>. QED
          BY <3>1, <4>4, <4>5
      <3>. QED
        BY <3>5 DEF All, d
    <2>. QED
      BY <2>3, <2>8, <2>10, <2>11 DEF d
  <1>. HIDE DEF Good
  <1>8. Good(n)
    <2>. DEFINE T == {k \in Nat : k \in 0 .. n => Good(k)}
    <2>1. 0 \in T
      BY <1>6
    <2>2. ASSUME NEW k \in Nat, k \in T PROVE k + 1 \in T
      <3>1. k + 1 \in 0 .. n => k \in 0 .. n /\ k + 1 \in 1 .. n
        BY <1>1
      <3>. QED
        BY <1>7, <2>2, <3>1
    <2>. HIDE DEF T
    <2>3. Nat \subseteq T
      BY <2>1, <2>2, AscentOfNat
    <2>. QED
      BY <2>3, <1>1 DEF T
  <1>9. P[n] \in Seq(Seq(X))
    BY <1>1, <1>4
  <1>. QED
    BY <1>1, <1>4, <1>5, <1>8, <1>9 DEF Good, size, K, PickedAll

-----------------------------------------------------------------------------
\* The result of every node, of adversaries alone.

Scenes  == [leaves : SUBSET tree.nodes, values : [DOMAIN rules -> Number],
            random : {FALSE}, complete : BOOLEAN]
Outcomes == [scenarios : Seq(Scenes), scalar : [DOMAIN rules -> Number], complete : BOOLEAN]

\* What the branches of a node give it, in order, and what it makes of that.
KidResults(value, n) ==
  LET kids == Kids(tree, n) IN
  [i \in DOMAIN kids |-> IF tree.edges[kids[i]].blocked THEN Blocked(rules) ELSE value[kids[i][2]]]
RawAt(n, results) ==
  IF \A q \in Out(tree, n) : Context(q) THEN Terminates(n, inputs[n], random[n], rules, profile)
  ELSE IF results = <<>> THEN Withheld(rules)
  ELSE Branches(results, CHOOSE g \in Gates(tree, n) : TRUE, random[n], rules, profile)

\* What the proofs use of the invariant.
LEMMA NumbersFacts ==
  ASSUME NumbersInv
  PROVE  /\ Sound(tree) /\ Drawn(tree) /\ Root \in tree.nodes /\ IsFiniteSet(DOMAIN rules)
         /\ profile.cap \in Nat /\ profile.cap # 0 /\ Budget(profile) = profile.cap
         /\ profile.impacts \subseteq DOMAIN rules /\ BuiltIn \subseteq DOMAIN rules
         /\ \A id \in DOMAIN rules : rules[id].default \in Number
         /\ \A n \in tree.nodes : /\ inputs[n] \in [DOMAIN inputs[n] -> Number]
                                  /\ DOMAIN inputs[n] \subseteq DOMAIN rules
  <1>1. Sound(tree) /\ Drawn(tree)
    BY DEF NumbersInv, Drawn, Valid, Proper, Sound
  <1>2. Root \in tree.nodes
    <2>1. Root \in {n \in tree.nodes : TypeOf[n] = "Loss"}
      BY DEF NumbersInv, Valid, Proper
    <2>. QED
      BY <2>1
  <1>3. profile \in Profile(profile.impacts) /\ profile.impacts \subseteq DOMAIN rules
    BY DEF NumbersInv, ValidProfile
  <1>4. profile.cap \in 1 .. 5000
    BY <1>3 DEF Profile
  <1>. QED
    <2>1. profile.cap \in Nat /\ profile.cap # 0 /\ Budget(profile) = profile.cap
      <3>1. \A c \in 1 .. 5000 : c \in Nat /\ c # 0
        OBVIOUS
      <3>2. Budget(profile) = profile.cap
        BY DEF Budget
      <3>. QED
        <4>1. PICK c \in 1 .. 5000 : c = profile.cap
          BY <1>4
        <4>2. c \in Nat /\ c # 0
          BY <3>1
        <4>. QED
          BY <3>2, <4>1, <4>2
    <2>2. IsFiniteSet(DOMAIN rules) /\ \A n \in tree.nodes : DOMAIN inputs[n] \subseteq DOMAIN rules
      BY DEF NumbersInv, AnalysisInv
    <2>3. /\ BuiltIn \subseteq DOMAIN rules /\ \A id \in DOMAIN rules : rules[id].default \in Number
          /\ \A n \in tree.nodes : inputs[n] \in [DOMAIN inputs[n] -> Number]
      BY DEF NumbersInv
    <2>. QED
      BY <1>1, <1>2, <1>3, <2>1, <2>2, <2>3

\* What is blocked is complete, what is withheld is not.
LEMMA SimpleOutcomes ==
  ASSUME NumbersInv
  PROVE  /\ Blocked(rules) \in Outcomes /\ Withheld(rules) \in Outcomes
         /\ Blocked(rules).scenarios = <<>> /\ Blocked(rules).complete = TRUE
         /\ Withheld(rules).complete = FALSE
  <1>1. Unknown(rules) \in [DOMAIN rules -> Number]
    BY DEF Unknown, Number
  <1>2. <<>> \in Seq(Scenes)
    OBVIOUS
  <1>. HIDE DEF Scenes
  <1>. QED
    BY <1>1, <1>2 DEF Blocked, Withheld, Outcomes

\* A terminal has a result.
LEMMA TerminatesTyped ==
  ASSUME NumbersInv, NEW n \in tree.nodes
  PROVE  Terminates(n, inputs[n], FALSE, rules, profile) \in Outcomes
  <1>. DEFINE input == inputs[n]
              raw == [id \in DOMAIN rules |->
                        IF id \in DOMAIN input /\ Known(input[id]) THEN input[id] ELSE rules[id].default]
              whole == \A id \in DOMAIN rules : Known(raw[id])
              scene == Scenario({n}, raw, FALSE, whole)
  <1>1. raw \in [DOMAIN rules -> Number]
    BY NumbersFacts
  <1>. HIDE DEF raw
  <1>2. scene \in Scenes
    BY <1>1 DEF Scenario, Scenes
  <1>3. whole \in BOOLEAN
    OBVIOUS
  <1>. HIDE DEF scene, whole
  <1>4. <<scene>> \in Seq(Scenes)
    BY <1>2
  <1>5. [scenarios |-> <<scene>>, scalar |-> raw, complete |-> whole] \in Outcomes
    BY <1>1, <1>3, <1>4 DEF Outcomes
  <1>6. \/ Terminates(n, input, FALSE, rules, profile) = Withheld(rules)
        \/ Terminates(n, input, FALSE, rules, profile) =
             [scenarios |-> <<scene>>, scalar |-> raw, complete |-> whole]
    BY DEF Terminates, scene, raw, whole
  <1>. QED
    BY <1>5, <1>6, SimpleOutcomes

\* The results of the branches, as a sequence.
IsResults(results) ==
  /\ Len(results) \in Nat /\ DOMAIN results = 1 .. Len(results)
  /\ \A i \in 1 .. Len(results) : results[i] \in Outcomes

\* Alternatives have scenarios.
LEMMA EitherTyped ==
  ASSUME NumbersInv, NEW results, IsResults(results)
  PROVE  Either(results, profile).scenarios \in Seq(Scenes) /\ Either(results, profile).whole \in BOOLEAN
  <1>. DEFINE s == [i \in DOMAIN results |-> results[i].scenarios]
              all == FlattenSeq(s)
  <1>1. \A i \in 1 .. Len(results) : results[i].scenarios \in Seq(Scenes)
    BY DEF IsResults, Outcomes
  <1>2. s \in Seq(Seq(Scenes))
    BY <1>1 DEF IsResults
  <1>. HIDE DEF s
  <1>3. all \in Seq(Scenes)
    BY <1>2, FlattenOf
  <1>4. FirstOf(Budget(profile), all) \in Seq(Scenes)
    BY <1>3, NumbersFacts, FirstOfIs DEF FirstAre
  <1>. QED
    BY <1>4 DEF Either, s

\* A scenario that is joined is one.
LEMMA JoinedTyped ==
  ASSUME NumbersInv, NEW pick \in Seq(Scenes), NEW gate
  PROVE  Joined(pick, gate, rules) \in Scenes
  <1>1. Len(pick) \in Nat /\ DOMAIN pick = 1 .. Len(pick) /\ IsFiniteSet(DOMAIN pick)
    BY UpTo
  <1>2. \A i \in DOMAIN pick : pick[i] \in Scenes
    OBVIOUS
  <1>3. \A i \in DOMAIN pick : pick[i].leaves \subseteq tree.nodes /\ pick[i].values \in [DOMAIN rules -> Number]
    BY <1>2 DEF Scenes
  <1>. DEFINE numbers(id) == [i \in DOMAIN pick |-> pick[i].values[id]]
              values == [id \in DOMAIN rules |-> Aggregate(numbers(id), rules[id][gate])]
              leaves == UNION {pick[i].leaves : i \in DOMAIN pick}
              whole == Joined(pick, gate, rules).complete
  <1>4. \A id \in DOMAIN rules : numbers(id) \in [DOMAIN pick -> Number]
    BY <1>3
  <1>5. \A id \in DOMAIN rules : Aggregate(numbers(id), rules[id][gate]) \in Number
    <2>. HIDE DEF numbers
    <2>. QED
      BY <1>1, <1>4, AggregateNumber
  <1>6. values \in [DOMAIN rules -> Number]
    BY <1>5
  <1>7. leaves \subseteq tree.nodes
    BY <1>3
  <1>8. whole \in BOOLEAN
    BY DEF Joined, Scenario
  <1>9. Joined(pick, gate, rules) = [leaves |-> leaves, values |-> values, random |-> FALSE, complete |-> whole]
    BY DEF Joined, Scenario
  <1>. HIDE DEF leaves, values, whole
  <1>. QED
    BY <1>6, <1>7, <1>8, <1>9 DEF Scenes

\* Branches that all succeed have scenarios.
LEMMA EveryTyped ==
  ASSUME NumbersInv, NEW results, IsResults(results), NEW gate
  PROVE  /\ Every(results, gate, rules, profile).scenarios \in Seq(Scenes)
         /\ Every(results, gate, rules, profile).whole \in BOOLEAN
  <1>. DEFINE picks == Picks(results, profile)
              kept == FirstOf(Budget(profile), picks)
              joined == [i \in DOMAIN kept |-> Joined(kept[i], gate, rules)]
  <1>1. \A i \in 1 .. Len(results) : results[i].scenarios \in Seq(Scenes)
    BY DEF IsResults, Outcomes
  <1>2. picks \in Seq(Seq(Scenes))
    <2>1. PickedFrom(Scenes, results, profile, PicksFrom(results, profile))
      <3>1. Len(results) \in Nat /\ Budget(profile) \in Nat
        BY NumbersFacts DEF IsResults
      <3>. QED
        BY <1>1, <3>1, PicksOf
    <2>2. Len(results) \in 0 .. Len(results)
      BY DEF IsResults
    <2>. QED
      BY <2>1, <2>2 DEF PickedFrom
  <1>. HIDE DEF picks
  <1>3. kept \in Seq(Seq(Scenes))
    BY <1>2, NumbersFacts, FirstOfIs DEF FirstAre
  <1>. HIDE DEF kept
  <1>4. \A i \in 1 .. Len(kept) : Joined(kept[i], gate, rules) \in Scenes
    BY <1>3, JoinedTyped
  <1>5. joined \in Seq(Scenes)
    <2>1. DOMAIN kept = 1 .. Len(kept) /\ Len(kept) \in Nat
      BY <1>3
    <2>. QED
      BY <1>4, <2>1
  <1>6. <<>> \in Seq(Scenes)
    OBVIOUS
  <1>. HIDE DEF joined
  <1>7. \/ Every(results, gate, rules, profile) = [scenarios |-> <<>>, whole |-> TRUE]
        \/ Every(results, gate, rules, profile) = [scenarios |-> joined, whole |-> Len(picks) <= Budget(profile)]
    BY DEF Every, joined, kept, picks
  <1>8. (Len(picks) <= Budget(profile)) \in BOOLEAN
    OBVIOUS
  <1>. HIDE DEF Scenes
  <1>9. CASE Every(results, gate, rules, profile) = [scenarios |-> <<>>, whole |-> TRUE]
    BY <1>6, <1>9
  <1>10. CASE Every(results, gate, rules, profile) = [scenarios |-> joined, whole |-> Len(picks) <= Budget(profile)]
    <2>. DEFINE fits == Len(picks) <= Budget(profile)
    <2>. HIDE DEF fits
    <2>1. fits \in BOOLEAN
      BY <1>8 DEF fits
    <2>2. Every(results, gate, rules, profile) = [scenarios |-> joined, whole |-> fits]
      BY <1>10 DEF fits
    <2>. QED
      BY <1>5, <2>1, <2>2
  <1>. QED
    BY <1>7, <1>9, <1>10

\* What each metric comes to on its own is a number or none.
LEMMA ScalarTyped ==
  ASSUME NumbersInv, NEW results, IsResults(results), NEW gate
  PROVE  Scalar(results, gate, rules) \in [DOMAIN rules -> Number]
  <1>. DEFINE open == {i \in DOMAIN results : Status(results[i]) # "blocked"}
              numbers(id) == [i \in open |-> results[i].scalar[id]]
  <1>1. IsFiniteSet(open)
    <2>1. IsFiniteSet(1 .. Len(results)) /\ open \subseteq 1 .. Len(results)
      BY UpTo DEF IsResults
    <2>. HIDE DEF open
    <2>. QED
      BY <2>1, FS_Subset
  <1>2. \A i \in open : results[i].scalar \in [DOMAIN rules -> Number]
    BY DEF IsResults, Outcomes
  <1>. HIDE DEF open
  <1>3. \A id \in DOMAIN rules : numbers(id) \in [open -> Number]
    BY <1>2
  <1>. HIDE DEF numbers
  <1>4. \A id \in DOMAIN rules : Aggregate(numbers(id), rules[id][gate]) \in Number
    BY <1>1, <1>3, AggregateNumber
  <1>5. Null \in Number
    BY DEF Number
  <1>6. Scalar(results, gate, rules) =
          [id \in DOMAIN rules |-> IF gate # "OR" /\ open # DOMAIN results THEN Null
                                   ELSE Aggregate(numbers(id), rules[id][gate])]
    BY DEF Scalar, open, numbers
  <1>. QED
    BY <1>4, <1>5, <1>6

\* A node with branches has a result.
LEMMA BranchesTyped ==
  ASSUME NumbersInv, NEW results, IsResults(results), NEW gate
  PROVE  Branches(results, gate, FALSE, rules, profile) \in Outcomes
  <1>. DEFINE act == IF gate = "OR" THEN Either(results, profile) ELSE Every(results, gate, rules, profile)
              whole == act.whole /\ \A i \in DOMAIN results : results[i].complete
  <1>1. act.scenarios \in Seq(Scenes) /\ act.whole \in BOOLEAN
    BY EitherTyped, EveryTyped
  <1>. HIDE DEF act
  <1>2. Branches(results, gate, FALSE, rules, profile) =
          [scenarios |-> act.scenarios, scalar |-> Scalar(results, gate, rules), complete |-> whole]
    BY DEF Branches, act
  <1>3. whole \in BOOLEAN
    OBVIOUS
  <1>. HIDE DEF whole
  <1>. QED
    <2>. DEFINE scalar == Scalar(results, gate, rules)
    <2>1. scalar \in [DOMAIN rules -> Number]
      BY ScalarTyped
    <2>. HIDE DEF scalar
    <2>2. [scenarios |-> act.scenarios, scalar |-> scalar, complete |-> whole] \in Outcomes
      BY <1>1, <1>3, <2>1 DEF Outcomes
    <2>. QED
      BY <1>2, <2>2 DEF scalar

\* Times keeps every scenario but for whether it is complete.
Retimed(s) == [s EXCEPT !.complete = @ /\ Timed(s, profile)]

\* Time changes nothing else of a result.
LEMMA RecurringTyped ==
  ASSUME NumbersInv, NEW r \in Outcomes
  PROVE  LET w == Recurring(r, profile) IN
         /\ w \in Outcomes /\ Len(w.scenarios) = Len(r.scenarios)
         /\ \A i \in 1 .. Len(r.scenarios) : w.scenarios[i] = Retimed(r.scenarios[i])
         /\ w.complete <=> r.complete /\ \A i \in 1 .. Len(r.scenarios) : w.scenarios[i].complete
  <1>. DEFINE s == r.scenarios
              timed == [i \in DOMAIN s |-> Retimed(s[i])]
              whole == r.complete /\ \A i \in DOMAIN timed : timed[i].complete
  <1>1. s \in Seq(Scenes) /\ r.scalar \in [DOMAIN rules -> Number] /\ r.complete \in BOOLEAN
        /\ DOMAIN r = {"scenarios", "scalar", "complete"}
    BY DEF Outcomes
  <1>2. \A x \in Scenes : Retimed(x) \in Scenes
    BY DEF Scenes, Retimed, Timed
  <1>. HIDE DEF s
  <1>3. Len(s) \in Nat /\ DOMAIN s = 1 .. Len(s) /\ \A i \in 1 .. Len(s) : s[i] \in Scenes
    BY <1>1
  <1>. HIDE DEF Scenes, Retimed
  <1>4. timed \in Seq(Scenes) /\ Len(timed) = Len(s) /\ DOMAIN timed = 1 .. Len(s)
        /\ \A i \in 1 .. Len(s) : timed[i] = Retimed(s[i])
    BY <1>2, <1>3
  <1>. HIDE DEF timed
  <1>5. Recurring(r, profile) = [scenarios |-> timed, scalar |-> r.scalar, complete |-> whole]
    BY DEF Recurring, timed, Retimed, s
  <1>6. whole \in BOOLEAN
    BY <1>1
  <1>7. whole <=> r.complete /\ \A i \in 1 .. Len(s) : timed[i].complete
    BY <1>4
  <1>. HIDE DEF whole
  <1>9. [scenarios |-> timed, scalar |-> r.scalar, complete |-> whole] \in Outcomes
    BY <1>1, <1>4, <1>6 DEF Outcomes
  <1>. QED
    BY <1>4, <1>5, <1>7, <1>9 DEF s

\* The results of the branches are as many as there are branches.
LEMMA KidResultsTyped ==
  ASSUME NumbersInv, NEW n \in tree.nodes, NEW value \in [tree.nodes -> Outcomes]
  PROVE  /\ IsResults(KidResults(value, n))
         /\ Len(KidResults(value, n)) = Cardinality(Active(tree, n))
  <1>. DEFINE kids == Kids(tree, n)
              size == Cardinality(Active(tree, n))
              results == KidResults(value, n)
  <1>1. size \in Nat /\ DOMAIN kids = 1 .. size /\ \A i \in 1 .. size : kids[i] \in Active(tree, n)
    BY NumbersFacts, KidsInOrder DEF Enumerates
  <1>2. \A p \in Active(tree, n) : p[2] \in tree.nodes
    BY NumbersFacts DEF Sound, Active, Out
  <1>. HIDE DEF size, kids
  <1>3. results = [i \in 1 .. size |-> IF tree.edges[kids[i]].blocked THEN Blocked(rules) ELSE value[kids[i][2]]]
    BY <1>1 DEF KidResults, kids
  <1>. HIDE DEF results
  <1>4. \A i \in 1 .. size : results[i] \in Outcomes
    BY <1>1, <1>2, <1>3, SimpleOutcomes
  <1>5. Len(results) = size /\ DOMAIN results = 1 .. size
    BY <1>1, <1>3
  <1>. QED
    BY <1>1, <1>4, <1>5 DEF IsResults, results, size

\* A node has a result whatever it is made of.
LEMMA RawTyped ==
  ASSUME NumbersInv, Hostile, NEW n \in tree.nodes, NEW results, IsResults(results)
  PROVE  RawAt(n, results) \in Outcomes
  <1>1. Terminates(n, inputs[n], FALSE, rules, profile) \in Outcomes /\ Withheld(rules) \in Outcomes
    BY TerminatesTyped, SimpleOutcomes
  <1>2. \A gate : Branches(results, gate, FALSE, rules, profile) \in Outcomes
    BY BranchesTyped
  <1>3. RawAt(n, results) =
          IF \A q \in Out(tree, n) : Context(q) THEN Terminates(n, inputs[n], random[n], rules, profile)
          ELSE IF results = <<>> THEN Withheld(rules)
          ELSE Branches(results, CHOOSE g \in Gates(tree, n) : TRUE, random[n], rules, profile)
    BY DEF RawAt
  <1>4. random[n] = FALSE
    BY DEF Hostile, NumbersInv
  <1>. QED
    BY <1>1, <1>2, <1>3, <1>4

MetricsAt(value, n) == Recurring(RawAt(n, KidResults(value, n)), profile)

\* The result of a node is what it makes of the results of its branches: the
\* recursion has one value on a tree without cycles.
LEMMA MetricsAre ==
  ASSUME NumbersInv, Hostile
  PROVE  Metrics \in [tree.nodes -> Outcomes] /\ \A n \in tree.nodes : Metrics[n] = MetricsAt(Metrics, n)
  <1>. DEFINE V == Outcomes
              A == tree.nodes
              B == [n \in A |-> [f \in [A -> V] |-> MetricsAt(f, n)]]
              Is(value) == value = [n \in A |-> MetricsAt(value, n)]
  <1>1. PICK height \in [A -> Nat] :
          \A n \in A : \A p \in Active(tree, n) : p[2] \in A /\ height[p[2]] < height[n]
    BY NumbersFacts, SoundHeights
  <1>2. ASSUME NEW n \in A, NEW f \in [A -> V] PROVE MetricsAt(f, n) \in V
    <2>1. IsResults(KidResults(f, n))
      BY <1>2, KidResultsTyped
    <2>2. RawAt(n, KidResults(f, n)) \in V
      BY <2>1, RawTyped
    <2>. QED
      BY <2>2, RecurringTyped DEF MetricsAt
  <1>. HIDE DEF V
  <1>3. Founded(A, V, height, B)
    <2>1. [A -> V] # {}
      <3>1. Blocked(rules) \in V
        BY SimpleOutcomes DEF V
      <3>2. [n \in A |-> Blocked(rules)] \in [A -> V]
        BY <3>1
      <3>. QED
        BY <3>2
    <2>2. B \in [A -> [[A -> V] -> V]]
      BY <1>2
    <2>3. ASSUME NEW n \in A, NEW f \in [A -> V], NEW g \in [A -> V],
                 \A m \in A : height[m] < height[n] => f[m] = g[m]
          PROVE  B[n][f] = B[n][g]
      <3>1. \A i \in DOMAIN Kids(tree, n) : Kids(tree, n)[i] \in Active(tree, n)
        <4>1. Enumerates(Kids(tree, n), 1 .. Cardinality(Active(tree, n)), Active(tree, n))
          BY NumbersFacts, KidsInOrder
        <4>. QED
          BY <4>1 DEF Enumerates
      <3>2. \A i \in DOMAIN Kids(tree, n) : f[Kids(tree, n)[i][2]] = g[Kids(tree, n)[i][2]]
        BY <1>1, <2>3, <3>1
      <3>3. KidResults(f, n) = KidResults(g, n)
        BY <3>2 DEF KidResults
      <3>. QED
        BY <3>3 DEF MetricsAt
    <2>. HIDE DEF A, B
    <2>. QED
      BY <1>1, <2>1, <2>2, <2>3 DEF Founded
  <1>4. PICK g \in [A -> V] : \A n \in A : g[n] = B[n][g]
    <2>. HIDE DEF A, B
    <2>. QED
      BY <1>3, Recursion
  <1>5. Is(g)
    BY <1>4
  <1>6. Metrics = CHOOSE value : Is(value)
    BY Zenon DEF Metrics, EvaluateMetrics, MetricsAt, RawAt, KidResults
  <1>7. Is(Metrics)
    <2>. HIDE DEF Is
    <2>. QED
      BY <1>5, <1>6
  <1>8. \A n \in A : Metrics[n] = MetricsAt(Metrics, n)
    BY <1>7
  <1>9. Metrics = g
    <2>1. \A n \in A : (\A m \in A : height[m] < height[n] => Metrics[m] = g[m]) =>
                        Metrics[n] = B[n][g]
      <3>. SUFFICES ASSUME NEW n \in A, \A m \in A : height[m] < height[n] => Metrics[m] = g[m]
                    PROVE  Metrics[n] = B[n][g]
        OBVIOUS
      <3>1. \A i \in DOMAIN Kids(tree, n) : Kids(tree, n)[i] \in Active(tree, n)
        <4>1. Enumerates(Kids(tree, n), 1 .. Cardinality(Active(tree, n)), Active(tree, n))
          BY NumbersFacts, KidsInOrder
        <4>. QED
          BY <4>1 DEF Enumerates
      <3>2. KidResults(Metrics, n) = KidResults(g, n)
        <4>1. \A i \in DOMAIN Kids(tree, n) : Metrics[Kids(tree, n)[i][2]] = g[Kids(tree, n)[i][2]]
          BY <1>1, <3>1
        <4>. QED
          BY <4>1 DEF KidResults
      <3>. QED
        BY <1>8, <3>2 DEF MetricsAt
    <2>2. \A n \in A : Metrics[n] = g[n]
      <3>. HIDE DEF A, B
      <3>. QED
        BY <1>3, <1>4, <2>1, Determined
    <2>. QED
      BY <1>4, <1>7, <2>2
  <1>. QED
    BY <1>8, <1>9 DEF V

-----------------------------------------------------------------------------
\* What a node makes of its branches, in whatever order they are.

Got(q)      == IF tree.edges[q].blocked THEN Blocked(rules) ELSE Metrics[q[2]]
Offers(q)   == Range(Got(q).scenarios)
Sizes(n)    == [q \in Active(tree, n) |-> Len(Got(q).scenarios)]
Raw(n)      == RawAt(n, KidResults(Metrics, n))
LeafNode(n) == \A q \in Out(tree, n) : Context(q)

\* What is got of a branch is a result.
LEMMA GotTyped ==
  ASSUME NumbersInv, Hostile, NEW n \in tree.nodes
  PROVE  /\ \A q \in Active(tree, n) : /\ Got(q) \in Outcomes /\ Got(q).scenarios \in Seq(Scenes)
                                       /\ Got(q).complete \in BOOLEAN
         /\ Sizes(n) \in [Active(tree, n) -> Nat]
         /\ IsFiniteSet(Active(tree, n))
  <1>1. \A q \in Active(tree, n) : q[2] \in tree.nodes
    BY NumbersFacts DEF Sound, Active, Out
  <1>2. \A q \in Active(tree, n) : Got(q) \in Outcomes
    BY <1>1, MetricsAre, SimpleOutcomes DEF Got
  <1>3. \A q \in Active(tree, n) : Got(q).scenarios \in Seq(Scenes) /\ Got(q).complete \in BOOLEAN
    BY <1>2 DEF Outcomes
  <1>4. \A q \in Active(tree, n) : Len(Got(q).scenarios) \in Nat
    BY <1>3
  <1>5. IsFiniteSet(Active(tree, n))
    BY NumbersFacts, DrawnFinite
  <1>. QED
    BY <1>2, <1>3, <1>4, <1>5 DEF Sizes

\* The branches in order.
InLineWith(results, h, I, A) ==
  /\ IsFiniteSet(I) /\ Enumerates(h, I, A) /\ I = 1 .. Len(results) /\ Len(results) \in Nat
  /\ DOMAIN results = I /\ \A i \in I : h[i] \in A /\ results[i] = Got(h[i])

\* The results of the branches, in line with the branches.
LEMMA InLineKids ==
  ASSUME NumbersInv, Hostile, NEW n \in tree.nodes
  PROVE  LET results == KidResults(Metrics, n) A == Active(tree, n) IN
         /\ InLineWith(results, Kids(tree, n), 1 .. Len(results), A)
         /\ IsResults(results)
         /\ results = <<>> <=> A = {}
  <1>. DEFINE kids == Kids(tree, n)
              A == Active(tree, n)
              size == Cardinality(A)
              results == KidResults(Metrics, n)
  <1>1. size \in Nat /\ DOMAIN kids = 1 .. size /\ IsFiniteSet(1 .. size) /\ Enumerates(kids, 1 .. size, A)
    BY NumbersFacts, KidsInOrder
  <1>2. IsResults(results) /\ Len(results) = size
    BY MetricsAre, KidResultsTyped
  <1>3. \A i \in 1 .. size : kids[i] \in A
    BY <1>1 DEF Enumerates
  <1>4. results = [i \in 1 .. size |-> Got(kids[i])]
    BY <1>1 DEF KidResults, Got
  <1>5. size = 0 <=> A = {}
    BY NumbersFacts, DrawnFinite, FS_EmptySet
  <1>. HIDE DEF results, size, kids, A
  <1>6. InLineWith(results, kids, 1 .. size, A)
    BY <1>1, <1>2, <1>3, <1>4 DEF InLineWith
  <1>7. results = <<>> <=> size = 0
    BY <1>1, <1>4
  <1>. QED
    BY <1>2, <1>5, <1>6, <1>7 DEF results, kids, A

\* Alternatives keep the scenarios of all branches, as many as there are, if they are
\* within the budget.
LEMMA EitherOf ==
  ASSUME NumbersInv, Hostile, NEW n \in tree.nodes
  PROVE  LET results == KidResults(Metrics, n)
             either  == Either(results, profile)
             offers  == UNION {Offers(q) : q \in Active(tree, n)}
             ways    == Total(Sizes(n))
         IN  /\ ways \in Nat
             /\ either.whole <=> ways <= profile.cap
             /\ Range(either.scenarios) \subseteq offers
             /\ ways <= profile.cap => Len(either.scenarios) = ways /\ Range(either.scenarios) = offers
  <1>. DEFINE results == KidResults(Metrics, n)
              A == Active(tree, n)
              kids == Kids(tree, n)
              I == 1 .. Len(results)
              s == [i \in DOMAIN results |-> results[i].scenarios]
              all == FlattenSeq(s)
              first == FirstOf(Budget(profile), all)
              offers == UNION {Offers(q) : q \in A}
              ways == Total(Sizes(n))
  <1>1. InLineWith(results, kids, I, A)
    BY InLineKids
  <1>. HIDE DEF kids, results
  <1>2. IsFiniteSet(I) /\ Enumerates(kids, I, A) /\ DOMAIN results = I /\ Len(results) \in Nat
        /\ \A i \in I : kids[i] \in A /\ results[i] = Got(kids[i])
    BY <1>1 DEF InLineWith
  <1>3. IsFiniteSet(A) /\ Sizes(n) \in [A -> Nat] /\ \A q \in A : Got(q).scenarios \in Seq(Scenes)
    BY GotTyped
  <1>4. s = [i \in I |-> Got(kids[i]).scenarios]
    BY <1>2
  <1>5. s \in Seq(Seq(Scenes)) /\ DOMAIN s = I
    BY <1>2, <1>3, <1>4
  <1>. HIDE DEF s, A
  <1>6. all \in Seq(Scenes) /\ Len(all) = Total([i \in DOMAIN s |-> Len(s[i])])
        /\ Range(all) = UNION {Range(s[i]) : i \in DOMAIN s}
    BY <1>5, FlattenOf
  <1>7. Len(all) = ways /\ ways \in Nat
    <2>1. [i \in DOMAIN s |-> Len(s[i])] = [i \in I |-> Sizes(n)[kids[i]]]
      BY <1>2, <1>4, <1>5 DEF Sizes, A
    <2>. HIDE DEF I
    <2>2. Total([i \in I |-> Sizes(n)[kids[i]]]) = Total(Sizes(n))
      BY <1>2, <1>3, SumInOrder
    <2>3. Len(all) \in Nat
      BY <1>6
    <2>. QED
      BY <1>6, <2>1, <2>2, <2>3
  <1>8. Range(all) = offers
    <2>1. ASSUME NEW x PROVE x \in UNION {Range(s[i]) : i \in I} <=> x \in offers
      <3>1. x \in UNION {Range(s[i]) : i \in I} <=> \E i \in I : x \in Range(s[i])
        OBVIOUS
      <3>2. x \in offers <=> \E q \in A : x \in Offers(q)
        OBVIOUS
      <3>3. \A i \in I : Range(s[i]) = Offers(kids[i])
        BY <1>4 DEF Offers
      <3>4. \A q \in A : \E i \in I : kids[i] = q
        BY <1>2 DEF Enumerates
      <3>. QED
        BY <3>1, <3>2, <3>3, <3>4, <1>2
    <2>. QED
      BY <1>5, <1>6, <2>1
  <1>. HIDE DEF all, offers, ways
  <1>9. Budget(profile) = profile.cap /\ profile.cap \in Nat
    BY NumbersFacts
  <1>10. FirstAre(Scenes, first, profile.cap, all)
    BY <1>6, <1>9, FirstOfIs
  <1>. HIDE DEF first
  <1>11. first \in Seq(Scenes) /\ Len(first) = (IF ways <= profile.cap THEN ways ELSE profile.cap)
         /\ (\A i \in 1 .. Len(first) : first[i] = all[i]) /\ (ways <= profile.cap => first = all)
    BY <1>7, <1>10 DEF FirstAre
  <1>12. Range(first) \subseteq Range(all)
    <2>1. DOMAIN first = 1 .. Len(first) /\ DOMAIN all = 1 .. ways
      BY <1>6, <1>7, <1>11
    <2>2. \A i \in 1 .. Len(first) : i \in 1 .. ways
      BY <1>7, <1>9, <1>11
    <2>. QED
      BY <1>11, <2>1, <2>2 DEF Range
  <1>13. Either(results, profile) = [scenarios |-> first, whole |-> Len(all) <= Budget(profile)]
    BY DEF Either, first, all, s
  <1>14. Either(results, profile).scenarios = first /\ (Either(results, profile).whole <=> ways <= profile.cap)
    <2>. DEFINE fits == Len(all) <= Budget(profile)
    <2>1. fits <=> ways <= profile.cap
      BY <1>7, <1>9
    <2>. HIDE DEF fits
    <2>2. Either(results, profile) = [scenarios |-> first, whole |-> fits]
      BY <1>13 DEF fits
    <2>. QED
      BY <2>1, <2>2
  <1>. QED
    BY <1>7, <1>8, <1>11, <1>12, <1>14 DEF results, offers, ways, A

\* What is joined of the branches is the same in any order.
LEMMA JoinedInOrder ==
  ASSUME NumbersInv, NEW I, NEW A, IsFiniteSet(I), IsFiniteSet(A), NEW h, Enumerates(h, I, A),
         NEW f \in [A -> Scenes], NEW gate
  PROVE  Joined([i \in I |-> f[h[i]]], gate, rules) = Joined(f, gate, rules)
  <1>. DEFINE g == [i \in I |-> f[h[i]]]
              numbers(id) == [q \in A |-> f[q].values[id]]
              ordered(id) == [i \in I |-> g[i].values[id]]
              values == [id \in DOMAIN rules |-> Aggregate(numbers(id), rules[id][gate])]
              apart(e) == \A i, j \in DOMAIN e : i # j => e[i].leaves \cap e[j].leaves = {}
              ok(e) == \A i \in DOMAIN e : e[i].complete
              known == \A id \in DOMAIN rules : Known(values[id])
              leaves(e) == UNION {e[i].leaves : i \in DOMAIN e}
  <1>1. /\ \A i \in I : h[i] \in A /\ g[i] = f[h[i]]
        /\ \A i, j \in I : h[i] = h[j] => i = j
        /\ \A q \in A : \E i \in I : h[i] = q
        /\ DOMAIN g = I /\ DOMAIN f = A
    BY DEF Enumerates
  <1>2. \A id \in DOMAIN rules : numbers(id) \in [A -> Number]
    BY DEF Scenes
  <1>3. \A id \in DOMAIN rules : ordered(id) = [i \in I |-> numbers(id)[h[i]]]
    BY <1>1
  <1>. HIDE DEF numbers, ordered
  <1>4. \A id \in DOMAIN rules : Aggregate(ordered(id), rules[id][gate]) = Aggregate(numbers(id), rules[id][gate])
    BY <1>2, <1>3, AggregateInOrder
  <1>5. [id \in DOMAIN rules |-> Aggregate(ordered(id), rules[id][gate])] = values
    BY <1>4
  <1>6. apart(g) <=> apart(f)
    <2>1. ASSUME apart(f) PROVE apart(g)
      BY <1>1, <2>1
    <2>2. ASSUME apart(g) PROVE apart(f)
      <3>. SUFFICES ASSUME NEW q \in A, NEW r \in A, q # r PROVE f[q].leaves \cap f[r].leaves = {}
        BY <1>1
      <3>1. PICK i \in I : h[i] = q
        BY <1>1
      <3>2. PICK j \in I : h[j] = r
        BY <1>1
      <3>3. i # j /\ g[i] = f[q] /\ g[j] = f[r]
        BY <1>1, <3>1, <3>2
      <3>. QED
        BY <1>1, <2>2, <3>3
    <2>. QED
      BY <2>1, <2>2
  <1>7. ok(g) <=> ok(f)
    <2>1. ASSUME ok(g) PROVE ok(f)
      <3>. SUFFICES ASSUME NEW q \in A PROVE f[q].complete
        BY <1>1
      <3>1. PICK i \in I : h[i] = q
        BY <1>1
      <3>. QED
        BY <1>1, <2>1, <3>1
    <2>. QED
      BY <1>1, <2>1
  <1>8. leaves(g) = leaves(f)
    <2>1. ASSUME NEW x PROVE (\E i \in I : x \in g[i].leaves) <=> (\E q \in A : x \in f[q].leaves)
      BY <1>1
    <2>2. \A x : x \in leaves(g) <=> \E i \in I : x \in g[i].leaves
      BY <1>1
    <2>3. \A x : x \in leaves(f) <=> \E q \in A : x \in f[q].leaves
      BY <1>1
    <2>. QED
      BY <2>1, <2>2, <2>3
  <1>9. Joined(f, gate, rules) =
          Scenario(leaves(f), values, FALSE, apart(f) /\ ok(f) /\ known)
    BY <1>1 DEF Joined, numbers
  <1>10. Joined(g, gate, rules) =
           LET v == [id \in DOMAIN rules |-> Aggregate(ordered(id), rules[id][gate])] IN
           Scenario(leaves(g), v, FALSE, apart(g) /\ ok(g) /\ \A id \in DOMAIN rules : Known(v[id]))
    BY <1>1 DEF Joined, ordered
  <1>. HIDE DEF leaves, apart, ok, values, g
  <1>11. Joined(g, gate, rules) = Scenario(leaves(g), values, FALSE, apart(g) /\ ok(g) /\ known)
    BY <1>5, <1>10
  <1>12. (apart(g) /\ ok(g) /\ known) = (apart(f) /\ ok(f) /\ known)
    BY <1>6, <1>7
  <1>. QED
    BY <1>8, <1>9, <1>11, <1>12 DEF g

\* A scenario of every branch of n.
Selections(n) == {f \in [Active(tree, n) -> Scenes] : \A q \in Active(tree, n) : f[q] \in Offers(q)}

\* Branches that all succeed keep every joint scenario, as many as the product of
\* theirs, if they are within the budget.
LEMMA EveryOf ==
  ASSUME NumbersInv, Hostile, NEW n \in tree.nodes, NEW gate
  PROVE  LET results == KidResults(Metrics, n)
             every   == Every(results, gate, rules, profile)
             A       == Active(tree, n)
             ways    == Multiplied(Sizes(n))
             joins   == {Joined(f, gate, rules) : f \in Selections(n)}
         IN  /\ ways \in Nat
             /\ (\E q \in A : Got(q).scenarios = <<>>) => every.scenarios = <<>> /\ every.whole /\ ways = 0
             /\ (\A q \in A : Got(q).scenarios # <<>>) =>
                  /\ every.whole <=> ways <= profile.cap
                  /\ Range(every.scenarios) \subseteq joins
                  /\ ways <= profile.cap => Len(every.scenarios) = ways /\ Range(every.scenarios) = joins
  <1>. DEFINE results == KidResults(Metrics, n)
              A == Active(tree, n)
              kids == Kids(tree, n)
              I == 1 .. Len(results)
              every == Every(results, gate, rules, profile)
              size == [i \in I |-> Len(results[i].scenarios)]
              ways == Multiplied(Sizes(n))
              cap == profile.cap
              picks == Picks(results, profile)
              kept == FirstOf(Budget(profile), picks)
              joined == [i \in DOMAIN kept |-> Joined(kept[i], gate, rules)]
              joins == {Joined(f, gate, rules) : f \in Selections(n)}
  <1>1. InLineWith(results, kids, I, A)
    BY InLineKids
  <1>. HIDE DEF kids, results
  <1>2. IsFiniteSet(I) /\ Enumerates(kids, I, A) /\ DOMAIN results = I /\ Len(results) \in Nat
        /\ \A i \in I : kids[i] \in A /\ results[i] = Got(kids[i])
    BY <1>1 DEF InLineWith
  <1>3. IsFiniteSet(A) /\ Sizes(n) \in [A -> Nat] /\ \A q \in A : Got(q).scenarios \in Seq(Scenes)
    BY GotTyped
  <1>4. \A q \in A : \E i \in I : kids[i] = q
    BY <1>2 DEF Enumerates
  <1>5. Multiplied(size) = ways /\ ways \in Nat
    <2>1. size = [i \in I |-> Sizes(n)[kids[i]]]
      BY <1>2 DEF Sizes
    <2>. HIDE DEF I, A, size
    <2>2. Multiplied([i \in I |-> Sizes(n)[kids[i]]]) = Multiplied(Sizes(n))
      BY <1>2, <1>3, ProductInOrder
    <2>3. Multiplied(Sizes(n)) \in Nat
      BY <1>3, ProductsOf
    <2>. QED
      BY <2>1, <2>2, <2>3
  <1>6. Budget(profile) = cap /\ cap \in Nat
    BY NumbersFacts
  <1>. HIDE DEF I, A, size, cap, ways
  <1>7. CASE \E q \in A : Got(q).scenarios = <<>>
    <2>1. PICK q \in A : Got(q).scenarios = <<>>
      BY <1>7
    <2>2. PICK i \in I : kids[i] = q
      BY <1>4
    <2>3. results[i].scenarios = <<>> /\ i \in DOMAIN results
      BY <1>2, <2>1, <2>2
    <2>4. every = [scenarios |-> <<>>, whole |-> TRUE]
      BY <2>3 DEF Every
    <2>5. Sizes(n)[q] = 0
      BY <2>1 DEF Sizes, A
    <2>6. ways = 0
      <3>1. ProductTakes(Sizes(n), A, q)
        BY <1>3, ProductsTakeAt
      <3>2. Prods(Sizes(n))[A \ {q}] \in Nat /\ Prods(Sizes(n))[A] = 0 * Prods(Sizes(n))[A \ {q}]
        BY <2>5, <3>1 DEF ProductTakes
      <3>3. ways = Prods(Sizes(n))[A]
        BY <1>3, ProductsOf DEF ways
      <3>. DEFINE rest == Prods(Sizes(n))[A \ {q}]
      <3>. HIDE DEF rest
      <3>4. rest \in Nat /\ ways = 0 * rest
        BY <3>2, <3>3 DEF rest
      <3>. QED
        BY <3>4
    <2>. HIDE DEF every, joins
    <2>7. every.scenarios = <<>> /\ every.whole
      BY <2>4
    <2>. QED
      BY <1>5, <1>7, <2>6, <2>7 DEF every, ways, A, results
  <1>8. CASE \A q \in A : Got(q).scenarios # <<>>
    <2>1. \A k \in 1 .. Len(results) : results[k].scenarios \in Seq(Scenes) /\ results[k].scenarios # <<>>
      BY <1>2, <1>3, <1>8 DEF I
    <2>2. /\ picks \in Seq(Seq(Scenes))
          /\ Len(picks) = IF ways <= cap + 1 THEN ways ELSE cap + 1
          /\ \A q \in 1 .. Len(picks) : PickOf(results, Len(results), picks[q])
          /\ Len(picks) <= cap =>
               \A c \in Seq(Scenes) : PickOf(results, Len(results), c) => \E q \in 1 .. Len(picks) : picks[q] = c
      <3>1. PickedAll(Scenes, results, profile)
        BY <1>2, <1>6, <2>1, PicksAre
      <3>2. Multiplied([k \in 1 .. Len(results) |-> Len(results[k].scenarios)]) = ways
        BY <1>5 DEF size, I
      <3>. HIDE DEF picks
      <3>. QED
        BY <1>6, <3>1, <3>2 DEF PickedAll, picks
    <2>. HIDE DEF picks
    <2>3. FirstAre(Seq(Scenes), kept, cap, picks)
      BY <1>6, <2>2, FirstOfIs
    <2>. HIDE DEF kept
    <2>4. /\ kept \in Seq(Seq(Scenes)) /\ Len(kept) = (IF Len(picks) <= cap THEN Len(picks) ELSE cap)
          /\ \A i \in 1 .. Len(kept) : kept[i] = picks[i]
          /\ Len(picks) <= cap => kept = picks
      BY <2>3 DEF FirstAre
    <2>5. every = [scenarios |-> joined, whole |-> Len(picks) <= cap]
      <3>1. ~\E i \in DOMAIN results : results[i].scenarios = <<>>
        BY <1>2, <1>8
      <3>. QED
        BY <1>6, <3>1 DEF Every, kept, picks
    <2>6. Len(picks) \in Nat /\ (Len(picks) <= cap <=> ways <= cap) /\ (ways <= cap => Len(picks) = ways)
      BY <1>5, <1>6, <2>2
    <2>7. every.scenarios = joined /\ (every.whole <=> ways <= cap)
      <3>. DEFINE fits == Len(picks) <= cap
      <3>1. fits <=> ways <= cap
        BY <2>6
      <3>. HIDE DEF fits, joined, every
      <3>2. every = [scenarios |-> joined, whole |-> fits]
        BY <2>5 DEF fits
      <3>. QED
        BY <3>1, <3>2
    <2>8. DOMAIN kept = 1 .. Len(kept) /\ Len(joined) = Len(kept) /\ DOMAIN joined = 1 .. Len(kept)
          /\ \A i \in 1 .. Len(kept) : joined[i] = Joined(kept[i], gate, rules)
      BY <2>4
    <2>. HIDE DEF joined, every
    <2>9. ASSUME NEW c \in Seq(Scenes), PickOf(results, Len(results), c)
          PROVE  \E f \in Selections(n) : /\ c = [i \in I |-> f[kids[i]]]
                                       /\ Joined(c, gate, rules) = Joined(f, gate, rules)
      <3>. DEFINE place(q) == CHOOSE i \in I : kids[i] = q
                  f == [q \in A |-> c[place(q)]]
      <3>1. \A q \in A : place(q) \in I /\ kids[place(q)] = q
        BY <1>4
      <3>. HIDE DEF place
      <3>2. \A i \in I : place(kids[i]) = i
        BY <1>2, <3>1 DEF Enumerates
      <3>3. DOMAIN c = I /\ \A i \in I : c[i] \in Range(results[i].scenarios) /\ c[i] \in Scenes
        BY <2>9 DEF PickOf, I
      <3>4. f \in [A -> Scenes]
        BY <3>1, <3>3
      <3>5. \A q \in A : f[q] \in Offers(q)
        BY <1>2, <3>1, <3>3 DEF Offers
      <3>6. f \in Selections(n)
        BY <3>4, <3>5 DEF Selections, A
      <3>7. c = [i \in I |-> f[kids[i]]]
        <4>1. \A i \in I : c[i] = f[kids[i]]
          BY <1>2, <3>2
        <4>2. c = [i \in 1 .. Len(c) |-> c[i]] /\ 1 .. Len(c) = I
          BY <2>9 DEF PickOf, I
        <4>. HIDE DEF f
        <4>. QED
          BY <4>1, <4>2
      <3>. HIDE DEF f
      <3>8. Joined(c, gate, rules) = Joined(f, gate, rules)
        BY <1>2, <1>3, <3>4, <3>7, JoinedInOrder
      <3>. QED
        BY <3>6, <3>7, <3>8
    <2>10. Range(joined) \subseteq joins
      <3>1. ASSUME NEW i \in 1 .. Len(kept) PROVE joined[i] \in joins
        <4>1. kept[i] \in Seq(Scenes) /\ PickOf(results, Len(results), kept[i])
          <5>1. i \in 1 .. Len(picks)
            BY <1>6, <2>4, <2>6
          <5>. QED
            BY <2>2, <2>4, <5>1
        <4>2. PICK f \in Selections(n) : Joined(kept[i], gate, rules) = Joined(f, gate, rules)
          BY <4>1, <2>9
        <4>. QED
          BY <2>8, <4>2
      <3>. QED
        BY <2>8, <3>1 DEF Range
    <2>11. ASSUME ways <= cap PROVE Len(joined) = ways /\ Range(joined) = joins
      <3>1. Len(picks) <= cap /\ kept = picks /\ Len(picks) = ways
        BY <2>4, <2>6, <2>11
      <3>2. ASSUME NEW f \in Selections(n) PROVE Joined(f, gate, rules) \in Range(joined)
        <4>. DEFINE c == [i \in I |-> f[kids[i]]]
        <4>1. f \in [A -> Scenes] /\ \A q \in A : f[q] \in Offers(q)
          BY DEF Selections, A
        <4>2. \A i \in I : c[i] \in Scenes /\ c[i] \in Range(results[i].scenarios)
          BY <1>2, <4>1 DEF Offers
        <4>3. c \in Seq(Scenes) /\ Len(c) = Len(results)
          BY <1>2, <4>2 DEF I
        <4>4. PickOf(results, Len(results), c)
          BY <4>2, <4>3 DEF PickOf, I
        <4>5. PICK q \in 1 .. Len(picks) : picks[q] = c
          BY <2>2, <3>1, <4>3, <4>4
        <4>6. Joined(c, gate, rules) = Joined(f, gate, rules)
          BY <1>2, <1>3, <4>1, JoinedInOrder
        <4>. HIDE DEF c
        <4>7. joined[q] = Joined(f, gate, rules) /\ q \in DOMAIN joined
          BY <2>8, <3>1, <4>5, <4>6
        <4>. QED
          BY <4>7 DEF Range
      <3>. QED
        BY <2>8, <2>10, <3>1, <3>2
    <2>. HIDE DEF joins
    <2>. QED
      BY <1>5, <1>8, <2>7, <2>10, <2>11 DEF every, ways, A, results, cap, joins
  <1>. QED
    BY <1>7, <1>8

IsOr(n)   == Gates(tree, n) = {"OR"}
GateAt(n) == CHOOSE g \in Gates(tree, n) : TRUE
Act(n)    == IF IsOr(n) THEN Either(KidResults(Metrics, n), profile)
             ELSE Every(KidResults(Metrics, n), GateAt(n), rules, profile)
SizeAt(n) == IF IsOr(n) THEN Total(Sizes(n)) ELSE Multiplied(Sizes(n))
Made(n)   == IF IsOr(n) THEN UNION {Offers(q) : q \in Active(tree, n)}
             ELSE {Joined(f, GateAt(n), rules) : f \in Selections(n)}

\* The scenarios of a node are made of those of its branches, all of them within
\* the budget.
LEMMA ActIs ==
  ASSUME NumbersInv, Hostile, NEW n \in tree.nodes
  PROVE  /\ SizeAt(n) \in Nat
         /\ Act(n).whole <=> SizeAt(n) <= profile.cap
         /\ Range(Act(n).scenarios) \subseteq Made(n)
         /\ SizeAt(n) <= profile.cap =>
              Len(Act(n).scenarios) = SizeAt(n) /\ Range(Act(n).scenarios) = Made(n)
  <1>1. CASE IsOr(n)
    <2>1. SizeAt(n) = Total(Sizes(n)) /\ Act(n) = Either(KidResults(Metrics, n), profile)
          /\ Made(n) = UNION {Offers(q) : q \in Active(tree, n)}
      BY <1>1 DEF SizeAt, Act, Made
    <2>. QED
      BY <2>1, EitherOf
  <1>2. CASE ~IsOr(n)
    <2>. DEFINE every == Every(KidResults(Metrics, n), GateAt(n), rules, profile)
                ways == Multiplied(Sizes(n))
                A == Active(tree, n)
                joins == {Joined(f, GateAt(n), rules) : f \in Selections(n)}
    <2>1. SizeAt(n) = ways /\ Act(n) = every /\ Made(n) = joins
      BY <1>2 DEF SizeAt, Act, Made
    <2>2. /\ ways \in Nat
          /\ (\E q \in A : Got(q).scenarios = <<>>) => every.scenarios = <<>> /\ every.whole /\ ways = 0
          /\ (\A q \in A : Got(q).scenarios # <<>>) =>
               /\ every.whole <=> ways <= profile.cap
               /\ Range(every.scenarios) \subseteq joins
               /\ ways <= profile.cap => Len(every.scenarios) = ways /\ Range(every.scenarios) = joins
      BY EveryOf
    <2>3. (\E q \in A : Got(q).scenarios = <<>>) => joins = {}
      <3>1. ASSUME NEW q \in A, Got(q).scenarios = <<>> PROVE Selections(n) = {}
        <4>1. Offers(q) = {}
          BY <3>1 DEF Offers, Range
        <4>. QED
          BY <4>1 DEF Selections
      <3>. QED
        BY <3>1
    <2>4. Range(<<>>) = {} /\ Len(<<>>) = 0 /\ 0 <= profile.cap
      BY NumbersFacts DEF Range
    <2>. HIDE DEF every, ways, A, joins
    <2>5. CASE \E q \in A : Got(q).scenarios = <<>>
      BY <2>1, <2>2, <2>3, <2>4, <2>5
    <2>6. CASE \A q \in A : Got(q).scenarios # <<>>
      BY <2>1, <2>2, <2>6
    <2>. QED
      BY <2>5, <2>6
  <1>. QED
    BY <1>1, <1>2

\* The relationships of a node have one operator.
LEMMA GateIs ==
  ASSUME NumbersInv, NEW n \in tree.nodes
  PROVE  /\ IsOr(n) => Active(tree, n) # {}
         /\ Active(tree, n) # {} => (GateAt(n) = "OR" <=> IsOr(n)) /\ Gates(tree, n) = {GateAt(n)}
  <1>1. Cardinality(Gates(tree, n)) <= 1
    BY DEF NumbersInv, Valid, Proper, NodeRules
  <1>2. IsFiniteSet(Gates(tree, n))
    <2>1. IsFiniteSet(Active(tree, n))
      BY NumbersFacts, DrawnFinite
    <2>2. Gates(tree, n) = {tree.edges[p].gate : p \in Active(tree, n)}
      BY DEF Gates
    <2>. DEFINE A == Active(tree, n)
                f == [p \in A |-> tree.edges[p].gate]
    <2>3. f \in [A -> Gates(tree, n)] /\ \A g \in Gates(tree, n) : \E p \in A : f[p] = g
      BY <2>2
    <2>. HIDE DEF f, A
    <2>4. f \in Surjection(A, Gates(tree, n))
      BY <2>3 DEF Surjection
    <2>. QED
      BY <2>1, <2>4, FS_Surjection DEF A
  <1>3. \A g, h \in Gates(tree, n) : g = h
    BY <1>1, <1>2, AtMostOne
  <1>4. Gates(tree, n) # {} <=> Active(tree, n) # {}
    BY DEF Gates
  <1>. QED
    BY <1>3, <1>4 DEF IsOr, GateAt

\* What a node makes of what it got.
LEMMA RawIs ==
  ASSUME NumbersInv, Hostile, NEW n \in tree.nodes
  PROVE  /\ Raw(n) \in Outcomes
         /\ LeafNode(n) => Raw(n) = Terminates(n, inputs[n], FALSE, rules, profile)
         /\ ~LeafNode(n) /\ Active(tree, n) = {} => ~Raw(n).complete
         /\ ~LeafNode(n) /\ Active(tree, n) # {} =>
              /\ Raw(n).scenarios = Act(n).scenarios
              /\ Raw(n).complete <=> SizeAt(n) <= profile.cap /\ \A q \in Active(tree, n) : Got(q).complete
  <1>. DEFINE results == KidResults(Metrics, n)
              A == Active(tree, n)
              kids == Kids(tree, n)
              I == 1 .. Len(results)
  <1>1. random[n] = FALSE
    BY DEF Hostile, NumbersInv
  <1>2. InLineWith(results, kids, I, A) /\ IsResults(results) /\ (results = <<>> <=> A = {})
    BY InLineKids
  <1>. HIDE DEF kids, results
  <1>3. Raw(n) = IF LeafNode(n) THEN Terminates(n, inputs[n], FALSE, rules, profile)
                 ELSE IF results = <<>> THEN Withheld(rules)
                 ELSE Branches(results, GateAt(n), FALSE, rules, profile)
    <2>1. Raw(n) = IF LeafNode(n) THEN Terminates(n, inputs[n], random[n], rules, profile)
                   ELSE IF results = <<>> THEN Withheld(rules)
                   ELSE Branches(results, GateAt(n), random[n], rules, profile)
      BY Zenon DEF Raw, RawAt, LeafNode, GateAt, results
    <2>. QED
      BY <1>1, <2>1
  <1>4. Raw(n) \in Outcomes
    BY <1>2, RawTyped DEF Raw, results
  <1>5. ASSUME ~LeafNode(n), A # {}
        PROVE  /\ Raw(n).scenarios = Act(n).scenarios
               /\ Raw(n).complete <=> SizeAt(n) <= profile.cap /\ \A q \in A : Got(q).complete
    <2>. DEFINE whole == Act(n).whole /\ \A i \in DOMAIN results : results[i].complete
    <2>1. GateAt(n) = "OR" <=> IsOr(n)
      BY <1>5, GateIs
    <2>2. Raw(n) = [scenarios |-> Act(n).scenarios, scalar |-> Scalar(results, GateAt(n), rules), complete |-> whole]
      BY <1>2, <1>3, <1>5, <2>1 DEF Branches, Act, results
    <2>3. IsFiniteSet(I) /\ Enumerates(kids, I, A) /\ DOMAIN results = I
          /\ \A i \in I : kids[i] \in A /\ results[i] = Got(kids[i])
      BY <1>2 DEF InLineWith
    <2>4. \A q \in A : \E i \in I : kids[i] = q
      BY <2>3 DEF Enumerates
    <2>5. (\A i \in DOMAIN results : results[i].complete) <=> \A q \in A : Got(q).complete
      BY <2>3, <2>4
    <2>6. whole <=> SizeAt(n) <= profile.cap /\ \A q \in A : Got(q).complete
      BY <2>5, ActIs
    <2>. HIDE DEF whole
    <2>7. Raw(n).scenarios = Act(n).scenarios /\ Raw(n).complete = whole
      BY <2>2
    <2>. QED
      BY <2>6, <2>7
  <1>6. ~LeafNode(n) /\ A = {} => ~Raw(n).complete
    BY <1>2, <1>3, SimpleOutcomes
  <1>. QED
    BY <1>3, <1>4, <1>5, <1>6

\* Of a complete result, and where encounters do not recur, time makes no difference.
LEMMA NodeIs ==
  ASSUME NumbersInv, Hostile, NEW n \in tree.nodes
  PROVE  LET r == Metrics[n] raw == Raw(n) IN
         /\ r \in Outcomes
         /\ r.complete => raw.complete /\ \A s \in Range(r.scenarios) : s.complete
         /\ r.complete \/ profile.encounters = "fixed" => r.scenarios = raw.scenarios
         /\ profile.encounters = "fixed" =>
              (r.complete <=> raw.complete /\ \A s \in Range(raw.scenarios) : s.complete)
  <1>. DEFINE r == Metrics[n]
              raw == Raw(n)
              m == Len(raw.scenarios)
  <1>1. raw \in Outcomes /\ r \in Outcomes /\ r = Recurring(raw, profile)
    BY RawIs, MetricsAre DEF MetricsAt, Raw
  <1>2. /\ Len(r.scenarios) = m
        /\ \A i \in 1 .. m : r.scenarios[i] = Retimed(raw.scenarios[i])
        /\ r.complete <=> raw.complete /\ \A i \in 1 .. m : r.scenarios[i].complete
    BY <1>1, RecurringTyped
  <1>. HIDE DEF r, raw
  <1>3. raw.scenarios \in Seq(Scenes) /\ r.scenarios \in Seq(Scenes)
        /\ DOMAIN raw.scenarios = 1 .. m /\ DOMAIN r.scenarios = 1 .. m
    BY <1>1, <1>2 DEF Outcomes
  <1>4. ASSUME NEW s \in Scenes, Retimed(s).complete \/ profile.encounters = "fixed" PROVE Retimed(s) = s
    <2>1. s.complete /\ Timed(s, profile) <=> Retimed(s).complete
      BY DEF Retimed, Scenes
    <2>2. (s.complete /\ Timed(s, profile)) = s.complete
      BY <1>4, <2>1 DEF Timed, Scenes
    <2>. QED
      BY <2>2 DEF Retimed, Scenes
  <1>5. \A i \in 1 .. m : raw.scenarios[i] \in Scenes
    BY <1>3
  <1>6. ASSUME r.complete \/ profile.encounters = "fixed" PROVE r.scenarios = raw.scenarios
    <2>1. \A i \in 1 .. m : r.scenarios[i] = raw.scenarios[i]
      BY <1>2, <1>4, <1>5, <1>6
    <2>. QED
      BY <1>3, <2>1
  <1>7. \A s \in Range(r.scenarios) : \E i \in 1 .. m : s = r.scenarios[i]
    BY <1>3 DEF Range
  <1>8. \A i \in 1 .. m : r.scenarios[i] \in Range(r.scenarios)
    BY <1>3 DEF Range
  <1>. QED
    BY <1>1, <1>2, <1>6, <1>7, <1>8 DEF r, raw

-----------------------------------------------------------------------------
\* The budget.

WaysParts(ways, n) ==
  [q \in Active(tree, n) |-> IF tree.edges[q].blocked THEN 0 ELSE ways[q[2]]]
WaysAt(parts, n) ==
  IF Out(tree, n) = {} THEN 1
  ELSE IF Gates(tree, n) = {"OR"} THEN Total(parts) ELSE Multiplied(parts)

\* Ways, by its equation.
LEMMA WaysAre ==
  ASSUME NumbersInv
  PROVE  /\ \A n \in tree.nodes : /\ Ways(tree)[n] \in Nat
                                  /\ Ways(tree)[n] = WaysAt(WaysParts(Ways(tree), n), n)
  <1>. DEFINE A == tree.nodes
              B == [n \in A |-> [f \in [A -> Nat] |-> WaysAt(WaysParts(f, n), n)]]
              Is(value) == value = [n \in A |-> WaysAt(WaysParts(value, n), n)]
  <1>1. PICK height \in [A -> Nat] :
          \A n \in A : \A p \in Active(tree, n) : p[2] \in A /\ height[p[2]] < height[n]
    BY NumbersFacts, SoundHeights
  <1>2. ASSUME NEW n \in A, NEW f \in [A -> Nat] PROVE WaysAt(WaysParts(f, n), n) \in Nat
    <2>1. WaysParts(f, n) \in [Active(tree, n) -> Nat]
      BY <1>1 DEF WaysParts
    <2>2. IsFiniteSet(Active(tree, n))
      BY NumbersFacts, DrawnFinite
    <2>3. Total(WaysParts(f, n)) \in Nat /\ Multiplied(WaysParts(f, n)) \in Nat
      BY <2>1, <2>2, SumsOf, ProductsOf
    <2>. QED
      BY <2>3 DEF WaysAt
  <1>3. Founded(A, Nat, height, B)
    <2>1. [A -> Nat] # {} /\ B \in [A -> [[A -> Nat] -> Nat]]
      BY <1>1, <1>2
    <2>2. ASSUME NEW n \in A, NEW f \in [A -> Nat], NEW g \in [A -> Nat],
                 \A m \in A : height[m] < height[n] => f[m] = g[m]
          PROVE  B[n][f] = B[n][g]
      <3>1. WaysParts(f, n) = WaysParts(g, n)
        BY <1>1, <2>2 DEF WaysParts
      <3>. QED
        BY <3>1
    <2>. HIDE DEF A, B
    <2>. QED
      BY <1>1, <2>1, <2>2 DEF Founded
  <1>4. PICK g \in [A -> Nat] : \A n \in A : g[n] = B[n][g]
    <2>. HIDE DEF A, B
    <2>. QED
      BY <1>3, Recursion
  <1>5. Is(g)
    BY <1>4
  <1>6. Ways(tree) = CHOOSE value : Is(value)
    BY Zenon DEF Ways, WaysAt, WaysParts
  <1>7. Is(Ways(tree))
    <2>. HIDE DEF Is
    <2>. QED
      BY <1>5, <1>6
  <1>8. \A n \in A : Ways(tree)[n] = WaysAt(WaysParts(Ways(tree), n), n)
    BY <1>7
  <1>9. \A n \in A : Ways(tree)[n] = g[n]
    <2>1. \A n \in A : (\A m \in A : height[m] < height[n] => Ways(tree)[m] = g[m]) =>
                        Ways(tree)[n] = B[n][g]
      <3>. SUFFICES ASSUME NEW n \in A, \A m \in A : height[m] < height[n] => Ways(tree)[m] = g[m]
                    PROVE  Ways(tree)[n] = B[n][g]
        OBVIOUS
      <3>1. WaysParts(Ways(tree), n) = WaysParts(g, n)
        BY <1>1 DEF WaysParts
      <3>. QED
        BY <1>8, <3>1
    <2>. HIDE DEF A, B
    <2>. QED
      BY <1>3, <1>4, <2>1, Determined
  <1>. QED
    BY <1>4, <1>8, <1>9

\* The nodes below one.
Below(n) == ReachFrom(tree, {n}, DOMAIN tree.edges)

\* What is below a node is closed under the relationships, and the least set that is.
LEMMA BelowIs ==
  ASSUME NumbersInv, NEW n \in tree.nodes
  PROVE  /\ Below(n) \subseteq tree.nodes /\ n \in Below(n)
         /\ \A p \in DOMAIN tree.edges : p[1] \in Below(n) => p[2] \in Below(n)
         /\ \A Q : n \in Q /\ (\A p \in DOMAIN tree.edges : p[1] \in Q => p[2] \in Q) => Below(n) \subseteq Q
  <1>1. IsFiniteSet(tree.nodes) /\ {n} \in SUBSET tree.nodes /\ \A p \in DOMAIN tree.edges : p[2] \in tree.nodes
    BY NumbersFacts DEF Sound
  <1>2. /\ Below(n) \subseteq tree.nodes /\ {n} \subseteq Below(n)
        /\ \A p \in DOMAIN tree.edges : p[1] \in Below(n) => p[2] \in Below(n)
    BY <1>1, ReachedClosed DEF Below
  <1>3. ASSUME NEW Q, n \in Q, \A p \in DOMAIN tree.edges : p[1] \in Q => p[2] \in Q
        PROVE  Below(n) \subseteq Q
    <2>1. {n} \subseteq Q
      BY <1>3
    <2>2. \A k \in Nat : Layers({n}, DOMAIN tree.edges)[k] \subseteq Q
      BY <1>3, <2>1, ReachedWithin
    <2>3. Below(n) = Layers({n}, DOMAIN tree.edges)[Cardinality(tree.nodes)]
      BY LayersOf DEF Below
    <2>4. Cardinality(tree.nodes) \in Nat
      BY <1>1, FS_CardinalityType
    <2>. QED
      BY <2>2, <2>3, <2>4
  <1>. QED
    BY <1>2, <1>3

\* Of a tree no node of which has two parents the branches of a node are apart.
OneParent == \A n \in tree.nodes \ {Root} : Cardinality(In(tree, n)) = 1

\* Then no node is below two branches.
LEMMA BranchesApart ==
  ASSUME NumbersInv, OneParent, NEW n \in tree.nodes,
         NEW p \in Active(tree, n), NEW q \in Active(tree, n), p # q
  PROVE  Below(p[2]) \cap Below(q[2]) = {}
  <1>. DEFINE E == DOMAIN tree.edges
              a == p[2]
              b == q[2]
  <1>1. /\ \A e \in E : e = <<e[1], e[2]>> /\ e[1] \in tree.nodes /\ e[2] \in tree.nodes
        /\ p \in E /\ q \in E /\ p[1] = n /\ q[1] = n /\ a \in tree.nodes /\ b \in tree.nodes
    BY NumbersFacts DEF Sound, Active, Out
  <1>2. \A e, f \in E : e[2] = f[2] => e = f
    <2>. SUFFICES ASSUME NEW e \in E, NEW f \in E, e[2] = f[2] PROVE e = f
      OBVIOUS
    <2>. DEFINE m == e[2]
    <2>1. e \in In(tree, m) /\ f \in In(tree, m)
      BY DEF In
    <2>2. m # Root
      BY <2>1 DEF NumbersInv, Valid, Proper
    <2>3. Cardinality(In(tree, m)) = 1
      BY <1>1, <2>2 DEF OneParent
    <2>4. IsFiniteSet(In(tree, m))
      <3>1. IsFiniteSet(E) /\ In(tree, m) \subseteq E
        BY NumbersFacts, DrawnFinite DEF In
      <3>. QED
        BY <3>1, FS_Subset
    <2>. HIDE DEF m
    <2>. QED
      BY <2>1, <2>3, <2>4, AtMostOne
  <1>3. a # b
    BY <1>1
  <1>4. PICK level \in [tree.nodes -> 0 .. Cardinality(tree.nodes)] : \A e \in E : level[e[1]] < level[e[2]]
    BY <1>1, NumbersFacts, Levels DEF Sound
  <1>5. \A m \in tree.nodes : level[m] \in Nat
    <2>1. Cardinality(tree.nodes) \in Nat
      BY NumbersFacts, FS_CardinalityType DEF Sound
    <2>. QED
      BY <1>4, <2>1
  <1>. HIDE DEF E, a, b
  \* What leads to a node below another is below it too.
  <1>6. ASSUME NEW c \in tree.nodes, NEW e \in E, e[2] \in Below(c), e[2] # c PROVE e[1] \in Below(c)
    <2>. DEFINE Q == Below(c) \ {e[2]}
    <2>1. SUFFICES ASSUME e[1] \notin Below(c) PROVE FALSE
      OBVIOUS
    <2>2. c \in Q
      BY <1>6, BelowIs
    <2>3. \A f \in E : f[1] \in Q => f[2] \in Q
      <3>. SUFFICES ASSUME NEW f \in E, f[1] \in Below(c) PROVE f[2] \in Below(c) /\ f[2] # e[2]
        OBVIOUS
      <3>1. f[2] \in Below(c)
        BY BelowIs DEF E
      <3>2. f[2] # e[2]
        BY <1>2, <2>1
      <3>. QED
        BY <3>1, <3>2
    <2>4. Below(c) \subseteq Q
      <3>. HIDE DEF Q
      <3>. QED
        BY <2>2, <2>3, BelowIs DEF E
    <2>. QED
      BY <1>6, <2>4
  <1>7. ASSUME NEW c \in tree.nodes PROVE \A m \in Below(c) : level[c] <= level[m]
    <2>. DEFINE Q == {m \in tree.nodes : level[c] <= level[m]}
    <2>1. c \in Q
      BY <1>5
    <2>2. \A f \in E : f[1] \in Q => f[2] \in Q
      BY <1>1, <1>4, <1>5
    <2>. HIDE DEF Q
    <2>3. Below(c) \subseteq Q
      BY <2>1, <2>2, BelowIs DEF E
    <2>. QED
      BY <2>3 DEF Q
  \* Neither end is below the other.
  <1>8. ASSUME NEW e \in E, NEW f \in E, e[1] = f[1], e[2] # f[2] PROVE e[2] \notin Below(f[2])
    <2>1. SUFFICES ASSUME e[2] \in Below(f[2]) PROVE FALSE
      OBVIOUS
    <2>2. e[1] \in Below(f[2])
      BY <1>1, <1>6, <1>8, <2>1
    <2>3. level[f[2]] <= level[f[1]] /\ level[f[1]] < level[f[2]]
      BY <1>1, <1>4, <1>7, <1>8, <2>2
    <2>. QED
      BY <1>1, <1>5, <2>3
  <1>. DEFINE T == {m \in tree.nodes : ~(m \in Below(a) /\ m \in Below(b))}
  <1>9. tree.nodes \subseteq T
    <2>. DEFINE rank == [m \in tree.nodes |-> level[m]]
    <2>1. rank \in [tree.nodes -> Nat]
      BY <1>5
    <2>2. ASSUME NEW m \in tree.nodes, \A k \in tree.nodes : rank[k] < rank[m] => k \in T
          PROVE  m \in T
      <3>. SUFFICES ASSUME m \in Below(a), m \in Below(b) PROVE FALSE
        OBVIOUS
      <3>1. m # a /\ m # b
        BY <1>1, <1>3, <1>8 DEF a, b
      <3>2. \E e \in E : e[2] = m
        <4>1. SUFFICES ASSUME ~\E e \in E : e[2] = m PROVE FALSE
          OBVIOUS
        <4>. DEFINE Q == Below(a) \ {m}
        <4>2. a \in Q
          BY <1>1, <3>1, BelowIs
        <4>3. \A f \in E : f[1] \in Q => f[2] \in Q
          BY <1>1, <4>1, BelowIs DEF E
        <4>. HIDE DEF Q
        <4>4. Below(a) \subseteq Q
          BY <1>1, <4>2, <4>3, BelowIs DEF E
        <4>. QED
          BY <4>4 DEF Q
      <3>3. PICK e \in E : e[2] = m
        BY <3>2
      <3>4. e[1] \in Below(a) /\ e[1] \in Below(b)
        BY <1>1, <1>6, <3>1, <3>3
      <3>5. e[1] \in tree.nodes /\ rank[e[1]] < rank[m]
        BY <1>1, <1>4, <3>3
      <3>. QED
        BY <2>2, <3>4, <3>5
    <2>. HIDE DEF T, rank
    <2>. QED
      BY <2>1, <2>2, Ascent
  <1>10. Below(a) \subseteq tree.nodes
    BY <1>1, BelowIs
  <1>. QED
    BY <1>9, <1>10 DEF a, b

Acts(n) == TypeOf[n] # "Environment"

\* Where everything is there, what is followed of a node is all but environments.
LEMMA WholeNodes ==
  ASSUME NumbersInv, Whole
  PROVE  /\ OneParent
         /\ \A n \in tree.nodes : ~Acts(n) => Out(tree, n) = {}
         /\ \A n \in tree.nodes : Acts(n) /\ LeafNode(n) => Out(tree, n) = {}
         /\ \A n \in tree.nodes : ~LeafNode(n) => Active(tree, n) # {} /\ Out(tree, n) # {}
         /\ \A n \in tree.nodes : \A q \in Active(tree, n) : q[2] \in tree.nodes /\ Acts(q[2])
         /\ \A q \in DOMAIN tree.edges : Acts(q[2]) => q \in Active(tree, q[1])
         /\ Acts(Root)
  <1>1. OneParent
    BY DEF Whole, OneParent
  <1>2. \A p \in DOMAIN tree.edges : TypeOf[p[2]] \in AllowedChildren[TypeOf[p[1]]]
    BY DEF NumbersInv, Valid, Proper, EdgeRules
  <1>3. ASSUME NEW n \in tree.nodes, ~Acts(n) PROVE Out(tree, n) = {}
    BY <1>2, <1>3 DEF Acts, Out, AllowedChildren
  <1>4. ASSUME NEW n \in tree.nodes, Acts(n), LeafNode(n) PROVE Out(tree, n) = {}
    <2>1. SUFFICES ASSUME NEW p \in Out(tree, n) PROVE FALSE
      OBVIOUS
    <2>2. TypeOf[p[2]] = "Environment" /\ p \in DOMAIN tree.edges /\ p[1] = n
      BY <1>4 DEF LeafNode, Context, Out
    <2>3. TypeOf[n] \in DOMAIN AllowedChildren
      BY NodesAssumption DEF NumbersInv, Drawn
    <2>4. TypeOf[n] = "Loss"
      BY <1>2, <2>2, <2>3 DEF AllowedChildren
    <2>5. Terminal(n)
      BY <1>4 DEF Whole, Acts, LeafNode
    <2>. QED
      BY <2>4, <2>5 DEF Terminal
  <1>5. ASSUME NEW n \in tree.nodes, ~LeafNode(n) PROVE Active(tree, n) # {} /\ Out(tree, n) # {}
    BY <1>5 DEF LeafNode, Active, Whole, Out
  <1>6. ASSUME NEW n \in tree.nodes, NEW q \in Active(tree, n) PROVE q[2] \in tree.nodes /\ Acts(q[2])
    BY NumbersFacts DEF Active, Out, Context, Acts, Sound
  <1>7. ASSUME NEW q \in DOMAIN tree.edges, Acts(q[2]) PROVE q \in Active(tree, q[1])
    BY <1>7 DEF Active, Out, Context, Acts, Whole
  <1>8. Acts(Root)
    <2>1. Root \in {n \in tree.nodes : TypeOf[n] = "Loss"}
      BY DEF NumbersInv, Valid, Proper
    <2>. QED
      BY <2>1 DEF Acts
  <1>. QED
    BY <1>1, <1>3, <1>4, <1>5, <1>6, <1>7, <1>8

\* A scenario that is complete, with a number for every metric, of leaves below n.
SureScene(s, n) ==
  s.complete /\ s.values \in [DOMAIN rules -> Nat] /\ s.leaves \subseteq Below(n)
Sure(n) == \A s \in Range(Metrics[n].scenarios) : SureScene(s, n)

\* A leaf has one scenario, and it is sure.
LEMMA LeafSure ==
  ASSUME NumbersInv, Hostile, Whole, profile.encounters = "fixed",
         NEW n \in tree.nodes, Acts(n), LeafNode(n)
  PROVE  Metrics[n].complete /\ Len(Metrics[n].scenarios) = 1 /\ Sure(n)
  <1>. DEFINE input == inputs[n]
              raw == [id \in DOMAIN rules |->
                        IF id \in DOMAIN input /\ Known(input[id]) THEN input[id] ELSE rules[id].default]
              scene == Scenario({n}, raw, FALSE, TRUE)
  <1>1. Terminal(n) /\ \A id \in DOMAIN rules :
                /\ id \in DOMAIN inputs[n] /\ Known(inputs[n][id])
                /\ InDomain(rules[id], inputs[n][id])
    BY DEF Whole, Acts, LeafNode
  <1>2. input \in [DOMAIN input -> Number] /\ DOMAIN input \subseteq DOMAIN rules
    BY NumbersFacts
  <1>3. \A id \in DOMAIN rules : raw[id] = input[id] /\ raw[id] \in Nat /\ Known(raw[id])
    BY <1>1, <1>2 DEF Known, Number
  <1>4. raw \in [DOMAIN rules -> Nat]
    BY <1>3
  <1>5. Terminates(n, input, FALSE, rules, profile) =
          [scenarios |-> <<Scenario({n}, raw, FALSE, \A id \in DOMAIN rules : Known(raw[id]))>>,
           scalar |-> raw, complete |-> \A id \in DOMAIN rules : Known(raw[id])]
    <2>. DEFINE valid == \A id \in DOMAIN input : id \in DOMAIN rules /\ InDomain(rules[id], input[id])
    <2>1. valid
      BY <1>1, <1>2
    <2>. HIDE DEF valid
    <2>2. Terminates(n, input, FALSE, rules, profile) =
            IF ~Terminal(n) \/ ~valid THEN Withheld(rules)
            ELSE [scenarios |-> <<Scenario({n}, raw, FALSE, \A id \in DOMAIN rules : Known(raw[id]))>>,
                  scalar |-> raw, complete |-> \A id \in DOMAIN rules : Known(raw[id])]
      BY DEF Terminates, valid
    <2>. QED
      BY <1>1, <2>1, <2>2
  <1>6. Terminates(n, input, FALSE, rules, profile) =
          [scenarios |-> <<scene>>, scalar |-> raw, complete |-> TRUE]
    <2>1. (\A id \in DOMAIN rules : Known(raw[id])) = TRUE
      BY <1>3
    <2>. HIDE DEF raw
    <2>. QED
      BY <1>5, <2>1
  <1>. HIDE DEF raw
  <1>7. SureScene(scene, n)
    BY <1>4, BelowIs DEF SureScene, Scenario
  <1>8. scene.complete
    BY DEF Scenario
  <1>. HIDE DEF scene
  <1>9. Raw(n) = [scenarios |-> <<scene>>, scalar |-> raw, complete |-> TRUE]
    BY <1>6, RawIs
  <1>10. Raw(n).scenarios = <<scene>> /\ Raw(n).complete
    BY <1>9
  <1>11. Range(<<scene>>) = {scene} /\ Len(<<scene>>) = 1
    BY DEF Range
  <1>12. Metrics[n].scenarios = <<scene>> /\ Metrics[n].complete
    BY <1>8, <1>10, <1>11, NodeIs
  <1>. QED
    BY <1>7, <1>11, <1>12 DEF Sure

\* What is joined of sure scenarios is one.
LEMMA JoinedSure ==
  ASSUME NumbersInv, Hostile, OneParent, NEW n \in tree.nodes, Active(tree, n) # {},
         NEW f \in [Active(tree, n) -> Scenes],
         \A q \in Active(tree, n) : SureScene(f[q], q[2]), NEW gate
  PROVE  SureScene(Joined(f, gate, rules), n)
  <1>. DEFINE A == Active(tree, n)
              numbers(id) == [q \in A |-> f[q].values[id]]
              values == [id \in DOMAIN rules |-> Aggregate(numbers(id), rules[id][gate])]
              apart == \A i, j \in A : i # j => f[i].leaves \cap f[j].leaves = {}
              ok == \A i \in A : f[i].complete
              known == \A id \in DOMAIN rules : Known(values[id])
              leaves == UNION {f[i].leaves : i \in A}
  <1>1. IsFiniteSet(A) /\ A # {} /\ DOMAIN f = A
    BY NumbersFacts, DrawnFinite
  <1>2. \A q \in A : /\ f[q].values \in [DOMAIN rules -> Nat] /\ f[q].complete
                     /\ f[q].leaves \subseteq Below(q[2])
    BY DEF SureScene
  <1>3. \A id \in DOMAIN rules : numbers(id) \in [A -> Nat]
    BY <1>2
  <1>. HIDE DEF numbers
  <1>4. \A id \in DOMAIN rules : Aggregate(numbers(id), rules[id][gate]) \in Nat
    <2>. HIDE DEF A
    <2>. QED
      BY <1>1, <1>3, AggregateNat
  <1>5. values \in [DOMAIN rules -> Nat]
    BY <1>4
  <1>6. known
    BY <1>4 DEF Known, Null
  <1>7. apart
    <2>. SUFFICES ASSUME NEW i \in A, NEW j \in A, i # j PROVE f[i].leaves \cap f[j].leaves = {}
      OBVIOUS
    <2>1. Below(i[2]) \cap Below(j[2]) = {}
      BY BranchesApart
    <2>. QED
      BY <1>2, <2>1
  <1>8. ok
    BY <1>2
  <1>9. leaves \subseteq Below(n)
    <2>1. \A q \in A : q[2] \in tree.nodes /\ q \in DOMAIN tree.edges /\ q[1] = n
      BY NumbersFacts DEF Active, Out, Sound
    <2>2. ASSUME NEW q \in A PROVE Below(q[2]) \subseteq Below(n)
      BY <2>1, BelowIs
    <2>. QED
      BY <1>2, <2>2
  <1>10. Joined(f, gate, rules) = Scenario(leaves, values, FALSE, apart /\ ok /\ known)
    BY <1>1 DEF Joined, numbers
  <1>11. (apart /\ ok /\ known) = TRUE
    BY <1>6, <1>7, <1>8
  <1>. HIDE DEF apart, ok, known, leaves, values
  <1>12. Joined(f, gate, rules) = Scenario(leaves, values, FALSE, TRUE)
    BY <1>10, <1>11
  <1>. QED
    BY <1>5, <1>9, <1>12 DEF Scenario, SureScene

\* So are the scenarios of every node.
LEMMA AllSure ==
  ASSUME NumbersInv, Hostile, Whole, profile.encounters = "fixed"
  PROVE  \A n \in tree.nodes : Acts(n) => Sure(n)
  <1>. DEFINE T == {n \in tree.nodes : Acts(n) => Sure(n)}
  <1>1. PICK height \in [tree.nodes -> Nat] :
          \A n \in tree.nodes : \A p \in Active(tree, n) : p[2] \in tree.nodes /\ height[p[2]] < height[n]
    BY NumbersFacts, SoundHeights
  <1>2. ASSUME NEW n \in tree.nodes, \A m \in tree.nodes : height[m] < height[n] => m \in T
        PROVE  n \in T
    <2>. SUFFICES ASSUME Acts(n) PROVE Sure(n)
      OBVIOUS
    <2>. DEFINE A == Active(tree, n)
    <2>1. CASE LeafNode(n)
      BY <2>1, LeafSure
    <2>2. CASE ~LeafNode(n)
      <3>1. A # {} /\ \A q \in A : Acts(q[2]) /\ q[2] \in tree.nodes
        BY <2>2, WholeNodes
      <3>2. \A q \in A : Sure(q[2])
        BY <1>1, <1>2, <3>1
      <3>3. ASSUME NEW q \in A, NEW s \in Offers(q) PROVE SureScene(s, q[2])
        <4>1. ~tree.edges[q].blocked
          BY <3>3, SimpleOutcomes DEF Offers, Got, Range
        <4>. QED
          BY <3>2, <3>3, <4>1 DEF Offers, Got, Sure
      <3>4. ASSUME NEW s \in Made(n) PROVE SureScene(s, n)
        <4>1. CASE IsOr(n)
          <5>1. PICK q \in A : s \in Offers(q)
            BY <3>4, <4>1 DEF Made
          <5>2. SureScene(s, q[2])
            BY <3>3, <5>1
          <5>3. Below(q[2]) \subseteq Below(n)
            <6>1. q[2] \in tree.nodes /\ q \in DOMAIN tree.edges /\ q[1] = n
              BY <3>1 DEF Active, Out
            <6>. QED
              BY <6>1, BelowIs
          <5>. QED
            BY <5>2, <5>3 DEF SureScene
        <4>2. CASE ~IsOr(n)
          <5>1. PICK f \in Selections(n) : s = Joined(f, GateAt(n), rules)
            BY <3>4, <4>2 DEF Made
          <5>2. f \in [A -> Scenes] /\ \A q \in A : SureScene(f[q], q[2])
            BY <3>3 DEF Selections
          <5>. QED
            BY <3>1, <5>1, <5>2, WholeNodes, JoinedSure
        <4>. QED
          BY <4>1, <4>2
      <3>5. Metrics[n].scenarios = Act(n).scenarios
        BY <2>2, <3>1, RawIs, NodeIs
      <3>. QED
        BY <3>4, <3>5, ActIs DEF Sure
    <2>. QED
      BY <2>1, <2>2
  <1>. HIDE DEF T
  <1>3. tree.nodes \subseteq T
    BY <1>1, <1>2, Ascent
  <1>. QED
    BY <1>3 DEF T

\* A node is complete if what it follows is and its scenarios are within the budget,
\* and has as many scenarios as there are ways then.
Exact(n) ==
  /\ Metrics[n].complete <=>
       /\ \A q \in Active(tree, n) : ~tree.edges[q].blocked => Metrics[q[2]].complete
       /\ Ways(tree)[n] <= profile.cap
  /\ Metrics[n].complete => Len(Metrics[n].scenarios) = Ways(tree)[n]

\* Every node is exact.
LEMMA AllExact ==
  ASSUME NumbersInv, Hostile, Whole, profile.encounters = "fixed"
  PROVE  \A n \in tree.nodes : Acts(n) => Exact(n)
  <1>. DEFINE T == {n \in tree.nodes : Acts(n) => Exact(n)}
              W == Ways(tree)
  <1>1. PICK height \in [tree.nodes -> Nat] :
          \A n \in tree.nodes : \A p \in Active(tree, n) : p[2] \in tree.nodes /\ height[p[2]] < height[n]
    BY NumbersFacts, SoundHeights
  <1>2. ASSUME NEW n \in tree.nodes, \A m \in tree.nodes : height[m] < height[n] => m \in T
        PROVE  n \in T
    <2>. SUFFICES ASSUME Acts(n) PROVE Exact(n)
      OBVIOUS
    <2>. DEFINE A == Active(tree, n)
    <2>1. W[n] = WaysAt(WaysParts(W, n), n) /\ W[n] \in Nat /\ profile.cap \in Nat /\ profile.cap # 0
      BY WaysAre, NumbersFacts
    <2>2. CASE LeafNode(n)
      <3>1. Out(tree, n) = {}
        BY <2>2, WholeNodes
      <3>2. A = {} /\ W[n] = 1
        BY <2>1, <3>1 DEF Active, WaysAt
      <3>3. Metrics[n].complete /\ Len(Metrics[n].scenarios) = 1
        BY <2>2, LeafSure
      <3>4. W[n] <= profile.cap
        BY <2>1, <3>2
      <3>. QED
        BY <3>2, <3>3, <3>4 DEF Exact
    <2>3. CASE ~LeafNode(n)
      <3>1. A # {} /\ Out(tree, n) # {} /\ \A q \in A : Acts(q[2]) /\ q[2] \in tree.nodes
        BY <2>3, WholeNodes
      <3>2. \A q \in A : Exact(q[2])
        BY <1>1, <1>2, <3>1
      <3>3. (\A q \in A : Got(q).complete) <=>
              \A q \in A : ~tree.edges[q].blocked => Metrics[q[2]].complete
        BY SimpleOutcomes DEF Got
      <3>4. Raw(n).scenarios = Act(n).scenarios /\ Metrics[n].scenarios = Act(n).scenarios
            /\ (Raw(n).complete <=> SizeAt(n) <= profile.cap /\ \A q \in A : Got(q).complete)
        BY <2>3, <3>1, RawIs, NodeIs
      <3>5. Metrics[n].complete <=> Raw(n).complete
        <4>1. \A s \in Range(Raw(n).scenarios) : s.complete
          BY <3>4, AllSure DEF Sure, SureScene
        <4>. QED
          BY <4>1, NodeIs
      <3>6. ASSUME \A q \in A : Got(q).complete PROVE SizeAt(n) = W[n]
        <4>1. ASSUME NEW q \in A
              PROVE  Len(Got(q).scenarios) = IF tree.edges[q].blocked THEN 0 ELSE W[q[2]]
          <5>1. CASE tree.edges[q].blocked
            <6>1. Got(q).scenarios = <<>>
              BY <5>1, SimpleOutcomes DEF Got
            <6>2. Len(<<>>) = 0
              OBVIOUS
            <6>. QED
              BY <5>1, <6>1, <6>2
          <5>2. CASE ~tree.edges[q].blocked
            BY <3>2, <3>6, <5>2 DEF Got, Exact
          <5>. QED
            BY <5>1, <5>2
        <4>2. Sizes(n) = WaysParts(W, n)
          BY <4>1 DEF Sizes, WaysParts
        <4>. QED
          BY <2>1, <3>1, <4>2 DEF SizeAt, WaysAt, IsOr
      <3>7. SizeAt(n) <= profile.cap => Len(Act(n).scenarios) = SizeAt(n)
        BY ActIs
      <3>. QED
        BY <3>3, <3>4, <3>5, <3>6, <3>7 DEF Exact
    <2>. QED
      BY <2>2, <2>3
  <1>. HIDE DEF T
  <1>3. tree.nodes \subseteq T
    BY <1>1, <1>2, Ascent
  <1>. QED
    BY <1>3 DEF T

\* The invariant leaves the budget no other way.
LEMMA BudgetHolds == ASSUME NumbersInv PROVE BudgetIsExact
  <1>. SUFFICES ASSUME Hostile, Whole, profile.encounters = "fixed"
                PROVE  Metrics[Root].complete <=> \A n \in Analysed : Ways(tree)[n] <= profile.cap
    BY DEF BudgetIsExact
  <1>. DEFINE U == {p \in DOMAIN tree.edges : ~tree.edges[p].blocked}
              W == Ways(tree)
              cap == profile.cap
  <1>1. /\ \A n \in tree.nodes : ~Acts(n) => Out(tree, n) = {}
        /\ \A q \in DOMAIN tree.edges : Acts(q[2]) => q \in Active(tree, q[1])
        /\ Acts(Root)
    BY WholeNodes
  <1>2. /\ IsFiniteSet(tree.nodes) /\ Root \in tree.nodes
        /\ \A p \in DOMAIN tree.edges : p[1] \in tree.nodes /\ p[2] \in tree.nodes
    BY NumbersFacts DEF Sound
  <1>3. /\ Analysed \subseteq tree.nodes /\ Root \in Analysed
        /\ \A p \in U : p[1] \in Analysed => p[2] \in Analysed
    <2>1. {Root} \in SUBSET tree.nodes /\ \A p \in U : p[2] \in tree.nodes
      BY <1>2
    <2>2. Analysed = ReachFrom(tree, {Root}, U)
      BY DEF Analysed
    <2>. HIDE DEF U
    <2>. QED
      BY <1>2, <2>1, <2>2, ReachedClosed
  <1>4. \A n \in tree.nodes : Acts(n) => Exact(n)
    BY AllExact
  <1>5. ASSUME Metrics[Root].complete PROVE \A n \in Analysed : W[n] <= cap
    <2>. DEFINE Q == {n \in tree.nodes : Acts(n) => Metrics[n].complete}
    <2>1. {Root} \subseteq Q
      BY <1>2, <1>5
    <2>2. ASSUME NEW p \in U, p[1] \in Q PROVE p[2] \in Q
      <3>1. p \in DOMAIN tree.edges /\ ~tree.edges[p].blocked /\ p \in Out(tree, p[1])
        BY DEF Out
      <3>2. Acts(p[1])
        BY <1>1, <1>2, <3>1
      <3>3. Acts(p[2]) => Metrics[p[2]].complete
        BY <1>1, <1>4, <2>2, <3>1, <3>2 DEF Exact
      <3>. QED
        BY <1>2, <3>1, <3>3
    <2>3. Analysed \subseteq Q
      <3>. HIDE DEF Q, U
      <3>1. \A k \in Nat : Layers({Root}, U)[k] \subseteq Q
        BY <2>1, <2>2, ReachedWithin
      <3>2. Analysed = Layers({Root}, U)[Cardinality(tree.nodes)]
        BY LayersOf DEF Analysed, U
      <3>3. Cardinality(tree.nodes) \in Nat
        BY <1>2, FS_CardinalityType
      <3>. QED
        BY <3>1, <3>2, <3>3
    <2>. SUFFICES ASSUME NEW n \in Analysed PROVE W[n] <= cap
      OBVIOUS
    <2>4. CASE Acts(n)
      BY <1>4, <2>3, <2>4 DEF Exact
    <2>5. CASE ~Acts(n)
      <3>1. n \in tree.nodes /\ Out(tree, n) = {}
        BY <1>1, <1>3, <2>5
      <3>2. W[n] = 1
        BY <3>1, WaysAre DEF WaysAt
      <3>3. cap \in Nat /\ cap # 0
        BY NumbersFacts
      <3>. QED
        BY <3>2, <3>3
    <2>. QED
      BY <2>4, <2>5
  <1>6. ASSUME \A n \in Analysed : W[n] <= cap PROVE Metrics[Root].complete
    <2>. DEFINE T == {n \in tree.nodes : n \in Analysed /\ Acts(n) => Metrics[n].complete}
    <2>1. PICK height \in [tree.nodes -> Nat] :
            \A n \in tree.nodes : \A p \in Active(tree, n) : p[2] \in tree.nodes /\ height[p[2]] < height[n]
      BY NumbersFacts, SoundHeights
    <2>2. ASSUME NEW n \in tree.nodes, \A m \in tree.nodes : height[m] < height[n] => m \in T
          PROVE  n \in T
      <3>. SUFFICES ASSUME n \in Analysed, Acts(n) PROVE Metrics[n].complete
        OBVIOUS
      <3>1. ASSUME NEW q \in Active(tree, n), ~tree.edges[q].blocked PROVE Metrics[q[2]].complete
        <4>1. q \in U /\ q[1] = n /\ Acts(q[2])
          BY <3>1 DEF Active, Out, Context, Acts
        <4>2. q[2] \in Analysed
          BY <1>3, <4>1
        <4>. QED
          BY <2>1, <2>2, <4>1, <4>2
      <3>. QED
        BY <1>4, <1>6, <3>1 DEF Exact
    <2>. HIDE DEF T
    <2>3. tree.nodes \subseteq T
      BY <2>1, <2>2, Ascent
    <2>. QED
      BY <1>1, <1>2, <1>3, <2>3 DEF T
  <1>. QED
    BY <1>5, <1>6

\* With every input there, nothing tailored out and no leaf shared, the analysis of
\* adversaries is complete exactly if no node has more scenarios than the profile allows.
THEOREM BudgetExact == AnalysisSpec => []BudgetIsExact
  <1>1. NumbersInv => BudgetIsExact
    BY BudgetHolds
  <1>. QED
    BY <1>1, NumbersSafe, PTL

-----------------------------------------------------------------------------
\* What a plan comes to at every node.

Needed(plan, n) == IF n \in Decisions(tree) THEN {plan[n]} ELSE Active(tree, n)
Combined(n) == IF n \in Decisions(tree) THEN [id \in DOMAIN rules |-> "SUM"]
               ELSE [id \in DOMAIN rules |-> rules[id][GateAt(n)]]
PartsOf(value, plan, n) == [q \in Needed(plan, n) \ {Fails} |-> value[q[2]]]
Works(value, plan, n) ==
  /\ Needed(plan, n) \subseteq Open(tree, n) /\ Needed(plan, n) # {}
  /\ \A q \in Needed(plan, n) : value[q[2]] # Fails
ComesTo(value, plan, n) ==
  [id \in DOMAIN rules |-> Aggregate([q \in Needed(plan, n) |-> value[q[2]][id]], Combined(n)[id])]
NumbersAt(value, plan, n) ==
  IF Out(tree, n) = {} THEN Filled(n)
  ELSE IF PartsOf(value, plan, n) = Fails \/ ~Needed(plan, n) \subseteq Open(tree, n) THEN Fails
  ELSE IF Fails \in {PartsOf(value, plan, n)[q] : q \in Needed(plan, n)} THEN Fails
  ELSE [id \in DOMAIN rules |->
         Aggregate([q \in Needed(plan, n) |-> PartsOf(value, plan, n)[q][id]],
           IF n \in Decisions(tree) THEN "SUM" ELSE rules[id][CHOOSE g \in Gates(tree, n) : TRUE])]
ValuesOf(plan) == CHOOSE value : value = [n \in tree.nodes |-> NumbersAt(value, plan, n)]

\* An open branch is a relationship of the node.
LEMMA OpenApart ==
  ASSUME NumbersInv, NEW n, NEW q \in Open(tree, n)
  PROVE  /\ q # Fails /\ q \in Active(tree, n) /\ ~tree.edges[q].blocked
         /\ q[2] \in tree.nodes /\ q[1] = n /\ q \in DOMAIN tree.edges
  <1>1. q \in Active(tree, n) /\ ~tree.edges[q].blocked
    BY DEF Open
  <1>2. q \in DOMAIN tree.edges /\ q[1] = n
    BY <1>1 DEF Active, Out
  <1>3. q \in tree.nodes \X tree.nodes
    BY <1>2 DEF NumbersInv, Drawn
  <1>4. Len(q) = 2 /\ Len(<<>>) = 0
    BY <1>3
  <1>. QED
    BY <1>1, <1>2, <1>3, <1>4 DEF Fails

\* Fails is no function that has a domain.
LEMMA EmptyFunction == ASSUME NEW f, NEW S, f = [q \in S |-> f[q]] PROVE f = <<>> <=> S = {}
  <1>1. DOMAIN <<>> = {} /\ <<>> = [q \in {} |-> <<>>[q]]
    OBVIOUS
  <1>2. DOMAIN f = S
    OBVIOUS
  <1>3. ASSUME S = {} PROVE f = <<>>
    BY <1>1, <1>3
  <1>. QED
    BY <1>1, <1>2, <1>3


\* A node comes to what is needed comes to, if all of that succeeds.
LEMMA NumbersAtIs ==
  ASSUME NumbersInv, NEW value, NEW plan, NEW n
  PROVE  NumbersAt(value, plan, n) =
           IF Out(tree, n) = {} THEN Filled(n)
           ELSE IF Works(value, plan, n) THEN ComesTo(value, plan, n) ELSE Fails
  <1>. DEFINE need == Needed(plan, n)
              parts == PartsOf(value, plan, n)
  <1>. SUFFICES ASSUME Out(tree, n) # {}
                PROVE  NumbersAt(value, plan, n) = IF Works(value, plan, n) THEN ComesTo(value, plan, n) ELSE Fails
    BY DEF NumbersAt
  <1>1. CASE ~(need \subseteq Open(tree, n))
    BY <1>1 DEF NumbersAt, Works
  <1>2. CASE need \subseteq Open(tree, n)
    <2>1. need \ {Fails} = need
      BY <1>2, OpenApart
    <2>2. parts = [q \in need |-> value[q[2]]]
      BY <2>1 DEF PartsOf
    <2>3. parts = Fails <=> need = {}
      BY <2>2, EmptyFunction DEF Fails
    <2>4. Fails \in {parts[q] : q \in need} <=> \E q \in need : value[q[2]] = Fails
      BY <2>2
    <2>5. Works(value, plan, n) <=> ~(parts = Fails) /\ ~(Fails \in {parts[q] : q \in need})
      BY <1>2, <2>3, <2>4 DEF Works
    <2>6. ASSUME NEW id \in DOMAIN rules
          PROVE  Aggregate([q \in need |-> parts[q][id]],
                   IF n \in Decisions(tree) THEN "SUM" ELSE rules[id][CHOOSE g \in Gates(tree, n) : TRUE]) =
                 Aggregate([q \in need |-> value[q[2]][id]], Combined(n)[id])
      <3>1. [q \in need |-> parts[q][id]] = [q \in need |-> value[q[2]][id]]
        BY <2>2
      <3>2. (IF n \in Decisions(tree) THEN "SUM" ELSE rules[id][CHOOSE g \in Gates(tree, n) : TRUE])
              = Combined(n)[id]
        BY DEF Combined, GateAt
      <3>. QED
        BY <3>1, <3>2
    <2>. HIDE DEF need, parts
    <2>7. [id \in DOMAIN rules |->
            Aggregate([q \in need |-> parts[q][id]],
              IF n \in Decisions(tree) THEN "SUM" ELSE rules[id][CHOOSE g \in Gates(tree, n) : TRUE])]
          = ComesTo(value, plan, n)
      BY <2>6 DEF ComesTo, need
    <2>8. NumbersAt(value, plan, n) =
            IF Out(tree, n) = {} THEN Filled(n)
            ELSE IF parts = Fails \/ ~(need \subseteq Open(tree, n)) THEN Fails
            ELSE IF Fails \in {parts[q] : q \in need} THEN Fails
            ELSE [id \in DOMAIN rules |->
                   Aggregate([q \in need |-> parts[q][id]],
                     IF n \in Decisions(tree) THEN "SUM" ELSE rules[id][CHOOSE g \in Gates(tree, n) : TRUE])]
      BY Zenon DEF NumbersAt, need, parts
    <2>. QED
      BY <1>2, <2>5, <2>7, <2>8
  <1>. QED
    BY <1>1, <1>2

\* The numbers of a plan are those equations.
LEMMA NumbersAre ==
  ASSUME NumbersInv, NEW plan
  PROVE  /\ \A n \in tree.nodes : ValuesOf(plan)[n] =
              IF Out(tree, n) = {} THEN Filled(n)
              ELSE IF Works(ValuesOf(plan), plan, n) THEN ComesTo(ValuesOf(plan), plan, n) ELSE Fails
         /\ Numbers(tree, plan) = ValuesOf(plan)[Root]
  <1>. DEFINE V == [DOMAIN rules -> Number] \cup {Fails}
              A == tree.nodes
              At(value, n) == IF Out(tree, n) = {} THEN Filled(n)
                              ELSE IF Works(value, plan, n) THEN ComesTo(value, plan, n) ELSE Fails
              B == [n \in A |-> [f \in [A -> V] |-> At(f, n)]]
              Is(value) == value = [n \in A |-> NumbersAt(value, plan, n)]
  <1>1. PICK height \in [A -> Nat] :
          \A n \in A : \A p \in Active(tree, n) : p[2] \in A /\ height[p[2]] < height[n]
    BY NumbersFacts, SoundHeights
  <1>2. ASSUME NEW n \in A, NEW f \in [A -> V] PROVE At(f, n) \in V
    <2>1. Filled(n) \in [DOMAIN rules -> Number]
      BY NumbersFacts DEF Filled
    <2>2. ASSUME Works(f, plan, n) PROVE ComesTo(f, plan, n) \in [DOMAIN rules -> Number]
      <3>. DEFINE need == Needed(plan, n)
      <3>1. need \subseteq Active(tree, n) /\ \A q \in need : f[q[2]] # Fails
        BY <2>2 DEF Works, Open
      <3>2. IsFiniteSet(need)
        BY <3>1, NumbersFacts, DrawnFinite, FS_Subset
      <3>3. \A q \in need : f[q[2]] \in [DOMAIN rules -> Number]
        BY <1>1, <3>1
      <3>4. \A id \in DOMAIN rules : [q \in need |-> f[q[2]][id]] \in [need -> Number]
        BY <3>3
      <3>5. \A id \in DOMAIN rules : Aggregate([q \in need |-> f[q[2]][id]], Combined(n)[id]) \in Number
        <4>. HIDE DEF need
        <4>. SUFFICES ASSUME NEW id \in DOMAIN rules
                      PROVE  Aggregate([q \in need |-> f[q[2]][id]], Combined(n)[id]) \in Number
          OBVIOUS
        <4>. DEFINE g == [q \in need |-> f[q[2]][id]]
        <4>1. g \in [need -> Number]
          BY <3>4
        <4>. HIDE DEF g
        <4>2. Aggregate(g, Combined(n)[id]) \in Number
          BY <3>2, <4>1, AggregateNumber
        <4>. QED
          BY <4>2 DEF g
      <3>. QED
        BY <3>5 DEF ComesTo
    <2>. QED
      BY <2>1, <2>2
  <1>3. ASSUME NEW n \in A, NEW f, NEW g, \A m \in A : height[m] < height[n] => f[m] = g[m]
        PROVE  At(f, n) = At(g, n)
    <2>1. CASE ~(Needed(plan, n) \subseteq Open(tree, n))
      BY <2>1 DEF Works
    <2>2. CASE Needed(plan, n) \subseteq Open(tree, n)
      <3>1. \A q \in Needed(plan, n) : f[q[2]] = g[q[2]]
        BY <1>1, <1>3, <2>2 DEF Open
      <3>2. Works(f, plan, n) <=> Works(g, plan, n)
        BY <3>1 DEF Works
      <3>3. ComesTo(f, plan, n) = ComesTo(g, plan, n)
        <4>1. \A id : [q \in Needed(plan, n) |-> f[q[2]][id]] = [q \in Needed(plan, n) |-> g[q[2]][id]]
          BY <3>1
        <4>. QED
          BY <4>1 DEF ComesTo
      <3>. QED
        BY <3>2, <3>3
    <2>. QED
      BY <2>1, <2>2
  <1>. HIDE DEF V, At
  <1>4. Founded(A, V, height, B)
    <2>1. [A -> V] # {}
      <3>1. [n \in A |-> Fails] \in [A -> V]
        BY DEF V
      <3>. QED
        BY <3>1
    <2>2. B \in [A -> [[A -> V] -> V]]
      BY <1>2
    <2>3. ASSUME NEW n \in A, NEW f \in [A -> V], NEW g \in [A -> V],
                 \A m \in A : height[m] < height[n] => f[m] = g[m]
          PROVE  B[n][f] = B[n][g]
      BY <1>3, <2>3
    <2>. HIDE DEF A, B
    <2>. QED
      BY <1>1, <2>1, <2>2, <2>3 DEF Founded
  <1>5. PICK g \in [A -> V] : \A n \in A : g[n] = B[n][g]
    <2>. HIDE DEF A, B
    <2>. QED
      BY <1>4, Recursion
  <1>6. \A value, n : NumbersAt(value, plan, n) = At(value, n)
    BY NumbersAtIs DEF At
  <1>7. Is(g)
    BY <1>5, <1>6
  <1>8. ValuesOf(plan) = CHOOSE value : Is(value)
    BY DEF ValuesOf
  <1>9. Is(ValuesOf(plan))
    <2>. HIDE DEF Is
    <2>. QED
      BY <1>7, <1>8
  <1>10. \A n \in A : ValuesOf(plan)[n] = At(ValuesOf(plan), n)
    BY <1>6, <1>9
  <1>11. Numbers(tree, plan) = ValuesOf(plan)[Root]
    BY Zenon DEF Numbers, ValuesOf, NumbersAt, Needed, PartsOf
  <1>. QED
    BY <1>10, <1>11 DEF At

\* A complete node has what is made of its branches, which are complete too.
LeafHas(n) ==
  /\ Out(tree, n) = {}
  /\ Filled(n) \in [DOMAIN rules -> Nat]
  /\ Range(Metrics[n].scenarios) = {Scenario({n}, Filled(n), FALSE, TRUE)}
BranchesHave(n) ==
  /\ Out(tree, n) # {} /\ Active(tree, n) # {}
  /\ Range(Metrics[n].scenarios) = Made(n)
  /\ \A q \in Open(tree, n) : Metrics[q[2]].complete

\* A complete node is a leaf with its inputs or has everything its branches make.
LEMMA CompleteNode ==
  ASSUME NumbersInv, Hostile, NEW n \in tree.nodes, Metrics[n].complete
  PROVE  /\ LeafHas(n) \/ BranchesHave(n)
         /\ \A s \in Range(Metrics[n].scenarios) : s.complete
  <1>1. Raw(n).complete /\ Metrics[n].scenarios = Raw(n).scenarios
        /\ \A s \in Range(Metrics[n].scenarios) : s.complete
    BY NodeIs
  <1>2. CASE LeafNode(n)
    <2>. DEFINE input == inputs[n]
                raw == [id \in DOMAIN rules |->
                          IF id \in DOMAIN input /\ Known(input[id]) THEN input[id] ELSE rules[id].default]
                valid == \A id \in DOMAIN input : id \in DOMAIN rules /\ InDomain(rules[id], input[id])
                whole == \A id \in DOMAIN rules : Known(raw[id])
    <2>1. raw = Filled(n)
      BY DEF Filled
    <2>2. raw \in [DOMAIN rules -> Number]
      BY NumbersFacts
    <2>. HIDE DEF valid, raw
    <2>3. Raw(n) = IF ~Terminal(n) \/ ~valid THEN Withheld(rules)
                   ELSE [scenarios |-> <<Scenario({n}, raw, FALSE, whole)>>, scalar |-> raw, complete |-> whole]
      <3>1. Raw(n) = Terminates(n, input, FALSE, rules, profile)
        BY <1>2, RawIs
      <3>2. Terminates(n, input, FALSE, rules, profile) =
              IF ~Terminal(n) \/ ~valid THEN Withheld(rules)
              ELSE [scenarios |-> <<Scenario({n}, raw, FALSE, whole)>>, scalar |-> raw, complete |-> whole]
        BY DEF Terminates, valid, raw
      <3>. QED
        BY <3>1, <3>2
    <2>. HIDE DEF whole
    <2>4. Terminal(n) /\ valid
      BY <1>1, <2>3, SimpleOutcomes
    <2>5. Raw(n) = [scenarios |-> <<Scenario({n}, raw, FALSE, whole)>>, scalar |-> raw, complete |-> whole]
      BY <2>3, <2>4
    <2>6. whole
      BY <1>1, <2>5
    <2>7. whole = TRUE
      BY <2>6 DEF whole
    <2>. DEFINE scene == Scenario({n}, raw, FALSE, TRUE)
    <2>8. Raw(n).scenarios = <<scene>>
      <3>1. Raw(n) = [scenarios |-> <<scene>>, scalar |-> raw, complete |-> TRUE]
        BY <2>5, <2>7
      <3>. HIDE DEF scene
      <3>. QED
        BY <3>1
    <2>9. \A s : Range(<<s>>) = {s}
      BY DEF Range
    <2>10. raw \in [DOMAIN rules -> Nat]
      BY <2>2, <2>6 DEF whole, Known, Number
    <2>11. Out(tree, n) = {}
      <3>1. SUFFICES ASSUME NEW p \in Out(tree, n) PROVE FALSE
        OBVIOUS
      <3>2. TypeOf[p[2]] = "Environment" /\ p \in DOMAIN tree.edges /\ p[1] = n
        BY <1>2 DEF LeafNode, Context, Out
      <3>3. TypeOf[n] \in DOMAIN AllowedChildren
        BY NodesAssumption DEF NumbersInv, Drawn
      <3>4. TypeOf[p[2]] \in AllowedChildren[TypeOf[p[1]]]
        BY <3>2 DEF NumbersInv, Valid, Proper, EdgeRules
      <3>5. TypeOf[n] = "Loss"
        BY <3>2, <3>3, <3>4 DEF AllowedChildren
      <3>. QED
        BY <2>4, <3>5 DEF Terminal
    <2>12. LeafHas(n)
      BY <1>1, <2>1, <2>8, <2>9, <2>10, <2>11 DEF LeafHas
    <2>. QED
      BY <1>1, <2>12
  <1>3. CASE ~LeafNode(n)
    <2>1. Active(tree, n) # {}
      BY <1>1, <1>3, RawIs
    <2>2. Raw(n).scenarios = Act(n).scenarios /\ SizeAt(n) <= profile.cap
          /\ \A q \in Active(tree, n) : Got(q).complete
      BY <1>1, <1>3, <2>1, RawIs
    <2>3. Range(Metrics[n].scenarios) = Made(n)
      BY <1>1, <2>2, ActIs
    <2>4. Out(tree, n) # {}
      BY <2>1 DEF Active
    <2>5. \A q \in Open(tree, n) : Metrics[q[2]].complete
      BY <2>2 DEF Open, Got
    <2>. QED
      BY <1>1, <2>1, <2>3, <2>4, <2>5 DEF BranchesHave
  <1>. QED
    BY <1>2, <1>3

\* What a blocked branch offers, and an open one.
LEMMA OffersAre ==
  ASSUME NumbersInv, NEW n, NEW q \in Active(tree, n)
  PROVE  IF q \in Open(tree, n) THEN Offers(q) = Range(Metrics[q[2]].scenarios) ELSE Offers(q) = {}
  <1>1. Range(<<>>) = {}
    BY DEF Range
  <1>. QED
    BY <1>1, SimpleOutcomes DEF Open, Offers, Got

\* The scenarios of a complete node have a number for every metric and a leaf.
FirmScene(s) ==
  s.complete /\ s.values \in [DOMAIN rules -> Nat] /\ s.leaves # {} /\ s \in Scenes
Firm(n) == \A s \in Range(Metrics[n].scenarios) : FirmScene(s)

\* What is joined of firm scenarios and is complete is one, of leaves that are apart.
LEMMA JoinedFirm ==
  ASSUME NumbersInv, NEW n \in tree.nodes, Active(tree, n) # {}, NEW f \in Selections(n),
         \A q \in Active(tree, n) : FirmScene(f[q]),
         Joined(f, GateAt(n), rules).complete
  PROVE  LET s == Joined(f, GateAt(n), rules) A == Active(tree, n) IN
         /\ s.values = [id \in DOMAIN rules |->
              Aggregate([q \in A |-> f[q].values[id]], rules[id][GateAt(n)])]
         /\ s.leaves = UNION {f[q].leaves : q \in A}
         /\ \A p, q \in A : p # q => f[p].leaves \cap f[q].leaves = {}
         /\ FirmScene(s)
  <1>. DEFINE A == Active(tree, n)
              gate == GateAt(n)
              numbers(id) == [q \in A |-> f[q].values[id]]
              values == [id \in DOMAIN rules |-> Aggregate(numbers(id), rules[id][gate])]
              apart == \A i, j \in A : i # j => f[i].leaves \cap f[j].leaves = {}
              ok == \A i \in A : f[i].complete
              known == \A id \in DOMAIN rules : Known(values[id])
              leaves == UNION {f[i].leaves : i \in A}
              s == Joined(f, gate, rules)
  <1>1. IsFiniteSet(A) /\ A # {} /\ DOMAIN f = A /\ f \in [A -> Scenes]
    BY NumbersFacts, DrawnFinite DEF Selections
  <1>2. \A q \in A : /\ f[q].values \in [DOMAIN rules -> Nat] /\ f[q].leaves # {}
                     /\ f[q].leaves \in SUBSET tree.nodes
    BY <1>1 DEF FirmScene, Scenes
  <1>3. \A id \in DOMAIN rules : numbers(id) \in [A -> Nat]
    BY <1>2
  <1>4. s = Scenario(leaves, values, FALSE, apart /\ ok /\ known)
    BY <1>1 DEF Joined
  <1>. HIDE DEF numbers
  <1>5. \A id \in DOMAIN rules : Aggregate(numbers(id), rules[id][gate]) \in Nat
    <2>. HIDE DEF A, gate
    <2>. QED
      BY <1>1, <1>3, AggregateNat
  <1>6. values \in [DOMAIN rules -> Nat]
    BY <1>5
  <1>7. leaves # {} /\ leaves \subseteq tree.nodes
    BY <1>1, <1>2
  <1>. DEFINE whole == apart /\ ok /\ known
  <1>8. whole <=> apart /\ ok /\ known
    OBVIOUS
  <1>9. whole \in BOOLEAN
    OBVIOUS
  <1>10. s = Scenario(leaves, values, FALSE, whole)
    BY <1>4
  <1>. HIDE DEF apart, ok, known, leaves, values, whole, s
  <1>11. s.leaves = leaves /\ s.values = values /\ s.complete = whole
    BY <1>10 DEF Scenario
  <1>12. s.complete
    BY DEF s
  <1>13. s \in Scenes
    <2>1. values \in [DOMAIN rules -> Number]
      BY <1>6 DEF Number
    <2>. QED
      BY <1>7, <1>9, <1>10, <2>1 DEF Scenario, Scenes
  <1>14. FirmScene(s)
    BY <1>6, <1>7, <1>11, <1>12, <1>13 DEF FirmScene
  <1>. QED
    BY <1>8, <1>11, <1>12, <1>14 DEF apart, leaves, values, numbers, s, A, gate

\* What a branch of a complete node offers is of a complete node.
LEMMA BranchOffers ==
  ASSUME NumbersInv, NEW n \in tree.nodes, BranchesHave(n),
         NEW q \in Active(tree, n), NEW s \in Offers(q)
  PROVE  /\ q \in Open(tree, n) /\ q[2] \in tree.nodes /\ Metrics[q[2]].complete
         /\ s \in Range(Metrics[q[2]].scenarios)
  <1>1. q \in Open(tree, n) /\ s \in Range(Metrics[q[2]].scenarios)
    BY OffersAre
  <1>. QED
    BY <1>1, OpenApart DEF BranchesHave

\* The scenarios of complete nodes are firm.
LEMMA AllFirm ==
  ASSUME NumbersInv, Hostile
  PROVE  \A n \in tree.nodes : Metrics[n].complete => Firm(n)
  <1>. DEFINE T == {n \in tree.nodes : Metrics[n].complete => Firm(n)}
  <1>1. PICK height \in [tree.nodes -> Nat] :
          \A n \in tree.nodes : \A p \in Active(tree, n) : p[2] \in tree.nodes /\ height[p[2]] < height[n]
    BY NumbersFacts, SoundHeights
  <1>2. ASSUME NEW n \in tree.nodes, \A m \in tree.nodes : height[m] < height[n] => m \in T
        PROVE  n \in T
    <2>. SUFFICES ASSUME Metrics[n].complete PROVE Firm(n)
      OBVIOUS
    <2>. DEFINE A == Active(tree, n)
    <2>1. \A s \in Range(Metrics[n].scenarios) : s.complete
      BY CompleteNode
    <2>2. CASE LeafHas(n)
      <3>. DEFINE s == Scenario({n}, Filled(n), FALSE, TRUE)
      <3>1. Filled(n) \in [DOMAIN rules -> Nat] /\ Filled(n) \in [DOMAIN rules -> Number]
        BY <2>2 DEF LeafHas, Number
      <3>2. FirmScene(s)
        BY <3>1 DEF FirmScene, Scenario, Scenes
      <3>. QED
        BY <2>2, <3>2 DEF LeafHas, Firm
    <2>3. CASE BranchesHave(n)
      <3>1. ASSUME NEW q \in A, NEW s \in Offers(q) PROVE FirmScene(s)
        <4>1. q[2] \in tree.nodes /\ Metrics[q[2]].complete /\ s \in Range(Metrics[q[2]].scenarios)
          BY <2>3, BranchOffers
        <4>2. q[2] \in T
          BY <1>1, <1>2
        <4>. QED
          BY <4>1, <4>2 DEF Firm
      <3>2. ASSUME NEW s \in Made(n) PROVE FirmScene(s)
        <4>1. CASE IsOr(n)
          BY <3>1, <3>2, <4>1 DEF Made
        <4>2. CASE ~IsOr(n)
          <5>1. PICK f \in Selections(n) : s = Joined(f, GateAt(n), rules)
            BY <3>2, <4>2 DEF Made
          <5>2. \A q \in A : FirmScene(f[q])
            BY <3>1 DEF Selections
          <5>3. s.complete
            BY <2>1, <2>3, <3>2 DEF BranchesHave
          <5>. QED
            BY <2>3, <5>1, <5>2, <5>3, JoinedFirm DEF BranchesHave
        <4>. QED
          BY <4>1, <4>2
      <3>. QED
        BY <2>3, <3>2 DEF Firm, BranchesHave
    <2>. QED
      BY <2>2, <2>3, CompleteNode
  <1>. HIDE DEF T
  <1>3. tree.nodes \subseteq T
    BY <1>1, <1>2, Ascent
  <1>. QED
    BY <1>3 DEF T

\* One scenario of every branch of a complete node makes one of its own.
LEMMA JoinIs ==
  ASSUME NumbersInv, Hostile, NEW n \in tree.nodes, Metrics[n].complete, BranchesHave(n), ~IsOr(n),
         NEW f \in Selections(n)
  PROVE  \E s \in Range(Metrics[n].scenarios) :
           /\ s = Joined(f, GateAt(n), rules)
           /\ s.values = [id \in DOMAIN rules |->
                Aggregate([q \in Active(tree, n) |-> f[q].values[id]], rules[id][GateAt(n)])]
           /\ s.leaves = UNION {f[q].leaves : q \in Active(tree, n)}
           /\ \A p, q \in Active(tree, n) : p # q => f[p].leaves \cap f[q].leaves = {}
  <1>. DEFINE s == Joined(f, GateAt(n), rules)
  <1>1. s \in Range(Metrics[n].scenarios)
    BY DEF BranchesHave, Made
  <1>2. \A q \in Active(tree, n) : f[q] \in Offers(q)
    BY DEF Selections
  <1>3. \A q \in Active(tree, n) : FirmScene(f[q])
    BY <1>2, BranchOffers, AllFirm DEF Firm
  <1>4. s.complete
    BY <1>1, CompleteNode
  <1>5. Active(tree, n) # {}
    BY DEF BranchesHave
  <1>6. /\ s.values = [id \in DOMAIN rules |->
              Aggregate([q \in Active(tree, n) |-> f[q].values[id]], rules[id][GateAt(n)])]
        /\ s.leaves = UNION {f[q].leaves : q \in Active(tree, n)}
        /\ \A p, q \in Active(tree, n) : p # q => f[p].leaves \cap f[q].leaves = {}
    BY <1>3, <1>4, <1>5, JoinedFirm
  <1>. QED
    BY <1>1, <1>6

\* Where there is one alternative it is no choice.
LEMMA OneNeeded ==
  ASSUME NumbersInv, NEW n \in tree.nodes, IsOr(n)
  PROVE  n \in Decisions(tree) \/ \E q \in Active(tree, n) : Active(tree, n) = {q}
  <1>1. IsFiniteSet(Active(tree, n)) /\ Active(tree, n) # {}
    BY NumbersFacts, DrawnFinite, GateIs
  <1>2. Cardinality(Active(tree, n)) \in Nat
    BY <1>1, FS_CardinalityType
  <1>3. CASE Cardinality(Active(tree, n)) > 1
    BY <1>3 DEF IsOr, Decisions
  <1>4. CASE Cardinality(Active(tree, n)) <= 1
    BY <1>1, <1>4, AtMostOne
  <1>. QED
    BY <1>2, <1>3, <1>4

\* Where all branches must succeed there is no choice.
LEMMA NoDecision ==
  ASSUME NEW n, ~IsOr(n), NEW plan
  PROVE  /\ n \notin Decisions(tree) /\ Needed(plan, n) = Active(tree, n)
         /\ \A id \in DOMAIN rules : Combined(n)[id] = rules[id][GateAt(n)]
  BY DEF IsOr, Decisions, Needed, Combined

\* Of one number whatever the operator is that number.
LEMMA ComesToOne ==
  ASSUME NEW values \in [DOMAIN rules -> Nat], NEW value, NEW plan, NEW n, NEW q,
         Needed(plan, n) = {q}, value[q[2]] = values
  PROVE  ComesTo(value, plan, n) = values
  <1>1. ASSUME NEW id \in DOMAIN rules
        PROVE  Aggregate([p \in Needed(plan, n) |-> value[p[2]][id]], Combined(n)[id]) = values[id]
    <2>. DEFINE v == values[id]
    <2>1. [p \in Needed(plan, n) |-> value[p[2]][id]] = [p \in {q} |-> v]
      OBVIOUS
    <2>2. v \in Nat
      OBVIOUS
    <2>. HIDE DEF v
    <2>3. Aggregate([p \in {q} |-> v], Combined(n)[id]) = v
      BY <2>2, AggregateOne
    <2>. QED
      BY <2>1, <2>3 DEF v
  <1>. QED
    BY <1>1 DEF ComesTo

\* Of several it is what is joined of the scenarios that have them.
LEMMA ComesToJoined ==
  ASSUME NEW n, ~IsOr(n), NEW value, NEW plan, NEW f,
         \A q \in Active(tree, n) : value[q[2]] = f[q].values
  PROVE  ComesTo(value, plan, n) =
           [id \in DOMAIN rules |-> Aggregate([q \in Active(tree, n) |-> f[q].values[id]], rules[id][GateAt(n)])]
  <1>1. Needed(plan, n) = Active(tree, n)
        /\ \A id \in DOMAIN rules : Combined(n)[id] = rules[id][GateAt(n)]
    BY NoDecision
  <1>2. \A id : [q \in Needed(plan, n) |-> value[q[2]][id]] = [q \in Active(tree, n) |-> f[q].values[id]]
    BY <1>1
  <1>. QED
    BY <1>1, <1>2 DEF ComesTo

\* What a plan comes to where it succeeds is what one of the scenarios does.
LEMMA PlansAreShown ==
  ASSUME NumbersInv, Hostile, NEW plan
  PROVE  \A n \in tree.nodes : Metrics[n].complete /\ ValuesOf(plan)[n] # Fails =>
           \E s \in Range(Metrics[n].scenarios) : s.values = ValuesOf(plan)[n]
  <1>. DEFINE V == ValuesOf(plan)
              Shown(n) == \E s \in Range(Metrics[n].scenarios) : s.values = V[n]
              T == {n \in tree.nodes : Metrics[n].complete /\ V[n] # Fails => Shown(n)}
  <1>1. PICK height \in [tree.nodes -> Nat] :
          \A n \in tree.nodes : \A p \in Active(tree, n) : p[2] \in tree.nodes /\ height[p[2]] < height[n]
    BY NumbersFacts, SoundHeights
  <1>2. ASSUME NEW n \in tree.nodes, \A m \in tree.nodes : height[m] < height[n] => m \in T
        PROVE  n \in T
    <2>. SUFFICES ASSUME Metrics[n].complete, V[n] # Fails PROVE Shown(n)
      OBVIOUS
    <2>. DEFINE A == Active(tree, n)
                S == Range(Metrics[n].scenarios)
    <2>1. V[n] = IF Out(tree, n) = {} THEN Filled(n)
                 ELSE IF Works(V, plan, n) THEN ComesTo(V, plan, n) ELSE Fails
      BY NumbersAre
    <2>2. CASE LeafHas(n)
      BY <2>1, <2>2 DEF LeafHas, Scenario
    <2>3. CASE BranchesHave(n)
      <3>. HIDE DEF V
      <3>1. V[n] = ComesTo(V, plan, n) /\ Works(V, plan, n)
        BY <2>1, <2>3 DEF BranchesHave
      <3>2. Needed(plan, n) \subseteq Open(tree, n) /\ \A q \in Needed(plan, n) : V[q[2]] # Fails
        BY <3>1 DEF Works
      <3>3. ASSUME NEW q \in Needed(plan, n)
            PROVE  q \in A /\ \E s \in Offers(q) : s.values = V[q[2]] /\ s \in Scenes
                                                   /\ s.values \in [DOMAIN rules -> Nat]
        <4>1. q \in A /\ q[2] \in tree.nodes /\ Metrics[q[2]].complete /\ q \in Open(tree, n)
          BY <2>3, <3>2, OpenApart DEF BranchesHave
        <4>2. Shown(q[2]) /\ Firm(q[2])
          BY <1>1, <1>2, <3>2, <4>1, AllFirm
        <4>3. Offers(q) = Range(Metrics[q[2]].scenarios)
          BY <4>1, OffersAre
        <4>. QED
          BY <4>1, <4>2, <4>3 DEF Firm, FirmScene
      <3>4. CASE IsOr(n)
        <4>1. PICK q \in A : Needed(plan, n) = {q}
          <5>1. CASE n \in Decisions(tree)
            BY <3>3, <5>1 DEF Needed
          <5>2. CASE n \notin Decisions(tree)
            BY <3>4, <5>2, OneNeeded DEF Needed
          <5>. QED
            BY <5>1, <5>2
        <4>2. PICK s \in Offers(q) : s.values = V[q[2]] /\ s.values \in [DOMAIN rules -> Nat]
          BY <3>3, <4>1
        <4>3. s \in S
          BY <2>3, <3>4 DEF BranchesHave, Made
        <4>4. ComesTo(V, plan, n) = s.values
          BY <4>1, <4>2, ComesToOne
        <4>. QED
          BY <3>1, <4>3, <4>4
      <3>5. CASE ~IsOr(n)
        <4>1. Needed(plan, n) = A
          BY <3>5, NoDecision
        <4>. DEFINE f == [q \in A |-> CHOOSE s \in Offers(q) : s.values = V[q[2]] /\ s \in Scenes]
        <4>2. \A q \in A : f[q] \in Offers(q) /\ f[q].values = V[q[2]] /\ f[q] \in Scenes
          BY <3>3, <4>1
        <4>3. f \in [A -> Scenes]
          BY <4>2
        <4>. HIDE DEF f
        <4>4. f \in Selections(n)
          BY <4>2, <4>3 DEF Selections
        <4>5. PICK s \in S :
                s.values = [id \in DOMAIN rules |->
                  Aggregate([q \in Active(tree, n) |-> f[q].values[id]], rules[id][GateAt(n)])]
          BY <2>3, <3>5, <4>4, JoinIs
        <4>6. ComesTo(V, plan, n) = s.values
          BY <3>5, <4>2, <4>5, ComesToJoined
        <4>. QED
          BY <3>1, <4>6
      <3>. QED
        BY <3>4, <3>5
    <2>. QED
      BY <2>2, <2>3, CompleteNode
  <1>. HIDE DEF T
  <1>3. tree.nodes \subseteq T
    BY <1>1, <1>2, Ascent
  <1>. QED
    BY <1>3 DEF T

\* What a plan may pick.
MayPick(n, q) == IF Open(tree, n) = {} THEN q = Fails ELSE q \in Open(tree, n)

\* A plan may pick anything that is open at every choice.
LEMMA PlansAre ==
  /\ \A F : (\A n \in Decisions(tree) : MayPick(n, F[n])) => [n \in Decisions(tree) |-> F[n]] \in Plans(tree)
  /\ \A f \in Plans(tree) : \A n \in Decisions(tree) : MayPick(n, f[n])
  /\ Plans(tree) # {}
  <1>. DEFINE options == (UNION {Open(tree, n) : n \in Decisions(tree)}) \cup {Fails}
  <1>1. ASSUME NEW F, \A n \in Decisions(tree) : MayPick(n, F[n])
        PROVE  [n \in Decisions(tree) |-> F[n]] \in Plans(tree)
    <2>. DEFINE f == [n \in Decisions(tree) |-> F[n]]
    <2>1. ASSUME NEW n \in Decisions(tree) PROVE F[n] \in options
      <3>1. Open(tree, n) \subseteq options /\ Fails \in options
        OBVIOUS
      <3>. HIDE DEF options
      <3>2. MayPick(n, F[n])
        BY <1>1
      <3>. QED
        BY <3>1, <3>2 DEF MayPick
    <2>2. f \in [Decisions(tree) -> options]
      BY <2>1
    <2>3. \A n \in Decisions(tree) : IF Open(tree, n) = {} THEN f[n] = Fails ELSE f[n] \in Open(tree, n)
      BY <1>1 DEF MayPick
    <2>. HIDE DEF f
    <2>4. f \in Plans(tree)
      BY <2>2, <2>3 DEF Plans
    <2>. QED
      BY <2>4 DEF f
  <1>2. \A f \in Plans(tree) : \A n \in Decisions(tree) : MayPick(n, f[n])
    BY DEF Plans, MayPick
  <1>3. Plans(tree) # {}
    <2>. DEFINE F == [n \in Decisions(tree) |-> IF Open(tree, n) = {} THEN Fails
                                                ELSE CHOOSE q \in Open(tree, n) : TRUE]
    <2>1. \A n \in Decisions(tree) : MayPick(n, F[n])
      BY DEF MayPick
    <2>. HIDE DEF F
    <2>. QED
      BY <1>1, <2>1
  <1>. QED
    BY <1>1, <1>2, <1>3

\* The leaves of the scenarios of a node, and the choices among what is no higher
\* than the node that lead to none but these.
Touches(n) == UNION {s.leaves : s \in Range(Metrics[n].scenarios)}
Scope(height, n) ==
  {d \in Decisions(tree) : height[d] <= height[n] /\ Touches(d) # {} /\ Touches(d) \subseteq Touches(n)}
Agree(f, g, S) == \A d \in S : g[d] = f[d]
Realises(f, height, n, values) ==
  \A g \in Plans(tree) : Agree(f, g, Scope(height, n)) => ValuesOf(g)[n] = values
Realised(height, n) ==
  \A s \in Range(Metrics[n].scenarios) : \E f \in Plans(tree) : Realises(f, height, n, s.values)
Descends(height) ==
  /\ height \in [tree.nodes -> Nat]
  /\ \A n \in tree.nodes : \A p \in Active(tree, n) : p[2] \in tree.nodes /\ height[p[2]] < height[n]

\* The choices of a branch are among those of the node, and the node is none of them.
LEMMA ScopeWithin ==
  ASSUME NEW height, Descends(height), NEW n \in tree.nodes, NEW q \in Active(tree, n),
         Touches(q[2]) \subseteq Touches(n)
  PROVE  Scope(height, q[2]) \subseteq Scope(height, n) /\ n \notin Scope(height, q[2])
  <1>1. q[2] \in tree.nodes /\ height[q[2]] < height[n] /\ height[q[2]] \in Nat /\ height[n] \in Nat
    BY DEF Descends
  <1>2. \A d \in Decisions(tree) : height[d] \in Nat
    BY DEF Decisions, Descends
  <1>. QED
    BY <1>1, <1>2 DEF Scope

\* Distinct branches that must all succeed share no choice.
LEMMA ScopesApart ==
  ASSUME NumbersInv, Hostile, NEW height, NEW n \in tree.nodes, Metrics[n].complete,
         BranchesHave(n), ~IsOr(n), NEW f \in Selections(n),
         NEW p \in Active(tree, n), NEW q \in Active(tree, n)
  PROVE  /\ Touches(q[2]) \subseteq Touches(n)
         /\ p # q => Scope(height, p[2]) \cap Scope(height, q[2]) = {}
  <1>. DEFINE A == Active(tree, n)
              With(r, s, t, u) == [x \in A |-> IF x = r THEN t ELSE IF x = s THEN u ELSE f[x]]
  <1>1. f \in [A -> Scenes] /\ \A r \in A : f[r] \in Offers(r)
    BY DEF Selections
  <1>2. \A r \in A : Offers(r) = Range(Metrics[r[2]].scenarios) /\ Offers(r) \subseteq Scenes
    <2>. SUFFICES ASSUME NEW r \in A
                  PROVE  Offers(r) = Range(Metrics[r[2]].scenarios) /\ Offers(r) \subseteq Scenes
      OBVIOUS
    <2>1. f[r] \in Offers(r)
      BY <1>1
    <2>2. r[2] \in tree.nodes /\ Metrics[r[2]].complete
      BY <2>1, BranchOffers
    <2>3. Offers(r) = Range(Metrics[r[2]].scenarios)
      BY <2>1, OffersAre
    <2>. QED
      BY <2>2, <2>3, AllFirm DEF Firm, FirmScene
  <1>3. ASSUME NEW r \in A, NEW s \in A, NEW t \in Offers(r), NEW u \in Offers(s)
        PROVE  With(r, s, t, u) \in Selections(n)
    BY <1>1, <1>2 DEF Selections
  <1>4. Touches(q[2]) \subseteq Touches(n)
    <2>. SUFFICES ASSUME NEW t \in Range(Metrics[q[2]].scenarios) PROVE t.leaves \subseteq Touches(n)
      BY DEF Touches
    <2>. DEFINE g == With(q, q, t, t)
    <2>1. g \in Selections(n) /\ g[q] = t
      BY <1>2, <1>3
    <2>. HIDE DEF g
    <2>2. PICK s \in Range(Metrics[n].scenarios) : s.leaves = UNION {g[r].leaves : r \in A}
      BY <2>1, JoinIs
    <2>3. t.leaves \subseteq s.leaves
      BY <2>1, <2>2
    <2>. QED
      BY <2>3 DEF Touches
  <1>5. ASSUME p # q PROVE Touches(p[2]) \cap Touches(q[2]) = {}
    <2>. SUFFICES ASSUME NEW t \in Range(Metrics[p[2]].scenarios), NEW u \in Range(Metrics[q[2]].scenarios)
                  PROVE  t.leaves \cap u.leaves = {}
      BY DEF Touches
    <2>. DEFINE g == With(p, q, t, u)
    <2>1. g \in Selections(n) /\ g[p] = t /\ g[q] = u
      BY <1>2, <1>3, <1>5
    <2>. HIDE DEF g
    <2>2. \A r, s \in A : r # s => g[r].leaves \cap g[s].leaves = {}
      BY <2>1, JoinIs
    <2>3. g[p].leaves \cap g[q].leaves = {}
      BY <1>5, <2>2
    <2>. QED
      BY <2>1, <2>3
  <1>6. ASSUME p # q PROVE Scope(height, p[2]) \cap Scope(height, q[2]) = {}
    BY <1>5, <1>6 DEF Scope
  <1>. QED
    BY <1>4, <1>6

\* One alternative: the plan for it, and the choice of it.
LEMMA EitherRealised ==
  ASSUME NumbersInv, Hostile, NEW height, Descends(height), NEW n \in tree.nodes,
         Metrics[n].complete, BranchesHave(n), IsOr(n),
         \A q \in Active(tree, n) : Metrics[q[2]].complete => Realised(height, q[2])
  PROVE  Realised(height, n)
  <1>. SUFFICES ASSUME NEW s \in Range(Metrics[n].scenarios)
                PROVE  \E f \in Plans(tree) : Realises(f, height, n, s.values)
    BY DEF Realised
  <1>. DEFINE A == Active(tree, n)
              D == Decisions(tree)
  <1>1. PICK r \in A : s \in Offers(r)
    BY DEF BranchesHave, Made
  <1>2. Firm(n) /\ s.values \in [DOMAIN rules -> Nat] /\ s.leaves # {}
    BY AllFirm DEF Firm, FirmScene
  <1>3. PICK q \in A : s \in Offers(q) /\ (n \notin D => A = {q})
    BY <1>1, OneNeeded
  <1>4. q \in Open(tree, n) /\ q[2] \in tree.nodes /\ Metrics[q[2]].complete
        /\ s \in Range(Metrics[q[2]].scenarios) /\ Offers(q) = Range(Metrics[q[2]].scenarios)
    BY <1>3, BranchOffers, OffersAre
  <1>5. PICK g \in Plans(tree) : Realises(g, height, q[2], s.values)
    BY <1>4 DEF Realised
  <1>6. Touches(q[2]) \subseteq Touches(n)
    <2>1. Offers(q) \subseteq Range(Metrics[n].scenarios)
      BY DEF BranchesHave, Made
    <2>. QED
      BY <1>4, <2>1 DEF Touches
  <1>7. Scope(height, q[2]) \subseteq Scope(height, n) /\ n \notin Scope(height, q[2])
    BY <1>6, ScopeWithin
  <1>8. n \in D => n \in Scope(height, n)
    <2>1. Touches(n) # {}
      BY <1>2 DEF Touches
    <2>2. height[n] \in Nat
      BY DEF Descends
    <2>. QED
      BY <2>1, <2>2 DEF Scope
  <1>. DEFINE F == [d \in D |-> IF d = n THEN q ELSE g[d]]
              f == [d \in D |-> F[d]]
  <1>9. f \in Plans(tree)
    <2>1. \A d \in D : MayPick(d, F[d])
      BY <1>4, PlansAre DEF MayPick
    <2>. HIDE DEF F
    <2>. QED
      BY <2>1, PlansAre
  <1>10. Realises(f, height, n, s.values)
    <2>. SUFFICES ASSUME NEW h \in Plans(tree), Agree(f, h, Scope(height, n))
                  PROVE  ValuesOf(h)[n] = s.values
      BY DEF Realises
    <2>1. Agree(g, h, Scope(height, q[2]))
      BY <1>7 DEF Agree, Scope
    <2>2. ValuesOf(h)[q[2]] = s.values
      BY <1>5, <2>1 DEF Realises
    <2>3. Needed(h, n) = {q}
      <3>1. CASE n \in D
        BY <1>8, <3>1 DEF Agree, Needed
      <3>2. CASE n \notin D
        BY <1>3, <3>2 DEF Needed
      <3>. QED
        BY <3>1, <3>2
    <2>4. s.values # Fails
      <3>1. DOMAIN rules # {}
        BY NumbersFacts DEF BuiltIn, DefaultRules
      <3>. QED
        BY <1>2, <3>1, EmptyFunction DEF Fails
    <2>5. Works(ValuesOf(h), h, n)
      BY <1>4, <2>2, <2>3, <2>4 DEF Works
    <2>6. ComesTo(ValuesOf(h), h, n) = s.values
      BY <1>2, <2>2, <2>3, ComesToOne
    <2>. QED
      BY <2>5, <2>6, NumbersAre DEF BranchesHave
  <1>. QED
    BY <1>9, <1>10

\* All branches: the plans for each, which share no choice.
LEMMA EveryRealised ==
  ASSUME NumbersInv, Hostile, NEW height, Descends(height), NEW n \in tree.nodes,
         Metrics[n].complete, BranchesHave(n), ~IsOr(n),
         \A q \in Active(tree, n) : Metrics[q[2]].complete => Realised(height, q[2])
  PROVE  Realised(height, n)
  <1>. SUFFICES ASSUME NEW s \in Range(Metrics[n].scenarios)
                PROVE  \E f \in Plans(tree) : Realises(f, height, n, s.values)
    BY DEF Realised
  <1>. DEFINE A == Active(tree, n)
              D == Decisions(tree)
              Leads(d, q) == d \in Scope(height, q[2])
  <1>1. PICK picked \in Selections(n) : s = Joined(picked, GateAt(n), rules)
    BY DEF BranchesHave, Made
  <1>2. s.values = [id \in DOMAIN rules |->
          Aggregate([q \in A |-> picked[q].values[id]], rules[id][GateAt(n)])]
    BY <1>1, JoinIs
  <1>3. \A q \in A : /\ q \in Open(tree, n) /\ q[2] \in tree.nodes /\ Metrics[q[2]].complete
                     /\ picked[q] \in Range(Metrics[q[2]].scenarios)
    BY BranchOffers DEF Selections
  <1>4. \A q \in A : picked[q].values \in [DOMAIN rules -> Nat]
    BY <1>3, AllFirm DEF Firm, FirmScene
  <1>. DEFINE G == [q \in A |-> CHOOSE g \in Plans(tree) : Realises(g, height, q[2], picked[q].values)]
  <1>5. \A q \in A : G[q] \in Plans(tree) /\ Realises(G[q], height, q[2], picked[q].values)
    BY <1>3 DEF Realised
  <1>. HIDE DEF G
  <1>6. PICK base \in Plans(tree) : TRUE
    BY PlansAre
  <1>7. \A q \in A : Touches(q[2]) \subseteq Touches(n) /\ Scope(height, q[2]) \subseteq Scope(height, n)
    BY ScopesApart, ScopeWithin
  <1>8. \A p, q \in A : p # q => Scope(height, p[2]) \cap Scope(height, q[2]) = {}
    BY ScopesApart
  <1>. DEFINE F == [d \in D |-> IF \E q \in A : Leads(d, q) THEN G[CHOOSE q \in A : Leads(d, q)][d] ELSE base[d]]
              f == [d \in D |-> F[d]]
  <1>9. f \in Plans(tree)
    <2>1. \A d \in D : MayPick(d, F[d])
      <3>. SUFFICES ASSUME NEW d \in D PROVE MayPick(d, F[d])
        OBVIOUS
      <3>1. CASE \E q \in A : Leads(d, q)
        <4>. DEFINE q == CHOOSE q \in A : Leads(d, q)
        <4>1. q \in A /\ F[d] = G[q][d]
          BY <3>1
        <4>. QED
          BY <1>5, <4>1, PlansAre
      <3>2. CASE ~\E q \in A : Leads(d, q)
        BY <1>6, <3>2, PlansAre
      <3>. QED
        BY <3>1, <3>2
    <2>. HIDE DEF F
    <2>. QED
      BY <2>1, PlansAre
  <1>10. \A q \in A : \A d \in Scope(height, q[2]) : f[d] = G[q][d]
    <2>. SUFFICES ASSUME NEW q \in A, NEW d \in Scope(height, q[2]) PROVE f[d] = G[q][d]
      OBVIOUS
    <2>1. d \in D /\ Leads(d, q)
      BY DEF Scope
    <2>2. \A p \in A : Leads(d, p) => p = q
      BY <1>8
    <2>3. (CHOOSE p \in A : Leads(d, p)) = q
      BY <2>1, <2>2
    <2>. QED
      BY <2>1, <2>3
  <1>. HIDE DEF F, f
  <1>11. Realises(f, height, n, s.values)
    <2>. SUFFICES ASSUME NEW h \in Plans(tree), Agree(f, h, Scope(height, n))
                  PROVE  ValuesOf(h)[n] = s.values
      BY DEF Realises
    <2>1. ASSUME NEW q \in A PROVE ValuesOf(h)[q[2]] = picked[q].values
      <3>1. Agree(G[q], h, Scope(height, q[2]))
        BY <1>7, <1>10 DEF Agree
      <3>. QED
        BY <1>5, <3>1 DEF Realises
    <2>2. Needed(h, n) = A
      BY NoDecision
    <2>3. \A q \in A : picked[q].values # Fails
      <3>1. DOMAIN rules # {}
        BY NumbersFacts DEF BuiltIn, DefaultRules
      <3>2. \A v \in [DOMAIN rules -> Nat] : v # <<>>
        BY <3>1, EmptyFunction
      <3>. QED
        BY <1>4, <3>2 DEF Fails
    <2>4. Works(ValuesOf(h), h, n)
      BY <1>3, <2>1, <2>2, <2>3 DEF Works, BranchesHave
    <2>5. ComesTo(ValuesOf(h), h, n) = s.values
      BY <1>2, <2>1, ComesToJoined
    <2>. QED
      BY <2>4, <2>5, NumbersAre DEF BranchesHave
  <1>. QED
    BY <1>9, <1>11

\* What a scenario of a complete node comes to is what some plan does.
LEMMA AllRealised ==
  ASSUME NumbersInv, Hostile, NEW height, Descends(height)
  PROVE  \A n \in tree.nodes : Metrics[n].complete => Realised(height, n)
  <1>. DEFINE T == {n \in tree.nodes : Metrics[n].complete => Realised(height, n)}
  <1>1. height \in [tree.nodes -> Nat]
        /\ \A n \in tree.nodes : \A p \in Active(tree, n) : p[2] \in tree.nodes /\ height[p[2]] < height[n]
    BY DEF Descends
  <1>2. ASSUME NEW n \in tree.nodes, \A m \in tree.nodes : height[m] < height[n] => m \in T
        PROVE  n \in T
    <2>. SUFFICES ASSUME Metrics[n].complete PROVE Realised(height, n)
      OBVIOUS
    <2>1. CASE LeafHas(n)
      <3>1. \A s \in Range(Metrics[n].scenarios) : s.values = Filled(n)
        BY <2>1 DEF LeafHas, Scenario
      <3>2. \A f : ValuesOf(f)[n] = Filled(n)
        BY <2>1, NumbersAre DEF LeafHas
      <3>. QED
        BY <3>1, <3>2, PlansAre DEF Realised, Realises
    <2>2. CASE BranchesHave(n)
      <3>1. \A q \in Active(tree, n) : Metrics[q[2]].complete => Realised(height, q[2])
        BY <1>1, <1>2
      <3>. QED
        BY <2>2, <3>1, EitherRealised, EveryRealised
    <2>. QED
      BY <2>1, <2>2, CompleteNode
  <1>. HIDE DEF T
  <1>3. tree.nodes \subseteq T
    BY <1>1, <1>2, Ascent
  <1>. QED
    BY <1>3 DEF T

-----------------------------------------------------------------------------
\* The risk of a scenario.

\* Half of a number is one.
LEMMA Halved == \A u \in Nat : (0 - u) \div 2 \in Int /\ u + ((0 - u) \div 2) \in Nat /\ u \div 2 \in Nat
  OBVIOUS

\* The utility of a number is a number.
LEMMA UtilityNat ==
  ASSUME NEW v \in Nat
  PROVE  Utility(v, Affinity) \in Nat /\ Utility(v, Value) \in Nat
  <1>1. Unit \in Nat
    BY UnitAssumption
  <1>. DEFINE At(points) ==
         IF v <= points[1][1] THEN points[1][2]
         ELSE IF v >= points[2][1] THEN points[2][2]
         ELSE points[1][2] + ((points[2][2] - points[1][2]) * (v - points[1][1])) \div (points[2][1] - points[1][1])
  <1>2. ASSUME NEW points, Len(points) = 2, points[1][1] = 0, points[2][1] = 2
        PROVE  Utility(v, points) = At(points)
    <2>. DEFINE Is(i) == v <= points[i][1] /\ v > points[i - 1][1]
                next == CHOOSE i \in 2 .. 2 : Is(i)
    <2>1. Utility(v, points) =
            IF v <= points[1][1] THEN points[1][2]
            ELSE IF v >= points[2][1] THEN points[2][2]
            ELSE points[next - 1][2] + ((points[next][2] - points[next - 1][2]) * (v - points[next - 1][1]))
                                        \div (points[next][1] - points[next - 1][1])
      BY <1>2 DEF Utility
    <2>2. CASE v = 0
      <3>1. v <= points[1][1]
        BY <1>2, <2>2
      <3>. QED
        BY <2>1, <3>1
    <2>3. CASE v >= 2
      <3>1. ~(v <= points[1][1]) /\ v >= points[2][1]
        BY <1>2, <2>3
      <3>. QED
        BY <2>1, <3>1
    <2>4. CASE v = 1
      <3>1. 2 .. 2 = {2}
        OBVIOUS
      <3>2. 2 - 1 = 1
        OBVIOUS
      <3>3. Is(2)
        BY <1>2, <2>4, <3>2
      <3>4. next = 2
        BY <3>1, <3>3
      <3>. HIDE DEF next
      <3>. QED
        BY <2>1, <3>2, <3>4
    <2>. QED
      BY <2>2, <2>3, <2>4
  <1>3. /\ Len(Affinity) = 2 /\ Affinity[1] = <<0, Unit>> /\ Affinity[2] = <<2, 0>>
        /\ Len(Value) = 2 /\ Value[1] = <<0, 0>> /\ Value[2] = <<2, Unit>>
    BY DEF Affinity, Value
  <1>4. Utility(v, Affinity) = At(Affinity) /\ Utility(v, Value) = At(Value)
    BY <1>2, <1>3
  <1>5. CASE v = 0 \/ v >= 2
    BY <1>1, <1>3, <1>4, <1>5
  <1>6. CASE v = 1
    <2>1. At(Affinity) = Unit + ((0 - Unit) * (1 - 0)) \div (2 - 0)
      BY <1>3, <1>6
    <2>2. At(Value) = 0 + ((Unit - 0) * (1 - 0)) \div (2 - 0)
      BY <1>3, <1>6
    <2>3. (0 - Unit) * (1 - 0) = 0 - Unit /\ (Unit - 0) * (1 - 0) = Unit /\ 2 - 0 = 2
      BY <1>1
    <2>. HIDE DEF At
    <2>4. At(Affinity) = Unit + ((0 - Unit) \div 2) /\ At(Value) = 0 + (Unit \div 2)
      BY <2>1, <2>2, <2>3
    <2>. QED
      BY <1>1, <1>4, <2>4, Halved
  <1>. QED
    BY <1>5, <1>6

\* A fraction of a fraction is a number.
LEMMA TimesNat == ASSUME NEW a \in Nat, NEW b \in Nat PROVE Times(a, b) \in Nat
  <1>1. a * b \in Nat /\ Unit \in Nat /\ Unit # 0
    BY NatTimes, UnitAssumption
  <1>. DEFINE c == a * b
  <1>. HIDE DEF c
  <1>2. c \in Nat => c \div Unit \in Nat
    BY <1>1
  <1>. QED
    BY <1>1, <1>2 DEF Times, c

\* The relative risk of a scenario of adversaries is a number that depends on its
\* values only.
LEMMA RiskNat ==
  ASSUME NumbersInv, NEW s, s.random = FALSE, s.values \in [DOMAIN rules -> Nat]
  PROVE  /\ RelativeRisk(s, profile) \in Nat
         /\ RelativeRisk(s, profile) = RelativeRisk(Scenario({}, s.values, FALSE, TRUE), profile)
  <1>. DEFINE v == s.values
              p == profile
              f == Feasibility(v, p)
              g == NetBenefit(v)
              pain == PainFactor(v, p)
              risk == Times(f, g) * pain
  <1>1. {"PhysicalPresenceRequired", "AttackCost", "AttackerMoneyGain"} \subseteq DOMAIN rules
    BY NumbersFacts DEF BuiltIn, DefaultRules
  <1>2. v.AttackCost \in Nat /\ v.AttackerMoneyGain \in Nat
    BY <1>1
  <1>3. \A x \in Nat : Known(x) /\ x # Null
    BY DEF Known, Null
  <1>4. f \in Nat /\ g \in Nat
    BY <1>2, <1>3, UtilityNat DEF Feasibility, NetBenefit
  <1>5. pain \in Nat
    <2>. DEFINE I == p.impacts
                of == [id \in I |-> IF Known(v[id]) THEN Utility(v[id], Value) ELSE Null]
    <2>1. I \subseteq DOMAIN rules /\ I # {} /\ IsFiniteSet(I)
      BY NumbersFacts, FS_Subset DEF NumbersInv, ValidProfile
    <2>2. of \in [I -> Nat]
      BY <1>3, <2>1, UtilityNat
    <2>3. pain = Aggregate(of, "SUM")
      BY DEF PainFactor
    <2>. HIDE DEF I, of, pain
    <2>. QED
      BY <2>1, <2>2, <2>3, AggregateNat
  <1>6. risk \in Nat
    <2>1. Times(f, g) \in Nat
      BY <1>4, TimesNat
    <2>. DEFINE q == Times(f, g)
    <2>. HIDE DEF q, pain
    <2>2. q * pain \in Nat
      BY <1>5, <2>1, NatTimes DEF q
    <2>. QED
      BY <2>2 DEF q
  <1>7. ASSUME NEW x, x.random = FALSE, x.values = v PROVE RelativeRisk(x, p) = risk
    <2>1. Propensity(x, p) = Times(f, g)
      BY <1>3, <1>4, <1>7 DEF Propensity
    <2>2. Times(f, g) \in Nat
      BY <1>4, TimesNat
    <2>3. PainFactor(x.values, p) = pain
      BY <1>7
    <2>4. Times(f, g) # Null /\ pain # Null
      BY <1>3, <1>5, <2>2
    <2>. HIDE DEF f, g, pain
    <2>. QED
      BY <2>1, <2>3, <2>4 DEF RelativeRisk
  <1>. DEFINE x == Scenario({}, v, FALSE, TRUE)
  <1>8. x.random = FALSE /\ x.values = v
    BY DEF Scenario
  <1>. HIDE DEF risk, x
  <1>9. RelativeRisk(x, p) = risk /\ RelativeRisk(s, p) = risk
    BY <1>7, <1>8
  <1>. QED
    BY <1>6, <1>9 DEF x

\* The greatest of some numbers, and with zero among them.
LEMMA MaxOfNat ==
  ASSUME NEW S \in SUBSET Nat, S # {}, IsFiniteSet(S)
  PROVE  Max(S) = Max({0} \cup S)
  <1>1. PICK n \in S : \A m \in S : m <= n
    BY Greatest
  <1>2. \A T \in SUBSET Nat : n \in T /\ (\A m \in T : m <= n) => Max(T) = n
    <2>. SUFFICES ASSUME NEW T \in SUBSET Nat, n \in T, \A m \in T : m <= n PROVE Max(T) = n
      OBVIOUS
    <2>1. \A m \in T : (\A k \in T : m >= k) <=> m = n
      OBVIOUS
    <2>2. Max(T) = CHOOSE m \in T : \A k \in T : m >= k
      BY DEF Max
    <2>. QED
      BY <2>1, <2>2
  <1>3. n \in {0} \cup S /\ {0} \cup S \in SUBSET Nat /\ \A m \in {0} \cup S : m <= n
    BY <1>1
  <1>. QED
    BY <1>1, <1>2, <1>3

\* The greatest of nothing but zero.
LEMMA MaxOfZero == Max({0}) = 0
  BY DEF Max

\* The scenarios of a complete root and the plans come to the same numbers, so the
\* worst of either is as bad.
LEMMA WorstHolds ==
  ASSUME NumbersInv
  PROVE  WorstPlanIsShown
  <1>. DEFINE root == Metrics[Root]
              acts == {Numbers(tree, f) : f \in Plans(tree)} \ {Fails}
              Risk(v) == RelativeRisk(Scenario({}, v, FALSE, TRUE), profile)
              S == Range(root.scenarios)
  <1>. SUFFICES ASSUME Hostile, profile.mode = "scenario", root.complete
                PROVE  ReportedRisk(root, profile) = Max({0} \cup {Risk(v) : v \in acts})
    BY DEF WorstPlanIsShown
  <1>1. Root \in tree.nodes
    BY NumbersFacts
  <1>2. PICK height : Descends(height)
    BY NumbersFacts, SoundHeights DEF Descends
  <1>3. Firm(Root)
    BY <1>1, AllFirm
  <1>4. \A s \in S : s.values \in [DOMAIN rules -> Nat] /\ s.random = FALSE
    BY <1>3 DEF Firm, FirmScene, Scenes
  <1>5. DOMAIN rules # {}
    BY NumbersFacts DEF BuiltIn, DefaultRules
  <1>6. \A s \in S : s.values # Fails
    <2>1. \A v \in [DOMAIN rules -> Nat] : v # <<>>
      BY <1>5, EmptyFunction
    <2>. QED
      BY <1>4, <2>1 DEF Fails
  <1>7. acts = {s.values : s \in S}
    <2>1. \A f \in Plans(tree) : Numbers(tree, f) = ValuesOf(f)[Root]
      BY NumbersAre
    <2>2. ASSUME NEW v \in acts PROVE \E s \in S : v = s.values
      <3>1. PICK f \in Plans(tree) : v = ValuesOf(f)[Root] /\ v # Fails
        BY <2>1
      <3>. QED
        BY <1>1, <3>1, PlansAreShown
    <2>3. ASSUME NEW s \in S PROVE s.values \in acts
      <3>1. Realised(height, Root)
        BY <1>1, <1>2, AllRealised
      <3>2. PICK f \in Plans(tree) : Realises(f, height, Root, s.values)
        BY <3>1 DEF Realised
      <3>3. ValuesOf(f)[Root] = s.values
        BY <3>2 DEF Realises, Agree
      <3>. QED
        BY <1>6, <2>1, <3>3
    <2>. HIDE DEF acts
    <2>. QED
      BY <2>2, <2>3
  <1>. DEFINE Rated(s) == RelativeRisk(s, profile)
              risks == {Rated(s) : s \in S}
  <1>8. \A s \in S : Rated(s) \in Nat /\ Rated(s) = Risk(s.values)
    BY <1>4, RiskNat
  <1>. HIDE DEF acts, Risk, Rated
  <1>9. {Risk(v) : v \in acts} = risks
    <2>1. {Risk(v) : v \in acts} = {Risk(s.values) : s \in S}
      BY <1>7
    <2>. QED
      BY <1>8, <2>1
  <1>10. root.scenarios \in Seq(Scenes) /\ S = {root.scenarios[i] : i \in DOMAIN root.scenarios}
    BY <1>1, NodeIs DEF Outcomes, Range
  <1>11. CASE root.scenarios = <<>>
    <2>1. S = {}
      BY <1>10, <1>11
    <2>2. {0} \cup risks = {0}
      BY <2>1
    <2>3. ReportedRisk(root, profile) = 0
      BY <1>11 DEF ReportedRisk, Status
    <2>. QED
      BY <1>9, <2>2, <2>3, MaxOfZero
  <1>12. CASE root.scenarios # <<>>
    <2>. DEFINE I == DOMAIN root.scenarios
                shown == {RelativeRisk(root.scenarios[i], profile) : i \in I}
                of == [i \in I |-> Rated(root.scenarios[i])]
    <2>1. ReportedRisk(root, profile) = Max(shown)
      BY <1>12 DEF ReportedRisk, Status
    <2>2. shown = risks
      BY <1>10 DEF Rated
    <2>3. IsFiniteSet(I) /\ I # {}
      <3>. DEFINE m == Len(root.scenarios)
      <3>1. I = 1 .. m /\ m \in Nat /\ m # 0
        BY <1>10, <1>12
      <3>. HIDE DEF I, m
      <3>. QED
        BY <3>1, UpTo
    <2>4. risks \in SUBSET Nat /\ risks # {} /\ IsFiniteSet(risks)
      <3>1. of \in [I -> risks] /\ \A x \in risks : \E i \in I : of[i] = x
        BY <1>10
      <3>2. of \in Surjection(I, risks)
        <4>. HIDE DEF of, risks, I
        <4>. QED
          BY <3>1 DEF Surjection
      <3>3. IsFiniteSet(risks)
        <4>. HIDE DEF of, risks, I
        <4>. QED
          BY <2>3, <3>2, FS_Surjection
      <3>. QED
        BY <1>8, <1>10, <2>3, <3>3
    <2>. HIDE DEF risks, shown
    <2>5. Max(risks) = Max({0} \cup risks)
      BY <2>4, MaxOfNat
    <2>. QED
      BY <1>9, <2>1, <2>2, <2>5
  <1>. QED
    BY <1>11, <1>12

\* Of a complete analysis of adversaries the risk shown for the Loss is that of the
\* worst plan there is, whatever the branches share.
THEOREM WorstPlanShown == AnalysisSpec => []WorstPlanIsShown
  <1>1. NumbersInv => WorstPlanIsShown
    BY WorstHolds
  <1>. QED
    BY <1>1, NumbersSafe, PTL

=============================================================================
