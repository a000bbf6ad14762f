-------------------------- MODULE TraceCommit_proofs --------------------------
(* Concurrent commits on trace relations, for any number of commits, nodes  *)
(* and operations: types, where a transaction is in its request, what its   *)
(* statements read and write, and what it holds when it writes.             *)
EXTENDS TraceCommit, FiniteSetTheorems, WellFoundedInduction, TLAPS

-----------------------------------------------------------------------------
\* Names.

LEMMA Kinds ==
  /\ Entity \cap Asset = {} /\ Entity \cap State = {} /\ Asset \cap State = {}
  /\ Connection \cap (Entity \cup Asset \cup State) = {}
  /\ Purpose \notin Entity \cup Asset \cup State \cup Connection
  /\ Node \cap TraceRel = {} /\ Node \cap Requirement = {} /\ TraceRel \cap Requirement = {}
  <1>. DEFINE kinds == <<Entity, Asset, State, Connection, {Purpose}, TraceRel, Requirement>>
  <1>1. \A i, j \in 1..7 : i # j => kinds[i] \cap kinds[j] = {}
    BY NamesAssumption
  <1>2. /\ kinds[1] = Entity /\ kinds[2] = Asset /\ kinds[3] = State /\ kinds[4] = Connection
        /\ kinds[5] = {Purpose} /\ kinds[6] = TraceRel /\ kinds[7] = Requirement
    OBVIOUS
  <1>. HIDE DEF kinds
  <1>3. /\ Entity \cap Asset = {} /\ Entity \cap State = {} /\ Asset \cap State = {}
        /\ TraceRel \cap Requirement = {}
    BY <1>1, <1>2
  <1>4. /\ Connection \cap Entity = {} /\ Connection \cap Asset = {} /\ Connection \cap State = {}
    BY <1>1, <1>2
  <1>5. /\ Entity \cap {Purpose} = {} /\ Asset \cap {Purpose} = {} /\ State \cap {Purpose} = {}
        /\ Connection \cap {Purpose} = {}
    BY <1>1, <1>2
  <1>6. /\ Entity \cap TraceRel = {} /\ Asset \cap TraceRel = {} /\ State \cap TraceRel = {}
        /\ Connection \cap TraceRel = {} /\ {Purpose} \cap TraceRel = {}
    BY <1>1, <1>2
  <1>7. /\ Entity \cap Requirement = {} /\ Asset \cap Requirement = {} /\ State \cap Requirement = {}
        /\ Connection \cap Requirement = {} /\ {Purpose} \cap Requirement = {}
    BY <1>1, <1>2
  <1>. QED
    BY <1>3, <1>4, <1>5, <1>6, <1>7 DEF Node, Flagged

Versioned == [status : Status, ver : Nat, type : RelType]
Stating   == [ent : Entity, asset : Asset, orphan : BOOLEAN]
Value     == (SUBSET Prop) \cup Versioned \cup Stating \cup {Absent}
Fits(i, v) == v = Absent \/ v \in Holds(i)

LEMMA HoldsIs ==
  /\ \A i \in Node : Holds(i) = SUBSET Prop
  /\ \A i \in TraceRel : Holds(i) = Versioned
  /\ \A i \in Requirement : Holds(i) = Stating
  /\ \A i \in Item : \A v : Fits(i, v) => v \in Value
  <1>1. \A i \in Node : Holds(i) = SUBSET Prop
    BY Kinds, Zenon DEF Holds
  <1>2. \A i \in TraceRel : Holds(i) = Versioned
    BY Kinds DEF Holds, Versioned
  <1>3. \A i \in Requirement : Holds(i) = Stating
    BY Kinds DEF Holds, Stating
  <1>. QED
    BY <1>1, <1>2, <1>3 DEF Fits, Value, Item

\* The database as a whole, and what is written of it.
Database == {d \in [Item -> Value] : \A i \in Item : Fits(i, d[i])}
Pieces   == UNION {{f \in [S -> Value] : \A i \in S : Fits(i, f[i])} : S \in SUBSET Item}

LEMMA DatabaseIs == \A d : IsDatabase(d) <=> d \in Database
  <1>1. ASSUME NEW d, IsDatabase(d) PROVE d \in Database
    <2>1. d = [i \in Item |-> d[i]] /\ \A i \in Item : Fits(i, d[i])
      BY <1>1 DEF IsDatabase, Fits
    <2>2. \A i \in Item : d[i] \in Value
      BY <2>1, HoldsIs
    <2>. QED
      BY <2>1, <2>2 DEF Database
  <1>2. ASSUME NEW d \in Database PROVE IsDatabase(d)
    BY DEF Database, IsDatabase, Fits
  <1>. QED
    BY <1>1, <1>2

LEMMA PieceIs ==
  ASSUME NEW f \in Pieces
  PROVE  /\ DOMAIN f \in SUBSET Item /\ f = [i \in DOMAIN f |-> f[i]]
         /\ \A i \in DOMAIN f : Fits(i, f[i]) /\ f[i] \in Value
  BY DEF Pieces

LEMMA APiece ==
  ASSUME NEW S \in SUBSET Item, NEW f, f = [i \in S |-> f[i]], \A i \in S : Fits(i, f[i])
  PROVE  f \in Pieces
  <1>1. f \in [S -> Value]
    BY HoldsIs
  <1>. QED
    BY <1>1 DEF Pieces

LEMMA NoPiece == None \in Pieces /\ DOMAIN None = {}
  <1>1. None = [i \in {} |-> None[i]] /\ DOMAIN None = {}
    BY DEF None
  <1>. QED
    BY <1>1, APiece

LEMMA WholePiece == \A d : d \in Database <=> d \in Pieces /\ DOMAIN d = Item
  <1>1. ASSUME NEW d \in Database PROVE d \in Pieces /\ DOMAIN d = Item
    BY DEF Database, Pieces
  <1>2. ASSUME NEW d \in Pieces, DOMAIN d = Item PROVE d \in Database
    BY <1>2, PieceIs DEF Database
  <1>. QED
    BY <1>1, <1>2

LEMMA OverIs ==
  ASSUME NEW f \in Pieces, NEW g \in Pieces
  PROVE  /\ Over(f, g) \in Pieces
         /\ DOMAIN Over(f, g) = DOMAIN f \cup DOMAIN g
         /\ \A i \in DOMAIN f \cup DOMAIN g :
              Over(f, g)[i] = IF i \in DOMAIN f THEN f[i] ELSE g[i]
         /\ g \in Database => Over(f, g) \in Database
  <1>. DEFINE h == Over(f, g)
  <1>1. /\ DOMAIN h = DOMAIN f \cup DOMAIN g
        /\ \A i \in DOMAIN h : h[i] = IF i \in DOMAIN f THEN f[i] ELSE g[i]
        /\ h = [i \in DOMAIN f \cup DOMAIN g |-> h[i]]
    BY DEF Over
  <1>. HIDE DEF h
  <1>2. DOMAIN f \subseteq Item /\ \A i \in DOMAIN f : Fits(i, f[i])
    BY PieceIs
  <1>3. DOMAIN g \subseteq Item /\ \A i \in DOMAIN g : Fits(i, g[i])
    BY PieceIs
  <1>4. h \in Pieces
    BY <1>1, <1>2, <1>3, APiece
  <1>5. g \in Database => h \in Database
    BY <1>1, <1>2, <1>4, WholePiece
  <1>. QED
    BY <1>1, <1>4, <1>5 DEF h

-----------------------------------------------------------------------------
\* What the operations are, and the statements they run as.

Ops == Op \cup {Recompute}

LEMMA OpsAre ==
  ASSUME NEW o \in Ops
  PROVE  /\ o.kind \in {"trace", "clear", "set", "delete", "recompute"}
         /\ o.kind \in {"trace", "clear"} =>
              o.ent \in Entity /\ o.asset \in Asset /\ o.type \in RelType
         /\ o.kind = "trace" => o.st \in State
         /\ o.kind = "clear" => o.st \in State \cup {AnyState}
         /\ o.kind = "set" => o.node \in Entity \cup Asset /\ o.flags \in SUBSET Prop
         /\ o.kind = "delete" => o.node \in Entity \cup Asset \cup State \cup Requirement
         /\ o.kind = "recompute" <=> o = Recompute
  BY DEF Ops, Op, Recompute

LEMMA StatementsAre ==
  ASSUME NEW o \in Ops
  PROVE  /\ o.kind = "trace" => StatementsOf(o) = <<"supersede", "create">>
         /\ o.kind = "clear" => StatementsOf(o) = <<"supersede">>
         /\ o.kind = "set" => StatementsOf(o) = <<"set">>
         /\ o.kind = "delete" /\ o.node \in State => StatementsOf(o) = <<"invalidate", "delete">>
         /\ o.kind = "delete" /\ o.node \notin State => StatementsOf(o) = <<"delete">>
         /\ o.kind = "recompute" => StatementsOf(o) = <<"inherit", "connect", "require", "orphan">>
  BY OpsAre, Zenon DEF StatementsOf

LEMMA StatementIs ==
  ASSUME NEW o \in Ops, NEW n \in 1..Len(StatementsOf(o))
  PROVE  /\ StatementsOf(o)[n] = "supersede" <=> o.kind \in {"trace", "clear"} /\ n = 1
         /\ StatementsOf(o)[n] = "create" <=> o.kind = "trace" /\ n = 2
         /\ StatementsOf(o)[n] = "set" <=> o.kind = "set"
         /\ StatementsOf(o)[n] = "invalidate" <=> o.kind = "delete" /\ o.node \in State /\ n = 1
         /\ StatementsOf(o)[n] = "delete" <=> o.kind = "delete" /\ n = Len(StatementsOf(o))
         /\ StatementsOf(o)[n] = "inherit" <=> o.kind = "recompute" /\ n = 1
         /\ StatementsOf(o)[n] = "connect" <=> o.kind = "recompute" /\ n = 2
         /\ StatementsOf(o)[n] = "require" <=> o.kind = "recompute" /\ n = 3
         /\ StatementsOf(o)[n] = "orphan" <=> o.kind = "recompute" /\ n = 4
         /\ Len(StatementsOf(o)) = IF o.kind = "trace" THEN 2 ELSE IF o.kind = "recompute" THEN 4
                                   ELSE IF o.kind = "delete" /\ o.node \in State THEN 2 ELSE 1
  <1>1. CASE o.kind = "trace"
    BY <1>1, StatementsAre
  <1>2. CASE o.kind = "clear"
    BY <1>2, StatementsAre
  <1>3. CASE o.kind = "set"
    BY <1>3, StatementsAre
  <1>4. CASE o.kind = "delete" /\ o.node \in State
    <2>1. StatementsOf(o) = <<"invalidate", "delete">>
      BY <1>4, StatementsAre
    <2>2. CASE n = 1
      BY <1>4, <2>1, <2>2
    <2>3. CASE n = 2
      BY <1>4, <2>1, <2>3
    <2>. QED
      BY <2>1, <2>2, <2>3
  <1>5. CASE o.kind = "delete" /\ o.node \notin State
    <2>1. StatementsOf(o) = <<"delete">>
      BY <1>5, StatementsAre
    <2>2. n = 1
      BY <2>1
    <2>. QED
      BY <1>5, <2>1, <2>2
  <1>6. CASE o.kind = "recompute"
    BY <1>6, StatementsAre
  <1>. QED
    BY <1>1, <1>2, <1>3, <1>4, <1>5, <1>6, OpsAre

\* A request as it runs: the recomputation is last, and there if a trace moves.
Traces(o) ==
  \/ o.kind \in {"trace", "clear"}
  \/ o.kind = "delete" /\ o.node \notin Requirement
Running(r) ==
  /\ r \in Seq(Ops) /\ r # <<>>
  /\ \A i \in 1..Len(r) : r[i] = Recompute => i = Len(r)
  /\ \A i \in 1..Len(r) : Traces(r[i]) => r[Len(r)] = Recompute

LEMMA RequestsRun ==
  ASSUME NEW m \in Meetings, NEW r \in m.sent
  PROVE  Running(OpsOf(r))
  <1>1. r \in Seq(Op) /\ r # <<>> /\ r \in Seq(Ops)
    BY RequestsAssumption DEF Ops
  <1>2. \A i \in 1..Len(r) : r[i] \in Op /\ r[i] # Recompute
    BY <1>1 DEF Op, Recompute
  <1>3. CASE \E i \in 1..Len(r) : Marks(r[i])
    <2>1. OpsOf(r) = Append(r, Recompute)
      BY <1>3 DEF OpsOf
    <2>2. /\ OpsOf(r) \in Seq(Ops) /\ Len(OpsOf(r)) = Len(r) + 1 /\ Len(r) \in Nat
          /\ OpsOf(r)[Len(r) + 1] = Recompute
          /\ \A i \in 1..Len(r) : OpsOf(r)[i] = r[i]
      BY <1>1, <2>1 DEF Ops
    <2>. QED
      BY <1>2, <2>2 DEF Running
  <1>4. CASE ~ \E i \in 1..Len(r) : Marks(r[i])
    <2>1. OpsOf(r) = r
      BY <1>4 DEF OpsOf
    <2>. QED
      BY <1>1, <1>2, <1>4, <2>1 DEF Running, Marks, Traces
  <1>. QED
    BY <1>3, <1>4

-----------------------------------------------------------------------------
\* The highest of some numbers.

Highest(S) == CHOOSE m \in S : \A n \in S : n <= m

LEMMA LessIsWellFounded ==
  \E R : IsWellFoundedOn(R, Nat) /\ \A x, y \in Nat : <<y, x>> \in R <=> y < x
  <1>1. \A x, y \in Nat : <<y, x>> \in OpToRel(<, Nat) <=> y < x
    BY DEF OpToRel
  <1>. QED
    BY <1>1, NatLessThanWellFounded, Zenon

LEMMA Smallest ==
  ASSUME NEW S \in SUBSET Nat, S # {}
  PROVE  \E k \in S : \A j \in S : k <= j
  <1>1. PICK R : IsWellFoundedOn(R, Nat) /\ \A x, y \in Nat : <<y, x>> \in R <=> y < x
    BY LessIsWellFounded
  <1>2. PICK x \in S : \A y \in S : ~ (<<y, x>> \in R)
    BY <1>1, WFMin
  <1>3. \A y \in S : ~(y < x)
    BY <1>1, <1>2
  <1>. QED
    BY <1>3

\* A finite set of natural numbers has a highest one: of the smallest set that
\* had none, all but one element would have one.
LEMMA FiniteHasHighest ==
  ASSUME NEW S \in SUBSET Nat, IsFiniteSet(S), S # {}
  PROVE  Highest(S) \in S /\ \A n \in S : n <= Highest(S)
  <1>. DEFINE NoTop(T) == ~ \E m \in T : \A n \in T : n <= m
              sizes == {k \in Nat : \E T \in SUBSET Nat :
                          IsFiniteSet(T) /\ T # {} /\ NoTop(T) /\ Cardinality(T) = k}
  <1>1. SUFFICES ASSUME NoTop(S) PROVE FALSE
    BY DEF Highest
  <1>2. Cardinality(S) \in sizes
    BY <1>1, FS_CardinalityType
  <1>4. sizes \in SUBSET Nat /\ sizes # {}
    BY <1>2
  <1>. HIDE DEF sizes
  <1>6. PICK k \in sizes : \A j \in sizes : k <= j
    BY <1>4, Smallest
  <1>7. PICK T \in SUBSET Nat : IsFiniteSet(T) /\ T # {} /\ NoTop(T) /\ Cardinality(T) = k
    BY <1>6 DEF sizes
  <1>8. PICK e \in T : TRUE
    BY <1>7
  <1>. DEFINE U == T \ {e}
  <1>9. IsFiniteSet(U) /\ Cardinality(U) = k - 1 /\ U \in SUBSET Nat
    BY <1>7, <1>8, FS_RemoveElement
  <1>10. k \in Nat /\ Cardinality(U) \in Nat /\ Cardinality(U) < k
    BY <1>4, <1>6, <1>9, FS_CardinalityType
  <1>11. U # {}
    <2>1. SUFFICES ASSUME U = {} PROVE FALSE
      OBVIOUS
    <2>2. T = {e} /\ e \in Nat
      BY <1>7, <1>8, <2>1
    <2>. QED
      BY <1>7, <2>2
  <1>12. Cardinality(U) \notin sizes
    BY <1>6, <1>10
  <1>. HIDE DEF U
  <1>13. ~NoTop(U)
    BY <1>9, <1>10, <1>11, <1>12 DEF sizes
  <1>14. PICK m \in U : \A n \in U : n <= m
    BY <1>13
  <1>15. \E m2 \in T : \A n \in T : n <= m2
    <2>1. m \in T /\ m \in Nat /\ e \in Nat /\ \A n \in T : n = e \/ n \in U
      BY <1>7, <1>8, <1>14 DEF U
    <2>2. CASE e <= m
      BY <1>14, <2>1, <2>2
    <2>3. CASE m < e
      <3>1. \A n \in T : n <= e
        BY <1>9, <1>14, <2>1, <2>3
      <3>. QED
        BY <1>8, <3>1
    <2>. QED
      BY <2>1, <2>2, <2>3
  <1>. QED
    BY <1>7, <1>15

\* Versions count on from the highest of the pair.
LEMMA NextVersionIs ==
  ASSUME NEW v \in Database, NEW o
  PROVE  /\ NextVersion(v, o) \in Nat
         /\ \A x \in Present(v, TraceRel) :
              x.ent = o.ent /\ x.asset = o.asset => v[x].ver < NextVersion(v, o)
  <1>. DEFINE P == Present(v, Pair(o.ent, o.asset))
              vers == {v[x].ver : x \in P}
              f == [x \in P |-> v[x].ver]
  <1>1. P \in SUBSET TraceRel /\ \A x \in P : v[x] \in Versioned
    <2>1. P \subseteq TraceRel /\ \A x \in P : v[x] # Absent
      BY DEF Present, Pair
    <2>2. \A x \in P : Fits(x, v[x]) /\ Holds(x) = Versioned
      BY <2>1, HoldsIs DEF Database, Item
    <2>. QED
      BY <2>1, <2>2 DEF Fits
  <1>2. vers \in SUBSET Nat
    BY <1>1 DEF Versioned
  <1>3. IsFiniteSet(vers)
    <2>1. IsFiniteSet(P)
      BY <1>1, NamesAssumption, FS_Subset
    <2>2. f \in Surjection(P, vers)
      BY DEF Surjection
    <2>. QED
      BY <2>1, <2>2, FS_Surjection
  <1>. DEFINE W == vers \cup {0}
  <1>4. IsFiniteSet(W) /\ W \in SUBSET Nat /\ W # {} /\ vers \subseteq W
    BY <1>2, <1>3, FS_AddElement
  <1>6. NextVersion(v, o) = 1 + Highest(W)
    BY DEF NextVersion, Highest
  <1>. HIDE DEF W
  <1>5. Highest(W) \in Nat /\ \A n \in W : n <= Highest(W) /\ n \in Nat
    BY <1>4, FiniteHasHighest
  <1>7. ASSUME NEW x \in Present(v, TraceRel), x.ent = o.ent, x.asset = o.asset
        PROVE  v[x].ver < NextVersion(v, o)
    <2>1. v[x].ver \in vers
      BY <1>7 DEF Present, Pair
    <2>2. v[x].ver \in Nat /\ v[x].ver <= Highest(W)
      BY <1>4, <1>5, <2>1
    <2>. QED
      BY <1>5, <1>6, <2>2
  <1>8. NextVersion(v, o) \in Nat
    BY <1>5, <1>6
  <1>. QED
    BY <1>7, <1>8

-----------------------------------------------------------------------------
\* What holds of every transaction.

Work == [op : Nat \ {0}, stmt : Nat \ {0}, mine : Pieces, puts : Pieces,
         needs : SUBSET Item, ver : Nat]
Active == {"read", "write", "finish"}

Typed ==
  /\ db \in Database /\ lock \in [Item -> Tx \cup {NoTx}]
  /\ pc \in [Tx -> PC] /\ seen \in [Tx -> SUBSET Tx]
  /\ work \in [Tx -> Work] /\ req \in [Tx -> Seq(Ops)]

\* Where it is in its request; it knows of committed ones only.
InPlace(t) ==
  /\ Running(req[t]) /\ seen[t] \subseteq Landed
  /\ pc[t] \in {"read", "write"} => /\ work[t].op \in 1..Len(req[t])
                                    /\ work[t].stmt \in 1..Len(StatementsOf(CurrentOp(t)))
  /\ pc[t] = "finish" => work[t].op = Len(req[t]) + 1
  /\ pc[t] \notin Active => work[t] = EmptyWork
  /\ pc[t] # "write" => work[t].puts = None /\ work[t].needs = {}

RelOf(t) == [ent |-> CurrentOp(t).ent, st |-> CurrentOp(t).st, asset |-> CurrentOp(t).asset, by |-> t]

\* Whose relations it can have read.
Known(t) == Landed \cup {t, Original}

\* What a statement that has read is about to write.
Shape(t, P, N) ==
  /\ Statement(t) # "delete" => \A i \in DOMAIN P : P[i] \in Holds(i)
  /\ Statement(t) \in {"supersede", "invalidate"} =>
       /\ DOMAIN P = N /\ N \subseteq TraceRel
       /\ \A x \in N : /\ P[x].status # "CURRENT" /\ x.by \in Known(t)
                       /\ View(t)[x] # Absent => P[x].ver = View(t)[x].ver
  /\ Statement(t) = "create" =>
       /\ N = {CurrentOp(t).ent, CurrentOp(t).asset}
       /\ P = [i \in {RelOf(t)} |-> [status |-> "CURRENT", ver |-> work[t].ver,
                                     type |-> CurrentOp(t).type]]
  /\ Statement(t) = "set" => DOMAIN P = {CurrentOp(t).node} /\ N = {CurrentOp(t).node}
  /\ Statement(t) = "delete" => N = {CurrentOp(t).node}
  /\ Statement(t) = "inherit" => DOMAIN P = N /\ N \subseteq Entity
  /\ Statement(t) = "connect" => DOMAIN P = N /\ N \subseteq Connection
  /\ Statement(t) = "require" => DOMAIN P \subseteq Requirement
  /\ Statement(t) = "orphan" => DOMAIN P = N /\ N \subseteq Requirement
Shaped(t) == pc[t] = "write" => Shape(t, work[t].puts, work[t].needs)

\* What it has written it holds: nodes, relations of others, which it only ends,
\* and the two nodes a relation of its own joins.
Holding(t) ==
  \A i \in DOMAIN work[t].mine :
    /\ i \in Node => lock[i] = t
    /\ i \in TraceRel /\ i.by # t =>
         /\ lock[i] = t
         /\ work[t].mine[i] # Absent =>
              /\ db[i] # Absent /\ work[t].mine[i].ver = db[i].ver
              /\ work[t].mine[i].status # "CURRENT"
    /\ i \in TraceRel /\ i.by = t /\ work[t].mine[i] # Absent =>
         lock[i.ent] = t /\ lock[i.asset] = t

Joins(v) == \A x \in TraceRel : v[x] # Absent => v[x.ent] # Absent /\ v[x.asset] # Absent

TransactionInv ==
  /\ Typed /\ Joins(db)
  /\ \A x \in TraceRel : db[x] # Absent => x.by = Original \/ pc[x.by] = "committed"
  /\ \A t \in Tx : InPlace(t) /\ Shaped(t) /\ Holding(t) /\ Joins(View(t))

LEMMA ViewIs ==
  ASSUME Typed, NEW t \in Tx
  PROVE  /\ View(t) \in Database
         /\ \A i \in Item : View(t)[i] = IF i \in DOMAIN work[t].mine THEN work[t].mine[i] ELSE db[i]
  <1>1. \A i \in Item : View(t)[i] = IF i \in DOMAIN work[t].mine THEN work[t].mine[i] ELSE db[i]
    BY DEF View
  <1>2. work[t].mine \in Pieces /\ db \in Pieces /\ DOMAIN db = Item
    BY WholePiece DEF Typed, Work
  <1>3. \A i \in Item : Fits(i, View(t)[i])
    BY <1>1, <1>2, PieceIs
  <1>4. DOMAIN View(t) = Item /\ View(t) = [i \in Item |-> View(t)[i]]
    BY DEF View
  <1>5. View(t) \in Pieces
    BY <1>3, <1>4, APiece
  <1>. QED
    BY <1>1, <1>4, <1>5, WholePiece

LEMMA ViewKnown ==
  ASSUME TransactionInv, NEW t \in Tx, NEW x \in TraceRel, View(t)[x] # Absent
  PROVE  x.by \in Known(t)
  <1>1. View(t)[x] = IF x \in DOMAIN work[t].mine THEN work[t].mine[x] ELSE db[x]
    BY ViewIs DEF TransactionInv, Item
  <1>2. CASE x \in DOMAIN work[t].mine /\ x.by # t
    BY <1>1, <1>2 DEF TransactionInv, Holding, Known, Landed, TraceRel
  <1>3. CASE x \notin DOMAIN work[t].mine
    BY <1>1, <1>3 DEF TransactionInv, Known, Landed, TraceRel
  <1>. QED
    BY <1>2, <1>3 DEF Known

LEMMA InDatabase ==
  ASSUME NEW v \in Database
  PROVE  /\ \A x \in Present(v, TraceRel) : v[x] \in Versioned
         /\ \A q \in Present(v, Requirement) : v[q] \in Stating
         /\ \A n \in Node : v[n] # Absent => v[n] \in SUBSET Prop
         /\ Current(v) \subseteq Present(v, TraceRel) /\ Present(v, TraceRel) \subseteq TraceRel
  BY HoldsIs DEF Database, Fits, Present, Current, Item

\* A statement has read.
Reads(t, p, n, k) ==
  /\ pc[t] = "read" /\ pc' = [pc EXCEPT ![t] = "write"]
  /\ work' = [work EXCEPT ![t] = [work[t] EXCEPT !.puts = p, !.needs = n, !.ver = k]]
  /\ UNCHANGED <<db, lock, req, seen>>

LEMMA ReadsEffect ==
  ASSUME Typed, NEW t \in Tx, NEW p \in Pieces, NEW n \in SUBSET Item, NEW k \in Nat,
         Reads(t, p, n, k)
  PROVE  /\ Typed'
         /\ work'[t].op = work[t].op /\ work'[t].stmt = work[t].stmt
         /\ work'[t].mine = work[t].mine
         /\ work'[t].puts = p /\ work'[t].needs = n /\ work'[t].ver = k
         /\ pc'[t] = "write"
         /\ \A u \in Tx \ {t} : work'[u] = work[u] /\ pc'[u] = pc[u]
         /\ \A u \in Tx : View(u)' = View(u)
         /\ Landed' = Landed
  <1>. DEFINE w == [work[t] EXCEPT !.puts = p, !.needs = n, !.ver = k]
  <1>1. work[t] \in Work
    BY DEF Typed
  <1>2. /\ w \in Work /\ w.op = work[t].op /\ w.stmt = work[t].stmt
        /\ w.mine = work[t].mine /\ w.puts = p /\ w.needs = n /\ w.ver = k
    BY <1>1 DEF Work
  <1>3. work' = [work EXCEPT ![t] = w]
    BY DEF Reads
  <1>. HIDE DEF w
  <1>4. work' \in [Tx -> Work] /\ work'[t] = w /\ \A u \in Tx \ {t} : work'[u] = work[u]
    BY <1>2, <1>3 DEF Typed
  <1>5. pc' \in [Tx -> PC] /\ pc'[t] = "write" /\ \A u \in Tx \ {t} : pc'[u] = pc[u]
    BY DEF Reads, Typed, PC
  <1>6. \A u \in Tx : work'[u].mine = work[u].mine
    BY <1>2, <1>4
  <1>7. \A u \in Tx : View(u)' = View(u)
    BY <1>6 DEF View, Reads
  <1>8. Landed' = Landed
    BY <1>5 DEF Landed, Reads
  <1>. QED
    BY <1>2, <1>4, <1>5, <1>7, <1>8 DEF Typed, Reads

LEMMA StagesReads ==
  ASSUME Typed, NEW t \in Tx, pc[t] = "read", NEW p, NEW n, Prepare(t, p, n)
  PROVE  Reads(t, p, n, work[t].ver)
  <1>1. work[t] \in Work
    BY DEF Typed
  <1>2. [work[t] EXCEPT !.puts = p, !.needs = n]
          = [work[t] EXCEPT !.puts = p, !.needs = n, !.ver = work[t].ver]
    BY <1>1 DEF Work
  <1>3. work' = [work EXCEPT ![t] = [work[t] EXCEPT !.puts = p, !.needs = n]]
    BY <1>1 DEF Prepare, Typed
  <1>. QED
    BY <1>2, <1>3 DEF Prepare, Reads

LEMMA OpInPlace ==
  ASSUME Typed, NEW t \in Tx, InPlace(t), pc[t] \in {"read", "write"}
  PROVE  CurrentOp(t) \in Ops /\ work[t].stmt \in 1..Len(StatementsOf(CurrentOp(t)))
  <1>1. req[t] \in Seq(Ops) /\ work[t].op \in 1..Len(req[t])
    BY DEF Typed, InPlace
  <1>. QED
    BY <1>1 DEF CurrentOp, InPlace

\* In place, a statement says which operation is at which step.
LEMMA StatementInPlace ==
  ASSUME Typed, NEW t \in Tx, InPlace(t), pc[t] \in {"read", "write"}
  PROVE  /\ Statement(t) = "supersede" <=> CurrentOp(t).kind \in {"trace", "clear"} /\ work[t].stmt = 1
         /\ Statement(t) = "create" <=> CurrentOp(t).kind = "trace" /\ work[t].stmt = 2
         /\ Statement(t) = "set" <=> CurrentOp(t).kind = "set"
         /\ Statement(t) = "invalidate" <=>
              CurrentOp(t).kind = "delete" /\ CurrentOp(t).node \in State /\ work[t].stmt = 1
         /\ Statement(t) = "delete" <=> CurrentOp(t).kind = "delete" /\ LastStatement(t)
         /\ Statement(t) = "inherit" <=> CurrentOp(t).kind = "recompute" /\ work[t].stmt = 1
         /\ Statement(t) = "connect" <=> CurrentOp(t).kind = "recompute" /\ work[t].stmt = 2
         /\ Statement(t) = "require" <=> CurrentOp(t).kind = "recompute" /\ work[t].stmt = 3
         /\ Statement(t) = "orphan" <=> CurrentOp(t).kind = "recompute" /\ work[t].stmt = 4
         /\ LastStatement(t) <=>
              work[t].stmt = IF CurrentOp(t).kind = "trace" THEN 2
                             ELSE IF CurrentOp(t).kind = "recompute" THEN 4
                             ELSE IF CurrentOp(t).kind = "delete" /\ CurrentOp(t).node \in State
                                  THEN 2 ELSE 1
  BY OpInPlace, StatementIs DEF Statement, LastStatement

LEMMA PutIs ==
  ASSUME NEW v \in Database, NEW S \in SUBSET Current(v), NEW s \in Status \ {"CURRENT"}
  PROVE  /\ Put(v, S, s) \in Pieces /\ DOMAIN Put(v, S, s) = S /\ S \subseteq TraceRel
         /\ \A x \in S : /\ Put(v, S, s)[x] \in Holds(x) /\ Put(v, S, s)[x].status # "CURRENT"
                         /\ Put(v, S, s)[x].status = s
                         /\ Put(v, S, s)[x].ver = v[x].ver
  <1>. DEFINE f == Put(v, S, s)
  <1>1. S \subseteq TraceRel /\ \A x \in S : v[x] \in Versioned
    BY InDatabase
  <1>2. DOMAIN f = S /\ f = [x \in S |-> f[x]] /\ \A x \in S : f[x] = [v[x] EXCEPT !.status = s]
    BY DEF Put
  <1>. HIDE DEF f
  <1>3. \A x \in S : f[x] \in Versioned /\ f[x].status = s /\ f[x].ver = v[x].ver
    <2>1. ASSUME NEW y \in Versioned
          PROVE  /\ [y EXCEPT !.status = s] \in Versioned
                 /\ [y EXCEPT !.status = s].status = s /\ [y EXCEPT !.status = s].ver = y.ver
      BY DEF Versioned
    <2>2. TAKE x \in S
    <2>3. v[x] \in Versioned /\ f[x] = [v[x] EXCEPT !.status = s]
      BY <1>1, <1>2
    <2>4. /\ [v[x] EXCEPT !.status = s] \in Versioned
          /\ [v[x] EXCEPT !.status = s].status = s /\ [v[x] EXCEPT !.status = s].ver = v[x].ver
      BY <2>1, <2>3, Zenon
    <2>. QED
      BY <2>3, <2>4
  <1>4. \A x \in S : f[x] \in Holds(x) /\ Fits(x, f[x])
    BY <1>1, <1>3, HoldsIs DEF Fits
  <1>5. S \in SUBSET Item
    BY <1>1 DEF Item
  <1>6. f \in Pieces
    BY <1>2, <1>4, <1>5, APiece
  <1>. QED
    BY <1>1, <1>2, <1>3, <1>4, <1>6 DEF f

LEMMA SupersedeReads ==
  ASSUME TransactionInv, NEW t \in Tx, Supersede(t)
  PROVE  \E p \in Pieces, n \in SUBSET Item, k \in Nat :
           /\ Reads(t, p, n, k) /\ Shape(t, p, n)
           /\ n = {x \in Cell(CurrentOp(t)) \cap Current(View(t)) :
                     CurrentOp(t).kind = "trace" \/ View(t)[x].type = CurrentOp(t).type}
           /\ CurrentOp(t).kind = "trace" => k = NextVersion(View(t), CurrentOp(t))
  <1>. DEFINE o == CurrentOp(t)
              v == View(t)
              old == {x \in Cell(o) \cap Current(v) : o.kind = "trace" \/ v[x].type = o.type}
              p == Put(v, old, "SUPERSEDED")
              k == IF o.kind = "trace" THEN NextVersion(v, o) ELSE 0
  <1>1. v \in Database /\ Typed /\ InPlace(t)
    BY ViewIs DEF TransactionInv
  <1>2. /\ pc[t] = "read" /\ Statement(t) = "supersede" /\ pc' = [pc EXCEPT ![t] = "write"]
        /\ UNCHANGED <<db, lock, req, seen>>
        /\ work' = [work EXCEPT ![t].puts = p, ![t].needs = old, ![t].ver = k]
    BY DEF Supersede, At
  <1>3. k \in Nat
    BY <1>1, NextVersionIs
  <1>4. old \in SUBSET Current(v) /\ "SUPERSEDED" \in Status \ {"CURRENT"}
    BY DEF Status
  <1>. HIDE DEF v, old
  <1>5. /\ p \in Pieces /\ DOMAIN p = old /\ old \subseteq TraceRel
        /\ \A x \in old : p[x] \in Holds(x) /\ p[x].status # "CURRENT" /\ p[x].ver = v[x].ver
    BY <1>1, <1>4, PutIs DEF p
  <1>6. old \in SUBSET Item
    BY <1>5 DEF Item
  <1>. HIDE DEF p, k, o
  <1>7. Reads(t, p, old, k)
    <2>1. work \in [Tx -> Work]
      BY <1>1 DEF Typed
    <2>2. work' = [work EXCEPT ![t] = [work[t] EXCEPT !.puts = p, !.needs = old, !.ver = k]]
      BY <1>2, <2>1
    <2>. QED
      BY <1>2, <2>2 DEF Reads
  <1>8. Shape(t, p, old)
    <2>1. \A x \in old : x.by \in Known(t)
      BY <1>1, <1>4, <1>5, InDatabase, ViewKnown DEF v, Present
    <2>. QED
      BY <1>2, <1>5, <2>1 DEF Shape, v
  <1>9. /\ old = {x \in Cell(CurrentOp(t)) \cap Current(View(t)) :
                    CurrentOp(t).kind = "trace" \/ View(t)[x].type = CurrentOp(t).type}
        /\ CurrentOp(t).kind = "trace" => k = NextVersion(View(t), CurrentOp(t))
    BY DEF old, k, o, v
  <1>. QED
    BY <1>3, <1>5, <1>6, <1>7, <1>8, <1>9

LEMMA InvalidateReads ==
  ASSUME TransactionInv, NEW t \in Tx, Invalidate(t)
  PROVE  \E p \in Pieces, n \in SUBSET Item :
           /\ Reads(t, p, n, work[t].ver) /\ Shape(t, p, n)
           /\ n = {x \in Current(View(t)) : x.st = CurrentOp(t).node}
  <1>. DEFINE v == View(t)
              old == {x \in Current(v) : x.st = CurrentOp(t).node}
              p == Put(v, old, "INVALIDATED")
  <1>1. v \in Database /\ Typed
    BY ViewIs DEF TransactionInv
  <1>2. pc[t] = "read" /\ Statement(t) = "invalidate" /\ Prepare(t, p, old)
    BY DEF Invalidate, At, Stage
  <1>4. old \in SUBSET Current(v) /\ "INVALIDATED" \in Status \ {"CURRENT"}
    BY DEF Status
  <1>. HIDE DEF v, old
  <1>5. /\ p \in Pieces /\ DOMAIN p = old /\ old \subseteq TraceRel
        /\ \A x \in old : p[x] \in Holds(x) /\ p[x].status # "CURRENT" /\ p[x].ver = v[x].ver
    <2>1. ASSUME NEW S \in SUBSET Current(v)
          PROVE  LET u == Put(v, S, "INVALIDATED") IN
                 /\ u \in Pieces /\ DOMAIN u = S /\ S \subseteq TraceRel
                 /\ \A x \in S : u[x] \in Holds(x) /\ u[x].status # "CURRENT" /\ u[x].ver = v[x].ver
      BY <1>1, <1>4, PutIs
    <2>. QED
      BY <1>4, <2>1 DEF p
  <1>6. old \in SUBSET Item
    BY <1>5 DEF Item
  <1>. HIDE DEF p
  <1>7. Reads(t, p, old, work[t].ver)
    BY <1>1, <1>2, StagesReads
  <1>8. Shape(t, p, old)
    <2>1. \A x \in old : x.by \in Known(t)
      BY <1>1, <1>4, <1>5, InDatabase, ViewKnown DEF v, Present
    <2>. QED
      BY <1>2, <1>5, <2>1 DEF Shape, v
  <1>. QED
    BY <1>5, <1>6, <1>7, <1>8 DEF old, v

LEMMA CreateReads ==
  ASSUME TransactionInv, NEW t \in Tx, Create(t)
  PROVE  \E p \in Pieces, n \in SUBSET Item : Reads(t, p, n, work[t].ver) /\ Shape(t, p, n)
  <1>. DEFINE o == CurrentOp(t)
              value == [status |-> "CURRENT", ver |-> work[t].ver, type |-> o.type]
              p == [i \in {RelOf(t)} |-> value]
              n == {o.ent, o.asset}
  <1>1. Typed /\ InPlace(t) /\ work[t].ver \in Nat
    BY DEF TransactionInv, Typed, Work
  <1>2. pc[t] = "read" /\ Statement(t) = "create" /\ Prepare(t, p, n)
    BY DEF Create, At, Stage, RelOf
  <1>3. o \in Ops /\ o.kind = "trace"
    BY <1>1, <1>2, OpInPlace, StatementInPlace
  <1>4. o.ent \in Entity /\ o.asset \in Asset /\ o.st \in State /\ o.type \in RelType
    BY <1>3, OpsAre
  <1>5. RelOf(t) \in TraceRel
    BY <1>4 DEF RelOf, TraceRel
  <1>6. value \in Versioned
    BY <1>1, <1>4 DEF Versioned, Status
  <1>. HIDE DEF value
  <1>7. p \in Pieces /\ \A i \in DOMAIN p : p[i] \in Holds(i)
    <2>1. \A i \in {RelOf(t)} : p[i] = value /\ value \in Holds(i) /\ Fits(i, value)
      BY <1>5, <1>6, HoldsIs DEF Fits
    <2>2. {RelOf(t)} \in SUBSET Item
      BY <1>5 DEF Item
    <2>. QED
      BY <2>1, <2>2, APiece
  <1>8. n \in SUBSET Item
    BY <1>4 DEF Item, Node, Flagged
  <1>9. Shape(t, p, n)
    BY <1>2, <1>7 DEF Shape, value
  <1>. HIDE DEF p, n
  <1>10. Reads(t, p, n, work[t].ver)
    BY <1>1, <1>2, StagesReads
  <1>. QED
    BY <1>7, <1>8, <1>9, <1>10

LEMMA SetReads ==
  ASSUME TransactionInv, NEW t \in Tx, SetFlags(t)
  PROVE  \E p \in Pieces, n \in SUBSET Item : Reads(t, p, n, work[t].ver) /\ Shape(t, p, n)
  <1>. DEFINE o == CurrentOp(t)
              p == [i \in {o.node} |-> o.flags]
              n == {o.node}
  <1>1. Typed /\ InPlace(t)
    BY DEF TransactionInv
  <1>2. pc[t] = "read" /\ Statement(t) = "set" /\ Prepare(t, p, n)
    BY DEF SetFlags, At, Stage
  <1>3. o \in Ops /\ o.kind = "set"
    BY <1>1, <1>2, OpInPlace, StatementInPlace
  <1>4. o.node \in Node /\ o.flags \in SUBSET Prop
    BY <1>3, OpsAre DEF Node, Flagged
  <1>7. p \in Pieces /\ \A i \in DOMAIN p : p[i] \in Holds(i)
    <2>1. \A i \in {o.node} : p[i] = o.flags /\ o.flags \in Holds(i) /\ Fits(i, o.flags)
      BY <1>4, HoldsIs DEF Fits
    <2>2. {o.node} \in SUBSET Item
      BY <1>4 DEF Item
    <2>. QED
      BY <2>1, <2>2, APiece
  <1>8. n \in SUBSET Item
    BY <1>4 DEF Item
  <1>9. Shape(t, p, n)
    BY <1>2, <1>7 DEF Shape
  <1>. HIDE DEF p, n
  <1>10. Reads(t, p, n, work[t].ver)
    BY <1>1, <1>2, StagesReads
  <1>. QED
    BY <1>7, <1>8, <1>9, <1>10

LEMMA DeleteReads ==
  ASSUME TransactionInv, NEW t \in Tx, Delete(t)
  PROVE  \E p \in Pieces, n \in SUBSET Item : Reads(t, p, n, work[t].ver) /\ Shape(t, p, n)
  <1>. DEFINE o == CurrentOp(t)
              p == [i \in {o.node} |-> Absent]
              n == {o.node}
  <1>1. Typed /\ InPlace(t)
    BY DEF TransactionInv
  <1>2. pc[t] = "read" /\ Statement(t) = "delete" /\ Prepare(t, p, n)
    BY DEF Delete, At, Stage
  <1>3. o \in Ops /\ o.kind = "delete"
    BY <1>1, <1>2, OpInPlace, StatementInPlace
  <1>4. o.node \in Item
    BY <1>3, OpsAre DEF Item, Node, Flagged
  <1>7. p \in Pieces
    <2>1. \A i \in {o.node} : p[i] = Absent /\ Fits(i, Absent)
      BY DEF Fits
    <2>2. {o.node} \in SUBSET Item
      BY <1>4
    <2>. QED
      BY <2>1, <2>2, APiece
  <1>8. n \in SUBSET Item
    BY <1>4
  <1>9. Shape(t, p, n)
    BY <1>2 DEF Shape
  <1>. HIDE DEF p, n
  <1>10. Reads(t, p, n, work[t].ver)
    BY <1>1, <1>2, StagesReads
  <1>. QED
    BY <1>7, <1>8, <1>9, <1>10

\* Relations join nodes, so what a node inherits are flags.
LEMMA InheritedFlags ==
  ASSUME NEW v \in Database, Joins(v)
  PROVE  /\ \A e : Inherited(v, e) \in SUBSET Prop
         /\ \A c : UNION {v[e] : e \in TracedEnds(v, c)} \in SUBSET Prop
         /\ \A c : TracedEnds(v, c) \subseteq Entity
  <1>1. \A x \in Current(v) : /\ x \in TraceRel /\ x.ent \in Entity /\ x.asset \in Asset
                              /\ v[x.ent] \in SUBSET Prop /\ v[x.asset] \in SUBSET Prop
    <2>1. \A x \in Current(v) : x \in TraceRel /\ v[x] # Absent
      BY InDatabase DEF Present
    <2>2. \A x \in TraceRel : /\ x.ent \in Entity /\ x.asset \in Asset
                              /\ x.ent \in Node /\ x.asset \in Node
      BY DEF TraceRel, Node, Flagged
    <2>. QED
      BY <2>1, <2>2, InDatabase DEF Joins
  <1>2. \A e : Inherited(v, e) \in SUBSET Prop
    BY <1>1 DEF Inherited
  <1>3. \A c : \A e \in TracedEnds(v, c) : e \in Entity /\ v[e] \in SUBSET Prop
    BY <1>1 DEF TracedEnds
  <1>. QED
    BY <1>2, <1>3

LEMMA InheritReads ==
  ASSUME TransactionInv, NEW t \in Tx, Inherit(t)
  PROVE  LET v == View(t)
             p == [e \in Present(v, Entity) |-> Inherited(v, e)] IN
         /\ p \in Pieces /\ Present(v, Entity) \in SUBSET Item
         /\ Reads(t, p, Present(v, Entity), work[t].ver) /\ Shape(t, p, Present(v, Entity))
  <1>. DEFINE v == View(t)
              n == Present(v, Entity)
              p == [e \in n |-> Inherited(v, e)]
  <1>1. Typed /\ InPlace(t) /\ v \in Database /\ Joins(v)
    BY ViewIs DEF TransactionInv
  <1>2. pc[t] = "read" /\ Statement(t) = "inherit" /\ Prepare(t, p, n)
    BY DEF Inherit, At
  <1>3. n \subseteq Entity /\ n \in SUBSET Item /\ n \subseteq Node
    BY DEF Present, Item, Node, Flagged
  <1>7. p \in Pieces /\ \A i \in n : p[i] \in Holds(i)
    <2>1. \A i \in n : p[i] = Inherited(v, i)
      OBVIOUS
    <2>2. \A i : Inherited(v, i) \in SUBSET Prop
      BY <1>1, InheritedFlags
    <2>3. \A i \in n : p[i] \in Holds(i) /\ Fits(i, p[i])
      BY <1>3, <2>1, <2>2, HoldsIs DEF Fits
    <2>4. p = [i \in n |-> p[i]]
      OBVIOUS
    <2>. HIDE DEF p, n
    <2>. QED
      BY <1>3, <2>3, <2>4, APiece
  <1>9. Shape(t, p, n)
    BY <1>2, <1>3, <1>7 DEF Shape
  <1>. HIDE DEF p, n
  <1>10. Reads(t, p, n, work[t].ver)
    BY <1>1, <1>2, StagesReads
  <1>. QED
    BY <1>3, <1>7, <1>9, <1>10 DEF p, n

LEMMA ConnectReads ==
  ASSUME TransactionInv, NEW t \in Tx, Connect(t)
  PROVE  LET v == View(t)
             n == {c \in Connection : TracedEnds(v, c) # {}}
             p == [c \in n |-> UNION {v[e] : e \in TracedEnds(v, c)}] IN
         p \in Pieces /\ n \in SUBSET Item /\ Reads(t, p, n, work[t].ver) /\ Shape(t, p, n)
  <1>. DEFINE v == View(t)
              n == {c \in Connection : TracedEnds(v, c) # {}}
              flags(c) == UNION {v[e] : e \in TracedEnds(v, c)}
              p == [c \in n |-> flags(c)]
  <1>1. Typed /\ InPlace(t) /\ v \in Database /\ Joins(v)
    BY ViewIs DEF TransactionInv
  <1>2. pc[t] = "read" /\ Statement(t) = "connect" /\ Prepare(t, p, n)
    BY DEF Connect, At, Stage
  <1>3. n \subseteq Connection /\ n \in SUBSET Item /\ n \subseteq Node
    BY DEF Item, Node, Flagged
  <1>7. p \in Pieces /\ \A i \in n : p[i] \in Holds(i)
    <2>1. \A i \in n : p[i] = flags(i)
      OBVIOUS
    <2>2. \A i : flags(i) \in SUBSET Prop
      BY <1>1, InheritedFlags
    <2>. HIDE DEF flags
    <2>3. \A i \in n : p[i] \in Holds(i) /\ Fits(i, p[i])
      BY <1>3, <2>1, <2>2, HoldsIs DEF Fits
    <2>4. p = [i \in n |-> p[i]]
      OBVIOUS
    <2>. HIDE DEF p, n
    <2>. QED
      BY <1>3, <2>3, <2>4, APiece
  <1>. HIDE DEF flags
  <1>9. Shape(t, p, n)
    BY <1>2, <1>3, <1>7 DEF Shape
  <1>. HIDE DEF p, n
  <1>10. Reads(t, p, n, work[t].ver)
    BY <1>1, <1>2, StagesReads
  <1>. QED
    BY <1>3, <1>7, <1>9, <1>10 DEF p, n, flags

\* Sequence numbers go on from the highest: none of those numbered is there.
LEMMA HighestSeqIs ==
  ASSUME NEW v \in Database
  PROVE  /\ HighestSeq(v) \in 0..MaxReq
         /\ \A q \in Present(v, Requirement) : q.seq <= HighestSeq(v)
  <1>. DEFINE S == {q.seq : q \in Present(v, Requirement)} \cup {0}
  <1>1. S \subseteq 0..MaxReq /\ S # {} /\ \A q \in Present(v, Requirement) : q.seq \in S
    BY NamesAssumption DEF Requirement, Present
  <1>2. IsFiniteSet(S) /\ S \in SUBSET Nat
    <2>1. IsFiniteSet(0..MaxReq) /\ 0..MaxReq \subseteq Nat
      BY NamesAssumption, FS_Interval
    <2>. HIDE DEF S
    <2>. QED
      BY <1>1, <2>1, FS_Subset
  <1>3. HighestSeq(v) = Highest(S)
    BY DEF HighestSeq, Highest
  <1>. HIDE DEF S
  <1>4. Highest(S) \in S /\ \A n \in S : n <= Highest(S)
    BY <1>1, <1>2, FiniteHasHighest
  <1>. QED
    BY <1>1, <1>3, <1>4

Numbered(top, k) == {[seq |-> top + i] : i \in 1..k}

\* As many numbers as rows, each row with one: no row has two.
LEMMA EachRowOnce ==
  ASSUME NEW rows, IsFiniteSet(rows), NEW top \in Nat, NEW new,
         new = Numbered(top, Cardinality(rows)),
         NEW row \in [new -> rows], \A r \in rows : \E q \in new : row[q] = r
  PROVE  \A q, r \in new : q # r => row[q] # row[r]
  <1>. DEFINE n == Cardinality(rows)
              f == [i \in 1..n |-> [seq |-> top + i]]
  <1>1. n \in Nat
    BY FS_CardinalityType
  <1>. HIDE DEF n
  <1>2. f \in Bijection(1..n, new)
    <2>1. DOMAIN f = 1..n /\ \A i \in 1..n : f[i] = [seq |-> top + i] /\ f[i] \in new
      BY DEF n, Numbered
    <2>2. \A i, j \in 1..n : f[i] = f[j] => i = j
      <3>1. TAKE i, j \in 1..n
      <3>2. HAVE f[i] = f[j]
      <3>3. [seq |-> top + i].seq = [seq |-> top + j].seq
        BY <2>1, <3>2
      <3>. QED
        BY <1>1, <3>3
    <2>3. \A s \in new : \E i \in 1..n : f[i] = s
      BY <2>1 DEF n, Numbered
    <2>4. f \in [1..n -> new]
      BY <2>1
    <2>. HIDE DEF f
    <2>. QED
      BY <2>2, <2>3, <2>4 DEF Bijection, Injection, IsInjective, Surjection
  <1>. HIDE DEF f
  <1>3. IsFiniteSet(new) /\ Cardinality(new) = n
    <2>1. ExistsBijection(1..n, new)
      BY <1>2 DEF ExistsBijection
    <2>2. IsFiniteSet(1..n)
      BY <1>1, FS_Interval
    <2>. QED
      BY <1>1, <2>1, <2>2, FS_CountingElements, FS_Bijection
  <1>4. row \in Surjection(new, rows)
    BY DEF Surjection
  <1>5. row \in Injection(new, rows)
    BY <1>3, <1>4, FS_SurjSameCardinalityImpliesInj DEF n
  <1>. QED
    BY <1>5 DEF Injection, IsInjective

LEMMA RequireReads ==
  ASSUME TransactionInv, NEW t \in Tx, Require(t)
  PROVE  LET v == View(t)
             rows == Required(v) \ Stated(v) IN
         \E p \in Pieces, n \in SUBSET Item :
           /\ Reads(t, p, n, work[t].ver) /\ Shape(t, p, n)
           /\ \A q \in DOMAIN p : <<p[q].ent, p[q].asset>> \in rows /\ p[q].orphan = FALSE
           /\ \A r \in rows : \E q \in DOMAIN p : <<p[q].ent, p[q].asset>> = r
           /\ \A q, r \in DOMAIN p : q # r => <<p[q].ent, p[q].asset>> # <<p[r].ent, p[r].asset>>
  <1>. DEFINE v == View(t)
              rows == Required(v) \ Stated(v)
              top == HighestSeq(v)
              new == {[seq |-> top + i] : i \in 1..Cardinality(rows)}
              states(row) == [q \in new |-> [ent |-> row[q][1], asset |-> row[q][2], orphan |-> FALSE]]
              n == IF rows = {} THEN {} ELSE new \cup {r[1] : r \in rows} \cup {Purpose}
  <1>1. Typed /\ InPlace(t) /\ v \in Database
    BY ViewIs DEF TransactionInv
  <1>2. /\ pc[t] = "read" /\ Statement(t) = "require" /\ top + Cardinality(rows) <= MaxReq
        /\ \E row \in [new -> rows] : /\ \A r \in rows : \E q \in new : row[q] = r
                                      /\ Prepare(t, states(row), n)
    BY DEF Require, At, Stage
  <1>3. PICK row \in [new -> rows] : /\ \A r \in rows : \E q \in new : row[q] = r
                                     /\ Prepare(t, states(row), n)
    BY <1>2
  <1>4. rows \subseteq Entity \X Asset
    BY DEF Required
  <1>5. Cardinality(rows) \in Nat
    <2>1. IsFiniteSet(Entity \X Asset)
      BY NamesAssumption, FS_Product
    <2>. HIDE DEF rows
    <2>2. IsFiniteSet(rows)
      BY <1>4, <2>1, FS_Subset
    <2>. QED
      BY <2>2, FS_CardinalityType
  <1>6. new \subseteq Requirement
    <2>1. top \in 0..MaxReq /\ MaxReq \in Nat
      BY <1>1, HighestSeqIs, NamesAssumption
    <2>2. \A i \in 1..Cardinality(rows) : top + i \in 1..MaxReq
      BY <1>2, <1>5, <2>1
    <2>. QED
      BY <2>2 DEF Requirement
  <1>. DEFINE p == states(row)
  <1>7. DOMAIN p = new /\ \A q \in new : /\ p[q] \in Stating /\ <<p[q].ent, p[q].asset>> = row[q]
                                          /\ p[q].orphan = FALSE
    <2>1. \A q \in new : row[q] \in Entity \X Asset
      BY <1>4
    <2>. HIDE DEF new, rows
    <2>2. \A q \in new : p[q] = [ent |-> row[q][1], asset |-> row[q][2], orphan |-> FALSE]
      OBVIOUS
    <2>. QED
      BY <2>1, <2>2 DEF Stating
  <1>8. p \in Pieces /\ \A q \in new : p[q] \in Holds(q)
    <2>1. \A q \in new : p[q] \in Holds(q) /\ Fits(q, p[q])
      BY <1>6, <1>7, HoldsIs DEF Fits
    <2>2. p = [q \in new |-> p[q]] /\ new \in SUBSET Item
      BY <1>6 DEF Item
    <2>. HIDE DEF p, new
    <2>. QED
      BY <2>1, <2>2, APiece
  <1>9. n \in SUBSET Item
    <2>1. {r[1] : r \in rows} \subseteq Entity
      BY <1>4
    <2>. HIDE DEF new, rows
    <2>. QED
      BY <1>6, <2>1 DEF Item, Node, Flagged
  <1>. HIDE DEF new, rows, n, states
  <1>10. Shape(t, p, n)
    BY <1>2, <1>6, <1>7, <1>8 DEF Shape
  <1>11. Reads(t, p, n, work[t].ver)
    BY <1>1, <1>2, <1>3, StagesReads
  <1>12. /\ \A q \in DOMAIN p : <<p[q].ent, p[q].asset>> \in rows /\ p[q].orphan = FALSE
         /\ \A r \in rows : \E q \in DOMAIN p : <<p[q].ent, p[q].asset>> = r
    <2>1. \A q \in new : p[q].orphan = FALSE
      BY <1>7, Zenon
    <2>2. DOMAIN p = new /\ \A q \in new : <<p[q].ent, p[q].asset>> = row[q]
      BY <1>7
    <2>. HIDE DEF p
    <2>. QED
      BY <1>3, <2>1, <2>2
  <1>13. \A q, r \in DOMAIN p : q # r => <<p[q].ent, p[q].asset>> # <<p[r].ent, p[r].asset>>
    <2>1. IsFiniteSet(rows)
      <3>1. IsFiniteSet(Entity \X Asset)
        BY NamesAssumption, FS_Product
      <3>. QED
        BY <1>4, <3>1, FS_Subset
    <2>2. top \in Nat
      BY <1>1, HighestSeqIs, NamesAssumption
    <2>3. new = Numbered(top, Cardinality(rows))
      BY DEF new, Numbered
    <2>. HIDE DEF top, new
    <2>5. row \in [new -> rows] /\ \A r \in rows : \E q \in new : row[q] = r
      BY <1>3
    <2>. HIDE DEF rows
    <2>4. \A q, r \in new : q # r => row[q] # row[r]
      BY <2>1, <2>2, <2>3, <2>5, EachRowOnce
    <2>. QED
      BY <1>7, <2>4
  <1>. QED
    BY <1>8, <1>9, <1>10, <1>11, <1>12, <1>13 DEF rows

LEMMA OrphanReads ==
  ASSUME TransactionInv, NEW t \in Tx, Orphan(t)
  PROVE  LET v == View(t)
             p == [q \in Untraced(v) |-> [v[q] EXCEPT !.orphan = TRUE]] IN
         /\ p \in Pieces /\ Untraced(v) \in SUBSET Item
         /\ Reads(t, p, Untraced(v), work[t].ver) /\ Shape(t, p, Untraced(v))
  <1>. DEFINE v == View(t)
              n == Untraced(v)
              p == [q \in n |-> [v[q] EXCEPT !.orphan = TRUE]]
  <1>1. Typed /\ InPlace(t) /\ v \in Database
    BY ViewIs DEF TransactionInv
  <1>2. pc[t] = "read" /\ Statement(t) = "orphan" /\ Prepare(t, p, n)
    BY DEF Orphan, At, Stage
  <1>3. n \subseteq Requirement /\ n \in SUBSET Item /\ \A q \in n : v[q] \in Stating
    BY <1>1, InDatabase DEF Untraced, Present, Item
  <1>7. p \in Pieces /\ \A i \in n : p[i] \in Holds(i)
    <2>1. \A q \in n : p[q] = [v[q] EXCEPT !.orphan = TRUE]
      OBVIOUS
    <2>2. \A w \in Stating : [w EXCEPT !.orphan = TRUE] \in Stating
      BY DEF Stating
    <2>3. \A i \in n : p[i] \in Holds(i) /\ Fits(i, p[i])
      BY <1>3, <2>1, <2>2, HoldsIs DEF Fits
    <2>4. p = [i \in n |-> p[i]]
      OBVIOUS
    <2>. HIDE DEF p, n
    <2>. QED
      BY <1>3, <2>3, <2>4, APiece
  <1>9. Shape(t, p, n)
    BY <1>2, <1>3, <1>7 DEF Shape
  <1>. HIDE DEF p, n
  <1>10. Reads(t, p, n, work[t].ver)
    BY <1>1, <1>2, StagesReads
  <1>. QED
    BY <1>3, <1>7, <1>9, <1>10 DEF p, n

Reading(t) ==
  \/ Supersede(t) \/ Create(t) \/ SetFlags(t) \/ Invalidate(t) \/ Delete(t)
  \/ Inherit(t) \/ Connect(t) \/ Require(t) \/ Orphan(t)

LEMMA ReadingIs ==
  ASSUME TransactionInv, NEW t \in Tx, Reading(t)
  PROVE  \E p \in Pieces, n \in SUBSET Item, k \in Nat :
           /\ Reads(t, p, n, k) /\ Shape(t, p, n)
           /\ Statement(t) = "supersede" \/ k = work[t].ver
  <1>1. work[t].ver \in Nat
    BY DEF TransactionInv, Typed, Work
  <1>2. CASE Supersede(t)
    BY <1>2, SupersedeReads DEF Supersede, At
  <1>3. CASE Create(t) \/ SetFlags(t) \/ Invalidate(t) \/ Delete(t) \/ Require(t)
    BY <1>1, <1>3, CreateReads, SetReads, InvalidateReads, DeleteReads, RequireReads
  <1>4. CASE Inherit(t)
    BY <1>1, <1>4, InheritReads
  <1>5. CASE Connect(t)
    BY <1>1, <1>5, ConnectReads
  <1>6. CASE Orphan(t)
    BY <1>1, <1>6, OrphanReads
  <1>. QED
    BY <1>2, <1>3, <1>4, <1>5, <1>6 DEF Reading

-----------------------------------------------------------------------------
\* A statement writes.

\* What an item becomes: a node flags, and nodes not at all unless their relations
\* go too; a relation ends or goes, or is created between nodes that are there.
Writes(t, Q, v) ==
  /\ \A i \in DOMAIN Q : i \in Node => lock[i] = t
  /\ \A x \in DOMAIN Q : x \in TraceRel =>
       \/ /\ v[x] # Absent /\ lock[x] = t
          /\ Q[x] # Absent => Q[x].status # "CURRENT" /\ Q[x].ver = v[x].ver
       \/ /\ Statement(t) = "create" /\ x = RelOf(t) /\ v[x] = Absent
          /\ lock[x.ent] = t /\ lock[x.asset] = t /\ v[x.ent] # Absent /\ v[x.asset] # Absent
          /\ Q[x] = [status |-> "CURRENT", ver |-> work[t].ver, type |-> CurrentOp(t).type]
  /\ \A i \in DOMAIN Q : i \in Node /\ Q[i] = Absent =>
       /\ Statement(t) = "delete"
       /\ \A x \in TraceRel : v[x] # Absent /\ i \in {x.ent, x.asset} =>
            x \in DOMAIN Q /\ Q[x] = Absent

LEMMA DeleteWrites ==
  ASSUME TransactionInv, NEW t \in Tx, Write(t), Statement(t) = "delete", ~Unmatched(t)
  PROVE  /\ Puts(t) \in Pieces /\ Writes(t, Puts(t), View(t))
         /\ CurrentOp(t).node \in Item /\ lock[CurrentOp(t).node] = t
         /\ View(t)[CurrentOp(t).node] # Absent
         /\ \A i \in JoinedTo(View(t), CurrentOp(t).node) : View(t)[i] # Absent => lock[i] = t
         /\ Puts(t) = [i \in {CurrentOp(t).node} \cup RelsAt(View(t), CurrentOp(t).node) |-> Absent]
  <1>. DEFINE v == View(t)
              n == CurrentOp(t).node
              Q == Puts(t)
  <1>1. /\ Typed /\ InPlace(t) /\ v \in Database /\ pc[t] = "write" /\ Missing(t) = {}
        /\ work[t].needs = {n}
    BY ViewIs DEF TransactionInv, Write, Shaped, Shape
  <1>2. n \in Item
    <2>1. CurrentOp(t) \in Ops /\ CurrentOp(t).kind = "delete"
      BY <1>1, OpInPlace, StatementInPlace
    <2>. QED
      BY <2>1, OpsAre DEF Item, Node, Flagged
  <1>3. v[n] # Absent
    <2>1. Matched(t) = {n}
      BY DEF Matched
    <2>. QED
      BY <2>1 DEF Unmatched, Present
  <1>4. lock[n] = t
    <2>1. SUFFICES ASSUME lock[n] # t PROVE FALSE
      OBVIOUS
    <2>2. Needs(t) = {n}
      BY <1>1, <2>1 DEF Needs
    <2>3. n \in Missing(t)
      BY <1>3, <2>1, <2>2 DEF Missing, Present
    <2>. QED
      BY <1>1, <2>3
  <1>5. Needs(t) = JoinedTo(v, n)
    BY <1>4 DEF Needs, Deleting
  <1>6. \A i \in JoinedTo(v, n) : v[i] # Absent => lock[i] = t
    BY <1>1, <1>5 DEF Missing, Present
  <1>7. /\ RelsAt(v, n) \subseteq JoinedTo(v, n) /\ RelsAt(v, n) \subseteq TraceRel
        /\ \A x \in RelsAt(v, n) : v[x] # Absent
        /\ \A x \in TraceRel : v[x] # Absent /\ n \in {x.ent, x.asset} => x \in RelsAt(v, n)
    BY DEF JoinedTo, RelsAt, Present
  <1>8. Q = [i \in {n} \cup RelsAt(v, n) |-> Absent]
    BY DEF Puts, Deleting
  <1>9. Q \in Pieces
    <2>1. {n} \cup RelsAt(v, n) \in SUBSET Item
      BY <1>2, <1>7 DEF Item
    <2>2. \A i \in {n} \cup RelsAt(v, n) : Q[i] = Absent /\ Fits(i, Q[i])
      BY <1>8 DEF Fits
    <2>. QED
      BY <1>8, <2>1, <2>2, APiece
  <1>. HIDE DEF Q, n, v
  <1>10. DOMAIN Q = {n} \cup RelsAt(v, n) /\ \A i \in DOMAIN Q : Q[i] = Absent
    BY <1>8
  <1>11. Writes(t, Q, v)
    <2>1. \A i \in DOMAIN Q : v[i] # Absent /\ lock[i] = t
      BY <1>3, <1>4, <1>6, <1>7, <1>10
    <2>2. \A i \in DOMAIN Q : i \in Node => i = n
      BY <1>7, <1>10, Kinds
    <2>. QED
      BY <1>7, <1>10, <2>1, <2>2 DEF Writes
  <1>. QED
    BY <1>2, <1>3, <1>4, <1>6, <1>8, <1>9, <1>11 DEF Q, v, n

\* What a statement other than a deletion writes is there, if it is not new.
LEMMA StatementWrites ==
  ASSUME TransactionInv, NEW t \in Tx, Write(t), Statement(t) # "delete", ~Unmatched(t)
  PROVE  /\ Puts(t) = work[t].puts
         /\ Shape(t, work[t].puts, work[t].needs)
         /\ \A i \in New(t) : View(t)[i] = Absent
         /\ \A i \in (DOMAIN work[t].puts \cup work[t].needs) \ New(t) : View(t)[i] # Absent
         /\ \A i \in work[t].needs : View(t)[i] # Absent => lock[i] = t
         /\ \A i \in work[t].needs \cap New(t) : lock[i] = t
  <1>1. pc[t] = "write" /\ Missing(t) = {} /\ Writable(t)
    BY DEF Write
  <1>2. Needs(t) = work[t].needs
    BY DEF Needs, Deleting
  <1>3. /\ \A i \in work[t].needs : View(t)[i] # Absent => lock[i] = t
        /\ \A i \in work[t].needs \cap New(t) : lock[i] = t
    BY <1>1, <1>2 DEF Missing, Present
  <1>4. /\ \A i \in New(t) : View(t)[i] = Absent
        /\ \A i \in (DOMAIN work[t].puts \cup work[t].needs) \ New(t) : View(t)[i] # Absent
    BY <1>1 DEF Writable, Present
  <1>. QED
    BY <1>1, <1>3, <1>4 DEF TransactionInv, Shaped, Puts, Deleting

LEMMA CreateWrites ==
  ASSUME TransactionInv, NEW t \in Tx, Write(t), Statement(t) = "create", ~Unmatched(t)
  PROVE  Writes(t, Puts(t), View(t)) /\ RelOf(t) \in TraceRel
  <1>. DEFINE v == View(t)  Q == Puts(t)  o == CurrentOp(t)
              value == [status |-> "CURRENT", ver |-> work[t].ver, type |-> o.type]
  <1>1. Typed /\ InPlace(t) /\ pc[t] = "write"
    BY DEF TransactionInv, Write
  <1>2. RelOf(t) \in TraceRel /\ o.ent \in Node /\ o.asset \in Node
    <2>1. o \in Ops /\ o.kind = "trace"
      BY <1>1, OpInPlace, StatementInPlace
    <2>2. o.ent \in Entity /\ o.asset \in Asset /\ o.st \in State
      BY <2>1, OpsAre
    <2>. QED
      BY <2>2 DEF RelOf, TraceRel, Node, Flagged
  <1>3. Q = work[t].puts /\ work[t].needs = {o.ent, o.asset} /\ Q = [i \in {RelOf(t)} |-> value]
    BY StatementWrites DEF Shape
  <1>4. New(t) = {RelOf(t)}
    BY <1>3 DEF New
  <1>5. v[RelOf(t)] = Absent
    BY <1>4, StatementWrites
  <1>6. v[o.ent] # Absent /\ v[o.asset] # Absent /\ lock[o.ent] = t /\ lock[o.asset] = t
    <2>1. o.ent \notin New(t) /\ o.asset \notin New(t)
      BY <1>2, <1>4, Kinds
    <2>. QED
      BY <1>3, <2>1, StatementWrites
  <1>7. RelOf(t).ent = o.ent /\ RelOf(t).asset = o.asset
    BY DEF RelOf
  <1>8. RelOf(t) \notin Node
    BY <1>2, Kinds
  <1>9. DOMAIN Q = {RelOf(t)} /\ Q[RelOf(t)] = value
    BY <1>3
  <1>. HIDE DEF Q, v
  <1>10. Writes(t, Q, v)
    BY <1>5, <1>6, <1>7, <1>8, <1>9 DEF Writes
  <1>. QED
    BY <1>2, <1>10 DEF Q, v

LEMMA WriteWrites ==
  ASSUME TransactionInv, NEW t \in Tx, Write(t)
  PROVE  Puts(t) \in Pieces /\ Writes(t, Puts(t), View(t))
  <1>. DEFINE v == View(t)  P == work[t].puts  N == work[t].needs
  <1>1. Typed /\ InPlace(t) /\ pc[t] = "write" /\ P \in Pieces
    BY DEF TransactionInv, Typed, Work, Write
  <1>2. CASE Unmatched(t)
    <2>1. Puts(t) = None
      BY <1>2 DEF Puts
    <2>. QED
      BY <2>1, NoPiece DEF Writes
  <1>3. CASE ~Unmatched(t) /\ Statement(t) = "delete"
    BY <1>3, DeleteWrites
  <1>4. CASE ~Unmatched(t) /\ Statement(t) = "create"
    BY <1>1, <1>4, CreateWrites, StatementWrites
  <1>5. CASE ~Unmatched(t) /\ Statement(t) \notin {"delete", "create"}
    <2>1. /\ Puts(t) = P /\ Shape(t, P, N)
          /\ \A i \in (DOMAIN P \cup N) \ New(t) : v[i] # Absent
          /\ \A i \in N : v[i] # Absent => lock[i] = t
      BY <1>5, StatementWrites
    <2>2. \A i \in DOMAIN P : P[i] \in Holds(i)
      BY <1>5, <2>1 DEF Shape
    <2>3. \A i \in DOMAIN P : i \in Node => P[i] # Absent
      BY <2>2, HoldsIs, NamesAssumption
    <2>4. CASE Statement(t) \in {"supersede", "invalidate"}
      <3>1. New(t) = {}
        BY <2>4 DEF New
      <3>2. /\ DOMAIN P = N /\ N \subseteq TraceRel
            /\ \A x \in N : P[x].status # "CURRENT" /\ (v[x] # Absent => P[x].ver = v[x].ver)
        BY <2>1, <2>4 DEF Shape
      <3>. QED
        BY <1>1, <2>1, <3>1, <3>2, Kinds DEF Writes
    <2>5. CASE Statement(t) \in {"set", "inherit", "connect"}
      <3>1. New(t) = {}
        BY <2>5 DEF New
      <3>2. DOMAIN P = N
        BY <2>1, <2>5 DEF Shape
      <3>3. N \subseteq Node
        <4>1. CASE Statement(t) = "set"
          <5>1. CurrentOp(t) \in Ops /\ CurrentOp(t).kind = "set"
            BY <1>1, <4>1, OpInPlace, StatementInPlace
          <5>. QED
            BY <2>1, <4>1, <5>1, OpsAre DEF Shape, Node, Flagged
        <4>2. CASE Statement(t) \in {"inherit", "connect"}
          BY <2>1, <4>2 DEF Shape, Node, Flagged
        <4>. QED
          BY <2>5, <4>1, <4>2
      <3>. QED
        BY <1>1, <2>1, <2>3, <3>1, <3>2, <3>3, Kinds DEF Writes
    <2>6. CASE Statement(t) \in {"require", "orphan"}
      <3>1. DOMAIN P \subseteq Requirement
        BY <2>1, <2>6 DEF Shape
      <3>. QED
        BY <1>1, <2>1, <3>1, Kinds DEF Writes
    <2>7. Statement(t) \in {"supersede", "create", "set", "invalidate", "delete",
                            "inherit", "connect", "require", "orphan"}
      <3>1. CurrentOp(t) \in Ops /\ work[t].stmt \in 1..Len(StatementsOf(CurrentOp(t)))
        BY <1>1, OpInPlace
      <3>2. CurrentOp(t).kind \in {"trace", "clear", "set", "delete", "recompute"}
        BY <3>1, OpsAre
      <3>. QED
        BY <3>1, <3>2, StatementIs DEF Statement
    <2>. QED
      BY <1>5, <2>4, <2>5, <2>6, <2>7
  <1>. QED
    BY <1>2, <1>3, <1>4, <1>5

LEMMA WriteEffect ==
  ASSUME TransactionInv, NEW t \in Tx, Write(t)
  PROVE  /\ Typed' /\ InPlace(t)'
         /\ work'[t].mine = Over(Puts(t), work[t].mine)
         /\ work'[t].ver = work[t].ver /\ pc'[t] \in {"read", "finish"}
         /\ work'[t].op = IF LastStatement(t) THEN work[t].op + 1 ELSE work[t].op
         /\ work'[t].stmt = IF LastStatement(t) THEN 1 ELSE work[t].stmt + 1
         /\ pc'[t] = "finish" <=> LastStatement(t) /\ LastOp(t)
         /\ \A u \in Tx \ {t} : work'[u] = work[u] /\ pc'[u] = pc[u] /\ View(u)' = View(u)
         /\ Landed' = Landed /\ UNCHANGED <<db, lock, req, seen>>
         /\ View(t)' \in Database
         /\ \A i \in Item : View(t)'[i] = IF i \in DOMAIN Puts(t) THEN Puts(t)[i] ELSE View(t)[i]
  <1>. DEFINE Q == Puts(t)
              op2 == IF LastStatement(t) THEN work[t].op + 1 ELSE work[t].op
              stmt2 == IF LastStatement(t) THEN 1 ELSE work[t].stmt + 1
              w == [work[t] EXCEPT !.mine = Over(Q, work[t].mine), !.puts = None, !.needs = {},
                                   !.op = op2, !.stmt = stmt2]
  <1>1. Typed /\ InPlace(t) /\ pc[t] = "write" /\ work[t] \in Work /\ Q \in Pieces
    BY WriteWrites DEF TransactionInv, Typed, Write
  <1>2. /\ work[t].op \in 1..Len(req[t]) /\ work[t].stmt \in 1..Len(StatementsOf(CurrentOp(t)))
        /\ req[t] \in Seq(Ops) /\ Running(req[t])
    BY <1>1 DEF InPlace, Typed
  <1>3. Over(Q, work[t].mine) \in Pieces
    BY <1>1, OverIs DEF Work
  <1>4. op2 \in Nat \ {0} /\ stmt2 \in Nat \ {0} /\ work[t].ver \in Nat
    BY <1>1, <1>2 DEF Work
  <1>5. /\ w \in Work /\ w.op = op2 /\ w.stmt = stmt2 /\ w.mine = Over(Q, work[t].mine)
        /\ w.puts = None /\ w.needs = {} /\ w.ver = work[t].ver
    <2>. DEFINE M == Over(Q, work[t].mine)
    <2>1. M \in Pieces /\ None \in Pieces
      BY <1>3, NoPiece
    <2>. HIDE DEF op2, stmt2, Q, M
    <2>. DEFINE u == [work[t] EXCEPT !.mine = M, !.puts = None, !.needs = {}, !.op = op2,
                                    !.stmt = stmt2]
    <2>2. /\ u \in Work /\ u.op = op2 /\ u.stmt = stmt2 /\ u.mine = M /\ u.puts = None
          /\ u.needs = {} /\ u.ver = work[t].ver
      BY <1>1, <1>4, <2>1 DEF Work
    <2>. QED
      BY <2>2 DEF M
  <1>7. work' = [work EXCEPT ![t] = w]
    BY <1>1 DEF Write, Typed
  <1>. HIDE DEF w
  <1>8. work' \in [Tx -> Work] /\ work'[t] = w /\ \A u \in Tx \ {t} : work'[u] = work[u]
    BY <1>1, <1>5, <1>7 DEF Typed
  <1>9. /\ pc' \in [Tx -> PC] /\ \A u \in Tx \ {t} : pc'[u] = pc[u]
        /\ pc'[t] = IF LastStatement(t) /\ LastOp(t) THEN "finish" ELSE "read"
        /\ UNCHANGED <<db, lock, req, seen>>
    BY <1>1 DEF Write, Typed, PC
  <1>10. Typed'
    BY <1>1, <1>8, <1>9 DEF Typed
  <1>11. Landed' = Landed
    BY <1>1, <1>9 DEF Landed
  <1>12. \A u \in Tx \ {t} : View(u)' = View(u)
    BY <1>8, <1>9 DEF View
  <1>13. InPlace(t)'
    <2>1. req'[t] = req[t] /\ seen'[t] = seen[t]
      BY <1>9
    <2>2. CASE LastStatement(t) /\ LastOp(t)
      BY <1>1, <1>5, <1>8, <1>9, <1>11, <2>1, <2>2 DEF InPlace, LastOp, Active
    <2>3. CASE LastStatement(t) /\ ~LastOp(t)
      <3>1. work'[t].op \in 1..Len(req[t]) /\ work'[t].stmt = 1
        BY <1>2, <1>5, <1>8, <2>3 DEF LastOp
      <3>2. CurrentOp(t)' \in Ops
        BY <1>2, <1>9, <3>1 DEF CurrentOp
      <3>3. 1 \in 1..Len(StatementsOf(CurrentOp(t)'))
        BY <3>2, StatementsAre, OpsAre
      <3>. QED
        BY <1>1, <1>5, <1>8, <1>9, <1>11, <2>1, <2>3, <3>1, <3>3 DEF InPlace, Active
    <2>4. CASE ~LastStatement(t)
      <3>1. work'[t].op = work[t].op /\ work'[t].stmt = work[t].stmt + 1
        BY <1>5, <1>8, <2>4
      <3>2. CurrentOp(t)' = CurrentOp(t)
        BY <1>9, <3>1 DEF CurrentOp
      <3>3. Len(StatementsOf(CurrentOp(t))) \in Nat
        BY <1>1, OpInPlace, StatementIs
      <3>4. work'[t].stmt \in 1..Len(StatementsOf(CurrentOp(t)))
        BY <1>2, <2>4, <3>1, <3>3 DEF LastStatement
      <3>. QED
        BY <1>1, <1>2, <1>5, <1>8, <1>9, <1>11, <2>1, <2>4, <3>1, <3>2, <3>4 DEF InPlace, Active
    <2>. QED
      BY <2>2, <2>3, <2>4
  <1>14. \A i \in Item : View(t)'[i] = IF i \in DOMAIN work'[t].mine THEN work'[t].mine[i] ELSE db'[i]
    BY DEF View
  <1>15. \A i \in Item : View(t)'[i] = IF i \in DOMAIN Q THEN Q[i] ELSE View(t)[i]
    <2>1. /\ DOMAIN Over(Q, work[t].mine) = DOMAIN Q \cup DOMAIN work[t].mine
          /\ \A i \in DOMAIN Q \cup DOMAIN work[t].mine :
               Over(Q, work[t].mine)[i] = IF i \in DOMAIN Q THEN Q[i] ELSE work[t].mine[i]
      BY <1>1, OverIs DEF Work
    <2>2. \A i \in Item : View(t)[i] = IF i \in DOMAIN work[t].mine THEN work[t].mine[i] ELSE db[i]
      BY <1>1, ViewIs
    <2>3. db' = db /\ work'[t].mine = Over(Q, work[t].mine)
      BY <1>5, <1>8, <1>9
    <2>. HIDE DEF Q
    <2>. QED
      BY <1>14, <2>1, <2>2, <2>3
  <1>16. View(t)' \in Database
    <2>1. View(t)' = [i \in Item |-> View(t)'[i]] /\ DOMAIN View(t)' = Item
      BY DEF View
    <2>2. View(t) \in Pieces /\ DOMAIN View(t) = Item
      BY <1>1, ViewIs, WholePiece
    <2>. HIDE DEF Q
    <2>3. \A i \in Item : Fits(i, View(t)'[i])
      BY <1>1, <1>15, <2>2, PieceIs
    <2>4. View(t)' \in Pieces
      BY <2>1, <2>3, APiece
    <2>. QED
      BY <2>1, <2>4, WholePiece
  <1>. QED
    BY <1>5, <1>8, <1>9, <1>10, <1>11, <1>12, <1>13, <1>15, <1>16

-----------------------------------------------------------------------------
\* The end of a transaction.

LEMMA NoWork == EmptyWork \in Work
  BY NoPiece DEF EmptyWork, Work

LEMMA NothingWritten ==
  ASSUME Typed, NEW t \in Tx, work[t] = EmptyWork
  PROVE  View(t) = db
  <1>1. \A i \in Item : View(t)[i] = db[i]
    BY NoPiece, ViewIs DEF EmptyWork
  <1>2. DOMAIN View(t) = Item /\ View(t) = [i \in Item |-> View(t)[i]] /\ db = [i \in Item |-> db[i]]
    BY DEF View, Typed, Database
  <1>. QED
    BY <1>1, <1>2

\* A transaction that ends, one way or the other.
Ends(t, outcome) ==
  /\ pc[t] \in Active /\ outcome \in PC \ Active
  /\ pc' = [pc EXCEPT ![t] = outcome] /\ work' = [work EXCEPT ![t] = EmptyWork]
  /\ Release(t) /\ UNCHANGED <<req, seen>>

LEMMA EndsEffect ==
  ASSUME Typed, NEW t \in Tx, NEW outcome, Ends(t, outcome), db' \in Database
  PROVE  /\ Typed' /\ work'[t] = EmptyWork /\ pc'[t] = outcome
         /\ \A u \in Tx \ {t} : work'[u] = work[u] /\ pc'[u] = pc[u]
         /\ \A i \in Item : \A u \in Tx \ {t} : lock[i] = u => lock'[i] = u
         /\ Landed \subseteq Landed'
         /\ UNCHANGED <<req, seen>>
  <1>1. work' \in [Tx -> Work] /\ work'[t] = EmptyWork /\ \A u \in Tx \ {t} : work'[u] = work[u]
    BY NoWork DEF Ends, Typed
  <1>2. pc' \in [Tx -> PC] /\ pc'[t] = outcome /\ \A u \in Tx \ {t} : pc'[u] = pc[u]
    BY DEF Ends, Typed
  <1>3. /\ lock' \in [Item -> Tx \cup {NoTx}]
        /\ \A i \in Item : \A u \in Tx \ {t} : lock[i] = u => lock'[i] = u
    BY DEF Ends, Release, Typed
  <1>4. Landed \subseteq Landed'
    BY <1>2 DEF Landed, Ends, Active
  <1>. QED
    BY <1>1, <1>2, <1>3, <1>4 DEF Typed, Ends

\* How the relations grow: those there keep their version and never become CURRENT
\* again, and the others are by the one that commits.
Grows(v, w, t) ==
  \A x \in TraceRel : w[x] # Absent =>
    \/ v[x] # Absent /\ w[x].ver = v[x].ver /\ (w[x].status = "CURRENT" => v[x].status = "CURRENT")
    \/ v[x] = Absent /\ x.by = t

LEMMA CommitEffect ==
  ASSUME TransactionInv, NEW t \in Tx, Commit(t)
  PROVE  /\ Ends(t, "committed") /\ db' = View(t) /\ db' \in Database /\ Joins(db')
         /\ Grows(db, db', t)
         /\ \A u \in Tx \ {t} : Grows(View(u), View(u)', t)
         /\ \A u \in Tx \ {t} : \A x \in TraceRel :
              View(u)'[x] # Absent /\ View(u)[x] = Absent =>
                x \notin DOMAIN work[u].mine /\ View(t)[x] = View(u)'[x]
  <1>1. /\ Typed /\ pc[t] = "finish" /\ db' = View(t) /\ View(t) \in Database /\ Holding(t)
        /\ Joins(View(t)) /\ pc[t] # "committed"
    BY ViewIs DEF TransactionInv, Commit
  <1>2. Ends(t, "committed")
    BY <1>1 DEF Commit, Ends, Active, PC, Done
  <1>3. Grows(db, db', t)
    <2>1. SUFFICES ASSUME NEW x \in TraceRel, db'[x] # Absent
                   PROVE  \/ /\ db[x] # Absent /\ db'[x].ver = db[x].ver
                             /\ db'[x].status = "CURRENT" => db[x].status = "CURRENT"
                          \/ db[x] = Absent /\ x.by = t
      BY DEF Grows
    <2>2. x \in Item
      BY DEF Item
    <2>3. View(t)[x] = IF x \in DOMAIN work[t].mine THEN work[t].mine[x] ELSE db[x]
      BY <1>1, <2>2, ViewIs
    <2>4. CASE x \notin DOMAIN work[t].mine
      BY <1>1, <2>1, <2>3, <2>4
    <2>5. CASE x \in DOMAIN work[t].mine /\ x.by # t
      BY <1>1, <2>1, <2>3, <2>5 DEF Holding
    <2>6. CASE x.by = t
      <3>1. db[x] = Absent
        BY <1>1, <2>6, NamesAssumption DEF TransactionInv
      <3>. QED
        BY <2>6, <3>1
    <2>. QED
      BY <2>4, <2>5, <2>6
  <1>4. ASSUME NEW u \in Tx \ {t}
        PROVE  /\ Grows(View(u), View(u)', t)
               /\ \A x \in TraceRel : View(u)'[x] # Absent /\ View(u)[x] = Absent =>
                    x \notin DOMAIN work[u].mine /\ View(t)[x] = View(u)'[x]
    <2>1. work'[u] = work[u]
      BY <1>1, <1>2, EndsEffect
    <2>2. \A i \in Item : View(u)'[i] = IF i \in DOMAIN work[u].mine THEN work[u].mine[i] ELSE db'[i]
      BY <2>1 DEF View
    <2>3. \A i \in Item : View(u)[i] = IF i \in DOMAIN work[u].mine THEN work[u].mine[i] ELSE db[i]
      BY <1>1, ViewIs
    <2>4. \A x \in TraceRel : x \in Item
      BY DEF Item
    <2>. QED
      BY <1>1, <1>3, <2>2, <2>3, <2>4 DEF Grows
  <1>. QED
    BY <1>1, <1>2, <1>3, <1>4

\* One that a step of another leaves alone.
LEMMA LeftAlone ==
  ASSUME TransactionInv, NEW u \in Tx, work'[u] = work[u], pc'[u] = pc[u], seen'[u] = seen[u],
         req'[u] = req[u], db' = db, \A i \in Item : lock[i] = u => lock'[i] = u,
         Landed \subseteq Landed'
  PROVE  InPlace(u)' /\ Shaped(u)' /\ Holding(u)' /\ Joins(View(u)')
  <1>1. View(u)' = View(u)
    BY DEF View
  <1>2. CurrentOp(u)' = CurrentOp(u) /\ Statement(u)' = Statement(u) /\ RelOf(u)' = RelOf(u)
    BY DEF CurrentOp, Statement, RelOf
  <1>3. InPlace(u)'
    BY <1>2 DEF TransactionInv, InPlace
  <1>4. Shaped(u)'
    <2>1. SUFFICES ASSUME pc[u] = "write" PROVE Shape(u, work[u].puts, work[u].needs)'
      BY DEF Shaped
    <2>2. Shape(u, work[u].puts, work[u].needs)
      BY <2>1 DEF TransactionInv, Shaped
    <2>3. \A x : x.by \in Known(u) => x.by \in Known(u)'
      BY DEF Known
    <2>. QED
      BY <1>1, <1>2, <2>2, <2>3 DEF Shape
  <1>5. Holding(u)'
    <2>1. Holding(u) /\ DOMAIN work[u].mine \subseteq Item
      BY PieceIs DEF TransactionInv, Typed, Work
    <2>2. \A x \in TraceRel : x.ent \in Item /\ x.asset \in Item
      BY DEF TraceRel, Item, Node, Flagged
    <2>. QED
      BY <2>1, <2>2 DEF Holding
  <1>6. Joins(View(u)')
    BY <1>1 DEF TransactionInv
  <1>. QED
    BY <1>3, <1>4, <1>5, <1>6

\* One that a commit of another passes by.
LEMMA PassedBy ==
  ASSUME TransactionInv, NEW t \in Tx, Commit(t), NEW u \in Tx \ {t}
  PROVE  InPlace(u)' /\ Shaped(u)' /\ Holding(u)' /\ Joins(View(u)')
  <1>1. /\ Typed /\ work'[u] = work[u] /\ pc'[u] = pc[u] /\ seen' = seen /\ req' = req
        /\ \A i \in Item : lock[i] = u => lock'[i] = u
        /\ Landed \subseteq Landed'
        /\ db' = View(t) /\ Joins(View(t)) /\ Grows(db, db', t) /\ Grows(View(u), View(u)', t)
    BY CommitEffect, EndsEffect DEF TransactionInv
  <1>2. CurrentOp(u)' = CurrentOp(u) /\ Statement(u)' = Statement(u) /\ RelOf(u)' = RelOf(u)
    BY <1>1 DEF CurrentOp, Statement, RelOf
  <1>3. InPlace(u)'
    BY <1>1, <1>2 DEF TransactionInv, InPlace
  <1>4. Shaped(u)'
    <2>1. SUFFICES ASSUME pc[u] = "write" PROVE Shape(u, work[u].puts, work[u].needs)'
      BY <1>1 DEF Shaped
    <2>2. Shape(u, work[u].puts, work[u].needs)
      BY <2>1 DEF TransactionInv, Shaped
    <2>3. \A x \in TraceRel : View(u)'[x] # Absent =>
            x.by = t \/ (View(u)[x] # Absent /\ View(u)'[x].ver = View(u)[x].ver)
      BY <1>1 DEF Grows
    <2>4. ASSUME Statement(u) \in {"supersede", "invalidate"}, NEW x \in work[u].needs,
                 View(u)'[x] # Absent
          PROVE  work[u].puts[x].ver = View(u)'[x].ver
      <3>1. x \in TraceRel /\ x.by \in Known(u) /\ (View(u)[x] # Absent => work[u].puts[x].ver = View(u)[x].ver)
        BY <2>2, <2>4 DEF Shape
      <3>2. t \notin Known(u)
        BY NamesAssumption DEF Known, Landed, Commit
      <3>. QED
        BY <2>3, <2>4, <3>1, <3>2
    <2>5. \A x : x.by \in Known(u) => x.by \in Known(u)'
      BY <1>1 DEF Known
    <2>. QED
      BY <1>1, <1>2, <2>2, <2>4, <2>5 DEF Shape
  <1>5. \A i \in TraceRel : db[i] # Absent /\ lock[i] = u => db'[i] = db[i]
    <2>1. SUFFICES ASSUME NEW i \in TraceRel, db[i] # Absent, lock[i] = u PROVE db'[i] = db[i]
      OBVIOUS
    <2>2. i.by # t
      BY <2>1, NamesAssumption DEF TransactionInv, Commit
    <2>3. i \notin DOMAIN work[t].mine
      BY <2>1, <2>2 DEF TransactionInv, Holding
    <2>. QED
      BY <1>1, <2>3, ViewIs DEF Item
  <1>6. Holding(u)'
    <2>1. Holding(u) /\ DOMAIN work[u].mine \subseteq Item
      BY PieceIs DEF TransactionInv, Typed, Work
    <2>2. \A x \in TraceRel : x.ent \in Item /\ x.asset \in Item
      BY DEF TraceRel, Item, Node, Flagged
    <2>. QED
      BY <1>1, <1>5, <2>1, <2>2 DEF Holding
  <1>7. Joins(View(u)')
    <2>1. SUFFICES ASSUME NEW x \in TraceRel, View(u)'[x] # Absent, NEW e \in {x.ent, x.asset}
                   PROVE  View(u)'[e] # Absent
      BY DEF Joins
    <2>2. x \in Item /\ e \in Item /\ e \in Node
      BY DEF TraceRel, Item, Node, Flagged
    <2>3. \A i \in Item : View(u)[i] = IF i \in DOMAIN work[u].mine THEN work[u].mine[i] ELSE db[i]
      BY <1>1, ViewIs
    <2>4. \A i \in Item : View(u)'[i] = IF i \in DOMAIN work[u].mine THEN work[u].mine[i] ELSE db'[i]
      BY <1>1 DEF View
    <2>5. \A i \in Item : db'[i] = IF i \in DOMAIN work[t].mine THEN work[t].mine[i] ELSE db[i]
      BY <1>1, ViewIs
    <2>6. Holding(u) /\ Holding(t) /\ Joins(View(u)) /\ Joins(db')
      BY <1>1 DEF TransactionInv
    <2>7. CASE x \in DOMAIN work[u].mine
      <3>1. View(u)[x] # Absent /\ View(u)[e] # Absent
        BY <2>1, <2>2, <2>3, <2>4, <2>6, <2>7 DEF Joins
      <3>2. CASE e \in DOMAIN work[u].mine
        BY <2>2, <2>3, <2>4, <3>1, <3>2
      <3>3. CASE e \notin DOMAIN work[u].mine /\ x.by = u
        <4>1. lock[e] = u
          BY <2>1, <2>2, <2>3, <2>6, <2>7, <3>1, <3>3 DEF Holding
        <4>2. e \notin DOMAIN work[t].mine
          BY <2>2, <2>6, <4>1 DEF Holding
        <4>. QED
          BY <2>2, <2>3, <2>4, <2>5, <3>1, <3>3, <4>2
      <3>4. CASE e \notin DOMAIN work[u].mine /\ x.by # u
        <4>1. db[x] # Absent /\ lock[x] = u
          BY <2>1, <2>2, <2>3, <2>6, <2>7, <3>1, <3>4 DEF Holding
        <4>2. db'[x] # Absent
          BY <1>5, <4>1
        <4>3. db'[e] # Absent
          BY <2>1, <2>6, <4>2 DEF Joins
        <4>. QED
          BY <2>2, <2>4, <3>4, <4>3
      <3>. QED
        BY <3>2, <3>3, <3>4
    <2>8. CASE x \notin DOMAIN work[u].mine
      <3>1. db'[x] # Absent /\ db'[e] # Absent
        BY <2>1, <2>2, <2>4, <2>6, <2>8 DEF Joins
      <3>2. CASE e \notin DOMAIN work[u].mine
        BY <2>2, <2>4, <3>1, <3>2
      <3>3. CASE e \in DOMAIN work[u].mine /\ db[x] # Absent
        <4>1. View(u)[e] # Absent
          BY <2>1, <2>2, <2>3, <2>6, <2>8, <3>3 DEF Joins
        <4>. QED
          BY <2>2, <2>3, <2>4, <3>3, <4>1
      <3>4. CASE e \in DOMAIN work[u].mine /\ db[x] = Absent
        <4>1. x \in DOMAIN work[t].mine /\ work[t].mine[x] # Absent /\ x.by = t
          BY <2>2, <2>5, <2>6, <3>1, <3>4 DEF Holding
        <4>2. lock[e] = t
          BY <2>1, <2>6, <4>1 DEF Holding
        <4>3. lock[e] = u
          BY <2>2, <2>6, <3>4 DEF Holding
        <4>. QED
          BY <4>2, <4>3
      <3>. QED
        BY <3>2, <3>3, <3>4
    <2>. QED
      BY <2>7, <2>8
  <1>. QED
    BY <1>3, <1>4, <1>6, <1>7

\* Landed is for good.
LEMMA KnownStay ==
  ASSUME TransactionInv, db' = db, Landed \subseteq Landed'
  PROVE  \A x \in TraceRel : db'[x] # Absent => x.by = Original \/ pc'[x.by] = "committed"
  <1>1. SUFFICES ASSUME NEW x \in TraceRel, db[x] # Absent, x.by # Original
                 PROVE  pc'[x.by] = "committed"
    OBVIOUS
  <1>2. x.by \in Tx /\ pc[x.by] = "committed"
    BY <1>1 DEF TransactionInv, TraceRel
  <1>. QED
    BY <1>2 DEF Landed

LEMMA ReadingKeeps ==
  ASSUME TransactionInv, NEW t \in Tx, Reading(t)
  PROVE  TransactionInv'
  <1>1. PICK p \in Pieces, n \in SUBSET Item, k \in Nat :
          /\ Reads(t, p, n, k) /\ Shape(t, p, n)
          /\ Statement(t) = "supersede" \/ k = work[t].ver
    BY ReadingIs
  <1>2. Typed
    BY DEF TransactionInv
  <1>3. /\ Typed' /\ work'[t].op = work[t].op /\ work'[t].stmt = work[t].stmt
        /\ work'[t].mine = work[t].mine /\ work'[t].puts = p /\ work'[t].needs = n
        /\ work'[t].ver = k /\ pc'[t] = "write"
        /\ \A u \in Tx \ {t} : work'[u] = work[u] /\ pc'[u] = pc[u]
        /\ \A u \in Tx : View(u)' = View(u)
        /\ Landed' = Landed
    BY <1>1, <1>2, ReadsEffect
  <1>4. UNCHANGED <<db, lock, req, seen>> /\ pc[t] = "read"
    BY <1>1 DEF Reads
  <1>5. \A u \in Tx \ {t} : InPlace(u)' /\ Shaped(u)' /\ Holding(u)' /\ Joins(View(u)')
    <2>1. TAKE u \in Tx \ {t}
    <2>. QED
      BY <1>3, <1>4, LeftAlone
  <1>6. CurrentOp(t)' = CurrentOp(t) /\ Statement(t)' = Statement(t) /\ RelOf(t)' = RelOf(t)
    BY <1>3, <1>4 DEF CurrentOp, Statement, RelOf
  <1>7. InPlace(t)'
    BY <1>3, <1>4, <1>6 DEF TransactionInv, InPlace, Active
  <1>8. Shaped(t)'
    <2>1. \A x : x.by \in Known(t) => x.by \in Known(t)'
      BY <1>3 DEF Known
    <2>2. Shape(t, p, n)'
      BY <1>1, <1>3, <1>6, <2>1 DEF Shape
    <2>. QED
      BY <1>3, <2>2 DEF Shaped
  <1>9. Holding(t)' /\ Joins(View(t)')
    BY <1>3, <1>4 DEF TransactionInv, Holding
  <1>10. Joins(db')
    BY <1>4 DEF TransactionInv
  <1>. QED
    BY <1>3, <1>4, <1>5, <1>7, <1>8, <1>9, <1>10, KnownStay DEF TransactionInv

LEMMA WriteKeeps ==
  ASSUME TransactionInv, NEW t \in Tx, Write(t)
  PROVE  TransactionInv'
  <1>. DEFINE Q == Puts(t)  v == View(t)
  <1>1. /\ Typed' /\ InPlace(t)' /\ work'[t].mine = Over(Q, work[t].mine)
        /\ pc'[t] \in {"read", "finish"}
        /\ \A u \in Tx \ {t} : work'[u] = work[u] /\ pc'[u] = pc[u]
        /\ Landed' = Landed /\ UNCHANGED <<db, lock, req, seen>>
        /\ \A i \in Item : View(t)'[i] = IF i \in DOMAIN Q THEN Q[i] ELSE v[i]
    BY WriteEffect
  <1>2. Q \in Pieces /\ Writes(t, Q, v) /\ Typed /\ work[t].mine \in Pieces
    BY WriteWrites DEF TransactionInv, Typed, Work
  <1>3. \A u \in Tx \ {t} : InPlace(u)' /\ Shaped(u)' /\ Holding(u)' /\ Joins(View(u)')
    <2>1. TAKE u \in Tx \ {t}
    <2>. QED
      BY <1>1, LeftAlone
  <1>4. Shaped(t)'
    BY <1>1 DEF Shaped
  <1>5. Holding(t) /\ Joins(v) /\ pc[t] = "write"
    BY DEF TransactionInv, Write
  <1>6. /\ DOMAIN work'[t].mine = DOMAIN Q \cup DOMAIN work[t].mine
        /\ \A i \in DOMAIN Q : work'[t].mine[i] = Q[i]
        /\ \A i \in DOMAIN work[t].mine \ DOMAIN Q : work'[t].mine[i] = work[t].mine[i]
    <2>. DEFINE M == work[t].mine
    <2>1. M \in Pieces /\ work'[t].mine = Over(Q, M)
      BY <1>1, <1>2
    <2>. HIDE DEF Q, M
    <2>2. /\ DOMAIN Over(Q, M) = DOMAIN Q \cup DOMAIN M
          /\ \A i \in DOMAIN Q \cup DOMAIN M : Over(Q, M)[i] = IF i \in DOMAIN Q THEN Q[i] ELSE M[i]
      <3>1. ASSUME NEW f \in Pieces, NEW g \in Pieces
            PROVE  LET h == Over(f, g) IN
                   /\ DOMAIN h = DOMAIN f \cup DOMAIN g
                   /\ \A i \in DOMAIN f \cup DOMAIN g : h[i] = IF i \in DOMAIN f THEN f[i] ELSE g[i]
        BY OverIs
      <3>2. Q \in Pieces /\ M \in Pieces
        BY <1>2, <2>1
      <3>. QED
        BY <3>1, <3>2
    <2>3. /\ DOMAIN work'[t].mine = DOMAIN Q \cup DOMAIN M
          /\ \A i \in DOMAIN Q : work'[t].mine[i] = Q[i]
          /\ \A i \in DOMAIN M \ DOMAIN Q : work'[t].mine[i] = M[i]
      BY <2>1, <2>2
    <2>. QED
      BY <2>3 DEF M
  <1>7. \A i \in Item : v[i] = IF i \in DOMAIN work[t].mine THEN work[t].mine[i] ELSE db[i]
    BY <1>2, ViewIs
  <1>8. \A x \in TraceRel : /\ x \in Item /\ x.ent \in Item /\ x.asset \in Item
                            /\ x.ent \in Node /\ x.asset \in Node /\ x.by \in Tx \cup {Original}
    BY DEF TraceRel, Item, Node, Flagged
  <1>9. \A x \in TraceRel : x.by = t => db[x] = Absent
    BY <1>5, NamesAssumption DEF TransactionInv
  <1>10. RelOf(t).by = t
    BY DEF RelOf
  <1>. HIDE DEF Q, v
  <1>11. Holding(t)'
    <2>1. ASSUME NEW i \in DOMAIN Q, i \in Node PROVE lock[i] = t
      BY <1>2, <2>1 DEF Writes
    <2>2. ASSUME NEW i \in DOMAIN Q, i \in TraceRel, i.by # t
          PROVE  /\ lock[i] = t
                 /\ Q[i] # Absent => db[i] # Absent /\ Q[i].ver = db[i].ver /\ Q[i].status # "CURRENT"
      <3>1. /\ v[i] # Absent /\ lock[i] = t
            /\ Q[i] # Absent => Q[i].status # "CURRENT" /\ Q[i].ver = v[i].ver
        BY <1>2, <1>10, <2>2 DEF Writes
      <3>2. db[i] # Absent /\ v[i].ver = db[i].ver
        BY <1>5, <1>7, <1>8, <2>2, <3>1 DEF Holding
      <3>. QED
        BY <3>1, <3>2
    <2>3. ASSUME NEW i \in DOMAIN Q, i \in TraceRel, i.by = t, Q[i] # Absent
          PROVE  lock[i.ent] = t /\ lock[i.asset] = t
      <3>1. CASE v[i] # Absent
        BY <1>5, <1>7, <1>8, <1>9, <2>3, <3>1 DEF Holding
      <3>2. CASE v[i] = Absent
        BY <1>2, <2>3, <3>2 DEF Writes
      <3>. QED
        BY <3>1, <3>2
    <2>. QED
      BY <1>1, <1>5, <1>6, <2>1, <2>2, <2>3 DEF Holding
  <1>12. Joins(View(t)')
    <2>1. SUFFICES ASSUME NEW x \in TraceRel, View(t)'[x] # Absent, NEW e \in {x.ent, x.asset}
                   PROVE  View(t)'[e] # Absent
      BY DEF Joins
    <2>2. x \in Item /\ e \in Item /\ e \in Node
      BY <1>8
    <2>3. CASE e \in DOMAIN Q
      <3>1. SUFFICES ASSUME Q[e] = Absent PROVE FALSE
        BY <1>1, <2>2, <2>3
      <3>2. Statement(t) = "delete" /\ (v[x] # Absent => x \in DOMAIN Q /\ Q[x] = Absent)
        BY <1>2, <2>2, <2>3, <3>1 DEF Writes
      <3>3. v[x] = Absent /\ x \in DOMAIN Q
        BY <1>1, <2>1, <2>2, <3>2
      <3>. QED
        BY <1>2, <3>2, <3>3 DEF Writes
    <2>4. CASE e \notin DOMAIN Q
      <3>1. v[e] # Absent
        <4>1. CASE v[x] # Absent
          BY <1>5, <4>1 DEF Joins
        <4>2. CASE v[x] = Absent
          <5>1. x \in DOMAIN Q
            BY <1>1, <2>1, <2>2, <4>2
          <5>. QED
            BY <1>2, <4>2, <5>1 DEF Writes
        <4>. QED
          BY <4>1, <4>2
      <3>. QED
        BY <1>1, <2>2, <2>4, <3>1
    <2>. QED
      BY <2>3, <2>4
  <1>13. Joins(db')
    BY <1>1 DEF TransactionInv
  <1>. QED
    BY <1>1, <1>3, <1>4, <1>11, <1>12, <1>13, KnownStay DEF TransactionInv

LEMMA EndsKeep ==
  ASSUME TransactionInv, NEW t \in Tx, NEW outcome, Ends(t, outcome), db' \in Database, Joins(db'),
         \A x \in TraceRel : db'[x] # Absent => x.by = Original \/ pc'[x.by] = "committed",
         \A u \in Tx \ {t} : InPlace(u)' /\ Shaped(u)' /\ Holding(u)' /\ Joins(View(u)')
  PROVE  TransactionInv'
  <1>1. /\ Typed' /\ work'[t] = EmptyWork /\ pc'[t] = outcome
        /\ Landed \subseteq Landed' /\ UNCHANGED <<req, seen>>
    BY EndsEffect DEF TransactionInv
  <1>2. outcome \notin Active
    BY DEF Ends
  <1>3. /\ EmptyWork.mine = None /\ EmptyWork.puts = None /\ EmptyWork.needs = {}
        /\ DOMAIN None = {}
    BY NoPiece DEF EmptyWork
  <1>4. InPlace(t)' /\ Shaped(t)' /\ Holding(t)'
    BY <1>1, <1>2, <1>3 DEF TransactionInv, InPlace, Shaped, Holding, Active
  <1>5. View(t)' = db'
    <2>1. View(t)' = [i \in Item |-> db'[i]]
      BY <1>1, <1>3 DEF View
    <2>. QED
      BY <2>1 DEF Database
  <1>. QED
    BY <1>1, <1>4, <1>5 DEF TransactionInv

LEMMA CommitKeeps ==
  ASSUME TransactionInv, NEW t \in Tx, Commit(t)
  PROVE  TransactionInv'
  <1>1. /\ Ends(t, "committed") /\ db' \in Database /\ Joins(db') /\ Grows(db, db', t)
        /\ pc'[t] = "committed" /\ Landed \subseteq Landed'
    BY CommitEffect, EndsEffect DEF TransactionInv
  <1>2. \A u \in Tx \ {t} : InPlace(u)' /\ Shaped(u)' /\ Holding(u)' /\ Joins(View(u)')
    BY PassedBy
  <1>3. ASSUME NEW x \in TraceRel, db'[x] # Absent
        PROVE  x.by = Original \/ pc'[x.by] = "committed"
    <2>1. db[x] # Absent \/ x.by = t
      BY <1>1, <1>3 DEF Grows
    <2>2. db[x] # Absent => x.by = Original \/ (x.by \in Tx /\ pc[x.by] = "committed")
      BY DEF TransactionInv, TraceRel
    <2>. QED
      BY <1>1, <2>1, <2>2 DEF Landed
  <1>. QED
    BY <1>1, <1>2, <1>3, EndsKeep

LEMMA RollBackKeeps ==
  ASSUME TransactionInv, NEW t \in Tx, Reject(t) \/ Retry(t)
  PROVE  TransactionInv'
  <1>1. PICK outcome \in {"rejected", "idle"} : RollBack(t, outcome)
    BY DEF Reject, Retry
  <1>2. Ends(t, outcome) /\ db' = db
    BY <1>1 DEF RollBack, Ends, Active, PC, Done
  <1>3. db' \in Database /\ Joins(db')
    BY <1>2 DEF TransactionInv, Typed
  <1>4. /\ Landed \subseteq Landed' /\ UNCHANGED <<req, seen>>
        /\ \A u \in Tx \ {t} : work'[u] = work[u] /\ pc'[u] = pc[u]
        /\ \A i \in Item : \A u \in Tx \ {t} : lock[i] = u => lock'[i] = u
    BY <1>2, <1>3, EndsEffect DEF TransactionInv
  <1>5. \A u \in Tx \ {t} : InPlace(u)' /\ Shaped(u)' /\ Holding(u)' /\ Joins(View(u)')
    <2>1. TAKE u \in Tx \ {t}
    <2>. QED
      BY <1>2, <1>4, LeftAlone
  <1>6. \A x \in TraceRel : db'[x] # Absent => x.by = Original \/ pc'[x.by] = "committed"
    BY <1>2, <1>4, KnownStay
  <1>. QED
    BY <1>2, <1>3, <1>5, <1>6, EndsKeep

LEMMA AcquireKeeps ==
  ASSUME TransactionInv, NEW t \in Tx, Acquire(t)
  PROVE  TransactionInv'
  <1>1. PICK i \in Missing(t) : lock[i] = NoTx /\ lock' = [lock EXCEPT ![i] = t]
    BY DEF Acquire
  <1>2. UNCHANGED <<db, pc, req, work, seen>> /\ lock \in [Item -> Tx \cup {NoTx}]
    BY DEF Acquire, TransactionInv, Typed
  <1>3. lock' \in [Item -> Tx \cup {NoTx}] /\ \A u \in Tx : \A j \in Item : lock[j] = u => lock'[j] = u
    BY <1>1, <1>2, NamesAssumption
  <1>4. \A u \in Tx : InPlace(u)' /\ Shaped(u)' /\ Holding(u)' /\ Joins(View(u)')
    <2>1. TAKE u \in Tx
    <2>2. Landed \subseteq Landed'
      BY <1>2 DEF Landed
    <2>. QED
      BY <1>2, <1>3, <2>2, LeftAlone
  <1>. QED
    BY <1>2, <1>3, <1>4 DEF TransactionInv, Typed

LEMMA BeginKeeps ==
  ASSUME TransactionInv, NEW t \in Tx, Begin(t)
  PROVE  TransactionInv'
  <1>1. /\ pc[t] = "idle" /\ pc' = [pc EXCEPT ![t] = "read"]
        /\ seen' = [seen EXCEPT ![t] = Landed] /\ UNCHANGED <<db, lock, req, work>>
    BY DEF Begin, Landed
  <1>2. Typed
    BY DEF TransactionInv
  <1>3. /\ pc' \in [Tx -> PC] /\ pc'[t] = "read" /\ \A u \in Tx \ {t} : pc'[u] = pc[u]
        /\ seen' \in [Tx -> SUBSET Tx] /\ seen'[t] = Landed
        /\ \A u \in Tx \ {t} : seen'[u] = seen[u]
    BY <1>1, <1>2 DEF Typed, PC, Landed
  <1>4. Landed' = Landed
    BY <1>1, <1>3 DEF Landed
  <1>5. \A u \in Tx \ {t} : InPlace(u)' /\ Shaped(u)' /\ Holding(u)' /\ Joins(View(u)')
    <2>1. TAKE u \in Tx \ {t}
    <2>. QED
      BY <1>1, <1>3, <1>4, LeftAlone
  <1>6. work[t] = EmptyWork /\ Running(req[t])
    BY <1>1 DEF TransactionInv, InPlace, Active
  <1>7. /\ EmptyWork.mine = None /\ EmptyWork.puts = None /\ EmptyWork.needs = {}
        /\ EmptyWork.op = 1 /\ EmptyWork.stmt = 1 /\ DOMAIN None = {}
    BY NoPiece DEF EmptyWork
  <1>8. req[t] \in Seq(Ops) /\ 1 \in 1..Len(req[t]) /\ req[t][1] \in Ops
    BY <1>6 DEF Running
  <1>9. CurrentOp(t)' = req[t][1]
    BY <1>1, <1>6, <1>7 DEF CurrentOp
  <1>10. 1 \in 1..Len(StatementsOf(req[t][1]))
    BY <1>8, StatementsAre, OpsAre
  <1>11. InPlace(t)'
    BY <1>1, <1>3, <1>4, <1>6, <1>7, <1>8, <1>9, <1>10 DEF InPlace, Active
  <1>12. Shaped(t)' /\ Holding(t)'
    BY <1>1, <1>3, <1>6, <1>7 DEF Shaped, Holding
  <1>13. View(t)' = View(t)
    BY <1>1 DEF View
  <1>. QED
    BY <1>1, <1>2, <1>3, <1>4, <1>5, <1>11, <1>12, <1>13, KnownStay DEF TransactionInv, Typed

LEMMA TransactionFirst ==
  ASSUME Init
  PROVE  TransactionInv
  <1>1. PICK m \in Meetings : db \in m.initial /\ req \in [Tx -> {OpsOf(r) : r \in m.sent}]
    BY DEF Init
  <1>2. db \in Database /\ Joins(db) /\ \A x \in TraceRel : db[x] # Absent => x.by = Original
    BY <1>1, InitialAssumption, DatabaseIs DEF Joins
  <1>3. \A t \in Tx : Running(req[t]) /\ req[t] \in Seq(Ops)
    BY <1>1, RequestsRun DEF Running
  <1>4. /\ lock = [i \in Item |-> NoTx] /\ pc = [t \in Tx |-> "idle"]
        /\ work = [t \in Tx |-> EmptyWork] /\ seen = [t \in Tx |-> {}]
    BY DEF Init
  <1>5. Typed
    <2>1. req \in [Tx -> Seq(Ops)]
      BY <1>1, <1>3
    <2>. QED
      BY <1>2, <1>4, <2>1, NoWork DEF Typed, PC
  <1>6. \A t \in Tx : work[t] = EmptyWork /\ pc[t] = "idle" /\ seen[t] = {}
    BY <1>4
  <1>7. /\ EmptyWork.mine = None /\ EmptyWork.puts = None /\ EmptyWork.needs = {}
        /\ DOMAIN None = {}
    BY NoPiece DEF EmptyWork
  <1>8. \A t \in Tx : InPlace(t) /\ Shaped(t) /\ Holding(t)
    BY <1>3, <1>6, <1>7 DEF InPlace, Shaped, Holding, Active
  <1>9. \A t \in Tx : View(t) = db
    BY <1>5, <1>6, NothingWritten
  <1>. QED
    BY <1>2, <1>5, <1>8, <1>9 DEF TransactionInv

LEMMA TransactionNext ==
  ASSUME TransactionInv, [Next]_vars
  PROVE  TransactionInv'
  <1>1. CASE UNCHANGED vars
    <2>1. \A u \in Tx : InPlace(u)' /\ Shaped(u)' /\ Holding(u)' /\ Joins(View(u)')
      <3>1. TAKE u \in Tx
      <3>2. Landed \subseteq Landed'
        BY <1>1 DEF vars, Landed
      <3>. QED
        BY <1>1, <3>2, LeftAlone DEF vars
    <2>. QED
      BY <1>1, <2>1 DEF TransactionInv, Typed, vars
  <1>2. ASSUME NEW t \in Tx, Reading(t) PROVE TransactionInv'
    BY <1>2, ReadingKeeps
  <1>. QED
    BY <1>1, <1>2, BeginKeeps, AcquireKeeps, WriteKeeps, CommitKeeps, RollBackKeeps
       DEF Next, Finished, Reading

\* Every commit keeps to its place in its request, writes what its statement reads
\* and holds what it has written, for any requests and any number of commits at a
\* time; no relation is ever left without its nodes.
THEOREM TransactionsSafe == Spec => []TransactionInv
  BY TransactionFirst, TransactionNext, PTL DEF Spec

\* What had landed when a commit began to recompute.
BasisInv == basis \in [Tx -> SUBSET Tx] /\ \A t \in Tx : basis[t] \subseteq Landed

LEMMA BasisNext ==
  ASSUME TransactionInv, BasisInv, [Next]_vars
  PROVE  BasisInv'
  <1>1. Typed
    BY DEF TransactionInv
  <1>2. ASSUME NEW t \in Tx, NEW x, pc[t] # "committed", pc' = [pc EXCEPT ![t] = x]
        PROVE  Landed \subseteq Landed'
    BY <1>1, <1>2 DEF Landed, Typed
  <1>3. ASSUME Landed \subseteq Landed', NEW t \in Tx, NEW b \in {basis[t], Landed, {}},
               basis' = [basis EXCEPT ![t] = b]
        PROVE  BasisInv'
    <2>1. basis' \in [Tx -> SUBSET Tx] /\ \A u \in Tx : basis'[u] \in {basis[u], Landed, {}}
      BY <1>3 DEF BasisInv, Landed
    <2>. QED
      BY <1>3, <2>1 DEF BasisInv
  <1>4. ASSUME Landed \subseteq Landed', UNCHANGED basis PROVE BasisInv'
    BY <1>4 DEF BasisInv
  <1>5. ASSUME UNCHANGED pc PROVE Landed' = Landed
    BY <1>5 DEF Landed
  <1>6. ASSUME NEW t \in Tx, Begin(t) PROVE BasisInv'
    BY <1>2, <1>4, <1>6 DEF Begin
  <1>7. ASSUME NEW t \in Tx, Reading(t) PROVE BasisInv'
    <2>1. /\ pc[t] = "read" /\ pc' = [pc EXCEPT ![t] = "write"]
          /\ UNCHANGED basis \/ basis' = [basis EXCEPT ![t] = Landed]
      BY <1>7 DEF Reading, Supersede, Create, SetFlags, Invalidate, Delete, Inherit, Connect,
                  Require, Orphan, At, Stage, Prepare
    <2>. QED
      BY <1>2, <1>3, <1>4, <2>1
  <1>8. ASSUME NEW t \in Tx, Write(t) PROVE BasisInv'
    BY <1>2, <1>4, <1>8 DEF Write
  <1>9. ASSUME NEW t \in Tx, Commit(t) PROVE BasisInv'
    BY <1>2, <1>3, <1>9 DEF Commit
  <1>10. ASSUME NEW t \in Tx, NEW x, RollBack(t, x) PROVE BasisInv'
    BY <1>2, <1>3, <1>10 DEF RollBack
  <1>11. ASSUME UNCHANGED <<pc, basis>> PROVE BasisInv'
    BY <1>4, <1>5, <1>11
  <1>. QED
    BY <1>6, <1>7, <1>8, <1>9, <1>10, <1>11
       DEF Next, Finished, Reading, Acquire, Reject, Retry, vars

\* What a commit takes to have landed when it began to recompute has.
THEOREM BasisSafe == Spec => []BasisInv
  <1>1. Init => BasisInv
    BY DEF Init, BasisInv
  <1>. QED
    BY <1>1, BasisNext, TransactionsSafe, PTL DEF Spec

\* Every variable keeps its type: no flag is inherited from a node that is gone,
\* and no version is counted from none.
THEOREM TypesKept == Spec => []TypeOK
  <1>1. ASSUME TransactionInv, BasisInv PROVE TypeOK
    <2>1. ASSUME NEW t \in Tx
          PROVE  /\ DOMAIN work[t].mine \subseteq Item /\ IsDatabase(View(t))
                 /\ DOMAIN work[t].puts \subseteq Item /\ IsDatabase(Over(work[t].puts, View(t)))
                 /\ pc[t] # "write" => work[t].puts = None /\ work[t].needs = {}
      <3>1. work[t].mine \in Pieces /\ work[t].puts \in Pieces /\ View(t) \in Database
        BY <1>1, ViewIs DEF TransactionInv, Typed, Work
      <3>2. Over(work[t].puts, View(t)) \in Database
        BY <3>1, OverIs, WholePiece
      <3>3. pc[t] # "write" => work[t].puts = None /\ work[t].needs = {}
        BY <1>1 DEF TransactionInv, InPlace
      <3>. QED
        BY <3>1, <3>2, <3>3, PieceIs, DatabaseIs
    <2>2. IsDatabase(db)
      BY <1>1, DatabaseIs DEF TransactionInv, Typed
    <2>. QED
      BY <1>1, <2>1, <2>2 DEF TypeOK, TransactionInv, Typed, BasisInv
  <1>. QED
    BY <1>1, TransactionsSafe, BasisSafe, PTL
=====
