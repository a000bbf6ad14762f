--------------------------- MODULE TraceCells_proofs ---------------------------
(* What commits leave of each other's work, for any number of them at a time: *)
(* what supersession and invalidation leave CURRENT and how versions follow   *)
(* commits, what a commit nothing else lands on derives, and that no two give *)
(* a pair its Requirement.                                                    *)
EXTENDS TraceCommit_proofs

-----------------------------------------------------------------------------
\* What an active transaction has made of the cells it works on.  Whatever is
\* CURRENT beside its work is by commits it cannot have seen.

SameCell(x, y) == <<x.ent, x.st, x.asset>> = <<y.ent, y.st, y.asset>>
SamePair(x, y) == x.ent = y.ent /\ x.asset = y.asset
Unseen(t, x)   == x.by \in Tx \ seen[t]

\* Its own relation is CURRENT beside unseen ones only.
OwnIsCurrent(t) ==
  \A x, y \in Current(View(t)) : SameCell(x, y) /\ y.by = t /\ x # y => Unseen(t, x)
\* Its own relation has the highest version of those it has seen.
OwnIsHighest(t) ==
  \A x, y \in Present(View(t), TraceRel) :
    SamePair(x, y) /\ y.by = t /\ x.by \in seen[t] \cup {Original}
      => View(t)[x].ver < View(t)[y].ver
\* Between superseding a cell and creating its relation.
Tracing(t) == /\ pc[t] \in {"read", "write"} /\ CurrentOp(t).kind = "trace"
              /\ pc[t] = "write" \/ work[t].stmt = 2
Ending(t, x) == work[t].stmt = 1 /\ x \in DOMAIN work[t].puts
CellSuperseded(t) ==
  Tracing(t) => \A x \in Current(View(t)) \cap Cell(CurrentOp(t)) : Unseen(t, x) \/ Ending(t, x)
VersionFound(t) ==
  Tracing(t) => \A x \in Present(View(t), TraceRel) :
    SamePair(x, CurrentOp(t)) /\ x.by \in seen[t] \cup {Original} => View(t)[x].ver < work[t].ver
\* From invalidating the relations of a State on.
Deleted(t, i) == req[t][i].kind = "delete" /\ req[t][i].node \in State
StatesInvalidated(t) ==
  \A i \in 1..Len(req[t]) : Deleted(t, i) =>
    /\ i < work[t].op =>
         \A x \in Current(View(t)) : x.st = req[t][i].node => Unseen(t, x)
    /\ i = work[t].op /\ (pc[t] = "write" \/ work[t].stmt = 2) =>
         \A x \in Current(View(t)) : x.st = req[t][i].node => Unseen(t, x) \/ Ending(t, x)

Clean(t) ==
  /\ OwnIsCurrent(t) /\ OwnIsHighest(t) /\ CellSuperseded(t) /\ VersionFound(t)
  /\ StatesInvalidated(t)

CellsInv ==
  /\ OneCurrentUnlessOverlap /\ VersionsFollowCommits /\ DeletedStateInvalidates
  /\ \A t \in Tx : pc[t] \in Active => Clean(t)

-----------------------------------------------------------------------------
LEMMA GrowsIs ==
  ASSUME NEW v, NEW w, NEW t, Grows(v, w, t)
  PROVE  /\ \A x \in Current(w) : x \in Current(v) \/ x.by = t
         /\ \A x \in Present(w, TraceRel) :
              (x \in Present(v, TraceRel) /\ w[x].ver = v[x].ver) \/ x.by = t
  BY DEF Grows, Current, Present

\* One a step of another leaves alone.
LEMMA CleanAlone ==
  ASSUME NEW t \in Tx, work'[t] = work[t], pc'[t] = pc[t], seen'[t] = seen[t], req'[t] = req[t],
         db' = db, Clean(t)
  PROVE  Clean(t)'
  <1>1. View(t)' = View(t) /\ CurrentOp(t)' = CurrentOp(t)
    BY DEF View, CurrentOp
  <1>2. OwnIsCurrent(t)' /\ OwnIsHighest(t)'
    BY <1>1 DEF Clean, OwnIsCurrent, OwnIsHighest, Unseen
  <1>3. CellSuperseded(t)' /\ VersionFound(t)'
    BY <1>1 DEF Clean, CellSuperseded, VersionFound, Tracing, Unseen, Ending
  <1>4. StatesInvalidated(t)'
    BY <1>1 DEF Clean, StatesInvalidated, Deleted, Unseen, Ending
  <1>. QED
    BY <1>2, <1>3, <1>4 DEF Clean

\* One that a commit of another passes by: what it brings is unseen.
LEMMA CleanPassed ==
  ASSUME TransactionInv, NEW t \in Tx, Commit(t), NEW u \in Tx \ {t}, Clean(u)
  PROVE  Clean(u)'
  <1>1. /\ work'[u] = work[u] /\ pc'[u] = pc[u] /\ seen'[u] = seen[u] /\ req'[u] = req[u]
        /\ Grows(View(u), View(u)', t)
    BY CommitEffect, EndsEffect DEF TransactionInv
  <1>2. CurrentOp(u)' = CurrentOp(u)
    BY <1>1 DEF CurrentOp
  <1>3. t \notin seen[u] /\ t # Original
    BY NamesAssumption DEF TransactionInv, InPlace, Landed, Commit
  <1>. DEFINE v == View(u)  w == View(u)'
  <1>4. /\ \A x \in Current(w) : x \in Current(v) \/ Unseen(u, x)
        /\ \A x \in Current(w) : x.by = u => x \in Current(v)
        /\ \A x \in Present(w, TraceRel) :
             x.by # t => x \in Present(v, TraceRel) /\ w[x].ver = v[x].ver
    BY <1>1, <1>3, GrowsIs DEF Unseen
  <1>. HIDE DEF v, w
  <1>5. OwnIsCurrent(u)'
    <2>1. \A x, y \in Current(v) : SameCell(x, y) /\ y.by = u /\ x # y => Unseen(u, x)
      BY DEF Clean, OwnIsCurrent, v
    <2>2. \A x, y \in Current(w) : SameCell(x, y) /\ y.by = u /\ x # y => Unseen(u, x)
      BY <1>4, <2>1
    <2>. QED
      BY <1>1, <2>2 DEF OwnIsCurrent, Unseen, SameCell, w
  <1>6. OwnIsHighest(u)'
    <2>1. \A x, y \in Present(v, TraceRel) :
            SamePair(x, y) /\ y.by = u /\ x.by \in seen[u] \cup {Original} => v[x].ver < v[y].ver
      BY DEF Clean, OwnIsHighest, v
    <2>2. \A x, y \in Present(w, TraceRel) :
            SamePair(x, y) /\ y.by = u /\ x.by \in seen[u] \cup {Original} => w[x].ver < w[y].ver
      BY <1>3, <1>4, <2>1
    <2>. QED
      BY <1>1, <2>2 DEF OwnIsHighest, SamePair, w
  <1>7. CellSuperseded(u)'
    <2>1. Tracing(u) => \A x \in Current(v) \cap Cell(CurrentOp(u)) : Unseen(u, x) \/ Ending(u, x)
      BY DEF Clean, CellSuperseded, v
    <2>2. Tracing(u) => \A x \in Current(w) \cap Cell(CurrentOp(u)) : Unseen(u, x) \/ Ending(u, x)
      BY <1>4, <2>1
    <2>. QED
      BY <1>1, <1>2, <2>2 DEF CellSuperseded, Tracing, Unseen, Ending, w
  <1>8. VersionFound(u)'
    <2>1. Tracing(u) => \A x \in Present(v, TraceRel) :
            SamePair(x, CurrentOp(u)) /\ x.by \in seen[u] \cup {Original} => v[x].ver < work[u].ver
      BY DEF Clean, VersionFound, v
    <2>2. Tracing(u) => \A x \in Present(w, TraceRel) :
            SamePair(x, CurrentOp(u)) /\ x.by \in seen[u] \cup {Original} => w[x].ver < work[u].ver
      BY <1>3, <1>4, <2>1
    <2>. QED
      BY <1>1, <1>2, <2>2 DEF VersionFound, Tracing, SamePair, w
  <1>9. StatesInvalidated(u)'
    <2>1. SUFFICES ASSUME NEW i \in 1..Len(req[u]), Deleted(u, i)
                   PROVE  /\ i < work[u].op =>
                               \A x \in Current(w) : x.st = req[u][i].node => Unseen(u, x)
                          /\ i = work[u].op /\ (pc[u] = "write" \/ work[u].stmt = 2) =>
                               \A x \in Current(w) :
                                 x.st = req[u][i].node => Unseen(u, x) \/ Ending(u, x)
      BY <1>1 DEF StatesInvalidated, Deleted, Unseen, Ending, w
    <2>2. /\ i < work[u].op =>
               \A x \in Current(v) : x.st = req[u][i].node => Unseen(u, x)
          /\ i = work[u].op /\ (pc[u] = "write" \/ work[u].stmt = 2) =>
               \A x \in Current(v) :
                 x.st = req[u][i].node => Unseen(u, x) \/ Ending(u, x)
      BY <2>1 DEF Clean, StatesInvalidated, v
    <2>. QED
      BY <1>4, <2>2
  <1>. QED
    BY <1>5, <1>6, <1>7, <1>8, <1>9 DEF Clean

-----------------------------------------------------------------------------
\* Reading.

LEMMA SupersedeCleans ==
  ASSUME TransactionInv, NEW t \in Tx, Supersede(t), Clean(t)
  PROVE  CellSuperseded(t)' /\ VersionFound(t)' /\ StatesInvalidated(t)'
  <1>1. PICK p \in Pieces, n \in SUBSET Item, k \in Nat :
          /\ Reads(t, p, n, k) /\ Shape(t, p, n)
          /\ n = {x \in Cell(CurrentOp(t)) \cap Current(View(t)) :
                    CurrentOp(t).kind = "trace" \/ View(t)[x].type = CurrentOp(t).type}
          /\ CurrentOp(t).kind = "trace" => k = NextVersion(View(t), CurrentOp(t))
    BY SupersedeReads
  <1>2. Typed /\ InPlace(t) /\ View(t) \in Database
    BY ViewIs DEF TransactionInv
  <1>3. /\ work'[t].op = work[t].op /\ work'[t].stmt = work[t].stmt
        /\ work'[t].puts = p /\ work'[t].ver = k /\ pc'[t] = "write" /\ View(t)' = View(t)
        /\ UNCHANGED <<db, lock, req, seen>> /\ pc[t] = "read"
    BY <1>1, <1>2, ReadsEffect DEF Reads
  <1>4. Statement(t) = "supersede" /\ work[t].stmt = 1 /\ CurrentOp(t).kind \in {"trace", "clear"}
    BY <1>2, <1>3, StatementInPlace DEF Supersede, At
  <1>5. CurrentOp(t)' = CurrentOp(t)
    BY <1>3 DEF CurrentOp
  <1>6. DOMAIN p = n
    BY <1>1, <1>4 DEF Shape
  <1>7. CellSuperseded(t)'
    BY <1>1, <1>3, <1>4, <1>5, <1>6 DEF CellSuperseded, Tracing, Ending
  <1>8. VersionFound(t)'
    <2>1. SUFFICES ASSUME CurrentOp(t).kind = "trace", NEW x \in Present(View(t), TraceRel),
                          SamePair(x, CurrentOp(t))
                   PROVE  View(t)[x].ver < k
      BY <1>3, <1>5 DEF VersionFound, Tracing
    <2>. QED
      BY <1>1, <1>2, <2>1, NextVersionIs DEF SamePair
  <1>9. StatesInvalidated(t)'
    <2>1. SUFFICES ASSUME NEW i \in 1..Len(req[t]), Deleted(t, i)
                   PROVE  /\ i # work[t].op
                          /\ i < work[t].op => \A x \in Current(View(t)) :
                                                 x.st = req[t][i].node => Unseen(t, x)
      BY <1>3 DEF StatesInvalidated, Deleted, Unseen
    <2>. QED
      BY <1>4, <2>1 DEF Clean, StatesInvalidated, Deleted, CurrentOp
  <1>. QED
    BY <1>7, <1>8, <1>9

LEMMA InvalidateCleans ==
  ASSUME TransactionInv, NEW t \in Tx, Invalidate(t), Clean(t)
  PROVE  CellSuperseded(t)' /\ VersionFound(t)' /\ StatesInvalidated(t)'
  <1>1. PICK p \in Pieces, n \in SUBSET Item :
          /\ Reads(t, p, n, work[t].ver) /\ Shape(t, p, n)
          /\ n = {x \in Current(View(t)) : x.st = CurrentOp(t).node}
    BY InvalidateReads
  <1>2. Typed /\ InPlace(t) /\ work[t].ver \in Nat
    BY DEF TransactionInv, Typed, Work
  <1>3. /\ work'[t].op = work[t].op /\ work'[t].stmt = work[t].stmt
        /\ work'[t].puts = p /\ pc'[t] = "write" /\ View(t)' = View(t)
        /\ UNCHANGED <<db, lock, req, seen>> /\ pc[t] = "read"
    BY <1>1, <1>2, ReadsEffect DEF Reads
  <1>4. Statement(t) = "invalidate" /\ work[t].stmt = 1 /\ CurrentOp(t).kind = "delete"
    BY <1>2, <1>3, StatementInPlace DEF Invalidate, At
  <1>5. CurrentOp(t)' = CurrentOp(t)
    BY <1>3 DEF CurrentOp
  <1>6. DOMAIN p = n
    BY <1>1, <1>4 DEF Shape
  <1>7. CellSuperseded(t)' /\ VersionFound(t)'
    BY <1>4, <1>5 DEF CellSuperseded, VersionFound, Tracing
  <1>8. StatesInvalidated(t)'
    <2>1. SUFFICES ASSUME NEW i \in 1..Len(req[t]), Deleted(t, i)
                   PROVE  /\ i < work[t].op => \A x \in Current(View(t)) :
                                                 x.st = req[t][i].node => Unseen(t, x)
                          /\ i = work[t].op => \A x \in Current(View(t)) :
                                                 x.st = req[t][i].node => x \in DOMAIN p
      BY <1>3, <1>4 DEF StatesInvalidated, Deleted, Unseen, Ending
    <2>2. i = work[t].op => req[t][i] = CurrentOp(t)
      BY DEF CurrentOp
    <2>. QED
      BY <1>1, <1>6, <2>1, <2>2 DEF Clean, StatesInvalidated
  <1>. QED
    BY <1>7, <1>8

LEMMA ReadingCleans ==
  ASSUME TransactionInv, NEW t \in Tx, Reading(t), Clean(t)
  PROVE  Clean(t)'
  <1>1. PICK p \in Pieces, n \in SUBSET Item, k \in Nat :
          /\ Reads(t, p, n, k) /\ Shape(t, p, n)
          /\ Statement(t) = "supersede" \/ k = work[t].ver
    BY ReadingIs
  <1>2. Typed /\ InPlace(t)
    BY DEF TransactionInv
  <1>3. /\ work'[t].op = work[t].op /\ work'[t].stmt = work[t].stmt
        /\ work'[t].ver = k /\ pc'[t] = "write" /\ View(t)' = View(t)
        /\ UNCHANGED <<db, lock, req, seen>> /\ pc[t] = "read"
    <2>1. /\ work'[t].op = work[t].op /\ work'[t].stmt = work[t].stmt
          /\ work'[t].ver = k /\ pc'[t] = "write" /\ View(t)' = View(t)
      BY <1>1, <1>2, ReadsEffect
    <2>. QED
      BY <1>1, <2>1 DEF Reads
  <1>4. CurrentOp(t)' = CurrentOp(t)
    BY <1>3 DEF CurrentOp
  <1>5. OwnIsCurrent(t)' /\ OwnIsHighest(t)'
    BY <1>3 DEF Clean, OwnIsCurrent, OwnIsHighest, Unseen
  <1>6. CASE Statement(t) = "supersede"
    <2>1. Supersede(t)
      BY <1>6 DEF Reading, Supersede, Create, SetFlags, Invalidate, Delete, Inherit, Connect,
                  Require, Orphan, At
    <2>. QED
      BY <1>5, <2>1, SupersedeCleans DEF Clean
  <1>7. CASE Statement(t) = "invalidate"
    <2>1. Invalidate(t)
      BY <1>7 DEF Reading, Supersede, Create, SetFlags, Invalidate, Delete, Inherit, Connect,
                  Require, Orphan, At
    <2>. QED
      BY <1>5, <2>1, InvalidateCleans DEF Clean
  <1>8. CASE Statement(t) \notin {"supersede", "invalidate"}
    <2>1. /\ CurrentOp(t).kind = "trace" => work[t].stmt = 2
          /\ CurrentOp(t).kind = "delete" /\ CurrentOp(t).node \in State => work[t].stmt = 2
      BY <1>2, <1>3, <1>8, OpInPlace, StatementInPlace, StatementIs
    <2>2. CellSuperseded(t)'
      BY <1>3, <1>4, <2>1 DEF Clean, CellSuperseded, Tracing, Unseen, Ending
    <2>3. VersionFound(t)'
      BY <1>1, <1>3, <1>4, <1>8, <2>1 DEF Clean, VersionFound, Tracing
    <2>4. StatesInvalidated(t)'
      <3>1. SUFFICES ASSUME NEW i \in 1..Len(req[t]), Deleted(t, i)
                     PROVE  /\ i < work[t].op => \A x \in Current(View(t)) :
                                                   x.st = req[t][i].node => Unseen(t, x)
                            /\ i = work[t].op => \A x \in Current(View(t)) :
                                                   x.st = req[t][i].node => Unseen(t, x)
        BY <1>3 DEF StatesInvalidated, Deleted, Unseen
      <3>2. i = work[t].op => work[t].stmt = 2
        BY <2>1, <3>1 DEF Deleted, CurrentOp
      <3>. QED
        BY <3>1, <3>2 DEF Clean, StatesInvalidated, Ending
    <2>. QED
      BY <1>5, <2>2, <2>3, <2>4 DEF Clean
  <1>. QED
    BY <1>6, <1>7, <1>8

-----------------------------------------------------------------------------
\* Writing.

LEMMA WriteGrows ==
  ASSUME TransactionInv, NEW t \in Tx, Write(t)
  PROVE  LET v == View(t)  w == View(t)' IN
         /\ \A x \in Current(w) : \/ x \in Current(v) /\ x \notin DOMAIN Puts(t)
                                  \/ Statement(t) = "create" /\ x = RelOf(t)
         /\ \A x \in Present(w, TraceRel) :
              \/ x \in Present(v, TraceRel) /\ w[x].ver = v[x].ver
              \/ Statement(t) = "create" /\ x = RelOf(t) /\ w[x].ver = work[t].ver
                 /\ x \notin Present(v, TraceRel)
  <1>. DEFINE v == View(t)  w == View(t)'  Q == Puts(t)
  <1>1. \A x \in TraceRel : w[x] = IF x \in DOMAIN Q THEN Q[x] ELSE v[x]
    BY WriteEffect DEF Item
  <1>2. \A x \in DOMAIN Q : x \in TraceRel =>
       \/ /\ v[x] # Absent
          /\ Q[x] # Absent => Q[x].status # "CURRENT" /\ Q[x].ver = v[x].ver
       \/ /\ Statement(t) = "create" /\ x = RelOf(t) /\ v[x] = Absent
          /\ Q[x].ver = work[t].ver
    BY WriteWrites DEF Writes
  <1>. HIDE DEF v, w, Q
  <1>3. \A x \in Current(w) : \/ x \in Current(v) /\ x \notin DOMAIN Q
                              \/ Statement(t) = "create" /\ x = RelOf(t)
    BY <1>1, <1>2 DEF Current, Present
  <1>4. \A x \in Present(w, TraceRel) :
              \/ x \in Present(v, TraceRel) /\ w[x].ver = v[x].ver
              \/ Statement(t) = "create" /\ x = RelOf(t) /\ w[x].ver = work[t].ver
                 /\ x \notin Present(v, TraceRel)
    BY <1>1, <1>2 DEF Present
  <1>. QED
    BY <1>3, <1>4 DEF v, w, Q

LEMMA WriteCleans ==
  ASSUME TransactionInv, NEW t \in Tx, Write(t), Clean(t)
  PROVE  Clean(t)'
  <1>. DEFINE v == View(t)  w == View(t)'  o == CurrentOp(t)
  <1>1. Typed /\ InPlace(t) /\ pc[t] = "write" /\ t \notin seen[t] /\ t # Original
        /\ work[t] \in Work
    BY NamesAssumption DEF TransactionInv, InPlace, Write, Landed, Typed
  <1>2. /\ work'[t].ver = work[t].ver /\ pc'[t] \in {"read", "finish"}
        /\ work'[t].op = IF LastStatement(t) THEN work[t].op + 1 ELSE work[t].op
        /\ work'[t].stmt = IF LastStatement(t) THEN 1 ELSE work[t].stmt + 1
        /\ req' = req /\ seen' = seen
    BY WriteEffect
  <1>3. /\ \A x \in Current(w) : \/ x \in Current(v) /\ x \notin DOMAIN Puts(t)
                                 \/ Statement(t) = "create" /\ x = RelOf(t)
        /\ \A x \in Present(w, TraceRel) :
              \/ x \in Present(v, TraceRel) /\ w[x].ver = v[x].ver
              \/ Statement(t) = "create" /\ x = RelOf(t) /\ w[x].ver = work[t].ver
    BY WriteGrows
  <1>4. Statement(t) \in {"supersede", "invalidate"} => Puts(t) = work[t].puts
    BY DEF Puts, Deleting, Unmatched, Matched, Present
  <1>5. /\ Statement(t) = "supersede" <=> o.kind \in {"trace", "clear"} /\ work[t].stmt = 1
        /\ Statement(t) = "create" <=> o.kind = "trace" /\ work[t].stmt = 2
        /\ Statement(t) = "invalidate" <=> o.kind = "delete" /\ o.node \in State /\ work[t].stmt = 1
        /\ o.kind = "trace" \/ (o.kind = "delete" /\ o.node \in State) =>
             work[t].stmt \in {1, 2} /\ (LastStatement(t) <=> work[t].stmt = 2)
        /\ o.kind = "trace" => o.st \in State
    BY <1>1, OpInPlace, OpsAre, StatementInPlace, StatementIs
  <1>6. /\ RelOf(t).ent = o.ent /\ RelOf(t).asset = o.asset /\ RelOf(t).st = o.st
        /\ RelOf(t).by = t /\ Unseen(t, RelOf(t))
    BY <1>1 DEF RelOf, Unseen
  <1>7. Statement(t) = "create" => Tracing(t) /\ \A x : ~Ending(t, x)
    BY <1>1, <1>5 DEF Tracing, Ending
  <1>8. /\ OwnIsCurrent(t) /\ OwnIsHighest(t) /\ CellSuperseded(t) /\ VersionFound(t)
        /\ StatesInvalidated(t)
    BY DEF Clean
  <1>9. OwnIsCurrent(t)'
    <2>1. SUFFICES ASSUME NEW x \in Current(w), NEW y \in Current(w), SameCell(x, y), y.by = t, x # y
                   PROVE  Unseen(t, x)
      BY <1>2 DEF OwnIsCurrent, Unseen
    <2>2. CASE Statement(t) = "create" /\ x = RelOf(t)
      BY <1>6, <2>2
    <2>3. CASE x \in Current(v) /\ Statement(t) = "create" /\ y = RelOf(t)
      <3>1. x \in Cell(o)
        BY <1>6, <2>1, <2>3 DEF SameCell, Cell, Current, Present
      <3>. QED
        BY <1>7, <1>8, <2>3, <3>1 DEF CellSuperseded
    <2>4. CASE x \in Current(v) /\ y \in Current(v)
      BY <1>8, <2>1, <2>4 DEF OwnIsCurrent
    <2>. QED
      BY <1>3, <2>1, <2>2, <2>3, <2>4
  <1>10. OwnIsHighest(t)'
    <2>1. SUFFICES ASSUME NEW x \in Present(w, TraceRel), NEW y \in Present(w, TraceRel),
                          SamePair(x, y), y.by = t, x.by \in seen[t] \cup {Original}
                   PROVE  w[x].ver < w[y].ver
      BY <1>2 DEF OwnIsHighest
    <2>2. x \in Present(v, TraceRel) /\ w[x].ver = v[x].ver
      BY <1>1, <1>3, <1>6, <2>1
    <2>3. CASE Statement(t) = "create" /\ y = RelOf(t) /\ w[y].ver = work[t].ver
      <3>1. SamePair(x, o)
        BY <1>6, <2>1, <2>3 DEF SamePair
      <3>. QED
        BY <1>7, <1>8, <2>1, <2>2, <2>3, <3>1 DEF VersionFound
    <2>4. CASE y \in Present(v, TraceRel) /\ w[y].ver = v[y].ver
      BY <1>8, <2>1, <2>2, <2>4 DEF OwnIsHighest
    <2>. QED
      BY <1>3, <2>1, <2>3, <2>4
  <1>11. CurrentOp(t)' = CurrentOp(t) \/ (work'[t].op # work[t].op /\ work'[t].stmt = 1)
    BY <1>1, <1>2 DEF CurrentOp, Work
  <1>12. Tracing(t)' => /\ CurrentOp(t)' = o /\ o.kind = "trace" /\ work[t].stmt = 1
                        /\ work'[t].stmt = 2 /\ Tracing(t)
    BY <1>1, <1>2, <1>5, <1>11 DEF Tracing, Work
  <1>13. CellSuperseded(t)'
    <2>1. SUFFICES ASSUME Tracing(t)', NEW x \in Current(w) \cap Cell(o) PROVE Unseen(t, x)
      BY <1>2, <1>12 DEF CellSuperseded, Unseen
    <2>2. Statement(t) = "supersede" /\ Statement(t) # "create" /\ Puts(t) = work[t].puts
      BY <1>4, <1>5, <1>12, <2>1
    <2>3. x \in Current(v) /\ x \notin DOMAIN work[t].puts
      BY <1>3, <2>2
    <2>. QED
      BY <1>8, <1>12, <2>1, <2>3 DEF CellSuperseded, Ending
  <1>14. VersionFound(t)'
    <2>1. SUFFICES ASSUME Tracing(t)', NEW x \in Present(w, TraceRel), SamePair(x, o),
                          x.by \in seen[t] \cup {Original}
                   PROVE  w[x].ver < work[t].ver
      BY <1>2, <1>12 DEF VersionFound
    <2>2. x \in Present(v, TraceRel) /\ w[x].ver = v[x].ver
      BY <1>1, <1>3, <1>6, <2>1
    <2>. QED
      BY <1>8, <1>12, <2>1, <2>2 DEF VersionFound
  <1>15. StatesInvalidated(t)'
    <2>1. SUFFICES ASSUME NEW i \in 1..Len(req[t]), Deleted(t, i),
                          \/ i < work'[t].op
                          \/ i = work'[t].op /\ work'[t].stmt = 2,
                          NEW x \in Current(w), x.st = req[t][i].node
                   PROVE  Unseen(t, x)
      BY <1>2 DEF StatesInvalidated, Deleted, Unseen
    <2>2. CASE Statement(t) = "create" /\ x = RelOf(t)
      BY <1>6, <2>2
    <2>3. CASE x \in Current(v) /\ x \notin DOMAIN Puts(t)
      <3>1. CASE i < work[t].op
        BY <1>8, <2>1, <2>3, <3>1 DEF StatesInvalidated
      <3>2. CASE i = work[t].op
        <4>1. o.kind = "delete" /\ o.node \in State
          BY <2>1, <3>2 DEF Deleted, CurrentOp
        <4>2. Unseen(t, x) \/ Ending(t, x)
          BY <1>1, <1>8, <2>1, <2>3, <3>2 DEF StatesInvalidated
        <4>3. ~Ending(t, x)
          BY <1>4, <1>5, <2>3, <4>1 DEF Ending
        <4>. QED
          BY <4>2, <4>3
      <3>3. i <= work[t].op
        BY <1>1, <1>2, <2>1 DEF Work
      <3>. QED
        BY <1>1, <3>1, <3>2, <3>3 DEF Work
    <2>. QED
      BY <1>3, <2>1, <2>2, <2>3
  <1>. QED
    BY <1>9, <1>10, <1>13, <1>14, <1>15 DEF Clean

-----------------------------------------------------------------------------
\* Committing.

LEMMA CommitCells ==
  ASSUME TransactionInv, CellsInv, NEW t \in Tx, Commit(t)
  PROVE  OneCurrentUnlessOverlap' /\ VersionsFollowCommits' /\ DeletedStateInvalidates'
  <1>1. /\ db' = View(t) /\ Grows(db, View(t), t) /\ View(t) \in Database
        /\ pc[t] = "finish" /\ seen' = seen /\ req' = req
        /\ pc'[t] = "committed" /\ \A u \in Tx \ {t} : pc'[u] = pc[u]
    BY CommitEffect, EndsEffect DEF TransactionInv, Commit
  <1>. DEFINE w == View(t)
  <1>2. /\ Clean(t) /\ work[t].op = Len(req[t]) + 1 /\ seen[t] \subseteq Landed
        /\ req[t] \in Seq(Ops)
        /\ \A u \in Tx : t \notin seen[u]
    BY <1>1 DEF CellsInv, Active, TransactionInv, InPlace, Landed, Typed
  <1>3. /\ \A x \in Current(w) : x \in TraceRel /\ x.by \in Known(t) /\ x \in Present(w, TraceRel)
        /\ \A x \in Present(w, TraceRel) : x \in TraceRel /\ x.by \in Known(t)
    BY <1>1, InDatabase, ViewKnown DEF Present
  <1>4. /\ \A x \in Current(w) : x \in Current(db) \/ x.by = t
        /\ \A x \in Present(w, TraceRel) :
             (x \in Present(db, TraceRel) /\ w[x].ver = db[x].ver) \/ x.by = t
    BY <1>1, GrowsIs
  <1>5. t \in Tx /\ t # Original /\ \A x \in TraceRel : x.by \in Tx \cup {Original}
    BY NamesAssumption DEF TraceRel
  <1>. HIDE DEF w
  <1>6. ASSUME NEW x \in Current(w), NEW y \in Current(w), x # y, SameCell(x, y), y.by = t
        PROVE  {x.by, y.by} \subseteq Tx /\ Overlapped(x.by, y.by)
    <2>1. Unseen(t, x)
      BY <1>2, <1>6 DEF Clean, OwnIsCurrent, w
    <2>. QED
      BY <1>2, <1>6, <2>1 DEF Unseen, Overlapped
  <1>7. ASSUME NEW x \in Current(w), NEW y \in Current(w), x # y, SameCell(x, y)
        PROVE  {x.by, y.by} \subseteq Tx /\ Overlapped(x.by, y.by)
    <2>1. CASE y.by = t
      BY <1>6, <1>7, <2>1
    <2>2. CASE x.by = t
      <3>1. SameCell(y, x) /\ y # x
        BY <1>7 DEF SameCell
      <3>2. {y.by, x.by} \subseteq Tx /\ Overlapped(y.by, x.by)
        BY <1>6, <2>2, <3>1
      <3>. QED
        BY <3>2 DEF Overlapped
    <2>3. CASE x \in Current(db) /\ y \in Current(db)
      BY <1>7, <2>3 DEF CellsInv, OneCurrentUnlessOverlap, SameCell
    <2>. QED
      BY <1>4, <2>1, <2>2, <2>3
  <1>8. OneCurrentUnlessOverlap'
    BY <1>1, <1>7 DEF OneCurrentUnlessOverlap, Overlapped, SameCell, w
  <1>9. ASSUME NEW x \in Present(w, TraceRel), NEW y \in Present(w, TraceRel), SamePair(x, y),
               y.by \in Tx, x.by \in seen[y.by] \cup {Original}
        PROVE  w[x].ver < w[y].ver
    <2>1. CASE y.by = t
      BY <1>2, <1>9, <2>1 DEF Clean, OwnIsHighest, w
    <2>2. CASE y.by # t
      <3>1. x.by # t
        BY <1>2, <1>5, <1>9
      <3>2. db[x].ver < db[y].ver
        BY <1>4, <1>9, <2>2, <3>1 DEF CellsInv, VersionsFollowCommits, SamePair
      <3>. QED
        BY <1>4, <2>2, <3>1, <3>2
    <2>. QED
      BY <2>1, <2>2
  <1>10. VersionsFollowCommits'
    BY <1>1, <1>9 DEF VersionsFollowCommits, SamePair, w
  <1>11. ASSUME NEW u \in Tx, pc'[u] = "committed", NEW i \in 1..Len(req[u]),
                req[u][i].kind = "delete", NEW x \in Current(w), x.st = req[u][i].node
         PROVE  Unseen(u, x)
    <2>1. CASE u = t
      <3>1. x.st \in State
        BY <1>3 DEF TraceRel
      <3>2. Deleted(t, i) /\ i < work[t].op
        BY <1>2, <1>11, <2>1, <3>1 DEF Deleted
      <3>. QED
        BY <1>2, <1>11, <2>1, <3>2 DEF Clean, StatesInvalidated, w
    <2>2. CASE u # t /\ x.by = t
      BY <1>2, <2>2 DEF Unseen
    <2>3. CASE u # t /\ x \in Current(db)
      BY <1>1, <1>11, <2>3 DEF CellsInv, DeletedStateInvalidates, Unseen
    <2>. QED
      BY <1>4, <2>1, <2>2, <2>3
  <1>12. DeletedStateInvalidates'
    BY <1>1, <1>11 DEF DeletedStateInvalidates, Unseen, w
  <1>. QED
    BY <1>8, <1>10, <1>12

-----------------------------------------------------------------------------
\* The rest.

\* A step that leaves the database and the commits' views of each other alone.
LEMMA CellsStay ==
  ASSUME CellsInv, UNCHANGED <<db, req, seen>>, \A u \in Tx : pc'[u] = "committed" => pc[u] = "committed"
  PROVE  OneCurrentUnlessOverlap' /\ VersionsFollowCommits' /\ DeletedStateInvalidates'
  BY DEF CellsInv, OneCurrentUnlessOverlap, VersionsFollowCommits, DeletedStateInvalidates,
         Overlapped

LEMMA BeginCells ==
  ASSUME TransactionInv, CellsInv, NEW t \in Tx, Begin(t)
  PROVE  CellsInv'
  <1>1. /\ pc[t] = "idle" /\ pc'[t] = "read" /\ \A u \in Tx \ {t} : pc'[u] = pc[u]
        /\ seen'[t] = Landed /\ \A u \in Tx \ {t} : seen'[u] = seen[u]
        /\ UNCHANGED <<db, lock, req, work>>
    BY DEF Begin, TransactionInv, Typed, Landed
  <1>2. \A x \in TraceRel : db[x] # Absent => x.by # t
    BY <1>1, NamesAssumption DEF TransactionInv
  <1>3. Current(db) \subseteq Present(db, TraceRel) /\ \A x \in Present(db, TraceRel) : x.by # t
    BY <1>2 DEF Current, Present
  <1>4. OneCurrentUnlessOverlap'
    BY <1>1, <1>3 DEF CellsInv, OneCurrentUnlessOverlap, Overlapped
  <1>5. VersionsFollowCommits'
    BY <1>1, <1>3 DEF CellsInv, VersionsFollowCommits
  <1>6. DeletedStateInvalidates'
    BY <1>1, <1>3 DEF CellsInv, DeletedStateInvalidates
  <1>7. Clean(t)'
    <2>1. work[t] = EmptyWork /\ Typed
      BY <1>1 DEF TransactionInv, InPlace, Active
    <2>2. View(t) = db /\ View(t)' = View(t)
      BY <1>1, <2>1, NothingWritten DEF View
    <2>3. work[t].op = 1 /\ work[t].stmt = 1
      BY <2>1 DEF EmptyWork
    <2>4. OwnIsCurrent(t)' /\ OwnIsHighest(t)'
      BY <1>3, <2>2 DEF OwnIsCurrent, OwnIsHighest
    <2>5. ~Tracing(t)'
      BY <1>1, <2>3 DEF Tracing
    <2>6. StatesInvalidated(t)'
      BY <1>1, <2>3 DEF StatesInvalidated
    <2>. QED
      BY <2>4, <2>5, <2>6 DEF Clean, CellSuperseded, VersionFound
  <1>8. ASSUME NEW u \in Tx \ {t}, pc'[u] \in Active PROVE Clean(u)'
    BY <1>1, <1>8, CleanAlone DEF CellsInv
  <1>. QED
    BY <1>4, <1>5, <1>6, <1>7, <1>8 DEF CellsInv

LEMMA CellsNext ==
  ASSUME TransactionInv, CellsInv, [Next]_vars
  PROVE  CellsInv'
  <1>1. Typed
    BY DEF TransactionInv
  <1>2. ASSUME UNCHANGED <<db, pc, req, work, seen>> PROVE CellsInv'
    <2>1. \A u \in Tx : pc[u] \in Active => Clean(u)'
      BY <1>2, CleanAlone DEF CellsInv
    <2>. QED
      BY <1>2, <2>1, CellsStay DEF CellsInv
  <1>3. ASSUME NEW t \in Tx, Reading(t) PROVE CellsInv'
    <2>1. PICK p \in Pieces, n \in SUBSET Item, k \in Nat : Reads(t, p, n, k)
      BY <1>3, ReadingIs
    <2>2. /\ UNCHANGED <<db, req, seen>> /\ pc[t] = "read" /\ pc'[t] = "write"
          /\ \A u \in Tx \ {t} : work'[u] = work[u] /\ pc'[u] = pc[u]
      <3>1. /\ pc'[t] = "write"
            /\ \A u \in Tx \ {t} : work'[u] = work[u] /\ pc'[u] = pc[u]
        BY <1>1, <2>1, ReadsEffect
      <3>. QED
        BY <2>1, <3>1 DEF Reads
    <2>3. Clean(t)'
      BY <1>3, <2>2, ReadingCleans DEF CellsInv, Active
    <2>4. \A u \in Tx \ {t} : pc'[u] \in Active => Clean(u)'
      BY <2>2, CleanAlone DEF CellsInv
    <2>. QED
      BY <2>2, <2>3, <2>4, CellsStay DEF CellsInv
  <1>4. ASSUME NEW t \in Tx, Write(t) PROVE CellsInv'
    <2>2. /\ UNCHANGED <<db, req, seen>> /\ pc[t] = "write" /\ pc'[t] \in {"read", "finish"}
          /\ \A u \in Tx \ {t} : work'[u] = work[u] /\ pc'[u] = pc[u]
      BY <1>4, WriteEffect DEF Write
    <2>3. Clean(t)'
      BY <1>4, <2>2, WriteCleans DEF CellsInv, Active
    <2>4. \A u \in Tx \ {t} : pc'[u] \in Active => Clean(u)'
      BY <2>2, CleanAlone DEF CellsInv
    <2>. QED
      BY <2>2, <2>3, <2>4, CellsStay DEF CellsInv
  <1>5. ASSUME NEW t \in Tx, Commit(t) PROVE CellsInv'
    <2>1. pc'[t] = "committed" /\ \A u \in Tx \ {t} : pc'[u] = pc[u]
      BY <1>1, <1>5, CommitEffect, EndsEffect
    <2>2. \A u \in Tx : pc'[u] \in Active => Clean(u)'
      BY <1>5, <2>1, CleanPassed DEF CellsInv, Active
    <2>. QED
      BY <1>5, <2>2, CommitCells DEF CellsInv
  <1>6. ASSUME NEW t \in Tx, Reject(t) \/ Retry(t) PROVE CellsInv'
    <2>1. PICK outcome \in {"rejected", "idle"} : RollBack(t, outcome)
      BY <1>6 DEF Reject, Retry
    <2>2. /\ UNCHANGED <<db, req, seen>> /\ pc'[t] = outcome
          /\ \A u \in Tx \ {t} : work'[u] = work[u] /\ pc'[u] = pc[u]
      BY <1>1, <2>1 DEF RollBack, Typed
    <2>3. \A u \in Tx : pc'[u] \in Active => Clean(u)'
      BY <2>2, CleanAlone DEF CellsInv, Active
    <2>. QED
      BY <2>2, <2>3, CellsStay DEF CellsInv
  <1>. QED
    BY <1>2, <1>3, <1>4, <1>5, <1>6, BeginCells DEF Next, Finished, Reading, Acquire, vars

\* At the start all relations are by Original: none of them shares its cell.
LEMMA CellsFirst ==
  ASSUME Init
  PROVE  CellsInv
  <1>1. TransactionInv
    BY TransactionFirst
  <1>2. \A t \in Tx : pc[t] = "idle"
    BY DEF Init
  <1>3. \A x \in Present(db, TraceRel) : x \in TraceRel /\ x.by = Original
    BY <1>1, <1>2 DEF TransactionInv, Present, TraceRel
  <1>4. Current(db) \subseteq Present(db, TraceRel)
    BY DEF Current
  <1>5. \A x, y \in TraceRel :
          x.by = y.by /\ <<x.ent, x.st, x.asset>> = <<y.ent, y.st, y.asset>> => x = y
    BY DEF TraceRel
  <1>6. OneCurrentUnlessOverlap
    BY <1>3, <1>4, <1>5 DEF OneCurrentUnlessOverlap
  <1>7. VersionsFollowCommits
    BY <1>3, NamesAssumption DEF VersionsFollowCommits
  <1>. QED
    BY <1>2, <1>6, <1>7 DEF CellsInv, DeletedStateInvalidates, Active

\* What the commits leave of each other's relations, with what they have made of
\* their cells so far.
THEOREM CellsSafe == Spec => []CellsInv
  <1>1. Init => CellsInv
    BY CellsFirst
  <1>2. TransactionInv /\ CellsInv /\ [Next]_vars => CellsInv'
    BY CellsNext
  <1>. QED
    BY <1>1, <1>2, TransactionsSafe, PTL DEF Spec

\* Two CURRENT relations in one cell come from commits that overlapped, for any
\* number of commits: supersession misses nothing that was there at its start.
THEOREM CurrentUnlessOverlap == Spec => []OneCurrentUnlessOverlap
  BY CellsSafe, PTL DEF CellsInv

\* The versions of a pair grow in the order commits follow each other, whatever
\* other commits supersede and create in between.
THEOREM VersionsGrow == Spec => []VersionsFollowCommits
  BY CellsSafe, PTL DEF CellsInv

\* No relation in the context of a deleted State is CURRENT, unless its commit
\* landed after the deleting one began.
THEOREM DeletionInvalidates == Spec => []DeletedStateInvalidates
  BY CellsSafe, PTL DEF CellsInv

-----------------------------------------------------------------------------
\* What a commit derives from the relations, while no other lands as it recomputes:
\* each statement of the recomputation finds what the ones before it left, and the
\* operations before it left Connections alone and made no Requirement.

Undisturbed(t) == Landed = basis[t]

Recomputing(t, n) == CurrentOp(t).kind = "recompute" /\ work[t].stmt >= n
Plain(t) == pc[t] \in {"read", "write"} => \A i \in DOMAIN work[t].mine :
  /\ i \in Connection => Recomputing(t, 3)
  /\ i \in Requirement /\ work[t].mine[i] # Absent => Recomputing(t, 4)

\* No Requirement is Orphan that was not.
OrphansKept(was, d) ==
  \A q \in Present(d, Requirement) : d[q].orphan => was[q] # Absent /\ was[q].orphan

Derived(t) ==
  /\ pc[t] \in {"read", "write"} =>
       /\ Recomputing(t, 2) => FlagsDerived(View(t))
       /\ Recomputing(t, 3) => ConnectionsDerived(db, View(t))
       /\ Recomputing(t, 4) => RequirementsDerived(db, View(t)) /\ OrphansKept(db, View(t))
  /\ pc[t] = "finish" /\ MovesTraces(t) =>
       /\ FlagsDerived(View(t)) /\ ConnectionsDerived(db, View(t))
       /\ RequirementsDerived(db, View(t)) /\ OrphansDerived(db, View(t))

\* What the statement is about to write is what it derives from what is there.
Derives(s, p, v) ==
  /\ s = "inherit" => p = [e \in Present(v, Entity) |-> Inherited(v, e)]
  /\ s = "connect" => p = [c \in {d \in Connection : TracedEnds(v, d) # {}} |->
                             UNION {v[e] : e \in TracedEnds(v, c)}]
  /\ s = "require" =>
       /\ \A r \in Required(v) \ Stated(v) : \E q \in DOMAIN p : <<p[q].ent, p[q].asset>> = r
       /\ \A q \in DOMAIN p : <<p[q].ent, p[q].asset>> \in Required(v) /\ p[q].orphan = FALSE
  /\ s = "orphan" => p = [q \in Untraced(v) |-> [v[q] EXCEPT !.orphan = TRUE]]

DerivationInv ==
  \A t \in Tx :
    /\ Plain(t)
    /\ pc[t] \in Active /\ Undisturbed(t) =>
         Derived(t) /\ (pc[t] = "write" => Derives(Statement(t), work[t].puts, View(t)))

\* Flags are derived from entities, Assets and relations only.
LEMMA SameRelations ==
  ASSUME NEW v, NEW w, \A x \in TraceRel : w[x] = v[x]
  PROVE  /\ Current(w) = Current(v) /\ \A e, a : Traced(w, e, a) = Traced(v, e, a)
         /\ \A c : TracedEnds(w, c) = TracedEnds(v, c)
         /\ (\A a \in Asset : w[a] = v[a]) =>
              Required(w) = Required(v) /\ \A e : Inherited(w, e) = Inherited(v, e)
  <1>1. Current(w) = Current(v)
    BY DEF Current, Present
  <1>2. \A x \in Current(v) : x.asset \in Asset
    BY DEF Current, Present, TraceRel
  <1>3. (\A e, a : Traced(w, e, a) = Traced(v, e, a)) /\ \A c : TracedEnds(w, c) = TracedEnds(v, c)
    BY <1>1 DEF Traced, TracedEnds
  <1>4. ASSUME \A a \in Asset : w[a] = v[a]
        PROVE  Required(w) = Required(v)
    BY <1>3, <1>4 DEF Required
  <1>5. ASSUME \A a \in Asset : w[a] = v[a], NEW e
        PROVE  Inherited(w, e) = Inherited(v, e)
    BY <1>1, <1>2, <1>5 DEF Inherited
  <1>. QED
    BY <1>1, <1>3, <1>4, <1>5

LEMMA InheritRight ==
  ASSUME NEW v \in Database, NEW w, NEW p, Derives("inherit", p, v),
         \A i \in Item : w[i] = IF i \in DOMAIN p THEN p[i] ELSE v[i]
  PROVE  FlagsDerived(w)
  <1>1. DOMAIN p = Present(v, Entity) /\ \A e \in Present(v, Entity) : p[e] = Inherited(v, e)
    BY DEF Derives
  <1>2. /\ Entity \subseteq Item /\ Asset \subseteq Item /\ TraceRel \subseteq Item
        /\ DOMAIN p \subseteq Entity
    BY <1>1 DEF Item, Node, Flagged, Present
  <1>3. (\A x \in TraceRel : w[x] = v[x]) /\ \A a \in Asset : w[a] = v[a]
    BY <1>2, Kinds DEF Node, Flagged
  <1>4. \A e : Inherited(w, e) = Inherited(v, e)
    BY <1>3, SameRelations
  <1>5. ASSUME NEW e \in Present(w, Entity) PROVE w[e] = Inherited(w, e)
    <2>1. e \in Entity /\ w[e] # Absent
      BY <1>5 DEF Present
    <2>2. e \in DOMAIN p
      BY <1>1, <1>2, <2>1 DEF Present
    <2>. QED
      BY <1>1, <1>2, <1>4, <2>1, <2>2
  <1>. QED
    BY <1>5 DEF FlagsDerived

LEMMA ConnectRight ==
  ASSUME NEW v \in Database, Joins(v), NEW was, NEW w, NEW p, Derives("connect", p, v),
         FlagsDerived(v), \A c \in Connection : v[c] = was[c],
         \A i \in Item : w[i] = IF i \in DOMAIN p THEN p[i] ELSE v[i]
  PROVE  FlagsDerived(w) /\ ConnectionsDerived(was, w)
  <1>. DEFINE cs == {d \in Connection : TracedEnds(v, d) # {}}
  <1>1. DOMAIN p = cs /\ \A c \in cs : p[c] = UNION {v[e] : e \in TracedEnds(v, c)}
    BY DEF Derives
  <1>2. /\ Entity \subseteq Item /\ Asset \subseteq Item /\ TraceRel \subseteq Item
        /\ Connection \subseteq Item /\ DOMAIN p \subseteq Connection
    BY <1>1 DEF Item, Node, Flagged
  <1>3. /\ \A x \in TraceRel : w[x] = v[x]
        /\ \A a \in Asset : w[a] = v[a]
        /\ \A e \in Entity : w[e] = v[e]
    BY <1>2, Kinds DEF Node, Flagged
  <1>4. FlagsDerived(w)
    <2>1. Present(w, Entity) = Present(v, Entity)
      BY <1>3 DEF Present
    <2>2. \A e : Inherited(w, e) = Inherited(v, e)
      BY <1>3, SameRelations
    <2>. QED
      BY <1>3, <2>1, <2>2 DEF FlagsDerived, Present
  <1>5. \A c : TracedEnds(w, c) = TracedEnds(v, c) /\ TracedEnds(v, c) \subseteq Entity
    BY <1>3, SameRelations, InheritedFlags
  <1>6. ASSUME NEW c \in Connection, TracedEnds(w, c) # {}
        PROVE  w[c] = UNION {w[e] : e \in TracedEnds(w, c)}
    <2>1. c \in cs /\ w[c] = p[c]
      BY <1>1, <1>2, <1>5, <1>6
    <2>2. {w[e] : e \in TracedEnds(w, c)} = {v[e] : e \in TracedEnds(v, c)}
      BY <1>3, <1>5
    <2>. QED
      BY <1>1, <2>1, <2>2
  <1>7. ASSUME NEW c \in Connection, TracedEnds(w, c) = {}
        PROVE  w[c] = was[c]
    BY <1>1, <1>2, <1>5, <1>7
  <1>. HIDE DEF cs
  <1>. QED
    BY <1>4, <1>6, <1>7 DEF ConnectionsDerived

\* Requirements are derived from, and nothing is derived from them.
LEMMA RequirementsApart ==
  ASSUME NEW v \in Database, NEW was, NEW w, FlagsDerived(v), ConnectionsDerived(was, v), Joins(v),
         \A i \in Item \ Requirement : w[i] = v[i]
  PROVE  /\ FlagsDerived(w) /\ ConnectionsDerived(was, w) /\ Required(w) = Required(v)
         /\ \A e, a : Traced(w, e, a) = Traced(v, e, a)
         /\ \A e \in Entity : w[e] = v[e]
  <1>1. /\ \A x \in TraceRel : w[x] = v[x]
        /\ \A a \in Asset : w[a] = v[a]
        /\ \A e \in Entity : w[e] = v[e]
        /\ \A c \in Connection : w[c] = v[c]
    BY Kinds DEF Item, Node, Flagged
  <1>2. /\ Required(w) = Required(v) /\ \A e : Inherited(w, e) = Inherited(v, e)
        /\ \A c : TracedEnds(w, c) = TracedEnds(v, c)
        /\ \A e, a : Traced(w, e, a) = Traced(v, e, a)
    BY <1>1, SameRelations
  <1>3. FlagsDerived(w)
    BY <1>1, <1>2 DEF FlagsDerived, Present
  <1>4. ASSUME NEW c \in Connection
        PROVE  w[c] = IF TracedEnds(w, c) = {} THEN was[c] ELSE UNION {w[e] : e \in TracedEnds(w, c)}
    <2>1. TracedEnds(v, c) \subseteq Entity
      BY InheritedFlags
    <2>2. {w[e] : e \in TracedEnds(w, c)} = {v[e] : e \in TracedEnds(v, c)}
      BY <1>1, <1>2, <2>1
    <2>. QED
      BY <1>1, <1>2, <2>2 DEF ConnectionsDerived
  <1>. QED
    BY <1>1, <1>2, <1>3, <1>4 DEF ConnectionsDerived

LEMMA RequireRight ==
  ASSUME NEW v \in Database, NEW was, NEW w, NEW p \in Pieces, Derives("require", p, v),
         FlagsDerived(v), ConnectionsDerived(was, v), Joins(v), DOMAIN p \subseteq Requirement,
         \A q \in Requirement : v[q] # Absent => v[q] = was[q],
         \A q \in DOMAIN p : v[q] = Absent /\ p[q] \in Holds(q),
         \A i \in Item : w[i] = IF i \in DOMAIN p THEN p[i] ELSE v[i]
  PROVE  /\ FlagsDerived(w) /\ ConnectionsDerived(was, w)
         /\ RequirementsDerived(was, w) /\ OrphansKept(was, w)
  <1>1. FlagsDerived(w) /\ ConnectionsDerived(was, w) /\ Required(w) = Required(v)
    <2>1. \A i \in Item \ Requirement : w[i] = v[i]
      OBVIOUS
    <2>. QED
      BY <2>1, RequirementsApart
  <1>2. ASSUME NEW r \in Required(v) PROVE r \in Stated(w)
    <2>1. CASE r \in Stated(v)
      <3>1. PICK q \in Present(v, Requirement) : <<v[q].ent, v[q].asset>> = r
        BY <2>1 DEF Stated
      <3>2. q \in Requirement /\ v[q] # Absent /\ q \in Item /\ w[q] = v[q]
        BY <3>1 DEF Present, Item
      <3>. QED
        BY <3>1, <3>2 DEF Stated, Present
    <2>2. CASE r \notin Stated(v)
      <3>1. PICK q \in DOMAIN p : <<p[q].ent, p[q].asset>> = r
        BY <2>2 DEF Derives
      <3>2. q \in Requirement /\ q \in Item /\ w[q] = p[q] /\ p[q] # Absent
        BY <3>1, NamesAssumption DEF Item
      <3>. QED
        BY <3>1, <3>2 DEF Stated, Present
    <2>. QED
      BY <2>1, <2>2
  <1>3. ASSUME NEW q \in Present(w, Requirement)
        PROVE  \/ was[q] # Absent /\ w[q] = was[q]
               \/ <<w[q].ent, w[q].asset>> \in Required(v) /\ w[q].orphan = FALSE
    <2>1. q \in Requirement /\ q \in Item /\ w[q] # Absent
      BY <1>3 DEF Present, Item
    <2>2. CASE q \in DOMAIN p
      BY <2>1, <2>2 DEF Derives
    <2>3. CASE q \notin DOMAIN p
      BY <2>1, <2>3
    <2>. QED
      BY <2>2, <2>3
  <1>4. Stated(w) \subseteq Stated(was) \cup Required(w)
    BY <1>1, <1>3 DEF Stated, Present
  <1>5. OrphansKept(was, w)
    BY <1>3 DEF OrphansKept
  <1>. QED
    BY <1>1, <1>2, <1>4, <1>5 DEF RequirementsDerived

LEMMA OrphanRight ==
  ASSUME NEW v \in Database, NEW was, NEW w \in Database, NEW p, Derives("orphan", p, v),
         FlagsDerived(v), ConnectionsDerived(was, v), RequirementsDerived(was, v),
         OrphansKept(was, v), Joins(v),
         \A i \in Item : w[i] = IF i \in DOMAIN p THEN p[i] ELSE v[i]
  PROVE  /\ FlagsDerived(w) /\ ConnectionsDerived(was, w)
         /\ RequirementsDerived(was, w) /\ OrphansDerived(was, w)
  <1>1. DOMAIN p = Untraced(v) /\ \A q \in Untraced(v) : p[q] = [v[q] EXCEPT !.orphan = TRUE]
    BY DEF Derives
  <1>2. Untraced(v) \subseteq Requirement /\ \A q \in Untraced(v) : v[q] \in Stating
    BY InDatabase DEF Untraced, Present
  <1>3. /\ FlagsDerived(w) /\ ConnectionsDerived(was, w) /\ Required(w) = Required(v)
        /\ \A e, a : Traced(w, e, a) = Traced(v, e, a)
        /\ \A e \in Entity : w[e] = v[e]
    <2>1. \A i \in Item \ Requirement : w[i] = v[i]
      BY <1>1, <1>2
    <2>. QED
      BY <2>1, RequirementsApart
  <1>4. \A q \in Untraced(v) : /\ w[q].ent = v[q].ent /\ w[q].asset = v[q].asset /\ w[q].orphan
                               /\ w[q] # Absent
    <2>1. \A s \in Stating : /\ [s EXCEPT !.orphan = TRUE].ent = s.ent
                             /\ [s EXCEPT !.orphan = TRUE].asset = s.asset
                             /\ [s EXCEPT !.orphan = TRUE].orphan = TRUE
                             /\ [s EXCEPT !.orphan = TRUE] \in Stating
      BY DEF Stating
    <2>2. \A q \in Untraced(v) : w[q] = [v[q] EXCEPT !.orphan = TRUE] /\ Holds(q) = Stating
      BY <1>1, <1>2, HoldsIs DEF Item
    <2>3. \A q \in Untraced(v) : Absent \notin Holds(q)
      BY <1>2, NamesAssumption
    <2>4. TAKE q \in Untraced(v)
    <2>5. v[q] \in Stating /\ w[q] = [v[q] EXCEPT !.orphan = TRUE] /\ Absent \notin Stating
      BY <1>2, <2>2, <2>3
    <2>6. PICK s \in Stating : s = v[q]
      BY <2>5
    <2>7. w[q] = [s EXCEPT !.orphan = TRUE]
      BY <2>5, <2>6
    <2>8. w[q].ent = s.ent /\ w[q].asset = s.asset /\ w[q].orphan = TRUE /\ w[q] \in Stating
      BY <2>1, <2>7, Zenon
    <2>. QED
      BY <2>5, <2>6, <2>8
  <1>5. ASSUME NEW q \in Requirement
        PROVE  /\ w[q] # Absent <=> v[q] # Absent
               /\ v[q] # Absent => w[q].ent = v[q].ent /\ w[q].asset = v[q].asset
    <2>1. CASE q \in Untraced(v)
      BY <1>4, <2>1 DEF Untraced, Present
    <2>2. CASE q \notin Untraced(v)
      BY <1>1, <2>2 DEF Item
    <2>. QED
      BY <2>1, <2>2
  <1>6. Stated(w) = Stated(v)
    BY <1>5 DEF Stated, Present
  <1>7. ASSUME NEW q \in Untraced(w) PROVE w[q].orphan
    <2>1. /\ q \in Requirement /\ w[q] # Absent /\ w[w[q].ent] # Absent
          /\ ~Traced(w, w[q].ent, w[q].asset)
      BY <1>7 DEF Untraced, Present
    <2>2. v[q] # Absent /\ v[q].ent = w[q].ent /\ v[q].asset = w[q].asset
      BY <1>5, <2>1
    <2>3. v[q].ent \in Entity
      BY <2>1, <2>2, InDatabase DEF Present, Stating
    <2>4. q \in Untraced(v)
      BY <1>3, <2>1, <2>2, <2>3 DEF Untraced, Present
    <2>. QED
      BY <1>4, <2>4
  <1>8. ASSUME NEW q \in Present(w, Requirement), w[q].orphan, q \notin Untraced(w)
        PROVE  was[q] # Absent /\ was[q].orphan
    <2>1. q \in Requirement /\ w[q] # Absent /\ v[q] # Absent
          /\ v[q].ent = w[q].ent /\ v[q].asset = w[q].asset
      BY <1>5, <1>8 DEF Present
    <2>2. v[q].ent \in Entity
      BY <2>1, InDatabase DEF Present, Stating
    <2>3. q \notin Untraced(v)
      BY <1>3, <1>8, <2>1, <2>2 DEF Untraced, Present
    <2>4. w[q] = v[q]
      BY <1>1, <2>1, <2>3 DEF Item
    <2>. QED
      BY <1>8, <2>1, <2>4 DEF OrphansKept, Present
  <1>. QED
    BY <1>3, <1>6, <1>7, <1>8 DEF RequirementsDerived, OrphansDerived

LEMMA DerivedAlone ==
  ASSUME NEW t \in Tx, work'[t] = work[t], pc'[t] = pc[t], req'[t] = req[t], db' = db,
         Derived(t), pc[t] = "write" => Derives(Statement(t), work[t].puts, View(t))
  PROVE  Derived(t)' /\ (pc'[t] = "write" => Derives(Statement(t)', work'[t].puts, View(t)'))
  <1>1. View(t)' = View(t) /\ CurrentOp(t)' = CurrentOp(t) /\ Statement(t)' = Statement(t)
        /\ MovesTraces(t)' = MovesTraces(t)
    BY DEF View, CurrentOp, Statement, MovesTraces
  <1>. QED
    BY <1>1 DEF Derived, Recomputing

LEMMA ReadingDerives ==
  ASSUME TransactionInv, NEW t \in Tx, Reading(t), Derived(t)
  PROVE  Derived(t)' /\ Derives(Statement(t)', work'[t].puts, View(t)')
  <1>1. Typed /\ work[t].ver \in Nat
    BY DEF TransactionInv, Typed, Work
  <1>2. ASSUME NEW p \in Pieces, NEW n \in SUBSET Item, NEW k \in Nat, Reads(t, p, n, k),
               Derives(Statement(t), p, View(t))
        PROVE  Derived(t)' /\ Derives(Statement(t)', work'[t].puts, View(t)')
    <2>1. /\ work'[t].op = work[t].op /\ work'[t].stmt = work[t].stmt
          /\ work'[t].puts = p /\ pc'[t] = "write" /\ View(t)' = View(t)
      BY <1>1, <1>2, ReadsEffect
    <2>2. req' = req /\ db' = db /\ pc[t] = "read"
      BY <1>2 DEF Reads
    <2>3. CurrentOp(t)' = CurrentOp(t) /\ Statement(t)' = Statement(t)
      BY <2>1, <2>2 DEF CurrentOp, Statement
    <2>. QED
      BY <1>2, <2>1, <2>2, <2>3 DEF Derived, Recomputing
  <1>3. CASE Supersede(t) \/ Create(t) \/ SetFlags(t) \/ Invalidate(t) \/ Delete(t)
    <2>1. PICK p \in Pieces, n \in SUBSET Item, k \in Nat : Reads(t, p, n, k)
      BY ReadingIs
    <2>2. Statement(t) \notin {"inherit", "connect", "require", "orphan"}
      BY <1>3 DEF Supersede, Create, SetFlags, Invalidate, Delete, At
    <2>3. Derives(Statement(t), p, View(t))
      BY <2>2 DEF Derives
    <2>. QED
      BY <1>2, <2>1, <2>3
  <1>4. CASE Inherit(t)
    <2>. DEFINE n == Present(View(t), Entity)
                p == [e \in n |-> Inherited(View(t), e)]
    <2>1. p \in Pieces /\ n \in SUBSET Item /\ Reads(t, p, n, work[t].ver)
      BY <1>4, InheritReads
    <2>2. Derives(Statement(t), p, View(t))
      BY <1>4 DEF Derives, Inherit, At
    <2>. HIDE DEF n, p
    <2>. QED
      BY <1>1, <1>2, <2>1, <2>2
  <1>5. CASE Connect(t)
    <2>. DEFINE n == {c \in Connection : TracedEnds(View(t), c) # {}}
                p == [c \in n |-> UNION {View(t)[e] : e \in TracedEnds(View(t), c)}]
    <2>1. p \in Pieces /\ n \in SUBSET Item /\ Reads(t, p, n, work[t].ver)
      BY <1>5, ConnectReads
    <2>2. Derives(Statement(t), p, View(t))
      BY <1>5 DEF Derives, Connect, At
    <2>. HIDE DEF n, p
    <2>. QED
      BY <1>1, <1>2, <2>1, <2>2
  <1>6. CASE Require(t)
    <2>1. PICK p \in Pieces, n \in SUBSET Item :
            /\ Reads(t, p, n, work[t].ver)
            /\ \A r \in Required(View(t)) \ Stated(View(t)) :
                 \E q \in DOMAIN p : <<p[q].ent, p[q].asset>> = r
            /\ \A q \in DOMAIN p : <<p[q].ent, p[q].asset>> \in Required(View(t))
                                   /\ p[q].orphan = FALSE
      BY <1>6, RequireReads
    <2>2. Derives(Statement(t), p, View(t))
      BY <1>6, <2>1 DEF Derives, Require, At
    <2>. QED
      BY <1>1, <1>2, <2>1, <2>2
  <1>7. CASE Orphan(t)
    <2>. DEFINE n == Untraced(View(t))
                p == [q \in n |-> [View(t)[q] EXCEPT !.orphan = TRUE]]
    <2>1. p \in Pieces /\ n \in SUBSET Item /\ Reads(t, p, n, work[t].ver)
      BY <1>7, OrphanReads
    <2>2. Derives(Statement(t), p, View(t))
      BY <1>7 DEF Derives, Orphan, At
    <2>. HIDE DEF n, p
    <2>. QED
      BY <1>1, <1>2, <2>1, <2>2
  <1>. QED
    BY <1>3, <1>4, <1>5, <1>6, <1>7 DEF Reading

LEMMA WriteDerives ==
  ASSUME TransactionInv, NEW t \in Tx, Write(t), Plain(t), Derived(t),
         Derives(Statement(t), work[t].puts, View(t))
  PROVE  Derived(t)'
  <1>. DEFINE v == View(t)  w == View(t)'  p == work[t].puts  o == CurrentOp(t)
  <1>1. /\ Typed /\ InPlace(t) /\ pc[t] = "write" /\ v \in Database /\ Joins(v)
        /\ p \in Pieces /\ work[t] \in Work
    BY ViewIs DEF TransactionInv, Write, Typed, Work
  <1>2. /\ pc'[t] \in {"read", "finish"}
        /\ work'[t].op = IF LastStatement(t) THEN work[t].op + 1 ELSE work[t].op
        /\ work'[t].stmt = IF LastStatement(t) THEN 1 ELSE work[t].stmt + 1
        /\ pc'[t] = "finish" <=> LastStatement(t) /\ LastOp(t)
        /\ req' = req /\ db' = db /\ w \in Database
        /\ \A i \in Item : w[i] = IF i \in DOMAIN Puts(t) THEN Puts(t)[i] ELSE v[i]
    BY WriteEffect
  <1>3. /\ o.kind = "recompute" => Statement(t) =
             (IF work[t].stmt = 1 THEN "inherit" ELSE IF work[t].stmt = 2 THEN "connect"
              ELSE IF work[t].stmt = 3 THEN "require" ELSE "orphan")
        /\ o.kind = "recompute" => work[t].stmt \in 1..4 /\ (LastStatement(t) <=> work[t].stmt = 4)
    BY <1>1, OpInPlace, StatementInPlace, StatementIs
  <1>4. /\ o.kind = "recompute" /\ work[t].stmt >= 2 => FlagsDerived(v)
        /\ o.kind = "recompute" /\ work[t].stmt >= 3 => ConnectionsDerived(db, v)
        /\ o.kind = "recompute" /\ work[t].stmt >= 4 =>
             RequirementsDerived(db, v) /\ OrphansKept(db, v)
    BY <1>1 DEF Derived, Recomputing
  <1>5. Statement(t) \in {"inherit", "connect", "require", "orphan"} =>
          /\ Puts(t) = p
          /\ \A i \in Item : w[i] = IF i \in DOMAIN p THEN p[i] ELSE v[i]
    BY <1>2 DEF Puts, Deleting, Unmatched, Matched, Present
  <1>14. \A i \in Item : v[i] = IF i \in DOMAIN work[t].mine THEN work[t].mine[i] ELSE db[i]
    BY <1>1, ViewIs
  <1>15. work[t].stmt \in Nat /\ (o.kind = "recompute" /\ work[t].stmt = 2 =>
           \A c \in Connection : v[c] = db[c])
    BY <1>1, <1>14 DEF Plain, Recomputing, Work, Item, Node, Flagged
  <1>16. o.kind = "recompute" /\ work[t].stmt = 3 =>
           \A q \in Requirement : v[q] # Absent => v[q] = db[q]
    BY <1>1, <1>14, <1>15 DEF Plain, Recomputing, Item
  <1>. HIDE DEF v, w, p, o
  <1>6. o.kind = "recompute" /\ work[t].stmt = 1 => FlagsDerived(w)
    BY <1>1, <1>3, <1>5, InheritRight DEF v, p
  <1>7. o.kind = "recompute" /\ work[t].stmt = 2 => FlagsDerived(w) /\ ConnectionsDerived(db, w)
    BY <1>1, <1>3, <1>4, <1>5, <1>15, ConnectRight DEF v, p
  <1>8. ASSUME o.kind = "recompute", work[t].stmt = 3
        PROVE  /\ FlagsDerived(w) /\ ConnectionsDerived(db, w)
               /\ RequirementsDerived(db, w) /\ OrphansKept(db, w)
    <2>1. Statement(t) = "require" /\ ~Unmatched(t)
      BY <1>3, <1>8 DEF Unmatched, Matched, Present
    <2>2. Shape(t, p, work[t].needs) /\ \A i \in New(t) : v[i] = Absent
      BY <2>1, StatementWrites DEF v, p
    <2>3. DOMAIN p \subseteq Requirement /\ \A q \in DOMAIN p : v[q] = Absent /\ p[q] \in Holds(q)
      BY <2>1, <2>2 DEF Shape, New, p
    <2>4. Derives("require", p, v)
      BY <2>1 DEF p, v
    <2>5. FlagsDerived(v) /\ ConnectionsDerived(db, v)
      BY <1>4, <1>8
    <2>6. \A q \in Requirement : v[q] # Absent => v[q] = db[q]
      BY <1>8, <1>16
    <2>. QED
      BY <1>1, <1>5, <2>1, <2>3, <2>4, <2>5, <2>6, RequireRight
  <1>9. ASSUME o.kind = "recompute", work[t].stmt = 4
        PROVE  /\ FlagsDerived(w) /\ ConnectionsDerived(db, w)
               /\ RequirementsDerived(db, w) /\ OrphansDerived(db, w)
    <2>1. Statement(t) = "orphan"
      BY <1>3, <1>9
    <2>2. Derives("orphan", p, v)
      BY <2>1 DEF p, v
    <2>3. /\ FlagsDerived(v) /\ ConnectionsDerived(db, v)
          /\ RequirementsDerived(db, v) /\ OrphansKept(db, v)
      BY <1>4, <1>9
    <2>. QED
      BY <1>1, <1>2, <1>5, <2>1, <2>2, <2>3, OrphanRight
  <1>10. ASSUME pc'[t] = "finish", MovesTraces(t)' PROVE o.kind = "recompute" /\ work[t].stmt = 4
    <2>1. LastStatement(t) /\ work[t].op = Len(req[t]) /\ Running(req[t])
      BY <1>1, <1>2, <1>10 DEF LastOp, InPlace
    <2>2. PICK i \in 1..Len(req[t]) : Traces(req[t][i])
      BY <1>2, <1>10 DEF MovesTraces, Traces
    <2>3. o = Recompute
      BY <2>1, <2>2 DEF Running, CurrentOp, o
    <2>. QED
      BY <1>3, <2>1, <2>3 DEF Recompute
  <1>11. ASSUME pc'[t] = "read", CurrentOp(t)'.kind = "recompute", work'[t].stmt >= 2
         PROVE  /\ o.kind = "recompute" /\ work'[t].stmt = work[t].stmt + 1
                /\ work[t].stmt \in {1, 2, 3}
    <2>1. ~LastStatement(t) /\ work'[t].op = work[t].op /\ work'[t].stmt = work[t].stmt + 1
      BY <1>2, <1>11
    <2>2. CurrentOp(t)' = o
      BY <1>2, <2>1 DEF CurrentOp, o
    <2>. QED
      BY <1>3, <1>11, <2>1, <2>2
  <1>12. ASSUME pc'[t] = "read", CurrentOp(t)'.kind = "recompute"
         PROVE  /\ work'[t].stmt >= 2 => FlagsDerived(w)
                /\ work'[t].stmt >= 3 => ConnectionsDerived(db, w)
                /\ work'[t].stmt >= 4 => RequirementsDerived(db, w) /\ OrphansKept(db, w)
    <2>1. work'[t].stmt \in Nat
      BY <1>1, <1>2 DEF Work
    <2>. QED
      BY <1>6, <1>7, <1>8, <1>11, <1>12, <2>1
  <1>13. pc'[t] = "finish" /\ MovesTraces(t)' =>
           /\ FlagsDerived(w) /\ ConnectionsDerived(db, w)
           /\ RequirementsDerived(db, w) /\ OrphansDerived(db, w)
    BY <1>9, <1>10
  <1>. QED
    BY <1>2, <1>12, <1>13 DEF Derived, Recomputing, w

\* Only the recomputation writes Connections and makes Requirements.
LEMMA WritePlain ==
  ASSUME TransactionInv, NEW t \in Tx, Write(t), Plain(t)
  PROVE  Plain(t)'
  <1>. DEFINE o == CurrentOp(t)  Q == Puts(t)
  <1>1. /\ Typed /\ InPlace(t) /\ pc[t] = "write" /\ work[t] \in Work
        /\ work[t].stmt \in Nat /\ pc[t] \in Active
    BY DEF TransactionInv, Write, Typed, Work, Active
  <1>2. /\ work'[t].op = IF LastStatement(t) THEN work[t].op + 1 ELSE work[t].op
        /\ work'[t].stmt = IF LastStatement(t) THEN 1 ELSE work[t].stmt + 1
        /\ pc'[t] = "finish" <=> LastStatement(t) /\ LastOp(t)
        /\ req' = req
        /\ work'[t].mine = Over(Q, work[t].mine)
    BY <1>1, WriteEffect DEF Write, Typed
  <1>3. o.kind = "recompute" => LastOp(t)
    <2>1. o \in Ops /\ o = req[t][work[t].op] /\ work[t].op \in 1..Len(req[t]) /\ Running(req[t])
      BY <1>1, OpInPlace DEF InPlace, CurrentOp
    <2>. QED
      BY <2>1, OpsAre DEF Running, LastOp
  <1>4. /\ o \in Ops /\ work[t].stmt \in 1..Len(StatementsOf(o))
        /\ o.kind = "recompute" => work[t].stmt \in 1..4 /\ (LastStatement(t) <=> work[t].stmt = 4)
        /\ Statement(t) = "connect" <=> o.kind = "recompute" /\ work[t].stmt = 2
        /\ Statement(t) = "require" <=> o.kind = "recompute" /\ work[t].stmt = 3
        /\ Statement(t) = "orphan" <=> o.kind = "recompute" /\ work[t].stmt = 4
        /\ Statement(t) \in {"supersede", "create", "set", "invalidate", "delete", "inherit",
                             "connect", "require", "orphan"}
    <2>1. o \in Ops /\ work[t].stmt \in 1..Len(StatementsOf(o))
      BY <1>1, OpInPlace
    <2>. QED
      BY <1>1, <2>1, StatementInPlace, StatementIs, OpsAre
  <1>5. ASSUME NEW i \in DOMAIN Q
        PROVE  /\ i \in Connection => Statement(t) = "connect"
               /\ i \in Requirement /\ Q[i] # Absent => Statement(t) \in {"require", "orphan"}
    <2>1. CASE Unmatched(t)
      <3>1. Q = None
        BY <2>1 DEF Puts
      <3>. QED
        BY <1>5, <3>1, NoPiece
    <2>2. CASE ~Unmatched(t) /\ Statement(t) = "delete"
      <3>1. Q = [k \in {o.node} \cup RelsAt(View(t), o.node) |-> Absent]
        BY <2>2, DeleteWrites
      <3>2. o.node \in Entity \cup Asset \cup State \cup Requirement
        BY <1>1, <1>4, <2>2, StatementInPlace, OpsAre
      <3>3. RelsAt(View(t), o.node) \subseteq TraceRel
        BY DEF RelsAt, Present
      <3>4. Q[i] = Absent /\ (i = o.node \/ i \in TraceRel)
        BY <1>5, <3>1, <3>3
      <3>. QED
        BY <3>2, <3>4, Kinds DEF Node, Flagged
    <2>3. CASE ~Unmatched(t) /\ Statement(t) # "delete"
      <3>1. Q = work[t].puts /\ Shape(t, Q, work[t].needs)
        BY <2>3, StatementWrites
      <3>2. Statement(t) \in {"supersede", "invalidate", "create"} => i \in TraceRel
        <4>1. Statement(t) = "create" => RelOf(t) \in TraceRel
          BY <1>1, <1>4, StatementInPlace, OpsAre DEF RelOf, TraceRel
        <4>. QED
          BY <1>5, <3>1, <4>1 DEF Shape
      <3>3. Statement(t) \in {"set", "inherit"} => i \in Entity \cup Asset
        <4>1. Statement(t) = "set" => o.node \in Entity \cup Asset
          BY <1>1, <1>4, StatementInPlace, OpsAre
        <4>. QED
          BY <1>5, <3>1, <4>1 DEF Shape
      <3>4. /\ Statement(t) = "connect" => i \in Connection
            /\ Statement(t) \in {"require", "orphan"} => i \in Requirement
        BY <1>5, <3>1 DEF Shape
      <3>. HIDE DEF Q
      <3>. QED
        BY <1>4, <2>3, <3>2, <3>3, <3>4, Kinds DEF Node, Flagged
    <2>. QED
      BY <2>1, <2>2, <2>3
  <1>6. DOMAIN work'[t].mine = DOMAIN Q \cup DOMAIN work[t].mine
        /\ \A i \in DOMAIN work'[t].mine :
             work'[t].mine[i] = IF i \in DOMAIN Q THEN Q[i] ELSE work[t].mine[i]
    <2>1. Q \in Pieces /\ work[t].mine \in Pieces
      <3>1. Puts(t) \in Pieces
        BY WriteWrites
      <3>2. work[t].mine \in Pieces
        BY <1>1 DEF Work
      <3>. QED
        BY <3>1, <3>2
    <2>2. /\ DOMAIN Over(Q, work[t].mine) = DOMAIN Q \cup DOMAIN work[t].mine
          /\ \A i \in DOMAIN Q \cup DOMAIN work[t].mine :
               Over(Q, work[t].mine)[i] = IF i \in DOMAIN Q THEN Q[i] ELSE work[t].mine[i]
      BY <2>1, OverIs
    <2>. HIDE DEF Q
    <2>. QED
      BY <1>2, <2>2
  <1>7. ASSUME pc'[t] = "read", o.kind = "recompute"
        PROVE  /\ work[t].stmt \in 1..3 /\ work'[t].stmt = work[t].stmt + 1
               /\ CurrentOp(t)' = o
    <2>1. ~LastStatement(t)
      BY <1>2, <1>3, <1>7
    <2>2. CurrentOp(t)' = o
      BY <1>2, <2>1 DEF CurrentOp
    <2>. QED
      BY <1>2, <1>4, <1>7, <2>1, <2>2
  <1>. HIDE DEF o, Q
  <1>8. ASSUME pc'[t] = "read", NEW i \in DOMAIN work'[t].mine
        PROVE  /\ i \in Connection => o.kind = "recompute" /\ work[t].stmt >= 2
               /\ i \in Requirement /\ work'[t].mine[i] # Absent =>
                    o.kind = "recompute" /\ work[t].stmt >= 3
    <2>1. CASE i \in DOMAIN Q
      BY <1>1, <1>4, <1>5, <1>6, <1>8, <2>1
    <2>2. CASE i \notin DOMAIN Q
      <3>1. i \in DOMAIN work[t].mine /\ work'[t].mine[i] = work[t].mine[i]
        BY <1>6, <1>8, <2>2
      <3>. QED
        BY <1>1, <3>1 DEF Plain, Recomputing, o
    <2>. QED
      BY <2>1, <2>2
  <1>9. pc'[t] # "write"
    BY WriteEffect
  <1>10. ASSUME pc'[t] = "read", NEW i \in DOMAIN work'[t].mine
         PROVE  /\ i \in Connection => Recomputing(t, 3)'
                /\ i \in Requirement /\ work'[t].mine[i] # Absent => Recomputing(t, 4)'
    BY <1>1, <1>7, <1>8, <1>10 DEF Recomputing
  <1>. QED
    BY <1>9, <1>10 DEF Plain

LEMMA DerivationNext ==
  ASSUME TransactionInv, BasisInv, DerivationInv, [Next]_vars
  PROVE  DerivationInv'
  <1>1. Typed
    BY DEF TransactionInv
  <1>. DEFINE Safe(u) ==
                /\ Plain(u)
                /\ pc[u] \in Active /\ Undisturbed(u) =>
                     Derived(u) /\ (pc[u] = "write" => Derives(Statement(u), work[u].puts, View(u)))
  <1>2. \A u \in Tx : Safe(u)
    BY DEF DerivationInv
  <1>3. ASSUME NEW u \in Tx, work'[u] = work[u], pc'[u] = pc[u], UNCHANGED <<db, req>>,
               Undisturbed(u)' => Undisturbed(u)
        PROVE  Safe(u)'
    <2>1. Plain(u)'
      <3>1. CurrentOp(u)' = CurrentOp(u)
        BY <1>3 DEF CurrentOp
      <3>. QED
        BY <1>2, <1>3, <3>1 DEF Plain, Recomputing
    <2>. QED
      BY <1>2, <1>3, <2>1, DerivedAlone
  <1>4. ASSUME UNCHANGED <<db, pc, req, work, basis>> PROVE \A u \in Tx : Safe(u)'
    <2>1. \A u \in Tx : Undisturbed(u)' => Undisturbed(u)
      BY <1>4 DEF Undisturbed, Landed
    <2>. QED
      BY <1>3, <1>4, <2>1
  <1>5. ASSUME NEW t \in Tx, Begin(t) PROVE \A u \in Tx : Safe(u)'
    <2>1. /\ pc[t] = "idle" /\ pc'[t] = "read" /\ \A u \in Tx \ {t} : pc'[u] = pc[u]
          /\ UNCHANGED <<db, lock, req, work, basis>>
      BY <1>1, <1>5 DEF Begin, Typed
    <2>2. Landed' = Landed
      BY <2>1 DEF Landed
    <2>3. work[t].stmt = 1 /\ DOMAIN work[t].mine = {}
      BY <2>1, NoPiece DEF TransactionInv, InPlace, Active, EmptyWork
    <2>4. Safe(t)'
      BY <2>1, <2>3 DEF Derived, Recomputing, Plain
    <2>5. \A u \in Tx \ {t} : Safe(u)'
      BY <1>3, <2>1, <2>2 DEF Undisturbed
    <2>. QED
      BY <2>4, <2>5
  <1>6. ASSUME NEW t \in Tx, Reading(t) PROVE \A u \in Tx : Safe(u)'
    <2>1. PICK p \in Pieces, n \in SUBSET Item, k \in Nat : Reads(t, p, n, k)
      BY <1>6, ReadingIs
    <2>2. /\ UNCHANGED <<db, req, seen>> /\ pc[t] = "read" /\ pc'[t] = "write"
          /\ \A u \in Tx \ {t} : work'[u] = work[u] /\ pc'[u] = pc[u]
          /\ Landed' = Landed
          /\ work'[t].mine = work[t].mine /\ CurrentOp(t)' = CurrentOp(t)
          /\ work'[t].stmt = work[t].stmt
      <3>1. /\ pc'[t] = "write" /\ Landed' = Landed
            /\ work'[t].mine = work[t].mine
            /\ work'[t].stmt = work[t].stmt /\ work'[t].op = work[t].op
            /\ \A u \in Tx \ {t} : work'[u] = work[u] /\ pc'[u] = pc[u]
        BY <1>1, <2>1, ReadsEffect
      <3>. QED
        BY <2>1, <3>1 DEF Reads, CurrentOp
    <2>5. \/ basis' = basis
          \/ basis' = [basis EXCEPT ![t] = Landed] /\ Statement(t) = "inherit"
      BY <1>6 DEF Reading, Supersede, Create, SetFlags, Invalidate, Delete, Inherit, Connect,
                  Require, Orphan, At, Stage, Prepare
    <2>6. Statement(t) = "inherit" => work[t].stmt = 1
      BY <1>1, <2>2, StatementInPlace DEF TransactionInv
    <2>7. Plain(t)'
      BY <1>2, <2>2 DEF Plain, Recomputing
    <2>3. Safe(t)'
      <3>1. SUFFICES ASSUME Undisturbed(t)'
                     PROVE  Derived(t)' /\ Derives(Statement(t)', work'[t].puts, View(t)')
        BY <2>7
      <3>2. Derived(t)
        BY <1>2, <2>2, <2>5, <2>6, <3>1 DEF Undisturbed, Active, Derived, Recomputing
      <3>. QED
        BY <1>6, <3>2, ReadingDerives
    <2>4. \A u \in Tx \ {t} : Safe(u)'
      <3>1. \A u \in Tx \ {t} : basis'[u] = basis[u]
        BY <2>5 DEF BasisInv
      <3>. QED
        BY <1>3, <2>2, <3>1 DEF Undisturbed
    <2>. QED
      BY <2>3, <2>4
  <1>7. ASSUME NEW t \in Tx, Write(t) PROVE \A u \in Tx : Safe(u)'
    <2>2. /\ UNCHANGED <<db, req, basis>> /\ pc[t] = "write" /\ pc'[t] \in {"read", "finish"}
          /\ \A u \in Tx \ {t} : work'[u] = work[u] /\ pc'[u] = pc[u]
          /\ Landed' = Landed
      BY <1>7, WriteEffect DEF Write
    <2>3. Safe(t)'
      <3>1. SUFFICES ASSUME Undisturbed(t)' PROVE Derived(t)'
        BY <1>2, <1>7, <2>2, WritePlain
      <3>2. Derived(t) /\ Derives(Statement(t), work[t].puts, View(t))
        BY <1>2, <2>2, <3>1 DEF Undisturbed, Active
      <3>. QED
        BY <1>2, <1>7, <3>2, WriteDerives
    <2>4. \A u \in Tx \ {t} : Safe(u)'
      BY <1>3, <2>2 DEF Undisturbed
    <2>. QED
      BY <2>3, <2>4
  <1>8. ASSUME NEW t \in Tx, Commit(t) PROVE \A u \in Tx : Safe(u)'
    <2>1. /\ pc[t] = "finish" /\ pc'[t] = "committed" /\ \A u \in Tx \ {t} : pc'[u] = pc[u]
          /\ \A u \in Tx \ {t} : work'[u] = work[u] /\ basis'[u] = basis[u]
          /\ UNCHANGED req
      BY <1>1, <1>8, CommitEffect, EndsEffect DEF Commit, BasisInv
    <2>2. Safe(t)'
      BY <2>1 DEF Plain, Active
    <2>3. ASSUME NEW u \in Tx \ {t} PROVE Safe(u)'
      <3>1. t \in Landed' /\ t \notin basis'[u]
        BY <2>1 DEF Landed, BasisInv
      <3>2. CurrentOp(u)' = CurrentOp(u)
        BY <2>1 DEF CurrentOp
      <3>. QED
        BY <1>2, <2>1, <3>1, <3>2 DEF Undisturbed, Plain, Recomputing
    <2>. QED
      BY <2>2, <2>3
  <1>9. ASSUME NEW t \in Tx, Reject(t) \/ Retry(t) PROVE \A u \in Tx : Safe(u)'
    <2>1. PICK outcome \in {"rejected", "idle"} : RollBack(t, outcome)
      BY <1>9 DEF Reject, Retry
    <2>2. /\ UNCHANGED <<db, req>> /\ pc'[t] = outcome /\ pc[t] \in Active
          /\ \A u \in Tx \ {t} : work'[u] = work[u] /\ pc'[u] = pc[u] /\ basis'[u] = basis[u]
      BY <1>1, <2>1 DEF RollBack, Typed, Active, BasisInv
    <2>3. Landed' = Landed
      BY <2>2 DEF Landed, Active
    <2>4. \A u \in Tx \ {t} : Safe(u)'
      BY <1>3, <2>2, <2>3 DEF Undisturbed
    <2>5. Safe(t)'
      BY <2>2 DEF Active, Plain
    <2>. QED
      BY <2>4, <2>5
  <1>. HIDE DEF Safe
  <1>10. \A u \in Tx : Safe(u)'
    BY <1>4, <1>5, <1>6, <1>7, <1>8, <1>9 DEF Next, Finished, Reading, Acquire, vars
  <1>. QED
    BY <1>10 DEF DerivationInv, Safe

\* What a commit has derived so far is what the relations call for, while no other
\* has landed since it began to recompute.
THEOREM DerivationSafe == Spec => []DerivationInv
  <1>1. Init => DerivationInv
    BY DEF Init, DerivationInv, Plain, Active
  <1>2. TransactionInv /\ BasisInv /\ DerivationInv /\ [Next]_vars => DerivationInv'
    BY DerivationNext
  <1>. QED
    BY <1>1, <1>2, TransactionsSafe, BasisSafe, PTL DEF Spec

\* A commit that moved a trace, and beside which no other landed while it recomputed,
\* leaves exactly the flags, Connections, Requirements and Orphan flags its relations
\* call for, for any requests: a Connection no Interface of which is traced keeps what
\* it had, and no Requirement of a traced pair becomes Orphan.
THEOREM UndisturbedDerives == Spec => UndisturbedIsDerived
  <1>1. ASSUME TransactionInv, DerivationInv, [Next]_vars, NEW t \in Tx, Commits(t),
               MovesTraces(t), Landed = basis[t]
        PROVE  /\ FlagsDerived(db') /\ ConnectionsDerived(db, db')
               /\ RequirementsDerived(db, db') /\ OrphansDerived(db, db')
    <2>1. Commit(t)
      <3>1. Typed
        BY <1>1 DEF TransactionInv
      <3>2. pc[t] # pc'[t] /\ pc'[t] = "committed"
        BY <1>1 DEF Commits
      <3>3. ASSUME NEW u \in Tx, Reading(u) PROVE pc'[t] \in {pc[t], "write"}
        <4>1. PICK p \in Pieces, n \in SUBSET Item, k \in Nat : Reads(u, p, n, k)
          BY <1>1, <3>3, ReadingIs
        <4>. QED
          BY <3>1, <4>1 DEF Reads, Typed
      <3>4. ASSUME NEW u \in Tx, Begin(u) PROVE pc'[t] \in {pc[t], "read"}
        BY <3>1, <3>4 DEF Begin, Typed
      <3>5. ASSUME NEW u \in Tx, Write(u) PROVE pc'[t] \in {pc[t], "read", "finish"}
        BY <3>1, <3>5 DEF Write, Typed
      <3>6. ASSUME NEW u \in Tx, Reject(u) \/ Retry(u) PROVE pc'[t] \in {pc[t], "rejected", "idle"}
        BY <3>1, <3>6 DEF Reject, Retry, RollBack, Typed
      <3>7. ASSUME NEW u \in Tx, Commit(u), u # t PROVE pc'[t] = pc[t]
        BY <3>1, <3>7 DEF Commit, Typed
      <3>. QED
        BY <1>1, <3>2, <3>3, <3>4, <3>5, <3>6, <3>7 DEF Next, Finished, Reading, Acquire, vars
    <2>2. db' = View(t) /\ pc[t] = "finish"
      BY <2>1 DEF Commit
    <2>3. Derived(t)
      BY <1>1, <2>2 DEF DerivationInv, Undisturbed, Active
    <2>. QED
      BY <1>1, <2>2, <2>3 DEF Derived
  <1>2. TransactionInv /\ DerivationInv /\ [Next]_vars =>
          [\A t \in Tx : Commits(t) /\ MovesTraces(t) /\ Landed = basis[t]
             => /\ FlagsDerived(db') /\ ConnectionsDerived(db, db')
                /\ RequirementsDerived(db, db') /\ OrphansDerived(db, db')]_vars
    BY <1>1
  <1>. QED
    BY <1>2, TransactionsSafe, DerivationSafe, PTL DEF Spec, UndisturbedIsDerived

-----------------------------------------------------------------------------
\* No pair gets its Requirement twice.  A recomputation writes the flags of every
\* entity first, so it holds them all; a Requirement is only made, or marked, by one
\* that holds its entity, and no other then makes or marks any.

PairOf(s) == <<s.ent, s.asset>>
Apart(v)  == \A q, r \in Present(v, Requirement) : q # r => PairOf(v[q]) # PairOf(v[r])

\* It has written the inherited flags.
Inherits(t) ==
  \/ /\ pc[t] \in {"read", "write"} /\ CurrentOp(t).kind = "recompute"
     /\ work[t].stmt >= 2
  \/ pc[t] = "finish" /\ req[t][Len(req[t])] = Recompute
Held(t, e) == e \in Entity /\ lock[e] = t /\ db[e] # Absent

Making(t) ==
  /\ \A e \in Entity : e \in DOMAIN work[t].mine /\ work[t].mine[e] # Absent => db[e] # Absent
  /\ Inherits(t) => Present(db, Entity) \subseteq DOMAIN work[t].mine
  /\ \A q \in DOMAIN work[t].mine : q \in Requirement /\ work[t].mine[q] # Absent =>
       Inherits(t) /\ Held(t, work[t].mine[q].ent)
Staged(t) == pc[t] = "write" =>
  /\ Statement(t) = "inherit" =>
       Present(db, Entity) \subseteq DOMAIN work[t].mine \cup DOMAIN work[t].puts
  /\ Statement(t) \in {"require", "orphan"} =>
       \A q \in DOMAIN work[t].puts : Held(t, work[t].puts[q].ent)
  /\ Statement(t) = "require" =>
       /\ \A q \in DOMAIN work[t].puts : PairOf(work[t].puts[q]) \notin Stated(View(t))
       /\ \A q, r \in DOMAIN work[t].puts :
            q # r => PairOf(work[t].puts[q]) # PairOf(work[t].puts[r])
  /\ Statement(t) = "orphan" =>
       \A q \in DOMAIN work[t].puts : View(t)[q] # Absent =>
         PairOf(View(t)[q]) = PairOf(work[t].puts[q])
Single(t) == Apart(View(t)) /\ Making(t) /\ Staged(t)

RequirementInv ==
  /\ NoDuplicateRequirement
  /\ \A t \in Tx : pc[t] \in Active => Single(t)

LEMMA ApartIs == NoDuplicateRequirement <=> Apart(db)
  BY DEF NoDuplicateRequirement, Apart, PairOf

\* One a step of another leaves alone.
LEMMA SingleAlone ==
  ASSUME TransactionInv, NEW t \in Tx, work'[t] = work[t], pc'[t] = pc[t], req'[t] = req[t],
         db' = db, \A i \in Item : lock[i] = t => lock'[i] = t, Single(t)
  PROVE  Single(t)'
  <1>1. View(t)' = View(t) /\ CurrentOp(t)' = CurrentOp(t) /\ Statement(t)' = Statement(t)
        /\ (Inherits(t)' <=> Inherits(t))
    BY DEF View, CurrentOp, Statement, Inherits
  <1>2. \A e : Held(t, e) => Held(t, e)'
    BY DEF Held, Item, Node, Flagged
  <1>3. Making(t)'
    BY <1>1, <1>2 DEF Single, Making
  <1>4. Staged(t)'
    BY <1>1, <1>2 DEF Single, Staged
  <1>. QED
    BY <1>1, <1>3, <1>4 DEF Single

\* While one holds an entity and another has inherited, no entity is held by both.
LEMMA OneInherits ==
  ASSUME TransactionInv, NEW t \in Tx, NEW u \in Tx \ {t}, Making(u), Inherits(u), NEW e, Held(t, e)
  PROVE  FALSE
  <1>1. e \in DOMAIN work[u].mine /\ e \in Node
    BY DEF Making, Held, Present, Node, Flagged
  <1>. QED
    BY <1>1 DEF TransactionInv, Holding, Held

\* What another commits of Requirements to one that has one: it takes some away.
LEMMA OthersTakeAway ==
  ASSUME TransactionInv, NEW t \in Tx, Commit(t), Making(t), NEW u \in Tx \ {t}, NEW e, Held(u, e)
  PROVE  /\ \A q \in Requirement : q \notin DOMAIN work[u].mine /\ View(u)'[q] # Absent =>
              View(u)'[q] = View(u)[q] /\ View(u)'[q] = db[q]
         /\ \A q \in Requirement : db'[q] # Absent => db'[q] = db[q]
  <1>1. Typed /\ db' = View(t) /\ work'[u] = work[u]
    BY CommitEffect, EndsEffect DEF TransactionInv
  <1>2. ~Inherits(t)
    BY OneInherits
  <1>3. \A q \in DOMAIN work[t].mine : q \in Requirement => work[t].mine[q] = Absent
    BY <1>2 DEF Making
  <1>4. \A q \in Requirement : q \in Item
    BY DEF Item
  <1>5. \A i \in Item : View(t)[i] = IF i \in DOMAIN work[t].mine THEN work[t].mine[i] ELSE db[i]
    BY <1>1, ViewIs
  <1>6. \A i \in Item : View(u)[i] = IF i \in DOMAIN work[u].mine THEN work[u].mine[i] ELSE db[i]
    BY <1>1, ViewIs
  <1>7. \A i \in Item : View(u)'[i] = IF i \in DOMAIN work[u].mine THEN work[u].mine[i] ELSE db'[i]
    BY <1>1 DEF View
  <1>. QED
    BY <1>1, <1>3, <1>4, <1>5, <1>6, <1>7

\* Entities are not created: what is there was there.
LEMMA EntitiesStay ==
  ASSUME TransactionInv, NEW t \in Tx, Commit(t), Making(t)
  PROVE  /\ Present(db', Entity) \subseteq Present(db, Entity)
         /\ \A u \in Tx \ {t} : \A e : Held(u, e) => Held(u, e)'
         /\ \A u \in Tx \ {t} : \A e \in Entity :
              e \in DOMAIN work[u].mine => db'[e] = db[e]
  <1>1. Typed /\ db' = View(t)
        /\ \A i \in Item : \A u \in Tx \ {t} : lock[i] = u => lock'[i] = u
    BY CommitEffect, EndsEffect DEF TransactionInv
  <1>2. \A i \in Item : View(t)[i] = IF i \in DOMAIN work[t].mine THEN work[t].mine[i] ELSE db[i]
    BY <1>1, ViewIs
  <1>3. \A e \in Entity : e \in Item /\ e \in Node
    BY DEF Item, Node, Flagged
  <1>4. Present(db', Entity) \subseteq Present(db, Entity)
    BY <1>1, <1>2, <1>3 DEF Making, Present
  <1>5. ASSUME NEW u \in Tx \ {t}, NEW e \in Entity, lock[e] = u
        PROVE  db'[e] = db[e]
    <2>1. e \notin DOMAIN work[t].mine
      BY <1>3, <1>5 DEF TransactionInv, Holding
    <2>. QED
      BY <1>1, <1>2, <1>3, <2>1
  <1>6. ASSUME NEW u \in Tx \ {t}, NEW e, Held(u, e) PROVE Held(u, e)'
    BY <1>1, <1>3, <1>5, <1>6 DEF Held
  <1>7. ASSUME NEW u \in Tx \ {t}, NEW e \in Entity, e \in DOMAIN work[u].mine
        PROVE  db'[e] = db[e]
    <2>1. lock[e] = u
      BY <1>3, <1>7 DEF TransactionInv, Holding
    <2>. QED
      BY <1>5, <2>1
  <1>. QED
    BY <1>4, <1>6, <1>7

\* One that a commit of another passes by.
LEMMA SinglePassed ==
  ASSUME TransactionInv, NEW t \in Tx, Commit(t), Single(t), NEW u \in Tx \ {t}, Single(u),
         NoDuplicateRequirement
  PROVE  Single(u)'
  <1>1. /\ Typed /\ db' = View(t) /\ work'[u] = work[u] /\ pc'[u] = pc[u] /\ req'[u] = req[u]
        /\ View(u) \in Database
    BY CommitEffect, EndsEffect, ViewIs DEF TransactionInv
  <1>2. CurrentOp(u)' = CurrentOp(u) /\ Statement(u)' = Statement(u) /\ (Inherits(u)' <=> Inherits(u))
    BY <1>1 DEF CurrentOp, Statement, Inherits
  <1>3. Making(t) /\ Making(u) /\ Apart(View(t)) /\ Apart(View(u)) /\ Staged(u)
    BY DEF Single
  <1>4. /\ Present(db', Entity) \subseteq Present(db, Entity)
        /\ \A e : Held(u, e) => Held(u, e)'
        /\ \A e \in Entity : e \in DOMAIN work[u].mine => db'[e] = db[e]
    BY <1>3, EntitiesStay
  <1>5. Making(u)'
    BY <1>1, <1>2, <1>3, <1>4 DEF Making
  <1>6. ASSUME NEW e, Held(u, e)
        PROVE  \A q \in Requirement : q \notin DOMAIN work[u].mine /\ View(u)'[q] # Absent =>
                 View(u)'[q] = View(u)[q] /\ View(u)'[q] = db[q]
    BY <1>3, <1>6, OthersTakeAway
  <1>7. \A i \in Item : View(u)[i] = IF i \in DOMAIN work[u].mine THEN work[u].mine[i] ELSE db[i]
    BY <1>1, ViewIs
  <1>8. \A i \in Item : View(u)'[i] = IF i \in DOMAIN work[u].mine THEN work[u].mine[i] ELSE db'[i]
    BY <1>1 DEF View
  <1>9. \A q \in Requirement : q \in Item
    BY DEF Item
  <1>10. ASSUME NEW e, Held(u, e), NEW q \in Requirement, View(u)'[q] # Absent
         PROVE  View(u)'[q] = View(u)[q]
    BY <1>6, <1>7, <1>8, <1>9, <1>10
  <1>11. Staged(u)'
    <2>1. SUFFICES ASSUME pc[u] = "write"
                   PROVE  /\ Statement(u) = "inherit" =>
                               Present(db', Entity) \subseteq DOMAIN work[u].mine \cup DOMAIN work[u].puts
                          /\ Statement(u) \in {"require", "orphan"} =>
                               \A q \in DOMAIN work[u].puts : Held(u, work[u].puts[q].ent)'
                          /\ Statement(u) = "require" =>
                               /\ \A q \in DOMAIN work[u].puts : PairOf(work[u].puts[q]) \notin Stated(View(u)')
                               /\ \A q, r \in DOMAIN work[u].puts :
                                    q # r => PairOf(work[u].puts[q]) # PairOf(work[u].puts[r])
                          /\ Statement(u) = "orphan" =>
                               \A q \in DOMAIN work[u].puts : View(u)'[q] # Absent =>
                                 PairOf(View(u)'[q]) = PairOf(work[u].puts[q])
      BY <1>1, <1>2 DEF Staged, PairOf
    <2>2. Statement(u) \in {"require", "orphan"} =>
            \A q \in DOMAIN work[u].puts : Held(u, work[u].puts[q].ent)
      BY <1>3, <2>1 DEF Staged
    <2>3. Statement(u) = "inherit" =>
            Present(db', Entity) \subseteq DOMAIN work[u].mine \cup DOMAIN work[u].puts
      BY <1>3, <1>4, <2>1 DEF Staged
    <2>4. ASSUME Statement(u) = "require", NEW q \in DOMAIN work[u].puts
          PROVE  PairOf(work[u].puts[q]) \notin Stated(View(u)')
      <3>1. PairOf(work[u].puts[q]) \notin Stated(View(u)) /\ Held(u, work[u].puts[q].ent)
        BY <1>3, <2>1, <2>2, <2>4 DEF Staged
      <3>2. Stated(View(u)') \subseteq Stated(View(u))
        <4>1. \A r \in Requirement : View(u)'[r] # Absent => View(u)'[r] = View(u)[r]
          BY <1>10, <3>1
        <4>. QED
          BY <4>1 DEF Stated, Present
      <3>. QED
        BY <3>1, <3>2
    <2>5. Statement(u) = "require" =>
            \A q, r \in DOMAIN work[u].puts :
              q # r => PairOf(work[u].puts[q]) # PairOf(work[u].puts[r])
      BY <1>3, <2>1 DEF Staged
    <2>6. ASSUME Statement(u) = "orphan", NEW q \in DOMAIN work[u].puts, View(u)'[q] # Absent
          PROVE  PairOf(View(u)'[q]) = PairOf(work[u].puts[q])
      <3>1. q \in Requirement
        BY <2>1, <2>6 DEF TransactionInv, Shaped, Shape
      <3>2. View(u)'[q] = View(u)[q]
        BY <1>10, <2>2, <2>6, <3>1
      <3>. QED
        BY <1>3, <2>1, <2>6, <3>2 DEF Staged
    <2>7. ASSUME Statement(u) \in {"require", "orphan"}, NEW q \in DOMAIN work[u].puts
          PROVE  Held(u, work[u].puts[q].ent)'
      <3>1. PICK e : e = work[u].puts[q].ent
        OBVIOUS
      <3>2. Held(u, e)'
        BY <1>4, <2>2, <2>7, <3>1
      <3>. QED
        BY <1>1, <3>1, <3>2 DEF Held
    <2>. QED
      BY <2>3, <2>4, <2>5, <2>6, <2>7
  <1>12. Apart(View(u)')
    <2>1. ASSUME NEW q \in Requirement, NEW r \in Requirement, q # r,
                 View(u)'[q] # Absent, View(u)'[r] # Absent, q \in DOMAIN work[u].mine
          PROVE  PairOf(View(u)'[q]) # PairOf(View(u)'[r])
      <3>1. Held(u, work[u].mine[q].ent)
        BY <1>3, <1>8, <1>9, <2>1 DEF Making
      <3>2. View(u)'[q] = View(u)[q] /\ View(u)'[r] = View(u)[r]
        BY <1>10, <2>1, <3>1
      <3>. QED
        BY <1>3, <2>1, <3>2 DEF Apart, Present
    <2>2. ASSUME NEW q \in Requirement, NEW r \in Requirement, q # r,
                 View(u)'[q] # Absent, View(u)'[r] # Absent,
                 q \notin DOMAIN work[u].mine, r \notin DOMAIN work[u].mine
          PROVE  PairOf(View(u)'[q]) # PairOf(View(u)'[r])
      <3>1. View(u)'[q] = View(t)[q] /\ View(u)'[r] = View(t)[r]
        BY <1>1, <1>8, <1>9, <2>2
      <3>. QED
        BY <1>3, <2>2, <3>1 DEF Apart, Present
    <2>3. SUFFICES ASSUME NEW q \in Requirement, NEW r \in Requirement, q # r,
                          View(u)'[q] # Absent, View(u)'[r] # Absent
                   PROVE  PairOf(View(u)'[q]) # PairOf(View(u)'[r])
      BY DEF Apart, Present
    <2>. QED
      BY <2>1, <2>2, <2>3
  <1>. QED
    BY <1>5, <1>11, <1>12 DEF Single

LEMMA ReadingSingle ==
  ASSUME TransactionInv, NEW t \in Tx, Reading(t), Single(t)
  PROVE  Single(t)'
  <1>. DEFINE v == View(t)
  <1>1. /\ Typed /\ InPlace(t) /\ Holding(t) /\ v \in Database /\ Joins(v) /\ pc[t] = "read"
        /\ work[t].ver \in Nat /\ Making(t)
    <2>1. PICK p \in Pieces, n \in SUBSET Item, k \in Nat : Reads(t, p, n, k)
      BY ReadingIs
    <2>. QED
      BY <2>1, ViewIs DEF TransactionInv, Typed, Work, Reads, Single
  <1>2. ASSUME NEW e \in Present(v, Entity) PROVE e \in Present(db, Entity)
    <2>1. v[e] = IF e \in DOMAIN work[t].mine THEN work[t].mine[e] ELSE db[e]
      BY <1>1, ViewIs DEF Present, Item, Node, Flagged
    <2>. QED
      BY <1>1, <2>1 DEF Making, Present
  <1>3. ASSUME Inherits(t), NEW e \in Present(v, Entity) PROVE Held(t, e)
    <2>1. e \in Present(db, Entity) /\ e \in Node
      BY <1>2 DEF Present, Node, Flagged
    <2>2. e \in DOMAIN work[t].mine
      BY <1>1, <1>3, <2>1 DEF Making
    <2>. QED
      BY <1>1, <2>1, <2>2 DEF Holding, Held, Present
  <1>4. Statement(t) \in {"require", "orphan"} => Inherits(t)
    BY <1>1, OpInPlace, StatementInPlace DEF Inherits
  <1>. DEFINE Ready(s, p) ==
         /\ s = "inherit" => Present(db, Entity) \subseteq DOMAIN work[t].mine \cup DOMAIN p
         /\ s \in {"require", "orphan"} => \A q \in DOMAIN p : Held(t, p[q].ent)
         /\ s = "require" => /\ \A q \in DOMAIN p : PairOf(p[q]) \notin Stated(v)
                             /\ \A q, r \in DOMAIN p : q # r => PairOf(p[q]) # PairOf(p[r])
         /\ s = "orphan" => \A q \in DOMAIN p : v[q] # Absent => PairOf(v[q]) = PairOf(p[q])
  <1>5. ASSUME NEW p \in Pieces, NEW n \in SUBSET Item, NEW k \in Nat, Reads(t, p, n, k),
               Ready(Statement(t), p)
        PROVE  Single(t)'
    <2>1. /\ work'[t].op = work[t].op /\ work'[t].stmt = work[t].stmt /\ work'[t].mine = work[t].mine
          /\ work'[t].puts = p /\ pc'[t] = "write" /\ View(t)' = v
      BY <1>1, <1>5, ReadsEffect
    <2>2. UNCHANGED <<req, db, lock>>
      BY <1>5 DEF Reads
    <2>3. CurrentOp(t)' = CurrentOp(t) /\ Statement(t)' = Statement(t)
      BY <2>1, <2>2 DEF CurrentOp, Statement
    <2>4. Inherits(t)' <=> Inherits(t)
      BY <1>1, <2>1, <2>2, <2>3 DEF Inherits
    <2>5. \A e : Held(t, e) => Held(t, e)'
      BY <2>2 DEF Held
    <2>6. Making(t)'
      BY <1>1, <2>1, <2>2, <2>4, <2>5 DEF Making
    <2>7. Apart(View(t)')
      BY <2>1 DEF Single
    <2>8. Staged(t)'
      <3>1. ASSUME Statement(t) \in {"require", "orphan"}, NEW q \in DOMAIN p
            PROVE  Held(t, work[t].puts[q].ent)'
        <4>1. PICK e : e = p[q].ent
          OBVIOUS
        <4>2. Held(t, e)'
          BY <1>5, <2>5, <3>1, <4>1
        <4>. QED
          BY <2>1, <4>1, <4>2 DEF Held
      <3>. QED
        BY <1>5, <2>1, <2>2, <2>3, <3>1 DEF Staged, Held
    <2>. QED
      BY <2>6, <2>7, <2>8 DEF Single
  <1>6. CASE Supersede(t) \/ Create(t) \/ SetFlags(t) \/ Invalidate(t) \/ Delete(t) \/ Connect(t)
    <2>1. PICK p \in Pieces, n \in SUBSET Item, k \in Nat : Reads(t, p, n, k)
      BY ReadingIs
    <2>2. Statement(t) \notin {"inherit", "require", "orphan"}
      BY <1>6 DEF Supersede, Create, SetFlags, Invalidate, Delete, Connect, At
    <2>. QED
      BY <1>5, <2>1, <2>2
  <1>7. CASE Inherit(t)
    <2>. DEFINE n == Present(v, Entity)
                p == [e \in n |-> Inherited(v, e)]
    <2>1. p \in Pieces /\ n \in SUBSET Item /\ Reads(t, p, n, work[t].ver)
      BY <1>7, InheritReads
    <2>2. Statement(t) = "inherit" /\ DOMAIN p = n
      BY <1>7 DEF Inherit, At
    <2>3. \A e \in Present(db, Entity) : e \in DOMAIN work[t].mine \/ e \in n
      <3>1. TAKE e \in Present(db, Entity)
      <3>2. v[e] = IF e \in DOMAIN work[t].mine THEN work[t].mine[e] ELSE db[e]
        BY <1>1, ViewIs DEF Present, Item, Node, Flagged
      <3>. QED
        BY <3>2 DEF Present
    <2>. HIDE DEF n, p
    <2>4. Ready(Statement(t), p)
      BY <2>2, <2>3
    <2>. QED
      BY <1>1, <1>5, <2>1, <2>4
  <1>8. CASE Require(t)
    <2>1. PICK p \in Pieces, n \in SUBSET Item :
            /\ Reads(t, p, n, work[t].ver)
            /\ \A q \in DOMAIN p : <<p[q].ent, p[q].asset>> \in Required(v) \ Stated(v)
            /\ \A q, r \in DOMAIN p : q # r => <<p[q].ent, p[q].asset>> # <<p[r].ent, p[r].asset>>
      BY <1>8, RequireReads
    <2>2. Statement(t) = "require"
      BY <1>8 DEF Require, At
    <2>3. ASSUME NEW q \in DOMAIN p PROVE p[q].ent \in Present(v, Entity)
      <3>1. p[q].ent \in Entity /\ Traced(v, p[q].ent, p[q].asset)
        BY <2>1 DEF Required
      <3>2. PICK x \in Current(v) : x \in TraceRel /\ x.ent = p[q].ent
        BY <3>1 DEF Traced, Pair
      <3>3. v[x] # Absent
        BY <3>2 DEF Current, Present
      <3>. QED
        BY <1>1, <3>1, <3>2, <3>3 DEF Joins, Present
    <2>4. Ready(Statement(t), p)
      BY <1>3, <1>4, <2>1, <2>2, <2>3 DEF PairOf
    <2>. QED
      BY <1>1, <1>5, <2>1, <2>4
  <1>9. CASE Orphan(t)
    <2>. DEFINE n == Untraced(v)
                p == [q \in n |-> [v[q] EXCEPT !.orphan = TRUE]]
    <2>1. p \in Pieces /\ n \in SUBSET Item /\ Reads(t, p, n, work[t].ver)
      BY <1>9, OrphanReads
    <2>2. Statement(t) = "orphan" /\ DOMAIN p = n
      BY <1>9 DEF Orphan, At
    <2>3. ASSUME NEW q \in n
          PROVE  p[q].ent = v[q].ent /\ p[q].asset = v[q].asset /\ v[q].ent \in Present(v, Entity)
      <3>1. v[q] \in Stating /\ v[v[q].ent] # Absent /\ p[q] = [v[q] EXCEPT !.orphan = TRUE]
        BY <1>1, <2>3, InDatabase DEF Untraced, Present
      <3>. HIDE DEF p, v
      <3>. QED
        BY <3>1 DEF Stating, Present
    <2>. HIDE DEF n, p
    <2>4. Ready(Statement(t), p)
      BY <1>3, <1>4, <2>2, <2>3 DEF PairOf
    <2>. QED
      BY <1>1, <1>5, <2>1, <2>4
  <1>. QED
    BY <1>6, <1>7, <1>8, <1>9 DEF Reading

\* What a statement makes of entities and Requirements.
LEMMA WriteMakes ==
  ASSUME TransactionInv, NEW t \in Tx, Write(t)
  PROVE  /\ \A e \in DOMAIN Puts(t) : e \in Entity /\ Puts(t)[e] # Absent => View(t)[e] # Absent
         /\ \A q \in DOMAIN Puts(t) : q \in Requirement /\ Puts(t)[q] # Absent =>
              Statement(t) \in {"require", "orphan"}
         /\ Statement(t) \in {"inherit", "require", "orphan"} => Puts(t) = work[t].puts
         /\ Statement(t) = "orphan" => \A q \in DOMAIN Puts(t) : View(t)[q] # Absent
  <1>. DEFINE v == View(t)  P == work[t].puts  Q == Puts(t)
  <1>1. Typed /\ InPlace(t) /\ pc[t] = "write"
    BY DEF TransactionInv, Write
  <1>2. CASE Unmatched(t)
    <2>1. Q = None /\ DOMAIN Q = {}
      BY <1>2, NoPiece DEF Puts
    <2>2. Statement(t) \notin {"inherit", "require", "orphan"}
      BY <1>2 DEF Unmatched, Matched, Present
    <2>. QED
      BY <2>1, <2>2
  <1>3. CASE ~Unmatched(t) /\ Statement(t) = "delete"
    <2>1. Puts(t) = [i \in {CurrentOp(t).node} \cup RelsAt(View(t), CurrentOp(t).node) |-> Absent]
      BY <1>3, DeleteWrites
    <2>2. \A i \in DOMAIN Q : Q[i] = Absent
      BY <2>1
    <2>. HIDE DEF Q
    <2>3. \A i \in DOMAIN Puts(t) : Puts(t)[i] = Absent
      BY <2>2 DEF Q
    <2>. QED
      BY <1>3, <2>3
  <1>4. CASE ~Unmatched(t) /\ Statement(t) # "delete"
    <2>1. /\ Q = P /\ Shape(t, P, work[t].needs)
          /\ \A i \in DOMAIN P \ New(t) : v[i] # Absent
      BY <1>4, StatementWrites
    <2>2. Statement(t) = "create" => DOMAIN P \subseteq TraceRel
      <3>1. Statement(t) = "create" => RelOf(t) \in TraceRel
        BY <1>4, CreateWrites
      <3>. QED
        BY <2>1, <3>1 DEF Shape
    <2>3. Statement(t) = "require" => DOMAIN P \subseteq Requirement
      BY <2>1 DEF Shape
    <2>4. Statement(t) \notin {"create", "require"} => \A i \in DOMAIN P : v[i] # Absent
      BY <2>1 DEF New
    <2>5. CurrentOp(t).kind = "set" => CurrentOp(t).node \in Node
      BY <1>1, OpInPlace, OpsAre DEF Node, Flagged
    <2>6. Statement(t) \in {"supersede", "create", "set", "invalidate", "inherit", "connect"} =>
            DOMAIN P \subseteq Node \cup TraceRel
      <3>1. Statement(t) = "set" => CurrentOp(t).kind = "set"
        BY <1>1, StatementInPlace
      <3>. QED
        BY <2>1, <2>2, <2>5, <3>1 DEF Shape, Node, Flagged
    <2>7. Statement(t) \in {"supersede", "create", "set", "invalidate", "delete",
                            "inherit", "connect", "require", "orphan"}
      <3>1. CurrentOp(t) \in Ops /\ work[t].stmt \in 1..Len(StatementsOf(CurrentOp(t)))
        BY <1>1, OpInPlace
      <3>2. CurrentOp(t).kind \in {"trace", "clear", "set", "delete", "recompute"}
        BY <3>1, OpsAre
      <3>. QED
        BY <3>1, <3>2, StatementIs DEF Statement
    <2>8. \A e \in Entity : e \in Node
      BY DEF Node, Flagged
    <2>. HIDE DEF P, Q, v
    <2>9. \A e \in DOMAIN Q : e \in Entity => v[e] # Absent
      BY <2>1, <2>2, <2>3, <2>4, <2>8, Kinds
    <2>10. \A q \in DOMAIN Q : q \in Requirement => Statement(t) \in {"require", "orphan"}
      BY <1>4, <2>1, <2>6, <2>7, Kinds
    <2>. QED
      BY <2>1, <2>4, <2>9, <2>10 DEF P, Q, v
  <1>. QED
    BY <1>2, <1>3, <1>4

\* A recomputation goes on to its end, and its end is the request's.
LEMMA InheritsOn ==
  ASSUME TransactionInv, NEW t \in Tx, Write(t)
  PROVE  /\ Inherits(t) => Inherits(t)'
         /\ Inherits(t)' => Inherits(t) \/ Statement(t) = "inherit"
         /\ Statement(t) \in {"require", "orphan"} => Inherits(t)
  <1>. DEFINE o == CurrentOp(t)
  <1>1. /\ Typed /\ InPlace(t) /\ pc[t] = "write" /\ work[t] \in Work /\ Running(req[t])
        /\ work[t].op \in 1..Len(req[t]) /\ o \in Ops
    BY OpInPlace DEF TransactionInv, Write, Typed, InPlace
  <1>2. /\ pc'[t] \in {"read", "finish"}
        /\ work'[t].op = IF LastStatement(t) THEN work[t].op + 1 ELSE work[t].op
        /\ work'[t].stmt = IF LastStatement(t) THEN 1 ELSE work[t].stmt + 1
        /\ pc'[t] = "finish" <=> LastStatement(t) /\ LastOp(t)
        /\ req' = req
    BY WriteEffect
  <1>3. /\ o.kind = "recompute" => work[t].stmt \in 1..4 /\ (LastStatement(t) <=> work[t].stmt = 4)
        /\ Statement(t) = "inherit" <=> o.kind = "recompute" /\ work[t].stmt = 1
        /\ Statement(t) \in {"require", "orphan"} <=> o.kind = "recompute" /\ work[t].stmt \in {3, 4}
    BY <1>1, OpInPlace, StatementInPlace, StatementIs
  <1>4. o.kind = "recompute" <=> o = Recompute
    BY <1>1, OpsAre
  <1>5. o = Recompute => work[t].op = Len(req[t]) /\ LastOp(t)
    BY <1>1 DEF Running, CurrentOp, LastOp
  <1>6. ASSUME Inherits(t) PROVE Inherits(t)'
    <2>1. o = Recompute /\ work[t].stmt >= 2
      BY <1>1, <1>4, <1>6 DEF Inherits
    <2>2. CASE LastStatement(t)
      <3>1. pc'[t] = "finish" /\ req'[t][Len(req'[t])] = Recompute
        BY <1>2, <1>5, <2>1, <2>2 DEF CurrentOp
      <3>. QED
        BY <3>1 DEF Inherits
    <2>3. CASE ~LastStatement(t)
      <3>1. pc'[t] = "read" /\ CurrentOp(t)' = o /\ work'[t].stmt = work[t].stmt + 1
        BY <1>2, <2>3 DEF CurrentOp
      <3>. QED
        BY <1>3, <1>4, <2>1, <3>1 DEF Inherits
    <2>. QED
      BY <2>2, <2>3
  <1>7. ASSUME Inherits(t)' PROVE Inherits(t) \/ Statement(t) = "inherit"
    <2>1. CASE pc'[t] = "finish"
      <3>1. o = Recompute /\ work[t].stmt = 4
        BY <1>2, <1>3, <1>4, <1>7, <2>1 DEF Inherits, LastOp, CurrentOp
      <3>. QED
        BY <1>1, <1>4, <3>1 DEF Inherits
    <2>2. CASE pc'[t] = "read"
      <3>1. ~LastStatement(t)
        BY <1>2, <1>7, <2>2 DEF Inherits
      <3>2. CurrentOp(t)' = o
        BY <1>2, <3>1 DEF CurrentOp
      <3>3. o.kind = "recompute"
        BY <1>7, <2>2, <3>2 DEF Inherits
      <3>. QED
        BY <1>1, <1>3, <3>3 DEF Inherits
    <2>. QED
      BY <1>2, <2>1, <2>2
  <1>8. Statement(t) \in {"require", "orphan"} => Inherits(t)
    BY <1>1, <1>3 DEF Inherits
  <1>. QED
    BY <1>6, <1>7, <1>8

LEMMA WriteSingle ==
  ASSUME TransactionInv, NEW t \in Tx, Write(t), Single(t)
  PROVE  Single(t)'
  <1>. DEFINE v == View(t)  w == View(t)'  P == work[t].puts  Q == Puts(t)  M == work[t].mine
  <1>1. /\ Typed /\ pc[t] = "write" /\ Making(t) /\ Staged(t) /\ Apart(v) /\ Holding(t) /\ M \in Pieces
        /\ Q \in Pieces
    BY WriteWrites DEF TransactionInv, Write, Single, Typed, Work
  <1>2. /\ work'[t].mine = Over(Q, M) /\ pc'[t] \in {"read", "finish"}
        /\ UNCHANGED <<db, lock>>
        /\ \A i \in Item : w[i] = IF i \in DOMAIN Q THEN Q[i] ELSE v[i]
    BY WriteEffect
  <1>3. /\ \A e \in DOMAIN Q : e \in Entity /\ Q[e] # Absent => v[e] # Absent
        /\ \A q \in DOMAIN Q : q \in Requirement /\ Q[q] # Absent =>
              Statement(t) \in {"require", "orphan"}
        /\ Statement(t) \in {"inherit", "require", "orphan"} => Q = P
        /\ Statement(t) = "orphan" => \A q \in DOMAIN Q : v[q] # Absent
    BY WriteMakes
  <1>4. /\ Inherits(t) => Inherits(t)'
        /\ Inherits(t)' => Inherits(t) \/ Statement(t) = "inherit"
        /\ Statement(t) \in {"require", "orphan"} => Inherits(t)
    BY InheritsOn
  <1>5. \A i \in Item : v[i] = IF i \in DOMAIN M THEN M[i] ELSE db[i]
    BY <1>1, ViewIs
  <1>6. \A e \in Entity : e \in Item /\ e \in Node
    BY DEF Item, Node, Flagged
  <1>7. \A q \in Requirement : q \in Item
    BY DEF Item
  <1>8. \A e : Held(t, e) => Held(t, e)'
    BY <1>2 DEF Held
  <1>9. /\ Statement(t) = "inherit" => Present(db, Entity) \subseteq DOMAIN M \cup DOMAIN P
        /\ Statement(t) \in {"require", "orphan"} => \A q \in DOMAIN P : Held(t, P[q].ent)
        /\ Statement(t) = "require" =>
             /\ \A q \in DOMAIN P : PairOf(P[q]) \notin Stated(v)
             /\ \A q, r \in DOMAIN P : q # r => PairOf(P[q]) # PairOf(P[r])
        /\ Statement(t) = "orphan" =>
             \A q \in DOMAIN P : v[q] # Absent => PairOf(v[q]) = PairOf(P[q])
    BY <1>1 DEF Staged
  <1>10. /\ \A e \in Entity : e \in DOMAIN M /\ M[e] # Absent => db[e] # Absent
         /\ Inherits(t) => Present(db, Entity) \subseteq DOMAIN M
         /\ \A q \in DOMAIN M : q \in Requirement /\ M[q] # Absent => Inherits(t) /\ Held(t, M[q].ent)
    BY <1>1 DEF Making
  <1>. HIDE DEF v, w, P, Q, M
  <1>11. /\ DOMAIN Over(Q, M) = DOMAIN Q \cup DOMAIN M
         /\ \A i \in DOMAIN Q \cup DOMAIN M : Over(Q, M)[i] = IF i \in DOMAIN Q THEN Q[i] ELSE M[i]
    <2>1. ASSUME NEW f \in Pieces, NEW g \in Pieces
          PROVE  LET h == Over(f, g) IN
                 /\ DOMAIN h = DOMAIN f \cup DOMAIN g
                 /\ \A i \in DOMAIN f \cup DOMAIN g : h[i] = IF i \in DOMAIN f THEN f[i] ELSE g[i]
      BY OverIs
    <2>. QED
      BY <1>1, <2>1
  <1>12. PICK m : m = work'[t].mine
    OBVIOUS
  <1>13. /\ DOMAIN m = DOMAIN Q \cup DOMAIN M
         /\ \A i \in DOMAIN m : m[i] = IF i \in DOMAIN Q THEN Q[i] ELSE M[i]
    BY <1>2, <1>11, <1>12
  <1>14. \A e \in Entity : e \in DOMAIN m /\ m[e] # Absent => db[e] # Absent
    BY <1>3, <1>5, <1>6, <1>10, <1>13
  <1>15. Inherits(t)' => Present(db, Entity) \subseteq DOMAIN m
    BY <1>3, <1>4, <1>9, <1>10, <1>13
  <1>16. ASSUME NEW q \in DOMAIN m, q \in Requirement, m[q] # Absent
         PROVE  Inherits(t) /\ Held(t, m[q].ent)
    BY <1>3, <1>4, <1>9, <1>10, <1>13, <1>16
  <1>17. Making(t)'
    <2>1. ASSUME NEW q \in DOMAIN m, q \in Requirement, m[q] # Absent
          PROVE  Inherits(t)' /\ Held(t, m[q].ent)'
      <3>1. PICK e : e = m[q].ent
        OBVIOUS
      <3>2. Held(t, e)' /\ Inherits(t)'
        BY <1>4, <1>8, <1>16, <2>1, <3>1
      <3>. QED
        BY <1>12, <3>1, <3>2 DEF Held
    <2>. QED
      BY <1>2, <1>12, <1>14, <1>15, <2>1 DEF Making, Held, Present
  <1>18. Apart(w)
    <2>1. CASE Statement(t) \notin {"require", "orphan"}
      <3>1. \A q \in Requirement : w[q] # Absent => w[q] = v[q]
        BY <1>2, <1>3, <1>7, <2>1
      <3>. QED
        BY <1>1, <3>1 DEF Apart, Present, v
    <2>2. CASE Statement(t) = "require"
      <3>1. \A q \in Requirement : q \notin DOMAIN P /\ w[q] # Absent =>
              w[q] = v[q] /\ PairOf(w[q]) \in Stated(v)
        BY <1>2, <1>3, <1>7, <2>2 DEF Stated, Present, PairOf
      <3>2. \A q \in Requirement : q \in DOMAIN P => w[q] = P[q]
        BY <1>2, <1>3, <1>7, <2>2
      <3>3. \A q, r \in Present(v, Requirement) : q # r => PairOf(v[q]) # PairOf(v[r])
        BY <1>1 DEF Apart, v
      <3>4. ASSUME NEW q \in Requirement, NEW r \in Requirement, q # r, w[q] # Absent, w[r] # Absent
            PROVE  PairOf(w[q]) # PairOf(w[r])
        <4>1. CASE q \in DOMAIN P /\ r \in DOMAIN P
          BY <1>9, <2>2, <3>2, <3>4, <4>1
        <4>2. CASE q \in DOMAIN P /\ r \notin DOMAIN P
          BY <1>9, <2>2, <3>1, <3>2, <3>4, <4>2
        <4>3. CASE q \notin DOMAIN P /\ r \in DOMAIN P
          BY <1>9, <2>2, <3>1, <3>2, <3>4, <4>3
        <4>4. CASE q \notin DOMAIN P /\ r \notin DOMAIN P
          BY <3>1, <3>3, <3>4, <4>4 DEF Present
        <4>. QED
          BY <4>1, <4>2, <4>3, <4>4
      <3>. QED
        BY <3>4 DEF Apart, Present
    <2>3. CASE Statement(t) = "orphan"
      <3>1. \A q \in Requirement : w[q] # Absent => v[q] # Absent /\ PairOf(w[q]) = PairOf(v[q])
        BY <1>2, <1>3, <1>7, <1>9, <2>3
      <3>. QED
        BY <1>1, <3>1 DEF Apart, Present, v
    <2>. QED
      BY <2>1, <2>2, <2>3
  <1>19. Staged(t)'
    BY <1>2 DEF Staged
  <1>. QED
    BY <1>17, <1>18, <1>19 DEF Single, w


\* One that begins has made nothing.
LEMMA BeginSingle ==
  ASSUME TransactionInv, NoDuplicateRequirement, NEW t \in Tx, Begin(t)
  PROVE  Single(t)'
  <1>1. /\ pc[t] = "idle" /\ pc'[t] = "read" /\ UNCHANGED <<db, lock, req, work>>
        /\ Typed /\ work[t] = EmptyWork
    BY DEF Begin, TransactionInv, Typed, InPlace, Active
  <1>2. View(t) = db /\ View(t)' = View(t)
    BY <1>1, NothingWritten DEF View
  <1>3. DOMAIN work[t].mine = {} /\ work[t].stmt = 1
    BY <1>1, NoPiece DEF EmptyWork
  <1>4. ~Inherits(t)'
    BY <1>1, <1>3 DEF Inherits
  <1>5. Making(t)'
    BY <1>1, <1>3, <1>4 DEF Making
  <1>6. Staged(t)'
    BY <1>1 DEF Staged
  <1>7. Apart(View(t)')
    BY <1>2, ApartIs
  <1>. QED
    BY <1>5, <1>6, <1>7 DEF Single

LEMMA RequirementNext ==
  ASSUME TransactionInv, RequirementInv, [Next]_vars
  PROVE  RequirementInv'
  <1>1. Typed /\ NoDuplicateRequirement /\ \A u \in Tx : pc[u] \in Active => Single(u)
    BY DEF TransactionInv, RequirementInv
  <1>2. ASSUME UNCHANGED db PROVE NoDuplicateRequirement'
    BY <1>1, <1>2 DEF NoDuplicateRequirement
  <1>3. ASSUME UNCHANGED <<db, pc, req, work>>, \A u \in Tx : \A i \in Item : lock[i] = u => lock'[i] = u
        PROVE  RequirementInv'
    <2>1. \A u \in Tx : pc[u] \in Active => Single(u)'
      BY <1>1, <1>3, SingleAlone
    <2>. QED
      BY <1>2, <1>3, <2>1 DEF RequirementInv
  <1>4. ASSUME NEW t \in Tx, Acquire(t) PROVE RequirementInv'
    <2>1. \A u \in Tx : \A i \in Item : lock[i] = u => lock'[i] = u
      BY <1>1, <1>4, NamesAssumption DEF Acquire, Typed
    <2>. QED
      BY <1>3, <1>4, <2>1 DEF Acquire
  <1>5. ASSUME NEW t \in Tx, Begin(t) PROVE RequirementInv'
    <2>1. /\ \A u \in Tx \ {t} : pc'[u] = pc[u]
          /\ UNCHANGED <<db, lock, req, work>>
      BY <1>1, <1>5 DEF Begin, Typed
    <2>2. Single(t)'
      BY <1>1, <1>5, BeginSingle
    <2>3. \A u \in Tx \ {t} : pc'[u] \in Active => Single(u)'
      BY <1>1, <2>1, SingleAlone
    <2>. QED
      BY <1>2, <2>1, <2>2, <2>3 DEF RequirementInv
  <1>6. ASSUME NEW t \in Tx, Reading(t) PROVE RequirementInv'
    <2>1. PICK p \in Pieces, n \in SUBSET Item, k \in Nat : Reads(t, p, n, k)
      BY <1>6, ReadingIs
    <2>2. UNCHANGED <<db, lock, req>> /\ pc[t] = "read"
      BY <2>1 DEF Reads
    <2>3. \A u \in Tx \ {t} : work'[u] = work[u] /\ pc'[u] = pc[u]
      BY <1>1, <2>1, ReadsEffect
    <2>4. Single(t)'
      BY <1>1, <1>6, <2>2, ReadingSingle DEF Active
    <2>5. \A u \in Tx \ {t} : pc'[u] \in Active => Single(u)'
      BY <1>1, <2>2, <2>3, SingleAlone
    <2>. QED
      BY <1>2, <2>2, <2>4, <2>5 DEF RequirementInv
  <1>7. ASSUME NEW t \in Tx, Write(t) PROVE RequirementInv'
    <2>1. /\ UNCHANGED <<db, lock, req>> /\ pc[t] = "write"
          /\ \A u \in Tx \ {t} : work'[u] = work[u] /\ pc'[u] = pc[u]
      BY <1>7, WriteEffect DEF Write
    <2>2. Single(t)'
      BY <1>1, <1>7, <2>1, WriteSingle DEF Active
    <2>3. \A u \in Tx \ {t} : pc'[u] \in Active => Single(u)'
      BY <1>1, <2>1, SingleAlone
    <2>. QED
      BY <1>2, <2>1, <2>2, <2>3 DEF RequirementInv
  <1>8. ASSUME NEW t \in Tx, Commit(t) PROVE RequirementInv'
    <2>1. /\ pc[t] = "finish" /\ pc'[t] = "committed" /\ db' = View(t)
          /\ \A u \in Tx \ {t} : pc'[u] = pc[u]
      BY <1>1, <1>8, CommitEffect, EndsEffect DEF Commit
    <2>2. Single(t)
      BY <1>1, <2>1 DEF Active
    <2>3. NoDuplicateRequirement'
      BY <2>1, <2>2 DEF Single, Apart, PairOf, NoDuplicateRequirement
    <2>4. \A u \in Tx \ {t} : pc'[u] \in Active => Single(u)'
      BY <1>1, <1>8, <2>1, <2>2, SinglePassed
    <2>. QED
      BY <2>1, <2>3, <2>4 DEF RequirementInv, Active
  <1>9. ASSUME NEW t \in Tx, Reject(t) \/ Retry(t) PROVE RequirementInv'
    <2>1. PICK outcome \in {"rejected", "idle"} : RollBack(t, outcome)
      BY <1>9 DEF Reject, Retry
    <2>2. UNCHANGED <<db, req>> /\ Ends(t, outcome) /\ db' \in Database
      BY <1>1, <2>1 DEF RollBack, Ends, Active, PC, Done, Typed
    <2>3. /\ pc'[t] = outcome /\ \A u \in Tx \ {t} : work'[u] = work[u] /\ pc'[u] = pc[u]
          /\ \A i \in Item : \A u \in Tx \ {t} : lock[i] = u => lock'[i] = u
      BY <1>1, <2>2, EndsEffect
    <2>4. \A u \in Tx \ {t} : pc'[u] \in Active => Single(u)'
      BY <1>1, <2>2, <2>3, SingleAlone
    <2>. QED
      BY <1>2, <2>2, <2>3, <2>4 DEF RequirementInv, Active
  <1>10. ASSUME UNCHANGED vars PROVE RequirementInv'
    BY <1>3, <1>10 DEF vars
  <1>. QED
    BY <1>4, <1>5, <1>6, <1>7, <1>8, <1>9, <1>10 DEF Next, Finished, Reading

\* Nothing is stated twice at the start, and no commit has begun.
LEMMA RequirementFirst ==
  ASSUME Init
  PROVE  RequirementInv
  <1>1. PICK m \in Meetings : db \in m.initial
    BY DEF Init
  <1>2. \A q, r \in Requirement : q # r /\ Absent \notin {db[q], db[r]} =>
          <<db[q].ent, db[q].asset>> # <<db[r].ent, db[r].asset>>
    BY <1>1, InitialAssumption
  <1>3. NoDuplicateRequirement
    BY <1>2 DEF NoDuplicateRequirement, Present
  <1>. QED
    BY <1>3 DEF Init, RequirementInv, Active

\* What a commit has stated so far, and is about to state, no other states.
THEOREM RequirementsSafe == Spec => []RequirementInv
  <1>1. Init => RequirementInv
    BY RequirementFirst
  <1>2. TransactionInv /\ RequirementInv /\ [Next]_vars => RequirementInv'
    BY RequirementNext
  <1>. QED
    BY <1>1, <1>2, TransactionsSafe, PTL DEF Spec

\* No pair of an entity and an Asset has its Requirement twice, for any number of
\* commits that recompute at the same time.
THEOREM OneRequirementEach == Spec => []NoDuplicateRequirement
  BY RequirementsSafe, PTL DEF RequirementInv
=============================================================================
