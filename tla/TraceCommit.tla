----------------------------- MODULE TraceCommit -----------------------------
(***************************************************************************)
(* Trace relationships of one System of Interest and what is derived from  *)
(* them, under concurrent commits.  A commit runs its operations as a      *)
(* sequence of Cypher statements: a trace supersedes the CURRENT relation  *)
(* of its cell and creates the next version, a cleared cell is superseded, *)
(* the relations of a deleted State are invalidated.  If any operation     *)
(* moved a trace, four more statements recompute the flags inherited by    *)
(* entities and Connections, the protection Requirements and their Orphan  *)
(* flags (recomputeTraceDerivationsForKey).                                *)
(*                                                                         *)
(* Neo4j is external, as in LossRevision: a statement reads committed data *)
(* and its transaction's own writes, then takes its write locks one at a   *)
(* time, in no particular order, and writes what it computed before.       *)
(*                                                                         *)
(* Properties are sets: a union of sets is the OR-union of flags, and the  *)
(* set {1..n} is the level n.  One assurance property stands for the seven *)
(* that generate Requirements, each by a statement like this one.  No node *)
(* is in an Attack Tree, so no Loss lock puts these commits in line.       *)
(***************************************************************************)
EXTENDS Integers, FiniteSets, Sequences

CONSTANTS
  Tx,                        \* commits
  Entity, Asset, State,      \* nodes of the System of Interest
  Connection, Purpose,
  Participates,              \* which entity (an Interface) is in which Connection
  RelType,                   \* HOLDS, TRANSPORTS, USES
  Prop, Assured,             \* properties; the assurance property
  MaxReq,                    \* bound: Requirements
  Meetings,                  \* bound: what the database may hold at the start, and the
                             \* requests (sequences of operations) clients then send
  Original,                  \* the author of what is there at the start
  NoTx, Absent, AnyState

TraceRel    == [ent : Entity, st : State, asset : Asset, by : Tx \cup {Original}]
Requirement == [seq : 1..MaxReq]
Flagged     == Entity \cup Asset \cup Connection
Node        == Flagged \cup State \cup {Purpose}
Item        == Node \cup TraceRel \cup Requirement

Status == {"CURRENT", "SUPERSEDED", "INVALIDATED"}
\* What an item holds: a node its properties, a trace its status, version and
\* type, a Requirement the statement "ent SHALL protect the ... of asset".
Holds(i) == CASE i \in Node        -> SUBSET Prop
              [] i \in TraceRel    -> [status : Status, ver : Nat, type : RelType]
              [] i \in Requirement -> [ent : Entity, asset : Asset, orphan : BOOLEAN]
IsDatabase(d) == /\ d = [i \in Item |-> d[i]]
                 /\ \A i \in Item : d[i] = Absent \/ d[i] \in Holds(i)

Op == [kind : {"trace"}, ent : Entity, st : State, asset : Asset, type : RelType]
      \cup [kind : {"clear"}, ent : Entity, st : State \cup {AnyState}, asset : Asset,
            type : RelType]
      \cup [kind : {"set"}, node : Entity \cup Asset, flags : SUBSET Prop]
      \cup [kind : {"delete"}, node : Entity \cup Asset \cup State \cup Requirement]
Recompute == [kind |-> "recompute"]

\* Names are of one kind of thing each, and the database is finite.
ASSUME NamesAssumption ==
  /\ LET kinds == <<Entity, Asset, State, Connection, {Purpose}, TraceRel, Requirement>> IN
     \A i, j \in 1..7 : i # j => kinds[i] \cap kinds[j] = {}
  /\ \A i \in TraceRel \cup Requirement : Absent \notin Holds(i)
  /\ \A flags \in SUBSET Prop : flags # Absent
  /\ Original \notin Tx /\ NoTx \notin Tx /\ AnyState \notin State
  /\ IsFiniteSet(TraceRel) /\ IsFiniteSet(Entity) /\ IsFiniteSet(Asset) /\ MaxReq \in Nat

\* An empty request is refused.  Bound: a request traces a cell at most once.
ASSUME RequestsAssumption ==
  \A m \in Meetings : \A r \in m.sent :
    /\ r \in Seq(Op) /\ r # <<>>
    /\ \A i, j \in 1..Len(r) : i # j /\ r[i].kind = "trace" /\ r[j].kind = "trace"
         => <<r[i].ent, r[i].st, r[i].asset>> # <<r[j].ent, r[j].st, r[j].asset>>
\* At the start, every relation joins two nodes, none is of the commits to come, and
\* no pair has two Requirements.
ASSUME InitialAssumption ==
  \A m \in Meetings : \A d \in m.initial :
    /\ IsDatabase(d)
    /\ \A x \in TraceRel : d[x] # Absent =>
         x.by = Original /\ d[x.ent] # Absent /\ d[x.asset] # Absent
    /\ \A q, r \in Requirement : q # r /\ Absent \notin {d[q], d[r]} =>
         <<d[q].ent, d[q].asset>> # <<d[r].ent, d[r].asset>>

VARIABLES
  db,    \* committed data
  lock,  \* write locks
  pc,    \* where each commit is
  req,   \* its operations, and the recomputation if they move a trace
  work,  \* its private state, lost on rollback
  seen,  \* the commits that had landed when it began
  basis  \* and those that had landed when it began to recompute

vars == <<db, lock, pc, req, work, seen, basis>>

Done == {"committed", "rejected"}
PC   == {"idle", "read", "write", "finish"} \cup Done

None == [i \in {} |-> Absent]
EmptyWork == [op |-> 1, stmt |-> 1, mine |-> None, puts |-> None, needs |-> {}, ver |-> 0]
-----------------------------------------------------------------------------
\* What a transaction sees: committed data under its own writes.
View(t) == [i \in Item |-> IF i \in DOMAIN work[t].mine THEN work[t].mine[i] ELSE db[i]]

Present(v, S) == {i \in S : v[i] # Absent}
Current(v)    == {x \in Present(v, TraceRel) : v[x].status = "CURRENT"}
Cell(o)       == {x \in TraceRel : x.ent = o.ent /\ x.asset = o.asset /\ o.st \in {x.st, AnyState}}
Pair(e, a)    == {x \in TraceRel : x.ent = e /\ x.asset = a}
Traced(v, e, a) == Pair(e, a) \cap Current(v) # {}

MarkedByTrace(o)  == o.kind \in {"trace", "delete"} \* Slip: clearing a cell marks nothing.
MarkedByMatrix(o) == o.kind \in {"trace", "clear"}  \* Slip: deleting a node marks nothing.

\* Every operation that can move a trace marks its System for recomputation.
Marks(o) == \/ o.kind \in {"trace", "clear"}
            \/ o.kind = "delete" /\ o.node \notin Requirement
OpsOf(r) == IF \E i \in 1..Len(r) : Marks(r[i]) THEN Append(r, Recompute) ELSE r

StatementsOf(o) ==
  CASE o.kind = "trace"     -> <<"supersede", "create">>
    [] o.kind = "clear"     -> <<"supersede">>
    [] o.kind = "set"       -> <<"set">>
    [] o.kind = "delete"    -> IF o.node \in State THEN <<"invalidate", "delete">>
                               ELSE <<"delete">>
    [] o.kind = "recompute" -> <<"inherit", "connect", "require", "orphan">>

CurrentOp(t) == req[t][work[t].op]
Statement(t) == StatementsOf(CurrentOp(t))[work[t].stmt]
-----------------------------------------------------------------------------
Init ==
  /\ \E m \in Meetings : db \in m.initial /\ req \in [Tx -> {OpsOf(r) : r \in m.sent}]
  /\ lock = [i \in Item |-> NoTx]
  /\ pc = [t \in Tx |-> "idle"]
  /\ work = [t \in Tx |-> EmptyWork]
  /\ seen = [t \in Tx |-> {}]
  /\ basis = [t \in Tx |-> {}]

Landed == {u \in Tx : pc[u] = "committed"}

Begin(t) ==
  /\ pc[t] = "idle"
  /\ pc' = [pc EXCEPT ![t] = "read"]
  /\ seen' = [seen EXCEPT ![t] = Landed]
  /\ UNCHANGED <<db, lock, req, work, basis>>

At(t, s) == pc[t] = "read" /\ Statement(t) = s

\* The statement has read; it will write "puts" once it holds "needs".
Prepare(t, puts, needs) ==
  /\ work' = [work EXCEPT ![t].puts = puts, ![t].needs = needs]
  /\ pc' = [pc EXCEPT ![t] = "write"]
  /\ UNCHANGED <<db, lock, req, seen>>
Stage(t, puts, needs) == Prepare(t, puts, needs) /\ UNCHANGED basis

\* Slip: the relations of a cell are looked up and left as they are.
Leave(v, S, s) == [x \in S |-> v[x]]
Put(v, S, s) == [x \in S |-> [v[x] EXCEPT !.status = s]]

\* Slip: the version follows the CURRENT relations only.
VersionOfCurrent(v, o) ==
  LET vers == {v[x].ver : x \in Current(v) \cap Pair(o.ent, o.asset)} \cup {0}
  IN 1 + CHOOSE m \in vers : \A n \in vers : n <= m
\* Slip: no version to start from (null) when the pair has no relation.
NullVersion(v, o) ==
  LET vers == {v[x].ver : x \in Present(v, Pair(o.ent, o.asset))}
  IN IF vers = {} THEN Absent ELSE 1 + CHOOSE m \in vers : \A n \in vers : n <= m
\* Versions count up over all relations of a pair, whatever their State.
NextVersion(v, o) ==
  LET vers == {v[x].ver : x \in Present(v, Pair(o.ent, o.asset))} \cup {0}
  IN 1 + CHOOSE m \in vers : \A n \in vers : n <= m

\* prepareTraceRel, for relations of any type, and the clearing of a cell, for
\* those of one type.
Supersede(t) ==
  LET o == CurrentOp(t)
      v == View(t)
      old == {x \in Cell(o) \cap Current(v) : o.kind = "trace" \/ v[x].type = o.type}
  IN
  /\ At(t, "supersede")
  /\ Present(v, {o.ent, o.asset}) = {o.ent, o.asset}
  /\ work' = [work EXCEPT ![t].puts = Put(v, old, "SUPERSEDED"),
                          ![t].needs = old,
                          ![t].ver = IF o.kind = "trace" THEN NextVersion(v, o) ELSE 0]
  /\ pc' = [pc EXCEPT ![t] = "write"]
  /\ UNCHANGED <<db, lock, req, seen, basis>>

\* CREATE locks both ends of the new relation.
Create(t) ==
  LET o == CurrentOp(t) IN
  /\ At(t, "create")
  /\ LET x == [ent |-> o.ent, st |-> o.st, asset |-> o.asset, by |-> t] IN
     Stage(t, [i \in {x} |-> [status |-> "CURRENT", ver |-> work[t].ver, type |-> o.type]],
           {o.ent, o.asset})

SetFlags(t) ==
  LET o == CurrentOp(t) IN
  /\ At(t, "set")
  /\ Present(View(t), {o.node}) # {}
  /\ Stage(t, [i \in {o.node} |-> o.flags], {o.node})

Invalidate(t) ==
  LET v == View(t)
      old == {x \in Current(v) : x.st = CurrentOp(t).node}
  IN
  /\ At(t, "invalidate")
  /\ Present(v, {CurrentOp(t).node}) # {}
  /\ Stage(t, Put(v, old, "INVALIDATED"), old)

\* DETACH DELETE takes the node with its relations, those it finds once the
\* node is locked, and locks what they join.
RelsAt(v, n) == {x \in Present(v, TraceRel) : n \in {x.ent, x.asset}}
JoinedTo(v, n) ==
  {n} \cup RelsAt(v, n) \cup {x.ent : x \in RelsAt(v, n)} \cup {x.asset : x \in RelsAt(v, n)}
      \cup (IF n \in Present(v, Requirement) THEN {v[n].ent, Purpose} ELSE {})
      \cup {r \in Present(v, Requirement) : v[r].ent = n}
Delete(t) ==
  /\ At(t, "delete")
  /\ work[t].stmt = 1 => Present(View(t), {CurrentOp(t).node}) # {}
  /\ Stage(t, [i \in {CurrentOp(t).node} |-> Absent], {CurrentOp(t).node})

\* Entity inheritance: the union over the Assets of CURRENT relations.
Inherited(v, e) == UNION {v[x.asset] : x \in {y \in Current(v) : y.ent = e}}
Inherit(t) ==
  LET v == View(t)
      ents == Present(v, Entity)
  IN
  /\ At(t, "inherit")
  /\ Prepare(t, [e \in ents |-> Inherited(v, e)], ents)
  /\ basis' = [basis EXCEPT ![t] = Landed]

\* A Connection inherits from its traced Interfaces, if it has any.
TracedEnds(v, c) == {x.ent : x \in {y \in Current(v) : <<y.ent, c>> \in Participates}}
Connect(t) ==
  LET v == View(t)
      conns == {c \in Connection : TracedEnds(v, c) # {}}
  IN
  /\ At(t, "connect")
  /\ Stage(t, [c \in conns |-> UNION {v[e] : e \in TracedEnds(v, c)}], conns)

Required(v) == {p \in Entity \X Asset : Traced(v, p[1], p[2]) /\ Assured \in v[p[2]]}
NothingStated(v) == {} \* Slip: existing Requirements are not looked up.
Stated(v)   == {<<v[q].ent, v[q].asset>> : q \in Present(v, Requirement)}
HighestSeq(v) ==
  LET seqs == {q.seq : q \in Present(v, Requirement)} \cup {0}
  IN CHOOSE m \in seqs : \A n \in seqs : n <= m

\* A Requirement for each traced pair that has none, numbered on from the
\* highest sequence number read.
Require(t) ==
  LET v == View(t)
      rows == Required(v) \ Stated(v)
      top == HighestSeq(v)
      new == {[seq |-> top + i] : i \in 1..Cardinality(rows)}
  IN
  /\ At(t, "require")
  /\ top + Cardinality(rows) <= MaxReq
  /\ \E row \in [new -> rows] :
       /\ \A p \in rows : \E q \in new : row[q] = p
       /\ Stage(t, [q \in new |-> [ent |-> row[q][1], asset |-> row[q][2], orphan |-> FALSE]],
                IF rows = {} THEN {} ELSE new \cup {p[1] : p \in rows} \cup {Purpose})

Untraced(v) == {q \in Present(v, Requirement) :
                  v[v[q].ent] # Absent /\ ~Traced(v, v[q].ent, v[q].asset)}
Orphan(t) ==
  LET v == View(t) IN
  /\ At(t, "orphan")
  /\ Stage(t, [q \in Untraced(v) |-> [v[q] EXCEPT !.orphan = TRUE]], Untraced(v))
-----------------------------------------------------------------------------
\* The nodes a statement matches by name, and what it creates.
Matched(t) == CASE Statement(t) = "create" -> {CurrentOp(t).ent, CurrentOp(t).asset}
                [] Statement(t) \in {"set", "delete"} -> {CurrentOp(t).node}
                [] OTHER -> {}
Unmatched(t) == Present(View(t), Matched(t)) # Matched(t)
New(t) == IF Statement(t) \in {"create", "require"} THEN DOMAIN work[t].puts ELSE {}

Deleting(t) == Statement(t) = "delete"
Needs(t) == IF Deleting(t) /\ lock[CurrentOp(t).node] = t
            THEN JoinedTo(View(t), CurrentOp(t).node)
            ELSE work[t].needs
Missing(t) == {i \in Present(View(t), Needs(t)) \cup (Needs(t) \cap New(t)) : lock[i] # t}

Acquire(t) ==
  /\ pc[t] = "write"
  /\ \E i \in Missing(t) : lock[i] = NoTx /\ lock' = [lock EXCEPT ![i] = t]
  /\ UNCHANGED <<db, pc, req, work, seen, basis>>

\* The statement can write: what it read is still there, and what is new is not
\* there yet (HIDs are unique).
Writable(t) ==
  LET old == (DOMAIN work[t].puts \cup work[t].needs) \ New(t) IN
  /\ Present(View(t), New(t)) = {}
  /\ Unmatched(t) \/ Present(View(t), old) = old

\* A statement that names a deleted node changes nothing, and succeeds.
Puts(t) ==
  CASE Unmatched(t) -> None
    [] Deleting(t) /\ ~Unmatched(t) ->
         [i \in {CurrentOp(t).node} \cup RelsAt(View(t), CurrentOp(t).node) |-> Absent]
    [] OTHER        -> work[t].puts

Over(f, g) == [i \in DOMAIN f \cup DOMAIN g |-> IF i \in DOMAIN f THEN f[i] ELSE g[i]]

LastStatement(t) == work[t].stmt = Len(StatementsOf(CurrentOp(t)))
LastOp(t)        == work[t].op = Len(req[t])

Write(t) ==
  /\ pc[t] = "write"
  /\ Missing(t) = {}
  /\ Writable(t)
  /\ work' = [work EXCEPT
       ![t].mine = Over(Puts(t), @), ![t].puts = None, ![t].needs = {},
       ![t].op   = IF LastStatement(t) THEN @ + 1 ELSE @,
       ![t].stmt = IF LastStatement(t) THEN 1 ELSE @ + 1]
  /\ pc' = [pc EXCEPT ![t] = IF LastStatement(t) /\ LastOp(t) THEN "finish" ELSE "read"]
  /\ UNCHANGED <<db, lock, req, seen, basis>>

Release(t) == lock' = [i \in Item |-> IF lock[i] = t THEN NoTx ELSE lock[i]]

\* The transaction's writes become visible at once.
Commit(t) ==
  /\ pc[t] = "finish"
  /\ db' = View(t)
  /\ pc' = [pc EXCEPT ![t] = "committed"]
  /\ work' = [work EXCEPT ![t] = EmptyWork]
  /\ Release(t)
  /\ basis' = [basis EXCEPT ![t] = {}]
  /\ UNCHANGED <<req, seen>>

\* A node is missing, an identity is taken, a check on other data fails; or a
\* transient failure (a deadlock), after which the driver starts over.
RollBack(t, outcome) ==
  /\ pc[t] \in {"read", "write", "finish"}
  /\ pc' = [pc EXCEPT ![t] = outcome]
  /\ work' = [work EXCEPT ![t] = EmptyWork]
  /\ Release(t)
  /\ basis' = [basis EXCEPT ![t] = {}]
  /\ UNCHANGED <<db, req, seen>>
Reject(t) == RollBack(t, "rejected")
Retry(t)  == RollBack(t, "idle")

Finished == /\ \A t \in Tx : pc[t] \in Done
            /\ UNCHANGED vars

Next ==
  \/ \E t \in Tx :
       \/ Begin(t) \/ Supersede(t) \/ Create(t) \/ SetFlags(t) \/ Invalidate(t)
       \/ Delete(t) \/ Inherit(t) \/ Connect(t) \/ Require(t) \/ Orphan(t)
       \/ Acquire(t) \/ Write(t) \/ Commit(t) \/ Reject(t) \/ Retry(t)
  \/ Finished

Spec == Init /\ [][Next]_vars
-----------------------------------------------------------------------------
\* Every variable keeps its type; no write is staged outside a write phase.
TypeOK ==
  /\ IsDatabase(db)
  /\ lock \in [Item -> Tx \cup {NoTx}]
  /\ pc \in [Tx -> PC]
  /\ seen \in [Tx -> SUBSET Tx] /\ basis \in [Tx -> SUBSET Tx]
  /\ \A t \in Tx :
       /\ DOMAIN work[t].mine \subseteq Item /\ IsDatabase(View(t))
       /\ DOMAIN work[t].puts \subseteq Item /\ IsDatabase(Over(work[t].puts, View(t)))
       /\ pc[t] # "write" => work[t].puts = None /\ work[t].needs = {}

Commits(t) == pc[t] # "committed" /\ pc'[t] = "committed"
Overlapped(t, u) == t \notin seen[u] /\ u \notin seen[t]

\* Two CURRENT relations in one cell of the trace matrix come from commits
\* that overlapped in time: supersession never misses a relation that was
\* there when its commit began.
OneCurrentUnlessOverlap ==
  \A x, y \in Current(db) :
    x # y /\ <<x.ent, x.st, x.asset>> = <<y.ent, y.st, y.asset>>
      => {x.by, y.by} \subseteq Tx /\ Overlapped(x.by, y.by)

\* Versions of a pair grow in the order commits follow each other.
VersionsFollowCommits ==
  \A x, y \in Present(db, TraceRel) :
    /\ x.ent = y.ent /\ x.asset = y.asset /\ y.by \in Tx
    /\ x.by \in seen[y.by] \cup {Original}
    => db[x].ver < db[y].ver

\* No pair gets its Requirement twice, though a statement looks for it before
\* it locks anything: the commits that recompute wait for each other earlier,
\* at the entities whose flags they write.
NoDuplicateRequirement ==
  \A q, r \in Present(db, Requirement) :
    q # r => <<db[q].ent, db[q].asset>> # <<db[r].ent, db[r].asset>>

\* Once a State is deleted, no relation in its context that was there when the
\* deleting commit began is CURRENT, whoever superseded or traced meanwhile.
DeletedStateInvalidates ==
  \A t \in Tx : pc[t] = "committed" =>
    \A i \in 1..Len(req[t]) : req[t][i].kind = "delete" =>
      \A x \in Current(db) :
        x.st = req[t][i].node => x.by \in Tx \ seen[t]

\* What a recomputation makes of the derived data d, from what it was before.  A
\* Connection none of whose Interfaces is traced keeps its flags; a Requirement of a
\* traced pair may be Orphan still, never anew.
FlagsDerived(d)            == \A e \in Present(d, Entity) : d[e] = Inherited(d, e)
ConnectionsDerived(was, d) == \A c \in Connection :
  d[c] = IF TracedEnds(d, c) = {} THEN was[c] ELSE UNION {d[e] : e \in TracedEnds(d, c)}
RequirementsDerived(was, d) ==
  Required(d) \subseteq Stated(d) /\ Stated(d) \subseteq Stated(was) \cup Required(d)
OrphansDerived(was, d)     == \A q \in Present(d, Requirement) :
  /\ q \in Untraced(d) => d[q].orphan
  /\ d[q].orphan => q \in Untraced(d) \/ (was[q] # Absent /\ was[q].orphan)

\* Its operations can change what is CURRENT.
MovesTraces(t) == \E i \in 1..Len(req[t]) :
  \/ req[t][i].kind \in {"trace", "clear"}
  \/ req[t][i].kind = "delete" /\ req[t][i].node \notin Requirement

\* A commit that moved a trace leaves exactly the derived data its traces call for,
\* whatever runs beside it and whatever landed before it began to recompute: but a
\* Connection that lost its last traced Interface keeps what it had, and an Orphan
\* flag once set stays.  Of a commit beside which another lands while it recomputes
\* nothing is said: what that one wrote is not derived from.
UndisturbedIsDerived ==
  [][\A t \in Tx :
       Commits(t) /\ MovesTraces(t) /\ Landed = basis[t]
       => /\ FlagsDerived(db') /\ ConnectionsDerived(db, db')
          /\ RequirementsDerived(db, db') /\ OrphansDerived(db, db')]_vars
-----------------------------------------------------------------------------
(***************************************************************************)
(* What a comment of the repository says and the code does not do; a run   *)
(* refutes it.                                                             *)
(***************************************************************************)

\* "trace relationships are versioned (only one CURRENT, enforced by
\* supersession in prepareTraceRel)".
OneCurrentPerCell ==
  \A x, y \in Current(db) :
    <<x.ent, x.st, x.asset>> = <<y.ent, y.st, y.asset>> => x = y
=============================================================================
