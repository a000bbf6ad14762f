---------------------------- MODULE LossRevision ----------------------------
(***************************************************************************)
(* Concurrent commits against Neo4j, seen from the Attack Trees they       *)
(* change.  A commit is one managed write transaction: it finds the Losses *)
(* its operations can affect, locks them in HID order and compares each    *)
(* revision with the client's precondition (prepareLossCommit), runs its   *)
(* operations one after the other (executeCommit), and gives every tracked *)
(* Loss the next revision (finishLossCommit).  Auto-build takes the same   *)
(* lock and bumps the same revision.                                       *)
(*                                                                         *)
(* Neo4j is external: reads see committed data and the transaction's own   *)
(* writes and take no lock, a write locks the nodes it touches until the   *)
(* transaction ends, HID is unique, and a transaction that closes a cycle  *)
(* of waits is rolled back and retried by the driver.                      *)
(***************************************************************************)
EXTENDS Naturals, FiniteSets, Sequences

CONSTANTS
  Tx,           \* client requests, each served by one managed transaction
  Node,         \* Core nodes other than Losses
  MaxLoss,      \* bound: highest Loss sequence number a HID can carry
  Requests,     \* the requests clients send
  MaxTries,     \* bound: transient failures the driver retries
  InitialLosses, InitialTrees, \* what the database holds at the start
  Original,     \* uuid and last writer of data present at the start
  NoTx          \* nobody holds the lock

Loss   == 1..MaxLoss
Item   == Node \cup Loss
NewRef == 0     \* "$tempId": the Loss this request creates

\* An AT_RELATES_TO edge; a Loss is never a target and roots only its own tree.
EdgeOver(L) == {e \in [src : Node \cup L, tgt : Node, loss : L] :
                  e.src \in L => e.src = e.loss}
Edge == EdgeOver(Loss)

\* "update" is updateNode, transferOwnership, or a relationship of another
\* type (which touches both its ends).
OpKind == {"update", "delete", "link", "unlink", "create", "createTree",
           "build", "rebuild"}
Op == [kind : OpKind, items : SUBSET Item,
       edge : SUBSET EdgeOver(Loss \cup {NewRef})]
Tool == {"sstpa.loss", "other", "autobuild"}
Request == [tool : Tool, guards : SUBSET Loss, ops : Seq(Op)]

Creates(o) == o.kind \in {"create", "createTree"}
Builds(o)  == o.kind \in {"build", "rebuild"}

\* Checked before the transaction starts: there are operations, and only the
\* Loss Tool edits AT_RELATES_TO.  Auto-build builds one existing tree and does
\* nothing else.
\* Bounds: a request creates at most one Loss, and removes no edge of it.
WellFormed(r) ==
  /\ r.ops # <<>>
  /\ \A i \in 1..Len(r.ops) :
       LET o == r.ops[i] IN
       /\ o.kind \in {"link", "unlink"} => r.tool = "sstpa.loss"
       /\ Builds(o) <=> r.tool = "autobuild"
       /\ Builds(o) => /\ Len(r.ops) = 1
                       /\ \E l \in Loss : o.items = {l} /\ \A e \in o.edge : e \in Edge /\ e.loss = l
       /\ o.kind = "unlink" => o.edge \subseteq Edge
       /\ \A j \in 1..Len(r.ops) : Creates(o) /\ Creates(r.ops[j]) => i = j

ASSUME RequestsAssumption == Requests \subseteq {r \in Request : WellFormed(r)}
ASSUME InitialAssumption ==
  /\ InitialLosses \subseteq Loss
  /\ InitialTrees \subseteq
       SUBSET {e \in Edge : {e.src, e.loss} \subseteq Node \cup InitialLosses}
ASSUME NoTxAssumption     == NoTx \notin Tx /\ Original \notin Tx
ASSUME BoundsAssumption   == MaxLoss \in Nat /\ MaxTries \in Nat
ASSUME ItemAssumption     == NewRef \notin Node /\ Node \cap Loss = {}

VARIABLES
  live,     \* committed: nodes that exist
  edges,    \* committed: AT_RELATES_TO edges of every tree
  version,  \* committed: AttackTreeVersion of each Loss (0 when absent)
  uuid,     \* committed: which request created the Loss that carries a HID
  writer,   \* committed: which request last changed a node's properties
  lock,     \* Neo4j write locks
  pc,       \* where each request is
  req,      \* what it asks for
  draft,    \* the revisions its client read, used as preconditions
  work,     \* the transaction's private state, lost on rollback
  tries     \* transient failures so far

store  == <<live, edges, version, uuid, writer>>
vars   == <<live, edges, version, uuid, writer, lock, pc, req, draft, work, tries>>

Done == {"committed", "conflict", "lossGone", "rejected", "failed"}
PC   == {"idle", "begin", "lock", "fetch", "write", "finish"} \cup Done

EmptyWork == [todo |-> {}, explicit |-> {}, tracked |-> {},
              base |-> [l \in Loss |-> 0], next |-> 1, born |-> NewRef,
              adds |-> {}, dels |-> {}, edited |-> {}, gone |-> {},
              seen |-> [version |-> [l \in Loss |-> 0],
                      uuid |-> [l \in Loss |-> Original]]]

-----------------------------------------------------------------------------
\* What a transaction sees: committed data plus its own writes.
SeesNode(t, n) ==
  n \in live \ work[t].gone \/ (n = work[t].born /\ n # NewRef)
SeesEdge(t)    == (edges \ work[t].dels) \cup work[t].adds

CurrentOp(t) == req[t].ops[work[t].next]

ResolveRef(t, x) == IF x = NewRef THEN work[t].born ELSE x
Resolve(t, E) == {[src |-> ResolveRef(t, e.src), tgt |-> e.tgt,
                   loss |-> ResolveRef(t, e.loss)] : e \in E}

Ends(E) == {e.src : e \in E} \cup {e.tgt : e \in E}
EdgesAt(E, S) == {e \in E : e.src \in S \/ e.tgt \in S}

OpsOf(r)   == {r.ops[i] : i \in 1..Len(r.ops)}
HidsOf(r)  == UNION {o.items : o \in OpsOf(r)}
NamedBy(r) == {e.loss : e \in UNION {o.edge : o \in OpsOf(r)}} \ {NewRef}

\* Losses that need a precondition, and the Losses reached through the edges.
Explicit(r)   == IF r.tool = "autobuild" THEN r.guards \cup (HidsOf(r) \cap Loss)
                 ELSE r.guards \cup NamedBy(r) \cup (HidsOf(r) \cap Loss \cap live)
\* Slips the runs must catch are defined before what they would replace: shared
\* edits are not traced to the trees they appear in.
NoDependents(r)  == {}
Dependents(r) == IF r.tool = "autobuild" THEN {}
                 ELSE {e.loss : e \in EdgesAt(edges, HidsOf(r))}

\* The edges one operation adds and removes.
AddsOf(t) ==
  LET o == CurrentOp(t) IN
  CASE o.kind = "link"    -> Resolve(t, o.edge)
    [] o.kind = "build"   -> o.edge \ SeesEdge(t)
    [] o.kind = "rebuild" -> o.edge
    [] OTHER              -> {}
DelsOf(t) ==
  LET o == CurrentOp(t) IN
  CASE o.kind = "unlink"  -> Resolve(t, o.edge) \cap SeesEdge(t)
    [] o.kind = "delete"  -> EdgesAt(SeesEdge(t), o.items)
    [] o.kind = "rebuild" -> {e \in SeesEdge(t) : e.loss \in o.items}
    [] OTHER              -> {}

\* Nodes the statement must lock: what it sets, and both ends of every edge
\* it creates or removes.
Needs(t) ==
  LET o == CurrentOp(t) IN
  IF Creates(o) THEN {work[t].born}
  ELSE {n \in o.items \cup Ends(AddsOf(t) \cup DelsOf(t)) :
                   SeesNode(t, n) \/ n \in live}

-----------------------------------------------------------------------------
Init ==
  /\ live = Node \cup InitialLosses
  /\ edges \in InitialTrees
  /\ version = [l \in Loss |-> IF \E e \in edges : e.loss = l THEN 1 ELSE 0]
  /\ uuid = [l \in Loss |-> Original]
  /\ writer = [n \in Item |-> Original]
  /\ lock = [n \in Item |-> NoTx]
  /\ pc = [t \in Tx |-> "idle"]
  /\ req \in [Tx -> Requests]
  /\ draft = [t \in Tx |-> [version |-> version, uuid |-> uuid]]
  /\ work = [t \in Tx |-> EmptyWork]
  /\ tries = [t \in Tx |-> 0]

Release(t) == lock' = [n \in Item |-> IF lock[n] = t THEN NoTx ELSE lock[n]]

\* The transaction ends without effect.
Abort(t, outcome) ==
  /\ pc' = [pc EXCEPT ![t] = outcome]
  /\ work' = [work EXCEPT ![t] = EmptyWork]
  /\ Release(t)
  /\ UNCHANGED <<store, req, draft>>

\* Slip: operations start after the first lock.
AfterFirstLock(todo) == "fetch"
AfterLocking(todo) == IF todo = {} THEN "fetch" ELSE "lock"

\* A client loads the trees it is going to edit.
Load(t) ==
  /\ pc[t] = "idle"
  /\ pc' = [pc EXCEPT ![t] = "begin"]
  /\ draft' = [draft EXCEPT ![t] = [version |-> version, uuid |-> uuid]]
  /\ UNCHANGED <<store, lock, req, work, tries>>

\* Start of the transaction: compute the affected Losses, before any lock.
Begin(t) ==
  /\ pc[t] = "begin"
  /\ LET todo == Explicit(req[t]) \cup Dependents(req[t]) IN
     /\ pc' = [pc EXCEPT ![t] = AfterLocking(todo)]
     /\ work' = [work EXCEPT ![t] =
          [EmptyWork EXCEPT !.todo = todo, !.explicit = Explicit(req[t]),
                            !.seen = [version |-> version, uuid |-> uuid]]]
  /\ UNCHANGED <<store, lock, req, draft, tries>>

Guarded(t, l) == l \in req[t].guards
MayLock(t, l) == \/ req[t].tool # "sstpa.loss"
                 \/ l \notin work[t].explicit
                 \/ Guarded(t, l)
\* Slip: Losses are locked in the order a map yields them.
AnyOrder(t) == work[t].todo
Least(t) == {l \in work[t].todo : \A m \in work[t].todo : l <= m}

\* The Loss is locked and its revision remembered, to be counted on from.
TrackLoss(t, l) ==
  /\ lock' = [lock EXCEPT ![l] = t]
  /\ work' = [work EXCEPT ![t].todo = @ \ {l},
                          ![t].tracked = @ \cup {l},
                          ![t].base[l] = version[l]]
  /\ pc' = [pc EXCEPT ![t] = AfterLocking(work[t].todo \ {l})]
  /\ UNCHANGED <<store, req, draft, tries>>

\* Slips: the revision is read without the self-dependent SET, so the lock held
\* by another transaction is not noticed; the revision is never compared.
ReadLoss(t) ==
  /\ pc[t] = "lock"
  /\ \E l \in Least(t) :
       /\ MayLock(t, l) /\ l \in live /\ TrackLoss(t, l)
       /\ Guarded(t, l) => draft[t].version[l] = version[l]
LockUnchecked(t) ==
  /\ pc[t] = "lock"
  /\ \E l \in Least(t) :
       MayLock(t, l) /\ l \in live /\ lock[l] = NoTx /\ TrackLoss(t, l)

\* Lock the next Loss in HID order and compare its revision with the draft.
LockLoss(t) ==
  /\ pc[t] = "lock"
  /\ \E l \in Least(t) :
       /\ MayLock(t, l)
       /\ l \in live
       /\ lock[l] = NoTx
       /\ Guarded(t, l) => draft[t].version[l] = version[l]
       /\ TrackLoss(t, l)

\* The Loss Tool must state a revision for every Loss it edits.
PreconditionMissing(t) ==
  /\ pc[t] = "lock"
  /\ \E l \in Least(t) : ~MayLock(t, l)
  /\ Abort(t, "conflict")
  /\ UNCHANGED tries

\* Somebody committed a newer revision than the draft's.
RevisionConflict(t) ==
  /\ pc[t] = "lock"
  /\ \E l \in Least(t) :
       /\ l \in live /\ lock[l] = NoTx
       /\ Guarded(t, l) /\ draft[t].version[l] # version[l]
  /\ Abort(t, "conflict")
  /\ UNCHANGED tries

\* An affected Loss no longer exists: lockLossRevision finds no row.
LossGone(t) ==
  /\ pc[t] = "lock"
  /\ \E l \in Least(t) : MayLock(t, l) /\ l \notin live
  /\ Abort(t, "lossGone")
  /\ UNCHANGED tries

-----------------------------------------------------------------------------
\* Read what the operation names, before its write takes any lock.
OpRefs(t) ==
  LET o == CurrentOp(t) IN
  o.items \cup (IF o.kind \in {"link", "unlink"}
                THEN Ends(Resolve(t, o.edge)) ELSE {})

ValidOp(t) ==
  LET o == CurrentOp(t) IN
  /\ \A n \in OpRefs(t) : SeesNode(t, n)
  /\ o.kind = "link" =>
       \A e \in Resolve(t, o.edge) : e \notin SeesEdge(t) /\ SeesNode(t, e.loss)

FetchOp(t) ==
  /\ pc[t] = "fetch"
  /\ ValidOp(t)
  /\ ~Creates(CurrentOp(t))
  \* a Loss created by this request is tracked from its first tree edge on
  /\ work' = [work EXCEPT ![t].tracked = @ \cup
       (IF CurrentOp(t).kind = "link"
        THEN {e.loss : e \in Resolve(t, CurrentOp(t).edge)} \ @ ELSE {})]
  /\ pc' = [pc EXCEPT ![t] = "write"]
  /\ UNCHANGED <<store, lock, req, draft, tries>>

\* assignHID: one more than the highest sequence number that exists.
AssignHID(t) ==
  /\ pc[t] = "fetch"
  /\ Creates(CurrentOp(t))
  /\ \E l \in Loss :
       /\ \A m \in Loss : SeesNode(t, m) => m < l
       /\ l > 1 => SeesNode(t, l - 1)
       /\ work' = [work EXCEPT ![t].born = l]
  /\ pc' = [pc EXCEPT ![t] = "write"]
  /\ UNCHANGED <<store, lock, req, draft, tries>>

\* A node the operation names is missing, or the edge is already there.
RejectOp(t) ==
  /\ pc[t] = "fetch"
  /\ ~Creates(CurrentOp(t))
  /\ ~ValidOp(t)
  /\ Abort(t, "rejected")
  /\ UNCHANGED tries

Missing(t) == {n \in Needs(t) : lock[n] # t}

Acquire(t) ==
  /\ pc[t] = "write"
  /\ \E n \in Missing(t) : lock[n] = NoTx /\ lock' = [lock EXCEPT ![n] = t]
  /\ UNCHANGED <<store, pc, req, draft, work, tries>>

AfterOp(t) == IF work[t].next = Len(req[t].ops) THEN "finish" ELSE "fetch"

\* An edge is created only between nodes the statement still finds.
Found(t, E) == {e \in E : SeesNode(t, e.src) /\ SeesNode(t, e.tgt)}

\* The operation's write.  A named node that was deleted since it was fetched
\* matches no row: the statement succeeds and changes nothing.
WriteOp(t) ==
  LET o     == CurrentOp(t)
      added == Found(t, AddsOf(t))
      rows  == {n \in o.items : SeesNode(t, n)}
  IN
  /\ pc[t] = "write"
  /\ Missing(t) = {}
  /\ Creates(o) => work[t].born \notin live \ work[t].gone
  /\ work' = [work EXCEPT
       ![t].adds    = (@ \ DelsOf(t)) \cup added,
       ![t].dels    = (@ \cup DelsOf(t)) \ added,
       ![t].edited  = @ \cup (IF o.kind = "update" THEN rows ELSE {}),
       ![t].gone    = @ \cup (IF o.kind = "delete" THEN rows ELSE {}),
       ![t].tracked = @ \cup (IF o.kind = "createTree" THEN {work[t].born} ELSE {}),
       ![t].base    = IF o.kind = "createTree"
                      THEN [@ EXCEPT ![work[t].born] = 0] ELSE @,
       ![t].next    = @ + 1]
  /\ pc' = [pc EXCEPT ![t] = AfterOp(t)]
  /\ UNCHANGED <<store, lock, req, draft, tries>>

\* Another request committed a node with the HID this one computed: the
\* uniqueness constraint fails the statement.
DuplicateHID(t) ==
  /\ pc[t] = "write"
  /\ Missing(t) = {}
  /\ Creates(CurrentOp(t))
  /\ work[t].born \in live \ work[t].gone
  /\ Abort(t, "rejected")
  /\ UNCHANGED tries

\* Checks on data this model leaves out: between two statements, by a statement
\* that has its locks, or of the mailbox and the trees at the end.  A statement
\* that waits for a lock checks nothing.
Refuse(t) ==
  /\ pc[t] \in {"fetch", "finish"} \/ (pc[t] = "write" /\ Missing(t) = {})
  /\ Abort(t, "rejected")
  /\ UNCHANGED tries

Born(t) == {work[t].born} \ {NewRef}

\* finishLossCommit gives every tracked Loss its next revision; then all of
\* the transaction's writes become visible at once and its locks are freed.
Commit(t) ==
  /\ pc[t] = "finish"
  /\ live' = (live \ work[t].gone) \cup Born(t)
  /\ edges' = (edges \ work[t].dels) \cup work[t].adds
  /\ version' = [l \in Loss |->
                   IF l \notin live' THEN 0
                   ELSE IF l \in work[t].tracked THEN work[t].base[l] + 1
                   ELSE IF l \in Born(t) THEN 0
                   ELSE version[l]]
  /\ uuid' = [l \in Loss |-> IF l \in Born(t) THEN t ELSE uuid[l]]
  /\ writer' = [n \in Item |-> IF n \in work[t].edited THEN t ELSE writer[n]]
  /\ pc' = [pc EXCEPT ![t] = "committed"]
  /\ Release(t)
  /\ UNCHANGED <<req, draft, work, tries>>

-----------------------------------------------------------------------------
\* t waits for u: every lock it could take next is held, one of them by u.
Wanted(t) ==
  CASE pc[t] = "lock"  -> {l \in Least(t) \cap live : MayLock(t, l)}
    [] pc[t] = "write" -> Missing(t)
    [] OTHER           -> {}
Blocked(t)     == Wanted(t) # {} /\ \A n \in Wanted(t) : lock[n] \notin {NoTx, t}
WaitsFor(t, u) == Blocked(t) /\ \E n \in Wanted(t) : lock[n] = u

\* Every member of S waits for one member and is waited for by another.
Cycle(S) == \A t \in S : /\ \E u \in S : WaitsFor(t, u)
                        /\ \E u \in S : WaitsFor(u, t)
Deadlocked(t) == \E S \in SUBSET Tx : t \in S /\ Cycle(S)

\* Slip: the closure is retried without limit.
RetryForever(t) == Deadlocked(t) /\ Abort(t, "begin") /\ UNCHANGED tries

\* Neo4j rolls back a transaction of the cycle; the driver runs the closure
\* again from the start until it gives up.
DeadlockVictim(t) ==
  /\ Deadlocked(t)
  /\ IF tries[t] < MaxTries
     THEN Abort(t, "begin") /\ tries' = [tries EXCEPT ![t] = @ + 1]
     ELSE Abort(t, "failed") /\ UNCHANGED tries

Proceed(t) ==
  \/ Begin(t) \/ LockLoss(t) \/ PreconditionMissing(t) \/ RevisionConflict(t)
  \/ LossGone(t) \/ FetchOp(t) \/ AssignHID(t) \/ RejectOp(t) \/ Acquire(t)
  \/ WriteOp(t) \/ DuplicateHID(t) \/ Commit(t) \/ DeadlockVictim(t)
Serve(t) == Proceed(t) \/ Refuse(t)

\* Every request has been answered.
Finished == /\ \A t \in Tx : pc[t] \in Done
            /\ UNCHANGED vars

Next == (\E t \in Tx : Load(t) \/ Serve(t)) \/ Finished

Spec     == Init /\ [][Next]_vars
\* The server and the database keep working on a request they started.  Nothing
\* obliges them to refuse it: a request that waits for a lock goes on only when
\* the lock is released or it is made the victim of a deadlock.
FairSpec == Spec /\ \A t \in Tx : WF_vars(Proceed(t))
-----------------------------------------------------------------------------
\* Every variable keeps its type; the private state of a transaction names
\* only trees and nodes that can exist.
Revisions == [version : [Loss -> Nat], uuid : [Loss -> Tx \cup {Original}]]
Work == [todo : SUBSET Loss, explicit : SUBSET Loss, tracked : SUBSET Loss,
         base : [Loss -> Nat], next : Nat \ {0}, born : Loss \cup {NewRef},
         adds : SUBSET Edge, dels : SUBSET Edge, edited : SUBSET Item,
         gone : SUBSET Item, seen : Revisions]
TypeOK ==
  /\ live \subseteq Item
  /\ edges \subseteq Edge
  /\ version \in [Loss -> Nat]
  /\ uuid \in [Loss -> Tx \cup {Original}]
  /\ writer \in [Item -> Tx \cup {Original}]
  /\ lock \in [Item -> Tx \cup {NoTx}]
  /\ pc \in [Tx -> PC]
  /\ req \in [Tx -> Requests]
  /\ draft \in [Tx -> Revisions]
  /\ work \in [Tx -> Work]
  /\ tries \in [Tx -> Nat]

Commits(t) == pc[t] # "committed" /\ pc'[t] = "committed"

\* A commit takes effect only while the revision of every Loss it guards is
\* still the one its client read, however long it waited for locks.
GuardHolds ==
  [][\A t \in Tx : Commits(t) =>
       \A l \in req[t].guards : draft[t].version[l] = version[l]]_vars

\* Each revision of a tree has one author: two committed requests never
\* started from the same revision of the same Loss.
OneAuthorPerRevision ==
  \A l \in Loss : uuid[l] = Original =>
    \A t, u \in Tx :
      /\ t # u /\ pc[t] = "committed" /\ pc[u] = "committed"
      /\ l \in work[t].tracked /\ l \in work[u].tracked
      => work[t].base[l] # work[u].base[l]

TreeOf(l) == {e \in edges : e.loss = l}
TreeChanges(l) == \/ TreeOf(l)' # TreeOf(l)
                  \/ \E n \in Ends(TreeOf(l)) : writer'[n] # writer[n]

\* A change to a tree that leaves its revision alone happens only when that
\* revision has moved since the change's transaction looked for dependents.
UnseenOnlyIfMoved ==
  [][\A t \in Tx : Commits(t) =>
       \A l \in Loss \cap live \cap live' :
         TreeChanges(l) /\ version'[l] = version[l] /\ uuid'[l] = uuid[l]
           => \/ version[l] # work[t].seen.version[l]
              \/ uuid[l] # work[t].seen.uuid[l]]_vars

\* A request answered as committed did what it asked for at every node that was
\* there from its transaction's start: what it updates carries its values, what
\* it deletes is gone, the edges it adds are there, those it unlinks are not, and
\* a tree it rebuilds is the one it built.  Its own later operations may undo an
\* earlier one.  At a node that vanished between two statements (MATCH finds no
\* row) it does nothing and is answered all the same.
Throughout(t) == {n \in live : n \in Loss => uuid[n] = work[t].seen.uuid[n]}
LinkedBy(t)   == UNION {Resolve(t, o.edge) : o \in {p \in OpsOf(req[t]) : p.kind = "link"}}
UndoneBy(t)   == {e \in Edge : \E o \in OpsOf(req[t]) :
                    \/ o.kind = "unlink" /\ e \in o.edge
                    \/ o.kind = "delete" /\ {e.src, e.tgt} \cap o.items # {}}
AcceptedIsDone ==
  [][\A t \in Tx : Commits(t) => \A o \in OpsOf(req[t]) :
       LET there == Throughout(t) \cup Born(t)
           asked == {e \in Resolve(t, o.edge) : {e.src, e.tgt} \subseteq there}
       IN
       /\ o.kind = "update" => \A n \in o.items \cap Throughout(t) : writer'[n] = t
       /\ o.kind = "delete" => o.items \cap Throughout(t) \cap live' \subseteq Born(t)
       /\ o.kind = "unlink" => o.edge \cap edges' \subseteq LinkedBy(t)
       /\ o.kind \in {"link", "build", "rebuild"} => asked \ UndoneBy(t) \subseteq edges'
       /\ o.kind = "rebuild" => {e \in edges' : e.loss \in o.items} \subseteq o.edge]_vars

\* Locking Losses in HID order: requests that are all still in their locking
\* phase never wait for each other in a cycle.
NoGuardDeadlock ==
  \A S \in (SUBSET Tx) \ {{}} : Cycle(S) => \E t \in S : pc[t] = "write"

\* A request that was sent is answered, even if its transaction is chosen as
\* the victim of a deadlock.
EveryRequestAnswered == \A t \in Tx : pc[t] = "begin" ~> pc[t] \in Done

-----------------------------------------------------------------------------
\* Why the protocol works: facts about the locks and the private state of a
\* running transaction that every step preserves.
Active(t)   == pc[t] \in {"lock", "fetch", "write", "finish"}
Creating(t) == pc[t] = "write" /\ Creates(CurrentOp(t))

\* The locking phase is over before the first operation is read.
LockingFirst(t) ==
  /\ pc[t] \in {"fetch", "write", "finish"} => work[t].todo = {}
  /\ pc[t] \in {"lock", "fetch", "write"} => work[t].next \in 1..Len(req[t].ops)

\* What a transaction tracked, deleted or created is locked by it.
HoldsLocks(t) == Active(t) =>
  /\ \A n \in work[t].tracked \cup work[t].gone : lock[n] = t
  /\ work[t].born # NewRef /\ ~Creating(t) => lock[work[t].born] = t

\* No Loss that needs a check is skipped on the way to the locks.
NothingSkipped(t) == Active(t) =>
  /\ req[t].guards \subseteq work[t].todo \cup work[t].tracked
  /\ (IF req[t].tool = "autobuild" THEN HidsOf(req[t]) \cap Loss ELSE NamedBy(req[t]))
       \subseteq work[t].todo \cup work[t].tracked

\* Once locked, a guarded revision stays the one the client read.
GuardsCurrent(t) == Active(t) =>
  \A l \in req[t].guards \ work[t].todo : draft[t].version[l] = version[l]

\* The revision a tracked Loss will be counted on from is its current one.
BaseCurrent(t) == Active(t) =>
  \A l \in work[t].tracked \ {work[t].born} :
    l \in live /\ work[t].base[l] = version[l]

\* A request creates its Loss once, with the HID it was assigned.
BornOnce(t) ==
  /\ Creating(t) => work[t].born # NewRef
  /\ Active(t) /\ work[t].born # NewRef =>
       \E i \in 1..Len(req[t].ops) :
         /\ Creates(req[t].ops[i])
         /\ i < work[t].next \/ (i = work[t].next /\ pc[t] = "write")

\* An edge about to be created has its temporary references resolved and is in
\* a tree that is tracked.
PendingResolved(t) ==
  pc[t] = "write" /\ CurrentOp(t).kind = "link" =>
    Resolve(t, CurrentOp(t).edge) \subseteq {e \in Edge : e.loss \in work[t].tracked}

TxInv(t) ==
  /\ LockingFirst(t) /\ HoldsLocks(t) /\ NothingSkipped(t) /\ GuardsCurrent(t)
  /\ BaseCurrent(t) /\ BornOnce(t) /\ PendingResolved(t)

AbsentIsZero == \A l \in Loss : l \notin live => version[l] = 0

\* A committed request's revision is behind the tree's present one.
AuthorsPast == \A t \in Tx, l \in Loss :
  pc[t] = "committed" /\ l \in work[t].tracked /\ uuid[l] = Original /\ l \in live
    => work[t].base[l] < version[l]

ProtocolInv ==
  /\ TypeOK
  /\ \A t \in Tx : TxInv(t)
  /\ AbsentIsZero /\ AuthorsPast /\ OneAuthorPerRevision

-----------------------------------------------------------------------------
\* Why commits keep the trees together: facts about what a running transaction
\* is about to write.

\* Neo4j keeps no edge without its ends.
EdgesJoinLiveNodes == \A e \in edges : e.src \in live /\ e.tgt \in live

\* It holds the ends of the edges it adds, which it still sees, and the trees
\* they are in; the tree of an edge it removes, unless it deletes an end.
WritesHeld(t) == Active(t) =>
  /\ \A e \in work[t].adds : /\ \A n \in {e.src, e.tgt} : lock[n] = t /\ SeesNode(t, n)
                             /\ e.loss \in work[t].tracked
  /\ \A e \in work[t].dels : \/ e.loss \in work[t].tracked
                             \/ {e.src, e.tgt} \cap work[t].gone # {}

\* No edge it sees has an end it deletes, unless it created the node again.
GoneAreBare(t) == Active(t) =>
  \A e \in SeesEdge(t) : {e.src, e.tgt} \cap (work[t].gone \ Born(t)) = {}

\* It edits and deletes only what its request names; auto-build does neither.
ChangesNamed(t) == Active(t) =>
  LET changed == work[t].edited \cup work[t].gone IN
  changed \subseteq HidsOf(req[t]) /\ (changed # {} => req[t].tool # "autobuild")

\* A revision counts on from the current one, or from none.
BaseFrom(t) == Active(t) => \A l \in Loss :
  IF l \in work[t].tracked THEN work[t].base[l] \in {0, version[l]} ELSE work[t].base[l] = 0

\* While it locks Losses it holds no others, and all of them before the next.
LocksInOrder(t) ==
  /\ ~Active(t) => \A n \in Item : lock[n] # t
  /\ pc[t] = "lock" =>
       /\ \A n \in Item : lock[n] = t => n \in work[t].tracked
       /\ \A l \in work[t].tracked, m \in work[t].todo : l < m

\* A Loss is created by a request that committed, once.
CreatorCommitted(u) == \A l \in Loss : u[l] = Original \/ pc[u[l]] = "committed"

\* As long as a tree is at the revision seen at the start, every edge it has at a
\* node the request names was there then, and the tree is tracked.
SameAsSeen(t, l) == version[l] = work[t].seen.version[l] /\ uuid[l] = work[t].seen.uuid[l]
DependentsFound(t) == Active(t) =>
  /\ CreatorCommitted(work[t].seen.uuid)
  /\ \A l \in live \cap Loss :
       /\ uuid[l] = work[t].seen.uuid[l] => work[t].seen.version[l] <= version[l]
       /\ req[t].tool # "autobuild" /\ SameAsSeen(t, l)
            /\ EdgesAt(TreeOf(l), HidsOf(req[t])) # {}
            => l \in work[t].todo \cup work[t].tracked

TreesInv ==
  /\ EdgesJoinLiveNodes /\ CreatorCommitted(uuid)
  /\ \A t \in Tx : /\ WritesHeld(t) /\ GoneAreBare(t) /\ ChangesNamed(t)
                    /\ BaseFrom(t) /\ LocksInOrder(t) /\ DependentsFound(t)

-----------------------------------------------------------------------------
\* Everything between a request's first read and its end is one step of
\* AtomicRevisions.
PhaseOf(t) ==
  IF pc[t] \in {"idle", "committed"} THEN pc[t]
  ELSE IF pc[t] \in Done THEN "aborted" ELSE "open"

Atomic == INSTANCE AtomicRevisions WITH
  guards <- [t \in Tx |-> req[t].guards],
  phase  <- [t \in Tx |-> PhaseOf(t)],
  read   <- [t \in Tx |-> draft[t].version]

\* The locking protocol as a whole behaves like a single atomic step.
ImplementsAtomicRevisions == Atomic!Spec

-----------------------------------------------------------------------------
\* What the code's comments and the requirements say, refuted by the run
\* that checks it.

\* "Shared Core edits invalidate all dependent revisions."
SharedEditsInvalidate ==
  [][\A t \in Tx : Commits(t) =>
       \A l \in Loss \cap live \cap live' :
         TreeChanges(l) => version'[l] > version[l]]_vars

=============================================================================
