------------------------- MODULE LossRevision_proofs -------------------------
(* LossRevision for every set of requests, nodes and clients: the inductive   *)
(* invariant of its locking protocol and what follows from it, then what      *)
(* concurrent commits do to the trees.  Edges join nodes that exist, no tree  *)
(* changes behind its revision, locking in HID order does not deadlock, and   *)
(* the whole protocol implements atomic, guarded commits.                     *)
EXTENDS LossRevision, WellFoundedInduction, TLAPS

USE DEF Loss, NewRef

LEMMA EmptyWorkType == EmptyWork \in Work
  BY DEF EmptyWork, Work, Revisions

\* A request's operations, and the one being executed.
LEMMA RequestType ==
  ASSUME TypeOK, NEW t \in Tx
  PROVE  /\ req[t] \in Request /\ WellFormed(req[t])
         /\ \A i \in 1..Len(req[t].ops) : req[t].ops[i] \in Op
  <1>1. req[t] \in Requests
    BY DEF TypeOK
  <1>2. req[t] \in Request /\ WellFormed(req[t])
    BY <1>1, RequestsAssumption
  <1>3. req[t].ops \in Seq(Op)
    BY <1>2 DEF Request
  <1>. QED
    BY <1>2, <1>3

LEMMA ItemType ==
  ASSUME TypeOK, NEW t \in Tx, NEW n, SeesNode(t, n)
  PROVE  n \in Item
  BY DEF TypeOK, Work, SeesNode, Item

LEMMA SeenEdgeType ==
  ASSUME TypeOK, NEW t \in Tx
  PROVE  SeesEdge(t) \subseteq Edge
  BY DEF TypeOK, Work, SeesEdge

\* A transaction that is not running satisfies its part of the invariant.
LEMMA Inactive ==
  ASSUME NEW t \in Tx, pc[t] \notin {"lock", "fetch", "write", "finish"}
  PROVE  TxInv(t)
  BY DEF Active, Creating, TxInv, LockingFirst, HoldsLocks, NothingSkipped,
         GuardsCurrent, BaseCurrent, BornOnce, PendingResolved

LEMMA InactiveNext ==
  ASSUME NEW t \in Tx, pc'[t] \notin {"lock", "fetch", "write", "finish"}
  PROVE  TxInv(t)'
  BY DEF Active, Creating, TxInv, LockingFirst, HoldsLocks, NothingSkipped,
         GuardsCurrent, BaseCurrent, BornOnce, PendingResolved

LEMMA InitInv == Init => ProtocolInv
  <1>. SUFFICES ASSUME Init PROVE ProtocolInv
    OBVIOUS
  <1>1. TypeOK
    <2>1. live \subseteq Item /\ edges \subseteq Edge
      BY InitialAssumption DEF Init, Item
    <2>2. version \in [Loss -> Nat] /\ uuid \in [Loss -> Tx \cup {Original}]
      BY DEF Init
    <2>3. draft \in [Tx -> Revisions]
      BY <2>2 DEF Init, Revisions
    <2>4. work \in [Tx -> Work]
      BY EmptyWorkType DEF Init
    <2>. QED
      BY <2>1, <2>2, <2>3, <2>4 DEF Init, TypeOK, PC
  <1>2. AbsentIsZero
    <2>. SUFFICES ASSUME NEW l \in Loss, NEW e \in edges, e.loss = l PROVE l \in live
      BY DEF AbsentIsZero, Init
    <2>. QED
      BY InitialAssumption, <1>1 DEF Init, TypeOK, Edge, EdgeOver
  <1>3. \A t \in Tx : pc[t] = "idle"
    BY DEF Init
  <1>4. \A t \in Tx : TxInv(t)
    BY <1>3, Inactive
  <1>5. AuthorsPast /\ OneAuthorPerRevision
    BY <1>3 DEF AuthorsPast, OneAuthorPerRevision
  <1>. QED
    BY <1>1, <1>2, <1>4, <1>5 DEF ProtocolInv

\* A transaction that does not step keeps its part of the invariant as long as
\* nobody takes its locks or changes the Losses it has locked.
LEMMA Bystander ==
  ASSUME TypeOK, NEW u \in Tx, TxInv(u), pc'[u] = pc[u], work'[u] = work[u],
         req' = req, draft'[u] = draft[u],
         \A n \in Item : lock[n] = u => lock'[n] = u,
         \A l \in Loss : lock[l] = u => version'[l] = version[l],
         \A l \in Loss : lock[l] = u /\ l \in live => l \in live'
  PROVE  TxInv(u)'
  <1>. USE DEF TxInv
  <1>1. /\ work[u].tracked \subseteq Loss /\ work[u].gone \subseteq Item
        /\ work[u].born # NewRef => work[u].born \in Loss
        /\ req[u].guards \subseteq Loss
    BY RequestType DEF TypeOK, Work, Request
  <1>2. CurrentOp(u)' = CurrentOp(u) /\ Active(u)' = Active(u) /\ Creating(u)' = Creating(u)
    BY DEF CurrentOp, Active, Creating
  <1>3. Active(u) => \A l \in work[u].tracked : lock[l] = u
    BY DEF HoldsLocks
  <1>4. LockingFirst(u)' /\ NothingSkipped(u)'
    BY <1>2 DEF LockingFirst, NothingSkipped
  <1>5. HoldsLocks(u)'
    BY <1>1, <1>2 DEF HoldsLocks, Item
  <1>6. GuardsCurrent(u)'
    BY <1>1, <1>2, <1>3 DEF GuardsCurrent, NothingSkipped
  <1>7. BaseCurrent(u)'
    BY <1>1, <1>2, <1>3 DEF BaseCurrent
  <1>8. BornOnce(u)'
    BY <1>2 DEF BornOnce
  <1>9. PendingResolved(u)'
    <2>1. \A x : ResolveRef(u, x)' = ResolveRef(u, x)
      BY DEF ResolveRef
    <2>2. Resolve(u, CurrentOp(u).edge)' = Resolve(u, CurrentOp(u).edge)
      BY <1>2, <2>1 DEF Resolve
    <2>. QED
      BY <1>2, <2>2 DEF PendingResolved
  <1>. QED
    BY <1>4, <1>5, <1>6, <1>7, <1>8, <1>9

\* What committed requests left behind is untouched by a step that commits
\* nothing.
LEMMA SharedInv ==
  ASSUME ProtocolInv, NEW t \in Tx, UNCHANGED store,
         pc'[t] # "committed",
         \A u \in Tx \ {t} : pc'[u] = pc[u] /\ work'[u] = work[u]
  PROVE  (AbsentIsZero /\ AuthorsPast /\ OneAuthorPerRevision)'
  BY DEF ProtocolInv, AbsentIsZero, AuthorsPast, OneAuthorPerRevision, store

\* Rolling back, for whatever reason.
LEMMA AbortInv ==
  ASSUME ProtocolInv, NEW t \in Tx, NEW o \in ({"begin"} \cup Done) \ {"committed"},
         Abort(t, o), tries' \in [Tx -> Nat]
  PROVE  ProtocolInv'
  <1>1. TypeOK'
    BY EmptyWorkType DEF ProtocolInv, TypeOK, Abort, Release, store, PC, Done
  <1>2. pc'[t] \notin {"lock", "fetch", "write", "finish", "committed"}
    BY DEF Abort, ProtocolInv, TypeOK, Done
  <1>3. \A u \in Tx \ {t} : /\ pc'[u] = pc[u] /\ work'[u] = work[u]
                            /\ \A n \in Item : lock[n] = u => lock'[n] = u
    BY DEF Abort, Release, ProtocolInv, TypeOK
  <1>4. \A u \in Tx \ {t} : TxInv(u)'
    BY <1>3, Bystander DEF ProtocolInv, Abort, store
  <1>5. TxInv(t)'
    BY <1>2, InactiveNext
  <1>6. (AbsentIsZero /\ AuthorsPast /\ OneAuthorPerRevision)'
    BY <1>2, <1>3, SharedInv DEF Abort
  <1>. QED
    BY <1>1, <1>4, <1>5, <1>6 DEF ProtocolInv

\* A step of t that changes nothing the others can see but the locks.
LEMMA PrivateStep ==
  ASSUME ProtocolInv, NEW t \in Tx, UNCHANGED <<store, req, draft>>,
         pc'[t] # "committed",
         \A u \in Tx \ {t} : /\ pc'[u] = pc[u] /\ work'[u] = work[u]
                             /\ \A n \in Item : lock[n] = u => lock'[n] = u,
         TypeOK', TxInv(t)'
  PROVE  ProtocolInv'
  <1>1. \A u \in Tx \ {t} : TxInv(u)'
    BY Bystander DEF ProtocolInv, store
  <1>2. (AbsentIsZero /\ AuthorsPast /\ OneAuthorPerRevision)'
    BY SharedInv
  <1>. QED
    BY <1>1, <1>2 DEF ProtocolInv

LEMMA LoadInv ==
  ASSUME ProtocolInv, NEW t \in Tx, Load(t)
  PROVE  ProtocolInv'
  <1>1. TypeOK'
    BY DEF ProtocolInv, TypeOK, Load, store, PC, Revisions
  <1>2. pc'[t] = "begin" /\ \A u \in Tx \ {t} : pc'[u] = pc[u] /\ draft'[u] = draft[u]
    BY DEF Load, ProtocolInv, TypeOK
  <1>3. TxInv(t)'
    BY <1>2, InactiveNext
  <1>4. (AbsentIsZero /\ AuthorsPast /\ OneAuthorPerRevision)'
    BY <1>2, SharedInv DEF Load
  <1>5. \A u \in Tx \ {t} : TxInv(u)'
    BY <1>2, Bystander DEF Load, store, ProtocolInv
  <1>. QED
    BY <1>1, <1>3, <1>4, <1>5 DEF ProtocolInv

\* Every precondition and every edge's Loss is among the Losses to lock.
LEMMA BeginInv ==
  ASSUME ProtocolInv, NEW t \in Tx, Begin(t)
  PROVE  ProtocolInv'
  <1>. DEFINE todo == Explicit(req[t]) \cup Dependents(req[t])
  <1>. USE DEF ProtocolInv
  <1>1. /\ pc' = [pc EXCEPT ![t] = AfterLocking(todo)]
        /\ work'[t] = [EmptyWork EXCEPT !.todo = todo, !.explicit = Explicit(req[t]),
                         !.seen = [version |-> version, uuid |-> uuid]]
        /\ \A u \in Tx \ {t} : work'[u] = work[u]
    BY DEF Begin, TypeOK
  <1>2. NamedBy(req[t]) \subseteq Loss /\ HidsOf(req[t]) \cap Loss \subseteq Loss
    <2>1. \A o \in OpsOf(req[t]) : \A e \in o.edge : e.loss \in Loss \cup {NewRef}
      BY RequestType DEF OpsOf, Op, EdgeOver
    <2>. QED
      BY <2>1 DEF NamedBy
  <1>3. Dependents(req[t]) \subseteq Loss
    BY DEF Dependents, EdgesAt, TypeOK, Edge, EdgeOver
  <1>4. req[t].guards \subseteq Explicit(req[t]) /\ Explicit(req[t]) \subseteq Loss
    BY <1>2, RequestType DEF Explicit, Request
  <1>5. (IF req[t].tool = "autobuild" THEN HidsOf(req[t]) \cap Loss ELSE NamedBy(req[t]))
          \subseteq Explicit(req[t])
    BY DEF Explicit
  <1>6. work'[t] \in Work
    <2>1. [version |-> version, uuid |-> uuid] \in Revisions
      BY DEF TypeOK, Revisions
    <2>2. todo \subseteq Loss /\ Explicit(req[t]) \subseteq Loss
      BY <1>3, <1>4
    <2>. QED
      BY <1>1, <2>1, <2>2, EmptyWorkType DEF Work
  <1>7. TypeOK'
    BY <1>1, <1>6 DEF TypeOK, Begin, store, PC, AfterLocking
  <1>8. 1 \in 1..Len(req[t].ops)
    BY RequestType DEF Request, WellFormed
  <1>9. TxInv(t)'
    <2>1. /\ work'[t].tracked = {} /\ work'[t].gone = {} /\ work'[t].born = NewRef
          /\ work'[t].todo = todo /\ work'[t].next = 1
      BY <1>1 DEF EmptyWork
    <2>2. pc'[t] = IF todo = {} THEN "fetch" ELSE "lock"
      BY <1>1 DEF TypeOK, AfterLocking
    <2>3. req' = req
      BY DEF Begin
    <2>4. LockingFirst(t)'
      BY <2>1, <2>2, <2>3, <1>8 DEF LockingFirst
    <2>5. NothingSkipped(t)' /\ GuardsCurrent(t)'
      BY <2>1, <2>3, <1>4, <1>5 DEF NothingSkipped, GuardsCurrent, NamedBy, HidsOf, OpsOf
    <2>6. HoldsLocks(t)' /\ BaseCurrent(t)'
      BY <2>1 DEF HoldsLocks, BaseCurrent
    <2>7. BornOnce(t)' /\ PendingResolved(t)'
      BY <2>1, <2>2 DEF BornOnce, Creating, PendingResolved
    <2>. QED
      BY <2>4, <2>5, <2>6, <2>7 DEF TxInv
  <1>10. pc'[t] # "committed" /\ \A u \in Tx \ {t} : pc'[u] = pc[u]
    BY <1>1 DEF TypeOK, AfterLocking
  <1>. HIDE DEF ProtocolInv
  <1>. QED
    BY <1>1, <1>7, <1>9, <1>10, PrivateStep DEF Begin

\* Locking a Loss fixes its revision: it is the draft's, and the base of the
\* next one.
LEMMA LockLossInv ==
  ASSUME ProtocolInv, NEW t \in Tx, LockLoss(t)
  PROVE  ProtocolInv'
  <1>. TypeOK /\ TxInv(t)
    BY DEF ProtocolInv
  <1>1. PICK l \in Least(t) :
          /\ l \in live /\ lock[l] = NoTx
          /\ Guarded(t, l) => draft[t].version[l] = version[l]
          /\ lock' = [lock EXCEPT ![l] = t]
          /\ work' = [work EXCEPT ![t].todo = @ \ {l},
                                  ![t].tracked = @ \cup {l},
                                  ![t].base[l] = version[l]]
          /\ pc' = [pc EXCEPT ![t] = AfterLocking(work[t].todo \ {l})]
          /\ UNCHANGED <<store, req, draft, tries>>
    BY DEF LockLoss, TrackLoss
  <1>2. l \in work[t].todo /\ l \in Loss /\ work[t] \in Work
    BY DEF Least, TypeOK, Work
  <1>3. /\ work'[t].todo = work[t].todo \ {l}
        /\ work'[t].tracked = work[t].tracked \cup {l}
        /\ work'[t].base = [work[t].base EXCEPT ![l] = version[l]]
        /\ work'[t].next = work[t].next /\ work'[t].born = work[t].born
        /\ work'[t].gone = work[t].gone
        /\ work'[t] \in Work
    <2>1. work'[t] = [work[t] EXCEPT !.todo = @ \ {l}, !.tracked = @ \cup {l},
                                     !.base[l] = version[l]]
      BY <1>1 DEF TypeOK
    <2>2. /\ version[l] \in Nat /\ work[t].todo \ {l} \in SUBSET Loss
          /\ work[t].tracked \cup {l} \in SUBSET Loss
          /\ [work[t].base EXCEPT ![l] = version[l]] \in [Loss -> Nat]
      BY <1>2 DEF Work, TypeOK
    <2>. QED
      BY <1>2, <2>1, <2>2 DEF Work
  <1>4. /\ pc[t] = "lock" /\ pc'[t] \in {"lock", "fetch"}
        /\ pc'[t] = "fetch" => work[t].todo \ {l} = {}
    BY <1>1 DEF LockLoss, TypeOK, AfterLocking
  <1>5. \A u \in Tx \ {t} : /\ pc'[u] = pc[u] /\ work'[u] = work[u]
                            /\ \A n \in Item : lock[n] = u => lock'[n] = u
    BY <1>1, NoTxAssumption DEF TypeOK
  <1>6. TypeOK'
    BY <1>1, <1>3, <1>4 DEF TypeOK, LockLoss, store, PC, AfterLocking
  <1>7. UNCHANGED <<store, req, draft>>
    BY <1>1
  <1>8. TxInv(t)'
    <2>. USE DEF TxInv
    <2>1. LockingFirst(t)'
      BY <1>3, <1>4, <1>7 DEF LockingFirst
    <2>2. NothingSkipped(t)'
      BY <1>2, <1>3, <1>4, <1>7 DEF NothingSkipped, Active
    <2>3. HoldsLocks(t)'
      <3>1. \A n \in Item : lock[n] = t => lock'[n] = t
        BY <1>1 DEF TypeOK
      <3>2. lock'[l] = t
        BY <1>1, <1>2 DEF TypeOK, Item
      <3>. QED
        BY <1>2, <1>3, <1>4, <3>1, <3>2 DEF HoldsLocks, Active, Creating, Work, Item
    <2>4. GuardsCurrent(t)'
      BY <1>1, <1>3, <1>4, <1>7 DEF GuardsCurrent, Active, Guarded, store
    <2>5. BaseCurrent(t)'
      <3>1. work[t].base \in [Loss -> Nat] /\ work[t].tracked \subseteq Loss
        BY <1>2 DEF Work
      <3>2. work'[t].base[l] = version[l]
        BY <1>2, <1>3, <3>1
      <3>3. \A m \in work[t].tracked \ {l} : work'[t].base[m] = work[t].base[m]
        BY <1>3, <3>1
      <3>4. live' = live /\ version' = version
        BY <1>7 DEF store
      <3>. QED
        BY <1>1, <1>3, <1>4, <3>2, <3>3, <3>4 DEF BaseCurrent, Active
    <2>6. BornOnce(t)'
      BY <1>3, <1>4, <1>7 DEF BornOnce, Active, Creating
    <2>7. PendingResolved(t)'
      BY <1>4 DEF PendingResolved
    <2>. QED
      BY <2>1, <2>2, <2>3, <2>4, <2>5, <2>6, <2>7
  <1>. QED
    BY <1>4, <1>5, <1>6, <1>7, <1>8, PrivateStep

LEMMA AcquireInv ==
  ASSUME ProtocolInv, NEW t \in Tx, Acquire(t)
  PROVE  ProtocolInv'
  <1>. USE DEF ProtocolInv
  <1>1. TypeOK'
    BY DEF TypeOK, Acquire, store
  <1>2. \A u \in Tx : \A n \in Item : lock[n] = u => lock'[n] = u
    BY NoTxAssumption DEF TypeOK, Acquire
  <1>3. \A u \in Tx : TxInv(u)'
    BY <1>2, Bystander DEF Acquire, store
  <1>4. (AbsentIsZero /\ AuthorsPast /\ OneAuthorPerRevision)'
    BY DEF Acquire, store, AbsentIsZero, AuthorsPast, OneAuthorPerRevision
  <1>. QED
    BY <1>1, <1>3, <1>4

\* Executing an operation: the Losses a new edge names are locked already,
\* by this request's precondition or because it created them.
LEMMA FetchOpInv ==
  ASSUME ProtocolInv, NEW t \in Tx, FetchOp(t)
  PROVE  ProtocolInv'
  <1>. TypeOK /\ TxInv(t)
    BY DEF ProtocolInv
  <1>. DEFINE o == CurrentOp(t)
              new == IF o.kind = "link" THEN {e.loss : e \in Resolve(t, o.edge)} ELSE {}
  <1>1. /\ pc[t] = "fetch" /\ ValidOp(t) /\ ~Creates(o)
        /\ work' = [work EXCEPT ![t].tracked = @ \cup (new \ @)]
        /\ pc' = [pc EXCEPT ![t] = "write"]
        /\ UNCHANGED <<store, lock, req, draft, tries>>
    <2>1. FetchOp(t)
      OBVIOUS
    <2>. QED
      BY <2>1 DEF FetchOp
  <1>2. /\ req[t] \in Request /\ WellFormed(req[t])
        /\ work[t].next \in 1..Len(req[t].ops) /\ o \in Op
    BY <1>1, RequestType DEF TxInv, LockingFirst, CurrentOp
  <1>3. work[t] \in Work /\ work[t].tracked \subseteq Loss
    BY DEF TypeOK, Work
  <1>4. SeesNode(t, NewRef) => FALSE
    BY ItemType, ItemAssumption, BoundsAssumption DEF Item
  <1>5. o.kind = "link" => /\ Resolve(t, o.edge) \subseteq Edge
                           /\ new \subseteq work[t].tracked \cup ({work[t].born} \ {NewRef})
    <2>. SUFFICES ASSUME o.kind = "link", NEW e \in o.edge
                  PROVE  /\ [src |-> ResolveRef(t, e.src), tgt |-> e.tgt,
                              loss |-> ResolveRef(t, e.loss)] \in Edge
                         /\ ResolveRef(t, e.loss) \in
                              work[t].tracked \cup ({work[t].born} \ {NewRef})
      BY DEF Resolve
    <2>. DEFINE r == [src |-> ResolveRef(t, e.src), tgt |-> e.tgt,
                      loss |-> ResolveRef(t, e.loss)]
    <2>1. r \in Resolve(t, o.edge)
      BY DEF Resolve
    <2>2. SeesNode(t, r.src) /\ SeesNode(t, r.loss)
      BY <1>1, <2>1 DEF ValidOp, OpRefs, Ends
    <2>3. /\ e.src \in Node \cup Loss \cup {NewRef} /\ e.tgt \in Node
          /\ e.loss \in Loss \cup {NewRef}
          /\ e.src \in Loss \cup {NewRef} => e.src = e.loss
      BY <1>2 DEF Op, EdgeOver
    <2>4. work[t].born \in Loss \cup {NewRef}
      BY <1>3 DEF Work
    <2>5. r.src \in Node \cup Loss /\ r.loss \in Loss
      BY <1>4, <2>2, <2>3, <2>4 DEF ResolveRef
    <2>6. r.src \in Loss => r.src = r.loss
      BY <2>3, <2>4, <2>5, ItemAssumption DEF ResolveRef
    <2>7. r \in Edge
      BY <2>3, <2>5, <2>6 DEF Edge, EdgeOver
    <2>8. CASE e.loss = NewRef
      BY <2>5, <2>7, <2>8 DEF ResolveRef
    <2>9. CASE e.loss # NewRef
      <3>1. o \in OpsOf(req[t]) /\ req[t].tool = "sstpa.loss"
        BY <1>2 DEF OpsOf, CurrentOp, WellFormed
      <3>2. e.loss \in NamedBy(req[t])
        BY <2>9, <3>1 DEF NamedBy
      <3>3. e.loss \in work[t].tracked
        BY <1>1, <3>1, <3>2 DEF TxInv, NothingSkipped, Active, LockingFirst
      <3>. QED
        BY <2>7, <2>9, <3>3 DEF ResolveRef
    <2>. QED
      BY <2>8, <2>9
  <1>6. /\ work'[t].tracked = work[t].tracked \cup new
        /\ work'[t].next = work[t].next /\ work'[t].born = work[t].born
        /\ work'[t].gone = work[t].gone /\ work'[t].todo = work[t].todo
        /\ work'[t].base = work[t].base
        /\ work'[t] \in Work
    <2>1. work'[t] = [work[t] EXCEPT !.tracked = @ \cup (new \ @)]
      BY <1>1 DEF TypeOK
    <2>2. work[t].tracked \cup (new \ work[t].tracked) \in SUBSET Loss
      BY <1>3, <1>5 DEF Work
    <2>. QED
      BY <1>3, <2>1, <2>2 DEF Work
  <1>7. new \subseteq work[t].tracked \cup ({work[t].born} \ {NewRef})
    BY <1>5
  <1>8. \A u \in Tx \ {t} : pc'[u] = pc[u] /\ work'[u] = work[u]
    BY <1>1 DEF TypeOK
  <1>9. pc'[t] = "write"
    BY <1>1 DEF TypeOK
  <1>10. TypeOK'
    BY <1>1, <1>6 DEF TypeOK, store, PC
  <1>11. CurrentOp(t)' = o /\ ~Creating(t)' /\ ~Creating(t)
    BY <1>1, <1>6 DEF CurrentOp, Creating
  <1>. HIDE DEF new, o
  <1>12. TxInv(t)'
    <2>. USE DEF TxInv
    <2>1. LockingFirst(t)' /\ NothingSkipped(t)'
      BY <1>1, <1>6, <1>9 DEF LockingFirst, NothingSkipped, Active
    <2>2. HoldsLocks(t)'
      BY <1>1, <1>6, <1>7, <1>9, <1>11 DEF HoldsLocks, Active
    <2>3. GuardsCurrent(t)' /\ BaseCurrent(t)'
      BY <1>1, <1>6, <1>7, <1>9 DEF GuardsCurrent, BaseCurrent, Active, store
    <2>4. BornOnce(t)'
      BY <1>1, <1>6, <1>9, <1>11 DEF BornOnce, Active
    <2>5. PendingResolved(t)'
      <3>1. Resolve(t, CurrentOp(t).edge)' = Resolve(t, CurrentOp(t).edge)
        BY <1>6, <1>11 DEF Resolve, ResolveRef, o
      <3>2. o.kind = "link" => \A e \in Resolve(t, o.edge) : e.loss \in work'[t].tracked
        BY <1>6 DEF new
      <3>. QED
        BY <1>5, <1>11, <3>1, <3>2 DEF PendingResolved, o
    <2>. QED
      BY <2>1, <2>2, <2>3, <2>4, <2>5
  <1>. QED
    BY <1>1, <1>8, <1>9, <1>10, <1>12, PrivateStep

\* A request has one creating operation, so the HID it takes is its first.
LEMMA AssignHIDInv ==
  ASSUME ProtocolInv, NEW t \in Tx, AssignHID(t)
  PROVE  ProtocolInv'
  <1>. TypeOK /\ TxInv(t)
    BY DEF ProtocolInv
  <1>1. PICK l \in Loss : work' = [work EXCEPT ![t].born = l]
    BY DEF AssignHID
  <1>2. /\ pc[t] = "fetch" /\ Creates(CurrentOp(t))
        /\ pc' = [pc EXCEPT ![t] = "write"]
        /\ UNCHANGED <<store, lock, req, draft, tries>>
    BY DEF AssignHID
  <1>3. work[t].next \in 1..Len(req[t].ops) /\ WellFormed(req[t])
    BY <1>2, RequestType DEF TxInv, LockingFirst
  <1>4. work[t].born = NewRef
    BY <1>2, <1>3, BoundsAssumption DEF TxInv, BornOnce, Active, WellFormed, CurrentOp
  <1>5. /\ work[t] \in Work /\ work[t].tracked \subseteq Loss /\ NewRef \notin Loss
        /\ l # NewRef
    BY BoundsAssumption DEF TypeOK, Work
  <1>6. /\ work'[t].born = l
        /\ work'[t].next = work[t].next /\ work'[t].tracked = work[t].tracked
        /\ work'[t].gone = work[t].gone /\ work'[t].todo = work[t].todo
        /\ work'[t].base = work[t].base
        /\ work'[t] \in Work
    <2>1. work'[t] = [work[t] EXCEPT !.born = l]
      BY <1>1 DEF TypeOK
    <2>. QED
      BY <1>5, <2>1 DEF Work
  <1>7. \A u \in Tx \ {t} : pc'[u] = pc[u] /\ work'[u] = work[u]
    BY <1>1, <1>2 DEF TypeOK
  <1>8. pc'[t] = "write"
    BY <1>2 DEF TypeOK
  <1>9. TypeOK'
    BY <1>1, <1>2, <1>6 DEF TypeOK, store, PC
  <1>10. CurrentOp(t)' = CurrentOp(t) /\ Creating(t)'
    BY <1>2, <1>6, <1>8 DEF CurrentOp, Creating
  <1>11. TxInv(t)'
    <2>. USE DEF TxInv
    <2>1. LockingFirst(t)' /\ NothingSkipped(t)'
      BY <1>2, <1>6, <1>8 DEF LockingFirst, NothingSkipped, Active
    <2>2. HoldsLocks(t)'
      BY <1>2, <1>6, <1>8, <1>10 DEF HoldsLocks, Active
    <2>3. GuardsCurrent(t)' /\ BaseCurrent(t)'
      BY <1>2, <1>4, <1>5, <1>6, <1>8 DEF GuardsCurrent, BaseCurrent, Active, store
    <2>4. BornOnce(t)'
      BY <1>2, <1>3, <1>5, <1>6, <1>8 DEF BornOnce, CurrentOp
    <2>5. PendingResolved(t)'
      BY <1>2, <1>10 DEF PendingResolved, Creates
    <2>. QED
      BY <2>1, <2>2, <2>3, <2>4, <2>5
  <1>. QED
    BY <1>2, <1>7, <1>8, <1>9, <1>11, PrivateStep

\* What an operation deletes or creates it has locked.
LEMMA WriteOpInv ==
  ASSUME ProtocolInv, NEW t \in Tx, WriteOp(t)
  PROVE  ProtocolInv'
  <1>. TypeOK /\ TxInv(t)
    BY DEF ProtocolInv
  <1>. DEFINE o == CurrentOp(t)
              added == Found(t, AddsOf(t))
              edited == IF o.kind = "update" THEN {n \in o.items : SeesNode(t, n)} ELSE {}
              gone == IF o.kind = "delete" THEN {n \in o.items : SeesNode(t, n)} ELSE {}
              fresh == IF o.kind = "createTree" THEN {work[t].born} ELSE {}
              rebased == IF o.kind = "createTree"
                         THEN [work[t].base EXCEPT ![work[t].born] = 0]
                         ELSE work[t].base
  <1>1. /\ pc[t] = "write" /\ Missing(t) = {}
        /\ pc' = [pc EXCEPT ![t] = AfterOp(t)]
        /\ UNCHANGED <<store, lock, req, draft, tries>>
        /\ work' = [work EXCEPT ![t].adds    = (@ \ DelsOf(t)) \cup added,
                                ![t].dels    = (@ \cup DelsOf(t)) \ added,
                                ![t].edited  = @ \cup edited,
                                ![t].gone    = @ \cup gone,
                                ![t].tracked = @ \cup fresh,
                                ![t].base    = rebased,
                                ![t].next    = @ + 1]
    <2>1. WriteOp(t)
      OBVIOUS
    <2>. QED
      BY <2>1 DEF WriteOp
  <1>2. /\ req[t] \in Request /\ WellFormed(req[t])
        /\ work[t].next \in 1..Len(req[t].ops) /\ o \in Op
    BY <1>1, RequestType DEF TxInv, LockingFirst, CurrentOp
  <1>3. /\ work[t] \in Work /\ work[t].tracked \subseteq Loss /\ NewRef \notin Loss
        /\ work[t].born \in Loss \cup {NewRef} /\ work[t].base \in [Loss -> Nat]
    <2>1. work[t] \in Work
      BY DEF TypeOK
    <2>. QED
      BY <2>1, BoundsAssumption DEF Work
  <1>4. DelsOf(t) \subseteq Edge
    BY SeenEdgeType DEF DelsOf, EdgesAt
  <1>5. AddsOf(t) \subseteq Edge
    <2>1. Builds(o) => o.edge \subseteq Edge
      BY <1>2 DEF WellFormed, CurrentOp
    <2>2. o.kind = "link" => Resolve(t, o.edge) \subseteq Edge
      BY <1>1 DEF TxInv, PendingResolved
    <2>. QED
      BY <2>1, <2>2 DEF AddsOf, Builds
  <1>6. added \subseteq Edge /\ edited \subseteq Item /\ gone \subseteq Item
    BY <1>5, ItemType DEF Found
  <1>7. Creates(o) => work[t].born \in Loss /\ lock[work[t].born] = t
    <2>. SUFFICES ASSUME Creates(o) PROVE work[t].born \in Loss /\ lock[work[t].born] = t
      OBVIOUS
    <2>1. work[t].born \in Loss
      BY <1>1, <1>3 DEF TxInv, BornOnce, Creating
    <2>2. work[t].born \in Needs(t)
      BY DEF Needs
    <2>. QED
      BY <1>1, <2>1, <2>2 DEF Missing
  <1>8. \A n \in gone : lock[n] = t
    <2>. SUFFICES ASSUME o.kind = "delete", NEW n \in o.items, SeesNode(t, n)
                  PROVE  lock[n] = t
      OBVIOUS
    <2>1. n \in Needs(t)
      BY DEF Needs, Creates
    <2>. QED
      BY <1>1, <2>1 DEF Missing
  <1>9. fresh \subseteq Loss /\ rebased \in [Loss -> Nat]
    BY <1>3, <1>7 DEF Creates
  <1>. HIDE DEF added, edited, gone, fresh, rebased, o
  <1>10. /\ work'[t].tracked = work[t].tracked \cup fresh
         /\ work'[t].gone = work[t].gone \cup gone
         /\ work'[t].base = rebased
         /\ work'[t].next = work[t].next + 1
         /\ work'[t].born = work[t].born /\ work'[t].todo = work[t].todo
         /\ work'[t] \in Work
    <2>1. work'[t] = [work[t] EXCEPT !.adds    = (@ \ DelsOf(t)) \cup added,
                                     !.dels    = (@ \cup DelsOf(t)) \ added,
                                     !.edited  = @ \cup edited,
                                     !.gone    = @ \cup gone,
                                     !.tracked = @ \cup fresh,
                                     !.base    = rebased,
                                     !.next    = @ + 1]
      BY <1>1 DEF TypeOK
    <2>2. /\ (work[t].adds \ DelsOf(t)) \cup added \in SUBSET Edge
          /\ (work[t].dels \cup DelsOf(t)) \ added \in SUBSET Edge
          /\ work[t].edited \cup edited \in SUBSET Item
          /\ work[t].gone \cup gone \in SUBSET Item
          /\ work[t].tracked \cup fresh \in SUBSET Loss
          /\ work[t].next + 1 \in Nat \ {0}
      <3>1. /\ work[t].adds \subseteq Edge /\ work[t].dels \subseteq Edge
            /\ work[t].edited \subseteq Item /\ work[t].gone \subseteq Item
            /\ work[t].next \in Nat \ {0}
        BY <1>3 DEF Work
      <3>2. work[t].next + 1 \in Nat \ {0}
        BY <3>1
      <3>. QED
        BY <1>3, <1>4, <1>6, <1>9, <3>1, <3>2
    <2>. QED
      BY <1>3, <1>9, <2>1, <2>2 DEF Work
  <1>11. \A u \in Tx \ {t} : pc'[u] = pc[u] /\ work'[u] = work[u]
    BY <1>1 DEF TypeOK
  <1>12. pc'[t] = IF work[t].next = Len(req[t].ops) THEN "finish" ELSE "fetch"
    BY <1>1 DEF TypeOK, AfterOp
  <1>13. TypeOK'
    BY <1>1, <1>10 DEF TypeOK, store, PC, AfterOp
  <1>14. /\ fresh \subseteq {work[t].born}
         /\ fresh # {} => Creates(o)
    BY DEF fresh, Creates
  <1>15. TxInv(t)'
    <2>. USE DEF TxInv
    <2>1. Len(req[t].ops) \in Nat
      BY <1>2 DEF Request
    <2>2. LockingFirst(t)'
      <3>1. work[t].todo = {}
        BY <1>1 DEF LockingFirst
      <3>2. pc'[t] # "finish" => work[t].next + 1 \in 1..Len(req[t].ops)
        BY <1>2, <1>12, <2>1
      <3>. QED
        BY <1>1, <1>10, <1>12, <3>1, <3>2 DEF LockingFirst
    <2>3. NothingSkipped(t)' /\ GuardsCurrent(t)'
      BY <1>1, <1>10, <1>12 DEF NothingSkipped, GuardsCurrent, Active, store
    <2>4. HoldsLocks(t)'
      <3>1. \A n \in fresh : lock[n] = t
        BY <1>7, <1>14
      <3>2. work[t].born # NewRef => lock[work[t].born] = t
        BY <1>1, <1>7 DEF HoldsLocks, Active, Creating, o
      <3>. QED
        BY <1>1, <1>8, <1>10, <3>1, <3>2 DEF HoldsLocks, Active
    <2>5. BaseCurrent(t)'
      <3>1. \A l \in work[t].tracked \ {work[t].born} :
              rebased[l] = work[t].base[l]
        BY <1>3 DEF rebased
      <3>. QED
        BY <1>1, <1>10, <1>14, <3>1 DEF BaseCurrent, Active, store
    <2>6. BornOnce(t)'
      <3>1. work[t].born # NewRef =>
              \E i \in 1..Len(req[t].ops) :
                Creates(req[t].ops[i]) /\ i < work[t].next + 1
        BY <1>1, <1>2, <2>1 DEF BornOnce, Active
      <3>2. pc'[t] # "write" /\ req' = req
        BY <1>1, <1>12
      <3>. QED
        BY <1>10, <3>1, <3>2 DEF BornOnce, Creating
    <2>7. PendingResolved(t)'
      BY <1>12 DEF PendingResolved
    <2>. QED
      BY <2>2, <2>3, <2>4, <2>5, <2>6, <2>7
  <1>16. pc'[t] # "committed"
    BY <1>12
  <1>. QED
    BY <1>1, <1>11, <1>13, <1>15, <1>16, PrivateStep

\* A commit changes only Losses it has locked, and puts their revision past
\* every revision an earlier commit was based on.
LEMMA CommitInv ==
  ASSUME ProtocolInv, NEW t \in Tx, Commit(t)
  PROVE  ProtocolInv'
  <1>. TypeOK /\ TxInv(t) /\ AbsentIsZero
    BY DEF ProtocolInv
  <1>1. /\ pc[t] = "finish"
        /\ live' = (live \ work[t].gone) \cup Born(t)
        /\ edges' = (edges \ work[t].dels) \cup work[t].adds
        /\ pc' = [pc EXCEPT ![t] = "committed"]
        /\ Release(t)
        /\ UNCHANGED <<req, draft, work, tries>>
    BY DEF Commit
  <1>2. /\ \A l \in Loss : version'[l] =
             IF l \notin live' THEN 0
             ELSE IF l \in work[t].tracked THEN work[t].base[l] + 1
             ELSE IF l \in Born(t) THEN 0 ELSE version[l]
        /\ \A l \in Loss : uuid'[l] = IF l \in Born(t) THEN t ELSE uuid[l]
    BY DEF Commit
  <1>3. /\ work[t].tracked \subseteq Loss /\ work[t].base \in [Loss -> Nat]
        /\ work[t].gone \subseteq Item /\ Born(t) \subseteq Loss
        /\ work[t].adds \subseteq Edge
    <2>1. work[t] \in Work
      BY DEF TypeOK
    <2>. QED
      BY <2>1 DEF Work, Born
  <1>14. \A l \in Loss : work[t].base[l] \in Nat /\ work[t].base[l] + 1 \in Nat
    <2>1. \A l \in Loss : work[t].base[l] \in Nat
      BY <1>3
    <2>. QED
      BY <2>1
  <1>4. TypeOK'
    <2>1. version' \in [Loss -> Nat]
      BY <1>14 DEF Commit, TypeOK
    <2>2. uuid' \in [Loss -> Tx \cup {Original}]
      BY DEF Commit, TypeOK
    <2>3. writer' \in [Item -> Tx \cup {Original}]
      BY DEF Commit, TypeOK
    <2>4. live' \subseteq Item /\ edges' \subseteq Edge
      BY <1>1, <1>3 DEF TypeOK, Item
    <2>5. lock' \in [Item -> Tx \cup {NoTx}]
      BY <1>1 DEF TypeOK, Release
    <2>6. pc' \in [Tx -> PC]
      BY <1>1 DEF TypeOK, PC, Done
    <2>. QED
      BY <1>1, <2>1, <2>2, <2>3, <2>4, <2>5, <2>6 DEF TypeOK
  <1>5. \A n \in work[t].tracked \cup work[t].gone \cup Born(t) : lock[n] = t
    BY <1>1 DEF TxInv, HoldsLocks, Active, Creating, Born
  <1>6. \A l \in work[t].tracked \ Born(t) :
          l \in live /\ work[t].base[l] = version[l]
    <2>1. \A l \in work[t].tracked : l # NewRef
      BY <1>3, BoundsAssumption
    <2>. QED
      BY <1>1, <2>1 DEF TxInv, BaseCurrent, Active, Born
  <1>7. \A u \in Tx \ {t} : TxInv(u)'
    <2>. SUFFICES ASSUME NEW u \in Tx \ {t} PROVE TxInv(u)'
      OBVIOUS
    <2>1. pc'[u] = pc[u] /\ work'[u] = work[u]
      BY <1>1 DEF TypeOK
    <2>2. \A n \in Item : lock[n] = u => lock'[n] = u
      BY <1>1 DEF Release
    <2>3. \A l \in Loss : lock[l] = u => version'[l] = version[l]
      BY <1>1, <1>2, <1>5 DEF AbsentIsZero
    <2>4. \A l \in Loss : lock[l] = u /\ l \in live => l \in live'
      BY <1>1, <1>5
    <2>. QED
      BY <1>1, <2>1, <2>2, <2>3, <2>4, Bystander DEF ProtocolInv
  <1>8. TxInv(t)'
    <2>1. pc'[t] = "committed"
      BY <1>1 DEF TypeOK
    <2>. QED
      BY <2>1, InactiveNext
  <1>9. AbsentIsZero'
    BY <1>2 DEF AbsentIsZero
  <1>10. \A v \in Tx \ {t} : pc'[v] = pc[v]
    BY <1>1 DEF TypeOK
  <1>11. \A l \in Loss : uuid'[l] = Original =>
           /\ uuid[l] = Original /\ l \notin Born(t)
           /\ l \in live' => l \in live
    BY <1>1, <1>2, NoTxAssumption
  <1>12. AuthorsPast'
    <2>. SUFFICES ASSUME NEW v \in Tx, NEW l \in Loss, pc'[v] = "committed",
                         l \in work[v].tracked, uuid'[l] = Original, l \in live'
                  PROVE  work[v].base[l] < version'[l]
      BY <1>1 DEF AuthorsPast
    <2>1. CASE v = t
      <3>1. version'[l] = work[t].base[l] + 1
        BY <1>2, <2>1
      <3>. QED
        BY <1>14, <2>1, <3>1
    <2>2. CASE v # t
      <3>1. work[v].base[l] < version[l]
        BY <1>10, <1>11, <2>2 DEF ProtocolInv, AuthorsPast
      <3>2. work[v].base[l] \in Nat /\ version[l] \in Nat
        BY DEF TypeOK, Work
      <3>3. version'[l] = version[l] + 1 \/ version'[l] = version[l]
        BY <1>2, <1>6, <1>11
      <3>. QED
        BY <3>1, <3>2, <3>3
    <2>. QED
      BY <2>1, <2>2
  <1>13. OneAuthorPerRevision'
    <2>. SUFFICES ASSUME NEW l \in Loss, uuid'[l] = Original,
                         NEW v \in Tx, NEW u \in Tx, v # u,
                         pc'[v] = "committed", pc'[u] = "committed",
                         l \in work[v].tracked, l \in work[u].tracked
                  PROVE  work[v].base[l] # work[u].base[l]
      BY <1>1 DEF OneAuthorPerRevision
    <2>1. \A x \in Tx \ {t} : pc[x] = "committed" /\ l \in work[x].tracked
            /\ l \in work[t].tracked => work[x].base[l] # work[t].base[l]
      <3>. SUFFICES ASSUME NEW x \in Tx \ {t}, pc[x] = "committed",
                           l \in work[x].tracked, l \in work[t].tracked
                    PROVE  work[x].base[l] # work[t].base[l]
        OBVIOUS
      <3>1. l \in live /\ work[t].base[l] = version[l]
        BY <1>6, <1>11
      <3>2. work[x].base[l] < version[l]
        BY <1>11, <3>1 DEF ProtocolInv, AuthorsPast
      <3>3. work[x].base[l] \in Nat /\ version[l] \in Nat
        BY DEF TypeOK, Work
      <3>. QED
        BY <3>1, <3>2, <3>3
    <2>2. CASE v # t /\ u # t
      BY <1>10, <1>11, <2>2 DEF ProtocolInv, OneAuthorPerRevision
    <2>. QED
      BY <1>10, <2>1, <2>2
  <1>. QED
    BY <1>4, <1>7, <1>8, <1>9, <1>12, <1>13 DEF ProtocolInv

\* The invariant is inductive.
LEMMA StepInv == ProtocolInv /\ [Next]_vars => ProtocolInv'
  <1>. SUFFICES ASSUME ProtocolInv, [Next]_vars PROVE ProtocolInv'
    OBVIOUS
  <1>. DEFINE Aborts(t) ==
         \E o \in ({"begin"} \cup Done) \ {"committed"} :
           Abort(t, o) /\ tries' \in [Tx -> Nat]
  <1>1. \A t \in Tx : Aborts(t) => ProtocolInv'
    BY AbortInv
  <1>2. tries \in [Tx -> Nat]
    BY DEF ProtocolInv, TypeOK
  <1>3. ASSUME NEW t \in Tx,
               \/ PreconditionMissing(t) \/ RevisionConflict(t) \/ LossGone(t)
               \/ RejectOp(t) \/ DuplicateHID(t) \/ Refuse(t)
        PROVE  Aborts(t)
    <2>1. \E o \in {"conflict", "lossGone", "rejected"} : Abort(t, o) /\ tries' = tries
      BY <1>3 DEF PreconditionMissing, RevisionConflict, LossGone, RejectOp,
                  DuplicateHID, Refuse
    <2>. QED
      BY <1>2, <2>1 DEF Done
  <1>4. ASSUME NEW t \in Tx, DeadlockVictim(t) PROVE Aborts(t)
    <2>1. tries' \in [Tx -> Nat]
      BY <1>2, <1>4 DEF DeadlockVictim
    <2>2. Abort(t, "begin") \/ Abort(t, "failed")
      BY <1>4 DEF DeadlockVictim
    <2>. QED
      BY <2>1, <2>2 DEF Done
  <1>5. ASSUME NEW t \in Tx, Load(t) \/ Serve(t) PROVE ProtocolInv'
    BY <1>1, <1>3, <1>4, <1>5, LoadInv, BeginInv, LockLossInv, FetchOpInv, AssignHIDInv,
       AcquireInv, WriteOpInv, CommitInv DEF Serve, Proceed
  <1>6. CASE UNCHANGED vars
    <2>1. TypeOK'
      BY <1>6 DEF ProtocolInv, TypeOK, vars
    <2>2. \A u \in Tx : TxInv(u)'
      BY <1>6, Bystander DEF ProtocolInv, vars
    <2>3. (AbsentIsZero /\ AuthorsPast /\ OneAuthorPerRevision)'
      BY <1>6 DEF ProtocolInv, vars, AbsentIsZero, AuthorsPast, OneAuthorPerRevision
    <2>. QED
      BY <2>1, <2>2, <2>3 DEF ProtocolInv
  <1>. QED
    BY <1>5, <1>6 DEF Next, Finished

\* Every behaviour keeps the locking protocol's invariant.
THEOREM ProtocolSafe == Spec => []ProtocolInv
  BY InitInv, StepInv, PTL DEF Spec

\* Every variable keeps its type, whatever the requests.
THEOREM TypeCorrect == Spec => []TypeOK
  <1>1. ProtocolInv => TypeOK
    BY DEF ProtocolInv
  <1>. QED
    BY <1>1, ProtocolSafe, PTL

\* No two committed requests continued the same revision of the same Loss.
THEOREM OneAuthor == Spec => []OneAuthorPerRevision
  <1>1. ProtocolInv => OneAuthorPerRevision
    BY DEF ProtocolInv
  <1>. QED
    BY <1>1, ProtocolSafe, PTL

\* A commit takes effect only on the revisions its client read.
THEOREM GuardedCommit == Spec => GuardHolds
  <1>1. ProtocolInv /\ [Next]_vars =>
          [\A t \in Tx : Commits(t) =>
             \A l \in req[t].guards : draft[t].version[l] = version[l]]_vars
    <2>. SUFFICES ASSUME ProtocolInv, [Next]_vars, NEW t \in Tx, Commits(t),
                         NEW l \in req[t].guards
                  PROVE  draft[t].version[l] = version[l]
      OBVIOUS
    <2>1. Commit(t)
      <3>1. PICK u \in Tx : Load(u) \/ Serve(u)
        BY DEF Next, Finished, Commits, vars
      <3>2. \A x \in Tx \ {u} : pc'[x] = pc[x]
        BY <3>1 DEF Serve, Proceed, Load, Begin, LockLoss, PreconditionMissing, RevisionConflict, TrackLoss,
          LossGone, FetchOp, AssignHID, RejectOp, Acquire, WriteOp, DuplicateHID,
          Refuse, Commit, DeadlockVictim, Abort, ProtocolInv, TypeOK
      <3>3. u = t
        BY <3>2 DEF Commits
      <3>4. ~Commit(t) => pc'[t] # "committed"
        BY <3>1, <3>3 DEF Serve, Proceed, Load, Begin, LockLoss, TrackLoss, PreconditionMissing,
          RevisionConflict, LossGone, FetchOp, AssignHID, RejectOp, Acquire, WriteOp,
          DuplicateHID, Refuse, DeadlockVictim, Abort, AfterLocking, AfterOp,
          ProtocolInv, TypeOK, Commits
      <3>. QED
        BY <3>4 DEF Commits
    <2>2. pc[t] = "finish" /\ TxInv(t)
      BY <2>1 DEF Commit, ProtocolInv
    <2>. QED
      BY <2>2 DEF TxInv, GuardsCurrent, LockingFirst, Active
  <1>. QED
    BY <1>1, ProtocolSafe, PTL DEF Spec, GuardHolds
-----------------------------------------------------------------------------

HIDE DEF Loss, NewRef

\* One transaction's part of the invariant.
TreesTx(t) ==
  /\ WritesHeld(t) /\ GoneAreBare(t) /\ ChangesNamed(t)
  /\ BaseFrom(t) /\ LocksInOrder(t) /\ DependentsFound(t)

\* What a step does to the trees others may hold drafts of: a tree that keeps
\* its revision gets no new edge, and a Loss created again has a new creator.
TreeKept(l) ==
  l \in live' =>
    \/ uuid'[l] \in Tx /\ pc[uuid'[l]] # "committed"
    \/ /\ l \in live /\ uuid'[l] = uuid[l] /\ version[l] <= version'[l]
       /\ version'[l] = version[l] => TreeOf(l)' \subseteq TreeOf(l)

LEMMA SameTreeKept ==
  ASSUME TypeOK, UNCHANGED store, NEW l \in Loss
  PROVE  TreeKept(l)
  <1>1. TreeOf(l)' = TreeOf(l) /\ version'[l] = version[l] /\ version[l] \in Nat
    BY DEF TreeOf, store, TypeOK
  <1>. QED
    BY <1>1 DEF TreeKept, store

\* A transaction that is not running has nothing at stake but its locks.
LEMMA InactiveTrees ==
  ASSUME NEW t \in Tx, pc'[t] \notin {"lock", "fetch", "write", "finish"},
         \A n \in Item : lock'[n] # t
  PROVE  TreesTx(t)'
  BY DEF Active, TreesTx, WritesHeld, GoneAreBare, ChangesNamed, BaseFrom, LocksInOrder,
         DependentsFound

\* A transaction that keeps its private state, and its locks or more of them,
\* keeps its part of the invariant while others change only what it has not locked.
LEMMA TreesBystander ==
  ASSUME TypeOK, NEW u \in Tx, TxInv(u), TreesTx(u),
         pc'[u] = pc[u], work'[u] = work[u], req' = req,
         \A v \in Tx : pc[v] = "committed" => pc'[v] = "committed",
         \A n \in Item : lock[n] = u => lock'[n] = u,
         pc[u] # "write" => \A n \in Item : lock'[n] = u => lock[n] = u,
         \A l \in Loss : lock[l] = u => version'[l] = version[l],
         \A n \in Item : lock[n] = u /\ n \in live => n \in live',
         edges' \subseteq Edge,
         \A e \in edges' \ edges : lock[e.src] # u /\ lock[e.tgt] # u,
         \A l \in Loss : TreeKept(l),
         version' \in [Loss -> Nat]
  PROVE  TreesTx(u)'
  <1>1. work[u] \in Work
    BY DEF TypeOK
  <1>2. /\ work[u].tracked \subseteq Loss /\ work[u].gone \subseteq Item
        /\ work[u].adds \subseteq Edge /\ work[u].seen \in Revisions
    BY <1>1 DEF Work
  <1>3. Active(u)' = Active(u) /\ Born(u)' = Born(u)
    BY DEF Active, Born
  <1>4. Active(u) => \A n \in work[u].tracked \cup work[u].gone : lock[n] = u
    BY DEF TxInv, HoldsLocks
  <1>5. WritesHeld(u)'
    <2>1. \A e \in work[u].adds : e.src \in Item /\ e.tgt \in Item
      BY <1>2 DEF Edge, EdgeOver, Item
    <2>. QED
      BY <1>3, <2>1 DEF TreesTx, WritesHeld, SeesNode
  <1>6. GoneAreBare(u)'
    BY <1>3, <1>4 DEF TreesTx, GoneAreBare, SeesEdge
  <1>7. ChangesNamed(u)'
    BY <1>3 DEF TreesTx, ChangesNamed
  <1>8. BaseFrom(u)'
    BY <1>2, <1>3, <1>4 DEF TreesTx, BaseFrom
  <1>9. LocksInOrder(u)'
    BY <1>3 DEF TreesTx, LocksInOrder, Active
  <1>10. DependentsFound(u)'
    <2>. SUFFICES ASSUME Active(u) PROVE DependentsFound(u)'
      BY <1>3 DEF DependentsFound
    <2>1. CreatorCommitted(work[u].seen.uuid) /\ CreatorCommitted(work[u].seen.uuid)'
      BY <1>2, NoTxAssumption DEF TreesTx, DependentsFound, CreatorCommitted, Revisions
    <2>2. ASSUME NEW l \in Loss, l \in live', uuid'[l] = work[u].seen.uuid[l]
          PROVE  /\ l \in live /\ uuid[l] = uuid'[l] /\ version[l] <= version'[l]
                 /\ version'[l] = version[l] => TreeOf(l)' \subseteq TreeOf(l)
                 /\ work[u].seen.version[l] <= version[l]
                 /\ {version[l], version'[l], work[u].seen.version[l]} \subseteq Nat
      <3>1. ~(uuid'[l] \in Tx /\ pc[uuid'[l]] # "committed")
        BY <2>1, <2>2, NoTxAssumption DEF CreatorCommitted
      <3>2. /\ l \in live /\ uuid[l] = uuid'[l] /\ version[l] <= version'[l]
            /\ version'[l] = version[l] => TreeOf(l)' \subseteq TreeOf(l)
        BY <2>2, <3>1 DEF TreeKept
      <3>3. {version[l], version'[l], work[u].seen.version[l]} \subseteq Nat
        BY <1>2 DEF TypeOK, Revisions
      <3>. QED
        BY <2>2, <3>2, <3>3 DEF TreesTx, DependentsFound
    <2>3. ASSUME NEW l \in Loss, l \in live', req[u].tool # "autobuild",
                 SameAsSeen(u, l)', EdgesAt(TreeOf(l), HidsOf(req[u]))' # {}
          PROVE  l \in work[u].todo \cup work[u].tracked
      <3>1. uuid'[l] = work[u].seen.uuid[l] /\ version'[l] = work[u].seen.version[l]
        BY <2>3 DEF SameAsSeen
      <3>2. version[l] = version'[l]
        BY <2>2, <2>3, <3>1
      <3>3. SameAsSeen(u, l) /\ l \in live /\ TreeOf(l)' \subseteq TreeOf(l)
        BY <2>2, <2>3, <3>1, <3>2 DEF SameAsSeen
      <3>4. EdgesAt(TreeOf(l), HidsOf(req[u])) # {}
        BY <2>3, <3>3 DEF EdgesAt
      <3>. QED
        BY <2>3, <3>3, <3>4 DEF TreesTx, DependentsFound
    <2>4. \A l \in live' \cap Loss :
            uuid'[l] = work[u].seen.uuid[l] => work[u].seen.version[l] <= version'[l]
      <3>1. \A a, b, c \in Nat : a <= b /\ b <= c => a <= c
        OBVIOUS
      <3>. QED
        BY <2>2, <3>1
    <2>. QED
      BY <2>1, <2>3, <2>4 DEF DependentsFound
  <1>. QED
    BY <1>5, <1>6, <1>7, <1>8, <1>9, <1>10 DEF TreesTx

\* A step of t that changes nothing the others can see but the locks.
LEMMA PrivateTrees ==
  ASSUME ProtocolInv, TreesInv, NEW t \in Tx, UNCHANGED <<store, req>>,
         pc[t] # "committed" \/ pc'[t] = "committed",
         \A u \in Tx \ {t} : /\ pc'[u] = pc[u] /\ work'[u] = work[u]
                             /\ \A n \in Item : lock'[n] = u <=> lock[n] = u,
         TreesTx(t)'
  PROVE  TreesInv'
  <1>. TypeOK /\ \A u \in Tx : TxInv(u)
    BY DEF ProtocolInv
  <1>1. \A v \in Tx : pc[v] = "committed" => pc'[v] = "committed"
    OBVIOUS
  <1>2. \A l \in Loss : TreeKept(l)
    BY SameTreeKept
  <1>3. \A u \in Tx \ {t} : TreesTx(u)'
    <2>. SUFFICES ASSUME NEW u \in Tx \ {t} PROVE TreesTx(u)'
      OBVIOUS
    <2>1. TreesTx(u)
      BY DEF TreesInv, TreesTx
    <2>2. edges' \subseteq Edge /\ version' \in [Loss -> Nat]
      BY DEF TypeOK, store
    <2>3. edges' = edges /\ live' = live /\ version' = version
      BY DEF store
    <2>. QED
      BY <1>1, <1>2, <2>1, <2>2, <2>3, TreesBystander
  <1>4. EdgesJoinLiveNodes'
    BY DEF TreesInv, EdgesJoinLiveNodes, store
  <1>5. CreatorCommitted(uuid)'
    BY <1>1 DEF TreesInv, CreatorCommitted, store, TypeOK
  <1>. QED
    BY <1>3, <1>4, <1>5 DEF TreesInv, TreesTx

LEMMA LoadTrees ==
  ASSUME ProtocolInv, TreesInv, NEW t \in Tx, Load(t)
  PROVE  TreesInv'
  <1>. TypeOK
    BY DEF ProtocolInv
  <1>1. /\ pc[t] = "idle" /\ pc'[t] = "begin" /\ \A u \in Tx \ {t} : pc'[u] = pc[u]
        /\ UNCHANGED <<store, lock, req, work>>
    BY DEF Load, TypeOK
  <1>2. \A n \in Item : lock'[n] # t
    BY <1>1 DEF TreesInv, LocksInOrder, Active
  <1>3. TreesTx(t)'
    BY <1>1, <1>2, InactiveTrees
  <1>. QED
    BY <1>1, <1>3, PrivateTrees

LEMMA AbortTrees ==
  ASSUME ProtocolInv, TreesInv, NEW t \in Tx, NEW o \in ({"begin"} \cup Done) \ {"committed"},
         pc[t] # "committed", Abort(t, o)
  PROVE  TreesInv'
  <1>. TypeOK
    BY DEF ProtocolInv
  <1>1. /\ pc'[t] = o /\ UNCHANGED <<store, req>>
        /\ \A u \in Tx \ {t} : pc'[u] = pc[u] /\ work'[u] = work[u]
    BY DEF Abort, TypeOK
  <1>2. /\ \A n \in Item : lock'[n] # t
        /\ \A u \in Tx \ {t} : \A n \in Item : lock'[n] = u <=> lock[n] = u
    BY NoTxAssumption DEF Abort, Release
  <1>3. TreesTx(t)'
    BY <1>1, <1>2, InactiveTrees DEF Done
  <1>. QED
    BY <1>1, <1>2, <1>3, PrivateTrees

\* The dependents looked up at the start are those of the trees as they are.
LEMMA BeginTrees ==
  ASSUME ProtocolInv, TreesInv, NEW t \in Tx, Begin(t)
  PROVE  TreesInv'
  <1>. TypeOK
    BY DEF ProtocolInv
  <1>. DEFINE todo == Explicit(req[t]) \cup Dependents(req[t])
              seen == [version |-> version, uuid |-> uuid]
  <1>1. /\ pc[t] = "begin" /\ pc' = [pc EXCEPT ![t] = AfterLocking(todo)]
        /\ work'[t] = [EmptyWork EXCEPT !.todo = todo, !.explicit = Explicit(req[t]),
                                         !.seen = seen]
        /\ \A u \in Tx \ {t} : work'[u] = work[u]
        /\ UNCHANGED <<store, lock, req, draft, tries>>
    BY DEF Begin, TypeOK
  <1>2. /\ work'[t].adds = {} /\ work'[t].dels = {} /\ work'[t].gone = {}
        /\ work'[t].edited = {} /\ work'[t].tracked = {} /\ work'[t].todo = todo
        /\ work'[t].base = [l \in Loss |-> 0] /\ work'[t].seen = seen
    BY <1>1 DEF EmptyWork
  <1>3. pc'[t] # "committed" /\ \A u \in Tx \ {t} : pc'[u] = pc[u]
    BY <1>1 DEF TypeOK, AfterLocking
  <1>4. \A n \in Item : lock'[n] # t
    BY <1>1 DEF TreesInv, LocksInOrder, Active
  <1>5. DependentsFound(t)'
    <2>1. CreatorCommitted(seen.uuid)'
      BY <1>1, <1>3 DEF TreesInv, CreatorCommitted, TypeOK, store
    <2>2. \A l \in live \cap Loss : version[l] <= version[l]
      BY DEF TypeOK
    <2>3. ASSUME NEW l \in Loss, req[t].tool # "autobuild",
                 EdgesAt(TreeOf(l), HidsOf(req[t])) # {}
          PROVE  l \in todo
      BY <2>3 DEF Dependents, EdgesAt, TreeOf
    <2>4. \A l \in Loss : EdgesAt(TreeOf(l), HidsOf(req[t]))' = EdgesAt(TreeOf(l), HidsOf(req[t]))
      BY <1>1 DEF EdgesAt, TreeOf, HidsOf, OpsOf, store
    <2>5. version' = version /\ uuid' = uuid /\ live' = live /\ req' = req
      BY <1>1 DEF store
    <2>. HIDE DEF todo
    <2>. QED
      BY <1>2, <2>1, <2>2, <2>3, <2>4, <2>5 DEF DependentsFound, SameAsSeen
  <1>6. TreesTx(t)'
    <2>1. WritesHeld(t)' /\ GoneAreBare(t)'
      BY <1>2 DEF WritesHeld, GoneAreBare
    <2>2. ChangesNamed(t)' /\ BaseFrom(t)'
      BY <1>2 DEF ChangesNamed, BaseFrom
    <2>3. LocksInOrder(t)'
      BY <1>2, <1>4 DEF LocksInOrder
    <2>. QED
      BY <1>5, <2>1, <2>2, <2>3 DEF TreesTx
  <1>. QED
    BY <1>1, <1>3, <1>6, PrivateTrees

\* A running transaction that drops no Loss it has to lock still has all the
\* dependents it found.
LEMMA DependentsStay ==
  ASSUME TypeOK, NEW t \in Tx, UNCHANGED <<store, req>>, Active(t), DependentsFound(t),
         \A v \in Tx : pc[v] = "committed" => pc'[v] = "committed",
         work'[t].seen = work[t].seen,
         work[t].todo \cup work[t].tracked \subseteq work'[t].todo \cup work'[t].tracked
  PROVE  DependentsFound(t)'
  <1>1. work[t].seen \in Revisions
    BY DEF TypeOK, Work
  <1>2. live' = live /\ edges' = edges /\ version' = version /\ uuid' = uuid /\ req' = req
    BY DEF store
  <1>3. \A m \in Loss : /\ SameAsSeen(t, m)' <=> SameAsSeen(t, m)
                        /\ EdgesAt(TreeOf(m), HidsOf(req[t]))' = EdgesAt(TreeOf(m), HidsOf(req[t]))
    BY <1>2 DEF SameAsSeen, EdgesAt, TreeOf, HidsOf, OpsOf
  <1>4. CreatorCommitted(work[t].seen.uuid)'
    BY <1>1, NoTxAssumption DEF DependentsFound, CreatorCommitted, Revisions
  <1>. QED
    BY <1>2, <1>3, <1>4 DEF DependentsFound

\* Each Loss is locked before every later one.
LEMMA LockTrees ==
  ASSUME ProtocolInv, TreesInv, NEW t \in Tx, LockLoss(t)
  PROVE  TreesInv'
  <1>. TypeOK
    BY DEF ProtocolInv
  <1>1. PICK l \in Least(t) :
          /\ l \in live /\ lock[l] = NoTx
          /\ lock' = [lock EXCEPT ![l] = t]
          /\ work' = [work EXCEPT ![t].todo = @ \ {l},
                                  ![t].tracked = @ \cup {l},
                                  ![t].base[l] = version[l]]
          /\ pc' = [pc EXCEPT ![t] = AfterLocking(work[t].todo \ {l})]
          /\ UNCHANGED <<store, req, draft, tries>>
    BY DEF LockLoss, TrackLoss
  <1>2. /\ l \in work[t].todo /\ l \in Loss /\ work[t] \in Work /\ l \in Item
        /\ \A m \in work[t].todo : l <= m
        /\ work[t].todo \subseteq Loss /\ work[t].tracked \subseteq Loss
        /\ work[t].base \in [Loss -> Nat]
    BY DEF Least, TypeOK, Work, Item
  <1>3. work'[t] = [work[t] EXCEPT !.todo = @ \ {l}, !.tracked = @ \cup {l},
                                   !.base[l] = version[l]]
    BY <1>1 DEF TypeOK
  <1>4. /\ work'[t].todo = work[t].todo \ {l}
        /\ work'[t].tracked = work[t].tracked \cup {l}
        /\ work'[t].base = [work[t].base EXCEPT ![l] = version[l]]
        /\ work'[t].adds = work[t].adds /\ work'[t].dels = work[t].dels
        /\ work'[t].gone = work[t].gone /\ work'[t].edited = work[t].edited
        /\ work'[t].born = work[t].born /\ work'[t].seen = work[t].seen
    BY <1>2, <1>3 DEF Work
  <1>5. /\ pc[t] = "lock" /\ pc'[t] \in {"lock", "fetch"}
        /\ \A u \in Tx \ {t} : pc'[u] = pc[u] /\ work'[u] = work[u]
    BY <1>1 DEF LockLoss, TypeOK, AfterLocking
  <1>6. /\ lock'[l] = t /\ \A n \in Item \ {l} : lock'[n] = lock[n]
        /\ \A u \in Tx \ {t} : \A n \in Item : lock'[n] = u <=> lock[n] = u
    BY <1>1, <1>2, NoTxAssumption DEF TypeOK
  <1>7. TreesTx(t) /\ Active(t) /\ Active(t)' /\ Born(t)' = Born(t)
    BY <1>4, <1>5 DEF TreesInv, TreesTx, Active, Born
  <1>8. live' = live /\ edges' = edges /\ version' = version /\ uuid' = uuid /\ req' = req
    BY <1>1 DEF store
  <1>9. WritesHeld(t)'
    <2>1. \A n : SeesNode(t, n)' <=> SeesNode(t, n)
      BY <1>4, <1>8 DEF SeesNode
    <2>2. \A e \in work[t].adds : e.src \in Item /\ e.tgt \in Item
      BY <1>2 DEF Work, Edge, EdgeOver, Item
    <2>. QED
      BY <1>4, <1>6, <1>7, <2>1, <2>2 DEF TreesTx, WritesHeld
  <1>10. GoneAreBare(t)' /\ ChangesNamed(t)'
    <2>1. SeesEdge(t)' = SeesEdge(t)
      BY <1>4, <1>8 DEF SeesEdge
    <2>2. GoneAreBare(t)'
      BY <1>4, <1>7, <2>1 DEF TreesTx, GoneAreBare
    <2>3. ChangesNamed(t)'
      BY <1>4, <1>7, <1>8 DEF TreesTx, ChangesNamed, HidsOf, OpsOf
    <2>. QED
      BY <2>2, <2>3
  <1>11. BaseFrom(t)'
    <2>1. \A m \in Loss : work'[t].base[m] = IF m = l THEN version[l] ELSE work[t].base[m]
      BY <1>2, <1>4
    <2>. QED
      BY <1>4, <1>7, <1>8, <2>1 DEF TreesTx, BaseFrom
  <1>12. LocksInOrder(t)'
    <2>1. \A m \in work[t].tracked \cup {l}, k \in work[t].todo \ {l} : m < k
      BY <1>2, <1>5, <1>7, BoundsAssumption DEF TreesTx, LocksInOrder, Loss
    <2>2. \A n \in Item : lock'[n] = t => n \in work[t].tracked \cup {l}
      BY <1>5, <1>6, <1>7 DEF TreesTx, LocksInOrder
    <2>. QED
      BY <1>4, <1>7, <2>1, <2>2 DEF LocksInOrder
  <1>13. DependentsFound(t)'
    BY <1>1, <1>4, <1>5, <1>7, DependentsStay DEF TreesTx
  <1>14. TreesTx(t)'
    BY <1>9, <1>10, <1>11, <1>12, <1>13 DEF TreesTx
  <1>. QED
    BY <1>1, <1>5, <1>6, <1>14, PrivateTrees

\* A write of t to its own state that keeps its edges and deletions, its locks
\* and the Losses it checks.
LEMMA BookkeepingTrees ==
  ASSUME ProtocolInv, TreesInv, NEW t \in Tx, UNCHANGED <<store, lock, req>>,
         pc[t] = "fetch", pc'[t] = "write",
         \A u \in Tx \ {t} : pc'[u] = pc[u] /\ work'[u] = work[u],
         work'[t].adds = work[t].adds, work'[t].dels = work[t].dels,
         work'[t].gone = work[t].gone, work'[t].edited = work[t].edited,
         work'[t].base = work[t].base, work'[t].seen = work[t].seen,
         work'[t].todo = work[t].todo, work[t].tracked \subseteq work'[t].tracked,
         work'[t].born = work[t].born \/ work[t].born = NewRef
  PROVE  TreesInv'
  <1>. TypeOK
    BY DEF ProtocolInv
  <1>1. /\ TreesTx(t) /\ Active(t) /\ Active(t)' /\ Born(t) \subseteq Born(t)'
        /\ live' = live /\ edges' = edges /\ version' = version /\ req' = req
    BY DEF TreesInv, TreesTx, Active, Born, store
  <1>2. WritesHeld(t)'
    <2>1. \A n : SeesNode(t, n) => SeesNode(t, n)'
      BY <1>1 DEF SeesNode
    <2>. QED
      BY <1>1, <2>1 DEF TreesTx, WritesHeld
  <1>3. GoneAreBare(t)'
    BY <1>1 DEF TreesTx, GoneAreBare, SeesEdge
  <1>4. ChangesNamed(t)'
    BY <1>1 DEF TreesTx, ChangesNamed, HidsOf, OpsOf
  <1>5. BaseFrom(t)'
    BY <1>1 DEF TreesTx, BaseFrom
  <1>6. LocksInOrder(t)'
    BY <1>1 DEF LocksInOrder
  <1>7. DependentsFound(t)'
    BY <1>1, DependentsStay DEF TreesTx
  <1>8. TreesTx(t)'
    BY <1>2, <1>3, <1>4, <1>5, <1>6, <1>7 DEF TreesTx
  <1>. QED
    BY <1>8, PrivateTrees

LEMMA FetchTrees ==
  ASSUME ProtocolInv, TreesInv, NEW t \in Tx, FetchOp(t)
  PROVE  TreesInv'
  <1>. TypeOK
    BY DEF ProtocolInv
  <1>1. /\ pc[t] = "fetch" /\ pc'[t] = "write" /\ UNCHANGED <<store, lock, req>>
        /\ \A u \in Tx \ {t} : pc'[u] = pc[u] /\ work'[u] = work[u]
    BY DEF FetchOp, TypeOK
  <1>2. \E more : work'[t] = [work[t] EXCEPT !.tracked = @ \cup more]
    BY DEF FetchOp, TypeOK
  <1>3. work[t] \in Work
    BY DEF TypeOK
  <1>. QED
    BY <1>1, <1>2, <1>3, BookkeepingTrees DEF Work

LEMMA AssignTrees ==
  ASSUME ProtocolInv, TreesInv, NEW t \in Tx, AssignHID(t)
  PROVE  TreesInv'
  <1>. TypeOK /\ TxInv(t)
    BY DEF ProtocolInv
  <1>1. /\ pc[t] = "fetch" /\ pc'[t] = "write" /\ UNCHANGED <<store, lock, req>>
        /\ Creates(CurrentOp(t))
        /\ \A u \in Tx \ {t} : pc'[u] = pc[u] /\ work'[u] = work[u]
    BY DEF AssignHID, TypeOK
  <1>2. \E l \in Loss : work'[t] = [work[t] EXCEPT !.born = l]
    BY DEF AssignHID, TypeOK
  <1>3. work[t] \in Work
    BY DEF TypeOK
  <1>4. work[t].next \in 1..Len(req[t].ops) /\ WellFormed(req[t])
    BY <1>1, RequestType DEF TxInv, LockingFirst
  <1>5. work[t].born = NewRef
    BY <1>1, <1>4, BoundsAssumption DEF TxInv, BornOnce, Active, WellFormed, CurrentOp
  <1>. QED
    BY <1>1, <1>2, <1>3, <1>5, BookkeepingTrees DEF Work

LEMMA AcquireTrees ==
  ASSUME ProtocolInv, TreesInv, NEW t \in Tx, Acquire(t)
  PROVE  TreesInv'
  <1>. TypeOK /\ TxInv(t)
    BY DEF ProtocolInv
  <1>1. /\ pc[t] = "write" /\ UNCHANGED <<store, pc, req, work>>
        /\ \E n \in Missing(t) : lock[n] = NoTx /\ lock' = [lock EXCEPT ![n] = t]
    BY DEF Acquire
  <1>2. \A u \in Tx, n \in Item : /\ lock[n] = u => lock'[n] = u
                                  /\ u # t => (lock'[n] = u <=> lock[n] = u)
    BY <1>1, NoTxAssumption DEF TypeOK
  <1>3. TreesTx(t)'
    <2>1. \A l \in Loss : TreeKept(l)
      BY <1>1, SameTreeKept
    <2>2. edges' = edges /\ live' = live /\ version' = version
      BY <1>1 DEF store
    <2>3. edges' \subseteq Edge /\ version' \in [Loss -> Nat]
      BY <2>2 DEF TypeOK
    <2>4. TreesTx(t)
      BY DEF TreesInv, TreesTx
    <2>. QED
      BY <1>1, <1>2, <2>1, <2>2, <2>3, <2>4, TreesBystander
  <1>4. pc[t] # "committed" /\ UNCHANGED <<store, req>>
    BY <1>1
  <1>5. \A u \in Tx \ {t} : pc'[u] = pc[u] /\ work'[u] = work[u]
    BY <1>1
  <1>6. \A u \in Tx \ {t} : \A n \in Item : lock'[n] = u <=> lock[n] = u
    BY <1>2
  <1>. QED
    BY <1>3, <1>4, <1>5, <1>6, PrivateTrees

\* An edge of a running transaction's own view has both its ends in that view.
LEMMA SeenEnds ==
  ASSUME TypeOK, TreesInv, NEW t \in Tx, Active(t), NEW e \in SeesEdge(t),
         NEW n \in {e.src, e.tgt}
  PROVE  SeesNode(t, n)
  <1>1. WritesHeld(t) /\ GoneAreBare(t) /\ EdgesJoinLiveNodes
    BY DEF TreesInv
  <1>2. CASE e \in work[t].adds
    BY <1>1, <1>2 DEF WritesHeld
  <1>3. CASE e \in edges
    <2>1. n \in live /\ n \notin work[t].gone \ Born(t)
      BY <1>1, <1>3 DEF EdgesJoinLiveNodes, GoneAreBare
    <2>. QED
      BY <2>1 DEF SeesNode, Born
  <1>. QED
    BY <1>2, <1>3 DEF SeesEdge

\* What one write adds and removes: edges of trees it tracks, except that a node
\* it deletes takes its edges with it.
LEMMA WriteEdges ==
  ASSUME ProtocolInv, TreesInv, NEW t \in Tx, WriteOp(t)
  PROVE  /\ \A e \in Found(t, AddsOf(t)) :
              /\ e.loss \in work[t].tracked
              /\ \A n \in {e.src, e.tgt} : n \in Item /\ lock[n] = t /\ SeesNode(t, n)
         /\ CurrentOp(t).kind # "delete" =>
              \A e \in DelsOf(t) : e.loss \in work[t].tracked
         /\ CurrentOp(t).kind = "delete" =>
              /\ DelsOf(t) = EdgesAt(SeesEdge(t), CurrentOp(t).items)
              /\ AddsOf(t) = {}
  <1>. TypeOK /\ TxInv(t)
    BY DEF ProtocolInv
  <1>. DEFINE o == CurrentOp(t)
  <1>1. /\ pc[t] = "write" /\ Missing(t) = {} /\ Active(t)
    BY DEF WriteOp, Active
  <1>2. /\ req[t] \in Request /\ WellFormed(req[t])
        /\ work[t].next \in 1..Len(req[t].ops) /\ o \in Op /\ o \in OpsOf(req[t])
    BY <1>1, RequestType DEF TxInv, LockingFirst, CurrentOp, OpsOf
  <1>3. /\ req[t].tool = "autobuild" => HidsOf(req[t]) \cap Loss \subseteq work[t].tracked
        /\ req[t].tool # "autobuild" => NamedBy(req[t]) \subseteq work[t].tracked
    BY <1>1 DEF TxInv, NothingSkipped, LockingFirst
  <1>4. Builds(o) => \E l \in Loss : /\ o.items = {l} /\ l \in work[t].tracked
                                     /\ \A e \in o.edge : e \in Edge /\ e.loss = l
    BY <1>2, <1>3 DEF WellFormed, CurrentOp, HidsOf
  <1>5. o.kind = "link" => Resolve(t, o.edge) \subseteq {e \in Edge : e.loss \in work[t].tracked}
    BY <1>1 DEF TxInv, PendingResolved
  <1>6. AddsOf(t) \subseteq {e \in Edge : e.loss \in work[t].tracked}
    BY <1>4, <1>5 DEF AddsOf, Builds
  <1>7. ASSUME NEW e \in Found(t, AddsOf(t)), NEW n \in {e.src, e.tgt}
        PROVE  n \in Item /\ lock[n] = t /\ SeesNode(t, n)
    <2>1. e \in AddsOf(t) /\ SeesNode(t, n)
      BY <1>7 DEF Found
    <2>2. n \in Item
      BY <1>6, <2>1 DEF Edge, EdgeOver, Item
    <2>3. ~Creates(o)
      BY <2>1 DEF AddsOf, Creates
    <2>4. n \in Needs(t)
      BY <2>1, <2>3 DEF Needs, Ends
    <2>. QED
      BY <1>1, <2>1, <2>2, <2>4 DEF Missing
  <1>8. ASSUME o.kind # "delete", NEW e \in DelsOf(t) PROVE e.loss \in work[t].tracked
    <2>1. CASE o.kind = "unlink"
      <3>1. o.edge \subseteq Edge /\ req[t].tool # "autobuild"
        BY <1>2, <2>1 DEF WellFormed, CurrentOp
      <3>2. PICK f \in o.edge : e.loss = ResolveRef(t, f.loss)
        BY <2>1 DEF DelsOf, Resolve
      <3>3. f.loss \in Loss /\ f.loss # NewRef
        BY <3>1, BoundsAssumption DEF Edge, EdgeOver, Loss, NewRef
      <3>4. e.loss = f.loss /\ f.loss \in NamedBy(req[t])
        BY <1>2, <3>2, <3>3 DEF ResolveRef, NamedBy
      <3>. QED
        BY <1>3, <3>1, <3>4
    <2>2. CASE o.kind = "rebuild"
      BY <1>4, <2>2 DEF DelsOf, Builds
    <2>. QED
      BY <1>8, <2>1, <2>2 DEF DelsOf
  <1>9. o.kind = "delete" => DelsOf(t) = EdgesAt(SeesEdge(t), o.items) /\ AddsOf(t) = {}
    BY DEF DelsOf, AddsOf
  <1>. QED
    BY <1>6, <1>7, <1>8, <1>9 DEF Found

\* An operation writes edges it holds, deletes only bare nodes, and does what
\* its request names.
LEMMA WriteTrees ==
  ASSUME ProtocolInv, TreesInv, NEW t \in Tx, WriteOp(t)
  PROVE  TreesInv'
  <1>. TypeOK /\ TxInv(t) /\ TreesTx(t)
    BY DEF ProtocolInv, TreesInv, TreesTx
  <1>. DEFINE o == CurrentOp(t)
              D == DelsOf(t)
              added == Found(t, AddsOf(t))
              edited == IF o.kind = "update" THEN {n \in o.items : SeesNode(t, n)} ELSE {}
              gone == IF o.kind = "delete" THEN {n \in o.items : SeesNode(t, n)} ELSE {}
              fresh == IF o.kind = "createTree" THEN {work[t].born} ELSE {}
              rebased == IF o.kind = "createTree"
                         THEN [work[t].base EXCEPT ![work[t].born] = 0]
                         ELSE work[t].base
  <1>1. /\ pc[t] = "write" /\ Active(t)
        /\ pc' = [pc EXCEPT ![t] = AfterOp(t)]
        /\ UNCHANGED <<store, lock, req, draft, tries>>
        /\ work' = [work EXCEPT ![t].adds    = (@ \ D) \cup added,
                                ![t].dels    = (@ \cup D) \ added,
                                ![t].edited  = @ \cup edited,
                                ![t].gone    = @ \cup gone,
                                ![t].tracked = @ \cup fresh,
                                ![t].base    = rebased,
                                ![t].next    = @ + 1]
    <2>1. WriteOp(t)
      OBVIOUS
    <2>. QED
      BY <2>1 DEF WriteOp, Active
  <1>2. /\ req[t] \in Request /\ WellFormed(req[t])
        /\ work[t].next \in 1..Len(req[t].ops) /\ o \in Op /\ o \in OpsOf(req[t])
    BY <1>1, RequestType DEF TxInv, LockingFirst, CurrentOp, OpsOf
  <1>3. /\ \A e \in added : /\ e.loss \in work[t].tracked
                           /\ \A n \in {e.src, e.tgt} : n \in Item /\ lock[n] = t /\ SeesNode(t, n)
        /\ o.kind # "delete" => \A e \in D : e.loss \in work[t].tracked
        /\ o.kind = "delete" => D = EdgesAt(SeesEdge(t), o.items) /\ added = {}
    BY WriteEdges DEF Found
  <1>4. \A e \in SeesEdge(t) : \A n \in {e.src, e.tgt} : SeesNode(t, n)
    BY <1>1, SeenEnds
  <1>5. /\ o.kind # "delete" => gone = {}
        /\ \A n \in gone : n \in o.items /\ o.kind = "delete"
        /\ o.kind = "delete" => \A n \in o.items : SeesNode(t, n) => n \in gone
        /\ edited \cup gone \subseteq o.items
        /\ edited \cup gone # {} => o.kind \in {"update", "delete"}
    OBVIOUS
  <1>6. /\ fresh \subseteq {work[t].born}
        /\ \A l \in Loss : rebased[l] = IF l \in fresh THEN 0 ELSE work[t].base[l]
    BY DEF TypeOK, Work
  <1>. HIDE DEF added, edited, gone, fresh, rebased, o, D
  <1>7. /\ work'[t].adds = (work[t].adds \ D) \cup added
        /\ work'[t].dels = (work[t].dels \cup D) \ added
        /\ work'[t].edited = work[t].edited \cup edited
        /\ work'[t].gone = work[t].gone \cup gone
        /\ work'[t].tracked = work[t].tracked \cup fresh
        /\ work'[t].base = rebased /\ work'[t].born = work[t].born
        /\ work'[t].todo = work[t].todo /\ work'[t].seen = work[t].seen
    <2>1. work'[t] = [work[t] EXCEPT !.adds    = (@ \ D) \cup added,
                                     !.dels    = (@ \cup D) \ added,
                                     !.edited  = @ \cup edited,
                                     !.gone    = @ \cup gone,
                                     !.tracked = @ \cup fresh,
                                     !.base    = rebased,
                                     !.next    = @ + 1]
      BY <1>1 DEF TypeOK
    <2>2. work[t] \in Work
      BY DEF TypeOK
    <2>. QED
      BY <2>1, <2>2 DEF Work
  <1>8. /\ \A u \in Tx \ {t} : pc'[u] = pc[u] /\ work'[u] = work[u]
        /\ pc'[t] \in {"fetch", "finish"} /\ Active(t)'
    BY <1>1 DEF TypeOK, AfterOp, Active
  <1>9. /\ live' = live /\ edges' = edges /\ version' = version /\ req' = req
        /\ lock' = lock /\ Born(t)' = Born(t)
    BY <1>1, <1>7 DEF store, Born
  <1>10. \A n : SeesNode(t, n)' <=> SeesNode(t, n) /\ (n \notin gone \/ n \in Born(t))
    BY <1>7, <1>9 DEF SeesNode, Born
  <1>11. SeesEdge(t)' = (SeesEdge(t) \ D) \cup added
    BY <1>7, <1>9 DEF SeesEdge
  <1>12. WritesHeld(t)'
    <2>1. ASSUME NEW e \in work'[t].adds
          PROVE  /\ \A n \in {e.src, e.tgt} : lock'[n] = t /\ SeesNode(t, n)'
                 /\ e.loss \in work'[t].tracked
      <3>1. CASE e \in added
        BY <1>3, <1>5, <1>7, <1>9, <1>10, <3>1
      <3>2. CASE e \in work[t].adds \ D
        <4>1. \A n \in {e.src, e.tgt} : lock[n] = t /\ SeesNode(t, n)
          BY <1>1, <3>2 DEF TreesTx, WritesHeld
        <4>2. e.loss \in work[t].tracked /\ e \in SeesEdge(t)
          BY <1>1, <3>2 DEF TreesTx, WritesHeld, SeesEdge
        <4>3. \A n \in {e.src, e.tgt} : n \notin gone
          BY <1>3, <1>5, <3>2, <4>2 DEF EdgesAt
        <4>. QED
          BY <1>7, <1>9, <1>10, <4>1, <4>2, <4>3
      <3>. QED
        BY <1>7, <3>1, <3>2
    <2>2. ASSUME NEW e \in work'[t].dels
          PROVE  e.loss \in work'[t].tracked \/ {e.src, e.tgt} \cap work'[t].gone # {}
      <3>1. CASE e \in work[t].dels
        BY <1>1, <1>7, <3>1 DEF TreesTx, WritesHeld
      <3>2. CASE e \in D /\ o.kind # "delete"
        BY <1>3, <1>7, <3>2
      <3>3. CASE e \in D /\ o.kind = "delete"
        <4>1. e \in SeesEdge(t) /\ {e.src, e.tgt} \cap o.items # {}
          BY <1>3, <3>3 DEF EdgesAt
        <4>. QED
          BY <1>4, <1>5, <1>7, <3>3, <4>1
      <3>. QED
        BY <1>7, <2>2, <3>1, <3>2, <3>3
    <2>. QED
      BY <2>1, <2>2 DEF WritesHeld
  <1>13. GoneAreBare(t)'
    <2>. SUFFICES ASSUME NEW e \in SeesEdge(t)', NEW n \in {e.src, e.tgt},
                         n \in work'[t].gone \ Born(t)
                  PROVE  FALSE
      BY <1>9 DEF GoneAreBare
    <2>1. CASE e \in added
      <3>1. SeesNode(t, n) /\ n \notin gone
        BY <1>3, <1>5, <2>1
      <3>. QED
        BY <1>7, <3>1 DEF SeesNode, Born
    <2>2. CASE e \in SeesEdge(t) \ D
      <3>1. n \notin work[t].gone
        BY <1>1, <2>2 DEF TreesTx, GoneAreBare
      <3>2. n \in gone
        BY <1>7, <3>1
      <3>. QED
        BY <1>3, <1>5, <2>2, <3>2 DEF EdgesAt
    <2>. QED
      BY <1>11, <2>1, <2>2
  <1>14. ChangesNamed(t)'
    <2>1. o.items \subseteq HidsOf(req[t])
      BY <1>2 DEF HidsOf
    <2>2. edited \cup gone # {} => req[t].tool # "autobuild"
      <3>1. o.kind \in {"update", "delete"} => ~Builds(o)
        BY DEF Builds
      <3>. QED
        BY <1>2, <1>5, <3>1 DEF WellFormed, CurrentOp, o
    <2>3. HidsOf(req[t])' = HidsOf(req[t])
      BY <1>9 DEF HidsOf, OpsOf
    <2>. QED
      BY <1>1, <1>5, <1>7, <1>9, <2>1, <2>2, <2>3 DEF TreesTx, ChangesNamed
  <1>15. BaseFrom(t)'
    BY <1>1, <1>6, <1>7, <1>9 DEF TreesTx, BaseFrom
  <1>16. LocksInOrder(t)'
    BY <1>8 DEF LocksInOrder
  <1>17. DependentsFound(t)'
    <2>1. \A v \in Tx : pc[v] = "committed" => pc'[v] = "committed"
      BY <1>1, <1>8
    <2>2. work[t].todo \cup work[t].tracked \subseteq work'[t].todo \cup work'[t].tracked
      BY <1>7
    <2>. QED
      BY <1>1, <1>7, <2>1, <2>2, DependentsStay DEF TreesTx
  <1>18. TreesTx(t)'
    BY <1>12, <1>13, <1>14, <1>15, <1>16, <1>17 DEF TreesTx
  <1>. QED
    BY <1>1, <1>8, <1>9, <1>18, PrivateTrees

\* A commit adds edges only to trees it gives their next revision, at nodes that
\* exist, and takes only locks of its own nodes with it.
LEMMA CommitTrees ==
  ASSUME ProtocolInv, ProtocolInv', TreesInv, NEW t \in Tx, Commit(t)
  PROVE  TreesInv'
  <1>. TypeOK /\ TypeOK' /\ TxInv(t) /\ TreesTx(t)
    BY DEF ProtocolInv, TreesInv, TreesTx
  <1>1. /\ pc[t] = "finish" /\ Active(t)
        /\ live' = (live \ work[t].gone) \cup Born(t) /\ edges' = SeesEdge(t)
        /\ pc' = [pc EXCEPT ![t] = "committed"]
        /\ \A n \in Item : lock'[n] = IF lock[n] = t THEN NoTx ELSE lock[n]
        /\ UNCHANGED <<req, work>>
    BY DEF Commit, Release, Active, SeesEdge
  <1>2. /\ \A l \in Loss : version'[l] =
             IF l \notin live' THEN 0
             ELSE IF l \in work[t].tracked THEN work[t].base[l] + 1
             ELSE IF l \in Born(t) THEN 0 ELSE version[l]
        /\ \A l \in Loss : uuid'[l] = IF l \in Born(t) THEN t ELSE uuid[l]
    BY DEF Commit
  <1>3. /\ work[t].tracked \subseteq Loss /\ work[t].gone \subseteq Item
        /\ Born(t) \subseteq Loss /\ work[t].adds \subseteq Edge
    <2>1. work[t] \in Work
      BY DEF TypeOK
    <2>. QED
      BY <2>1 DEF Work, Born
  <1>4. \A n \in work[t].tracked \cup work[t].gone \cup Born(t) : lock[n] = t
    BY <1>1 DEF TxInv, HoldsLocks, Creating, Born
  <1>5. \A e \in work[t].adds : /\ \A n \in {e.src, e.tgt} : lock[n] = t
                                /\ e.loss \in work[t].tracked
    BY <1>1 DEF TreesTx, WritesHeld
  <1>6. /\ pc'[t] = "committed" /\ \A u \in Tx \ {t} : pc'[u] = pc[u]
        /\ \A u \in Tx : pc[u] = "committed" => pc'[u] = "committed"
    BY <1>1 DEF TypeOK
  <1>7. \A l \in Loss : TreeKept(l)
    <2>. SUFFICES ASSUME NEW l \in Loss, l \in live' PROVE TreeKept(l)
      BY DEF TreeKept
    <2>1. CASE l \in Born(t)
      BY <1>1, <1>2, <2>1 DEF TreeKept
    <2>2. CASE l \in work[t].tracked \ Born(t)
      <3>1. l \in live /\ work[t].base[l] = version[l]
        BY <1>1, <1>3, <2>2, BoundsAssumption DEF TxInv, BaseCurrent, Born, Loss, NewRef
      <3>2. version'[l] = version[l] + 1 /\ uuid'[l] = uuid[l] /\ version[l] \in Nat
        BY <1>2, <2>2, <3>1 DEF TypeOK
      <3>3. version[l] <= version'[l] /\ version'[l] # version[l]
        BY <3>2
      <3>. QED
        BY <3>1, <3>2, <3>3 DEF TreeKept
    <2>3. CASE l \notin work[t].tracked \cup Born(t)
      <3>1. l \in live /\ version'[l] = version[l] /\ uuid'[l] = uuid[l] /\ version[l] \in Nat
        BY <1>1, <1>2, <2>3 DEF TypeOK
      <3>2. TreeOf(l)' \subseteq TreeOf(l)
        BY <1>1, <1>5, <2>3 DEF TreeOf, SeesEdge
      <3>. QED
        BY <3>1, <3>2 DEF TreeKept
    <2>. QED
      BY <2>1, <2>2, <2>3
  <1>8. \A u \in Tx \ {t} : TreesTx(u)'
    <2>. SUFFICES ASSUME NEW u \in Tx \ {t} PROVE TreesTx(u)'
      OBVIOUS
    <2>1. TxInv(u) /\ TreesTx(u)
      BY DEF ProtocolInv, TreesInv, TreesTx
    <2>2. \A n \in Item : lock'[n] = u <=> lock[n] = u
      BY <1>1, NoTxAssumption
    <2>3. \A l \in Loss : lock[l] = u => version'[l] = version[l]
      BY <1>1, <1>2, <1>4 DEF ProtocolInv, AbsentIsZero
    <2>4. \A n \in Item : lock[n] = u /\ n \in live => n \in live'
      BY <1>1, <1>4
    <2>5. \A e \in edges' \ edges : lock[e.src] # u /\ lock[e.tgt] # u
      BY <1>1, <1>5 DEF SeesEdge
    <2>6. edges' \subseteq Edge /\ version' \in [Loss -> Nat]
      BY DEF TypeOK
    <2>7. pc'[u] = pc[u] /\ work'[u] = work[u] /\ req' = req
      BY <1>1, <1>6
    <2>. QED
      BY <1>6, <1>7, <2>1, <2>2, <2>3, <2>4, <2>5, <2>6, <2>7, TreesBystander
  <1>9. TreesTx(t)'
    <2>1. \A n \in Item : lock'[n] # t
      BY <1>1, NoTxAssumption
    <2>. QED
      BY <1>6, <2>1, InactiveTrees
  <1>10. EdgesJoinLiveNodes'
    <2>. SUFFICES ASSUME NEW e \in edges', NEW n \in {e.src, e.tgt} PROVE n \in live'
      BY DEF EdgesJoinLiveNodes
    <2>1. SeesNode(t, n)
      BY <1>1, SeenEnds
    <2>. QED
      BY <1>1, <2>1 DEF SeesNode, Born
  <1>11. CreatorCommitted(uuid)'
    <2>. SUFFICES ASSUME NEW l \in Loss PROVE uuid'[l] = Original \/ pc'[uuid'[l]] = "committed"
      BY DEF CreatorCommitted
    <2>1. uuid[l] = Original \/ (uuid[l] \in Tx /\ pc[uuid[l]] = "committed")
      BY DEF TreesInv, CreatorCommitted, TypeOK
    <2>. QED
      BY <1>2, <1>6, <2>1
  <1>. QED
    BY <1>8, <1>9, <1>10, <1>11 DEF TreesInv, TreesTx

LEMMA TreesInit == Init => TreesInv
  <1>. SUFFICES ASSUME Init PROVE TreesInv
    OBVIOUS
  <1>1. EdgesJoinLiveNodes
    BY InitialAssumption DEF Init, EdgesJoinLiveNodes, Edge, EdgeOver
  <1>2. CreatorCommitted(uuid)
    BY DEF Init, CreatorCommitted
  <1>3. \A t \in Tx : ~Active(t) /\ pc[t] # "lock" /\ \A n \in Item : lock[n] # t
    BY NoTxAssumption DEF Init, Active
  <1>. QED
    BY <1>1, <1>2, <1>3 DEF TreesInv, WritesHeld, GoneAreBare, ChangesNamed, BaseFrom,
                            LocksInOrder, DependentsFound

\* The invariant of the trees is inductive, given the protocol's.
LEMMA TreesStep == ProtocolInv /\ ProtocolInv' /\ TreesInv /\ [Next]_vars => TreesInv'
  <1>. SUFFICES ASSUME ProtocolInv, ProtocolInv', TreesInv, [Next]_vars PROVE TreesInv'
    OBVIOUS
  <1>1. ASSUME NEW t \in Tx,
               \/ PreconditionMissing(t) \/ RevisionConflict(t) \/ LossGone(t)
               \/ RejectOp(t) \/ DuplicateHID(t) \/ Refuse(t)
        PROVE  TreesInv'
    <2>1. \E o \in {"conflict", "lossGone", "rejected"} : Abort(t, o)
      BY <1>1 DEF PreconditionMissing, RevisionConflict, LossGone, RejectOp,
                  DuplicateHID, Refuse
    <2>2. pc[t] # "committed"
      BY <1>1 DEF PreconditionMissing, RevisionConflict, LossGone, RejectOp,
                  DuplicateHID, Refuse
    <2>. QED
      BY <2>1, <2>2, AbortTrees DEF Done
  <1>2. ASSUME NEW t \in Tx, DeadlockVictim(t) PROVE TreesInv'
    <2>1. Abort(t, "begin") \/ Abort(t, "failed")
      BY <1>2 DEF DeadlockVictim
    <2>2. Wanted(t) # {}
      BY <1>2 DEF DeadlockVictim, Deadlocked, Cycle, WaitsFor
    <2>3. pc[t] # "committed"
      BY <2>2 DEF Wanted
    <2>. QED
      BY <2>1, <2>3, AbortTrees DEF Done
  <1>3. ASSUME NEW t \in Tx, Load(t) \/ Serve(t) PROVE TreesInv'
    BY <1>1, <1>2, <1>3, LoadTrees, BeginTrees, LockTrees, FetchTrees, AssignTrees,
       AcquireTrees, WriteTrees, CommitTrees DEF Serve, Proceed
  <1>4. CASE UNCHANGED vars
    <2>1. EdgesJoinLiveNodes' /\ CreatorCommitted(uuid)'
      BY <1>4 DEF TreesInv, EdgesJoinLiveNodes, CreatorCommitted, vars
    <2>2. \A u \in Tx : TreesTx(u)'
      <3>1. \A l \in Loss : TreeKept(l)
        BY <1>4, SameTreeKept DEF ProtocolInv, vars, store
      <3>2. edges' \subseteq Edge /\ version' \in [Loss -> Nat]
        BY DEF ProtocolInv, TypeOK
      <3>3. TypeOK /\ \A u \in Tx : TxInv(u) /\ TreesTx(u)
        BY DEF ProtocolInv, TreesInv, TreesTx
      <3>4. /\ pc' = pc /\ work' = work /\ req' = req /\ lock' = lock
            /\ version' = version /\ live' = live /\ edges' = edges
        BY <1>4 DEF vars
      <3>. QED
        BY <3>1, <3>2, <3>3, <3>4, TreesBystander
    <2>. QED
      BY <2>1, <2>2 DEF TreesInv, TreesTx
  <1>. QED
    BY <1>3, <1>4 DEF Next, Finished

\* In every behaviour a running commit holds what it is about to write, has found
\* the trees its edits appear in, and locks Losses in order.
THEOREM TreesSafe == Spec => []TreesInv
  BY TreesInit, TreesStep, ProtocolSafe, PTL DEF Spec

-----------------------------------------------------------------------------
\* A transaction that waits for another one's Loss, both still locking, has a
\* lower Loss to lock first.
LEMMA WaitsAscend ==
  ASSUME TypeOK, TreesInv, NEW t \in Tx, NEW u \in Tx, pc[t] = "lock", pc[u] = "lock",
         WaitsFor(t, u), NEW k \in Least(u)
  PROVE  \E n \in Least(t) : n < k
  <1>1. PICK n \in Least(t) : lock[n] = u
    BY DEF WaitsFor, Wanted
  <1>2. n \in Item /\ k \in work[u].todo
    BY DEF Least, TypeOK, Work, Item
  <1>3. n \in work[u].tracked /\ n < k
    BY <1>1, <1>2 DEF TreesInv, LocksInOrder
  <1>. QED
    BY <1>3

\* Locking in HID order: requests that are all still locking Losses never wait
\* for each other in a cycle, so a commit's preconditions alone cannot deadlock.
THEOREM GuardsDeadlockFree == Spec => []NoGuardDeadlock
  <1>1. ASSUME TypeOK, TreesInv, NEW S \in (SUBSET Tx) \ {{}}, Cycle(S),
               \A t \in S : pc[t] # "write"
        PROVE  FALSE
    <2>1. \A t \in S : pc[t] = "lock" /\ Least(t) # {}
      <3>. SUFFICES ASSUME NEW t \in S PROVE pc[t] = "lock" /\ Least(t) # {}
        OBVIOUS
      <3>1. Wanted(t) # {}
        BY <1>1 DEF Cycle, WaitsFor
      <3>. QED
        BY <1>1, <3>1 DEF Wanted
    <2>. DEFINE M == UNION {Least(t) : t \in S}
    <2>2. M # {} /\ M \subseteq Nat
      <3>1. \A t \in S : Least(t) \subseteq Loss
        BY <1>1 DEF Least, TypeOK, Work
      <3>2. Loss \subseteq Nat
        BY BoundsAssumption DEF Loss
      <3>3. M # {}
        BY <2>1
      <3>. QED
        BY <3>1, <3>2, <3>3
    <2>. HIDE DEF M
    <2>3. PICK k \in M : \A n \in M : ~(<<n, k>> \in OpToRel(<, Nat))
      BY <2>2, NatLessThanWellFounded, WFMin
    <2>4. \A n \in M : ~(n < k)
      BY <2>2, <2>3 DEF OpToRel
    <2>5. PICK u \in S : k \in Least(u)
      BY DEF M
    <2>6. PICK t \in S : WaitsFor(t, u)
      BY <1>1 DEF Cycle
    <2>7. PICK n \in Least(t) : n < k
      BY <1>1, <2>1, <2>5, <2>6, WaitsAscend
    <2>. QED
      BY <2>4, <2>7 DEF M
  <1>2. TypeOK /\ TreesInv => NoGuardDeadlock
    BY <1>1 DEF NoGuardDeadlock
  <1>. QED
    BY <1>2, TypeCorrect, TreesSafe, PTL

\* Only Commit ends a request as committed.
LEMMA CommitsByCommit ==
  ASSUME TypeOK, [Next]_vars, NEW t \in Tx, Commits(t)
  PROVE  Commit(t)
  <1>1. PICK u \in Tx : Load(u) \/ Serve(u)
    BY DEF Next, Finished, Commits, vars
  <1>2. \A x \in Tx \ {u} : pc'[x] = pc[x]
    BY <1>1 DEF Serve, Proceed, Load, Begin, LockLoss, PreconditionMissing, RevisionConflict, TrackLoss,
      LossGone, FetchOp, AssignHID, RejectOp, Acquire, WriteOp, DuplicateHID,
      Refuse, Commit, DeadlockVictim, Abort, TypeOK
  <1>3. u = t
    BY <1>2 DEF Commits
  <1>4. ~Commit(t) => pc'[t] # "committed"
    BY <1>1, <1>3 DEF Serve, Proceed, Load, Begin, LockLoss, TrackLoss, PreconditionMissing,
      RevisionConflict, LossGone, FetchOp, AssignHID, RejectOp, Acquire, WriteOp,
      DuplicateHID, Refuse, DeadlockVictim, Abort, AfterLocking, AfterOp, TypeOK, Commits
  <1>. QED
    BY <1>4 DEF Commits

\* A tree changes behind its revision only if that revision has moved since the
\* change's transaction looked for the trees it touches.
THEOREM UnseenMoved == Spec => UnseenOnlyIfMoved
  <1>1. ASSUME ProtocolInv, TreesInv, [Next]_vars, NEW t \in Tx, Commits(t),
               NEW l \in Loss, l \in live, l \in live', TreeChanges(l),
               version'[l] = version[l], uuid'[l] = uuid[l], SameAsSeen(t, l)
        PROVE  FALSE
    <2>. TypeOK /\ TxInv(t) /\ TreesTx(t)
      BY <1>1 DEF ProtocolInv, TreesInv, TreesTx
    <2>1. Commit(t)
      BY <1>1, CommitsByCommit
    <2>2. /\ pc[t] = "finish" /\ Active(t) /\ work[t].todo = {} /\ edges' = SeesEdge(t)
      BY <2>1 DEF Commit, Active, SeesEdge, TxInv, LockingFirst
    <2>3. l \notin Born(t)
      <3>1. l \in Born(t) => uuid'[l] = t
        BY <2>1 DEF Commit
      <3>2. uuid[l] = Original \/ pc[uuid[l]] = "committed"
        BY <1>1 DEF TreesInv, CreatorCommitted
      <3>. QED
        BY <1>1, <2>2, <3>1, <3>2, NoTxAssumption
    <2>4. l \notin work[t].tracked
      <3>. SUFFICES ASSUME l \in work[t].tracked PROVE FALSE
        OBVIOUS
      <3>1. work[t].base[l] = version[l] /\ version[l] \in Nat
        BY <2>2, <2>3, BoundsAssumption DEF TxInv, BaseCurrent, Born, TypeOK, Loss, NewRef
      <3>2. version'[l] = version[l] + 1
        BY <1>1, <2>1, <3>1 DEF Commit
      <3>. QED
        BY <1>1, <3>1, <3>2
    <2>5. req[t].tool = "autobuild" \/ EdgesAt(TreeOf(l), HidsOf(req[t])) = {}
      BY <1>1, <2>2, <2>4 DEF TreesTx, DependentsFound
    <2>6. work[t].edited \cup work[t].gone \subseteq HidsOf(req[t])
          /\ (work[t].edited \cup work[t].gone # {} => req[t].tool # "autobuild")
      BY <2>2 DEF TreesTx, ChangesNamed
    <2>7. \A e \in TreeOf(l) : \A n \in {e.src, e.tgt} : n \notin work[t].edited \cup work[t].gone
      BY <2>5, <2>6 DEF EdgesAt
    <2>8. TreeOf(l)' = TreeOf(l)
      <3>1. \A e \in work[t].adds : e.loss # l
        BY <2>2, <2>4 DEF TreesTx, WritesHeld
      <3>2. \A e \in work[t].dels \cap edges : e.loss # l
        BY <2>2, <2>4, <2>7 DEF TreesTx, WritesHeld, TreeOf
      <3>. QED
        BY <2>2, <3>1, <3>2 DEF TreeOf, SeesEdge
    <2>9. PICK n \in Ends(TreeOf(l)) : writer'[n] # writer[n]
      BY <1>1, <2>8 DEF TreeChanges
    <2>10. n \in Item
      BY DEF Ends, TreeOf, TypeOK, Edge, EdgeOver, Item
    <2>11. n \in work[t].edited
      BY <2>1, <2>9, <2>10 DEF Commit
    <2>. QED
      BY <2>7, <2>11 DEF Ends
  <1>2. ProtocolInv /\ TreesInv /\ [Next]_vars =>
          [\A t \in Tx : Commits(t) =>
             \A l \in Loss \cap live \cap live' :
               TreeChanges(l) /\ version'[l] = version[l] /\ uuid'[l] = uuid[l]
                 => \/ version[l] # work[t].seen.version[l]
                    \/ uuid[l] # work[t].seen.uuid[l]]_vars
    BY <1>1 DEF SameAsSeen
  <1>. QED
    BY <1>2, ProtocolSafe, TreesSafe, PTL DEF Spec, UnseenOnlyIfMoved

-----------------------------------------------------------------------------
\* The protocol against AtomicRevisions: reading a draft is Read, the commit is
\* Commit, ending without effect is Abort, and all the rest is not visible.

LEMMA AtomicInit == Init => Atomic!Init
  <1>. SUFFICES ASSUME Init PROVE Atomic!Init
    OBVIOUS
  <1>1. [t \in Tx |-> req[t].guards] \in [Tx -> SUBSET Loss]
    BY RequestsAssumption DEF Init, Request
  <1>2. \A e \in edges : {e.src, e.tgt, e.loss} \subseteq live
    BY InitialAssumption DEF Init, Edge, EdgeOver
  <1>3. version \in [Loss -> Nat]
    BY DEF Init
  <1>4. [t \in Tx |-> PhaseOf(t)] = [t \in Tx |-> "idle"]
    BY DEF Init, PhaseOf
  <1>5. [t \in Tx |-> draft[t].version] = [t \in Tx |-> version]
    BY DEF Init
  <1>. QED
    BY <1>1, <1>2, <1>3, <1>4, <1>5 DEF Atomic!Init

\* Steps that neither read a draft nor end a request.
LEMMA AtomicStutter ==
  ASSUME TypeOK, UNCHANGED <<live, edges, version, req, draft>>,
         \A t \in Tx : PhaseOf(t)' = PhaseOf(t)
  PROVE  UNCHANGED Atomic!vars
  <1>1. [t \in Tx |-> req[t].guards]' = [t \in Tx |-> req[t].guards]
    OBVIOUS
  <1>2. [t \in Tx |-> draft[t].version]' = [t \in Tx |-> draft[t].version]
    OBVIOUS
  <1>3. [t \in Tx |-> PhaseOf(t)]' = [t \in Tx |-> PhaseOf(t)]
    OBVIOUS
  <1>. QED
    BY <1>1, <1>2, <1>3 DEF Atomic!vars

LEMMA AtomicRead ==
  ASSUME TypeOK, NEW t \in Tx, Load(t)
  PROVE  Atomic!Read(t)
  <1>1. /\ pc[t] = "idle" /\ pc' = [pc EXCEPT ![t] = "begin"]
        /\ draft' = [draft EXCEPT ![t] = [version |-> version, uuid |-> uuid]]
        /\ live' = live /\ edges' = edges /\ version' = version /\ req' = req
    BY DEF Load, store
  <1>2. [u \in Tx |-> PhaseOf(u)][t] = "idle"
    BY <1>1 DEF PhaseOf
  <1>3. [u \in Tx |-> PhaseOf(u)]' = [[u \in Tx |-> PhaseOf(u)] EXCEPT ![t] = "open"]
    BY <1>1 DEF PhaseOf, TypeOK, Done
  <1>4. [u \in Tx |-> draft[u].version]' = [[u \in Tx |-> draft[u].version] EXCEPT ![t] = version]
    BY <1>1 DEF TypeOK
  <1>5. [u \in Tx |-> req[u].guards]' = [u \in Tx |-> req[u].guards]
    BY <1>1
  <1>. QED
    BY <1>1, <1>2, <1>3, <1>4, <1>5 DEF Atomic!Read

\* A rollback ends the request, or lets the driver start over unseen.
LEMMA AtomicAbort ==
  ASSUME TypeOK, NEW t \in Tx, NEW o \in ({"begin"} \cup Done) \ {"committed"},
         pc[t] \notin Done \cup {"idle"}, Abort(t, o)
  PROVE  Atomic!Abort(t) \/ UNCHANGED Atomic!vars
  <1>1. /\ pc' = [pc EXCEPT ![t] = o] /\ live' = live /\ edges' = edges
        /\ version' = version /\ req' = req /\ draft' = draft
    BY DEF Abort, store
  <1>2. CASE o = "begin"
    <2>1. \A u \in Tx : PhaseOf(u)' = PhaseOf(u)
      BY <1>1, <1>2 DEF PhaseOf, TypeOK, Done
    <2>. QED
      BY <1>1, <2>1, AtomicStutter
  <1>3. CASE o # "begin"
    <2>1. [u \in Tx |-> PhaseOf(u)][t] = "open"
      BY DEF PhaseOf, Done
    <2>2. [u \in Tx |-> PhaseOf(u)]' = [[u \in Tx |-> PhaseOf(u)] EXCEPT ![t] = "aborted"]
      BY <1>1, <1>3 DEF PhaseOf, TypeOK, Done
    <2>3. /\ [u \in Tx |-> draft[u].version]' = [u \in Tx |-> draft[u].version]
          /\ [u \in Tx |-> req[u].guards]' = [u \in Tx |-> req[u].guards]
      BY <1>1
    <2>. QED
      BY <1>1, <2>1, <2>2, <2>3 DEF Atomic!Abort
  <1>. QED
    BY <1>2, <1>3

\* The commit bumps what it tracked; a Loss it creates anew under the HID of one
\* it deleted starts over.
LEMMA AtomicCommit ==
  ASSUME ProtocolInv, ProtocolInv', TreesInv, TreesInv', NEW t \in Tx, Commit(t)
  PROVE  Atomic!Commit(t)
  <1>. TypeOK /\ TypeOK' /\ TxInv(t) /\ TreesTx(t)
    BY DEF ProtocolInv, TreesInv, TreesTx
  <1>. DEFINE bumped == work[t].tracked
              again == {l \in Born(t) : ~(l \in work[t].tracked /\ work[t].base[l] = version[l])}
  <1>1. /\ pc[t] = "finish" /\ Active(t)
        /\ live' = (live \ work[t].gone) \cup Born(t) /\ edges' = SeesEdge(t)
        /\ pc' = [pc EXCEPT ![t] = "committed"]
        /\ req' = req /\ draft' = draft
    BY DEF Commit, Active, SeesEdge
  <1>2. version' = [l \in Loss |->
                     IF l \notin live' THEN 0
                     ELSE IF l \in bumped THEN work[t].base[l] + 1
                     ELSE IF l \in Born(t) THEN 0 ELSE version[l]]
    BY DEF Commit
  <1>3. /\ bumped \subseteq Loss /\ Born(t) \subseteq Loss /\ work[t].adds \subseteq Edge
        /\ work[t].todo = {}
    <2>1. work[t] \in Work
      BY DEF TypeOK
    <2>. QED
      BY <1>1, <2>1 DEF Work, Born, TxInv, LockingFirst
  <1>4. req[t].guards \subseteq bumped
    BY <1>1, <1>3 DEF TxInv, NothingSkipped
  <1>5. \A l \in req[t].guards : draft[t].version[l] = version[l]
    BY <1>1, <1>3 DEF TxInv, GuardsCurrent
  <1>6. again \in {{}} \cup {{l} : l \in Loss}
    <2>1. Born(t) = {} \/ \E l \in Loss : Born(t) = {l}
      BY <1>3 DEF Born
    <2>. QED
      BY <2>1
  <1>7. \A l \in Loss :
          version'[l] = IF l \notin live' THEN 0
                        ELSE (IF l \in again THEN 0 ELSE version[l])
                             + (IF l \in bumped THEN 1 ELSE 0)
    <2>. SUFFICES ASSUME NEW l \in Loss, l \in live'
                  PROVE  version'[l] = (IF l \in again THEN 0 ELSE version[l])
                                       + (IF l \in bumped THEN 1 ELSE 0)
      BY <1>2
    <2>1. version[l] \in Nat /\ work[t].base[l] \in Nat
      BY DEF TypeOK, Work
    <2>2. l \in bumped => work[t].base[l] \in {0, version[l]}
      BY <1>1 DEF TreesTx, BaseFrom
    <2>3. l \in bumped /\ l \notin Born(t) => work[t].base[l] = version[l]
      BY <1>1, <1>3, BoundsAssumption DEF TxInv, BaseCurrent, Born, Loss, NewRef
    <2>4. CASE l \in bumped
      <3>1. version'[l] = work[t].base[l] + 1
        BY <1>2, <2>4
      <3>2. work[t].base[l] = IF l \in again THEN 0 ELSE version[l]
        BY <2>2, <2>3, <2>4
      <3>. QED
        BY <2>4, <3>1, <3>2
    <2>5. CASE l \notin bumped
      <3>1. version'[l] = IF l \in again THEN 0 ELSE version[l]
        BY <1>2, <2>5
      <3>. QED
        BY <2>1, <2>5, <3>1
    <2>. QED
      BY <2>4, <2>5
  <1>8. \A e \in edges' \ edges : e.loss \in bumped
    BY <1>1 DEF TreesTx, WritesHeld, SeesEdge
  <1>9. \A e \in edges \ edges' : e.loss \in bumped \cup again \/ {e.src, e.tgt} \ live' # {}
    <2>. SUFFICES ASSUME NEW e \in edges \ edges', e.loss \notin bumped \cup again
                  PROVE  {e.src, e.tgt} \ live' # {}
      OBVIOUS
    <2>1. e \in work[t].dels /\ e \in Edge
      BY <1>1 DEF SeesEdge, TypeOK
    <2>2. PICK n \in {e.src, e.tgt} : n \in work[t].gone
      BY <1>1, <2>1 DEF TreesTx, WritesHeld
    <2>3. n \notin Born(t)
      <3>. SUFFICES ASSUME n \in Born(t) PROVE FALSE
        OBVIOUS
      <3>1. n \in Loss /\ n \notin Node
        BY <1>3, ItemAssumption
      <3>2. n = e.loss
        BY <2>1, <2>2, <3>1 DEF Edge, EdgeOver
      <3>. QED
        BY <3>2
    <2>. QED
      BY <1>1, <2>2, <2>3
  <1>10. \A e \in edges' : {e.src, e.tgt} \subseteq live'
    BY DEF TreesInv, EdgesJoinLiveNodes
  <1>11. [u \in Tx |-> PhaseOf(u)][t] = "open"
    BY <1>1 DEF PhaseOf, Done
  <1>12. [u \in Tx |-> PhaseOf(u)]' = [[u \in Tx |-> PhaseOf(u)] EXCEPT ![t] = "committed"]
    BY <1>1 DEF PhaseOf, TypeOK, Done
  <1>13. /\ [u \in Tx |-> draft[u].version]' = [u \in Tx |-> draft[u].version]
         /\ [u \in Tx |-> req[u].guards]' = [u \in Tx |-> req[u].guards]
    BY <1>1
  <1>14. version' = [l \in Loss |->
                      IF l \notin live' THEN 0
                      ELSE (IF l \in again THEN 0 ELSE version[l])
                           + (IF l \in bumped THEN 1 ELSE 0)]
    BY <1>2, <1>7
  <1>15. bumped \in SUBSET Loss
    BY <1>3
  <1>. HIDE DEF bumped, again
  <1>. QED
    BY <1>4, <1>5, <1>6, <1>8, <1>9, <1>10, <1>11, <1>12, <1>13, <1>14, <1>15 DEF Atomic!Commit

LEMMA AtomicStep ==
  ProtocolInv /\ ProtocolInv' /\ TreesInv /\ TreesInv' /\ [Next]_vars => [Atomic!Next]_Atomic!vars
  <1>. SUFFICES ASSUME ProtocolInv, ProtocolInv', TreesInv, TreesInv', [Next]_vars
                PROVE  Atomic!Next \/ UNCHANGED Atomic!vars
    OBVIOUS
  <1>. TypeOK
    BY DEF ProtocolInv
  <1>1. ASSUME NEW t \in Tx,
               \/ PreconditionMissing(t) \/ RevisionConflict(t) \/ LossGone(t)
               \/ RejectOp(t) \/ DuplicateHID(t) \/ Refuse(t)
        PROVE  Atomic!Abort(t) \/ UNCHANGED Atomic!vars
    <2>1. \E o \in {"conflict", "lossGone", "rejected"} : Abort(t, o)
      BY <1>1 DEF PreconditionMissing, RevisionConflict, LossGone, RejectOp,
                  DuplicateHID, Refuse
    <2>2. pc[t] \in {"lock", "fetch", "write", "finish"}
      BY <1>1 DEF PreconditionMissing, RevisionConflict, LossGone, RejectOp,
                  DuplicateHID, Refuse
    <2>. QED
      BY <2>1, <2>2, AtomicAbort DEF Done
  <1>2. ASSUME NEW t \in Tx, DeadlockVictim(t)
        PROVE  Atomic!Abort(t) \/ UNCHANGED Atomic!vars
    <2>1. Abort(t, "begin") \/ Abort(t, "failed")
      BY <1>2 DEF DeadlockVictim
    <2>2. Wanted(t) # {}
      BY <1>2 DEF DeadlockVictim, Deadlocked, Cycle, WaitsFor
    <2>3. pc[t] \in {"lock", "write"}
      BY <2>2 DEF Wanted
    <2>. QED
      BY <2>1, <2>3, AtomicAbort DEF Done
  <1>3. ASSUME NEW t \in Tx,
               \/ Begin(t) \/ LockLoss(t) \/ FetchOp(t) \/ AssignHID(t)
               \/ Acquire(t) \/ WriteOp(t)
        PROVE  UNCHANGED Atomic!vars
    <2>1. UNCHANGED <<live, edges, version, req, draft>>
      BY <1>3 DEF Begin, LockLoss, TrackLoss, FetchOp, AssignHID, Acquire, WriteOp, store
    <2>2. /\ pc[t] \in {"begin", "lock", "fetch", "write"}
          /\ \E p \in {"lock", "fetch", "write", "finish"} : pc' = [pc EXCEPT ![t] = p]
      BY <1>3 DEF Begin, LockLoss, TrackLoss, FetchOp, AssignHID, Acquire, WriteOp,
                  AfterLocking, AfterOp, TypeOK
    <2>3. \A u \in Tx : PhaseOf(u)' = PhaseOf(u)
      BY <2>2 DEF PhaseOf, TypeOK, Done
    <2>. QED
      BY <2>1, <2>3, AtomicStutter
  <1>4. ASSUME NEW t \in Tx, Load(t) \/ Serve(t)
        PROVE  Atomic!Read(t) \/ Atomic!Commit(t) \/ Atomic!Abort(t) \/ UNCHANGED Atomic!vars
    BY <1>1, <1>2, <1>3, <1>4, AtomicRead, AtomicCommit DEF Serve, Proceed
  <1>5. CASE UNCHANGED vars
    <2>1. UNCHANGED <<live, edges, version, req, draft>> /\ pc' = pc
      BY <1>5 DEF vars
    <2>2. \A u \in Tx : PhaseOf(u)' = PhaseOf(u)
      BY <2>1 DEF PhaseOf
    <2>. QED
      BY <2>1, <2>2, AtomicStutter
  <1>. QED
    BY <1>4, <1>5 DEF Next, Finished, Atomic!Next

\* Statements, locks, waiting, rollbacks and retries together behave like one
\* guarded atomic step of each request.
THEOREM Refinement == Spec => ImplementsAtomicRevisions
  <1>1. Init => Atomic!Init
    BY AtomicInit
  <1>2. ProtocolInv /\ ProtocolInv' /\ TreesInv /\ TreesInv' /\ [Next]_vars
          => [Atomic!Next]_Atomic!vars
    BY AtomicStep
  <1>. QED
    BY <1>1, <1>2, ProtocolSafe, TreesSafe, PTL DEF Spec, ImplementsAtomicRevisions, Atomic!Spec
=============================================================================
