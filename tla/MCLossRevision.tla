--------------------------- MODULE MCLossRevision ---------------------------
(* Small instances of LossRevision: two nodes shared by the trees of two     *)
(* Losses, and the requests that make commits meet.                          *)
EXTENDS LossRevision, TLC

CONSTANTS t1, t2, t3, n1, n2

E(s, n, l) == [src |-> s, tgt |-> n, loss |-> l]
Make(tool, guards, ops) == [tool |-> tool, guards |-> guards, ops |-> ops]
Update(n)  == [kind |-> "update", items |-> {n}, edge |-> {}]
Delete(n)  == [kind |-> "delete", items |-> {n}, edge |-> {}]
Link(e)    == [kind |-> "link", items |-> {e.src, e.tgt} \ {NewRef}, edge |-> {e}]
Unlink(e)  == [kind |-> "unlink", items |-> {e.src, e.tgt}, edge |-> {e}]
Create(k)  == [kind |-> k, items |-> {}, edge |-> {}]
Build(k, l, es) == [kind |-> k, items |-> {l}, edge |-> es]

NoTrees == {{}}
Trees == {{E(1, n1, 1), E(2, n1, 2)}}

\* Drafts of one tree, edits of what the trees share, auto-build.
DraftRequests ==
  { Make("sstpa.loss", {1}, <<Link(E(n1, n2, 1)), Update(1)>>),
    Make("sstpa.loss", {1, 2}, <<Unlink(E(1, n1, 1))>>),
    Make("sstpa.loss", {1}, <<Update(2)>>),
    Make("other", {}, <<Update(n1)>>),
    Make("other", {}, <<Update(n2)>>),
    Make("autobuild", {1}, <<Build("rebuild", 1, {E(1, n2, 1)})>>) }
\* Deletions, creations and edges at what is being deleted.
LifeRequests ==
  { Make("sstpa.loss", {2}, <<Link(E(2, n2, 2))>>),
    Make("other", {}, <<Delete(n2)>>),
    Make("other", {}, <<Delete(2), Create("createTree")>>),
    Make("sstpa.loss", {1}, <<Link(E(n1, n2, 1)), Delete(1)>>),
    Make("sstpa.loss", {}, <<Create("create"), Link(E(NewRef, n2, NewRef))>>),
    Make("other", {}, <<Create("createTree"), Update(n1)>>) }
\* Writers of two nodes in opposite orders; no tree holds them, so no Loss
\* lock puts the writers in line.
CrossRequests ==
  { Make("other", {}, <<Update(n1), Update(n2)>>),
    Make("other", {}, <<Update(n2), Update(n1)>>),
    Make("other", {}, <<Update(n2), Update(1), Update(n1)>>) }

\* Drafts of both trees against deletions of what the trees stand on.
MixedRequests ==
  { Make("sstpa.loss", {1, 2}, <<Unlink(E(1, n1, 1)), Link(E(2, n2, 2))>>),
    Make("autobuild", {2}, <<Build("rebuild", 2, {E(2, n2, 2)})>>),
    Make("autobuild", {}, <<Build("build", 1, {E(1, n1, 1), E(1, n2, 1)})>>) }
AllRequests == DraftRequests \cup LifeRequests \cup MixedRequests

Perms == Permutations(Tx)
=============================================================================
