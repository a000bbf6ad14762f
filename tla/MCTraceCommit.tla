---------------------------- MODULE MCTraceCommit ----------------------------
(* Small instances of TraceCommit: two entities, one of them an Interface in  *)
(* a Connection, traced to Assets while the trace matrix and the nodes it     *)
(* names are edited.                                                          *)
EXTENDS TraceCommit, TLC

CONSTANTS e1, e2, a1, s1, c1, p, q

TraceAs(y, e, s, a) == [kind |-> "trace", ent |-> e, st |-> s, asset |-> a, type |-> y]
ClearOf(y, e, s, a) == [kind |-> "clear", ent |-> e, st |-> s, asset |-> a, type |-> y]
Trace(e, s, a) == TraceAs("HOLDS", e, s, a)
Clear(e, s, a) == ClearOf("HOLDS", e, s, a)
Set(n, f)      == [kind |-> "set", node |-> n, flags |-> f]
Remove(n)      == [kind |-> "delete", node |-> n]

\* Asset a1 carries p, any other q.  Nothing is traced, or one relation is
\* there already with what is derived from it.
Untouched == [i \in Item |-> IF i = a1 THEN {p}
                             ELSE IF i \in Asset THEN {q}
                             ELSE IF i \in Node THEN {} ELSE Absent]
FirstRel == [ent |-> e1, st |-> s1, asset |-> a1, by |-> Original]
FirstReq == [seq |-> 1]
TracedOnce == [Untouched EXCEPT
  ![e1] = {p}, ![c1] = {p},
  ![FirstRel] = [status |-> "CURRENT", ver |-> 1, type |-> "HOLDS"],
  ![FirstReq] = [ent |-> e1, asset |-> a1, orphan |-> FALSE]]
FromEither   == {Untouched, TracedOnce}
FromHistory  == {TracedOnce}
Interfaces   == {<<e1, c1>>}

\* The trace matrix alone.
CellRequests ==
  { <<Trace(e1, s1, a1)>>, <<Trace(e1, s1, a1), Trace(e2, s1, a1)>>, <<Clear(e1, AnyState, a1)>>,
    <<TraceAs("USES", e1, s1, a1)>>,
    <<ClearOf("USES", e1, s1, a1), Trace(e1, s1, a1)>> }

\* Nodes of the matrix change and go while it is edited.
LifeRequests ==
  { <<Remove(s1)>>, <<Remove(e1)>>, <<Remove(a1)>>, <<Remove(FirstReq)>>,
    <<Set(a1, {}), Clear(e1, s1, a1)>>, <<Set(e1, {q})>> }
  \cup { <<Trace(e1, s1, a)>> : a \in Asset }

MatrixOrNodes == { [initial |-> FromEither,  sent |-> CellRequests],
                   [initial |-> FromHistory, sent |-> LifeRequests] }

\* For the single question.
TraceSameCell == {[initial |-> FromHistory, sent |-> {<<Trace(e1, s1, a1)>>}]}

Perms == Permutations(Tx)
=============================================================================
