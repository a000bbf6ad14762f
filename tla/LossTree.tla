------------------------------ MODULE LossTree ------------------------------
(***************************************************************************)
(* The attack tree the Loss Tool edits, as the frontend computes with it   *)
(* (tools/loss/domain): what a valid tree is, the edits of one, what is    *)
(* shown of it when branches are rolled up, its attack paths and whether   *)
(* its metrics can be calculated.                                          *)
(*                                                                         *)
(* A tree is a set of nodes and a function from pairs of nodes to what the *)
(* relationship between them says; two relationships of one pair are what  *)
(* validateGraph rejects.  A reason is not modelled apart from the flag it *)
(* is given for, nor the numbers of a metric: a leaf has its inputs or     *)
(* misses some.  Rank stands for the order of creation, by which equal     *)
(* sequences are told apart.                                               *)
(***************************************************************************)
EXTENDS Integers, Sequences, FiniteSets, FiniteSetsExt

CONSTANTS
  Node, Root,
  TypeOf,        \* the type of a node
  Rank,          \* order in which relationships to a node were made
  Limits         \* LIMITS: the nodes, depth and width a tree may have

AllowedChildren ==
  [Loss |-> {"Environment", "State"}, Environment |-> {},
   State |-> {"Interface", "SystemFunction", "Component"},
   Interface |-> {"Attack"}, SystemFunction |-> {"Attack"}, Component |-> {"Attack"},
   Attack |-> {"Attack", "Countermeasure"}, Countermeasure |-> {"Attack", "Asset"},
   Asset |-> {}]

ASSUME NodesAssumption ==
  /\ IsFiniteSet(Node)
  /\ Root \in Node
  /\ TypeOf \in [Node -> DOMAIN AllowedChildren]
  /\ Rank \in [Node -> Nat]
  /\ \A n, m \in Node : Rank[n] = Rank[m] => n = m
  /\ Limits \in [nodes : Nat, depth : Nat, width : Nat]

NoSeq == -1
Edge  == [gate : {"AND", "OR", "SAND"}, seq : Nat \cup {NoSeq},
          tailored : BOOLEAN, blocked : BOOLEAN, allowed : BOOLEAN]
IsTree(t) == /\ DOMAIN t = {"nodes", "edges"}
             /\ t.nodes \subseteq Node
             /\ DOMAIN t.edges \subseteq Node \X Node
             /\ \A p \in DOMAIN t.edges : t.edges[p] \in Edge

Out(t, n)    == {p \in DOMAIN t.edges : p[1] = n}
In(t, n)     == {p \in DOMAIN t.edges : p[2] = n}
Context(p)   == TypeOf[p[2]] = "Environment"
\* The relationships an analysis follows.
Active(t, n) == {p \in Out(t, n) : ~t.edges[p].tailored /\ ~Context(p)}

\* What is reached from a set of nodes along some of the relationships.
ReachFrom(t, S, along) ==
  LET reach[k \in Nat] ==
        IF k = 0 THEN S
        ELSE LET before == reach[k - 1]
             IN  before \cup {p[2] : p \in {q \in along : q[1] \in before}}
  IN  reach[Cardinality(t.nodes)]

Descendants(t, n) == ReachFrom(t, {p[2] : p \in Out(t, n)}, DOMAIN t.edges) \ {n}

\* The nodes shown when the branches below some nodes are rolled up (and no path
\* is highlighted).
Visible(t, collapsed) == ReachFrom(t, {Root}, {p \in DOMAIN t.edges : p[1] \notin collapsed})

-----------------------------------------------------------------------------
\* What a valid tree is (validateGraph, its errors; warnings stop nothing).

\* Every node is taken once those before it are (the queue of graphStats).
Acyclic(t) ==
  LET taken[k \in Nat] ==
        IF k = 0 THEN {}
        ELSE LET before == taken[k - 1]
             IN  t.nodes \ {p[2] : p \in {q \in DOMAIN t.edges : q[1] \notin before}}
  IN  taken[Cardinality(t.nodes)] = t.nodes

\* The depth of a node is the number of relationships of the longest path to it;
\* deep[k] are the nodes at k or more, in a tree all of which its root reaches.
WithinLimits(t) ==
  LET below(S) == {p[2] : p \in {q \in DOMAIN t.edges : q[1] \in S}}
      deep[k \in Nat] == IF k = 0 THEN t.nodes ELSE below(deep[k - 1])
  IN  /\ Cardinality(t.nodes) <= Limits.nodes
      /\ deep[Limits.depth + 1] = {}
      /\ \A k \in 0 .. Limits.depth : LET at == deep[k] IN Cardinality(at \ below(at)) <= Limits.width

Gates(t, n) == {t.edges[p].gate : p \in Active(t, n)}

NodeRules(t, n) ==
  LET gates == Gates(t, n) IN
  /\ Cardinality(gates) <= 1
  /\ "SAND" \in gates =>
       {t.edges[p].seq : p \in Active(t, n)} = 0 .. Cardinality(Active(t, n)) - 1
  /\ n = Root => "AND" \notin gates

EdgeRules(t, p) ==
  LET e == t.edges[p] from == TypeOf[p[1]] to == TypeOf[p[2]] IN
  /\ to \in AllowedChildren[from]
  /\ Context(p) => e.gate = "AND"
  /\ e.gate # "SAND" => e.seq = NoSeq
  /\ e.blocked => from = "Attack" /\ to = "Countermeasure"
  /\ e.allowed => to = "Attack" /\ Out(t, p[2]) = {}

Proper(t) ==
  /\ {n \in t.nodes : TypeOf[n] = "Loss"} = {Root}
  /\ In(t, Root) = {}
  /\ \A p \in DOMAIN t.edges : {p[1], p[2]} \subseteq t.nodes
  /\ Acyclic(t)
  /\ ReachFrom(t, {Root}, DOMAIN t.edges) = t.nodes
  /\ \A n \in t.nodes : NodeRules(t, n)
  /\ \A p \in DOMAIN t.edges : EdgeRules(t, p)

Valid(t) == Proper(t) /\ WithinLimits(t)

-----------------------------------------------------------------------------
\* Edits.

Order(s) == IF s = NoSeq THEN 0 ELSE s
\* p comes before q among the relationships of one node.
Before(t, p, q) ==
  LET a == Order(t.edges[p].seq) b == Order(t.edges[q].seq)
  IN  a < b \/ (a = b /\ Rank[p[2]] < Rank[q[2]])

Sequential(t, n) == {p \in Out(t, n) : t.edges[p].gate = "SAND" /\ ~t.edges[p].tailored}

Normalize(t) ==
  [t EXCEPT !.edges = [p \in DOMAIN t.edges |->
     [t.edges[p] EXCEPT !.seq =
        IF t.edges[p].gate # "SAND" THEN NoSeq
        ELSE IF t.edges[p].tailored THEN @
        ELSE Cardinality({q \in Sequential(t, p[1]) : Before(t, q, p)})]]]

\* Of the nodes below n only what no other relationship leads to is removed.
PruneUnnumbered(t, n) ==
  LET kept  == {p \in DOMAIN t.edges : p[2] # n}
      nodes == t.nodes \cap ReachFrom(t, {Root}, kept)
  IN  [nodes |-> nodes,
       edges |-> [p \in {q \in kept : {q[1], q[2]} \subseteq nodes} |-> t.edges[p]]]
PruneSubtree(t, n) ==
  LET nodes == t.nodes \ ({n} \cup Descendants(t, n))
  IN  Normalize([nodes |-> nodes,
        edges |-> [p \in {q \in DOMAIN t.edges : {q[1], q[2]} \subseteq nodes} |-> t.edges[p]]])
Prune(t, n) ==
  LET kept  == {p \in DOMAIN t.edges : p[2] # n}
      nodes == ReachFrom(t, {Root}, kept)
  IN  Normalize([nodes |-> t.nodes \cap nodes,
        edges |-> [p \in {q \in kept : {q[1], q[2]} \subseteq nodes} |-> t.edges[p]]])

\* A new relationship takes its siblings' operator.
MakeEdge(t, n, m) ==
  LET ordinary == IF \/ TypeOf[m] = "Environment"
                     \/ TypeOf[n] = "Attack" /\ TypeOf[m] = "Countermeasure"
                     \/ TypeOf[n] = "Countermeasure" /\ TypeOf[m] = "Asset"
                  THEN "AND" ELSE "OR"
      gate     == IF TypeOf[m] = "Environment" \/ Gates(t, n) = {} THEN ordinary
                  ELSE CHOOSE g \in Gates(t, n) : TRUE
  IN  [gate |-> gate,
       seq  |-> IF gate = "SAND"
                THEN Cardinality({p \in Out(t, n) : ~t.edges[p].tailored}) ELSE NoSeq,
       tailored |-> FALSE, blocked |-> FALSE, allowed |-> FALSE]

Attach(t, n, m) ==
  LET added == [t EXCEPT !.nodes = @ \cup {m}] IN
  Normalize([added EXCEPT !.edges =
    [p \in DOMAIN t.edges \cup {<<n, m>>} |->
       IF p = <<n, m>> THEN MakeEdge(added, n, m) ELSE t.edges[p]]])

\* What the inspector says of a relationship replaces it; its operator goes to
\* every sibling, and under SAND it is put at the position given.
StageAlone(t, p, d) == Normalize([t EXCEPT !.edges[p] = d])
StageRelationship(t, p, d) ==
  LET group   == IF Context(p) THEN {} ELSE {q \in Out(t, p[1]) : ~Context(q)}
      edited  == [t EXCEPT !.edges = [q \in DOMAIN t.edges |->
                    IF q = p THEN d
                    ELSE IF q \in group THEN [t.edges[q] EXCEPT !.gate = d.gate]
                    ELSE t.edges[q]]]
      others  == {q \in group \ {p} : ~t.edges[q].tailored}
      ahead(q) == Cardinality({r \in others : Before(t, r, q)})
      place   == Min({Order(d.seq), Cardinality(others)})
      numbered == [edited EXCEPT !.edges = [q \in DOMAIN t.edges |->
                    IF q \in others
                    THEN [edited.edges[q] EXCEPT !.seq =
                            IF ~d.tailored /\ ahead(q) >= place THEN ahead(q) + 1 ELSE ahead(q)]
                    ELSE IF q = p /\ ~d.tailored THEN [d EXCEPT !.seq = place]
                    ELSE edited.edges[q]]]
  IN  Normalize(IF d.gate = "SAND" THEN numbered ELSE edited)

-----------------------------------------------------------------------------
\* Attack paths (analyzePaths).  The cap on how many are listed is left out.

Terminal(n) == TypeOf[n] \in {"Attack", "Asset"}

Routes(t) ==
  LET routes[n \in t.nodes] ==
        IF Active(t, n) = {} THEN IF Terminal(n) THEN {<<n>>} ELSE {}
        ELSE UNION {IF t.edges[p].blocked THEN {<<n, p[2]>>}
                    ELSE {<<n>> \o r : r \in routes[p[2]]} : p \in Active(t, n)}
  IN  routes[Root]

RouteStatus(t, r) ==
  LET last == t.edges[<<r[Len(r) - 1], r[Len(r)]>>] IN
  IF last.blocked THEN "BLOCKED"
  ELSE IF TypeOf[r[Len(r)]] = "Asset" THEN "DERIVED"
  ELSE IF last.allowed THEN "ALLOWED" ELSE "RV"

Total(f) == MapThenSumSet(LAMBDA k : f[k], DOMAIN f)

\* A block counted like any other relationship.
CountThroughBlocks(t) ==
  LET count[n \in t.nodes] ==
        IF Active(t, n) = {} THEN IF Terminal(n) THEN 1 ELSE 0
        ELSE Total([p \in Active(t, n) |-> count[p[2]]])
  IN  count[Root]
Count(t) ==
  LET count[n \in t.nodes] ==
        IF Active(t, n) = {} THEN IF Terminal(n) THEN 1 ELSE 0
        ELSE Total([p \in Active(t, n) |-> IF t.edges[p].blocked THEN 1 ELSE count[p[2]]])
  IN  count[Root]

Unaddressed(t, p) == TypeOf[p[2]] = "Attack" /\ ~t.edges[p].allowed
RvCount(t) ==
  LET rv[n \in t.nodes] ==
        Total([p \in Active(t, n) |-> IF t.edges[p].blocked THEN 0
                                      ELSE IF Active(t, p[2]) # {} THEN rv[p[2]]
                                      ELSE IF Unaddressed(t, p) THEN 1 ELSE 0])
  IN  rv[Root]

-----------------------------------------------------------------------------
\* Metrics (evaluateMetrics): a scenario is the set of leaves that succeed
\* together.  missing are the leaves without all their inputs.  Of hostile
\* events only; the scenario budget is left out.

Nothing == [scenarios |-> {}, complete |-> TRUE]     \* behind a complete block

Leaf(n, missing) ==
  IF Terminal(n) THEN [scenarios |-> {{n}}, complete |-> n \notin missing]
                 ELSE [scenarios |-> {}, complete |-> FALSE]

Alternatives(results) ==
  [scenarios |-> UNION {r.scenarios : r \in results},
   complete  |-> \A r \in results : r.complete]

\* All branches succeed: one scenario of each.  A leaf two branches share makes
\* the analysis incomplete.
Together(kids, result) ==
  LET picks  == {f \in [kids -> UNION {result[k].scenarios : k \in kids}] :
                   \A k \in kids : f[k] \in result[k].scenarios}
      shared == \E f \in picks : \E j, k \in kids : j # k /\ f[j] \cap f[k] # {}
  IN  [scenarios |-> {UNION {f[k] : k \in kids} : f \in picks},
       complete  |-> ~shared /\ \A k \in kids : result[k].complete]

\* A blocked branch left out of an AND.
EvaluateAroundBlock(t, missing) ==
  LET value[n \in t.nodes] ==
        LET kids   == Active(t, n)
            open   == {p \in kids : ~t.edges[p].blocked}
            result == [p \in kids |-> IF t.edges[p].blocked THEN Nothing ELSE value[p[2]]]
        IN  IF \A p \in Out(t, n) : Context(p) THEN Leaf(n, missing)
            ELSE IF kids = {} THEN [scenarios |-> {{n}}, complete |-> FALSE]
            ELSE IF Gates(t, n) = {"OR"} THEN Alternatives({result[p] : p \in kids})
            ELSE IF open = {} THEN [scenarios |-> {{n}}, complete |-> TRUE]
            ELSE Together(open, result)
  IN  value
Evaluate(t, missing) ==
  LET value[n \in t.nodes] ==
        LET kids   == Active(t, n)
            result == [p \in kids |-> IF t.edges[p].blocked THEN Nothing ELSE value[p[2]]]
        IN  IF \A p \in Out(t, n) : Context(p) THEN Leaf(n, missing)
            ELSE IF kids = {} THEN [scenarios |-> {}, complete |-> FALSE]
            ELSE IF Gates(t, n) = {"OR"} THEN Alternatives({result[p] : p \in kids})
            ELSE Together(kids, result)
  IN  value

Result(v) == IF ~v.complete THEN "incomplete" ELSE IF v.scenarios = {} THEN "blocked" ELSE "complete"
=============================================================================
