----------------------------- MODULE LossEditing -----------------------------
(***************************************************************************)
(* An analyst edits one attack tree on the canvas of the Loss Tool         *)
(* (LossCanvas.tsx): nodes are added, linked and pruned, relationships     *)
(* staged from the inspector, branches rolled up and paths highlighted.    *)
(* An edit the validation rejects is reported and changes nothing          *)
(* (update).  The inputs of the leaves change no relationship: any leaf    *)
(* may miss some.  When the draft is committed, laid out or replaced by    *)
(* another is in LossWorkspace.                                            *)
(***************************************************************************)
EXTENDS LossTree

CONSTANTS
  CoreTree,      \* the tree the workspace was opened with
  CoreNode,      \* nodes the database has: those of the tree and the candidates
  NewNode,       \* bound: nodes the analyst creates
  MaxMarks       \* bound: relationships tailored out, blocked or allowed, and
                 \* branches rolled up, together

ASSUME EditingAssumption ==
  IsTree(CoreTree) /\ Valid(CoreTree) /\ NewNode \cup CoreNode \subseteq Node /\ MaxMarks \in Nat

VARIABLES
  draft,         \* the tree being edited
  collapsed      \* nodes whose branch is rolled up

editingVars == <<draft, collapsed>>

Committable == {"Attack", "Countermeasure"}

EditingInit == draft = CoreTree /\ collapsed = {}

Marked(t) == {p \in DOMAIN t.edges :
                t.edges[p].tailored \/ t.edges[p].blocked \/ t.edges[p].allowed}
\* One of the trees an edit may make of the draft.
Edited(trees) ==
  \E t \in trees :
    /\ Cardinality(Marked(t)) + Cardinality(collapsed) <= MaxMarks
    /\ Valid(t)
    /\ draft' = t
    /\ UNCHANGED collapsed

\* Only Attacks and Countermeasures are created here.
AddNode(n, m) ==
  /\ m \in NewNode \ draft.nodes
  /\ TypeOf[m] \in AllowedChildren[TypeOf[n]] \cap Committable
  /\ Edited({Attach(draft, n, m)})

\* A node of the tree or a candidate from the database becomes a child.
Link(n, m) ==
  /\ TypeOf[m] \in AllowedChildren[TypeOf[n]]
  /\ <<n, m>> \notin DOMAIN draft.edges
  /\ Edited({Attach(draft, n, m)})

\* What the inspector lets the analyst say of a relationship: a context only
\* AND, the root's States no AND, and a mark can be set only where it applies.
\* Bound: the operator is changed only where it has siblings to join.
Offered(p) ==
  LET e == draft.edges[p] IN
  {d \in
  [gate : {e.gate} \cup
            IF Context(p) \/ Cardinality({q \in Out(draft, p[1]) : ~Context(q)}) = 1 THEN {}
            ELSE {"OR", "SAND"} \cup IF p[1] = Root THEN {} ELSE {"AND"},
   seq      : {e.seq} \cup 0 .. Cardinality(Out(draft, p[1])) - 1,
   tailored : BOOLEAN,
   blocked  : {e.blocked} \cup IF TypeOf[p[1]] = "Attack" /\ TypeOf[p[2]] = "Countermeasure"
                               THEN BOOLEAN ELSE {},
   allowed  : {e.allowed} \cup IF TypeOf[p[2]] = "Attack" /\ Out(draft, p[2]) = {}
                               THEN BOOLEAN ELSE {}] :
     d.gate = "SAND" \/ d.seq = e.seq}

Stage(p) == Edited({StageRelationship(draft, p, d) : d \in Offered(p)})

RemoveBranch(n) == n # Root /\ Edited({Prune(draft, n)})

ToggleFold(n) ==
  /\ n \in Visible(draft, collapsed)
  /\ Out(draft, n) # {}
  /\ collapsed' = IF n \in collapsed THEN collapsed \ {n} ELSE collapsed \cup {n}
  /\ Cardinality(Marked(draft)) + Cardinality(collapsed') <= MaxMarks
  /\ UNCHANGED draft

RollDownAll == collapsed' = {} /\ UNCHANGED draft

\* A node is looked up by name: what hides it is rolled down.
Revealed(n) == {c \in collapsed : n \notin Descendants(draft, c)}

Focus(n) == collapsed' = Revealed(n) /\ UNCHANGED draft

Revert == draft' = CoreTree /\ collapsed' = {}

EditingNext ==
  \/ \E n \in draft.nodes : \/ \E m \in NewNode : AddNode(n, m)
                            \/ \E m \in draft.nodes \cup CoreNode : Link(n, m)
                            \/ RemoveBranch(n) \/ ToggleFold(n) \/ Focus(n)
  \/ \E p \in DOMAIN draft.edges : Stage(p)
  \/ RollDownAll \/ Revert

EditingSpec == EditingInit /\ [][EditingNext]_editingVars

-----------------------------------------------------------------------------
\* Whatever the canvas and the inspector offer is a valid tree and not rejected:
\* what pruneBranch leaves of a tree that is tailored, blocked or shared, and the
\* operator a relationship gives its siblings, its position and its marks.  Two
\* exceptions: a shared node can move nearer to the root when a branch is removed,
\* to a depth that is as wide as it may be; and a State that came as tailored and
\* under AND cannot be taken back with that operator.
OfferedIsValid ==
  /\ \A t \in {Prune(draft, n) : n \in draft.nodes \ {Root}} : Proper(t)
  /\ \A p \in DOMAIN draft.edges :
       LET possible == {d \in Offered(p) : p[1] = Root /\ d.gate = "AND" => Context(p)} IN
       \A t \in {StageRelationship(draft, p, d) : d \in possible} : Valid(t)

\* "Shared descendants remain": removing a branch keeps exactly the nodes the
\* root reaches without passing through the one removed.
PruneKeepsShared ==
  \A n \in draft.nodes \ {Root} :
    Prune(draft, n).nodes =
      draft.nodes \cap ReachFrom(draft, {Root}, {p \in DOMAIN draft.edges : n \notin {p[1], p[2]}})

\* The two counts computed without listing the paths (count, rvCount) agree
\* with the paths listed (walk).
CountsAgree ==
  LET routes == Routes(draft) IN
  /\ Count(draft) = Cardinality(routes)
  /\ RvCount(draft) = Cardinality({r \in routes : RouteStatus(draft, r) = "RV"})

\* Whether the root succeeds when some leaves do.
Succeeds(leaves) ==
  LET holds[n \in draft.nodes] ==
        LET kids  == Active(draft, n)
            ok(p) == ~draft.edges[p].blocked /\ holds[p[2]]
        IN  IF \A p \in Out(draft, n) : Context(p) THEN n \in leaves
            ELSE IF Gates(draft, n) = {"OR"} THEN \E p \in kids : ok(p)
            ELSE kids # {} /\ \A p \in kids : ok(p)
  IN  holds[Root]
Leaves == {n \in draft.nodes : Terminal(n)}

\* Every scenario the metrics are calculated from is a success of the tree, and
\* a complete calculation reports "blocked" only if nothing succeeds: tailoring
\* is not a complete block, and one blocked branch blocks an AND.
ScenariosSucceed ==
  \A missing \in SUBSET Leaves :
  LET value == Evaluate(draft, missing)[Root] IN
  /\ \A s \in value.scenarios : Succeeds(s)
  /\ Result(value) = "blocked" => ~Succeeds(Leaves)
  /\ Result(value) = "blocked" => \E p \in DOMAIN draft.edges : draft.edges[p].blocked
=============================================================================
