---------------------------- MODULE LossAnalysis ----------------------------
(***************************************************************************)
(* An analyst works on the numbers of an attack tree (LossCanvas.tsx):     *)
(* stages the inputs of leaves, says which Attacks are random events,      *)
(* blocks or tailors out branches and changes their operators, and edits   *)
(* the rules of the root in a dialog that is staged as a whole.  The tree  *)
(* keeps its nodes (LossEditing changes them).                             *)
(***************************************************************************)
EXTENDS LossMetrics

CONSTANT Tasks         \* bound: what an analyst works on and with; of each,
                       \*   trees        the trees it may start from
                       \*   committed    what every leaf has to begin with
                       \*   entries      what the analyst may fill in for a leaf
                       \*   profiles     what the profile's text may say
                       \*   custom       ids that may be typed for a metric of one's own
                       \*   ruleChoices  what a rule may be changed to
                       \*   tuned        the built-in metrics whose rules are changed
                       \*   marks        branches blocked or tailored out and random events
                       \*   rows         metrics of one's own in the dialog

NoId   == "none"       \* the id of no metric

ASSUME TasksAssumption ==
  \A t \in Tasks :
    /\ t.custom \cap (BuiltIn \cup {NoId}) = {}
    /\ DOMAIN t.committed \subseteq BuiltIn
    /\ \A e \in t.entries \cup {t.committed} : e \in [DOMAIN e -> Number]
    /\ \A r \in t.ruleChoices : r.default \in Number
    /\ \A w \in t.trees : IsTree(w) /\ Valid(w)
    /\ t.marks \in Nat /\ t.rows \in Nat

VARIABLES
  tree, random,      \* the tree and which of its nodes are random events
  inputs,            \* of every node, from metrics to numbers
  rules, profile,    \* of the root
  task,              \* which of the tasks it is
  form               \* the rows of the dialog, or Closed

analysisVars == <<tree, random, inputs, rules, profile, task, form>>

Closed == [open |-> FALSE]
Opened(rows) == [open |-> TRUE, rows |-> rows]
Row(id, original, rule) == [id |-> id, original |-> original, rule |-> rule]

AnalysisInit ==
  /\ task \in Tasks
  /\ tree \in task.trees /\ random = [n \in tree.nodes |-> FALSE]
  /\ inputs = [n \in tree.nodes |-> IF Out(tree, n) = {} THEN task.committed ELSE <<>>]
  /\ rules = DefaultRules /\ profile \in task.profiles /\ form = Closed
  /\ ValidProfile(profile, rules)

Metrics == EvaluateMetrics(tree, random, inputs, rules, profile)

Marks(t, r) == Cardinality({p \in DOMAIN t.edges : t.edges[p].tailored \/ t.edges[p].blocked})
               + Cardinality({n \in t.nodes : r[n]})

-----------------------------------------------------------------------------
\* Edits.  One the validation rejects changes nothing (update).

Restaged(t, r) ==
  /\ ~form.open
  /\ tree' = t /\ random' = r
  /\ Marks(tree', random') <= task.marks /\ Valid(tree')
  /\ UNCHANGED <<inputs, rules, profile, task, form>>

\* Every metric has a field, a blank one means unknown.
StageLeaf(n) ==
  /\ ~form.open /\ Out(tree, n) = {} /\ Terminal(n)
  /\ \E e \in task.entries :
       LET values == [id \in DOMAIN rules |-> IF id \in DOMAIN e THEN e[id] ELSE Null] IN
       /\ \A id \in DOMAIN rules : InDomain(rules[id], values[id])
       /\ inputs' = [inputs EXCEPT ![n] = values]
  /\ UNCHANGED <<tree, random, rules, profile, task, form>>

SetEventKind(n) ==
  TypeOf[n] = "Attack" /\ Restaged(tree, [random EXCEPT ![n] = ~@])

Restage(p, change) == Restaged(StageRelationship(tree, p, change), random)
SetGate(p)   == /\ Cardinality(Active(tree, p[1])) > 1 /\ p \in Active(tree, p[1])
                /\ \E g \in {"AND", "OR", "SAND"} : Restage(p, [tree.edges[p] EXCEPT !.gate = g])
SetTailor(p) == Restage(p, [tree.edges[p] EXCEPT !.tailored = ~@])
SetBlock(p)  == Restage(p, [tree.edges[p] EXCEPT !.blocked = ~@])

-----------------------------------------------------------------------------
\* The dialog of the metric rules.

Rows(r) == FoldSet(LAMBDA id, rows : Append(rows, Row(id, id, r[id])), <<>>, DOMAIN r)
OpenRules ==
  /\ ~form.open
  /\ form' = Opened(Rows(rules))
  /\ UNCHANGED <<tree, random, inputs, rules, profile, task>>

Rewrite(rows) ==
  /\ form.open /\ Len(rows) <= Cardinality(BuiltIn) + task.rows
  /\ form' = Opened(rows)
  /\ UNCHANGED <<tree, random, inputs, rules, profile, task>>

\* A metric that came with the tool can be neither renamed nor deleted.
OwnRow(i) == form.rows[i].original \notin BuiltIn

Rename(i)     == OwnRow(i) /\ \E id \in task.custom : Rewrite([form.rows EXCEPT ![i].id = id])
ChangeRule(i) == /\ OwnRow(i) \/ form.rows[i].id \in task.tuned
                 /\ \E r \in task.ruleChoices : Rewrite([form.rows EXCEPT ![i].rule = r])
DeleteRow(i)  == OwnRow(i) /\ Rewrite(RemoveAt(form.rows, i))
\* The id it comes with can be typed over at once.
CopyRow(i)    == \E id \in task.custom : Rewrite(Append(form.rows, Row(id, NoId, form.rows[i].rule)))
AddRow        == \E id \in task.custom, r \in task.ruleChoices : Rewrite(Append(form.rows, Row(id, NoId, r)))
CancelRules   == form.open /\ form' = Closed /\ UNCHANGED <<tree, random, inputs, rules, profile, task>>

\* What a leaf has of each row's metric: what it had under the row's id, or else
\* under the id the row had before, when no other row has that now.
Ids(rows) == {rows[i].id : i \in DOMAIN rows}
Was(values, row, rows) ==
  IF row.id \in DOMAIN values \cap DOMAIN rules THEN row.id
  ELSE IF row.original \in DOMAIN values \ Ids(rows) THEN row.original ELSE NoId
MigrateById(values, rows) == [id \in DOMAIN values \cap Ids(rows) |-> values[id]]
Migrate(values, rows) ==
  LET was  == [i \in DOMAIN rows |-> Was(values, rows[i], rows)]
      kept == {i \in DOMAIN rows : was[i] # NoId}
  IN  [id \in {rows[i].id : i \in kept} |->
         values[was[CHOOSE i \in kept : rows[i].id = id]]]

StageRules ==
  /\ form.open
  /\ LET rows == form.rows
         new  == [id \in Ids(rows) |-> rows[CHOOSE i \in DOMAIN rows : rows[i].id = id].rule]
     IN  /\ Cardinality(Ids(rows)) = Len(rows)
         /\ ValidRules(new) /\ \E p \in task.profiles : ValidProfile(p, new) /\ profile' = p
         /\ rules' = new
         /\ inputs' = [n \in tree.nodes |-> Migrate(inputs[n], rows)]
  /\ form' = Closed
  /\ UNCHANGED <<tree, random, task>>

AnalysisNext ==
  \/ \E n \in tree.nodes : StageLeaf(n) \/ SetEventKind(n)
  \/ \E p \in DOMAIN tree.edges : SetGate(p) \/ SetTailor(p) \/ SetBlock(p)
  \/ OpenRules \/ StageRules \/ CancelRules
  \/ form.open /\ \E i \in DOMAIN form.rows :
       Rename(i) \/ ChangeRule(i) \/ DeleteRow(i) \/ CopyRow(i)
  \/ form.open /\ AddRow

AnalysisSpec == AnalysisInit /\ [][AnalysisNext]_analysisVars

-----------------------------------------------------------------------------
\* The reference: what an adversary may do.  A plan picks one open alternative
\* wherever there is a choice; Numbers are those of everything the plan needs.
Decisions(t) == {n \in t.nodes : Gates(t, n) = {"OR"} /\ Cardinality(Active(t, n)) > 1}
Open(t, n) == {q \in Active(t, n) : ~t.edges[q].blocked}
Fails == <<>>
Plans(t) ==
  LET options == (UNION {Open(t, n) : n \in Decisions(t)}) \cup {Fails} IN
  {f \in [Decisions(t) -> options] :
     \A n \in Decisions(t) : IF Open(t, n) = {} THEN f[n] = Fails ELSE f[n] \in Open(t, n)}
Filled(n) == [id \in DOMAIN rules |-> IF id \in DOMAIN inputs[n] /\ Known(inputs[n][id])
                                       THEN inputs[n][id] ELSE rules[id].default]
Numbers(t, plan) ==
  LET of[n \in t.nodes] ==
        LET needed == IF n \in Decisions(t) THEN {plan[n]} ELSE Active(t, n)
            parts  == [q \in needed \ {Fails} |-> of[q[2]]]
        IN  IF Out(t, n) = {} THEN Filled(n)
            ELSE IF parts = Fails \/ ~needed \subseteq Open(t, n) THEN Fails
            ELSE IF Fails \in {parts[q] : q \in needed} THEN Fails
            ELSE [id \in DOMAIN rules |->
                   Aggregate([q \in needed |-> parts[q][id]],
                     IF n \in Decisions(t) THEN "SUM" ELSE rules[id][CHOOSE g \in Gates(t, n) : TRUE])]
  IN  of[Root]
Hostile == \A n \in tree.nodes : ~random[n]

\* Of a complete analysis of adversaries the risk shown for the Loss is that of
\* the worst plan there is, not of the branches that are worst by themselves
\* (evaluateMetrics; "Complete scenario mode chooses the scenario with maximum
\* relative risk").
WorstPlanIsShown ==
  LET root == Metrics[Root]
      acts == {Numbers(tree, f) : f \in Plans(tree)} \ {Fails}
  IN  (Hostile /\ profile.mode = "scenario" /\ root.complete) =>
        ReportedRisk(root, profile) =
          Max({0} \cup {RelativeRisk(Scenario({}, v, FALSE, TRUE), profile) : v \in acts})

\* The probability of a random event made of others is that of the tree happening
\* when each leaf happens by its own (probabilityUnion, deriveStochastic).
LeavesOf(t, n) == {m \in {n} \cup Descendants(t, n) : Out(t, m) = {}}
Happens(t, n, S) ==
  LET of[m \in t.nodes] ==
        IF Out(t, m) = {} THEN m \in S
        ELSE IF Gates(t, m) = {"OR"} THEN \E q \in Open(t, m) : of[q[2]]
        ELSE Open(t, m) = Active(t, m) /\ \A q \in Active(t, m) : of[q[2]]
  IN  of[n]
Chance(n) == Filled(n).RandomEventProbability
OddsOf(n, S) ==
  Multiplied([l \in LeavesOf(tree, n) |-> IF l \in S THEN Chance(l) ELSE Unit - Chance(l)])
ProbabilityIsJoint ==
  \A n \in tree.nodes : LET r == Metrics[n] leaves == LeavesOf(tree, n) IN
    (random[n] /\ r.complete) =>
      r.scenarios[1].values.RandomEventProbability * Unit ^ (Cardinality(leaves) - 1) =
        MapThenSumSet(LAMBDA S : OddsOf(n, S), {S \in SUBSET leaves : Happens(tree, n, S)})

\* With every input there and in its domain, nothing tailored out and no leaf shared, the analysis
\* of adversaries is complete exactly if no node has more scenarios than the
\* profile allows ("Exactly the configured number of scenarios is allowed").
Ways(t) ==
  LET of[n \in t.nodes] ==
        LET ways == [q \in Active(t, n) |-> IF t.edges[q].blocked THEN 0 ELSE of[q[2]]]
        IN  IF Out(t, n) = {} THEN 1
            ELSE IF Gates(t, n) = {"OR"} THEN Total(ways) ELSE Multiplied(ways)
  IN  of
Whole == /\ \A p \in DOMAIN tree.edges : ~tree.edges[p].tailored
         /\ \A n \in tree.nodes : TypeOf[n] # "Environment" /\ (\A q \in Out(tree, n) : Context(q)) =>
              Terminal(n) /\ \A id \in DOMAIN rules :
                /\ id \in DOMAIN inputs[n] /\ Known(inputs[n][id])
                /\ InDomain(rules[id], inputs[n][id])
         /\ \A n \in tree.nodes \ {Root} : Cardinality(In(tree, n)) = 1
Analysed == ReachFrom(tree, {Root}, {p \in DOMAIN tree.edges : ~tree.edges[p].blocked})
BudgetIsExact ==
  (Hostile /\ Whole /\ profile.encounters = "fixed") =>
    (Metrics[Root].complete <=> \A n \in Analysed : Ways(tree)[n] <= profile.cap)

\* A metric keeps the inputs of every leaf when the dialog is staged, under
\* whatever id it has now, and a new metric has none; where an id that another
\* metric had is given anew in one go nothing is promised (Stage rules).
RulesKeepValues ==
  [][(form.open /\ ~form'.open /\ DOMAIN rules' = Ids(form.rows)) =>
       \A i \in DOMAIN form.rows :
         LET row == form.rows[i]
             old == row.original
             own == row.id = old \/ (row.id \notin DOMAIN rules /\ old \notin Ids(form.rows))
         IN  own => \A n \in tree.nodes :
               IF old \in DOMAIN inputs[n]
               THEN row.id \in DOMAIN inputs'[n] /\ inputs'[n][row.id] = inputs[n][old]
               ELSE row.id \notin DOMAIN inputs'[n]]_analysisVars
=============================================================================
