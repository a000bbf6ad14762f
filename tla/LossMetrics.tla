----------------------------- MODULE LossMetrics -----------------------------
(***************************************************************************)
(* The calculated properties of an attack tree (domain/metrics.ts): the    *)
(* scenarios of every node, what is derived from one, and which of them    *)
(* the Loss Tool reports.  LossTree knows only whether a leaf has its      *)
(* inputs; here the inputs are numbers and an Attack may be a random event *)
(* instead of an adversary's act.                                          *)
(*                                                                         *)
(* One metric stands for those that are treated alike: the others of each  *)
(* role (resources, benefits, impacts, factors that default to one) differ *)
(* in label and domain only.  A fraction is counted in Units.  Detriments, *)
(* thresholds and the wording of findings are left out.                    *)
(***************************************************************************)
EXTENDS LossTree, SequencesExt

CONSTANT Unit          \* the parts a fraction is counted in
ASSUME UnitAssumption == Unit \in Nat \ {0}

Null == -1             \* no value
Known(v) == v # Null
Number == Nat \cup {Null}

Operation == {"SUM", "PRODUCT", "MIN", "MAX"}
Rule(and, or, sand, default, max) ==
  [AND |-> and, OR |-> or, SAND |-> sand, default |-> default, max |-> max]

DefaultRules ==
  [AttackCost               |-> Rule("SUM", "MIN", "SUM", Null, Null),
   AttackTime               |-> Rule("MAX", "MIN", "SUM", Null, Null),
   PhysicalPresenceRequired |-> Rule("MAX", "MIN", "MAX", 0, 1),
   AttackerMoneyGain        |-> Rule("SUM", "MAX", "SUM", Null, Null),
   VictimFinancialLoss      |-> Rule("SUM", "MAX", "SUM", Null, Null),
   RandomEventProbability   |-> Rule("PRODUCT", "MAX", "PRODUCT", Unit, Unit)]
BuiltIn == DOMAIN DefaultRules

InDomain(rule, v) == v = Null \/ (v >= 0 /\ (Known(rule.max) => v <= rule.max))

\* scenarioDependencyIds, as far as they are modelled.
Dependencies == {"AttackTime", "RandomEventProbability", "VictimFinancialLoss"}

Profile(ids) ==
  [mode : {"scenario", "scalar"}, cap : 1 .. 5000, encounters : {"fixed", "recurring"},
   recovery : Nat, presence : BOOLEAN, independent : BOOLEAN, impacts : SUBSET ids]

\* The weights of the impacts sum to one, so there is at least one.
ValidRules(rules) == \A id \in DOMAIN rules : InDomain(rules[id], rules[id].default)
ValidProfile(p, rules) ==
  /\ p.impacts \subseteq DOMAIN rules /\ p.impacts # {}
  /\ p \in Profile(p.impacts)
  /\ p.mode = "scenario" => Dependencies \subseteq DOMAIN rules

-----------------------------------------------------------------------------
\* From the numbers of one scenario.

\* Piecewise linear between the points, the value of the end beyond them.
Utility(v, points) ==
  LET last == Len(points)
      next == CHOOSE i \in 2 .. last : v <= points[i][1] /\ v > points[i - 1][1]
      a == points[next - 1]
      b == points[next]
  IN  IF v <= points[1][1] THEN points[1][2]
      ELSE IF v >= points[last][1] THEN points[last][2]
      ELSE a[2] + ((b[2] - a[2]) * (v - a[1])) \div (b[1] - a[1])

Affinity == << <<0, Unit>>, <<2, 0>> >>            \* of a resource
Value    == << <<0, 0>>, <<2, Unit>> >>            \* of a benefit or an impact

Times(a, b) == (a * b) \div Unit
Multiplied(f) == MapThenFoldSet(LAMBDA x, y : x * y, 1, LAMBDA k : f[k],
                   LAMBDA S : CHOOSE x \in S : TRUE, DOMAIN f)
\* Of fractions, rounded once.
Product(f)  == (Multiplied(f) * Unit) \div Multiplied([k \in DOMAIN f |-> Unit])
UnionOf(f)  == Unit - Product([k \in DOMAIN f |-> Unit - f[k]])

Aggregate(f, op) ==
  LET values == {f[k] : k \in DOMAIN f} IN
  IF values = {} \/ Null \in values THEN Null ELSE
  CASE op = "SUM"     -> Total(f)
    [] op = "PRODUCT" -> Product(f)
    [] op = "MIN"     -> Min(values)
    [] OTHER          -> Max(values)

\* A capability the actor lacks makes the attack infeasible whatever it costs.
Feasibility(v, p) ==
  IF v.PhysicalPresenceRequired \notin {Null, 0} /\ ~p.presence THEN 0
  ELSE IF Known(v.AttackCost) THEN Utility(v.AttackCost, Affinity) ELSE Null
NetBenefit(v) ==
  IF Known(v.AttackerMoneyGain) THEN Utility(v.AttackerMoneyGain, Value) ELSE Null
PainFactor(v, p) ==
  Aggregate([id \in p.impacts |-> IF Known(v[id]) THEN Utility(v[id], Value) ELSE Null], "SUM")

\* How readily it happens: what the actor can and wants to do, or chance.
Propensity(s, p) ==
  LET f == Feasibility(s.values, p) g == NetBenefit(s.values) IN
  IF s.random THEN s.values.RandomEventProbability
  ELSE IF Null \in {f, g} THEN Null ELSE Times(f, g)
RelativeRisk(s, p) ==
  LET q == Propensity(s, p) pain == PainFactor(s.values, p) IN
  IF Null \in {q, pain} THEN Null ELSE q * pain

\* Recurring encounters need a time to recur in.
Timed(s, p) ==
  p.encounters = "recurring" =>
    Known(s.values.AttackTime) /\ s.values.AttackTime + p.recovery > 0

-----------------------------------------------------------------------------
\* The scenarios of a node.  A result has scenarios, what each metric comes to on
\* its own (scalar) and whether the analysis is complete.

Unknown(rules) == [id \in DOMAIN rules |-> Null]
Blocked(rules) == [scenarios |-> <<>>, scalar |-> Unknown(rules), complete |-> TRUE]
Withheld(rules) == [Blocked(rules) EXCEPT !.complete = FALSE]

Status(r) == IF ~r.complete THEN "incomplete"
             ELSE IF r.scenarios = <<>> THEN "blocked" ELSE "complete"

Scenario(leaves, values, random, complete) ==
  [leaves |-> leaves, values |-> values, random |-> random, complete |-> complete]

\* A terminal's inputs, the declared default for one that is missing.  Of a
\* random event only its probability and its impacts are needed.
Terminates(n, input, random, rules, p) ==
  LET raw    == [id \in DOMAIN rules |->
                   IF id \in DOMAIN input /\ Known(input[id]) THEN input[id]
                   ELSE rules[id].default]
      valid  == \A id \in DOMAIN input : id \in DOMAIN rules /\ InDomain(rules[id], input[id])
      needed == IF random THEN p.impacts \cup {"RandomEventProbability"} ELSE DOMAIN rules
      whole  == \A id \in needed : Known(raw[id])
  IN  IF ~Terminal(n) \/ ~valid THEN Withheld(rules)
      ELSE [scenarios |-> <<Scenario({n}, raw, random, whole)>>,
            scalar |-> raw, complete |-> whole]

\* Exactly as many scenarios as the profile allows are kept.
FirstOf(k, s)  == SubSeq(s, 1, Min({k, Len(s)}))
BudgetShort(p) == p.cap - 1
Budget(p)      == p.cap

\* One alternative succeeds: its scenario as it is.
EitherWorst(results, p) ==
  LET all == FlattenSeq([i \in DOMAIN results |-> results[i].scenarios])
  IN  [scenarios |-> SelectSeq(all, LAMBDA s : \A i \in DOMAIN all :
                       RelativeRisk(s, p) >= RelativeRisk(all[i], p)), whole |-> TRUE]
Either(results, p) ==
  LET all == FlattenSeq([i \in DOMAIN results |-> results[i].scenarios])
  IN  [scenarios |-> FirstOf(Budget(p), all), whole |-> Len(all) <= Budget(p)]

\* All branches succeed: one scenario of each, their numbers taken together.
Joined(pick, gate, rules) ==
  LET values == [id \in DOMAIN rules |->
                   Aggregate([i \in DOMAIN pick |-> pick[i].values[id]], rules[id][gate])]
      apart  == \A i, j \in DOMAIN pick : i # j => pick[i].leaves \cap pick[j].leaves = {}
  IN  Scenario(UNION {pick[i].leaves : i \in DOMAIN pick}, values, FALSE,
               /\ apart
               /\ \A i \in DOMAIN pick : pick[i].complete
               /\ \A id \in DOMAIN rules : Known(values[id]))
Pairs(a, b) == [q \in 1 .. Len(a) * Len(b) |->
                  Append(a[((q - 1) \div Len(b)) + 1], b[((q - 1) % Len(b)) + 1])]
Picks(results, p) ==
  LET picks[k \in 0 .. Len(results)] ==
        IF k = 0 THEN << <<>> >>
        ELSE FirstOf(Budget(p) + 1, Pairs(picks[k - 1], results[k].scenarios))
  IN  picks[Len(results)]
Every(results, gate, rules, p) ==
  LET picks == Picks(results, p)
      kept  == FirstOf(Budget(p), picks)
  IN  IF \E i \in DOMAIN results : results[i].scenarios = <<>>
      THEN [scenarios |-> <<>>, whole |-> TRUE]
      ELSE [scenarios |-> [i \in DOMAIN kept |-> Joined(kept[i], gate, rules)],
            whole     |-> Len(picks) <= Budget(p)]

\* A random event made of others: the first scenario of each, if it is the only
\* one, and they must be declared independent and share no leaf.
SeparateUnchecked(leaves) == TRUE
Separate(leaves) == \A i, j \in DOMAIN leaves : i # j => leaves[i] \cap leaves[j] = {}

Event(results, gate, rules, p) ==
  LET kids    == DOMAIN results
      none    == Scenario({}, Unknown(rules), TRUE, FALSE)
      first   == [i \in kids |-> IF results[i].scenarios = <<>> THEN none
                                 ELSE results[i].scenarios[1]]
      leaves  == [i \in kids |-> first[i].leaves]
      chances == [i \in kids |-> first[i].values.RandomEventProbability]
      chance  == IF Null \in Range(chances) THEN Null
                 ELSE IF gate = "OR" THEN UnionOf(chances) ELSE Product(chances)
      raw     == [id \in DOMAIN rules |->
                    IF id = "RandomEventProbability" THEN chance
                    ELSE Aggregate([i \in kids |-> first[i].values[id]], rules[id][gate])]
      alike   == \A id \in p.impacts : \A i, j \in kids :
                   first[i].values[id] = first[j].values[id]
      whole   == /\ p.independent /\ Separate(leaves)
                 /\ \A i \in kids : results[i].complete /\ Len(results[i].scenarios) = 1
                 /\ gate = "OR" => alike
  IN  [scenarios |-> <<Scenario(UNION Range(leaves), raw, TRUE, whole)>>,
       scalar    |-> raw, complete |-> whole]

\* What a metric comes to on its own: a branch that is blocked is no alternative,
\* and without it nothing that needs it has a value.
Scalar(results, gate, rules) ==
  LET open == {i \in DOMAIN results : Status(results[i]) # "blocked"}
  IN  [id \in DOMAIN rules |->
         IF gate # "OR" /\ open # DOMAIN results THEN Null
         ELSE Aggregate([i \in open |-> results[i].scalar[id]], rules[id][gate])]

Branches(results, gate, random, rules, p) ==
  LET act == IF gate = "OR" THEN Either(results, p) ELSE Every(results, gate, rules, p) IN
  IF random THEN Event(results, gate, rules, p)
  ELSE [scenarios |-> act.scenarios, scalar |-> Scalar(results, gate, rules),
        complete  |-> act.whole /\ \A i \in DOMAIN results : results[i].complete]

\* The relationships that are followed, in order; a complete block stands for one
\* that nobody gets through.
InOrder(t, S) ==
  [i \in 1 .. Cardinality(S) |->
     CHOOSE p \in S : Cardinality({q \in S : Before(t, q, p)}) = i - 1]
Kids(t, n)    == InOrder(t, Active(t, n))

\* A scenario that does not recur in time is not complete.
Recurring(r, p) ==
  LET timed == [i \in DOMAIN r.scenarios |->
                  [r.scenarios[i] EXCEPT !.complete = @ /\ Timed(r.scenarios[i], p)]]
  IN  [scenarios |-> timed, scalar |-> r.scalar,
       complete  |-> r.complete /\ \A i \in DOMAIN timed : timed[i].complete]

\* The result of every node.
EvaluateMetrics(t, random, inputs, rules, p) ==
  LET result[n \in t.nodes] ==
        LET kids    == Kids(t, n)
            results == [i \in DOMAIN kids |-> IF t.edges[kids[i]].blocked THEN Blocked(rules)
                                              ELSE result[kids[i][2]]]
        IN  Recurring(IF \A q \in Out(t, n) : Context(q)
                      THEN Terminates(n, inputs[n], random[n], rules, p)
                      ELSE IF results = <<>> THEN Withheld(rules)
                      ELSE Branches(results, CHOOSE g \in Gates(t, n) : TRUE, random[n], rules, p), p)
  IN  result

\* The risk the Loss Tool reports: of the worst scenario, none behind complete
\* blocks, and no number when the analysis is incomplete or of bounds only.
ReportedRisk(r, p) ==
  IF Status(r) = "blocked" THEN 0
  ELSE IF Status(r) = "incomplete" \/ p.mode = "scalar" THEN Null
  ELSE Max({RelativeRisk(r.scenarios[i], p) : i \in DOMAIN r.scenarios})
=============================================================================
