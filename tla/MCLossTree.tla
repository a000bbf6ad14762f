------------------------------ MODULE MCLossTree ------------------------------
(* The tree of one Loss in the Loss Tool.  An analyst edits what is in it, or  *)
(* works on its numbers or on the rules they are calculated by: the edits of   *)
(* the one leave the numbers alone and the others keep the nodes, so each is   *)
(* checked on a tree and within limits of its own.                             *)
EXTENDS LossAnalysis, LossEditing, TLC

VARIABLE editing

MCNode   == {"L", "E", "S", "K", "top", "left", "right", "one", "new", "guard", "asset"}
MCTypeOf == [n \in MCNode |-> CASE n = "L" -> "Loss" [] n = "E" -> "Environment"
                                [] n = "S" -> "State" [] n = "K" -> "Component"
                                [] n = "guard" -> "Countermeasure" [] n = "asset" -> "Asset"
                                [] OTHER -> "Attack"]
MCRank   == [n \in MCNode |-> CASE n = "L" -> 0 [] n = "E" -> 1 [] n = "S" -> 2 [] n = "K" -> 3
                                [] n = "top" -> 4 [] n = "left" -> 5 [] n = "right" -> 6
                                [] n = "one" -> 7 [] n = "new" -> 8 [] n = "guard" -> 9
                                [] OTHER -> 10]
MCLimits == [nodes |-> 9, depth |-> 6, width |-> 2]

MCEdge(g) == [gate |-> g, seq |-> NoSeq, tailored |-> FALSE, blocked |-> FALSE, allowed |-> FALSE]
MCTree(edges, conjoined) ==
  [nodes |-> {"L"} \cup {p[2] : p \in edges},
   edges |-> [p \in edges |-> MCEdge(IF p[1] \in conjoined \/ p[2] = "E" THEN "AND" ELSE "OR")]]
MCChain == {<<"L", "S">>, <<"S", "K">>, <<"K", "top">>}

\* To be edited: an environment and one Attack, to which an Attack and a
\* Countermeasure of the analyst are added.
MCDrawn    == {"L", "E", "S", "K", "top", "new", "guard"}
MCCoreTree == MCTree(MCChain \cup {<<"L", "E">>}, {})
MCCoreNode == MCDrawn \ {"new", "guard"}

\* To be analysed: two branches with leaves of their own, or one leaf they share.
MCFork  == MCChain \cup {<<"top", "left">>, <<"top", "right">>, <<"left", "one">>}
MCTrees == {MCTree(MCFork \cup extra, {"left", "top"}) :
              extra \in {{<<"left", "guard">>, <<"guard", "asset">>}, {<<"right", "one">>}}}

MCLeaf(cost, time, presence, gain, loss, p) ==
  [AttackCost |-> cost, AttackTime |-> time, PhysicalPresenceRequired |-> presence,
   AttackerMoneyGain |-> gain, VictimFinancialLoss |-> loss, RandomEventProbability |-> p]
MCFirst   == MCLeaf(0, 1, 0, 1, 1, 4)
MCEntries == {MCFirst, MCLeaf(1, 2, 0, 2, 2, 4)}

MCProfile(mode, impact, independent) ==
  [mode |-> mode, cap |-> 2, encounters |-> "fixed", recovery |-> 0, presence |-> FALSE,
   independent |-> independent, impacts |-> {impact}]

MCNumbers ==
  [trees |-> MCTrees, committed |-> MCFirst, entries |-> MCEntries,
   profiles |-> {MCProfile("scenario", "VictimFinancialLoss", TRUE)},
   custom |-> {}, ruleChoices |-> {}, tuned |-> {}, marks |-> 2, rows |-> 0]
OwnMetrics ==
  [trees |-> {MCTree(MCChain \cup {<<"L", "E">>}, {})}, committed |-> MCFirst,
   entries |-> {MCFirst @@ ("mine" :> 1) @@ ("other" :> 2)},
   profiles |-> {MCProfile("scenario", "VictimFinancialLoss", FALSE),
                 MCProfile("scalar", "mine", FALSE)},
   custom |-> {"mine", "other"}, ruleChoices |-> {Rule("SUM", "MAX", "SUM", Null, Null)},
   tuned |-> {}, marks |-> 0, rows |-> 2]
MCTasks == {MCNumbers, OwnMetrics}

\* The one that is not at work has little to hold.
Idle == [nodes |-> {"L"}, edges |-> <<>>]
TreeInit ==
  /\ AnalysisInit
  /\ \/ editing = TRUE /\ EditingInit /\ task = OwnMetrics
     \/ editing = FALSE /\ draft = Idle /\ collapsed = {}
TreeNext ==
  /\ UNCHANGED editing
  /\ \/ editing  /\ EditingNext /\ UNCHANGED analysisVars
     \/ ~editing /\ AnalysisNext /\ UNCHANGED <<draft, collapsed>>
TreeSpec == TreeInit /\ [][TreeNext]_<<editing, draft, collapsed, analysisVars>>

=============================================================================
