------------------------------- MODULE MCTools -------------------------------
(* The tool windows of one user: each works on the SoI through a copy of its   *)
(* own and shares nothing else with the others, so one at a time is checked.   *)
EXTENDS StateTool, StateDiagram, AttackTool, TraceTool, ContextTool

CONSTANTS t1, t2, l1, r1, haz, a1, a2, e1, s1, s2, H, U, c1, k1, h1

VARIABLE window
tools == <<stateVars, diagramVars, attackVars, traceVars, contextVars>>

MCFirst     == <<t1>>
MCStates    == 1..3
MCLeads     == {<<1, 2>>, <<2, 3>>}
MCRelates   == [c \in Criterion |-> {1, 3}]
MCRoom      == {<<0, 1>>}
MCCycle     == <<NoType, H, U>>
MCTraceable == {<<a1, s1>>, <<a1, s2>>, <<a2, s1>>}
MCRewriting == {<<a1, s1>>}
MCAllocations == [l \in Loss |-> IF l = 1 THEN [kind |-> k1, env |-> 0] ELSE Absent]

\* The tools that are not used stay as they are opened.
ToolsInit ==
  /\ window \in {"transitions", "diagram", "attacks", "matrix", "context"}
  /\ StateInit /\ DiagramInit /\ AttackInit /\ TraceInit /\ ContextInit
  /\ window # "diagram" => focus = {}
  /\ window # "matrix" => asset = NoAsset
  /\ window # "context" => tab = "matrix"

ToolsNext ==
  /\ UNCHANGED window
  /\ \/ /\ window = "transitions" /\ StateNext
        /\ UNCHANGED <<diagramVars, attackVars, traceVars, contextVars>>
     \/ /\ window = "diagram" /\ DiagramNext
        /\ UNCHANGED <<stateVars, attackVars, traceVars, contextVars>>
     \/ /\ window = "attacks" /\ AttackNext
        /\ UNCHANGED <<stateVars, diagramVars, traceVars, contextVars>>
     \/ /\ window = "matrix" /\ TraceNext
        /\ UNCHANGED <<stateVars, diagramVars, attackVars, contextVars>>
     \/ /\ window = "context" /\ ContextNext
        /\ UNCHANGED <<stateVars, diagramVars, attackVars, traceVars>>

ToolsSpec == ToolsInit /\ [][ToolsNext]_<<window, tools>>

=============================================================================
