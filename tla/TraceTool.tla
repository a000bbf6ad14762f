------------------------------ MODULE TraceTool ------------------------------
(***************************************************************************)
(* The Trace Tool (TraceTool.tsx): the matrix of entities and States for   *)
(* one Asset, cells staged and committed together, and the findings of     *)
(* Validation Mode.  The commit dialog covers the window until the answer  *)
(* arrives, so asking, confirming and the answer are one step, prepared on *)
(* the window's copy of the SoI; what the Backend does with the operations *)
(* is TraceCommit, here for one commit at a time.                          *)
(*                                                                         *)
(* A superseded relation is history: its cell is as good as empty.  One    *)
(* flag stands for the criticalities and assurances inherited.  Rows and   *)
(* columns the filters hide are not told apart from those shown.           *)
(***************************************************************************)
EXTENDS Naturals, Sequences, FiniteSets, SequencesExt

CONSTANTS
  Asset, Entity,
  TraceState,     \* the States there are and may be
  InitialTraced,  \* those there are at first
  Cycle,          \* what a click goes through: NoType, then the types
  NoType,
  NoAsset,
  Traceable,      \* bound: the Assets and the States they are traced in
  Rewriting       \* bound: those of them that other users change

ASSUME TraceToolAssumption ==
  /\ Cycle \in Seq(ToSet(Cycle)) /\ NoType \in ToSet(Cycle) /\ IsInjective(Cycle)
  /\ InitialTraced \subseteq TraceState
  /\ Rewriting \subseteq Traceable /\ Traceable \subseteq Asset \X TraceState
  /\ NoAsset \notin Asset

VARIABLES
  graph,    \* the database: relations, States, flags
  matrix,   \* the window's copy of it
  asset,    \* the Asset selected
  marks,    \* the cells staged, and what each is to be
  acks      \* the findings acknowledged, by key, as kept in the browser

traceVars == <<graph, matrix, asset, marks, acks>>

RelType   == ToSet(Cycle) \ {NoType}
TraceCell == Entity \X TraceState

TraceInit ==
  /\ graph = [rel     |-> [x \in Asset \X TraceCell |-> NoType], invalid |-> {},
              alive   |-> InitialTraced, born |-> InitialTraced,
              flags   |-> [n \in Asset \cup Entity |-> FALSE]]
  /\ matrix = graph /\ asset \in Asset \cup {NoAsset}
  /\ marks = <<>>
  /\ acks = {}

-----------------------------------------------------------------------------
\* The Backend.

\* A flag is inherited from the Assets an entity has a CURRENT relation to.
Inherits(g, e) ==
  \E a \in Asset, s \in TraceState : g.rel[<<a, <<e, s>>>>] # NoType /\ g.flags[a]
Recomputed(g) ==
  [g EXCEPT !.flags = [n \in DOMAIN @ |-> IF n \in Entity THEN Inherits(g, n) ELSE @[n]]]

\* Operations, one for each cell: a relation of a type to create, or to clear.
\* Clearing looks for the type it names.
TraceOp(c, t)  == [cells |-> {c}, type |-> t, clear |-> FALSE]
ClearOp(c, t)   == [cells |-> {c}, type |-> t, clear |-> TRUE]
ClearRow(c, t) == [cells |-> {c[1]} \X TraceState, type |-> t, clear |-> TRUE]

Traced(g, a, c, ops) ==
  LET here == {o \in ops : c \in o.cells} IN
  IF \E o \in here : ~o.clear
  THEN (CHOOSE o \in here : ~o.clear).type
  ELSE IF \E o \in here : o.type = g.rel[<<a, c>>] THEN NoType
  ELSE g.rel[<<a, c>>]

Committed(g, a, ops) ==
  Recomputed([g EXCEPT !.rel = [x \in DOMAIN @ |->
                 IF x[1] = a THEN Traced(g, a, x[2], ops) ELSE @[x]]])

\* Deleting a State invalidates what is traced in it.
WithoutState(g, s) ==
  Recomputed([g EXCEPT !.alive = @ \ {s},
                       !.rel = [x \in DOMAIN @ |-> IF x[2][2] = s THEN NoType ELSE @[x]],
                       !.invalid = @ \cup {<<x[1], x[2], g.rel[x]>> : x \in
                          {x \in DOMAIN g.rel : x[2][2] = s /\ g.rel[x] # NoType}}])

-----------------------------------------------------------------------------
\* The matrix.  Its columns are the States there are.

Columns == Entity \X matrix.alive
Free    == UNCHANGED <<graph, matrix, acks>>

Persisted(c) == matrix.rel[<<asset, c>>]
Staged(c)    == IF c \in DOMAIN marks THEN marks[c] ELSE Persisted(c)
Unmarked(c)  == [d \in DOMAIN marks \ {c} |-> marks[d]]

\* Back to what is there: nothing staged.
SetCell(c, t) ==
  /\ Free /\ c \in Columns /\ <<asset, c[2]>> \in Traceable
  /\ marks' = IF t = Persisted(c) THEN Unmarked(c)
              ELSE [d \in DOMAIN marks \cup {c} |-> IF d = c THEN t ELSE marks[d]]
  /\ UNCHANGED asset

NextType(t) == LET i == CHOOSE i \in DOMAIN Cycle : Cycle[i] = t IN
               Cycle[(i % Len(Cycle)) + 1]
CycleCell(c) == <<asset, c[2]>> \in Traceable /\ SetCell(c, NextType(Staged(c)))

SelectAsset(a) ==
  Free /\ a # asset /\ asset' = a /\ marks' = <<>>

RevertMarks == Free /\ marks # <<>> /\ marks' = <<>> /\ UNCHANGED asset

\* Slip: a cleared cell names no State.
OperationsUnscoped ==
  {TraceOp(c, marks[c]) : c \in {c \in DOMAIN marks : marks[c] # NoType}}
  \cup {ClearRow(c, Persisted(c)) : c \in
          {c \in DOMAIN marks : marks[c] = NoType /\ Persisted(c) # NoType}}
Operations ==
  {TraceOp(c, marks[c]) : c \in {c \in DOMAIN marks : marks[c] # NoType}}
  \cup {ClearOp(c, Persisted(c)) : c \in
          {c \in DOMAIN marks : marks[c] = NoType /\ Persisted(c) # NoType}}

\* Accepted, what is staged is dropped.  A commit of nothing is refused: all
\* that is staged are cells to clear that turn out to be empty.  The State of a
\* relation is not looked for.
CommitTrace ==
  /\ marks # <<>>
  /\ IF Operations = {} THEN UNCHANGED <<graph, marks>>
     ELSE graph' = Committed(graph, asset, Operations) /\ marks' = <<>>
  /\ UNCHANGED <<matrix, asset, acks>>

\* "+ New Entity", a State here: a commit of its own.
NewColumn ==
  /\ matrix = graph                  \* bound: one change not seen yet
  /\ \E s \in TraceState \ graph.born :
       graph' = [graph EXCEPT !.alive = @ \cup {s}, !.born = @ \cup {s}]
  /\ UNCHANGED <<matrix, asset, marks, acks>>

-----------------------------------------------------------------------------
\* Validation Mode (computeFindings).

Key(x) == <<x[1], x[2][1], x[3], x[2][2]>>

Invalidated(a) == {x \in matrix.invalid : x[1] = a}
Reported(a)    == {x \in Invalidated(a) : Key(x) \notin acks}

Acknowledge(x) ==
  /\ asset # NoAsset /\ x \in Reported(asset)
  /\ acks' = acks \cup {Key(x)}
  /\ UNCHANGED <<graph, matrix, asset, marks>>

\* The window is closed and opened again: on no Asset.
ReopenTrace ==
  /\ asset' = NoAsset /\ marks' = <<>> /\ matrix' = graph
  /\ UNCHANGED <<graph, acks>>

-----------------------------------------------------------------------------
TraceRefetch ==
  /\ matrix # graph /\ matrix' = graph
  /\ UNCHANGED <<graph, asset, marks, acks>>

\* Other users trace, delete a State, give an Asset its flag.
TheirTrace ==
  /\ matrix = graph                  \* bound
  /\ \/ \E pair \in Rewriting, c \in Entity \X graph.alive, t \in RelType :
          /\ c[2] = pair[2]
          /\ \E o \in {TraceOp(c, t), ClearOp(c, t)} : graph' = Committed(graph, pair[1], {o})
     \/ \E s \in graph.alive : graph' = WithoutState(graph, s)
     \/ \E pair \in Rewriting : graph' = [graph EXCEPT !.flags[pair[1]] = TRUE]
  /\ UNCHANGED <<matrix, asset, marks, acks>>

TraceNext ==
  \/ CommitTrace \/ RevertMarks \/ NewColumn
  \/ ReopenTrace \/ TraceRefetch \/ TheirTrace
  \/ \E a \in Asset \cup {NoAsset} : SelectAsset(a)
  \/ \E c \in TraceCell : CycleCell(c)
  \/ \E x \in matrix.invalid : Acknowledge(x)
  \/ \E c \in TraceCell, t \in ToSet(Cycle) : SetCell(c, t)

TraceSpec == TraceInit /\ [][TraceNext]_traceVars

-----------------------------------------------------------------------------
\* A commit makes the staged cells of the selected Asset what they were shown to
\* be, unless another user has changed them unseen; the other cells, those of
\* other Assets and those on an old copy included, it leaves alone.
CommitIsWhatIsShown ==
  [][CommitTrace =>
       \A a \in Asset, c \in TraceCell :
         IF a = asset /\ c \in DOMAIN marks
         THEN graph.rel[<<a, c>>] = matrix.rel[<<a, c>>] =>
                graph'.rel[<<a, c>>] = Staged(c)
         ELSE graph'.rel[<<a, c>>] = graph.rel[<<a, c>>]]_traceVars


=============================================================================
