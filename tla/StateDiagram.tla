---------------------------- MODULE StateDiagram ----------------------------
(***************************************************************************)
(* The State Tool's canvas: which States are shown (the mode, the focus it *)
(* was opened with, the selection and the filters) and where.  The user's  *)
(* arrangement is saved as one document on the System node; the canvas is  *)
(* drawn anew, and what was moved without saving is lost, whenever what is *)
(* shown or saved changes.                                                 *)
(*                                                                         *)
(* A place is a cell as large as a block.  Only States are shown: the      *)
(* overlays add blocks that are placed the same way.                       *)
(***************************************************************************)
EXTENDS Naturals, FiniteSets, FiniteSetsExt, Functions

CONSTANTS
  State,          \* the States there are and may be: numbers, in the order listed
  InitialStates,
  Leads,          \* which State has a transition to which
  Criterion,      \* Environments, Countermeasures, Hazards, Requirements
  Relates,        \* the States each of them is related to
  Width,          \* blocks in a row of those that have no saved place
  Room,           \* bound: the cells blocks are dragged to
  MaxRow,         \* bound: how far down an arrangement is saved
  NoState

ASSUME StateDiagramAssumption ==
  /\ State \subseteq Nat /\ IsFiniteSet(State) /\ InitialStates \subseteq State
  /\ Leads \subseteq State \X State
  /\ Relates \in [Criterion -> SUBSET State]
  /\ Width \in Nat \ {0} /\ MaxRow \in Nat /\ Room \subseteq Nat \X Nat

VARIABLES
  system,    \* the States there are and the arrangement saved
  drawn,     \* the window's copy of them
  mode, focus, filters, chosen,
  at         \* where each block shown is

choices     == <<mode, focus, filters, chosen>>
diagramVars == <<system, drawn, choices, at>>

-----------------------------------------------------------------------------
\* What is shown (visibleStates).
Near(s) == {s} \cup {t \in State : <<s, t>> \in Leads \/ <<t, s>> \in Leads}

Visible(states, m, picks, s) ==
  CASE m = "diagram" -> states
    [] m = "context" -> IF focus # {} THEN states \cap Relates[CHOOSE c \in focus : TRUE]
                        ELSE IF s # NoState THEN states \cap Near(s) ELSE states
    [] m = "criteria" -> {t \in states : \A c \in picks : t \in Relates[c]}

\* Where: its saved place, or one in a grid below the places used; when none
\* shown has one, the layout engine decides (here: a row).
Before(shown, s) == Cardinality({t \in shown : t < s})
GridFrom(y, x, shown, saved) ==
  [s \in shown |->
     IF s \in DOMAIN saved THEN saved[s]
     ELSE LET i == Before(shown \ DOMAIN saved, s) IN <<x + (i % Width), y + (i \div Width)>>]

PlacedOnLastRow(shown, saved) ==
  LET kept == shown \cap DOMAIN saved IN
  IF kept = {} THEN [s \in shown |-> <<Before(shown, s), 0>>]
  ELSE GridFrom(Max({saved[s][2] : s \in kept}), Min({saved[s][1] : s \in kept}), shown, saved)
Placed(shown, saved) ==
  LET kept == shown \cap DOMAIN saved IN
  IF kept = {} THEN [s \in shown |-> <<Before(shown, s), 0>>]
  ELSE GridFrom(Max({saved[s][2] : s \in kept}) + 1, Min({saved[s][1] : s \in kept}), shown, saved)

DiagramInit ==
  /\ system = [states |-> InitialStates, view |-> <<>>] /\ drawn = system
  /\ focus \in {{}} \cup {{c} : c \in Criterion}
  /\ mode = IF focus = {} THEN "diagram" ELSE "context"
  /\ filters = {} /\ chosen = NoState
  /\ at = Placed(Visible(InitialStates, mode, {}, NoState), <<>>)

\* The canvas after a change of what it is drawn from.  Outside the diagram mode
\* any choice makes the set of what is visible anew, and so the canvas, even when
\* it is the same set: what was moved and not saved is back in its place.
Redraw ==
  at' = IF mode = "diagram" /\ mode' = mode /\ drawn' = drawn THEN at
        ELSE Placed(Visible(drawn'.states, mode', filters', chosen'), drawn'.view)

-----------------------------------------------------------------------------
SetMode(m) ==
  /\ m # mode /\ mode' = m
  /\ UNCHANGED <<system, drawn, focus, filters, chosen>> /\ Redraw

ToggleFilter(c) ==
  /\ mode = "criteria"
  /\ filters' = IF c \in filters THEN filters \ {c} ELSE filters \cup {c}
  /\ UNCHANGED <<system, drawn, mode, focus, chosen>> /\ Redraw

Choose(s) ==
  /\ s \in DOMAIN at \cup {NoState} /\ s # chosen /\ chosen' = s
  /\ UNCHANGED <<system, drawn, mode, focus, filters>> /\ Redraw

\* Blocks are dragged where there is room.
Drag(s, cell) ==
  /\ s \in DOMAIN at /\ cell \notin Range(at)
  /\ at' = [at EXCEPT ![s] = cell]
  /\ UNCHANGED <<system, drawn, choices>>

\* "Save layout" saves what is on the canvas, and nothing else.  The window
\* shows the document saved when it reads the SoI again (Redrawn).
Saved    == at
Unread == drawn # system             \* bound: one change not seen yet
SaveLayout ==
  /\ ~Unread /\ at # <<>> /\ \A s \in DOMAIN at : at[s][2] <= MaxRow
  /\ system' = [system EXCEPT !.view = Saved]
  /\ UNCHANGED <<drawn, choices, at>>

\* "+ State", here or by another user.
CreateState ==
  /\ ~Unread
  /\ \E s \in State \ system.states : system' = [system EXCEPT !.states = @ \cup {s}]
  /\ UNCHANGED <<drawn, choices, at>>

DeleteState(s) ==
  /\ ~Unread /\ s \in system.states
  /\ system' = [system EXCEPT !.states = @ \ {s}]
  /\ UNCHANGED <<drawn, choices, at>>

Redrawn ==
  /\ drawn # system /\ drawn' = system
  /\ UNCHANGED <<system, choices>> /\ Redraw

DiagramNext ==
  \/ \E m \in {"diagram", "context", "criteria"} : SetMode(m)
  \/ \E c \in Criterion : ToggleFilter(c)
  \/ \E s \in State : Choose(s) \/ DeleteState(s)
  \/ Choose(NoState)
  \/ \E s \in State, cell \in Room : Drag(s, cell)
  \/ SaveLayout \/ CreateState \/ Redrawn

DiagramSpec == DiagramInit /\ [][DiagramNext]_diagramVars

-----------------------------------------------------------------------------
\* No two blocks are drawn in one place: not those that are new to a saved
\* arrangement, nor those hidden when it was saved, however often the filters
\* change what is shown and saved.
BlocksApart == IsInjective(at)
=============================================================================
