----------------------------- MODULE DataDrawer -----------------------------
(***************************************************************************)
(* The one place of the GUI where properties and relationships are edited: *)
(* a drawer that holds one request at a time and the edits staged for it   *)
(* (stores.ts useDrawer, DataDrawer.tsx), opened from the main panel, the  *)
(* SoI panel and every tool window.                                        *)
(*                                                                         *)
(* The drawer's dialogs cover the window.  While a commit is out the       *)
(* dialog's only enabled button is Cancel and it lets go of the keyboard   *)
(* (ConfirmDialog, onKeyDown), so what is behind it can be used then.      *)
(* Of the database only whose values it holds is modelled.                 *)
(***************************************************************************)
EXTENDS Naturals, FiniteSets

CONSTANTS
  Node,          \* the nodes of the SoI, those created here included
  Existing,      \* the nodes there are at first
  Property, Nothing,
  MaxStaged      \* bound: edits staged at a time

VARIABLES
  value,         \* whose value each property of a node has in the database
  open, request, \* the drawer and what it shows
  pending,       \* a request deferred because edits are staged
  staged,        \* edits, each with the node it was staged for
  drawerDirty,
  confirming,    \* the commit dialog is shown
  adding,        \* the node a related node is added to after the commit
  flight,        \* the commit under way
  made           \* history: the properties edited, and of which node

edits  == <<staged, drawerDirty>>
dialog == <<confirming, adding>>
drawerVars   == <<value, open, request, pending, edits, dialog, flight, made>>

Whose   == {"initial", "mine", "theirs"}
Request == [mode : {"edit"}, node : Node] \cup [mode : {"create"}, node : Node \cup {Nothing}]
StagedEdit == [kind : {"property"}, what : Property, node : Node \cup {Nothing}]
              \cup [kind : {"relationship"}, what : Node, node : Node]
Flight  == [edits : SUBSET StagedEdit, of : Request, live : BOOLEAN,
            shown : Request, adding : Node \cup {Nothing}]

\* Nothing is no node, request, commit or value.
ASSUME DrawerAssumption == Nothing \notin Node \cup Request \cup Flight \cup [Property -> Whose]

TypeOK ==
  /\ value \in [Node -> [Property -> Whose] \cup {Nothing}]
  /\ request \in Request \cup {Nothing} /\ pending \in Request \cup {Nothing}
  /\ staged \subseteq StagedEdit /\ open = (request # Nothing)
  /\ {drawerDirty, confirming} \subseteq BOOLEAN
  /\ adding \in Node \cup {Nothing} /\ flight \in Flight \cup {Nothing}
  /\ made \subseteq Property \X Node
  /\ ~open => staged = {} /\ ~drawerDirty /\ pending = Nothing /\ ~confirming
  /\ flight # Nothing /\ flight.live => open

Alive == {n \in Node : value[n] # Nothing}
\* The node an edit made now is for: none while it is being created.
Shown == IF request.mode = "edit" THEN request.node ELSE Nothing

DrawerInit ==
  /\ value = [n \in Node |-> IF n \in Existing THEN [p \in Property |-> "initial"] ELSE Nothing]
  /\ open = FALSE /\ request = Nothing /\ pending = Nothing
  /\ staged = {} /\ drawerDirty = FALSE
  /\ confirming = FALSE /\ adding = Nothing /\ flight = Nothing /\ made = {}

-----------------------------------------------------------------------------
\* The store (useDrawer).

CleanDrawer == staged' = {} /\ drawerDirty' = FALSE

\* The dialogs are those of a drawer that stays open: another request is shown
\* in the same one.
OpenKeepingStaged(r) ==
  /\ open' = TRUE /\ request' = r /\ pending' = Nothing /\ UNCHANGED <<edits, dialog>>
OpenDrawer(r) ==
  /\ open' = TRUE /\ request' = r /\ pending' = Nothing
  /\ CleanDrawer
  /\ UNCHANGED dialog

RequestReplacing(r) == OpenDrawer(r)
RequestOpenDrawer(r) ==
  IF open /\ drawerDirty
  THEN pending' = r /\ UNCHANGED <<open, request, edits, dialog>>
  ELSE OpenDrawer(r)

\* A commit under way is answered to what the drawer showed last.
CloseDrawer ==
  /\ open
  /\ open' = FALSE /\ request' = Nothing /\ pending' = Nothing
  /\ CleanDrawer
  /\ confirming' = FALSE /\ adding' = Nothing
  /\ flight' = IF flight # Nothing /\ flight.live
               THEN [flight EXCEPT !.live = FALSE, !.shown = request, !.adding = adding]
               ELSE flight
  /\ UNCHANGED <<value, made>>

StageEdit(e) ==
  staged' = staged \cup {e} /\ drawerDirty' = TRUE /\ Cardinality(staged') <= MaxStaged
Unstage(e)   == staged' = staged \ {e} /\ UNCHANGED drawerDirty

-----------------------------------------------------------------------------
\* What is used when no dialog covers it.

Reachable == pending = Nothing /\ (confirming => flight # Nothing)

EditOf(n)    == [mode |-> "edit", node |-> n]
CreateFor(n) == [mode |-> "create", node |-> n]

\* The nodes the panels show, as last fetched: they may be deleted by now.
Listed == Existing \cup Alive

\* A card, the SoI panel and most tools ask for a node they show.
AskToEdit(n) ==
  /\ Reachable /\ n \in Listed
  /\ RequestOpenDrawer(EditOf(n)) /\ UNCHANGED <<value, flight, made>>

\* A section asks for a new node; a card's group of relationships, for one
\* related to the card's node.
AskToCreate == Reachable /\ RequestOpenDrawer(CreateFor(Nothing)) /\ UNCHANGED <<value, flight, made>>
AskToAdd(n) ==
  /\ Reachable /\ n \in Listed
  /\ RequestOpenDrawer(CreateFor(n)) /\ UNCHANGED <<value, flight, made>>

\* The Loss, Controls and Connection Tools have buttons that open the drawer
\* without asking (openDrawer); those of other tools are disabled while it is open.
OpenUnasked(n) ==
  /\ Reachable /\ n \in Listed
  /\ OpenDrawer(EditOf(n))
  /\ UNCHANGED <<value, flight, made>>

Close == Reachable /\ CloseDrawer

ConfirmPendingOpen == pending # Nothing /\ OpenDrawer(pending) /\ UNCHANGED <<value, flight, made>>
CancelPendingOpen  ==
  /\ pending # Nothing /\ pending' = Nothing
  /\ UNCHANGED <<value, open, request, edits, dialog, flight, made>>

StageProperty(p) ==
  /\ open /\ Reachable
  /\ StageEdit([kind |-> "property", what |-> p, node |-> Shown])
  /\ made' = made \cup ({p} \X ({Shown} \ {Nothing}))
  /\ UNCHANGED <<value, open, request, pending, dialog, flight>>

\* A node of the SoI is associated, or a relationship to it removed.
StageRelationship(m) ==
  /\ open /\ Reachable /\ Shown # Nothing /\ m \in Listed \ {Shown}
  /\ StageEdit([kind |-> "relationship", what |-> m, node |-> Shown])
  /\ UNCHANGED <<value, open, request, pending, dialog, flight, made>>

\* The drawer stays dirty.  A property cannot be unstaged.
Undo ==
  /\ open /\ Reachable
  /\ \E e \in {e \in staged : e.kind # "property"} : Unstage(e)
  /\ UNCHANGED <<value, open, request, pending, dialog, flight, made>>

-----------------------------------------------------------------------------
\* Commit (DrawerContent).

AskCommit ==
  /\ open /\ drawerDirty /\ Reachable /\ ~(flight # Nothing /\ flight.live)
  /\ confirming' = TRUE
  /\ UNCHANGED <<value, open, request, pending, edits, adding, flight, made>>

CancelCommit ==
  /\ confirming /\ ~(flight # Nothing /\ flight.live)
  /\ confirming' = FALSE /\ adding' = Nothing
  /\ UNCHANGED <<value, open, request, pending, edits, flight, made>>

\* "Add": what is staged is committed first.
BeginAdd ==
  /\ open /\ Reachable /\ request.mode = "edit"
  /\ IF drawerDirty THEN /\ adding' = request.node /\ confirming' = TRUE
                   /\ UNCHANGED <<open, request, pending, edits>>
              ELSE OpenDrawer(CreateFor(request.node))
  /\ UNCHANGED <<value, flight, made>>

\* What is sent are the edits staged, for the request shown.
SendForm ==
  staged \cup {[kind |-> "property", what |-> p, node |-> Shown] : p \in Property}
Send == staged
Confirm ==
  /\ confirming
  /\ flight = Nothing                   \* bound: one commit at a time
  /\ flight' = [edits |-> Send, of |-> request, live |-> TRUE,
                shown |-> request, adding |-> Nothing]
  /\ UNCHANGED <<value, open, request, pending, edits, dialog, made>>

\* The answer is taken by the drawer as it is by then, or was when it closed.
ShownByThen  == IF flight.live THEN request ELSE flight.shown
AddingByThen == IF flight.live THEN adding ELSE flight.adding

Apply(n) ==
  value' = [value EXCEPT ![n] = [p \in Property |->
                 IF \E e \in flight.edits : e.kind = "property" /\ e.what = p THEN "mine"
                 ELSE IF value[n] = Nothing THEN "initial" ELSE value[n][p]]]

\* Whatever is staged by then is dropped; the related node asked for, or the
\* node created, opens.
Answered(n) ==
  LET shown == ShownByThen add == AddingByThen IN
  /\ flight' = Nothing
  /\ IF flight.live THEN confirming' = FALSE /\ adding' = Nothing ELSE UNCHANGED dialog
  /\ CleanDrawer
  /\ IF add # Nothing /\ shown.mode = "edit"
     THEN open' = TRUE /\ request' = CreateFor(shown.node) /\ pending' = Nothing
     ELSE IF shown.mode = "create" /\ flight.of.mode = "create"
     THEN open' = TRUE /\ request' = EditOf(n) /\ pending' = Nothing
     ELSE UNCHANGED <<open, request, pending>>

\* What is committed is written to its node, or to a new one.
Involved == {e.what : e \in {e \in flight.edits : e.kind # "property"}}
Written(n) ==
  /\ Involved \cup ({flight.of.node} \ {Nothing}) \subseteq Alive
  /\ n \in IF flight.of.mode = "edit" THEN {flight.of.node} ELSE Node \ Alive
  /\ Apply(n)

Accepted == flight # Nothing /\ (\E n \in Node : Written(n) /\ Answered(n)) /\ UNCHANGED made

\* The dialog closes and the edits stay staged.
Reported ==
  /\ flight # Nothing
  /\ flight' = Nothing
  /\ IF flight.live THEN confirming' = FALSE /\ adding' = Nothing ELSE UNCHANGED dialog
  /\ UNCHANGED <<open, request, pending, edits, made>>
Refused == Reported /\ UNCHANGED value

\* An answer that is lost is taken for a refusal of what was done.
Unanswered == Reported /\ \E n \in Node : Written(n)

-----------------------------------------------------------------------------
\* Other users, and the commits of cards and tools.

TheirEdit(n, p) ==
  /\ n \in Alive /\ value[n][p] = "initial"
  /\ value' = [value EXCEPT ![n][p] = "theirs"]
  /\ UNCHANGED <<open, request, pending, edits, dialog, flight, made>>

DeleteNode(n) ==
  /\ n \in Existing \cap Alive
  /\ value' = [value EXCEPT ![n] = Nothing]
  /\ UNCHANGED <<open, request, pending, edits, dialog, flight, made>>

DrawerNext ==
  \/ \E n \in Node : AskToEdit(n) \/ AskToAdd(n) \/ OpenUnasked(n)
  \/ \E p \in Property : StageProperty(p)
  \/ \E m \in Node : StageRelationship(m)
  \/ AskToCreate \/ ConfirmPendingOpen \/ CancelPendingOpen \/ Close \/ Undo
  \/ AskCommit \/ CancelCommit \/ BeginAdd \/ Confirm \/ Accepted \/ Refused \/ Unanswered
  \/ \E n \in Node, p \in Property : TheirEdit(n, p)
  \/ \E n \in Node : DeleteNode(n)

DrawerSpec == DrawerInit /\ [][DrawerNext]_drawerVars

-----------------------------------------------------------------------------
\* Every edit that is staged or under way is for the node it will be written
\* to: none is carried over to another request, however the drawer is opened,
\* closed and answered meanwhile.
OfRequest(r, e) == e.node = IF r.mode = "edit" THEN r.node ELSE Nothing
EditsOfRequest ==
  /\ \A e \in staged : OfRequest(request, e)
  /\ flight # Nothing => \A e \in flight.edits : OfRequest(flight.of, e)

\* A value another user gave a property is replaced only by an edit of that
\* property: what the drawer merely shows is never written back.
TheirsReplacedByEdit ==
  [][\A n \in Alive, p \in Property :
       value[n][p] = "theirs" /\ value'[n] # Nothing /\ value'[n][p] # "theirs"
         => <<p, n>> \in made]_drawerVars

\* Edits leave the drawer unwritten only by a choice of the user, by a tool that
\* does not ask, or while a commit is out.
Unwritten == staged \ (staged' \cup IF flight = Nothing THEN {} ELSE flight.edits)
DiscardIsAsked ==
  [][Unwritten # {} => \/ Close \/ Undo \/ ConfirmPendingOpen \/ Accepted
                       \/ \E n \in Node : OpenUnasked(n)]_drawerVars
=============================================================================
