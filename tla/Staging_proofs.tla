---------------------------- MODULE Staging_proofs ----------------------------
(* Work staged in a window before it is committed.  The data drawer, for every   *)
(* set of nodes and properties: its type, that every edit is for the node it is  *)
(* written to, that a value another user gave is replaced only by an edit of it, *)
(* and that edits are given up only as asked.  The staged work of the Loss Tool, *)
(* for every set of Losses, edits and bounds: a transaction is accepted only on  *)
(* the version its draft was drawn from and creates a node once, unless the      *)
(* draft was imported from a file of another version; staged nodes leave the     *)
(* canvas only by choice; and an arrangement that is applied is one of the       *)
(* draft's nodes, unless an import asked for it under a transaction.             *)
EXTENDS LossWorkspace, DataDrawer, TLAPS

-----------------------------------------------------------------------------
\* The data drawer.

\* Every edit of a property, staged or under way, is one the user made.
MadeBy(E) == \A e \in E : e.kind = "property" /\ e.node # Nothing => <<e.what, e.node>> \in made
EditsMade == MadeBy(staged) /\ (flight # Nothing => MadeBy(flight.edits))

\* What is staged makes the drawer dirty.
StagedIsDirty == staged # {} => drawerDirty

DrawerInv == TypeOK /\ EditsOfRequest /\ EditsMade /\ StagedIsDirty

-----------------------------------------------------------------------------
LEMMA DrawerInitInv ==
  ASSUME DrawerInit
  PROVE  DrawerInv
  <1>1. value \in [Node -> [Property -> Whose] \cup {Nothing}]
    BY DEF DrawerInit, Whose
  <1>. QED
    BY <1>1 DEF DrawerInit, DrawerInv, TypeOK, EditsOfRequest, EditsMade, MadeBy, StagedIsDirty

\* What opening the drawer on a request does, whatever was in it.
LEMMA OpenDrawerInv ==
  ASSUME DrawerInv, NEW r \in Request, OpenDrawer(r),
         UNCHANGED <<value, flight, made>>
  PROVE  DrawerInv'
  BY DrawerAssumption DEF DrawerInv, TypeOK, EditsOfRequest, EditsMade, MadeBy, StagedIsDirty,
         OpenDrawer, CleanDrawer, dialog

LEMMA RequestOpenInv ==
  ASSUME DrawerInv, NEW r \in Request, RequestOpenDrawer(r),
         UNCHANGED <<value, flight, made>>
  PROVE  DrawerInv'
  <1>1. CASE open /\ drawerDirty
    BY <1>1 DEF DrawerInv, TypeOK, EditsOfRequest, EditsMade, MadeBy, StagedIsDirty,
                RequestOpenDrawer, edits, dialog
  <1>2. CASE ~(open /\ drawerDirty)
    BY <1>2, OpenDrawerInv DEF RequestOpenDrawer
  <1>. QED
    BY <1>1, <1>2

LEMMA RequestTypes ==
  ASSUME NEW n \in Node \cup {Nothing}
  PROVE  CreateFor(n) \in Request /\ (n \in Node => EditOf(n) \in Request)
  BY DEF Request, CreateFor, EditOf

\* Staging an edit of the node shown, and taking one back.
LEMMA StagingInv ==
  ASSUME DrawerInv,
         \/ \E p \in Property : StageProperty(p)
         \/ \E m \in Node : StageRelationship(m)
         \/ Undo
  PROVE  DrawerInv'
  <1>. USE DEF DrawerInv
  <1>1. open => request \in Request /\ Shown \in Node \cup {Nothing} /\
                \A e : e.node = Shown => OfRequest(request, e)
    BY DEF TypeOK, Request, Shown, OfRequest
  <1>2. ASSUME NEW p \in Property, StageProperty(p) PROVE DrawerInv'
    <2>. DEFINE e == [kind |-> "property", what |-> p, node |-> Shown]
    <2>1. /\ open /\ staged' = staged \cup {e} /\ drawerDirty' = TRUE
          /\ made' = made \cup ({p} \X ({Shown} \ {Nothing}))
          /\ UNCHANGED <<value, open, request, pending, dialog, flight>>
      BY <1>2 DEF StageProperty, StageEdit
    <2>2. e \in StagedEdit /\ OfRequest(request, e)
      BY <1>1, <2>1 DEF StagedEdit
    <2>3. TypeOK'
      <3>1. made' \subseteq Property \X Node
        BY <1>1, <2>1 DEF TypeOK
      <3>. HIDE DEF e
      <3>. QED
        BY <2>1, <2>2, <3>1 DEF TypeOK, dialog
    <2>4. EditsOfRequest' /\ StagedIsDirty'
      BY <2>1, <2>2 DEF EditsOfRequest, StagedIsDirty, OfRequest
    <2>5. EditsMade'
      BY <2>1 DEF EditsMade, MadeBy
    <2>. QED
      BY <2>3, <2>4, <2>5
  <1>3. ASSUME NEW m \in Node, StageRelationship(m) PROVE DrawerInv'
    <2>. DEFINE e == [kind |-> "relationship", what |-> m, node |-> Shown]
    <2>1. /\ open /\ Shown # Nothing /\ staged' = staged \cup {e} /\ drawerDirty' = TRUE
          /\ UNCHANGED <<value, open, request, pending, dialog, flight, made>>
      BY <1>3 DEF StageRelationship, StageEdit
    <2>2. e \in StagedEdit /\ OfRequest(request, e)
      BY <1>1, <2>1 DEF StagedEdit
    <2>3. TypeOK'
      BY <1>1, <2>1, <2>2 DEF TypeOK, dialog
    <2>4. EditsOfRequest' /\ StagedIsDirty'
      BY <2>1, <2>2 DEF EditsOfRequest, StagedIsDirty, OfRequest
    <2>5. EditsMade'
      BY <2>1 DEF EditsMade, MadeBy
    <2>. QED
      BY <2>3, <2>4, <2>5
  <1>4. ASSUME Undo PROVE DrawerInv'
    <2>1. /\ staged' \subseteq staged /\ UNCHANGED drawerDirty
          /\ UNCHANGED <<value, open, request, pending, dialog, flight, made>>
      BY <1>4 DEF Undo, Unstage
    <2>. QED
      BY <2>1 DEF TypeOK, EditsOfRequest, EditsMade, MadeBy, StagedIsDirty, dialog, OfRequest
  <1>. QED
    BY <1>2, <1>3, <1>4

\* What is sent is for the request it is sent with.
LEMMA CommitSteps ==
  ASSUME DrawerInv,
         AskCommit \/ CancelCommit \/ BeginAdd \/ Confirm \/ Refused \/ Close
  PROVE  DrawerInv'
  <1>1. CASE AskCommit
    BY <1>1 DEF DrawerInv, TypeOK, EditsOfRequest, EditsMade, MadeBy, StagedIsDirty,
                AskCommit, edits
  <1>2. CASE CancelCommit
    BY <1>2 DEF DrawerInv, TypeOK, EditsOfRequest, EditsMade, MadeBy, StagedIsDirty,
                CancelCommit, edits
  <1>3. CASE BeginAdd
    <2>1. open /\ request.mode = "edit" /\ UNCHANGED <<value, flight, made>>
      BY <1>3 DEF BeginAdd
    <2>2. request.node \in Node
      BY <2>1 DEF DrawerInv, TypeOK, Request
    <2>3. CASE drawerDirty
      BY <1>3, <2>1, <2>2, <2>3 DEF BeginAdd, DrawerInv, TypeOK, EditsOfRequest,
         EditsMade, MadeBy, StagedIsDirty, edits
    <2>4. CASE ~drawerDirty
      BY <1>3, <2>1, <2>2, <2>4, OpenDrawerInv, RequestTypes DEF BeginAdd
    <2>. QED
      BY <2>3, <2>4
  <1>4. CASE Confirm
    <2>1. open /\ request \in Request /\ staged \subseteq StagedEdit
      BY <1>4 DEF Confirm, DrawerInv, TypeOK
    <2>. DEFINE f == [edits |-> Send, of |-> request, live |-> TRUE,
                      shown |-> request, adding |-> Nothing]
    <2>2. f \in Flight /\ f.live /\ f.edits = staged /\ f.of = request
      BY <2>1 DEF Flight, Send
    <2>3. flight' = f /\ UNCHANGED <<value, open, request, pending, edits, dialog, made>>
      BY <1>4 DEF Confirm
    <2>. HIDE DEF f
    <2>. QED
      BY <2>1, <2>2, <2>3 DEF DrawerInv, TypeOK, EditsOfRequest, EditsMade, MadeBy,
         StagedIsDirty, edits, dialog, OfRequest
  <1>5. CASE Refused
    BY <1>5 DEF Refused, Reported, DrawerInv, TypeOK, EditsOfRequest, EditsMade, MadeBy,
       StagedIsDirty, edits, dialog
  <1>6. CASE Close
    <2>1. /\ open' = FALSE /\ request' = Nothing /\ pending' = Nothing /\ staged' = {}
          /\ drawerDirty' = FALSE /\ confirming' = FALSE /\ adding' = Nothing
          /\ UNCHANGED <<value, made>>
      BY <1>6 DEF Close, CloseDrawer, CleanDrawer
    <2>2. open /\ request \in Request
      BY <1>6 DEF Close, CloseDrawer, DrawerInv, TypeOK
    <2>3. flight # Nothing =>
            /\ flight' \in Flight /\ ~flight'.live
            /\ flight'.edits = flight.edits /\ flight'.of = flight.of
      BY <1>6, <2>2 DEF Close, CloseDrawer, DrawerInv, TypeOK, Flight
    <2>4. flight = Nothing => flight' = Nothing
      BY <1>6 DEF Close, CloseDrawer
    <2>. QED
      BY <2>1, <2>2, <2>3, <2>4 DEF DrawerInv, TypeOK, EditsOfRequest, EditsMade, MadeBy,
         StagedIsDirty, OfRequest
  <1>. QED
    BY <1>1, <1>2, <1>3, <1>4, <1>5, <1>6

\* The commit writes the properties it carries, to its node or a new one.
LEMMA WrittenTypes ==
  ASSUME TypeOK, flight # Nothing, NEW n \in Node, Written(n)
  PROVE  value' \in [Node -> [Property -> Whose] \cup {Nothing}]
  <1>. DEFINE v == [p \in Property |->
               IF \E e \in flight.edits : e.kind = "property" /\ e.what = p THEN "mine"
               ELSE IF value[n] = Nothing THEN "initial" ELSE value[n][p]]
  <1>1. value \in [Node -> [Property -> Whose] \cup {Nothing}]
    BY DEF TypeOK
  <1>2. value[n] # Nothing => value[n] \in [Property -> Whose]
    BY <1>1
  <1>3. v \in [Property -> Whose]
    BY <1>2 DEF Whose
  <1>4. value' = [value EXCEPT ![n] = v]
    BY DEF Written, Apply
  <1>. HIDE DEF v
  <1>. QED
    BY <1>1, <1>3, <1>4

LEMMA UnansweredInv ==
  ASSUME DrawerInv, Unanswered
  PROVE  DrawerInv'
  <1>1. value' \in [Node -> [Property -> Whose] \cup {Nothing}]
    BY WrittenTypes DEF Unanswered, Reported, DrawerInv
  <1>. QED
    BY <1>1 DEF Unanswered, Reported, DrawerInv, TypeOK, EditsOfRequest, EditsMade, MadeBy,
       StagedIsDirty, edits, dialog

LEMMA DrawerAcceptedInv ==
  ASSUME DrawerInv, Accepted
  PROVE  DrawerInv'
  <1>. USE DEF DrawerInv
  <1>1. flight \in Flight
    BY DEF Accepted, TypeOK
  <1>2. PICK n \in Node : Written(n) /\ Answered(n)
    BY DEF Accepted
  <1>3. value' \in [Node -> [Property -> Whose] \cup {Nothing}]
    BY <1>2, WrittenTypes DEF Accepted
  <1>4. /\ flight' = Nothing /\ staged' = {} /\ drawerDirty' = FALSE /\ UNCHANGED made
        /\ IF flight.live THEN confirming' = FALSE /\ adding' = Nothing ELSE UNCHANGED dialog
    BY <1>2 DEF Answered, CleanDrawer, Accepted
  <1>5. \/ open' = TRUE /\ request' \in Request /\ pending' = Nothing
        \/ UNCHANGED <<open, request, pending>>
    <2>1. ShownByThen \in Request
      <3>1. flight.live => request \in Request
        BY DEF Accepted, TypeOK
      <3>. QED
        BY <1>1, <3>1 DEF ShownByThen, Flight
    <2>2. ShownByThen.mode = "edit" => ShownByThen.node \in Node
      BY <2>1 DEF Request
    <2>. QED
      BY <1>2, <2>2, RequestTypes DEF Answered
  <1>6. flight.live => open
    BY <1>1, DrawerAssumption DEF TypeOK
  <1>. QED
    BY <1>3, <1>4, <1>5, <1>6, DrawerAssumption
       DEF TypeOK, EditsOfRequest, EditsMade, MadeBy, StagedIsDirty, dialog

\* Other users change values only.
LEMMA OthersInv ==
  ASSUME DrawerInv,
         \/ \E n \in Node, p \in Property : TheirEdit(n, p)
         \/ \E n \in Node : DeleteNode(n)
  PROVE  DrawerInv'
  <1>. USE DEF DrawerInv
  <1>1. value' \in [Node -> [Property -> Whose] \cup {Nothing}]
    <2>1. ASSUME NEW n \in Node, NEW p \in Property, TheirEdit(n, p)
          PROVE  value' \in [Node -> [Property -> Whose] \cup {Nothing}]
      <3>1. value[n] \in [Property -> Whose]
        BY <2>1 DEF TheirEdit, Alive, TypeOK
      <3>2. [value[n] EXCEPT ![p] = "theirs"] \in [Property -> Whose]
        BY <3>1 DEF Whose
      <3>. QED
        BY <2>1, <3>2 DEF TheirEdit, TypeOK
    <2>2. ASSUME NEW n \in Node, DeleteNode(n)
          PROVE  value' \in [Node -> [Property -> Whose] \cup {Nothing}]
      BY <2>2 DEF DeleteNode, TypeOK
    <2>. QED
      BY <2>1, <2>2
  <1>2. UNCHANGED <<open, request, pending, edits, dialog, flight, made>>
    BY DEF TheirEdit, DeleteNode
  <1>. QED
    BY <1>1, <1>2 DEF TypeOK, EditsOfRequest, EditsMade, MadeBy, StagedIsDirty, edits,
       dialog, OfRequest

LEMMA DrawerStepInv ==
  ASSUME DrawerInv, [DrawerNext]_drawerVars
  PROVE  DrawerInv'
  <1>1. ASSUME NEW n \in Node, AskToEdit(n) \/ AskToAdd(n) \/ OpenUnasked(n)
        PROVE  DrawerInv'
    BY <1>1, RequestOpenInv, OpenDrawerInv, RequestTypes DEF AskToEdit, AskToAdd, OpenUnasked
  <1>2. CASE AskToCreate
    BY <1>2, RequestOpenInv, RequestTypes DEF AskToCreate
  <1>3. CASE ConfirmPendingOpen
    <2>1. pending \in Request
      BY <1>3 DEF ConfirmPendingOpen, DrawerInv, TypeOK
    <2>. QED
      BY <1>3, <2>1, OpenDrawerInv DEF ConfirmPendingOpen
  <1>4. CASE CancelPendingOpen
    BY <1>4 DEF CancelPendingOpen, DrawerInv, TypeOK, EditsOfRequest, EditsMade, MadeBy,
       StagedIsDirty, edits, dialog
  <1>5. CASE UNCHANGED drawerVars
    BY <1>5 DEF drawerVars, edits, dialog, DrawerInv, TypeOK, EditsOfRequest, EditsMade, MadeBy,
       StagedIsDirty, OfRequest
  <1>. QED
    BY <1>1, <1>2, <1>3, <1>4, <1>5, StagingInv, CommitSteps,
       DrawerAcceptedInv, UnansweredInv, OthersInv DEF DrawerNext

LEMMA DrawerSafe == DrawerSpec => []DrawerInv
  <1>1. DrawerInit => DrawerInv
    BY DrawerInitInv
  <1>2. DrawerInv /\ [DrawerNext]_drawerVars => DrawerInv'
    BY DrawerStepInv
  <1>. QED
    BY <1>1, <1>2, PTL DEF DrawerSpec

-----------------------------------------------------------------------------
\* Every variable of the drawer keeps its type; closed, it holds nothing.
THEOREM DrawerTyped == DrawerSpec => []TypeOK
  <1>1. DrawerInv => TypeOK
    BY DEF DrawerInv
  <1>. QED
    BY <1>1, DrawerSafe, PTL

\* No edit is carried over to a request it was not made for, however the drawer
\* is opened, closed and answered meanwhile.
THEOREM EditsForTheirRequest == DrawerSpec => []EditsOfRequest
  <1>1. DrawerInv => EditsOfRequest
    BY DEF DrawerInv
  <1>. QED
    BY <1>1, DrawerSafe, PTL

\* A commit replaces another user's value only where the user edited it.
THEOREM OthersKept == DrawerSpec => TheirsReplacedByEdit
  <1>1. DrawerInv /\ [DrawerNext]_drawerVars =>
          [\A n \in Alive, p \in Property :
             value[n][p] = "theirs" /\ value'[n] # Nothing /\ value'[n][p] # "theirs"
               => <<p, n>> \in made]_drawerVars
    <2>. SUFFICES ASSUME DrawerInv, DrawerNext, NEW n \in Alive, NEW p \in Property,
                         value[n][p] = "theirs", value'[n] # Nothing, value'[n][p] # "theirs"
                  PROVE  <<p, n>> \in made
      OBVIOUS
    <2>. USE DEF DrawerInv
    <2>1. n \in Node /\ value[n] \in [Property -> Whose]
          /\ value \in [Node -> [Property -> Whose] \cup {Nothing}]
      BY DEF Alive, TypeOK
    <2>2. CASE Accepted \/ Unanswered
      <3>1. flight \in Flight
        BY <2>2 DEF Accepted, Unanswered, Reported, TypeOK
      <3>2. PICK m \in IF flight.of.mode = "edit" THEN {flight.of.node} ELSE Node \ Alive :
              Apply(m)
        BY <2>2 DEF Accepted, Unanswered, Written
      <3>3. m = n
        BY <2>1, <3>2 DEF Apply
      <3>4. flight.of.mode = "edit" /\ flight.of.node = n
        BY <3>2, <3>3
      <3>5. \E e \in flight.edits : e.kind = "property" /\ e.what = p
        <4>. DEFINE v == [q \in Property |->
                 IF \E e \in flight.edits : e.kind = "property" /\ e.what = q THEN "mine"
                 ELSE IF value[n] = Nothing THEN "initial" ELSE value[n][q]]
        <4>1. value'[n] = v
          BY <2>1, <3>2, <3>3 DEF Apply
        <4>2. value[n] # Nothing
          BY DEF Alive
        <4>. QED
          BY <4>1, <4>2
      <3>6. PICK e \in flight.edits : e.kind = "property" /\ e.what = p
        BY <3>5
      <3>7. e.node = n
        BY <2>2, <3>4, <3>6 DEF EditsOfRequest, OfRequest, Accepted, Unanswered, Reported
      <3>. QED
        BY <2>1, <2>2, <3>6, <3>7, DrawerAssumption DEF EditsMade, MadeBy, Accepted, Unanswered, Reported
    <2>3. ASSUME NEW m \in Node, NEW q \in Property, TheirEdit(m, q) PROVE FALSE
      <3>1. value[m] \in [Property -> Whose]
        BY <2>1, <2>3 DEF TheirEdit, Alive
      <3>2. value' = [value EXCEPT ![m] = [value[m] EXCEPT ![q] = "theirs"]]
        BY <2>3 DEF TheirEdit
      <3>3. value'[n] = IF n = m THEN [value[m] EXCEPT ![q] = "theirs"] ELSE value[n]
        BY <2>1, <3>2
      <3>. QED
        BY <2>1, <3>1, <3>3
    <2>4. ASSUME NEW m \in Node, DeleteNode(m) PROVE FALSE
      BY <2>1, <2>4 DEF DeleteNode
    <2>5. CASE UNCHANGED value
      BY <2>5
    <2>. QED
      BY <2>2, <2>3, <2>4, <2>5 DEF DrawerNext, AskToEdit, AskToAdd, OpenUnasked, StageProperty,
         StageRelationship, AskToCreate, ConfirmPendingOpen, CancelPendingOpen, Close,
         CloseDrawer, Undo, AskCommit, CancelCommit, BeginAdd, Confirm, Refused
  <1>. QED
    BY <1>1, DrawerSafe, PTL DEF DrawerSpec, TheirsReplacedByEdit

\* Edits are given up only by closing, undoing, confirming, the tools that open
\* the drawer unasked, and the answer to a commit.
THEOREM GivenUpAsAsked == DrawerSpec => DiscardIsAsked
  <1>1. DrawerInv /\ [DrawerNext]_drawerVars =>
          [Unwritten # {} => \/ Close \/ Undo \/ ConfirmPendingOpen \/ Accepted
                             \/ \E n \in Node : OpenUnasked(n)]_drawerVars
    <2>. SUFFICES ASSUME DrawerInv, DrawerNext, Unwritten # {}, ~Close, ~Undo,
                         ~ConfirmPendingOpen, ~Accepted,
                         \A n \in Node : ~OpenUnasked(n)
                  PROVE  FALSE
      OBVIOUS
    <2>1. ~(staged \subseteq staged')
      BY DEF Unwritten
    <2>2. open /\ drawerDirty
      BY <2>1 DEF DrawerInv, StagedIsDirty, TypeOK
    <2>3. ASSUME NEW r, RequestOpenDrawer(r) PROVE FALSE
      BY <2>1, <2>2, <2>3 DEF RequestOpenDrawer, edits
    <2>4. ~BeginAdd
      BY <2>1, <2>2 DEF BeginAdd, edits
    <2>5. ASSUME NEW e, StageEdit(e) PROVE FALSE
      BY <2>1, <2>5 DEF StageEdit
    <2>6. staged' # staged
      BY <2>1
    <2>. QED
      BY <2>3, <2>4, <2>5, <2>6 DEF DrawerNext, AskToEdit, AskToAdd, AskToCreate, CancelPendingOpen,
         StageProperty, StageRelationship, AskCommit, CancelCommit, Confirm, Refused,
         Unanswered, Reported, TheirEdit, DeleteNode, edits
  <1>. QED
    BY <1>1, DrawerSafe, PTL DEF DrawerSpec, DiscardIsAsked

-----------------------------------------------------------------------------
\* The staged work of the Loss Tool.

\* What the parts hold.
SeenTree == [version : Nat, placed : SUBSET Core]
WorkTree == [version : Nat, edits : SUBSET Edit, placed : SUBSET (Core \cup Edit),
             old : BOOLEAN]
Out      == [loss : Loss, base : Nat, draft : WorkTree]

WorldTyped ==
  /\ server \in [Loss -> SeenTree \cup {None}] /\ stored \subseteq Edit
  /\ sent # None => sent \in Out
HostTyped ==
  /\ cache \in [Loss -> SeenTree \cup {None}] /\ listed \subseteq Loss
  /\ loss \in Loss \cup {None} /\ generation \in Nat
  /\ loaded \in [loss : Loss \cup {None}, generation : Nat, tree : SeenTree \cup {None}]
  /\ loaded.loss # None => loaded.tree \in SeenTree
  /\ working = "building" => rebuild.loss \in Loss
CardTyped ==
  /\ draft \in WorkTree /\ committed \in WorkTree
  /\ base \in Nat /\ needsRefresh \in BOOLEAN /\ saving \in {"no", "sent", "reading"}
  /\ overtaken \in BOOLEAN
  /\ mounted \in BOOLEAN /\ dirty \in BOOLEAN
  /\ mounted => loss \in Loss

\* Whoever read a tree read a version that is not ahead of the database's.
Reached(l, v) == server[l] # None => v <= server[l].version
Behind ==
  /\ \A l \in Loss : cache[l] # None => Reached(l, cache[l].version)
  /\ loaded.loss # None => Reached(loaded.loss, loaded.tree.version)
  /\ mounted => Reached(loss, base)
  /\ sent # None => Reached(sent.loss, sent.base)

\* The draft is drawn from the baseline, or stamped with its version, and the host
\* knows whether it differs.
Drawn ==
  /\ draft.version = base /\ committed.version = base /\ committed.edits = {}
  /\ mounted => dirty = Differ(draft, committed)
  /\ sent # None => sent.draft.version = sent.base

\* The canvas that waits for its transaction, or for the tree read back, holds the
\* nodes it sent, unless a file was imported over them; a canvas mounted since the
\* transaction left stages other nodes, or nodes of the same Loss, or an old file's.
Waiting ==
  /\ saving # "no" => mounted /\ (layout # None => layout.late)
  /\ saving = "sent" => /\ sent.loss = loss /\ sent.base = base
                        /\ overtaken \/ draft.edits = sent.draft.edits
  /\ saving = "reading" => sent = None /\ (overtaken \/ draft.edits \subseteq stored)
  /\ sent # None /\ saving # "sent" =>
       draft.old \/ loss = sent.loss \/ draft.edits \cap sent.draft.edits = {}

\* A draft that the database would accept stages no node it has, unless it was
\* imported from a file of another version.
Creates(t) == ~t.old => (t.edits \cap stored) \subseteq Setting
Current(l, v) == server[l] # None /\ server[l].version = v
Once ==
  /\ mounted /\ ~needsRefresh /\ Current(loss, base) => Creates(draft)
  /\ sent # None /\ Current(sent.loss, sent.base) => Creates(sent.draft)

\* The arrangement under way is one of the draft's nodes, or was asked late.
Fits == layout # None =>
  /\ layout.nodes \in SUBSET (Core \cup Edit)
  /\ layout.late \/ layout.nodes = Nodes(draft)

WorkspaceInv ==
  /\ WorldTyped /\ HostTyped /\ CardTyped
  /\ Behind /\ Drawn /\ Waiting /\ Once /\ Fits
-----------------------------------------------------------------------------
LEMMA WorkspaceInitInv ==
  ASSUME Init
  PROVE  WorkspaceInv
  <1>1. server \in [Loss -> SeenTree] /\ cache = [l \in Loss |-> None]
    BY DEF Init, SeenTree, Core
  <1>2. Blank \in WorkTree /\ Blank.version = 0 /\ Blank.edits = {}
    BY DEF Blank, Opened, WorkTree
  <1>. QED
    BY <1>1, <1>2 DEF Init, WorkspaceInv, WorldTyped, HostTyped, CardTyped, Behind, Drawn,
       Waiting, Once, Fits

LEMMA BlankFacts ==
  /\ Blank \in WorkTree /\ Blank.version = 0 /\ Blank.edits = {}
  BY DEF Blank, Opened, WorkTree

LEMMA OpenedFacts ==
  ASSUME NEW t \in SeenTree
  PROVE  /\ Opened(t) \in WorkTree /\ Opened(t).version = t.version /\ Opened(t).edits = {}
         /\ t.version \in Nat
  BY DEF Opened, WorkTree, SeenTree

\* A tree in the database moves on or is deleted: what was read stays behind, and
\* what the database would accept from here can only become less.
Moves(l) ==
  /\ server \in [Loss -> SeenTree \cup {None}] /\ server[l] \in SeenTree \ {None}
  /\ server' \in [Loss -> SeenTree \cup {None}]
  /\ \A m \in Loss : m # l => server'[m] = server[m]
  /\ server'[l] = None \/ server'[l].version = server[l].version + 1

LEMMA MovesUp ==
  ASSUME NEW l \in Loss, Moves(l), NEW m \in Loss, NEW v \in Nat, Reached(m, v)
  PROVE  Reached(m, v)' /\ (Current(m, v)' => m # l /\ Current(m, v))
  <1>1. server[l].version \in Nat
    BY DEF Moves, SeenTree
  <1>2. CASE m = l
    BY <1>1, <1>2 DEF Moves, Reached, Current
  <1>3. CASE m # l
    BY <1>3 DEF Moves, Reached, Current
  <1>. QED
    BY <1>2, <1>3

LEMMA ServerMoves ==
  ASSUME WorkspaceInv, NEW l \in Loss, Moves(l),
         UNCHANGED <<stored, sent, cache, listed, loss, generation, loaded, card>>,
         working' = "building" => working = "building" /\ rebuild' = rebuild
  PROVE  WorkspaceInv'
  <1>. USE DEF card, trees, save, canvas
  <1>1. WorldTyped' /\ HostTyped' /\ CardTyped'
    BY DEF Moves, WorkspaceInv, WorldTyped, HostTyped, CardTyped
  <1>2. Drawn' /\ Waiting' /\ Fits'
    BY DEF WorkspaceInv, Drawn, Waiting, Fits, Nodes
  <1>3. /\ \A m \in Loss : cache[m] # None => cache[m].version \in Nat
        /\ loaded.loss # None => loaded.loss \in Loss /\ loaded.tree.version \in Nat
        /\ mounted => loss \in Loss /\ base \in Nat
        /\ sent # None => sent.loss \in Loss /\ sent.base \in Nat
    BY DEF WorkspaceInv, WorldTyped, HostTyped, CardTyped, SeenTree, Out
  <1>4. Behind'
    <2>1. (\A m \in Loss : cache[m] # None => Reached(m, cache[m].version))'
      BY <1>3, MovesUp DEF WorkspaceInv, Behind
    <2>2. (loaded.loss # None => Reached(loaded.loss, loaded.tree.version))'
      <3>. SUFFICES ASSUME loaded.loss # None
                    PROVE  Reached(loaded.loss, loaded.tree.version)'
        OBVIOUS
      <3>1. \A m \in Loss, v \in Nat : Reached(m, v) => Reached(m, v)'
        BY MovesUp
      <3>. QED
        BY <1>3, <3>1 DEF WorkspaceInv, Behind, Reached
    <2>3. (mounted => Reached(loss, base))' /\ (sent # None => Reached(sent.loss, sent.base))'
      <3>1. \A m \in Loss, v \in Nat : Reached(m, v) => Reached(m, v)'
        BY MovesUp
      <3>. QED
        BY <1>3, <3>1 DEF WorkspaceInv, Behind, Reached
    <2>. QED
      BY <2>1, <2>2, <2>3 DEF Behind
  <1>5. Once'
    <2>1. \A m \in Loss, v \in Nat : Reached(m, v) /\ Current(m, v)' => Current(m, v)
      BY MovesUp
    <2>. QED
      BY <1>3, <2>1 DEF WorkspaceInv, Behind, Once, Current, Creates
  <1>. QED
    BY <1>1, <1>2, <1>4, <1>5 DEF WorkspaceInv

LEMMA MovedOn ==
  ASSUME NEW l \in Loss, server \in [Loss -> SeenTree \cup {None}], server[l] \in SeenTree \ {None},
         server' = [server EXCEPT ![l].version = @ + 1]
  PROVE  Moves(l)
  <1>. DEFINE t == [server[l] EXCEPT !.version = @ + 1]
  <1>1. t \in SeenTree /\ t.version = server[l].version + 1
    BY DEF SeenTree
  <1>2. server' = [server EXCEPT ![l] = t]
    OBVIOUS
  <1>. HIDE DEF t
  <1>. QED
    BY <1>1, <1>2 DEF Moves

\* Another user's commit or deletion.
LEMMA OtherUsers ==
  ASSUME WorkspaceInv, NEW l \in Loss, OtherCommit(l) \/ OtherDelete(l)
  PROVE  WorkspaceInv'
  <1>1. server \in [Loss -> SeenTree \cup {None}] /\ server[l] \in SeenTree \ {None}
    BY DEF WorkspaceInv, WorldTyped, OtherCommit, OtherDelete
  <1>2. UNCHANGED <<stored, sent, seen, host, card>>
    BY DEF OtherCommit, OtherDelete
  <1>3. Moves(l)
    <2>1. CASE OtherCommit(l)
      BY <1>1, <2>1, MovedOn DEF OtherCommit
    <2>2. CASE OtherDelete(l)
      BY <1>1, <2>2 DEF OtherDelete, Moves
    <2>. QED
      BY <2>1, <2>2
  <1>. QED
    BY <1>2, <1>3, ServerMoves DEF seen, host

-----------------------------------------------------------------------------
\* The canvas is unmounted, whatever becomes of the host and the queries.
LEMMA UnmountInv ==
  ASSUME WorkspaceInv, Unmount, dirty' \in BOOLEAN, HostTyped',
         UNCHANGED <<world, sent, loaded>>,
         \A l \in Loss : cache'[l] = cache[l] \/ (server[l] # None /\ cache'[l] = server[l])
  PROVE  WorkspaceInv'
  <1>. USE DEF world
  <1>1. WorldTyped' /\ CardTyped'
    BY BlankFacts DEF WorkspaceInv, WorldTyped, CardTyped, Unmount, Idle
  <1>2. Drawn' /\ Waiting' /\ Fits'
    BY BlankFacts DEF WorkspaceInv, Drawn, Waiting, Fits, Unmount, Idle
  <1>3. Behind'
    <2>1. \A l \in Loss : server[l] # None => server[l].version \in Nat
      BY DEF WorkspaceInv, WorldTyped, SeenTree
    <2>. QED
      BY <2>1 DEF WorkspaceInv, Behind, Reached, Unmount
  <1>4. Once'
    BY DEF WorkspaceInv, Once, Current, Creates, Unmount, Idle
  <1>. QED
    BY <1>1, <1>2, <1>3, <1>4 DEF WorkspaceInv

LEMMA QueriesInv ==
  ASSUME WorkspaceInv, SoIFetched \/ \E l \in Loss : TreeFetched(l)
  PROVE  WorkspaceInv'
  <1>1. ASSUME NEW l \in Loss, TreeFetched(l) PROVE WorkspaceInv'
    <2>1. /\ cache' \in [Loss -> SeenTree \cup {None}]
          /\ \A m \in Loss : cache'[m] = cache[m] \/ (server[m] # None /\ cache'[m] = server[m])
      BY <1>1 DEF TreeFetched, WorkspaceInv, WorldTyped, HostTyped
    <2>2. UNCHANGED <<world, sent, listed, host, card>>
      BY <1>1 DEF TreeFetched
    <2>3. Behind'
      <3>1. \A m \in Loss : server[m] # None => server[m].version \in Nat
        BY DEF WorkspaceInv, WorldTyped, SeenTree
      <3>. QED
        BY <2>1, <2>2, <3>1 DEF WorkspaceInv, Behind, Reached, world, host, card, save
    <2>. QED
      BY <2>1, <2>2, <2>3 DEF WorkspaceInv, WorldTyped, HostTyped, CardTyped, Drawn, Waiting,
         Once, Current, Creates, Fits, Nodes, world, host, card, trees, save, canvas
  <1>2. CASE SoIFetched
    <2>1. listed' \subseteq Loss /\ UNCHANGED <<world, sent, cache, host>>
      BY <1>2 DEF SoIFetched
    <2>2. HostTyped'
      BY <2>1 DEF WorkspaceInv, HostTyped, host
    <2>3. CASE listed' = {}
      BY <1>2, <2>1, <2>2, <2>3, UnmountInv DEF SoIFetched, WorkspaceInv, CardTyped, host
    <2>4. CASE listed' # {}
      <3>1. UNCHANGED card
        BY <1>2, <2>4 DEF SoIFetched
      <3>. QED
        BY <2>1, <2>2, <3>1 DEF WorkspaceInv, WorldTyped, HostTyped, CardTyped, Behind, Reached,
           Drawn, Waiting, Once, Current, Creates, Fits, Nodes, world, host, card, trees, save,
           canvas
    <2>. QED
      BY <2>3, <2>4
  <1>. QED
    BY <1>1, <1>2

LEMMA SelectionInv ==
  ASSUME WorkspaceInv, Select \/ FallBack
  PROVE  WorkspaceInv'
  <1>1. PICK l \in Loss \cup {None} : Reselect(l)
    BY DEF Select, FallBack, WorkspaceInv, HostTyped
  <1>2. HostTyped'
    BY <1>1 DEF Reselect, WorkspaceInv, HostTyped, seen
  <1>. QED
    BY <1>1, <1>2, UnmountInv DEF Reselect, seen, WorkspaceInv, CardTyped

\* The canvas is mounted on a baseline that is not ahead of the database.
LEMMA MountInv ==
  ASSUME WorkspaceInv, Mount
  PROVE  WorkspaceInv'
  <1>. DEFINE t == Opened(loaded'.tree)
  <1>1. loss \in Loss /\ loss # None /\ cache[loss] \in SeenTree \ {None}
    BY DEF Mount, WorkspaceInv, HostTyped
  <1>2. /\ loaded' \in [loss : Loss \cup {None}, generation : Nat, tree : SeenTree \cup {None}]
        /\ loaded'.loss = loss /\ loaded'.tree \in SeenTree
        /\ Reached(loss, loaded'.tree.version)
    <2>1. CASE <<loaded.loss, loaded.generation>> = Key
      BY <1>1, <2>1 DEF Mount, Key, WorkspaceInv, HostTyped, Behind
    <2>2. CASE <<loaded.loss, loaded.generation>> # Key
      BY <1>1, <2>2 DEF Mount, WorkspaceInv, HostTyped, Behind
    <2>. QED
      BY <2>1, <2>2
  <1>3. t \in WorkTree /\ t.version = loaded'.tree.version /\ t.edits = {}
    BY <1>2, OpenedFacts
  <1>4. /\ draft' = t /\ committed' = t /\ base' = t.version
        /\ layout' = None \/ layout' = ArrangeInitial(t)
        /\ mounted' = TRUE /\ dirty' = FALSE /\ needsRefresh' = FALSE
        /\ saving' = "no" /\ overtaken' = FALSE
        /\ UNCHANGED <<server, stored, sent, cache, listed, loss, generation, working, rebuild>>
    BY DEF Mount, Idle, world, seen
  <1>. HIDE DEF t
  <1>5. WorldTyped' /\ HostTyped' /\ CardTyped'
    BY <1>1, <1>2, <1>3, <1>4 DEF WorkspaceInv, WorldTyped, HostTyped, CardTyped, WorkTree
  <1>6. Behind'
    BY <1>1, <1>2, <1>3, <1>4 DEF WorkspaceInv, Behind, Reached
  <1>7. Drawn' /\ Waiting' /\ Once'
    BY <1>3, <1>4 DEF WorkspaceInv, Drawn, Differ, Waiting, Once, Current, Creates
  <1>8. Fits'
    BY <1>3, <1>4 DEF Fits, ArrangeInitial, Nodes
  <1>. QED
    BY <1>5, <1>6, <1>7, <1>8 DEF WorkspaceInv

\* A rebuild and a reload: asked, answered, and mounted anew.
LEMMA RebuildInv ==
  ASSUME WorkspaceInv, Build \/ Reload \/ BuildAnswered
  PROVE  WorkspaceInv'
  <1>1. CASE Build \/ Reload
    <2>1. UNCHANGED <<world, seen, loss, generation, loaded, sent, card>>
      BY <1>1 DEF Build, Reload
    <2>2. working' = "building" => rebuild'.loss \in Loss
      BY <1>1 DEF Build, Reload, WorkspaceInv, HostTyped
    <2>. QED
      BY <2>1, <2>2 DEF WorkspaceInv, WorldTyped, HostTyped, CardTyped, Behind, Reached,
         Drawn, Waiting, Once, Current, Creates, Fits, Nodes, world, seen, card, trees, save,
         canvas
  <1>2. CASE BuildAnswered
    <2>1. /\ UNCHANGED <<stored, cache, listed, loss, generation, loaded, sent, card>>
          /\ working' # "building" /\ rebuild.loss \in Loss
      BY <1>2 DEF BuildAnswered, WorkspaceInv, HostTyped, seen
    <2>2. CASE UNCHANGED server
      BY <2>1, <2>2 DEF WorkspaceInv, WorldTyped, HostTyped, CardTyped, Behind, Reached,
         Drawn, Waiting, Once, Current, Creates, Fits, Nodes, card, trees, save, canvas
    <2>3. CASE ~UNCHANGED server
      <3>1. /\ server[rebuild.loss] # None
            /\ server' = [server EXCEPT ![rebuild.loss].version = @ + 1]
        BY <1>2, <2>3 DEF BuildAnswered
      <3>2. server \in [Loss -> SeenTree \cup {None}]
        BY DEF WorkspaceInv, WorldTyped
      <3>3. Moves(rebuild.loss)
        BY <2>1, <3>1, <3>2, MovedOn
      <3>. QED
        BY <2>1, <3>3, ServerMoves
    <2>. QED
      BY <2>2, <2>3
  <1>. QED
    BY <1>1, <1>2

LEMMA AnewInv ==
  ASSUME WorkspaceInv, BuildDone \/ ReloadAnswered
  PROVE  WorkspaceInv'
  <1>1. /\ UNCHANGED <<world, sent, listed, loss, loaded, rebuild>>
        /\ working' = "nothing" /\ generation' \in Nat /\ dirty' \in BOOLEAN
        /\ Read \/ UNCHANGED cache
    <2>1. generation \in Nat /\ generation + 1 \in Nat /\ dirty \in BOOLEAN
      BY DEF WorkspaceInv, HostTyped, CardTyped
    <2>2. CASE BuildDone
      BY <2>1, <2>2 DEF BuildDone, Anew
    <2>3. CASE ReloadAnswered
      BY <2>1, <2>3 DEF ReloadAnswered, Anew, card, trees
    <2>. QED
      BY <2>2, <2>3
  <1>2. \A l \in Loss : cache'[l] = cache[l] \/ (server[l] # None /\ cache'[l] = server[l])
    BY <1>1 DEF Read, WorkspaceInv, HostTyped
  <1>3. cache' \in [Loss -> SeenTree \cup {None}]
    BY <1>1 DEF Read, WorkspaceInv, WorldTyped, HostTyped
  <1>4. HostTyped'
    BY <1>1, <1>3 DEF WorkspaceInv, HostTyped
  <1>5. CASE Unmount
    BY <1>1, <1>2, <1>4, <1>5, UnmountInv
  <1>6. CASE UNCHANGED <<generation, cache, card>>
    BY <1>1, <1>6 DEF WorkspaceInv, WorldTyped, HostTyped, CardTyped, Behind, Reached, Drawn,
       Waiting, Once, Current, Creates, Fits, Nodes, world, card, trees, save, canvas
  <1>. QED
    BY <1>5, <1>6 DEF BuildDone, ReloadAnswered, Anew

-----------------------------------------------------------------------------
\* What is staged in the canvas: another draft under the same version, edited here
\* or read from a file.
Edited ==
  /\ Editable /\ UNCHANGED overtaken
  /\ \/ draft'.edits = {}
     \/ draft'.old = draft.old /\ draft'.edits \subseteq draft.edits \cup Fresh
Imported ==
  /\ overtaken' = (saving # "no")
  /\ draft'.old \/ draft'.edits \subseteq Local
Restaged ==
  /\ mounted /\ draft' \in WorkTree /\ draft'.version = base
  /\ Edited \/ Imported
  /\ saving # "no" => (layout' # None => layout'.late)
  /\ dirty' = Differ(draft', committed)
  /\ UNCHANGED <<world, sent, seen, host, mounted, committed, base, needsRefresh, saving>>

LEMMA RestagedInv ==
  ASSUME WorkspaceInv, Restaged, Fits'
  PROVE  WorkspaceInv'
  <1>. USE DEF Restaged, world, seen, host
  <1>1. WorldTyped' /\ HostTyped' /\ CardTyped'
    BY DEF WorkspaceInv, WorldTyped, HostTyped, CardTyped, Differ, Edited, Imported
  <1>2. Behind' /\ Drawn'
    BY DEF WorkspaceInv, Behind, Reached, Drawn, Differ
  <1>3. CASE Edited
    BY <1>1, <1>2, <1>3 DEF WorkspaceInv, Waiting, Once, Current, Creates, Edited, Editable, Fresh
  <1>4. CASE Imported
    <2>1. Waiting'
      BY <1>4 DEF WorkspaceInv, Waiting, Imported, Local, CardTyped
    <2>2. Once'
      BY <1>4 DEF WorkspaceInv, Once, Current, Creates, Imported, Local
    <2>. QED
      BY <1>1, <1>2, <2>1, <2>2 DEF WorkspaceInv
  <1>. QED
    BY <1>3, <1>4

LEMMA WithEdits ==
  ASSUME draft \in WorkTree, NEW E \in SUBSET Edit
  PROVE  LET t == [draft EXCEPT !.edits = E] IN
           /\ t \in WorkTree /\ t.version = draft.version /\ t.edits = E
           /\ t.old = draft.old
  BY DEF WorkTree

LEMMA EditInv ==
  ASSUME WorkspaceInv, NEW e \in Edit,
         \/ AddNode(e) \/ ChangeSetting(e) \/ ShowProperty(e) \/ MoveView(e)
         \/ RemoveBranch(e)
  PROVE  WorkspaceInv'
  <1>1. draft \in WorkTree /\ draft.edits \subseteq Edit /\ draft.version = base
    BY DEF WorkspaceInv, CardTyped, Drawn, WorkTree
  <1>2. PICK E \in {draft.edits \cup {e}, draft.edits \ {e}} :
          /\ Editable /\ Staged([draft EXCEPT !.edits = E])
          /\ E \subseteq draft.edits \cup Fresh
          /\ \/ layout' = None
             \/ layout' = ArrangeStaged(draft')
             \/ layout' = layout /\ e \in Setting
          /\ UNCHANGED <<world, sent, seen, host, mounted, save>>
    BY DEF AddNode, ChangeSetting, ShowProperty, MoveView, RemoveBranch, Update, canvas
  <1>. DEFINE t == [draft EXCEPT !.edits = E]
  <1>3. t \in WorkTree /\ t.version = base /\ t.edits = E /\ t.old = draft.old
    BY <1>1, WithEdits
  <1>4. draft' = t
    BY <1>2 DEF Staged
  <1>. HIDE DEF t
  <1>5. Restaged
    BY <1>2, <1>3, <1>4 DEF Restaged, Edited, Staged, Editable, save
  <1>6. Fits'
    BY <1>2, <1>3, <1>4 DEF Fits, ArrangeStaged, Nodes, WorkspaceInv, WorkTree
  <1>. QED
    BY <1>5, <1>6, RestagedInv

LEMMA ReplaceInv ==
  ASSUME WorkspaceInv, Revert \/ Import
  PROVE  WorkspaceInv'
  <1>1. CASE Revert
    <2>1. Restaged
      BY <1>1 DEF Revert, Restaged, Edited, Editable, Staged, WorkspaceInv, CardTyped, Drawn, save
    <2>2. Fits'
      BY <1>1 DEF Revert, Fits, Staged, ArrangeStaged, Nodes, WorkspaceInv, CardTyped, WorkTree
    <2>. QED
      BY <2>1, <2>2, RestagedInv
  <1>2. CASE Import
    <2>1. PICK E \in SUBSET Edit, old \in BOOLEAN :
            \E placed \in {{}, Core \cup (E \ Setting)} :
              /\ old \/ E \subseteq Local
              /\ Staged([version |-> base, edits |-> E, placed |-> placed, old |-> old])
              /\ layout' = None \/ layout' = ArrangeStaged(draft')
      BY <1>2 DEF Import
    <2>2. PICK placed \in {{}, Core \cup (E \ Setting)} :
              /\ old \/ E \subseteq Local
              /\ Staged([version |-> base, edits |-> E, placed |-> placed, old |-> old])
              /\ layout' = None \/ layout' = ArrangeStaged(draft')
      BY <2>1
    <2>. DEFINE t == [version |-> base, edits |-> E, placed |-> placed, old |-> old]
    <2>3. placed \in SUBSET (Core \cup Edit)
      OBVIOUS
    <2>4. t \in WorkTree /\ t.version = base /\ t.edits = E /\ t.old = old
      BY <2>3 DEF WorkTree, WorkspaceInv, CardTyped
    <2>5. draft' = t /\ dirty' = Differ(t, committed) /\ UNCHANGED committed
      BY <2>2 DEF Staged
    <2>. HIDE DEF t
    <2>6. Imported
      BY <1>2, <2>2, <2>4, <2>5 DEF Import, Imported
    <2>7. saving # "no" => (layout' # None => layout'.late)
      <3>1. ArrangeStaged(draft').late = (saving # "no")
        BY Zenon DEF ArrangeStaged
      <3>. QED
        BY <2>2, <3>1
    <2>8. Restaged
      BY <1>2, <2>4, <2>5, <2>6, <2>7 DEF Import, Restaged, Differ
    <2>9. Fits'
      BY <2>2, <2>4, <2>5 DEF Fits, ArrangeStaged, Nodes
    <2>. QED
      BY <2>8, <2>9, RestagedInv
  <1>. QED
    BY <1>1, <1>2

\* An arrangement is asked, applied or given up.
LEMMA ArrangementInv ==
  ASSUME WorkspaceInv, Arrange \/ Arranged \/ ArrangeFails
  PROVE  WorkspaceInv'
  <1>1. CASE Arrange \/ ArrangeFails
    <2>1. /\ layout' = None \/ (Editable /\ layout' = ArrangeStaged(draft))
          /\ UNCHANGED <<world, sent, seen, host, mounted, trees, save>>
      BY <1>1 DEF Arrange, ArrangeFails
    <2>2. Fits' /\ Waiting'
      BY <2>1 DEF WorkspaceInv, CardTyped, WorkTree, Fits, Waiting, ArrangeStaged, Nodes,
         Editable, world, host, trees, save
    <2>. QED
      BY <2>1, <2>2 DEF WorkspaceInv, WorldTyped, HostTyped, CardTyped, Behind, Reached,
         Drawn, Once, Current, Creates, world, seen, host, trees, save
  <1>2. CASE Arranged
    <2>1. layout # None /\ draft \in WorkTree /\ committed \in WorkTree
      BY <1>2 DEF Arranged, WorkspaceInv, CardTyped
    <2>2. layout.nodes \in SUBSET (Core \cup Edit)
      BY <2>1 DEF WorkspaceInv, Fits
    <2>3. \A t \in WorkTree :
            LET u == [t EXCEPT !.placed = layout.nodes] IN
            u \in WorkTree /\ u.version = t.version /\ u.edits = t.edits /\ u.old = t.old
      BY <2>2 DEF WorkTree
    <2>4. /\ draft' \in WorkTree /\ draft'.version = draft.version
          /\ draft'.edits = draft.edits /\ draft'.old = draft.old
          /\ committed' \in WorkTree /\ committed'.version = committed.version
          /\ committed'.edits = committed.edits
      BY <1>2, <2>1, <2>3 DEF Arranged
    <2>5. /\ dirty' = Differ(draft', committed') /\ layout' = None
          /\ UNCHANGED <<world, sent, seen, host, mounted, save>>
      BY <1>2 DEF Arranged
    <2>6. WorldTyped' /\ HostTyped' /\ CardTyped' /\ Fits'
      BY <2>4, <2>5 DEF WorkspaceInv, WorldTyped, HostTyped, CardTyped, Differ, Fits, world, seen,
         host, save
    <2>7. Behind' /\ Drawn'
      BY <2>4, <2>5 DEF WorkspaceInv, Behind, Reached, Drawn, Differ, world, seen, host, save
    <2>8. Waiting' /\ Once'
      BY <2>1, <2>4, <2>5 DEF WorkspaceInv, Waiting, Once, Current, Creates, world, host, save
    <2>. QED
      BY <2>6, <2>7, <2>8 DEF WorkspaceInv
  <1>. QED
    BY <1>1, <1>2

-----------------------------------------------------------------------------
\* The transaction: sent, accepted, refused, read back.
LEMMA CommitInv ==
  ASSUME WorkspaceInv, Commit
  PROVE  WorkspaceInv'
  <1>1. sent' \in Out
    BY DEF Commit, Editable, Out, WorkspaceInv, CardTyped
  <1>2. /\ sent' = [loss |-> loss, base |-> base, draft |-> draft]
        /\ layout' = None /\ saving' = "sent" /\ saving = "no" /\ mounted
        /\ ~needsRefresh
        /\ UNCHANGED <<server, stored, cache, listed, loss, generation, loaded, working, rebuild,
                       mounted, draft, committed, dirty, base, needsRefresh, overtaken>>
    BY DEF Commit, Editable, world, seen, host, trees
  <1>3. WorldTyped' /\ HostTyped' /\ CardTyped' /\ Fits'
    BY <1>1, <1>2 DEF WorkspaceInv, WorldTyped, HostTyped, CardTyped, Fits
  <1>4. Behind' /\ Drawn'
    BY <1>2 DEF WorkspaceInv, Behind, Reached, Drawn, Differ
  <1>5. Waiting'
    BY <1>1, <1>2 DEF Waiting, Out
  <1>6. Once'
    BY <1>2 DEF WorkspaceInv, Once, Current, Creates
  <1>. QED
    BY <1>3, <1>4, <1>5, <1>6 DEF WorkspaceInv

LEMMA WorkspaceAcceptedInv ==
  ASSUME WorkspaceInv, CommitAccepted
  PROVE  WorkspaceInv'
  <1>. DEFINE l == sent.loss
  <1>1. /\ sent \in Out /\ l \in Loss /\ sent.base \in Nat /\ sent.draft \in WorkTree
        /\ server[l] \in SeenTree \ {None} /\ server[l].version = sent.base
        /\ server[l].version \in Nat
    BY DEF CommitAccepted, Precondition, WorkspaceInv, WorldTyped, Out, SeenTree
  <1>. DEFINE s == Saved(sent.draft, server[l].version + 1)
  <1>2. s \in SeenTree /\ s.version = server[l].version + 1
    BY <1>1 DEF Saved, SeenTree
  <1>3. /\ server' = [server EXCEPT ![l] = s]
        /\ stored' = stored \cup sent.draft.edits /\ sent' = None
        /\ \/ saving = "sent" /\ saving' = "reading" /\ needsRefresh' = TRUE /\ UNCHANGED overtaken
           \/ saving' = "no" /\ overtaken' = FALSE /\ UNCHANGED needsRefresh
        /\ UNCHANGED <<cache, listed, loss, generation, loaded, working, rebuild, mounted,
                       draft, committed, dirty, base, layout>>
    BY DEF CommitAccepted, Idle, seen, host, trees, canvas
  <1>. HIDE DEF s
  <1>4. Moves(l)
    BY <1>1, <1>2, <1>3 DEF Moves, WorkspaceInv, WorldTyped
  <1>5. WorldTyped' /\ HostTyped' /\ CardTyped'
    <2>1. server' \in [Loss -> SeenTree \cup {None}] /\ stored' \subseteq Edit
      BY <1>1, <1>3, <1>4 DEF Moves, WorkspaceInv, WorldTyped, WorkTree
    <2>. QED
      BY <1>3, <2>1 DEF WorkspaceInv, WorldTyped, HostTyped, CardTyped
  <1>6. \A m \in Loss, v \in Nat : Reached(m, v) => /\ Reached(m, v)'
                                                    /\ Current(m, v)' => m # l /\ Current(m, v)
    BY <1>1, <1>4, MovesUp
  <1>. HIDE DEF l
  <1>7. Behind'
    <2>1. /\ \A m \in Loss : cache[m] # None => cache[m].version \in Nat
          /\ loaded.loss # None => loaded.loss \in Loss /\ loaded.tree.version \in Nat
          /\ mounted => loss \in Loss /\ base \in Nat
      BY DEF WorkspaceInv, HostTyped, CardTyped, SeenTree
    <2>2. \A m \in Loss, v \in Nat : Reached(m, v) => Reached(m, v)'
      BY <1>6
    <2>. QED
      BY <1>3, <2>1, <2>2 DEF WorkspaceInv, Behind, Reached
  <1>8. Drawn' /\ Fits'
    BY <1>3 DEF WorkspaceInv, Drawn, Differ, Fits, Nodes
  <1>9. Waiting'
    BY <1>3 DEF WorkspaceInv, Waiting
  <1>10. Once'
    <2>1. SUFFICES ASSUME mounted, ~needsRefresh', Current(loss, base)'
                   PROVE  Creates(draft)'
      BY <1>3 DEF Once
    <2>2. loss # l /\ Current(loss, base)
      BY <1>3, <1>6, <2>1 DEF WorkspaceInv, CardTyped, Behind, Current
    <2>3. saving # "sent"
      BY <2>2 DEF l, WorkspaceInv, Waiting
    <2>4. ~needsRefresh /\ Creates(draft)
          /\ (draft.old \/ draft.edits \cap sent.draft.edits = {})
      BY <1>3, <2>1, <2>2, <2>3 DEF l, WorkspaceInv, Once, Waiting, CommitAccepted
    <2>. QED
      BY <1>3, <2>4 DEF Creates
  <1>. QED
    BY <1>5, <1>7, <1>8, <1>9, <1>10 DEF WorkspaceInv

LEMMA AnswerInv ==
  ASSUME WorkspaceInv, CommitRefused \/ ReadBack \/ ReadBackFails
  PROVE  WorkspaceInv'
  <1>1. CASE CommitRefused \/ ReadBackFails
    <2>1. /\ sent' = sent \/ sent' = None
          /\ saving # "no" => sent' = None
          /\ UNCHANGED <<world, seen, host, mounted, trees, base, needsRefresh, canvas>>
      BY <1>1 DEF CommitRefused, ReadBackFails, WorkspaceInv, Waiting
    <2>2. saving' = "no" /\ overtaken' = FALSE
      BY <1>1 DEF CommitRefused, ReadBackFails, Idle
    <2>3. WorldTyped' /\ HostTyped' /\ CardTyped' /\ Behind' /\ Drawn' /\ Fits'
      <3>1. WorldTyped' /\ HostTyped'
        BY <2>1, <2>2 DEF WorkspaceInv, WorldTyped, HostTyped, world, seen, host
      <3>2. CardTyped'
        BY <2>1, <2>2 DEF WorkspaceInv, CardTyped, host, trees, canvas
      <3>3. Behind' /\ Drawn' /\ Fits'
        BY <2>1, <2>2 DEF WorkspaceInv, CardTyped, Behind, Reached, Drawn, Differ, Fits, Nodes,
           world, seen, host, trees, canvas
      <3>. QED
        BY <3>1, <3>2, <3>3
    <2>4. Waiting' /\ Once'
      BY <2>1, <2>2 DEF WorkspaceInv, CardTyped, Waiting, Once, Current, Creates, world, host,
         trees
    <2>. QED
      BY <2>3, <2>4 DEF WorkspaceInv
  <1>2. CASE ReadBack
    <2>1. mounted /\ loss \in Loss /\ server[loss] \in SeenTree \ {None}
          /\ sent = None /\ (layout # None => layout.late)
      BY <1>2 DEF ReadBack, WorkspaceInv, WorldTyped, CardTyped, Waiting
    <2>. DEFINE t == Opened(server[loss])
    <2>2. t \in WorkTree /\ t.version = server[loss].version /\ t.edits = {} /\ t.version \in Nat
      BY <2>1, OpenedFacts
    <2>3. /\ draft' = t /\ committed' = t /\ base' = t.version
          /\ dirty' = FALSE /\ needsRefresh' = FALSE /\ saving' = "no" /\ overtaken' = FALSE
          /\ UNCHANGED <<world, sent, seen, host, mounted, canvas>>
      BY <1>2 DEF ReadBack, Idle
    <2>. HIDE DEF t
    <2>4. WorldTyped' /\ HostTyped' /\ CardTyped' /\ Fits'
      BY <2>1, <2>2, <2>3 DEF WorkspaceInv, WorldTyped, HostTyped, CardTyped, Fits, world, seen,
         host, canvas
    <2>5. Behind' /\ Drawn'
      <3>1. Reached(loss, base)'
        BY <2>2, <2>3 DEF Reached, world, host
      <3>2. draft'.version = base' /\ committed'.version = base' /\ committed'.edits = {}
            /\ dirty' = Differ(draft', committed') /\ sent' = None
        BY <2>1, <2>2, <2>3 DEF Differ
      <3>. QED
        BY <2>3, <3>1, <3>2 DEF WorkspaceInv, Behind, Reached, Drawn, Differ, world, seen, host
    <2>6. Waiting' /\ Once'
      BY <2>1, <2>2, <2>3 DEF Waiting, Once, Creates
    <2>. QED
      BY <2>4, <2>5, <2>6 DEF WorkspaceInv
  <1>. QED
    BY <1>1, <1>2

-----------------------------------------------------------------------------
LEMMA WorkspaceStepInv ==
  ASSUME WorkspaceInv, [Next]_vars
  PROVE  WorkspaceInv'
  <1>1. CASE UNCHANGED vars
    <2>. USE <1>1 DEF vars, world, seen, host, card, trees, save, canvas
    <2>1. WorldTyped' /\ HostTyped' /\ CardTyped'
      BY DEF WorkspaceInv, WorldTyped, HostTyped, CardTyped
    <2>2. Behind' /\ Drawn' /\ Fits'
      BY DEF WorkspaceInv, Behind, Reached, Drawn, Differ, Fits, Nodes
    <2>3. Waiting' /\ Once'
      BY DEF WorkspaceInv, Waiting, Once, Current, Creates
    <2>. QED
      BY <2>1, <2>2, <2>3 DEF WorkspaceInv
  <1>. QED
    BY <1>1, OtherUsers, QueriesInv, SelectionInv, MountInv, RebuildInv, AnewInv, EditInv,
       ReplaceInv, ArrangementInv, CommitInv, WorkspaceAcceptedInv, AnswerInv DEF Next

\* What the Loss Tool holds of its staged work is in order throughout.
THEOREM WorkspaceSafe == Spec => []WorkspaceInv
  BY WorkspaceInitInv, WorkspaceStepInv, PTL DEF Spec

\* A transaction whose draft was not imported from a file of another version is
\* accepted only on the version the draft was drawn from, and creates no node that
\* the database has, in every interleaving of the host, the canvas, the queries
\* and other users.
THEOREM SavedOnceOverSeen == Spec => SavesOnceOverSeen
  <1>1. ASSUME WorkspaceInv, CommitAccepted, ~sent.draft.old
        PROVE  /\ server[sent.loss].version = sent.draft.version
               /\ (sent.draft.edits \cap stored) \ Setting = {}
    BY <1>1 DEF WorkspaceInv, Drawn, Once, Current, Creates, CommitAccepted, Precondition
  <1>2. ASSUME WorkspaceInv, [Next]_vars
        PROVE  [CommitAccepted /\ ~sent.draft.old =>
                  /\ server[sent.loss].version = sent.draft.version
                  /\ (sent.draft.edits \cap stored) \ Setting = {}]_vars
    BY <1>1, <1>2
  <1>. QED
    BY <1>2, WorkspaceSafe, PTL DEF Spec, SavesOnceOverSeen

\* Staged nodes leave the canvas only by the analyst's choice, with the database,
\* on a rebuild or reload, with the last Loss, or, imported under a transaction,
\* for the tree read back.
THEOREM LeaveByChoice == Spec => EditsLeaveByChoice
  <1>. DEFINE Chosen == \/ Lost \subseteq stored
                        \/ working # "nothing" /\ working' = "nothing"
                        \/ listed' = {} /\ listed # {}
                        \/ ReadBack /\ overtaken
                        \/ Revert \/ Import \/ \E e \in Edit : RemoveBranch(e) \/ MoveView(e)
  <1>1. ASSUME WorkspaceInv, [Next]_vars
        PROVE  Chosen \/ UNCHANGED vars
    <2>1. CASE ~mounted \/ UNCHANGED <<mounted, draft>>
      BY <2>1 DEF Lost
    <2>2. CASE Select \/ FallBack
      <3>1. mounted => draft.edits = {}
        BY <1>1, <2>2 DEF Select, FallBack, WorkspaceInv, CardTyped, Drawn, Differ
      <3>. QED
        BY <3>1 DEF Lost
    <2>3. CASE SoIFetched \/ Mount
      BY <2>1, <2>3 DEF SoIFetched, Mount, card, trees
    <2>4. CASE BuildAnswered \/ BuildDone \/ Reload \/ ReloadAnswered \/ Build
      BY <2>1, <2>4 DEF Build, BuildAnswered, BuildDone, Reload, ReloadAnswered, Anew, card,
         trees
    <2>5. ASSUME NEW e \in Edit, AddNode(e) \/ ChangeSetting(e) \/ ShowProperty(e)
          PROVE  Lost \subseteq stored
      <3>1. draft' = [draft EXCEPT !.edits = @ \cup {e}] /\ UNCHANGED mounted
        BY <2>5 DEF AddNode, ChangeSetting, ShowProperty, Update, Staged
      <3>. QED
        BY <3>1 DEF Lost, WorkspaceInv, CardTyped, WorkTree
    <2>6. CASE Arranged
      <3>1. draft' = [draft EXCEPT !.placed = layout.nodes] /\ UNCHANGED mounted
        BY <2>6 DEF Arranged
      <3>. QED
        BY <3>1 DEF Lost, WorkspaceInv, CardTyped, WorkTree
    <2>7. CASE ReadBack
      BY <1>1, <2>7 DEF ReadBack, Lost, WorkspaceInv, Waiting
    <2>8. CASE Arrange \/ ArrangeFails \/ Commit \/ CommitAccepted \/ CommitRefused
               \/ ReadBackFails \/ \E l \in Loss : OtherCommit(l) \/ OtherDelete(l)
                                                   \/ TreeFetched(l)
      BY <2>1, <2>8 DEF Arrange, ArrangeFails, Commit, CommitAccepted, CommitRefused,
         ReadBackFails, OtherCommit, OtherDelete, TreeFetched, card, trees
    <2>. QED
      BY <1>1, <2>2, <2>3, <2>4, <2>5, <2>6, <2>7, <2>8 DEF Next
  <1>2. ASSUME WorkspaceInv, [Next]_vars
        PROVE  [Chosen]_vars
    BY <1>1, <1>2
  <1>. QED
    BY <1>2, WorkspaceSafe, PTL DEF Spec, EditsLeaveByChoice

\* An answer of the worker is applied to the draft it was asked for, unless an
\* import asked for it under a transaction.
THEOREM ArrangedFits == Spec => ArrangementFits
  <1>1. ASSUME WorkspaceInv, Arranged, ~layout.late
        PROVE  draft'.placed = Nodes(draft')
    BY <1>1 DEF WorkspaceInv, CardTyped, WorkTree, Fits, Arranged, Nodes
  <1>2. ASSUME WorkspaceInv, [Next]_vars
        PROVE  [Arranged /\ ~layout.late => draft'.placed = Nodes(draft')]_vars
    BY <1>1, <1>2
  <1>. QED
    BY <1>2, WorkspaceSafe, PTL DEF Spec, ArrangementFits

=============================================================================
