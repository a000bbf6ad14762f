--------------------------- MODULE LossWorkspace ---------------------------
(***************************************************************************)
(* The staged work of the Loss Tool between the canvas and the database:   *)
(* the host window (LossTool.tsx) that selects a Loss, freezes the tree it *)
(* was opened with, rebuilds and reloads it; the canvas (LossCanvas.tsx)   *)
(* that holds a draft beside the committed tree, arranges it in a worker,  *)
(* commits and reverts it; and the transaction (coreAdapter.ts) with its   *)
(* version precondition.  What an edit does to the tree is in LossEditing. *)
(*                                                                         *)
(* A tree is abstracted to the version it was read at, the nodes staged on *)
(* top of it and the nodes that have a position.  Of a tree read from a    *)
(* file it also tells whether it was drawn from another version (old),     *)
(* which stands for all that differs in it but the nodes it stages.        *)
(* The database refuses a transaction on a version that is not current     *)
(* (see LossRevision).                                                     *)
(***************************************************************************)
EXTENDS Naturals, FiniteSets

CONSTANTS
  Loss, None,
  Edit,          \* what the analyst may stage: nodes, and
  Setting,       \* changes of names, leaf inputs, rules, colors, properties shown
  MaxVersion,    \* bound: transactions on all the trees
  MaxGeneration, \* bound: rebuilds and reloads
  Files          \* bound: what a file imported may stage, of another version or under a transaction

VARIABLES
  server,        \* [version, placed] of each Loss's tree in the database, or None
  stored,        \* what was staged and reached the database
  cache,         \* the tree last fetched of each Loss (query ['loss-tree', hid])
  listed,        \* the Losses of the SoI as last fetched (query ['soi', hid])
  loss,          \* the Loss selected (lossHid)
  generation,    \* counts rebuilds and reloads
  loaded,        \* the frozen baseline: its key and the tree read
  working,       \* what the host is waiting for
  rebuild,       \* the Loss and version of a rebuild under way, or None
  dirty,         \* what the host knows of the canvas (onDirtyChange)
  mounted,       \* the canvas is mounted
  draft, committed,
  base,          \* version of the baseline (baseline.current)
  needsRefresh,  \* a transaction was accepted whose result was not read
  saving,        \* how far the canvas's transaction is
  overtaken,     \* a file was imported over the draft it sent
  sent,          \* the transaction under way, or None
  layout,        \* the arrangement whose answer would be applied (epoch), or None
  busy           \* an arrangement is shown to be under way

world  == <<server, stored>>
seen   == <<cache, listed>>
host   == <<loss, generation, loaded, working, rebuild>>
trees  == <<draft, committed, dirty>>
save   == <<base, needsRefresh, saving, overtaken>>
canvas == <<layout, busy>>
card   == <<mounted, trees, save, canvas>>
vars   == <<world, sent, seen, host, card>>

Core     == {"root", "rest"}           \* the nodes the database has
Versions == 0 .. MaxVersion
OnServer == [version : Versions, placed : SUBSET Core] \cup {None}
Tree     == [version : Versions, edits : SUBSET Edit, placed : SUBSET (Core \cup (Edit \ Setting)),
             old : BOOLEAN]
Nodes(t) == Core \cup (t.edits \ Setting)
Opened(s) == [version |-> s.version, edits |-> {}, placed |-> s.placed, old |-> FALSE]
Blank     == Opened([version |-> 0, placed |-> {}])

Transactions == LET sum[S \in SUBSET Loss] ==
                      IF S = {} THEN 0
                      ELSE LET l == CHOOSE l \in S : TRUE IN
                           sum[S \ {l}] + IF server[l] = None THEN 1 ELSE server[l].version
                IN  sum[Loss]

Init ==
  /\ server \in [Loss -> {[version |-> 0, placed |-> {}], [version |-> 0, placed |-> Core]}]
  /\ cache = [l \in Loss |-> None] /\ listed = Loss /\ stored = {}
  /\ loss = None /\ generation = 0
  /\ loaded = [loss |-> None, generation |-> 0, tree |-> None]
  /\ working = "nothing" /\ rebuild = None /\ dirty = FALSE /\ mounted = FALSE
  /\ draft = Blank /\ committed = Blank
  /\ base = 0 /\ needsRefresh = FALSE /\ saving = "no" /\ overtaken = FALSE /\ sent = None
  /\ layout = None /\ busy = FALSE

\* No transaction of the canvas is out, or no longer.
Idle == saving' = "no" /\ overtaken' = FALSE

\* The canvas goes with all it holds; what the host knows of it stays.
Unmount ==
  /\ mounted' = FALSE /\ layout' = None /\ busy' = FALSE
  /\ draft' = Blank /\ committed' = Blank
  /\ base' = 0 /\ needsRefresh' = FALSE /\ Idle

-----------------------------------------------------------------------------
\* The database and the queries.

\* Another user commits to the tree, or deletes the Loss.
OtherCommit(l) ==
  /\ server[l] # None /\ Transactions < MaxVersion
  /\ server' = [server EXCEPT ![l].version = @ + 1]
  /\ UNCHANGED <<stored, sent, seen, host, card>>

OtherDelete(l) ==
  /\ server[l] # None /\ server[l].version = 0 /\ Transactions < MaxVersion
  /\ server' = [server EXCEPT ![l] = None]
  /\ UNCHANGED <<stored, sent, seen, host, card>>

\* A query is answered: on opening, after an invalidation or when it is stale.
\* A tree that cannot be read keeps the one read before (query.data).
TreeFetched(l) ==
  /\ server[l] # None /\ cache[l] # server[l]
  /\ cache' = [cache EXCEPT ![l] = server[l]]
  /\ UNCHANGED <<world, sent, listed, host, card>>

\* Without a Loss in the list the workspace is unmounted.
SoIFetched ==
  /\ listed # {l \in Loss : server[l] # None}
  /\ listed' = {l \in Loss : server[l] # None}
  /\ IF listed' = {} THEN Unmount /\ UNCHANGED dirty ELSE UNCHANGED card
  /\ UNCHANGED <<world, sent, cache, host>>

-----------------------------------------------------------------------------
\* The host.

Key == <<loss, generation>>

\* The selection changes and the canvas of the former key is unmounted.
Reselect(l) ==
  /\ l # loss
  /\ loss' = l
  /\ Unmount /\ UNCHANGED dirty
  /\ UNCHANGED <<world, sent, seen, generation, loaded, working, rebuild>>

\* A Loss is selected here or follows what is selected elsewhere; it is not
\* followed over staged work.
SelectAnyway == \E l \in listed : Reselect(l)
Select == ~dirty /\ \E l \in listed : Reselect(l)

\* The selected Loss is gone: the first listed takes its place.
FallBack ==
  /\ ~dirty /\ loss \notin listed
  /\ IF listed = {} THEN Reselect(None) ELSE \E l \in listed : Reselect(l)

\* The tree in the cache is frozen as the baseline of its key and the canvas is
\* mounted on it; nodes without a position are arranged, as part of the baseline.
ArrangeStaged(t)  == [nodes |-> Nodes(t), initial |-> FALSE, late |-> saving # "no"]
ArrangeInitial(t) == [nodes |-> Nodes(t), initial |-> TRUE, late |-> FALSE]
Mount ==
  /\ ~mounted /\ listed # {} /\ loss # None /\ cache[loss] # None
  /\ loaded' = IF <<loaded.loss, loaded.generation>> = Key THEN loaded
               ELSE [loss |-> loss, generation |-> generation, tree |-> cache[loss]]
  /\ LET t == Opened(loaded'.tree) IN
       /\ draft' = t /\ committed' = t /\ base' = t.version
       /\ layout' = IF Nodes(t) \subseteq t.placed THEN None ELSE ArrangeInitial(t)
  /\ busy' = (layout' # None)
  /\ mounted' = TRUE /\ dirty' = FALSE /\ needsRefresh' = FALSE /\ Idle
  /\ UNCHANGED <<world, sent, seen, loss, generation, working, rebuild>>

\* Auto-build or rebuild, expecting the version in the cache.  The canvas stays
\* as it is until the tree is built, read again and mounted anew.
Build ==
  /\ loss # None /\ ~dirty /\ working = "nothing" /\ cache[loss] # None
  /\ generation < MaxGeneration
  /\ working' = "building"
  /\ rebuild' = [loss |-> loss, version |-> cache[loss].version]
  /\ UNCHANGED <<world, seen, loss, generation, loaded, sent, card>>

BuildAnswered ==
  /\ working = "building"
  /\ \/ /\ server[rebuild.loss] # None /\ rebuild.version = server[rebuild.loss].version
        /\ Transactions < MaxVersion
        /\ server' = [server EXCEPT ![rebuild.loss].version = @ + 1]
        /\ working' = "built"
     \/ working' = "nothing" /\ UNCHANGED server        \* refused or failed
  /\ rebuild' = None
  /\ UNCHANGED <<stored, seen, loss, generation, loaded, sent, card>>

\* What is staged on the canvas meanwhile goes with it.
Anew ==
  /\ working' = "nothing"
  /\ generation' = generation + 1
  /\ Unmount
Read == loss # None /\ server[loss] # None /\ cache' = [cache EXCEPT ![loss] = server[loss]]

\* Whether or not the tree, that of the Loss selected by now, was read.
BuildDone ==
  /\ working = "built" /\ Anew
  /\ Read \/ UNCHANGED cache
  /\ dirty' = FALSE
  /\ UNCHANGED <<world, sent, listed, loss, loaded, rebuild>>

Reload ==
  /\ loss # None /\ ~dirty /\ working = "nothing" /\ generation < MaxGeneration
  /\ working' = "reloading"
  /\ UNCHANGED <<world, seen, loss, generation, loaded, rebuild, sent, card>>

ReloadAnswered ==
  /\ working = "reloading"
  /\ \/ Read /\ Anew /\ UNCHANGED dirty
     \/ working' = "nothing" /\ UNCHANGED <<generation, cache, card>>
  /\ UNCHANGED <<world, sent, listed, loss, loaded, rebuild>>

-----------------------------------------------------------------------------
\* The canvas.  It takes no input while a transaction is out (inert).

\* A node is staged under an identity of its own; a setting is changed once.
Fresh    == Edit \ (stored \cup IF sent = None THEN {} ELSE sent.draft.edits)
Editable == mounted /\ saving = "no"
Differ(t, u) == t.version # u.version \/ t.edits # u.edits \/ t.placed # u.placed \/ t.old # u.old
Staged(t) == draft' = t /\ dirty' = Differ(t, committed) /\ UNCHANGED committed

\* An edit invalidates an arrangement under way (update).
UpdateKeepingLayout(t) ==
  /\ Editable /\ Staged(t) /\ busy' = FALSE /\ UNCHANGED layout
Update(t) ==
  /\ Editable /\ Staged(t)
  /\ layout' = None /\ busy' = FALSE

\* A node is added and the tree arranged with it.
AddNode(e) ==
  /\ Editable /\ e \in Fresh \ (draft.edits \cup Setting)
  /\ Staged([draft EXCEPT !.edits = @ \cup {e}])
  /\ layout' = ArrangeStaged(draft') /\ busy' = TRUE
  /\ UNCHANGED <<world, sent, seen, host, mounted, save>>

\* A setting is changed in the inspector or a dialog.
ChangeSetting(e) ==
  /\ e \in (Fresh \cap Setting) \ draft.edits
  /\ Update([draft EXCEPT !.edits = @ \cup {e}])
  /\ UNCHANGED <<world, sent, seen, host, mounted, save>>

\* The properties shown change the size of the cards: the tree is arranged again.
ShowProperty(e) ==
  /\ Editable /\ e \in (Fresh \cap Setting) \ draft.edits
  /\ Staged([draft EXCEPT !.edits = @ \cup {e}])
  /\ layout' = ArrangeStaged(draft') /\ busy' = TRUE
  /\ UNCHANGED <<world, sent, seen, host, mounted, save>>

\* The view moved by hand is staged, and an arrangement under way not told; moved
\* to show a node, it is the committed tree's view as well and none is staged.
MoveView(e) ==
  /\ Editable /\ e \in Setting
  /\ \/ e \in Fresh \ draft.edits /\ Staged([draft EXCEPT !.edits = @ \cup {e}])
     \/ e \in draft.edits /\ Staged([draft EXCEPT !.edits = @ \ {e}])
  /\ UNCHANGED <<world, sent, seen, host, mounted, save, canvas>>

\* A branch is removed; the positions of its nodes are kept.  Or what was set is
\* set back.
RemoveBranch(e) ==
  /\ e \in draft.edits
  /\ Update([draft EXCEPT !.edits = @ \ {e}])
  /\ UNCHANGED <<world, sent, seen, host, mounted, save>>

Arrange ==
  /\ Editable /\ ~busy
  /\ layout' = ArrangeStaged(draft) /\ busy' = TRUE
  /\ UNCHANGED <<world, sent, seen, host, mounted, trees, save>>

\* The worker answers; an answer of an earlier epoch is dropped, and not shown.
Arranged ==
  /\ layout # None
  /\ draft' = [draft EXCEPT !.placed = layout.nodes]
  /\ committed' = IF layout.initial THEN [committed EXCEPT !.placed = layout.nodes] ELSE committed
  /\ dirty' = Differ(draft', committed')
  /\ layout' = None /\ busy' = FALSE
  /\ UNCHANGED <<world, sent, seen, host, mounted, save>>

\* It fails or exceeds its time.
ArrangeFails ==
  /\ layout # None
  /\ layout' = None /\ busy' = FALSE
  /\ UNCHANGED <<world, sent, seen, host, mounted, trees, save>>

Revert ==
  /\ Editable /\ dirty
  /\ Staged(committed)
  /\ layout' = IF committed.placed = {} THEN ArrangeStaged(committed) ELSE None
  /\ busy' = (layout' # None)
  /\ UNCHANGED <<world, sent, seen, host, mounted, save>>

\* A file is chosen, and read while anything may happen: the tree in it replaces
\* the draft even under a transaction.  It may be of any version of the Loss, but
\* carries the baseline's (prepareCoreImport); an old one may stage a node that was
\* created since.
Local == Edit \ (stored \cup IF sent = None \/ loss = sent.loss THEN {} ELSE sent.draft.edits)
AnotherVersion == base > 0 \/ (server[loss] # None /\ server[loss].version > base)
Import ==
  /\ mounted
  /\ \E edits \in SUBSET Edit, old \in BOOLEAN :
       LET nodes == Core \cup (edits \ Setting) IN
       \E placed \in {{}, nodes} :
         /\ IF old THEN AnotherVersion /\ edits \cap Setting = {} ELSE edits \subseteq Local
         /\ [edits |-> edits, old |-> old, late |-> saving # "no"] \in Files
         /\ Staged([version |-> base, edits |-> edits, placed |-> placed, old |-> old])
         /\ layout' = IF placed = {} THEN ArrangeStaged(draft') ELSE None
         /\ busy' = IF placed = {} THEN TRUE ELSE busy
  /\ overtaken' = (saving # "no")
  /\ UNCHANGED <<world, sent, seen, host, mounted, base, needsRefresh, saving>>

-----------------------------------------------------------------------------
\* The transaction.

Commit ==
  /\ Editable /\ dirty /\ ~busy /\ ~needsRefresh
  /\ sent = None                    \* bound: one at a time
  /\ layout' = None
  /\ saving' = "sent"
  /\ sent' = [loss |-> loss, base |-> base, draft |-> draft]
  /\ UNCHANGED <<world, seen, host, mounted, trees, base, needsRefresh, overtaken, busy>>

\* The draft as the database has it, positions saved with the Loss.
Saved(t, v) ==
  [version |-> v,
   placed  |-> {n \in Core : IF n = "rest" THEN {n} \cup (t.edits \ Setting) \subseteq t.placed
                                           ELSE n \in t.placed}]

\* lossPreconditions: the version of the baseline.
PreconditionOfCache(t) == cache[t.loss] # None /\ server[t.loss].version = cache[t.loss].version
Precondition(t)        == server[t.loss].version = t.base

\* The canvas may have been unmounted since, or the answer is lost.
CommitAccepted ==
  /\ sent # None /\ server[sent.loss] # None /\ Precondition(sent) /\ Transactions < MaxVersion
  /\ server' = [server EXCEPT ![sent.loss] = Saved(sent.draft, @.version + 1)]
  /\ stored' = stored \cup sent.draft.edits
  /\ sent' = None
  /\ \/ saving = "sent" /\ saving' = "reading" /\ needsRefresh' = TRUE /\ UNCHANGED overtaken
     \/ Idle /\ UNCHANGED needsRefresh
  /\ UNCHANGED <<seen, host, mounted, trees, base, canvas>>

\* Refused, or never arrived: what is staged stays.
CommitRefused ==
  /\ sent # None /\ sent' = None /\ Idle
  /\ UNCHANGED <<world, seen, host, mounted, trees, base, needsRefresh, canvas>>

\* The committed tree is read back and becomes draft, committed and baseline; what
\* an import put there meanwhile is dropped, an arrangement asked for it is not.
ReadBack ==
  /\ saving = "reading" /\ server[loss] # None
  /\ LET t == Opened(server[loss]) IN
       draft' = t /\ committed' = t /\ base' = t.version
  /\ dirty' = FALSE /\ needsRefresh' = FALSE /\ Idle
  /\ UNCHANGED <<world, sent, seen, host, mounted, canvas>>

\* The draft is kept for comparison and cannot be committed again.
ReadBackFails ==
  /\ saving = "reading" /\ Idle
  /\ UNCHANGED <<world, sent, seen, host, mounted, trees, base, needsRefresh, canvas>>

Next ==
  \/ \E l \in Loss : OtherCommit(l) \/ OtherDelete(l) \/ TreeFetched(l)
  \/ SoIFetched \/ Select \/ FallBack \/ Mount
  \/ Build \/ BuildAnswered \/ BuildDone \/ Reload \/ ReloadAnswered
  \/ \E e \in Edit : AddNode(e) \/ ChangeSetting(e) \/ ShowProperty(e) \/ MoveView(e)
                     \/ RemoveBranch(e)
  \/ Arrange \/ Arranged \/ ArrangeFails \/ Revert \/ Import
  \/ Commit \/ CommitAccepted \/ CommitRefused \/ ReadBack \/ ReadBackFails

Spec == Init /\ [][Next]_vars

-----------------------------------------------------------------------------
\* A transaction is accepted only on the version its draft was drawn from: what
\* another user committed meanwhile is not overwritten unseen, whatever the queries
\* have fetched since.  And a staged node is created once, although an answer can
\* be lost, a result not be read back and the draft be committed again.  Neither
\* is said of a draft imported from a file of another version: it overwrites what
\* was committed since, and creates again the nodes that were created since.
SavesOnceOverSeen ==
  [][CommitAccepted /\ ~sent.draft.old =>
       /\ server[sent.loss].version = sent.draft.version
       /\ (sent.draft.edits \cap stored) \ Setting = {}]_vars

\* Staged nodes leave the canvas only by the analyst's choice (removed,
\* reverted, replaced by an import), with the database, on a rebuild or reload
\* under way when they were staged, because the SoI has no Loss left, or, imported
\* while a transaction was out, for the tree read back; not because something else
\* is selected or fetched.
Lost == IF mounted THEN draft.edits \ IF mounted' THEN draft'.edits ELSE {} ELSE {}
EditsLeaveByChoice ==
  [][\/ Lost \subseteq stored
     \/ working # "nothing" /\ working' = "nothing"
     \/ listed' = {} /\ listed # {}
     \/ ReadBack /\ overtaken
     \/ Revert \/ Import \/ \E e \in Edit : RemoveBranch(e) \/ MoveView(e)]_vars

\* An arrangement that is applied is one of the nodes the draft has by then, unless
\* it was asked by an import while a transaction was out.
ArrangementFits == [][Arranged /\ ~layout.late => draft'.placed = Nodes(draft')]_vars
=============================================================================
