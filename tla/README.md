# Verification of SSTPA Tools V2

SSTPA Tools is a system-security modelling environment. A Go backend keeps a graph of Systems of Interest (SoI) in
Neo4j and changes it through one endpoint, `POST /api/commit`. A React frontend and its tools stage edits and send
them there. A Tauri launcher starts the services and signs the first user in.

This directory holds TLA+ models of that code, TLC configurations that check them on small instances, and proofs
that TLAPS checks for every instance. Line numbers refer to the commit the models were written from; "SRS" is
`src/SSTPA Tool SRS V7.md`.

| Files | What they are |
| --- | --- |
| `LossRevision`, `MCLossRevision`, `MCAtomic.cfg`, `MCCross.cfg`, `MCSharedEdits.cfg` | commits as transactions on Neo4j, and the revisions of Attack Trees |
| `AtomicRevisions` | what a client may rely on: a guarded commit is one atomic step |
| `LossRevision_proofs` | the revision protocol, the trees, and the refinement, proved |
| `TraceCommit`, `MCTraceCommit`, `MCTraceCommit.cfg`, `MCTraceSameCell.cfg` | trace relations and what is derived from them, statement by statement |
| `TraceCommit_proofs`, `TraceCells_proofs` | types and transactions; supersession, derivation and Requirements, proved |
| `LossTree`, `LossEditing`, `LossMetrics`, `LossAnalysis`, `MCLossTree` (`.cfg`) | the tree of one Loss in the Loss Tool: what is valid, its edits, paths, metrics and the dialog of rules |
| `LossTree_proofs` | edits, scenarios and counts of a tree, and the dialog, proved |
| `LossWorkspace`, `DataDrawer`, `MCStaging` (`.cfg`), `Staging_proofs` | work staged in the frontend and how it reaches the database |
| `StateTool`, `StateDiagram`, `AttackTool`, `TraceTool`, `ContextTool`, `MCTools` (`.cfg`), `MCStateTool`, `MCParallels.cfg`, `Tools_proofs` | tools that commit from a copy of the SoI |
| `Accounts`, `MCAccounts` (`.cfg`), `MCOwnerTold.cfg`, `Accounts_proofs` | accounts, sessions, ownership and the Admin Tool |
| `Mailbox`, `MCMailbox` (`.cfg`), `Mailbox_proofs` | messages, the Message Center and the badge |

## 1. Inventory

### 1.1 Backend (Go, `src/backend`)

**Commit pipeline** (`internal/api/commit.go`, `commit_helpers.go`, `graph/db.go`). A request is a list of
operations: createNode, updateNode, deleteNode, createRelationship, deleteRelationship, transferOwnership.
`handleCommit` refuses malformed ones, then runs `executeCommit` in a managed write transaction that the driver
repeats after a transient failure. The closure prepares the affected Losses, executes the operations in order,
recomputes trace-derived data, finishes the Losses and writes notifications. State: the graph; inside a transaction,
the maps `lossStates`, `affected`, `traceSoIs` and the HIDs created so far. Hard: everything read before a write is
read without a lock, two requests can do so at once, and the whole closure may run again. Correct when a commit takes
effect entirely or not at all, and never on a state it checked and another commit has changed since.

**Attack Tree revisions** (`loss_validation.go`, `loss.go`). Every Loss roots a tree of `AT_RELATES_TO` edges and
counts its revisions in `AttackTreeVersion`. `prepareLossCommit` finds the Losses a request touches, locks each by a
self-dependent SET in HID order and compares it with the client's precondition; `finishLossCommit` validates the
trees and counts up. Auto-build replaces a tree under the same lock. Correct when no draft lands on a revision its
author did not read, and a revision has one author.

**Attack Tree structure and analysis rules** (`loss_validation.go`, `loss.go`, `loss_properties.go`). `shapeOfLoss`,
`validateLossGraph`, `countLossPaths`, `enumeratePaths`, `assignTiers`, `buildLossCounterTiers` and
`reconcileFindings`: pure functions over nodes and edges, with caps on size. Correct when they agree with a plain
definition of reachability, acyclicity and path sets, and when a cap never changes an answer silently.

**Trace relationships** (`commit_helpers.go` 306-344, 605-742). HOLDS, TRANSPORTS and USES relate an entity to an
Asset in a State. A cell (entity, State, Asset) has at most one CURRENT relation; older ones stay as history. From
the CURRENT ones, every commit that moves a trace recomputes the inherited flags of entities and Connections, the
protection Requirements and their Orphan flags. Correct when supersession misses nothing and derived data matches
what it derives from.

**HIDs and relationship rules** (`assignHID`, `validateRelInTx`, `relationships.go`, `schema/hid.go`). A HID is one
more than the highest sequence number of its type in its SoI, unique by a database constraint. Cardinality, duplicate
and cycle rules are checked by reads before a relation is created. Correct when two checks at the same time cannot
each let through half of something forbidden.

**Ownership and notification** (`commit.go` 266-277, 434-488, 509-589). Updating another's node takes it over;
transferOwnership gives it away; each owner whose data changed gets one message per commit, in the same transaction.
Correct when everybody who lost data is told, owners are accounts that may own data, and a missing mailbox undoes the
commit.

**Accounts** (`admin.go`). Create, change role, suspend, reinstate, disenrol with transfer of data. Each handler
reads the target's role in one transaction and writes in another, and then revokes sessions. Correct when a
disenrolled account owns nothing, signs in nowhere and stays that way.

**Sessions and bootstrap** (`auth.go`, `router.go`). A table of tokens under a mutex, with an idle timeout; the
identity in an entry is the one of login time. Bootstrap creates the RootAdmin if there is none. Correct when a
session ends with the rights it was made from, and there is one RootAdmin.

**Messages** (`messages.go`). Sending, reading, deleting and purging, and an unread count kept on the mailbox beside
the messages it counts, which nothing reads. Correct when a message is marked read or deleted for those only who were
shown it.

**Other writers**: reference cloning (`reference.go`), child-System creation (`system_creation.go`), commits staged
from model text (`model.go`, `internal/model`). **Readers**: `nodes.go`, `hierarchy.go`, `search.go`, `product.go`,
`requirements.go`, `help.go`; they keep no state.

### 1.2 Frontend (TypeScript, `src/frontend`)

**Data Drawer** (`state/stores.ts`, `components/DataDrawer.tsx`). One drawer, one set of staged edits, a deferred
request behind a discard confirmation, one commit in flight. Hard: the answer of a commit arrives when the drawer may
hold other edits or another node. Correct when an edit is committed or visibly discarded, and goes to the node it was
made on.

**Loss Tool** (`tools/loss/LossTool.tsx`, `LossCanvas.tsx`, `coreAdapter.ts`). A host window selects a Loss, freezes
the tree it was opened with, rebuilds and reloads it; a canvas holds a draft, arranges it in a worker, commits and
reverts it. Hard: answers of five kinds arrive in any order, and a commit may have succeeded without its answer.
Correct when nothing is saved over what was not seen, created twice, or dropped unasked.

**Loss Tool domain** (`tools/loss/domain`). Tree rules, edits, path counts, and metrics rolled up over AND, OR and
SAND from scenarios. Correct when what the canvas offers is valid, and counts, scenarios and numbers agree with a
definition over paths and plans.

**State, Attack, Trace and Context Tools** (`tools/state`, `attack`, `trace`, `context`). Each shows a copy of the
SoI that is fetched again after its own commits or when the query goes stale, and prepares commits on that copy.
Hard: the copy may be older than what the commit is applied to, and staged edits may be older than the copy. Correct
when a commit does what was shown and leaves the rest alone.

**Admin Tool, login** (`tools/admin/AdminTool.tsx`, `components/LoginScreen.tsx`). A roster fetched some time ago, and
a disenrolment prepared in steps. Correct when what a window enables is accepted unless the accounts changed.

**Message Center and badge** (`tools/messagecenter`, `components/BrandingPanel.tsx`). Copies of the lists, of the
message opened and of the unread count. Correct when the badge catches up and what is opened is read.

**Other tools** (Flow, Controls, Assets, Connection, Requirements, Use Case, Goal Keeper, Navigator, Reports,
Reference): views that commit one operation at a time or open the Data Drawer.

### 1.3 Launcher, deployment, reference data

**Startup launcher** (`src/startup`): start services, poll health, first run, login, watch, stop. **Sustainment
pipeline**, **installer**, **deployment scripts**, **example data**: sequential batch programs and shell scripts.

### 1.4 How the parts meet

Every client write is a commit, an auto-build, or one of the account and message handlers. They meet in the database
and nowhere else; the only other shared state is the session table. So concurrency inside the Backend is what Neo4j
allows between managed transactions (section 3.1). Between windows it is what copies allow: a window prepares a
request on what it fetched some time ago, and its answer may come late, or not at all.

## 2. Plan

What exists is described in section 3. What is left, in the order of what it would say about the system:

| Module | Question | Abstract specification, theorems |
| --- | --- | --- |
| `RelationshipRules` | write skew of cycle, duplicate and cardinality rules | the rules as atomic checks; composes with `LossRevision` |
| `LossGraph` | the Backend's tree shape, path counting and tiers | agreement with `LossTree` and reference definitions |
| `ModelText`, reference cloning, System creation | commits prepared from text and catalogues | a staged document does what it says |
| `Launcher` | start, first run, watch, stop | always ends in a usable or a reported state |
| Controls and Flow Tools | documents saved whole from a window's copy | no edit is lost unseen |

## 3. The models

A table of a section lists the actions and the code each stands for. Properties are described with the run that
checks them in section 4. Some definitions have a neighbour marked as a slip, or named for one: it is what a plausible
mistake in that code would be, and each property is violated when one of them takes the place of its neighbour.
Variables marked history record what the code does not keep (who wrote last, whose edit was made for whom, which
steps overlapped); they are there for the properties, and no action waits for them.

### 3.1 Neo4j, the external part

`LossRevision` and `TraceCommit` model the database by what the code relies on:

- a read sees committed data and the transaction's own writes, and takes no lock (read committed);
- a write locks each item it touches until the transaction ends: a SET the node or relation, a CREATE of a relation
  both its ends, a DETACH DELETE the node, its relations and what they join;
- locks are taken one at a time, in no particular order within a statement, and a lock held by another is waited for;
- HID is unique (`EnsureIndexes`, `graph/db.go` 91-124): creating a node under one that exists fails;
- a transaction in a cycle of waits can be rolled back, and the driver runs the closure again, a bounded number of
  times;
- a rolled-back transaction leaves nothing, a committed one becomes visible at once.

A statement that names a node deleted since it was fetched changes nothing and succeeds, or fails and is
rolled back: both are behaviours of the models. A statement reads all it needs in one step. That is coarser
than the database, which reads while it iterates; it can hide an interleaving inside one read, never one between two
statements, which is where the code's own checks are. `Accounts` and `Mailbox` take a handler statement by statement
and hold a written node until the transaction ends (`Held`). The models of the tools take a commit as one
step: what two commits do to each other is in the modules above.

### 3.2 LossRevision and AtomicRevisions: commits and the trees they change

Committed state: `live` (nodes that exist), `edges` (AT_RELATES_TO of all trees), `version` (AttackTreeVersion),
`uuid` (who created the Loss behind a HID), `writer` (who last changed a node). Per request: `pc`, `req`, `draft`
(revisions its client read), `work` (the closure's variables and uncommitted writes), `tries`.

| Action | Code |
| --- | --- |
| `Load` | the client fetches the trees it will edit |
| `Begin` | `prepareLossCommit` 214-275: explicit Losses, dependents of the named nodes, no lock yet |
| `LockLoss`, `PreconditionMissing`, `RevisionConflict`, `LossGone` | the loop 276-292 over sorted HIDs and `lockLossRevision` 191-212 |
| `FetchOp`, `AssignHID`, `RejectOp` | what an operation reads: `fetchNodeForUpdate`, `prepareAttackTreeRel`, `assignHID` |
| `Acquire`, `WriteOp`, `DuplicateHID` | its write: locks one by one, then the effect or the constraint violation |
| `Refuse` | checks on data left out: schema (commit.go 188-319, between statements or by one that has its locks), mailboxes and tree structure (`finishLossCommit` 393-416); never while a statement waits for a lock |
| `Commit` | `finishLossCommit` 375-450 and the end of the transaction |
| `DeadlockVictim` | rollback and retry by the driver |

Operations are `update` (updateNode, transferOwnership, relations of another type), `delete`, `link` and `unlink`
(AT_RELATES_TO), `create` and `createTree` (createNode of a Loss, without or with an initial tree), `build` and
`rebuild` (auto-build that adds to or replaces a tree). Bounds: `MaxLoss` Loss HIDs; one Loss created per request,
from which it unlinks nothing; `MaxTries` retries.

`AtomicRevisions` has two kinds of step: a client reads, and later its request changes trees in one guarded step or
ends without effect. The mapping (`Atomic` in `LossRevision`) takes everything between a request's first read and its
end as one abstract step. A Loss deleted and created again under its HID starts its revisions anew; that is the
abstract step's `again`.

### 3.3 TraceCommit: trace relations and derived data

`db` maps each item (node, trace relation, Requirement) to what it holds, or `Absent`. A relation is identified by its
cell and the commit that created it; its value is status, version and type (HOLDS, TRANSPORTS, USES). Properties are
sets, so a union of sets is the OR-union of flags and the set 1..n is the level n. One assurance property stands for
the seven that generate Requirements by the same statement.

| Action | Code |
| --- | --- |
| `Supersede` | `prepareTraceRel` 315-344, and the clearing of a cell in deleteRelationship 397-409 |
| `Create` | the CREATE of createRelationship 372-377, with the version read before |
| `SetFlags` | updateNode 230-282 on an entity or an Asset |
| `Invalidate`, `Delete` | deleteNode 284-317; a Requirement can be deleted too and moves no trace |
| `Inherit`, `Connect`, `Require`, `Orphan` | the four statements of `recomputeTraceDerivationsForKey` |
| `Acquire`, `Write` | locks one by one, then the statement's writes join the transaction's own |
| `Commit`, `Reject`, `Retry` | the end of the transaction |

`OpsOf` appends the recomputation when an operation marks the SoI (`markTrace`). History: `seen`, which commits had
ended when one began, and `basis`, which had when it read for its recomputation first (`Prepare`). Trace commits meet Attack Tree locks only when their nodes are in a
tree; those locks are `LossRevision`'s, and leaving them out leaves more interleavings. Bounds: one SoI, `MaxReq`
Requirements, a request traces a cell at most once. No entity or Asset is created while commits run, and no State is
the source of a trace (such relations derive nothing).

### 3.4 LossTree, LossMetrics, LossEditing, LossAnalysis: one tree in the Loss Tool

`LossTree` and `LossMetrics` are the pure code of `tools/loss/domain`: a tree is a set of nodes and a function from
pairs of nodes to what their relationship says. `Valid` is `validateGraph` (`Proper` without its limits), `Prune`, `Attach`, `StageRelationship` and
`Normalize` are the edits, `Routes`, `Count` and `RvCount` the paths and the two counts, `Evaluate` the scenarios as
sets of leaves; `EvaluateMetrics` is the evaluator with numbers, event kinds, budgets and withheld results. What the
code computes with loops or memoised recursion is a recursive function over `Nat` or the nodes.

`LossEditing` (`draft`, `collapsed`) edits the tree on the canvas: `AddNode`, `Link`, `Stage` (the inspector of a
relationship), `RemoveBranch`, `ToggleFold`, `RollDownAll`, `Focus`, `Revert`. An edit that `validateGraph` rejects
changes nothing (`update`, LossCanvas 302-329). `LossAnalysis` (`tree`, `random`, `inputs`, `rules`, `profile`,
`form`) edits numbers and rules: `StageLeaf`, `SetEventKind`, `SetGate`, `SetTailor`, `SetBlock`, and the dialog of the
root's rules, a form staged as a whole: `OpenRules`, `Rename`, `ChangeRule`, `DeleteRow`, `CopyRow`, `AddRow`,
`CancelRules`, `StageRules` (2016-2066), where `Migrate` renames the inputs of every leaf.

Bounds: the tree's nodes, depth and width are the code's own `LIMITS`, made small; `MaxMarks` relationships marked or
branches rolled up; `Tasks` says what an analyst works on. A fraction is counted in `Unit` parts, and a product of
several is rounded down once. Left out: the cap on listed paths, the second limit of the evaluator (100000 combinations
in all), thresholds, detriments, factors of one, wording; what is shown about budgets is of analyses that stay below
that second limit.

What the numbers are compared with is in `LossAnalysis`, and says nothing of sequences, budgets or order: a plan picks
one open alternative wherever there is a choice and `Numbers` is what everything it needs comes to; `Ways` counts the
scenarios there could be; `Happens` says whether a set of leaves makes a node happen.

### 3.5 LossWorkspace: staged work of the Loss Tool

A tree is the version it was read at, the nodes staged on top and the nodes that have a position. `server`, `stored`
are the database; `cache`, `listed` the queries; `loss`, `loaded`, `working`, `rebuild`, `dirty`, `mounted` the host;
`draft`, `committed`, `base`, `saving`, `sent`, `layout`, `busy`, `needsRefresh` the canvas.

| Action | Code |
| --- | --- |
| `TreeFetched`, `SoIFetched`, `Select`, `FallBack`, `Mount` | LossTool 18-64: queries, the selection, the frozen baseline |
| `Build`, `BuildAnswered`, `BuildDone`, `Reload`, `ReloadAnswered` | LossTool 31-40 |
| `AddNode`, `ChangeSetting`, `ShowProperty`, `MoveView`, `RemoveBranch` | LossCanvas: edits through `update`, or staged beside it |
| `Arrange`, `Arranged`, `ArrangeFails` | the worker's arrangement and its epoch, LossCanvas 330-370 |
| `Revert`, `Import`, `Commit` | LossCanvas 447-470, 812-845 |
| `CommitAccepted`, `CommitRefused`, `ReadBack`, `ReadBackFails` | LossTool 82-100 with the precondition of `coreAdapter.ts` 199 |
| `OtherCommit`, `OtherDelete` | external: what `LossRevision` lets others do |

A file may be imported at any time while the canvas is there, under a transaction too (`Import`): `prepareCoreImport`
checks that it is of this Loss and takes its unknown nodes for new ones, and the canvas gives it the version of its
baseline, whatever the file's was. So the draft remembers whether its file was of another version (`old`), and such a
file may stage a node that has been created since. Bounds: `MaxVersion` transactions, `MaxGeneration` rebuilds and
reloads, one transaction of the canvas at a time; `Files` is what a file may stage (in the
run, the node, and an old file is not imported under a transaction).

### 3.6 DataDrawer: one drawer for every edit

`open`, `request`, `pending`, `staged`, `drawerDirty` are the store's; `confirming`, `adding`, `flight` the
component's; `value` says whose value a property has in the database. `AskToEdit`, `AskToAdd`, `AskToCreate` go
through `requestOpenDrawer` and may be deferred (`ConfirmPendingOpen`, `CancelPendingOpen`); `OpenUnasked` is the
tools that call `openDrawer` directly. `StageProperty`, `StageRelationship`, `Undo`, `Close`; `AskCommit`, `Confirm`,
`CancelCommit`, `BeginAdd`; `Accepted` and `Refused` are the answer, which finds the drawer as it is by then.
`Unanswered` is a commit whose answer is lost: it is written, and the drawer takes it for refused.

### 3.7 StateTool, StateDiagram, AttackTool, TraceTool, ContextTool

Each has the database, the window's copy of it, what the window stages, a refetch and the edits of others.

- `StateTool`: the transitions between one ordered pair of States. The Backend deletes all of them at once, so
  `SaveTransition` and `RemoveTransition` delete and recreate the others (`recreateOps` 1545-1586); up to `MaxOut`
  commits are out, answered by `StateExecute`, `StateUnanswered`, `StateRefuse` or `StateFail`. Links of a State and
  the New Transition dialog are there too.
- `StateDiagram`: what is shown (`SetMode`, `ToggleFilter`, `Choose`, the focus) and where (`Drag`, `SaveLayout`,
  `Redrawn`); `Placed` (799-828) finds places for what the saved arrangement has none for. Outside the diagram mode any
  selection draws the canvas anew (`Redraw`), and drops what was moved and not saved.
- `AttackTool`: attaching, parents, associations, clones and levels, with the cycle check of `validateRelInTx`
  (`AcyclicAbove`, `Accepts`) and the client's own (`WouldSelfParent`, `AttachCandidates`).
- `TraceTool`: the matrix of an Asset; `CycleCell` and `SetCell` stage, `CommitTrace` sends what `commitPlan` computes
  (352-364) and the Backend executes it as `TraceCommit` says for one commit at a time; findings and their
  acknowledgment.
- `ContextTool`: assignments staged in batches (`Assign`, `SendBatch`, `BatchAccepted`, `BatchRefused`, `BatchFails`),
  Hazards, allocation of Losses, and `ComputeMissing` / `ExecuteGeneration` (1288-1395), which numbers the Losses it
  creates as `assignHID` does.

### 3.8 Accounts

`account`, `owner` are the database, `session` the Backend's table, `signed`, `roster`, `wizard` the window. A window
has one request out (`job`), which the Backend takes in steps; `Serve` makes the next step of any: `ReadLogin` and
`CreateSession` (auth.go 148-190), `ReadTarget`, `Apply` or `Suspend` and `RevokeUser` (admin.go 244-404),
`CheckDestination`, `FindNodes`, `MoveNodes` and `Close` (416-492: the owners are read before the nodes are locked),
`CreateUser`, and of a commit `ReadNode` and `WriteNode`
(commit.go 255-281, 509-570), the take-over of a node. `Expire` and `Restart` end sessions. `Enabled` is what the
window's buttons allow. History: `late` (sessions begun) and `strays` (nodes given) while an account closed.
Bound: `MaxChange` changes of accounts.

### 3.9 Mailbox

`message` is the database; a window has copies of a list, of the message opened and of the unread count, the set of
those that are `stale`, and its requests `out`. `Fetch` reads one copy, `Open`, `ShowBox`, `CloseDetail`, `MarkOpened`,
`Delete`, `Reply`, `Compose` are the window; `Serves` runs the handlers, of which `MarkRead` and `Hide` (messages.go
216-285) write one message of the user's; `Answers` and `Failed` are what comes back. `Notify`, `Purge`, `PurgeMailbox`
are commits and the Admin Tool. History: `loaded`, who was shown the content of which message. Bounds: `MaxMessage`
messages; one request of a window at a time. Left out: the count stored with a mailbox. The Backend writes it in several
places and reads it in none; the badge is the number of messages that `handleUnreadCount` counts. Section 4 says where
it goes wrong.

## 4. What the runs show

| Run (configuration) | Instance | Shows |
| --- | --- | --- |
| `commits` (`MCAtomic`) | 3 requests of 15 kinds on two trees that share nodes | what a guarded commit relies on still holds when it takes effect; one author per revision; what is accepted is done at every node that was there throughout (a statement that names a node gone since does nothing, and the request is accepted all the same); transactions in the locking phase never wait in a cycle; a tree changes under an unchanged revision only if that revision moved since the lookup; the protocol implements `AtomicRevisions` |
| `cross` (`MCCross`) | 3 requests that write two nodes in opposite orders | every request is answered, through deadlock, rollback and retry; no step that is free to refuse it is needed |
| `trace` (`MCTraceCommit`) | 3 commits on the matrix, or on the nodes of a matrix already traced | relations that are CURRENT together come from overlapping commits; versions grow from commit to later commit; no Requirement twice; a deleted State ends the relations that were there; a commit that moves a trace, and beside which no other lands while it recomputes, leaves exactly the flags, Connections, Requirements and Orphan flags its traces call for, but for two: a Connection that lost its last traced Interface keeps its flags, and an Orphan flag once set stays |
| `loss_tree` (`MCLossTree`) | every tree of 7 nodes an analyst can build; numbers, event kinds, operators and marks on a small fork; the rules dialog with two metrics of one's own | what is offered is valid; a removed branch leaves what is shared; counts, scenarios, risks, probabilities and budgets agree with reference definitions over paths and plans; values follow their metrics, unless an id is used again in the same dialog |
| `staging` (`MCStaging`) | 2 Losses, a node and a setting to stage, others' commits; a drawer with a node and one to be created | but for drafts imported from a file of another version, nothing is saved over what was not seen or created twice; nothing is written to another node or dropped unasked; a late arrangement is of the nodes there are |
| `tools` (`MCTools`) | each tool on two or three nodes and a copy of them | parallel transitions survive an edit; the hierarchy of Attacks stays a tree; no two blocks in one place; a matrix commit does what was shown; "Generate Missing" leaves nothing missing |
| `users` (`MCAccounts`) | the RootAdmin at one window, an admin or an owner at another, and a user that may be new; or one message and two windows | no session of a closed account; no node of a disenrolled one but what is given to it while it is being closed; an enabled request is accepted, if the accounts are as shown; no message is marked read or deleted for a user who was not shown it |
| `mailbox` (`MCMailbox`) | one window, two messages, lost answers, purge | the badge catches up, the message opened is read |
| `shared_edits`, `trace_same_cell`, `parallels`, `owner_told` | as above | counterexamples, see "Documents against code" |

`commits` has drafts of one or both trees, edits and deletions of what they share, Losses deleted and created under a
HID that is free again, edges at what is being deleted, and auto-build. Three requests let one be overtaken twice;
every race known in this code is between two.

**Several components in one run.** `staging`, `tools`, `users` and `loss_tree` hold components that share no state. A
variable of the MC module (`used`, `window`, `part`, `editing`) says which one moves; the others stay as they are
opened. So the states are the union of those of the parts, and each property is checked on its own part.

**Bounds.** The interesting cases happen: each race described below is found in these instances, and every property
is violated by a small change of one definition that code could have (a comparison dropped, an order lost, a lookup
skipped). They are named where they are declared, and in section 3.

**Fairness.** `cross` assumes `WF_vars(Proceed(t))`: the server and the database keep working on each request they
started. That is what a goroutine per request and a lock manager with deadlock detection give; whether a client ever
sends is not assumed, nor that a check ever refuses a request (`Refuse` is no part of `Proceed`). So the answer comes
from the commit, from a guard that fails or from the last retry: without `DeadlockVictim` the run deadlocks, and when a
rollback keeps its locks, or a victim is retried for ever, `EveryRequestAnswered` is violated. `mailbox` assumes that a handler that runs goes on and its answer arrives or fails, that the
window asks to mark what it opened (an effect of React), that a stale copy is fetched again (react-query's
invalidation), and that the badge is fetched every 15 seconds (`refetchInterval`). What a user does is never fair.

**Deadlock and symmetry.** `commits`, `cross` and `trace` check for deadlock: `Finished`, when every request is
answered, is the only step left at the end. Elsewhere an end is no error: the user stops, or a bound (`MaxVersion`,
`MaxChange`, `MaxOut`, `MaxMessage`, the limits of a tree) is reached. Symmetry is over transactions, which differ
only in their requests, and over the two Losses of `staging`; never in a run with liveness.

### Documents against code

Runs that end in a counterexample, each for one sentence of the repository:

| Run | Sentence | What the code does |
| --- | --- | --- |
| `shared_edits` | "Shared Core edits invalidate all dependent revisions." (`loss_validation.go:214`) | dependents are read before any lock; a node put into a tree in between is edited and the tree keeps its revision |
| `trace_same_cell` | "only one CURRENT, enforced by supersession in prepareTraceRel" (`relationships.go:170`) | two overlapping commits both find nothing to supersede |
| `parallels` | "every edit/removal of one transition stages a delete followed by the recreation of every surviving parallel transition in the same commit" (`StateTool.tsx:13`) | `relAllowsMultiplicity` lets one be created, so recreating two is always refused |
| `owner_told` | "Ownership change SHALL itself generate a notification to the prior Owner" (SRS 4037) | the owner is read before the node is locked: of two commits the second replaces an owner who is never told |

Met while modelling, plain from the code or from a model, and not given a run:

- *Commits.* After a Loss is deleted the deeper edges of its tree still name it, and commits on their nodes fail
  (`commit.go:312`; "other production tools stay usable", `loss_validation.go:203`). A draft of a deleted Loss passes
  the guard of another that was given its HID (`commit_helpers.go:102`; "Stale commit cannot overwrite newer Core",
  `docs/VERIFICATION.md:57`).
- *Traces.* Inherited flags are collected before the entities are locked, so they can overwrite those of the commit
  that held the lock (`commit_helpers.go:643`; "SHALL be computed as the logical OR-union", SRS 850). Orphan is never
  reset when traced again (SRS 890). Flags edited on an entity that inherits, or on an Asset that others inherit from,
  are not recomputed until a trace moves (`commit.go:278`; SRS 873). A Connection whose last traced Interface is
  cleared keeps its flags (`commit_helpers.go` 662-666; SRS 870). DETACH DELETE drops the SUPERSEDED and INVALIDATED
  relations SRS 843 retains (`commit.go` 312). `prepareTraceRel` does not check that TraceStateHID names a State (SRS
  837).
- *Accounts.* The window reserves every change of an admin's account to the RootAdmin and says that the Backend does
  (`AdminTool.tsx` 832-843); the Backend reserves suspension and disenrolment only (`admin.go:263`). A reinstatement permitted before a disenrolment
  reopens the account after it (`admin.go:283`). A node given to an account while it is being closed, by a commit of its
  user or by another disenrolment, stays with the closed account (`admin.go` 439-442; the exception of
  `ClosedOwnNothing`). Role changes and password resets leave sessions as they are.
- *Messages.* A late answer to a delete or a reply closes whatever dialog is open by then
  (`MessageCenterTool.tsx:343`). The count stored with a mailbox goes wrong: deleting an unread message leaves it counted
  (`messages.go` 260-266; "Unread count SHALL update after read and delete actions", SRS 14417), and two windows
  that mark one message at once count it down twice (`messages.go` 219-225). Nothing reads that count. A reply to the
  welcome message is always refused.
- *Drawer.* The answer of a commit drops everything staged by then (`DataDrawer.tsx:150`). An answer that is lost
  leaves the edits staged; committing them again creates a node twice. Loss, Controls and Connection Tools open the
  drawer without asking (`stores.ts:72`, `LossCanvas.tsx:1329`).
- *Loss Tool.* Removing a branch can be refused although it only removes: what it shared with another moves nearer to
  the root and can make one depth wider than `LIMITS` (`graph.ts` 76-97, `LossCanvas.tsx` 1355-1364). A State that came
  tailored out and under AND cannot be tailored in with that operator. An SoI fetched without Losses unmounts the canvas and its staged work. An import during an arrangement
  leaves the busy mark on. A file is
  imported as of the version of the baseline, whatever version it was exported at (`LossCanvas.tsx` 818-843): committed, it
  passes the guard, overwrites what others committed since, and creates again the nodes of its draft that were created
  since (`coreAdapter.ts` 122-139). An import that ends under a transaction is lost when the tree is read back, and the
  arrangement it asked for is then applied to that tree. In the rules dialog a metric
  renamed to the id of one deleted or renamed in the same dialog takes over its values (`LossCanvas.tsx` 2027-2050).
- *Metrics.* A blocked random event is reported incomplete (`metrics.ts:973`; `docs/LOSS-METRIC-METHOD.md:250`). A
  recurring profile withholds a random leaf that has no AttackTime (`metrics.ts:1063`; the same, 242).
- *Tools.* A commit of a transition that others removed says "committed" and writes nothing. A layout saved under a
  filter drops the places of what is hidden. Two Attacks attached from an old copy give a third two parents.
  "Generate Missing" run again before the copy is fetched creates the Losses twice. Edits staged while a batch is out
  are dropped with it. A clear of a mark
  staged before a refetch names the type of then; if it changed, as if the cell is empty already, the Backend changes
  nothing and answers that it is committed (`commit.go` 402-409).

## 5. What is proved

Each theorem is of the form `Spec => []Inv` or `Spec => [][A]_vars`, or a step lemma of a refinement, for every value
of the constants that satisfies the module's ASSUME: how many requests, nodes, Losses, windows, users or metrics there
are does not matter. The assumptions are typing of the constants and what an instance must be to be a state of the
program; TLC evaluates them on every run.

| Module | Theorem | States |
| --- | --- | --- |
| `LossRevision_proofs` | `ProtocolSafe`, `TypeCorrect`, `OneAuthor`, `GuardedCommit` | the invariant of the protocol; its types; a revision has one author; a commit's precondition holds at its last step |
| | `TreesSafe`, `GuardsDeadlockFree`, `UnseenMoved`, `Refinement` | what an open transaction knows of the trees; no cycle of waits among locking phases; what a commit changes unseen had moved; the protocol implements `AtomicRevisions` |
| `TraceCommit_proofs` | `TransactionsSafe`, `TypesKept` | transactions hold what they wrote and see it; types |
| `TraceCells_proofs` | `CellsSafe`, `CurrentUnlessOverlap`, `VersionsGrow`, `DeletionInvalidates`, `UndisturbedDerives`, `OneRequirementEach` | supersession up to overlap, versions, deletion, derivation up to the two exceptions of section 4, Requirements |
| `LossTree_proofs` | `DraftSafe`, `OffersAreValid`, `SharedRemain`, `ScenariosAreSuccesses`, `CountsAreExact` | the draft is valid and what is offered is too; removal keeps what is shared; scenarios are ways for the Loss to happen; the counts are those of the paths |
| | `AnalysisSafe`, `ValuesFollowMetrics` | values of leaves are of metrics there are and follow them through a dialog that gives no id of another metric anew |
| | `NumbersSafe`, `WorstPlanShown`, `BudgetExact` | the numbers the analysis rests on; the risk shown is that of the worst plan; the analysis is complete exactly within the budget |
| `Staging_proofs` | `DrawerTyped`, `EditsForTheirRequest`, `OthersKept`, `GivenUpAsAsked`, `WorkspaceSafe`, `SavedOnceOverSeen`, `LeaveByChoice`, `ArrangedFits` | the drawer's and the Loss Tool's promises about staged work |
| `Tools_proofs` | `CommittedAsShown`, `HierarchyStaysTree`, `PlacedInOnePlace`, `OthersStay`, `MissingIsGenerated` | each tool's promise about its commits |
| `Accounts_proofs` | `AccountsSafe`, `NoSessionOfClosed`, `NothingLeftBehind`, `EnabledRequests` | accounts, sessions and ownership |
| `Mailbox_proofs` | `ReadWasShown` | what is read or deleted was shown to its user |

**Commits.** The properties are about the moment a transaction commits, so the invariant has to say what an open
transaction knows. `ProtocolInv` does: it locks before it writes and holds what it locked (`LockingFirst`,
`HoldsLocks`), it locked every Loss it has to (`NothingSkipped`), and hence the revisions it compared and the ones it
counts up from are still the committed ones (`GuardsCurrent`, `BaseCurrent`); a revision that is not yet committed has
no author yet (`AbsentIsZero`, `AuthorsPast`, `BornOnce`, `PendingResolved`). There is one lemma per action; `Bystander`
says that a step of one transaction leaves the clauses of another true, `AbortInv` and `CommitInv` that a rollback and
a commit do. `TreesInv` adds that what was written is locked (`WritesHeld`), that nothing hangs from a node that is
gone (`GoneAreBare`), that locks of the first phase are taken in HID order (`LocksInOrder`) and that the lookup of
dependents was complete when it was made (`DependentsFound`). Freedom from deadlock follows from the order: along a
cycle of waits the HIDs waited for would grow for ever. The refinement maps everything between a request's first read
and its end to one step of `AtomicRevisions` and the rest to stuttering.

**Traces.** `TransactionInv` is the same idea for `TraceCommit`: uncommitted writes are locked, and the transaction's
view is the database with them on top. `CellsInv` joins the properties with `Clean(t)`, which says of a transaction
nothing else lands on that the relation it is about to create will be the only CURRENT one, of the highest version.
Derivation is proved over the statements of the recomputation: as long as the commits that have ended are those that had
when it first read (`basis`, `BasisSafe`), the committed state is the one the transaction saw, and each of the four
statements establishes its part and keeps the parts before it (`DerivationInv`). Of a commit that another overtakes
meanwhile the theorem says nothing, and section 4 says what goes wrong then; Orphan flags and Connections without a
traced Interface are stated as the code leaves them, not as the SRS wants them. For Requirements,
a recomputation writes the flags of every entity of the SoI first, so that from there on it holds them all, and a
Requirement is made only by a holder of its entity (`RequirementInv`).

**Trees.** What the tool computes by recursion or loops is a recursive function here, of the form CHOOSE f : f = [...].
So the first lemmas are that such a function exists and is unique wherever a rank decreases from an argument to the
ones it needs (`Ascent`, `Recursion`, `Determined`). On them rest what is reached in as many steps as there are nodes,
which is the least closed set (`LayersOf`, `ReachedWithin`, `ReachedClosed`), and the levels and heights of an acyclic
tree (`Levels`, `Heights`, and back, `AcyclicByLevels`). `DraftInv` says that the draft is of nodes there are, well typed
and `Valid`; it is inductive because each edit is refused otherwise, once one knows that each edit is well typed
(`AttachDrawn`, `LeftDrawn`, `Restating`). That edits offered are *not* refused is `OffersAreValid`: a tree that is proper
but for the sequences becomes proper when it is numbered, because `Before` orders a group strictly (`InLine`) and so
numbers it without a gap (`Numbered`, `NormalIsProper`); removing and restating keep the rest (`LeftUnnumbered`,
`RestatedUnnumbered`). It has the two exceptions of section 4, for which it is false. Scenarios go by the height of a
node: each scenario of a result makes its node happen, a complete result without one means that the node cannot, and is
blocked somewhere below (`Successes`, `NoScenarioBlocked`). The counts go the same way, over the routes from a node: those through
different children differ, so their numbers add up (`PartsAddUp`, `CountsAreRoutes`, `RvAreRoutes`). For the dialog,
`AnalysisInv` keeps the ids of rows, rules and values together; then `Migrate` finds each value under the id it had.

**Numbers.** `NumbersInv` adds to `AnalysisInv` what an evaluation may assume: the tree is valid, inputs and defaults are
numbers or missing, and the metrics that came with the tool are among the rules, which the dialog keeps because it
keeps a row for each (`KeepsBuiltIn`). Under it `Metrics` has one value (`MetricsAre`). The evaluator goes through
sequences, in the order of the relationships and cut off at the budget; the first step is to do without them. Branches
are numbered one by one (`KidsInOrder`), sums, products and `Aggregate` come to the same in any order (`SumInOrder`,
`ProductInOrder`, `AggregateInOrder`), the picks that `Every` builds branch by branch are one scenario of each, and
all of them if the product of their numbers is within the budget (`PicksAre`). So a node within its budget has exactly the
scenarios `Made` of those of its branches, and as many as `SizeAt` says (`ActIs`, `RawIs`, `NodeIs`).

`BudgetExact` follows by the height of a node (`AllExact`): where no node has two parents the branches of a node have no
leaf in common (`BranchesApart`), so what is joined is never withheld for a shared leaf, and the only thing that can
make the analysis incomplete is a count above the budget. It is needed in both directions: a root that is complete has
no node above the budget on any branch that is analysed.

`WorstPlanShown` compares two sets of numbers, those of the scenarios of a complete root and those plans come to. That a
plan which succeeds comes to the numbers of some scenario goes by height (`PlansAreShown`). The other way is harder,
because trees share nodes: the plans that carry out the scenarios of two branches may disagree at a choice both need.
They do not, and this is why a shared leaf must make a result incomplete: a choice below two branches
that must both succeed leads to leaves that scenarios of both have, and one of the joint scenarios would not be
complete (`ScopesApart`). So each plan keeps to the choices of its own `Scope`, whatever is picked elsewhere
makes no difference to it (`Realises`), and the plans of all branches together are one plan (`EveryRealised`). The risk
of a scenario of adversaries is a number that depends on its values only (`RiskNat`).

**Staged work.** The drawer's invariant says that what is staged was made for the request shown (`EditsOfRequest`) and
that a dirty drawer says so (`StagedIsDirty`). For the Loss Tool, nobody has read a version ahead of the database
(`Behind`), the draft was drawn from its baseline (`Drawn`), a canvas that waits is as it was sent (`Waiting`), a draft
the Backend would accept stages no node that is stored, or was imported from a file of another version (`Once`), and an arrangement under way is of the draft's nodes
(`Fits`).

**Tools.** The State and Trace Tools' commits are compared with what their copy showed, and the invariants are about
that copy and the commits on their way. `MissingIsGenerated` is about numbers: the Losses that are proposed have ranks in a
finite set, different proposals have different ranks, so each gets a HID of its own above all that exist and the Backend
accepts the commit.

**Accounts.** `NoSessionOfClosed` and `NothingLeftBehind` have an exception each, for what began or was given while the
account was being closed. The invariant says when an exception is owed: the handlers' reads still hold or their
history says who crossed them (`Relied`, `InOrder`), and a disenrolment that is past moving nodes has moved all of them
(`AllMoved`). `AsOffered` relates what a window asked for to the roster it was offered on.

**Messages.** A window asks to mark or delete only the message it has the content of, and what it asked stays its user's,
whatever it shows by then: so the invariant says that the detail shown was loaded and that every request out names a
message loaded by its user (`MailInv`).

## 6. Only model-checked

- *Liveness* (`EveryRequestAnswered`, `BadgeCatchesUp`, `OpenedIsRead`): the provers have no rule for fairness and
  ENABLED.
- *Probabilities* (`ProbabilityIsJoint`): a product of fractions is rounded to `Unit` parts, so the equation holds where
  the instance makes every division exact, as 8 parts and chances of one half do, and for other values of `Unit` it is
  false by what is rounded off. The code rounds too, but as floating point numbers do. Besides, the rule of the
  probability itself can be changed in the dialog, and powers, which the equation needs, have no meaning to the provers.
- *The counterexamples* of section 4 are runs of their own: a sentence that does not hold is not a theorem.

## 7. What is not modelled

- *Contents*: names, texts, formats, casts, and everything about a property that is neither a flag, a version, an owner
  nor a number some rule reads.
- *Attack Tree structure and analysis rules of the Backend*: pure functions over one tree. `LossRevision` has their
  verdict as `Refuse`. `LossGraph` is planned.
- *Relationship rules* under two commits (`commit_helpers.go` 440-520): duplicates, cycles and cardinality are read
  before the relation is created. `TraceCommit` shows what follows for one of them, `AttackTool` has the cycle check for one
  commit at a time; `RelationshipRules` is planned.
- *Reference cloning, System creation, model text, Requirements reports*: one transaction each, prepared from a catalogue or a
  document; planned where section 2 says so.
- *Transfer of ownership on demand, bootstrap, display names, email, passwords*: single statements beside what `Accounts`
  has. An ownership that moves by a take-over or a disenrolment is modelled.
- *Read endpoints, schema, start-up, telemetry*: no state, or state written once.
- *Flow, Controls, Assets, Connection, Requirements, Use Case, Goal Keeper, Navigator, Reports and Reference Tools*: views
  over the same commits; Controls and Flow, which save a document whole, are planned.
- *Launcher*: planned. *Sustainment pipeline, installer, deployment, example data*: sequential programs over files,
  without shared state.
