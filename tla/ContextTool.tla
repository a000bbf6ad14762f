----------------------------- MODULE ContextTool -----------------------------
(***************************************************************************)
(* The Context Tool (ContextTool.tsx): which States are valid in which     *)
(* Environment (staged and committed in batches), the Hazards of the       *)
(* selected Environment, and the allocation of Losses to Environments with *)
(* "Generate Missing".  All of it is prepared on the window's copy of the  *)
(* SoI, and one commit at a time is out.  Only a batch can be edited while *)
(* it is: the other commits are one step each.                             *)
(*                                                                         *)
(* A kind is an Asset with one of its criticalities and one of its         *)
(* assurances; a Loss is of one kind.  The goal created with a Loss and    *)
(* the names are not modelled; a State's sequence is staged like a cell.   *)
(***************************************************************************)
EXTENDS Naturals, FiniteSets, FiniteSetsExt

CONSTANTS
  ContextState,
  Env,             \* Environments: numbers, in the order listed
  Kind,
  Loss,            \* Losses there are and may be: numbers, in the order listed
  InitialAllocations,
  Hazard,          \* Hazards there are and may be
  InitialHazards,
  Contended,       \* bound: the Environments whose assignments other users change
  Absent,
  NoEnv

ASSUME ContextToolAssumption ==
  /\ Env \subseteq Nat \ {NoEnv} /\ NoEnv = 0 /\ Contended \subseteq Env /\ Loss \subseteq Nat \ {0}
  /\ IsFiniteSet(Env) /\ IsFiniteSet(Loss)
  /\ Absent \notin Loss /\ Absent \notin [kind : Kind, env : Env \cup {NoEnv}]
  /\ InitialAllocations \in [Loss -> [kind : Kind, env : Env \cup {NoEnv}] \cup {Absent}]
  /\ InitialHazards \subseteq Hazard

VARIABLES
  facts,   \* the database: assignments, kinds the Assets have, Losses, Hazards
  sheet,   \* the window's copy of it
  tab,     \* the mode shown
  toggled, \* the batch staged: for a cell whether it is to be assigned
  batch,   \* the batch sent and not answered, and whether its mode is still shown
  plan     \* the generation proposed by the dialog

contextVars == <<facts, sheet, tab, toggled, batch, plan>>

Slot    == ContextState \X Env

ContextInit ==
  /\ facts = [valid |-> {}, kinds |-> Kind, losses |-> InitialAllocations,
              hazard |-> [h \in Hazard |-> IF h \in InitialHazards THEN "apart" ELSE "absent"]]
  /\ sheet = facts /\ tab \in {"matrix", "loss"}
  /\ toggled = <<>> /\ batch = Absent /\ plan = Absent

Busy == batch # Absent
Rest == UNCHANGED <<sheet, tab, toggled, batch, plan>>

-----------------------------------------------------------------------------
\* Assignments: a cell toggled twice is not staged.

Staging(c, make) ==
  toggled' = [d \in DOMAIN toggled \cup {c} |-> IF d = c THEN make ELSE toggled[d]]
Unstaging(c) == toggled' = [d \in DOMAIN toggled \ {c} |-> toggled[d]]

ToggleSlot(c) ==
  IF c \in DOMAIN toggled THEN Unstaging(c) ELSE Staging(c, c \notin sheet.valid)

Assign(c) ==
  /\ tab = "matrix" /\ ToggleSlot(c)
  /\ UNCHANGED <<facts, sheet, tab, batch, plan>>

CancelBatch ==
  /\ tab = "matrix" /\ toggled # <<>> /\ ~Busy
  /\ toggled' = <<>> /\ UNCHANGED <<facts, sheet, tab, batch, plan>>

SendBatch ==
  /\ tab = "matrix" /\ toggled # <<>> /\ ~Busy
  /\ batch' = [ops |-> toggled, live |-> TRUE]
  /\ UNCHANGED <<facts, sheet, tab, toggled, plan>>

Makes(b) == {c \in DOMAIN b : b[c]}

\* What is assigned is not assigned again, or the whole batch is refused; what is
\* not there need not be removed.
BatchAccepted ==
  /\ Busy /\ Makes(batch.ops) \cap facts.valid = {}
  /\ facts' = [facts EXCEPT !.valid = (@ \ DOMAIN batch.ops) \cup Makes(batch.ops)]
  /\ toggled' = IF batch.live THEN <<>> ELSE toggled
  /\ batch' = Absent
  /\ UNCHANGED <<sheet, tab, plan>>

BatchRefused ==
  /\ Busy /\ Makes(batch.ops) \cap facts.valid # {}
  /\ batch' = Absent
  /\ UNCHANGED <<facts, sheet, tab, toggled, plan>>

BatchFails == Busy /\ batch' = Absent /\ UNCHANGED <<facts, sheet, tab, toggled, plan>>

\* What is staged goes with the mode it was staged in.
SwitchTab ==
  /\ plan = Absent
  /\ tab' = IF tab = "matrix" THEN "loss" ELSE "matrix"
  /\ toggled' = <<>>
  /\ batch' = IF Busy THEN [batch EXCEPT !.live = FALSE] ELSE batch
  /\ UNCHANGED <<facts, sheet, plan>>

-----------------------------------------------------------------------------
\* The Hazards of the selected Environment: one to add, one that is new (or cloned
\* from the reference catalogue), one to remove.

OfferedHazards == {h \in Hazard : sheet.hazard[h] = "apart"}

AddHazard(h) ==
  /\ tab = "matrix" /\ ~Busy /\ h \in OfferedHazards
  /\ facts' = IF facts.hazard[h] = "apart" THEN [facts EXCEPT !.hazard[h] = "associated"] ELSE facts
  /\ Rest

NewHazard(h) ==
  /\ tab = "matrix" /\ ~Busy /\ facts.hazard[h] = "absent" /\ sheet.hazard[h] = "absent"
  /\ facts' = [facts EXCEPT !.hazard[h] = "associated"]
  /\ Rest

RemoveHazard(h) ==
  /\ tab = "matrix" /\ ~Busy /\ sheet.hazard[h] = "associated"
  /\ facts' = [facts EXCEPT !.hazard[h] = "apart"]
  /\ Rest

-----------------------------------------------------------------------------
\* The allocation of Losses.

Present(f)  == {l \in Loss : f.losses[l] # Absent}
At(f, k, e) == {l \in Present(f) : f.losses[l] = [kind |-> k, env |-> e]}

\* A Loss is in one Environment at most.
Allocate(l, e) ==
  /\ tab = "loss" /\ plan = Absent /\ ~Busy /\ l \in Present(sheet) /\ sheet.losses[l].env = NoEnv
  /\ facts' = IF l \in Present(facts) /\ facts.losses[l].env = NoEnv
              THEN [facts EXCEPT !.losses[l].env = e] ELSE facts
  /\ Rest

Deallocate(l) ==
  /\ tab = "loss" /\ plan = Absent /\ ~Busy /\ l \in Present(sheet) /\ sheet.losses[l].env # NoEnv
  /\ facts' = IF l \in Present(facts) /\ facts.losses[l].env = sheet.losses[l].env
              THEN [facts EXCEPT !.losses[l].env = NoEnv] ELSE facts
  /\ Rest

\* "Generate Missing": for every kind and every Environment with a State an
\* allocation, of a Loss that has none, each taken once, or of a new Loss.
Inhabited(f)  == {e \in Env : \E s \in ContextState : <<s, e>> \in f.valid}
MissingAnew(f, k) == Inhabited(f)
Missing(f, k) == {e \in Inhabited(f) : At(f, k, e) = {}}
Rank(S, x)    == Cardinality({y \in S : y < x})

Spare(f, k, e) ==
  LET fit == {l \in At(f, k, NoEnv) : Rank(At(f, k, NoEnv), l) = Rank(Missing(f, k), e)} IN
  IF fit = {} THEN Absent ELSE CHOOSE l \in fit : TRUE

MissingIn(f) ==
  {t \in [kind : f.kinds, env : Env, loss : Loss \cup {Absent}] :
     t.env \in Missing(f, t.kind) /\ t.loss = Spare(f, t.kind, t.env)}

ComputeMissing ==
  /\ tab = "loss" /\ plan = Absent
  /\ plan' = MissingIn(sheet)
  /\ UNCHANGED <<facts, sheet, tab, toggled, batch>>

CancelPlan ==
  /\ plan # Absent /\ ~Busy /\ plan' = Absent
  /\ UNCHANGED <<facts, sheet, tab, toggled, batch>>

\* Refused, the dialog stays.  (Nothing to generate: the button is disabled.)
News    == {t \in plan : t.loss = Absent}
Numbers == [News -> Loss \ Present(facts)]
Generated(number) ==
  [facts EXCEPT !.losses = [l \in Loss |->
     IF \E t \in plan : l = t.loss \/ (t \in News /\ l = number[t])
     THEN LET t == CHOOSE t \in plan : l = t.loss \/ (t \in News /\ l = number[t])
          IN  [kind |-> t.kind, env |-> t.env]
     ELSE @[l]]]
PlanAccepted ==
  /\ \A t \in plan \ News : t.loss \in Present(facts) /\ facts.losses[t.loss].env = NoEnv
  /\ \A t, u \in plan \ News : t # u => t.loss # u.loss
ExecuteGeneration ==
  /\ plan # Absent /\ plan # {} /\ ~Busy
  /\ Cardinality(News) <= Cardinality(Loss \ Present(facts))   \* bound
  /\ IF PlanAccepted
     THEN \E number \in {n \in Numbers : \A t, u \in News : t # u => n[t] # n[u]} :
            facts' = Generated(number) /\ plan' = Absent
     ELSE UNCHANGED <<facts, plan>>
  /\ UNCHANGED <<sheet, tab, toggled, batch>>

-----------------------------------------------------------------------------
ContextRefetch ==
  /\ sheet # facts /\ sheet' = facts /\ UNCHANGED <<facts, tab, toggled, batch, plan>>

\* Other users.
TheirContextEdit ==
  /\ sheet = facts                   \* bound: one change of theirs not seen yet
  /\ \/ \E c \in ContextState \X Contended :
          facts' = [facts EXCEPT !.valid = IF c \in @ THEN @ \ {c} ELSE @ \cup {c}]
     \/ \E l \in Loss \ Present(facts), k \in Kind :
          facts' = [facts EXCEPT !.losses[l] = [kind |-> k, env |-> NoEnv]]
     \/ \E l \in Present(facts), e \in Contended :
          /\ facts.losses[l].env = NoEnv
          /\ facts' = [facts EXCEPT !.losses[l].env = e]
     \/ \E l \in Present(facts) : facts' = [facts EXCEPT !.losses[l] = Absent]
     \/ \E h \in Hazard :
          /\ facts.hazard[h] = "apart"
          /\ facts' = [facts EXCEPT !.hazard[h] = "associated"]
  /\ Rest

ContextNext ==
  \/ CancelBatch \/ SendBatch \/ BatchAccepted \/ BatchRefused \/ BatchFails \/ SwitchTab
  \/ ComputeMissing \/ CancelPlan \/ ExecuteGeneration \/ ContextRefetch \/ TheirContextEdit
  \/ \E c \in Slot : Assign(c)
  \/ \E h \in Hazard : AddHazard(h) \/ NewHazard(h) \/ RemoveHazard(h)
  \/ \E l \in Loss : Deallocate(l) \/ \E e \in Env : Allocate(l, e)

ContextSpec == ContextInit /\ [][ContextNext]_contextVars

-----------------------------------------------------------------------------
\* After the generation of what "Generate Missing" proposes on the SoI as it is,
\* every kind has a Loss in every Environment with a State: one, where it had
\* none, and those that were there before stay where they are.  No Asset is left
\* with the warning that none of its Losses is allocated.
Unready(f) == {k \in Kind : At(f, k, NoEnv) # {} /\ \A e \in Env : At(f, k, e) = {}}
GenerationCovers ==
  [][ExecuteGeneration /\ plan = MissingIn(facts) =>
       /\ \A k \in facts.kinds, e \in Env :
            IF e \in Missing(facts, k) THEN Cardinality(At(facts', k, e)) = 1
            ELSE At(facts', k, e) = At(facts, k, e)
       /\ Unready(facts') = {}]_contextVars

=============================================================================
