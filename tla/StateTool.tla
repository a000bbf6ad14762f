------------------------------ MODULE StateTool ------------------------------
(***************************************************************************)
(* The State Tool's transitions and links (StateTool.tsx): what one window *)
(* shows is its copy of the SoI, read again after its own commits and      *)
(* whenever the query goes stale, and what it commits is computed from     *)
(* that copy.  The transitions between one ordered pair of States are      *)
(* modelled: the Backend deletes all of them at once, so to edit or remove *)
(* one the panel deletes and recreates them all.  It refuses to create a   *)
(* second one, but looks for the first before it creates: two commits at a *)
(* time may leave parallel transitions.                                    *)
(*                                                                         *)
(* A transition is a name and its properties, as first written or since.  The   *)
(* list the Backend answers has no order of its own; it changes only when  *)
(* the relationships do.  No button waits for the commit it sent.          *)
(***************************************************************************)
EXTENDS Naturals, Sequences, FiniteSets, SequencesExt

CONSTANTS
  Transition,    \* names of the transitions there may be
  First,         \* those there are at first, in the order they are answered
  Link,          \* the State's Environments, Hazards, Countermeasures, ...
  Requirement,   \* ... and the Requirement of a Countermeasure that applies
  Others,        \* whether other users change the SoI meanwhile
  MaxOut,        \* bound: commits under way
  None

ASSUME StateToolAssumption ==
  /\ First \in Seq(Transition) /\ Requirement \in Link
  /\ Others \in BOOLEAN /\ MaxOut \in Nat
  /\ None \notin Seq([name : Transition, text : {"old", "new"}])

VARIABLES
  soi,      \* the database
  seen,     \* the window's copy (the query ["soi", soiHid])
  picked,   \* the transition the detail panel edits: its place, the draft, and
            \* (history) whether the list it was picked from is still the one shown
  creating, \* the New Transition dialog is shown
  out       \* commits sent and not yet answered

stateVars == <<soi, seen, picked, creating, out>>

Names(between) == {w.name : w \in ToSet(between)}

StateInit ==
  /\ soi = [between |-> [i \in DOMAIN First |-> [name |-> First[i], text |-> "old"]],
            links |-> {}]
  /\ seen = soi /\ picked = None /\ creating = FALSE /\ out = <<>>

StateRefetch ==
  /\ seen # soi
  /\ seen' = soi
  /\ picked' = IF picked # None /\ soi.between # seen.between
               THEN [picked EXCEPT !.current = FALSE] ELSE picked
  /\ UNCHANGED <<soi, creating, out>>

-----------------------------------------------------------------------------
\* Selection: an edge carries its place in the list of its pair.  The panel is
\* kept as long as pair and place are the same.
SelectTransition(i) ==
  /\ ~creating /\ i \in DOMAIN seen.between
  /\ picked' = IF picked # None /\ picked.index = i THEN picked
               ELSE [index |-> i, draft |-> seen.between[i], current |-> TRUE]
  /\ UNCHANGED <<soi, seen, creating, out>>

\* Escape, and selecting a State.
Deselect ==
  /\ picked # None \/ creating
  /\ picked' = None /\ creating' = FALSE
  /\ UNCHANGED <<soi, seen, out>>

EditTransition ==
  /\ ~creating /\ picked # None
  /\ picked' = [picked EXCEPT !.draft.text = "new"]
  /\ UNCHANGED <<soi, seen, creating, out>>

EditedAlone == <<picked.draft>>

\* The list to recreate: the panel's draft in its place, or nothing there, and
\* every other transition as the window shows it now.
Edited  == [i \in DOMAIN seen.between |->
              IF i = picked.index THEN picked.draft ELSE seen.between[i]]
Without ==
  IF picked.index \in DOMAIN seen.between THEN RemoveAt(seen.between, picked.index)
  ELSE seen.between

\* History: the list a commit was both chosen and computed from, if there is one.
Basis == IF picked.current THEN seen.between ELSE None

SendState(request) == Len(out) < MaxOut /\ out' = Append(out, request)

\* (A kind that needs a governing Countermeasure is refused without one.)
SaveTransition ==
  /\ ~creating /\ picked # None
  /\ SendState([kind |-> "recreate", list |-> Edited, of |-> picked.draft.name,
                gone |-> {}, seen |-> Basis])
  /\ UNCHANGED <<soi, seen, picked, creating>>

RemoveTransition ==
  /\ ~creating /\ picked # None
  /\ SendState([kind |-> "recreate", list |-> Without, of |-> picked.draft.name,
                gone |-> {picked.draft.name}, seen |-> Basis])
  /\ UNCHANGED <<soi, seen, picked, creating>>

\* "+ Transition", and the two States picked: the selection stays.
OpenDialog == ~creating /\ creating' = TRUE /\ UNCHANGED <<soi, seen, picked, out>>

Used == Names(soi.between) \cup {out[k].name : k \in {k \in DOMAIN out : out[k].kind = "create"}}
Create ==
  /\ creating
  /\ \E t \in Transition \ Used : SendState([kind |-> "create", name |-> t])
  /\ UNCHANGED <<soi, seen, picked, creating>>

\* The State panel: what is not linked is offered, what is linked can be
\* removed.  Every Requirement is offered.
Offered    == (Link \ seen.links) \cup {Requirement}
AddLink(l) ==
  /\ ~creating /\ picked = None /\ l \in Offered
  /\ SendState([kind |-> "link", link |-> l])
  /\ UNCHANGED <<soi, seen, picked, creating>>

RemoveLink(l) ==
  /\ ~creating /\ picked = None /\ l \in seen.links \ {Requirement}
  /\ SendState([kind |-> "unlink", link |-> l])
  /\ UNCHANGED <<soi, seen, picked, creating>>

-----------------------------------------------------------------------------
\* The Backend, and the answers.

\* A link or a transition there is already makes another a duplicate, within
\* one commit too.
StateAccepted(r) ==
  /\ r.kind = "link" => r.link \notin soi.links
  /\ r.kind = "create" => soi.between = <<>>
  /\ r.kind = "recreate" => Len(r.list) <= 1

StateEffect(r) ==
  CASE r.kind = "recreate" -> soi' = [soi EXCEPT !.between = r.list]
    [] r.kind = "create"   ->
         soi' = [soi EXCEPT !.between = <<[name |-> r.name, text |-> "new"]>>]
    [] r.kind = "link"     -> soi' = [soi EXCEPT !.links = @ \cup {r.link}]
    [] r.kind = "unlink"   -> soi' = [soi EXCEPT !.links = @ \ {r.link}]

StateRest(k) == out' = RemoveAt(out, k)

\* Answered: the panel or the dialog that asked is closed, and the SoI is read
\* again (StateRefetch).
StateExecute(k) ==
  /\ StateAccepted(out[k]) /\ StateEffect(out[k]) /\ StateRest(k)
  /\ picked'   = IF out[k].kind = "recreate" THEN None ELSE picked
  /\ creating' = (creating /\ out[k].kind # "create")
  /\ UNCHANGED seen

\* The answer is lost: the panel shows an error, and can commit again.
StateUnanswered(k) ==
  /\ StateAccepted(out[k]) /\ StateEffect(out[k]) /\ StateRest(k)
  /\ UNCHANGED <<seen, picked, creating>>

StateRefuse(k) == ~StateAccepted(out[k]) /\ StateRest(k) /\ UNCHANGED <<soi, seen, picked, creating>>
StateFail(k)   == StateRest(k) /\ UNCHANGED <<soi, seen, picked, creating>>

\* Other users.  A transition of theirs may be created while the commit of one
\* here is under way: both found none.
Orders(list) == {list, Reverse(list)}
Rewritten(between) == [i \in DOMAIN between |-> [between[i] EXCEPT !.text = "new"]]

CreatedTogether(k) ==
  /\ Others /\ out[k].kind = "create" /\ StateAccepted(out[k])
  /\ \E t \in Transition \ Used :
       \E b \in Orders(<<[name |-> out[k].name, text |-> "new"], [name |-> t, text |-> "new"]>>) :
         soi' = [soi EXCEPT !.between = b]
  /\ StateRest(k)
  /\ creating' = FALSE /\ UNCHANGED <<seen, picked>>

StateTheirs ==
  /\ Others
  /\ \/ /\ soi.between = <<>>
        /\ \E t \in Transition \ Used :
             soi' = [soi EXCEPT !.between = <<[name |-> t, text |-> "new"]>>]
     \/ /\ Len(soi.between) = 1
        /\ soi' \in {[soi EXCEPT !.between = <<>>], [soi EXCEPT !.between = Rewritten(@)]}
        /\ soi' # soi
     \/ \E i \in 1..2 : /\ Len(soi.between) = 2
                        /\ soi' = [soi EXCEPT !.between = RemoveAt(@, i)]
     \/ \E l \in Link \ soi.links : soi' = [soi EXCEPT !.links = @ \cup {l}]
  /\ UNCHANGED <<seen, picked, creating, out>>

StateNext ==
  \/ StateRefetch \/ Deselect \/ EditTransition \/ SaveTransition \/ RemoveTransition \/ OpenDialog \/ Create \/ StateTheirs
  \/ \E i \in 1..Cardinality(Transition) : SelectTransition(i)
  \/ \E l \in Link : AddLink(l) \/ RemoveLink(l)
  \/ \E k \in 1..MaxOut :
       k <= Len(out) /\ (StateExecute(k) \/ StateUnanswered(k) \/ StateRefuse(k) \/ StateFail(k)
                        \/ CreatedTogether(k))

StateSpec == StateInit /\ [][StateNext]_stateVars

-----------------------------------------------------------------------------
\* A commit of one transition executed on the list it was chosen and computed
\* from leaves every other transition as it was, and that one edited or gone.
RecreateKeepsOthers ==
  [][\A k \in DOMAIN out :
       /\ StateExecute(k) \/ StateUnanswered(k)
       /\ out[k].kind = "recreate" /\ out[k].seen = soi.between
       /\ Cardinality(Names(soi.between)) = Len(soi.between)
       => LET others(b) == {w \in ToSet(b) : w.name # out[k].of} IN
          /\ others(soi'.between) = others(soi.between)
          /\ Names(soi'.between) = Names(soi.between) \ out[k].gone]_stateVars

\* StateTool.tsx: an edit or a removal of one transition recreates every parallel
\* one in the same commit: none is refused.
RecreateAccepted ==
  [][\A k \in DOMAIN out : StateRefuse(k) => out[k].kind # "recreate"]_stateVars
=============================================================================
