--------------------------- MODULE AtomicRevisions ---------------------------
(***************************************************************************)
(* What the commit endpoint promises about Attack Trees, without locks,    *)
(* statements or retries: a client reads revisions, and later its request  *)
(* either changes the trees in one atomic step, provided every revision it *)
(* guards is still current, or changes nothing (SRS 6.5.10.22.3-.4).       *)
(***************************************************************************)
EXTENDS Naturals

CONSTANTS Tx, Loss

VARIABLES
  guards,    \* the Losses each request guards
  live,      \* nodes that exist
  edges,     \* edges of all trees
  version,   \* revision of each tree
  phase,     \* of each request
  read       \* the revisions its client read

vars == <<guards, live, edges, version, phase, read>>

Phase == {"idle", "open", "committed", "aborted"}

Init ==
  /\ guards \in [Tx -> SUBSET Loss]
  /\ \A e \in edges : {e.src, e.tgt, e.loss} \subseteq live
  /\ version \in [Loss -> Nat]
  /\ phase = [t \in Tx |-> "idle"]
  /\ read = [t \in Tx |-> version]

Read(t) ==
  /\ phase[t] = "idle"
  /\ phase' = [phase EXCEPT ![t] = "open"]
  /\ read' = [read EXCEPT ![t] = version]
  /\ UNCHANGED <<guards, live, edges, version>>

\* The trees in "bumped" get their next revision, a Loss that is deleted and
\* created again under its HID its first.  Only their edges change, except that a
\* deleted node takes all its edges with it.
Commit(t) ==
  /\ phase[t] = "open"
  /\ phase' = [phase EXCEPT ![t] = "committed"]
  /\ \A l \in guards[t] : read[t][l] = version[l]
  /\ \E bumped \in SUBSET Loss, again \in {{}} \cup {{l} : l \in Loss} :
       /\ guards[t] \subseteq bumped
       /\ version' = [l \in Loss |->
                       IF l \notin live' THEN 0
                       ELSE (IF l \in again THEN 0 ELSE version[l])
                            + (IF l \in bumped THEN 1 ELSE 0)]
       /\ \A e \in edges' \ edges : e.loss \in bumped
       /\ \A e \in edges \ edges' :
            e.loss \in bumped \cup again \/ {e.src, e.tgt} \ live' # {}
       /\ \A e \in edges' : {e.src, e.tgt} \subseteq live'
  /\ UNCHANGED <<guards, read>>

Abort(t) ==
  /\ phase[t] = "open"
  /\ phase' = [phase EXCEPT ![t] = "aborted"]
  /\ UNCHANGED <<guards, live, edges, version, read>>

Next == \E t \in Tx : Read(t) \/ Commit(t) \/ Abort(t)

Spec == Init /\ [][Next]_vars
=============================================================================
