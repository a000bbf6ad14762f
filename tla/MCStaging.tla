------------------------------- MODULE MCStaging -------------------------------
(* What is staged before it is committed: on the canvas of the Loss Tool, with   *)
(* two Losses, a node and a setting to stage; and in the data drawer, with a     *)
(* node and one that may be created.  They share nothing, so the one that is not *)
(* used stays as it is opened.                                                   *)
EXTENDS LossWorkspace, DataDrawer, TLC

CONSTANTS l1, l2, e1, s1, n1, n2, p1

VARIABLE used

StagingInit ==
  /\ used \in {"canvas", "drawer"} /\ Init /\ DrawerInit
  /\ \A l \in Loss : server[l].placed = {}
StagingNext ==
  /\ UNCHANGED used
  /\ \/ used = "canvas" /\ Next /\ UNCHANGED drawerVars
     \/ used = "drawer" /\ DrawerNext /\ UNCHANGED vars
StagingSpec == StagingInit /\ [][StagingNext]_<<used, vars, drawerVars>>

\* A file stages the node; it is of the version open, or it is of another, or it
\* comes under a transaction.
MCFiles == {[edits |-> {e1}, old |-> old, late |-> late] : old, late \in BOOLEAN}
           \ {[edits |-> {e1}, old |-> TRUE, late |-> TRUE]}
Symmetric == Permutations({l1, l2})
=============================================================================
