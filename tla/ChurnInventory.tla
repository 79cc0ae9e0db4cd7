---------------------------- MODULE ChurnInventory ----------------------------
(***************************************************************************)
(* The logical inventory of a churn run: what the scheduler has decided    *)
(* should exist, whatever the cloud calls do.  The abstract ChurnSchedule  *)
(* and the concurrent ChurnEngine both keep it, and what must be true of   *)
(* it between any two steps is the same for both.                          *)
(***************************************************************************)
EXTENDS ChurnGraph

VARIABLES
  present,   \* the logical inventory (nodeState.present)
  mutated,   \* the nodes whose current instance was mutated (nodeState.mutated)
  pop,       \* engine.present, the counter the controller reads
  rolling    \* the nodes the roll under way has still to delete

(***************************************************************************)
(* A present node has all its parents present, in the middle of a roll     *)
(* too: the engine never decides on a create without a parent, nor on the  *)
(* delete of a parent before its dependents (createCandidates,             *)
(* deleteCandidates, roll).                                                *)
(***************************************************************************)
ParentsPresent == \A n \in present : Parents[n] \subseteq present

(***************************************************************************)
(* The counter the controller reads is the size of the inventory: a roll   *)
(* deletes a node that two paths reach once (engine.present).              *)
(***************************************************************************)
PopCounts == pop = Cardinality(present)

(***************************************************************************)
(* What every decision rests on: no node is decided on without its         *)
(* parents, and the controller's counter is the size of the inventory.  A  *)
(* roll that reached a node over two paths and deleted it twice would      *)
(* break the second part (roll).                                           *)
(***************************************************************************)
InventorySound == ParentsPresent /\ PopCounts

(***************************************************************************)
(* A roll under way never covers a pinned or an absent node, and what it   *)
(* still has to delete is closed under present dependents (roll).          *)
(***************************************************************************)
RollClosed ==
  /\ rolling \subseteq present \ Pinned
  /\ \A n \in rolling : Children(n) \cap present \subseteq rolling

(***************************************************************************)
(* The controller keeps the population of a graph without pinned and       *)
(* rolling nodes at the point where the create probability reaches 0, so a *)
(* run never fills past churn ratio plus target fill (pCreate).            *)
(***************************************************************************)
PopulationCeiling ==
  Pinned = {} /\ Rolling = {} =>
    pop <= 1 \/ 100 * (pop - 1) < (ChurnPct + FillPct) * Cardinality(Node)

=============================================================================
