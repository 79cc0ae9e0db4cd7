---------------------------- MODULE ChurnSchedule ----------------------------
(***************************************************************************)
(* What the churn scheduler promises about its decisions, with no cloud in *)
(* it: the logical inventory and the steps of engine.step.  The detailed   *)
(* ChurnEngine implements this specification, which is how "the schedule   *)
(* of decisions is deterministic for a given seed and config, while the    *)
(* concurrent cloud-call completion order is not" is stated: no outcome of *)
(* a cloud call can open or close a decision.                              *)
(***************************************************************************)
EXTENDS ChurnInventory

vars == <<present, mutated, pop, rolling>>

TypeOK ==
  /\ present \subseteq Node
  /\ mutated \subseteq Node
  /\ pop \in Nat
  /\ rolling \subseteq Node

Init ==
  /\ present = {}
  /\ mutated = {}
  /\ pop = 0
  /\ rolling = {}

(***************************************************************************)
(* The bookkeeping of dispatchCreate, dispatchDelete and dispatchMutate.   *)
(***************************************************************************)
Appear(n) ==
  /\ present' = present \union {n}
  /\ mutated' = mutated \ {n}
  /\ pop' = pop + 1

Vanish(n) ==
  /\ present' = present \ {n}
  /\ pop' = pop - 1
  /\ UNCHANGED mutated

EagerCreate(n) ==
  /\ rolling = {}
  /\ n \in EagerCreateCandidates(present)
  /\ Appear(n)
  /\ UNCHANGED rolling

Mutate(n) ==
  /\ rolling = {}
  /\ DrawsMutate(present, mutated)
  /\ n \in MutateCandidates(present, mutated)
  /\ mutated' = mutated \union {n}
  /\ UNCHANGED <<present, pop, rolling>>

Create(n) ==
  /\ rolling = {}
  /\ DrawsCreate(present, mutated, pop)
  /\ n \in CreateCandidates(present)
  /\ Appear(n)
  /\ UNCHANGED rolling

Delete(n) ==
  /\ rolling = {}
  /\ DrawsDelete(present, mutated, pop)
  /\ n \in DeleteCandidates(present) \ Rolling
  /\ Vanish(n)
  /\ UNCHANGED rolling

(***************************************************************************)
(* A roll deletes the present descendants of a root, children before       *)
(* parents, and no other decision comes in between.                        *)
(***************************************************************************)
RollScope(n) == Descendants[n] \cap present

RollBegin(n) ==
  /\ rolling = {}
  /\ DrawsDelete(present, mutated, pop)
  /\ n \in DeleteCandidates(present) \cap Rolling
  /\ rolling' = RollScope(n)
  /\ UNCHANGED <<present, mutated, pop>>

RollDeleteByPath(n) ==   \* mutant: a node two paths reach is deleted twice
  /\ n \in rolling
  /\ Children(n) \cap present = {}
  /\ Vanish(n)
  /\ \/ n \in present /\ Cardinality(Parents[n] \cap rolling) > 1 /\ UNCHANGED rolling
     \/ n \notin present /\ rolling' = rolling \ {n}
     \/ Cardinality(Parents[n] \cap rolling) < 2 /\ rolling' = rolling \ {n}
RollDelete(n) ==
  /\ n \in rolling
  /\ Children(n) \cap present = {}
  /\ Vanish(n)
  /\ rolling' = rolling \ {n}

\* A no-op is a decision that leaves everything as it is: a stuttering step.
Next ==
  \/ \E n \in Node : EagerCreate(n)
  \/ \E n \in Node : Mutate(n)
  \/ \E n \in Node : Create(n)
  \/ \E n \in Node : Delete(n)
  \/ \E n \in Node : RollBegin(n)
  \/ \E n \in Node : RollDelete(n)

Spec == Init /\ [][Next]_vars

(***************************************************************************)
(* While a run lasts its scheduler keeps ticking: run() sleeps at most     *)
(* MaxInterval between two ticks and every tick makes at least one step.   *)
(***************************************************************************)
FairSpec == Spec /\ WF_vars(Next)

-----------------------------------------------------------------------------
(***************************************************************************)
(* A pinned node, once decided on, stays in the inventory, and so do its   *)
(* parents (deleteCandidates).                                             *)
(***************************************************************************)
PinnedStay ==
  [][\A n \in present \cap Pinned : {n} \union Parents[n] \subseteq present']_vars

(***************************************************************************)
(* A rolling set is replaced one root at a time: whenever a decision takes *)
(* a node out of a set, everything missing from that set lies under one    *)
(* and the same root (setWhole, roll, eagerCreateCandidates).              *)
(***************************************************************************)
OneRootAtATime ==
  [][\A n \in (present \ present') \cap Rolling :
       \E r \in RollRoot : RollSet(n) \ present' \subseteq Descendants[r]]_vars

(***************************************************************************)
(* A roll does not leave its set short: a set that lost a node becomes     *)
(* whole again, because the replacement creates come before any other      *)
(* decision (eagerCreateCandidates).                                       *)
(***************************************************************************)
SetsMadeWhole ==
  \A n \in Rolling : rolling # {} /\ n \in rolling ~> SetWhole(n, present)

=============================================================================
