------------------------------ MODULE ChurnGraph ------------------------------
(***************************************************************************)
(* The static part of a churn run: the dependency graph a per-service      *)
(* builder hands to the engine of internal/chaos/engine.go, and the        *)
(* candidate lists the scheduler draws its decisions from.                 *)
(*                                                                         *)
(* A node stands for one planned resource.  The random generator of the    *)
(* engine is left open: every draw the code can make is a choice.          *)
(* Probabilities are whole percents, so that "the draw can never come out  *)
(* this way" (a probability of exactly 0 or 1) stays visible.              *)
(***************************************************************************)
EXTENDS Integers, FiniteSets

CONSTANTS
  Node,       \* the planned resources (engine.nodes)
  Parents,    \* Parents[n]: the nodes n depends on (Node.Parents, resolved)
  Pinned,     \* the nodes the engine never deletes (Node.Pinned)
  Roll,       \* Roll[n]: the rolling set of n, or NoRoll (Node.Roll)
  NoRoll,     \* the empty Roll value
  Mutable,    \* the nodes that carry a Mutate closure (Node.Mutate # nil)
  ChurnPct,   \* Config.ChurnRatio in percent
  FillPct,    \* Config.TargetFill in percent
  ResizePct   \* Config.ResizeRatio in percent

Children(n) == {c \in Node : n \in Parents[c]}

ASSUME NodeAssumption ==
  /\ IsFiniteSet(Node)
  /\ Parents \in [Node -> SUBSET Node]
  /\ Pinned \subseteq Node
  /\ Mutable \subseteq Node
  /\ Node \subseteq DOMAIN Roll

(***************************************************************************)
(* A plan is a DAG: every non-empty set of nodes has a member without a    *)
(* child in the set.                                                       *)
(***************************************************************************)
ASSUME AcyclicAssumption ==
  \A S \in SUBSET Node : S # {} => \E n \in S : Children(n) \cap S = {}

(***************************************************************************)
(* What the builder guarantees of the rolling sets: a rolling node is not  *)
(* pinned, and its dependents are in the same set.                         *)
(***************************************************************************)
ASSUME RollAssumption ==
  \A n \in Node : Roll[n] # NoRoll =>
    /\ n \notin Pinned
    /\ \A c \in Children(n) : Roll[c] = Roll[n]

(***************************************************************************)
(* The ranges Config.Validate enforces on the three ratios.                *)
(***************************************************************************)
ASSUME RatioAssumption ==
  /\ ChurnPct \in 0..100
  /\ FillPct \in 0..100
  /\ ResizePct \in 0..100

(***************************************************************************)
(* The rolling sets (engine.sets) and their roots (engine.rollRoot).       *)
(***************************************************************************)
Rolling == {n \in Node : Roll[n] # NoRoll}
RollSet(n) == {m \in Node : Roll[m] = Roll[n]}
RollRoot == {n \in Rolling : \A p \in Parents[n] : Roll[p] # Roll[n]}

(***************************************************************************)
(* The nodes the recursive visit of a roll can reach: the least set that   *)
(* holds r and is closed under Children.                                   *)
(***************************************************************************)
Closed(S) == \A m \in S : Children(m) \subseteq S
Descendants == [r \in Node |->
  {n \in Node : \A S \in SUBSET Node : r \in S /\ Closed(S) => n \in S}]

-----------------------------------------------------------------------------
(***************************************************************************)
(* Candidate lists, as functions of the logical inventory.                 *)
(***************************************************************************)
CreateCandidates(present) ==
  {n \in Node \ present : Parents[n] \subseteq present}

EagerPinnedOnly(present) == CreateCandidates(present) \cap Pinned     \* mutant
EagerCreateCandidates(present) ==
  {n \in CreateCandidates(present) : n \in Pinned \/ n \in Rolling}

SetWhole(n, present) == RollSet(n) \subseteq present

DeleteCandidates(present) ==
  {n \in present \ Pinned :
     IF n \in Rolling
     THEN n \in RollRoot /\ SetWhole(n, present)
     ELSE Children(n) \cap present = {}}

MutateCandidates(present, mutated) ==
  {n \in present \cap Mutable : n \notin mutated \/ n \in Pinned}

(***************************************************************************)
(* pCreate = clamp(churn ratio + target fill - current fill).  The draw    *)
(* can come out as a create when it is above 0, and as a delete when it is *)
(* below 1.                                                                *)
(***************************************************************************)
Bias(pop) == (ChurnPct + FillPct) * Cardinality(Node) - 100 * pop
MayDrawCreate(pop) == Bias(pop) > 0
MayDrawDelete(pop) == Bias(pop) < 100 * Cardinality(Node)

(***************************************************************************)
(* step() gets past the eager create, and past the mutate draw.            *)
(***************************************************************************)
NoEager(present) == EagerCreateCandidates(present) = {}
DrawsMutate(present, mutated) ==
  NoEager(present) /\ ResizePct > 0 /\ MutateCandidates(present, mutated) # {}
DrawsCreateOrDelete(present, mutated) ==
  /\ NoEager(present)
  /\ ResizePct < 100 \/ MutateCandidates(present, mutated) = {}
DrawsCreate(present, mutated, pop) ==
  /\ DrawsCreateOrDelete(present, mutated)
  /\ DeleteCandidates(present) = {} \/ MayDrawCreate(pop)
DrawsDelete(present, mutated, pop) ==
  /\ DrawsCreateOrDelete(present, mutated)
  /\ CreateCandidates(present) = {} \/ MayDrawDelete(pop)
DrawsNoop(present, mutated) ==
  /\ DrawsCreateOrDelete(present, mutated)
  /\ CreateCandidates(present) = {}
  /\ DeleteCandidates(present) = {}

=============================================================================
