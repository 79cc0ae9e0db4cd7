--------------------------- MODULE ChurnEngineProofs ---------------------------
(***************************************************************************)
(* Proofs about the churn scheduler's decisions and the churn engine, for  *)
(* every graph, every ratio, every capacity of the pools, every set of     *)
(* faults and every number of decisions and operations.                    *)
(***************************************************************************)
EXTENDS ChurnEngine, FiniteSetTheorems, WellFoundedInduction, TLAPS

-----------------------------------------------------------------------------
(***************************************************************************)
(* The engine implements the schedule.  The refinement mapping is the      *)
(* identity on the four variables of the schedule, so each decision is a   *)
(* step of it and everything else stutters.                                *)
(***************************************************************************)

(***************************************************************************)
(* The candidate lists mean the same in the engine and in the schedule.    *)
(***************************************************************************)
LEMMA SameCandidates ==
  /\ Schedule!Rolling = Rolling
  /\ Schedule!Descendants = Descendants
  /\ \A n : Schedule!Children(n) = Children(n)
  /\ \A s : Schedule!CreateCandidates(s) = CreateCandidates(s)
  /\ \A s : Schedule!EagerCreateCandidates(s) = EagerCreateCandidates(s)
  /\ \A s : Schedule!DeleteCandidates(s) = DeleteCandidates(s)
  /\ \A s, m : Schedule!MutateCandidates(s, m) = MutateCandidates(s, m)
<1>1. Schedule!Rolling = Rolling
  BY DEF Schedule!Rolling, Rolling
<1>2. \A n : Schedule!Children(n) = Children(n)
  BY DEF Schedule!Children, Children
<1>3. Schedule!Descendants = Descendants
  BY DEF Schedule!Descendants, Descendants, Schedule!Closed, Closed,
         Schedule!Children, Children
<1>4. \A s : Schedule!CreateCandidates(s) = CreateCandidates(s)
  BY DEF Schedule!CreateCandidates, CreateCandidates
<1>5. \A s : Schedule!EagerCreateCandidates(s) = EagerCreateCandidates(s)
  BY <1>1, <1>4 DEF Schedule!EagerCreateCandidates, EagerCreateCandidates
<1>6. Schedule!RollRoot = RollRoot
  BY <1>1 DEF Schedule!RollRoot, RollRoot
<1>7. \A n, s : Schedule!SetWhole(n, s) = SetWhole(n, s)
  BY DEF Schedule!SetWhole, SetWhole, Schedule!RollSet, RollSet
<1>8. \A s : Schedule!DeleteCandidates(s) = DeleteCandidates(s)
  BY <1>1, <1>2, <1>6, <1>7 DEF Schedule!DeleteCandidates, DeleteCandidates
<1>9. \A s, m : Schedule!MutateCandidates(s, m) = MutateCandidates(s, m)
  BY DEF Schedule!MutateCandidates, MutateCandidates
<1>10. QED
  BY <1>1, <1>2, <1>3, <1>4, <1>5, <1>8, <1>9

(***************************************************************************)
(* So do the conditions under which a decision can be drawn.               *)
(***************************************************************************)
LEMMA SameDraws ==
  /\ \A s, m : DrawsMutate(s, m) => Schedule!DrawsMutate(s, m)
  /\ \A s, m, k : DrawsCreate(s, m, k) => Schedule!DrawsCreate(s, m, k)
  /\ \A s, m, k : DrawsDelete(s, m, k) => Schedule!DrawsDelete(s, m, k)
<1>1. \A s : NoEager(s) => Schedule!NoEager(s)
  BY SameCandidates DEF NoEager, Schedule!NoEager
<1>2. \A s, m : DrawsMutate(s, m) => Schedule!DrawsMutate(s, m)
  BY <1>1, SameCandidates DEF DrawsMutate, Schedule!DrawsMutate
<1>3. \A s, m : DrawsCreateOrDelete(s, m) => Schedule!DrawsCreateOrDelete(s, m)
  BY <1>1, SameCandidates DEF DrawsCreateOrDelete, Schedule!DrawsCreateOrDelete
<1>4. ASSUME NEW k, MayDrawCreate(k) PROVE Schedule!MayDrawCreate(k)
  <2>1. Bias(k) > 0
    BY <1>4 DEF MayDrawCreate
  <2>2. Schedule!Bias(k) = Bias(k)
    BY DEF Bias, Schedule!Bias, Cardinality, Schedule!Cardinality
  <2>3. QED
    BY <2>1, <2>2 DEF Schedule!MayDrawCreate
<1>5. ASSUME NEW k, MayDrawDelete(k) PROVE Schedule!MayDrawDelete(k)
  <2>1. Bias(k) < 100 * Cardinality(Node)
    BY <1>5 DEF MayDrawDelete
  <2>2. Schedule!Bias(k) = Bias(k)
    BY DEF Bias, Schedule!Bias, Cardinality, Schedule!Cardinality
  <2>3. QED
    BY <2>1, <2>2 DEF Schedule!MayDrawDelete, Cardinality, Schedule!Cardinality
<1>6. \A s, m, k : DrawsCreate(s, m, k) => Schedule!DrawsCreate(s, m, k)
  BY <1>3, <1>4, SameCandidates DEF DrawsCreate, Schedule!DrawsCreate
<1>7. \A s, m, k : DrawsDelete(s, m, k) => Schedule!DrawsDelete(s, m, k)
  BY <1>3, <1>5, SameCandidates DEF DrawsDelete, Schedule!DrawsDelete
<1>8. QED
  BY <1>2, <1>6, <1>7

(***************************************************************************)
(* No step of an operation touches the scheduler's state.                  *)
(***************************************************************************)
LEMMA OpStepsLeaveScheduler ==
  ASSUME NEW o \in OpId, OpStep(o)
  PROVE  UNCHANGED Scheduler
BY DEF OpStep, AwaitDeps, TakeGate, TakeSlot, NotAdmitted, RetryDeletes,
       RetryFails, RetryPanics, RetrySkips, CreateSucceeds, CreateUnready,
       CreateFails, CreatePanics, CreateSkips, DeleteSucceeds, DeleteFails,
       DeleteSkips, MutateEnds, Settle, Exit, Close

(***************************************************************************)
(* Every step of the engine is a decision of the schedule or leaves it.    *)
(***************************************************************************)
LEMMA StepRefines == [Next]_vars => [Schedule!Next]_Schedule!vars
<1> SUFFICES ASSUME [Next]_vars PROVE Schedule!Next \/ UNCHANGED schedule
  BY DEF Schedule!vars, schedule
<1>1. ASSUME NEW n \in Node, StepEagerCreate(n) PROVE Schedule!EagerCreate(n)
  BY <1>1, SameCandidates DEF StepEagerCreate, Deciding, DispatchCreate,
     Schedule!EagerCreate, Schedule!Appear
<1>2. ASSUME NEW n \in Node, StepMutate(n) PROVE Schedule!Mutate(n)
  BY <1>2, SameCandidates, SameDraws DEF StepMutate, Deciding, DispatchMutate,
     Schedule!Mutate
<1>3. ASSUME NEW n \in Node, StepCreate(n) PROVE Schedule!Create(n)
  BY <1>3, SameCandidates, SameDraws DEF StepCreate, Deciding, DispatchCreate,
     Schedule!Create, Schedule!Appear
<1>4. ASSUME NEW n \in Node, StepDelete(n) PROVE Schedule!Delete(n)
  BY <1>4, SameCandidates, SameDraws DEF StepDelete, Deciding, DispatchDelete,
     Schedule!Delete, Schedule!Vanish
<1>5. ASSUME NEW n \in Node, RollBegin(n) PROVE Schedule!RollBegin(n)
  BY <1>5, SameCandidates, SameDraws DEF RollBegin, Deciding,
     Schedule!RollBegin, Schedule!RollScope
<1>6. ASSUME NEW n \in Node, RollDelete(n) PROVE Schedule!RollDelete(n)
  BY <1>6, SameCandidates DEF RollDelete, DispatchDelete, Schedule!RollDelete,
     Schedule!Vanish
<1>7. CASE StepNoop \/ Launch \/ Tick \/ Stop \/ Return \/ Cancel \/ Terminated
  BY <1>7 DEF StepNoop, Launch, Tick, Stop, Return, Cancel, Terminated, vars, schedule
<1>8. ASSUME NEW o \in OpId, OpStep(o) PROVE UNCHANGED schedule
  BY <1>8, OpStepsLeaveScheduler DEF Scheduler
<1>9. CASE UNCHANGED vars
  BY <1>9 DEF vars
<1>10. QED
  BY <1>1, <1>2, <1>3, <1>4, <1>5, <1>6, <1>7, <1>8, <1>9
     DEF Next, Decide, Schedule!Next

(***************************************************************************)
(* The decisions of the engine are those of the schedule, whatever the     *)
(* cloud calls do and whenever they finish.                                *)
(***************************************************************************)
THEOREM ImplementsSchedule == Spec => ScheduleSpec
<1>1. Init => Schedule!Init
  BY DEF Init, Schedule!Init
<1>2. QED
  BY <1>1, StepRefines, PTL DEF Spec, ScheduleSpec, Schedule!Spec

-----------------------------------------------------------------------------
(***************************************************************************)
(* What the schedule promises, for every graph, every ratio and every      *)
(* number of decisions.  The state of the schedule is that of the engine,  *)
(* and ImplementsSchedule carries each result over to the engine.          *)
(*                                                                         *)
(* The inductive invariant is SInv.  PopCounts and TypeOK need each other  *)
(* (the counter never goes below 0 because it counts), ParentsPresent      *)
(* needs that a roll deletes children first, and what a roll may delete is *)
(* RollClosed, which rests on Descendants being closed under Children and  *)
(* on RollAssumption.  RollUnderOneRoot is the extra strengthening that    *)
(* makes OneRootAtATime provable: it remembers, while a roll is under way, *)
(* that its set was whole when the roll began.                             *)
(***************************************************************************)

\* Counting means the same in the schedule.
LEMMA SameCount == \A s : Schedule!Cardinality(s) = Cardinality(s)
BY DEF Cardinality, Schedule!Cardinality

\* While a roll is under way, whatever its set lacks lies under its root.
RollUnderOneRoot ==
  rolling # {} =>
    \E r \in Schedule!RollRoot :
      /\ rolling \subseteq Schedule!Descendants[r]
      /\ \A n \in rolling : Schedule!RollSet(n) \ present \subseteq Schedule!Descendants[r]

SInv == Schedule!TypeOK /\ PopCounts /\ ParentsPresent /\ RollClosed /\ RollUnderOneRoot

-----------------------------------------------------------------------------
(***************************************************************************)
(* What the recursive visit of a roll reaches is closed under dependents   *)
(* and holds its root.                                                     *)
(***************************************************************************)
LEMMA DescendantsClosed ==
  ASSUME NEW r \in Node
  PROVE  /\ Schedule!Descendants[r] \subseteq Node
         /\ r \in Schedule!Descendants[r]
         /\ \A m \in Schedule!Descendants[r] : Schedule!Children(m) \subseteq Schedule!Descendants[r]
<1>1. Schedule!Descendants[r] =
        {n \in Node : \A S \in SUBSET Node : r \in S /\ Schedule!Closed(S) => n \in S}
  BY DEF Schedule!Descendants
<1>2. ASSUME NEW m \in Schedule!Descendants[r], NEW c \in Schedule!Children(m)
      PROVE  c \in Schedule!Descendants[r]
  <2>1. c \in Node
    BY DEF Schedule!Children
  <2>2. ASSUME NEW S \in SUBSET Node, r \in S, Schedule!Closed(S)
        PROVE  c \in S
    <3>1. m \in S
      BY <1>1, <2>2
    <3>2. QED
      BY <3>1, <2>2 DEF Schedule!Closed
  <2>3. QED
    BY <1>1, <2>1, <2>2
<1>3. QED
  BY <1>1, <1>2

(***************************************************************************)
(* Everything under a rolling node belongs to its set.                     *)
(***************************************************************************)
LEMMA DescendantsInSet ==
  ASSUME NEW r \in Schedule!Rolling
  PROVE  \A m \in Schedule!Descendants[r] : m \in Schedule!Rolling /\ Roll[m] = Roll[r]
<1> DEFINE T == {m \in Node : Roll[m] = Roll[r]}
<1>1. r \in Node /\ Roll[r] # NoRoll
  BY DEF Schedule!Rolling
<1>2. Schedule!Closed(T)
  BY <1>1, RollAssumption, SameCandidates DEF Schedule!Closed, Schedule!Children
<1>3. r \in T /\ T \in SUBSET Node
  BY <1>1
<1>4. ASSUME NEW m \in Schedule!Descendants[r] PROVE m \in T
  BY <1>1, <1>2, <1>3 DEF Schedule!Descendants
<1>5. QED
  BY <1>1, <1>4 DEF Schedule!Rolling

(***************************************************************************)
(* A rolling node is not pinned.                                           *)
(***************************************************************************)
LEMMA RollingNotPinned == Schedule!Rolling \cap Pinned = {}
BY RollAssumption DEF Schedule!Rolling

(***************************************************************************)
(* A dispatched create of an absent node keeps the counter exact.          *)
(***************************************************************************)
LEMMA CountAppear ==
  ASSUME Schedule!TypeOK, PopCounts, NEW n \in Node \ present, Schedule!Appear(n)
  PROVE  pop' \in Nat /\ pop' = Cardinality(present')
<1>1. IsFiniteSet(present)
  BY NodeAssumption, FS_Subset DEF Schedule!TypeOK
<1>2. Cardinality(present \union {n}) = Cardinality(present) + 1
  BY <1>1, FS_AddElement
<1>3. QED
  BY <1>2 DEF Schedule!Appear, Schedule!TypeOK, PopCounts

(***************************************************************************)
(* A dispatched delete of a present node keeps the counter exact, and the  *)
(* counter does not go below 0.                                            *)
(***************************************************************************)
LEMMA CountVanish ==
  ASSUME Schedule!TypeOK, PopCounts, NEW n \in present, Schedule!Vanish(n)
  PROVE  pop' \in Nat /\ pop' = Cardinality(present')
<1>1. IsFiniteSet(present)
  BY NodeAssumption, FS_Subset DEF Schedule!TypeOK
<1>2. IsFiniteSet(present \ {n}) /\ Cardinality(present \ {n}) = Cardinality(present) - 1
  BY <1>1, FS_RemoveElement
<1>3. Cardinality(present \ {n}) \in Nat
  BY <1>2, FS_CardinalityType
<1>4. QED
  BY <1>2, <1>3 DEF Schedule!Vanish, Schedule!TypeOK, PopCounts

-----------------------------------------------------------------------------
(***************************************************************************)
(* The initial inventory, which is empty, satisfies the invariant.         *)
(***************************************************************************)
LEMMA SInitInv == Schedule!Init => SInv
BY FS_EmptySet DEF Schedule!Init, SInv, Schedule!TypeOK, PopCounts, ParentsPresent, RollClosed,
                   RollUnderOneRoot

(***************************************************************************)
(* A create, eager or drawn, preserves the invariant: it appears under     *)
(* present parents, outside any roll.                                      *)
(***************************************************************************)
LEMMA AppearInv ==
  ASSUME SInv, NEW n \in Schedule!CreateCandidates(present), rolling = {}, Schedule!Appear(n),
         UNCHANGED rolling
  PROVE  SInv'
<1>1. n \in Node \ present /\ Parents[n] \subseteq present
  BY DEF Schedule!CreateCandidates
<1>2. pop' \in Nat /\ pop' = Cardinality(present')
  BY <1>1, CountAppear DEF SInv
<1>3. Schedule!TypeOK' /\ PopCounts'
  BY <1>1, <1>2 DEF SInv, Schedule!TypeOK, PopCounts, Schedule!Appear
<1>4. ParentsPresent'
  BY <1>1 DEF SInv, ParentsPresent, Schedule!Appear
<1>5. RollClosed' /\ RollUnderOneRoot'
  BY DEF RollClosed, RollUnderOneRoot
<1>6. QED
  BY <1>3, <1>4, <1>5 DEF SInv

(***************************************************************************)
(* A delete of a node without present dependents preserves the parts of    *)
(* the invariant that do not speak of a roll.                              *)
(***************************************************************************)
LEMMA VanishInv ==
  ASSUME SInv, NEW n \in present, Schedule!Children(n) \cap present = {}, Schedule!Vanish(n),
         rolling' \subseteq rolling
  PROVE  Schedule!TypeOK' /\ PopCounts' /\ ParentsPresent'
<1>1. pop' \in Nat /\ pop' = Cardinality(present')
  BY CountVanish DEF SInv
<1>2. Schedule!TypeOK' /\ PopCounts'
  BY <1>1 DEF SInv, Schedule!TypeOK, PopCounts, Schedule!Vanish
<1>3. ParentsPresent'
  <2>1. ASSUME NEW m \in present', NEW p \in Parents[m]
        PROVE  p \in present'
    <3>1. m \in present /\ m \in Node /\ present' = present \ {n}
      BY DEF Schedule!Vanish, SInv, Schedule!TypeOK
    <3>2. p \in present
      BY <3>1, <2>1 DEF SInv, ParentsPresent
    <3>3. p # n
      BY <3>1, <2>1 DEF Schedule!Children
    <3>4. QED
      BY <3>1, <3>2, <3>3
  <2>2. QED
    BY <2>1 DEF ParentsPresent
<1>4. QED
  BY <1>2, <1>3

(***************************************************************************)
(* Every decision of the scheduler preserves the invariant.                *)
(***************************************************************************)
LEMMA SStepInv == SInv /\ [Schedule!Next]_Schedule!vars => SInv'
<1> SUFFICES ASSUME SInv, [Schedule!Next]_Schedule!vars PROVE SInv'
  OBVIOUS
<1>1. ASSUME NEW n \in Node, Schedule!EagerCreate(n) PROVE SInv'
  BY <1>1, AppearInv DEF Schedule!EagerCreate, Schedule!EagerCreateCandidates
<1>2. ASSUME NEW n \in Node, Schedule!Mutate(n) PROVE SInv'
  BY <1>2 DEF Schedule!Mutate, SInv, Schedule!TypeOK, PopCounts, ParentsPresent, RollClosed,
              RollUnderOneRoot
<1>3. ASSUME NEW n \in Node, Schedule!Create(n) PROVE SInv'
  BY <1>3, AppearInv DEF Schedule!Create
<1>4. ASSUME NEW n \in Node, Schedule!Delete(n) PROVE SInv'
  <2>1. n \in present /\ Schedule!Children(n) \cap present = {}
    BY <1>4 DEF Schedule!Delete, Schedule!DeleteCandidates
  <2>2. Schedule!TypeOK' /\ PopCounts' /\ ParentsPresent'
    BY <1>4, <2>1, VanishInv DEF Schedule!Delete
  <2>3. RollClosed' /\ RollUnderOneRoot'
    BY <1>4 DEF Schedule!Delete, RollClosed, RollUnderOneRoot
  <2>4. QED
    BY <2>2, <2>3 DEF SInv
<1>5. ASSUME NEW n \in Node, Schedule!RollBegin(n) PROVE SInv'
  <2>1. /\ n \in Schedule!Rolling /\ n \in Schedule!RollRoot /\ Schedule!RollSet(n) \subseteq present
        /\ rolling' = Schedule!Descendants[n] \cap present
        /\ UNCHANGED <<present, mutated, pop>>
    BY <1>5 DEF Schedule!RollBegin, Schedule!DeleteCandidates, Schedule!SetWhole, Schedule!RollScope
  <2>2. Schedule!TypeOK' /\ PopCounts' /\ ParentsPresent'
    BY <2>1 DEF SInv, Schedule!TypeOK, PopCounts, ParentsPresent
  <2>3. RollClosed'
    BY <2>1, DescendantsClosed, DescendantsInSet, RollingNotPinned DEF RollClosed
  <2>4. RollUnderOneRoot'
    <3>1. \A m \in Schedule!Descendants[n] : Schedule!RollSet(m) = Schedule!RollSet(n)
      BY <2>1, DescendantsInSet DEF Schedule!RollSet
    <3>2. \A m \in rolling' : Schedule!RollSet(m) \ present' \subseteq Schedule!Descendants[n]
      BY <2>1, <3>1
    <3>3. QED
      BY <2>1, <3>2 DEF RollUnderOneRoot
  <2>5. QED
    BY <2>2, <2>3, <2>4 DEF SInv
<1>6. ASSUME NEW n \in Node, Schedule!RollDelete(n) PROVE SInv'
  <2>1. /\ n \in rolling /\ n \in present /\ Schedule!Children(n) \cap present = {}
        /\ present' = present \ {n} /\ rolling' = rolling \ {n}
    BY <1>6 DEF Schedule!RollDelete, Schedule!Vanish, SInv, RollClosed
  <2>2. Schedule!TypeOK' /\ PopCounts' /\ ParentsPresent'
    BY <1>6, <2>1, VanishInv DEF Schedule!RollDelete
  <2>3. RollClosed'
    BY <2>1 DEF SInv, RollClosed
  <2>4. RollUnderOneRoot'
    <3>1. PICK r \in Schedule!RollRoot :
            /\ rolling \subseteq Schedule!Descendants[r]
            /\ \A m \in rolling : Schedule!RollSet(m) \ present \subseteq Schedule!Descendants[r]
      BY <2>1 DEF SInv, RollUnderOneRoot
    <3>2. \A m \in rolling' : Schedule!RollSet(m) \ present' \subseteq Schedule!Descendants[r]
      BY <2>1, <3>1
    <3>3. QED
      BY <2>1, <3>1, <3>2 DEF RollUnderOneRoot
  <2>5. QED
    BY <2>2, <2>3, <2>4 DEF SInv
<1>7. CASE UNCHANGED Schedule!vars
  BY <1>7 DEF Schedule!vars, SInv, Schedule!TypeOK, PopCounts, ParentsPresent, RollClosed,
              RollUnderOneRoot
<1>8. QED
  BY <1>1, <1>2, <1>3, <1>4, <1>5, <1>6, <1>7 DEF Schedule!Next

(***************************************************************************)
(* The invariant holds in every state of every behaviour.                  *)
(***************************************************************************)
LEMMA SInvariance == Schedule!Spec => []SInv
BY SInitInv, SStepInv, PTL DEF Schedule!Spec

(***************************************************************************)
(* The decisions never leave the types; the population counter, which the  *)
(* controller divides by the number of nodes, is never negative.           *)
(***************************************************************************)
THEOREM TypeCorrect == Schedule!Spec => []Schedule!TypeOK
BY SInvariance, PTL DEF SInv

(***************************************************************************)
(* A present node has all its parents present, for every plan.             *)
(***************************************************************************)
THEOREM ParentsArePresent == Schedule!Spec => []ParentsPresent
BY SInvariance, PTL DEF SInv

(***************************************************************************)
(* The counter is the size of the inventory, through rolls of any shape.   *)
(***************************************************************************)
THEOREM CounterIsExact == Schedule!Spec => []PopCounts
BY SInvariance, PTL DEF SInv

(***************************************************************************)
(* Whatever is drawn, the inventory is closed under parents and counted    *)
(* exactly, also in the middle of a roll over a diamond.                   *)
(***************************************************************************)
THEOREM InventoryIsSound == Schedule!Spec => []InventorySound
<1>1. ParentsPresent /\ PopCounts => InventorySound
  BY DEF InventorySound
<1> QED BY <1>1, ParentsArePresent, CounterIsExact, PTL

(***************************************************************************)
(* A roll covers neither a pinned nor an absent node and leaves no present *)
(* dependent out.                                                          *)
(***************************************************************************)
THEOREM RollsAreClosed == Schedule!Spec => []RollClosed
BY SInvariance, PTL DEF SInv

(***************************************************************************)
(* A pinned node and its parents, once in the inventory, are never taken   *)
(* out of it.                                                              *)
(***************************************************************************)
THEOREM PinnedNodesStay == Schedule!Spec => Schedule!PinnedStay
<1> DEFINE Stay == \A n \in present \cap Pinned : {n} \union Parents[n] \subseteq present'
<1>1. ASSUME SInv, SInv', [Schedule!Next]_Schedule!vars PROVE [Stay]_Schedule!vars
  <2>1. ASSUME NEW n \in present \cap Pinned PROVE n \in present'
    <3>1. CASE \E m \in Node : Schedule!EagerCreate(m) \/ Schedule!Create(m) \/ Schedule!Mutate(m) \/ Schedule!RollBegin(m)
      BY <3>1 DEF Schedule!EagerCreate, Schedule!Create, Schedule!Mutate, Schedule!RollBegin, Schedule!Appear
    <3>2. CASE \E m \in Node : Schedule!Delete(m)
      BY <3>2 DEF Schedule!Delete, Schedule!Vanish, Schedule!DeleteCandidates
    <3>3. CASE \E m \in Node : Schedule!RollDelete(m)
      BY <3>3, <1>1 DEF Schedule!RollDelete, Schedule!Vanish, SInv, RollClosed
    <3>4. CASE UNCHANGED Schedule!vars
      BY <3>4 DEF Schedule!vars
    <3>5. QED
      BY <1>1, <3>1, <3>2, <3>3, <3>4 DEF Schedule!Next
  <2>2. ASSUME NEW n \in present \cap Pinned PROVE Parents[n] \subseteq present'
    BY <1>1, <2>1 DEF SInv, ParentsPresent
  <2>3. QED
    BY <2>1, <2>2
<1>2. QED
  BY <1>1, SInvariance, PTL DEF Schedule!Spec, Schedule!PinnedStay

(***************************************************************************)
(* A rolling set is replaced one root at a time, for every number of sets, *)
(* roots and dependents.                                                   *)
(***************************************************************************)
THEOREM RollsTakeOneRoot == Schedule!Spec => Schedule!OneRootAtATime
<1> DEFINE OneRoot ==
      \A n \in (present \ present') \cap Schedule!Rolling :
        \E r \in Schedule!RollRoot : Schedule!RollSet(n) \ present' \subseteq Schedule!Descendants[r]
<1>1. ASSUME SInv, [Schedule!Next]_Schedule!vars PROVE [OneRoot]_Schedule!vars
  <2>1. ASSUME NEW n \in (present \ present') \cap Schedule!Rolling
        PROVE  \E r \in Schedule!RollRoot : Schedule!RollSet(n) \ present' \subseteq Schedule!Descendants[r]
    <3>1. Schedule!RollDelete(n)
      <4>1. CASE \E m \in Node : Schedule!EagerCreate(m) \/ Schedule!Create(m) \/ Schedule!Mutate(m) \/ Schedule!RollBegin(m)
        BY <2>1, <4>1 DEF Schedule!EagerCreate, Schedule!Create, Schedule!Mutate, Schedule!RollBegin, Schedule!Appear
      <4>2. CASE \E m \in Node : Schedule!Delete(m)
        BY <2>1, <4>2 DEF Schedule!Delete, Schedule!Vanish
      <4>3. CASE \E m \in Node : Schedule!RollDelete(m)
        BY <2>1, <4>3 DEF Schedule!RollDelete, Schedule!Vanish
      <4>4. CASE UNCHANGED Schedule!vars
        BY <2>1, <4>4 DEF Schedule!vars
      <4>5. QED
        BY <1>1, <4>1, <4>2, <4>3, <4>4 DEF Schedule!Next
    <3>2. n \in rolling /\ present' = present \ {n}
      BY <3>1 DEF Schedule!RollDelete, Schedule!Vanish
    <3>3. PICK r \in Schedule!RollRoot :
            /\ rolling \subseteq Schedule!Descendants[r]
            /\ \A m \in rolling : Schedule!RollSet(m) \ present \subseteq Schedule!Descendants[r]
      BY <1>1, <3>2 DEF SInv, RollUnderOneRoot
    <3>4. Schedule!RollSet(n) \ present' \subseteq Schedule!Descendants[r]
      BY <3>2, <3>3
    <3>5. QED
      BY <3>4
  <2>2. QED
    BY <2>1
<1>2. QED
  BY <1>1, SInvariance, PTL DEF Schedule!Spec, Schedule!OneRootAtATime

(***************************************************************************)
(* The controller's ceiling on the population, for every graph without     *)
(* pinned and rolling nodes.  A create is drawn against a positive bias,   *)
(* or because nothing can be deleted, and in an acyclic graph nothing can  *)
(* be deleted only when nothing is present.                                *)
(***************************************************************************)
THEOREM PopulationIsBounded == Schedule!Spec => []PopulationCeiling
<1>1. Cardinality(Node) \in Nat
  BY NodeAssumption, FS_CardinalityType
<1>2. Schedule!Init => PopulationCeiling
  BY DEF Schedule!Init, PopulationCeiling
<1>3. ASSUME SInv, PopulationCeiling, [Schedule!Next]_Schedule!vars PROVE PopulationCeiling'
  <2> SUFFICES ASSUME Pinned = {}, Schedule!Rolling = {}
               PROVE  pop' <= 1 \/ 100 * (pop' - 1) < (ChurnPct + FillPct) * Cardinality(Node)
    BY SameCandidates DEF PopulationCeiling
  <2>1. pop \in Nat /\ ChurnPct \in Nat /\ FillPct \in Nat
    BY <1>3, RatioAssumption DEF SInv, Schedule!TypeOK
  <2>2. pop <= 1 \/ 100 * (pop - 1) < (ChurnPct + FillPct) * Cardinality(Node)
    BY <1>3, SameCandidates DEF PopulationCeiling
  <2>3. ASSUME NEW n \in Node, Schedule!Create(n)
        PROVE  pop' <= 1 \/ 100 * (pop' - 1) < (ChurnPct + FillPct) * Cardinality(Node)
    <3>1. pop' = pop + 1
      BY <2>3 DEF Schedule!Create, Schedule!Appear
    <3>2. CASE Schedule!DeleteCandidates(present) = {}
      <4>1. present = {}
        <5>1. SUFFICES ASSUME present # {} PROVE FALSE
          OBVIOUS
        <5>2. PICK m \in present : Schedule!Children(m) \cap present = {}
          BY <1>3, <5>1, AcyclicAssumption, SameCandidates DEF SInv, Schedule!TypeOK
        <5>3. m \in Schedule!DeleteCandidates(present)
          BY <5>2 DEF Schedule!DeleteCandidates
        <5>4. QED
          BY <3>2, <5>3
      <4>2. pop = 0
        BY <1>3, <4>1, FS_EmptySet DEF SInv, PopCounts
      <4>3. QED
        BY <3>1, <4>2
    <3>3. CASE Schedule!Bias(pop) > 0
      <4> DEFINE C == (ChurnPct + FillPct) * Cardinality(Node)
      <4>1. C \in Int
        BY <1>1, <2>1
      <4>2. C - 100 * pop > 0
        BY <3>3, SameCount DEF Schedule!Bias
      <4>3. 100 * (pop' - 1) < C
        <5> HIDE DEF C
        <5> QED BY <2>1, <3>1, <4>1, <4>2
      <4>4. QED
        BY <4>3
    <3>4. QED
      BY <2>3, <3>2, <3>3 DEF Schedule!Create, Schedule!DrawsCreate, Schedule!MayDrawCreate
  <2>4. ASSUME NEW n \in Node, Schedule!EagerCreate(n) PROVE FALSE
    BY <2>4 DEF Schedule!EagerCreate, Schedule!EagerCreateCandidates
  <2>5. ASSUME NEW n \in Node, Schedule!Delete(n) \/ Schedule!RollDelete(n)
        PROVE  pop' <= 1 \/ 100 * (pop' - 1) < (ChurnPct + FillPct) * Cardinality(Node)
    <3> DEFINE C == (ChurnPct + FillPct) * Cardinality(Node)
    <3>1. pop' = pop - 1
      BY <2>5 DEF Schedule!Delete, Schedule!RollDelete, Schedule!Vanish
    <3>2. C \in Int
      BY <1>1, <2>1
    <3>3. pop <= 1 \/ 100 * (pop - 1) < C
      BY <2>2
    <3>4. pop' <= 1 \/ 100 * (pop' - 1) < C
      <4> HIDE DEF C
      <4> QED BY <2>1, <3>1, <3>2, <3>3
    <3>5. QED
      BY <3>4
  <2>6. ASSUME \/ \E n \in Node : Schedule!Mutate(n) \/ Schedule!RollBegin(n)
               \/ UNCHANGED Schedule!vars
        PROVE  pop' = pop
    BY <2>6 DEF Schedule!Mutate, Schedule!RollBegin, Schedule!vars
  <2>7. QED
    BY <1>3, <2>2, <2>3, <2>4, <2>5, <2>6 DEF Schedule!Next
<1>4. QED
  BY <1>2, <1>3, SInvariance, PTL DEF Schedule!Spec

(***************************************************************************)
(* The engine, whatever its cloud calls do, therefore never decides on a   *)
(* create without its parents or a delete before the dependents, keeps     *)
(* the counter exact and the population under the ceiling, and replaces a  *)
(* rolling set one root at a time (step, roll, dispatchCreate,             *)
(* dispatchDelete).                                                        *)
(***************************************************************************)
THEOREM EngineKeepsSchedule ==
  Spec => /\ [](ParentsPresent /\ PopCounts)
          /\ []RollClosed /\ []PopulationCeiling
          /\ Schedule!PinnedStay /\ Schedule!OneRootAtATime
<1>1. Spec => Schedule!Spec
  BY ImplementsSchedule DEF ScheduleSpec
<1>2. Schedule!Spec => [](ParentsPresent /\ PopCounts)
  BY SInvariance, PTL DEF SInv
<1> QED BY <1>1, <1>2, RollsAreClosed, PopulationIsBounded, PinnedNodesStay, RollsTakeOneRoot, PTL

-----------------------------------------------------------------------------
(***************************************************************************)
(* Serialisation.  EInv is the inductive invariant.                        *)
(*                                                                         *)
(* Captured says what the closure of an operation took with it when it was *)
(* dispatched: its dependencies are earlier operations, its parents'       *)
(* creates are among them, and so is, for every earlier operation of the   *)
(* same node, that one or a later one.  Serial is the heart: an operation  *)
(* that runs, or that is past await in a run that is not cancelled, has    *)
(* all earlier operations of its node behind it.  The two halves are       *)
(* needed because a cancelled operation closes its done channel without    *)
(* having waited: after a cancellation "done" no longer says anything      *)
(* about earlier operations, but then nothing is admitted either.          *)
(***************************************************************************)
PresentClosed ==
  /\ \A n \in present : Parents[n] \subseteq present
  /\ rolling \subseteq present

Dispatched == \A o \in OpId : pc[o] = "none" <=> o > nops

Bookkeeping ==
  /\ \A n \in present : create[n] # NoOp
  /\ \A n \in Node : create[n] # NoOp =>
       create[n] \in 1..nops /\ op[create[n]].node = n
  /\ \A n \in Node : last[n] # NoOp =>
       last[n] \in 1..nops /\ op[last[n]].node = n
  /\ \A o \in 1..nops : op[o].node \in Node /\ o <= last[op[o].node]
  /\ \A i \in OpId : del[i] # NoOp =>
       /\ i \in 1..nops /\ del[i] \in 1..nops
       /\ op[del[i]].node = op[i].node
       /\ op[del[i]].kind = "delete" \/ i \in DOMAIN op[del[i]].retries
  /\ extra \subseteq 1..nops

CapturedRetry(ops, o, i, q) ==
  /\ i \in 1..(o - 1) /\ ops[i].node = ops[o].node
  /\ q \in 1..(o - 1) /\ ops[q].node = ops[o].node
  /\ ops[q].kind = "delete" \/ i \in DOMAIN ops[q].retries

CapturedBy(ops, o) ==
  /\ ops[o].parents \subseteq ops[o].deps
  /\ ops[o].deps \subseteq 1..(o - 1)
  /\ \A q \in 1..(o - 1) : ops[q].node = ops[o].node =>
       \E d \in ops[o].deps : q <= d /\ ops[d].node = ops[o].node
  /\ ops[o].kind # "create" =>
       ops[o].create \in 1..(o - 1) /\ ops[ops[o].create].node = ops[o].node
  /\ \A i \in DOMAIN ops[o].retries : CapturedRetry(ops, o, i, ops[o].retries[i])

Captured == \A o \in 1..nops : CapturedBy(op, o)

PastAwait(o) == pc[o] \in {"gate", "slot", "run", "exit", "closing", "done"}
Ordered(o) == pc[o] = "run" \/ (~cancelled /\ PastAwait(o))

Serial ==
  \A o \in 1..nops : Ordered(o) =>
    /\ \A d \in op[o].deps : Done(d)
    /\ \A q \in 1..(o - 1) : op[q].node = op[o].node => Done(q)

SettledFirst ==
  \A o \in OpId : pc[o] \in {"closing", "done"} => Unsettled(o) = {}

\* The operation that blocks the scheduler in launch is the latest one.
Launching == sched = "launch" => nops \in OpId /\ pc[nops] = "launch"

EInv == /\ TypeOK /\ PresentClosed /\ Dispatched /\ Launching /\ Bookkeeping
        /\ Captured /\ Serial /\ SettledFirst

(***************************************************************************)
(* The invariant is strong enough for the properties.                      *)
(***************************************************************************)
LEMMA SerialSuffices == EInv => NodeSerial /\ ReadsAreOrdered
<1> SUFFICES ASSUME EInv PROVE NodeSerial /\ ReadsAreOrdered
  OBVIOUS
<1>0. MaxOps \in Nat /\ nops \in 0..MaxOps
  BY EngineAssumption DEF EInv, TypeOK
<1>1. ASSUME NEW o \in Running
      PROVE  o \in 1..nops /\ Ordered(o) /\ pc[o] = "run"
  BY <1>0, <1>1 DEF Running, EInv, Dispatched, Ordered, OpId
<1>2. ASSUME NEW o \in Running, NEW q \in Running, op[o].node = op[q].node
      PROVE  o = q
  <2>1. o \in 1..nops /\ q \in 1..nops /\ o \in Int /\ q \in Int
    BY <1>0, <1>1
  <2>2. CASE q < o
    BY <1>1, <1>2, <2>1, <2>2 DEF EInv, Serial, Done
  <2>3. CASE o < q
    BY <1>1, <1>2, <2>1, <2>3 DEF EInv, Serial, Done
  <2>4. QED
    BY <2>1, <2>2, <2>3
<1>3. ASSUME NEW o \in Running
      PROVE  /\ \A p \in op[o].parents : Done(p)
             /\ op[o].kind # "create" => Done(op[o].create)
             /\ \A i \in DOMAIN op[o].retries :
                  Done(i) /\ AttemptDone(op[o].retries[i], i)
  <2>1. o \in 1..nops /\ Ordered(o)
    BY <1>1
  <2>2. \A p \in op[o].parents : Done(p)
    BY <2>1 DEF EInv, Captured, CapturedBy, Serial
  <2>3. op[o].kind # "create" => Done(op[o].create)
    BY <2>1 DEF EInv, Captured, CapturedBy, Serial
  <2>4. ASSUME NEW i \in DOMAIN op[o].retries
        PROVE  Done(i) /\ AttemptDone(op[o].retries[i], i)
    <3> DEFINE q == op[o].retries[i]
    <3>1. CapturedRetry(op, o, i, q)
      BY <2>1 DEF EInv, Captured, CapturedBy
    <3>2. Done(i) /\ Done(q) /\ q \in OpId
      BY <1>0, <2>1, <3>1 DEF EInv, Serial, CapturedRetry, OpId
    <3>3. Unsettled(q) = {}
      BY <3>2 DEF EInv, SettledFirst, Done
    <3>4. QED
      BY <3>1, <3>2, <3>3 DEF CapturedRetry, AttemptDone, Unsettled
  <2>5. QED
    BY <2>2, <2>3, <2>4
<1>4. QED
  BY <1>2, <1>3 DEF NodeSerial, ReadsAreOrdered

(***************************************************************************)
(* The initial state satisfies the invariant.                              *)
(***************************************************************************)
LEMMA EInitInv == Init => EInv
<1> SUFFICES ASSUME Init PROVE EInv
  OBVIOUS
<1>0. MaxOps \in Nat /\ MaxParallel \in Nat
  BY EngineAssumption
<1>1. NoRetries \in UNION {[S -> OpId] : S \in SUBSET OpId}
  <2>1. NoRetries \in [{} -> OpId]
    BY DEF NoRetries
  <2>2. QED
    BY <2>1
<1>2. Idle \in OpRecord
  BY <1>1 DEF Idle, OpRecord
<1>3. TypeOK
  <2>1. op \in [OpId -> OpRecord]
    BY <1>2 DEF Init
  <2>2. /\ create \in [Node -> OpId \union {NoOp}]
        /\ last \in [Node -> OpId \union {NoOp}]
        /\ del \in [OpId -> OpId \union {NoOp}]
    BY DEF Init
  <2>3. pc \in [OpId -> {"none", "launch", "await", "gate", "slot", "run",
                         "exit", "closing", "done"}]
    BY DEF Init
  <2>4. /\ pop \in Int /\ cycles \in Nat /\ budget \in 0..MaxParallel
        /\ nops \in 0..MaxOps
    BY <1>0 DEF Init
  <2>5. QED
    BY <2>1, <2>2, <2>3, <2>4 DEF Init, TypeOK
<1>4. PresentClosed /\ Dispatched /\ Launching /\ Captured /\ Serial /\ SettledFirst
  BY <1>0 DEF Init, PresentClosed, Dispatched, Launching, Captured, Serial,
              SettledFirst, OpId
<1>5. Bookkeeping
  BY <1>0 DEF Init, Bookkeeping, OpId
<1>6. QED
  BY <1>3, <1>4, <1>5 DEF EInv

(***************************************************************************)
(* What a dispatch hands to launch: a record that refers to operations     *)
(* dispatched before it, the last one of its node among its dependencies.  *)
(***************************************************************************)
Fresh(r) ==
  /\ r \in OpRecord /\ r.node \in Node
  /\ r.parents \subseteq r.deps /\ r.deps \subseteq 1..nops
  /\ last[r.node] # NoOp => last[r.node] \in r.deps
  /\ r.kind # "create" => r.create \in 1..nops /\ op[r.create].node = r.node
  /\ \A i \in DOMAIN r.retries :
       /\ i \in 1..nops /\ op[i].node = r.node
       /\ r.retries[i] \in 1..nops /\ op[r.retries[i]].node = r.node
       /\ \/ op[r.retries[i]].kind = "delete"
          \/ i \in DOMAIN op[r.retries[i]].retries

(***************************************************************************)
(* A dispatch of such a record preserves everything that speaks of         *)
(* dispatched operations.                                                  *)
(***************************************************************************)
LEMMA DispatchInv ==
  ASSUME EInv, NEW r, NEW room, Fresh(r), Dispatch(r, room), nops < MaxOps
  PROVE  /\ nops' = nops + 1 /\ nops + 1 \in OpId /\ nops' \in 0..MaxOps
         /\ op' \in [OpId -> OpRecord] /\ op'[nops + 1] = r
         /\ \A q \in 1..nops : op'[q] = op[q]
         /\ pc' \in [OpId -> {"none", "launch", "await", "gate", "slot", "run",
                              "exit", "closing", "done"}]
         /\ Dispatched' /\ Launching' /\ Captured' /\ Serial' /\ SettledFirst'
<1>0. MaxOps \in Nat /\ nops \in 0..MaxOps /\ nops \in Nat
  BY EngineAssumption DEF EInv, TypeOK
<1> DEFINE o == nops + 1
<1>1. /\ o \in OpId /\ nops' = o /\ nops' \in 0..MaxOps
      /\ op' = [op EXCEPT ![o] = r] /\ pc' = [pc EXCEPT ![o] = "launch"]
      /\ UNCHANGED <<settled, cancelled>>
  BY <1>0 DEF Dispatch, OpId
<1>2. op \in [OpId -> OpRecord] /\ r \in OpRecord
  BY DEF EInv, TypeOK, Fresh
<1>3. op' \in [OpId -> OpRecord] /\ op'[o] = r
  BY <1>1, <1>2
<1>4. \A q \in OpId : q # o => op'[q] = op[q] /\ pc'[q] = pc[q]
  BY <1>1, <1>2 DEF EInv, TypeOK
<1>5. \A q \in 1..nops : q \in OpId /\ q # o /\ op'[q] = op[q] /\ pc'[q] = pc[q]
  BY <1>0, <1>4 DEF OpId
<1>6. pc'[o] = "launch" /\ pc[o] = "none"
  BY <1>0, <1>1 DEF EInv, TypeOK, Dispatched
<1>7. Dispatched' /\ Launching'
  BY <1>0, <1>1, <1>4, <1>6 DEF EInv, Dispatched, Launching, OpId
<1>8. Captured'
  <2>1. ASSUME NEW p \in 1..nops PROVE CapturedBy(op', p)
    <3>1. op'[p] = op[p] /\ \A q \in 1..(p - 1) : op'[q] = op[q]
      BY <1>0, <1>5
    <3>2. CapturedBy(op, p)
      BY DEF EInv, Captured
    <3>3. ASSUME NEW i \in DOMAIN op[p].retries
          PROVE  CapturedRetry(op', p, i, op[p].retries[i])
      BY <3>1, <3>2 DEF CapturedBy, CapturedRetry
    <3>4. QED
      BY <3>1, <3>2, <3>3 DEF CapturedBy
  <2>2. CapturedBy(op', o)
    <3>1. 1..(o - 1) = 1..nops
      BY <1>0
    <3>2. ASSUME NEW q \in 1..nops, op'[q].node = r.node
          PROVE  \E d \in r.deps : q <= d /\ op'[d].node = r.node
      <4>1. q <= last[r.node] /\ q \in 1..nops /\ op[q].node = r.node
        BY <1>5, <3>2 DEF EInv, Bookkeeping
      <4>2. last[r.node] # NoOp
        BY <1>0, <4>1 DEF NoOp, Fresh, EInv, TypeOK
      <4>3. last[r.node] \in 1..nops /\ op[last[r.node]].node = r.node
        BY <4>2 DEF EInv, Bookkeeping, Fresh
      <4>4. last[r.node] \in r.deps
        BY <4>2 DEF Fresh
      <4>5. QED
        BY <1>5, <4>1, <4>3, <4>4
    <3>3. ASSUME NEW i \in DOMAIN r.retries
          PROVE  CapturedRetry(op', o, i, r.retries[i])
      BY <1>3, <1>5, <3>1 DEF CapturedRetry, Fresh
    <3>4. r.kind # "create" => r.create \in 1..nops /\ op'[r.create].node = r.node
      BY <1>5 DEF Fresh
    <3>5. r.parents \subseteq r.deps /\ r.deps \subseteq 1..nops
      BY DEF Fresh
    <3> HIDE DEF o
    <3>6. QED
      BY <1>3, <3>1, <3>2, <3>3, <3>4, <3>5 DEF CapturedBy
  <2>3. 1..nops' = (1..nops) \union {o}
    BY <1>0, <1>1
  <2>4. QED
    BY <2>1, <2>2, <2>3 DEF Captured
<1>9. Serial'
  <2>1. ASSUME NEW p \in 1..nops', Ordered(p)'
        PROVE  /\ \A d \in op'[p].deps : Done(d)'
               /\ \A q \in 1..(p - 1) : op'[q].node = op'[p].node => Done(q)'
    <3>1. p # o
      BY <1>6, <2>1 DEF Ordered, PastAwait
    <3>2. p \in 1..nops
      BY <1>0, <1>1, <3>1
    <3>3. Ordered(p)
      BY <1>1, <1>5, <2>1, <3>2 DEF Ordered, PastAwait
    <3>4. op[p].deps \subseteq 1..nops
      BY <1>0, <3>2 DEF EInv, Captured, CapturedBy
    <3>5. \A q \in 1..(p - 1) : q \in 1..nops
      BY <1>0, <3>2
    <3>6. QED
      BY <1>5, <3>2, <3>3, <3>4, <3>5 DEF EInv, Serial, Done
  <2>2. QED
    BY <2>1 DEF Serial
<1>10. SettledFirst'
  BY <1>1, <1>4, <1>6 DEF EInv, SettledFirst, Unsettled
<1>11. pc' \in [OpId -> {"none", "launch", "await", "gate", "slot", "run",
                         "exit", "closing", "done"}]
  BY <1>1 DEF EInv, TypeOK
<1>12. QED
  BY <1>1, <1>3, <1>5, <1>7, <1>8, <1>9, <1>10, <1>11

(***************************************************************************)
(* How an operation can move, and what that leaves of its outcomes.        *)
(***************************************************************************)
Moves(o, w) ==
  /\ pc' = [pc EXCEPT ![o] = w]
  /\ \/ /\ pc[o] = "await" /\ w \in {"gate", "slot"}
        /\ \A d \in op[o].deps : Done(d)
     \/ pc[o] \in {"await", "gate", "slot"} /\ w = "exit" /\ cancelled
     \/ pc[o] = "gate" /\ w = "slot"
     \/ pc[o] = "slot" /\ w = "run" /\ ~cancelled
     \/ pc[o] = "run" /\ w = "exit"
     \/ pc[o] = "exit" /\ w = "closing" /\ Unsettled(o) = {}
     \/ pc[o] = "closing" /\ w = "done"

OutcomesTyped ==
  /\ token \subseteq OpId /\ res \subseteq OpId /\ failed \subseteq OpId
  /\ deleteFailed \subseteq OpId \X OpId
  /\ ids \subseteq OpId \X OpId /\ settled \subseteq OpId \X OpId
  /\ cloud \subseteq OpId /\ confirmed \subseteq OpId
  /\ cycles \in Nat

(***************************************************************************)
(* Every step of an operation is one of these moves or leaves it where it  *)
(* is, and never takes a settled retry back.                               *)
(***************************************************************************)
LEMMA OpStepMoves ==
  ASSUME EInv, NEW o \in OpId, OpStep(o)
  PROVE  /\ settled \subseteq settled'
         /\ OutcomesTyped'
         /\ UNCHANGED pc \/ \E w : Moves(o, w)
<1>0. OutcomesTyped
  BY DEF EInv, TypeOK, OutcomesTyped
<1>1. CASE AwaitDeps(o) \/ TakeGate(o) \/ TakeSlot(o) \/ NotAdmitted(o)
  <2>1. UNCHANGED <<token, outcomes>>
    BY <1>1 DEF AwaitDeps, TakeGate, TakeSlot, NotAdmitted
  <2>2. Moves(o, "gate") \/ Moves(o, "slot") \/ Moves(o, "run") \/ Moves(o, "exit")
    BY <1>1 DEF AwaitDeps, TakeGate, TakeSlot, NotAdmitted, Goto, Moves
  <2>3. QED
    BY <1>0, <2>1, <2>2 DEF outcomes, OutcomesTyped
<1>2. ASSUME NEW i \in OpId,
             RetryDeletes(o, i) \/ RetryFails(o, i) \/ RetrySkips(o, i) \/ Settle(o, i)
      PROVE  settled \subseteq settled' /\ OutcomesTyped' /\ UNCHANGED pc
  <2>1. CASE RetryDeletes(o, i)
    BY <1>0, <2>1 DEF RetryDeletes, InheritIDs, OutcomesTyped
  <2>2. CASE RetryFails(o, i)
    BY <1>0, <2>2 DEF RetryFails, FailedDelete, InheritIDs, OutcomesTyped
  <2>3. CASE RetrySkips(o, i)
    BY <1>0, <2>3 DEF RetrySkips, Inherit, InheritIDs, OutcomesTyped
  <2>4. CASE Settle(o, i)
    BY <1>0, <2>4 DEF Settle, Inherit, InheritIDs, OutcomesTyped
  <2>5. QED
    BY <1>2, <2>1, <2>2, <2>3, <2>4
<1>3. ASSUME NEW i \in OpId, RetryPanics(o, i)
      PROVE  settled \subseteq settled' /\ OutcomesTyped' /\ Moves(o, "exit")
  BY <1>0, <1>3 DEF RetryPanics, Retrying, FailedDelete, Goto, Moves, OutcomesTyped
<1>4. CASE CreateSucceeds(o) \/ CreateUnready(o) \/ CreateFails(o) \/ CreatePanics(o)
  <2>1. settled' = settled /\ Moves(o, "exit")
    BY <1>4 DEF CreateSucceeds, CreateUnready, CreateFails, CreatePanics, Creating,
                Goto, Moves
  <2>2. OutcomesTyped'
    BY <1>0, <1>4 DEF CreateSucceeds, CreateUnready, CreateFails, CreatePanics,
                      FailedCreate, OutcomesTyped
  <2>3. QED
    BY <2>1, <2>2
<1>5. CASE CreateSkips(o) \/ MutateEnds(o)
  <2>1. UNCHANGED <<token, outcomes>> /\ Moves(o, "exit")
    BY <1>5 DEF CreateSkips, MutateEnds, Goto, Moves
  <2>2. QED
    BY <1>0, <2>1 DEF outcomes, OutcomesTyped
<1>6. CASE DeleteSucceeds(o) \/ DeleteFails(o) \/ DeleteSkips(o)
  <2>1. pc[o] = "run" /\ op[o].kind = "delete"
    BY <1>6 DEF DeleteSucceeds, DeleteFails, DeleteSkips, Deleting
  <2>2. op[o].create \in OpId
    <3>1. MaxOps \in Nat /\ nops \in 0..MaxOps
      BY EngineAssumption DEF EInv, TypeOK
    <3>2. o \in 1..nops
      BY <2>1, <3>1 DEF EInv, Dispatched, OpId
    <3>3. op[o].create \in 1..(o - 1)
      BY <2>1, <3>2 DEF EInv, Captured, CapturedBy
    <3>4. QED
      BY <3>1, <3>2, <3>3 DEF OpId
  <2>3. settled' = settled /\ Moves(o, "exit")
    BY <1>6, <2>1 DEF DeleteSucceeds, DeleteFails, DeleteSkips, Goto, Moves
  <2>4. OutcomesTyped'
    <3>1. CASE DeleteSucceeds(o)
      BY <1>0, <2>2, <3>1 DEF DeleteSucceeds, Attempt, OutcomesTyped
    <3>2. CASE DeleteFails(o)
      BY <1>0, <2>2, <3>2 DEF DeleteFails, FailedDelete, Attempt, OutcomesTyped
    <3>3. CASE DeleteSkips(o)
      BY <1>0, <2>2, <3>3 DEF DeleteSkips, Attempt, OutcomesTyped
    <3>4. QED
      BY <1>6, <3>1, <3>2, <3>3
  <2>5. QED
    BY <2>3, <2>4
<1>7. CASE Exit(o) \/ Close(o)
  <2>1. UNCHANGED outcomes /\ token' \subseteq token
    BY <1>7 DEF Exit, Close
  <2>2. Moves(o, "closing") \/ Moves(o, "done")
    BY <1>7 DEF Exit, Close, Goto, Moves
  <2>3. QED
    BY <1>0, <2>1, <2>2 DEF outcomes, OutcomesTyped
<1>8. QED
  BY <1>1, <1>2, <1>3, <1>4, <1>5, <1>6, <1>7 DEF OpStep

(***************************************************************************)
(* Steps of operations preserve the invariant.                             *)
(***************************************************************************)
LEMMA OpStepInv ==
  ASSUME EInv, NEW o \in OpId, OpStep(o)
  PROVE  EInv'
<1>0. MaxOps \in Nat /\ nops \in 0..MaxOps
  BY EngineAssumption DEF EInv, TypeOK
<1>1. /\ UNCHANGED <<present, mutated, pop, rolling, create, last, del, sched, budget,
                     extra, nops, op, cancelled>>
  BY OpStepsLeaveScheduler DEF Scheduler, schedule, states, loop
<1>2. /\ settled \subseteq settled' /\ OutcomesTyped'
      /\ UNCHANGED pc \/ \E w : Moves(o, w)
  BY OpStepMoves
<1>3. PresentClosed' /\ Bookkeeping' /\ Captured'
  BY <1>1 DEF EInv, PresentClosed, Bookkeeping, Captured
<1>4. /\ pc' \in [OpId -> {"none", "launch", "await", "gate", "slot", "run",
                           "exit", "closing", "done"}]
      /\ \A q \in OpId : q # o => pc'[q] = pc[q]
      /\ \A q \in OpId : Done(q) => Done(q)'
      /\ pc[o] = "none" <=> pc'[o] = "none"
  BY <1>2 DEF EInv, TypeOK, Moves, Done
<1>5. TypeOK'
  BY <1>1, <1>2, <1>4 DEF EInv, TypeOK, OutcomesTyped
<1>6. Dispatched' /\ Launching'
  <2>1. pc[o] = "launch" => pc'[o] = "launch"
    BY <1>2 DEF Moves
  <2>2. QED
    BY <1>1, <1>4, <2>1 DEF EInv, Dispatched, Launching
<1>7. Serial'
  <2>1. ASSUME NEW p \in 1..nops, Ordered(p)'
        PROVE  /\ \A d \in op[p].deps : Done(d)
               /\ \A q \in 1..(p - 1) : op[q].node = op[p].node => Done(q)
    <3>1. p \in OpId
      BY <1>0 DEF OpId
    <3>2. CASE Ordered(p)
      BY <2>1, <3>2 DEF EInv, Serial
    <3>3. CASE ~Ordered(p)
      <4>1. p = o /\ ~UNCHANGED pc
        BY <1>1, <1>4, <2>1, <3>1, <3>3 DEF Ordered, PastAwait
      <4>2. ~cancelled /\ pc[o] = "await" /\ \A d \in op[o].deps : Done(d)
        <5>1. PICK w : Moves(o, w)
          BY <1>2, <4>1
        <5>2. pc'[o] = w
          BY <5>1 DEF EInv, TypeOK, Moves
        <5>3. QED
          BY <1>1, <2>1, <3>3, <4>1, <5>1, <5>2 DEF Moves, Ordered, PastAwait
      <4>3. ASSUME NEW q \in 1..(p - 1), op[q].node = op[p].node PROVE Done(q)
        <5>1. PICK d \in op[p].deps : q <= d /\ op[d].node = op[p].node
          BY <4>3 DEF EInv, Captured, CapturedBy
        <5>2. d \in 1..(p - 1) /\ Done(d)
          BY <4>1, <4>2, <5>1 DEF EInv, Captured, CapturedBy
        <5>3. d \in 1..nops /\ Ordered(d)
          BY <1>0, <4>2, <5>2 DEF Ordered, PastAwait, Done
        <5>4. CASE q = d
          BY <5>2, <5>4
        <5>5. CASE q < d
          BY <4>3, <5>1, <5>3, <5>5 DEF EInv, Serial
        <5>6. QED
          BY <1>0, <5>1, <5>2, <5>4, <5>5
      <4>4. QED
        BY <4>1, <4>2, <4>3
    <3>4. QED
      BY <3>2, <3>3
  <2>2. ASSUME NEW p \in 1..nops
        PROVE  op[p].deps \subseteq OpId /\ \A q \in 1..(p - 1) : q \in OpId
    BY <1>0 DEF EInv, Captured, CapturedBy, OpId
  <2>3. QED
    BY <1>1, <1>4, <2>1, <2>2 DEF Serial
<1>8. SettledFirst'
  <2>1. ASSUME NEW p \in OpId, pc'[p] \in {"closing", "done"} PROVE Unsettled(p)' = {}
    <3>1. Unsettled(p)' \subseteq Unsettled(p)
      BY <1>1, <1>2 DEF Unsettled
    <3>2. Unsettled(p) = {}
      <4>1. CASE pc[p] \in {"closing", "done"}
        BY <4>1 DEF EInv, SettledFirst
      <4>2. CASE pc[p] \notin {"closing", "done"}
        <5>1. p = o /\ ~UNCHANGED pc
          BY <1>4, <2>1, <4>2
        <5>2. PICK w : Moves(o, w)
          BY <1>2, <5>1
        <5>3. pc'[o] = w
          BY <5>2 DEF EInv, TypeOK, Moves
        <5>4. QED
          BY <2>1, <4>2, <5>1, <5>2, <5>3 DEF Moves
      <4>3. QED
        BY <4>1, <4>2
    <3>3. QED
      BY <3>1, <3>2
  <2>2. QED
    BY <2>1 DEF SettledFirst
<1>9. QED
  BY <1>3, <1>5, <1>6, <1>7, <1>8 DEF EInv

(***************************************************************************)
(* The parents of a present node, or of a create candidate, have creates.  *)
(***************************************************************************)
LEMMA ParentOpsExist ==
  ASSUME EInv, NEW n \in Node, Parents[n] \subseteq present
  PROVE  ParentOps(n) \subseteq 1..nops
BY DEF EInv, TypeOK, Bookkeeping, ParentOps

(***************************************************************************)
(* The retries a create takes over refer to operations of its node.        *)
(***************************************************************************)
LEMMA UnconfirmedOps ==
  ASSUME EInv, NEW n \in Node, NEW i \in Unconfirmed(n)
  PROVE  /\ i \in OpId /\ i \in 1..nops /\ op[i].node = n
         /\ del[i] \in 1..nops /\ op[del[i]].node = n
         /\ op[del[i]].kind = "delete" \/ i \in DOMAIN op[del[i]].retries
BY DEF EInv, Bookkeeping, Unconfirmed, Retired

(***************************************************************************)
(* The three kinds of record a dispatch writes.                            *)
(***************************************************************************)
CreateRecord(n, o) ==
  [kind |-> "create", node |-> n, deps |-> Prior(n) \union ParentOps(n),
   parents |-> ParentOps(n), create |-> o,
   retries |-> [i \in Unconfirmed(n) |-> del[i]]]

DeleteRecord(n) ==
  [kind |-> "delete", node |-> n, deps |-> DeleteDeps(n),
   parents |-> ParentOps(n), create |-> create[n], retries |-> NoRetries]

MutateRecord(n) ==
  [kind |-> "mutate", node |-> n, deps |-> Prior(n) \union ParentOps(n),
   parents |-> ParentOps(n), create |-> create[n], retries |-> NoRetries]

(***************************************************************************)
(* They are fresh.                                                         *)
(***************************************************************************)
LEMMA CreateIsFresh ==
  ASSUME EInv, NEW n \in CreateCandidates(present), nops < MaxOps,
         NEW o, o = nops + 1, NEW r, r = CreateRecord(n, o)
  PROVE  Fresh(r)
<1>0. MaxOps \in Nat /\ nops \in 0..MaxOps /\ o \in OpId
  BY EngineAssumption DEF EInv, TypeOK, OpId
<1>1. n \in Node /\ n \notin present /\ Parents[n] \subseteq present
  BY DEF CreateCandidates
<1> DEFINE U == Unconfirmed(n)
<1>2. ParentOps(n) \subseteq 1..nops
  BY <1>1, ParentOpsExist
<1>3. Prior(n) \subseteq 1..nops
  BY <1>1 DEF EInv, Bookkeeping, Prior
<1>4. 1..nops \subseteq OpId
  BY <1>0 DEF OpId
<1>5. U \subseteq OpId /\ \A i \in U : del[i] \in OpId
  BY <1>1, <1>4, UnconfirmedOps
<1>6. [i \in U |-> del[i]] \in UNION {[S -> OpId] : S \in SUBSET OpId}
  <2>1. [i \in U |-> del[i]] \in [U -> OpId]
    BY <1>5
  <2>2. QED
    BY <1>5, <2>1
<1>7. r \in OpRecord
  BY <1>0, <1>1, <1>2, <1>3, <1>4, <1>6 DEF OpRecord, CreateRecord
<1>8. last[n] # NoOp => last[n] \in Prior(n)
  BY DEF Prior
<1>9. ASSUME NEW i \in U
      PROVE  /\ i \in 1..nops /\ op[i].node = n
             /\ del[i] \in 1..nops /\ op[del[i]].node = n
             /\ op[del[i]].kind = "delete" \/ i \in DOMAIN op[del[i]].retries
  BY <1>1, UnconfirmedOps
<1>10. QED
  BY <1>1, <1>2, <1>3, <1>7, <1>8, <1>9 DEF Fresh, CreateRecord

LEMMA DeleteIsFresh ==
  ASSUME EInv, NEW n \in present, nops < MaxOps, NEW r, r = DeleteRecord(n)
  PROVE  Fresh(r)
<1>0. MaxOps \in Nat /\ nops \in 0..MaxOps /\ NoOp \notin OpId /\ 1..nops \subseteq OpId
  BY EngineAssumption DEF EInv, TypeOK, OpId, NoOp
<1>1. n \in Node /\ Parents[n] \subseteq present /\ create[n] # NoOp
  BY DEF EInv, TypeOK, PresentClosed, Bookkeeping
<1>2. create[n] \in 1..nops /\ op[create[n]].node = n
  BY <1>1 DEF EInv, Bookkeeping
<1>3. ParentOps(n) \subseteq 1..nops
  BY <1>1, ParentOpsExist
<1>4. DeleteDeps(n) \subseteq 1..nops
  <2>1. Prior(n) \subseteq 1..nops /\ extra \subseteq 1..nops
    BY <1>1 DEF EInv, Bookkeeping, Prior
  <2>2. {last[c] : c \in Children(n) \ present} \ {NoOp} \subseteq 1..nops
    BY DEF EInv, Bookkeeping, Children
  <2>3. QED
    BY <1>3, <2>1, <2>2 DEF DeleteDeps
<1>5. NoRetries \in [{} -> OpId] /\ DOMAIN NoRetries = {}
  BY DEF NoRetries
<1>6. NoRetries \in UNION {[S -> OpId] : S \in SUBSET OpId}
  BY <1>5
<1>7. r \in OpRecord
  BY <1>0, <1>1, <1>2, <1>3, <1>4, <1>6 DEF OpRecord, DeleteRecord
<1>8. last[n] # NoOp => last[n] \in DeleteDeps(n)
  BY DEF Prior, DeleteDeps
<1>9. ParentOps(n) \subseteq DeleteDeps(n)
  BY <1>0, <1>3 DEF DeleteDeps
<1>10. QED
  BY <1>1, <1>2, <1>4, <1>5, <1>7, <1>8, <1>9 DEF Fresh, DeleteRecord

LEMMA MutateIsFresh ==
  ASSUME EInv, NEW n \in present, nops < MaxOps, NEW r, r = MutateRecord(n)
  PROVE  Fresh(r)
<1>0. MaxOps \in Nat /\ nops \in 0..MaxOps /\ NoOp \notin OpId /\ 1..nops \subseteq OpId
  BY EngineAssumption DEF EInv, TypeOK, OpId, NoOp
<1>1. n \in Node /\ Parents[n] \subseteq present /\ create[n] # NoOp
  BY DEF EInv, TypeOK, PresentClosed, Bookkeeping
<1>2. create[n] \in 1..nops /\ op[create[n]].node = n
  BY <1>1 DEF EInv, Bookkeeping
<1>3. ParentOps(n) \subseteq 1..nops /\ Prior(n) \subseteq 1..nops
  BY <1>1, ParentOpsExist DEF EInv, Bookkeeping, Prior
<1>4. NoRetries \in [{} -> OpId] /\ DOMAIN NoRetries = {}
  BY DEF NoRetries
<1>5. NoRetries \in UNION {[S -> OpId] : S \in SUBSET OpId}
  BY <1>4
<1>6. r \in OpRecord
  BY <1>0, <1>1, <1>2, <1>3, <1>5 DEF OpRecord, MutateRecord
<1>7. last[n] # NoOp => last[n] \in Prior(n)
  BY DEF Prior
<1>8. QED
  BY <1>1, <1>2, <1>3, <1>4, <1>6, <1>7 DEF Fresh, MutateRecord

(***************************************************************************)
(* A dispatched create preserves the invariant.                            *)
(***************************************************************************)
LEMMA DispatchCreateInv ==
  ASSUME EInv, NEW n \in CreateCandidates(present), Deciding, DispatchCreate(n),
         budget' = budget - 1, UNCHANGED <<rolling, extra>>
  PROVE  EInv'
<1>0. MaxOps \in Nat /\ nops \in 0..MaxOps /\ MaxParallel \in Nat /\ NoOp \notin OpId
  BY EngineAssumption DEF EInv, TypeOK, OpId, NoOp
<1>1. n \in Node /\ n \notin present /\ Parents[n] \subseteq present
  BY DEF CreateCandidates
<1> DEFINE o == nops + 1
           U == Unconfirmed(n)
           r == [kind |-> "create", node |-> n, deps |-> Prior(n) \union ParentOps(n),
                 parents |-> ParentOps(n), create |-> o,
                 retries |-> [i \in U |-> del[i]]]
<1>2. /\ Dispatch(r, 1)
      /\ del' = [i \in OpId |-> IF i \in U THEN o ELSE del[i]]
      /\ deleteFailed' = deleteFailed \union ({o} \X U)
      /\ present' = present \union {n}
      /\ mutated' = mutated \ {n}
      /\ create' = [create EXCEPT ![n] = o]
      /\ last' = [last EXCEPT ![n] = o]
      /\ pop' = pop + 1
  BY DEF DispatchCreate
<1>3. nops < MaxOps /\ o \in OpId
  BY <1>0, <1>2 DEF Dispatch, OpId
<1>6. 1..nops \subseteq OpId
  BY <1>0 DEF OpId
<1>7. U \subseteq OpId /\ \A i \in U : del[i] \in OpId
  BY <1>1, <1>6, UnconfirmedOps
<1>8. Fresh(r)
  <2>1. r = CreateRecord(n, o)
    BY DEF CreateRecord
  <2>2. QED
    BY <1>3, <2>1, CreateIsFresh
<1>9. /\ nops' = o /\ nops' \in 0..MaxOps
      /\ op' \in [OpId -> OpRecord] /\ op'[o] = r
      /\ \A q \in 1..nops : op'[q] = op[q]
      /\ pc' \in [OpId -> {"none", "launch", "await", "gate", "slot", "run",
                           "exit", "closing", "done"}]
      /\ Dispatched' /\ Launching' /\ Captured' /\ Serial' /\ SettledFirst'
  BY <1>2, <1>3, <1>8, DispatchInv
<1>10. TypeOK'
  <2>1. /\ create' \in [Node -> OpId \union {NoOp}]
        /\ last' \in [Node -> OpId \union {NoOp}]
        /\ del' \in [OpId -> OpId \union {NoOp}]
    BY <1>2, <1>3 DEF EInv, TypeOK
  <2>2. deleteFailed' \subseteq OpId \X OpId
    BY <1>2, <1>3, <1>7 DEF EInv, TypeOK
  <2>3. pop' \in Int /\ budget' \in 0..MaxParallel
    BY <1>0, <1>2 DEF EInv, TypeOK, Deciding
  <2>4. present' \subseteq Node /\ mutated' \subseteq Node
    BY <1>1, <1>2 DEF EInv, TypeOK
  <2>5. /\ sched' = "launch"
        /\ UNCHANGED <<token, res, failed, settled, ids, cloud, confirmed, cycles,
                       cancelled>>
    BY <1>2 DEF Dispatch
  <2>6. QED
    BY <1>9, <2>1, <2>2, <2>3, <2>4, <2>5 DEF EInv, TypeOK
<1>11. PresentClosed'
  BY <1>1, <1>2 DEF EInv, PresentClosed
<1>12. Bookkeeping'
  <2> HIDE DEF o, r, U
  <2>0. /\ nops \in Nat /\ o \in 1..o /\ 1..o = (1..nops) \union {o} /\ o \notin 1..nops
        /\ r.node = n /\ r.retries = [i \in U |-> del[i]]
    BY <1>0 DEF o, r
  <2>1. \A m \in Node : /\ create'[m] = (IF m = n THEN o ELSE create[m])
                        /\ last'[m] = (IF m = n THEN o ELSE last[m])
    BY <1>2 DEF EInv, TypeOK
  <2>2. o # NoOp
    BY <1>0, <1>3
  <2>3. \A m \in present' : create'[m] # NoOp
    <3>1. present \subseteq Node /\ \A m \in present : create[m] # NoOp
      BY DEF EInv, TypeOK, Bookkeeping
    <3>2. QED
      BY <1>1, <1>2, <2>1, <2>2, <3>1
  <2>4. \A m \in Node : create'[m] # NoOp => create'[m] \in 1..nops' /\ op'[create'[m]].node = m
    BY <1>9, <2>0, <2>1 DEF EInv, Bookkeeping
  <2>5. \A m \in Node : last'[m] # NoOp => last'[m] \in 1..nops' /\ op'[last'[m]].node = m
    BY <1>9, <2>0, <2>1 DEF EInv, Bookkeeping
  <2>6. ASSUME NEW q \in 1..nops'
        PROVE  op'[q].node \in Node /\ q <= last'[op'[q].node]
    <3>1. CASE q = o
      BY <1>1, <1>3, <1>9, <2>0, <2>1, <3>1 DEF OpId
    <3>2. CASE q \in 1..nops
      <4>1. op'[q] = op[q] /\ op[q].node \in Node /\ q <= last[op[q].node]
        BY <1>9, <3>2 DEF EInv, Bookkeeping
      <4>2. q <= o
        BY <2>0, <3>2 DEF o
      <4>3. QED
        BY <2>1, <4>1, <4>2
    <3>3. QED
      BY <1>9, <2>0, <3>1, <3>2
  <2>7. ASSUME NEW i \in OpId, del'[i] # NoOp
        PROVE  /\ i \in 1..nops' /\ del'[i] \in 1..nops'
               /\ op'[del'[i]].node = op'[i].node
               /\ op'[del'[i]].kind = "delete" \/ i \in DOMAIN op'[del'[i]].retries
    <3>1. CASE i \in U
      <4>1. i \in 1..nops /\ op[i].node = n
        BY <1>1, <3>1, UnconfirmedOps DEF U
      <4>2. del'[i] = o
        BY <1>2, <3>1
      <4>3. QED
        BY <1>9, <2>0, <3>1, <4>1, <4>2
    <3>2. CASE i \notin U
      <4>1. del'[i] = del[i]
        BY <1>2, <3>2
      <4>2. /\ i \in 1..nops /\ del[i] \in 1..nops
            /\ op[del[i]].node = op[i].node
            /\ op[del[i]].kind = "delete" \/ i \in DOMAIN op[del[i]].retries
        BY <2>7, <4>1 DEF EInv, Bookkeeping
      <4>3. QED
        BY <1>9, <2>0, <4>1, <4>2
    <3>3. QED
      BY <3>1, <3>2
  <2>8. extra' \subseteq 1..nops'
    BY <1>9, <2>0 DEF EInv, Bookkeeping
  <2>9. QED
    BY <2>3, <2>4, <2>5, <2>6, <2>7, <2>8 DEF Bookkeeping
<1>13. QED
  BY <1>9, <1>10, <1>11, <1>12 DEF EInv

(***************************************************************************)
(* A dispatched delete of a node without present dependents preserves the  *)
(* invariant.                                                              *)
(***************************************************************************)
LEMMA DispatchDeleteInv ==
  ASSUME EInv, NEW n \in present, Children(n) \cap present = {}, NEW room,
         nops < MaxOps, DispatchDelete(n, room),
         budget' \in 0..MaxParallel, rolling' \subseteq rolling \ {n}, extra' \subseteq extra
  PROVE  EInv'
<1>0. MaxOps \in Nat /\ nops \in 0..MaxOps /\ MaxParallel \in Nat /\ NoOp \notin OpId
  BY EngineAssumption DEF EInv, TypeOK, OpId, NoOp
<1>1. n \in Node /\ Parents[n] \subseteq present /\ create[n] # NoOp
  BY DEF EInv, TypeOK, PresentClosed, Bookkeeping
<1> DEFINE o == nops + 1
           i0 == create[n]
           U == Unconfirmed(n)
           r == [kind |-> "delete", node |-> n, deps |-> DeleteDeps(n),
                 parents |-> ParentOps(n), create |-> i0, retries |-> NoRetries]
<1>2. /\ Dispatch(r, room)
      /\ del' = [j \in OpId |-> IF j = i0 THEN o
                                ELSE IF j \in Retired(n) \ U THEN NoOp ELSE del[j]]
      /\ deleteFailed' = deleteFailed \union {<<o, i0>>}
      /\ present' = present \ {n}
      /\ last' = [last EXCEPT ![n] = o]
      /\ pop' = pop - 1
      /\ UNCHANGED <<mutated, create>>
  BY DEF DispatchDelete
<1>3. o \in OpId /\ 1..nops \subseteq OpId
  BY <1>0 DEF OpId
<1>4. i0 \in 1..nops /\ op[i0].node = n
  BY <1>1 DEF EInv, Bookkeeping
<1>7. Fresh(r)
  <2>1. r = DeleteRecord(n)
    BY DEF DeleteRecord
  <2>2. QED
    BY <2>1, DeleteIsFresh
<1>8. /\ nops' = o /\ nops' \in 0..MaxOps
      /\ op' \in [OpId -> OpRecord] /\ op'[o] = r
      /\ \A q \in 1..nops : op'[q] = op[q]
      /\ pc' \in [OpId -> {"none", "launch", "await", "gate", "slot", "run",
                           "exit", "closing", "done"}]
      /\ Dispatched' /\ Launching' /\ Captured' /\ Serial' /\ SettledFirst'
  BY <1>2, <1>7, DispatchInv
<1>9. TypeOK'
  <2>1. /\ last' \in [Node -> OpId \union {NoOp}]
        /\ del' \in [OpId -> OpId \union {NoOp}]
    BY <1>2, <1>3 DEF EInv, TypeOK
  <2>2. deleteFailed' \subseteq OpId \X OpId
    BY <1>2, <1>3, <1>4 DEF EInv, TypeOK
  <2>3. pop' \in Int
    BY <1>2 DEF EInv, TypeOK
  <2>4. /\ sched' = "launch"
        /\ UNCHANGED <<token, res, failed, settled, ids, cloud, confirmed, cycles,
                       cancelled>>
    BY <1>2 DEF Dispatch
  <2>5. /\ present' \subseteq Node /\ rolling' \subseteq Node /\ extra' \subseteq OpId
        /\ UNCHANGED <<mutated, create>>
    BY <1>2 DEF EInv, TypeOK
  <2>6. QED
    BY <1>8, <2>1, <2>2, <2>3, <2>4, <2>5 DEF EInv, TypeOK
<1>10. PresentClosed'
  BY <1>1, <1>2 DEF EInv, TypeOK, PresentClosed, Children
<1>11. Bookkeeping'
  <2> HIDE DEF o, r, U, i0
  <2>0. /\ nops \in Nat /\ o \in 1..o /\ 1..o = (1..nops) \union {o} /\ o \notin 1..nops
        /\ r.node = n /\ r.kind = "delete"
    BY <1>0 DEF o, r
  <2>1. \A m \in Node : last'[m] = (IF m = n THEN o ELSE last[m])
    BY <1>2 DEF EInv, TypeOK
  <2>2. create' = create /\ \A m \in present' : m \in present
    BY <1>2
  <2>3. \A m \in present' : create'[m] # NoOp
    BY <2>2 DEF EInv, Bookkeeping
  <2>4. \A m \in Node : create'[m] # NoOp => create'[m] \in 1..nops' /\ op'[create'[m]].node = m
    BY <1>8, <2>0, <2>2 DEF EInv, Bookkeeping
  <2>5. \A m \in Node : last'[m] # NoOp => last'[m] \in 1..nops' /\ op'[last'[m]].node = m
    BY <1>8, <2>0, <2>1 DEF EInv, Bookkeeping
  <2>6. ASSUME NEW q \in 1..nops'
        PROVE  op'[q].node \in Node /\ q <= last'[op'[q].node]
    <3>1. CASE q = o
      BY <1>1, <1>3, <1>8, <2>0, <2>1, <3>1 DEF OpId
    <3>2. CASE q \in 1..nops
      <4>1. op'[q] = op[q] /\ op[q].node \in Node /\ q <= last[op[q].node]
        BY <1>8, <3>2 DEF EInv, Bookkeeping
      <4>2. q <= o
        BY <2>0, <3>2 DEF o
      <4>3. QED
        BY <2>1, <4>1, <4>2
    <3>3. QED
      BY <1>8, <2>0, <3>1, <3>2
  <2>7. ASSUME NEW i \in OpId, del'[i] # NoOp
        PROVE  /\ i \in 1..nops' /\ del'[i] \in 1..nops'
               /\ op'[del'[i]].node = op'[i].node
               /\ op'[del'[i]].kind = "delete" \/ i \in DOMAIN op'[del'[i]].retries
    <3>1. CASE i = i0
      <4>1. del'[i] = o
        BY <1>2, <3>1
      <4>2. QED
        BY <1>4, <1>8, <2>0, <3>1, <4>1
    <3>2. CASE i # i0
      <4>1. del'[i] = del[i]
        BY <1>2, <2>7, <3>2
      <4>2. /\ i \in 1..nops /\ del[i] \in 1..nops
            /\ op[del[i]].node = op[i].node
            /\ op[del[i]].kind = "delete" \/ i \in DOMAIN op[del[i]].retries
        BY <2>7, <4>1 DEF EInv, Bookkeeping
      <4>3. QED
        BY <1>8, <2>0, <4>1, <4>2
    <3>3. QED
      BY <3>1, <3>2
  <2>8. extra' \subseteq 1..nops'
    BY <1>8, <2>0 DEF EInv, Bookkeeping
  <2>9. QED
    BY <2>3, <2>4, <2>5, <2>6, <2>7, <2>8 DEF Bookkeeping
<1>12. QED
  BY <1>8, <1>9, <1>10, <1>11 DEF EInv

(***************************************************************************)
(* A dispatched mutation preserves the invariant.                          *)
(***************************************************************************)
LEMMA DispatchMutateInv ==
  ASSUME EInv, NEW n \in present, Deciding, DispatchMutate(n),
         budget' = budget - 1, UNCHANGED <<rolling, extra>>
  PROVE  EInv'
<1>0. MaxOps \in Nat /\ nops \in 0..MaxOps /\ MaxParallel \in Nat /\ NoOp \notin OpId
  BY EngineAssumption DEF EInv, TypeOK, OpId, NoOp
<1>1. n \in Node /\ Parents[n] \subseteq present /\ create[n] # NoOp
  BY DEF EInv, TypeOK, PresentClosed, Bookkeeping
<1> DEFINE o == nops + 1
           r == [kind |-> "mutate", node |-> n, deps |-> Prior(n) \union ParentOps(n),
                 parents |-> ParentOps(n), create |-> create[n], retries |-> NoRetries]
<1>2. /\ Dispatch(r, 1)
      /\ mutated' = mutated \union {n}
      /\ last' = [last EXCEPT ![n] = o]
      /\ UNCHANGED <<present, pop, create, del, deleteFailed>>
  BY DEF DispatchMutate
<1>3. nops < MaxOps /\ o \in OpId /\ 1..nops \subseteq OpId
  BY <1>0, <1>2 DEF Dispatch, OpId
<1>6. Fresh(r)
  <2>1. r = MutateRecord(n)
    BY DEF MutateRecord
  <2>2. QED
    BY <1>3, <2>1, MutateIsFresh
<1>7. /\ nops' = o /\ nops' \in 0..MaxOps
      /\ op' \in [OpId -> OpRecord] /\ op'[o] = r
      /\ \A q \in 1..nops : op'[q] = op[q]
      /\ pc' \in [OpId -> {"none", "launch", "await", "gate", "slot", "run",
                           "exit", "closing", "done"}]
      /\ Dispatched' /\ Launching' /\ Captured' /\ Serial' /\ SettledFirst'
  BY <1>2, <1>3, <1>6, DispatchInv
<1>8. TypeOK'
  <2>1. last' \in [Node -> OpId \union {NoOp}]
    BY <1>2, <1>3 DEF EInv, TypeOK
  <2>2. budget' \in 0..MaxParallel /\ mutated' \subseteq Node
    BY <1>0, <1>1, <1>2 DEF EInv, TypeOK, Deciding
  <2>3. /\ sched' = "launch"
        /\ UNCHANGED <<token, res, failed, settled, ids, cloud, confirmed, cycles,
                       cancelled>>
    BY <1>2 DEF Dispatch
  <2>4. QED
    BY <1>2, <1>7, <2>1, <2>2, <2>3 DEF EInv, TypeOK
<1>9. PresentClosed'
  BY <1>2 DEF EInv, PresentClosed
<1>10. Bookkeeping'
  <2> HIDE DEF o, r
  <2>0. /\ nops \in Nat /\ o \in 1..o /\ 1..o = (1..nops) \union {o} /\ o \notin 1..nops
        /\ r.node = n
    BY <1>0 DEF o, r
  <2>1. \A m \in Node : last'[m] = (IF m = n THEN o ELSE last[m])
    BY <1>2 DEF EInv, TypeOK
  <2>2. \A m \in present' : create'[m] # NoOp
    BY <1>2 DEF EInv, Bookkeeping
  <2>3. \A m \in Node : create'[m] # NoOp => create'[m] \in 1..nops' /\ op'[create'[m]].node = m
    BY <1>2, <1>7, <2>0 DEF EInv, Bookkeeping
  <2>4. \A m \in Node : last'[m] # NoOp => last'[m] \in 1..nops' /\ op'[last'[m]].node = m
    BY <1>7, <2>0, <2>1 DEF EInv, Bookkeeping
  <2>5. ASSUME NEW q \in 1..nops'
        PROVE  op'[q].node \in Node /\ q <= last'[op'[q].node]
    <3>1. CASE q = o
      BY <1>1, <1>3, <1>7, <2>0, <2>1, <3>1 DEF OpId
    <3>2. CASE q \in 1..nops
      <4>1. op'[q] = op[q] /\ op[q].node \in Node /\ q <= last[op[q].node]
        BY <1>7, <3>2 DEF EInv, Bookkeeping
      <4>2. q <= o
        BY <2>0, <3>2 DEF o
      <4>3. QED
        BY <2>1, <4>1, <4>2
    <3>3. QED
      BY <1>7, <2>0, <3>1, <3>2
  <2>6. ASSUME NEW i \in OpId, del'[i] # NoOp
        PROVE  /\ i \in 1..nops' /\ del'[i] \in 1..nops'
               /\ op'[del'[i]].node = op'[i].node
               /\ op'[del'[i]].kind = "delete" \/ i \in DOMAIN op'[del'[i]].retries
    <3>1. /\ del'[i] = del[i]
          /\ i \in 1..nops /\ del[i] \in 1..nops
          /\ op[del[i]].node = op[i].node
          /\ op[del[i]].kind = "delete" \/ i \in DOMAIN op[del[i]].retries
      BY <1>2, <2>6 DEF EInv, Bookkeeping
    <3>2. QED
      BY <1>7, <2>0, <3>1
  <2>7. extra' \subseteq 1..nops'
    BY <1>7, <2>0 DEF EInv, Bookkeeping
  <2>8. QED
    BY <2>2, <2>3, <2>4, <2>5, <2>6, <2>7 DEF Bookkeeping
<1>11. QED
  BY <1>7, <1>8, <1>9, <1>10 DEF EInv

(***************************************************************************)
(* The steps of the scheduler that dispatch nothing preserve the           *)
(* invariant.  Launch moves the operation just dispatched to await; a      *)
(* cancellation weakens what Serial asks for.                              *)
(***************************************************************************)
LEMMA SchedulerInv ==
  ASSUME EInv, StepNoop \/ Launch \/ Tick \/ Stop \/ Return \/ Cancel
  PROVE  EInv'
<1>0. MaxOps \in Nat /\ nops \in 0..MaxOps /\ MaxParallel \in Nat
  BY EngineAssumption DEF EInv, TypeOK
<1>1. CASE Launch
  <2>1. /\ sched = "launch" /\ sched' \in {"loop", "step"}
        /\ pc' = [pc EXCEPT ![nops] = "await"] /\ token' \subseteq token \union {nops}
        /\ UNCHANGED <<present, mutated, pop, rolling, create, last, del, budget, extra,
                       nops, op, res, failed, deleteFailed, ids, settled, cloud,
                       confirmed, cycles, cancelled>>
    BY <1>1 DEF Launch, schedule, states, outcomes
  <2>2. nops \in OpId /\ pc[nops] = "launch"
    BY <2>1 DEF EInv, Launching
  <2>3. /\ pc' \in [OpId -> {"none", "launch", "await", "gate", "slot", "run",
                             "exit", "closing", "done"}]
        /\ \A q \in OpId : q # nops => pc'[q] = pc[q]
        /\ pc'[nops] = "await"
    BY <2>1, <2>2 DEF EInv, TypeOK
  <2>4. TypeOK'
    BY <2>1, <2>2, <2>3 DEF EInv, TypeOK
  <2>5. PresentClosed' /\ Bookkeeping' /\ Captured'
    BY <2>1 DEF EInv, PresentClosed, Bookkeeping, Captured
  <2>6. Dispatched' /\ Launching'
    BY <2>1, <2>2, <2>3 DEF EInv, Dispatched, Launching
  <2>7. SettledFirst'
    BY <2>1, <2>3 DEF EInv, SettledFirst, Unsettled
  <2>8. Serial'
    <3>1. ASSUME NEW p \in 1..nops, Ordered(p)'
          PROVE  /\ \A d \in op[p].deps : Done(d)'
                 /\ \A q \in 1..(p - 1) : op[q].node = op[p].node => Done(q)'
      <4>1. p \in OpId /\ p # nops
        BY <1>0, <2>3, <3>1 DEF Ordered, PastAwait, OpId
      <4>2. Ordered(p)
        BY <2>1, <2>3, <3>1, <4>1 DEF Ordered, PastAwait
      <4>3. \A q \in OpId : Done(q) => Done(q)'
        BY <2>2, <2>3 DEF Done
      <4>4. op[p].deps \subseteq OpId /\ \A q \in 1..(p - 1) : q \in OpId
        BY <1>0 DEF EInv, Captured, CapturedBy, OpId
      <4>5. QED
        BY <4>2, <4>3, <4>4 DEF EInv, Serial
    <3>2. QED
      BY <2>1, <3>1 DEF Serial
  <2>9. QED
    BY <2>4, <2>5, <2>6, <2>7, <2>8 DEF EInv
<1>2. CASE StepNoop \/ Tick \/ Stop \/ Return \/ Cancel
  <2>1. /\ UNCHANGED <<present, mutated, pop, rolling, create, last, del, extra, nops, op,
                       pc, token, res, failed, deleteFailed, ids, settled, cloud,
                       confirmed, cycles>>
        /\ cancelled => cancelled'
        /\ sched' = "launch" => sched = "launch"
    BY <1>2 DEF StepNoop, Tick, Stop, Return, Cancel, schedule, states, outcomes, loop
  <2>2. /\ sched' \in {"loop", "step", "launch", "drain", "returned"}
        /\ budget' \in 0..MaxParallel /\ cancelled' \in BOOLEAN
    <3>1. /\ sched \in {"loop", "step", "launch", "drain", "returned"}
          /\ budget \in 0..MaxParallel /\ cancelled \in BOOLEAN
      BY DEF EInv, TypeOK
    <3>2. CASE StepNoop
      BY <1>0, <3>1, <3>2 DEF StepNoop, Deciding
    <3>3. CASE Tick
      BY <1>0, <3>1, <3>3 DEF Tick
    <3>4. CASE Stop \/ Return
      BY <3>1, <3>4 DEF Stop, Return
    <3>5. CASE Cancel
      BY <3>1, <3>5 DEF Cancel, loop
    <3>6. QED
      BY <1>2, <3>2, <3>3, <3>4, <3>5
  <2>3. TypeOK'
    BY <2>1, <2>2 DEF EInv, TypeOK
  <2>4. PresentClosed' /\ Bookkeeping' /\ Captured' /\ Dispatched' /\ Launching'
    BY <2>1 DEF EInv, PresentClosed, Bookkeeping, Captured, Dispatched, Launching
  <2>5. SettledFirst'
    BY <2>1 DEF EInv, SettledFirst, Unsettled
  <2>6. \A p \in 1..nops : Ordered(p)' => Ordered(p)
    BY <2>1 DEF Ordered, PastAwait
  <2>7. Serial'
    BY <2>1, <2>6 DEF EInv, Serial, Done
  <2>8. QED
    BY <2>3, <2>4, <2>5, <2>7 DEF EInv
<1>3. QED
  BY <1>1, <1>2

(***************************************************************************)
(* Beginning a roll preserves the invariant.                               *)
(***************************************************************************)
LEMMA RollBeginInv ==
  ASSUME EInv, NEW n \in Node, RollBegin(n)
  PROVE  EInv'
<1>0. MaxOps \in Nat /\ nops \in 0..MaxOps /\ MaxParallel \in Nat
  BY EngineAssumption DEF EInv, TypeOK
<1>1. /\ UNCHANGED <<present, mutated, pop, create, last, del, sched, nops, op, pc, token,
                     res, failed, deleteFailed, ids, settled, cloud, confirmed, cycles,
                     cancelled>>
      /\ rolling' \subseteq present
      /\ extra' = RollExtra(n)
      /\ budget' = budget - 1 /\ budget > 0
  BY DEF RollBegin, Deciding, states, outcomes
<1>2. extra' \subseteq 1..nops
  BY <1>1 DEF RollExtra, RollSet, EInv, Bookkeeping
<1>3. budget' \in 0..MaxParallel /\ rolling' \subseteq Node /\ extra' \subseteq OpId
  BY <1>0, <1>1, <1>2 DEF EInv, TypeOK, OpId
<1>4. TypeOK'
  BY <1>1, <1>3 DEF EInv, TypeOK
<1>5. Bookkeeping'
  BY <1>1, <1>2 DEF EInv, Bookkeeping
<1>6. PresentClosed' /\ Captured' /\ Dispatched' /\ Launching'
  BY <1>1 DEF EInv, PresentClosed, Captured, Dispatched, Launching
<1>7. Serial' /\ SettledFirst'
  BY <1>1 DEF EInv, Serial, Ordered, PastAwait, Done, SettledFirst, Unsettled
<1>8. QED
  BY <1>4, <1>5, <1>6, <1>7 DEF EInv

(***************************************************************************)
(* Every step of the engine preserves the invariant.                       *)
(***************************************************************************)
LEMMA EStepInv == EInv /\ [Next]_vars => EInv'
<1> SUFFICES ASSUME EInv, [Next]_vars PROVE EInv'
  OBVIOUS
<1>0. /\ MaxOps \in Nat /\ nops \in 0..MaxOps /\ MaxParallel \in Nat
      /\ budget \in 0..MaxParallel /\ rolling \subseteq Node
  BY EngineAssumption DEF EInv, TypeOK
<1>1. ASSUME NEW n \in Node, StepEagerCreate(n) PROVE EInv'
  BY <1>1, DispatchCreateInv DEF StepEagerCreate, EagerCreateCandidates
<1>2. ASSUME NEW n \in Node, StepMutate(n) PROVE EInv'
  BY <1>2, DispatchMutateInv DEF StepMutate, MutateCandidates
<1>3. ASSUME NEW n \in Node, StepCreate(n) PROVE EInv'
  BY <1>3, DispatchCreateInv DEF StepCreate
<1>4. ASSUME NEW n \in Node, StepDelete(n) PROVE EInv'
  <2>1. n \in present /\ Children(n) \cap present = {}
    BY <1>4 DEF StepDelete, DeleteCandidates
  <2>2. nops < MaxOps /\ budget' \in 0..MaxParallel
    BY <1>0, <1>4 DEF StepDelete, DispatchDelete, Dispatch, Deciding
  <2>3. rolling' \subseteq rolling \ {n} /\ extra' \subseteq extra
    BY <1>4 DEF StepDelete, Deciding
  <2>4. QED
    BY <1>4, <2>1, <2>2, <2>3, DispatchDeleteInv DEF StepDelete
<1>5. ASSUME NEW n \in Node, RollBegin(n) PROVE EInv'
  BY <1>5, RollBeginInv
<1>6. ASSUME NEW n \in Node, RollDelete(n) PROVE EInv'
  <2>1. n \in rolling /\ Children(n) \cap present = {} /\ DispatchDelete(n, Cardinality(rolling))
    BY <1>6 DEF RollDelete
  <2>2. Cardinality(rolling) \in Nat /\ Cardinality(rolling) # 0
    BY <1>0, <2>1, NodeAssumption, FS_Subset, FS_CardinalityType, FS_EmptySet
  <2>3. nops < MaxOps
    <3>1. nops + Cardinality(rolling) <= MaxOps
      BY <2>1 DEF DispatchDelete, Dispatch
    <3>2. QED
      BY <1>0, <2>2, <3>1
  <2>4. /\ budget' \in 0..MaxParallel /\ rolling' \subseteq rolling \ {n}
        /\ extra' \subseteq extra
    BY <1>0, <1>6 DEF RollDelete
  <2>5. n \in present
    BY <2>1 DEF EInv, PresentClosed
  <2>6. QED
    BY <2>1, <2>3, <2>4, <2>5, DispatchDeleteInv
<1>7. CASE StepNoop \/ Launch \/ Tick \/ Stop \/ Return \/ Cancel
  BY <1>7, SchedulerInv
<1>8. ASSUME NEW o \in OpId, OpStep(o) PROVE EInv'
  BY <1>8, OpStepInv
<1>9. CASE Terminated \/ UNCHANGED vars
  <2>1. UNCHANGED <<present, mutated, pop, rolling, create, last, del, sched, budget, extra,
                    nops, op, pc, token, res, failed, deleteFailed, ids, settled, cloud,
                    confirmed, cycles, cancelled>>
    BY <1>9 DEF Terminated, vars, schedule, states, loop, outcomes
  <2>2. TypeOK' /\ PresentClosed' /\ Dispatched' /\ Launching'
    BY <2>1 DEF EInv, TypeOK, PresentClosed, Dispatched, Launching
  <2>3. Bookkeeping' /\ Captured'
    BY <2>1 DEF EInv, Bookkeeping, Captured
  <2>4. Serial' /\ SettledFirst'
    BY <2>1 DEF EInv, Serial, Ordered, PastAwait, Done, SettledFirst, Unsettled
  <2>5. QED
    BY <2>2, <2>3, <2>4 DEF EInv
<1>10. QED
  BY <1>1, <1>2, <1>3, <1>4, <1>5, <1>6, <1>7, <1>8, <1>9 DEF Next, Decide

(***************************************************************************)
(* The invariant holds in every state of every run.                        *)
(***************************************************************************)
LEMMA EInvariance == Spec => []EInv
BY EInitInv, EStepInv, PTL DEF Spec

(***************************************************************************)
(* Type correctness: in particular no operation depends on a create that   *)
(* was never dispatched (a nil op in parentOps).                           *)
(***************************************************************************)
THEOREM EngineTypeCorrect == Spec => []TypeOK
BY EInvariance, PTL DEF EInv

(***************************************************************************)
(* Two operations of one node never run at the same time, whatever fails,  *)
(* panics or is cancelled, for every graph and every number of slots.      *)
(***************************************************************************)
THEOREM NodesAreSerial == Spec => []NodeSerial
BY EInvariance, SerialSuffices, PTL

(***************************************************************************)
(* A running operation reads another operation's fields only after its     *)
(* done channel is closed: the engine has no data race on them.            *)
(***************************************************************************)
THEOREM ReadsAfterDone == Spec => []ReadsAreOrdered
BY EInvariance, SerialSuffices, PTL

(***************************************************************************)
(* After the cancellation no operation starts to run, whichever of the     *)
(* ready cases the select of await picks.                                  *)
(***************************************************************************)
THEOREM NoAdmissionAfterCancel == Spec => NothingAdmittedAfterCancel
<1> DEFINE NoneStarts == cancelled => {o \in OpId : pc'[o] = "run"} \subseteq Running
<1>1. ASSUME EInv, [Next]_vars, cancelled, NEW q \in OpId, pc'[q] = "run"
      PROVE  pc[q] = "run"
  <2>0. pc \in [OpId -> {"none", "launch", "await", "gate", "slot", "run",
                         "exit", "closing", "done"}]
    BY <1>1 DEF EInv, TypeOK
  <2>1. CASE \E r, room : Dispatch(r, room)
    BY <1>1, <2>0, <2>1 DEF Dispatch
  <2>2. CASE \E n \in Node : StepEagerCreate(n) \/ StepCreate(n)
    BY <2>1, <2>2 DEF StepEagerCreate, StepCreate, DispatchCreate
  <2>3. CASE \E n \in Node : StepMutate(n)
    BY <2>1, <2>3 DEF StepMutate, DispatchMutate
  <2>4. CASE \E n \in Node : StepDelete(n) \/ RollDelete(n)
    BY <2>1, <2>4 DEF StepDelete, RollDelete, DispatchDelete
  <2>5. CASE Launch
    BY <1>1, <2>0, <2>5 DEF Launch
  <2>6. CASE \/ \E n \in Node : RollBegin(n)
             \/ StepNoop \/ Tick \/ Stop \/ Return \/ Cancel \/ Terminated
             \/ UNCHANGED vars
    BY <1>1, <2>6 DEF RollBegin, StepNoop, Tick, Stop, Return, Cancel, Terminated, vars
  <2>7. ASSUME NEW o \in OpId, OpStep(o) PROVE pc[q] = "run"
    <3>1. UNCHANGED pc \/ \E w : Moves(o, w)
      BY <1>1, <2>7, OpStepMoves
    <3>2. QED
      BY <1>1, <2>0, <3>1 DEF Moves
  <2>8. QED
    BY <1>1, <2>2, <2>3, <2>4, <2>5, <2>6, <2>7 DEF Next, Decide
<1>2. EInv /\ [Next]_vars => [NoneStarts]_vars
  BY <1>1 DEF Running
<1>3. QED
  BY <1>2, EInvariance, PTL DEF Spec, NothingAdmittedAfterCancel

-----------------------------------------------------------------------------
(***************************************************************************)
(* The history of an instance: its create, the delete that first tried to  *)
(* remove it, and the creates of its node that took the delete over.  HInv *)
(* is inductive together with EInv.                                        *)
(*                                                                         *)
(* Chained: the attempts at an instance form a chain that starts with a    *)
(* delete, each later one takes over an attempt at least as late as every  *)
(* other before it, del names the latest, and an instance without attempts *)
(* is the current one of its node.                                         *)
(* ChildrenFirst: a delete waits for all that happened before it under its *)
(* node, and every instance there already has a delete behind it.          *)
(* Verdicts: an attempt that is not in deleteFailed is over and its        *)
(* instance is gone or never was; along the chain a verdict is never lost; *)
(* what was confirmed gone has an attempt that says so.                    *)
(* Instances: what the engine has an id for is current, retired or         *)
(* confirmed gone; what is gone from the cloud has no pending reader.      *)
(* IdsKnown: outside a cancelled run an attempt that ran knows its         *)
(* parents' ids, and so does the one before a retry that may run.          *)
(* SerialUnder: once an operation runs, or is past await in a run that     *)
(* goes on, whatever came before a delete of its node, below it, has       *)
(* finished.                                                               *)
(***************************************************************************)
IsAttempt(o, i) ==
  /\ o \in 1..nops
  /\ \/ op[o].kind = "delete" /\ op[o].create = i
     \/ op[o].kind = "create" /\ i \in DOMAIN op[o].retries

FirstDelete(x, i) == x \in 1..nops /\ op[x].kind = "delete" /\ op[x].create = i
Current(i) == op[i].node \in present /\ create[op[i].node] = i

Chained ==
  /\ \A o \in 1..nops : op[o].kind # "create" => DOMAIN op[o].retries = {}
  /\ \A n \in Node : create[n] # NoOp => op[create[n]].kind = "create"
  /\ \A n \in present : \A o \in 1..nops : ~IsAttempt(o, create[n])
  /\ \A i \in OpId : del[i] # NoOp =>
       IsAttempt(del[i], i) /\ \A o \in 1..nops : IsAttempt(o, i) => o <= del[i]
  /\ \A o \in 1..nops : \A i \in OpId : IsAttempt(o, i) =>
       /\ i \in 1..(o - 1) /\ op[i].kind = "create" /\ op[i].node = op[o].node
       /\ \E x \in 1..o : FirstDelete(x, i)
       /\ op[o].kind = "create" => IsAttempt(op[o].retries[i], i)
  /\ \A o, q \in 1..nops : \A i \in OpId : IsAttempt(o, i) /\ IsAttempt(q, i) /\ o < q =>
       op[q].kind = "create" /\ o <= op[q].retries[i]
  /\ \A i \in 1..nops : op[i].kind = "create" /\ ~Current(i) =>
       \E x \in 1..nops : FirstDelete(x, i)

Above(p, q) == op[p].node \in Parents[op[q].node]
ChildrenFirst ==
  /\ \A q \in 1..nops : \A p \in op[q].parents : Above(p, q)
  /\ \A x \in 1..nops : \A q \in 1..(x - 1) : op[x].kind = "delete" /\ Above(x, q) =>
       /\ \E e \in op[x].deps : q <= e /\ op[e].node = op[q].node
       /\ op[q].kind = "create" => \E y \in 1..(x - 1) : FirstDelete(y, q)
  /\ \A x, q \in 1..nops : op[x].kind = "delete" /\ op[x].create \in op[q].parents => q < x

Ran(o) == pc[o] \in {"exit", "closing", "done"}
Verdicts ==
  /\ \A o, i \in OpId : <<o, i>> \in settled => IsAttempt(o, i)
  /\ \A o \in 1..nops : \A i \in OpId : IsAttempt(o, i) /\ <<o, i>> \notin deleteFailed =>
       /\ Done(i) /\ i \notin res \ confirmed
       /\ IF op[o].kind = "delete" THEN Ran(o) ELSE <<o, i>> \in settled
  /\ \A o, q \in 1..nops : \A i \in OpId :
       IsAttempt(o, i) /\ IsAttempt(q, i) /\ o < q /\ AttemptDone(q, i) =>
         AttemptDone(o, i) /\ (<<o, i>> \notin deleteFailed => <<q, i>> \notin deleteFailed)
  /\ \A i \in confirmed : \E o \in 1..nops : IsAttempt(o, i) /\ <<o, i>> \notin deleteFailed

Instances ==
  /\ \A i \in res : i \in 1..nops /\ op[i].kind = "create"
  /\ \A i \in 1..nops : op[i].kind = "create" /\ (~Done(i) \/ i \in res \ confirmed) =>
       del[i] # NoOp \/ Current(i)
  /\ \A i \in confirmed : i \notin cloud /\ Done(i)
  /\ \A i \in res \ cloud : /\ \E x \in 1..nops : FirstDelete(x, i)
                            /\ \A q \in 1..nops : i \in op[q].parents => Done(q)

IdsKnown ==
  \A o \in 1..nops : \A i \in OpId : IsAttempt(o, i) =>
    /\ op[o].kind = "delete" /\ Ran(o) => <<o, i>> \in ids \/ cancelled
    /\ op[o].kind = "create" /\ <<o, i>> \in settled => <<o, i>> \in ids \/ cancelled
    /\ op[o].kind = "create" /\ Ordered(o) => <<op[o].retries[i], i>> \in ids

Under(q, o) == \E x \in 1..o : /\ op[x].kind = "delete" /\ op[x].node = op[o].node
                               /\ q < x /\ Above(x, q)
Finished(q) == Done(q) /\ (op[q].kind = "delete" => <<q, op[q].create>> \in ids)
SerialUnder == \A o \in 1..nops : Ordered(o) => \A q \in 1..nops : Under(q, o) => Finished(q)

HInv == Chained /\ ChildrenFirst /\ Verdicts /\ Instances /\ IdsKnown /\ SerialUnder

(***************************************************************************)
(* The initial state satisfies the history invariant.                      *)
(***************************************************************************)
LEMMA HInitInv == Init => HInv
<1> SUFFICES ASSUME Init PROVE HInv
  OBVIOUS
<1>1. /\ nops = 0 /\ \A o : o \notin 1..nops
      /\ res = {} /\ confirmed = {} /\ settled = {} /\ present = {}
      /\ \A n \in Node : create[n] = NoOp
      /\ \A i \in OpId : del[i] = NoOp
  BY DEF Init
<1>2. Chained
  BY <1>1 DEF Chained, IsAttempt, FirstDelete
<1>3. ChildrenFirst
  BY <1>1 DEF ChildrenFirst
<1>4. Verdicts /\ Instances /\ IdsKnown /\ SerialUnder
  BY <1>1 DEF Verdicts, Instances, IdsKnown, SerialUnder
<1>5. QED
  BY <1>2, <1>3, <1>4 DEF HInv

(***************************************************************************)
(* What a step of operation o does to the outcomes, in the terms of the    *)
(* history: only its own attempts get a verdict, and only once.            *)
(***************************************************************************)
Growth ==
  /\ settled \subseteq settled' /\ ids \subseteq ids'
  /\ confirmed \subseteq confirmed' /\ res \subseteq res'
  /\ deleteFailed' \subseteq deleteFailed

Verdict(o) ==
  \A x, j \in OpId : <<x, j>> \in deleteFailed /\ <<x, j>> \notin deleteFailed' =>
    /\ x = o /\ IsAttempt(o, j) /\ ~AttemptDone(o, j)
    /\ Done(j) /\ j \notin res' \ confirmed'
    /\ IF op[o].kind = "delete" THEN Ran(o)' ELSE <<o, j>> \in settled'

SettlesOwn(o) ==
  \A x, j \in OpId : <<x, j>> \in settled' /\ <<x, j>> \notin settled =>
    /\ x = o /\ op[o].kind = "create" /\ j \in Unsettled(o)
    /\ pc[o] \in {"run", "exit"}
    /\ AttemptDone(op[o].retries[j], j)
    /\ <<op[o].retries[j], j>> \notin deleteFailed => <<o, j>> \notin deleteFailed'
    /\ <<op[o].retries[j], j>> \in ids => <<o, j>> \in ids'

CloudCalls(o) ==
  /\ \A j \in OpId : j \in (res' \ res) \union (cloud' \ cloud) =>
       j = o /\ pc[o] = "run" /\ op[o].kind = "create"
  /\ \A j \in OpId : j \in confirmed' \ confirmed =>
       j \notin cloud' /\ Done(j) /\ IsAttempt(o, j) /\ <<o, j>> \notin deleteFailed'
  /\ \A j \in OpId : j \in res' \ cloud' /\ j \notin res \ cloud =>
       pc[o] = "run" /\ IsAttempt(o, j)

Resolves(o) ==
  op[o].kind = "delete" /\ Ran(o)' => Ran(o) \/ cancelled \/ <<o, op[o].create>> \in ids'

Effects(o) == Growth /\ Verdict(o) /\ SettlesOwn(o) /\ CloudCalls(o) /\ Resolves(o)

(***************************************************************************)
(* A running operation finds what it retries, and what it deletes, done.   *)
(***************************************************************************)
LEMMA RunningReads ==
  ASSUME EInv, NEW o \in OpId, pc[o] = "run"
  PROVE  /\ o \in 1..nops /\ Ordered(o)
         /\ op[o].kind # "create" => Done(op[o].create) /\ op[o].create \in 1..(o - 1)
         /\ \A i \in DOMAIN op[o].retries :
              /\ Done(i) /\ AttemptDone(op[o].retries[i], i)
              /\ op[o].retries[i] \in 1..(o - 1)
<1>0. MaxOps \in Nat /\ nops \in 0..MaxOps
  BY EngineAssumption DEF EInv, TypeOK
<1>1. o \in 1..nops /\ Ordered(o)
  BY <1>0 DEF EInv, Dispatched, Ordered, OpId
<1>2. ReadsAreOrdered /\ o \in Running
  BY SerialSuffices DEF Running
<1>3. QED
  BY <1>1, <1>2 DEF ReadsAreOrdered, EInv, Captured, CapturedBy, CapturedRetry

(***************************************************************************)
(* The retry under way is the first unsettled one.                         *)
(***************************************************************************)
LEMMA FirstUnsettled ==
  ASSUME EInv, NEW o \in 1..nops, Unsettled(o) # {}
  PROVE  Min(Unsettled(o)) \in Unsettled(o)
<1> DEFINE S == Unsettled(o)
<1>0. MaxOps \in Nat /\ nops \in 0..MaxOps
  BY EngineAssumption DEF EInv, TypeOK
<1>1. S \in SUBSET Nat
  BY <1>0 DEF Unsettled, EInv, Captured, CapturedBy, CapturedRetry
<1>2. PICK m \in S : \A j \in S : ~(<<j, m>> \in OpToRel(<, Nat))
  BY <1>1, WFMin, NatLessThanWellFounded
<1>3. \A j \in S : m <= j
  <2>1. ASSUME NEW j \in S, ~(m <= j) PROVE FALSE
    <3>1. <<j, m>> \in Nat \X Nat /\ j < m
      BY <1>1, <2>1
    <3>2. QED
      BY <1>2, <3>1 DEF OpToRel
  <2>2. QED
    BY <2>1
<1> HIDE DEF S
<1>4. Min(S) \in S
  BY <1>2, <1>3 DEF Min
<1>5. QED
  BY <1>4 DEF S

(***************************************************************************)
(* What a retry, or the settling of one, knows of the attempt before it.   *)
(***************************************************************************)
LEMMA RetryFacts ==
  ASSUME EInv, HInv, NEW o \in OpId, NEW i \in OpId, Retrying(o, i) \/ Settle(o, i)
  PROVE  /\ o \in 1..nops /\ op[o].kind = "create" /\ pc[o] \in {"run", "exit"}
         /\ i \in Unsettled(o) /\ IsAttempt(o, i) /\ ~AttemptDone(o, i)
         /\ op[o].retries[i] \in OpId /\ op[o].retries[i] \in 1..(o - 1)
         /\ IsAttempt(op[o].retries[i], i)
         /\ AttemptDone(op[o].retries[i], i)
<1>0. MaxOps \in Nat /\ nops \in 0..MaxOps
  BY EngineAssumption DEF EInv, TypeOK
<1>1. o \in 1..nops /\ pc[o] \in {"run", "exit"}
  BY <1>0 DEF EInv, Dispatched, Retrying, Settle, OpId
<1>2. i \in Unsettled(o)
  BY <1>1, FirstUnsettled DEF Retrying, Settle
<1>3. i \in DOMAIN op[o].retries /\ <<o, i>> \notin settled
  BY <1>2 DEF Unsettled
<1>4. op[o].kind = "create"
  <2>1. op[o].kind = "create" \/ DOMAIN op[o].retries = {}
    BY <1>1 DEF HInv, Chained
  <2>2. QED
    BY <1>3, <2>1
<1>5. IsAttempt(o, i) /\ ~AttemptDone(o, i)
  BY <1>1, <1>3, <1>4 DEF IsAttempt, AttemptDone
<1>6. IsAttempt(op[o].retries[i], i)
  BY <1>1, <1>4, <1>5 DEF HInv, Chained
<1>7. AttemptDone(op[o].retries[i], i)
  BY <1>3, RunningReads DEF Retrying, Settle
<1>8. op[o].retries[i] \in 1..(o - 1) /\ op[o].retries[i] \in OpId
  BY <1>0, <1>1, <1>3 DEF EInv, Captured, CapturedBy, CapturedRetry, OpId
<1>9. QED
  BY <1>1, <1>2, <1>4, <1>5, <1>6, <1>7, <1>8

(***************************************************************************)
(* Steps that only move the operation.                                     *)
(***************************************************************************)
LEMMA QuietEffects ==
  ASSUME EInv, HInv, NEW o \in OpId,
         \/ AwaitDeps(o) \/ TakeGate(o) \/ TakeSlot(o) \/ NotAdmitted(o)
         \/ CreateSkips(o) \/ MutateEnds(o) \/ Exit(o) \/ Close(o)
  PROVE  Effects(o)
<1>1. UNCHANGED <<op, cancelled, res, deleteFailed, ids, settled, cloud, confirmed>>
  BY DEF AwaitDeps, TakeGate, TakeSlot, NotAdmitted, CreateSkips, MutateEnds, Exit, Close,
         outcomes, Scheduler
<1>2. Growth /\ Verdict(o) /\ SettlesOwn(o) /\ CloudCalls(o)
  BY <1>1 DEF Growth, Verdict, SettlesOwn, CloudCalls
<1>3. pc \in [OpId -> {"none", "launch", "await", "gate", "slot", "run",
                       "exit", "closing", "done"}]
  BY DEF EInv, TypeOK
<1>4. Resolves(o)
  <2>1. CASE AwaitDeps(o) \/ TakeGate(o) \/ TakeSlot(o)
    BY <1>3, <2>1 DEF AwaitDeps, TakeGate, TakeSlot, Goto, Resolves, Ran
  <2>2. CASE NotAdmitted(o)
    BY <2>2 DEF NotAdmitted, Resolves
  <2>3. CASE CreateSkips(o) \/ MutateEnds(o)
    BY <2>3 DEF CreateSkips, MutateEnds, Resolves
  <2>4. CASE Exit(o) \/ Close(o)
    BY <2>4 DEF Exit, Close, Resolves, Ran
  <2>5. QED
    BY <2>1, <2>2, <2>3, <2>4
<1>5. QED
  BY <1>2, <1>4 DEF Effects

(***************************************************************************)
(* The calls and skips of a create.                                        *)
(***************************************************************************)
LEMMA CreateEffects ==
  ASSUME EInv, HInv, NEW o \in OpId,
         CreateSucceeds(o) \/ CreateUnready(o) \/ CreateFails(o) \/ CreatePanics(o)
  PROVE  Effects(o)
<1>1. /\ UNCHANGED <<op, deleteFailed, ids, settled, confirmed>>
      /\ pc[o] = "run" /\ op[o].kind = "create"
      /\ \/ res' = res \union {o} /\ cloud' = cloud \union {o}
         \/ res' = res /\ (cloud' = cloud \/ cloud' = cloud \union {o})
  BY DEF CreateSucceeds, CreateUnready, CreateFails, CreatePanics, FailedCreate, Creating,
         Scheduler
<1>2. Growth /\ Verdict(o) /\ SettlesOwn(o) /\ Resolves(o)
  BY <1>1 DEF Growth, Verdict, SettlesOwn, Resolves
<1>3. CloudCalls(o)
  BY <1>1 DEF CloudCalls
<1>4. QED
  BY <1>2, <1>3 DEF Effects

(***************************************************************************)
(* The call of a delete, or its skip.                                      *)
(***************************************************************************)
LEMMA DeleteEffects ==
  ASSUME EInv, HInv, NEW o \in OpId,
         DeleteSucceeds(o) \/ DeleteFails(o) \/ DeleteSkips(o)
  PROVE  Effects(o)
<1> DEFINE i == op[o].create
<1>1. /\ pc[o] = "run" /\ op[o].kind = "delete" /\ pc' = [pc EXCEPT ![o] = "exit"]
      /\ ids' = ids \union {<<o, i>>}
      /\ UNCHANGED <<op, res, settled>>
  BY DEF DeleteSucceeds, DeleteFails, DeleteSkips, Deleting, Attempt, Goto, Scheduler
<1>2. /\ \/ deleteFailed' = deleteFailed
         \/ deleteFailed' = deleteFailed \ {<<o, i>>} /\ i \notin res' \ confirmed'
      /\ \/ confirmed' = confirmed
         \/ /\ confirmed' = confirmed \union {i} /\ i \notin cloud'
            /\ <<o, i>> \notin deleteFailed'
      /\ cloud' = cloud \/ cloud' = cloud \ {i}
  BY DEF DeleteSucceeds, DeleteFails, DeleteSkips, FailedDelete, Attempt
<1>3. pc'[o] = "exit" /\ Ran(o)'
  BY <1>1 DEF EInv, TypeOK, Ran
<1>4. o \in 1..nops /\ Done(i) /\ IsAttempt(o, i) /\ ~AttemptDone(o, i)
  BY <1>1, RunningReads DEF IsAttempt, AttemptDone, Done
<1> HIDE DEF i
<1>5. Growth
  BY <1>1, <1>2 DEF Growth
<1>6. Verdict(o)
  BY <1>1, <1>2, <1>3, <1>4 DEF Verdict
<1>7. SettlesOwn(o) /\ Resolves(o)
  BY <1>1 DEF SettlesOwn, Resolves, i
<1>8. CloudCalls(o)
  BY <1>1, <1>2, <1>4 DEF CloudCalls
<1>9. QED
  BY <1>5, <1>6, <1>7, <1>8 DEF Effects

(***************************************************************************)
(* A retry, whether it calls the cloud or takes over a verdict.            *)
(***************************************************************************)
LEMMA RetryEffects ==
  ASSUME EInv, HInv, NEW o \in OpId, NEW i \in OpId,
         \/ RetryDeletes(o, i) \/ RetryFails(o, i) \/ RetryPanics(o, i)
         \/ RetrySkips(o, i) \/ Settle(o, i)
  PROVE  Effects(o)
<1> DEFINE prev == op[o].retries[i]
<1>1. Retrying(o, i) \/ Settle(o, i)
  BY DEF RetryDeletes, RetryFails, RetryPanics, RetrySkips
<1>2. /\ o \in 1..nops /\ op[o].kind = "create" /\ pc[o] \in {"run", "exit"}
      /\ i \in Unsettled(o) /\ IsAttempt(o, i) /\ ~AttemptDone(o, i)
      /\ prev \in OpId /\ prev \in 1..(o - 1) /\ IsAttempt(prev, i) /\ AttemptDone(prev, i)
  BY <1>1, RetryFacts
<1>3. UNCHANGED <<op, res>>
  BY DEF RetryDeletes, RetryFails, RetryPanics, RetrySkips, Settle, Scheduler
<1>4. CASE RetryPanics(o, i)
  <2>1. /\ UNCHANGED <<settled, ids, confirmed, deleteFailed>>
        /\ pc[o] = "run" /\ (cloud' = cloud \/ cloud' = cloud \ {i})
    BY <1>4 DEF RetryPanics, Retrying, FailedDelete
  <2>2. Growth /\ Verdict(o) /\ SettlesOwn(o) /\ Resolves(o)
    BY <1>2, <1>3, <2>1 DEF Growth, Verdict, SettlesOwn, Resolves
  <2>3. CloudCalls(o)
    BY <1>2, <1>3, <2>1 DEF CloudCalls
  <2>4. QED
    BY <2>2, <2>3 DEF Effects
<1>5. CASE ~RetryPanics(o, i)
  <2>1. /\ settled' = settled \union {<<o, i>>}
        /\ ids' = IF <<prev, i>> \in ids THEN ids \union {<<o, i>>} ELSE ids
    BY <1>5 DEF RetryDeletes, RetryFails, RetrySkips, Settle, Inherit, InheritIDs
  <2>2. /\ \/ deleteFailed' = deleteFailed
           \/ /\ deleteFailed' = deleteFailed \ {<<o, i>>}
              /\ Done(i) /\ i \notin res' \ confirmed'
        /\ <<prev, i>> \notin deleteFailed => <<o, i>> \notin deleteFailed'
        /\ \/ confirmed' = confirmed
           \/ /\ confirmed' = confirmed \union {i} /\ i \notin cloud'
              /\ Done(i) /\ <<o, i>> \notin deleteFailed'
        /\ cloud' = cloud \/ (pc[o] = "run" /\ cloud' = cloud \ {i})
    <3>1. CASE RetryDeletes(o, i) \/ RetryFails(o, i)
      <4>1. Retrying(o, i) /\ RetryCalls(o, i) /\ pc[o] = "run"
        BY <3>1 DEF RetryDeletes, RetryFails, Retrying
      <4>2. Done(i)
        BY <1>2, <4>1, RunningReads DEF Unsettled
      <4>3. <<prev, i>> \in deleteFailed
        BY <4>1 DEF RetryCalls
      <4>4. QED
        BY <3>1, <4>1, <4>2, <4>3 DEF RetryDeletes, RetryFails, FailedDelete
    <3>2. CASE RetrySkips(o, i) \/ Settle(o, i)
      <4>1. /\ UNCHANGED <<confirmed, cloud>>
            /\ deleteFailed' = IF <<prev, i>> \in deleteFailed
                               THEN deleteFailed ELSE deleteFailed \ {<<o, i>>}
        BY <3>2 DEF RetrySkips, Settle, Inherit
      <4>2. <<prev, i>> \notin deleteFailed => Done(i) /\ i \notin res \ confirmed
        <5>1. prev \in 1..nops
          BY <1>2 DEF IsAttempt
        <5>2. QED
          BY <1>2, <5>1 DEF HInv, Verdicts
      <4>3. QED
        BY <1>3, <4>1, <4>2
    <3>3. QED
      BY <1>5, <3>1, <3>2
  <2> HIDE DEF prev
  <2>3. Growth
    BY <1>3, <2>1, <2>2 DEF Growth
  <2>4. Verdict(o)
    BY <1>2, <2>1, <2>2 DEF Verdict
  <2>5. SettlesOwn(o)
    BY <1>2, <2>1, <2>2 DEF SettlesOwn, prev
  <2>6. CloudCalls(o)
    BY <1>2, <1>3, <2>2 DEF CloudCalls
  <2>7. Resolves(o)
    BY <1>2 DEF Resolves
  <2>8. QED
    BY <2>3, <2>4, <2>5, <2>6, <2>7 DEF Effects
<1>6. QED
  BY <1>4, <1>5

(***************************************************************************)
(* Every step of an operation.                                             *)
(***************************************************************************)
LEMMA OpStepEffects ==
  ASSUME EInv, HInv, NEW o \in OpId, OpStep(o)
  PROVE  Effects(o)
BY QuietEffects, CreateEffects, DeleteEffects, RetryEffects DEF OpStep

(***************************************************************************)
(* What the step of an operation does to its place, and to who is past     *)
(* await in a run that goes on.                                            *)
(***************************************************************************)
LEMMA OpStepPlaces ==
  ASSUME EInv, NEW o \in OpId, OpStep(o)
  PROVE  /\ UNCHANGED <<present, create, del, nops, op, cancelled>>
         /\ \A q \in OpId : (Done(q) => Done(q)') /\ (Ran(q) => Ran(q)')
         /\ \A q \in OpId : q # o => pc'[q] = pc[q]
         /\ pc[o] = "run" => ~Done(o)
         /\ Done(o)' => Done(o) \/ pc[o] = "closing"
         /\ \A p \in 1..nops : Ordered(p)' =>
              \/ Ordered(p)
              \/ ~cancelled /\ \A d \in op[p].deps : Done(d)
<1>0. MaxOps \in Nat /\ nops \in 0..MaxOps
  BY EngineAssumption DEF EInv, TypeOK
<1>1. UNCHANGED <<present, create, del, nops, op, cancelled>>
  BY OpStepsLeaveScheduler DEF Scheduler, schedule, states
<1>2. UNCHANGED pc \/ \E w : Moves(o, w)
  BY OpStepMoves
<1>3. CASE UNCHANGED pc
  BY <1>1, <1>3 DEF Done, Ran, Ordered, PastAwait
<1>4. ASSUME NEW w, Moves(o, w)
      PROVE  /\ \A q \in OpId : (Done(q) => Done(q)') /\ (Ran(q) => Ran(q)')
             /\ \A q \in OpId : q # o => pc'[q] = pc[q]
             /\ Done(o)' => Done(o) \/ pc[o] = "closing"
             /\ \A p \in 1..nops : Ordered(p)' =>
                  Ordered(p) \/ (~cancelled /\ \A d \in op[p].deps : Done(d))
  <2>1. pc'[o] = w /\ \A q \in OpId : q # o => pc'[q] = pc[q]
    BY <1>4 DEF EInv, TypeOK, Moves
  <2>2. \A q \in OpId : (Done(q) => Done(q)') /\ (Ran(q) => Ran(q)')
    BY <1>4, <2>1 DEF Moves, Done, Ran
  <2>3. Done(o)' => Done(o) \/ pc[o] = "closing"
    BY <1>4, <2>1 DEF Moves, Done
  <2>4. ASSUME NEW p \in 1..nops, Ordered(p)', ~Ordered(p)
        PROVE  ~cancelled /\ \A d \in op[p].deps : Done(d)
    <3>1. p \in OpId
      BY <1>0 DEF OpId
    <3>2. p = o
      BY <1>1, <2>1, <2>4, <3>1 DEF Ordered, PastAwait
    <3>3. QED
      BY <1>1, <1>4, <2>1, <2>4, <3>2 DEF Moves, Ordered, PastAwait
  <2>5. QED
    BY <2>1, <2>2, <2>3, <2>4
<1>5. QED
  BY <1>1, <1>2, <1>3, <1>4 DEF Done

(***************************************************************************)
(* What waits under an operation that is past await has finished, and when *)
(* it deletes an instance, or retries the delete, so has every operation   *)
(* that names the instance as a parent.                                    *)
(***************************************************************************)
LEMMA DependentsFinished ==
  ASSUME EInv, HInv, NEW o \in 1..nops, Ordered(o), NEW i \in OpId, IsAttempt(o, i),
         NEW q \in 1..nops, i \in op[q].parents
  PROVE  Finished(q)
<1>0. MaxOps \in Nat /\ nops \in 0..MaxOps
  BY EngineAssumption DEF EInv, TypeOK
<1>1. op[i].node = op[o].node /\ \E x \in 1..o : FirstDelete(x, i)
  BY DEF HInv, Chained
<1>2. PICK x \in 1..o : FirstDelete(x, i)
  BY <1>1
<1>3. x \in 1..nops /\ op[x].kind = "delete" /\ op[x].create = i /\ IsAttempt(x, i)
  BY <1>2 DEF FirstDelete, IsAttempt
<1>4. op[i].node = op[x].node
  BY <1>3 DEF HInv, Chained
<1>5. q < x
  BY <1>3 DEF HInv, ChildrenFirst
<1>6. Above(x, q)
  BY <1>4 DEF HInv, ChildrenFirst, Above
<1>7. Under(q, o)
  BY <1>1, <1>3, <1>4, <1>5, <1>6 DEF Under
<1>8. QED
  BY <1>7 DEF HInv, SerialUnder

(***************************************************************************)
(* The verdicts of the history survive the step of an operation.           *)
(***************************************************************************)
LEMMA OpStepVerdicts ==
  ASSUME EInv, HInv, NEW o \in OpId, OpStep(o)
  PROVE  Verdicts'
<1>0. /\ MaxOps \in Nat /\ nops \in 0..MaxOps /\ \A x \in 1..nops : x \in OpId /\ x \in Nat
  BY EngineAssumption DEF EInv, TypeOK, OpId
<1>1. Growth /\ Verdict(o) /\ SettlesOwn(o) /\ CloudCalls(o)
  BY OpStepEffects DEF Effects
<1>2. /\ UNCHANGED <<nops, op>>
      /\ \A q \in OpId : (Done(q) => Done(q)') /\ (Ran(q) => Ran(q)')
      /\ \A q \in OpId : q # o => pc'[q] = pc[q]
  BY OpStepPlaces
<1>3. \A x, j : IsAttempt(x, j)' <=> IsAttempt(x, j)
  BY <1>2 DEF IsAttempt
<1>4. ASSUME NEW x \in OpId, NEW j \in OpId, <<x, j>> \in settled' PROVE IsAttempt(x, j)
  <2>1. CASE <<x, j>> \in settled
    BY <2>1 DEF HInv, Verdicts
  <2>2. CASE <<x, j>> \notin settled
    <3>1. x = o /\ op[o].kind = "create" /\ j \in DOMAIN op[o].retries /\ pc[o] # "none"
      BY <1>1, <1>4, <2>2 DEF SettlesOwn, Unsettled
    <3>2. o \in 1..nops
      BY <1>0, <3>1 DEF EInv, Dispatched, OpId
    <3>3. QED
      BY <3>1, <3>2 DEF IsAttempt
  <2>3. QED
    BY <2>1, <2>2
<1>5. ASSUME NEW x \in 1..nops, NEW j \in OpId, IsAttempt(x, j), <<x, j>> \notin deleteFailed'
      PROVE  /\ Done(j)' /\ j \notin res' \ confirmed'
             /\ IF op[x].kind = "delete" THEN Ran(x)' ELSE <<x, j>> \in settled'
  <2>0. x \in OpId
    BY <1>0
  <2>1. CASE <<x, j>> \in deleteFailed
    BY <1>1, <1>2, <1>5, <2>0, <2>1 DEF Verdict
  <2>2. CASE <<x, j>> \notin deleteFailed
    <3>1. /\ Done(j) /\ j \notin res \ confirmed
          /\ IF op[x].kind = "delete" THEN Ran(x) ELSE <<x, j>> \in settled
      BY <1>5, <2>2 DEF HInv, Verdicts
    <3>2. j \notin res' \ confirmed'
      <4>1. j \in res' \ res => pc[j] = "run"
        BY <1>1 DEF CloudCalls
      <4>2. QED
        BY <1>1, <3>1, <4>1 DEF Growth, Done
    <3>3. QED
      BY <1>1, <1>2, <2>0, <3>1, <3>2 DEF Growth
  <2>3. QED
    BY <2>1, <2>2
<1>6. ASSUME NEW x \in 1..nops, NEW q \in 1..nops, NEW j \in OpId,
             IsAttempt(x, j), IsAttempt(q, j), x < q, AttemptDone(q, j)'
      PROVE  AttemptDone(x, j)' /\ (<<x, j>> \notin deleteFailed' => <<q, j>> \notin deleteFailed')
  <2>0. x \in OpId /\ q \in OpId
    BY <1>0
  <2>1. op[q].kind = "create" /\ x <= op[q].retries[j] /\ <<q, j>> \in settled'
    <3>1. op[q].kind = "create" /\ x <= op[q].retries[j]
      BY <1>6 DEF HInv, Chained
    <3>2. QED
      BY <1>2, <1>6, <3>1 DEF AttemptDone
  <2>2. AttemptDone(x, j) => AttemptDone(x, j)'
    BY <1>1, <1>2, <2>0 DEF AttemptDone, Growth
  <2>3. CASE <<q, j>> \in settled
    <3>1. AttemptDone(q, j)
      BY <2>1, <2>3 DEF AttemptDone
    <3>2. AttemptDone(x, j) /\ (<<x, j>> \notin deleteFailed => <<q, j>> \notin deleteFailed)
      BY <1>6, <3>1 DEF HInv, Verdicts
    <3>3. <<x, j>> \notin deleteFailed' => <<x, j>> \notin deleteFailed
      BY <1>1, <2>0, <3>2 DEF Verdict
    <3>4. QED
      BY <1>1, <2>2, <3>2, <3>3 DEF Growth
  <2>4. CASE <<q, j>> \notin settled
    <3> DEFINE prev == op[q].retries[j]
    <3>1. /\ q = o /\ AttemptDone(prev, j) /\ j \in DOMAIN op[q].retries
          /\ <<prev, j>> \notin deleteFailed => <<q, j>> \notin deleteFailed'
      BY <1>1, <2>0, <2>1, <2>4 DEF SettlesOwn, Unsettled
    <3>2. IsAttempt(prev, j)
      BY <1>6, <2>1 DEF HInv, Chained
    <3>3. prev \in 1..nops /\ prev \in Nat
      BY <1>0, <3>2 DEF IsAttempt
    <3>4. AttemptDone(x, j) /\ (<<x, j>> \notin deleteFailed => <<prev, j>> \notin deleteFailed)
      <4>1. CASE x = prev
        BY <3>1, <4>1
      <4>2. CASE x < prev
        BY <1>6, <3>1, <3>2, <3>3, <4>2 DEF HInv, Verdicts
      <4>3. x = prev \/ x < prev
        BY <1>0, <2>1, <3>3
      <4>4. QED
        BY <4>1, <4>2, <4>3
    <3>5. <<x, j>> \notin deleteFailed' => <<x, j>> \notin deleteFailed
      BY <1>1, <2>0, <3>4 DEF Verdict
    <3>6. QED
      BY <2>2, <3>1, <3>4, <3>5
  <2>5. QED
    BY <2>3, <2>4
<1>7. ASSUME NEW j \in confirmed'
      PROVE  \E x \in 1..nops : IsAttempt(x, j) /\ <<x, j>> \notin deleteFailed'
  <2>1. CASE j \in confirmed
    BY <1>1, <2>1 DEF HInv, Verdicts, Growth
  <2>2. CASE j \notin confirmed
    <3>1. j \in OpId
      BY OpStepMoves, <1>7 DEF OutcomesTyped
    <3>2. IsAttempt(o, j) /\ <<o, j>> \notin deleteFailed'
      BY <1>1, <1>7, <2>2, <3>1 DEF CloudCalls
    <3>3. QED
      BY <3>2 DEF IsAttempt
  <2>3. QED
    BY <2>1, <2>2
<1>8. nops' = nops /\ op' = op
  BY <1>2
<1>9. \A x \in OpId, j \in OpId : <<x, j>> \in settled' => IsAttempt(x, j)'
  BY <1>3, <1>4
<1>10. \A x \in 1..nops' : \A j \in OpId : IsAttempt(x, j)' /\ <<x, j>> \notin deleteFailed' =>
         /\ Done(j)' /\ j \notin res' \ confirmed'
         /\ IF op'[x].kind = "delete" THEN Ran(x)' ELSE <<x, j>> \in settled'
  BY <1>3, <1>5, <1>8
<1>11. \A i \in confirmed' : \E x \in 1..nops' : IsAttempt(x, i)' /\ <<x, i>> \notin deleteFailed'
  BY <1>3, <1>7, <1>8
<1>12. \A x, q \in 1..nops' : \A j \in OpId :
         IsAttempt(x, j)' /\ IsAttempt(q, j)' /\ x < q /\ AttemptDone(q, j)' =>
           AttemptDone(x, j)' /\ (<<x, j>> \notin deleteFailed' => <<q, j>> \notin deleteFailed')
  BY <1>3, <1>6, <1>8
<1>13. QED
  BY <1>9, <1>10, <1>11, <1>12 DEF Verdicts

(***************************************************************************)
(* So does what is known of the instances.                                 *)
(***************************************************************************)
LEMMA OpStepInstances ==
  ASSUME EInv, HInv, NEW o \in OpId, OpStep(o)
  PROVE  Instances'
<1>0. /\ MaxOps \in Nat /\ nops \in 0..MaxOps /\ \A x \in 1..nops : x \in OpId
      /\ res' \subseteq OpId /\ cloud' \subseteq OpId /\ confirmed' \subseteq OpId
  BY EngineAssumption, OpStepMoves DEF EInv, TypeOK, OpId, OutcomesTyped
<1>1. Growth /\ CloudCalls(o)
  BY OpStepEffects DEF Effects
<1>2. /\ UNCHANGED <<present, create, del, nops, op>>
      /\ \A q \in OpId : Done(q) => Done(q)'
      /\ pc[o] = "run" => ~Done(o)
  BY OpStepPlaces
<1>3. pc[o] = "run" => o \in 1..nops /\ Ordered(o)
  BY RunningReads
<1>4. ASSUME NEW i \in res' PROVE i \in 1..nops /\ op[i].kind = "create"
  <2>1. CASE i \in res
    BY <2>1 DEF HInv, Instances
  <2>2. CASE i \notin res
    BY <1>0, <1>1, <1>3, <1>4, <2>2 DEF CloudCalls
  <2>3. QED
    BY <2>1, <2>2
<1>5. ASSUME NEW i \in 1..nops, op[i].kind = "create", ~Done(i)' \/ i \in res' \ confirmed'
      PROVE  del[i] # NoOp \/ Current(i)
  <2>1. ~Done(i) \/ i \in res \ confirmed
    BY <1>0, <1>1, <1>2, <1>5 DEF CloudCalls, Growth
  <2>2. QED
    BY <1>5, <2>1 DEF HInv, Instances
<1>6. ASSUME NEW i \in confirmed' PROVE i \notin cloud' /\ Done(i)'
  <2>1. CASE i \in confirmed
    <3>1. i \notin cloud /\ Done(i)
      BY <2>1 DEF HInv, Instances
    <3>2. QED
      BY <1>0, <1>1, <1>2, <1>6, <3>1 DEF CloudCalls
  <2>2. CASE i \notin confirmed
    BY <1>0, <1>1, <1>2, <1>6, <2>2 DEF CloudCalls
  <2>3. QED
    BY <2>1, <2>2
<1>7. ASSUME NEW i \in res' \ cloud'
      PROVE  /\ \E x \in 1..nops : FirstDelete(x, i)
             /\ \A q \in 1..nops : i \in op[q].parents => Done(q)'
  <2>1. CASE i \in res \ cloud
    BY <1>0, <1>2, <2>1 DEF HInv, Instances
  <2>2. CASE i \notin res \ cloud
    <3>1. i \in OpId /\ pc[o] = "run" /\ IsAttempt(o, i)
      BY <1>0, <1>1, <1>7, <2>2 DEF CloudCalls
    <3>2. o \in 1..nops /\ Ordered(o)
      BY <1>3, <3>1
    <3>3. \E x \in 1..nops : FirstDelete(x, i)
      BY <3>1, <3>2 DEF HInv, Chained, FirstDelete
    <3>4. \A q \in 1..nops : i \in op[q].parents => Done(q)
      BY <3>1, <3>2, DependentsFinished DEF Finished
    <3>5. QED
      BY <1>0, <1>2, <3>3, <3>4
  <2>3. QED
    BY <2>1, <2>2
<1>8. /\ \A i : Current(i)' <=> Current(i)
      /\ \A x, i : FirstDelete(x, i)' <=> FirstDelete(x, i)
  BY <1>2 DEF Current, FirstDelete
<1>9. QED
  BY <1>2, <1>4, <1>5, <1>6, <1>7, <1>8 DEF Instances

(***************************************************************************)
(* An attempt whose operation is done in a run that goes on, and that ran  *)
(* or was settled, knows the ids of the parents.                           *)
(***************************************************************************)
LEMMA DoneKnowsIds ==
  ASSUME EInv, HInv, ~cancelled, NEW q \in 1..nops, NEW i \in OpId, IsAttempt(q, i), Done(q)
  PROVE  <<q, i>> \in ids
<1>0. MaxOps \in Nat /\ nops \in 0..MaxOps /\ q \in OpId
  BY EngineAssumption DEF EInv, TypeOK, OpId
<1>1. CASE op[q].kind = "delete"
  BY <1>1 DEF HInv, IdsKnown, Ran, Done
<1>2. CASE op[q].kind = "create" /\ i \in DOMAIN op[q].retries
  <2>1. <<q, i>> \in settled
    BY <1>0, <1>2 DEF EInv, SettledFirst, Unsettled, Done
  <2>2. QED
    BY <1>2, <2>1 DEF HInv, IdsKnown
<1>3. QED
  BY <1>1, <1>2 DEF IsAttempt

(***************************************************************************)
(* The ids an attempt knows.                                               *)
(***************************************************************************)
LEMMA OpStepIds ==
  ASSUME EInv, EInv', HInv, NEW o \in OpId, OpStep(o)
  PROVE  IdsKnown'
<1>0. /\ MaxOps \in Nat /\ nops \in 0..MaxOps /\ \A x \in 1..nops : x \in OpId
  BY EngineAssumption DEF EInv, TypeOK, OpId
<1>1. Growth /\ SettlesOwn(o) /\ Resolves(o)
  BY OpStepEffects DEF Effects
<1>2. /\ UNCHANGED <<nops, op, cancelled>>
      /\ \A q \in OpId : Done(q) => Done(q)'
      /\ \A q \in OpId : q # o => pc'[q] = pc[q]
      /\ \A p \in 1..nops : Ordered(p)' =>
           Ordered(p) \/ (~cancelled /\ \A d \in op[p].deps : Done(d))
  BY OpStepPlaces
<1>3. \A x, j : IsAttempt(x, j)' <=> IsAttempt(x, j)
  BY <1>2 DEF IsAttempt
<1>4. ASSUME NEW x \in 1..nops, NEW i \in OpId, IsAttempt(x, i)
      PROVE  /\ op[x].kind = "delete" /\ Ran(x)' => <<x, i>> \in ids' \/ cancelled
             /\ op[x].kind = "create" /\ <<x, i>> \in settled' => <<x, i>> \in ids' \/ cancelled
             /\ op[x].kind = "create" /\ Ordered(x)' => <<op[x].retries[i], i>> \in ids'
  <2>0. x \in OpId /\ ids \subseteq ids'
    BY <1>0, <1>1 DEF Growth
  <2>1. ASSUME op[x].kind = "delete", Ran(x)', ~cancelled PROVE <<x, i>> \in ids'
    <3>0. op[x].create = i
      BY <1>4, <2>1 DEF IsAttempt
    <3>1. CASE Ran(x)
      BY <1>4, <2>0, <2>1, <3>1 DEF HInv, IdsKnown
    <3>2. CASE ~Ran(x)
      <4>1. x = o
        BY <1>2, <2>0, <2>1, <3>2 DEF Ran
      <4>2. QED
        BY <1>1, <2>1, <3>0, <3>2, <4>1 DEF Resolves
    <3>3. QED
      BY <3>1, <3>2
  <2>2. ASSUME op[x].kind = "create", Ordered(x)' PROVE <<op[x].retries[i], i>> \in ids'
    <3>1. CASE Ordered(x)
      BY <1>4, <2>0, <2>2, <3>1 DEF HInv, IdsKnown
    <3>2. CASE ~cancelled /\ \A d \in op[x].deps : Done(d)
      <4> DEFINE q == op[x].retries[i]
      <4>1. IsAttempt(q, i)
        BY <1>4, <2>2 DEF HInv, Chained
      <4>2. q \in 1..(x - 1) /\ op[q].node = op[x].node
        BY <1>4, <2>2 DEF IsAttempt, EInv, Captured, CapturedBy, CapturedRetry
      <4>3. PICK d \in op[x].deps : q <= d /\ op[d].node = op[x].node
        BY <4>2 DEF EInv, Captured, CapturedBy
      <4>4. d \in 1..(x - 1) /\ Done(d)
        BY <3>2, <4>3 DEF EInv, Captured, CapturedBy
      <4>5. d \in 1..nops /\ Ordered(d)
        BY <1>0, <3>2, <4>4 DEF Ordered, PastAwait, Done
      <4>6. Done(q)
        <5>1. CASE q = d
          BY <4>4, <5>1
        <5>2. CASE q < d
          BY <4>2, <4>3, <4>5, <5>2 DEF EInv, Serial
        <5>3. QED
          BY <1>0, <4>2, <4>3, <4>4, <5>1, <5>2
      <4>7. q \in 1..nops
        BY <4>1 DEF IsAttempt
      <4>8. QED
        BY <2>0, <3>2, <4>1, <4>6, <4>7, DoneKnowsIds
    <3>3. QED
      BY <1>2, <2>2, <3>1, <3>2
  <2>3. ASSUME op[x].kind = "create", <<x, i>> \in settled', ~cancelled PROVE <<x, i>> \in ids'
    <3>1. CASE <<x, i>> \in settled
      BY <1>4, <2>0, <2>3, <3>1 DEF HInv, IdsKnown
    <3>2. CASE <<x, i>> \notin settled
      <4>1. /\ x = o /\ pc[o] \in {"run", "exit"}
            /\ <<op[o].retries[i], i>> \in ids => <<o, i>> \in ids'
        BY <1>1, <2>0, <2>3, <3>2 DEF SettlesOwn
      <4>2. Ordered(o)
        BY <2>3, <4>1 DEF Ordered, PastAwait
      <4>3. <<op[o].retries[i], i>> \in ids
        BY <1>4, <2>3, <4>1, <4>2 DEF HInv, IdsKnown
      <4>4. QED
        BY <4>1, <4>3
    <3>3. QED
      BY <3>1, <3>2
  <2>4. QED
    BY <2>1, <2>2, <2>3
<1>5. QED
  BY <1>2, <1>3, <1>4 DEF IdsKnown

(***************************************************************************)
(* What is under an operation that gets past await has finished.           *)
(***************************************************************************)
LEMMA OpStepUnder ==
  ASSUME EInv, HInv, NEW o \in OpId, OpStep(o)
  PROVE  SerialUnder'
<1>0. /\ MaxOps \in Nat /\ nops \in 0..MaxOps /\ \A x \in 1..nops : x \in OpId
  BY EngineAssumption DEF EInv, TypeOK, OpId
<1>1. ids \subseteq ids'
  BY OpStepEffects DEF Effects, Growth
<1>2. /\ UNCHANGED <<nops, op, cancelled>>
      /\ \A q \in OpId : Done(q) => Done(q)'
      /\ \A p \in 1..nops : Ordered(p)' =>
           Ordered(p) \/ (~cancelled /\ \A d \in op[p].deps : Done(d))
  BY OpStepPlaces
<1>3. ASSUME NEW p \in 1..nops, Ordered(p)', NEW q \in 1..nops, Under(q, p)
      PROVE  Finished(q)
  <2>1. CASE Ordered(p)
    BY <1>3, <2>1 DEF HInv, SerialUnder
  <2>2. CASE ~cancelled /\ \A d \in op[p].deps : Done(d)
    <3>1. PICK x \in 1..p : op[x].kind = "delete" /\ op[x].node = op[p].node
                            /\ q < x /\ Above(x, q)
      BY <1>3 DEF Under
    <3>2. ASSUME NEW d \in op[p].deps
          PROVE  d \in 1..nops /\ d \in 1..(p - 1) /\ Done(d) /\ Ordered(d)
      <4>1. d \in 1..(p - 1) /\ Done(d)
        BY <2>2 DEF EInv, Captured, CapturedBy
      <4>2. QED
        BY <1>0, <2>2, <4>1 DEF Ordered, PastAwait, Done
    <3>3. CASE x = p
      <4>1. PICK e \in op[p].deps : q <= e /\ op[e].node = op[q].node
        BY <3>1, <3>3 DEF HInv, ChildrenFirst
      <4>2. Done(q)
        <5>1. e \in 1..nops /\ Done(e) /\ Ordered(e)
          BY <3>2
        <5>2. CASE q = e
          BY <5>1, <5>2
        <5>3. CASE q < e
          BY <4>1, <5>1, <5>3 DEF EInv, Serial
        <5>4. QED
          BY <4>1, <5>1, <5>2, <5>3
      <4>3. op[q].kind = "delete" => <<q, op[q].create>> \in ids
        <5>1. ASSUME op[q].kind = "delete" PROVE op[q].create \in OpId /\ IsAttempt(q, op[q].create)
          BY <1>0, <5>1 DEF IsAttempt, EInv, Captured, CapturedBy, OpId
        <5>2. QED
          BY <2>2, <4>2, <5>1, DoneKnowsIds
      <4>4. QED
        BY <4>2, <4>3 DEF Finished
    <3>4. CASE x # p
      <4>1. x \in 1..(p - 1)
        BY <1>0, <3>4
      <4>2. PICK d \in op[p].deps : x <= d /\ op[d].node = op[p].node
        BY <3>1, <4>1 DEF EInv, Captured, CapturedBy
      <4>3. d \in 1..nops /\ Ordered(d)
        BY <3>2
      <4>4. Under(q, d)
        BY <3>1, <4>2, <4>3 DEF Under
      <4>5. QED
        BY <4>3, <4>4 DEF HInv, SerialUnder
    <3>5. QED
      BY <3>3, <3>4
  <2>3. QED
    BY <1>2, <1>3, <2>1, <2>2
<1>4. /\ \A q, p : Under(q, p)' <=> Under(q, p)
      /\ \A q \in 1..nops : Finished(q) => Finished(q)'
  BY <1>0, <1>1, <1>2 DEF Under, Above, Finished
<1>5. QED
  BY <1>2, <1>3, <1>4 DEF SerialUnder

(***************************************************************************)
(* The whole history invariant survives the step of an operation.          *)
(***************************************************************************)
LEMMA OpStepH ==
  ASSUME EInv, EInv', HInv, NEW o \in OpId, OpStep(o)
  PROVE  HInv'
<1>1. UNCHANGED <<present, create, del, nops, op>>
  BY OpStepPlaces
<1>2. Chained'
  BY <1>1 DEF HInv, Chained, IsAttempt, FirstDelete, Current
<1>3. ChildrenFirst'
  BY <1>1 DEF HInv, ChildrenFirst, Above, FirstDelete
<1>4. QED
  BY <1>2, <1>3, OpStepVerdicts, OpStepInstances, OpStepIds, OpStepUnder DEF HInv

(***************************************************************************)
(* What a dispatch takes along, besides Fresh: the creates of present      *)
(* parents, and, for a delete, its node's create and the last operations   *)
(* of the dependents.                                                      *)
(***************************************************************************)
Takes(r) ==
  /\ \A i \in r.parents : \E m \in present \cap Parents[r.node] : i = create[m]
  /\ r.kind = "delete" =>
       /\ r.create = create[r.node] /\ Children(r.node) \cap present = {}
       /\ \A c \in Children(r.node) : last[c] # NoOp => last[c] \in r.deps
  /\ r.kind # "create" => DOMAIN r.retries = {}

(***************************************************************************)
(* A dispatch leaves the operations before it as they were.                *)
(***************************************************************************)
LEMMA DispatchLeaves ==
  ASSUME EInv, NEW r, NEW room, Fresh(r), Dispatch(r, room), nops < MaxOps,
         NEW o, o = nops + 1
  PROVE  /\ nops' = o /\ o \in OpId /\ op'[o] = r
         /\ 1..nops' = (1..nops) \union {o}
         /\ \A q \in 1..nops : q \in OpId /\ q < o /\ op'[q] = op[q] /\ pc'[q] = pc[q]
         /\ \A x \in 1..nops : \A j : IsAttempt(x, j)' <=> IsAttempt(x, j)
         /\ \A j : IsAttempt(o, j)' <=>
              (r.kind = "delete" /\ r.create = j) \/ (r.kind = "create" /\ j \in DOMAIN r.retries)
         /\ \A x \in 1..nops : \A j : FirstDelete(x, j)' <=> FirstDelete(x, j)
         /\ \A j : FirstDelete(o, j)' <=> (r.kind = "delete" /\ r.create = j)
         /\ pc'[o] = "launch"
         /\ UNCHANGED <<res, settled, ids, cloud, confirmed, cancelled>>
<1>0. MaxOps \in Nat /\ nops \in 0..MaxOps
  BY EngineAssumption DEF EInv, TypeOK
<1>1. /\ nops' = o /\ o \in OpId /\ op'[o] = r
      /\ \A q \in 1..nops : op'[q] = op[q]
  BY DispatchInv
<1>2. 1..o = (1..nops) \union {o} /\ \A q \in 1..nops : q \in OpId /\ q < o /\ q # o
  BY <1>0 DEF OpId
<1>3. /\ pc' = [pc EXCEPT ![o] = "launch"]
      /\ UNCHANGED <<res, settled, ids, cloud, confirmed, cancelled>>
  BY DEF Dispatch
<1>4. pc'[o] = "launch" /\ \A q \in 1..nops : pc'[q] = pc[q]
  BY <1>1, <1>2, <1>3 DEF EInv, TypeOK
<1>5. /\ \A x \in 1..nops : \A j : IsAttempt(x, j)' <=> IsAttempt(x, j)
      /\ \A x \in 1..nops : \A j : FirstDelete(x, j)' <=> FirstDelete(x, j)
  BY <1>1, <1>2 DEF IsAttempt, FirstDelete
<1>6. /\ \A j : IsAttempt(o, j)' <=>
           (r.kind = "delete" /\ r.create = j) \/ (r.kind = "create" /\ j \in DOMAIN r.retries)
      /\ \A j : FirstDelete(o, j)' <=> (r.kind = "delete" /\ r.create = j)
  BY <1>1, <1>2 DEF IsAttempt, FirstDelete
<1>7. QED
  BY <1>1, <1>2, <1>3, <1>4, <1>5, <1>6

(***************************************************************************)
(* Nothing is its own parent.                                              *)
(***************************************************************************)
LEMMA NotOwnParent ==
  ASSUME NEW n \in Node
  PROVE  n \notin Parents[n]
<1>1. {n} \in SUBSET Node /\ {n} # {}
  OBVIOUS
<1>2. Children(n) \cap {n} = {}
  BY <1>1, AcyclicAssumption
<1>3. QED
  BY <1>2 DEF Children

(***************************************************************************)
(* The children of what an operation deletes are still behind it.          *)
(***************************************************************************)
LEMMA DispatchChildrenFirst ==
  ASSUME EInv, HInv, NEW r, NEW room, Fresh(r), Takes(r), Dispatch(r, room), nops < MaxOps,
         NEW o, o = nops + 1
  PROVE  ChildrenFirst'
<1>1. /\ nops' = o /\ o \in OpId /\ op'[o] = r
      /\ 1..nops' = (1..nops) \union {o}
      /\ \A q \in 1..nops : q \in OpId /\ q < o /\ op'[q] = op[q]
      /\ \A x \in 1..nops : \A j : FirstDelete(x, j)' <=> FirstDelete(x, j)
      /\ \A j : FirstDelete(o, j)' <=> (r.kind = "delete" /\ r.create = j)
  BY DispatchLeaves
<1>0. /\ nops \in Nat /\ o \in Nat /\ 1..(o - 1) = 1..nops /\ present \subseteq Node
      /\ \A x \in 1..nops : 1..(x - 1) \subseteq 1..nops
  BY EngineAssumption DEF EInv, TypeOK
<1>2. ASSUME NEW i \in r.parents
      PROVE  /\ i \in 1..nops /\ op[i].node \in Parents[r.node]
             /\ \A x \in 1..nops : ~IsAttempt(x, i)
  <2>1. PICK m \in present : m \in Parents[r.node] /\ i = create[m]
    BY DEF Takes
  <2>2. create[m] \in 1..nops /\ op[create[m]].node = m
    BY <1>0, <2>1 DEF EInv, Bookkeeping
  <2>3. QED
    BY <2>1, <2>2 DEF HInv, Chained
<1>3. ASSUME NEW q \in 1..nops', NEW p \in op'[q].parents PROVE Above(p, q)'
  <2>1. CASE q = o
    BY <1>1, <1>2, <1>3, <2>1 DEF Above
  <2>2. CASE q \in 1..nops
    <3>1. Above(p, q) /\ p \in 1..(q - 1)
      BY <1>1, <1>3, <2>2 DEF HInv, ChildrenFirst, EInv, Captured, CapturedBy
    <3>2. QED
      BY <1>0, <1>1, <2>2, <3>1 DEF Above
  <2>3. QED
    BY <1>1, <2>1, <2>2
<1>4. ASSUME NEW x \in 1..nops', NEW q \in 1..(x - 1), op'[x].kind = "delete", Above(x, q)'
      PROVE  /\ \E e \in op'[x].deps : q <= e /\ op'[e].node = op'[q].node
             /\ op'[q].kind = "create" => \E y \in 1..(x - 1) : FirstDelete(y, q)'
  <2>1. CASE x = o
    <3>1. /\ q \in 1..nops /\ op'[q] = op[q] /\ op'[x] = r
          /\ r.node \in Parents[op[q].node] /\ r.kind = "delete"
      BY <1>0, <1>1, <1>4, <2>1 DEF Above
    <3> DEFINE c == op[q].node
    <3>2. c \in Node /\ q <= last[c] /\ q \in Nat
      BY <1>0, <3>1 DEF EInv, Bookkeeping
    <3>3. c \in Children(r.node) /\ c \notin present
      BY <3>1, <3>2 DEF Children, Takes
    <3>4. last[c] # NoOp /\ last[c] \in 1..nops /\ op[last[c]].node = c
      <4>1. last[c] \in OpId \union {NoOp}
        BY <3>2 DEF EInv, TypeOK
      <4>2. last[c] # NoOp
        BY <3>1, <3>2 DEF NoOp
      <4>3. QED
        BY <3>2, <4>2 DEF EInv, Bookkeeping
    <3>5. last[c] \in r.deps
      BY <3>1, <3>3, <3>4 DEF Takes
    <3>6. op[q].kind = "create" => \E y \in 1..nops : FirstDelete(y, q)
      BY <3>1, <3>3 DEF HInv, Chained, Current
    <3>7. QED
      BY <1>0, <1>1, <2>1, <3>1, <3>2, <3>4, <3>5, <3>6
  <2>2. CASE x \in 1..nops
    <3>1. q \in 1..nops /\ op'[q] = op[q] /\ op'[x] = op[x] /\ Above(x, q)
      BY <1>0, <1>1, <1>4, <2>2 DEF Above
    <3>2. /\ \E e \in op[x].deps : q <= e /\ op[e].node = op[q].node
          /\ op[q].kind = "create" => \E y \in 1..(x - 1) : FirstDelete(y, q)
      BY <1>4, <2>2, <3>1 DEF HInv, ChildrenFirst
    <3>3. op[x].deps \subseteq 1..nops
      BY <1>0, <2>2 DEF EInv, Captured, CapturedBy
    <3>4. QED
      BY <1>0, <1>1, <2>2, <3>1, <3>2, <3>3
  <2>3. QED
    BY <1>1, <2>1, <2>2
<1>5. ASSUME NEW x \in 1..nops', NEW q \in 1..nops', op'[x].kind = "delete",
             op'[x].create \in op'[q].parents
      PROVE  q < x
  <2>1. CASE x = o /\ q = o
    <3>1. /\ r.create \in r.parents /\ r.node \in Node /\ op[r.create].node = r.node
      BY <1>1, <1>5, <2>1 DEF Fresh
    <3>2. r.node \in Parents[r.node]
      BY <1>2, <3>1
    <3>3. QED
      BY <3>1, <3>2, NotOwnParent
  <2>2. CASE x = o /\ q \in 1..nops
    BY <1>1, <2>2
  <2>3. CASE x \in 1..nops /\ q = o
    <3>1. op[x].create \in r.parents /\ IsAttempt(x, op[x].create)
      BY <1>1, <1>5, <2>3 DEF IsAttempt
    <3>2. QED
      BY <1>2, <2>3, <3>1
  <2>4. CASE x \in 1..nops /\ q \in 1..nops
    BY <1>1, <1>5, <2>4 DEF HInv, ChildrenFirst
  <2>5. QED
    BY <1>1, <2>1, <2>2, <2>3, <2>4
<1>6. QED
  BY <1>3, <1>4, <1>5 DEF ChildrenFirst

(***************************************************************************)
(* What a dispatch does to the verdicts, the instances, the ids and what   *)
(* waits: its attempts start as failed, and nothing else is new.           *)
(***************************************************************************)
LEMMA DispatchHistory ==
  ASSUME EInv, HInv, NEW r, NEW room, Fresh(r), Takes(r), Dispatch(r, room), nops < MaxOps,
         NEW o, o = nops + 1,
         \A x \in 1..nops : \A j \in OpId :
           <<x, j>> \in deleteFailed' <=> <<x, j>> \in deleteFailed,
         \A j \in OpId : IsAttempt(o, j)' => <<o, j>> \in deleteFailed',
         Chained',
         \A i \in 1..nops : (del[i] # NoOp \/ Current(i)) /\ (~Done(i) \/ i \in res \ confirmed)
           => (del[i] # NoOp \/ Current(i))',
         r.kind = "create" => Current(o)'
  PROVE  HInv'
<1>1. /\ nops' = o /\ o \in OpId /\ op'[o] = r /\ pc'[o] = "launch"
      /\ 1..nops' = (1..nops) \union {o}
      /\ \A q \in 1..nops : q \in OpId /\ q < o /\ op'[q] = op[q] /\ pc'[q] = pc[q]
      /\ \A x \in 1..nops : \A j : IsAttempt(x, j)' <=> IsAttempt(x, j)
      /\ \A x \in 1..nops : \A j : FirstDelete(x, j)' <=> FirstDelete(x, j)
      /\ UNCHANGED <<res, settled, ids, cloud, confirmed, cancelled>>
  BY DispatchLeaves
<1>0. /\ nops \in Nat /\ o \in Nat /\ 1..(o - 1) = 1..nops /\ present \subseteq Node
      /\ o \notin 1..nops
      /\ \A x \in 1..nops : 1..x \subseteq 1..nops /\ x \in Nat
  BY EngineAssumption DEF EInv, TypeOK
<1>2. /\ \A x \in 1..nops : \A j \in OpId :
           <<x, j>> \in deleteFailed' <=> <<x, j>> \in deleteFailed
      /\ \A j \in OpId : IsAttempt(o, j)' => <<o, j>> \in deleteFailed'
      /\ \A j \in OpId : <<o, j>> \notin settled'
  <2>1. \A j \in OpId : <<o, j>> \notin settled
    BY <1>0, <1>1 DEF HInv, Verdicts, IsAttempt
  <2>2. QED
    BY <1>1, <2>1
<1>3. \A x \in 1..nops : \A j : AttemptDone(x, j)' <=> AttemptDone(x, j)
  BY <1>1 DEF AttemptDone, Done
<1>4. r.kind = "create" => Current(o)'
  OBVIOUS
<1>5. \A j \in OpId : ~AttemptDone(o, j)'
  BY <1>1, <1>2 DEF AttemptDone, Done
<1>6. \A x \in 1..nops, i \in OpId : IsAttempt(x, i) => i \in 1..nops
  BY <1>0 DEF HInv, Chained
<1>7. Verdicts'
  <2>1. \A x, i \in OpId : <<x, i>> \in settled' => IsAttempt(x, i)'
    <3>1. \A x, i \in OpId : <<x, i>> \in settled => x \in 1..nops /\ IsAttempt(x, i)
      BY DEF HInv, Verdicts, IsAttempt
    <3>2. QED
      BY <1>1, <3>1
  <2>2. ASSUME NEW x \in 1..nops', NEW i \in OpId, IsAttempt(x, i)', <<x, i>> \notin deleteFailed'
        PROVE  /\ Done(i)' /\ i \notin res' \ confirmed'
               /\ IF op'[x].kind = "delete" THEN Ran(x)' ELSE <<x, i>> \in settled'
    <3>1. x \in 1..nops /\ IsAttempt(x, i) /\ i \in 1..nops /\ <<x, i>> \notin deleteFailed
      BY <1>1, <1>2, <1>6, <2>2
    <3>2. /\ Done(i) /\ i \notin res \ confirmed
          /\ IF op[x].kind = "delete" THEN Ran(x) ELSE <<x, i>> \in settled
      BY <3>1 DEF HInv, Verdicts
    <3>3. QED
      BY <1>1, <3>1, <3>2 DEF Done, Ran
  <2>3. ASSUME NEW x \in 1..nops', NEW q \in 1..nops', NEW i \in OpId,
               IsAttempt(x, i)', IsAttempt(q, i)', x < q, AttemptDone(q, i)'
        PROVE  /\ AttemptDone(x, i)'
               /\ <<x, i>> \notin deleteFailed' => <<q, i>> \notin deleteFailed'
    <3>1. q \in 1..nops
      BY <1>1, <1>5, <2>3
    <3>2. x \in 1..nops
      BY <1>0, <1>1, <2>3, <3>1
    <3>3. IsAttempt(x, i) /\ IsAttempt(q, i) /\ AttemptDone(q, i)
      BY <1>1, <1>3, <2>3, <3>1, <3>2
    <3>4. AttemptDone(x, i) /\ (<<x, i>> \notin deleteFailed => <<q, i>> \notin deleteFailed)
      BY <2>3, <3>1, <3>2, <3>3 DEF HInv, Verdicts
    <3>5. QED
      BY <1>2, <1>3, <3>1, <3>2, <3>4
  <2>4. ASSUME NEW i \in confirmed'
        PROVE  \E x \in 1..nops' : IsAttempt(x, i)' /\ <<x, i>> \notin deleteFailed'
    <3>1. i \in confirmed /\ i \in OpId
      BY <1>1 DEF EInv, TypeOK
    <3>2. PICK x \in 1..nops : IsAttempt(x, i) /\ <<x, i>> \notin deleteFailed
      BY <3>1 DEF HInv, Verdicts
    <3>3. QED
      BY <1>1, <1>2, <3>1, <3>2
  <2>5. QED
    BY <2>1, <2>2, <2>3, <2>4 DEF Verdicts
<1>8. Instances'
  <2>1. \A i \in res' : i \in 1..nops' /\ op'[i].kind = "create"
    BY <1>1 DEF HInv, Instances
  <2>2. ASSUME NEW i \in 1..nops', op'[i].kind = "create", ~Done(i)' \/ i \in res' \ confirmed'
        PROVE  (del[i] # NoOp \/ Current(i))'
    <3>1. CASE i = o
      BY <1>1, <1>4, <2>2, <3>1
    <3>2. CASE i \in 1..nops
      <4>1. op[i].kind = "create" /\ (~Done(i) \/ i \in res \ confirmed)
        BY <1>1, <2>2, <3>2 DEF Done
      <4>2. del[i] # NoOp \/ Current(i)
        BY <3>2, <4>1 DEF HInv, Instances
      <4>3. QED
        BY <3>2, <4>1, <4>2
    <3>3. QED
      BY <1>1, <3>1, <3>2
  <2>3. \A i \in confirmed' : i \notin cloud' /\ Done(i)'
    <3>1. \A i \in confirmed : i \notin cloud /\ Done(i) /\ i \in OpId
      BY DEF HInv, Instances, EInv, TypeOK
    <3>2. \A i \in OpId : Done(i) => i \in 1..nops
      BY <1>0 DEF EInv, Dispatched, Done, OpId
    <3>3. QED
      BY <1>1, <3>1, <3>2 DEF Done
  <2>4. ASSUME NEW i \in res' \ cloud'
        PROVE  /\ \E x \in 1..nops' : FirstDelete(x, i)'
               /\ \A q \in 1..nops' : i \in op'[q].parents => Done(q)'
    <3>1. PICK x \in 1..nops : FirstDelete(x, i)
      BY <1>1 DEF HInv, Instances
    <3>2. \A q \in 1..nops : i \in op[q].parents => Done(q)
      BY <1>1 DEF HInv, Instances
    <3>3. i \notin r.parents
      <4>1. IsAttempt(x, i)
        BY <3>1 DEF FirstDelete, IsAttempt
      <4>2. ASSUME i \in r.parents PROVE FALSE
        <5>1. PICK m \in present : i = create[m]
          BY <4>2 DEF Takes
        <5>2. QED
          BY <3>1, <4>1, <5>1 DEF HInv, Chained
      <4>3. QED
        BY <4>2
    <3>4. QED
      BY <1>1, <3>1, <3>2, <3>3 DEF Done
  <2>5. QED
    BY <2>1, <2>2, <2>3, <2>4 DEF Instances
<1>9. IdsKnown'
  <2>1. ASSUME NEW x \in 1..nops', NEW i \in OpId, IsAttempt(x, i)'
        PROVE  /\ op'[x].kind = "delete" /\ Ran(x)' => <<x, i>> \in ids' \/ cancelled'
               /\ op'[x].kind = "create" /\ <<x, i>> \in settled' => <<x, i>> \in ids' \/ cancelled'
               /\ op'[x].kind = "create" /\ Ordered(x)' => <<op'[x].retries[i], i>> \in ids'
    <3>1. CASE x = o
      BY <1>1, <1>2, <3>1 DEF Ran, Ordered, PastAwait
    <3>2. CASE x \in 1..nops
      BY <1>1, <2>1, <3>2 DEF HInv, IdsKnown, Ran, Ordered, PastAwait
    <3>3. QED
      BY <1>1, <3>1, <3>2
  <2>2. QED
    BY <2>1 DEF IdsKnown
<1>10. SerialUnder'
  <2>1. ASSUME NEW p \in 1..nops', Ordered(p)', NEW q \in 1..nops', Under(q, p)'
        PROVE  Finished(q)'
    <3>1. p \in 1..nops /\ Ordered(p)
      BY <1>1, <2>1 DEF Ordered, PastAwait
    <3>2. PICK x \in 1..p : /\ op'[x].kind = "delete" /\ op'[x].node = op'[p].node
                            /\ q < x /\ Above(x, q)'
      BY <2>1 DEF Under
    <3>3. x \in 1..nops /\ q \in 1..nops
      BY <1>0, <1>1, <3>1, <3>2
    <3>4. Under(q, p)
      BY <1>1, <3>1, <3>2, <3>3 DEF Under, Above
    <3>5. Finished(q)
      BY <3>1, <3>3, <3>4 DEF HInv, SerialUnder
    <3>6. QED
      BY <1>1, <3>3, <3>5 DEF Finished, Done
  <2>2. QED
    BY <2>1 DEF SerialUnder
<1>11. ChildrenFirst'
  BY DispatchChildrenFirst
<1>12. QED
  BY <1>7, <1>8, <1>9, <1>10, <1>11 DEF HInv

(***************************************************************************)
(* The chains of attempts grow at their end: a new attempt at instance j   *)
(* is the first one, made by its delete, or takes over the latest.         *)
(***************************************************************************)
Extends(r, j) ==
  /\ j \in 1..nops /\ op[j].kind = "create" /\ op[j].node = r.node
  /\ \/ r.kind = "delete" /\ r.create = j /\ \A x \in 1..nops : ~IsAttempt(x, j)
     \/ r.kind = "create" /\ j \in DOMAIN r.retries /\ del[j] # NoOp /\ r.retries[j] = del[j]

LEMMA DispatchChained ==
  ASSUME EInv, HInv, NEW r, NEW room, Fresh(r), Takes(r), Dispatch(r, room), nops < MaxOps,
         NEW o, o = nops + 1,
         \A j \in OpId : IsAttempt(o, j)' => Extends(r, j),
         \A j \in OpId : del'[j] # NoOp =>
           IF IsAttempt(o, j)' THEN del'[j] = o ELSE del'[j] = del[j],
         \A n \in Node : create'[n] = create[n] \/ (create'[n] = o /\ r.kind = "create"),
         present' \subseteq Node,
         \A n \in present' : create'[n] = o \/
           \A i : i = create'[n] =>
             n \in present /\ create[n] = i /\ ~IsAttempt(o, i)',
         \A i \in 1..nops : Current(i) /\ ~Current(i)' => FirstDelete(o, i)',
         r.kind = "create" => Current(o)'
  PROVE  Chained'
<1>1. /\ nops' = o /\ o \in OpId /\ op'[o] = r
      /\ 1..nops' = (1..nops) \union {o}
      /\ \A q \in 1..nops : q \in OpId /\ q < o /\ op'[q] = op[q]
      /\ \A x \in 1..nops : \A j : IsAttempt(x, j)' <=> IsAttempt(x, j)
      /\ \A j : IsAttempt(o, j)' <=>
           (r.kind = "delete" /\ r.create = j) \/ (r.kind = "create" /\ j \in DOMAIN r.retries)
      /\ \A x \in 1..nops : \A j : FirstDelete(x, j)' <=> FirstDelete(x, j)
      /\ \A j : FirstDelete(o, j)' <=> (r.kind = "delete" /\ r.create = j)
  BY DispatchLeaves
<1>0. /\ nops \in Nat /\ o \in Nat /\ 1..(o - 1) = 1..nops /\ present \subseteq Node
      /\ o \notin 1..nops
      /\ \A x \in 1..nops : 1..(x - 1) \subseteq 1..nops /\ 1..x \subseteq 1..nops /\ x \in Nat
  BY EngineAssumption DEF EInv, TypeOK
<1>2. ASSUME NEW x \in 1..nops', op'[x].kind # "create" PROVE DOMAIN op'[x].retries = {}
  BY <1>1, <1>2 DEF Takes, HInv, Chained
<1>3. ASSUME NEW n \in Node, create'[n] # NoOp PROVE op'[create'[n]].kind = "create"
  <2>1. CASE create'[n] = o
    <3>1. create[n] # o
      <4>1. create[n] # NoOp => create[n] \in 1..nops
        BY DEF EInv, Bookkeeping
      <4>2. QED
        BY <1>0, <2>1, <1>3, <4>1
    <3>2. QED
      BY <1>1, <2>1, <3>1
  <2>2. CASE create'[n] = create[n]
    <3>1. create[n] \in 1..nops /\ op[create[n]].kind = "create"
      BY <1>3, <2>2 DEF EInv, Bookkeeping, HInv, Chained
    <3>2. QED
      BY <1>1, <2>2, <3>1
  <2>3. QED
    BY <2>1, <2>2
<1>4. ASSUME NEW n \in present', NEW x \in 1..nops', NEW i, i = create'[n]
      PROVE  ~IsAttempt(x, i)'
  <2>1. CASE i = o
    <3>1. ~IsAttempt(o, o)'
      BY <1>0, <1>1 DEF Extends
    <3>2. ~IsAttempt(x, o) \/ x \notin 1..nops
      BY <1>0, <1>1 DEF HInv, Chained
    <3>3. QED
      BY <1>1, <2>1, <3>1, <3>2
  <2>2. CASE n \in present /\ i = create[n] /\ ~IsAttempt(o, i)'
    <3>1. \A y \in 1..nops : ~IsAttempt(y, i)
      BY <2>2 DEF HInv, Chained
    <3>2. QED
      BY <1>1, <2>2, <3>1
  <2>3. QED
    BY <1>4, <2>1, <2>2
<1>5. ASSUME NEW i \in OpId, del'[i] # NoOp, NEW x \in 1..nops', IsAttempt(x, i)'
      PROVE  x <= del'[i]
  <2>1. CASE IsAttempt(o, i)'
    BY <1>0, <1>1, <1>5, <2>1
  <2>2. CASE ~IsAttempt(o, i)'
    BY <1>1, <1>5, <2>2 DEF HInv, Chained
  <2>3. QED
    BY <2>1, <2>2
<1>6. ASSUME NEW i \in OpId, del'[i] # NoOp
      PROVE  \E y \in 1..nops' : y = del'[i] /\ IsAttempt(y, i)'
  <2>1. CASE IsAttempt(o, i)'
    BY <1>1, <1>6, <2>1
  <2>2. CASE ~IsAttempt(o, i)'
    <3>1. del'[i] = del[i] /\ IsAttempt(del[i], i)
      BY <1>6, <2>2 DEF HInv, Chained
    <3>2. del[i] \in 1..nops
      BY <3>1 DEF IsAttempt
    <3>3. QED
      BY <1>1, <3>1, <3>2
  <2>3. QED
    BY <2>1, <2>2
<1>7. ASSUME NEW x \in 1..nops', NEW i \in OpId, IsAttempt(x, i)'
      PROVE  /\ i \in 1..(x - 1) /\ op'[i].kind = "create" /\ op'[i].node = op'[x].node
             /\ \E y \in 1..x : FirstDelete(y, i)'
             /\ op'[x].kind = "create" =>
                  \E y \in 1..nops' : y = op'[x].retries[i] /\ IsAttempt(y, i)'
  <2>1. CASE x = o
    <3>1. Extends(r, i)
      BY <1>7, <2>1
    <3>2. i \in 1..nops /\ op'[i] = op[i] /\ op[i].kind = "create" /\ op[i].node = r.node
      BY <1>1, <3>1 DEF Extends
    <3>3. CASE r.kind = "delete"
      BY <1>0, <1>1, <2>1, <3>1, <3>2, <3>3 DEF Extends
    <3>4. CASE r.kind # "delete"
      <4>1. /\ del[i] # NoOp /\ r.retries[i] = del[i]
        BY <3>1, <3>4 DEF Extends
      <4>2. IsAttempt(del[i], i) /\ del[i] \in 1..nops
        BY <4>1 DEF HInv, Chained, IsAttempt
      <4>3. \E y \in 1..nops : FirstDelete(y, i)
        BY <1>0, <4>2 DEF HInv, Chained
      <4>4. QED
        BY <1>0, <1>1, <2>1, <3>2, <4>1, <4>2, <4>3
    <3>5. QED
      BY <3>3, <3>4
  <2>2. CASE x \in 1..nops
    <3>1. IsAttempt(x, i) /\ op'[x] = op[x]
      BY <1>1, <1>7, <2>2
    <3>2. /\ i \in 1..(x - 1) /\ op[i].kind = "create" /\ op[i].node = op[x].node
          /\ \E y \in 1..x : FirstDelete(y, i)
          /\ op[x].kind = "create" => IsAttempt(op[x].retries[i], i)
      BY <2>2, <3>1 DEF HInv, Chained
    <3>3. op[x].kind = "create" => op[x].retries[i] \in 1..nops
      BY <3>2 DEF IsAttempt
    <3>4. QED
      BY <1>0, <1>1, <2>2, <3>1, <3>2, <3>3
  <2>3. QED
    BY <1>1, <2>1, <2>2
<1>8. ASSUME NEW x \in 1..nops', NEW q \in 1..nops', NEW i \in OpId,
             IsAttempt(x, i)', IsAttempt(q, i)', x < q
      PROVE  op'[q].kind = "create" /\ x <= op'[q].retries[i]
  <2>0. x \in 1..nops
    BY <1>0, <1>1, <1>8
  <2>1. CASE q = o
    <3>1. Extends(r, i) /\ IsAttempt(x, i)
      BY <1>1, <1>8, <2>0, <2>1
    <3>2. r.kind = "create" /\ del[i] # NoOp /\ r.retries[i] = del[i]
      BY <2>0, <3>1 DEF Extends
    <3>3. QED
      BY <1>1, <2>0, <2>1, <3>1, <3>2 DEF HInv, Chained
  <2>2. CASE q \in 1..nops
    BY <1>1, <1>8, <2>0, <2>2 DEF HInv, Chained
  <2>3. QED
    BY <1>1, <2>1, <2>2
<1>9. ASSUME NEW i \in 1..nops', op'[i].kind = "create", ~Current(i)'
      PROVE  \E x \in 1..nops' : FirstDelete(x, i)'
  <2>1. i \in 1..nops
    BY <1>1, <1>9
  <2>2. CASE Current(i)
    BY <1>1, <1>9, <2>1, <2>2
  <2>3. CASE ~Current(i)
    <3>1. \E x \in 1..nops : FirstDelete(x, i)
      BY <1>1, <1>9, <2>1, <2>3 DEF HInv, Chained
    <3>2. QED
      BY <1>1, <3>1
  <2>4. QED
    BY <2>2, <2>3
<1>10. /\ \A i \in OpId : del'[i] # NoOp => IsAttempt(del[i], i)'
       /\ \A x \in 1..nops', i \in OpId :
            IsAttempt(x, i)' /\ op'[x].kind = "create" => IsAttempt(op[x].retries[i], i)'
  BY <1>6, <1>7 DEF IsAttempt
<1>11. QED
  BY <1>2, <1>3, <1>4, <1>5, <1>7, <1>8, <1>9, <1>10 DEF Chained

(***************************************************************************)
(* A dispatched create preserves the history invariant.                    *)
(***************************************************************************)
LEMMA DispatchCreateH ==
  ASSUME EInv, HInv, NEW n \in CreateCandidates(present), DispatchCreate(n),
         NEW r, NEW o, o = nops + 1, r = CreateRecord(n, o), Fresh(r)
  PROVE  HInv'
<1>0. MaxOps \in Nat /\ nops \in 0..MaxOps /\ NoOp \notin OpId
  BY EngineAssumption DEF EInv, TypeOK, OpId, NoOp
<1>1. n \in Node /\ n \notin present /\ Parents[n] \subseteq present /\ present \subseteq Node
  BY DEF CreateCandidates, EInv, TypeOK
<1> DEFINE U == Unconfirmed(n)
<1>2. /\ Dispatch(r, 1)
      /\ del' = [i \in OpId |-> IF i \in U THEN o ELSE del[i]]
      /\ deleteFailed' = deleteFailed \union ({o} \X U)
      /\ present' = present \union {n}
      /\ create' = [create EXCEPT ![n] = o]
  BY DEF DispatchCreate, CreateRecord
<1>3. nops < MaxOps
  BY <1>0, <1>2 DEF Dispatch
<1>4. /\ r.kind = "create" /\ r.node = n /\ DOMAIN r.retries = U /\ r.parents = ParentOps(n)
      /\ \A i \in U : r.retries[i] = del[i]
  BY DEF CreateRecord
<1>5. Takes(r)
  BY <1>1, <1>4 DEF Takes, ParentOps
<1>6. /\ nops' = o /\ o \in OpId /\ op'[o] = r
      /\ \A q \in 1..nops : q \in OpId /\ q < o /\ op'[q] = op[q] /\ pc'[q] = pc[q]
      /\ \A x \in 1..nops : \A j : IsAttempt(x, j)' <=> IsAttempt(x, j)
      /\ \A j : IsAttempt(o, j)' <=> j \in U
      /\ \A j : ~FirstDelete(o, j)'
      /\ UNCHANGED <<res, settled, ids, cloud, confirmed, cancelled>>
  BY <1>2, <1>3, <1>4, <1>5, DispatchLeaves
<1>7. \A i \in U : i \in OpId /\ i \in 1..nops /\ op[i].node = n /\ del[i] # NoOp
  BY <1>1, UnconfirmedOps DEF Unconfirmed, Retired
<1> HIDE DEF U
<1>8. \A m \in Node : create'[m] = IF m = n THEN o ELSE create[m]
  BY <1>2 DEF EInv, TypeOK
<1>9. Current(o)'
  BY <1>1, <1>2, <1>4, <1>6, <1>8 DEF Current
<1>10. ASSUME NEW i \in 1..nops, Current(i) PROVE Current(i)'
  BY <1>1, <1>2, <1>6, <1>8, <1>10 DEF Current
<1>11. Chained'
  <2>1. ASSUME NEW j \in OpId, IsAttempt(o, j)' PROVE Extends(r, j)
    <3>1. j \in U
      BY <1>6, <2>1
    <3>2. IsAttempt(del[j], j)
      BY <1>7, <3>1 DEF HInv, Chained
    <3>3. del[j] \in 1..nops /\ op[j].kind = "create"
      BY <3>2 DEF HInv, Chained, IsAttempt
    <3>4. QED
      BY <1>4, <1>7, <3>1, <3>3 DEF Extends
  <2>2. ASSUME NEW j \in OpId, del'[j] # NoOp
        PROVE  IF IsAttempt(o, j)' THEN del'[j] = o ELSE del'[j] = del[j]
    BY <1>2, <1>6
  <2>3. ASSUME NEW m \in present', create'[m] # o, NEW i, i = create'[m]
        PROVE  m \in present /\ create[m] = i /\ ~IsAttempt(o, i)'
    <3>1. m \in present /\ m # n /\ m \in Node /\ create[m] = i
      BY <1>1, <1>2, <1>8, <2>3
    <3>2. op[i].node = m
      BY <3>1 DEF EInv, Bookkeeping
    <3>3. QED
      BY <1>6, <1>7, <3>1, <3>2
  <2>4. present' \subseteq Node /\ \A m \in Node : create'[m] = create[m] \/ create'[m] = o
    BY <1>1, <1>2, <1>8
  <2>5. \A m \in present' : create'[m] = o \/
           \A i : i = create'[m] => m \in present /\ create[m] = i /\ ~IsAttempt(o, i)'
    BY <2>3
  <2>6. QED
    BY <1>2, <1>3, <1>4, <1>5, <1>9, <1>10, <2>1, <2>2, <2>4, <2>5, DispatchChained
<1>12. \A x \in 1..nops : \A j \in OpId :
         <<x, j>> \in deleteFailed' <=> <<x, j>> \in deleteFailed
  BY <1>2, <1>6
<1>13. \A j \in OpId : IsAttempt(o, j)' => <<o, j>> \in deleteFailed'
  BY <1>2, <1>6
<1>14. ASSUME NEW i \in 1..nops, del[i] # NoOp \/ Current(i)
       PROVE  (del[i] # NoOp \/ Current(i))'
  <2>1. CASE del[i] # NoOp
    <3>1. del'[i] # NoOp
      BY <1>0, <1>2, <1>6, <2>1
    <3>2. QED
      BY <3>1
  <2>2. CASE Current(i)
    BY <1>10, <2>2
  <2>3. QED
    BY <1>14, <2>1, <2>2
<1>15. QED
  BY <1>2, <1>3, <1>5, <1>9, <1>11, <1>12, <1>13, <1>14, DispatchHistory

(***************************************************************************)
(* A dispatched delete preserves the history invariant: the verdicts it    *)
(* drops from del are those of instances that are gone for good.           *)
(***************************************************************************)
LEMMA DispatchDeleteH ==
  ASSUME EInv, HInv, NEW n \in present, Children(n) \cap present = {}, NEW room,
         nops < MaxOps, DispatchDelete(n, room),
         NEW r, NEW o, o = nops + 1, r = DeleteRecord(n), Fresh(r)
  PROVE  HInv'
<1>0. MaxOps \in Nat /\ nops \in 0..MaxOps /\ NoOp \notin OpId
  BY EngineAssumption DEF EInv, TypeOK, OpId, NoOp
<1>1. /\ n \in Node /\ Parents[n] \subseteq present /\ present \subseteq Node
      /\ create[n] \in 1..nops /\ op[create[n]].node = n /\ op[create[n]].kind = "create"
      /\ \A x \in 1..nops : ~IsAttempt(x, create[n])
  BY DEF EInv, TypeOK, PresentClosed, Bookkeeping, HInv, Chained
<1>2. PICK i0 : i0 = create[n]
  OBVIOUS
<1> DEFINE U == Unconfirmed(n)
<1>3. /\ Dispatch(r, room)
      /\ del' = [j \in OpId |-> IF j = i0 THEN o
                                ELSE IF j \in Retired(n) \ U THEN NoOp ELSE del[j]]
      /\ deleteFailed' = deleteFailed \union {<<o, i0>>}
      /\ present' = present \ {n}
      /\ UNCHANGED create
  BY <1>2 DEF DispatchDelete, DeleteRecord
<1>4. /\ r.kind = "delete" /\ r.node = n /\ DOMAIN r.retries = {} /\ r.parents = ParentOps(n)
      /\ r.create = i0 /\ r.deps = DeleteDeps(n)
  BY <1>2 DEF DeleteRecord, NoRetries
<1>5. Takes(r)
  BY <1>1, <1>2, <1>4 DEF Takes, ParentOps, DeleteDeps
<1>6. /\ nops' = o /\ o \in OpId /\ op'[o] = r
      /\ \A q \in 1..nops : q \in OpId /\ q < o /\ op'[q] = op[q] /\ pc'[q] = pc[q]
      /\ \A x \in 1..nops : \A j : IsAttempt(x, j)' <=> IsAttempt(x, j)
      /\ \A j : IsAttempt(o, j)' <=> j = i0
      /\ \A j : FirstDelete(o, j)' <=> j = i0
      /\ UNCHANGED <<res, settled, ids, cloud, confirmed, cancelled>>
  BY <1>3, <1>4, <1>5, DispatchLeaves
<1> HIDE DEF U
<1>7. ASSUME NEW i \in 1..nops, Current(i) PROVE Current(i)' \/ i = i0
  BY <1>1, <1>2, <1>3, <1>6, <1>7 DEF Current
<1>8. Chained'
  <2>1. ASSUME NEW j \in OpId, IsAttempt(o, j)' PROVE Extends(r, j)
    BY <1>1, <1>2, <1>4, <1>6, <2>1 DEF Extends
  <2>2. ASSUME NEW j \in OpId, del'[j] # NoOp
        PROVE  IF IsAttempt(o, j)' THEN del'[j] = o ELSE del'[j] = del[j]
    BY <1>3, <1>6, <2>2
  <2>3. ASSUME NEW m \in present', NEW i, i = create'[m]
        PROVE  m \in present /\ create[m] = i /\ ~IsAttempt(o, i)'
    <3>1. m \in present /\ m # n /\ m \in Node /\ create[m] = i
      BY <1>1, <1>3, <2>3
    <3>2. op[i].node = m
      BY <3>1 DEF EInv, Bookkeeping
    <3>3. QED
      BY <1>1, <1>2, <1>6, <3>1, <3>2
  <2>4. present' \subseteq Node /\ \A m \in Node : create'[m] = create[m]
    BY <1>1, <1>3
  <2>5. \A m \in present' : create'[m] = o \/
           \A i : i = create'[m] => m \in present /\ create[m] = i /\ ~IsAttempt(o, i)'
    BY <2>3
  <2>6. \A i \in 1..nops : Current(i) /\ ~Current(i)' => FirstDelete(o, i)'
    BY <1>6, <1>7
  <2>7. r.kind # "create"
    BY <1>4
  <2>8. QED
    BY <1>3, <1>5, <2>1, <2>2, <2>4, <2>5, <2>6, <2>7, DispatchChained
<1>9. \A x \in 1..nops : \A j \in OpId :
         <<x, j>> \in deleteFailed' <=> <<x, j>> \in deleteFailed
  BY <1>3, <1>6
<1>10. \A j \in OpId : IsAttempt(o, j)' => <<o, j>> \in deleteFailed'
  BY <1>3, <1>6
<1>11. ASSUME NEW i \in 1..nops, del[i] # NoOp \/ Current(i), ~Done(i) \/ i \in res \ confirmed
       PROVE  (del[i] # NoOp \/ Current(i))'
  <2>1. CASE i = i0
    BY <1>0, <1>3, <1>6, <2>1
  <2>2. CASE del[i] # NoOp /\ i # i0
    <3>1. IsAttempt(del[i], i) /\ del[i] \in 1..nops /\ i \in OpId
      BY <1>6, <2>2 DEF HInv, Chained, IsAttempt
    <3>2. <<del[i], i>> \in deleteFailed
      BY <1>11, <3>1 DEF HInv, Verdicts
    <3>3. i \notin Retired(n) \ U
      BY <3>1, <3>2 DEF U, Unconfirmed, Removed
    <3>4. QED
      BY <1>3, <2>2, <3>1, <3>3
  <2>3. CASE Current(i) /\ i # i0
    BY <1>7, <2>3
  <2>4. QED
    BY <1>11, <2>1, <2>2, <2>3
<1>12. r.kind # "create"
  BY <1>4
<1>13. QED
  BY <1>3, <1>5, <1>8, <1>9, <1>10, <1>11, <1>12, DispatchHistory

(***************************************************************************)
(* A dispatched mutation preserves the history invariant.                  *)
(***************************************************************************)
LEMMA DispatchMutateH ==
  ASSUME EInv, HInv, NEW n \in present, DispatchMutate(n), nops < MaxOps,
         NEW r, NEW o, o = nops + 1, r = MutateRecord(n), Fresh(r)
  PROVE  HInv'
<1>1. n \in Node /\ Parents[n] \subseteq present /\ present \subseteq Node
  BY DEF EInv, TypeOK, PresentClosed
<1>2. Dispatch(r, 1) /\ UNCHANGED <<present, create, del, deleteFailed>>
  BY DEF DispatchMutate, MutateRecord
<1>3. r.kind = "mutate" /\ r.node = n /\ DOMAIN r.retries = {} /\ r.parents = ParentOps(n)
  BY DEF MutateRecord, NoRetries
<1>4. Takes(r)
  BY <1>1, <1>3 DEF Takes, ParentOps
<1>5. /\ \A q \in 1..nops : op'[q] = op[q]
      /\ \A j : ~IsAttempt(o, j)'
  BY <1>2, <1>3, <1>4, DispatchLeaves
<1>6. \A i \in 1..nops : Current(i)' <=> Current(i)
  BY <1>2, <1>5 DEF Current
<1>7. Chained'
  BY <1>1, <1>2, <1>3, <1>4, <1>5, <1>6, DispatchChained
<1>8. QED
  BY <1>2, <1>3, <1>4, <1>5, <1>6, <1>7, DispatchHistory

(***************************************************************************)
(* Every other step of the scheduler leaves the history as it is.          *)
(***************************************************************************)
LEMMA SchedulerH ==
  ASSUME EInv, HInv,
         UNCHANGED <<present, create, del, nops, op, res, deleteFailed, ids, settled, cloud,
                     confirmed>>,
         cancelled => cancelled',
         \A q \in OpId : pc'[q] = pc[q] \/ (pc[q] = "launch" /\ pc'[q] = "await")
  PROVE  HInv'
<1>0. /\ MaxOps \in Nat /\ nops \in 0..MaxOps /\ \A x \in 1..nops : x \in OpId
      /\ confirmed \subseteq OpId
  BY EngineAssumption DEF EInv, TypeOK, OpId
<1>1. /\ \A q \in OpId : /\ Done(q)' <=> Done(q)
                         /\ Ran(q)' <=> Ran(q)
                         /\ Ordered(q)' => Ordered(q)
  BY DEF Done, Ran, Ordered, PastAwait
<1>2. /\ \A x, i : IsAttempt(x, i)' <=> IsAttempt(x, i)
      /\ \A x, i : FirstDelete(x, i)' <=> FirstDelete(x, i)
      /\ \A i : Current(i)' <=> Current(i)
      /\ \A q, p : Under(q, p)' <=> Under(q, p)
  BY DEF IsAttempt, FirstDelete, Current, Under, Above
<1>3. /\ \A x \in 1..nops : \A i : AttemptDone(x, i)' <=> AttemptDone(x, i)
      /\ \A q \in 1..nops : Finished(q)' <=> Finished(q)
  BY <1>0, <1>1 DEF AttemptDone, Finished
<1>4. Chained'
  BY DEF HInv, Chained, IsAttempt, FirstDelete, Current
<1>5. ChildrenFirst'
  BY DEF HInv, ChildrenFirst, Above, FirstDelete
<1>6. Verdicts'
  BY <1>0, <1>1, <1>2, <1>3 DEF HInv, Verdicts
<1>7. Instances'
  BY <1>0, <1>1, <1>2 DEF HInv, Instances
<1>8. IdsKnown'
  BY <1>0, <1>1, <1>2 DEF HInv, IdsKnown
<1>9. SerialUnder'
  BY <1>0, <1>1, <1>2, <1>3 DEF HInv, SerialUnder
<1>10. QED
  BY <1>4, <1>5, <1>6, <1>7, <1>8, <1>9 DEF HInv

(***************************************************************************)
(* Every step preserves the history invariant.                             *)
(***************************************************************************)
LEMMA HStepInv == EInv /\ EInv' /\ HInv /\ [Next]_vars => HInv'
<1> SUFFICES ASSUME EInv, EInv', HInv, [Next]_vars PROVE HInv'
  OBVIOUS
<1>0. /\ MaxOps \in Nat /\ nops \in 0..MaxOps /\ rolling \subseteq Node
  BY EngineAssumption DEF EInv, TypeOK
<1>1. ASSUME NEW n \in CreateCandidates(present), DispatchCreate(n) PROVE HInv'
  <2>1. nops < MaxOps
    BY <1>0, <1>1 DEF DispatchCreate, Dispatch
  <2>2. PICK o : o = nops + 1
    OBVIOUS
  <2>3. PICK r : r = CreateRecord(n, o)
    OBVIOUS
  <2>4. Fresh(r)
    BY <2>1, <2>2, <2>3, CreateIsFresh
  <2>5. QED
    BY <1>1, <2>2, <2>3, <2>4, DispatchCreateH
<1>2. ASSUME NEW n \in present, Children(n) \cap present = {}, NEW room, nops < MaxOps,
             DispatchDelete(n, room)
      PROVE  HInv'
  <2>1. PICK o : o = nops + 1
    OBVIOUS
  <2>2. PICK r : r = DeleteRecord(n)
    OBVIOUS
  <2>3. Fresh(r)
    BY <1>2, <2>2, DeleteIsFresh
  <2>4. QED
    BY <1>2, <2>1, <2>2, <2>3, DispatchDeleteH
<1>3. ASSUME NEW n \in present, DispatchMutate(n) PROVE HInv'
  <2>1. nops < MaxOps
    BY <1>0, <1>3 DEF DispatchMutate, Dispatch
  <2>2. PICK o : o = nops + 1
    OBVIOUS
  <2>3. PICK r : r = MutateRecord(n)
    OBVIOUS
  <2>4. Fresh(r)
    BY <2>1, <2>3, MutateIsFresh
  <2>5. QED
    BY <1>3, <2>1, <2>2, <2>3, <2>4, DispatchMutateH
<1>4. ASSUME NEW n \in Node, StepEagerCreate(n) \/ StepCreate(n) PROVE HInv'
  BY <1>1, <1>4 DEF StepEagerCreate, StepCreate, EagerCreateCandidates
<1>5. ASSUME NEW n \in Node, StepMutate(n) PROVE HInv'
  BY <1>3, <1>5 DEF StepMutate, MutateCandidates
<1>6. ASSUME NEW n \in Node, StepDelete(n) PROVE HInv'
  <2>1. n \in present /\ Children(n) \cap present = {} /\ DispatchDelete(n, 1)
    BY <1>6 DEF StepDelete, DeleteCandidates
  <2>2. nops < MaxOps
    BY <1>0, <2>1 DEF DispatchDelete, Dispatch
  <2>3. QED
    BY <1>2, <2>1, <2>2
<1>7. ASSUME NEW n \in Node, RollDelete(n) PROVE HInv'
  <2>1. n \in rolling /\ Children(n) \cap present = {} /\ DispatchDelete(n, Cardinality(rolling))
    BY <1>7 DEF RollDelete
  <2>2. Cardinality(rolling) \in Nat /\ Cardinality(rolling) # 0
    BY <1>0, <2>1, NodeAssumption, FS_Subset, FS_CardinalityType, FS_EmptySet
  <2>3. nops + Cardinality(rolling) <= MaxOps
    BY <2>1 DEF DispatchDelete, Dispatch
  <2>4. nops < MaxOps
    BY <1>0, <2>2, <2>3
  <2>5. n \in present
    BY <2>1 DEF EInv, PresentClosed
  <2>6. QED
    BY <1>2, <2>1, <2>4, <2>5
<1>8. CASE \/ \E n \in Node : RollBegin(n)
           \/ StepNoop \/ Tick \/ Stop \/ Return \/ Cancel \/ Terminated \/ UNCHANGED vars
  <2>1. /\ UNCHANGED <<present, create, del, nops, op, pc, res, deleteFailed, ids, settled,
                       cloud, confirmed>>
        /\ cancelled => cancelled'
    BY <1>8 DEF RollBegin, StepNoop, Tick, Stop, Return, Cancel, Terminated, vars, schedule,
                states, outcomes
  <2>2. QED
    BY <2>1, SchedulerH
<1>9. CASE Launch
  <2>1. /\ UNCHANGED <<present, create, del, nops, op, res, deleteFailed, ids, settled,
                       cloud, confirmed, cancelled>>
        /\ sched = "launch" /\ pc' = [pc EXCEPT ![nops] = "await"]
    BY <1>9 DEF Launch, schedule, states, outcomes
  <2>2. \A q \in OpId : pc'[q] = pc[q] \/ (pc[q] = "launch" /\ pc'[q] = "await")
    BY <2>1 DEF EInv, TypeOK, Launching
  <2>3. QED
    BY <2>1, <2>2, SchedulerH
<1>10. ASSUME NEW o \in OpId, OpStep(o) PROVE HInv'
  BY <1>10, OpStepH
<1>11. QED
  BY <1>4, <1>5, <1>6, <1>7, <1>8, <1>9, <1>10 DEF Next, Decide

(***************************************************************************)
(* A run returns when every operation is done, and stays returned.         *)
(***************************************************************************)
AllDone == sched = "returned" => \A o \in 1..nops : Done(o)

LEMMA AllDoneInv == EInv /\ AllDone /\ [Next]_vars => AllDone'
<1> SUFFICES ASSUME EInv, AllDone, [Next]_vars PROVE AllDone'
  OBVIOUS
<1>1. ASSUME NEW r, NEW room, Dispatch(r, room) PROVE AllDone'
  BY <1>1 DEF Dispatch, AllDone
<1>2. ASSUME NEW n \in Node,
             StepEagerCreate(n) \/ StepMutate(n) \/ StepCreate(n) \/ StepDelete(n) \/ RollDelete(n)
      PROVE  AllDone'
  BY <1>1, <1>2 DEF StepEagerCreate, StepMutate, StepCreate, StepDelete, RollDelete,
                    DispatchCreate, DispatchMutate, DispatchDelete
<1>3. ASSUME NEW n \in Node, RollBegin(n) PROVE AllDone'
  BY <1>3 DEF RollBegin, Deciding, AllDone
<1>4. CASE StepNoop \/ Launch \/ Tick \/ Stop
  BY <1>4 DEF StepNoop, Launch, Tick, Stop, AllDone
<1>5. CASE Return \/ Cancel \/ Terminated \/ UNCHANGED vars
  BY <1>5 DEF Return, Cancel, Terminated, vars, loop, AllDone, Done
<1>6. ASSUME NEW o \in OpId, OpStep(o) PROVE AllDone'
  <2>1. /\ UNCHANGED <<sched, nops>>
        /\ \A q \in OpId : Done(q) => Done(q)'
    BY <1>6, OpStepPlaces, OpStepsLeaveScheduler DEF Scheduler, loop
  <2>2. \A q \in 1..nops : q \in OpId
    BY EngineAssumption DEF EInv, TypeOK, OpId
  <2>3. QED
    BY <2>1, <2>2 DEF AllDone
<1>7. QED
  BY <1>2, <1>3, <1>4, <1>5, <1>6 DEF Next, Decide

LEMMA HInvariance == Spec => [](EInv /\ HInv /\ AllDone)
<1>1. Init => EInv /\ HInv /\ AllDone
  BY EInitInv, HInitInv DEF Init, AllDone
<1>2. (EInv /\ HInv /\ AllDone) /\ [Next]_vars => (EInv /\ HInv /\ AllDone)'
  BY EStepInv, HStepInv, AllDoneInv
<1>3. QED
  BY <1>1, <1>2, PTL DEF Spec

-----------------------------------------------------------------------------
(***************************************************************************)
(* The history invariant is strong enough for the properties.              *)
(***************************************************************************)
LEMMA HistorySuffices == EInv /\ HInv /\ AllDone => RecordExact
<1> SUFFICES ASSUME EInv, HInv, AllDone PROVE RecordExact
  OBVIOUS
<1>0. /\ MaxOps \in Nat /\ nops \in 0..MaxOps /\ \A x \in 1..nops : x \in OpId
      /\ res \subseteq OpId /\ confirmed \subseteq OpId
  BY EngineAssumption DEF EInv, TypeOK, OpId
<1>1. ASSUME NEW i \in OpId, del[i] # NoOp
      PROVE  IsAttempt(del[i], i) /\ del[i] \in 1..nops
  BY <1>1 DEF HInv, Chained, IsAttempt
<1>2. ASSUME NEW i \in res \ confirmed, Done(i)
      PROVE  i \in LiveResources
  <2>1. i \in OpId /\ (del[i] # NoOp \/ Current(i))
    BY <1>0 DEF HInv, Instances
  <2>2. ASSUME del[i] # NoOp PROVE ~Removed(del[i], i)
    BY <1>1, <2>1, <2>2 DEF HInv, Verdicts, Removed
  <2>3. QED
    BY <1>2, <2>1, <2>2 DEF LiveResources, Current
<1>3. RecordComplete
  BY <1>2 DEF RecordComplete, HInv, Instances
<1>4. ASSUME \A o \in 1..nops : Done(o) PROVE LiveResources = res \ confirmed
  <2>1. ASSUME NEW i \in res \ confirmed PROVE i \in LiveResources
    BY <1>2, <1>4 DEF HInv, Instances
  <2>2. ASSUME NEW i \in LiveResources, i \in confirmed PROVE FALSE
    <3>1. PICK o \in 1..nops : IsAttempt(o, i) /\ <<o, i>> \notin deleteFailed
      BY <2>2 DEF HInv, Verdicts
    <3>2. i \in OpId
      BY DEF LiveResources
    <3>3. CASE del[i] # NoOp /\ ~Removed(del[i], i)
      <4>1. IsAttempt(del[i], i) /\ del[i] \in 1..nops /\ o <= del[i]
        BY <3>1, <3>2, <3>3 DEF HInv, Chained, IsAttempt
      <4>2. AttemptDone(del[i], i)
        BY <1>0, <1>4, <4>1 DEF IsAttempt, AttemptDone, EInv, SettledFirst, Unsettled, Done
      <4>3. <<del[i], i>> \in deleteFailed
        BY <3>3, <4>2 DEF Removed
      <4>4. o < del[i]
        BY <1>0, <3>1, <4>1, <4>3
      <4>5. QED
        BY <3>1, <3>2, <4>1, <4>2, <4>3, <4>4 DEF HInv, Verdicts
    <3>4. CASE op[i].node \in present /\ create[op[i].node] = i
      BY <3>1, <3>4 DEF HInv, Chained
    <3>5. QED
      BY <3>3, <3>4 DEF LiveResources
  <2>3. LiveResources \subseteq res
    BY DEF LiveResources
  <2>4. QED
    BY <2>1, <2>2, <2>3
<1>5. FinalRecordExact
  BY <1>4 DEF FinalRecordExact, AllDone
<1>6. QED
  BY <1>3, <1>5 DEF RecordExact

(***************************************************************************)
(* What is under delete: a running operation attempts it, and no attempt   *)
(* at it has succeeded.                                                    *)
(***************************************************************************)
LEMMA UnderDelete ==
  ASSUME EInv, HInv, NEW i \in InstanceUnderDelete
  PROVE  /\ i \in OpId /\ i \notin confirmed
         /\ \E x \in 1..nops : x \in Running /\ Ordered(x) /\ IsAttempt(x, i)
<1>0. /\ MaxOps \in Nat /\ nops \in 0..MaxOps /\ \A x \in 1..nops : x \in OpId /\ x \in Nat
  BY EngineAssumption DEF EInv, TypeOK, OpId
<1>1. ASSUME NEW x \in 1..nops, IsAttempt(x, i), i \in OpId, ~AttemptDone(x, i),
             op[x].kind = "create" => <<op[x].retries[i], i>> \in deleteFailed
                                        /\ AttemptDone(op[x].retries[i], i),
             op[x].kind = "delete" => ~Ran(x)
      PROVE  i \notin confirmed
  <2> SUFFICES ASSUME i \in confirmed PROVE FALSE
    OBVIOUS
  <2>1. PICK y \in 1..nops : IsAttempt(y, i) /\ <<y, i>> \notin deleteFailed
    BY DEF HInv, Verdicts
  <2>2. IF op[y].kind = "delete" THEN Ran(y) ELSE <<y, i>> \in settled
    BY <1>1, <2>1 DEF HInv, Verdicts
  <2>3. CASE y = x
    BY <1>1, <2>2, <2>3 DEF AttemptDone
  <2>4. CASE x < y
    <3>1. op[y].kind = "create"
      BY <1>1, <2>1, <2>4 DEF HInv, Chained
    <3>2. AttemptDone(y, i)
      BY <2>2, <3>1 DEF AttemptDone
    <3>3. QED
      BY <1>1, <2>1, <2>4, <3>2 DEF HInv, Verdicts
  <2>5. CASE y < x
    <3> DEFINE prev == op[x].retries[i]
    <3>1. op[x].kind = "create" /\ y <= prev
      BY <1>1, <2>1, <2>5 DEF HInv, Chained
    <3>2. IsAttempt(prev, i)
      BY <1>1, <3>1 DEF HInv, Chained
    <3>3. prev \in 1..nops
      BY <3>2 DEF IsAttempt
    <3>4. <<prev, i>> \in deleteFailed /\ AttemptDone(prev, i)
      BY <1>1, <3>1
    <3>5. y < prev
      BY <1>0, <2>1, <3>1, <3>3, <3>4
    <3>6. QED
      BY <1>1, <2>1, <3>2, <3>3, <3>4, <3>5 DEF HInv, Verdicts
  <2>6. QED
    BY <1>0, <2>3, <2>4, <2>5
<1>2. ASSUME NEW x \in Running, Deleting(x), i = op[x].create
      PROVE  /\ i \in OpId /\ i \notin confirmed
             /\ x \in 1..nops /\ Ordered(x) /\ IsAttempt(x, i)
  <2>1. x \in 1..nops /\ Ordered(x) /\ op[x].kind = "delete" /\ pc[x] = "run" /\ i \in 1..(x - 1)
    BY <1>2, RunningReads DEF Running, Deleting
  <2>2. IsAttempt(x, i) /\ i \in OpId
    BY <1>0, <1>2, <2>1 DEF IsAttempt, OpId
  <2>3. ~AttemptDone(x, i) /\ ~Ran(x)
    BY <2>1 DEF AttemptDone, Done, Ran
  <2>4. QED
    BY <1>1, <2>1, <2>2, <2>3
<1>3. ASSUME NEW x \in Running, i \in OpId, Retrying(x, i), RetryCalls(x, i)
      PROVE  /\ i \notin confirmed
             /\ x \in 1..nops /\ Ordered(x) /\ IsAttempt(x, i)
  <2>1. x \in 1..nops /\ Ordered(x)
    BY RunningReads DEF Running
  <2>2. /\ IsAttempt(x, i) /\ ~AttemptDone(x, i) /\ op[x].kind = "create"
        /\ AttemptDone(op[x].retries[i], i)
    BY <1>3, RetryFacts DEF Running
  <2>3. <<op[x].retries[i], i>> \in deleteFailed
    BY <1>3 DEF RetryCalls
  <2>4. QED
    BY <1>1, <1>3, <2>1, <2>2, <2>3
<1>4. QED
  BY <1>2, <1>3 DEF InstanceUnderDelete

LEMMA HistoryKeepsRetriesSound == EInv /\ HInv => RetriesAreSound
<1> SUFFICES ASSUME EInv, HInv PROVE RetriesAreSound
  OBVIOUS
<1>1. InstanceUnderDelete \cap confirmed = {}
  BY UnderDelete
<1>2. ASSUME NEW o \in Running, NEW q \in Running, NEW i \in OpId,
             Deleting(o), op[o].create = i, Retrying(q, i)
      PROVE  FALSE
  <2>1. o \in 1..nops /\ o \in OpId /\ q \in 1..nops /\ q \in OpId
    BY RunningReads DEF Running
  <2>2. IsAttempt(o, i) /\ IsAttempt(q, i) /\ op[o].kind = "delete" /\ op[q].kind = "create"
    BY <1>2, <2>1, RetryFacts DEF Deleting, IsAttempt
  <2>3. op[o].node = op[q].node
    BY <2>1, <2>2 DEF HInv, Chained
  <2>4. o = q
    BY <2>3, SerialSuffices DEF NodeSerial
  <2>5. QED
    BY <2>2, <2>4
<1>3. ASSUME NEW o \in Running, NEW i \in DOMAIN op[o].retries, Retrying(o, i)
      PROVE  <<op[o].retries[i], i>> \in ids
  <2>1. o \in 1..nops /\ o \in OpId /\ Ordered(o)
    BY RunningReads DEF Running
  <2>2. i \in OpId
    <3>1. MaxOps \in Nat /\ nops \in 0..MaxOps
      BY EngineAssumption DEF EInv, TypeOK
    <3>2. i \in 1..(o - 1)
      BY <2>1 DEF EInv, Captured, CapturedBy, CapturedRetry
    <3>3. QED
      BY <2>1, <3>1, <3>2 DEF OpId
  <2>3. IsAttempt(o, i) /\ op[o].kind = "create"
    BY <1>3, <2>1, <2>2, RetryFacts
  <2>4. QED
    BY <2>1, <2>2, <2>3 DEF HInv, IdsKnown
<1>4. QED
  BY <1>1, <1>2, <1>3 DEF RetriesAreSound, NoSecondDelete, RetryKnowsParents

LEMMA HistoryFollowsTheGraph == EInv /\ HInv => CallsFollowTheGraph
<1> SUFFICES ASSUME EInv, HInv PROVE CallsFollowTheGraph
  OBVIOUS
<1>0. /\ MaxOps \in Nat /\ nops \in 0..MaxOps /\ \A x \in 1..nops : x \in OpId /\ x \in Nat
  BY EngineAssumption DEF EInv, TypeOK, OpId
<1>1. ASSUME NEW i \in InstanceUnderDelete, NEW q \in 1..nops, i \in op[q].parents
      PROVE  Finished(q)
  BY <1>1, UnderDelete, DependentsFinished
<1>2. ASSUME NEW o \in Running, Creating(o) \/ Mutating(o), NEW p \in op[o].parents
      PROVE  p \in cloud \cap res /\ p \notin failed \union InstanceUnderDelete
  <2>1. o \in 1..nops /\ ~Done(o)
    BY RunningReads DEF Running, Done
  <2>2. p \in res /\ p \notin failed
    BY <1>2 DEF Creating, Mutating, ParentOpFailed
  <2>3. p \in cloud
    BY <2>1, <2>2 DEF HInv, Instances
  <2>4. p \notin InstanceUnderDelete
    BY <1>1, <2>1 DEF Finished
  <2>5. QED
    BY <2>2, <2>3, <2>4
<1>3. ASSUME NEW i \in InstanceUnderDelete, NEW c \in OpId, i \in op[c].parents, c \in Running
      PROVE  FALSE
  <2>1. c \in 1..nops /\ ~Done(c)
    BY <1>3, RunningReads DEF Running, Done
  <2>2. QED
    BY <1>1, <1>3, <2>1 DEF Finished
<1>4. ASSUME NEW i \in InstanceUnderDelete, NEW c \in OpId, i \in op[c].parents,
             op[c].kind = "create", c \in cloud \cap res
      PROVE  \E o \in OpId : <<o, c>> \in ids \cap deleteFailed /\ AttemptDone(o, c)
  <2>1. c \in 1..nops /\ i \in OpId
    BY <1>4, UnderDelete DEF HInv, Instances
  <2>2. PICK x \in 1..nops : Ordered(x) /\ IsAttempt(x, i)
    BY UnderDelete
  <2>3. PICK z \in 1..x : FirstDelete(z, i)
    BY <2>1, <2>2 DEF HInv, Chained
  <2>4. z \in 1..nops /\ op[z].kind = "delete" /\ op[z].create = i /\ IsAttempt(z, i)
    BY <2>3 DEF FirstDelete, IsAttempt
  <2>5. op[z].node = op[i].node /\ op[x].node = op[i].node
    BY <2>1, <2>2, <2>4 DEF HInv, Chained
  <2>6. Above(z, c) /\ c < z
    BY <1>4, <2>1, <2>4, <2>5 DEF HInv, ChildrenFirst, Above
  <2>7. PICK y \in 1..(z - 1) : FirstDelete(y, c)
    BY <1>0, <1>4, <2>1, <2>4, <2>6 DEF HInv, ChildrenFirst
  <2>8. y \in 1..nops /\ IsAttempt(y, c) /\ op[y].kind = "delete" /\ op[y].create = c
    BY <2>7 DEF FirstDelete, IsAttempt
  <2>9. op[y].node = op[c].node
    BY <2>8 DEF HInv, Chained
  <2>10. Under(y, x)
    BY <1>0, <2>3, <2>4, <2>5, <2>6, <2>7, <2>9 DEF Under, Above
  <2>11. Finished(y)
    BY <2>2, <2>8, <2>10 DEF HInv, SerialUnder
  <2>12. c \notin confirmed
    BY <1>4 DEF HInv, Instances
  <2>13. <<y, c>> \in deleteFailed
    BY <1>4, <2>8, <2>12 DEF HInv, Verdicts
  <2>14. QED
    BY <1>0, <2>8, <2>11, <2>13 DEF Finished, AttemptDone
<1>5. ParentsOutliveCalls
  BY <1>2 DEF ParentsOutliveCalls
<1>6. ChildrenGoFirst
  BY <1>3, <1>4 DEF ChildrenGoFirst
<1>7. QED
  BY <1>5, <1>6 DEF CallsFollowTheGraph

(***************************************************************************)
(* At every moment the record of a run lists every instance that exists,   *)
(* has an id and whose create is over, and when the run returns it lists   *)
(* exactly the instances no delete call removed, for every graph and every *)
(* fault (liveResources).                                                  *)
(***************************************************************************)
THEOREM RecordIsExact == Spec => []RecordExact
BY HInvariance, HistorySuffices, PTL

(***************************************************************************)
(* No delete call is ever made for an instance that a delete call already  *)
(* removed or another operation is deleting, and a retried delete always   *)
(* has the ids of the parents (retryDeletes, runRetries, settleRetries).   *)
(***************************************************************************)
THEOREM RetriesStaySound == Spec => []RetriesAreSound
BY HInvariance, HistoryKeepsRetriesSound, PTL

(***************************************************************************)
(* In the cloud, parents come before and go after what depends on them,    *)
(* however the concurrent calls interleave, fail and are retried (await,   *)
(* dispatchDelete).                                                        *)
(***************************************************************************)
THEOREM CallsFollow == Spec => []CallsFollowTheGraph
BY HInvariance, HistoryFollowsTheGraph, PTL

-----------------------------------------------------------------------------
(***************************************************************************)
(* Rolls.  What has to be done before an operation is past await, in a run *)
(* that is not cancelled, is all that its dependencies lead to: Behind(o). *)
(***************************************************************************)
BehindIn(ops, n, o) ==
  {q \in 1..n : \A S \in SUBSET (1..n) :
     ops[o].deps \subseteq S /\ (\A d \in S : ops[d].deps \subseteq S) => q \in S}
Behind(o) == BehindIn(op, nops, o)

NodeBehind ==
  \A o \in 1..nops : \A q \in 1..(o - 1) : op[q].node = op[o].node => q \in Behind(o)

GoneBelow ==
  \A d \in Node \ present : \A o \in 1..nops : op[o].node \in Descendants[d] =>
    o <= last[d] /\ op[last[d]].kind = "delete"

BelowBehind ==
  \A o \in 1..nops : \A q \in 1..(o - 1) :
    op[o].kind = "delete" /\ op[q].node \in Descendants[op[o].node] => q \in Behind(o)

SameRoll(n, m) == \E r \in RollRoot : {n, m} \subseteq Descendants[r]
RollingDelete(o) == op[o].kind = "delete" /\ op[o].node \in Rolling

SetBehind ==
  \A o \in 1..nops : RollingDelete(o) =>
    /\ SameRoll(op[o].node, op[o].node)
    /\ \A q \in 1..(o - 1) : op[q].node \in RollSet(op[o].node) =>
         q \in Behind(o) \/ (op[q].kind = "delete" /\ SameRoll(op[o].node, op[q].node))

CreateBehind ==
  \A q \in 1..nops : \A o \in 1..(q - 1) :
    op[q].kind = "create" /\ RollingDelete(o) /\ op[q].node \in RollSet(op[o].node)
      => o \in Behind(q)

Regrows(m, o) ==
  \/ last[m] # NoOp /\ o \in Behind(last[m]) \union {last[m]}
  \/ \E p \in Parents[m] \cap RollSet(m) : p \in present => o \in Behind(create[p])

Regrow ==
  \A m \in Rolling \ present : RollSet(m) \cap rolling = {} =>
    \A o \in 1..nops : RollingDelete(o) /\ m \in RollSet(op[o].node) => Regrows(m, o)

UnderWay(r) ==
  /\ rolling = Descendants[r] \cap present
  /\ RollSet(r) \ present \subseteq Descendants[r]
  /\ \A q \in 1..nops : op[q].node \in RollSet(r) =>
       \/ \E e \in extra : q <= e /\ op[e].node = op[q].node
       \/ op[q].kind = "delete" /\ op[q].node \in Descendants[r]
RollUnderWay == rolling # {} => \E r \in RollRoot : UnderWay(r)

BehindDone == \A o \in 1..nops : Ordered(o) => \A q \in Behind(o) : Done(q)

RInv == /\ NodeBehind /\ GoneBelow /\ BelowBehind /\ SetBehind /\ CreateBehind
        /\ Regrow /\ RollUnderWay /\ BehindDone

-----------------------------------------------------------------------------
(***************************************************************************)
(* Descendants.                                                            *)
(***************************************************************************)
LEMMA BelowClosed ==
  ASSUME NEW r \in Node
  PROVE  /\ Descendants[r] \subseteq Node /\ r \in Descendants[r]
         /\ \A m \in Descendants[r] : Children(m) \subseteq Descendants[r]
<1>1. Descendants[r] = {n \in Node : \A S \in SUBSET Node : r \in S /\ Closed(S) => n \in S}
  BY DEF Descendants
<1>2. ASSUME NEW m \in Descendants[r], NEW c \in Children(m)
      PROVE  c \in Descendants[r]
  <2>1. c \in Node
    BY DEF Children
  <2>2. ASSUME NEW S \in SUBSET Node, r \in S, Closed(S) PROVE c \in S
    <3>1. m \in S
      BY <1>1, <2>2
    <3>2. QED
      BY <2>2, <3>1 DEF Closed
  <2>3. QED
    BY <1>1, <2>1, <2>2
<1>3. QED
  BY <1>1, <1>2

LEMMA BelowLeast ==
  ASSUME NEW r \in Node, NEW S \in SUBSET Node, r \in S, \A m \in S : Children(m) \subseteq S
  PROVE  Descendants[r] \subseteq S
BY DEF Descendants, Closed

\* A descendant other than the node itself is below one of its children ...
LEMMA BelowByChild ==
  ASSUME NEW r \in Node, NEW m \in Descendants[r], m # r
  PROVE  \E c \in Children(r) : c \in Node /\ m \in Descendants[c]
<1> DEFINE S == {r} \union UNION {Descendants[c] : c \in Children(r)}
<1>1. Children(r) \subseteq Node
  BY DEF Children
<1>2. S \in SUBSET Node /\ r \in S
  BY <1>1, BelowClosed
<1>3. \A x \in S : Children(x) \subseteq S
  BY <1>1, BelowClosed
<1>4. m \in S
  BY <1>2, <1>3, BelowLeast
<1>5. QED
  BY <1>1, <1>4

\* ... and has a parent below the node.
LEMMA BelowByParent ==
  ASSUME NEW r \in Node, NEW m \in Descendants[r], m # r
  PROVE  \E p \in Parents[m] : p \in Descendants[r]
<1> SUFFICES ASSUME \A p \in Parents[m] : p \notin Descendants[r] PROVE FALSE
  OBVIOUS
<1> DEFINE S == Descendants[r] \ {m}
<1>1. S \in SUBSET Node /\ r \in S
  BY BelowClosed
<1>2. \A x \in S : Children(x) \subseteq S
  BY BelowClosed DEF Children
<1>3. Descendants[r] \subseteq S
  BY <1>1, <1>2, BelowLeast
<1>4. QED
  BY <1>3

\* What is below a rolling node belongs to its set.
LEMMA BelowInSet ==
  ASSUME NEW r \in Rolling
  PROVE  \A m \in Descendants[r] : m \in Rolling /\ RollSet(m) = RollSet(r)
<1> DEFINE S == {m \in Node : Roll[m] = Roll[r]}
<1>1. r \in Node /\ Roll[r] # NoRoll
  BY DEF Rolling
<1>2. \A m \in S : Children(m) \subseteq S
  BY <1>1, RollAssumption DEF Children
<1>3. Descendants[r] \subseteq S
  BY <1>1, <1>2, BelowLeast
<1>4. QED
  BY <1>1, <1>3 DEF Rolling, RollSet

\* Nothing is present below an absent node.
LEMMA NothingBelow ==
  ASSUME EInv, NEW d \in Node \ present
  PROVE  Descendants[d] \cap present = {}
<1>1. \A m \in Node \ present : Children(m) \subseteq Node \ present
  BY DEF EInv, PresentClosed, Children
<1>2. QED
  BY <1>1, BelowLeast

-----------------------------------------------------------------------------
(***************************************************************************)
(* Behind.                                                                 *)
(***************************************************************************)
LEMMA DepsBehind ==
  ASSUME NEW ops, NEW n, NEW o, NEW d \in ops[o].deps, ops[o].deps \subseteq 1..n
  PROVE  d \in BehindIn(ops, n, o) /\ BehindIn(ops, n, d) \subseteq BehindIn(ops, n, o)
<1>1. d \in 1..n
  OBVIOUS
<1>2. ASSUME NEW S \in SUBSET (1..n), ops[o].deps \subseteq S, \A x \in S : ops[x].deps \subseteq S
      PROVE  d \in S /\ ops[d].deps \subseteq S
  BY <1>2
<1>3. QED
  BY <1>1, <1>2 DEF BehindIn

\* A dispatch puts nothing behind the operations before it.
LEMMA BehindStays ==
  ASSUME NEW ops, NEW more, NEW n \in Nat, NEW q \in 1..n,
         \A x \in 1..n : more[x] = ops[x] /\ ops[x].deps \subseteq 1..(x - 1)
  PROVE  BehindIn(more, n + 1, q) = BehindIn(ops, n, q)
<1>0. /\ 1..(n + 1) = (1..n) \union {n + 1} /\ n + 1 \notin 1..n
      /\ \A x \in 1..n : ops[x].deps \subseteq 1..n
  OBVIOUS
<1>1. ASSUME NEW z \in BehindIn(more, n + 1, q) PROVE z \in BehindIn(ops, n, q)
  <2>1. ASSUME NEW S \in SUBSET (1..n), ops[q].deps \subseteq S, \A x \in S : ops[x].deps \subseteq S
        PROVE  z \in S
    <3>1. S \in SUBSET (1..(n + 1)) /\ more[q].deps \subseteq S /\ \A x \in S : more[x].deps \subseteq S
      BY <1>0, <2>1
    <3>2. QED
      BY <3>1 DEF BehindIn
  <2>2. z \in 1..n
    BY <1>0, <2>1
  <2>3. QED
    BY <2>1, <2>2 DEF BehindIn
<1>2. ASSUME NEW z \in BehindIn(ops, n, q) PROVE z \in BehindIn(more, n + 1, q)
  <2>1. ASSUME NEW S \in SUBSET (1..(n + 1)), more[q].deps \subseteq S,
               \A x \in S : more[x].deps \subseteq S
        PROVE  z \in S
    <3> DEFINE T == S \ {n + 1}
    <3>1. T \in SUBSET (1..n) /\ ops[q].deps \subseteq T
      BY <1>0, <2>1
    <3>2. \A x \in T : ops[x].deps \subseteq T
      BY <1>0, <2>1
    <3>3. z \in T
      BY <3>1, <3>2 DEF BehindIn
    <3>4. QED
      BY <3>3
  <2>2. z \in 1..(n + 1)
    BY <1>0 DEF BehindIn
  <2>3. QED
    BY <2>1, <2>2 DEF BehindIn
<1>3. QED
  BY <1>1, <1>2

\* An operation depends, over others, on earlier ones only.
LEMMA BehindEarlier ==
  ASSUME EInv, NEW o \in 1..nops
  PROVE  Behind(o) \subseteq 1..nops /\ op[o].deps \subseteq 1..nops
BY DEF EInv, TypeOK, Captured, CapturedBy, Behind, BehindIn

(***************************************************************************)
(* What a dispatch puts behind the new operation.                          *)
(***************************************************************************)
LEMMA DispatchBehind ==
  ASSUME EInv, RInv, NEW r, NEW room, Fresh(r), Dispatch(r, room), nops < MaxOps,
         NEW o, o = nops + 1
  PROVE  /\ nops' = o /\ op'[o] = r /\ o \in Nat
         /\ 1..nops' = (1..nops) \union {o}
         /\ \A q \in 1..nops : q < o /\ op'[q] = op[q] /\ Behind(q)' = Behind(q)
         /\ \A e \in r.deps : e \in 1..nops /\ e \in Behind(o)' /\ Behind(e) \subseteq Behind(o)'
         /\ \A q \in 1..nops : \A e \in r.deps :
              q <= e /\ op[e].node = op[q].node => q \in Behind(o)'
         /\ NodeBehind' /\ BehindDone'
<1>0. /\ MaxOps \in Nat /\ nops \in Nat
      /\ nops' = o /\ op'[o] = r /\ 1..nops' = (1..nops) \union {o}
      /\ \A q \in 1..nops : q < o /\ op'[q] = op[q] /\ pc'[q] = pc[q]
      /\ pc'[o] = "launch" /\ cancelled' = cancelled
  BY DispatchLeaves, EngineAssumption DEF EInv, TypeOK
<1>1. \A q \in 1..nops : op'[q] = op[q] /\ op[q].deps \subseteq 1..(q - 1)
  BY <1>0 DEF EInv, Captured, CapturedBy
<1>2. ASSUME NEW q \in 1..nops PROVE Behind(q)' = Behind(q)
  BY <1>0, <1>1, BehindStays DEF Behind
<1>3. ASSUME NEW e \in r.deps
      PROVE  e \in 1..nops /\ e \in Behind(o)' /\ Behind(e) \subseteq Behind(o)'
  <2>1. e \in 1..nops /\ op'[o].deps \subseteq 1..nops' /\ e \in op'[o].deps
    BY <1>0 DEF Fresh
  <2>2. e \in BehindIn(op', nops', o) /\ BehindIn(op', nops', e) \subseteq BehindIn(op', nops', o)
    BY <2>1, DepsBehind
  <2>3. QED
    BY <1>2, <2>1, <2>2 DEF Behind
<1>4. ASSUME NEW q \in 1..nops, NEW e \in r.deps, q <= e, op[e].node = op[q].node
      PROVE  q \in Behind(o)'
  <2>1. e \in 1..nops /\ e \in Nat /\ q \in Nat
    BY <1>3
  <2>2. CASE q = e
    BY <1>3, <2>2
  <2>3. CASE q # e
    BY <1>3, <1>4, <2>1, <2>3 DEF RInv, NodeBehind
  <2>4. QED
    BY <2>2, <2>3
<1>5. NodeBehind'
  <2>1. ASSUME NEW q \in 1..nops, op[q].node = r.node PROVE q \in Behind(o)'
    <3>1. q <= last[r.node] /\ last[r.node] # NoOp
      BY <1>0, <2>1 DEF EInv, Bookkeeping, NoOp
    <3>2. last[r.node] \in r.deps /\ op[last[r.node]].node = r.node
      BY <3>1 DEF Fresh, EInv, Bookkeeping
    <3>3. QED
      BY <1>4, <2>1, <3>1, <3>2
  <2>2. ASSUME NEW x \in 1..nops, NEW q \in 1..(x - 1), op'[q].node = op'[x].node
        PROVE  q \in Behind(x)'
    <3>1. q \in 1..nops
      BY <1>0
    <3>2. QED
      BY <1>0, <1>2, <2>2, <3>1 DEF RInv, NodeBehind
  <2>3. ASSUME NEW q \in 1..(o - 1), op'[q].node = op'[o].node PROVE q \in Behind(o)'
    <3>1. q \in 1..nops
      BY <1>0
    <3>2. QED
      BY <1>0, <2>1, <2>3, <3>1
  <2>4. QED
    BY <1>0, <2>2, <2>3 DEF NodeBehind
<1>6. BehindDone'
  <2>1. ~Ordered(o)'
    BY <1>0 DEF Ordered, PastAwait
  <2>2. ASSUME NEW x \in 1..nops, Ordered(x)', NEW q \in Behind(x)' PROVE Done(q)'
    <3>1. Ordered(x) /\ q \in Behind(x) /\ q \in 1..nops
      BY <1>0, <1>2, <2>2, BehindEarlier DEF Ordered, PastAwait
    <3>2. QED
      BY <1>0, <3>1 DEF RInv, BehindDone, Done
  <2>3. QED
    BY <1>0, <2>1, <2>2 DEF BehindDone
<1>7. QED
  BY <1>0, <1>2, <1>3, <1>4, <1>5, <1>6

-----------------------------------------------------------------------------
(***************************************************************************)
(* A dispatch keeps GoneBelow and BelowBehind: nothing is dispatched below *)
(* an absent node, and a delete waits for what is below its children.      *)
(***************************************************************************)
LEMMA DispatchBelow ==
  ASSUME EInv, RInv, NEW r, NEW room, Fresh(r), Dispatch(r, room), nops < MaxOps,
         NEW o, o = nops + 1, Takes(r),
         last' = [last EXCEPT ![r.node] = o], present \ {r.node} \subseteq present',
         r.kind = "delete" \/ r.node \in present',
         r.node \in present \/ Parents[r.node] \subseteq present
  PROVE  GoneBelow' /\ BelowBehind'
<1>0. /\ MaxOps \in Nat /\ nops \in Nat /\ NoOp = 0
      /\ nops' = o /\ op'[o] = r /\ o \in Nat /\ 1..nops' = (1..nops) \union {o}
      /\ \A q \in 1..nops : q < o /\ op'[q] = op[q] /\ Behind(q)' = Behind(q)
      /\ \A e \in r.deps : e \in 1..nops /\ e \in Behind(o)' /\ Behind(e) \subseteq Behind(o)'
      /\ NodeBehind'
  BY DispatchBehind, EngineAssumption DEF EInv, TypeOK, NoOp
<1>1. r.node \in Node /\ \A d \in Node : last'[d] = IF d = r.node THEN o ELSE last[d]
  BY DEF Fresh, EInv, TypeOK
<1>2. ASSUME NEW d \in Node \ present PROVE d = r.node \/ r.node \notin Descendants[d]
  <2>1. Descendants[d] \cap present = {}
    BY NothingBelow
  <2>2. ASSUME r.node \in Descendants[d], d # r.node PROVE FALSE
    <3>1. \E p \in Parents[r.node] : p \in Descendants[d]
      BY <2>2, BelowByParent
    <3>2. QED
      BY <2>1, <2>2, <3>1
  <2>3. QED
    BY <2>2
<1>3. ASSUME NEW d \in Node \ present, NEW x \in 1..nops, op[x].node \in Descendants[d]
      PROVE  last[d] \in 1..nops /\ x <= last[d] /\ op[last[d]].kind = "delete"
                /\ op[last[d]].node = d
  <2>1. x <= last[d] /\ op[last[d]].kind = "delete"
    BY <1>3 DEF RInv, GoneBelow
  <2>2. last[d] # NoOp
    BY <1>0, <2>1
  <2>3. QED
    BY <2>1, <2>2 DEF EInv, Bookkeeping
<1>4. GoneBelow'
  <2>1. ASSUME NEW d \in Node \ present', NEW x \in 1..nops', op'[x].node \in Descendants[d]
        PROVE  x <= last'[d] /\ op'[last'[d]].kind = "delete"
    <3>1. CASE d = r.node
      BY <1>0, <1>1, <2>1, <3>1
    <3>2. CASE d # r.node
      <4>1. d \in Node \ present
        BY <2>1, <3>2
      <4>2. x \in 1..nops /\ op[x].node \in Descendants[d]
        BY <1>0, <1>2, <2>1, <3>2, <4>1
      <4>3. QED
        BY <1>0, <1>1, <1>3, <3>2, <4>1, <4>2
    <3>3. QED
      BY <3>1, <3>2
  <2>2. QED
    BY <2>1 DEF GoneBelow
<1>5. ASSUME NEW q \in 1..nops, r.kind = "delete", op[q].node \in Descendants[r.node]
      PROVE  q \in Behind(o)'
  <2>1. CASE op[q].node = r.node
    <3>1. q \in 1..(o - 1)
      BY <1>0
    <3>2. QED
      BY <1>0, <2>1, <3>1 DEF NodeBehind
  <2>2. CASE op[q].node # r.node
    <3>1. PICK c \in Children(r.node) : c \in Node /\ op[q].node \in Descendants[c]
      BY <1>1, <1>5, <2>2, BelowByChild
    <3>2. c \in Node \ present /\ (last[c] # NoOp => last[c] \in r.deps)
      BY <1>5, <3>1 DEF Takes
    <3>3. PICK e : e = last[c]
      OBVIOUS
    <3>4. e \in 1..nops /\ q <= e /\ op[e].kind = "delete" /\ op[e].node = c
      BY <1>3, <3>1, <3>2, <3>3
    <3>5. e \in r.deps
      BY <1>0, <3>2, <3>3, <3>4
    <3>6. q = e \/ q \in 1..(e - 1)
      BY <3>4
    <3>7. QED
      BY <1>0, <3>1, <3>4, <3>5, <3>6 DEF RInv, BelowBehind
  <2>3. QED
    BY <2>1, <2>2
<1>6. BelowBehind'
  <2>1. ASSUME NEW x \in 1..nops', NEW q \in 1..(x - 1), op'[x].kind = "delete",
               op'[q].node \in Descendants[op'[x].node]
        PROVE  q \in Behind(x)'
    <3>1. CASE x = o
      <4>1. q \in 1..nops
        BY <1>0, <3>1
      <4>2. QED
        BY <1>0, <1>5, <2>1, <3>1, <4>1
    <3>2. CASE x \in 1..nops
      <4>1. q \in 1..nops
        BY <1>0, <3>2
      <4>2. QED
        BY <1>0, <2>1, <3>2, <4>1 DEF RInv, BelowBehind
    <3>3. QED
      BY <1>0, <3>1, <3>2
  <2>2. QED
    BY <2>1 DEF BelowBehind
<1>7. QED
  BY <1>4, <1>6

(***************************************************************************)
(* A dispatch leaves how an absent node grows back as it was, if what it   *)
(* creates waits for the deletes of the set.                               *)
(***************************************************************************)
LEMMA RegrowsStays ==
  ASSUME EInv, NEW x \in 1..nops, NEW m \in Node, Regrows(m, x),
         \A q \in 1..nops : Behind(q)' = Behind(q),
         last'[m] = last[m],
         \A p \in Parents[m] \cap RollSet(m) : p \in present' =>
           (p \in present /\ create'[p] = create[p]) \/ x \in BehindIn(op', nops', create'[p])
  PROVE  Regrows(m, x)'
<1>1. CASE last[m] # NoOp /\ x \in Behind(last[m]) \union {last[m]}
  <2>1. PICK e : e = last[m]
    OBVIOUS
  <2>2. e \in 1..nops /\ e # NoOp /\ x \in Behind(e) \union {e}
    BY <1>1, <2>1 DEF EInv, Bookkeeping
  <2>3. last'[m] = e /\ x \in BehindIn(op', nops', e) \union {e}
    BY <2>1, <2>2 DEF Behind
  <2>4. QED
    BY <2>2, <2>3 DEF Regrows, Behind
<1>2. ASSUME NEW p \in Parents[m] \cap RollSet(m), p \in present => x \in Behind(create[p])
      PROVE  Regrows(m, x)'
  <2>1. ASSUME p \in present' PROVE x \in BehindIn(op', nops', create'[p])
    <3>1. CASE p \in present /\ create'[p] = create[p]
      <4>1. PICK e : e = create[p]
        OBVIOUS
      <4>2. e \in 1..nops /\ x \in Behind(e)
        BY <1>2, <3>1, <4>1 DEF EInv, TypeOK, Bookkeeping
      <4>3. QED
        BY <3>1, <4>1, <4>2 DEF Behind
    <3>2. QED
      BY <2>1, <3>1
  <2>2. QED
    BY <2>1 DEF Regrows, Behind
<1>3. QED
  BY <1>1, <1>2 DEF Regrows

(***************************************************************************)
(* A dispatched create of the scheduler.                                   *)
(***************************************************************************)
LEMMA DispatchCreateR ==
  ASSUME EInv, RInv, NEW n \in CreateCandidates(present), DispatchCreate(n), rolling = {},
         rolling' = {}, NEW r, NEW o, o = nops + 1, r = CreateRecord(n, o), Fresh(r)
  PROVE  RInv'
<1>1. n \in Node /\ n \notin present /\ Parents[n] \subseteq present /\ present \subseteq Node
  BY DEF CreateCandidates, EInv, TypeOK
<1>2. /\ Dispatch(r, 1) /\ present' = present \union {n}
      /\ create' = [create EXCEPT ![n] = o] /\ last' = [last EXCEPT ![n] = o]
  BY DEF DispatchCreate, CreateRecord
<1>3. nops < MaxOps /\ MaxOps \in Nat /\ nops \in Nat
  BY <1>2, EngineAssumption DEF Dispatch, EInv, TypeOK
<1>4. /\ r.kind = "create" /\ r.node = n /\ r.parents = ParentOps(n)
      /\ r.deps = Prior(n) \union ParentOps(n)
  BY DEF CreateRecord
<1>5. Takes(r)
  BY <1>1, <1>4 DEF Takes, ParentOps
<1>6. /\ nops' = o /\ op'[o] = r /\ o \in Nat /\ 1..nops' = (1..nops) \union {o}
      /\ \A q \in 1..nops : q < o /\ op'[q] = op[q] /\ Behind(q)' = Behind(q)
      /\ \A e \in r.deps : e \in 1..nops /\ e \in Behind(o)' /\ Behind(e) \subseteq Behind(o)'
      /\ NodeBehind' /\ BehindDone'
  BY <1>2, <1>3, DispatchBehind
<1>7. GoneBelow' /\ BelowBehind'
  BY <1>1, <1>2, <1>3, <1>4, <1>5, DispatchBelow
<1>8. \A x \in 1..nops' : RollingDelete(x)' => x \in 1..nops /\ RollingDelete(x)
  BY <1>4, <1>6 DEF RollingDelete
<1>9. SetBehind'
  <2>1. ASSUME NEW x \in 1..nops, NEW q \in 1..(x - 1) PROVE q \in 1..nops
    BY <1>3
  <2>2. QED
    BY <1>6, <1>8, <2>1 DEF RInv, SetBehind, RollingDelete
<1>10. ASSUME NEW x \in 1..nops, RollingDelete(x), n \in RollSet(op[x].node)
       PROVE  x \in Behind(o)'
  <2>1. n \in Rolling \ present
    BY <1>1, <1>10 DEF RollingDelete, Rolling, RollSet
  <2>2. Regrows(n, x)
    BY <1>10, <2>1 DEF RInv, Regrow
  <2>3. CASE last[n] # NoOp /\ x \in Behind(last[n]) \union {last[n]}
    BY <1>4, <1>6, <2>3 DEF Prior
  <2>4. ASSUME NEW p \in Parents[n] \cap RollSet(n), p \in present => x \in Behind(create[p])
        PROVE  x \in Behind(o)'
    BY <1>1, <1>4, <1>6, <2>4 DEF ParentOps
  <2>5. QED
    BY <2>2, <2>3, <2>4 DEF Regrows
<1>11. CreateBehind'
  <2>1. ASSUME NEW q \in 1..nops', NEW x \in 1..(q - 1), op'[q].kind = "create",
               RollingDelete(x)', op'[q].node \in RollSet(op'[x].node)
        PROVE  x \in Behind(q)'
    <3>1. CASE q = o
      <4>1. x \in 1..nops
        BY <1>6, <3>1
      <4>2. QED
        BY <1>4, <1>6, <1>10, <2>1, <3>1, <4>1 DEF RollingDelete
    <3>2. CASE q \in 1..nops
      <4>1. x \in 1..nops
        BY <1>3, <3>2
      <4>2. QED
        BY <1>6, <2>1, <3>2, <4>1 DEF RInv, CreateBehind, RollingDelete
    <3>3. QED
      BY <1>6, <3>1, <3>2
  <2>2. QED
    BY <2>1 DEF CreateBehind
<1>12. Regrow'
  <2>1. ASSUME NEW m \in Rolling \ present', NEW x \in 1..nops', RollingDelete(x)',
               m \in RollSet(op'[x].node)
        PROVE  Regrows(m, x)'
    <3>1. x \in 1..nops /\ RollingDelete(x) /\ m \in RollSet(op[x].node)
      BY <1>6, <1>8, <2>1
    <3>2. m \in Rolling \ present /\ m # n /\ m \in Node
      BY <1>2, <2>1 DEF Rolling
    <3>3. Regrows(m, x)
      BY <3>1, <3>2 DEF RInv, Regrow
    <3>4. last'[m] = last[m] /\ \A p \in Node : create'[p] = IF p = n THEN o ELSE create[p]
      BY <1>2, <3>2 DEF EInv, TypeOK
    <3>5. ASSUME NEW p \in Parents[m] \cap RollSet(m), p \in present'
          PROVE  (p \in present /\ create'[p] = create[p]) \/ x \in BehindIn(op', nops', create'[p])
      <4>1. CASE p = n
        <5>1. n \in RollSet(op[x].node)
          BY <1>1, <3>1, <4>1 DEF RollSet
        <5>2. x \in BehindIn(op', nops', o)
          BY <1>10, <3>1, <5>1 DEF Behind
        <5>3. QED
          BY <1>1, <3>4, <4>1, <5>2
      <4>2. CASE p # n
        BY <1>1, <1>2, <3>4, <3>5, <4>2
      <4>3. QED
        BY <4>1, <4>2
    <3>6. QED
      BY <1>6, <3>1, <3>2, <3>3, <3>4, <3>5, RegrowsStays
  <2>2. QED
    BY <2>1 DEF Regrow
<1>13. RollUnderWay'
  BY DEF RollUnderWay
<1>14. QED
  BY <1>6, <1>7, <1>9, <1>11, <1>12, <1>13 DEF RInv

(***************************************************************************)
(* What a dispatch that is not a create leaves of the parts that speak of  *)
(* two operations.                                                         *)
(***************************************************************************)
LEMMA DispatchCreatesBehind ==
  ASSUME EInv, RInv, NEW r, NEW room, Fresh(r), Dispatch(r, room), nops < MaxOps,
         NEW o, o = nops + 1, r.kind # "create"
  PROVE  CreateBehind'
<1>1. /\ nops' = o /\ op'[o] = r /\ o \in Nat /\ 1..nops' = (1..nops) \union {o}
      /\ \A q \in 1..nops : q < o /\ op'[q] = op[q] /\ Behind(q)' = Behind(q)
  BY DispatchBehind
<1>2. ASSUME NEW q \in 1..nops', NEW x \in 1..(q - 1), op'[q].kind = "create",
             RollingDelete(x)', op'[q].node \in RollSet(op'[x].node)
      PROVE  x \in Behind(q)'
  <2>1. q \in 1..nops
    BY <1>1, <1>2
  <2>2. x \in 1..nops
    BY <1>1, <2>1
  <2>3. QED
    BY <1>1, <1>2, <2>1, <2>2 DEF RInv, CreateBehind, RollingDelete
<1>3. QED
  BY <1>2 DEF CreateBehind

LEMMA DispatchSetBehind ==
  ASSUME EInv, RInv, NEW r, NEW room, Fresh(r), Dispatch(r, room), nops < MaxOps,
         NEW o, o = nops + 1,
         r.kind = "delete" /\ r.node \in Rolling =>
           /\ SameRoll(r.node, r.node)
           /\ \A q \in 1..nops : op[q].node \in RollSet(r.node) =>
                q \in Behind(o)' \/ (op[q].kind = "delete" /\ SameRoll(r.node, op[q].node))
  PROVE  SetBehind'
<1>1. /\ nops' = o /\ op'[o] = r /\ o \in Nat /\ 1..nops' = (1..nops) \union {o}
      /\ \A q \in 1..nops : q < o /\ op'[q] = op[q] /\ Behind(q)' = Behind(q)
  BY DispatchBehind
<1>2. ASSUME NEW x \in 1..nops', RollingDelete(x)'
      PROVE  /\ SameRoll(op'[x].node, op'[x].node)
             /\ \A q \in 1..(x - 1) : op'[q].node \in RollSet(op'[x].node) =>
                  q \in Behind(x)' \/ (op'[q].kind = "delete" /\ SameRoll(op'[x].node, op'[q].node))
  <2>1. \A q \in 1..(x - 1) : q \in 1..nops
    BY <1>1
  <2>2. CASE x = o
    BY <1>1, <1>2, <2>1, <2>2 DEF RollingDelete
  <2>3. CASE x \in 1..nops
    BY <1>1, <1>2, <2>1, <2>3 DEF RInv, SetBehind, RollingDelete
  <2>4. QED
    BY <1>1, <2>2, <2>3
<1>3. QED
  BY <1>2 DEF SetBehind, SameRoll

(***************************************************************************)
(* An absent rolling node that the dispatch does not concern grows back as *)
(* before.                                                                 *)
(***************************************************************************)
LEMMA DispatchRegrows ==
  ASSUME EInv, RInv, NEW r, NEW room, Fresh(r), Dispatch(r, room), nops < MaxOps,
         NEW o, o = nops + 1, r.kind # "create",
         last' = [last EXCEPT ![r.node] = o], UNCHANGED create, present' \subseteq present,
         NEW m \in Rolling \ present, m # r.node, RollSet(m) \cap rolling = {},
         NEW x \in 1..nops, RollingDelete(x), m \in RollSet(op[x].node)
  PROVE  Regrows(m, x)'
<1>1. \A q \in 1..nops : op'[q] = op[q] /\ Behind(q)' = Behind(q)
  BY DispatchBehind
<1>2. Regrows(m, x) /\ m \in Node
  BY DEF RInv, Regrow, Rolling
<1>3. last'[m] = last[m]
  BY <1>2 DEF EInv, TypeOK
<1>4. QED
  BY <1>1, <1>2, <1>3, RegrowsStays

(***************************************************************************)
(* A dispatched mutation.                                                  *)
(***************************************************************************)
LEMMA DispatchMutateR ==
  ASSUME EInv, RInv, NEW n \in present, DispatchMutate(n), nops < MaxOps, rolling = {},
         rolling' = {}, NEW r, NEW o, o = nops + 1, r = MutateRecord(n), Fresh(r)
  PROVE  RInv'
<1>1. n \in Node /\ Parents[n] \subseteq present /\ present \subseteq Node
  BY DEF EInv, TypeOK, PresentClosed
<1>2. /\ Dispatch(r, 1) /\ UNCHANGED <<present, create>>
      /\ last' = [last EXCEPT ![n] = o]
  BY DEF DispatchMutate, MutateRecord
<1>3. r.kind = "mutate" /\ r.node = n /\ DOMAIN r.retries = {} /\ r.parents = ParentOps(n)
  BY DEF MutateRecord, NoRetries
<1>4. Takes(r)
  BY <1>1, <1>3 DEF Takes, ParentOps
<1>5. /\ nops' = o /\ op'[o] = r /\ 1..nops' = (1..nops) \union {o}
      /\ \A q \in 1..nops : op'[q] = op[q]
      /\ NodeBehind' /\ BehindDone'
  BY <1>2, DispatchBehind
<1>6. GoneBelow' /\ BelowBehind'
  BY <1>2, <1>3, <1>4, DispatchBelow
<1>7. SetBehind' /\ CreateBehind'
  BY <1>2, <1>3, DispatchSetBehind, DispatchCreatesBehind
<1>8. Regrow'
  <2>1. ASSUME NEW m \in Rolling \ present', NEW x \in 1..nops', RollingDelete(x)',
               m \in RollSet(op'[x].node)
        PROVE  Regrows(m, x)'
    <3>1. x \in 1..nops /\ RollingDelete(x) /\ m \in RollSet(op[x].node)
      BY <1>3, <1>5, <2>1 DEF RollingDelete
    <3>2. m \in Rolling \ present /\ m # n
      BY <1>2, <2>1
    <3>3. QED
      BY <1>2, <1>3, <3>1, <3>2, DispatchRegrows
  <2>2. QED
    BY <2>1 DEF Regrow
<1>9. RollUnderWay'
  BY DEF RollUnderWay
<1>10. QED
  BY <1>5, <1>6, <1>7, <1>8, <1>9 DEF RInv

(***************************************************************************)
(* What every dispatched delete keeps.                                     *)
(***************************************************************************)
LEMMA DispatchDeleteR ==
  ASSUME EInv, RInv, NEW n \in present, Children(n) \cap present = {}, NEW room,
         nops < MaxOps, DispatchDelete(n, room),
         NEW r, NEW o, o = nops + 1, r = DeleteRecord(n), Fresh(r)
  PROVE  /\ Dispatch(r, room) /\ last' = [last EXCEPT ![n] = o] /\ UNCHANGED create
         /\ present' = present \ {n} /\ n \in Node
         /\ r.kind = "delete" /\ r.node = n /\ r.deps = DeleteDeps(n)
         /\ NodeBehind' /\ GoneBelow' /\ BelowBehind' /\ CreateBehind' /\ BehindDone'
<1>1. n \in Node /\ Parents[n] \subseteq present /\ present \subseteq Node
  BY DEF EInv, TypeOK, PresentClosed
<1>2. /\ Dispatch(r, room) /\ UNCHANGED create /\ present' = present \ {n}
      /\ last' = [last EXCEPT ![n] = o]
  BY DEF DispatchDelete, DeleteRecord
<1>3. /\ r.kind = "delete" /\ r.node = n /\ DOMAIN r.retries = {} /\ r.parents = ParentOps(n)
      /\ r.create = create[n] /\ r.deps = DeleteDeps(n)
  BY DEF DeleteRecord, NoRetries
<1>4. \A c \in Children(n) : last[c] # NoOp => last[c] \in r.deps
  BY <1>3 DEF DeleteDeps
<1>5. Takes(r)
  BY <1>1, <1>3, <1>4 DEF Takes, ParentOps
<1>6. NodeBehind' /\ BehindDone'
  BY <1>2, DispatchBehind
<1>7. GoneBelow' /\ BelowBehind'
  BY <1>2, <1>3, <1>5, DispatchBelow
<1>8. CreateBehind'
  BY <1>2, <1>3, DispatchCreatesBehind
<1>9. QED
  BY <1>1, <1>2, <1>3, <1>6, <1>7, <1>8

LEMMA StepDeleteR ==
  ASSUME EInv, RInv, NEW n \in present, Children(n) \cap present = {}, n \notin Rolling,
         NEW room, nops < MaxOps, DispatchDelete(n, room), rolling = {}, rolling' = {},
         NEW r, NEW o, o = nops + 1, r = DeleteRecord(n), Fresh(r)
  PROVE  RInv'
<1>1. /\ Dispatch(r, room) /\ last' = [last EXCEPT ![n] = o] /\ UNCHANGED create
      /\ present' = present \ {n} /\ r.kind = "delete" /\ r.node = n
      /\ NodeBehind' /\ GoneBelow' /\ BelowBehind' /\ CreateBehind' /\ BehindDone'
  BY DispatchDeleteR
<1>2. /\ nops' = o /\ op'[o] = r /\ 1..nops' = (1..nops) \union {o}
      /\ \A q \in 1..nops : op'[q] = op[q]
  BY <1>1, DispatchBehind
<1>3. SetBehind'
  BY <1>1, DispatchSetBehind
<1>4. Regrow'
  <2>1. ASSUME NEW m \in Rolling \ present', NEW x \in 1..nops', RollingDelete(x)',
               m \in RollSet(op'[x].node)
        PROVE  Regrows(m, x)'
    <3>1. x \in 1..nops /\ RollingDelete(x) /\ m \in RollSet(op[x].node)
      BY <1>1, <1>2, <2>1 DEF RollingDelete
    <3>2. m \in Rolling \ present /\ m # n
      BY <1>1, <2>1
    <3>3. present' \subseteq present
      BY <1>1
    <3>4. QED
      BY <1>1, <3>1, <3>2, <3>3, DispatchRegrows
  <2>2. QED
    BY <2>1 DEF Regrow
<1>5. RollUnderWay'
  BY DEF RollUnderWay
<1>6. QED
  BY <1>1, <1>3, <1>4, <1>5 DEF RInv

(***************************************************************************)
(* A delete of the roll under way: what it waits for puts the rest of the  *)
(* set behind it; and the last one, of the root, leaves nothing present    *)
(* below the root, so that whatever grows back there waits for the root.   *)
(***************************************************************************)
LEMMA RollDeleteR ==
  ASSUME EInv, RInv, NEW n \in rolling, Children(n) \cap present = {}, NEW room,
         nops < MaxOps, DispatchDelete(n, room), rolling' = rolling \ {n},
         extra' = IF rolling' = {} THEN {} ELSE extra,
         NEW r, NEW o, o = nops + 1, r = DeleteRecord(n), Fresh(r)
  PROVE  RInv'
<1>0. n \in present
  BY DEF EInv, PresentClosed
<1>1. /\ Dispatch(r, room) /\ last' = [last EXCEPT ![n] = o] /\ UNCHANGED create
      /\ present' = present \ {n} /\ n \in Node
      /\ r.kind = "delete" /\ r.node = n /\ r.deps = DeleteDeps(n)
      /\ NodeBehind' /\ GoneBelow' /\ BelowBehind' /\ CreateBehind' /\ BehindDone'
  BY <1>0, DispatchDeleteR
<1>2. /\ nops' = o /\ op'[o] = r /\ o \in Nat /\ 1..nops' = (1..nops) \union {o}
      /\ \A q \in 1..nops : q < o /\ op'[q] = op[q]
      /\ \A q \in 1..nops : \A e \in r.deps :
           q <= e /\ op[e].node = op[q].node => q \in Behind(o)'
  BY <1>1, DispatchBehind
<1>3. PICK t \in RollRoot : UnderWay(t)
  BY DEF RInv, RollUnderWay
<1>4. /\ t \in Rolling /\ t \in Node
      /\ \A m \in Descendants[t] : m \in Node /\ m \in Rolling /\ RollSet(m) = RollSet(t)
  BY BelowInSet DEF RollRoot, Rolling
<1>5. rolling = Descendants[t] \cap present /\ n \in Descendants[t]
  BY <1>3 DEF UnderWay
<1>6. NoOp \notin 1..nops /\ extra \subseteq 1..nops
  BY DEF EInv, Bookkeeping, NoOp
<1>7. extra \subseteq r.deps
  BY <1>1, <1>6 DEF DeleteDeps
<1>8. ASSUME NEW q \in 1..nops, op[q].node \in RollSet(t)
      PROVE  q \in Behind(o)' \/ (op[q].kind = "delete" /\ op[q].node \in Descendants[t])
  <2>1. CASE \E e \in extra : q <= e /\ op[e].node = op[q].node
    BY <1>2, <1>7, <2>1
  <2>2. QED
    BY <1>3, <1>8, <2>1 DEF UnderWay
<1>9. SetBehind'
  <2>1. SameRoll(n, n)
    BY <1>5 DEF SameRoll
  <2>2. ASSUME NEW q \in 1..nops, op[q].node \in RollSet(n)
        PROVE  q \in Behind(o)' \/ (op[q].kind = "delete" /\ SameRoll(n, op[q].node))
    <3>1. op[q].node \in RollSet(t)
      BY <1>4, <1>5, <2>2
    <3>2. QED
      BY <1>5, <1>8, <3>1 DEF SameRoll
  <2>3. QED
    BY <1>1, <2>1, <2>2, DispatchSetBehind
<1>10. RollUnderWay'
  <2>1. ASSUME rolling' # {} PROVE UnderWay(t)'
    <3>1. extra' = extra /\ rolling' = Descendants[t] \cap present'
      BY <1>1, <1>5, <2>1
    <3>2. RollSet(t) \ present' \subseteq Descendants[t]
      BY <1>1, <1>3, <1>5 DEF UnderWay
    <3>3. ASSUME NEW q \in 1..nops', op'[q].node \in RollSet(t)
          PROVE  \/ \E e \in extra' : q <= e /\ op'[e].node = op'[q].node
                 \/ op'[q].kind = "delete" /\ op'[q].node \in Descendants[t]
      <4>1. CASE q = o
        BY <1>1, <1>2, <1>5, <4>1
      <4>2. CASE q \in 1..nops
        BY <1>2, <1>3, <1>6, <3>1, <3>3, <4>2 DEF UnderWay
      <4>3. QED
        BY <1>2, <4>1, <4>2
    <3>4. QED
      BY <3>1, <3>2, <3>3 DEF UnderWay
  <2>2. QED
    BY <2>1 DEF RollUnderWay
<1>11. ASSUME rolling' = {} PROVE n = t
  <2>1. Descendants[t] \cap present = {n}
    BY <1>0, <1>5, <1>11
  <2>2. ASSUME n # t PROVE FALSE
    <3>1. \E p \in Parents[n] : p \in Descendants[t]
      BY <1>4, <1>5, <2>2, BelowByParent
    <3>2. Parents[n] \subseteq present
      BY <1>0 DEF EInv, PresentClosed
    <3>3. n \in Parents[n]
      BY <2>1, <3>1, <3>2
    <3>4. QED
      BY <1>1, <3>3, NotOwnParent
  <2>3. QED
    BY <2>2
<1>12. Regrow'
  <2>1. ASSUME NEW m \in Rolling \ present', RollSet(m) \cap rolling' = {},
               NEW x \in 1..nops', RollingDelete(x)', m \in RollSet(op'[x].node)
        PROVE  Regrows(m, x)'
    <3>1. m \in Node /\ m \in RollSet(m)
      BY <2>1 DEF Rolling, RollSet
    <3>2. CASE m \notin RollSet(t)
      <4>1. RollSet(m) \cap RollSet(t) = {}
        BY <3>2, <3>1 DEF RollSet
      <4>2. Descendants[t] \subseteq RollSet(t)
        BY <1>4 DEF RollSet
      <4>3. m \in Rolling \ present /\ m # n /\ RollSet(m) \cap rolling = {}
        BY <1>1, <1>5, <2>1, <3>2, <4>1, <4>2
      <4>4. m \notin RollSet(n)
        BY <1>4, <1>5, <3>2
      <4>5. x \in 1..nops /\ RollingDelete(x) /\ m \in RollSet(op[x].node)
        BY <1>1, <1>2, <2>1, <4>4 DEF RollingDelete
      <4>6. present' \subseteq present
        BY <1>1
      <4>7. QED
        BY <1>1, <4>3, <4>5, <4>6, DispatchRegrows
    <3>3. CASE m \in RollSet(t)
      <4>1. RollSet(m) = RollSet(t)
        BY <3>3 DEF RollSet
      <4>2. rolling' = {}
        <5>1. \A y \in rolling' : y \in RollSet(t)
          BY <1>4, <1>5 DEF RollSet
        <5>2. QED
          BY <2>1, <4>1, <5>1
      <4>3. n = t
        BY <1>11, <4>2
      <4>4. m \in Descendants[t] /\ Descendants[t] \cap present' = {}
        <5>1. Descendants[t] \cap present' = {}
          BY <1>1, <1>5, <4>2
        <5>2. m \in Descendants[t]
          BY <1>1, <1>3, <1>5, <2>1, <3>3 DEF UnderWay
        <5>3. QED
          BY <5>1, <5>2
      <4>5. CASE m = t
        <5>1. last'[m] = o
          BY <1>1, <4>3, <4>5 DEF EInv, TypeOK
        <5>2. x \in Behind(o)' \union {o}
          <6>1. ASSUME x # o PROVE x \in Behind(o)'
            <7>1. x \in 1..nops /\ x \in 1..(o - 1)
              BY <1>2, <6>1
            <7>2. op[x].node \in RollSet(t)
              BY <1>2, <2>1, <3>3, <7>1 DEF RollSet, RollingDelete, Rolling
            <7>3. CASE op[x].kind = "delete" /\ op[x].node \in Descendants[t]
              BY <1>1, <1>2, <4>3, <7>1, <7>3 DEF BelowBehind
            <7>4. QED
              BY <1>8, <7>1, <7>2, <7>3
          <6>2. QED
            BY <6>1
        <5>3. o # NoOp
          BY <1>2 DEF NoOp
        <5>4. last'[m] # NoOp /\ x \in BehindIn(op', nops', last'[m]) \union {last'[m]}
          BY <5>1, <5>2, <5>3 DEF Behind
        <5>5. QED
          BY <5>4 DEF Regrows, Behind
      <4>6. CASE m # t
        <5>1. PICK p \in Parents[m] : p \in Descendants[t]
          BY <1>4, <4>4, <4>6, BelowByParent
        <5>2. p \in RollSet(m) /\ p \notin present'
          BY <1>4, <4>1, <4>4, <5>1 DEF RollSet
        <5>3. QED
          BY <5>1, <5>2 DEF Regrows
      <4>7. QED
        BY <4>5, <4>6
    <3>4. QED
      BY <3>2, <3>3
  <2>2. QED
    BY <2>1 DEF Regrow
<1>13. QED
  BY <1>1, <1>9, <1>10, <1>12 DEF RInv

(***************************************************************************)
(* The start of a roll: the extra dependencies are the last operations of  *)
(* the whole set, which is whole.                                          *)
(***************************************************************************)
LEMMA RollBeginR ==
  ASSUME EInv, RInv, NEW n \in Node, RollBegin(n)
  PROVE  RInv'
<1>1. /\ rolling = {} /\ n \in DeleteCandidates(present) \cap Rolling
      /\ rolling' = Descendants[n] \cap present /\ extra' = RollExtra(n)
      /\ UNCHANGED <<present, create, last, nops, op, pc, cancelled>>
  BY DEF RollBegin, Deciding, states
<1>2. /\ \A q : Behind(q)' = Behind(q)
      /\ \A q : (RollingDelete(q)' <=> RollingDelete(q)) /\ (Ordered(q)' <=> Ordered(q))
      /\ \A q : Done(q)' <=> Done(q)
      /\ \A m, x : Regrows(m, x)' <=> Regrows(m, x)
  BY <1>1 DEF Behind, RollingDelete, Ordered, PastAwait, Done, Regrows
<1>3. NodeBehind' /\ GoneBelow' /\ BelowBehind' /\ SetBehind' /\ CreateBehind' /\ BehindDone'
  BY <1>1, <1>2 DEF RInv, NodeBehind, GoneBelow, BelowBehind, SetBehind, CreateBehind,
                    BehindDone, SameRoll
<1>4. Regrow'
  BY <1>1, <1>2 DEF RInv, Regrow
<1>5. RollUnderWay'
  <2>1. n \in RollRoot /\ RollSet(n) \subseteq present
    BY <1>1 DEF DeleteCandidates, SetWhole
  <2>2. ASSUME NEW q \in 1..nops, op[q].node \in RollSet(n)
        PROVE  \E e \in extra' : q <= e /\ op'[e].node = op'[q].node
    <3>1. PICK m : m = op[q].node
      OBVIOUS
    <3>2. m \in RollSet(n) /\ m \in Node /\ q <= last[m]
      BY <2>2, <3>1 DEF EInv, Bookkeeping
    <3>3. last[m] # NoOp /\ op[last[m]].node = m
      BY <2>2, <3>2 DEF EInv, TypeOK, Bookkeeping, NoOp
    <3>4. last[m] \in extra'
      BY <1>1, <3>2, <3>3 DEF RollExtra
    <3>5. QED
      BY <1>1, <3>1, <3>2, <3>3, <3>4
  <2>3. UnderWay(n)'
    BY <1>1, <2>1, <2>2 DEF UnderWay
  <2>4. QED
    BY <2>1, <2>3 DEF RollUnderWay
<1>6. QED
  BY <1>3, <1>4, <1>5 DEF RInv

(***************************************************************************)
(* A step that leaves the schedule and the operations' records alone and   *)
(* lets an operation past await only when its dependencies are done.  All  *)
(* that is behind it is done then: what is done in a run that is not       *)
(* cancelled had its own dependencies done.                                *)
(***************************************************************************)
LEMMA OtherStepsR ==
  ASSUME EInv, RInv,
         UNCHANGED <<present, rolling, create, last, extra, nops, op>>,
         \A q \in 1..nops : Done(q) => Done(q)',
         \A q \in 1..nops : Ordered(q)' =>
           Ordered(q) \/ (~cancelled /\ \A d \in op[q].deps : Done(d))
  PROVE  RInv'
<1>1. /\ \A q : Behind(q)' = Behind(q)
      /\ \A q : RollingDelete(q)' <=> RollingDelete(q)
      /\ \A m, x : Regrows(m, x)' <=> Regrows(m, x)
      /\ \A t : UnderWay(t)' <=> UnderWay(t)
  BY DEF Behind, RollingDelete, Regrows, UnderWay
<1>2. NodeBehind' /\ GoneBelow' /\ BelowBehind' /\ SetBehind' /\ CreateBehind'
  BY <1>1 DEF RInv, NodeBehind, GoneBelow, BelowBehind, SetBehind, CreateBehind, SameRoll
<1>3. Regrow' /\ RollUnderWay'
  BY <1>1 DEF RInv, Regrow, RollUnderWay
<1>4. ASSUME NEW x \in 1..nops, Ordered(x)', NEW q \in Behind(x) PROVE Done(q)'
  <2>1. q \in 1..nops
    BY BehindEarlier
  <2>2. CASE Ordered(x)
    BY <1>4, <2>1, <2>2 DEF RInv, BehindDone
  <2>3. CASE ~cancelled /\ \A d \in op[x].deps : Done(d)
    <3> DEFINE T == {d \in 1..nops : Done(d)}
    <3>1. T \in SUBSET (1..nops) /\ op[x].deps \subseteq T
      BY <2>3, BehindEarlier
    <3>2. \A d \in T : op[d].deps \subseteq T
      <4>1. ASSUME NEW d \in T PROVE op[d].deps \subseteq T
        <5>1. Ordered(d)
          BY <2>3 DEF Ordered, PastAwait, Done
        <5>2. QED
          BY <5>1, BehindEarlier DEF EInv, Serial
      <4>2. QED
        BY <4>1
    <3>3. q \in T
      BY <1>4, <3>1, <3>2 DEF Behind, BehindIn
    <3>4. QED
      BY <2>1, <3>3
  <2>4. QED
    BY <1>4, <2>2, <2>3
<1>5. BehindDone'
  BY <1>1, <1>4 DEF BehindDone
<1>6. QED
  BY <1>2, <1>3, <1>5 DEF RInv

(***************************************************************************)
(* Initially nothing has been dispatched.                                  *)
(***************************************************************************)
LEMMA RInitInv == Init => RInv
<1> SUFFICES ASSUME Init PROVE RInv
  OBVIOUS
<1>1. nops = 0 /\ 1..nops = {} /\ rolling = {}
  BY DEF Init
<1>2. QED
  BY <1>1 DEF RInv, NodeBehind, GoneBelow, BelowBehind, SetBehind, CreateBehind, Regrow,
              RollUnderWay, BehindDone

(***************************************************************************)
(* Every step preserves the invariant of the rolls.                        *)
(***************************************************************************)
LEMMA RStepInv == EInv /\ RInv /\ [Next]_vars => RInv'
<1> SUFFICES ASSUME EInv, RInv, [Next]_vars PROVE RInv'
  OBVIOUS
<1>0. /\ MaxOps \in Nat /\ nops \in 0..MaxOps /\ rolling \subseteq Node
      /\ \A q \in 1..nops : q \in OpId
  BY EngineAssumption DEF EInv, TypeOK, OpId
<1>1. ASSUME NEW n \in Node, StepEagerCreate(n) \/ StepCreate(n) PROVE RInv'
  <2>1. n \in CreateCandidates(present) /\ DispatchCreate(n) /\ rolling = {} /\ rolling' = {}
    BY <1>1 DEF StepEagerCreate, StepCreate, EagerCreateCandidates, Deciding
  <2>2. nops < MaxOps
    BY <1>0, <2>1 DEF DispatchCreate, Dispatch
  <2>3. PICK o : o = nops + 1
    OBVIOUS
  <2>4. PICK r : r = CreateRecord(n, o)
    OBVIOUS
  <2>5. Fresh(r)
    BY <2>1, <2>2, <2>3, <2>4, CreateIsFresh
  <2>6. QED
    BY <2>1, <2>3, <2>4, <2>5, DispatchCreateR
<1>2. ASSUME NEW n \in Node, StepMutate(n) PROVE RInv'
  <2>1. n \in present /\ DispatchMutate(n) /\ rolling = {} /\ rolling' = {}
    BY <1>2 DEF StepMutate, MutateCandidates, Deciding
  <2>2. nops < MaxOps
    BY <1>0, <2>1 DEF DispatchMutate, Dispatch
  <2>3. PICK o : o = nops + 1
    OBVIOUS
  <2>4. PICK r : r = MutateRecord(n)
    OBVIOUS
  <2>5. Fresh(r)
    BY <2>1, <2>2, <2>4, MutateIsFresh
  <2>6. QED
    BY <2>1, <2>2, <2>3, <2>4, <2>5, DispatchMutateR
<1>3. ASSUME NEW n \in Node, StepDelete(n) PROVE RInv'
  <2>1. /\ n \in present /\ Children(n) \cap present = {} /\ n \notin Rolling
        /\ DispatchDelete(n, 1) /\ rolling = {} /\ rolling' = {}
    BY <1>3 DEF StepDelete, DeleteCandidates, Deciding
  <2>2. nops < MaxOps
    BY <1>0, <2>1 DEF DispatchDelete, Dispatch
  <2>3. PICK o : o = nops + 1
    OBVIOUS
  <2>4. PICK r : r = DeleteRecord(n)
    OBVIOUS
  <2>5. Fresh(r)
    BY <2>1, <2>2, <2>4, DeleteIsFresh
  <2>6. QED
    BY <2>1, <2>2, <2>3, <2>4, <2>5, StepDeleteR
<1>4. ASSUME NEW n \in Node, RollDelete(n) PROVE RInv'
  <2>1. /\ n \in rolling /\ Children(n) \cap present = {}
        /\ DispatchDelete(n, Cardinality(rolling)) /\ rolling' = rolling \ {n}
        /\ extra' = IF rolling' = {} THEN {} ELSE extra
    BY <1>4 DEF RollDelete
  <2>2. Cardinality(rolling) \in Nat /\ Cardinality(rolling) # 0
    BY <1>0, <2>1, NodeAssumption, FS_Subset, FS_CardinalityType, FS_EmptySet
  <2>3. nops + Cardinality(rolling) <= MaxOps
    BY <2>1 DEF DispatchDelete, Dispatch
  <2>4. nops < MaxOps
    BY <1>0, <2>2, <2>3
  <2>5. PICK o : o = nops + 1
    OBVIOUS
  <2>6. PICK r : r = DeleteRecord(n)
    OBVIOUS
  <2>7. n \in present
    BY <2>1 DEF EInv, PresentClosed
  <2>8. Fresh(r)
    BY <2>4, <2>6, <2>7, DeleteIsFresh
  <2>9. QED
    BY <2>1, <2>4, <2>5, <2>6, <2>8, RollDeleteR
<1>5. ASSUME NEW n \in Node, RollBegin(n) PROVE RInv'
  BY <1>5, RollBeginR
<1>6. CASE StepNoop \/ Tick \/ Stop \/ Return \/ Cancel \/ Terminated \/ UNCHANGED vars
  <2>1. /\ UNCHANGED <<present, rolling, create, last, extra, nops, op, pc>>
        /\ cancelled => cancelled'
    BY <1>6 DEF StepNoop, Tick, Stop, Return, Cancel, Terminated, vars, schedule, states, loop
  <2>2. \A q \in 1..nops : (Done(q) => Done(q)') /\ (Ordered(q)' => Ordered(q))
    BY <2>1 DEF Done, Ordered, PastAwait
  <2>3. QED
    BY <2>1, <2>2, OtherStepsR
<1>7. CASE Launch
  <2>1. /\ UNCHANGED <<present, rolling, create, last, extra, nops, op, cancelled>>
        /\ sched = "launch" /\ pc' = [pc EXCEPT ![nops] = "await"]
    BY <1>7 DEF Launch, schedule, states
  <2>2. \A q \in OpId : pc'[q] = pc[q] \/ (pc[q] = "launch" /\ pc'[q] = "await")
    BY <2>1 DEF EInv, TypeOK, Launching
  <2>3. \A q \in 1..nops : (Done(q) => Done(q)') /\ (Ordered(q)' => Ordered(q))
    BY <1>0, <2>1, <2>2 DEF Done, Ordered, PastAwait
  <2>4. QED
    BY <2>1, <2>3, OtherStepsR
<1>8. ASSUME NEW o \in OpId, OpStep(o) PROVE RInv'
  <2>1. UNCHANGED <<present, rolling, create, last, extra, nops, op>>
    BY <1>8, OpStepsLeaveScheduler DEF Scheduler, schedule, states, loop
  <2>2. /\ \A q \in 1..nops : Done(q) => Done(q)'
        /\ \A q \in 1..nops : Ordered(q)' =>
             Ordered(q) \/ (~cancelled /\ \A d \in op[q].deps : Done(d))
    BY <1>0, <1>8, OpStepPlaces
  <2>3. QED
    BY <2>1, <2>2, OtherStepsR
<1>9. QED
  BY <1>1, <1>2, <1>3, <1>4, <1>5, <1>6, <1>7, <1>8 DEF Next, Decide

LEMMA RInvariance == Spec => [](EInv /\ RInv)
<1>1. Init => EInv /\ RInv
  BY EInitInv, RInitInv
<1>2. EInv /\ RInv /\ [Next]_vars => (EInv /\ RInv)'
  BY EStepInv, RStepInv
<1>3. QED
  BY <1>1, <1>2, PTL DEF Spec

(***************************************************************************)
(* The invariant is strong enough: of two running operations neither is    *)
(* behind the other.                                                       *)
(***************************************************************************)
LEMMA BehindSuffices == EInv /\ RInv => RollsDoNotOverlap
<1> SUFFICES ASSUME EInv, RInv, NEW o \in Running, NEW q \in Running, RollingDelete(o),
                    op[q].node \in RollSet(op[o].node)
             PROVE  /\ op[q].kind # "create"
                    /\ op[q].kind = "delete" => SameRoll(op[o].node, op[q].node)
  BY DEF RollsDoNotOverlap, RollingDelete, SameRoll
<1>0. MaxOps \in Nat /\ nops \in 0..MaxOps
  BY EngineAssumption DEF EInv, TypeOK
<1>1. /\ o \in 1..nops /\ Ordered(o) /\ ~Done(o)
      /\ q \in 1..nops /\ Ordered(q) /\ ~Done(q)
  BY <1>0 DEF Running, EInv, Dispatched, Ordered, OpId, Done
<1>2. op[q].node \in Rolling /\ op[o].node \in RollSet(op[q].node)
  BY <1>1 DEF RollingDelete, Rolling, RollSet
<1>3. o \notin Behind(q) /\ q \notin Behind(o)
  BY <1>1 DEF RInv, BehindDone
<1>4. CASE q = o
  BY <1>1, <1>4 DEF RInv, SetBehind, RollingDelete
<1>5. CASE q < o
  <2>1. q \in 1..(o - 1)
    BY <1>1, <1>5
  <2>2. op[q].kind = "delete" /\ SameRoll(op[o].node, op[q].node)
    BY <1>1, <1>3, <2>1 DEF RInv, SetBehind
  <2>3. QED
    BY <2>2
<1>6. CASE o < q
  <2>1. o \in 1..(q - 1)
    BY <1>1, <1>6
  <2>2. op[q].kind # "create"
    BY <1>1, <1>3, <2>1 DEF RInv, CreateBehind
  <2>3. ASSUME op[q].kind = "delete" PROVE SameRoll(op[o].node, op[q].node)
    <3>1. RollingDelete(q)
      BY <1>2, <2>3 DEF RollingDelete
    <3>2. SameRoll(op[q].node, op[o].node)
      BY <1>1, <1>2, <1>3, <2>1, <3>1 DEF RInv, SetBehind
    <3>3. QED
      BY <3>2 DEF SameRoll
  <2>4. QED
    BY <2>2, <2>3
<1>7. QED
  BY <1>1, <1>4, <1>5, <1>6

(***************************************************************************)
(* In the cloud as well as in the inventory a rolling set is torn down one *)
(* root at a time and grows back only afterwards: no running delete of it  *)
(* overlaps with a create of it, or with a delete from under another root, *)
(* although await only looks at the direct dependencies (roll's extra      *)
(* dependencies, dispatchCreate, await).                                   *)
(***************************************************************************)
THEOREM RollsStayApart == Spec => []RollsDoNotOverlap
BY RInvariance, BehindSuffices, PTL
=============================================================================
