--------------------------- MODULE ChurnDataProofs ---------------------------
(***************************************************************************)
(* The data of a churn run: what it leaves (ChurnBuckets), then what it    *)
(* starts from (Plans and ChurnGraphs).                                    *)
(*                                                                         *)
(* BucketsExact speaks of what is read.  What is inductive is the          *)
(* bookkeeping behind it: each slot's counter is the number of operations  *)
(* in flight in it, a sealed slot has none and lies before the current     *)
(* one, and its outcomes are where reading looks for them.                 *)
(*                                                                         *)
(* AcceptedScenariosPlan speaks of the end of a generation.  What is       *)
(* inductive is PlanInv, one part per service: what an entry of each kind  *)
(* refers to and which numbers it may carry, and which names exist at      *)
(* which step.  A graph is then right because every edge of a node leads   *)
(* to a name of a lower level (GraphRight).                                *)
(***************************************************************************)
EXTENDS ChurnGraphs, ChurnBuckets, FiniteSetTheorems, WellFoundedInduction, TLAPS

\* The offsets are ticks that have been, and no tick is ahead of the clock.
ClockOrder ==
  /\ tick <= now
  /\ \A o \in Ops : offset[o] <= tick
  /\ \A o \in Ops : pc[o] = "new" => added[o] = 0

FlyingIn(i) == {o \in Ops : pc[o] = "flying" /\ index(offset[o]) = i}
FlightsCounted == \A i \in Slot : inFlight[i] = Cardinality(FlyingIn(i))

\* Sealing is final and stays behind the current slot and behind what flies.
SealsSound ==
  /\ \A i \in sealed : i < index(tick) /\ inFlight[i] = 0
  /\ open <= index(tick)
  /\ 0..(open - 1) \subseteq sealed

Reported == \A i \in Slot : bucket(i) = Cardinality(Outcomes(i))

BucketsInv == TypeOK /\ ClockOrder /\ FlightsCounted /\ SealsSound /\ Reported /\ IndexInRange

-----------------------------------------------------------------------------
(***************************************************************************)
(* A slot that is indexed exists, and a later offset has no earlier slot.  *)
(***************************************************************************)
LEMMA IndexSound ==
  ASSUME TypeOK, NEW a \in 0..MaxTime, NEW b \in 0..MaxTime
  PROVE  /\ index(a) \in Slot /\ index(a) \in 0..MaxTime
         /\ a <= b => index(a) <= index(b)
BY BucketAssumption DEF TypeOK, Slot, index

LEMMA SlotsAreNaturals ==
  /\ Slot \subseteq Nat
  /\ \A s \in Slot : 0..s \subseteq Slot
  /\ 0..(MaxTime + 1) \subseteq Slot
<1>1. \E top \in Nat : Slot = 0..top /\ top >= MaxTime + 1
  BY BucketAssumption DEF Slot
<1> QED BY <1>1, BucketAssumption

(***************************************************************************)
(* What is counted is finite.                                              *)
(***************************************************************************)
LEMMA CountedSetsFinite ==
  ASSUME NEW i
  PROVE  IsFiniteSet(FlyingIn(i)) /\ IsFiniteSet(Outcomes(i))
<1>1. IsFiniteSet(Ops) /\ MaxOutcomes \in Int
  BY BucketAssumption
<1>2. IsFiniteSet(FlyingIn(i))
  BY <1>1, FS_Subset DEF FlyingIn
<1>3. IsFiniteSet(1..MaxOutcomes)
  BY <1>1, FS_Interval
<1>4. IsFiniteSet(Ops \X (1..MaxOutcomes))
  BY <1>1, <1>3, FS_Product
<1>5. IsFiniteSet(Outcomes(i))
  BY <1>4, FS_Subset DEF Outcomes
<1> QED BY <1>2, <1>5

(***************************************************************************)
(* No operation is in flight in a slot that is sealed.                     *)
(***************************************************************************)
LEMMA FlyingIsUnsealed ==
  ASSUME BucketsInv, NEW o \in Ops, pc[o] = "flying"
  PROVE  /\ index(offset[o]) \in Slot /\ index(offset[o]) \notin sealed
         /\ inFlight[index(offset[o])] > 0
<1> DEFINE i == index(offset[o])
<1>1. i \in Slot /\ o \in FlyingIn(i)
  BY IndexSound DEF BucketsInv, TypeOK, FlyingIn
<1>2. inFlight[i] = Cardinality(FlyingIn(i)) /\ inFlight[i] \in Nat
  BY <1>1 DEF BucketsInv, FlightsCounted, TypeOK
<1>3. inFlight[i] # 0
  BY <1>1, <1>2, CountedSetsFinite, FS_EmptySet
<1>4. i \notin sealed
  BY <1>3 DEF BucketsInv, SealsSound
<1> QED BY <1>1, <1>2, <1>3, <1>4

(***************************************************************************)
(* The first slot from a on that is not in S, or b.                        *)
(***************************************************************************)
LEMMA FirstOutside ==
  ASSUME NEW a \in Nat, NEW b \in Nat, a <= b, NEW S
  PROVE  \E k \in a..b : a..(k - 1) \subseteq S /\ (k = b \/ k \notin S)
<1> DEFINE T == {k \in a..b : k = b \/ k \notin S}
<1>1. b \in T /\ T \subseteq Nat /\ T # {}
  OBVIOUS
<1>2. PICK k \in T : \A j \in T : ~(<<j, k>> \in OpToRel(<, Nat))
  BY <1>1, WFMin, NatLessThanWellFounded
<1>3. \A j \in T : k <= j
  <2> SUFFICES ASSUME NEW j \in T, ~(k <= j) PROVE FALSE
    OBVIOUS
  <2>1. <<j, k>> \in Nat \X Nat /\ j < k
    BY <1>1
  <2> QED BY <1>2, <2>1 DEF OpToRel
<1>4. a..(k - 1) \subseteq S
  BY <1>1, <1>3
<1> QED BY <1>4

-----------------------------------------------------------------------------
LEMMA InitEstablishes == BucketsInit => BucketsInv
<1> SUFFICES ASSUME BucketsInit PROVE BucketsInv
  OBVIOUS
<1>1. TypeOK
  <2>1. 0 \in Slot /\ SlotCount \in Slot /\ 0 \in 0..MaxTime /\ 0 \in 0..MaxOutcomes
    BY BucketAssumption DEF Slot
  <2>2. count \in Slot /\ open \in Slot
    BY <2>1 DEF BucketsInit
  <2> QED BY <2>1, <2>2 DEF BucketsInit, TypeOK
<1>2. ClockOrder
  BY BucketAssumption DEF BucketsInit, ClockOrder
<1>3. \A i : FlyingIn(i) = {} /\ Outcomes(i) = {}
  BY DEF BucketsInit, FlyingIn, Outcomes, Dispatched
<1>4. FlightsCounted /\ Reported
  BY <1>3, FS_EmptySet DEF BucketsInit, FlightsCounted, Reported, bucket
<1>5. SealsSound /\ IndexInRange
  BY BucketAssumption DEF BucketsInit, SealsSound, IndexInRange, index
<1> QED BY <1>1, <1>2, <1>4, <1>5 DEF BucketsInv

LEMMA PassKeeps == BucketsInv /\ Pass => BucketsInv'
<1> SUFFICES ASSUME BucketsInv, Pass PROVE BucketsInv'
  OBVIOUS
<1>1. TypeOK' /\ ClockOrder'
  BY BucketAssumption DEF BucketsInv, Pass, TypeOK, ClockOrder
<1>2. FlightsCounted' /\ SealsSound' /\ Reported' /\ IndexInRange'
  BY DEF BucketsInv, Pass, FlightsCounted, SealsSound, Reported, IndexInRange, bucket, index, FlyingIn,
         Outcomes, Dispatched, Slot
<1> QED BY <1>1, <1>2 DEF BucketsInv

LEMMA SleepKeeps == BucketsInv /\ Sleep => BucketsInv'
<1> SUFFICES ASSUME BucketsInv, Sleep PROVE BucketsInv'
  OBVIOUS
<1>1. TypeOK' /\ ClockOrder'
  BY DEF BucketsInv, Sleep, TypeOK, Slot, ClockOrder
<1>2. FlightsCounted' /\ SealsSound' /\ Reported' /\ IndexInRange'
  BY DEF BucketsInv, Sleep, FlightsCounted, SealsSound, Reported, IndexInRange, bucket, index, FlyingIn,
         Outcomes, Dispatched, Slot
<1> QED BY <1>1, <1>2 DEF BucketsInv

(***************************************************************************)
(* A tick seals slots nothing is in flight in, and moves their outcomes    *)
(* to where a sealed slot is read.                                         *)
(***************************************************************************)
LEMMA advanceKeeps == BucketsInv /\ advance => BucketsInv'
<1> SUFFICES ASSUME BucketsInv, advance PROVE BucketsInv'
  OBVIOUS
<1> DEFINE cur  == index(now)
           done == sealed \union Sealable(cur)
<1>1. cur \in Slot /\ cur \in 0..MaxTime /\ index(tick) \in 0..MaxTime /\ index(tick) <= cur
  BY IndexSound DEF BucketsInv, TypeOK, ClockOrder
<1>2. open \in Nat /\ open <= cur
  BY <1>1, SlotsAreNaturals DEF BucketsInv, TypeOK, SealsSound
<1>3. /\ Sealable(cur) \subseteq Slot
      /\ \A i \in Sealable(cur) : i < cur /\ i \notin sealed /\ inFlight[i] = 0
  <2>1. open..(cur - 1) \subseteq 0..cur
    BY <1>1, <1>2
  <2> QED BY <1>1, <1>2, <2>1, SlotsAreNaturals DEF Sealable
<1>4. open' \in 0..cur /\ 0..(open' - 1) \subseteq done
  <2> HIDE DEF cur, done
  <2>1. cur \in Nat
    BY <1>1
  <2>2. \E k \in open..cur : open..(k - 1) \subseteq done /\ (k = cur \/ k \notin done)
    BY <1>2, <2>1, FirstOutside
  <2>6. open < cur => /\ OpenAfter(cur, done) \in open..cur
                      /\ open..(OpenAfter(cur, done) - 1) \subseteq done
    BY <1>2, <2>1, <2>2 DEF OpenAfter
  <2>3. open >= cur => open' = open
    BY <1>2, <2>1 DEF advance, OpenAfter, cur
  <2>4. 0..(open - 1) \subseteq done
    BY DEF BucketsInv, SealsSound, done
  <2>5. open' = OpenAfter(cur, done)
    BY DEF advance, cur, done
  <2> QED BY <1>2, <2>1, <2>6, <2>3, <2>4, <2>5
<1>5. tick' = now /\ index(tick)' = cur /\ UNCHANGED <<fixed, now, inFlight, pc, offset, added>>
  BY DEF advance, index
<1>6. sealed' = done /\ count' = Grown(cur)
  BY DEF advance
<1>7. \A i \in Slot : /\ i \in Sealable(cur) => shown'[i] = attempted[i] /\ attempted'[i] = 0
                      /\ i \notin Sealable(cur) => shown'[i] = shown[i] /\ attempted'[i] = attempted[i]
  BY DEF advance
<1>8. TypeOK'
  <2>1. shown' \in [Slot -> Nat] /\ attempted' \in [Slot -> Nat]
    BY DEF advance, BucketsInv, TypeOK
  <2>2. count' \in Slot
    <3>1. cur + 1 \in Slot
      BY <1>1, SlotsAreNaturals, BucketAssumption
    <3> QED BY <1>6, <3>1 DEF Grown, BucketsInv, TypeOK
  <2>3. open' \in Slot
    BY <1>1, <1>4, SlotsAreNaturals
  <2> QED BY <1>3, <1>5, <1>6, <2>1, <2>2, <2>3 DEF BucketsInv, TypeOK, advance
<1>9. ClockOrder'
  BY <1>5 DEF BucketsInv, TypeOK, ClockOrder
<1>10. FlightsCounted'
  BY <1>5 DEF BucketsInv, FlightsCounted, FlyingIn, index
<1>11. SealsSound'
  <2>1. \A i \in sealed : i < cur /\ inFlight[i] = 0
    BY <1>1, SlotsAreNaturals DEF BucketsInv, SealsSound, TypeOK
  <2>2. \A i \in sealed' : i < cur /\ inFlight'[i] = 0
    BY <1>3, <1>5, <1>6, <2>1
  <2>3. open' <= cur /\ 0..(open' - 1) \subseteq sealed'
    <3> HIDE DEF cur, done
    <3>1. cur \in Nat
      BY <1>1, BucketAssumption
    <3>2. open' <= cur
      BY <3>1, <1>4
    <3> QED BY <3>2, <1>4, <1>6
  <2> QED BY <1>5, <2>2, <2>3 DEF SealsSound
<1>12. Reported'
  <2> SUFFICES ASSUME NEW i \in Slot PROVE bucket(i)' = Cardinality(Outcomes(i)')
    BY DEF Reported
  <2>1. Outcomes(i)' = Outcomes(i)
    BY <1>5 DEF Outcomes, Dispatched, index
  <2>2. bucket(i)' = bucket(i)
    BY <1>3, <1>6, <1>7 DEF bucket
  <2> QED BY <2>1, <2>2 DEF BucketsInv, Reported
<1>13. IndexInRange'
  BY <1>1, <1>5, <1>6, IndexSound, BucketAssumption, SlotsAreNaturals
     DEF BucketsInv, IndexInRange, TypeOK, ClockOrder, Grown, index
<1> QED BY <1>8, <1>9, <1>10, <1>11, <1>12, <1>13 DEF BucketsInv

(***************************************************************************)
(* An operation that begins counts in the current slot, which is not       *)
(* sealed, and has no outcome yet.                                         *)
(***************************************************************************)
LEMMA beginKeeps == ASSUME BucketsInv, NEW o \in Ops, begin(o) PROVE BucketsInv'
<1> DEFINE c == index(tick)
<1>1. c \in Slot /\ c \in 0..MaxTime
  BY IndexSound DEF BucketsInv, TypeOK
<1>2. /\ pc' = [pc EXCEPT ![o] = "flying"] /\ offset' = [offset EXCEPT ![o] = tick]
      /\ inFlight' = [inFlight EXCEPT ![c] = @ + 1] /\ ticking /\ pc[o] = "new"
      /\ UNCHANGED <<fixed, now, tick, ticking, count, attempted, sealed, shown, open, added>>
  BY DEF begin
<1>3. TypeOK'
  BY <1>1, <1>2 DEF BucketsInv, TypeOK
<1>4. ClockOrder'
  BY <1>2 DEF BucketsInv, ClockOrder, TypeOK
<1>5. index(tick)' = c /\ \A q \in Ops : index(offset[q])' = IF q = o THEN c ELSE index(offset[q])
  BY <1>2 DEF index, BucketsInv, TypeOK
<1>6. FlightsCounted'
  <2> SUFFICES ASSUME NEW i \in Slot PROVE inFlight'[i] = Cardinality(FlyingIn(i)')
    BY DEF FlightsCounted
  <2>1. inFlight[i] = Cardinality(FlyingIn(i))
    BY DEF BucketsInv, FlightsCounted
  <2>2. CASE i = c
    <3>1. FlyingIn(i)' = FlyingIn(i) \cup {o} /\ o \notin FlyingIn(i)
      BY <1>2, <1>5, <2>2 DEF FlyingIn, BucketsInv, TypeOK
    <3>2. Cardinality(FlyingIn(i)') = Cardinality(FlyingIn(i)) + 1
      BY <3>1, CountedSetsFinite, FS_AddElement
    <3> QED BY <1>2, <2>1, <2>2, <3>2 DEF BucketsInv, TypeOK
  <2>3. CASE i # c
    <3>1. FlyingIn(i)' = FlyingIn(i)
      BY <1>2, <1>5, <2>3 DEF FlyingIn, BucketsInv, TypeOK
    <3> QED BY <1>2, <2>1, <2>3, <3>1 DEF BucketsInv, TypeOK
  <2> QED BY <2>2, <2>3
<1>7. SealsSound'
  BY <1>1, <1>2, <1>5 DEF BucketsInv, SealsSound, TypeOK
<1>8. Reported'
  <2> SUFFICES ASSUME NEW i \in Slot PROVE bucket(i)' = Cardinality(Outcomes(i)')
    BY DEF Reported
  <2>1. added[o] = 0
    BY <1>2 DEF BucketsInv, ClockOrder
  <2>2. \A x \in Ops \X (1..MaxOutcomes) :
          (Dispatched(x[1], i) /\ x[2] <= added[x[1]])' <=> Dispatched(x[1], i) /\ x[2] <= added[x[1]]
    BY <1>2, <1>5, <2>1, BucketAssumption DEF Dispatched, BucketsInv, TypeOK
  <2>3. Outcomes(i)' = Outcomes(i)
    BY <2>2 DEF Outcomes
  <2>4. bucket(i)' = bucket(i)
    BY <1>2 DEF bucket
  <2> QED BY <2>3, <2>4 DEF BucketsInv, Reported
<1>9. IndexInRange'
  BY <1>2, <1>5 DEF BucketsInv, IndexInRange, TypeOK
<1> QED BY <1>3, <1>4, <1>6, <1>7, <1>8, <1>9 DEF BucketsInv

(***************************************************************************)
(* An outcome is added to a slot that still collects.                      *)
(***************************************************************************)
LEMMA addKeeps == ASSUME BucketsInv, NEW o \in Ops, add(o) PROVE BucketsInv'
<1> DEFINE c == index(offset[o])
           k == added[o] + 1
<1>1. c \in Slot /\ c \notin sealed
  BY FlyingIsUnsealed DEF add
<1>2. /\ added' = [added EXCEPT ![o] = @ + 1]
      /\ attempted' = [attempted EXCEPT ![c] = @ + 1] /\ pc[o] = "flying"
      /\ added[o] < MaxOutcomes
      /\ UNCHANGED <<fixed, now, tick, ticking, count, inFlight, sealed, shown, open, pc, offset>>
  BY DEF add
<1>3. k \in 1..MaxOutcomes
  BY <1>2, BucketAssumption DEF BucketsInv, TypeOK
<1>4. TypeOK'
  BY <1>1, <1>2, <1>3, BucketAssumption DEF BucketsInv, TypeOK
<1>5. ClockOrder'
  BY <1>2 DEF BucketsInv, ClockOrder, TypeOK
<1>6. FlightsCounted' /\ SealsSound' /\ IndexInRange'
  BY <1>2 DEF BucketsInv, FlightsCounted, SealsSound, IndexInRange, FlyingIn, index
<1>7. Reported'
  <2> SUFFICES ASSUME NEW i \in Slot PROVE bucket(i)' = Cardinality(Outcomes(i)')
    BY DEF Reported
  <2>1. bucket(i) = Cardinality(Outcomes(i))
    BY DEF BucketsInv, Reported
  <2>2. \A q \in Ops : Dispatched(q, i)' = Dispatched(q, i)
    BY <1>2 DEF Dispatched, index
  <2>3. \A q \in Ops : added'[q] = IF q = o THEN k ELSE added[q]
    BY <1>2 DEF BucketsInv, TypeOK
  <2>4. CASE i = c
    <3>1. <<o, k>> \notin Outcomes(i)
      BY <1>3 DEF Outcomes, BucketsInv, TypeOK
    <3>2. Dispatched(o, i)
      BY <1>2, <2>4 DEF Dispatched
    <3>3. Outcomes(i)' = Outcomes(i) \cup {<<o, k>>}
      <4>1. ASSUME NEW x \in Ops \X (1..MaxOutcomes)
            PROVE  x[2] <= added'[x[1]] <=> x[2] <= added[x[1]] \/ x = <<o, k>>
        BY <1>3, <2>3 DEF BucketsInv, TypeOK
      <4> QED BY <1>3, <2>2, <3>2, <4>1 DEF Outcomes
    <3>4. Cardinality(Outcomes(i)') = Cardinality(Outcomes(i)) + 1
      BY <3>1, <3>3, CountedSetsFinite, FS_AddElement
    <3>5. bucket(i)' = bucket(i) + 1
      BY <1>1, <1>2, <2>4 DEF bucket, BucketsInv, TypeOK
    <3> QED BY <2>1, <3>4, <3>5
  <2>5. CASE i # c
    <3>1. ~Dispatched(o, i)
      BY <2>5 DEF Dispatched
    <3>2. Outcomes(i)' = Outcomes(i)
      BY <2>2, <2>3, <3>1 DEF Outcomes
    <3>3. bucket(i)' = bucket(i)
      BY <1>2, <2>5 DEF bucket, BucketsInv, TypeOK
    <3> QED BY <2>1, <3>2, <3>3
  <2> QED BY <2>4, <2>5
<1> QED BY <1>4, <1>5, <1>6, <1>7 DEF BucketsInv

LEMMA endKeeps == ASSUME BucketsInv, NEW o \in Ops, end(o) PROVE BucketsInv'
<1> DEFINE c == index(offset[o])
<1>1. c \in Slot /\ c \notin sealed /\ inFlight[c] > 0
  BY FlyingIsUnsealed DEF end
<1>2. /\ pc' = [pc EXCEPT ![o] = "ended"] /\ pc[o] = "flying"
      /\ inFlight' = [inFlight EXCEPT ![c] = @ - 1]
      /\ UNCHANGED <<fixed, now, tick, ticking, count, attempted, sealed, shown, open, offset,
                     added>>
  BY DEF end
<1>3. TypeOK'
  BY <1>1, <1>2 DEF BucketsInv, TypeOK
<1>4. ClockOrder'
  BY <1>2 DEF BucketsInv, ClockOrder, TypeOK
<1>5. FlightsCounted'
  <2> SUFFICES ASSUME NEW i \in Slot PROVE inFlight'[i] = Cardinality(FlyingIn(i)')
    BY DEF FlightsCounted
  <2>1. inFlight[i] = Cardinality(FlyingIn(i)) /\ inFlight[i] \in Nat
    BY DEF BucketsInv, FlightsCounted, TypeOK
  <2>2. CASE i = c
    <3>1. FlyingIn(i)' = FlyingIn(i) \ {o} /\ o \in FlyingIn(i)
      BY <1>2, <2>2 DEF FlyingIn, BucketsInv, TypeOK, index
    <3>2. Cardinality(FlyingIn(i)') = Cardinality(FlyingIn(i)) - 1
      BY <3>1, CountedSetsFinite, FS_RemoveElement
    <3> QED BY <1>2, <2>1, <2>2, <3>2 DEF BucketsInv, TypeOK
  <2>3. CASE i # c
    <3>1. FlyingIn(i)' = FlyingIn(i)
      BY <1>2, <2>3 DEF FlyingIn, BucketsInv, TypeOK, index
    <3> QED BY <1>2, <2>1, <2>3, <3>1 DEF BucketsInv, TypeOK
  <2> QED BY <2>2, <2>3
<1>6. SealsSound'
  BY <1>1, <1>2 DEF BucketsInv, SealsSound, TypeOK, index
<1>7. Reported'
  <2>1. \A i : Outcomes(i)' = Outcomes(i) /\ bucket(i)' = bucket(i)
    BY <1>2 DEF Outcomes, Dispatched, index, bucket, BucketsInv, TypeOK
  <2> QED BY <1>2, <2>1 DEF BucketsInv, Reported
<1>8. IndexInRange'
  BY <1>2 DEF BucketsInv, IndexInRange, TypeOK, index
<1> QED BY <1>3, <1>4, <1>5, <1>6, <1>7, <1>8 DEF BucketsInv

LEMMA StepKeeps == BucketsInv /\ [BucketsNext]_bucketVars => BucketsInv'
<1> SUFFICES ASSUME BucketsInv, [BucketsNext]_bucketVars PROVE BucketsInv'
  OBVIOUS
<1>1. CASE UNCHANGED bucketVars
  <2>1. TypeOK' /\ ClockOrder'
    BY <1>1 DEF bucketVars, BucketsInv, TypeOK, ClockOrder
  <2>2. FlightsCounted' /\ Reported'
    BY <1>1 DEF bucketVars, BucketsInv, FlightsCounted, Reported, bucket, index, FlyingIn, Outcomes, Dispatched
  <2>3. SealsSound' /\ IndexInRange'
    BY <1>1 DEF bucketVars, BucketsInv, SealsSound, IndexInRange, index
  <2> QED BY <2>1, <2>2, <2>3 DEF BucketsInv
<1>2. ASSUME NEW o \in Ops, begin(o) \/ add(o) \/ end(o) PROVE BucketsInv'
  BY <1>2, beginKeeps, addKeeps, endKeeps
<1> QED BY <1>1, <1>2, PassKeeps, SleepKeeps, advanceKeeps DEF BucketsNext

LEMMA InvariantHolds == BucketsSpec => []BucketsInv
BY InitEstablishes, StepKeeps, PTL DEF BucketsSpec

-----------------------------------------------------------------------------
(***************************************************************************)
(* Looking from open on misses nothing: what flies is in no sealed slot,   *)
(* and every slot before open is sealed.                                   *)
(***************************************************************************)
LEMMA DrainCheckExact == BucketsInv => InFlightExact
<1> SUFFICES ASSUME BucketsInv PROVE InFlightExact
  OBVIOUS
<1>1. open \in Nat /\ count \in Nat
  BY SlotsAreNaturals DEF BucketsInv, TypeOK
<1>2. ASSUME NEW o \in Ops, pc[o] = "flying" PROVE Flying
  <2> DEFINE i == index(offset[o])
  <2>1. i \in Slot /\ i \notin sealed /\ inFlight[i] > 0
    BY <1>2, FlyingIsUnsealed
  <2>2. i \in Nat /\ i < count
    BY <1>2, <2>1, SlotsAreNaturals DEF BucketsInv, IndexInRange
  <2>3. i >= open
    BY <1>1, <2>1, <2>2 DEF BucketsInv, SealsSound
  <2> QED BY <1>1, <2>1, <2>2, <2>3 DEF Flying
<1>3. ASSUME NEW i \in open..(count - 1), inFlight[i] > 0
      PROVE  \E o \in Ops : pc[o] = "flying"
  <2>1. i \in Slot
    BY <1>1, SlotsAreNaturals DEF BucketsInv, TypeOK
  <2>2. Cardinality(FlyingIn(i)) # 0
    BY <1>3, <2>1 DEF BucketsInv, FlightsCounted, TypeOK
  <2>3. FlyingIn(i) # {}
    BY <2>2, FS_EmptySet
  <2> QED BY <2>3 DEF FlyingIn
<1> QED BY <1>2, <1>3 DEF InFlightExact, Flying

(***************************************************************************)
(* For any number of operations, slots, instants and outcomes, the buckets *)
(* account for every outcome in the slot of the tick that dispatched it,   *)
(* the drain check sees exactly the unfinished operations, and no slot out *)
(* of range is indexed (type results).                                     *)
(***************************************************************************)
THEOREM BucketsAreExact == BucketsSpec => []BucketsExact
<1>1. BucketsInv => EveryOutcomeReported
  BY SlotsAreNaturals DEF BucketsInv, Reported, EveryOutcomeReported, TypeOK
<1>2. BucketsInv => BucketsExact
  BY <1>1, DrainCheckExact DEF BucketsInv, BucketsExact
<1> QED BY <1>2, InvariantHolds, PTL

(***************************************************************************)
(* The state of the buckets keeps its types: in particular no counter of a *)
(* slot goes below zero, so that no sealing is put off for ever by it.     *)
(***************************************************************************)
THEOREM BucketTypeCorrect == BucketsSpec => []TypeOK
<1>1. BucketsInv => TypeOK
  BY DEF BucketsInv
<1> QED BY <1>1, InvariantHolds, PTL

-----------------------------------------------------------------------------
(***************************************************************************)
(* A non-empty set of numbers has a least one.                             *)
(***************************************************************************)
LEMMA LeastOf ==
  ASSUME NEW S \in SUBSET Nat, S # {}
  PROVE  \E m \in S : \A j \in S : m <= j
<1>1. PICK m \in S : \A j \in S : ~(<<j, m>> \in OpToRel(<, Nat))
  BY WFMin, NatLessThanWellFounded
<1>2. ASSUME NEW j \in S, ~(m <= j) PROVE FALSE
  <2>1. <<j, m>> \in Nat \X Nat /\ j < m
    BY <1>2
  <2> QED BY <1>1, <2>1 DEF OpToRel
<1> QED BY <1>2

\* What is numbered by a finite set is finite.
LEMMA ImageIsFinite ==
  ASSUME NEW D, NEW S, IsFiniteSet(D)
  PROVE  \A f : (\A e \in S : \E k \in D : e = f[k]) => IsFiniteSet(S)
<1> SUFFICES ASSUME NEW f, \A e \in S : \E k \in D : e = f[k] PROVE IsFiniteSet(S)
  OBVIOUS
<1> DEFINE g == [k \in D |-> f[k]]
           image == {f[k] : k \in D}
<1>1. g \in Surjection(D, image)
  BY DEF Surjection
<1>2. IsFiniteSet(image)
  BY <1>1, FS_Surjection
<1>3. S \in SUBSET image
  OBVIOUS
<1> HIDE DEF image
<1> QED BY <1>2, <1>3, FS_Subset

\* A proper part of a finite set has fewer elements.
LEMMA PartIsSmaller ==
  ASSUME NEW S, IsFiniteSet(S), NEW T \in SUBSET S, T # S
  PROVE  IsFiniteSet(T) /\ Cardinality(T) \in Nat /\ Cardinality(S) \in Nat
         /\ Cardinality(T) < Cardinality(S)
BY FS_Subset, FS_CardinalityType

-----------------------------------------------------------------------------
(***************************************************************************)
(* Sums.  The fold of the library takes the elements of a set in an order  *)
(* CHOOSE fixes; the sum does not depend on it.                            *)
(***************************************************************************)
First(s) == CHOOSE x \in s : TRUE
SumsOn(iter, fun, D) ==
  iter = [s \in D |-> IF s = {} THEN 0 ELSE fun[First(s)] + iter[s \ {First(s)}]]
UpToSize(S, n) == {s \in SUBSET S : Cardinality(s) <= n}

LEMMA SumIsIter ==
  ASSUME NEW fun, NEW S
  PROVE  SumFunctionOnSet(fun, S) = (CHOOSE iter : SumsOn(iter, fun, SUBSET S))[S]
BY DEF SumFunctionOnSet, FoldFunctionOnSet, MapThenFoldSet, SumsOn, First

LEMMA FirstIsOne ==
  ASSUME NEW S, IsFiniteSet(S), NEW s \in SUBSET S, s # {}
  PROVE  /\ First(s) \in s /\ s \ {First(s)} \in SUBSET S
         /\ Cardinality(s) \in Nat \ {0}
         /\ Cardinality(s \ {First(s)}) = Cardinality(s) - 1
<1>1. First(s) \in s
  BY DEF First
<1>2. IsFiniteSet(s)
  BY FS_Subset
<1>3. Cardinality(s) \in Nat /\ Cardinality(s) # 0
  BY <1>2, FS_CardinalityType, FS_EmptySet
<1> QED BY <1>1, <1>2, <1>3, FS_RemoveElement

LEMMA IterExists ==
  ASSUME NEW fun, NEW S, IsFiniteSet(S)
  PROVE  \E iter : SumsOn(iter, fun, SUBSET S)
<1> DEFINE Without == {n \in Nat : ~\E g : SumsOn(g, fun, UpToSize(S, n))}
<1>1. Without = {}
  <2> SUFFICES ASSUME Without # {} PROVE FALSE
    OBVIOUS
  <2>0. Without \in SUBSET Nat
    OBVIOUS
  <2>1. PICK m \in Without : \A j \in Without : m <= j
    <3> HIDE DEF Without
    <3> QED BY <2>0, LeastOf
  <2>2. \A s \in SUBSET S : s # {} =>
          /\ s \ {First(s)} \in SUBSET S /\ Cardinality(s) \in Nat \ {0}
          /\ Cardinality(s \ {First(s)}) = Cardinality(s) - 1
    BY FirstIsOne
  <2>3. m # 0
    <3>1. SumsOn([s \in UpToSize(S, 0) |-> 0], fun, UpToSize(S, 0))
      <4>1. \A s \in UpToSize(S, 0) : s = {}
        <5> SUFFICES ASSUME NEW s \in SUBSET S, Cardinality(s) <= 0, s # {} PROVE FALSE
          BY DEF UpToSize
        <5>1. Cardinality(s) \in Nat \ {0}
          BY FirstIsOne
        <5> QED BY <5>1
      <4> QED BY <4>1 DEF SumsOn
    <3> QED BY <3>1
  <2>4. m \in Nat /\ m - 1 \in Nat /\ m - 1 \notin Without
    BY <2>1, <2>3
  <2>5. PICK g : SumsOn(g, fun, UpToSize(S, m - 1))
    BY <2>4
  <2> DEFINE h == [s \in UpToSize(S, m) |->
                     IF s = {} THEN 0 ELSE fun[First(s)] + g[s \ {First(s)}]]
  <2>6. \A s \in UpToSize(S, m - 1) : h[s] = g[s]
    <3>1. \A s \in UpToSize(S, m - 1) : s \in UpToSize(S, m)
      <4> SUFFICES ASSUME NEW s \in UpToSize(S, m - 1) PROVE s \in UpToSize(S, m)
        OBVIOUS
      <4>1. Cardinality(s) \in Nat
        BY FS_Subset, FS_CardinalityType DEF UpToSize
      <4> QED BY <4>1, <2>4 DEF UpToSize
    <3> QED BY <2>5, <3>1 DEF SumsOn
  <2>7. \A s \in UpToSize(S, m) : s # {} => s \ {First(s)} \in UpToSize(S, m - 1)
    BY <2>2, <2>4 DEF UpToSize
  <2>8. \A s \in UpToSize(S, m) :
          h[s] = IF s = {} THEN 0 ELSE fun[First(s)] + h[s \ {First(s)}]
    BY <2>6, <2>7
  <2>9. h = [s \in UpToSize(S, m) |-> h[s]]
    OBVIOUS
  <2> HIDE DEF h
  <2>10. SumsOn(h, fun, UpToSize(S, m))
    BY <2>8, <2>9 DEF SumsOn
  <2> QED BY <2>1, <2>10
<1>2. Cardinality(S) \in Nat
  BY FS_CardinalityType
<1>3. PICK g : SumsOn(g, fun, UpToSize(S, Cardinality(S)))
  BY <1>1, <1>2
<1>4. UpToSize(S, Cardinality(S)) = SUBSET S
  BY FS_Subset DEF UpToSize
<1> QED BY <1>3, <1>4

LEMMA IterIsUnique ==
  ASSUME NEW fun, NEW S, NEW T, IsFiniteSet(S), T \subseteq S
  PROVE  \A f, g : SumsOn(f, fun, SUBSET S) /\ SumsOn(g, fun, SUBSET T) => f[T] = g[T]
<1> SUFFICES ASSUME NEW f, SumsOn(f, fun, SUBSET S), NEW g, SumsOn(g, fun, SUBSET T)
             PROVE  f[T] = g[T]
  OBVIOUS
<1> DEFINE Odd == {n \in Nat : \E s \in SUBSET T : Cardinality(s) = n /\ f[s] # g[s]}
<1>1. Odd = {}
  <2> SUFFICES ASSUME Odd # {} PROVE FALSE
    OBVIOUS
  <2>0. Odd \in SUBSET Nat
    OBVIOUS
  <2>1. PICK m \in Odd : \A j \in Odd : m <= j
    <3> HIDE DEF Odd
    <3> QED BY <2>0, LeastOf
  <2>2. PICK s \in SUBSET T : Cardinality(s) = m /\ f[s] # g[s]
    BY <2>1
  <2>3. /\ f[s] = IF s = {} THEN 0 ELSE fun[First(s)] + f[s \ {First(s)}]
        /\ g[s] = IF s = {} THEN 0 ELSE fun[First(s)] + g[s \ {First(s)}]
    BY DEF SumsOn
  <2>4. s # {}
    BY <2>2, <2>3
  <2>5. IsFiniteSet(T)
    BY FS_Subset
  <2>6. /\ s \ {First(s)} \in SUBSET T /\ m \in Nat /\ m # 0
        /\ Cardinality(s \ {First(s)}) = m - 1
    BY <2>2, <2>4, <2>5, FirstIsOne
  <2>7. m - 1 \in Nat /\ ~(m <= m - 1)
    BY <2>6
  <2>8. f[s \ {First(s)}] = g[s \ {First(s)}]
    BY <2>1, <2>6, <2>7
  <2> QED BY <2>2, <2>3, <2>8
<1>2. Cardinality(T) \in Nat
  BY FS_Subset, FS_CardinalityType
<1> QED BY <1>1, <1>2

\* The sum of a finite set by the definition of the fold.
LEMMA SumUnfolds ==
  ASSUME NEW fun, NEW S, IsFiniteSet(S)
  PROVE  SumFunctionOnSet(fun, S) =
           IF S = {} THEN 0 ELSE fun[First(S)] + SumFunctionOnSet(fun, S \ {First(S)})
<1>1. PICK f : SumsOn(f, fun, SUBSET S) /\ SumFunctionOnSet(fun, S) = f[S]
  BY IterExists, SumIsIter
<1>2. f[S] = IF S = {} THEN 0 ELSE fun[First(S)] + f[S \ {First(S)}]
  BY <1>1 DEF SumsOn
<1>3. ASSUME NEW T \in SUBSET S PROVE f[T] = SumFunctionOnSet(fun, T)
  <2>1. IsFiniteSet(T)
    BY FS_Subset
  <2>2. PICK g : SumsOn(g, fun, SUBSET T) /\ SumFunctionOnSet(fun, T) = g[T]
    BY <2>1, IterExists, SumIsIter
  <2>3. f[T] = g[T]
    BY <1>1, <2>2, IterIsUnique
  <2> QED BY <2>2, <2>3
<1>4. S \ {First(S)} \in SUBSET S
  OBVIOUS
<1> QED BY <1>1, <1>2, <1>3, <1>4

LEMMA SumIsNat ==
  ASSUME NEW D, NEW fun \in [D -> Nat], NEW S \in SUBSET D, IsFiniteSet(S)
  PROVE  SumFunctionOnSet(fun, S) \in Nat
<1> DEFINE Odd == {n \in Nat : \E s \in SUBSET S :
                     Cardinality(s) = n /\ SumFunctionOnSet(fun, s) \notin Nat}
<1>1. Odd = {}
  <2> SUFFICES ASSUME Odd # {} PROVE FALSE
    OBVIOUS
  <2>0. Odd \in SUBSET Nat
    OBVIOUS
  <2>1. PICK m \in Odd : \A j \in Odd : m <= j
    <3> HIDE DEF Odd
    <3> QED BY <2>0, LeastOf
  <2>2. PICK s \in SUBSET S : Cardinality(s) = m /\ SumFunctionOnSet(fun, s) \notin Nat
    BY <2>1
  <2>3. SumFunctionOnSet(fun, s) =
          IF s = {} THEN 0 ELSE fun[First(s)] + SumFunctionOnSet(fun, s \ {First(s)})
    BY FS_Subset, SumUnfolds
  <2>4. s # {}
    BY <2>2, <2>3
  <2>5. /\ First(s) \in s /\ s \ {First(s)} \in SUBSET S /\ m \in Nat /\ m # 0
        /\ Cardinality(s \ {First(s)}) = m - 1
    BY <2>2, <2>4, FirstIsOne
  <2>6. m - 1 \in Nat /\ ~(m <= m - 1)
    BY <2>5
  <2>7. SumFunctionOnSet(fun, s \ {First(s)}) \in Nat
    BY <2>1, <2>5, <2>6
  <2>8. fun[First(s)] \in Nat
    BY <2>5
  <2> HIDE DEF Odd
  <2> QED BY <2>2, <2>3, <2>4, <2>7, <2>8
<1>2. Cardinality(S) \in Nat
  BY FS_CardinalityType
<1> QED BY <1>1, <1>2

\* Any element may be taken out first.
LEMMA SumTakesOut ==
  ASSUME NEW D, NEW fun \in [D -> Nat], NEW S \in SUBSET D, IsFiniteSet(S), NEW x \in S
  PROVE  SumFunctionOnSet(fun, S) = fun[x] + SumFunctionOnSet(fun, S \ {x})
<1> DEFINE Sum(s) == SumFunctionOnSet(fun, s)
           Odd == {n \in Nat : \E s \in SUBSET S : \E y \in s :
                     Cardinality(s) = n /\ Sum(s) # fun[y] + Sum(s \ {y})}
<1>0. \A s \in SUBSET S : IsFiniteSet(s) /\ Cardinality(s) \in Nat /\ Sum(s) \in Nat
  BY FS_Subset, FS_CardinalityType, SumIsNat
<1>00. \A s \in SUBSET S : s # {} => Sum(s) = fun[First(s)] + Sum(s \ {First(s)})
  BY <1>0, SumUnfolds
<1> HIDE DEF Sum
<1>1. Odd = {}
  <2> SUFFICES ASSUME Odd # {} PROVE FALSE
    OBVIOUS
  <2>0. Odd \in SUBSET Nat
    OBVIOUS
  <2>1. PICK m \in Odd : \A j \in Odd : m <= j
    <3> HIDE DEF Odd
    <3> QED BY <2>0, LeastOf
  <2>02. PICK s \in SUBSET S :
           \E y \in s : Cardinality(s) = m /\ Sum(s) # fun[y] + Sum(s \ {y})
    BY <2>1
  <2>2. PICK y \in s : Cardinality(s) = m /\ Sum(s) # fun[y] + Sum(s \ {y})
    BY <2>02
  <2> DEFINE c == First(s)
             both == s \ {c, y}
  <2>3. c \in s /\ m \in Nat /\ m # 0 /\ Cardinality(s \ {c}) = m - 1
    BY <2>2, FirstIsOne
  <2>4. Sum(s) = fun[c] + Sum(s \ {c})
    BY <1>00, <2>2
  <2>5. c # y
    BY <2>2, <2>4
  <2>6. /\ m - 1 \in Nat /\ ~(m <= m - 1)
        /\ Cardinality(s \ {y}) = m - 1
    BY <1>0, <2>2, <2>3, FS_RemoveElement
  <2>7. m - 1 \notin Odd
    BY <2>1, <2>6
  <2>8. Sum(s \ {c}) = fun[y] + Sum(both)
    <3>1. s \ {c} \in SUBSET S /\ y \in s \ {c} /\ (s \ {c}) \ {y} = both
      BY <2>2, <2>5
    <3> HIDE DEF both, c
    <3> QED BY <2>3, <2>6, <2>7, <3>1
  <2>9. Sum(s \ {y}) = fun[c] + Sum(both)
    <3>1. s \ {y} \in SUBSET S /\ c \in s \ {y} /\ (s \ {y}) \ {c} = both
      BY <2>2, <2>3, <2>5
    <3> HIDE DEF both, c
    <3> QED BY <2>6, <2>7, <3>1
  <2>10. Sum(both) \in Nat /\ fun[c] \in Nat /\ fun[y] \in Nat
    BY <1>0, <2>2, <2>3
  <2> HIDE DEF c, both, Odd
  <2> QED BY <2>2, <2>4, <2>8, <2>9, <2>10
<1> QED BY <1>0, <1>1 DEF Sum

(***************************************************************************)
(* Owner: the k-th of the counted things has an owner.                     *)
(***************************************************************************)
LEMMA OwnerIsOne ==
  ASSUME NEW n \in Nat, NEW counts \in [1..n -> Nat]
  PROVE  /\ Total(counts) \in Nat
         /\ \A k \in 1..Total(counts) : Owner(counts, k) \in 1..n
<1>1. \A i \in 0..n : UpTo(counts, i) \in Nat
  <2> SUFFICES ASSUME NEW i \in 0..n PROVE UpTo(counts, i) \in Nat
    OBVIOUS
  <2>1. 1..i \in SUBSET (1..n) /\ IsFiniteSet(1..i)
    BY FS_Interval
  <2> QED BY <2>1, SumIsNat DEF UpTo
<1>2. Total(counts) = UpTo(counts, n)
  BY DEF Total, UpTo, SumFunction
<1>3. UpTo(counts, 0) = 0
  <2>1. 1..0 = {}
    OBVIOUS
  <2> QED BY <2>1, SumUnfolds, FS_EmptySet DEF UpTo
<1>4. ASSUME NEW k \in 1..Total(counts) PROVE Owner(counts, k) \in 1..n
  <2> DEFINE Past == {i \in 0..n : k <= UpTo(counts, i)}
  <2>1. Past \in SUBSET Nat /\ n \in Past
    BY <1>1, <1>2
  <2>2. PICK i \in Past : \A j \in Past : i <= j
    <3> HIDE DEF Past
    <3> QED BY <2>1, LeastOf
  <2>3. i \in 0..n /\ k <= UpTo(counts, i) /\ i # 0
    BY <1>2, <1>3, <2>2
  <2>4. i - 1 \in 0..n /\ i - 1 \notin Past
    BY <2>2, <2>3
  <2>5. i \in 1..n /\ UpTo(counts, i - 1) < k
    BY <1>1, <1>2, <2>3, <2>4
  <2>6. \E j \in DOMAIN counts : UpTo(counts, j - 1) < k /\ k <= UpTo(counts, j)
    BY <2>3, <2>5
  <2> QED BY <2>6 DEF Owner
<1> QED BY <1>1, <1>2, <1>4

-----------------------------------------------------------------------------
(***************************************************************************)
(* The plan.                                                               *)
(***************************************************************************)
UniqueIn(P) == \A a, b \in P : a.key = b.key => a = b

\* An entry of a kind: how it is named, and the roles of its references.
Is(e, kind, prefixes, roles) ==
  /\ e.kind = kind
  /\ e.key = <<e.key[1], e.key[2]>> /\ e.key[1] \in prefixes /\ e.key[2] \in Nat
  /\ \A r \in e.refs : r[1] \in roles /\ r[2] # Panic
Just(e, role) == \E x : Refs(e, role) = {x}

Common ==
  /\ sc.service \in Services /\ step \in Nat
  /\ phase \in {"scenario", "refused"} => plan = {}
  /\ phase \notin {"scenario", "refused"} => scenarioOK(sc)
  /\ phase \notin {"panic", "invalid"} /\ ~Panicked(plan)
  /\ IsFiniteSet(plan) /\ UniqueIn(plan)
  /\ sc.service = "mix" => plan = {} /\ sc.shares \in [1..3 -> Int] /\ (phase = "generate" => step = 1)

CinderEntry(e) ==
  \/ /\ Is(e, "volume", {"vol"}, {"target"})
     /\ e.num >= 1 /\ \A t \in Refs(e, "target") : t[2] > e.num
  \/ /\ Is(e, "snapshot", {"snap"}, {"volume"}) /\ Just(e, "volume")
     /\ Refs(e, "volume") \subseteq Keys("volume")
CinderInv == sc.service = "cinder" =>
  /\ \A e \in plan : CinderEntry(e)
  /\ phase = "generate" /\ step = 1 => plan = {}
  /\ phase = "generate" /\ step = 2 => /\ \A e \in plan : e.kind = "volume"
                                       /\ Names("vol", sc.volumes) = Keys("volume")

GlanceEntry(e) ==
  /\ Is(e, "image", {"img"}, {})
  /\ e.num >= 1 /\ (e.flags \cap {"accept", "remove"} # {} => "shared" \in e.flags)
GlanceInv == sc.service = "glance" =>
  /\ \A e \in plan : GlanceEntry(e)
  /\ phase = "generate" /\ step = 1 => plan = {}

BarbicanEntry(e) ==
  \/ Is(e, "secret", {"sec"}, {}) /\ e.num >= 1
  \/ Is(e, "order", {"ord"}, {})
  \/ Is(e, "container", {"ctr"}, {"secret"}) /\ Refs(e, "secret") \subseteq Keys("secret")
BarbicanInv == sc.service = "barbican" =>
  /\ \A e \in plan : BarbicanEntry(e)
  /\ phase = "generate" /\ step = 1 => plan = {}
  /\ phase = "generate" /\ step = 2 => /\ \A e \in plan : e.kind # "container"
                                       /\ Names("sec", sc.secrets) = Keys("secret")

-----------------------------------------------------------------------------
LEMMA ScenarioOf ==
  ASSUME NEW s, scenarioOK(s)
  PROVE  /\ s.service = "neutron"  => neutronScenarioOK(s)
         /\ s.service = "cinder"   => cinderScenarioOK(s)
         /\ s.service = "nova"     => novaScenarioOK(s)
         /\ s.service = "glance"   => glanceScenarioOK(s)
         /\ s.service = "keystone" => keystoneScenarioOK(s)
         /\ s.service = "barbican" => barbicanScenarioOK(s)
         /\ s.service = "octavia"  => octaviaScenarioOK(s)
         /\ s.service = "mix"      => mixScenarioOK(s)
BY DEF scenarioOK

LEMMA RefsAre ==
  ASSUME NEW e, NEW role
  PROVE  \A t : t \in Refs(e, role) <=> \E r \in e.refs : r[1] = role /\ t = r[2]
BY DEF Refs

\* References by the way they are written.
LEMMA OneRef ==
  ASSUME NEW e, NEW role, NEW x, e.refs = {<<role, x>>}
  PROVE  Refs(e, role) = {x}
<1>1. x \in Refs(e, role)
  BY DEF Refs
<1>2. \A t \in Refs(e, role) : t = x
  BY RefsAre
<1> QED BY <1>1, <1>2

LEMMA SoleRef ==
  ASSUME NEW e, NEW role, NEW x, <<role, x>> \in e.refs,
         \A r \in e.refs : r[1] = role => r[2] = x
  PROVE  Refs(e, role) = {x}
<1>1. x \in Refs(e, role)
  BY RefsAre
<1>2. \A t \in Refs(e, role) : t = x
  BY RefsAre
<1> QED BY <1>1, <1>2

LEMMA NoRefs ==
  ASSUME NEW e, NEW role, \A r \in e.refs : r[1] # role
  PROVE  Refs(e, role) = {}
BY DEF Refs

LEMMA RefsOfOne ==
  ASSUME NEW e, NEW role, NEW S, e.refs = One(role, S)
  PROVE  Refs(e, role) = S
<1>1. \A r : r \in One(role, S) <=> \E x \in S : r = <<role, x>>
  BY DEF One
<1>2. \A t : t \in Refs(e, role) => t \in S
  BY <1>1, RefsAre
<1>3. ASSUME NEW t \in S PROVE t \in Refs(e, role)
  <2>1. <<role, t>> \in e.refs
    BY <1>1
  <2> QED BY <2>1, RefsAre
<1> QED BY <1>2, <1>3

LEMMA CountsAreNat == ASSUME NEW n, CountOK(n) PROVE n \in Nat
BY PlansAssumption DEF CountOK

LEMMA RangesAreNat ==
  ASSUME NEW r, validateRange(r)
  PROVE  r.lo \in Nat /\ r.hi \in Nat /\ randRange(r) \subseteq Nat /\ r.lo <= r.hi
BY PlansAssumption DEF validateRange, randRange

\* What Emit does to the bookkeeping.
LEMMA EmitKeeps ==
  ASSUME Common, phase = "generate", sc.service # "mix", NEW new, NEW next \in Nat,
         Emit(new, next), IsFiniteSet(new), UniqueIn(new),
         \A e \in plan, f \in new : e.key # f.key,
         \A e \in new : \A r \in e.refs : r[2] # Panic
  PROVE  /\ Common' /\ sc' = sc /\ plan' = plan \cup new
         /\ phase' \in {"exhausted", "generated", "generate"}
         /\ phase' = "generate" => step' = next /\ next # 0
<1>1. /\ sc' = sc /\ plan' = plan \cup new /\ step' = next
  BY DEF Emit
<1>2. IsFiniteSet(plan') /\ UniqueIn(plan')
  BY <1>1, FS_Union DEF Common, UniqueIn
<1>3. scenarioOK(sc')
  BY <1>1 DEF Common
<1>4. ~Panicked(plan')
  BY <1>1 DEF Common, Panicked
<1>5. /\ phase' \in {"exhausted", "generated", "generate"}
      /\ phase' = "generate" => step' = next /\ next # 0
  BY <1>4 DEF Emit
<1> QED BY <1>1, <1>2, <1>3, <1>4, <1>5 DEF Common

\* Entries made one for each member of a finite set.
LEMMA Numbered ==
  ASSUME NEW D, NEW S, IsFiniteSet(D)
  PROVE  \A f : /\ \A e \in S : \E k \in D : e = f[k]
                /\ \A j, k \in D : f[j].key = f[k].key => j = k
                => IsFiniteSet(S) /\ UniqueIn(S)
BY ImageIsFinite DEF UniqueIn

LEMMA PlainNames ==
  ASSUME NEW kind, NEW prefix, NEW n \in Nat
  PROVE  /\ IsFiniteSet(Plain(kind, prefix, n)) /\ UniqueIn(Plain(kind, prefix, n))
         /\ \A e \in Plain(kind, prefix, n) :
              /\ e.kind = kind /\ e.refs = {} /\ e.key = <<prefix, e.key[2]>>
              /\ e.key[2] \in 1..n
              /\ Is(e, kind, {prefix}, {})
         /\ \A k \in Names(prefix, n) : \E e \in Plain(kind, prefix, n) : e.key = k
<1> DEFINE f == [k \in 1..n |-> Entry(<<prefix, k>>, kind, {}, {}, 1)]
<1>1. Plain(kind, prefix, n) = {f[k] : k \in 1..n}
  BY DEF Plain, Names
<1>2. \A k \in 1..n : /\ f[k].key = <<prefix, k>> /\ f[k].kind = kind /\ f[k].refs = {}
                      /\ k \in Nat
  BY DEF Entry
<1>3. IsFiniteSet(1..n)
  BY FS_Interval
<1> HIDE DEF f
<1>40. \A j, k \in 1..n : f[j].key = f[k].key => j = k
  BY <1>2
<1>4. IsFiniteSet(Plain(kind, prefix, n)) /\ UniqueIn(Plain(kind, prefix, n))
  BY <1>1, <1>3, <1>40, Numbered
<1>5. \A k \in Names(prefix, n) : \E e \in Plain(kind, prefix, n) : e.key = k
  BY <1>1, <1>2 DEF Names
<1> QED BY <1>1, <1>2, <1>4, <1>5 DEF Is

LEMMA NamesCounted ==
  ASSUME NEW prefix, NEW n \in Nat
  PROVE  IsFiniteSet(Names(prefix, n)) /\ Cardinality(Names(prefix, n)) = n
<1> DEFINE f == [i \in 1..n |-> <<prefix, i>>]
<1>1. f \in Bijection(1..n, Names(prefix, n))
  BY DEF Bijection, Injection, Surjection, IsInjective, Names
<1>2. ExistsBijection(1..n, Names(prefix, n))
  BY <1>1 DEF ExistsBijection
<1> QED BY <1>2, FS_Interval, FS_Bijection

\* Names are as many as their entries.
LEMMA NamesUnique ==
  ASSUME Common, NEW kind
  PROVE  UniqueNames(kind)
<1> DEFINE f == [e \in Of(kind) |-> e.key]
<1>1. f \in Bijection(Of(kind), Keys(kind))
  BY DEF Bijection, Injection, Surjection, IsInjective, Keys, Of, Common, UniqueIn
<1>2. ExistsBijection(Of(kind), Keys(kind))
  BY <1>1 DEF ExistsBijection
<1>3. IsFiniteSet(Of(kind))
  BY FS_Subset DEF Common, Of
<1> QED BY <1>2, <1>3, FS_Bijection DEF UniqueNames

LEMMA PrefixOf ==
  ASSUME NEW k, NEW S, IsFiniteSet(S), NEW T \in permPrefix(k, S), k <= Cardinality(S), k \in Nat
  PROVE  T \subseteq S /\ Cardinality(T) = k
BY FS_CardinalityType DEF permPrefix, kSubset

-----------------------------------------------------------------------------
(***************************************************************************)
(* Cinder, Glance and Barbican.                                            *)
(***************************************************************************)
LEMMA CinderSteps ==
  ASSUME Common, CinderInv, CinderVolumes \/ CinderSnapshots
  PROVE  Common' /\ CinderInv' /\ sc' = sc
<1>1. /\ phase = "generate" /\ sc.service = "cinder" /\ sc.service # "mix"
      /\ sc.volumes \in Nat /\ validateRange(sc.snapshots)
      /\ validateRange(sc.size) /\ validateRange(sc.growth)
      /\ sc.volumes > 0 => sc.size.lo >= 1
      /\ sc.resizePct > 0 => sc.growth.lo >= 1
  <2>1. phase = "generate" /\ sc.service = "cinder"
    BY DEF CinderVolumes, CinderSnapshots, At
  <2>2. cinderScenarioOK(sc)
    BY <2>1, ScenarioOf DEF Common
  <2> QED BY <2>1, <2>2, CountsAreNat DEF cinderScenarioOK
<1>2. CASE CinderVolumes
  <2>1. PICK size \in [1..sc.volumes -> randRange(sc.size)],
             resize \in [1..sc.volumes -> Draw(sc.resizePct)],
             growth \in [1..sc.volumes -> randRange(sc.growth)] :
       Emit({Entry(<<"vol", i>>, "volume",
                   IF resize[i] THEN {<<"target", <<"gib", size[i] + growth[i]>>>>} ELSE {},
                   {}, size[i]) : i \in DOMAIN size}, 2)
    BY <1>2 DEF CinderVolumes
  <2> DEFINE f == [i \in 1..sc.volumes |-> Entry(<<"vol", i>>, "volume",
                   IF resize[i] THEN {<<"target", <<"gib", size[i] + growth[i]>>>>} ELSE {},
                   {}, size[i])]
             new == {f[i] : i \in 1..sc.volumes}
  <2>2. Emit(new, 2)
    BY <2>1
  <2>3. \A i \in 1..sc.volumes :
          f[i].key = <<"vol", i>> /\ f[i].kind = "volume" /\ f[i].num = size[i]
    BY DEF Entry
  <2>30. \A i \in 1..sc.volumes : \A r \in f[i].refs :
           resize[i] /\ r[1] = "target" /\ r[2] = <<"gib", size[i] + growth[i]>>
    BY DEF Entry
  <2>40. sc.volumes \in Nat
    BY <1>1
  <2>4. IsFiniteSet(1..sc.volumes)
    BY <2>40, FS_Interval
  <2> HIDE DEF f
  <2>50. \A i, j \in 1..sc.volumes : f[i].key = f[j].key => i = j
    BY <2>3
  <2>5. IsFiniteSet(new) /\ UniqueIn(new)
    BY <2>4, <2>50, Numbered
  <2>6. plan = {}
    BY <1>1, <1>2 DEF CinderInv, CinderVolumes, At
  <2>80. \A i \in 1..sc.volumes : Is(f[i], "volume", {"vol"}, {"target"})
    BY <2>3, <2>30 DEF Is, Panic
  <2>81. ASSUME NEW i \in 1..sc.volumes
         PROVE  f[i].num >= 1 /\ \A t \in Refs(f[i], "target") : t[2] > f[i].num
    <3>1. size[i] \in Nat /\ size[i] >= 1
      <4>1. sc.size.lo \in Nat /\ sc.size.hi \in Nat
        BY <1>1, RangesAreNat
      <4>2. sc.volumes \in Nat /\ sc.volumes > 0
        BY <1>1
      <4>3. sc.size.lo >= 1
        BY <1>1, <4>2
      <4>4. size[i] \in sc.size.lo..sc.size.hi
        BY DEF randRange
      <4> QED BY <4>1, <4>3, <4>4
    <3>2. ASSUME resize[i] PROVE growth[i] \in Nat /\ growth[i] >= 1
      BY <1>1, <3>2, RangesAreNat DEF randRange, Draw
    <3>3. \A t \in Refs(f[i], "target") : resize[i] /\ t = <<"gib", size[i] + growth[i]>>
      <4> SUFFICES ASSUME NEW t \in Refs(f[i], "target")
                   PROVE  resize[i] /\ t = <<"gib", size[i] + growth[i]>>
        OBVIOUS
      <4>1. PICK r \in f[i].refs : t = r[2]
        BY RefsAre
      <4> QED BY <2>30, <4>1
    <3> QED BY <2>3, <3>1, <3>2, <3>3
  <2>7. /\ Common' /\ sc' = sc /\ plan' = new
        /\ phase' = "generate" => step' = 2
    BY <1>1, <2>2, <2>5, <2>6, <2>80, EmitKeeps DEF Is
  <2>8. \A e \in plan' : CinderEntry(e)' /\ e.kind = "volume"
    BY <2>7, <2>80, <2>81 DEF CinderEntry, Is
  <2>9. Names("vol", sc.volumes) = Keys("volume")'
    <3>1. Of("volume")' = new
      BY <2>7, <2>8 DEF Of
    <3>2. Keys("volume")' = {e.key : e \in new}
      BY <3>1 DEF Keys
    <3>3. \A i \in 1..sc.volumes : <<"vol", i>> \in Keys("volume")'
      BY <2>3, <3>2
    <3>4. \A k \in Keys("volume")' : \E i \in 1..sc.volumes : k = <<"vol", i>>
      BY <2>3, <3>2
    <3> QED BY <3>3, <3>4 DEF Names
  <2> QED BY <2>7, <2>8, <2>9 DEF CinderInv
<1>3. CASE CinderSnapshots
  <2>1. PICK counts \in Counts(sc.volumes, sc.snapshots) :
       Emit({Entry(<<"snap", k>>, "snapshot", {<<"volume", <<"vol", Owner(counts, k)>>>>}, {}, 1) :
               k \in 1..Total(counts)}, 0)
    BY <1>3 DEF CinderSnapshots
  <2>0. counts \in [1..sc.volumes -> Nat]
    BY <1>1, RangesAreNat DEF Counts
  <2> DEFINE n == Total(counts)
             f == [k \in 1..n |->
                     Entry(<<"snap", k>>, "snapshot", {<<"volume", <<"vol", Owner(counts, k)>>>>}, {}, 1)]
             new == {f[i] : i \in 1..n}
  <2>2. Emit(new, 0)
    BY <2>1
  <2>3. \A i \in 1..n :
          /\ f[i].key = <<"snap", i>> /\ f[i].kind = "snapshot"
          /\ f[i].refs = {<<"volume", <<"vol", Owner(counts, i)>>>>}
          /\ \A r \in f[i].refs : r[1] = "volume" /\ r[2] = <<"vol", Owner(counts, i)>>
    BY DEF Entry
  <2>40. n \in Nat /\ \A i \in 1..n : Owner(counts, i) \in 1..sc.volumes
    BY <1>1, <2>0, OwnerIsOne
  <2>4. IsFiniteSet(1..n)
    BY <2>40, FS_Interval
  <2> HIDE DEF f, n
  <2>50. \A i, j \in 1..n : f[i].key = f[j].key => i = j
    BY <2>3
  <2>5. IsFiniteSet(new) /\ UniqueIn(new)
    BY <2>4, <2>50, Numbered
  <2>6. /\ \A e \in plan : e.kind = "volume" /\ CinderEntry(e)
        /\ Names("vol", sc.volumes) = Keys("volume")
    BY <1>1, <1>3 DEF CinderInv, CinderSnapshots, At
  <2>60. \A e \in plan, g \in new : e.key # g.key
    BY <2>3, <2>6 DEF CinderEntry, Is
  <2>80. \A i \in 1..n : i \in Nat
    BY <2>40
  <2>81. \A i \in 1..n : Is(f[i], "snapshot", {"snap"}, {"volume"})
    BY <2>3, <2>80 DEF Is, Panic
  <2>82. \A i \in 1..n : Just(f[i], "volume")
    <3>1. \A i \in 1..n : Refs(f[i], "volume") = {<<"vol", Owner(counts, i)>>}
      <4> SUFFICES ASSUME NEW i \in 1..n PROVE Refs(f[i], "volume") = {<<"vol", Owner(counts, i)>>}
        OBVIOUS
      <4>1. f[i].refs = {<<"volume", <<"vol", Owner(counts, i)>>>>}
        BY <2>3
      <4> DEFINE e == f[i]
                 t == <<"vol", Owner(counts, i)>>
      <4>2. e.refs = {<<"volume", t>>}
        BY <4>1
      <4> HIDE DEF e, t
      <4>3. Refs(e, "volume") = {t}
        BY <4>2, OneRef
      <4> QED BY <4>3 DEF e, t
    <3> QED BY <3>1 DEF Just
  <2>83. \A i \in 1..n : Refs(f[i], "volume") \subseteq Keys("volume")
    BY <2>3, <2>40, <2>6 DEF Refs, Names
  <2>7. /\ Common' /\ sc' = sc /\ plan' = plan \cup new
        /\ phase' # "generate"
    BY <1>1, <2>2, <2>5, <2>60, <2>81, EmitKeeps DEF Is
  <2>8. Keys("volume") \subseteq Keys("volume")'
    BY <2>7 DEF Keys, Of
  <2>9. \A e \in plan' : CinderEntry(e)'
    BY <2>6, <2>7, <2>8, <2>81, <2>82, <2>83 DEF CinderEntry
  <2> QED BY <2>7, <2>9 DEF CinderInv
<1> QED BY <1>2, <1>3

LEMMA CinderPlans == ASSUME Common, CinderInv, sc.service = "cinder" PROVE cinderPlanOK
BY DEF CinderInv, cinderPlanOK, CinderEntry, Is, Of, Resolves

LEMMA GlanceSteps ==
  ASSUME Common, GlanceInv, GlanceImages
  PROVE  Common' /\ GlanceInv' /\ sc' = sc
<1>1. /\ phase = "generate" /\ sc.service = "glance" /\ sc.service # "mix" /\ plan = {}
      /\ sc.images \in Nat /\ validateRange(sc.size)
      /\ sc.images > 0 => sc.size.lo >= 1
  <2>1. phase = "generate" /\ sc.service = "glance" /\ step = 1
    BY DEF GlanceImages, At
  <2>2. glanceScenarioOK(sc)
    BY <2>1, ScenarioOf DEF Common
  <2> QED BY <2>1, <2>2, CountsAreNat DEF glanceScenarioOK, GlanceInv
<1>2. PICK flags \in [1..sc.images -> FlagDraws(sc.pct, ImageNeeds)],
           size \in [1..sc.images -> randRange(sc.size)] :
       Emit({Entry(<<"img", i>>, "image", {}, flags[i], size[i]) : i \in DOMAIN flags}, 0)
  BY DEF GlanceImages
<1> DEFINE f == [i \in 1..sc.images |-> Entry(<<"img", i>>, "image", {}, flags[i], size[i])]
           new == {f[i] : i \in 1..sc.images}
<1>3. Emit(new, 0)
  BY <1>2
<1>4. \A i \in 1..sc.images : /\ f[i].key = <<"img", i>> /\ f[i].kind = "image"
                              /\ f[i].num = size[i] /\ f[i].flags = flags[i] /\ f[i].refs = {}
  BY DEF Entry
<1>5. IsFiniteSet(1..sc.images)
  BY <1>1, FS_Interval
<1> HIDE DEF f
<1>6. \A i, j \in 1..sc.images : f[i].key = f[j].key => i = j
  BY <1>4
<1>7. IsFiniteSet(new) /\ UniqueIn(new)
  BY <1>5, <1>6, Numbered
<1>8. \A i \in 1..sc.images : Is(f[i], "image", {"img"}, {})
  BY <1>4 DEF Is
<1>9. ASSUME NEW i \in 1..sc.images
      PROVE  f[i].num >= 1 /\ (f[i].flags \cap {"accept", "remove"} # {} => "shared" \in f[i].flags)
  <2>1. size[i] >= 1
    BY <1>1, RangesAreNat DEF randRange
  <2>2. ASSUME NEW x \in flags[i], x \in {"accept", "remove"} PROVE "shared" \in flags[i]
    <3>1. ImageNeeds[x] = {"shared"}
      BY <2>2 DEF ImageNeeds, ImageFlags
    <3>2. ImageNeeds[x] \subseteq flags[i]
      BY DEF FlagDraws
    <3> QED BY <3>1, <3>2
  <2> QED BY <1>4, <2>1, <2>2
<1>10. /\ Common' /\ sc' = sc /\ plan' = new /\ phase' # "generate"
  BY <1>1, <1>3, <1>7, <1>8, EmitKeeps DEF Is
<1> QED BY <1>8, <1>9, <1>10 DEF GlanceInv, GlanceEntry

LEMMA GlancePlans == ASSUME Common, GlanceInv, sc.service = "glance" PROVE glancePlanOK
BY NamesUnique DEF GlanceInv, glancePlanOK, GlanceEntry, Of

LEMMA KeysAre ==
  ASSUME NEW kind
  PROVE  \A k : k \in Keys(kind) <=> \E e \in plan : e.kind = kind /\ e.key = k
BY DEF Keys, Of

LEMMA KeysGrow ==
  ASSUME plan \subseteq plan', NEW kind
  PROVE  Keys(kind) \subseteq Keys(kind)'
BY DEF Keys, Of

LEMMA BothUnique ==
  ASSUME NEW P, NEW Q, IsFiniteSet(P), IsFiniteSet(Q), UniqueIn(P), UniqueIn(Q),
         \A a \in P, b \in Q : a.key # b.key
  PROVE  IsFiniteSet(P \cup Q) /\ UniqueIn(P \cup Q)
BY FS_Union DEF UniqueIn

LEMMA BarbicanSecretsStep ==
  ASSUME Common, BarbicanInv, BarbicanSecrets
  PROVE  Common' /\ BarbicanInv' /\ sc' = sc
<1>1. /\ phase = "generate" /\ sc.service = "barbican" /\ sc.service # "mix" /\ plan = {}
      /\ sc.secrets \in Nat /\ sc.orders \in Nat /\ validateRange(sc.size)
      /\ sc.secrets > 0 => sc.size.lo >= 1
  <2>1. phase = "generate" /\ sc.service = "barbican" /\ step = 1
    BY DEF BarbicanSecrets, At
  <2>2. barbicanScenarioOK(sc)
    BY <2>1, ScenarioOf DEF Common
  <2> QED BY <2>1, <2>2, CountsAreNat DEF barbicanScenarioOK, BarbicanInv
<1>2. PICK retrieve \in [1..sc.secrets -> Draw(sc.retrievePct)],
           size \in [1..sc.secrets -> randRange(sc.size)] :
       Emit({Entry(<<"sec", i>>, "secret", {}, IF retrieve[i] THEN {"retrieve"} ELSE {}, size[i]) :
               i \in DOMAIN retrieve} \cup Plain("order", "ord", sc.orders), 2)
  BY DEF BarbicanSecrets
<1> DEFINE f == [i \in 1..sc.secrets |->
                   Entry(<<"sec", i>>, "secret", {}, IF retrieve[i] THEN {"retrieve"} ELSE {}, size[i])]
           some == {f[i] : i \in 1..sc.secrets}
           orders == Plain("order", "ord", sc.orders)
           new == some \cup orders
<1>3. Emit(new, 2)
  BY <1>2
<1>4. \A i \in 1..sc.secrets : /\ f[i].key = <<"sec", i>> /\ f[i].kind = "secret"
                               /\ f[i].num = size[i] /\ f[i].refs = {}
  BY DEF Entry
<1>40. sc.secrets \in Nat /\ sc.orders \in Nat
  BY <1>1
<1>5. IsFiniteSet(1..sc.secrets)
  BY <1>40, FS_Interval
<1> HIDE DEF f
<1>6. \A i, j \in 1..sc.secrets : f[i].key = f[j].key => i = j
  BY <1>4
<1>7. IsFiniteSet(some) /\ UniqueIn(some)
  BY <1>5, <1>6, Numbered
<1>8. \A e \in some : Is(e, "secret", {"sec"}, {}) /\ e.num >= 1
  <2>1. \A i \in 1..sc.secrets : Is(f[i], "secret", {"sec"}, {})
    BY <1>4 DEF Is
  <2>2. \A i \in 1..sc.secrets : size[i] >= 1
    BY <1>1, RangesAreNat DEF randRange
  <2> QED BY <1>4, <2>1, <2>2
<1>9. IsFiniteSet(orders) /\ UniqueIn(orders) /\ \A e \in orders : Is(e, "order", {"ord"}, {})
  BY <1>40, PlainNames
<1> HIDE DEF some, orders
<1>10. IsFiniteSet(new) /\ UniqueIn(new)
  <2>1. \A a \in some, b \in orders : a.key # b.key
    BY <1>8, <1>9 DEF Is
  <2> QED BY <1>7, <1>9, <2>1, BothUnique
<1>11. /\ Common' /\ sc' = sc /\ plan' = new
       /\ phase' = "generate" => step' = 2
  <2>1. \A e \in new : \A r \in e.refs : r[2] # Panic
    BY <1>8, <1>9 DEF Is
  <2> QED BY <1>1, <1>3, <1>10, <2>1, EmitKeeps
<1>12. Names("sec", sc.secrets) = Keys("secret")'
  <2>1. \A k : k \in Keys("secret")' <=> \E e \in new : e.kind = "secret" /\ e.key = k
    BY <1>11 DEF Keys, Of
  <2>2. \A k : k \in Keys("secret")' <=> \E e \in some : e.key = k
    BY <1>8, <1>9, <2>1 DEF Is
  <2>3. \A i \in 1..sc.secrets : <<"sec", i>> \in Keys("secret")'
    <3> SUFFICES ASSUME NEW i \in 1..sc.secrets PROVE <<"sec", i>> \in Keys("secret")'
      OBVIOUS
    <3>1. f[i] \in some /\ f[i].key = <<"sec", i>>
      BY <1>4 DEF some
    <3> QED BY <2>2, <3>1
  <2>4. \A k \in Keys("secret")' : \E i \in 1..sc.secrets : k = <<"sec", i>>
    <3> SUFFICES ASSUME NEW k \in Keys("secret")' PROVE \E i \in 1..sc.secrets : k = <<"sec", i>>
      OBVIOUS
    <3>1. PICK e \in some : e.key = k
      BY <2>2
    <3>2. PICK i \in 1..sc.secrets : e = f[i]
      BY DEF some
    <3> QED BY <1>4, <3>1, <3>2
  <2> QED BY <2>3, <2>4 DEF Names
<1>13. \A e \in plan' : BarbicanEntry(e)' /\ e.kind # "container"
  BY <1>8, <1>9, <1>11 DEF BarbicanEntry, Is
<1> QED BY <1>11, <1>12, <1>13 DEF BarbicanInv

LEMMA BarbicanContainersStep ==
  ASSUME Common, BarbicanInv, BarbicanContainers
  PROVE  Common' /\ BarbicanInv' /\ sc' = sc
<1>1. /\ phase = "generate" /\ sc.service = "barbican" /\ sc.service # "mix"
      /\ sc.secrets \in Nat /\ sc.containers \in Nat /\ validateRange(sc.perContainer)
      /\ sc.containers > 0 => sc.perContainer.hi <= sc.secrets
      /\ \A e \in plan : BarbicanEntry(e) /\ e.kind # "container"
      /\ Names("sec", sc.secrets) = Keys("secret")
  <2>1. phase = "generate" /\ sc.service = "barbican" /\ step = 2
    BY DEF BarbicanContainers, At
  <2>2. barbicanScenarioOK(sc)
    BY <2>1, ScenarioOf DEF Common
  <2> QED BY <2>1, <2>2, CountsAreNat DEF barbicanScenarioOK, BarbicanInv
<1>2. PICK refs \in [1..sc.containers ->
                       UNION {permPrefix(k, Keys("secret")) : k \in randRange(sc.perContainer)}] :
       Emit({Entry(<<"ctr", i>>, "container", One("secret", refs[i]), {}, 1) : i \in DOMAIN refs}, 0)
  BY DEF BarbicanContainers
<1> DEFINE f == [i \in 1..sc.containers |->
                   Entry(<<"ctr", i>>, "container", One("secret", refs[i]), {}, 1)]
           new == {f[i] : i \in 1..sc.containers}
<1>3. Emit(new, 0)
  BY <1>2
<1>4. \A i \in 1..sc.containers : /\ f[i].key = <<"ctr", i>> /\ f[i].kind = "container"
                                  /\ f[i].refs = One("secret", refs[i])
  BY DEF Entry
<1>40. sc.containers \in Nat
  BY <1>1
<1>5. IsFiniteSet(1..sc.containers)
  BY <1>40, FS_Interval
<1>6. ASSUME NEW i \in 1..sc.containers PROVE refs[i] \subseteq Keys("secret")
  <2>1. PICK k \in randRange(sc.perContainer) : refs[i] \in permPrefix(k, Keys("secret"))
    OBVIOUS
  <2>2. IsFiniteSet(Keys("secret")) /\ Cardinality(Keys("secret")) = sc.secrets
    BY <1>1, NamesCounted
  <2>3. k \in Nat /\ k <= sc.secrets
    BY <1>1, RangesAreNat DEF randRange
  <2> QED BY <2>1, <2>2, <2>3, PrefixOf
<1> HIDE DEF f
<1>7. \A i, j \in 1..sc.containers : f[i].key = f[j].key => i = j
  BY <1>4
<1>8. IsFiniteSet(new) /\ UniqueIn(new)
  BY <1>5, <1>7, Numbered
<1>9. ASSUME NEW e \in new
      PROVE  /\ Is(e, "container", {"ctr"}, {"secret"})
             /\ Refs(e, "secret") \subseteq Keys("secret")
  <2>1. PICK i \in 1..sc.containers : e = f[i]
    OBVIOUS
  <2>2. \A r \in e.refs : r[1] = "secret" /\ r[2] \in Keys("secret")
    BY <1>4, <1>6, <2>1 DEF One
  <2>3. \A k \in Keys("secret") : k # Panic
    BY <1>1 DEF Names, Panic
  <2>4. Refs(e, "secret") \subseteq Keys("secret")
    BY <2>2, RefsAre
  <2> QED BY <1>4, <2>1, <2>2, <2>3, <2>4 DEF Is
<1>10. \A a \in plan, b \in new : a.key # b.key
  BY <1>1, <1>9 DEF BarbicanEntry, Is
<1>11. Common' /\ sc' = sc /\ plan' = plan \cup new /\ phase' # "generate"
  <2>1. \A e \in new : \A r \in e.refs : r[2] # Panic
    BY <1>9 DEF Is
  <2> QED BY <1>1, <1>3, <1>8, <1>10, <2>1, EmitKeeps
<1>12. Keys("secret") \subseteq Keys("secret")'
  BY <1>11, KeysGrow
<1>13. \A e \in plan' : BarbicanEntry(e)'
  BY <1>1, <1>9, <1>11, <1>12 DEF BarbicanEntry
<1> QED BY <1>11, <1>13 DEF BarbicanInv

LEMMA BarbicanPlans == ASSUME Common, BarbicanInv, sc.service = "barbican" PROVE barbicanPlanOK
BY NamesUnique DEF BarbicanInv, barbicanPlanOK, BarbicanEntry, Is, Of, Resolves

-----------------------------------------------------------------------------
(***************************************************************************)
(* Entries numbered on from those of their kind.                           *)
(***************************************************************************)
LEMMA NumberedOn ==
  ASSUME NEW c \in Nat, NEW n \in Nat, NEW S
  PROVE  \A f : /\ \A e \in S : \E i \in 1..n : e = f[i]
                /\ \A i \in 1..n : f[i] \in S /\ f[i].key[2] = c + i
                => IsFiniteSet(S) /\ UniqueIn(S) /\ Cardinality(S) = n
<1> SUFFICES ASSUME NEW f, \A e \in S : \E i \in 1..n : e = f[i],
                    \A i \in 1..n : f[i] \in S /\ f[i].key[2] = c + i
             PROVE  IsFiniteSet(S) /\ UniqueIn(S) /\ Cardinality(S) = n
  OBVIOUS
<1>1. \A i, j \in 1..n : f[i].key = f[j].key => i = j
  OBVIOUS
<1>2. IsFiniteSet(1..n) /\ Cardinality(1..n) = n
  BY FS_Interval
<1> DEFINE g == [i \in 1..n |-> f[i]]
<1>3. g \in Bijection(1..n, S)
  BY <1>1 DEF Bijection, Injection, Surjection, IsInjective
<1>4. ExistsBijection(1..n, S)
  BY <1>3 DEF ExistsBijection
<1> QED BY <1>1, <1>2, <1>4, FS_Bijection, Numbered

LEMMA PlainKeys ==
  ASSUME NEW kind, NEW prefix, NEW n
  PROVE  \A k \in Names(prefix, n) : \E e \in Plain(kind, prefix, n) : e.key = k
<1> SUFFICES ASSUME NEW k \in Names(prefix, n) PROVE \E e \in Plain(kind, prefix, n) : e.key = k
  OBVIOUS
<1>1. Entry(k, kind, {}, {}, 1) \in Plain(kind, prefix, n) /\ Entry(k, kind, {}, {}, 1).key = k
  BY DEF Plain, Entry
<1> QED BY <1>1

LEMMA KindGrows ==
  ASSUME IsFiniteSet(plan), NEW kind, NEW S, IsFiniteSet(S), Of(kind)' = Of(kind) \cup S,
         Of(kind) \cap S = {}
  PROVE  Cardinality(Of(kind)') = Cardinality(Of(kind)) + Cardinality(S)
<1>1. IsFiniteSet(Of(kind))
  BY FS_Subset DEF Of
<1>2. Cardinality({}) = 0 /\ Cardinality(Of(kind)) \in Nat /\ Cardinality(S) \in Nat
  BY <1>1, FS_EmptySet, FS_CardinalityType
<1>3. Cardinality(Of(kind) \cup S) =
        Cardinality(Of(kind)) + Cardinality(S) - Cardinality(Of(kind) \cap S)
  BY <1>1, FS_Union
<1>4. Cardinality(Of(kind) \cap S) = 0
  BY <1>2
<1> QED BY <1>2, <1>3, <1>4

LEMMA OneIsUnique ==
  ASSUME NEW e
  PROVE  IsFiniteSet({e}) /\ UniqueIn({e})
BY FS_Singleton DEF UniqueIn

-----------------------------------------------------------------------------
(***************************************************************************)
(* Nova.                                                                   *)
(***************************************************************************)
IsEntry(e) == e = Entry(e.key, e.kind, e.refs, e.flags, e.num)
NovaServerEntry(e) ==
  /\ IsEntry(e)
  /\ Is(e, "server", {"srv"}, {"network", "group"})
  /\ Refs(e, "network") # {} /\ Refs(e, "network") \subseteq Keys("network")
  /\ Refs(e, "group") \subseteq Keys("servergroup")
  /\ "boot" \in e.flags => e.num >= 1
  /\ "resize" \in e.flags => sc.resizeFlavor
NovaVolumeEntry(e) ==
  /\ Is(e, "volume", {"vol"}, {"server"}) /\ Just(e, "server") /\ e.num >= 1
  /\ Refs(e, "server") \subseteq Keys("server")
NovaPortEntry(e) ==
  /\ Is(e, "port", {"port"}, {"server", "network"}) /\ Just(e, "server")
  /\ Refs(e, "server") \subseteq Keys("server") /\ Refs(e, "network") \subseteq Keys("network")
  /\ \A s \in Of("server") : s.key \in Refs(e, "server") => Refs(e, "network") \subseteq Refs(s, "network")
NovaEntry(e) ==
  \/ Is(e, "network", {"net"}, {}) \/ Is(e, "servergroup", {"grp"}, {})
  \/ NovaServerEntry(e) \/ NovaVolumeEntry(e) \/ NovaPortEntry(e)

NovaGenerates ==
  /\ step = 1 => plan = {}
  /\ step # 1 => Names("net", sc.networks) = Keys("network")
  /\ \A e \in plan : /\ e.kind = "server" => e.key[2] < step - 1
                     /\ e.kind \in {"volume", "port"} => e.key[2] <= Cardinality(Of(e.kind))
                     /\ e.kind # "servergroup"
                     /\ sc.persona = "gardener" => e.kind # "port"
NovaInv == sc.service = "nova" =>
  /\ \A e \in plan : NovaEntry(e)
  /\ sc.persona = "gardener" => sc.networks \in Nat \ {0} /\ sc.ports.hi = 0
  /\ phase = "generate" => NovaGenerates

LEMMA NovaScenario ==
  ASSUME Common, sc.service = "nova", phase = "generate"
  PROVE  /\ sc.servers \in Nat /\ sc.networks \in Nat
         /\ validateRange(sc.perServer) /\ validateRange(sc.volumes) /\ validateRange(sc.ports)
         /\ validateRange(sc.size) /\ validateRange(sc.root)
         /\ sc.servers > 0 => sc.perServer.lo >= 1 /\ sc.perServer.hi <= sc.networks
         /\ sc.pct["resize"] > 0 => sc.resizeFlavor
         /\ sc.pct["boot"] > 0 => sc.root.lo >= 1
         /\ sc.volumes.hi > 0 => sc.size.lo >= 1
<1>1. novaScenarioOK(sc)
  BY ScenarioOf DEF Common
<1> QED BY <1>1, CountsAreNat DEF novaScenarioOK, novaCounts

LEMMA NovaNetworksStep ==
  ASSUME Common, NovaInv, NovaNetworks
  PROVE  Common' /\ NovaInv' /\ sc' = sc
<1>1. /\ phase = "generate" /\ sc.service = "nova" /\ sc.service # "mix" /\ step = 1
  BY DEF NovaNetworks, At
<1>2. plan = {} /\ sc.servers \in Nat /\ sc.networks \in Nat
  BY <1>1, NovaScenario DEF NovaInv, NovaGenerates
<1> DEFINE new == Plain("network", "net", sc.networks)
           next == IF sc.servers = 0 THEN 0 ELSE 2
<1>3. Emit(new, next) /\ next \in Nat
  BY DEF NovaNetworks
<1> HIDE DEF next
<1>4. /\ IsFiniteSet(new) /\ UniqueIn(new)
      /\ \A e \in new : Is(e, "network", {"net"}, {}) /\ e.refs = {} /\ e.key[2] \in 1..sc.networks
      /\ \A k \in Names("net", sc.networks) : \E e \in new : e.key = k
  <2>1. sc.networks \in Nat
    BY <1>2
  <2>2. IsFiniteSet(new) /\ UniqueIn(new)
    BY <2>1, PlainNames
  <2>3. \A e \in new : Is(e, "network", {"net"}, {}) /\ e.refs = {} /\ e.key[2] \in 1..sc.networks
    BY <2>1, PlainNames
  <2>4. \A k \in Names("net", sc.networks) : \E e \in new : e.key = k
    BY <2>1, PlainKeys
  <2> QED BY <2>2, <2>3, <2>4
<1> HIDE DEF new
<1>5. /\ Common' /\ sc' = sc /\ plan' = new
      /\ phase' = "generate" => step' = next /\ next # 0
  BY <1>1, <1>2, <1>3, <1>4, EmitKeeps
<1>6. Names("net", sc.networks) = Keys("network")'
  <2>1. \A k : k \in Keys("network")' <=> \E e \in new : e.key = k
    BY <1>4, <1>5 DEF Keys, Of, Is
  <2>2. ASSUME NEW k \in Keys("network")' PROVE k \in Names("net", sc.networks)
    <3>1. PICK e \in new : e.key = k
      BY <2>1
    <3>2. k = <<"net", k[2]>> /\ k[2] \in 1..sc.networks
      BY <1>4, <3>1 DEF Is
    <3> QED BY <3>2 DEF Names
  <2> QED BY <1>4, <2>1, <2>2
<1>7. \A e \in plan' : NovaEntry(e)' /\ e.kind = "network"
  BY <1>4, <1>5 DEF NovaEntry, Is
<1>8. phase' = "generate" => step' # 1
  BY <1>5 DEF next
<1> QED BY <1>5, <1>6, <1>7, <1>8 DEF NovaInv, NovaGenerates

LEMMA NovaServerStep ==
  ASSUME Common, NovaInv, NovaServer
  PROVE  Common' /\ NovaInv' /\ sc' = sc
<1>1. /\ phase = "generate" /\ sc.service = "nova" /\ sc.service # "mix" /\ step # 1
      /\ step \in Nat /\ step - 1 \in Nat /\ step \in 2..(sc.servers + 1)
  <2>1. phase = "generate" /\ sc.service = "nova" /\ step \in 2..(sc.servers + 1)
    BY DEF NovaServer
  <2>2. step \in Nat
    BY DEF Common
  <2> QED BY <2>1, <2>2
<1>2. /\ sc.servers \in Nat /\ sc.servers > 0 /\ sc.networks \in Nat
      /\ validateRange(sc.perServer) /\ validateRange(sc.volumes) /\ validateRange(sc.ports)
      /\ validateRange(sc.size) /\ validateRange(sc.root)
      /\ sc.perServer.lo >= 1 /\ sc.perServer.hi <= sc.networks
      /\ sc.pct["resize"] > 0 => sc.resizeFlavor
      /\ sc.pct["boot"] > 0 => sc.root.lo >= 1
      /\ sc.volumes.hi > 0 => sc.size.lo >= 1
  <2>1. sc.servers \in Nat
    BY <1>1, NovaScenario
  <2>2. sc.servers > 0
    BY <1>1, <2>1
  <2> QED BY <1>1, <2>1, <2>2, NovaScenario
<1>3. /\ \A e \in plan : NovaEntry(e)
      /\ NovaGenerates /\ Names("net", sc.networks) = Keys("network")
      /\ sc.persona = "gardener" => sc.networks \in Nat \ {0} /\ sc.ports.hi = 0
  BY <1>1 DEF NovaInv, NovaGenerates
<1> DEFINE srv == <<"srv", step - 1>>
           vols == Cardinality(Of("volume"))
           ports == Cardinality(Of("port"))
           detach(b) == IF b THEN {"detach"} ELSE {}
           next == IF step <= sc.servers \/ sc.persona \in {"gardener", "legacy"} THEN step + 1 ELSE 0
<1>4. PICK flags \in FlagDraws(sc.pct, NovaNeeds),
           nets \in UNION {permPrefix(k, Keys("network")) : k \in randRange(sc.perServer)} :
        \E root \in IF "boot" \in flags THEN randRange(sc.root) ELSE {0} :
        \E v \in randRange(sc.volumes) : \E p \in randRange(sc.ports) :
        \E size \in [1..v -> randRange(sc.size)] :
        \E vdetach \in [1..v -> Draw(sc.volumeDetach)] :
        \E on \in [1..p -> Pick(nets)] : \E pdetach \in [1..p -> Draw(sc.portDetach)] :
          Emit({Entry(srv, "server", One("network", nets), flags, root)}
               \cup {Entry(<<"vol", vols + i>>, "volume", {<<"server", srv>>},
                           detach(vdetach[i]), size[i]) : i \in 1..v}
               \cup {Entry(<<"port", ports + i>>, "port", {<<"server", srv>>, <<"network", on[i]>>},
                           detach(pdetach[i]), 1) : i \in 1..p}, next)
  BY DEF NovaServer
<1>40. PICK root \in IF "boot" \in flags THEN randRange(sc.root) ELSE {0},
            v \in randRange(sc.volumes), p \in randRange(sc.ports) :
        \E size \in [1..v -> randRange(sc.size)] :
        \E vdetach \in [1..v -> Draw(sc.volumeDetach)] :
        \E on \in [1..p -> Pick(nets)] : \E pdetach \in [1..p -> Draw(sc.portDetach)] :
          Emit({Entry(srv, "server", One("network", nets), flags, root)}
               \cup {Entry(<<"vol", vols + i>>, "volume", {<<"server", srv>>},
                           detach(vdetach[i]), size[i]) : i \in 1..v}
               \cup {Entry(<<"port", ports + i>>, "port", {<<"server", srv>>, <<"network", on[i]>>},
                           detach(pdetach[i]), 1) : i \in 1..p}, next)
  BY <1>4
<1>5. PICK size \in [1..v -> randRange(sc.size)],
           vdetach \in [1..v -> Draw(sc.volumeDetach)],
           on \in [1..p -> Pick(nets)], pdetach \in [1..p -> Draw(sc.portDetach)] :
          Emit({Entry(srv, "server", One("network", nets), flags, root)}
               \cup {Entry(<<"vol", vols + i>>, "volume", {<<"server", srv>>},
                           detach(vdetach[i]), size[i]) : i \in 1..v}
               \cup {Entry(<<"port", ports + i>>, "port", {<<"server", srv>>, <<"network", on[i]>>},
                           detach(pdetach[i]), 1) : i \in 1..p}, next)
  BY <1>40
<1> DEFINE server == Entry(srv, "server", One("network", nets), flags, root)
           f == [i \in 1..v |-> Entry(<<"vol", vols + i>>, "volume", {<<"server", srv>>},
                                     detach(vdetach[i]), size[i])]
           g == [i \in 1..p |-> Entry(<<"port", ports + i>>, "port",
                                     {<<"server", srv>>, <<"network", on[i]>>}, detach(pdetach[i]), 1)]
           newVols == {f[i] : i \in 1..v}
           newPorts == {g[i] : i \in 1..p}
           new == {server} \cup newVols \cup newPorts
<1>6. Emit(new, next) /\ next \in Nat
  <2>1. next \in Nat
    BY <1>1
  <2>2. Emit(new, next)
    BY <1>5
  <2> QED BY <2>1, <2>2
<1>7. /\ server.key = srv /\ server.kind = "server" /\ server.refs = One("network", nets)
      /\ server.flags = flags /\ server.num = root
  BY DEF Entry
<1>70. IsEntry(server)
  BY DEF IsEntry, Entry
<1>8. \A i \in 1..v : /\ f[i] \in newVols /\ f[i].key = <<"vol", vols + i>> /\ f[i].kind = "volume"
                      /\ f[i].refs = {<<"server", srv>>} /\ f[i].num = size[i]
  BY DEF Entry
<1>9. \A i \in 1..p : /\ g[i] \in newPorts /\ g[i].key = <<"port", ports + i>> /\ g[i].kind = "port"
                      /\ g[i].refs = {<<"server", srv>>, <<"network", on[i]>>}
  BY DEF Entry
<1>10. v \in Nat /\ p \in Nat /\ vols \in Nat /\ ports \in Nat
       /\ v <= sc.volumes.hi /\ p <= sc.ports.hi
  <2>1. IsFiniteSet(Of("volume")) /\ IsFiniteSet(Of("port"))
    BY FS_Subset DEF Common, Of
  <2>2. vols \in Nat /\ ports \in Nat
    BY <2>1, FS_CardinalityType
  <2>3. v \in Nat /\ v <= sc.volumes.hi
    <3>1. sc.volumes.lo \in Nat /\ sc.volumes.hi \in Nat
      BY <1>2, RangesAreNat
    <3> QED BY <3>1 DEF randRange
  <2>4. p \in Nat /\ p <= sc.ports.hi
    <3>1. sc.ports.lo \in Nat /\ sc.ports.hi \in Nat
      BY <1>2, RangesAreNat
    <3> QED BY <3>1 DEF randRange
  <2> QED BY <2>2, <2>3, <2>4
<1>11. nets \subseteq Keys("network") /\ nets # {}
  <2>1. PICK k \in randRange(sc.perServer) : nets \in permPrefix(k, Keys("network"))
    OBVIOUS
  <2>2. IsFiniteSet(Keys("network")) /\ Cardinality(Keys("network")) = sc.networks
    <3>1. sc.networks \in Nat
      BY <1>2
    <3> QED BY <1>3, <3>1, NamesCounted
  <2>3. k \in Nat /\ k >= 1 /\ k <= sc.networks
    BY <1>2, RangesAreNat DEF randRange
  <2>4. nets \subseteq Keys("network") /\ Cardinality(nets) = k
    BY <2>1, <2>2, <2>3, PrefixOf
  <2>5. Cardinality({}) = 0
    BY FS_EmptySet
  <2>6. nets # {}
    <3> SUFFICES ASSUME nets = {} PROVE FALSE
      OBVIOUS
    <3>1. Cardinality(nets) = 0
      BY <2>5
    <3> QED BY <2>3, <2>4, <3>1
  <2> QED BY <2>4, <2>6
<1>12. \A i \in 1..p : on[i] \in nets
  BY <1>11 DEF Pick
<1>13. \A k \in Keys("network") : k # Panic
  BY <1>3 DEF Names, Panic
<1> HIDE DEF server, f, g, next
<1>14. /\ IsFiniteSet(newVols) /\ UniqueIn(newVols) /\ Cardinality(newVols) = v
       /\ IsFiniteSet(newPorts) /\ UniqueIn(newPorts) /\ Cardinality(newPorts) = p
  <2>1. v \in Nat /\ p \in Nat /\ vols \in Nat /\ ports \in Nat
    BY <1>10
  <2>2. /\ \A e \in newVols : \E i \in 1..v : e = f[i]
        /\ \A i \in 1..v : f[i] \in newVols /\ f[i].key = <<"vol", vols + i>>
    BY <1>8
  <2>3. /\ \A e \in newPorts : \E i \in 1..p : e = g[i]
        /\ \A i \in 1..p : g[i] \in newPorts /\ g[i].key = <<"port", ports + i>>
    BY <1>9
  <2> HIDE DEF newVols, newPorts, vols, ports
  <2>4. IsFiniteSet(newVols) /\ UniqueIn(newVols) /\ Cardinality(newVols) = v
    <3>1. \A h : /\ \A e \in newVols : \E i \in 1..v : e = h[i]
                 /\ \A i \in 1..v : h[i] \in newVols /\ h[i].key[2] = vols + i
                 => IsFiniteSet(newVols) /\ UniqueIn(newVols) /\ Cardinality(newVols) = v
      BY <2>1, NumberedOn
    <3> QED BY <2>2, <3>1
  <2>5. IsFiniteSet(newPorts) /\ UniqueIn(newPorts) /\ Cardinality(newPorts) = p
    <3>1. \A h : /\ \A e \in newPorts : \E i \in 1..p : e = h[i]
                 /\ \A i \in 1..p : h[i] \in newPorts /\ h[i].key[2] = ports + i
                 => IsFiniteSet(newPorts) /\ UniqueIn(newPorts) /\ Cardinality(newPorts) = p
      BY <2>1, NumberedOn
    <3> QED BY <2>3, <3>1
  <2> QED BY <2>4, <2>5
<1>15. /\ Is(server, "server", {"srv"}, {"network", "group"})
       /\ Refs(server, "network") = nets /\ Refs(server, "group") = {}
  <2>1. \A r \in server.refs : r[1] = "network" /\ r[2] \in nets
    BY <1>7 DEF One
  <2>2. \A x \in nets : <<"network", x>> \in server.refs
    BY <1>7 DEF One
  <2>3. Refs(server, "network") = nets /\ Refs(server, "group") = {}
    BY <1>7, <2>1, RefsOfOne, NoRefs
  <2> QED BY <1>1, <1>7, <1>11, <1>13, <2>1, <2>3 DEF Is
<1>16. /\ "boot" \in server.flags => server.num >= 1
       /\ "resize" \in server.flags => sc.resizeFlavor
  <2>1. \A x \in flags : sc.pct[x] > 0
    BY DEF FlagDraws
  <2>2. "boot" \in flags => root \in randRange(sc.root) /\ sc.root.lo >= 1
    BY <1>2, <1>4, <2>1
  <2>3. "boot" \in flags => root >= 1
    BY <1>2, <2>2, RangesAreNat DEF randRange
  <2> QED BY <1>2, <1>7, <2>1, <2>3
<1>17. \A e \in newVols : /\ Is(e, "volume", {"vol"}, {"server"}) /\ Just(e, "server") /\ e.num >= 1
                          /\ Refs(e, "server") = {srv}
                          /\ e.key[2] <= vols + v /\ e.key[2] > vols
  <2> SUFFICES ASSUME NEW i \in 1..v
               PROVE  /\ Is(f[i], "volume", {"vol"}, {"server"}) /\ Just(f[i], "server") /\ f[i].num >= 1
                      /\ Refs(f[i], "server") = {srv}
                      /\ f[i].key[2] <= vols + v /\ f[i].key[2] > vols
    OBVIOUS
  <2>1. size[i] >= 1
    <3>1. /\ sc.size.lo \in Nat /\ sc.size.hi \in Nat
          /\ sc.volumes.lo \in Nat /\ sc.volumes.hi \in Nat
      BY <1>2, RangesAreNat
    <3>2. size[i] \in sc.size.lo..sc.size.hi
      BY DEF randRange
    <3>3. sc.volumes.hi > 0
      BY <1>10, <3>1
    <3> QED BY <1>2, <3>1, <3>2, <3>3
  <2>20. f[i].refs = {<<"server", srv>>}
    BY <1>8
  <2>2. Refs(f[i], "server") = {srv}
    <3> DEFINE e == f[i]
    <3>1. e.refs = {<<"server", srv>>}
      BY <2>20
    <3> HIDE DEF e
    <3>2. Refs(e, "server") = {srv}
      BY <3>1, OneRef
    <3> QED BY <3>2 DEF e
  <2>3. Is(f[i], "volume", {"vol"}, {"server"})
    <3>1. f[i].kind = "volume" /\ f[i].key = <<"vol", vols + i>> /\ vols + i \in Nat
      BY <1>8, <1>10
    <3>2. \A r \in f[i].refs : r[1] = "server" /\ r[2] # Panic
      BY <2>20 DEF Panic
    <3> HIDE DEF vols
    <3> QED BY <3>1, <3>2 DEF Is
  <2>4. Just(f[i], "server") /\ f[i].num >= 1
    BY <1>8, <2>1, <2>2 DEF Just
  <2>5. f[i].key[2] <= vols + v /\ f[i].key[2] > vols
    <3>1. f[i].key[2] = vols + i
      BY <1>8
    <3> HIDE DEF vols
    <3> QED BY <1>10, <3>1
  <2> QED BY <2>2, <2>3, <2>4, <2>5
<1>18. \A e \in newPorts : /\ Is(e, "port", {"port"}, {"server", "network"}) /\ Just(e, "server")
                           /\ Refs(e, "server") = {srv} /\ Refs(e, "network") \subseteq nets
                           /\ e.key[2] <= ports + p /\ e.key[2] > ports
  <2> SUFFICES ASSUME NEW i \in 1..p
               PROVE  /\ Is(g[i], "port", {"port"}, {"server", "network"}) /\ Just(g[i], "server")
                      /\ Refs(g[i], "server") = {srv} /\ Refs(g[i], "network") \subseteq nets
                      /\ g[i].key[2] <= ports + p /\ g[i].key[2] > ports
    OBVIOUS
  <2>10. g[i].refs = {<<"server", srv>>, <<"network", on[i]>>}
    BY <1>9
  <2>11. /\ <<"server", srv>> \in g[i].refs /\ <<"network", on[i]>> \in g[i].refs
         /\ \A r \in g[i].refs : /\ r[1] = "server" => r[2] = srv
                                 /\ r[1] = "network" => r[2] = on[i]
    BY <2>10
  <2>1. Refs(g[i], "server") = {srv} /\ Refs(g[i], "network") = {on[i]}
    BY <2>11, SoleRef
  <2>2. on[i] \in nets /\ on[i] # Panic
    BY <1>11, <1>12, <1>13
  <2>3. Is(g[i], "port", {"port"}, {"server", "network"})
    <3> HIDE DEF ports
    <3> QED BY <1>9, <1>10, <2>2 DEF Is, Panic
  <2>4. Just(g[i], "server")
    BY <2>1 DEF Just
  <2>5. g[i].key[2] <= ports + p /\ g[i].key[2] > ports
    <3>1. g[i].key[2] = ports + i
      BY <1>9
    <3> HIDE DEF ports
    <3> QED BY <1>10, <3>1
  <2> QED BY <2>1, <2>2, <2>3, <2>4, <2>5
<1> HIDE DEF newVols, newPorts
<1>19. IsFiniteSet(new) /\ UniqueIn(new)
  <2>1. IsFiniteSet({server}) /\ UniqueIn({server})
    BY OneIsUnique
  <2>2. \A a \in {server}, b \in newVols : a.key # b.key
    BY <1>15, <1>17 DEF Is
  <2>3. IsFiniteSet({server} \cup newVols) /\ UniqueIn({server} \cup newVols)
    BY <1>14, <2>1, <2>2, BothUnique
  <2>4. \A a \in {server} \cup newVols, b \in newPorts : a.key # b.key
    BY <1>15, <1>17, <1>18 DEF Is
  <2> QED BY <1>14, <2>3, <2>4, BothUnique
<1>20. \A a \in plan, b \in new : a.key # b.key
  <2>1. ASSUME NEW a \in plan PROVE a.key # server.key
    BY <1>1, <1>3, <1>7 DEF NovaEntry, NovaServerEntry, NovaVolumeEntry, NovaPortEntry, NovaGenerates, Is
  <2>2. ASSUME NEW a \in plan, NEW b \in newVols PROVE a.key # b.key
    <3> USE <1>3, <1>17, <1>10
    <3>1. a.kind = "volume" => a.key[2] \in Nat /\ a.key[2] <= vols
      BY DEF NovaGenerates, NovaEntry, NovaServerEntry, NovaVolumeEntry, NovaPortEntry, Is
    <3>2. a.kind # "volume" => a.key[1] # "vol"
      BY DEF NovaEntry, NovaServerEntry, NovaVolumeEntry, NovaPortEntry, Is
    <3>3. b.key[1] = "vol" /\ b.key[2] \in Nat
      BY DEF Is
    <3> HIDE DEF vols
    <3> QED BY <3>1, <3>2, <3>3
  <2>3. ASSUME NEW a \in plan, NEW b \in newPorts PROVE a.key # b.key
    <3> USE <1>3, <1>18, <1>10
    <3>1. a.kind = "port" => a.key[2] \in Nat /\ a.key[2] <= ports
      BY DEF NovaGenerates, NovaEntry, NovaServerEntry, NovaVolumeEntry, NovaPortEntry, Is
    <3>2. a.kind # "port" => a.key[1] # "port"
      BY DEF NovaEntry, NovaServerEntry, NovaVolumeEntry, NovaPortEntry, Is
    <3>3. b.key[1] = "port" /\ b.key[2] \in Nat
      BY DEF Is
    <3> HIDE DEF ports
    <3> QED BY <3>1, <3>2, <3>3
  <2> QED BY <2>1, <2>2, <2>3
<1>21. /\ Common' /\ sc' = sc /\ plan' = plan \cup new
       /\ phase' = "generate" => step' = next /\ next # 0
  <2>1. \A e \in new : \A r \in e.refs : r[2] # Panic
    BY <1>15, <1>17, <1>18 DEF Is
  <2> HIDE DEF new
  <2> QED BY <1>1, <1>6, <1>19, <1>20, <2>1, EmitKeeps
<1>22. /\ Of("volume")' = Of("volume") \cup newVols /\ Of("port")' = Of("port") \cup newPorts
       /\ Of("server")' = Of("server") \cup {server} /\ Of("network")' = Of("network")
  <2>1. /\ \A e \in newVols : e.kind = "volume"
        /\ \A e \in newPorts : e.kind = "port"
        /\ server.kind = "server"
    BY <1>15, <1>17, <1>18 DEF Is
  <2> QED BY <1>21, <2>1 DEF Of
<1>23. Cardinality(Of("volume")') = vols + v /\ Cardinality(Of("port")') = ports + p
  <2>1. IsFiniteSet(plan)
    BY DEF Common
  <2>2. Of("volume") \cap newVols = {} /\ Of("port") \cap newPorts = {}
    BY <1>20 DEF Of
  <2> QED BY <1>14, <1>22, <2>1, <2>2, KindGrows
<1>24. /\ Keys("network")' = Keys("network") /\ Keys("server") \subseteq Keys("server")'
       /\ srv \in Keys("server")' /\ Keys("servergroup") \subseteq Keys("servergroup")'
       /\ srv \notin Keys("server")
  <2>1. plan \subseteq plan' /\ server \in plan'
    BY <1>21
  <2>2. Keys("network")' = Keys("network")
    BY <1>22 DEF Keys
  <2>3. srv \in Keys("server")'
    BY <1>7, <2>1 DEF Keys, Of
  <2>4. srv \notin Keys("server")
    BY <1>7, <1>20 DEF Keys, Of
  <2> QED BY <2>1, <2>2, <2>3, <2>4, KeysGrow
<1>25. \A e \in plan : NovaEntry(e)'
  <2> SUFFICES ASSUME NEW e \in plan PROVE NovaEntry(e)'
    OBVIOUS
  <2>1. CASE NovaServerEntry(e)
    BY <1>21, <1>24, <2>1 DEF NovaEntry, NovaServerEntry
  <2>2. CASE NovaVolumeEntry(e)
    BY <1>24, <2>2 DEF NovaEntry, NovaVolumeEntry
  <2>3. CASE NovaPortEntry(e)
    <3>1. \A s \in Of("server")' : s.key \in Refs(e, "server") => Refs(e, "network") \subseteq Refs(s, "network")
      BY <1>7, <1>22, <1>24, <2>3 DEF NovaPortEntry
    <3> QED BY <1>24, <2>3, <3>1 DEF NovaEntry, NovaPortEntry
  <2> QED BY <1>3, <2>1, <2>2, <2>3 DEF NovaEntry
<1>26. \A e \in new : NovaEntry(e)'
  <2>1. ASSUME NEW e, e = server PROVE NovaServerEntry(e)'
    <3>1. /\ Is(e, "server", {"srv"}, {"network", "group"}) /\ IsEntry(e)
          /\ Refs(e, "network") = nets /\ Refs(e, "group") = {}
          /\ "boot" \in e.flags => e.num >= 1
          /\ "resize" \in e.flags => sc.resizeFlavor
      BY <1>15, <1>16, <1>70, <2>1
    <3> QED BY <1>11, <1>21, <1>24, <3>1 DEF NovaServerEntry
  <2>2. ASSUME NEW e \in newVols PROVE NovaVolumeEntry(e)'
    BY <1>17, <1>24 DEF NovaVolumeEntry
  <2>3. ASSUME NEW e \in newPorts PROVE NovaPortEntry(e)'
    <3>1. \A s \in Of("server")' : s.key = srv => Refs(s, "network") = nets
      BY <1>15, <1>22, <1>24 DEF Keys
    <3> QED BY <1>11, <1>18, <1>24, <3>1 DEF NovaPortEntry
  <2> QED BY <2>1, <2>2, <2>3 DEF NovaEntry
<1>27. ASSUME phase' = "generate" PROVE NovaGenerates'
  <2>1. step' = step + 1 /\ step' # 1
    BY <1>1, <1>21, <1>27 DEF next
  <2>2. Names("net", sc'.networks) = Keys("network")'
    BY <1>3, <1>21, <1>24
  <2>3. ASSUME NEW e \in plan
        PROVE  /\ e.kind = "server" => e.key[2] < step' - 1
               /\ e.kind \in {"volume", "port"} => e.key[2] <= Cardinality(Of(e.kind))'
               /\ e.kind # "servergroup"
               /\ sc'.persona = "gardener" => e.kind # "port"
    <3>1. e.kind = "server" => e.key[2] < step' - 1
      BY <1>1, <1>3, <2>1 DEF NovaGenerates, NovaEntry, NovaServerEntry, NovaVolumeEntry, NovaPortEntry, Is
    <3>2. e.kind \in {"volume", "port"} => e.key[2] \in Nat
      BY <1>3 DEF NovaEntry, NovaServerEntry, NovaVolumeEntry, NovaPortEntry, Is
    <3>3. /\ e.kind = "volume" => e.key[2] <= vols
          /\ e.kind = "port" => e.key[2] <= ports
      BY <1>3 DEF NovaGenerates
    <3>4. /\ e.kind = "volume" => e.key[2] <= Cardinality(Of("volume")')
          /\ e.kind = "port" => e.key[2] <= Cardinality(Of("port")')
      <4> HIDE DEF vols, ports
      <4> QED BY <1>10, <1>23, <3>2, <3>3
    <3> QED BY <1>3, <1>21, <3>1, <3>4 DEF NovaGenerates
  <2>4. ASSUME NEW e \in new
        PROVE  /\ e.kind = "server" => e.key[2] < step' - 1
               /\ e.kind \in {"volume", "port"} => e.key[2] <= Cardinality(Of(e.kind))'
               /\ e.kind # "servergroup"
               /\ sc'.persona = "gardener" => e.kind # "port"
    <3>1. CASE e = server
      BY <1>1, <1>7, <2>1, <3>1
    <3>2. CASE e \in newVols
      BY <1>17, <1>23, <3>2 DEF Is
    <3>3. CASE e \in newPorts
      <4>1. sc.persona # "gardener"
        <5> HIDE DEF ports
        <5> QED BY <1>3, <1>10, <1>18, <3>3 DEF Is
      <4> QED BY <1>18, <1>21, <1>23, <3>3, <4>1 DEF Is
    <3> QED BY <3>1, <3>2, <3>3
  <2> QED BY <1>21, <2>1, <2>2, <2>3, <2>4 DEF NovaGenerates
<1> QED BY <1>3, <1>21, <1>25, <1>26, <1>27 DEF NovaInv

(***************************************************************************)
(* What a persona makes of the plan.                                       *)
(***************************************************************************)
LEMMA EntryExcept ==
  ASSUME NEW e, IsEntry(e), NEW x
  PROVE  /\ [e EXCEPT !.flags = x] = Entry(e.key, e.kind, e.refs, x, e.num)
         /\ [e EXCEPT !.refs = x] = Entry(e.key, e.kind, x, e.flags, e.num)
BY DEF IsEntry, Entry

LEMMA EntryFields ==
  ASSUME NEW key, NEW kind, NEW refs, NEW flags, NEW num
  PROVE  LET e == Entry(key, kind, refs, flags, num)
         IN  /\ e.key = key /\ e.kind = kind /\ e.refs = refs /\ e.flags = flags /\ e.num = num
             /\ IsEntry(e)
BY DEF Entry, IsEntry

Marked == IF sc.cold THEN coldMigrate(plan) ELSE plan
Shaped(M, k) ==
  {IF e.kind # "server" THEN e
   ELSE [e EXCEPT !.refs = {<<"network", roundRobin("net", e.key[2] - 1, k)>>,
                            <<"group", roundRobin("grp", e.key[2] - 1, k)>>}] : e \in M}
\* The same entries, but for the servers.
SameButServers(P, Q) ==
  /\ IsFiniteSet(Q) /\ UniqueIn(Q)
  /\ \A e \in P : e.kind # "server" => e \in Q
  /\ \A e \in P : e.kind = "server" => \E d \in Q : d.kind = "server" /\ d.key = e.key
  /\ \A d \in Q : d.kind # "server" => d \in P
  /\ \A d \in Q : d.kind = "server" => \E e \in P : e.kind = "server" /\ d.key = e.key

LEMMA MarkedPlan ==
  ASSUME Common, \A e \in plan : e.kind = "server" => IsEntry(e)
  PROVE  /\ SameButServers(plan, Marked)
         /\ \A d \in Marked : d.kind = "server" =>
              /\ IsEntry(d)
              /\ \E e \in plan : /\ e.kind = "server" /\ d.key = e.key /\ d.refs = e.refs
                                 /\ d.num = e.num /\ d.flags \subseteq e.flags \cup {"cold"}
<1> DEFINE f == [e \in plan |-> IF e.kind = "server" THEN [e EXCEPT !.flags = @ \cup {"cold"}] ELSE e]
<1>0. IsFiniteSet(plan) /\ UniqueIn(plan)
  BY DEF Common
<1>1. CASE ~sc.cold
  BY <1>0, <1>1 DEF Marked, SameButServers
<1>2. CASE sc.cold
  <2>1. \A d : d \in Marked <=> \E e \in plan : d = f[e]
    BY <1>2 DEF Marked, coldMigrate
  <2>2. \A e \in plan : e.kind # "server" => f[e] = e
    OBVIOUS
  <2>3. ASSUME NEW e \in plan, e.kind = "server"
        PROVE  /\ IsEntry(f[e]) /\ f[e].kind = "server" /\ f[e].key = e.key /\ f[e].refs = e.refs
               /\ f[e].num = e.num /\ f[e].flags = e.flags \cup {"cold"}
    <3>1. f[e] = [e EXCEPT !.flags = e.flags \cup {"cold"}]
      BY <2>3
    <3>2. f[e] = Entry(e.key, e.kind, e.refs, e.flags \cup {"cold"}, e.num)
      BY <2>3, <3>1, EntryExcept
    <3> QED BY <2>3, <3>2, EntryFields
  <2> HIDE DEF f
  <2>4. \A e \in plan : f[e].key = e.key /\ f[e].kind = e.kind
    BY <2>2, <2>3
  <2>5. \A d, e \in plan : f[d].key = f[e].key => d = e
    BY <1>0, <2>4 DEF UniqueIn
  <2>6. IsFiniteSet(Marked) /\ UniqueIn(Marked)
    BY <1>0, <2>1, <2>5, Numbered
  <2>7. SameButServers(plan, Marked)
    BY <2>1, <2>2, <2>4, <2>6 DEF SameButServers
  <2> QED BY <2>1, <2>2, <2>3, <2>4, <2>7
<1> QED BY <1>1, <1>2

ShapedServer(d, M, k) ==
  /\ IsEntry(d)
  /\ \E e \in M : /\ e.kind = "server" /\ d.key = e.key
                  /\ d.num = e.num /\ d.flags = e.flags
  /\ \E i \in 1..k : d.refs = {<<"network", <<"net", i>>>>, <<"group", <<"grp", i>>>>}

LEMMA ShapedPlan ==
  ASSUME NEW P, NEW M, NEW k \in Nat \ {0}, SameButServers(P, M),
         \A d \in M : d.kind = "server" => IsEntry(d) /\ d.key[2] \in Nat
  PROVE  /\ SameButServers(P, Shaped(M, k))
         /\ \A d \in Shaped(M, k) : d.kind = "server" => ShapedServer(d, M, k)
<1> DEFINE S == Shaped(M, k)
           to(e) == {<<"network", roundRobin("net", e.key[2] - 1, k)>>,
                     <<"group", roundRobin("grp", e.key[2] - 1, k)>>}
           f == [e \in M |-> IF e.kind # "server" THEN e ELSE [e EXCEPT !.refs = to(e)]]
<1>1. \A d : d \in S <=> \E e \in M : d = f[e]
  BY DEF Shaped
<1>2. \A e \in M : e.kind # "server" => f[e] = e
  OBVIOUS
<1>3. ASSUME NEW e \in M, e.kind = "server"
      PROVE  /\ IsEntry(f[e]) /\ f[e].kind = "server" /\ f[e].key = e.key
             /\ f[e].num = e.num /\ f[e].flags = e.flags
             /\ \E i \in 1..k : f[e].refs = {<<"network", <<"net", i>>>>, <<"group", <<"grp", i>>>>}
  <2>1. f[e] = Entry(e.key, e.kind, to(e), e.flags, e.num)
    <3>1. f[e] = [e EXCEPT !.refs = to(e)] /\ IsEntry(e)
      BY <1>3
    <3> HIDE DEF f, to
    <3> QED BY <3>1, EntryExcept
  <2>2. \E i \in 1..k : to(e) = {<<"network", <<"net", i>>>>, <<"group", <<"grp", i>>>>}
    <3>1. e.key[2] - 1 \in Int /\ ((e.key[2] - 1) % k) + 1 \in 1..k /\ ~(k < 1)
      BY <1>3
    <3> QED BY <3>1 DEF roundRobin
  <2> HIDE DEF f, to
  <2> QED BY <1>3, <2>1, <2>2, EntryFields
<1> HIDE DEF f, S
<1>4. \A e \in M : f[e].key = e.key /\ f[e].kind = e.kind
  BY <1>2, <1>3
<1>5. IsFiniteSet(M) /\ UniqueIn(M)
  BY DEF SameButServers
<1>6. \A d, e \in M : f[d].key = f[e].key => d = e
  BY <1>4, <1>5 DEF UniqueIn
<1>7. IsFiniteSet(S) /\ UniqueIn(S)
  <2>1. \A d \in S : \E e \in M : d = f[e]
    BY <1>1
  <2>2. \A h : /\ \A d \in S : \E e \in M : d = h[e]
               /\ \A d, e \in M : h[d].key = h[e].key => d = e
               => IsFiniteSet(S) /\ UniqueIn(S)
    BY <1>5, Numbered
  <2> QED BY <1>6, <2>1, <2>2
<1>8. SameButServers(P, S)
  <2>1. \A e \in P : e.kind # "server" => e \in S
    BY <1>1, <1>2 DEF SameButServers
  <2>2. \A e \in P : e.kind = "server" => \E d \in S : d.kind = "server" /\ d.key = e.key
    BY <1>1, <1>4 DEF SameButServers
  <2>3. \A d \in S : d.kind # "server" => d \in P
    BY <1>1, <1>2, <1>4 DEF SameButServers
  <2>4. \A d \in S : d.kind = "server" => \E e \in P : e.kind = "server" /\ d.key = e.key
    BY <1>1, <1>4 DEF SameButServers
  <2> QED BY <1>7, <2>1, <2>2, <2>3, <2>4 DEF SameButServers
<1>9. \A d \in S : d.kind = "server" =>
              /\ IsEntry(d)
              /\ \E e \in M : /\ e.kind = "server" /\ d.key = e.key
                              /\ d.num = e.num /\ d.flags = e.flags
              /\ \E i \in 1..k : d.refs = {<<"network", <<"net", i>>>>, <<"group", <<"grp", i>>>>}
  BY <1>1, <1>3, <1>4
<1> QED BY <1>8, <1>9 DEF S, ShapedServer

\* What the shaping does to the bookkeeping.
LEMMA ShapeKeeps ==
  ASSUME Common, NovaInv, PersonaShape, IsFiniteSet(plan'), UniqueIn(plan'),
         \A e \in plan' : NovaEntry(e)'
  PROVE  Common' /\ NovaInv' /\ sc' = sc
<1>1. /\ phase = "generate" /\ sc.service = "nova" /\ sc.service # "mix" /\ sc' = sc /\ step' = 0
  BY DEF PersonaShape, At
<1>2. ~Panicked(plan')
  <2>1. \A e \in plan' : \A r \in e.refs : r[2] # Panic
    BY DEF NovaEntry, NovaServerEntry, NovaVolumeEntry, NovaPortEntry, Is
  <2> QED BY <2>1 DEF Panicked
<1>3. phase' = "generated"
  BY <1>2 DEF PersonaShape
<1>4. /\ sc.persona = "gardener" => sc.networks \in Nat \ {0} /\ sc.ports.hi = 0
  BY <1>1 DEF NovaInv
<1>5. Common'
  BY <1>1, <1>2, <1>3 DEF Common
<1> QED BY <1>1, <1>3, <1>4, <1>5 DEF NovaInv

LEMMA PersonaShapeStep ==
  ASSUME Common, NovaInv, PersonaShape
  PROVE  Common' /\ NovaInv' /\ sc' = sc
<1>1. /\ phase = "generate" /\ sc.service = "nova" /\ sc.service # "mix" /\ sc' = sc /\ step' = 0
      /\ step = sc.servers + 2
  BY DEF PersonaShape, At
<1>2. /\ \A e \in plan : NovaEntry(e)
      /\ sc.persona = "gardener" => sc.networks \in Nat \ {0} /\ sc.ports.hi = 0
      /\ NovaGenerates
  BY <1>1 DEF NovaInv
<1>3. Names("net", sc.networks) = Keys("network") /\ sc.networks \in Nat
  <2>1. sc.servers \in Nat /\ sc.networks \in Nat
    BY <1>1, NovaScenario
  <2>2. step # 1
    BY <1>1, <2>1
  <2> QED BY <1>2, <2>1, <2>2 DEF NovaGenerates
<1>4. \A e \in plan : e.kind = "server" => NovaServerEntry(e)
  BY <1>2 DEF NovaEntry, NovaVolumeEntry, NovaPortEntry, Is
<1>5. /\ SameButServers(plan, Marked)
      /\ \A d \in Marked : d.kind = "server" =>
           /\ IsEntry(d)
           /\ \E e \in plan : /\ e.kind = "server" /\ d.key = e.key /\ d.refs = e.refs
                              /\ d.num = e.num /\ d.flags \subseteq e.flags \cup {"cold"}
  BY <1>4, MarkedPlan DEF NovaServerEntry
<1>6. \A d \in Marked : d.kind = "server" => NovaServerEntry(d)
  <2> SUFFICES ASSUME NEW d \in Marked, d.kind = "server" PROVE NovaServerEntry(d)
    OBVIOUS
  <2>1. PICK e \in plan : /\ e.kind = "server" /\ d.key = e.key /\ d.refs = e.refs
                         /\ d.num = e.num /\ d.flags \subseteq e.flags \cup {"cold"}
    BY <1>5
  <2>2. NovaServerEntry(e)
    BY <1>4, <2>1
  <2>3. \A role : Refs(d, role) = Refs(e, role)
    BY <2>1 DEF Refs
  <2>4. IsEntry(d) /\ Is(d, "server", {"srv"}, {"network", "group"})
    BY <1>5, <2>1, <2>2 DEF NovaServerEntry, Is
  <2> QED BY <2>1, <2>2, <2>3, <2>4 DEF NovaServerEntry
<1> DEFINE k == Cardinality({e \in Marked : e.kind = "network"})
<1>7. plan' = IF sc.persona = "gardener" THEN Shaped(Marked, k) \cup Plain("servergroup", "grp", k)
              ELSE Marked
  BY DEF PersonaShape, Marked, gardenerShape, Shaped
<1>8. k = sc.networks
  <2>1. {e \in Marked : e.kind = "network"} = Of("network")
    BY <1>5 DEF SameButServers, Of
  <2>2. Cardinality(Keys("network")) = Cardinality(Of("network"))
    BY NamesUnique DEF UniqueNames
  <2>3. Cardinality(Names("net", sc.networks)) = sc.networks
    BY <1>3, NamesCounted
  <2> QED BY <1>3, <2>1, <2>2, <2>3
<1> HIDE DEF k
<1>9. ASSUME NEW e, NovaVolumeEntry(e), Keys("server") \subseteq Keys("server")' PROVE NovaVolumeEntry(e)'
  BY <1>9 DEF NovaVolumeEntry
<1>10. CASE sc.persona # "gardener"
  <2>1. plan' = Marked
    BY <1>7, <1>10
  <2>2. /\ Keys("network") \subseteq Keys("network")'
        /\ Keys("servergroup") \subseteq Keys("servergroup")'
        /\ Keys("server") \subseteq Keys("server")'
    BY <1>5, <2>1 DEF SameButServers, Keys, Of
  <2>3. ASSUME NEW e \in plan' PROVE NovaEntry(e)'
    <3>1. CASE e.kind = "server"
      <4>1. NovaServerEntry(e)
        BY <1>6, <2>1, <3>1
      <4>2. NovaServerEntry(e)'
        BY <1>1, <2>2, <4>1 DEF NovaServerEntry
      <4> QED BY <4>2 DEF NovaEntry
    <3>2. CASE e.kind # "server"
      <4>1. e \in plan /\ NovaEntry(e)
        BY <1>2, <1>5, <2>1, <3>2 DEF SameButServers
      <4>2. CASE NovaVolumeEntry(e)
        BY <1>9, <2>2, <4>2 DEF NovaEntry
      <4>3. CASE NovaPortEntry(e)
        <5>1. ASSUME NEW s \in Of("server")', s.key \in Refs(e, "server")
              PROVE  Refs(e, "network") \subseteq Refs(s, "network")
          <6>1. s \in Marked /\ s.kind = "server"
            BY <2>1 DEF Of
          <6>2. PICK d \in plan : d.kind = "server" /\ s.key = d.key /\ s.refs = d.refs
            BY <1>5, <6>1
          <6>3. Refs(s, "network") = Refs(d, "network")
            BY <6>2 DEF Refs
          <6>4. d \in Of("server")
            BY <6>2 DEF Of
          <6> QED BY <4>3, <5>1, <6>2, <6>3, <6>4 DEF NovaPortEntry
        <5> QED BY <2>2, <4>3, <5>1 DEF NovaPortEntry, NovaEntry
      <4> QED BY <3>2, <4>1, <4>2, <4>3 DEF NovaEntry, NovaServerEntry, Is
    <3> QED BY <3>1, <3>2
  <2>4. IsFiniteSet(plan') /\ UniqueIn(plan')
    BY <1>5, <2>1 DEF SameButServers
  <2> QED BY <1>1, <1>2, <2>3, <2>4, ShapeKeeps
<1>11. CASE sc.persona = "gardener"
  <2>0. k \in Nat \ {0} /\ k \in Nat
    BY <1>2, <1>8, <1>11
  <2> DEFINE S == Shaped(Marked, k)
             groups == Plain("servergroup", "grp", k)
  <2>1. plan' = S \cup groups
    BY <1>7, <1>11
  <2>2. \A d \in Marked : d.kind = "server" => IsEntry(d) /\ d.key[2] \in Nat
    BY <1>6 DEF NovaServerEntry, Is
  <2>3. /\ SameButServers(plan, S)
        /\ \A d \in S : d.kind = "server" => ShapedServer(d, Marked, k)
    <3>1. SameButServers(plan, Marked)
      BY <1>5
    <3>2. k \in Nat \ {0}
      BY <2>0
    <3> QED BY <2>2, <3>1, <3>2, ShapedPlan
  <2>4. /\ IsFiniteSet(groups) /\ UniqueIn(groups)
        /\ \A e \in groups : Is(e, "servergroup", {"grp"}, {})
    BY <2>0, PlainNames
  <2>5. \A i \in 1..k : \E e \in groups : e.key = <<"grp", i>>
    <3>1. \A i \in 1..k : <<"grp", i>> \in Names("grp", k)
      BY DEF Names
    <3>2. \A x \in Names("grp", k) : \E e \in groups : e.key = x
      BY PlainKeys
    <3> QED BY <3>1, <3>2
  <2> HIDE DEF S, groups
  <2>6. \A e \in S : e.key[1] # "grp"
    <3> SUFFICES ASSUME NEW e \in S PROVE e.key[1] # "grp"
      OBVIOUS
    <3>1. CASE e.kind = "server"
      <4>1. PICK d \in plan : d.kind = "server" /\ e.key = d.key
        BY <2>3, <3>1 DEF SameButServers
      <4> QED BY <1>4, <4>1 DEF NovaServerEntry, Is
    <3>2. CASE e.kind # "server"
      <4>1. e \in plan /\ NovaEntry(e) /\ e.kind # "servergroup"
        BY <1>2, <2>3, <3>2 DEF SameButServers, NovaGenerates
      <4> QED BY <3>2, <4>1 DEF NovaEntry, NovaServerEntry, NovaVolumeEntry, NovaPortEntry, Is
    <3> QED BY <3>1, <3>2
  <2>7. IsFiniteSet(plan') /\ UniqueIn(plan')
    <3>1. IsFiniteSet(S) /\ UniqueIn(S)
      BY <2>3 DEF SameButServers
    <3>2. \A a \in S, b \in groups : a.key # b.key
      BY <2>4, <2>6 DEF Is
    <3> QED BY <2>1, <2>4, <3>1, <3>2, BothUnique
  <2>8. /\ Keys("network") \subseteq Keys("network")'
        /\ Keys("server") \subseteq Keys("server")'
        /\ \A i \in 1..k : <<"grp", i>> \in Keys("servergroup")' /\ <<"net", i>> \in Keys("network")'
    <3>1. Keys("network") \subseteq Keys("network")' /\ Keys("server") \subseteq Keys("server")'
      BY <2>1, <2>3 DEF SameButServers, Keys, Of
    <3>2. \A i \in 1..k : <<"net", i>> \in Keys("network")
      BY <1>3, <1>8 DEF Names
    <3>3. ASSUME NEW i \in 1..k PROVE <<"grp", i>> \in Keys("servergroup")'
      <4>1. PICK e \in groups : e.key = <<"grp", i>>
        BY <2>5
      <4>2. e \in plan' /\ e.kind = "servergroup"
        BY <2>1, <2>4 DEF Is
      <4> QED BY <4>1, <4>2 DEF Keys, Of
    <3> QED BY <3>1, <3>2, <3>3
  <2>9. ASSUME NEW e \in S PROVE NovaEntry(e)'
    <3>1. CASE e.kind = "server"
      <4>1. PICK d \in Marked : d.kind = "server" /\ e.key = d.key /\ e.num = d.num /\ e.flags = d.flags
        BY <2>3, <3>1 DEF ShapedServer
      <4>2. NovaServerEntry(d)
        BY <1>6, <4>1
      <4>3. PICK i \in 1..k : e.refs = {<<"network", <<"net", i>>>>, <<"group", <<"grp", i>>>>}
        BY <2>3, <3>1 DEF ShapedServer
      <4>4. /\ <<"network", <<"net", i>>>> \in e.refs /\ <<"group", <<"grp", i>>>> \in e.refs
            /\ \A r \in e.refs : /\ r[1] = "network" => r[2] = <<"net", i>>
                                 /\ r[1] = "group" => r[2] = <<"grp", i>>
                                 /\ r[1] \in {"network", "group"} /\ r[2] # Panic
        BY <4>3 DEF Panic
      <4>5. Refs(e, "network") = {<<"net", i>>} /\ Refs(e, "group") = {<<"grp", i>>}
        BY <4>4, SoleRef
      <4>6. Is(e, "server", {"srv"}, {"network", "group"})
        BY <3>1, <4>1, <4>2, <4>4 DEF NovaServerEntry, Is
      <4>7. NovaServerEntry(e)'
        BY <1>1, <2>3, <2>8, <3>1, <4>1, <4>2, <4>5, <4>6 DEF NovaServerEntry, ShapedServer
      <4> QED BY <4>7 DEF NovaEntry
    <3>2. CASE e.kind # "server"
      <4>1. e \in plan /\ NovaEntry(e) /\ e.kind # "port"
        BY <1>2, <1>11, <2>3, <3>2 DEF SameButServers, NovaGenerates
      <4>2. CASE NovaVolumeEntry(e)
        BY <1>9, <2>8, <4>2 DEF NovaEntry
      <4> QED BY <3>2, <4>1, <4>2 DEF NovaEntry, NovaServerEntry, NovaPortEntry, Is
    <3> QED BY <3>1, <3>2
  <2>10. \A e \in plan' : NovaEntry(e)'
    BY <2>1, <2>4, <2>9 DEF NovaEntry
  <2> QED BY <1>1, <1>2, <2>7, <2>10, ShapeKeeps
<1> QED BY <1>10, <1>11

-----------------------------------------------------------------------------
(***************************************************************************)
(* A mix: only a persona with a share of the servers has one.              *)
(***************************************************************************)
LEMMA ServersNeedShare ==
  ASSUME NEW total, NEW shares \in [1..3 -> Nat], NEW i \in 1..3, total \in Nat,
         Apportion(total, shares)[i] >= 1
  PROVE  shares[i] > 0
<1> SUFFICES ASSUME shares[i] = 0 PROVE FALSE
  OBVIOUS
<1> DEFINE sum == SumFunction(shares)
           zero == [j \in DOMAIN shares |-> 0]
<1>1. sum \in Nat
  <2>1. IsFiniteSet(1..3)
    <3>1. \A n \in Nat : IsFiniteSet(1..n)
      BY FS_Interval
    <3> QED BY <3>1
  <2> QED BY <2>1, SumIsNat DEF SumFunction
<1>2. CASE total <= 0 \/ sum = 0
  <2>1. Apportion(total, shares) = zero
    BY <1>2 DEF Apportion
  <2> QED BY <2>1
<1>3. CASE ~(total <= 0 \/ sum = 0)
  <2>1. Apportion(total, shares)[i] = (total * shares[i]) \div sum
    <3> DEFINE base == [j \in DOMAIN shares |-> (total * shares[j]) \div sum]
               remainder == [j \in DOMAIN shares |-> (total * shares[j]) % sum]
               left == total - SumFunction(base)
               ahead(j) == {k \in DOMAIN shares :
                              /\ shares[k] > 0
                              /\ \/ remainder[k] > remainder[j]
                                 \/ remainder[k] = remainder[j] /\ k < j}
    <3>1. Apportion(total, shares) =
            IF total <= 0 \/ sum = 0 THEN zero
            ELSE [j \in DOMAIN shares |->
                    base[j] + IF shares[j] > 0 /\ Cardinality(ahead(j)) < left THEN 1 ELSE 0]
      BY DEF Apportion
    <3>2. base[i] = (total * shares[i]) \div sum /\ i \in DOMAIN shares
      OBVIOUS
    <3> HIDE DEF sum, base, ahead, left
    <3>3. Apportion(total, shares)[i] =
            base[i] + IF shares[i] > 0 /\ Cardinality(ahead(i)) < left THEN 1 ELSE 0
      BY <1>3, <3>1, <3>2
    <3>4. ~(shares[i] > 0)
      OBVIOUS
    <3>5. base[i] = 0
      <4>1. total * shares[i] = 0
        OBVIOUS
      <4> QED BY <1>1, <1>3, <3>2, <4>1
    <3> QED BY <3>2, <3>3, <3>4, <3>5
  <2>2. total * shares[i] = 0
    OBVIOUS
  <2> HIDE DEF sum
  <2>3. 0 \div sum = 0
    BY <1>1, <1>3
  <2> QED BY <2>1, <2>2, <2>3
<1> QED BY <1>2, <1>3

LEMMA MixPersonaStep ==
  ASSUME Common, MixPersona
  PROVE  Common' /\ NovaInv' /\ sc'.service \in {"nova", "mix"}
<1>1. /\ phase = "generate" /\ sc.service = "mix" /\ step = 1 /\ plan = {}
      /\ sc.shares \in [1..3 -> Int] /\ step' = step /\ plan' = plan
  BY DEF MixPersona, At, Common
<1>2. mixScenarioOK(sc)
  BY <1>1, ScenarioOf DEF Common
<1>3. sc.servers \in Nat /\ sc.shares \in [1..3 -> Nat]
  BY <1>1, <1>2, CountsAreNat DEF mixScenarioOK
<1> DEFINE servers == Apportion(sc.servers, sc.shares)
<1>4. CASE \E i \in DOMAIN Personas :
             /\ servers[i] >= 1
             /\ sc' = PersonaNova(Personas[i], sc, servers[i])
             /\ UNCHANGED <<phase, step, plan>>
  <2>1. PICK i \in 1..3 : /\ servers[i] >= 1
                         /\ sc' = PersonaNova(Personas[i], sc, servers[i])
                         /\ UNCHANGED <<phase, step, plan>>
    BY <1>4 DEF Personas
  <2>2. sc.shares[i] > 0
    BY <1>3, <2>1, ServersNeedShare
  <2> DEFINE n == servers[i]
             name == Personas[i]
             nova == PersonaNova(name, sc, n)
  <2>3. /\ novaScenarioOK(nova)
        /\ name = "gardener" => gardenerCheck(sc, n)
    BY <1>2, <2>2 DEF mixScenarioOK, Personas
  <2> HIDE DEF n
  <2>4. name = Personas[i] /\ name \in {"ci", "gardener", "legacy"}
    BY DEF Personas
  <2>5. nova.service = "nova" /\ nova.persona = name
    BY <2>4 DEF PersonaNova, ciNova, gardenerNova, legacyNova
  <2>6. name = "gardener" => nova.networks = sc.clusters /\ nova.ports.hi = 0
    BY DEF PersonaNova, ciNova, gardenerNova, Exactly
  <2>7. nova.networks \in Nat
    BY <2>3, CountsAreNat DEF novaScenarioOK, novaCounts
  <2>8. name = "gardener" => nova.networks \in Nat \ {0}
    BY <2>3, <2>6, <2>7 DEF gardenerCheck
  <2>9. sc' = nova
    BY <2>1 DEF n
  <2> HIDE DEF nova, name
  <2>10. scenarioOK(sc')
    BY <2>3, <2>5, <2>9 DEF scenarioOK
  <2>11. Common'
    BY <1>1, <2>1, <2>5, <2>9, <2>10, FS_EmptySet DEF Common, Services
  <2>12. NovaInv'
    BY <1>1, <2>1, <2>5, <2>6, <2>8, <2>9 DEF NovaInv, NovaGenerates
  <2> QED BY <2>5, <2>9, <2>11, <2>12
<1>5. CASE phase' = "noservers" /\ UNCHANGED <<sc, step, plan>>
  BY <1>1, <1>5 DEF Common, NovaInv
<1> QED BY <1>4, <1>5 DEF MixPersona

LEMMA NovaPlans == ASSUME Common, NovaInv, sc.service = "nova" PROVE novaPlanOK
<1>1. \A e \in plan : NovaEntry(e)
  BY DEF NovaInv
<1>2. \A e \in Of("server") : NovaServerEntry(e)
  BY <1>1 DEF Of, NovaEntry, NovaVolumeEntry, NovaPortEntry, Is
<1>3. \A e \in Of("volume") : NovaVolumeEntry(e)
  BY <1>1 DEF Of, NovaEntry, NovaServerEntry, NovaPortEntry, Is
<1>4. \A e \in Of("port") : NovaPortEntry(e)
  BY <1>1 DEF Of, NovaEntry, NovaServerEntry, NovaVolumeEntry, Is
<1> QED BY <1>2, <1>3, <1>4 DEF novaPlanOK, NovaServerEntry, NovaVolumeEntry, NovaPortEntry, Resolves

-----------------------------------------------------------------------------
LEMMA Division ==
  ASSUME NEW a \in Int, NEW d \in Nat \ {0}
  PROVE  /\ a \div d \in Int /\ a % d \in 0..(d - 1) /\ (a % d) + 1 \in 1..d
         /\ a = d * (a \div d) + (a % d)
         /\ a >= 0 => a \div d \in Nat
OBVIOUS

LEMMA ModIsInt == ASSUME NEW a \in Int, NEW d \in Nat \ {0} PROVE a % d \in Int
OBVIOUS
LEMMA PlaceIsOne == ASSUME NEW a \in Int, NEW d \in Nat \ {0} PROVE (a % d) + 1 \in 1..d
OBVIOUS
LEMMA QuotientIsInt == ASSUME NEW a \in Int, NEW d \in Nat \ {0} PROVE a \div d \in Int
OBVIOUS
LEMMA QuotientIsNat == ASSUME NEW a \in Nat, NEW d \in Nat \ {0} PROVE a \div d \in Nat
OBVIOUS

LEMMA Times ==
  ASSUME NEW d \in Nat, NEW p \in Int, NEW q \in Int, p <= q
  PROVE  d * p <= d * q
OBVIOUS

\* A later place of the same remainder has a larger quotient.
LEMMA QuotientOrder ==
  ASSUME NEW a \in Nat, NEW b \in Nat, NEW d \in Nat \ {0}, a % d = b % d
  PROVE  /\ a < b => a \div d < b \div d
         /\ a \div d = b \div d => a = b
<1>1. a = d * (a \div d) + (a % d) /\ b = d * (b \div d) + (b % d)
  BY Division
<1>2. a \div d \in Int /\ b \div d \in Int /\ a % d \in Int
  BY Division
<1>3. b \div d <= a \div d => d * (b \div d) <= d * (a \div d)
  BY <1>2, Times
<1>4. d * (a \div d) \in Int /\ d * (b \div d) \in Int
  BY <1>2
<1> QED BY <1>1, <1>2, <1>3, <1>4

\* The owner of a place is one of those before all are dealt a further time.
LEMMA QuotientBelow ==
  ASSUME NEW a \in Nat, NEW n \in Nat, NEW d \in Nat \ {0}, a < n
  PROVE  a \div d < (n + d - 1) \div d
<1> DEFINE p == a \div d
           q == (n + d - 1) \div d
<1>1. /\ a = d * p + (a % d) /\ a % d \in 0..(d - 1) /\ p \in Int
      /\ n + d - 1 = d * q + ((n + d - 1) % d) /\ (n + d - 1) % d \in 0..(d - 1) /\ q \in Int
  BY Division
<1> HIDE DEF p, q
<1>2. q <= p => d * q <= d * p
  BY <1>1, Times
<1>3. d * p \in Int /\ d * q \in Int
  BY <1>1
<1>4. ~(q <= p)
  BY <1>1, <1>2, <1>3
<1> QED BY <1>1, <1>4 DEF p, q

-----------------------------------------------------------------------------
(***************************************************************************)
(* Octavia.                                                                *)
(***************************************************************************)
lbOf(j) == ((j - 1) % sc.lbs) + 1                             \* of listener j
netOf(j) == ((j - 1) % sc.networks) + 1                       \* of load balancer j
poolOf(m) == (m % sc.listeners) + 1                           \* of member m, from 0
memberNet(m) == (((m % sc.listeners) % sc.lbs) % sc.networks) + 1
memberRank(m) == Cardinality({x \in 0..m : memberNet(x) = memberNet(m)})

OctaviaNetwork(e) ==
  /\ Is(e, "network", {"net"}, {"subnet"}) /\ e.key[2] \in 1..sc.networks
  /\ Refs(e, "subnet") = {<<"sub", e.key[2]>>}
OctaviaBalancer(e) ==
  /\ Is(e, "lb", {"lb"}, {"network"}) /\ e.key[2] \in 1..sc.lbs
  /\ Refs(e, "network") = {<<"net", netOf(e.key[2])>>} /\ Refs(e, "network") \subseteq Keys("network")
OctaviaListenerEntry(e) ==
  /\ Is(e, "listener", {"lsn"}, {"lb"}) /\ e.key[2] \in 1..sc.listeners
  /\ Refs(e, "lb") = {<<"lb", lbOf(e.key[2])>>} /\ Refs(e, "lb") \subseteq Keys("lb")
  /\ e.num \in randRange(sc.lport)
OctaviaPool(e) ==
  /\ Is(e, "pool", {"pool"}, {"listener"}) /\ e.key[2] \in 1..sc.listeners
  /\ Refs(e, "listener") = {<<"lsn", e.key[2]>>} /\ Refs(e, "listener") \subseteq Keys("listener")
OctaviaMemberEntry(e) ==
  /\ Is(e, "member", {"member"}, {"pool", "named", "addr"}) /\ e.key[2] \in 1..sc.members
  /\ Refs(e, "pool") = {<<"pool", poolOf(e.key[2] - 1)>>} /\ Refs(e, "pool") \subseteq Keys("pool")
  /\ Refs(e, "named") = Refs(e, "pool")
  /\ Refs(e, "addr") = {<<"net", memberNet(e.key[2] - 1)>>}
  /\ e.num = memberRank(e.key[2] - 1)
OctaviaMonitor(e) ==
  /\ Is(e, "monitor", {"hm"}, {"pool"}) /\ Just(e, "pool") /\ Refs(e, "pool") \subseteq Keys("pool")
OctaviaEntry(e) ==
  \/ OctaviaNetwork(e) \/ OctaviaBalancer(e) \/ OctaviaListenerEntry(e) \/ OctaviaPool(e)
  \/ OctaviaMemberEntry(e) \/ OctaviaMonitor(e)

ListenersApart ==
  \A a, b \in Of("listener") : a # b /\ Refs(a, "lb") = Refs(b, "lb") => a.num # b.num

OctaviaGenerates ==
  /\ step = 1 => plan = {}
  /\ step > 1 => /\ Names("net", sc.networks) \subseteq Keys("network")
                 /\ Names("lb", sc.lbs) \subseteq Keys("lb")
                 /\ \A j \in 1..sc.listeners : j < step - 1 =>
                      <<"lsn", j>> \in Keys("listener") /\ <<"pool", j>> \in Keys("pool")
  /\ \A e \in plan : /\ e.kind \in {"listener", "pool"} => e.key[2] < step - 1
                     /\ e.kind = "member" => step = sc.listeners + 3
                     /\ e.kind # "monitor"
OctaviaInv == sc.service = "octavia" =>
  /\ \A e \in plan : OctaviaEntry(e)
  /\ ListenersApart /\ Unshared("monitor", "pool")
  /\ phase = "generate" => OctaviaGenerates

LEMMA OctaviaScenario ==
  ASSUME Common, sc.service = "octavia", phase \notin {"scenario", "refused"}
  PROVE  /\ sc.networks \in Nat /\ sc.lbs \in Nat /\ sc.listeners \in Nat /\ sc.members \in Nat
         /\ sc.monitors \in Nat
         /\ sc.lbs > 0 => sc.networks \in Nat \ {0}
         /\ sc.listeners > 0 => sc.lbs \in Nat \ {0}
         /\ sc.members > 0 => sc.listeners \in Nat \ {0}
         /\ sc.monitors <= sc.listeners
         /\ sc.lport.lo \in Nat \ {0} /\ sc.lport.hi \in Nat /\ sc.lport.lo <= sc.lport.hi
         /\ sc.lport.hi <= MaxPort
         /\ sc.lbs > 0 => sc.lport.hi - sc.lport.lo + 1 >= (sc.listeners + sc.lbs - 1) \div sc.lbs
         /\ \A i \in 0..(sc.networks - 1) : membersPerNetwork(sc, i) <= MemberAddresses
<1>1. octaviaScenarioOK(sc)
  BY ScenarioOf DEF Common
<1>2. /\ sc.networks \in Nat /\ sc.lbs \in Nat /\ sc.listeners \in Nat /\ sc.members \in Nat
      /\ sc.monitors \in Nat
  BY <1>1, CountsAreNat DEF octaviaScenarioOK
<1>3. /\ sc.lport.lo \in Nat \ {0} /\ sc.lport.hi \in Nat /\ sc.lport.lo <= sc.lport.hi
      /\ sc.lport.hi <= MaxPort
  BY <1>1, PlansAssumption DEF octaviaScenarioOK, portRange
<1> QED BY <1>1, <1>2, <1>3 DEF octaviaScenarioOK

\* The entries of a plan keep what they are while it grows.
LEMMA OctaviaGrows ==
  ASSUME plan \subseteq plan', sc' = sc, NEW e, OctaviaEntry(e)
  PROVE  OctaviaEntry(e)'
<1>1. /\ Keys("network") \subseteq Keys("network")' /\ Keys("lb") \subseteq Keys("lb")'
      /\ Keys("listener") \subseteq Keys("listener")' /\ Keys("pool") \subseteq Keys("pool")'
  BY KeysGrow
<1>2. CASE OctaviaNetwork(e)
  BY <1>2 DEF OctaviaNetwork, OctaviaEntry
<1>3. CASE OctaviaBalancer(e)
  BY <1>1, <1>3 DEF OctaviaBalancer, OctaviaEntry, netOf
<1>4. CASE OctaviaListenerEntry(e)
  BY <1>1, <1>4 DEF OctaviaListenerEntry, OctaviaEntry, lbOf
<1>5. CASE OctaviaPool(e)
  BY <1>1, <1>5 DEF OctaviaPool, OctaviaEntry
<1>6. CASE OctaviaMemberEntry(e)
  BY <1>1, <1>6 DEF OctaviaMemberEntry, OctaviaEntry, poolOf, memberNet, memberRank
<1>7. CASE OctaviaMonitor(e)
  BY <1>1, <1>7 DEF OctaviaMonitor, OctaviaEntry
<1> QED BY <1>2, <1>3, <1>4, <1>5, <1>6, <1>7 DEF OctaviaEntry

LEMMA OctaviaKinds ==
  ASSUME NEW e, OctaviaEntry(e)
  PROVE  /\ e.kind = "network" => OctaviaNetwork(e)
         /\ e.kind = "lb" => OctaviaBalancer(e)
         /\ e.kind = "listener" => OctaviaListenerEntry(e)
         /\ e.kind = "pool" => OctaviaPool(e)
         /\ e.kind = "member" => OctaviaMemberEntry(e)
         /\ e.kind = "monitor" => OctaviaMonitor(e)
BY DEF OctaviaEntry, OctaviaNetwork, OctaviaBalancer, OctaviaListenerEntry, OctaviaPool,
       OctaviaMemberEntry, OctaviaMonitor, Is

LEMMA OctaviaLoadBalancersStep ==
  ASSUME Common, OctaviaInv, OctaviaLoadBalancers
  PROVE  Common' /\ OctaviaInv' /\ sc' = sc
<1>1. /\ phase = "generate" /\ sc.service = "octavia" /\ sc.service # "mix" /\ step = 1 /\ plan = {}
  BY DEF OctaviaLoadBalancers, At, OctaviaInv, OctaviaGenerates
<1>2. /\ sc.networks \in Nat /\ sc.lbs \in Nat
      /\ sc.lbs > 0 => sc.networks \in Nat \ {0}
  BY <1>1, OctaviaScenario
<1> DEFINE f == [i \in 1..sc.networks |-> Entry(<<"net", i>>, "network", {<<"subnet", <<"sub", i>>>>}, {}, 1)]
           g == [i \in 1..sc.lbs |->
                   Entry(<<"lb", i>>, "lb", {<<"network", roundRobin("net", i - 1, sc.networks)>>}, {}, 1)]
           nets == {f[i] : i \in 1..sc.networks}
           lbs == {g[i] : i \in 1..sc.lbs}
           new == nets \cup lbs
<1>3. Emit(new, 2)
  BY DEF OctaviaLoadBalancers
<1>4. \A i \in 1..sc.networks : /\ f[i] \in nets /\ f[i].key = <<"net", i>> /\ f[i].kind = "network"
                                /\ f[i].refs = {<<"subnet", <<"sub", i>>>>}
  BY DEF Entry
<1>5. \A i \in 1..sc.lbs : /\ g[i] \in lbs /\ g[i].key = <<"lb", i>> /\ g[i].kind = "lb"
                           /\ g[i].refs = {<<"network", roundRobin("net", i - 1, sc.networks)>>}
  BY DEF Entry
<1> HIDE DEF f, g
<1>6. IsFiniteSet(1..sc.networks) /\ IsFiniteSet(1..sc.lbs)
  <2>1. sc.networks \in Nat /\ sc.lbs \in Nat
    BY <1>2
  <2>2. \A n \in Nat : IsFiniteSet(1..n)
    BY FS_Interval
  <2> QED BY <2>1, <2>2
<1>7. IsFiniteSet(nets) /\ UniqueIn(nets)
  <2>1. \A i, j \in 1..sc.networks : f[i].key = f[j].key => i = j
    BY <1>4
  <2> QED BY <1>6, <2>1, Numbered
<1>8. IsFiniteSet(lbs) /\ UniqueIn(lbs)
  <2>1. \A i, j \in 1..sc.lbs : g[i].key = g[j].key => i = j
    BY <1>5
  <2> QED BY <1>6, <2>1, Numbered
<1>9. \A e \in nets : OctaviaNetwork(e)
  <2> SUFFICES ASSUME NEW i \in 1..sc.networks PROVE OctaviaNetwork(f[i])
    OBVIOUS
  <2>1. f[i].refs = {<<"subnet", <<"sub", i>>>>}
    BY <1>4
  <2>2. Refs(f[i], "subnet") = {<<"sub", i>>}
    <3> DEFINE e == f[i]
               t == <<"sub", i>>
    <3>1. e.refs = {<<"subnet", t>>}
      BY <2>1
    <3> HIDE DEF e, t
    <3>2. Refs(e, "subnet") = {t}
      BY <3>1, OneRef
    <3> QED BY <3>2 DEF e, t
  <2> QED BY <1>2, <1>4, <2>1, <2>2 DEF OctaviaNetwork, Is, Panic
<1>10. ASSUME NEW e \in lbs
       PROVE  /\ Is(e, "lb", {"lb"}, {"network"}) /\ e.key[2] \in 1..sc.lbs
              /\ Refs(e, "network") = {<<"net", netOf(e.key[2])>>}
              /\ netOf(e.key[2]) \in 1..sc.networks
  <2>1. PICK i \in 1..sc.lbs : e = g[i]
    OBVIOUS
  <2>2. sc.networks \in Nat \ {0} /\ i - 1 \in Int
    BY <1>2
  <2>3. netOf(i) \in 1..sc.networks
    BY <2>2, Division DEF netOf
  <2>4. roundRobin("net", i - 1, sc.networks) = <<"net", netOf(i)>>
    BY <2>2 DEF roundRobin, netOf
  <2>5. e.refs = {<<"network", <<"net", netOf(i)>>>>}
    BY <1>5, <2>1, <2>4
  <2>6. Refs(e, "network") = {<<"net", netOf(i)>>}
    BY <2>5, OneRef
  <2>7. e.key = <<"lb", i>> /\ e.kind = "lb"
    BY <1>5, <2>1
  <2>8. Is(e, "lb", {"lb"}, {"network"})
    BY <1>2, <2>5, <2>7 DEF Is, Panic
  <2> QED BY <2>3, <2>6, <2>7, <2>8
<1> HIDE DEF nets, lbs
<1>11. IsFiniteSet(new) /\ UniqueIn(new)
  <2>1. \A a \in nets, b \in lbs : a.key # b.key
    BY <1>9, <1>10 DEF OctaviaNetwork, Is
  <2> QED BY <1>7, <1>8, <2>1, BothUnique
<1>12. /\ Common' /\ sc' = sc /\ plan' = new
       /\ phase' = "generate" => step' = 2
  <2>1. \A e \in new : \A r \in e.refs : r[2] # Panic
    BY <1>9, <1>10 DEF OctaviaNetwork, Is
  <2> QED BY <1>1, <1>3, <1>11, <2>1, EmitKeeps
<1>13. Names("net", sc.networks) \subseteq Keys("network")' /\ Names("lb", sc.lbs) \subseteq Keys("lb")'
  <2>1. ASSUME NEW i \in 1..sc.networks PROVE <<"net", i>> \in Keys("network")'
    <3>1. f[i] \in plan' /\ f[i].kind = "network" /\ f[i].key = <<"net", i>>
      BY <1>4, <1>12
    <3> QED BY <3>1 DEF Keys, Of
  <2>2. ASSUME NEW i \in 1..sc.lbs PROVE <<"lb", i>> \in Keys("lb")'
    <3>1. g[i] \in plan' /\ g[i].kind = "lb" /\ g[i].key = <<"lb", i>>
      BY <1>5, <1>12
    <3> QED BY <3>1 DEF Keys, Of
  <2> QED BY <2>1, <2>2 DEF Names
<1>14. \A e \in plan' : OctaviaEntry(e)' /\ e.kind \in {"network", "lb"}
  <2>1. ASSUME NEW e \in nets PROVE OctaviaEntry(e)' /\ e.kind \in {"network", "lb"}
    BY <1>9, <1>12 DEF OctaviaNetwork, OctaviaEntry, Is
  <2>2. ASSUME NEW e \in lbs PROVE OctaviaEntry(e)' /\ e.kind \in {"network", "lb"}
    <3>1. Refs(e, "network") \subseteq Keys("network")'
      BY <1>10, <1>13 DEF Names
    <3> QED BY <1>10, <1>12, <3>1 DEF OctaviaBalancer, OctaviaEntry, Is, netOf
  <2> QED BY <1>12, <2>1, <2>2
<1>15. ListenersApart' /\ Unshared("monitor", "pool")'
  BY <1>14 DEF ListenersApart, Unshared, Of
<1>16. phase' = "generate" => OctaviaGenerates'
  <2>1. \A j \in Nat \ {0} : ~(j < 2 - 1)
    OBVIOUS
  <2> QED BY <1>12, <1>13, <1>14, <2>1 DEF OctaviaGenerates
<1> QED BY <1>12, <1>14, <1>15, <1>16 DEF OctaviaInv

\* The search for a free port finds one while there is one.
LEMMA FreePortIsFree ==
  ASSUME NEW port, NEW taken, sc.lport.lo \in Nat, sc.lport.hi \in Nat, sc.lport.lo <= sc.lport.hi,
         port \in randRange(sc.lport), ~(randRange(sc.lport) \subseteq taken)
  PROVE  freePort(port, taken) \in randRange(sc.lport) \ taken
<1> DEFINE free == randRange(sc.lport) \ taken
           width == sc.lport.hi - sc.lport.lo + 1
           up(x) == (x - port) % width
           Ups == {n \in Nat : \E x \in free : n = up(x)}
<1>1. width \in Nat \ {0} /\ port \in Int
  BY DEF randRange
<1>2. \A x \in free : x \in Int /\ up(x) \in Nat
  <2> SUFFICES ASSUME NEW x \in free PROVE x \in Int /\ up(x) \in Nat
    OBVIOUS
  <2>1. x \in Int
    BY DEF randRange
  <2> HIDE DEF width, free
  <2> QED BY <1>1, <2>1, Division
<1> HIDE DEF width
<1>3. Ups \in SUBSET Nat /\ Ups # {}
  <2>1. PICK x \in free : TRUE
    OBVIOUS
  <2>2. up(x) \in Ups
    BY <1>2, <2>1
  <2> QED BY <2>2
<1>4. PICK m \in Ups : \A j \in Ups : m <= j
  <2> HIDE DEF Ups
  <2> QED BY <1>3, LeastOf
<1>5. PICK x \in free : m = up(x)
  BY <1>4
<1>6. \A y \in free : up(x) <= up(y)
  BY <1>2, <1>4, <1>5
<1>7. freePort(port, taken) = CHOOSE z \in free : \A y \in free : up(z) <= up(y)
  BY DEF freePort, width
<1> HIDE DEF free, up
<1>8. freePort(port, taken) \in free
  BY <1>5, <1>6, <1>7
<1> QED BY <1>8 DEF free

\* The ports taken of a load balancer never fill its range: it has fewer
\* listeners than its share.
LEMMA PortsSuffice ==
  ASSUME Common, OctaviaInv, sc.service = "octavia", phase = "generate",
         step \in 2..(sc.listeners + 1), NEW taken,
         taken = {e.num : e \in {x \in Of("listener") : Refs(x, "lb") = {<<"lb", lbOf(step - 1)>>}}}
  PROVE  ~(randRange(sc.lport) \subseteq taken)
<1> SUFFICES ASSUME randRange(sc.lport) \subseteq taken PROVE FALSE
  OBVIOUS
<1> DEFINE i == step - 1
           A == {x \in Of("listener") : Refs(x, "lb") = {<<"lb", lbOf(i)>>}}
           q == (i - 1) \div sc.lbs
           range == randRange(sc.lport)
<1>1. /\ sc.listeners \in Nat /\ step \in Nat /\ i \in 1..sc.listeners /\ i - 1 \in Nat
      /\ sc.lbs \in Nat \ {0}
      /\ sc.lport.lo \in Nat \ {0} /\ sc.lport.hi \in Nat /\ sc.lport.lo <= sc.lport.hi
      /\ sc.lport.hi - sc.lport.lo + 1 >= (sc.listeners + sc.lbs - 1) \div sc.lbs
  <2>1. sc.listeners \in Nat /\ step \in Nat
    BY OctaviaScenario DEF Common
  <2>2. i \in 1..sc.listeners /\ i - 1 \in Nat /\ sc.listeners > 0
    BY <2>1
  <2>3. sc.lbs \in Nat \ {0}
    BY <2>2, OctaviaScenario
  <2> QED BY <2>1, <2>2, <2>3, OctaviaScenario
<1> HIDE DEF i
<1>2. \A x \in A : /\ x \in plan /\ OctaviaListenerEntry(x) /\ x.key[2] \in 1..sc.listeners
                   /\ x.key[2] < i /\ lbOf(x.key[2]) = lbOf(i)
  <2> SUFFICES ASSUME NEW x \in A
               PROVE  /\ x \in plan /\ OctaviaListenerEntry(x) /\ x.key[2] \in 1..sc.listeners
                      /\ x.key[2] < i /\ lbOf(x.key[2]) = lbOf(i)
    OBVIOUS
  <2>1. x \in plan /\ x.kind = "listener" /\ Refs(x, "lb") = {<<"lb", lbOf(i)>>}
    BY DEF Of
  <2>2. OctaviaListenerEntry(x)
    BY <2>1, OctaviaKinds DEF OctaviaInv
  <2>3. x.key[2] < step - 1
    BY <2>1 DEF OctaviaInv, OctaviaGenerates
  <2>4. {<<"lb", lbOf(x.key[2])>>} = {<<"lb", lbOf(i)>>}
    BY <2>1, <2>2 DEF OctaviaListenerEntry
  <2>5. lbOf(x.key[2]) = lbOf(i)
    <3>1. <<"lb", lbOf(x.key[2])>> = <<"lb", lbOf(i)>>
      BY <2>4
    <3> QED BY <3>1
  <2> QED BY <2>1, <2>2, <2>3, <2>5 DEF OctaviaListenerEntry, i
<1> DEFINE place == [x \in A |-> (x.key[2] - 1) \div sc.lbs]
<1>3. \A x \in A : /\ x.key[2] - 1 \in Nat /\ (x.key[2] - 1) % sc.lbs = (i - 1) % sc.lbs
                   /\ x.key[2] - 1 < i - 1
  <2> SUFFICES ASSUME NEW x \in A
               PROVE  /\ x.key[2] - 1 \in Nat /\ (x.key[2] - 1) % sc.lbs = (i - 1) % sc.lbs
                      /\ x.key[2] - 1 < i - 1
    OBVIOUS
  <2>1. x.key[2] \in 1..sc.listeners /\ x.key[2] < i /\ lbOf(x.key[2]) = lbOf(i)
    BY <1>2
  <2> HIDE DEF A
  <2> DEFINE a == x.key[2] - 1
             b == i - 1
  <2>20. a \in Int /\ b \in Int /\ sc.lbs \in Nat \ {0}
    BY <1>1, <2>1
  <2>2. (x.key[2] - 1) % sc.lbs \in Int /\ (i - 1) % sc.lbs \in Int
    <3>1. a % sc.lbs \in Int /\ b % sc.lbs \in Int
      <4> HIDE DEF a, b
      <4> QED BY <2>20, ModIsInt
    <3> QED BY <3>1
  <2> QED BY <1>1, <2>1, <2>2 DEF lbOf
<1>4. \A x \in A : (x.key[2] - 1) \div sc.lbs \in 0..(q - 1)
  <2> SUFFICES ASSUME NEW x \in A PROVE (x.key[2] - 1) \div sc.lbs \in 0..(q - 1)
    OBVIOUS
  <2>1. (x.key[2] - 1) \div sc.lbs < q
    BY <1>1, <1>3, QuotientOrder
  <2>2. (x.key[2] - 1) \div sc.lbs \in Nat /\ q \in Nat
    <3> DEFINE a == x.key[2] - 1
               b == i - 1
    <3>1. a \in Nat /\ b \in Nat /\ sc.lbs \in Nat \ {0}
      BY <1>1, <1>3
    <3>2. a \div sc.lbs \in Nat /\ b \div sc.lbs \in Nat
      <4> HIDE DEF a, b
      <4> QED BY <3>1, QuotientIsNat
    <3> QED BY <3>2
  <2> QED BY <2>1, <2>2
<1>5. \A x, y \in A : place[x] = place[y] => x = y
  <2> SUFFICES ASSUME NEW x \in A, NEW y \in A, place[x] = place[y] PROVE x = y
    OBVIOUS
  <2>1. (x.key[2] - 1) \div sc.lbs = (y.key[2] - 1) \div sc.lbs
    OBVIOUS
  <2>2. x.key[2] - 1 = y.key[2] - 1
    <3> DEFINE a == x.key[2] - 1
               b == y.key[2] - 1
    <3>1. a \in Nat /\ b \in Nat /\ sc.lbs \in Nat \ {0} /\ a % sc.lbs = b % sc.lbs
      BY <1>1, <1>3
    <3>2. a \div sc.lbs = b \div sc.lbs
      BY <2>1
    <3>3. a = b
      <4> HIDE DEF a, b
      <4> QED BY <3>1, <3>2, QuotientOrder
    <3> QED BY <3>3
  <2>3. x.key[2] = y.key[2]
    BY <1>2, <2>2
  <2>4. x.key = y.key
    BY <1>2, <2>3 DEF OctaviaListenerEntry, Is
  <2> QED BY <1>2, <2>4 DEF Common, UniqueIn
<1>6. q \in Nat /\ q < sc.lport.hi - sc.lport.lo + 1
  <2>1. q < (sc.listeners + sc.lbs - 1) \div sc.lbs
    BY <1>1, QuotientBelow
  <2>2. q \in Nat /\ (sc.listeners + sc.lbs - 1) \div sc.lbs \in Int
    <3> DEFINE a == i - 1
               b == sc.listeners + sc.lbs - 1
    <3>1. a \in Nat /\ b \in Int /\ sc.lbs \in Nat \ {0}
      BY <1>1
    <3>2. a \div sc.lbs \in Nat /\ b \div sc.lbs \in Int
      <4> HIDE DEF a, b
      <4> QED BY <3>1, QuotientIsNat, QuotientIsInt
    <3> QED BY <3>2
  <2> QED BY <1>1, <2>1, <2>2
<1>7. IsFiniteSet(A) /\ Cardinality(A) <= q
  <2>1. place \in Injection(A, 0..(q - 1))
    BY <1>4, <1>5 DEF Injection, IsInjective
  <2> HIDE DEF place, A, q
  <2>2. IsFiniteSet(0..(q - 1)) /\ Cardinality(0..(q - 1)) = q
    <3>1. 0 \in Int /\ q - 1 \in Int
      BY <1>6
    <3>2. IsFiniteSet(0..(q - 1))
      BY <3>1, FS_Interval
    <3>3. Cardinality(0..(q - 1)) = IF 0 > q - 1 THEN 0 ELSE (q - 1) - 0 + 1
      BY <3>1, FS_Interval
    <3> QED BY <1>6, <3>2, <3>3
  <2> QED BY <2>1, <2>2, FS_Injection
<1>8. IsFiniteSet(taken) /\ Cardinality(taken) <= Cardinality(A)
  <2> DEFINE num == [x \in A |-> x.num]
  <2>1. taken = {x.num : x \in A}
    BY DEF i
  <2>2. num \in Surjection(A, taken)
    BY <2>1 DEF Surjection
  <2> HIDE DEF num, A
  <2> QED BY <1>7, <2>2, FS_Surjection
<1>9. Cardinality(range) <= Cardinality(taken)
  BY <1>8, FS_Subset
<1>10. Cardinality(range) = sc.lport.hi - sc.lport.lo + 1
  <2>1. range = sc.lport.lo .. sc.lport.hi
    BY DEF randRange
  <2> HIDE DEF range
  <2>2. sc.lport.lo \in Int /\ sc.lport.hi \in Int
    BY <1>1
  <2>3. Cardinality(sc.lport.lo .. sc.lport.hi) =
          IF sc.lport.lo > sc.lport.hi THEN 0 ELSE sc.lport.hi - sc.lport.lo + 1
    BY <2>2, FS_Interval
  <2> QED BY <1>1, <2>1, <2>3
<1>11. Cardinality(A) \in Nat /\ Cardinality(taken) \in Nat
  BY <1>7, <1>8, FS_CardinalityType
<1> HIDE DEF A, q, range
<1> QED BY <1>1, <1>6, <1>7, <1>8, <1>9, <1>10, <1>11

LEMMA OctaviaListenerStep ==
  ASSUME Common, OctaviaInv, OctaviaListener
  PROVE  Common' /\ OctaviaInv' /\ sc' = sc
<1>1. /\ phase = "generate" /\ sc.service = "octavia" /\ sc.service # "mix"
      /\ step \in 2..(sc.listeners + 1)
  BY DEF OctaviaListener
<1> DEFINE i == step - 1
<1>2. /\ sc.listeners \in Nat /\ step \in Nat /\ i \in 1..sc.listeners /\ i - 1 \in Int
      /\ i < step /\ i \in Nat /\ sc.lbs \in Nat \ {0}
      /\ sc.lport.lo \in Nat /\ sc.lport.hi \in Nat /\ sc.lport.lo <= sc.lport.hi
  <2>1. sc.listeners \in Nat /\ step \in Nat
    BY <1>1, OctaviaScenario DEF Common
  <2>2. sc.listeners > 0 /\ i \in 1..sc.listeners /\ i - 1 \in Int /\ i < step /\ i \in Nat
    BY <1>1, <2>1
  <2> QED BY <1>1, <2>1, <2>2, OctaviaScenario
<1>3. /\ \A e \in plan : OctaviaEntry(e)
      /\ ListenersApart /\ Unshared("monitor", "pool") /\ OctaviaGenerates
  BY <1>1 DEF OctaviaInv
<1> DEFINE lb == <<"lb", lbOf(i)>>
           taken == {e.num : e \in {x \in Of("listener") : Refs(x, "lb") = {lb}}}
<1>4. roundRobin("lb", i - 1, sc.lbs) = lb /\ lbOf(i) \in 1..sc.lbs
  <2>1. lbOf(i) \in 1..sc.lbs
    BY <1>2, Division DEF lbOf
  <2> QED BY <1>2, <2>1 DEF roundRobin, lbOf
<1>5. ~(randRange(sc.lport) \subseteq taken)
  BY <1>1, PortsSuffice
<1> HIDE DEF taken
<1>6. PICK port \in randRange(sc.lport) :
          Emit({Entry(<<"lsn", i>>, "listener", {<<"lb", lb>>}, {}, freePort(port, taken)),
                Entry(<<"pool", i>>, "pool", {<<"listener", <<"lsn", i>>>>}, {}, 1)},
               step + 1)
  BY <1>4, <1>5 DEF OctaviaListener, taken
<1> DEFINE lsn == Entry(<<"lsn", i>>, "listener", {<<"lb", lb>>}, {}, freePort(port, taken))
           pool == Entry(<<"pool", i>>, "pool", {<<"listener", <<"lsn", i>>>>}, {}, 1)
           new == {lsn, pool}
<1>7. freePort(port, taken) \in randRange(sc.lport) \ taken
  BY <1>2, <1>5, <1>6, FreePortIsFree
<1>8. /\ lsn.key = <<"lsn", i>> /\ lsn.kind = "listener" /\ lsn.refs = {<<"lb", lb>>}
      /\ lsn.num \in randRange(sc.lport) /\ lsn.num \notin taken
      /\ pool.key = <<"pool", i>> /\ pool.kind = "pool" /\ pool.refs = {<<"listener", <<"lsn", i>>>>}
  BY <1>7 DEF Entry
<1>9. Emit(new, step + 1) /\ step + 1 \in Nat
  BY <1>2, <1>6
<1> HIDE DEF lsn, pool
<1>10. Refs(lsn, "lb") = {lb} /\ Refs(pool, "listener") = {<<"lsn", i>>}
  <2>1. lsn.refs = {<<"lb", lb>>}
    BY <1>8
  <2>2. pool.refs = {<<"listener", <<"lsn", i>>>>}
    BY <1>8
  <2>3. Refs(lsn, "lb") = {lb}
    BY <2>1, OneRef
  <2>4. Refs(pool, "listener") = {<<"lsn", i>>}
    BY <2>2, OneRef
  <2> QED BY <2>3, <2>4
<1>11. Is(lsn, "listener", {"lsn"}, {"lb"}) /\ Is(pool, "pool", {"pool"}, {"listener"})
  <2>1. \A r \in lsn.refs : r[1] \in {"lb"} /\ r[2] # Panic
    BY <1>8 DEF Panic
  <2>2. \A r \in pool.refs : r[1] \in {"listener"} /\ r[2] # Panic
    BY <1>8 DEF Panic
  <2> HIDE DEF i
  <2> QED BY <1>2, <1>8, <2>1, <2>2 DEF Is
<1>12. IsFiniteSet(new) /\ UniqueIn(new)
  <2>1. new = {lsn} \cup {pool} /\ lsn.key # pool.key
    BY <1>8
  <2>2. \A a \in {lsn}, b \in {pool} : a.key # b.key
    BY <2>1
  <2>3. /\ IsFiniteSet({lsn}) /\ UniqueIn({lsn})
        /\ IsFiniteSet({pool}) /\ UniqueIn({pool})
    BY OneIsUnique
  <2>4. IsFiniteSet({lsn} \cup {pool}) /\ UniqueIn({lsn} \cup {pool})
    BY <2>2, <2>3, BothUnique
  <2> QED BY <2>1, <2>4
<1>13. \A a \in plan, b \in new : a.key # b.key
  <2> SUFFICES ASSUME NEW a \in plan PROVE a.key # lsn.key /\ a.key # pool.key
    OBVIOUS
  <2>1. a.kind \in {"listener", "pool"} => a.key[2] # i
    <3>1. a.kind \in {"listener", "pool"} => a.key[2] < i
      BY <1>3 DEF OctaviaGenerates
    <3> HIDE DEF i
    <3> QED BY <1>2, <3>1
  <2>2. a.kind \notin {"listener", "pool"} => a.key[1] \notin {"lsn", "pool"}
    BY <1>3 DEF OctaviaEntry, OctaviaNetwork, OctaviaBalancer, OctaviaListenerEntry, OctaviaPool,
                OctaviaMemberEntry, OctaviaMonitor, Is
  <2> HIDE DEF i
  <2> QED BY <1>8, <2>1, <2>2
<1>14. /\ Common' /\ sc' = sc /\ plan' = plan \cup new
       /\ phase' = "generate" => step' = step + 1
  <2>1. \A e \in new : \A r \in e.refs : r[2] # Panic
    BY <1>11 DEF Is
  <2> HIDE DEF new
  <2> QED BY <1>1, <1>9, <1>12, <1>13, <2>1, EmitKeeps
<1>15. PICK here : here = lsn
  OBVIOUS
<1>16. PICK there : there = pool
  OBVIOUS
<1>17. PICK n \in 1..sc.listeners : n = i
  BY <1>2
<1> HIDE DEF i, lb
<1>18. Of("listener")' = Of("listener") \cup {here} /\ Of("monitor")' = Of("monitor")
  BY <1>8, <1>14, <1>15, <1>16 DEF Of
<1>19. here \in plan' /\ there \in plan'
  BY <1>14, <1>15, <1>16
<1>20. /\ <<"lsn", n>> \in Keys("listener")' /\ <<"pool", n>> \in Keys("pool")'
       /\ <<"lb", lbOf(n)>> \in Keys("lb")
  <2>1. <<"lsn", n>> \in Keys("listener")' /\ <<"pool", n>> \in Keys("pool")'
    BY <1>8, <1>15, <1>16, <1>17, <1>19 DEF Keys, Of
  <2>2. step > 1
    BY <1>1, <1>2
  <2>3. <<"lb", lbOf(n)>> \in Names("lb", sc.lbs)
    BY <1>4, <1>17 DEF Names
  <2> QED BY <1>3, <2>1, <2>2, <2>3 DEF OctaviaGenerates
<1>21. plan \subseteq plan'
  BY <1>14
<1>22. Keys("lb") \subseteq Keys("lb")'
  BY <1>21, KeysGrow
<1>23. OctaviaListenerEntry(here)'
  <2>1. /\ Is(here, "listener", {"lsn"}, {"lb"}) /\ here.key[2] = n /\ Refs(here, "lb") = {<<"lb", lbOf(n)>>}
        /\ here.num \in randRange(sc.lport)
    BY <1>8, <1>10, <1>11, <1>15, <1>17 DEF lb
  <2> QED BY <1>14, <1>20, <1>22, <2>1 DEF OctaviaListenerEntry, lbOf
<1>24. OctaviaPool(there)'
  <2>1. /\ Is(there, "pool", {"pool"}, {"listener"}) /\ there.key[2] = n
        /\ Refs(there, "listener") = {<<"lsn", n>>}
    BY <1>8, <1>10, <1>11, <1>16, <1>17
  <2> QED BY <1>14, <1>20, <2>1 DEF OctaviaPool
<1>25. \A e \in plan' : OctaviaEntry(e)'
  <2>1. \A e \in plan : OctaviaEntry(e)'
    BY <1>3, <1>14, <1>21, OctaviaGrows
  <2> QED BY <1>14, <1>15, <1>16, <1>23, <1>24, <2>1 DEF OctaviaEntry
<1>26. ListenersApart'
  <2>1. \A a \in Of("listener") : Refs(a, "lb") = Refs(here, "lb") => a.num # here.num
    BY <1>8, <1>10, <1>15 DEF taken
  <2> QED BY <1>3, <1>18, <2>1 DEF ListenersApart
<1>27. Unshared("monitor", "pool")'
  BY <1>3, <1>18 DEF Unshared
<1>28. ASSUME phase' = "generate" PROVE OctaviaGenerates'
  <2>1. step' = step + 1 /\ step' > 1 /\ step' # 1 /\ step' - 1 = n + 1
    BY <1>1, <1>2, <1>14, <1>17, <1>28 DEF i
  <2>2. /\ Names("net", sc.networks) \subseteq Keys("network")
        /\ Names("lb", sc.lbs) \subseteq Keys("lb")
        /\ \A j \in 1..sc.listeners : j < n =>
             <<"lsn", j>> \in Keys("listener") /\ <<"pool", j>> \in Keys("pool")
    <3>1. step > 1 /\ step - 1 = n
      BY <1>1, <1>2, <1>17 DEF i
    <3> QED BY <1>3, <3>1 DEF OctaviaGenerates
  <2>3. /\ Keys("network") \subseteq Keys("network")' /\ Keys("lb") \subseteq Keys("lb")'
        /\ Keys("listener") \subseteq Keys("listener")' /\ Keys("pool") \subseteq Keys("pool")'
    BY <1>21, KeysGrow
  <2>4. \A j \in 1..sc.listeners : j < step' - 1 =>
             <<"lsn", j>> \in Keys("listener")' /\ <<"pool", j>> \in Keys("pool")'
    <3> SUFFICES ASSUME NEW j \in 1..sc.listeners, j < n + 1
                 PROVE  <<"lsn", j>> \in Keys("listener")' /\ <<"pool", j>> \in Keys("pool")'
      BY <2>1
    <3>1. j < n \/ j = n
      BY <1>2
    <3> QED BY <1>20, <2>2, <2>3, <3>1
  <2>5. ASSUME NEW e \in plan'
        PROVE  /\ e.kind \in {"listener", "pool"} => e.key[2] < step' - 1
               /\ e.kind = "member" => step' = sc'.listeners + 3
               /\ e.kind # "monitor"
    <3>1. CASE e \in plan
      <4>1. /\ e.kind \in {"listener", "pool"} => e.key[2] < n
            /\ e.kind # "member" /\ e.kind # "monitor"
        <5>1. step - 1 = n /\ step # sc.listeners + 3
          BY <1>1, <1>2, <1>17 DEF i
        <5> QED BY <1>3, <3>1, <5>1 DEF OctaviaGenerates
      <4>2. e.kind \in {"listener", "pool"} => e.key[2] \in Nat
        BY <1>3, <3>1, OctaviaKinds DEF OctaviaListenerEntry, OctaviaPool, Is
      <4> QED BY <2>1, <4>1, <4>2
    <3>2. CASE e \in new
      <4>1. e.key[2] = n /\ e.kind \in {"listener", "pool"}
        BY <1>8, <1>17, <3>2
      <4> QED BY <2>1, <4>1
    <3> QED BY <1>14, <3>1, <3>2
  <2> QED BY <1>14, <2>1, <2>2, <2>3, <2>4, <2>5 DEF OctaviaGenerates
<1> QED BY <1>14, <1>25, <1>26, <1>27, <1>28 DEF OctaviaInv

LEMMA OctaviaMembersStep ==
  ASSUME Common, OctaviaInv, OctaviaMembers
  PROVE  Common' /\ OctaviaInv' /\ sc' = sc
<1>1. /\ phase = "generate" /\ sc.service = "octavia" /\ sc.service # "mix"
      /\ step = sc.listeners + 2
  BY DEF OctaviaMembers, At
<1>2. /\ sc.listeners \in Nat /\ sc.members \in Nat /\ step > 1 /\ step \in Nat /\ step # 1
      /\ sc.listeners + 3 \in Nat /\ sc.listeners + 3 # 0
      /\ sc.members > 0 => /\ sc.listeners \in Nat \ {0} /\ sc.lbs \in Nat \ {0}
                           /\ sc.networks \in Nat \ {0}
  <2>1. sc.listeners \in Nat /\ sc.members \in Nat
    BY <1>1, OctaviaScenario
  <2>2. sc.members > 0 => sc.listeners \in Nat \ {0} /\ sc.lbs \in Nat \ {0}
    BY <1>1, <2>1, OctaviaScenario
  <2>3. sc.members > 0 => sc.networks \in Nat \ {0}
    BY <1>1, <2>2, OctaviaScenario
  <2> QED BY <1>1, <2>1, <2>2, <2>3
<1>3. /\ \A e \in plan : OctaviaEntry(e)
      /\ ListenersApart /\ Unshared("monitor", "pool") /\ OctaviaGenerates
  BY <1>1 DEF OctaviaInv
<1> DEFINE D == 0..(sc.members - 1)
           pool(m) == roundRobin("pool", m, sc.listeners)
           net(m) == roundRobin("net", (m % sc.listeners) % sc.lbs, sc.networks)
           f == [m \in D |-> Entry(<<"member", m + 1>>, "member",
                    {<<"pool", pool(m)>>, <<"named", pool(m)>>, <<"addr", net(m)>>}, {},
                    Cardinality({x \in 0..m : net(x) = net(m)}))]
           new == {f[m] : m \in D}
<1>4. Emit(new, sc.listeners + 3)
  BY DEF OctaviaMembers
<1>5. \A m \in D : /\ f[m].key = <<"member", m + 1>> /\ f[m].kind = "member"
                   /\ f[m].refs = {<<"pool", pool(m)>>, <<"named", pool(m)>>, <<"addr", net(m)>>}
                   /\ f[m].num = Cardinality({x \in 0..m : net(x) = net(m)})
  BY DEF Entry
<1>6. \A m \in D : /\ m \in Nat /\ sc.listeners \in Nat \ {0} /\ sc.lbs \in Nat \ {0}
                   /\ sc.networks \in Nat \ {0}
  BY <1>2
<1>7. \A m \in Nat : sc.members > 0 =>
        /\ poolOf(m) \in 1..sc.listeners /\ memberNet(m) \in Nat
        /\ pool(m) = <<"pool", poolOf(m)>> /\ net(m) = <<"net", memberNet(m)>>
  <2> SUFFICES ASSUME NEW m \in Nat, sc.members > 0
               PROVE  /\ poolOf(m) \in 1..sc.listeners /\ memberNet(m) \in Nat
                      /\ pool(m) = <<"pool", poolOf(m)>> /\ net(m) = <<"net", memberNet(m)>>
    OBVIOUS
  <2>1. sc.listeners \in Nat \ {0} /\ sc.lbs \in Nat \ {0} /\ sc.networks \in Nat \ {0}
    BY <1>2
  <2>20. m % sc.listeners \in Int
    BY <2>1, ModIsInt
  <2>21. (m % sc.listeners) + 1 \in 1..sc.listeners
    BY <2>1, PlaceIsOne
  <2>2. m % sc.listeners \in Int /\ poolOf(m) \in 1..sc.listeners
    BY <2>20, <2>21 DEF poolOf
  <2>3. (m % sc.listeners) % sc.lbs \in Int
    BY <2>1, <2>2, ModIsInt
  <2>4. memberNet(m) \in 1..sc.networks
    BY <2>1, <2>3, Division DEF memberNet
  <2>5. ~(sc.listeners < 1) /\ ~(sc.networks < 1)
    BY <2>1
  <2>6. pool(m) = <<"pool", poolOf(m)>> /\ net(m) = <<"net", memberNet(m)>>
    BY <2>5 DEF roundRobin, poolOf, memberNet
  <2> QED BY <2>2, <2>4, <2>6
<1> HIDE DEF f
<1>8. IsFiniteSet(D)
  <2>1. 0 \in Int /\ sc.members - 1 \in Int
    BY <1>2
  <2> QED BY <2>1, FS_Interval
<1>9. IsFiniteSet(new) /\ UniqueIn(new)
  <2>1. \A i, j \in D : f[i].key = f[j].key => i = j
    <3> SUFFICES ASSUME NEW i \in D, NEW j \in D, f[i].key = f[j].key PROVE i = j
      OBVIOUS
    <3>1. <<"member", i + 1>> = <<"member", j + 1>>
      BY <1>5
    <3>2. i + 1 = j + 1 /\ i \in Nat /\ j \in Nat
      BY <1>6, <3>1
    <3> QED BY <3>2
  <2>2. \A e \in new : \E i \in D : e = f[i]
    OBVIOUS
  <2> HIDE DEF D, new
  <2>3. \A h : /\ \A e \in new : \E i \in D : e = h[i]
               /\ \A i, j \in D : h[i].key = h[j].key => i = j
               => IsFiniteSet(new) /\ UniqueIn(new)
    BY <1>8, Numbered
  <2> QED BY <2>1, <2>2, <2>3
<1>10. ASSUME NEW m \in D
       PROVE  /\ Is(f[m], "member", {"member"}, {"pool", "named", "addr"})
              /\ f[m].key[2] \in 1..sc.members /\ f[m].key[2] - 1 = m
              /\ Refs(f[m], "pool") = {<<"pool", poolOf(m)>>} /\ Refs(f[m], "named") = Refs(f[m], "pool")
              /\ Refs(f[m], "addr") = {<<"net", memberNet(m)>>}
              /\ f[m].num = memberRank(m)
              /\ <<"pool", poolOf(m)>> \in Keys("pool")
  <2>1. m \in Nat /\ sc.members > 0 /\ m < sc.members
    BY <1>2
  <2>2. /\ poolOf(m) \in 1..sc.listeners
        /\ pool(m) = <<"pool", poolOf(m)>> /\ net(m) = <<"net", memberNet(m)>>
    BY <1>7, <2>1
  <2> HIDE DEF pool
  <2>3. f[m].refs = {<<"pool", <<"pool", poolOf(m)>>>>, <<"named", <<"pool", poolOf(m)>>>>,
                     <<"addr", <<"net", memberNet(m)>>>>}
    BY <1>5, <2>2
  <2>4. /\ <<"pool", <<"pool", poolOf(m)>>>> \in f[m].refs
        /\ <<"named", <<"pool", poolOf(m)>>>> \in f[m].refs
        /\ <<"addr", <<"net", memberNet(m)>>>> \in f[m].refs
        /\ \A r \in f[m].refs : /\ r[1] \in {"pool", "named", "addr"} /\ r[2] # Panic
                                /\ r[1] = "pool" => r[2] = <<"pool", poolOf(m)>>
                                /\ r[1] = "named" => r[2] = <<"pool", poolOf(m)>>
                                /\ r[1] = "addr" => r[2] = <<"net", memberNet(m)>>
    BY <2>3 DEF Panic
  <2>5. /\ Refs(f[m], "pool") = {<<"pool", poolOf(m)>>}
        /\ Refs(f[m], "named") = {<<"pool", poolOf(m)>>}
        /\ Refs(f[m], "addr") = {<<"net", memberNet(m)>>}
    BY <2>4, SoleRef
  <2>6. /\ f[m].key = <<"member", m + 1>> /\ f[m].kind = "member"
        /\ f[m].num = Cardinality({x \in 0..m : net(x) = net(m)})
    BY <1>5
  <2>7. f[m].key[2] \in 1..sc.members /\ f[m].key[2] - 1 = m
    BY <1>2, <2>1, <2>6
  <2>8. Is(f[m], "member", {"member"}, {"pool", "named", "addr"})
    BY <2>1, <2>4, <2>6 DEF Is
  <2>9. {x \in 0..m : net(x) = net(m)} = {x \in 0..m : memberNet(x) = memberNet(m)}
    <3>1. \A x \in 0..m : net(x) = <<"net", memberNet(x)>>
      BY <1>7, <2>1
    <3> HIDE DEF net
    <3> QED BY <2>2, <3>1
  <2>10. <<"pool", poolOf(m)>> \in Keys("pool")
    <3>1. poolOf(m) < step - 1
      BY <1>1, <1>2, <2>2
    <3> QED BY <1>2, <1>3, <2>2, <3>1 DEF OctaviaGenerates
  <2> QED BY <2>5, <2>6, <2>7, <2>8, <2>9, <2>10 DEF memberRank
<1>11. \A a \in plan, b \in new : a.key # b.key
  <2>1. \A a \in plan : a.kind # "member"
    <3>1. step # sc.listeners + 3
      BY <1>1, <1>2
    <3> QED BY <1>3, <3>1 DEF OctaviaGenerates
  <2>2. \A a \in plan : a.key[1] # "member"
    BY <1>3, <2>1 DEF OctaviaEntry, OctaviaNetwork, OctaviaBalancer, OctaviaListenerEntry, OctaviaPool,
                OctaviaMemberEntry, OctaviaMonitor, Is
  <2>3. ASSUME NEW m \in D PROVE f[m].key[1] = "member"
    BY <1>10, <2>3 DEF Is
  <2> HIDE DEF D
  <2>4. \A b \in new : b.key[1] = "member"
    BY <2>3
  <2> QED BY <2>2, <2>4
<1>12. /\ Common' /\ sc' = sc /\ plan' = plan \cup new
       /\ phase' = "generate" => step' = sc.listeners + 3
  <2>1. \A e \in new : \A r \in e.refs : r[2] # Panic
    BY <1>10 DEF Is
  <2>2. sc.listeners + 3 \in Nat
    BY <1>2
  <2> HIDE DEF new, D
  <2> QED BY <1>1, <1>4, <1>9, <1>11, <2>1, <2>2, EmitKeeps
<1>13. plan \subseteq plan'
  BY <1>12
<1>14. Keys("pool") \subseteq Keys("pool")'
  BY <1>13, KeysGrow
<1>15. ASSUME NEW e \in new PROVE OctaviaMemberEntry(e)'
  <2>1. PICK m \in D : e = f[m]
    OBVIOUS
  <2>2. /\ Is(e, "member", {"member"}, {"pool", "named", "addr"})
        /\ e.key[2] \in 1..sc.members /\ e.key[2] - 1 = m
        /\ Refs(e, "pool") = {<<"pool", poolOf(m)>>} /\ Refs(e, "named") = Refs(e, "pool")
        /\ Refs(e, "addr") = {<<"net", memberNet(m)>>}
        /\ e.num = memberRank(m)
        /\ <<"pool", poolOf(m)>> \in Keys("pool")
    BY <1>10, <2>1
  <2> QED BY <1>12, <1>14, <2>2 DEF OctaviaMemberEntry, poolOf, memberNet, memberRank
<1>16. \A e \in plan' : OctaviaEntry(e)'
  <2>1. \A e \in plan : OctaviaEntry(e)'
    BY <1>3, <1>12, <1>13, OctaviaGrows
  <2> QED BY <1>12, <1>15, <2>1 DEF OctaviaEntry
<1>17. \A e \in new : e.kind = "member"
  BY <1>10 DEF Is
<1>18. Of("listener")' = Of("listener") /\ Of("monitor")' = Of("monitor")
  BY <1>12, <1>17 DEF Of
<1>19. ListenersApart' /\ Unshared("monitor", "pool")'
  BY <1>3, <1>18 DEF ListenersApart, Unshared
<1>20. ASSUME phase' = "generate" PROVE OctaviaGenerates'
  <2>1. step' = sc.listeners + 3 /\ step' # 1
    BY <1>2, <1>12, <1>20
  <2>2. /\ Keys("network") \subseteq Keys("network")' /\ Keys("lb") \subseteq Keys("lb")'
        /\ Keys("listener") \subseteq Keys("listener")' /\ Keys("pool") \subseteq Keys("pool")'
    BY <1>13, KeysGrow
  <2>3. /\ Names("net", sc.networks) \subseteq Keys("network")
        /\ Names("lb", sc.lbs) \subseteq Keys("lb")
        /\ \A j \in 1..sc.listeners : <<"lsn", j>> \in Keys("listener") /\ <<"pool", j>> \in Keys("pool")
    <3>1. \A j \in 1..sc.listeners : j < step - 1
      BY <1>1, <1>2
    <3> QED BY <1>2, <1>3, <3>1 DEF OctaviaGenerates
  <2>4. \A e \in plan' : /\ e.kind \in {"listener", "pool"} => e.key[2] < step' - 1
                         /\ e.kind = "member" => step' = sc'.listeners + 3
                         /\ e.kind # "monitor"
    <3>1. ASSUME NEW e \in plan, e.kind \in {"listener", "pool"} PROVE e.key[2] < step' - 1
      <4>1. e.key[2] \in 1..sc.listeners
        BY <1>3, <3>1, OctaviaKinds DEF OctaviaListenerEntry, OctaviaPool
      <4> QED BY <1>2, <2>1, <4>1
    <3>2. \A e \in plan : e.kind # "monitor"
      BY <1>3 DEF OctaviaGenerates
    <3> QED BY <1>12, <1>17, <2>1, <3>1, <3>2
  <2> QED BY <1>12, <2>1, <2>2, <2>3, <2>4 DEF OctaviaGenerates
<1> QED BY <1>12, <1>16, <1>19, <1>20 DEF OctaviaInv

\* Places counted by rank among the names of a set are different.
LEMMA RanksGrow ==
  ASSUME NEW S, IsFiniteSet(S), \A x \in S : x[2] \in Nat
  PROVE  \A x, y \in S :
           /\ Cardinality({q \in S : q[2] <= x[2]}) \in Nat
           /\ x[2] < y[2] => Cardinality({q \in S : q[2] <= x[2]}) < Cardinality({q \in S : q[2] <= y[2]})
<1> SUFFICES ASSUME NEW x \in S, NEW y \in S
             PROVE  /\ Cardinality({q \in S : q[2] <= x[2]}) \in Nat
                    /\ x[2] < y[2] => Cardinality({q \in S : q[2] <= x[2]}) < Cardinality({q \in S : q[2] <= y[2]})
  OBVIOUS
<1> DEFINE below(z) == {q \in S : q[2] <= z[2]}
<1>1. IsFiniteSet(below(x)) /\ IsFiniteSet(below(y))
  BY FS_Subset
<1>2. ASSUME x[2] < y[2] PROVE below(x) \in SUBSET below(y) /\ below(x) # below(y)
  <2>1. \A q \in S : q[2] <= x[2] => q[2] <= y[2]
    BY <1>2
  <2>2. y \in below(y) /\ y \notin below(x)
    BY <1>2
  <2> QED BY <2>1, <2>2
<1> HIDE DEF below
<1>3. x[2] < y[2] => Cardinality(below(x)) < Cardinality(below(y))
  BY <1>1, <1>2, PartIsSmaller
<1>4. Cardinality(below(x)) \in Nat
  BY <1>1, FS_CardinalityType
<1> QED BY <1>3, <1>4 DEF below

LEMMA OctaviaMonitorsStep ==
  ASSUME Common, OctaviaInv, OctaviaMonitors
  PROVE  Common' /\ OctaviaInv' /\ sc' = sc
<1>1. /\ phase = "generate" /\ sc.service = "octavia" /\ sc.service # "mix"
      /\ step = sc.listeners + 3
  BY DEF OctaviaMonitors, At
<1>2. /\ sc.listeners \in Nat /\ sc.monitors \in Nat /\ sc.monitors <= sc.listeners
      /\ step > 1
  <2>1. sc.listeners \in Nat /\ sc.monitors \in Nat /\ sc.monitors <= sc.listeners
    BY <1>1, OctaviaScenario
  <2> QED BY <1>1, <2>1
<1>3. /\ \A e \in plan : OctaviaEntry(e)
      /\ ListenersApart /\ OctaviaGenerates
  BY <1>1 DEF OctaviaInv
<1>4. Keys("pool") = Names("pool", sc.listeners)
  <2>1. \A j \in 1..sc.listeners : j < step - 1
    BY <1>1, <1>2
  <2>2. \A j \in 1..sc.listeners : <<"pool", j>> \in Keys("pool")
    BY <1>2, <1>3, <2>1 DEF OctaviaGenerates
  <2>3. ASSUME NEW k \in Keys("pool") PROVE k \in Names("pool", sc.listeners)
    <3>1. PICK e \in plan : e.kind = "pool" /\ e.key = k
      BY KeysAre
    <3>2. OctaviaPool(e)
      BY <1>3, <3>1, OctaviaKinds
    <3> QED BY <3>1, <3>2 DEF OctaviaPool, Is, Names
  <2>4. \A k \in Names("pool", sc.listeners) : k \in Keys("pool")
    BY <2>2 DEF Names
  <2> QED BY <2>3, <2>4
<1>5. PICK pools \in permPrefix(sc.monitors, Keys("pool")) :
       Emit({Entry(<<"hm", Cardinality({q \in pools : q[2] <= p[2]})>>, "monitor",
                   {<<"pool", p>>}, {}, 1) : p \in pools}, 0)
  BY DEF OctaviaMonitors
<1>6. pools \subseteq Keys("pool") /\ IsFiniteSet(pools)
  <2>1. IsFiniteSet(Keys("pool")) /\ Cardinality(Keys("pool")) = sc.listeners
    <3>1. sc.listeners \in Nat
      BY <1>2
    <3> QED BY <1>4, <3>1, NamesCounted
  <2>2. pools \subseteq Keys("pool")
    BY <1>2, <2>1, PrefixOf
  <2> QED BY <2>1, <2>2, FS_Subset
<1>7. \A p \in pools : p = <<"pool", p[2]>> /\ p[2] \in Nat /\ p # Panic
  BY <1>2, <1>4, <1>6 DEF Names, Panic
<1> DEFINE rank(p) == Cardinality({q \in pools : q[2] <= p[2]})
           f == [p \in pools |-> Entry(<<"hm", rank(p)>>, "monitor", {<<"pool", p>>}, {}, 1)]
           new == {f[p] : p \in pools}
<1>8. Emit(new, 0)
  BY <1>5
<1>9. \A p \in pools : /\ f[p].key = <<"hm", rank(p)>> /\ f[p].kind = "monitor"
                       /\ f[p].refs = {<<"pool", p>>}
  BY DEF Entry
<1> HIDE DEF f
<1>10. \A x, y \in pools : rank(x) \in Nat /\ (x[2] < y[2] => rank(x) < rank(y))
  BY <1>6, <1>7, RanksGrow
<1> HIDE DEF rank
<1>11. \A x, y \in pools : f[x].key = f[y].key => x = y
  <2> SUFFICES ASSUME NEW x \in pools, NEW y \in pools, f[x].key = f[y].key PROVE x = y
    OBVIOUS
  <2>1. <<"hm", rank(x)>> = <<"hm", rank(y)>>
    BY <1>9
  <2>2. rank(x) = rank(y)
    BY <2>1
  <2>3. x[2] = y[2]
    BY <1>7, <1>10, <2>2
  <2> QED BY <1>7, <2>3
<1>12. IsFiniteSet(new) /\ UniqueIn(new)
  <2>1. \A e \in new : \E x \in pools : e = f[x]
    OBVIOUS
  <2> HIDE DEF new
  <2>2. \A h : /\ \A e \in new : \E x \in pools : e = h[x]
               /\ \A x, y \in pools : h[x].key = h[y].key => x = y
               => IsFiniteSet(new) /\ UniqueIn(new)
    BY <1>6, Numbered
  <2> QED BY <1>11, <2>1, <2>2
<1>13. \A p \in pools : Is(f[p], "monitor", {"hm"}, {"pool"}) /\ Refs(f[p], "pool") = {p}
  <2> SUFFICES ASSUME NEW p \in pools
               PROVE  Is(f[p], "monitor", {"hm"}, {"pool"}) /\ Refs(f[p], "pool") = {p}
    OBVIOUS
  <2>1. f[p].refs = {<<"pool", p>>}
    BY <1>9
  <2>2. Refs(f[p], "pool") = {p}
    <3> DEFINE e == f[p]
    <3>1. e.refs = {<<"pool", p>>}
      BY <2>1
    <3> HIDE DEF e
    <3>2. Refs(e, "pool") = {p}
      BY <3>1, OneRef
    <3> QED BY <3>2 DEF e
  <2>3. \A r \in f[p].refs : r[1] \in {"pool"} /\ r[2] # Panic
    BY <1>7, <2>1
  <2> QED BY <1>9, <1>10, <2>2, <2>3 DEF Is
<1>14. \A a \in plan, b \in new : a.key # b.key
  <2>1. \A a \in plan : a.key[1] # "hm"
    BY <1>3 DEF OctaviaEntry, OctaviaNetwork, OctaviaBalancer, OctaviaListenerEntry, OctaviaPool,
                OctaviaMemberEntry, OctaviaMonitor, OctaviaGenerates, Is
  <2> QED BY <1>13, <2>1 DEF Is
<1>15. /\ Common' /\ sc' = sc /\ plan' = plan \cup new /\ phase' # "generate"
  <2>1. \A e \in new : \A r \in e.refs : r[2] # Panic
    BY <1>13 DEF Is
  <2> HIDE DEF new
  <2> QED BY <1>1, <1>8, <1>12, <1>14, <2>1, EmitKeeps
<1>16. plan \subseteq plan'
  BY <1>15
<1>17. Keys("pool") \subseteq Keys("pool")'
  BY <1>16, KeysGrow
<1>18. \A e \in plan' : OctaviaEntry(e)'
  <2>1. \A e \in plan : OctaviaEntry(e)'
    BY <1>3, <1>15, <1>16, OctaviaGrows
  <2>2. ASSUME NEW e \in new PROVE OctaviaMonitor(e)'
    <3>1. PICK p \in pools : Is(e, "monitor", {"hm"}, {"pool"}) /\ Refs(e, "pool") = {p}
      BY <1>13
    <3> QED BY <1>6, <1>17, <3>1 DEF OctaviaMonitor, Just
  <2> QED BY <1>15, <2>1, <2>2 DEF OctaviaEntry
<1>19. Of("listener")' = Of("listener") /\ Of("monitor")' = new
  <2>1. \A e \in new : e.kind = "monitor"
    BY <1>13 DEF Is
  <2>2. \A e \in plan : e.kind # "monitor"
    BY <1>3 DEF OctaviaGenerates
  <2> QED BY <1>15, <2>1, <2>2 DEF Of
<1>20. ListenersApart'
  BY <1>3, <1>19 DEF ListenersApart
<1>21. Unshared("monitor", "pool")'
  BY <1>13, <1>19 DEF Unshared
<1> QED BY <1>15, <1>18, <1>20, <1>21 DEF OctaviaInv

LEMMA OctaviaSteps ==
  ASSUME Common, OctaviaInv,
         OctaviaLoadBalancers \/ OctaviaListener \/ OctaviaMembers \/ OctaviaMonitors
  PROVE  Common' /\ OctaviaInv' /\ sc' = sc
BY OctaviaLoadBalancersStep, OctaviaListenerStep, OctaviaMembersStep, OctaviaMonitorsStep

\* A lookup of one name finds its one entry.
LEMMA FollowOne ==
  ASSUME UniqueIn(plan), NEW e \in plan, NEW role
  PROVE  follow(e.kind, role, {e.key}) = Refs(e, role)
<1>1. {x \in Of(e.kind) : x.key \in {e.key}} = {e}
  BY DEF Of, UniqueIn
<1>2. follow(e.kind, role, {e.key}) = UNION {Refs(x, role) : x \in {e}}
  BY <1>1 DEF follow
<1> QED BY <1>2

\* The load balancer a pool's calls wait on.
LEMMA BalancerOfPool ==
  ASSUME Common, OctaviaInv, sc.service = "octavia", NEW j, <<"pool", j>> \in Keys("pool")
  PROVE  /\ j \in 1..sc.listeners
         /\ follow("pool", "listener", {<<"pool", j>>}) = {<<"lsn", j>>}
         /\ <<"lsn", j>> \in Keys("listener")
         /\ lbsOfPool({<<"pool", j>>}) = {<<"lb", lbOf(j)>>} /\ <<"lb", lbOf(j)>> \in Keys("lb")
<1>0. UniqueIn(plan) /\ \A e \in plan : OctaviaEntry(e)
  BY DEF Common, OctaviaInv
<1>1. PICK p \in plan : p.kind = "pool" /\ p.key = <<"pool", j>>
  BY KeysAre
<1>2. OctaviaPool(p)
  BY <1>0, <1>1, OctaviaKinds
<1>3. /\ j \in 1..sc.listeners /\ Refs(p, "listener") = {<<"lsn", j>>}
      /\ <<"lsn", j>> \in Keys("listener")
  BY <1>1, <1>2 DEF OctaviaPool
<1>4. follow("pool", "listener", {<<"pool", j>>}) = {<<"lsn", j>>}
  BY <1>0, <1>1, <1>3, FollowOne
<1>5. PICK l \in plan : l.kind = "listener" /\ l.key = <<"lsn", j>>
  BY <1>3, KeysAre
<1>6. OctaviaListenerEntry(l)
  BY <1>0, <1>5, OctaviaKinds
<1>7. Refs(l, "lb") = {<<"lb", lbOf(j)>>} /\ <<"lb", lbOf(j)>> \in Keys("lb")
  BY <1>5, <1>6 DEF OctaviaListenerEntry
<1>8. follow("listener", "lb", {<<"lsn", j>>}) = {<<"lb", lbOf(j)>>}
  BY <1>0, <1>5, <1>7, FollowOne
<1> QED BY <1>3, <1>4, <1>7, <1>8 DEF lbsOfPool

LEMMA NetworkOfBalancer ==
  ASSUME Common, OctaviaInv, sc.service = "octavia", NEW j, <<"lb", j>> \in Keys("lb")
  PROVE  /\ follow("lb", "network", {<<"lb", j>>}) = {<<"net", netOf(j)>>}
         /\ <<"net", netOf(j)>> \in Keys("network")
<1>0. UniqueIn(plan) /\ \A e \in plan : OctaviaEntry(e)
  BY DEF Common, OctaviaInv
<1>1. PICK b \in plan : b.kind = "lb" /\ b.key = <<"lb", j>>
  BY KeysAre
<1>2. OctaviaBalancer(b)
  BY <1>0, <1>1, OctaviaKinds
<1>3. Refs(b, "network") = {<<"net", netOf(j)>>} /\ <<"net", netOf(j)>> \in Keys("network")
  BY <1>1, <1>2 DEF OctaviaBalancer
<1>4. follow("lb", "network", {<<"lb", j>>}) = {<<"net", netOf(j)>>}
  BY <1>0, <1>1, <1>3, FollowOne
<1> QED BY <1>3, <1>4

LEMMA MembersFit ==
  ASSUME Common, OctaviaInv, sc.service = "octavia", phase = "generated",
         NEW m \in Of("member")
  PROVE  /\ Refs(m, "pool") \subseteq Keys("pool") /\ Refs(m, "named") = Refs(m, "pool")
         /\ Refs(m, "addr") = follow("lb", "network", lbsOfPool(Refs(m, "pool")))
         /\ m.num \in 1..MemberAddresses
         /\ \A o \in Of("member") : o # m /\ Refs(o, "addr") = Refs(m, "addr") => o.num # m.num
<1>0. UniqueIn(plan) /\ \A e \in plan : OctaviaEntry(e)
  BY DEF Common, OctaviaInv
<1>1. \A e \in Of("member") : e \in plan /\ OctaviaMemberEntry(e)
  BY <1>0, OctaviaKinds DEF Of
<1>2. /\ sc.members \in Nat
      /\ sc.members > 0 => /\ sc.listeners \in Nat \ {0} /\ sc.lbs \in Nat \ {0}
                           /\ sc.networks \in Nat \ {0}
      /\ \A i \in 0..(sc.networks - 1) : membersPerNetwork(sc, i) <= MemberAddresses
  <2>1. sc.members \in Nat
    BY OctaviaScenario
  <2>2. sc.members > 0 => sc.listeners \in Nat \ {0}
    BY OctaviaScenario
  <2>3. sc.members > 0 => sc.lbs \in Nat \ {0}
    BY <2>2, OctaviaScenario
  <2>4. sc.members > 0 => sc.networks \in Nat \ {0}
    BY <2>3, OctaviaScenario
  <2> QED BY <2>1, <2>2, <2>3, <2>4, OctaviaScenario
<1>3. \A e \in Of("member") : /\ e.key[2] - 1 \in 0..(sc.members - 1) /\ sc.members > 0
                              /\ Refs(e, "addr") = {<<"net", memberNet(e.key[2] - 1)>>}
                              /\ e.num = memberRank(e.key[2] - 1)
  BY <1>1, <1>2 DEF OctaviaMemberEntry
<1> DEFINE x == m.key[2] - 1
           q == poolOf(x)
<1>4. /\ x \in Nat /\ Refs(m, "pool") = {<<"pool", q>>} /\ Refs(m, "pool") \subseteq Keys("pool")
      /\ Refs(m, "named") = Refs(m, "pool") /\ sc.members > 0
  BY <1>1, <1>2, <1>3 DEF OctaviaMemberEntry
<1>5. lbsOfPool(Refs(m, "pool")) = {<<"lb", lbOf(q)>>} /\ <<"lb", lbOf(q)>> \in Keys("lb")
  <2> HIDE DEF q
  <2> QED BY <1>4, BalancerOfPool
<1>6. follow("lb", "network", lbsOfPool(Refs(m, "pool"))) = {<<"net", netOf(lbOf(q))>>}
  <2> DEFINE b == lbOf(q)
  <2>1. lbsOfPool(Refs(m, "pool")) = {<<"lb", b>>} /\ <<"lb", b>> \in Keys("lb")
    BY <1>5
  <2> HIDE DEF b
  <2>2. <<"lb", b>> \in Keys("lb")
    BY <2>1
  <2>3. follow("lb", "network", {<<"lb", b>>}) = {<<"net", netOf(b)>>}
    BY <2>2, NetworkOfBalancer
  <2>4. follow("lb", "network", lbsOfPool(Refs(m, "pool"))) = {<<"net", netOf(b)>>}
    BY <2>1, <2>3
  <2> QED BY <2>4 DEF b
<1>7. netOf(lbOf(q)) = memberNet(x)
  <2>1. x % sc.listeners \in Int
    BY <1>2, <1>4, ModIsInt
  <2>2. (x % sc.listeners) % sc.lbs \in Int
    BY <1>2, <1>4, <2>1, ModIsInt
  <2> HIDE DEF x
  <2>3. q - 1 = x % sc.listeners
    BY <2>1 DEF poolOf
  <2>4. lbOf(q) - 1 = (x % sc.listeners) % sc.lbs
    BY <2>2, <2>3 DEF lbOf
  <2> HIDE DEF q
  <2> QED BY <2>4 DEF netOf, memberNet
<1>8. Refs(m, "addr") = follow("lb", "network", lbsOfPool(Refs(m, "pool")))
  BY <1>3, <1>6, <1>7
<1>9. \A y \in 0..(sc.members - 1) : /\ memberNet(y) \in 1..sc.networks /\ y \in Nat
                                     /\ memberNet(y) - 1 = ((y % sc.listeners) % sc.lbs) % sc.networks
  <2> SUFFICES ASSUME NEW y \in 0..(sc.members - 1)
               PROVE  /\ memberNet(y) \in 1..sc.networks /\ y \in Nat
                      /\ memberNet(y) - 1 = ((y % sc.listeners) % sc.lbs) % sc.networks
    OBVIOUS
  <2>1. y \in Nat
    BY <1>2
  <2>2. y % sc.listeners \in Int
    BY <1>2, <1>4, <2>1, ModIsInt
  <2>3. (y % sc.listeners) % sc.lbs \in Int
    BY <1>2, <1>4, <2>2, ModIsInt
  <2>4. /\ ((y % sc.listeners) % sc.lbs) % sc.networks \in Int
        /\ (((y % sc.listeners) % sc.lbs) % sc.networks) + 1 \in 1..sc.networks
    BY <1>2, <1>4, <2>3, Division, ModIsInt
  <2> QED BY <2>1, <2>4 DEF memberNet
<1> DEFINE Before(y) == {z \in 0..y : memberNet(z) = memberNet(y)}
<1>10. \A y \in 0..(sc.members - 1) :
         /\ IsFiniteSet(Before(y)) /\ Cardinality(Before(y)) \in Nat /\ Cardinality(Before(y)) # 0
         /\ memberRank(y) = Cardinality(Before(y))
  <2> SUFFICES ASSUME NEW y \in 0..(sc.members - 1)
               PROVE  /\ IsFiniteSet(Before(y)) /\ Cardinality(Before(y)) \in Nat
                      /\ Cardinality(Before(y)) # 0
                      /\ memberRank(y) = Cardinality(Before(y))
    OBVIOUS
  <2>1. y \in Nat /\ 0 \in Int /\ y \in Int
    BY <1>9
  <2>2. IsFiniteSet(0..y)
    BY <2>1, FS_Interval
  <2>3. IsFiniteSet(Before(y))
    BY <2>2, FS_Subset
  <2>4. y \in Before(y)
    BY <2>1
  <2>5. memberRank(y) = Cardinality(Before(y))
    BY DEF memberRank
  <2> HIDE DEF Before
  <2> QED BY <2>3, <2>4, <2>5, FS_CardinalityType, FS_EmptySet
<1>11. m.num \in 1..MemberAddresses
  <2> DEFINE i == memberNet(x) - 1
             All == {z \in 0..(sc.members - 1) : ((z % sc.listeners) % sc.lbs) % sc.networks = i}
  <2>1. x \in 0..(sc.members - 1)
    BY <1>3
  <2>2. i \in 0..(sc.networks - 1) /\ MemberAddresses \in Nat
    BY <1>2, <1>4, <1>9, <2>1, PlansAssumption
  <2>3. Cardinality(All) <= MemberAddresses
    BY <1>2, <2>2 DEF membersPerNetwork
  <2>4. \A z \in 0..x : z \in 0..(sc.members - 1)
    BY <1>2, <2>1
  <2>5. Before(x) \in SUBSET All
    <3> SUFFICES ASSUME NEW z \in 0..x, memberNet(z) = memberNet(x) PROVE z \in All
      OBVIOUS
    <3>1. z \in 0..(sc.members - 1) /\ memberNet(z) - 1 = ((z % sc.listeners) % sc.lbs) % sc.networks
      BY <1>9, <2>4
    <3> QED BY <3>1
  <2>6. IsFiniteSet(All)
    <3>1. 0 \in Int /\ sc.members - 1 \in Int
      BY <1>2
    <3>2. IsFiniteSet(0..(sc.members - 1))
      BY <3>1, FS_Interval
    <3> QED BY <3>2, FS_Subset
  <2> HIDE DEF All, Before
  <2>7. Cardinality(Before(x)) <= Cardinality(All) /\ Cardinality(All) \in Nat
    BY <2>5, <2>6, FS_Subset, FS_CardinalityType
  <2>8. m.num = Cardinality(Before(x)) /\ Cardinality(Before(x)) \in Nat /\ Cardinality(Before(x)) # 0
    BY <1>3, <1>10, <2>1
  <2> QED BY <2>2, <2>3, <2>7, <2>8
<1>12. ASSUME NEW y \in 0..(sc.members - 1), NEW z \in 0..(sc.members - 1), y < z,
              memberNet(y) = memberNet(z)
       PROVE  memberRank(y) # memberRank(z)
  <2>1. y \in Nat /\ z \in Nat
    BY <1>9
  <2>2. Before(y) \in SUBSET Before(z) /\ Before(y) # Before(z)
    <3>1. \A w \in 0..y : w \in 0..z
      BY <1>12, <2>1
    <3>2. z \in Before(z) /\ z \notin Before(y)
      BY <1>12, <2>1
    <3>3. Before(y) \in SUBSET Before(z)
      BY <1>12, <3>1
    <3> QED BY <3>2, <3>3
  <2> HIDE DEF Before
  <2>3. Cardinality(Before(y)) < Cardinality(Before(z))
    BY <1>10, <2>2, PartIsSmaller
  <2> QED BY <1>10, <2>3
<1>13. ASSUME NEW o \in Of("member"), o # m, Refs(o, "addr") = Refs(m, "addr") PROVE o.num # m.num
  <2> DEFINE y == o.key[2] - 1
  <2>1. /\ y \in 0..(sc.members - 1) /\ x \in 0..(sc.members - 1)
        /\ o.num = memberRank(y) /\ m.num = memberRank(x)
    BY <1>3
  <2>2. <<"net", memberNet(y)>> = <<"net", memberNet(x)>>
    BY <1>3, <1>13
  <2>3. memberNet(y) = memberNet(x)
    BY <2>2
  <2>4. y # x
    <3> SUFFICES ASSUME y = x PROVE FALSE
      OBVIOUS
    <3>1. o.key[2] \in Nat /\ m.key[2] \in Nat /\ o.key = <<"member", o.key[2]>> /\ m.key = <<"member", m.key[2]>>
      BY <1>1 DEF OctaviaMemberEntry, Is
    <3>2. o.key = m.key
      BY <3>1
    <3> QED BY <1>0, <1>1, <1>13, <3>2 DEF UniqueIn
  <2>5. y \in Nat /\ x \in Nat
    BY <1>9, <2>1
  <2> HIDE DEF x, y
  <2>6. y < x \/ x < y
    BY <2>4, <2>5
  <2> QED BY <1>12, <2>1, <2>3, <2>6
<1> QED BY <1>4, <1>8, <1>11, <1>13

LEMMA OctaviaPlans ==
  ASSUME Common, OctaviaInv, sc.service = "octavia", phase = "generated"
  PROVE  octaviaPlanOK
<1>0. /\ UniqueIn(plan) /\ \A e \in plan : OctaviaEntry(e)
      /\ ListenersApart /\ Unshared("monitor", "pool")
  BY DEF Common, OctaviaInv
<1>1. \A k \in {"network", "lb", "listener", "pool", "member", "monitor"} : UniqueNames(k)
  BY NamesUnique
<1>2. Unshared("network", "subnet") /\ Unshared("pool", "listener")
  <2>1. ASSUME NEW a \in plan, NEW b \in plan, a # b, a.kind = "network", b.kind = "network"
        PROVE  Refs(a, "subnet") \cap Refs(b, "subnet") = {}
    <3>1. OctaviaNetwork(a) /\ OctaviaNetwork(b)
      BY <1>0, <2>1, OctaviaKinds
    <3>2. a.key # b.key
      BY <1>0, <2>1 DEF UniqueIn
    <3> QED BY <3>1, <3>2 DEF OctaviaNetwork, Is
  <2>2. ASSUME NEW a \in plan, NEW b \in plan, a # b, a.kind = "pool", b.kind = "pool"
        PROVE  Refs(a, "listener") \cap Refs(b, "listener") = {}
    <3>1. OctaviaPool(a) /\ OctaviaPool(b)
      BY <1>0, <2>2, OctaviaKinds
    <3>2. a.key # b.key
      BY <1>0, <2>2 DEF UniqueIn
    <3> QED BY <3>1, <3>2 DEF OctaviaPool, Is
  <2> QED BY <2>1, <2>2 DEF Unshared, Of
<1>3. /\ Resolves("lb", "network", "network") /\ Resolves("listener", "lb", "lb")
      /\ Resolves("pool", "listener", "listener") /\ Resolves("monitor", "pool", "pool")
      /\ Resolves("member", "pool", "pool")
  BY <1>0, OctaviaKinds DEF Resolves, Of, OctaviaBalancer, OctaviaListenerEntry, OctaviaPool,
                            OctaviaMonitor, OctaviaMemberEntry
<1>4. octaviaListenersOK
  <2>1. ASSUME NEW l \in Of("listener") PROVE l.num \in 1..MaxPort
    <3>1. OctaviaListenerEntry(l)
      BY <1>0, OctaviaKinds DEF Of
    <3>2. sc.lport.lo \in Nat \ {0} /\ sc.lport.hi \in Nat /\ sc.lport.hi <= MaxPort /\ MaxPort \in Nat
      BY OctaviaScenario, PlansAssumption
    <3> QED BY <3>1, <3>2 DEF OctaviaListenerEntry, randRange
  <2>2. ASSUME NEW l \in Of("listener"), NEW o \in Of("listener"), o # l, o.refs = l.refs
        PROVE  o.num # l.num
    <3>1. Refs(o, "lb") = Refs(l, "lb")
      BY <2>2 DEF Refs
    <3> QED BY <1>0, <2>2, <3>1 DEF ListenersApart
  <2> QED BY <1>3, <2>1, <2>2 DEF octaviaListenersOK
<1>5. octaviaMembersOK
  BY <1>3, MembersFit DEF octaviaMembersOK
<1> QED BY <1>0, <1>1, <1>2, <1>3, <1>4, <1>5 DEF octaviaPlanOK, octaviaPoolsOK, octaviaMonitorsOK

-----------------------------------------------------------------------------
(***************************************************************************)
(* Keystone.                                                               *)
(***************************************************************************)
KeystoneImplied(e) ==
  /\ Is(e, "implied", {"rule"}, {"prior", "implied"})
  /\ Refs(e, "prior") \subseteq Keys("role") /\ Refs(e, "implied") \subseteq Keys("role")
  /\ Refs(e, "prior") # Refs(e, "implied")
KeystoneProject(e) ==
  Is(e, "project", {"proj"}, {"domain"}) /\ Refs(e, "domain") \subseteq Keys("domain")
KeystoneUser(e) ==
  Is(e, "user", {"user", "fan"}, {"domain"}) /\ Refs(e, "domain") \subseteq Keys("domain")
KeystoneGrant(e) ==
  /\ Is(e, "assignment", {"assign"}, {"user", "role", "project"}) /\ Just(e, "user")
  /\ Refs(e, "user") \subseteq Keys("user") /\ Refs(e, "role") \subseteq Keys("role")
  /\ Refs(e, "project") \subseteq Keys("project")
  /\ \A p, q \in Refs(e, "project") : p = q
KeystoneToken(e) ==
  /\ Is(e, "token", {"token"}, {"user", "project"})
  /\ Refs(e, "user") \subseteq Keys("user") /\ Refs(e, "project") \subseteq Keys("project")
  /\ \E a \in Of("assignment") :
       Refs(a, "user") = Refs(e, "user") /\ Refs(a, "project") = Refs(e, "project")
KeystoneEntry(e) ==
  \/ Is(e, "domain", {"dom"}, {}) \/ Is(e, "role", {"role"}, {}) \/ KeystoneImplied(e)
  \/ KeystoneProject(e) \/ KeystoneUser(e) \/ KeystoneGrant(e) \/ KeystoneToken(e)

GrantsApart == \A a, b \in Of("assignment") : a.refs = b.refs => a = b

KeystoneGenerates ==
  /\ step = 1 => plan = {}
  /\ step # 1 => Names("dom", sc.domains) = Keys("domain") /\ Names("role", sc.roles) = Keys("role")
  /\ step > 2 => Names("proj", sc.projects) = Keys("project")
  /\ step > 3 => Names("user", sc.users) \subseteq Keys("user")
  /\ \A e \in plan :
       /\ e.kind = "project" => step > 2
       /\ e.kind = "user" => step > 3 /\ e.key[1] = "user"
       /\ e.kind = "assignment" => /\ e.key[2] <= Cardinality(Of("assignment"))
                                   /\ \E j \in Nat : Refs(e, "user") = {<<"user", j>>} /\ j < step - 3
       /\ e.kind = "token" => step > sc.users + 4
KeystoneInv == sc.service = "keystone" =>
  /\ \A e \in plan : KeystoneEntry(e)
  /\ GrantsApart
  /\ phase = "generate" => KeystoneGenerates

LEMMA KeystoneScenario ==
  ASSUME Common, sc.service = "keystone", phase \notin {"scenario", "refused"}
  PROVE  /\ sc.domains \in Nat /\ sc.roles \in Nat /\ sc.projects \in Nat /\ sc.users \in Nat
         /\ sc.fans \in Nat /\ sc.roles <= MaxCount
         /\ validateRange(sc.grants) /\ validateRange(sc.fanGrants)
         /\ sc.projects > 0 => sc.domains \in Nat \ {0}
         /\ sc.users > 0 => sc.domains \in Nat \ {0}
         /\ sc.fans > 0 => /\ sc.domains \in Nat \ {0} /\ sc.roles \in Nat \ {0}
                           /\ sc.fanGrants.hi <= sc.projects
         /\ sc.users > 0 /\ sc.grants.hi > 0 => sc.roles \in Nat \ {0}
         /\ \A r \in sc.implied : r[1] \in 1..sc.roles /\ r[2] \in 1..sc.roles /\ r[1] # r[2]
<1>1. keystoneScenarioOK(sc)
  BY ScenarioOf DEF Common
<1>2. /\ sc.domains \in Nat /\ sc.roles \in Nat /\ sc.projects \in Nat /\ sc.users \in Nat
      /\ sc.fans \in Nat
  BY <1>1, CountsAreNat DEF keystoneScenarioOK
<1>3. sc.roles <= MaxCount
  BY <1>1, PlansAssumption DEF keystoneScenarioOK, CountOK
<1>4. validateRange(sc.grants) /\ validateRange(sc.fanGrants)
  BY <1>1 DEF keystoneScenarioOK
<1>5. sc.grants.hi \in Nat
  BY <1>4, RangesAreNat
<1>6. \A r \in sc.implied : r[1] \in 1..sc.roles /\ r[2] \in 1..sc.roles /\ r[1] # r[2]
  BY <1>1 DEF keystoneScenarioOK, validateImpliedRoles
<1>7. /\ sc.projects + sc.users + sc.fans > 0 => sc.domains >= 1
      /\ (sc.users > 0 /\ sc.grants.hi > 0) \/ sc.fans > 0 => sc.roles >= 1
      /\ sc.fans > 0 => sc.fanGrants.hi <= sc.projects
  BY <1>1 DEF keystoneScenarioOK
<1> QED BY <1>2, <1>3, <1>4, <1>5, <1>6, <1>7

LEMMA KeystoneGrows ==
  ASSUME plan \subseteq plan', NEW e, KeystoneEntry(e)
  PROVE  KeystoneEntry(e)'
<1>1. /\ Keys("domain") \subseteq Keys("domain")' /\ Keys("role") \subseteq Keys("role")'
      /\ Keys("project") \subseteq Keys("project")' /\ Keys("user") \subseteq Keys("user")'
      /\ Of("assignment") \subseteq Of("assignment")'
  <2>1. Of("assignment") \subseteq Of("assignment")'
    BY DEF Of
  <2> QED BY <2>1, KeysGrow
<1>2. CASE Is(e, "domain", {"dom"}, {}) \/ Is(e, "role", {"role"}, {})
  BY <1>2 DEF KeystoneEntry
<1>3. CASE KeystoneImplied(e)
  BY <1>1, <1>3 DEF KeystoneImplied, KeystoneEntry
<1>4. CASE KeystoneProject(e)
  BY <1>1, <1>4 DEF KeystoneProject, KeystoneEntry
<1>5. CASE KeystoneUser(e)
  BY <1>1, <1>5 DEF KeystoneUser, KeystoneEntry
<1>6. CASE KeystoneGrant(e)
  BY <1>1, <1>6 DEF KeystoneGrant, KeystoneEntry
<1>7. CASE KeystoneToken(e)
  BY <1>1, <1>7 DEF KeystoneToken, KeystoneEntry
<1> QED BY <1>2, <1>3, <1>4, <1>5, <1>6, <1>7 DEF KeystoneEntry

LEMMA KeystoneKinds ==
  ASSUME NEW e, KeystoneEntry(e)
  PROVE  /\ e.kind = "implied" => KeystoneImplied(e)
         /\ e.kind = "project" => KeystoneProject(e)
         /\ e.kind = "user" => KeystoneUser(e)
         /\ e.kind = "assignment" => KeystoneGrant(e)
         /\ e.kind = "token" => KeystoneToken(e)
         /\ e.kind = "domain" => Is(e, "domain", {"dom"}, {})
         /\ e.kind = "role" => Is(e, "role", {"role"}, {})
BY DEF KeystoneEntry, KeystoneImplied, KeystoneProject, KeystoneUser, KeystoneGrant, KeystoneToken, Is

\* How the entries of a kind are named.
LEMMA KeystonePrefixes ==
  ASSUME NEW e, KeystoneEntry(e)
  PROVE  /\ e.key[1] = "dom" => e.kind = "domain"
         /\ e.key[1] = "role" => e.kind = "role"
         /\ e.key[1] = "rule" => e.kind = "implied"
         /\ e.key[1] = "proj" => e.kind = "project"
         /\ e.key[1] \in {"user", "fan"} => e.kind = "user"
         /\ e.key[1] = "assign" => e.kind = "assignment"
         /\ e.key[1] = "token" => e.kind = "token"
BY DEF KeystoneEntry, KeystoneImplied, KeystoneProject, KeystoneUser, KeystoneGrant, KeystoneToken, Is

\* The number of a rule tells its two roles.
LEMMA RulesNumbered ==
  ASSUME NEW a \in Nat, NEW b \in Nat, NEW c \in Nat, NEW d \in Nat,
         b <= MaxCount, d <= MaxCount, a * (MaxCount + 1) + b = c * (MaxCount + 1) + d
  PROVE  a = c /\ b = d
<1> DEFINE w == MaxCount + 1
<1>1. w \in Nat \ {0} /\ b < w /\ d < w /\ a * w \in Int /\ c * w \in Int
  BY PlansAssumption
<1>2. a * w + b = c * w + d
  OBVIOUS
<1> HIDE DEF w
<1>3. \A x \in Nat, y \in Nat : x < y => (x + 1) * w <= y * w
  BY <1>1, Times
<1>4. \A x \in Nat : (x + 1) * w = x * w + w
  BY <1>1
<1>5. ~(a < c)
  <2> SUFFICES ASSUME a < c PROVE FALSE
    OBVIOUS
  <2>1. a * w + w <= c * w
    BY <1>3, <1>4
  <2> QED BY <1>1, <1>2, <2>1
<1>6. ~(c < a)
  <2> SUFFICES ASSUME c < a PROVE FALSE
    OBVIOUS
  <2>1. c * w + w <= a * w
    BY <1>3, <1>4
  <2> QED BY <1>1, <1>2, <2>1
<1>7. a = c
  BY <1>5, <1>6
<1> QED BY <1>1, <1>2, <1>7

LEMMA KeystoneRolesStep ==
  ASSUME Common, KeystoneInv, KeystoneRoles
  PROVE  Common' /\ KeystoneInv' /\ sc' = sc
<1>1. /\ phase = "generate" /\ sc.service = "keystone" /\ sc.service # "mix" /\ step = 1 /\ plan = {}
  BY DEF KeystoneRoles, At, KeystoneInv, KeystoneGenerates
<1>2. /\ sc.domains \in Nat /\ sc.roles \in Nat /\ sc.roles <= MaxCount
      /\ \A r \in sc.implied : r[1] \in 1..sc.roles /\ r[2] \in 1..sc.roles /\ r[1] # r[2]
  BY <1>1, KeystoneScenario
<1> DEFINE doms == Plain("domain", "dom", sc.domains)
           roles == Plain("role", "role", sc.roles)
           Pairs == (1..sc.roles) \X (1..sc.roles)
           f == [p \in Pairs |-> Entry(<<"rule", p[1] * (MaxCount + 1) + p[2]>>, "implied",
                      {<<"prior", <<"role", p[1]>>>>, <<"implied", <<"role", p[2]>>>>}, {}, 1)]
           rules == {Entry(<<"rule", r[1] * (MaxCount + 1) + r[2]>>, "implied",
                      {<<"prior", <<"role", r[1]>>>>, <<"implied", <<"role", r[2]>>>>}, {}, 1) :
                         r \in sc.implied}
           new == doms \cup roles \cup rules
<1>3. Emit(new, 2)
  BY DEF KeystoneRoles
<1>4. \A e \in rules : \E p \in Pairs : e = f[p] /\ p[1] # p[2]
  <2> SUFFICES ASSUME NEW r \in sc.implied
               PROVE  \E p \in Pairs :
                        /\ Entry(<<"rule", r[1] * (MaxCount + 1) + r[2]>>, "implied",
                             {<<"prior", <<"role", r[1]>>>>, <<"implied", <<"role", r[2]>>>>}, {}, 1) = f[p]
                        /\ p[1] # p[2]
    OBVIOUS
  <2>1. <<r[1], r[2]>> \in Pairs /\ r[1] # r[2]
    BY <1>2
  <2> QED BY <2>1
<1>5. \A p \in Pairs : /\ p[1] \in 1..sc.roles /\ p[2] \in 1..sc.roles /\ p = <<p[1], p[2]>>
                       /\ p[1] \in Nat /\ p[2] \in Nat /\ p[2] <= MaxCount /\ p[1] <= MaxCount
  BY <1>2, PlansAssumption
<1>6. \A p \in Pairs : /\ f[p].key = <<"rule", p[1] * (MaxCount + 1) + p[2]>> /\ f[p].kind = "implied"
                       /\ f[p].refs = {<<"prior", <<"role", p[1]>>>>, <<"implied", <<"role", p[2]>>>>}
  BY DEF Entry
<1>7. IsFiniteSet(Pairs)
  <2>1. \A n \in Nat : IsFiniteSet(1..n)
    BY FS_Interval
  <2>2. IsFiniteSet(1..sc.roles)
    BY <1>2, <2>1
  <2> QED BY <2>2, FS_Product
<1> HIDE DEF f, Pairs, rules
<1>8. IsFiniteSet(rules) /\ UniqueIn(rules)
  <2>1. ASSUME NEW p \in Pairs, NEW q \in Pairs, f[p].key = f[q].key PROVE p = q
    <3>1. <<"rule", p[1] * (MaxCount + 1) + p[2]>> = <<"rule", q[1] * (MaxCount + 1) + q[2]>>
      BY <1>6, <2>1
    <3>2. p[1] * (MaxCount + 1) + p[2] = q[1] * (MaxCount + 1) + q[2]
      BY <3>1
    <3>3. p[1] = q[1] /\ p[2] = q[2]
      BY <1>5, <3>2, RulesNumbered
    <3> QED BY <1>5, <3>3
  <2>2. \A p, q \in Pairs : f[p].key = f[q].key => p = q
    BY <2>1
  <2>3. \A e \in rules : \E p \in Pairs : e = f[p]
    BY <1>4
  <2> QED BY <1>7, <2>2, <2>3, Numbered
<1>9. ASSUME NEW e \in rules
      PROVE  /\ Is(e, "implied", {"rule"}, {"prior", "implied"})
             /\ Refs(e, "prior") \subseteq Names("role", sc.roles)
             /\ Refs(e, "implied") \subseteq Names("role", sc.roles)
             /\ Refs(e, "prior") # Refs(e, "implied")
  <2>1. PICK p \in Pairs : e = f[p] /\ p[1] # p[2]
    BY <1>4
  <2>2. /\ e.key = <<"rule", p[1] * (MaxCount + 1) + p[2]>> /\ e.kind = "implied"
        /\ e.refs = {<<"prior", <<"role", p[1]>>>>, <<"implied", <<"role", p[2]>>>>}
    BY <1>6, <2>1
  <2>3. p[1] * (MaxCount + 1) + p[2] \in Nat
    BY <1>5, PlansAssumption
  <2>4. Is(e, "implied", {"rule"}, {"prior", "implied"})
    <3>1. e.key = <<e.key[1], e.key[2]>> /\ e.key[1] = "rule" /\ e.key[2] \in Nat
      BY <2>2, <2>3
    <3>2. \A r \in e.refs : r[1] \in {"prior", "implied"} /\ r[2] # Panic
      BY <2>2 DEF Panic
    <3> QED BY <2>2, <3>1, <3>2 DEF Is
  <2>5. /\ <<"prior", <<"role", p[1]>>>> \in e.refs /\ <<"implied", <<"role", p[2]>>>> \in e.refs
        /\ \A r \in e.refs : /\ r[1] = "prior" => r[2] = <<"role", p[1]>>
                             /\ r[1] = "implied" => r[2] = <<"role", p[2]>>
    BY <2>2
  <2>6. Refs(e, "prior") = {<<"role", p[1]>>} /\ Refs(e, "implied") = {<<"role", p[2]>>}
    BY <2>5, SoleRef
  <2>7. <<"role", p[1]>> # <<"role", p[2]>>
    BY <2>1
  <2> QED BY <1>5, <2>4, <2>6, <2>7 DEF Names
<1>10. /\ IsFiniteSet(doms) /\ UniqueIn(doms) /\ \A e \in doms : Is(e, "domain", {"dom"}, {}) /\ e.key[2] \in 1..sc.domains
       /\ \A k \in Names("dom", sc.domains) : \E e \in doms : e.key = k
  <2>1. sc.domains \in Nat
    BY <1>2
  <2>2. IsFiniteSet(doms) /\ UniqueIn(doms)
    BY <2>1, PlainNames
  <2>3. \A e \in doms : Is(e, "domain", {"dom"}, {}) /\ e.key[2] \in 1..sc.domains
    BY <2>1, PlainNames
  <2> QED BY <2>2, <2>3, PlainKeys
<1>11. /\ IsFiniteSet(roles) /\ UniqueIn(roles) /\ \A e \in roles : Is(e, "role", {"role"}, {}) /\ e.key[2] \in 1..sc.roles
       /\ \A k \in Names("role", sc.roles) : \E e \in roles : e.key = k
  <2>1. sc.roles \in Nat
    BY <1>2
  <2>2. IsFiniteSet(roles) /\ UniqueIn(roles)
    BY <2>1, PlainNames
  <2>3. \A e \in roles : Is(e, "role", {"role"}, {}) /\ e.key[2] \in 1..sc.roles
    BY <2>1, PlainNames
  <2> QED BY <2>2, <2>3, PlainKeys
<1> HIDE DEF doms, roles
<1>12. IsFiniteSet(new) /\ UniqueIn(new)
  <2>1. \A a \in doms, b \in roles : a.key # b.key
    BY <1>10, <1>11 DEF Is
  <2>2. IsFiniteSet(doms \cup roles) /\ UniqueIn(doms \cup roles)
    BY <1>10, <1>11, <2>1, BothUnique
  <2>3. \A a \in doms \cup roles, b \in rules : a.key # b.key
    BY <1>9, <1>10, <1>11 DEF Is
  <2> QED BY <1>8, <2>2, <2>3, BothUnique
<1>13. /\ Common' /\ sc' = sc /\ plan' = new
       /\ phase' = "generate" => step' = 2
  <2>1. \A e \in new : \A r \in e.refs : r[2] # Panic
    BY <1>9, <1>10, <1>11 DEF Is
  <2> HIDE DEF new
  <2> QED BY <1>1, <1>3, <1>12, <2>1, EmitKeeps
<1>14. Names("dom", sc.domains) = Keys("domain")' /\ Names("role", sc.roles) = Keys("role")'
  <2>1. \A k : k \in Keys("domain")' <=> \E e \in new : e.kind = "domain" /\ e.key = k
    BY <1>13 DEF Keys, Of
  <2>2. \A k : k \in Keys("domain")' <=> \E e \in doms : e.key = k
    BY <1>9, <1>10, <1>11, <2>1 DEF Is
  <2>3. \A k : k \in Keys("role")' <=> \E e \in new : e.kind = "role" /\ e.key = k
    BY <1>13 DEF Keys, Of
  <2>4. \A k : k \in Keys("role")' <=> \E e \in roles : e.key = k
    BY <1>9, <1>10, <1>11, <2>3 DEF Is
  <2>5. ASSUME NEW k \in Keys("domain")' PROVE k \in Names("dom", sc.domains)
    <3>1. PICK e \in doms : e.key = k
      BY <2>2
    <3>2. k = <<"dom", k[2]>> /\ k[2] \in 1..sc.domains
      BY <1>10, <3>1 DEF Is
    <3> QED BY <3>2 DEF Names
  <2>6. ASSUME NEW k \in Keys("role")' PROVE k \in Names("role", sc.roles)
    <3>1. PICK e \in roles : e.key = k
      BY <2>4
    <3>2. k = <<"role", k[2]>> /\ k[2] \in 1..sc.roles
      BY <1>11, <3>1 DEF Is
    <3> QED BY <3>2 DEF Names
  <2> QED BY <1>10, <1>11, <2>2, <2>4, <2>5, <2>6
<1>15. \A e \in plan' : KeystoneEntry(e)' /\ e.kind \in {"domain", "role", "implied"}
  <2>1. ASSUME NEW e \in rules PROVE KeystoneEntry(e)' /\ e.kind = "implied"
    BY <1>9, <1>14 DEF KeystoneEntry, KeystoneImplied, Is
  <2> QED BY <1>10, <1>11, <1>13, <2>1 DEF KeystoneEntry, Is
<1>16. GrantsApart'
  BY <1>15 DEF GrantsApart, Of
<1>17. phase' = "generate" => KeystoneGenerates'
  BY <1>13, <1>14, <1>15 DEF KeystoneGenerates
<1> QED BY <1>13, <1>15, <1>16, <1>17 DEF KeystoneInv

LEMMA KeystoneProjectsStep ==
  ASSUME Common, KeystoneInv, KeystoneProjects
  PROVE  Common' /\ KeystoneInv' /\ sc' = sc
<1>1. /\ phase = "generate" /\ sc.service = "keystone" /\ sc.service # "mix" /\ step = 2
      /\ \A e \in plan : KeystoneEntry(e) /\ e.kind \notin {"project", "user", "assignment", "token"}
      /\ Names("dom", sc.domains) = Keys("domain") /\ Names("role", sc.roles) = Keys("role")
      /\ sc.users \in Nat
  <2>1. phase = "generate" /\ sc.service = "keystone" /\ step = 2
    BY DEF KeystoneProjects, At
  <2>2. sc.users \in Nat
    BY <2>1, KeystoneScenario
  <2>3. \A e \in plan : KeystoneEntry(e) /\ KeystoneGenerates
    BY <2>1 DEF KeystoneInv
  <2>4. ASSUME NEW e \in plan PROVE e.kind \notin {"project", "user", "assignment", "token"}
    <3>1. ~(\E j \in Nat : j < step - 3)
      BY <2>1
    <3> QED BY <2>1, <2>2, <2>3, <3>1 DEF KeystoneGenerates
  <2> QED BY <2>1, <2>2, <2>3, <2>4 DEF KeystoneInv, KeystoneGenerates
<1>20. sc.projects \in Nat /\ (sc.projects > 0 => sc.domains \in Nat \ {0})
  BY <1>1, KeystoneScenario
<1>3. PICK cuts \in SUBSET (1..sc.projects) :
        Emit({Entry(<<"proj", i>>, "project",
                      {<<"domain", roundRobin("dom", Cardinality(cuts \cap 1..i) - 1, sc.domains)>>},
                      {}, 1) : i \in 1..sc.projects}, 3)
  BY DEF KeystoneProjects
<1> DEFINE dom(i) == roundRobin("dom", Cardinality(cuts \cap 1..i) - 1, sc.domains)
           f == [i \in 1..sc.projects |-> Entry(<<"proj", i>>, "project", {<<"domain", dom(i)>>}, {}, 1)]
           new == {f[i] : i \in 1..sc.projects}
<1>4. Emit(new, 3)
  BY <1>3
<1>5. \A i \in 1..sc.projects : /\ f[i] \in new /\ f[i].key = <<"proj", i>> /\ f[i].kind = "project"
                                /\ f[i].refs = {<<"domain", dom(i)>>}
  BY DEF Entry
<1>50. \A i \in 1..sc.projects : i \in Nat
  BY <1>20
<1> HIDE DEF f
<1>6. IsFiniteSet(1..sc.projects) /\ \A n \in Nat : IsFiniteSet(1..n)
  <2>1. \A n \in Nat : IsFiniteSet(1..n)
    BY FS_Interval
  <2> QED BY <1>20, <2>1
<1>7. IsFiniteSet(new) /\ UniqueIn(new)
  <2>0. \A i \in 1..sc.projects : f[i].key = <<"proj", i>>
    BY <1>5
  <2>1. \A i, j \in 1..sc.projects : f[i].key = f[j].key => i = j
    BY <2>0
  <2>2. \A e \in new : \E i \in 1..sc.projects : e = f[i]
    OBVIOUS
  <2> QED BY <1>6, <2>1, <2>2, Numbered
<1>8. \A i \in 1..sc.projects : dom(i) \in Keys("domain")
  <2> SUFFICES ASSUME NEW i \in 1..sc.projects PROVE dom(i) \in Keys("domain")
    OBVIOUS
  <2> DEFINE c == Cardinality(cuts \cap 1..i) - 1
  <2>1. sc.domains \in Nat \ {0} /\ i \in Nat
    BY <1>50, <1>20
  <2>2. IsFiniteSet(1..i) /\ (cuts \cap 1..i) \in SUBSET (1..i)
    BY <1>6, <2>1
  <2>3. Cardinality(cuts \cap 1..i) \in Nat
    BY <2>2, FS_Subset, FS_CardinalityType
  <2>4. c \in Int
    BY <2>3
  <2> HIDE DEF c
  <2>5. (c % sc.domains) + 1 \in 1..sc.domains
    BY <2>1, <2>4, PlaceIsOne
  <2>6. roundRobin("dom", c, sc.domains) = <<"dom", (c % sc.domains) + 1>>
    BY <2>1 DEF roundRobin
  <2>7. dom(i) = <<"dom", (c % sc.domains) + 1>>
    BY <2>6 DEF c
  <2> QED BY <1>1, <2>5, <2>7 DEF Names
<1> HIDE DEF dom
<1>9. ASSUME NEW e \in new
      PROVE  /\ Is(e, "project", {"proj"}, {"domain"}) /\ Refs(e, "domain") \subseteq Keys("domain")
             /\ e.key[2] \in 1..sc.projects
  <2>1. PICK i \in 1..sc.projects : e = f[i]
    OBVIOUS
  <2>2. e.refs = {<<"domain", dom(i)>>} /\ e.key = <<"proj", i>> /\ e.kind = "project" /\ i \in Nat
    BY <1>5, <1>50, <2>1
  <2>30. e.refs = {<<"domain", dom(i)>>}
    BY <2>2
  <2>3. Refs(e, "domain") = {dom(i)}
    BY <2>30, OneRef
  <2>4. dom(i) # Panic
    BY <1>1, <1>8 DEF Names, Panic
  <2> QED BY <1>8, <2>2, <2>3, <2>4 DEF Is
<1>10. \A a \in plan, b \in new : a.key # b.key
  BY <1>1, <1>9, KeystonePrefixes DEF Is
<1>11. /\ Common' /\ sc' = sc /\ plan' = plan \cup new
       /\ phase' = "generate" => step' = 3
  <2>1. \A e \in new : \A r \in e.refs : r[2] # Panic
    BY <1>9 DEF Is
  <2> HIDE DEF new
  <2> QED BY <1>1, <1>4, <1>7, <1>10, <2>1, EmitKeeps
<1>12. plan \subseteq plan'
  BY <1>11
<1>13. Keys("domain") \subseteq Keys("domain")'
  BY <1>12, KeysGrow
<1>14. \A e \in plan' : KeystoneEntry(e)' /\ e.kind \notin {"user", "assignment", "token"}
  <2>1. ASSUME NEW e \in plan PROVE KeystoneEntry(e)'
    BY <1>1, <1>12, KeystoneGrows
  <2>2. ASSUME NEW e \in new PROVE KeystoneEntry(e)' /\ e.kind = "project"
    BY <1>9, <1>13 DEF KeystoneEntry, KeystoneProject, Is
  <2> QED BY <1>1, <1>11, <2>1, <2>2
<1>15. /\ Keys("domain")' = Keys("domain") /\ Keys("role")' = Keys("role")
       /\ Keys("project")' = Names("proj", sc.projects)
  <2>1. \A e \in new : e.kind = "project"
    BY <1>9 DEF Is
  <2>2. Of("domain")' = Of("domain") /\ Of("role")' = Of("role") /\ Of("project")' = new
    BY <1>1, <1>11, <2>1 DEF Of
  <2>3. \A k \in Keys("project")' : k \in Names("proj", sc.projects)
    BY <1>9, <2>2 DEF Keys, Names, Is
  <2>4. \A i \in 1..sc.projects : <<"proj", i>> \in Keys("project")'
    BY <1>5, <2>2 DEF Keys
  <2>5. \A k \in Names("proj", sc.projects) : k \in Keys("project")'
    BY <2>4 DEF Names
  <2> QED BY <2>2, <2>3, <2>5 DEF Keys
<1>16. GrantsApart'
  BY <1>14 DEF GrantsApart, Of
<1>17. phase' = "generate" => KeystoneGenerates'
  BY <1>1, <1>11, <1>14, <1>15 DEF KeystoneGenerates
<1> QED BY <1>11, <1>14, <1>16, <1>17 DEF KeystoneInv

LEMMA KeystoneUsersStep ==
  ASSUME Common, KeystoneInv, KeystoneUsers
  PROVE  Common' /\ KeystoneInv' /\ sc' = sc
<1>1. /\ phase = "generate" /\ sc.service = "keystone" /\ sc.service # "mix" /\ step = 3
      /\ sc.users \in Nat
      /\ \A e \in plan : KeystoneEntry(e) /\ e.kind \notin {"user", "assignment", "token"}
      /\ Names("dom", sc.domains) = Keys("domain") /\ Names("role", sc.roles) = Keys("role")
      /\ Names("proj", sc.projects) = Keys("project")
  <2>1. phase = "generate" /\ sc.service = "keystone" /\ step = 3
    BY DEF KeystoneUsers, At
  <2>2. sc.users \in Nat
    BY <2>1, KeystoneScenario
  <2>3. KeystoneGenerates /\ \A e \in plan : KeystoneEntry(e)
    BY <2>1 DEF KeystoneInv
  <2>4. ASSUME NEW e \in plan PROVE e.kind \notin {"user", "assignment", "token"}
    <3>1. ~(\E j \in Nat : j < step - 3)
      BY <2>1
    <3> QED BY <2>1, <2>2, <2>3, <3>1 DEF KeystoneGenerates
  <2> QED BY <2>1, <2>2, <2>3, <2>4 DEF KeystoneGenerates
<1>2. sc.users \in Nat /\ (sc.users > 0 => sc.domains \in Nat \ {0})
  BY <1>1, KeystoneScenario
<1>3. PICK dom \in [1..sc.users -> Pick(Keys("domain"))] :
        Emit({Entry(<<"user", i>>, "user", {<<"domain", dom[i]>>}, {}, 1) : i \in DOMAIN dom}, 4)
  BY DEF KeystoneUsers
<1> DEFINE f == [i \in 1..sc.users |-> Entry(<<"user", i>>, "user", {<<"domain", dom[i]>>}, {}, 1)]
           new == {f[i] : i \in 1..sc.users}
<1>4. Emit(new, 4)
  BY <1>3
<1>5. \A i \in 1..sc.users : /\ f[i] \in new /\ f[i].key = <<"user", i>> /\ f[i].kind = "user"
                             /\ f[i].refs = {<<"domain", dom[i]>>}
  BY DEF Entry
<1>50. \A i \in 1..sc.users : i \in Nat
  BY <1>2
<1> HIDE DEF f
<1>6. IsFiniteSet(1..sc.users)
  BY <1>2, FS_Interval
<1>7. IsFiniteSet(new) /\ UniqueIn(new)
  <2>1. \A i, j \in 1..sc.users : f[i].key = f[j].key => i = j
    BY <1>5
  <2>2. \A e \in new : \E i \in 1..sc.users : e = f[i]
    OBVIOUS
  <2> QED BY <1>6, <2>1, <2>2, Numbered
<1>8. \A i \in 1..sc.users : dom[i] \in Keys("domain")
  <2> SUFFICES ASSUME NEW i \in 1..sc.users PROVE dom[i] \in Keys("domain")
    OBVIOUS
  <2>1. 1 \in 1..sc.domains
    BY <1>2
  <2>2. Keys("domain") # {}
    <3>1. <<"dom", 1>> \in Names("dom", sc.domains)
      BY <2>1 DEF Names
    <3> QED BY <1>1, <3>1
  <2> QED BY <2>2 DEF Pick
<1>9. ASSUME NEW e \in new
      PROVE  /\ Is(e, "user", {"user", "fan"}, {"domain"}) /\ Refs(e, "domain") \subseteq Keys("domain")
             /\ e.key[1] = "user"
  <2>1. PICK i \in 1..sc.users : e = f[i]
    OBVIOUS
  <2>2. e.refs = {<<"domain", dom[i]>>} /\ e.key = <<"user", i>> /\ e.kind = "user" /\ i \in Nat
    BY <1>5, <1>50, <2>1
  <2>30. e.refs = {<<"domain", dom[i]>>}
    BY <2>2
  <2>3. Refs(e, "domain") = {dom[i]}
    BY <2>30, OneRef
  <2>4. dom[i] # Panic
    BY <1>1, <1>8 DEF Names, Panic
  <2> QED BY <1>8, <2>2, <2>3, <2>4 DEF Is
<1>10. \A a \in plan, b \in new : a.key # b.key
  BY <1>1, <1>9, KeystonePrefixes DEF Is
<1>11. /\ Common' /\ sc' = sc /\ plan' = plan \cup new
       /\ phase' = "generate" => step' = 4
  <2>1. \A e \in new : \A r \in e.refs : r[2] # Panic
    BY <1>9 DEF Is
  <2> HIDE DEF new
  <2> QED BY <1>1, <1>4, <1>7, <1>10, <2>1, EmitKeeps
<1>12. plan \subseteq plan'
  BY <1>11
<1>13. Keys("domain") \subseteq Keys("domain")'
  BY <1>12, KeysGrow
<1>14. /\ \A e \in plan' : KeystoneEntry(e)' /\ e.kind \notin {"assignment", "token"}
       /\ \A e \in plan' : e.kind = "user" => e.key[1] = "user"
  <2>1. ASSUME NEW e \in plan PROVE KeystoneEntry(e)'
    BY <1>1, <1>12, KeystoneGrows
  <2>2. ASSUME NEW e \in new PROVE KeystoneEntry(e)' /\ e.kind = "user" /\ e.key[1] = "user"
    BY <1>9, <1>13 DEF KeystoneEntry, KeystoneUser, Is
  <2> QED BY <1>1, <1>11, <2>1, <2>2
<1>15. /\ Keys("domain")' = Keys("domain") /\ Keys("role")' = Keys("role")
       /\ Keys("project")' = Keys("project") /\ Names("user", sc.users) \subseteq Keys("user")'
  <2>1. \A e \in new : e.kind = "user"
    BY <1>9 DEF Is
  <2>2. /\ Of("domain")' = Of("domain") /\ Of("role")' = Of("role")
        /\ Of("project")' = Of("project") /\ Of("user")' = new
    BY <1>1, <1>11, <2>1 DEF Of
  <2>3. \A i \in 1..sc.users : <<"user", i>> \in Keys("user")'
    BY <1>5, <2>2 DEF Keys
  <2> QED BY <2>2, <2>3 DEF Keys, Names
<1>16. GrantsApart'
  BY <1>14 DEF GrantsApart, Of
<1>17. phase' = "generate" => KeystoneGenerates'
  BY <1>1, <1>11, <1>14, <1>15 DEF KeystoneGenerates
<1> QED BY <1>11, <1>14, <1>16, <1>17 DEF KeystoneInv

LEMMA CountedBy ==
  ASSUME NEW D, NEW S, IsFiniteSet(D)
  PROVE  \A f : /\ \A e \in S : \E k \in D : e = f[k]
                /\ \A k \in D : f[k] \in S
                /\ \A j, k \in D : f[j].key = f[k].key => j = k
                => IsFiniteSet(S) /\ UniqueIn(S) /\ Cardinality(S) = Cardinality(D)
<1> SUFFICES ASSUME NEW f, \A e \in S : \E k \in D : e = f[k], \A k \in D : f[k] \in S,
                    \A j, k \in D : f[j].key = f[k].key => j = k
             PROVE  IsFiniteSet(S) /\ UniqueIn(S) /\ Cardinality(S) = Cardinality(D)
  OBVIOUS
<1> DEFINE g == [k \in D |-> f[k]]
<1>1. g \in Bijection(D, S)
  BY DEF Bijection, Injection, Surjection, IsInjective
<1>2. ExistsBijection(D, S)
  BY <1>1 DEF ExistsBijection
<1> QED BY <1>2, FS_Bijection, Numbered

\* Places among the numbers kept: from one on, and all different.
LEMMA KeptRanks ==
  ASSUME NEW n \in Nat, NEW kept \in SUBSET (1..n)
  PROVE  /\ IsFiniteSet(kept) /\ Cardinality(kept) \in Nat
         /\ \A k \in kept : Cardinality(kept \cap 1..k) \in 1..Cardinality(kept)
         /\ \A j, k \in kept : Cardinality(kept \cap 1..j) = Cardinality(kept \cap 1..k) => j = k
<1>1. IsFiniteSet(1..n)
  BY FS_Interval
<1>2. IsFiniteSet(kept) /\ Cardinality(kept) \in Nat
  BY <1>1, FS_Subset, FS_CardinalityType
<1> DEFINE upTo(k) == kept \cap 1..k
<1>3. \A k \in kept : /\ IsFiniteSet(upTo(k)) /\ Cardinality(upTo(k)) \in Nat
                      /\ Cardinality(upTo(k)) <= Cardinality(kept)
  BY <1>2, FS_Subset, FS_CardinalityType
<1>4. \A k \in kept : k \in upTo(k) /\ k \in Nat
  OBVIOUS
<1>5. ASSUME NEW j \in kept, NEW k \in kept, j < k PROVE Cardinality(upTo(j)) < Cardinality(upTo(k))
  <2>1. \A i \in 1..j : i \in 1..k
    BY <1>4, <1>5
  <2>2. k \notin 1..j
    BY <1>4, <1>5
  <2>3. upTo(j) \in SUBSET upTo(k) /\ upTo(j) # upTo(k)
    BY <1>4, <2>1, <2>2
  <2> HIDE DEF upTo
  <2> QED BY <1>3, <2>3, PartIsSmaller
<1>6. \A k \in kept : Cardinality(upTo(k)) # 0
  <2> HIDE DEF upTo
  <2> QED BY <1>3, <1>4, FS_EmptySet
<1> HIDE DEF upTo
<1>7. \A k \in kept : Cardinality(upTo(k)) \in 1..Cardinality(kept)
  BY <1>2, <1>3, <1>6
<1>8. ASSUME NEW j \in kept, NEW k \in kept, Cardinality(upTo(j)) = Cardinality(upTo(k)) PROVE j = k
  <2>1. ~(j < k) /\ ~(k < j)
    BY <1>3, <1>5, <1>8
  <2> QED BY <1>4, <2>1
<1> QED BY <1>2, <1>7, <1>8 DEF upTo

LEMMA GrantIs ==
  ASSUME NEW i, NEW u, NEW S, NEW r
  PROVE  /\ Grant(i, u, S, r).key = <<"assign", i>> /\ Grant(i, u, S, r).kind = "assignment"
         /\ Refs(Grant(i, u, S, r), "user") = {u} /\ Refs(Grant(i, u, S, r), "role") = {r}
         /\ Refs(Grant(i, u, S, r), "project") = S
         /\ \A x \in Grant(i, u, S, r).refs :
              x[1] \in {"user", "role", "project"} /\ x[2] \in {u, r} \cup S
<1> DEFINE e == Grant(i, u, S, r)
<1>1. /\ e.key = <<"assign", i>> /\ e.kind = "assignment"
      /\ e.refs = {<<"user", u>>, <<"role", r>>} \cup One("project", S)
  BY DEF Grant, Entry
<1> HIDE DEF e
<1>2. \A x : x \in One("project", S) <=> \E p \in S : x = <<"project", p>>
  BY DEF One
<1>3. \A x \in e.refs : \/ x = <<"user", u>> \/ x = <<"role", r>>
                        \/ \E p \in S : x = <<"project", p>>
  BY <1>1, <1>2
<1>4. <<"user", u>> \in e.refs /\ <<"role", r>> \in e.refs /\ \A p \in S : <<"project", p>> \in e.refs
  BY <1>1, <1>2
<1>5. \A x \in e.refs : /\ x[1] \in {"user", "role", "project"} /\ x[2] \in {u, r} \cup S
                        /\ x[1] = "user" => x[2] = u
                        /\ x[1] = "role" => x[2] = r
                        /\ x[1] = "project" => x[2] \in S
  BY <1>3
<1>6. Refs(e, "user") = {u} /\ Refs(e, "role") = {r}
  BY <1>4, <1>5, SoleRef
<1>7. \A t \in Refs(e, "project") : t \in S
  BY <1>5, RefsAre
<1>8. ASSUME NEW t \in S PROVE t \in Refs(e, "project")
  <2>1. <<"project", t>> \in e.refs
    BY <1>4
  <2> QED BY <2>1, RefsAre
<1>9. Refs(e, "project") = S
  BY <1>7, <1>8
<1> QED BY <1>1, <1>5, <1>6, <1>9 DEF e

LEMMA KeystoneGrantsStep ==
  ASSUME Common, KeystoneInv, KeystoneGrants
  PROVE  Common' /\ KeystoneInv' /\ sc' = sc
<1>1. /\ phase = "generate" /\ sc.service = "keystone" /\ sc.service # "mix"
      /\ step \in 4..(sc.users + 3) /\ sc.users \in Nat
  <2>1. phase = "generate" /\ sc.service = "keystone" /\ step \in 4..(sc.users + 3)
    BY DEF KeystoneGrants
  <2> QED BY <2>1, KeystoneScenario
<1>2. /\ validateRange(sc.grants) /\ sc.users > 0
      /\ sc.users > 0 /\ sc.grants.hi > 0 => sc.roles \in Nat \ {0}
  <2>1. sc.users > 0
    BY <1>1
  <2> QED BY <1>1, <2>1, KeystoneScenario
<1>3. /\ \A e \in plan : KeystoneEntry(e)
      /\ GrantsApart /\ KeystoneGenerates
  BY <1>1 DEF KeystoneInv
<1>4. PICK here : here = step - 3 /\ here \in Nat /\ here \in 1..sc.users /\ step + 1 \in Nat /\ step + 1 # 0
  BY <1>1
<1> DEFINE u == CHOOSE e \in Of("user") : e.key = <<"user", step - 3>>
<1>6. u.key = <<"user", here>> /\ u.key \in Keys("user")
  <2>1. step > 3
    BY <1>1
  <2>2. <<"user", here>> \in Names("user", sc.users)
    BY <1>4 DEF Names
  <2>3. <<"user", here>> \in Keys("user")
    BY <1>3, <2>1, <2>2 DEF KeystoneGenerates
  <2>4. \E e \in Of("user") : e.key = <<"user", here>>
    BY <2>3 DEF Keys
  <2> QED BY <1>4, <2>3, <2>4
<1> DEFINE base == Cardinality(Of("assignment"))
<1>7. base \in Nat
  BY FS_Subset, FS_CardinalityType DEF Common, Of
<1>8. PICK n \in randRange(sc.grants) : \E draw \in [1..n -> grantOptions(u)] :
        LET kept == {k \in 1..n : \A j \in 1..(k - 1) : draw[j] # draw[k]}
        IN Emit({Grant(base + Cardinality(kept \cap 1..k), u.key, draw[k][1], draw[k][2]) :
                     k \in kept}, step + 1)
  BY DEF KeystoneGrants
<1>9. PICK draw \in [1..n -> grantOptions(u)] :
        LET kept == {k \in 1..n : \A j \in 1..(k - 1) : draw[j] # draw[k]}
        IN Emit({Grant(base + Cardinality(kept \cap 1..k), u.key, draw[k][1], draw[k][2]) :
                     k \in kept}, step + 1)
  BY <1>8
<1> HIDE DEF u
<1>10. n \in Nat /\ (n > 0 => sc.grants.hi > 0)
  BY <1>2, RangesAreNat DEF randRange
<1> DEFINE kept == {k \in 1..n : \A j \in 1..(k - 1) : draw[j] # draw[k]}
           rank(k) == Cardinality(kept \cap 1..k)
           f == [k \in kept |-> Grant(base + rank(k), u.key, draw[k][1], draw[k][2])]
           new == {f[k] : k \in kept}
<1>11. Emit(new, step + 1)
  BY <1>9
<1>12. kept \in SUBSET (1..n)
  OBVIOUS
<1>13. /\ IsFiniteSet(kept) /\ Cardinality(kept) \in Nat
       /\ \A k \in kept : rank(k) \in 1..Cardinality(kept)
       /\ \A j, k \in kept : rank(j) = rank(k) => j = k
  <2> HIDE DEF kept
  <2> QED BY <1>10, <1>12, KeptRanks
<1>14. \A j, k \in kept : draw[j] = draw[k] => j = k
  <2> SUFFICES ASSUME NEW j \in kept, NEW k \in kept, draw[j] = draw[k], j # k PROVE FALSE
    OBVIOUS
  <2>1. j \in Nat \ {0} /\ k \in Nat \ {0}
    BY <1>10
  <2>2. j \in 1..(k - 1) \/ k \in 1..(j - 1)
    BY <2>1
  <2> QED BY <2>2
<1>15. \A k \in kept : f[k] = Grant(base + rank(k), u.key, draw[k][1], draw[k][2]) /\ f[k] \in new
  OBVIOUS
<1>16. \A k \in kept : k \in 1..n
  OBVIOUS
<1> HIDE DEF f, kept, rank
<1>17. ASSUME NEW k \in kept
       PROVE  /\ draw[k] = <<draw[k][1], draw[k][2]>> /\ draw[k][2] \in Keys("role")
              /\ draw[k][1] \subseteq Keys("project") /\ \A p, q \in draw[k][1] : p = q
  <2>1. draw[k] \in grantOptions(u) /\ k \in 1..n
    BY <1>16
  <2>2. sc.roles \in Nat \ {0}
    BY <1>2, <1>10, <2>1
  <2>3. Keys("role") = Names("role", sc.roles)
    <3>1. step # 1
      BY <1>1
    <3> QED BY <1>3, <3>1 DEF KeystoneGenerates
  <2>4. Pick(Keys("role")) = Keys("role")
    <3>1. <<"role", 1>> \in Names("role", sc.roles)
      BY <2>2 DEF Names
    <3> QED BY <2>3, <3>1 DEF Pick
  <2> DEFINE own == {e.key : e \in {x \in Of("project") : Refs(x, "domain") = Refs(u, "domain")}}
             scopes == (IF TRUE \in Draw(sc.domainPct) \/ own = {} THEN {{}} ELSE {})
                         \cup (IF FALSE \in Draw(sc.domainPct) THEN {{p} : p \in own} ELSE {})
  <2>5. \A p \in own : p \in Keys("project")
    BY DEF Keys
  <2>6. grantOptions(u) = scopes \X Keys("role")
    BY <2>4 DEF grantOptions
  <2>7. \A s \in scopes : s = {} \/ \E p \in own : s = {p}
    OBVIOUS
  <2> HIDE DEF scopes, own
  <2>8. draw[k] = <<draw[k][1], draw[k][2]>> /\ draw[k][2] \in Keys("role") /\ draw[k][1] \in scopes
    BY <2>1, <2>6
  <2>9. draw[k][1] = {} \/ \E p \in own : draw[k][1] = {p}
    BY <2>7, <2>8
  <2> QED BY <2>5, <2>8, <2>9
<1>18. \A k \in Keys("role") \cup Keys("project") \cup Keys("user") : k # Panic
  BY <1>3, KeysAre, KeystoneKinds DEF KeystoneProject, KeystoneUser, Is, Panic
<1>19. ASSUME NEW k \in kept
       PROVE  /\ f[k].key = <<"assign", base + rank(k)>>
              /\ base + rank(k) \in Nat /\ base + rank(k) > base
              /\ base + rank(k) <= base + Cardinality(kept)
              /\ Is(f[k], "assignment", {"assign"}, {"user", "role", "project"})
              /\ Refs(f[k], "user") = {<<"user", here>>} /\ Refs(f[k], "role") = {draw[k][2]}
              /\ Refs(f[k], "project") = draw[k][1]
              /\ f[k].key[2] = base + rank(k)
  <2>1. /\ f[k].key = <<"assign", base + rank(k)>> /\ f[k].kind = "assignment"
        /\ Refs(f[k], "user") = {u.key} /\ Refs(f[k], "role") = {draw[k][2]}
        /\ Refs(f[k], "project") = draw[k][1]
        /\ \A x \in f[k].refs : x[1] \in {"user", "role", "project"} /\ x[2] \in {u.key, draw[k][2]} \cup draw[k][1]
    BY <1>15, GrantIs
  <2>2. /\ base + rank(k) \in Nat /\ base + rank(k) > base
        /\ base + rank(k) <= base + Cardinality(kept)
    BY <1>7, <1>13
  <2>3. \A x \in f[k].refs : x[1] \in {"user", "role", "project"} /\ x[2] # Panic
    BY <1>6, <1>17, <1>18, <2>1
  <2>4. Is(f[k], "assignment", {"assign"}, {"user", "role", "project"})
    BY <2>1, <2>2, <2>3 DEF Is
  <2> QED BY <1>6, <2>1, <2>2, <2>4
<1> HIDE DEF base
<1>20. IsFiniteSet(new) /\ UniqueIn(new) /\ Cardinality(new) = Cardinality(kept)
  <2>1. ASSUME NEW j \in kept, NEW k \in kept, f[j].key = f[k].key PROVE j = k
    <3>1. f[j].key[2] = base + rank(j) /\ f[k].key[2] = base + rank(k)
      BY <1>19
    <3>2. rank(j) = rank(k)
      <4>1. base + rank(j) = base + rank(k) /\ rank(j) \in Nat /\ rank(k) \in Nat
        BY <1>13, <2>1, <3>1
      <4> QED BY <1>7, <4>1 DEF base
    <3> QED BY <1>13, <3>2
  <2>2. \A j, k \in kept : f[j].key = f[k].key => j = k
    BY <2>1
  <2>3. /\ \A e \in new : \E k \in kept : e = f[k]
        /\ \A k \in kept : f[k] \in new
    OBVIOUS
  <2> QED BY <1>13, <2>2, <2>3, CountedBy
<1>21. \A a \in plan, b \in new : a.key # b.key
  <2> SUFFICES ASSUME NEW a \in plan, NEW k \in kept, a.key = f[k].key PROVE FALSE
    OBVIOUS
  <2>1. a.key[1] = "assign" /\ a.key[2] > base
    BY <1>19
  <2>2. a.kind = "assignment"
    BY <1>3, <2>1, KeystonePrefixes
  <2>3. a.key[2] <= base /\ a.key[2] \in Nat
    BY <1>3, <2>2, KeystoneKinds DEF KeystoneGenerates, KeystoneGrant, Is, base
  <2> QED BY <1>7, <2>1, <2>3 DEF base
<1>22. /\ Common' /\ sc' = sc /\ plan' = plan \cup new
       /\ phase' = "generate" => step' = step + 1
  <2>1. \A e \in new : \A r \in e.refs : r[2] # Panic
    BY <1>19 DEF Is
  <2> HIDE DEF new
  <2> QED BY <1>1, <1>4, <1>11, <1>20, <1>21, <2>1, EmitKeeps
<1>23. plan \subseteq plan'
  BY <1>22
<1>24. /\ Keys("user") \subseteq Keys("user")' /\ Keys("role") \subseteq Keys("role")'
       /\ Keys("project") \subseteq Keys("project")'
  BY <1>23, KeysGrow
<1>25. \A e \in new : KeystoneGrant(e)' /\ e.kind = "assignment"
  <2> SUFFICES ASSUME NEW e \in new PROVE KeystoneGrant(e)' /\ e.kind = "assignment"
    OBVIOUS
  <2>1. PICK k \in kept : e = f[k]
    OBVIOUS
  <2>2. /\ Is(e, "assignment", {"assign"}, {"user", "role", "project"})
        /\ Refs(e, "user") = {<<"user", here>>} /\ Refs(e, "role") = {draw[k][2]}
        /\ Refs(e, "project") = draw[k][1]
    BY <1>19, <2>1
  <2>3. /\ <<"user", here>> \in Keys("user")' /\ draw[k][2] \in Keys("role")'
        /\ draw[k][1] \subseteq Keys("project")' /\ \A p, q \in draw[k][1] : p = q
    BY <1>6, <1>17, <1>24
  <2> HIDE DEF new
  <2> QED BY <2>2, <2>3 DEF KeystoneGrant, Just, Is
<1>26. \A e \in plan' : KeystoneEntry(e)'
  <2>1. ASSUME NEW e \in plan PROVE KeystoneEntry(e)'
    BY <1>3, <1>23, KeystoneGrows
  <2> QED BY <1>22, <1>25, <2>1 DEF KeystoneEntry
<1>27. Of("assignment")' = Of("assignment") \cup new /\ Of("assignment") \cap new = {}
  <2>1. Of("assignment")' = Of("assignment") \cup new
    BY <1>22, <1>25 DEF Of
  <2>2. Of("assignment") \cap new = {}
    BY <1>21 DEF Of
  <2> QED BY <2>1, <2>2
<1>28. GrantsApart'
  <2>1. \A a \in Of("assignment") : \E j \in Nat : Refs(a, "user") = {<<"user", j>>} /\ j < here
    BY <1>3, <1>4 DEF KeystoneGenerates, Of
  <2>2. ASSUME NEW a \in Of("assignment"), NEW b \in new, Refs(a, "user") = Refs(b, "user") PROVE FALSE
    <3>1. PICK j \in Nat : Refs(a, "user") = {<<"user", j>>} /\ j < here
      BY <2>1
    <3>2. Refs(b, "user") = {<<"user", here>>}
      BY <1>19
    <3>3. <<"user", j>> = <<"user", here>>
      BY <2>2, <3>1, <3>2
    <3>4. j = here
      BY <3>3
    <3> QED BY <1>4, <3>1, <3>4
  <2>3. ASSUME NEW j \in kept, NEW k \in kept, f[j].refs = f[k].refs PROVE j = k
    <3>1. Refs(f[j], "role") = Refs(f[k], "role") /\ Refs(f[j], "project") = Refs(f[k], "project")
      BY <2>3 DEF Refs
    <3>4. /\ Refs(f[j], "role") = {draw[j][2]} /\ Refs(f[j], "project") = draw[j][1]
          /\ Refs(f[k], "role") = {draw[k][2]} /\ Refs(f[k], "project") = draw[k][1]
      BY <1>19
    <3>5. {draw[j][2]} = {draw[k][2]}
      BY <3>1, <3>4
    <3>2. draw[j][2] = draw[k][2] /\ draw[j][1] = draw[k][1]
      BY <3>1, <3>4, <3>5
    <3>3. draw[j] = draw[k]
      BY <1>17, <3>2
    <3> QED BY <1>14, <3>3
  <2>4. \A a, b \in new : a.refs = b.refs => a = b
    BY <2>3
  <2>5. ASSUME NEW a \in Of("assignment"), NEW b \in new PROVE a.refs # b.refs
    BY <2>2 DEF Refs
  <2> HIDE DEF new
  <2> QED BY <1>3, <1>27, <2>4, <2>5 DEF GrantsApart
<1>29. ASSUME phase' = "generate" PROVE KeystoneGenerates'
  <2>1. step' = step + 1 /\ step' > 3 /\ step' > 2 /\ step' # 1 /\ step > 3 /\ step > 2 /\ step # 1
        /\ step' - 3 = here + 1
    BY <1>1, <1>4, <1>22, <1>29
  <2>2. \A e \in new : e.kind \notin {"domain", "role", "project", "user", "token"}
    BY <1>25
  <2>3. /\ Of("domain")' = Of("domain") /\ Of("role")' = Of("role") /\ Of("project")' = Of("project")
        /\ Of("user")' = Of("user") /\ Of("token")' = Of("token")
    BY <1>22, <2>2 DEF Of
  <2>4. /\ Keys("domain")' = Keys("domain") /\ Keys("role")' = Keys("role")
        /\ Keys("project")' = Keys("project") /\ Keys("user")' = Keys("user")
    BY <2>3 DEF Keys
  <2>5. Cardinality(Of("assignment")') = base + Cardinality(kept) /\ Cardinality(kept) \in Nat
    <3>1. IsFiniteSet(plan)
      BY DEF Common
    <3> HIDE DEF new
    <3> QED BY <1>13, <1>20, <1>27, <3>1, KindGrows DEF base
  <2>6. ASSUME NEW e \in plan, e.kind = "assignment"
        PROVE  /\ e.key[2] <= Cardinality(Of("assignment")')
               /\ \E j \in Nat : Refs(e, "user") = {<<"user", j>>} /\ j < step' - 3
    <3>1. e.key[2] <= base /\ e.key[2] \in Nat
      BY <1>3, <2>6, KeystoneKinds DEF KeystoneGenerates, KeystoneGrant, Is, base
    <3>2. PICK j \in Nat : Refs(e, "user") = {<<"user", j>>} /\ j < step - 3
      BY <1>3, <2>6 DEF KeystoneGenerates
    <3>3. j < step' - 3
      BY <1>4, <2>1, <3>2
    <3>4. e.key[2] <= base + Cardinality(kept)
      BY <1>7, <2>5, <3>1 DEF base
    <3> QED BY <2>5, <3>2, <3>3, <3>4
  <2>7. ASSUME NEW e \in new
        PROVE  /\ e.key[2] <= Cardinality(Of("assignment")')
               /\ \E j \in Nat : Refs(e, "user") = {<<"user", j>>} /\ j < step' - 3
    <3>1. e.key[2] <= base + Cardinality(kept) /\ Refs(e, "user") = {<<"user", here>>}
      BY <1>19
    <3>2. here < step' - 3
      BY <1>4, <2>1
    <3> QED BY <1>4, <2>5, <3>1, <3>2
  <2>8. ASSUME NEW e \in plan' PROVE /\ e.kind = "user" => e.key[1] = "user"
                                     /\ e.kind # "token"
    <3>1. ~(step > sc.users + 4)
      BY <1>1
    <3>2. \A x \in plan : x.kind # "token" /\ (x.kind = "user" => x.key[1] = "user")
      BY <1>3, <3>1 DEF KeystoneGenerates
    <3> QED BY <1>22, <2>2, <3>2
  <2>9. /\ Names("dom", sc.domains) = Keys("domain") /\ Names("role", sc.roles) = Keys("role")
        /\ Names("proj", sc.projects) = Keys("project") /\ Names("user", sc.users) \subseteq Keys("user")
    BY <1>3, <2>1 DEF KeystoneGenerates
  <2>10. \A e \in plan' : e.kind = "assignment" =>
           /\ e.key[2] <= Cardinality(Of("assignment")')
           /\ \E j \in Nat : Refs(e, "user") = {<<"user", j>>} /\ j < step' - 3
    BY <1>22, <2>6, <2>7
  <2> HIDE DEF new
  <2> QED BY <1>22, <2>1, <2>4, <2>8, <2>9, <2>10 DEF KeystoneGenerates
<1> QED BY <1>22, <1>26, <1>28, <1>29 DEF KeystoneInv

LEMMA KeystoneTokensStep ==
  ASSUME Common, KeystoneInv, KeystoneTokens
  PROVE  Common' /\ KeystoneInv' /\ sc' = sc
<1>1. /\ phase = "generate" /\ sc.service = "keystone" /\ sc.service # "mix"
      /\ step = sc.users + 4 /\ sc.users \in Nat
  <2>1. phase = "generate" /\ sc.service = "keystone" /\ step = sc.users + 4
    BY DEF KeystoneTokens, At
  <2> QED BY <2>1, KeystoneScenario
<1>2. step > 3 /\ step > 2 /\ step # 1 /\ sc.users + 5 \in Nat /\ ~(step > sc.users + 4)
      /\ sc.users + 5 # 1 /\ sc.users + 5 > 2 /\ sc.users + 5 > 3 /\ sc.users + 5 > sc.users + 4
  BY <1>1
<1>3. /\ \A e \in plan : KeystoneEntry(e)
      /\ GrantsApart /\ KeystoneGenerates
  BY <1>1 DEF KeystoneInv
<1>4. /\ Names("dom", sc.domains) = Keys("domain") /\ Names("role", sc.roles) = Keys("role")
      /\ Names("proj", sc.projects) = Keys("project") /\ Names("user", sc.users) \subseteq Keys("user")
      /\ \A e \in plan : e.kind # "token"
  BY <1>2, <1>3 DEF KeystoneGenerates
<1>5. PICK to \in [1..sc.users -> AtMostOne(Keys("project"))] :
       /\ \A i \in DOMAIN to : to[i] \subseteq tokenTargets(<<"user", i>>)
       /\ Emit({Entry(<<"token", i>>, "token", {<<"user", <<"user", i>>>>} \cup One("project", to[i]),
                      {}, 1) : i \in {j \in DOMAIN to : to[j] # {}}}, sc.users + 5)
  BY DEF KeystoneTokens
<1> DEFINE D == {j \in 1..sc.users : to[j] # {}}
           f == [i \in D |-> Entry(<<"token", i>>, "token",
                               {<<"user", <<"user", i>>>>} \cup One("project", to[i]), {}, 1)]
           new == {f[i] : i \in D}
<1>6. Emit(new, sc.users + 5)
  <2>1. D = {j \in DOMAIN to : to[j] # {}}
    OBVIOUS
  <2> HIDE DEF D
  <2> QED BY <1>5, <2>1
<1>7. \A i \in D : /\ f[i].key = <<"token", i>> /\ f[i].kind = "token"
                   /\ f[i].refs = {<<"user", <<"user", i>>>>} \cup One("project", to[i])
  BY DEF Entry
<1>8. \A i \in D : i \in Nat /\ i \in 1..sc.users
  BY <1>1
<1>9. IsFiniteSet(D)
  <2>1. IsFiniteSet(1..sc.users)
    BY <1>1, FS_Interval
  <2> QED BY <2>1, FS_Subset
<1>10. \A i \in D : \E p \in Keys("project") : to[i] = {p}
  BY DEF AtMostOne
<1> HIDE DEF f, D
<1>11. IsFiniteSet(new) /\ UniqueIn(new)
  <2>1. \A i, j \in D : f[i].key = f[j].key => i = j
    BY <1>7
  <2>2. \A e \in new : \E i \in D : e = f[i]
    OBVIOUS
  <2> HIDE DEF new
  <2>3. \A h : /\ \A e \in new : \E i \in D : e = h[i]
               /\ \A i, j \in D : h[i].key = h[j].key => i = j
               => IsFiniteSet(new) /\ UniqueIn(new)
    BY <1>9, Numbered
  <2> QED BY <2>1, <2>2, <2>3
<1>12. ASSUME NEW i \in D
       PROVE  /\ Is(f[i], "token", {"token"}, {"user", "project"})
              /\ Refs(f[i], "user") = {<<"user", i>>} /\ <<"user", i>> \in Keys("user")
              /\ Refs(f[i], "project") \subseteq Keys("project")
              /\ \E a \in Of("assignment") : /\ Refs(a, "user") = Refs(f[i], "user")
                                             /\ Refs(a, "project") = Refs(f[i], "project")
  <2>1. PICK p \in Keys("project") : to[i] = {p}
    BY <1>10
  <2>2. f[i].key = <<"token", i>> /\ f[i].kind = "token" /\ i \in Nat
    BY <1>7, <1>8
  <2>3. /\ <<"user", <<"user", i>>>> \in f[i].refs /\ <<"project", p>> \in f[i].refs
        /\ \A r \in f[i].refs : r = <<"user", <<"user", i>>>> \/ r = <<"project", p>>
    <3>1. One("project", to[i]) = {<<"project", p>>}
      BY <2>1 DEF One
    <3>2. f[i].refs = {<<"user", <<"user", i>>>>} \cup One("project", to[i])
      BY <1>7
    <3> QED BY <3>1, <3>2
  <2>4. /\ \A r \in f[i].refs : r[1] = "user" => r[2] = <<"user", i>>
        /\ \A r \in f[i].refs : r[1] = "project" => r[2] = p
    BY <2>3
  <2>5. Refs(f[i], "user") = {<<"user", i>>}
    BY <2>3, <2>4, SoleRef
  <2>6. Refs(f[i], "project") = {p}
    BY <2>3, <2>4, SoleRef
  <2>7. p # Panic /\ <<"user", i>> # Panic
    <3>1. p \in Names("proj", sc.projects)
      BY <1>4
    <3> QED BY <3>1 DEF Names, Panic
  <2>8. Is(f[i], "token", {"token"}, {"user", "project"})
    <3>1. \A r \in f[i].refs : r[1] \in {"user", "project"} /\ r[2] # Panic
      BY <2>3, <2>7
    <3> QED BY <2>2, <3>1 DEF Is
  <2>9. <<"user", i>> \in Keys("user")
    BY <1>4, <1>8 DEF Names
  <2>10. to[i] \subseteq tokenTargets(<<"user", i>>)
    BY <1>5, <1>8
  <2>11. PICK a \in Of("assignment") : <<"user", i>> \in Refs(a, "user") /\ p \in Refs(a, "project")
    BY <2>1, <2>10 DEF tokenTargets
  <2>12. KeystoneGrant(a)
    BY <1>3, <2>11, KeystoneKinds DEF Of
  <2>13. Refs(a, "user") = {<<"user", i>>}
    BY <2>11, <2>12 DEF KeystoneGrant, Just
  <2>14. Refs(a, "project") = {p}
    BY <2>11, <2>12 DEF KeystoneGrant
  <2> QED BY <2>5, <2>6, <2>8, <2>9, <2>11, <2>13, <2>14
<1>13. \A a \in plan, b \in new : a.key # b.key
  <2>1. \A a \in plan : a.key[1] # "token"
    BY <1>3, <1>4, KeystonePrefixes
  <2>2. \A b \in new : b.key[1] = "token"
    BY <1>12 DEF Is
  <2> HIDE DEF new
  <2> QED BY <2>1, <2>2
<1>14. /\ Common' /\ sc' = sc /\ plan' = plan \cup new
       /\ phase' = "generate" => step' = sc.users + 5
  <2>1. \A e \in new : \A r \in e.refs : r[2] # Panic
    BY <1>12 DEF Is
  <2> HIDE DEF new
  <2> QED BY <1>1, <1>2, <1>6, <1>11, <1>13, <2>1, EmitKeeps
<1>15. plan \subseteq plan'
  BY <1>14
<1>16. \A e \in new : e.kind = "token"
  BY <1>12 DEF Is
<1>17. /\ Of("domain")' = Of("domain") /\ Of("role")' = Of("role") /\ Of("project")' = Of("project")
       /\ Of("user")' = Of("user") /\ Of("assignment")' = Of("assignment")
  BY <1>14, <1>16 DEF Of
<1>18. /\ Keys("domain")' = Keys("domain") /\ Keys("role")' = Keys("role")
       /\ Keys("project")' = Keys("project") /\ Keys("user")' = Keys("user")
  BY <1>17 DEF Keys
<1>19. \A e \in plan' : KeystoneEntry(e)'
  <2>1. ASSUME NEW e \in plan PROVE KeystoneEntry(e)'
    BY <1>3, <1>15, KeystoneGrows
  <2>2. ASSUME NEW e \in new PROVE KeystoneToken(e)'
    <3>1. PICK i \in D : e = f[i]
      OBVIOUS
    <3>2. /\ Is(e, "token", {"token"}, {"user", "project"})
          /\ Refs(e, "user") \subseteq Keys("user") /\ Refs(e, "project") \subseteq Keys("project")
          /\ \E a \in Of("assignment") : /\ Refs(a, "user") = Refs(e, "user")
                                         /\ Refs(a, "project") = Refs(e, "project")
      BY <1>12, <3>1
    <3> HIDE DEF new
    <3> QED BY <1>17, <1>18, <3>2 DEF KeystoneToken
  <2> QED BY <1>14, <2>1, <2>2 DEF KeystoneEntry
<1>20. GrantsApart'
  BY <1>3, <1>17 DEF GrantsApart
<1>21. ASSUME phase' = "generate" PROVE KeystoneGenerates'
  <2>1. step' = sc.users + 5 /\ step' - 3 = step - 2
    <3>1. step' = sc.users + 5
      BY <1>14, <1>21
    <3> QED BY <1>1, <3>1
  <2>2. ASSUME NEW e \in plan, e.kind = "assignment"
        PROVE  /\ e.key[2] <= Cardinality(Of("assignment")')
               /\ \E j \in Nat : Refs(e, "user") = {<<"user", j>>} /\ j < step' - 3
    <3>1. e.key[2] <= Cardinality(Of("assignment"))
      BY <1>3, <2>2 DEF KeystoneGenerates
    <3>2. PICK j \in Nat : Refs(e, "user") = {<<"user", j>>} /\ j < step - 3
      BY <1>3, <2>2 DEF KeystoneGenerates
    <3>3. j < step' - 3
      BY <1>1, <2>1, <3>2
    <3> QED BY <1>17, <3>1, <3>2, <3>3
  <2>3. \A e \in plan : e.kind = "user" => e.key[1] = "user"
    BY <1>3 DEF KeystoneGenerates
  <2>4. \A e \in plan' : /\ e.kind = "user" => e.key[1] = "user"
                         /\ e.kind = "assignment" =>
                              /\ e.key[2] <= Cardinality(Of("assignment")')
                              /\ \E j \in Nat : Refs(e, "user") = {<<"user", j>>} /\ j < step' - 3
    BY <1>14, <1>16, <2>2, <2>3
  <2> HIDE DEF new
  <2> QED BY <1>2, <1>4, <1>14, <1>18, <2>1, <2>4 DEF KeystoneGenerates
<1> QED BY <1>14, <1>19, <1>20, <1>21 DEF KeystoneInv

\* The pairs of a fan and one of its projects, in the order they are written.
PairsUpTo(pairs, x) == {y \in pairs : y[1] < x[1] \/ (y[1] = x[1] /\ y[2][2] <= x[2][2])}

LEMMA PairRanks ==
  ASSUME NEW pairs, IsFiniteSet(pairs),
         \A x \in pairs : x[1] \in Nat /\ x[2][2] \in Nat
  PROVE  \A x, y \in pairs :
           /\ Cardinality(PairsUpTo(pairs, x)) \in Nat /\ Cardinality(PairsUpTo(pairs, x)) # 0
           /\ Cardinality(PairsUpTo(pairs, x)) = Cardinality(PairsUpTo(pairs, y)) =>
                x[1] = y[1] /\ x[2][2] = y[2][2]
<1>1. \A x \in pairs : /\ IsFiniteSet(PairsUpTo(pairs, x)) /\ Cardinality(PairsUpTo(pairs, x)) \in Nat
                       /\ x \in PairsUpTo(pairs, x)
  <2> SUFFICES ASSUME NEW x \in pairs
               PROVE  /\ IsFiniteSet(PairsUpTo(pairs, x)) /\ Cardinality(PairsUpTo(pairs, x)) \in Nat
                      /\ x \in PairsUpTo(pairs, x)
    OBVIOUS
  <2>1. PairsUpTo(pairs, x) \in SUBSET pairs /\ x \in PairsUpTo(pairs, x)
    BY DEF PairsUpTo
  <2> QED BY <2>1, FS_Subset, FS_CardinalityType
<1>2. ASSUME NEW x \in pairs, NEW y \in pairs, x[1] < y[1] \/ (x[1] = y[1] /\ x[2][2] < y[2][2])
      PROVE  Cardinality(PairsUpTo(pairs, x)) < Cardinality(PairsUpTo(pairs, y))
  <2>1. PairsUpTo(pairs, x) \in SUBSET PairsUpTo(pairs, y)
    BY <1>2 DEF PairsUpTo
  <2>2. y \notin PairsUpTo(pairs, x)
    BY <1>2 DEF PairsUpTo
  <2>3. PairsUpTo(pairs, x) # PairsUpTo(pairs, y)
    BY <1>1, <2>2
  <2> QED BY <1>1, <2>1, <2>3, PartIsSmaller
<1>3. \A x \in pairs : Cardinality(PairsUpTo(pairs, x)) # 0
  BY <1>1, FS_EmptySet
<1>4. ASSUME NEW x \in pairs, NEW y \in pairs,
             Cardinality(PairsUpTo(pairs, x)) = Cardinality(PairsUpTo(pairs, y))
      PROVE  x[1] = y[1] /\ x[2][2] = y[2][2]
  <2>1. ~(Cardinality(PairsUpTo(pairs, x)) < Cardinality(PairsUpTo(pairs, y)))
        /\ ~(Cardinality(PairsUpTo(pairs, y)) < Cardinality(PairsUpTo(pairs, x)))
    BY <1>1, <1>4
  <2>2. /\ ~(x[1] < y[1] \/ (x[1] = y[1] /\ x[2][2] < y[2][2]))
        /\ ~(y[1] < x[1] \/ (y[1] = x[1] /\ y[2][2] < x[2][2]))
    BY <1>2, <2>1
  <2> QED BY <2>2
<1> QED BY <1>1, <1>3, <1>4

LEMMA KeystoneFansStep ==
  ASSUME Common, KeystoneInv, KeystoneFans
  PROVE  Common' /\ KeystoneInv' /\ sc' = sc
<1>1. /\ phase = "generate" /\ sc.service = "keystone" /\ sc.service # "mix"
      /\ step = sc.users + 5 /\ sc.users \in Nat
  <2>1. phase = "generate" /\ sc.service = "keystone" /\ step = sc.users + 5
    BY DEF KeystoneFans, At
  <2> QED BY <2>1, KeystoneScenario
<1>2. /\ sc.fans \in Nat /\ sc.projects \in Nat /\ validateRange(sc.fanGrants)
      /\ sc.fans > 0 => /\ sc.domains \in Nat \ {0} /\ sc.roles \in Nat \ {0}
                        /\ sc.fanGrants.hi <= sc.projects
  BY <1>1, KeystoneScenario
<1>3. /\ \A e \in plan : KeystoneEntry(e)
      /\ GrantsApart /\ KeystoneGenerates
  BY <1>1 DEF KeystoneInv
<1>4. /\ Names("dom", sc.domains) = Keys("domain") /\ Names("role", sc.roles) = Keys("role")
      /\ Names("proj", sc.projects) = Keys("project")
      /\ \A e \in plan : e.kind = "user" => e.key[1] = "user"
  <2>1. step # 1 /\ step > 2
    BY <1>1
  <2> QED BY <1>3, <2>1 DEF KeystoneGenerates
<1> DEFINE base == Cardinality(Of("assignment"))
<1>5. base \in Nat
  BY FS_Subset, FS_CardinalityType DEF Common, Of
<1>6. PICK on \in [1..sc.fans -> UNION {permPrefix(n, Keys("project")) : n \in randRange(sc.fanGrants)}] :
      \E role \in [1..sc.fans -> [Keys("project") -> Pick(Keys("role"))]] :
       LET pairs == UNION {{<<i, p>> : p \in on[i]} : i \in DOMAIN on}
           upTo(i, p) == {x \in pairs : x[1] < i \/ (x[1] = i /\ x[2][2] <= p[2])}
       IN Emit({Entry(<<"fan", i>>, "user", {<<"domain", roundRobin("dom", 0, sc.domains)>>},
                      {"fan"}, 1) : i \in DOMAIN on}
               \cup {Grant(base + Cardinality(upTo(x[1], x[2])), <<"fan", x[1]>>, {x[2]},
                            role[x[1]][x[2]]) : x \in pairs}, 0)
  BY DEF KeystoneFans
<1>7. PICK role \in [1..sc.fans -> [Keys("project") -> Pick(Keys("role"))]] :
       LET pairs == UNION {{<<i, p>> : p \in on[i]} : i \in DOMAIN on}
           upTo(i, p) == {x \in pairs : x[1] < i \/ (x[1] = i /\ x[2][2] <= p[2])}
       IN Emit({Entry(<<"fan", i>>, "user", {<<"domain", roundRobin("dom", 0, sc.domains)>>},
                      {"fan"}, 1) : i \in DOMAIN on}
               \cup {Grant(base + Cardinality(upTo(x[1], x[2])), <<"fan", x[1]>>, {x[2]},
                            role[x[1]][x[2]]) : x \in pairs}, 0)
  BY <1>6
<1> DEFINE pairs == UNION {{<<i, p>> : p \in on[i]} : i \in DOMAIN on}
           rank(x) == Cardinality(PairsUpTo(pairs, x))
           home == roundRobin("dom", 0, sc.domains)
           g == [i \in 1..sc.fans |-> Entry(<<"fan", i>>, "user", {<<"domain", home>>}, {"fan"}, 1)]
           fans == {g[i] : i \in 1..sc.fans}
           f == [x \in pairs |-> Grant(base + rank(x), <<"fan", x[1]>>, {x[2]}, role[x[1]][x[2]])]
           grants == {f[x] : x \in pairs}
           new == fans \cup grants
<1>8. Emit(new, 0)
  BY <1>7 DEF PairsUpTo
<1>9. \A i \in 1..sc.fans : on[i] \subseteq Keys("project")
  <2> SUFFICES ASSUME NEW i \in 1..sc.fans PROVE on[i] \subseteq Keys("project")
    OBVIOUS
  <2>1. PICK n \in randRange(sc.fanGrants) : on[i] \in permPrefix(n, Keys("project"))
    OBVIOUS
  <2>2. IsFiniteSet(Keys("project")) /\ Cardinality(Keys("project")) = sc.projects
    BY <1>2, <1>4, NamesCounted
  <2>3. n \in Nat /\ n <= sc.projects
    <3>1. sc.fans > 0 /\ sc.fanGrants.hi <= sc.projects
      BY <1>2
    <3>2. n \in Nat /\ n <= sc.fanGrants.hi /\ sc.fanGrants.hi \in Nat
      BY <1>2, RangesAreNat DEF randRange
    <3> QED BY <1>2, <3>1, <3>2
  <2> QED BY <2>1, <2>2, <2>3, PrefixOf
<1>10. \A x \in pairs : /\ x = <<x[1], x[2]>> /\ x[1] \in 1..sc.fans /\ x[2] \in Keys("project")
  BY <1>9
<1>11. pairs \in SUBSET ((1..sc.fans) \X Keys("project"))
  BY <1>10
<1>12. \A i \in 1..sc.fans : /\ g[i] \in fans /\ g[i].key = <<"fan", i>> /\ g[i].kind = "user"
                             /\ g[i].refs = {<<"domain", home>>}
  BY DEF Entry
<1>13. \A x \in pairs :
         /\ f[x] = Grant(base + rank(x), <<"fan", x[1]>>, {x[2]}, role[x[1]][x[2]])
         /\ f[x] \in grants
  OBVIOUS
<1> HIDE DEF f, g, pairs, rank, home
<1>14. /\ IsFiniteSet(1..sc.fans) /\ IsFiniteSet(pairs)
       /\ \A i \in 1..sc.fans : i \in Nat
  <2>1. IsFiniteSet(1..sc.fans)
    BY <1>2, FS_Interval
  <2>2. IsFiniteSet(Keys("project"))
    BY <1>2, <1>4, NamesCounted
  <2>3. IsFiniteSet((1..sc.fans) \X Keys("project"))
    BY <2>1, <2>2, FS_Product
  <2>4. IsFiniteSet(pairs)
    BY <1>11, <2>3, FS_Subset
  <2>5. \A i \in 1..sc.fans : i \in Nat
    BY <1>2
  <2> QED BY <2>1, <2>4, <2>5
<1>15. \A x \in pairs : /\ x[1] \in Nat /\ x[2][2] \in Nat /\ x[2] = <<"proj", x[2][2]>>
  <2>1. \A k \in Names("proj", sc.projects) : k[2] \in Nat /\ k = <<"proj", k[2]>>
    BY <1>2 DEF Names
  <2> QED BY <1>4, <1>10, <1>14, <2>1
<1>16. /\ \A x \in pairs : rank(x) \in Nat /\ rank(x) # 0
       /\ \A x, y \in pairs : rank(x) = rank(y) => x = y
  <2>1. \A x, y \in pairs : /\ rank(x) \in Nat /\ rank(x) # 0
                            /\ rank(x) = rank(y) => x[1] = y[1] /\ x[2][2] = y[2][2]
    BY <1>14, <1>15, PairRanks DEF rank
  <2>2. ASSUME NEW x \in pairs, NEW y \in pairs, rank(x) = rank(y) PROVE x = y
    <3>1. x[1] = y[1] /\ x[2][2] = y[2][2]
      BY <2>1, <2>2
    <3>2. x[2] = y[2]
      BY <1>15, <3>1
    <3> QED BY <1>10, <3>1, <3>2
  <2> QED BY <2>1, <2>2
<1>17. \A k \in Keys("role") \cup Keys("project") \cup Keys("domain") : k # Panic
  BY <1>4 DEF Names, Panic
<1>18. sc.fans > 0 => home \in Keys("domain") /\ Pick(Keys("role")) = Keys("role")
  <2> SUFFICES ASSUME sc.fans > 0 PROVE home \in Keys("domain") /\ Pick(Keys("role")) = Keys("role")
    OBVIOUS
  <2>1. sc.domains \in Nat \ {0} /\ sc.roles \in Nat \ {0}
    BY <1>2
  <2>2. (0 % sc.domains) + 1 \in 1..sc.domains
    BY <2>1, PlaceIsOne
  <2>3. home = <<"dom", (0 % sc.domains) + 1>>
    BY <2>1 DEF roundRobin, home
  <2>4. <<"role", 1>> \in Names("role", sc.roles)
    BY <2>1 DEF Names
  <2> QED BY <1>4, <2>2, <2>3, <2>4 DEF Names, Pick
<1>19. ASSUME NEW i \in 1..sc.fans
       PROVE  /\ Is(g[i], "user", {"user", "fan"}, {"domain"}) /\ Refs(g[i], "domain") \subseteq Keys("domain")
              /\ g[i].key[1] = "fan" /\ g[i].key = <<"fan", i>>
  <2>1. /\ g[i].key = <<"fan", i>> /\ g[i].kind = "user" /\ i \in Nat
        /\ g[i].refs = {<<"domain", home>>}
    BY <1>12, <1>14
  <2>2. g[i].refs = {<<"domain", home>>}
    BY <2>1
  <2>3. Refs(g[i], "domain") = {home}
    BY <2>2, OneRef
  <2>4. home \in Keys("domain") /\ home # Panic
    <3>1. sc.fans > 0
      BY <1>2
    <3> QED BY <1>17, <1>18, <3>1
  <2> QED BY <2>1, <2>3, <2>4 DEF Is
<1>20. ASSUME NEW x \in pairs
       PROVE  /\ f[x].key = <<"assign", base + rank(x)>>
              /\ base + rank(x) \in Nat /\ base + rank(x) > base
              /\ Is(f[x], "assignment", {"assign"}, {"user", "role", "project"})
              /\ Refs(f[x], "user") = {<<"fan", x[1]>>} /\ Refs(f[x], "role") = {role[x[1]][x[2]]}
              /\ Refs(f[x], "project") = {x[2]} /\ x[2] \in Keys("project")
              /\ role[x[1]][x[2]] \in Keys("role") /\ x[1] \in 1..sc.fans
              /\ f[x].key[2] = base + rank(x)
  <2>1. x[1] \in 1..sc.fans /\ x[2] \in Keys("project")
    BY <1>10
  <2>2. role[x[1]][x[2]] \in Keys("role")
    <3>1. sc.fans > 0
      BY <1>2, <2>1
    <3> QED BY <1>18, <2>1, <3>1
  <2>3. /\ f[x].key = <<"assign", base + rank(x)>> /\ f[x].kind = "assignment"
        /\ Refs(f[x], "user") = {<<"fan", x[1]>>} /\ Refs(f[x], "role") = {role[x[1]][x[2]]}
        /\ Refs(f[x], "project") = {x[2]}
        /\ \A r \in f[x].refs : /\ r[1] \in {"user", "role", "project"}
                                /\ r[2] \in {<<"fan", x[1]>>, role[x[1]][x[2]]} \cup {x[2]}
    <3> DEFINE i == base + rank(x)
               u == <<"fan", x[1]>>
               r0 == role[x[1]][x[2]]
               S == {x[2]}
    <3>1. f[x] = Grant(i, u, S, r0)
      BY <1>13
    <3> HIDE DEF i, u, r0, S
    <3>2. /\ f[x].key = <<"assign", i>> /\ f[x].kind = "assignment"
          /\ Refs(f[x], "user") = {u} /\ Refs(f[x], "role") = {r0} /\ Refs(f[x], "project") = S
          /\ \A r \in f[x].refs : /\ r[1] \in {"user", "role", "project"} /\ r[2] \in {u, r0} \cup S
      BY <3>1, GrantIs
    <3> QED BY <3>2 DEF i, u, r0, S
  <2>4. base + rank(x) \in Nat /\ base + rank(x) > base
    BY <1>5, <1>16
  <2>5. \A r \in f[x].refs : r[1] \in {"user", "role", "project"} /\ r[2] # Panic
    <3>1. <<"fan", x[1]>> # Panic
      BY DEF Panic
    <3> QED BY <1>17, <2>1, <2>2, <2>3, <3>1
  <2>6. Is(f[x], "assignment", {"assign"}, {"user", "role", "project"})
    BY <2>3, <2>4, <2>5 DEF Is
  <2> QED BY <2>1, <2>2, <2>3, <2>4, <2>6
<1> HIDE DEF base, fans, grants
<1>21. IsFiniteSet(fans) /\ UniqueIn(fans)
  <2>1. \A i, j \in 1..sc.fans : g[i].key = g[j].key => i = j
    BY <1>12
  <2>2. \A e \in fans : \E i \in 1..sc.fans : e = g[i]
    BY DEF fans
  <2> QED BY <1>14, <2>1, <2>2, Numbered
<1>22. IsFiniteSet(grants) /\ UniqueIn(grants)
  <2>1. ASSUME NEW x \in pairs, NEW y \in pairs, f[x].key = f[y].key PROVE x = y
    <3>1. f[x].key[2] = base + rank(x) /\ f[y].key[2] = base + rank(y)
      BY <1>20
    <3>2. rank(x) = rank(y)
      <4>1. base + rank(x) = base + rank(y) /\ rank(x) \in Nat /\ rank(y) \in Nat
        BY <1>16, <2>1, <3>1
      <4> QED BY <1>5, <4>1 DEF base
    <3> QED BY <1>16, <3>2
  <2>2. \A x, y \in pairs : f[x].key = f[y].key => x = y
    BY <2>1
  <2>3. \A e \in grants : \E x \in pairs : e = f[x]
    BY DEF grants
  <2> QED BY <1>14, <2>2, <2>3, Numbered
<1>23. /\ \A e \in fans : \E i \in 1..sc.fans : e = g[i]
       /\ \A e \in grants : \E x \in pairs : e = f[x]
  BY DEF fans, grants
<1>24. IsFiniteSet(new) /\ UniqueIn(new)
  <2>1. \A e \in fans : e.key[1] = "fan"
    BY <1>19, <1>23
  <2>2. \A e \in grants : e.key[1] = "assign"
    BY <1>20, <1>23
  <2>3. \A a \in fans, b \in grants : a.key # b.key
    BY <2>1, <2>2
  <2> QED BY <1>21, <1>22, <2>3, BothUnique
<1>25. \A a \in plan, b \in new : a.key # b.key
  <2>1. ASSUME NEW a \in plan, NEW b \in fans, a.key = b.key PROVE FALSE
    <3>1. a.key[1] = "fan"
      BY <1>19, <1>23, <2>1
    <3> QED BY <1>3, <1>4, <3>1, KeystonePrefixes
  <2>2. ASSUME NEW a \in plan, NEW b \in grants, a.key = b.key PROVE FALSE
    <3>1. PICK x \in pairs : b = f[x]
      BY <1>23
    <3>2. a.key[1] = "assign" /\ a.key[2] > base
      BY <1>20, <2>2, <3>1
    <3>3. a.kind = "assignment"
      BY <1>3, <3>2, KeystonePrefixes
    <3>4. a.key[2] <= base /\ a.key[2] \in Nat
      BY <1>3, <3>3, KeystoneKinds DEF KeystoneGenerates, KeystoneGrant, Is, base
    <3> QED BY <1>5, <3>2, <3>4 DEF base
  <2> QED BY <2>1, <2>2
<1>26. Common' /\ sc' = sc /\ plan' = plan \cup new /\ phase' # "generate"
  <2>1. \A e \in new : \A r \in e.refs : r[2] # Panic
    BY <1>19, <1>20, <1>23 DEF Is
  <2> HIDE DEF new
  <2> QED BY <1>1, <1>8, <1>24, <1>25, <2>1, EmitKeeps
<1>27. plan \subseteq plan'
  BY <1>26
<1>28. /\ Keys("domain") \subseteq Keys("domain")' /\ Keys("role") \subseteq Keys("role")'
       /\ Keys("project") \subseteq Keys("project")'
  BY <1>27, KeysGrow
<1>29. \A e \in fans : KeystoneUser(e)' /\ e.kind = "user"
  BY <1>19, <1>23, <1>28 DEF KeystoneUser, Is
<1>30. \A i \in 1..sc.fans : <<"fan", i>> \in Keys("user")'
  <2> SUFFICES ASSUME NEW i \in 1..sc.fans PROVE <<"fan", i>> \in Keys("user")'
    OBVIOUS
  <2>1. g[i] \in plan' /\ g[i].kind = "user" /\ g[i].key = <<"fan", i>>
    BY <1>12, <1>26 DEF fans
  <2> QED BY <2>1 DEF Keys, Of
<1>31. \A e \in grants : KeystoneGrant(e)' /\ e.kind = "assignment"
  <2> SUFFICES ASSUME NEW e \in grants PROVE KeystoneGrant(e)' /\ e.kind = "assignment"
    OBVIOUS
  <2>1. PICK x \in pairs : e = f[x]
    BY <1>23
  <2>2. /\ Is(e, "assignment", {"assign"}, {"user", "role", "project"})
        /\ Refs(e, "user") = {<<"fan", x[1]>>} /\ Refs(e, "role") = {role[x[1]][x[2]]}
        /\ Refs(e, "project") = {x[2]}
    BY <1>20, <2>1
  <2>3. /\ <<"fan", x[1]>> \in Keys("user")' /\ role[x[1]][x[2]] \in Keys("role")'
        /\ x[2] \in Keys("project")'
    BY <1>20, <1>28, <1>30
  <2> QED BY <2>2, <2>3 DEF KeystoneGrant, Just, Is
<1>32. \A e \in plan' : KeystoneEntry(e)'
  <2>1. ASSUME NEW e \in plan PROVE KeystoneEntry(e)'
    BY <1>3, <1>27, KeystoneGrows
  <2> QED BY <1>26, <1>29, <1>31, <2>1 DEF KeystoneEntry
<1>33. Of("assignment")' = Of("assignment") \cup grants
  BY <1>26, <1>29, <1>31 DEF Of
<1>34. GrantsApart'
  <2>1. ASSUME NEW a \in Of("assignment"), NEW b \in grants, Refs(a, "user") = Refs(b, "user") PROVE FALSE
    <3>1. PICK j \in Nat : Refs(a, "user") = {<<"user", j>>}
      BY <1>3 DEF KeystoneGenerates, Of
    <3>2. PICK x \in pairs : b = f[x]
      BY <1>23
    <3>3. Refs(b, "user") = {<<"fan", x[1]>>}
      BY <1>20, <3>2
    <3>4. <<"user", j>> = <<"fan", x[1]>>
      BY <2>1, <3>1, <3>3
    <3> QED BY <3>4
  <2>2. ASSUME NEW x \in pairs, NEW y \in pairs, f[x].refs = f[y].refs PROVE x = y
    <3>1. /\ Refs(f[x], "user") = Refs(f[y], "user")
          /\ Refs(f[x], "project") = Refs(f[y], "project")
      BY <2>2 DEF Refs
    <3>2. /\ Refs(f[x], "user") = {<<"fan", x[1]>>} /\ Refs(f[x], "project") = {x[2]}
          /\ Refs(f[y], "user") = {<<"fan", y[1]>>} /\ Refs(f[y], "project") = {y[2]}
      BY <1>20
    <3>5. {<<"fan", x[1]>>} = {<<"fan", y[1]>>} /\ {x[2]} = {y[2]}
      BY <3>1, <3>2
    <3>6. x[2] = y[2]
      BY <3>5
    <3>3. <<"fan", x[1]>> = <<"fan", y[1]>>
      <4> DEFINE a == <<"fan", x[1]>>
                 b == <<"fan", y[1]>>
      <4>1. {a} = {b}
        BY <3>5
      <4> HIDE DEF a, b
      <4>2. a = b
        BY <4>1
      <4> QED BY <4>2 DEF a, b
    <3>4. x[1] = y[1] /\ x[2] = y[2]
      BY <3>3, <3>6
    <3> QED BY <1>10, <3>4
  <2>3. \A a, b \in grants : a.refs = b.refs => a = b
    BY <1>23, <2>2
  <2>4. \A a \in Of("assignment"), b \in grants : a.refs # b.refs
    BY <2>1 DEF Refs
  <2> QED BY <1>3, <1>33, <2>3, <2>4 DEF GrantsApart
<1> QED BY <1>26, <1>32, <1>34 DEF KeystoneInv

LEMMA KeystoneSteps ==
  ASSUME Common, KeystoneInv,
         KeystoneRoles \/ KeystoneProjects \/ KeystoneUsers \/ KeystoneGrants
           \/ KeystoneTokens \/ KeystoneFans
  PROVE  Common' /\ KeystoneInv' /\ sc' = sc
BY KeystoneRolesStep, KeystoneProjectsStep, KeystoneUsersStep, KeystoneGrantsStep,
   KeystoneTokensStep, KeystoneFansStep

LEMMA KeystonePlans == ASSUME Common, KeystoneInv, sc.service = "keystone" PROVE keystonePlanOK
<1>1. /\ \A e \in plan : KeystoneEntry(e)
      /\ GrantsApart
  BY DEF KeystoneInv
<1>2. \A k \in {"domain", "role", "project", "user"} : UniqueNames(k)
  BY NamesUnique
<1>3. /\ Resolves("implied", "prior", "role") /\ Resolves("implied", "implied", "role")
      /\ \A r \in Of("implied") : Refs(r, "prior") # Refs(r, "implied")
  BY <1>1, KeystoneKinds DEF Of, Resolves, KeystoneImplied
<1>4. Resolves("project", "domain", "domain") /\ Resolves("user", "domain", "domain")
  BY <1>1, KeystoneKinds DEF Of, Resolves, KeystoneProject, KeystoneUser
<1>5. /\ Resolves("assignment", "user", "user") /\ Resolves("assignment", "role", "role")
      /\ Resolves("assignment", "project", "project")
  BY <1>1, KeystoneKinds DEF Of, Resolves, KeystoneGrant
<1>6. /\ Resolves("token", "user", "user") /\ Resolves("token", "project", "project")
      /\ \A t \in Of("token") : \E a \in Of("assignment") :
           Refs(a, "user") = Refs(t, "user") /\ Refs(a, "project") = Refs(t, "project")
  BY <1>1, KeystoneKinds DEF Of, Resolves, KeystoneToken
<1> QED BY <1>1, <1>2, <1>3, <1>4, <1>5, <1>6 DEF keystonePlanOK, GrantsApart

-----------------------------------------------------------------------------
(***************************************************************************)
(* Neutron.  The collection a name belongs to, and what a role refers to.  *)
(***************************************************************************)
Collection(prefix) ==
  CASE prefix \in {"as", "pool", "net"} -> 1
    [] prefix = "subnet" -> 2
    [] prefix = "router" -> 3
    [] prefix = "rif" -> 4
    [] prefix \in {"sg", "rule"} -> 5
    [] prefix = "port" -> 6
    [] prefix \in {"link-net", "link-subnet", "link-port", "link-rif-a", "link-rif-b"} -> 7
    [] OTHER -> 8
Target(role) == IF role = "remote" THEN "group" ELSE role

NeutronKind(e) ==
  \/ Is(e, "scope", {"as"}, {}) \/ Is(e, "pool", {"pool"}, {})
  \/ Is(e, "network", {"net", "link-net"}, {}) \/ Is(e, "router", {"router"}, {})
  \/ Is(e, "subnet", {"subnet", "link-subnet"}, {"network", "pool"})
  \/ Is(e, "rif", {"rif", "link-rif-a", "link-rif-b"}, {"router", "subnet", "port"})
  \/ Is(e, "group", {"sg"}, {}) \/ Is(e, "rule", {"rule"}, {"group", "remote"})
  \/ Is(e, "port", {"port", "link-port"}, {"network", "subnet", "group"})
  \/ Is(e, "fip", {"fip"}, {"port"})
NeutronEntry(e) ==
  /\ NeutronKind(e)
  /\ \A r \in e.refs : r[2] \in Keys(Target(r[1]))
  /\ e.kind = "rif" => (Refs(e, "subnet") = {}) # (Refs(e, "port") = {})

NeutronNames ==
  /\ step > 1 => Names("net", sc.networks) \subseteq Keys("network")
  /\ step \in {3, 4} => Names("subnet", Cardinality(Keys("subnet"))) = Keys("subnet")
NeutronInv == sc.service = "neutron" =>
  /\ \A e \in plan : NeutronEntry(e)
  /\ Unshared("rif", "subnet") /\ Unshared("rif", "port")
  /\ phase = "generate" => NeutronNames /\ \A e \in plan : Collection(e.key[1]) < step

LEMMA NeutronGrows ==
  ASSUME plan \subseteq plan', NEW e, NeutronEntry(e)
  PROVE  NeutronEntry(e)'
<1>1. \A r \in e.refs : Keys(Target(r[1])) \subseteq Keys(Target(r[1]))'
  BY DEF Keys, Of
<1> QED BY <1>1 DEF NeutronEntry

\* A collection that adds what is its own keeps the plan right.
LEMMA NeutronEmits ==
  ASSUME Common, NeutronInv, phase = "generate", sc.service = "neutron", step \in 1..8,
         NEW new, NEW next \in {0, step + 1}, Emit(new, next), IsFiniteSet(new), UniqueIn(new),
         \A e \in new : NeutronKind(e) /\ Collection(e.key[1]) = step,
         plan' = plan \cup new /\ sc' = sc =>
           /\ \A e \in new : NeutronEntry(e)'
           /\ Unshared("rif", "subnet")' /\ Unshared("rif", "port")',
         plan' = plan \cup new /\ sc' = sc /\ step' = step + 1 => NeutronNames'
  PROVE  Common' /\ NeutronInv' /\ sc' = sc
<1>1. /\ \A e \in plan : NeutronEntry(e) /\ Collection(e.key[1]) < step
      /\ sc.service # "mix" /\ next \in Nat
  BY DEF NeutronInv
<1>2. \A a \in plan, b \in new : a.key # b.key
  BY <1>1
<1>3. \A e \in new : \A r \in e.refs : r[2] # Panic
  BY DEF NeutronKind, Is
<1>4. /\ Common' /\ sc' = sc /\ plan' = plan \cup new
      /\ phase' = "generate" => step' = next /\ next # 0
  BY <1>1, <1>2, <1>3, EmitKeeps
<1>5. \A e \in plan' : NeutronEntry(e)'
  BY <1>1, <1>4, NeutronGrows
<1>6. ASSUME phase' = "generate" PROVE NeutronNames' /\ \A e \in plan' : Collection(e.key[1]) < step'
  <2>1. step' = step + 1
    BY <1>4, <1>6
  <2>2. \A e \in plan : Collection(e.key[1]) \in Nat
    BY DEF Collection
  <2>3. \A e \in plan' : Collection(e.key[1]) < step'
    BY <1>1, <1>4, <2>1, <2>2
  <2> QED BY <1>4, <2>1, <2>3
<1> QED BY <1>4, <1>5, <1>6 DEF NeutronInv

LEMMA NeutronScenario ==
  ASSUME Common, sc.service = "neutron", phase = "generate"
  PROVE  /\ sc.pools \in Nat /\ sc.scopes \in Nat /\ sc.networks \in Nat /\ sc.routers \in Nat
         /\ sc.groups \in Nat /\ sc.links \in Nat /\ sc.fips \in Nat
         /\ validateRange(sc.subnets) /\ validateRange(sc.ports) /\ validateRange(sc.rules)
<1>1. neutronScenarioOK(sc)
  BY ScenarioOf DEF Common
<1>2. \A n \in {sc.pools, sc.scopes, sc.networks, sc.routers, sc.groups, sc.links, sc.fips} : n \in Nat
  BY <1>1, CountsAreNat DEF neutronScenarioOK
<1> QED BY <1>1, <1>2 DEF neutronScenarioOK

\* Entries without references.
LEMMA PlainEntries ==
  ASSUME NEW e, NeutronKind(e), e.refs = {}, e.kind # "rif"
  PROVE  NeutronEntry(e)'
BY DEF NeutronEntry

LEMMA NeutronPoolsStep ==
  ASSUME Common, NeutronInv, NeutronPools
  PROVE  Common' /\ NeutronInv' /\ sc' = sc
<1>1. phase = "generate" /\ sc.service = "neutron" /\ step = 1
  BY DEF NeutronPools, At
<1>2. sc.scopes \in Nat /\ sc.pools \in Nat /\ sc.networks \in Nat
  BY <1>1, NeutronScenario
<1>3. plan = {}
  <2>1. \A e \in plan : Collection(e.key[1]) < 1
    BY <1>1 DEF NeutronInv
  <2>2. \A e \in plan : ~(Collection(e.key[1]) < 1)
    BY DEF Collection
  <2> QED BY <2>1, <2>2
<1> DEFINE scopes == Plain("scope", "as", sc.scopes)
           pools == Plain("pool", "pool", sc.pools)
           nets == Plain("network", "net", sc.networks)
           new == scopes \cup pools \cup nets
<1>4. Emit(new, 2)
  BY DEF NeutronPools
<1>5. /\ IsFiniteSet(scopes) /\ UniqueIn(scopes)
      /\ \A e \in scopes : Is(e, "scope", {"as"}, {}) /\ e.refs = {}
  BY <1>2, PlainNames
<1>6. /\ IsFiniteSet(pools) /\ UniqueIn(pools)
      /\ \A e \in pools : Is(e, "pool", {"pool"}, {}) /\ e.refs = {}
  BY <1>2, PlainNames
<1>7. /\ IsFiniteSet(nets) /\ UniqueIn(nets)
      /\ \A e \in nets : Is(e, "network", {"net"}, {}) /\ e.refs = {}
  BY <1>2, PlainNames
<1>8. \A k \in Names("net", sc.networks) : \E e \in nets : e.key = k
  BY PlainKeys
<1> HIDE DEF scopes, pools, nets
<1>9. \A e \in new : /\ NeutronKind(e) /\ e.refs = {} /\ e.kind # "rif"
                     /\ e.key[1] \in {"as", "pool", "net"}
  BY <1>5, <1>6, <1>7 DEF NeutronKind, Is
<1>10. \A e \in new : Collection(e.key[1]) = 1
  BY <1>9 DEF Collection
<1>11. IsFiniteSet(new) /\ UniqueIn(new)
  <2>1. IsFiniteSet(scopes \cup pools) /\ UniqueIn(scopes \cup pools)
    <3>1. \A a \in scopes, b \in pools : a.key # b.key
      BY <1>5, <1>6 DEF Is
    <3> QED BY <1>5, <1>6, <3>1, BothUnique
  <2>2. \A a \in scopes \cup pools, b \in nets : a.key # b.key
    BY <1>5, <1>6, <1>7 DEF Is
  <2> QED BY <1>7, <2>1, <2>2, BothUnique
<1>12. ASSUME plan' = plan \cup new
       PROVE  /\ \A e \in new : NeutronEntry(e)'
              /\ Unshared("rif", "subnet")' /\ Unshared("rif", "port")'
              /\ Names("net", sc.networks) \subseteq Keys("network")'
  <2>1. \A e \in new : NeutronEntry(e)'
    BY <1>9, PlainEntries
  <2>2. Of("rif")' = {}
    BY <1>3, <1>9, <1>12 DEF Of
  <2>3. nets \subseteq Of("network")'
    BY <1>7, <1>12 DEF Of, Is
  <2> QED BY <1>8, <2>1, <2>2, <2>3 DEF Unshared, Keys
<1> HIDE DEF new
<1>13. plan' = plan \cup new /\ sc' = sc /\ step' = step + 1 => NeutronNames'
  BY <1>1, <1>12 DEF NeutronNames
<1> QED BY <1>1, <1>4, <1>9, <1>10, <1>11, <1>12, <1>13, NeutronEmits

LEMMA OneIs == ASSUME NEW role, NEW S PROVE \A r : r \in One(role, S) <=> \E x \in S : r = <<role, x>>
BY DEF One

\* Names are never the mark of a panic.
LEMMA KeysAreNames ==
  ASSUME \A e \in plan : NeutronEntry(e), NEW kind
  PROVE  \A k \in Keys(kind) : k # Panic
BY KeysAre DEF NeutronEntry, NeutronKind, Is, Panic

LEMMA NeutronPrefixes ==
  ASSUME NEW e, NeutronKind(e)
  PROVE  /\ e.kind = "subnet" => e.key[1] \in {"subnet", "link-subnet"}
         /\ e.kind = "port" => e.key[1] \in {"port", "link-port"}
         /\ e.kind = "rif" => e.key[1] \in {"rif", "link-rif-a", "link-rif-b"}
         /\ e.kind = "group" => e.key[1] = "sg"
         /\ e.kind = "router" => e.key[1] = "router"
BY DEF NeutronKind, Is

LEMMA NeutronSubnetsStep ==
  ASSUME Common, NeutronInv, NeutronSubnets
  PROVE  Common' /\ NeutronInv' /\ sc' = sc
<1>1. phase = "generate" /\ sc.service = "neutron" /\ step = 2
  BY DEF NeutronSubnets, At
<1>2. /\ \A e \in plan : NeutronEntry(e) /\ Collection(e.key[1]) < 2
      /\ Unshared("rif", "subnet") /\ Unshared("rif", "port")
      /\ Names("net", sc.networks) \subseteq Keys("network")
  BY <1>1 DEF NeutronInv, NeutronNames
<1>3. PICK counts \in Counts(sc.networks, sc.subnets) :
       \E how \in [1..Total(counts) -> subnetHow] :
         Emit({Entry(<<"subnet", k>>, "subnet",
                     {<<"network", <<"net", Owner(counts, k)>>>>} \cup One("pool", how[k].pool),
                     {how[k].flag}, 1) : k \in DOMAIN how}, 3)
  BY DEF NeutronSubnets
<1>4. PICK how \in [1..Total(counts) -> subnetHow] :
         Emit({Entry(<<"subnet", k>>, "subnet",
                     {<<"network", <<"net", Owner(counts, k)>>>>} \cup One("pool", how[k].pool),
                     {how[k].flag}, 1) : k \in DOMAIN how}, 3)
  BY <1>3
<1>5. sc.networks \in Nat /\ counts \in [1..sc.networks -> Nat]
  BY <1>1, NeutronScenario, RangesAreNat DEF Counts
<1>6. /\ Total(counts) \in Nat
      /\ \A k \in 1..Total(counts) : Owner(counts, k) \in 1..sc.networks
  BY <1>5, OwnerIsOne
<1> DEFINE n == Total(counts)
           f == [k \in 1..n |->
                   Entry(<<"subnet", k>>, "subnet",
                     {<<"network", <<"net", Owner(counts, k)>>>>} \cup One("pool", how[k].pool),
                     {how[k].flag}, 1)]
           new == {f[k] : k \in 1..n}
<1>7. Emit(new, 3)
  BY <1>4
<1>8. \A k \in 1..n : /\ f[k] \in new /\ f[k].key = <<"subnet", k>> /\ f[k].kind = "subnet"
                      /\ f[k].refs = {<<"network", <<"net", Owner(counts, k)>>>>}
                                       \cup One("pool", how[k].pool)
  BY DEF Entry
<1>9. \A h \in subnetHow : h.pool \subseteq Keys("pool")
  BY DEF subnetHow
<1>10. \A k \in 1..n : /\ how[k].pool \subseteq Keys("pool")
                       /\ Owner(counts, k) \in 1..sc.networks
  BY <1>6, <1>9
<1> HIDE DEF f, n
<1>11. n \in Nat /\ IsFiniteSet(1..n) /\ \A k \in 1..n : k \in Nat
  <2>1. n \in Nat
    BY <1>6 DEF n
  <2>2. IsFiniteSet(1..n)
    BY <2>1, FS_Interval
  <2> QED BY <2>1, <2>2
<1>12. IsFiniteSet(new) /\ UniqueIn(new)
  <2>1. \A i, j \in 1..n : f[i].key = f[j].key => i = j
    BY <1>8
  <2>2. \A e \in new : \E k \in 1..n : e = f[k]
    OBVIOUS
  <2> HIDE DEF new
  <2> QED BY <1>11, <2>1, <2>2, Numbered
<1>13. ASSUME NEW e \in new
       PROVE  /\ e.kind = "subnet" /\ e.key[1] = "subnet" /\ e.key[2] \in 1..n
              /\ Is(e, "subnet", {"subnet", "link-subnet"}, {"network", "pool"})
              /\ \A r \in e.refs : r[2] \in Keys(Target(r[1]))
  <2>1. PICK k \in 1..n : e = f[k]
    OBVIOUS
  <2>2. e.key = <<"subnet", k>> /\ e.kind = "subnet" /\ k \in Nat
    BY <1>8, <1>11, <2>1
  <2>3. \A r \in e.refs : \/ r[1] = "network" /\ r[2] = <<"net", Owner(counts, k)>>
                          \/ r[1] = "pool" /\ r[2] \in how[k].pool
    BY <1>8, <2>1, OneIs
  <2>4. <<"net", Owner(counts, k)>> \in Keys("network")
    BY <1>2, <1>10 DEF Names
  <2>5. \A r \in e.refs : \/ r[1] = "network" /\ r[2] \in Keys("network")
                          \/ r[1] = "pool" /\ r[2] \in Keys("pool")
    BY <1>10, <2>3, <2>4
  <2>6. \A r \in e.refs : r[1] \in {"network", "pool"} /\ r[2] # Panic
    BY <1>2, <2>5, KeysAreNames
  <2>7. \A r \in e.refs : r[2] \in Keys(Target(r[1]))
    BY <2>5 DEF Target
  <2> QED BY <2>2, <2>6, <2>7 DEF Is
<1>14. \A e \in new : NeutronKind(e) /\ Collection(e.key[1]) = step
  BY <1>1, <1>13 DEF NeutronKind, Collection
<1>15. ASSUME plan' = plan \cup new
       PROVE  /\ \A e \in new : NeutronEntry(e)'
              /\ Unshared("rif", "subnet")' /\ Unshared("rif", "port")'
              /\ Names("net", sc.networks) \subseteq Keys("network")'
              /\ Keys("subnet")' = Names("subnet", n)
  <2>1. plan \subseteq plan'
    BY <1>15
  <2>2. \A kind : Keys(kind) \subseteq Keys(kind)'
    BY <2>1, KeysGrow
  <2>3. \A e \in new : NeutronEntry(e)'
    BY <1>13, <1>14, <2>2 DEF NeutronEntry
  <2>4. Of("rif")' = Of("rif")
    BY <1>13, <1>15 DEF Of
  <2>5. Of("subnet")' = new
    <3>1. \A e \in plan : e.kind # "subnet"
      <4> SUFFICES ASSUME NEW e \in plan, e.kind = "subnet" PROVE FALSE
        OBVIOUS
      <4>1. e.key[1] \in {"subnet", "link-subnet"}
        BY <1>2, NeutronPrefixes DEF NeutronEntry
      <4>2. ~(Collection(e.key[1]) < 2)
        BY <4>1 DEF Collection
      <4> QED BY <1>2, <4>2
    <3> QED BY <1>13, <1>15, <3>1 DEF Of
  <2>6. \A k \in Keys("subnet")' : k \in Names("subnet", n)
    BY <1>13, <2>5 DEF Keys, Names, Is
  <2>7. \A k \in 1..n : <<"subnet", k>> \in Keys("subnet")'
    BY <1>8, <2>5 DEF Keys
  <2>8. Keys("subnet")' = Names("subnet", n)
    BY <2>6, <2>7 DEF Names
  <2> QED BY <1>2, <2>2, <2>3, <2>4, <2>8 DEF Unshared
<1> HIDE DEF new
<1>16. ASSUME plan' = plan \cup new, sc' = sc, step' = step + 1 PROVE NeutronNames'
  <2>1. Cardinality(Names("subnet", n)) = n
    BY <1>11, NamesCounted
  <2> QED BY <1>15, <1>16, <2>1 DEF NeutronNames
<1> QED BY <1>1, <1>7, <1>12, <1>14, <1>15, <1>16, NeutronEmits

LEMMA NeutronRoutersStep ==
  ASSUME Common, NeutronInv, NeutronRouters
  PROVE  Common' /\ NeutronInv' /\ sc' = sc
<1>1. phase = "generate" /\ sc.service = "neutron" /\ step = 3
  BY DEF NeutronRouters, At
<1>2. /\ \A e \in plan : NeutronEntry(e)
      /\ Unshared("rif", "subnet") /\ Unshared("rif", "port") /\ NeutronNames
      /\ sc.routers \in Nat
  BY <1>1, NeutronScenario DEF NeutronInv
<1>3. PICK gateway \in [1..sc.routers -> Draw(sc.gatewayPct)] :
       Emit({Entry(<<"router", i>>, "router", {}, IF gateway[i] THEN {"gateway"} ELSE {}, 1) :
               i \in DOMAIN gateway}, 4)
  BY DEF NeutronRouters
<1> DEFINE f == [i \in 1..sc.routers |->
                   Entry(<<"router", i>>, "router", {}, IF gateway[i] THEN {"gateway"} ELSE {}, 1)]
           new == {f[i] : i \in 1..sc.routers}
<1>4. Emit(new, 4)
  BY <1>3
<1>5. \A i \in 1..sc.routers : f[i].key = <<"router", i>> /\ f[i].kind = "router" /\ f[i].refs = {}
  BY DEF Entry
<1> HIDE DEF f
<1>6. IsFiniteSet(1..sc.routers) /\ \A i \in 1..sc.routers : i \in Nat
  <2>1. sc.routers \in Nat
    BY <1>2
  <2> QED BY <2>1, FS_Interval
<1>7. IsFiniteSet(new) /\ UniqueIn(new)
  <2>1. \A i, j \in 1..sc.routers : f[i].key = f[j].key => i = j
    BY <1>5
  <2>2. \A e \in new : \E k \in 1..sc.routers : e = f[k]
    OBVIOUS
  <2> HIDE DEF new
  <2> QED BY <1>6, <2>1, <2>2, Numbered
<1>8. \A e \in new : /\ Is(e, "router", {"router"}, {}) /\ e.refs = {} /\ e.kind = "router"
                     /\ e.key[1] = "router"
  BY <1>5, <1>6 DEF Is
<1>9. \A e \in new : NeutronKind(e) /\ Collection(e.key[1]) = step
  BY <1>1, <1>8 DEF NeutronKind, Collection
<1>10. ASSUME plan' = plan \cup new
       PROVE  /\ \A e \in new : NeutronEntry(e)'
              /\ Unshared("rif", "subnet")' /\ Unshared("rif", "port")'
              /\ Keys("network")' = Keys("network") /\ Keys("subnet")' = Keys("subnet")
  <2>1. \A e \in new : NeutronEntry(e)'
    BY <1>8, <1>9, PlainEntries
  <2>2. Of("rif")' = Of("rif") /\ Of("network")' = Of("network") /\ Of("subnet")' = Of("subnet")
    BY <1>8, <1>10 DEF Of
  <2> QED BY <1>2, <2>1, <2>2 DEF Unshared, Keys
<1> HIDE DEF new
<1>11. ASSUME plan' = plan \cup new, sc' = sc, step' = step + 1 PROVE NeutronNames'
  BY <1>1, <1>2, <1>10, <1>11 DEF NeutronNames
<1> QED BY <1>1, <1>4, <1>7, <1>9, <1>10, <1>11, NeutronEmits

LEMMA NeutronInterfacesStep ==
  ASSUME Common, NeutronInv, NeutronInterfaces
  PROVE  Common' /\ NeutronInv' /\ sc' = sc
<1>1. phase = "generate" /\ sc.service = "neutron" /\ step = 4
  BY DEF NeutronInterfaces, At
<1>2. /\ \A e \in plan : NeutronEntry(e) /\ Collection(e.key[1]) < 4
      /\ NeutronNames
  BY <1>1 DEF NeutronInv
<1> DEFINE n == Cardinality(Keys("subnet"))
<1>3. n \in Nat /\ Names("subnet", n) = Keys("subnet")
  <2>1. IsFiniteSet(Of("subnet"))
    BY FS_Subset DEF Common, Of
  <2>2. IsFiniteSet(Keys("subnet"))
    <3> DEFINE key == [x \in Of("subnet") |-> x.key]
    <3>1. \A k \in Keys("subnet") : \E e \in Of("subnet") : k = key[e]
      BY DEF Keys
    <3> HIDE DEF key
    <3> QED BY <2>1, <3>1, ImageIsFinite
  <2>3. n \in Nat
    BY <2>2, FS_CardinalityType
  <2> QED BY <1>1, <1>2, <2>3 DEF NeutronNames
<1>4. PICK att \in [1..n -> AtMostOne(Keys("router"))] :
        Emit({Entry(<<"rif", Cardinality({j \in 1..k : att[j] # {}})>>, "rif",
                         One("router", att[k]) \cup {<<"subnet", <<"subnet", k>>>>}, {}, 1) :
                     k \in {j \in 1..n : att[j] # {}}}, 5)
  BY DEF NeutronInterfaces
<1> DEFINE D == {j \in 1..n : att[j] # {}}
           rank(k) == Cardinality({j \in 1..k : att[j] # {}})
           f == [k \in D |-> Entry(<<"rif", rank(k)>>, "rif",
                         One("router", att[k]) \cup {<<"subnet", <<"subnet", k>>>>}, {}, 1)]
           new == {f[k] : k \in D}
<1>5. Emit(new, 5)
  BY <1>4
<1>6. \A k \in D : /\ f[k].key = <<"rif", rank(k)>> /\ f[k].kind = "rif"
                   /\ f[k].refs = One("router", att[k]) \cup {<<"subnet", <<"subnet", k>>>>}
  BY DEF Entry
<1> HIDE DEF f, n
<1>7. D \in SUBSET (1..n)
  OBVIOUS
<1>8. \A k \in D : rank(k) = Cardinality(D \cap 1..k)
  <2> SUFFICES ASSUME NEW k \in D PROVE rank(k) = Cardinality(D \cap 1..k)
    OBVIOUS
  <2>1. n \in Nat
    BY <1>3 DEF n
  <2>2. {j \in 1..k : att[j] # {}} = D \cap 1..k
    BY <2>1
  <2> QED BY <2>2
<1>9. \A k \in D : att[k] \subseteq Keys("router") /\ k \in 1..n
  BY DEF AtMostOne
<1> HIDE DEF D, rank
<1>10. /\ IsFiniteSet(D)
       /\ \A k \in D : rank(k) \in Nat /\ k \in Nat
       /\ \A j, k \in D : rank(j) = rank(k) => j = k
  <2>1. n \in Nat
    BY <1>3 DEF n
  <2>2. /\ IsFiniteSet(D) /\ Cardinality(D) \in Nat
        /\ \A k \in D : Cardinality(D \cap 1..k) \in 1..Cardinality(D)
        /\ \A j, k \in D : Cardinality(D \cap 1..j) = Cardinality(D \cap 1..k) => j = k
    BY <1>7, <2>1, KeptRanks
  <2>3. \A k \in D : rank(k) \in 1..Cardinality(D)
    BY <1>8, <2>2
  <2>4. \A k \in D : rank(k) \in Nat
    BY <2>2, <2>3
  <2>5. \A k \in D : k \in Nat
    BY <1>7, <2>1
  <2>6. \A j, k \in D : rank(j) = rank(k) => j = k
    BY <1>8, <2>2
  <2> QED BY <2>2, <2>4, <2>5, <2>6
<1>11. IsFiniteSet(new) /\ UniqueIn(new)
  <2>1. ASSUME NEW i \in D, NEW j \in D, f[i].key = f[j].key PROVE i = j
    <3>1. <<"rif", rank(i)>> = <<"rif", rank(j)>>
      BY <1>6, <2>1
    <3>2. rank(i) = rank(j)
      BY <3>1
    <3> QED BY <1>10, <3>2
  <2>2. \A i, j \in D : f[i].key = f[j].key => i = j
    BY <2>1
  <2>3. \A e \in new : \E k \in D : e = f[k]
    OBVIOUS
  <2> HIDE DEF new
  <2> QED BY <1>10, <2>2, <2>3, Numbered
<1>12. ASSUME NEW k \in D
       PROVE  /\ f[k].kind = "rif" /\ f[k].key[1] = "rif"
              /\ Is(f[k], "rif", {"rif", "link-rif-a", "link-rif-b"}, {"router", "subnet", "port"})
              /\ \A r \in f[k].refs : r[2] \in Keys(Target(r[1]))
              /\ Refs(f[k], "subnet") = {<<"subnet", k>>} /\ Refs(f[k], "port") = {}
  <2>1. f[k].key = <<"rif", rank(k)>> /\ f[k].kind = "rif" /\ rank(k) \in Nat
    BY <1>6, <1>10
  <2>2. \A r \in f[k].refs : \/ r[1] = "router" /\ r[2] \in att[k]
                             \/ r[1] = "subnet" /\ r[2] = <<"subnet", k>>
    BY <1>6, OneIs
  <2>3. <<"subnet", k>> \in Keys("subnet")
    BY <1>3, <1>9 DEF Names, n
  <2>4. \A r \in f[k].refs : \/ r[1] = "router" /\ r[2] \in Keys("router")
                             \/ r[1] = "subnet" /\ r[2] \in Keys("subnet")
    BY <1>9, <2>2, <2>3
  <2>5. \A r \in f[k].refs : r[1] \in {"router", "subnet", "port"} /\ r[2] # Panic
    BY <1>2, <2>4, KeysAreNames
  <2>6. \A r \in f[k].refs : r[2] \in Keys(Target(r[1]))
    BY <2>4 DEF Target
  <2>7. <<"subnet", <<"subnet", k>>>> \in f[k].refs
    BY <1>6
  <2>8. \A r \in f[k].refs : r[1] = "subnet" => r[2] = <<"subnet", k>>
    BY <2>2
  <2>9. Refs(f[k], "subnet") = {<<"subnet", k>>}
    BY <2>7, <2>8, SoleRef
  <2>10. Refs(f[k], "port") = {}
    BY <2>2, NoRefs
  <2> QED BY <2>1, <2>5, <2>6, <2>9, <2>10 DEF Is
<1>13. \A e \in new : NeutronKind(e) /\ Collection(e.key[1]) = step
  BY <1>1, <1>12 DEF NeutronKind, Collection
<1>14. ASSUME plan' = plan \cup new
       PROVE  /\ \A e \in new : NeutronEntry(e)'
              /\ Unshared("rif", "subnet")' /\ Unshared("rif", "port")'
              /\ Keys("network")' = Keys("network")
  <2>1. plan \subseteq plan'
    BY <1>14
  <2>2. \A kind : Keys(kind) \subseteq Keys(kind)'
    BY <2>1, KeysGrow
  <2>3. ASSUME NEW e \in new PROVE NeutronEntry(e)'
    <3>1. NeutronKind(e)
      BY <1>13
    <3>2. \A r \in e.refs : r[2] \in Keys(Target(r[1]))'
      BY <1>12, <2>2
    <3>3. Refs(e, "subnet") # {} /\ Refs(e, "port") = {}
      BY <1>12
    <3> QED BY <3>1, <3>2, <3>3 DEF NeutronEntry
  <2>4. Of("rif")' = new
    <3>1. \A e \in plan : e.kind # "rif"
      <4> SUFFICES ASSUME NEW e \in plan, e.kind = "rif" PROVE FALSE
        OBVIOUS
      <4>1. e.key[1] \in {"rif", "link-rif-a", "link-rif-b"}
        BY <1>2, NeutronPrefixes DEF NeutronEntry
      <4>2. ~(Collection(e.key[1]) < 4)
        BY <4>1 DEF Collection
      <4> QED BY <1>2, <4>2
    <3> QED BY <1>12, <1>14, <3>1 DEF Of
  <2>5. Unshared("rif", "port")'
    BY <1>12, <2>4 DEF Unshared
  <2>6. Unshared("rif", "subnet")'
    <3>1. ASSUME NEW i \in D, NEW j \in D, f[i] # f[j]
          PROVE  Refs(f[i], "subnet") \cap Refs(f[j], "subnet") = {}
      <4>1. <<"subnet", i>> # <<"subnet", j>>
        BY <3>1
      <4> QED BY <1>12, <4>1
    <3> QED BY <2>4, <3>1 DEF Unshared
  <2>7. Keys("network")' = Keys("network")
    <3>1. Of("network")' = Of("network")
      BY <1>12, <1>14 DEF Of
    <3> QED BY <3>1 DEF Keys
  <2> QED BY <2>3, <2>5, <2>6, <2>7
<1> HIDE DEF new
<1>15. ASSUME plan' = plan \cup new, sc' = sc, step' = step + 1 PROVE NeutronNames'
  BY <1>1, <1>2, <1>14, <1>15 DEF NeutronNames
<1> QED BY <1>1, <1>5, <1>11, <1>13, <1>14, <1>15, NeutronEmits

LEMMA NeutronSecurityGroupsStep ==
  ASSUME Common, NeutronInv, NeutronSecurityGroups
  PROVE  Common' /\ NeutronInv' /\ sc' = sc
<1>1. phase = "generate" /\ sc.service = "neutron" /\ step = 5
  BY DEF NeutronSecurityGroups, At
<1>2. /\ \A e \in plan : NeutronEntry(e)
      /\ Unshared("rif", "subnet") /\ Unshared("rif", "port") /\ NeutronNames
  BY <1>1 DEF NeutronInv
<1>3. PICK counts \in Counts(sc.groups, sc.rules) :
       \E remote \in [1..Total(counts) -> randomRule(sc.groups)] :
         Emit(Plain("group", "sg", sc.groups) \cup
              {Entry(<<"rule", k>>, "rule",
                     {<<"group", <<"sg", Owner(counts, k)>>>>} \cup One("remote", remote[k]),
                     {}, 1) : k \in DOMAIN remote}, 6)
  BY DEF NeutronSecurityGroups
<1>4. PICK remote \in [1..Total(counts) -> randomRule(sc.groups)] :
         Emit(Plain("group", "sg", sc.groups) \cup
              {Entry(<<"rule", k>>, "rule",
                     {<<"group", <<"sg", Owner(counts, k)>>>>} \cup One("remote", remote[k]),
                     {}, 1) : k \in DOMAIN remote}, 6)
  BY <1>3
<1>5. sc.groups \in Nat /\ counts \in [1..sc.groups -> Nat]
  BY <1>1, NeutronScenario, RangesAreNat DEF Counts
<1>6. /\ Total(counts) \in Nat
      /\ \A k \in 1..Total(counts) : Owner(counts, k) \in 1..sc.groups
  BY <1>5, OwnerIsOne
<1> DEFINE n == Total(counts)
           f == [k \in 1..n |->
                   Entry(<<"rule", k>>, "rule",
                     {<<"group", <<"sg", Owner(counts, k)>>>>} \cup One("remote", remote[k]), {}, 1)]
           rules == {f[k] : k \in 1..n}
           groups == Plain("group", "sg", sc.groups)
           new == groups \cup rules
<1>7. Emit(new, 6)
  BY <1>4
<1>8. \A k \in 1..n : /\ f[k].key = <<"rule", k>> /\ f[k].kind = "rule"
                      /\ f[k].refs = {<<"group", <<"sg", Owner(counts, k)>>>>}
                                       \cup One("remote", remote[k])
  BY DEF Entry
<1>9. \A k \in 1..n : /\ remote[k] \subseteq Names("sg", sc.groups)
                      /\ Owner(counts, k) \in 1..sc.groups
  BY <1>6 DEF randomRule, AtMostOne
<1> HIDE DEF f, n
<1>10. n \in Nat /\ IsFiniteSet(1..n) /\ \A k \in 1..n : k \in Nat
  <2>1. n \in Nat
    BY <1>6 DEF n
  <2>2. IsFiniteSet(1..n)
    BY <2>1, FS_Interval
  <2> QED BY <2>1, <2>2
<1>11. /\ IsFiniteSet(groups) /\ UniqueIn(groups)
       /\ \A e \in groups : Is(e, "group", {"sg"}, {}) /\ e.refs = {}
  BY <1>5, PlainNames
<1>12. \A k \in Names("sg", sc.groups) : \E e \in groups : e.key = k
  BY PlainKeys
<1>13. IsFiniteSet(rules) /\ UniqueIn(rules)
  <2>1. \A i, j \in 1..n : f[i].key = f[j].key => i = j
    BY <1>8
  <2>2. \A e \in rules : \E k \in 1..n : e = f[k]
    OBVIOUS
  <2> HIDE DEF rules
  <2> QED BY <1>10, <2>1, <2>2, Numbered
<1>14. ASSUME NEW e \in rules
       PROVE  /\ Is(e, "rule", {"rule"}, {"group", "remote"})
              /\ \A r \in e.refs : r[1] \in {"group", "remote"} /\ r[2] \in Names("sg", sc.groups)
  <2>1. PICK k \in 1..n : e = f[k]
    OBVIOUS
  <2>2. e.key = <<"rule", k>> /\ e.kind = "rule" /\ k \in Nat
    BY <1>8, <1>10, <2>1
  <2>3. \A r \in e.refs : \/ r[1] = "group" /\ r[2] = <<"sg", Owner(counts, k)>>
                          \/ r[1] = "remote" /\ r[2] \in remote[k]
    BY <1>8, <2>1, OneIs
  <2>4. <<"sg", Owner(counts, k)>> \in Names("sg", sc.groups)
    BY <1>9 DEF Names
  <2>5. \A r \in e.refs : r[1] \in {"group", "remote"} /\ r[2] \in Names("sg", sc.groups)
    BY <1>9, <2>3, <2>4
  <2>6. \A k1 \in Names("sg", sc.groups) : k1 # Panic
    BY DEF Names, Panic
  <2> QED BY <2>2, <2>5, <2>6 DEF Is
<1> HIDE DEF groups, rules
<1>15. IsFiniteSet(new) /\ UniqueIn(new)
  <2>1. \A a \in groups, b \in rules : a.key # b.key
    BY <1>11, <1>14 DEF Is
  <2> QED BY <1>11, <1>13, <2>1, BothUnique
<1>16. \A e \in new : /\ NeutronKind(e) /\ e.key[1] \in {"sg", "rule"} /\ e.kind \in {"group", "rule"}
  BY <1>11, <1>14 DEF NeutronKind, Is
<1>17. \A e \in new : NeutronKind(e) /\ Collection(e.key[1]) = step
  BY <1>1, <1>16 DEF Collection
<1>18. ASSUME plan' = plan \cup new
       PROVE  /\ \A e \in new : NeutronEntry(e)'
              /\ Unshared("rif", "subnet")' /\ Unshared("rif", "port")'
              /\ Keys("network")' = Keys("network")
  <2>1. \A k \in Names("sg", sc.groups) : k \in Keys("group")'
    <3>1. \A e \in groups : e \in Of("group")'
      BY <1>11, <1>18 DEF Of, Is
    <3> QED BY <1>12, <3>1 DEF Keys
  <2>2. ASSUME NEW e \in new PROVE NeutronEntry(e)'
    <3>1. \A r \in e.refs : r[1] \in {"group", "remote"} /\ r[2] \in Names("sg", sc.groups)
      BY <1>11, <1>14
    <3>2. \A r \in e.refs : r[2] \in Keys(Target(r[1]))'
      BY <2>1, <3>1 DEF Target
    <3> QED BY <1>16, <3>2 DEF NeutronEntry
  <2>3. Of("rif")' = Of("rif") /\ Of("network")' = Of("network")
    BY <1>16, <1>18 DEF Of
  <2> QED BY <1>2, <2>2, <2>3 DEF Unshared, Keys
<1> HIDE DEF new
<1>19. ASSUME plan' = plan \cup new, sc' = sc, step' = step + 1 PROVE NeutronNames'
  BY <1>1, <1>2, <1>18, <1>19 DEF NeutronNames
<1> QED BY <1>1, <1>7, <1>15, <1>17, <1>18, <1>19, NeutronEmits

LEMMA NeutronPortsStep ==
  ASSUME Common, NeutronInv, NeutronPorts
  PROVE  Common' /\ NeutronInv' /\ sc' = sc
<1>1. phase = "generate" /\ sc.service = "neutron" /\ step = 6
  BY DEF NeutronPorts, At
<1>2. /\ \A e \in plan : NeutronEntry(e)
      /\ Unshared("rif", "subnet") /\ Unshared("rif", "port") /\ NeutronNames
      /\ Names("net", sc.networks) \subseteq Keys("network")
  BY <1>1 DEF NeutronInv, NeutronNames
<1>3. PICK counts \in Counts(sc.networks, sc.ports) :
       \E groups \in [1..Total(counts) -> SUBSET Keys("group")] :
       \E subnets \in [1..Total(counts) -> AtMostOne(Keys("subnet"))] :
            Emit({Entry(<<"port", k>>, "port",
                           {<<"network", <<"net", Owner(counts, k)>>>>} \cup One("subnet", subnets[k])
                             \cup One("group", groups[k]), {}, 1) : k \in DOMAIN groups}, 7)
  BY DEF NeutronPorts
<1>4. PICK groups \in [1..Total(counts) -> SUBSET Keys("group")],
           subnets \in [1..Total(counts) -> AtMostOne(Keys("subnet"))] :
            Emit({Entry(<<"port", k>>, "port",
                           {<<"network", <<"net", Owner(counts, k)>>>>} \cup One("subnet", subnets[k])
                             \cup One("group", groups[k]), {}, 1) : k \in DOMAIN groups}, 7)
  BY <1>3
<1>5. sc.networks \in Nat /\ counts \in [1..sc.networks -> Nat]
  BY <1>1, NeutronScenario, RangesAreNat DEF Counts
<1>6. /\ Total(counts) \in Nat
      /\ \A k \in 1..Total(counts) : Owner(counts, k) \in 1..sc.networks
  BY <1>5, OwnerIsOne
<1> DEFINE n == Total(counts)
           f == [k \in 1..n |->
                   Entry(<<"port", k>>, "port",
                           {<<"network", <<"net", Owner(counts, k)>>>>} \cup One("subnet", subnets[k])
                             \cup One("group", groups[k]), {}, 1)]
           new == {f[k] : k \in 1..n}
<1>7. Emit(new, 7)
  BY <1>4
<1>8. \A k \in 1..n : /\ f[k].key = <<"port", k>> /\ f[k].kind = "port"
                      /\ f[k].refs = {<<"network", <<"net", Owner(counts, k)>>>>}
                                       \cup One("subnet", subnets[k]) \cup One("group", groups[k])
  BY DEF Entry
<1>9. \A k \in 1..n : /\ subnets[k] \subseteq Keys("subnet") /\ groups[k] \subseteq Keys("group")
                      /\ Owner(counts, k) \in 1..sc.networks
  BY <1>6 DEF AtMostOne
<1> HIDE DEF f, n
<1>10. n \in Nat /\ IsFiniteSet(1..n) /\ \A k \in 1..n : k \in Nat
  <2>1. n \in Nat
    BY <1>6 DEF n
  <2>2. IsFiniteSet(1..n)
    BY <2>1, FS_Interval
  <2> QED BY <2>1, <2>2
<1>11. IsFiniteSet(new) /\ UniqueIn(new)
  <2>1. \A i, j \in 1..n : f[i].key = f[j].key => i = j
    BY <1>8
  <2>2. \A e \in new : \E k \in 1..n : e = f[k]
    OBVIOUS
  <2> HIDE DEF new
  <2> QED BY <1>10, <2>1, <2>2, Numbered
<1>12. ASSUME NEW e \in new
       PROVE  /\ e.kind = "port" /\ e.key[1] = "port"
              /\ Is(e, "port", {"port", "link-port"}, {"network", "subnet", "group"})
              /\ \A r \in e.refs : r[2] \in Keys(Target(r[1]))
  <2>1. PICK k \in 1..n : e = f[k]
    OBVIOUS
  <2>2. e.key = <<"port", k>> /\ e.kind = "port" /\ k \in Nat
    BY <1>8, <1>10, <2>1
  <2>3. \A r \in e.refs : \/ r[1] = "network" /\ r[2] = <<"net", Owner(counts, k)>>
                          \/ r[1] = "subnet" /\ r[2] \in subnets[k]
                          \/ r[1] = "group" /\ r[2] \in groups[k]
    BY <1>8, <2>1, OneIs
  <2>4. <<"net", Owner(counts, k)>> \in Keys("network")
    BY <1>2, <1>9 DEF Names
  <2>5. \A r \in e.refs : \/ r[1] = "network" /\ r[2] \in Keys("network")
                          \/ r[1] = "subnet" /\ r[2] \in Keys("subnet")
                          \/ r[1] = "group" /\ r[2] \in Keys("group")
    BY <1>9, <2>3, <2>4
  <2>6. \A r \in e.refs : r[1] \in {"network", "subnet", "group"} /\ r[2] # Panic
    BY <1>2, <2>5, KeysAreNames
  <2>7. \A r \in e.refs : r[2] \in Keys(Target(r[1]))
    BY <2>5 DEF Target
  <2> QED BY <2>2, <2>6, <2>7 DEF Is
<1>13. \A e \in new : NeutronKind(e) /\ Collection(e.key[1]) = step
  BY <1>1, <1>12 DEF NeutronKind, Collection
<1>14. ASSUME plan' = plan \cup new
       PROVE  /\ \A e \in new : NeutronEntry(e)'
              /\ Unshared("rif", "subnet")' /\ Unshared("rif", "port")'
              /\ Keys("network")' = Keys("network")
  <2>1. plan \subseteq plan'
    BY <1>14
  <2>2. \A kind : Keys(kind) \subseteq Keys(kind)'
    BY <2>1, KeysGrow
  <2>3. \A e \in new : NeutronEntry(e)'
    BY <1>12, <1>13, <2>2 DEF NeutronEntry
  <2>4. Of("rif")' = Of("rif") /\ Of("network")' = Of("network")
    BY <1>12, <1>14 DEF Of
  <2> QED BY <1>2, <2>3, <2>4 DEF Unshared, Keys
<1> HIDE DEF new
<1>15. ASSUME plan' = plan \cup new, sc' = sc, step' = step + 1 PROVE NeutronNames'
  BY <1>1, <1>2, <1>14, <1>15 DEF NeutronNames
<1> QED BY <1>1, <1>7, <1>11, <1>13, <1>14, <1>15, NeutronEmits

LEMMA FloatingIPsStep ==
  ASSUME Common, NeutronInv, appendFloatingIPs
  PROVE  Common' /\ NeutronInv' /\ sc' = sc
<1>1. phase = "generate" /\ sc.service = "neutron" /\ step = 8
  BY DEF appendFloatingIPs, At
<1>2. /\ \A e \in plan : NeutronEntry(e)
      /\ Unshared("rif", "subnet") /\ Unshared("rif", "port") /\ NeutronNames
      /\ sc.fips \in Nat
  BY <1>1, NeutronScenario DEF NeutronInv
<1>3. PICK on \in [1..sc.fips -> AtMostOne(eligibleFloatingIPPorts)] :
       Emit({Entry(<<"fip", i>>, "fip", One("port", on[i]), {}, 1) : i \in DOMAIN on}, 0)
  BY DEF appendFloatingIPs
<1> DEFINE f == [i \in 1..sc.fips |-> Entry(<<"fip", i>>, "fip", One("port", on[i]), {}, 1)]
           new == {f[i] : i \in 1..sc.fips}
<1>4. Emit(new, 0)
  BY <1>3
<1>5. \A i \in 1..sc.fips : /\ f[i].key = <<"fip", i>> /\ f[i].kind = "fip"
                            /\ f[i].refs = One("port", on[i])
  BY DEF Entry
<1>6. \A i \in 1..sc.fips : on[i] \subseteq Keys("port")
  <2>1. eligibleFloatingIPPorts \subseteq Keys("port")
    BY DEF eligibleFloatingIPPorts, Keys
  <2> QED BY <2>1 DEF AtMostOne
<1> HIDE DEF f
<1>7. IsFiniteSet(1..sc.fips) /\ \A i \in 1..sc.fips : i \in Nat
  <2>1. sc.fips \in Nat
    BY <1>2
  <2> QED BY <2>1, FS_Interval
<1>8. IsFiniteSet(new) /\ UniqueIn(new)
  <2>1. \A i, j \in 1..sc.fips : f[i].key = f[j].key => i = j
    BY <1>5
  <2>2. \A e \in new : \E k \in 1..sc.fips : e = f[k]
    OBVIOUS
  <2> HIDE DEF new
  <2> QED BY <1>7, <2>1, <2>2, Numbered
<1>9. ASSUME NEW e \in new
      PROVE  /\ e.kind = "fip" /\ e.key[1] = "fip" /\ Is(e, "fip", {"fip"}, {"port"})
             /\ \A r \in e.refs : r[2] \in Keys(Target(r[1]))
  <2>1. PICK i \in 1..sc.fips : e = f[i]
    OBVIOUS
  <2>2. e.key = <<"fip", i>> /\ e.kind = "fip" /\ i \in Nat
    BY <1>5, <1>7, <2>1
  <2>3. \A r \in e.refs : r[1] = "port" /\ r[2] \in Keys("port")
    BY <1>5, <1>6, <2>1, OneIs
  <2>4. \A r \in e.refs : r[1] = "port" /\ r[2] # Panic
    BY <1>2, <2>3, KeysAreNames
  <2>5. \A r \in e.refs : r[2] \in Keys(Target(r[1]))
    BY <2>3 DEF Target
  <2> QED BY <2>2, <2>4, <2>5 DEF Is
<1>10. \A e \in new : NeutronKind(e) /\ Collection(e.key[1]) = step
  BY <1>1, <1>9 DEF NeutronKind, Collection
<1>11. ASSUME plan' = plan \cup new
       PROVE  /\ \A e \in new : NeutronEntry(e)'
              /\ Unshared("rif", "subnet")' /\ Unshared("rif", "port")'
              /\ Keys("network")' = Keys("network")
  <2>1. plan \subseteq plan'
    BY <1>11
  <2>2. \A kind : Keys(kind) \subseteq Keys(kind)'
    BY <2>1, KeysGrow
  <2>3. \A e \in new : NeutronEntry(e)'
    BY <1>9, <1>10, <2>2 DEF NeutronEntry
  <2>4. Of("rif")' = Of("rif") /\ Of("network")' = Of("network")
    BY <1>9, <1>11 DEF Of
  <2> QED BY <1>2, <2>3, <2>4 DEF Unshared, Keys
<1> HIDE DEF new
<1>12. ASSUME plan' = plan \cup new, sc' = sc, step' = step + 1 PROVE NeutronNames'
  BY <1>1, <1>2, <1>11, <1>12 DEF NeutronNames
<1> QED BY <1>1, <1>4, <1>8, <1>10, <1>11, <1>12, NeutronEmits

\* What a link adds.
LinkRef(i, a, b, r) ==
  \/ r[1] = "network" /\ r[2] = <<"link-net", i>>
  \/ r[1] = "subnet" /\ r[2] = <<"link-subnet", i>>
  \/ r[1] = "port" /\ r[2] = <<"link-port", i>>
  \/ r[1] = "router" /\ r[2] \in {a, b}
LinkEntry(i, a, b, e) ==
  /\ NeutronKind(e) /\ \A r \in e.refs : LinkRef(i, a, b, r)
  /\ e.key = <<e.key[1], i>>
  /\ \/ e.kind = "network" /\ e.key[1] = "link-net"
     \/ e.kind = "subnet" /\ e.key[1] = "link-subnet"
     \/ e.kind = "port" /\ e.key[1] = "link-port"
     \/ /\ e.kind = "rif" /\ e.key[1] = "link-rif-a"
        /\ Refs(e, "subnet") = {<<"link-subnet", i>>} /\ Refs(e, "port") = {}
     \/ /\ e.kind = "rif" /\ e.key[1] = "link-rif-b"
        /\ Refs(e, "port") = {<<"link-port", i>>} /\ Refs(e, "subnet") = {}

LEMMA LinkEntriesAre ==
  ASSUME NEW i \in Nat, NEW a, NEW b, a # Panic, b # Panic
  PROVE  /\ IsFiniteSet(linkEntries(i, a, b)) /\ UniqueIn(linkEntries(i, a, b))
         /\ \A e \in linkEntries(i, a, b) : LinkEntry(i, a, b, e)
         /\ \A p \in {"link-net", "link-subnet", "link-port"} :
              \E e \in linkEntries(i, a, b) : e.key = <<p, i>>
<1> DEFINE net == Entry(<<"link-net", i>>, "network", {}, {}, 1)
           sub == Entry(<<"link-subnet", i>>, "subnet", {<<"network", <<"link-net", i>>>>}, {"link"}, 1)
           prt == Entry(<<"link-port", i>>, "port",
                    {<<"network", <<"link-net", i>>>>, <<"subnet", <<"link-subnet", i>>>>}, {}, 1)
           ra == Entry(<<"link-rif-a", i>>, "rif",
                    {<<"router", a>>, <<"subnet", <<"link-subnet", i>>>>}, {}, 1)
           rb == Entry(<<"link-rif-b", i>>, "rif",
                    {<<"router", b>>, <<"port", <<"link-port", i>>>>}, {}, 1)
<1>1. linkEntries(i, a, b) = {net, sub, prt, ra, rb}
  BY DEF linkEntries
<1>2. net.key = <<"link-net", i>> /\ net.kind = "network" /\ net.refs = {}
  BY DEF Entry
<1>3. sub.key = <<"link-subnet", i>> /\ sub.kind = "subnet"
      /\ sub.refs = {<<"network", <<"link-net", i>>>>}
  BY DEF Entry
<1>4. prt.key = <<"link-port", i>> /\ prt.kind = "port"
      /\ prt.refs = {<<"network", <<"link-net", i>>>>, <<"subnet", <<"link-subnet", i>>>>}
  BY DEF Entry
<1>5. ra.key = <<"link-rif-a", i>> /\ ra.kind = "rif"
      /\ ra.refs = {<<"router", a>>, <<"subnet", <<"link-subnet", i>>>>}
  BY DEF Entry
<1>6. rb.key = <<"link-rif-b", i>> /\ rb.kind = "rif"
      /\ rb.refs = {<<"router", b>>, <<"port", <<"link-port", i>>>>}
  BY DEF Entry
<1> HIDE DEF net, sub, prt, ra, rb
<1>7. IsFiniteSet({net, sub, prt, ra, rb})
  <2>1. {net, sub, prt, ra, rb} = {net} \cup {sub} \cup {prt} \cup {ra} \cup {rb}
    OBVIOUS
  <2>2. /\ IsFiniteSet({net}) /\ IsFiniteSet({sub}) /\ IsFiniteSet({prt})
        /\ IsFiniteSet({ra}) /\ IsFiniteSet({rb})
    BY FS_Singleton
  <2>3. IsFiniteSet({net} \cup {sub})
    BY <2>2, FS_Union
  <2>4. IsFiniteSet({net} \cup {sub} \cup {prt})
    BY <2>2, <2>3, FS_Union
  <2>5. IsFiniteSet({net} \cup {sub} \cup {prt} \cup {ra})
    BY <2>2, <2>4, FS_Union
  <2>6. IsFiniteSet({net} \cup {sub} \cup {prt} \cup {ra} \cup {rb})
    BY <2>2, <2>5, FS_Union
  <2> QED BY <2>1, <2>6
<1>8. UniqueIn({net, sub, prt, ra, rb})
  <2>1. /\ net.key[1] = "link-net" /\ sub.key[1] = "link-subnet" /\ prt.key[1] = "link-port"
        /\ ra.key[1] = "link-rif-a" /\ rb.key[1] = "link-rif-b"
    BY <1>2, <1>3, <1>4, <1>5, <1>6
  <2> QED BY <2>1 DEF UniqueIn
<1>9. LinkEntry(i, a, b, net)
  <2>1. Is(net, "network", {"net", "link-net"}, {})
    BY <1>2 DEF Is
  <2> QED BY <1>2, <2>1 DEF LinkEntry, NeutronKind
<1>10. LinkEntry(i, a, b, sub)
  <2>0. \A r \in sub.refs : r[1] = "network" /\ r[2] = <<"link-net", i>>
    BY <1>3
  <2>1. Is(sub, "subnet", {"subnet", "link-subnet"}, {"network", "pool"})
    BY <1>3, <2>0 DEF Is, Panic
  <2> QED BY <1>3, <2>0, <2>1 DEF LinkEntry, NeutronKind, LinkRef
<1>11. LinkEntry(i, a, b, prt)
  <2>0. \A r \in prt.refs : \/ r[1] = "network" /\ r[2] = <<"link-net", i>>
                            \/ r[1] = "subnet" /\ r[2] = <<"link-subnet", i>>
    BY <1>4
  <2>1. Is(prt, "port", {"port", "link-port"}, {"network", "subnet", "group"})
    BY <1>4, <2>0 DEF Is, Panic
  <2> QED BY <1>4, <2>0, <2>1 DEF LinkEntry, NeutronKind, LinkRef
<1>12. LinkEntry(i, a, b, ra)
  <2>0. \A r \in ra.refs : \/ r[1] = "router" /\ r[2] = a
                           \/ r[1] = "subnet" /\ r[2] = <<"link-subnet", i>>
    BY <1>5
  <2>1. Is(ra, "rif", {"rif", "link-rif-a", "link-rif-b"}, {"router", "subnet", "port"})
    BY <1>5, <2>0 DEF Is, Panic
  <2>2. <<"subnet", <<"link-subnet", i>>>> \in ra.refs
    BY <1>5
  <2>3. Refs(ra, "subnet") = {<<"link-subnet", i>>}
    BY <2>0, <2>2, SoleRef
  <2>4. Refs(ra, "port") = {}
    BY <2>0, NoRefs
  <2>5. NeutronKind(ra)
    BY <2>1 DEF NeutronKind
  <2> QED BY <1>5, <2>0, <2>3, <2>4, <2>5 DEF LinkEntry, LinkRef
<1>13. LinkEntry(i, a, b, rb)
  <2>0. \A r \in rb.refs : \/ r[1] = "router" /\ r[2] = b
                           \/ r[1] = "port" /\ r[2] = <<"link-port", i>>
    BY <1>6
  <2>1. Is(rb, "rif", {"rif", "link-rif-a", "link-rif-b"}, {"router", "subnet", "port"})
    BY <1>6, <2>0 DEF Is, Panic
  <2>2. <<"port", <<"link-port", i>>>> \in rb.refs
    BY <1>6
  <2>3. Refs(rb, "port") = {<<"link-port", i>>}
    BY <2>0, <2>2, SoleRef
  <2>4. Refs(rb, "subnet") = {}
    BY <2>0, NoRefs
  <2>5. NeutronKind(rb)
    BY <2>1 DEF NeutronKind
  <2> QED BY <1>6, <2>0, <2>3, <2>4, <2>5 DEF LinkEntry, LinkRef
<1> QED BY <1>1, <1>2, <1>3, <1>4, <1>7, <1>8, <1>9, <1>10, <1>11, <1>12, <1>13

LEMMA RouterLinksStep ==
  ASSUME Common, NeutronInv, appendRouterLinks
  PROVE  Common' /\ NeutronInv' /\ sc' = sc
<1>1. phase = "generate" /\ sc.service = "neutron" /\ step = 7
  BY DEF appendRouterLinks, At
<1>2. /\ \A e \in plan : NeutronEntry(e) /\ Collection(e.key[1]) < 7
      /\ Unshared("rif", "subnet") /\ Unshared("rif", "port") /\ NeutronNames
      /\ Names("net", sc.networks) \subseteq Keys("network")
      /\ sc.links \in Nat
  BY <1>1, NeutronScenario DEF NeutronInv, NeutronNames
<1> DEFINE n == IF Cardinality(Keys("router")) >= 2 THEN sc.links ELSE 0
<1>3. PICK f \in [1..n -> Keys("router") \X Keys("router")] :
        Emit(UNION {linkEntries(i, f[i][1], f[i][2]) : i \in DOMAIN f}, 8)
  BY DEF appendRouterLinks
<1>4. n \in Nat /\ IsFiniteSet(1..n) /\ \A i \in 1..n : i \in Nat
  <2>1. n \in Nat
    BY <1>2
  <2> HIDE DEF n
  <2>2. IsFiniteSet(1..n)
    BY <2>1, FS_Interval
  <2> QED BY <2>1, <2>2
<1> HIDE DEF n
<1> DEFINE at == [i \in 1..n |-> linkEntries(i, f[i][1], f[i][2])]
           links == {at[i] : i \in 1..n}
           new == UNION links
<1>5. Emit(new, 8)
  BY <1>3
<1>6. ASSUME NEW i \in 1..n
      PROVE  /\ f[i][1] \in Keys("router") /\ f[i][2] \in Keys("router")
             /\ IsFiniteSet(at[i]) /\ UniqueIn(at[i])
             /\ \A e \in at[i] : LinkEntry(i, f[i][1], f[i][2], e)
             /\ \A p \in {"link-net", "link-subnet", "link-port"} : \E e \in at[i] : e.key = <<p, i>>
  <2>1. f[i][1] \in Keys("router") /\ f[i][2] \in Keys("router") /\ i \in Nat
    BY <1>4
  <2>2. f[i][1] # Panic /\ f[i][2] # Panic
    BY <1>2, <2>1, KeysAreNames
  <2>3. at[i] = linkEntries(i, f[i][1], f[i][2])
    OBVIOUS
  <2> DEFINE a == f[i][1]
             b == f[i][2]
  <2>4. a # Panic /\ b # Panic /\ at[i] = linkEntries(i, a, b)
    BY <2>2, <2>3
  <2> HIDE DEF a, b, at
  <2>5. /\ IsFiniteSet(at[i]) /\ UniqueIn(at[i])
        /\ \A e \in at[i] : LinkEntry(i, a, b, e)
        /\ \A p \in {"link-net", "link-subnet", "link-port"} : \E e \in at[i] : e.key = <<p, i>>
    <3>1. /\ IsFiniteSet(linkEntries(i, a, b)) /\ UniqueIn(linkEntries(i, a, b))
          /\ \A e \in linkEntries(i, a, b) : LinkEntry(i, a, b, e)
          /\ \A p \in {"link-net", "link-subnet", "link-port"} :
               \E e \in linkEntries(i, a, b) : e.key = <<p, i>>
      BY <2>1, <2>4, LinkEntriesAre
    <3> QED BY <2>4, <3>1
  <2> QED BY <2>1, <2>5 DEF a, b
<1> HIDE DEF at
<1>7. IsFiniteSet(new) /\ UniqueIn(new)
  <2>1. IsFiniteSet(links)
    BY <1>4, ImageIsFinite
  <2>20. \A T \in links : IsFiniteSet(T)
    BY <1>6
  <2>2. IsFiniteSet(new)
    <3> HIDE DEF links
    <3> QED BY <2>1, <2>20, FS_UNION
  <2>3. ASSUME NEW d \in new, NEW e \in new, d.key = e.key PROVE d = e
    <3>1. PICK i \in 1..n : d \in at[i]
      OBVIOUS
    <3>2. PICK j \in 1..n : e \in at[j]
      OBVIOUS
    <3>3. d.key[2] = i /\ e.key[2] = j
      BY <1>6, <3>1, <3>2 DEF LinkEntry
    <3> QED BY <1>6, <2>3, <3>1, <3>2, <3>3 DEF UniqueIn
  <2> QED BY <2>2, <2>3 DEF UniqueIn
<1>8. \A e \in new : \E i \in 1..n : e \in at[i] /\ LinkEntry(i, f[i][1], f[i][2], e)
  BY <1>6
<1>80. \A i \in 1..n : at[i] \subseteq new
  OBVIOUS
<1> HIDE DEF new
<1>9. \A e \in new : /\ NeutronKind(e)
                     /\ e.key[1] \in {"link-net", "link-subnet", "link-port", "link-rif-a", "link-rif-b"}
  BY <1>8 DEF LinkEntry
<1>10. \A e \in new : NeutronKind(e) /\ Collection(e.key[1]) = step
  BY <1>1, <1>9 DEF Collection
<1>11. \A e \in new : e.kind = "rif" =>
         /\ (Refs(e, "subnet") = {}) # (Refs(e, "port") = {})
         /\ \A t \in Refs(e, "subnet") : e.key = <<"link-rif-a", t[2]>> /\ t[1] = "link-subnet"
         /\ \A t \in Refs(e, "port") : e.key = <<"link-rif-b", t[2]>> /\ t[1] = "link-port"
  <2> SUFFICES ASSUME NEW e \in new, e.kind = "rif"
               PROVE  /\ (Refs(e, "subnet") = {}) # (Refs(e, "port") = {})
                      /\ \A t \in Refs(e, "subnet") :
                           e.key = <<"link-rif-a", t[2]>> /\ t[1] = "link-subnet"
                      /\ \A t \in Refs(e, "port") :
                           e.key = <<"link-rif-b", t[2]>> /\ t[1] = "link-port"
    OBVIOUS
  <2>1. PICK i \in 1..n : LinkEntry(i, f[i][1], f[i][2], e)
    BY <1>8
  <2>2. \/ /\ e.key = <<"link-rif-a", i>>
           /\ Refs(e, "subnet") = {<<"link-subnet", i>>} /\ Refs(e, "port") = {}
        \/ /\ e.key = <<"link-rif-b", i>>
           /\ Refs(e, "port") = {<<"link-port", i>>} /\ Refs(e, "subnet") = {}
    BY <2>1 DEF LinkEntry
  <2>3. CASE e.key = <<"link-rif-a", i>> /\ Refs(e, "subnet") = {<<"link-subnet", i>>}
             /\ Refs(e, "port") = {}
    <3>1. Refs(e, "subnet") # {} /\ \A t \in Refs(e, "subnet") : t = <<"link-subnet", i>>
      BY <2>3
    <3>2. \A t \in Refs(e, "subnet") : e.key = <<"link-rif-a", t[2]>> /\ t[1] = "link-subnet"
      BY <2>3, <3>1
    <3> QED BY <2>3, <3>1, <3>2
  <2>4. CASE e.key = <<"link-rif-b", i>> /\ Refs(e, "port") = {<<"link-port", i>>}
             /\ Refs(e, "subnet") = {}
    <3>1. Refs(e, "port") # {} /\ \A t \in Refs(e, "port") : t = <<"link-port", i>>
      BY <2>4
    <3>2. \A t \in Refs(e, "port") : e.key = <<"link-rif-b", t[2]>> /\ t[1] = "link-port"
      BY <2>4, <3>1
    <3> QED BY <2>4, <3>1, <3>2
  <2> QED BY <2>2, <2>3, <2>4
<1>12. \A e \in plan : e.kind = "rif" =>
         /\ \A t \in Refs(e, "subnet") : t[1] # "link-subnet"
         /\ \A t \in Refs(e, "port") : t[1] # "link-port"
  <2>1. \A p \in {"link-subnet", "link-port"} : ~(Collection(p) < 7)
    BY DEF Collection
  <2>2. \A kind : \A k \in Keys(kind) : k[1] # "link-subnet" /\ k[1] # "link-port"
    BY <1>2, <2>1, KeysAre
  <2>3. ASSUME NEW e \in plan
        PROVE  Refs(e, "subnet") \subseteq Keys("subnet") /\ Refs(e, "port") \subseteq Keys("port")
    <3>1. \A r \in e.refs : r[2] \in Keys(Target(r[1]))
      BY <1>2 DEF NeutronEntry
    <3> QED BY <3>1, RefsAre DEF Target
  <2> QED BY <2>2, <2>3
<1>13. ASSUME plan' = plan \cup new
       PROVE  /\ \A e \in new : NeutronEntry(e)'
              /\ Unshared("rif", "subnet")' /\ Unshared("rif", "port")'
              /\ Names("net", sc.networks) \subseteq Keys("network")'
  <2>1. plan \subseteq plan'
    BY <1>13
  <2>2. \A kind : Keys(kind) \subseteq Keys(kind)'
    BY <2>1, KeysGrow
  <2>3. ASSUME NEW i \in 1..n
        PROVE  /\ <<"link-net", i>> \in Keys("network")' /\ <<"link-subnet", i>> \in Keys("subnet")'
               /\ <<"link-port", i>> \in Keys("port")'
    <3>1. \A e \in at[i] : LinkEntry(i, f[i][1], f[i][2], e) /\ e \in plan'
      BY <1>6, <1>13, <1>80
    <3>2. \A e \in at[i] : /\ e.key = <<"link-net", i>> => e.kind = "network"
                           /\ e.key = <<"link-subnet", i>> => e.kind = "subnet"
                           /\ e.key = <<"link-port", i>> => e.kind = "port"
      BY <3>1 DEF LinkEntry
    <3>3. \A p \in {"link-net", "link-subnet", "link-port"} : \E e \in at[i] : e.key = <<p, i>>
      BY <1>6
    <3> QED BY <3>1, <3>2, <3>3 DEF Keys, Of
  <2>4. ASSUME NEW e \in new PROVE NeutronEntry(e)'
    <3>1. PICK i \in 1..n : LinkEntry(i, f[i][1], f[i][2], e)
      BY <1>8
    <3>2. \A r \in e.refs : LinkRef(i, f[i][1], f[i][2], r)
      BY <3>1 DEF LinkEntry
    <3>3. f[i][1] \in Keys("router")' /\ f[i][2] \in Keys("router")'
      BY <1>6, <2>2
    <3>4. \A r \in e.refs : r[2] \in Keys(Target(r[1]))'
      BY <2>3, <3>2, <3>3 DEF LinkRef, Target
    <3>5. NeutronKind(e) /\ (e.kind = "rif" => (Refs(e, "subnet") = {}) # (Refs(e, "port") = {}))
      BY <1>9, <1>11
    <3> QED BY <3>4, <3>5 DEF NeutronEntry
  <2>5. ASSUME NEW d \in plan', NEW e \in plan', d.kind = "rif", e.kind = "rif", d # e,
               NEW role \in {"subnet", "port"}, NEW t \in Refs(d, role), t \in Refs(e, role)
        PROVE  FALSE
    <3>1. CASE d \in plan /\ e \in plan
      BY <1>2, <2>5, <3>1 DEF Unshared, Of
    <3>2. ASSUME d \in new PROVE e \in new
      BY <1>11, <1>12, <1>13, <2>5, <3>2
    <3>3. ASSUME e \in new PROVE d \in new
      BY <1>11, <1>12, <1>13, <2>5, <3>3
    <3>4. CASE d \in new /\ e \in new
      <4>1. d.key = e.key
        BY <1>11, <2>5, <3>4
      <4> QED BY <1>7, <2>5, <3>4, <4>1 DEF UniqueIn
    <3> QED BY <1>13, <3>1, <3>2, <3>3, <3>4
  <2>6. \A role \in {"subnet", "port"} : Unshared("rif", role)'
    BY <2>5 DEF Unshared, Of
  <2> QED BY <1>2, <2>2, <2>4, <2>6
<1>14. ASSUME plan' = plan \cup new, sc' = sc, step' = step + 1 PROVE NeutronNames'
  BY <1>1, <1>13, <1>14 DEF NeutronNames
<1> QED BY <1>1, <1>5, <1>7, <1>10, <1>13, <1>14, NeutronEmits

LEMMA NeutronSteps ==
  ASSUME Common, NeutronInv,
         \/ NeutronPools \/ NeutronSubnets \/ NeutronRouters \/ NeutronInterfaces
         \/ NeutronSecurityGroups \/ NeutronPorts \/ appendRouterLinks \/ appendFloatingIPs
  PROVE  Common' /\ NeutronInv' /\ sc' = sc
BY NeutronPoolsStep, NeutronSubnetsStep, NeutronRoutersStep, NeutronInterfacesStep,
   NeutronSecurityGroupsStep, NeutronPortsStep, RouterLinksStep, FloatingIPsStep

LEMMA NeutronPlans == ASSUME NeutronInv, sc.service = "neutron" PROVE neutronPlanOK
<1>1. \A e \in plan : NeutronEntry(e)
  BY DEF NeutronInv
<1>2. ASSUME NEW e \in plan, NEW role
      PROVE  Refs(e, role) \subseteq Keys(Target(role))
  <2>1. \A r \in e.refs : r[2] \in Keys(Target(r[1]))
    BY <1>1 DEF NeutronEntry
  <2> QED BY <2>1, RefsAre
<1>3. \A kind, role : Resolves(kind, role, Target(role))
  BY <1>2 DEF Resolves, Of
<1>4. /\ Target("scope") = "scope" /\ Target("network") = "network" /\ Target("pool") = "pool"
      /\ Target("router") = "router" /\ Target("subnet") = "subnet" /\ Target("port") = "port"
      /\ Target("remote") = "group" /\ Target("group") = "group"
  BY DEF Target
<1>5. \A ri \in Of("rif") : (Refs(ri, "subnet") = {}) # (Refs(ri, "port") = {})
  BY <1>1 DEF NeutronEntry, Of
<1>6. Unshared("rif", "subnet") /\ Unshared("rif", "port")
  BY DEF NeutronInv
<1>7. /\ Resolves("pool", "scope", "scope")
      /\ Resolves("subnet", "network", "network") /\ Resolves("subnet", "pool", "pool")
      /\ Resolves("rif", "router", "router")
      /\ Resolves("rif", "subnet", "subnet") /\ Resolves("rif", "port", "port")
  <2> HIDE DEF Target
  <2> QED BY <1>3, <1>4
<1>8. /\ Resolves("rule", "remote", "group")
      /\ Resolves("port", "network", "network") /\ Resolves("port", "subnet", "subnet")
      /\ Resolves("port", "group", "group")
      /\ Resolves("fip", "port", "port")
  BY <1>3, <1>4
<1> QED BY <1>5, <1>6, <1>7, <1>8 DEF neutronPlanOK

-----------------------------------------------------------------------------
(***************************************************************************)
(* Every service at once.                                                  *)
(***************************************************************************)
ServiceInv ==
  /\ CinderInv /\ GlanceInv /\ BarbicanInv /\ NovaInv /\ OctaviaInv /\ KeystoneInv /\ NeutronInv
PlanInv ==
  /\ Common /\ ServiceInv
  /\ sc.service = "mix" => phase \notin {"generated", "planned", "built"}

Still == sc' = sc /\ plan' = plan /\ (phase' = "generate" => phase = "generate" /\ step' = step)

LEMMA NamesStay == ASSUME Still, NEW kind PROVE Of(kind)' = Of(kind) /\ Keys(kind)' = Keys(kind)
BY DEF Still, Of, Keys

LEMMA CinderStays == ASSUME Still, CinderInv PROVE CinderInv'
BY NamesStay DEF Still, CinderInv, CinderEntry, Just
LEMMA GlanceStays == ASSUME Still, GlanceInv PROVE GlanceInv'
BY NamesStay DEF Still, GlanceInv, GlanceEntry
LEMMA BarbicanStays == ASSUME Still, BarbicanInv PROVE BarbicanInv'
BY NamesStay DEF Still, BarbicanInv, BarbicanEntry
LEMMA NovaStays == ASSUME Still, NovaInv PROVE NovaInv'
<1>1. ASSUME NEW e, NovaEntry(e) PROVE NovaEntry(e)'
  BY <1>1, NamesStay DEF Still, NovaEntry, NovaServerEntry, NovaVolumeEntry, NovaPortEntry
<1>2. ASSUME NovaGenerates, step' = step, Still PROVE NovaGenerates'
  BY <1>2, NamesStay DEF Still, NovaGenerates
<1> QED BY <1>1, <1>2 DEF Still, NovaInv
LEMMA OctaviaStays == ASSUME Still, OctaviaInv PROVE OctaviaInv'
<1>1. ASSUME NEW e, OctaviaEntry(e) PROVE OctaviaEntry(e)'
  BY <1>1, NamesStay DEF Still, OctaviaEntry, OctaviaNetwork, OctaviaBalancer, OctaviaListenerEntry,
       OctaviaPool, OctaviaMemberEntry, OctaviaMonitor, netOf, lbOf, poolOf, memberNet, memberRank
<1>2. ASSUME OctaviaGenerates, step' = step, Still PROVE OctaviaGenerates'
  BY <1>2, NamesStay DEF Still, OctaviaGenerates
<1>3. ListenersApart => ListenersApart'
  BY NamesStay DEF ListenersApart
<1>4. Unshared("monitor", "pool") => Unshared("monitor", "pool")'
  BY NamesStay DEF Unshared
<1> QED BY <1>1, <1>2, <1>3, <1>4 DEF Still, OctaviaInv
LEMMA KeystoneStays == ASSUME Still, KeystoneInv PROVE KeystoneInv'
<1>1. ASSUME NEW e, KeystoneEntry(e) PROVE KeystoneEntry(e)'
  BY <1>1, NamesStay DEF KeystoneEntry, KeystoneImplied, KeystoneProject, KeystoneUser,
       KeystoneGrant, KeystoneToken
<1>2. ASSUME KeystoneGenerates, step' = step, Still PROVE KeystoneGenerates'
  BY <1>2, NamesStay DEF Still, KeystoneGenerates
<1>3. GrantsApart => GrantsApart'
  BY NamesStay DEF GrantsApart
<1> QED BY <1>1, <1>2, <1>3 DEF Still, KeystoneInv
LEMMA NeutronStays == ASSUME Still, NeutronInv PROVE NeutronInv'
<1>1. ASSUME NEW e, NeutronEntry(e) PROVE NeutronEntry(e)'
  BY <1>1, NamesStay DEF NeutronEntry
<1>2. ASSUME NeutronNames, step' = step, Still PROVE NeutronNames'
  BY <1>2, NamesStay DEF Still, NeutronNames
<1>3. \A role : Unshared("rif", role) => Unshared("rif", role)'
  BY NamesStay DEF Unshared
<1> QED BY <1>1, <1>2, <1>3 DEF Still, NeutronInv

LEMMA ServicesStay == ASSUME Still, ServiceInv PROVE ServiceInv'
BY CinderStays, GlanceStays, BarbicanStays, NovaStays, OctaviaStays, KeystoneStays, NeutronStays
   DEF ServiceInv

\* Before the first collection nothing is planned.
LEMMA NothingPlanned ==
  ASSUME plan = {}, phase = "generate" => step = 1,
         sc.service = "nova" /\ sc.persona = "gardener" => sc.networks \in Nat \ {0} /\ sc.ports.hi = 0
  PROVE  ServiceInv
<1>1. \A kind : Of(kind) = {}
  BY DEF Of
<1>2. CinderInv /\ GlanceInv /\ BarbicanInv
  BY DEF CinderInv, GlanceInv, BarbicanInv
<1>3. NovaInv
  BY DEF NovaInv, NovaGenerates
<1>4. OctaviaInv
  BY <1>1 DEF OctaviaInv, OctaviaGenerates, ListenersApart, Unshared
<1>5. KeystoneInv
  BY <1>1 DEF KeystoneInv, KeystoneGenerates, GrantsApart
<1>6. NeutronInv
  BY <1>1 DEF NeutronInv, NeutronNames, Unshared
<1> QED BY <1>2, <1>3, <1>4, <1>5, <1>6 DEF ServiceInv

\* What another service plans is not this one's concern.
LEMMA OtherServices ==
  ASSUME sc' = sc
  PROVE  /\ sc.service # "cinder" => CinderInv'
         /\ sc.service # "glance" => GlanceInv'
         /\ sc.service # "barbican" => BarbicanInv'
         /\ sc.service # "nova" => NovaInv'
         /\ sc.service # "octavia" => OctaviaInv'
         /\ sc.service # "keystone" => KeystoneInv'
         /\ sc.service # "neutron" => NeutronInv'
BY DEF CinderInv, GlanceInv, BarbicanInv, NovaInv, OctaviaInv, KeystoneInv, NeutronInv

LEMMA PlansStart == ASSUME PlansInit PROVE PlanInv
<1>1. /\ sc.service \in Services /\ phase = "scenario" /\ step = 0 /\ plan = {}
      /\ sc.service = "nova" => sc.persona = "none"
      /\ sc.service = "mix" => sc.shares \in [1..3 -> Int]
  BY PlansAssumption DEF PlansInit
<1>2. IsFiniteSet(plan)
  BY <1>1, FS_EmptySet
<1>3. Common
  BY <1>1, <1>2 DEF Common, Panicked, UniqueIn
<1>4. ServiceInv
  BY <1>1, NothingPlanned
<1> QED BY <1>1, <1>3, <1>4 DEF PlanInv

LEMMA ValidateScenarioStep == ASSUME PlanInv, ValidateScenario PROVE PlanInv'
<1>1. /\ sc' = sc /\ plan = {} /\ plan' = {} /\ step' = 1 /\ phase = "scenario"
      /\ phase' \in {"generate", "refused"} /\ (phase' = "generate" => scenarioOK(sc'))
      /\ Common /\ NovaInv
  BY DEF PlanInv, ServiceInv, ValidateScenario, Common
<1>2. Common'
  BY <1>1 DEF Common, Panicked, UniqueIn
<1>3. sc.service = "nova" /\ sc.persona = "gardener" => sc.networks \in Nat \ {0} /\ sc.ports.hi = 0
  BY <1>1 DEF NovaInv
<1>4. ServiceInv'
  <2>1. \A kind : Of(kind)' = {}
    BY <1>1 DEF Of
  <2>2. CinderInv' /\ GlanceInv' /\ BarbicanInv'
    BY <1>1 DEF CinderInv, GlanceInv, BarbicanInv
  <2>3. NovaInv'
    BY <1>1, <1>3 DEF NovaInv, NovaGenerates
  <2>4. OctaviaInv'
    BY <1>1, <2>1 DEF OctaviaInv, OctaviaGenerates, ListenersApart, Unshared
  <2>5. KeystoneInv'
    BY <1>1, <2>1 DEF KeystoneInv, KeystoneGenerates, GrantsApart
  <2>6. NeutronInv'
    BY <1>1, <2>1 DEF NeutronInv, NeutronNames, Unshared
  <2> QED BY <2>2, <2>3, <2>4, <2>5, <2>6 DEF ServiceInv
<1> QED BY <1>1, <1>2, <1>4 DEF PlanInv

LEMMA PlansPass == ASSUME PlanInv, phase = "generated" PROVE planOK
<1>1. Common /\ ServiceInv /\ sc.service \in Services /\ sc.service # "mix"
  BY DEF PlanInv, Common
<1>2. sc.service = "cinder" => cinderPlanOK
  BY <1>1, CinderPlans DEF ServiceInv
<1>3. sc.service = "glance" => glancePlanOK
  BY <1>1, GlancePlans DEF ServiceInv
<1>4. sc.service = "barbican" => barbicanPlanOK
  BY <1>1, BarbicanPlans DEF ServiceInv
<1>5. sc.service = "nova" => novaPlanOK
  BY <1>1, NovaPlans DEF ServiceInv
<1>6. sc.service = "octavia" => octaviaPlanOK
  BY <1>1, OctaviaPlans DEF ServiceInv
<1>7. sc.service = "keystone" => keystonePlanOK
  BY <1>1, KeystonePlans DEF ServiceInv
<1>8. sc.service = "neutron" => neutronPlanOK
  BY <1>1, NeutronPlans DEF ServiceInv
<1> QED BY <1>1, <1>2, <1>3, <1>4, <1>5, <1>6, <1>7, <1>8 DEF planOK, Services

LEMMA PlansNextKeeps == ASSUME PlanInv, PlansNext PROVE PlanInv'
<1>0. Common /\ ServiceInv /\ sc.service \in Services
  BY DEF PlanInv, Common
<1>1. CASE ValidateScenario
  BY <1>1, ValidateScenarioStep
<1>2. CASE ValidatePlan
  <2>1. /\ sc' = sc /\ plan' = plan /\ step' = step /\ phase = "generated" /\ phase' = "planned"
        /\ sc.service # "mix"
    BY <1>2, PlansPass DEF ValidatePlan, PlanInv
  <2>2. Common'
    BY <1>0, <2>1 DEF Common, Panicked, UniqueIn
  <2> QED BY <1>0, <2>1, <2>2, ServicesStay DEF Still, PlanInv
<1>3. CASE NeutronPools \/ NeutronSubnets \/ NeutronRouters \/ NeutronInterfaces
             \/ NeutronSecurityGroups \/ NeutronPorts \/ appendRouterLinks \/ appendFloatingIPs
  <2>1. sc.service = "neutron"
    BY <1>3 DEF NeutronPools, NeutronSubnets, NeutronRouters, NeutronInterfaces,
                NeutronSecurityGroups, NeutronPorts, appendRouterLinks, appendFloatingIPs, At
  <2>2. Common' /\ NeutronInv' /\ sc' = sc
    BY <1>0, <1>3, NeutronSteps DEF ServiceInv
  <2> QED BY <2>1, <2>2, OtherServices DEF PlanInv, ServiceInv
<1>4. CASE CinderVolumes \/ CinderSnapshots
  <2>1. sc.service = "cinder"
    BY <1>4 DEF CinderVolumes, CinderSnapshots, At
  <2>2. Common' /\ CinderInv' /\ sc' = sc
    BY <1>0, <1>4, CinderSteps DEF ServiceInv
  <2> QED BY <2>1, <2>2, OtherServices DEF PlanInv, ServiceInv
<1>5. CASE GlanceImages
  <2>1. sc.service = "glance"
    BY <1>5 DEF GlanceImages, At
  <2>2. Common' /\ GlanceInv' /\ sc' = sc
    BY <1>0, <1>5, GlanceSteps DEF ServiceInv
  <2> QED BY <2>1, <2>2, OtherServices DEF PlanInv, ServiceInv
<1>6. CASE BarbicanSecrets \/ BarbicanContainers
  <2>1. sc.service = "barbican"
    BY <1>6 DEF BarbicanSecrets, BarbicanContainers, At
  <2>2. Common' /\ BarbicanInv' /\ sc' = sc
    BY <1>0, <1>6, BarbicanSecretsStep, BarbicanContainersStep DEF ServiceInv
  <2> QED BY <2>1, <2>2, OtherServices DEF PlanInv, ServiceInv
<1>7. CASE NovaNetworks \/ NovaServer \/ PersonaShape
  <2>1. sc.service = "nova"
    BY <1>7 DEF NovaNetworks, NovaServer, PersonaShape, At
  <2>2. Common' /\ NovaInv' /\ sc' = sc
    BY <1>0, <1>7, NovaNetworksStep, NovaServerStep, PersonaShapeStep DEF ServiceInv
  <2> QED BY <2>1, <2>2, OtherServices DEF PlanInv, ServiceInv
<1>8. CASE MixPersona
  <2>1. Common' /\ NovaInv' /\ sc'.service \in {"nova", "mix"}
    BY <1>0, <1>8, MixPersonaStep
  <2>2. phase' \in {"generate", "noservers"}
    BY <1>8 DEF MixPersona, At
  <2>3. CinderInv' /\ GlanceInv' /\ BarbicanInv' /\ OctaviaInv' /\ KeystoneInv' /\ NeutronInv'
    BY <2>1 DEF CinderInv, GlanceInv, BarbicanInv, OctaviaInv, KeystoneInv, NeutronInv
  <2> QED BY <2>1, <2>2, <2>3 DEF PlanInv, ServiceInv
<1>9. CASE KeystoneRoles \/ KeystoneProjects \/ KeystoneUsers \/ KeystoneGrants
             \/ KeystoneTokens \/ KeystoneFans
  <2>1. sc.service = "keystone"
    BY <1>9 DEF KeystoneRoles, KeystoneProjects, KeystoneUsers, KeystoneGrants,
                KeystoneTokens, KeystoneFans, At
  <2>2. Common' /\ KeystoneInv' /\ sc' = sc
    BY <1>0, <1>9, KeystoneSteps DEF ServiceInv
  <2> QED BY <2>1, <2>2, OtherServices DEF PlanInv, ServiceInv
<1>10. CASE OctaviaLoadBalancers \/ OctaviaListener \/ OctaviaMembers \/ OctaviaMonitors
  <2>1. sc.service = "octavia"
    BY <1>10 DEF OctaviaLoadBalancers, OctaviaListener, OctaviaMembers, OctaviaMonitors, At
  <2>2. Common' /\ OctaviaInv' /\ sc' = sc
    BY <1>0, <1>10, OctaviaSteps DEF ServiceInv
  <2> QED BY <2>1, <2>2, OtherServices DEF PlanInv, ServiceInv
<1> QED BY <1>1, <1>2, <1>3, <1>4, <1>5, <1>6, <1>7, <1>8, <1>9, <1>10 DEF PlansNext

(***************************************************************************)
(* What was validated is what is built, and the plan no longer changes.    *)
(***************************************************************************)
GraphInv ==
  /\ PlanInv
  /\ phase \in {"planned", "built"} \/ nodes = {}
  /\ phase = "planned" => nodes = {}
  /\ phase = "built" => nodes = Graph

LEMMA GraphStays == ASSUME sc' = sc, plan' = plan PROVE Graph' = Graph
<1>1. \A kind : Of(kind)' = Of(kind)
  BY DEF Of
<1>2. neutronGraph' = neutronGraph
  BY DEF neutronGraph, neutronParents, neutronReads
<1>3. cinderGraph' = cinderGraph
  BY <1>1 DEF cinderGraph
<1>4. glanceGraph' = glanceGraph
  BY <1>1 DEF glanceGraph
<1>5. barbicanGraph' = barbicanGraph
  BY <1>1 DEF barbicanGraph
<1>6. keystoneGraph' = keystoneGraph
  <2>1. /\ Of("project")' = Of("project") /\ Of("user")' = Of("user")
        /\ Of("assignment")' = Of("assignment") /\ Of("token")' = Of("token")
    BY <1>1
  <2> DEFINE grants(A, T) ==
        {LET to == Refs(e, "user") \cup Refs(e, "project")
             token == \E t \in T : Refs(t, "user") = Refs(e, "user")
                                  /\ Refs(t, "project") = Refs(e, "project")
         IN Mutable(Node(e, to, to), token) : e \in A}
             others(S) == {Node(e, {}, {}) : e \in S}
  <2>2. keystoneGraph = others(Of("project") \cup Of("user")) \cup grants(Of("assignment"), Of("token"))
    BY DEF keystoneGraph
  <2>3. keystoneGraph' = others(Of("project")' \cup Of("user")')
                           \cup grants(Of("assignment")', Of("token")')
    BY DEF keystoneGraph
  <2> HIDE DEF grants, others
  <2> QED BY <2>1, <2>2, <2>3
<1>7. novaGraph' = novaGraph
  BY <1>1 DEF novaGraph, novaPort
<1>8. novaRolling' = novaRolling
  BY <1>1, <1>7 DEF novaRolling, rollGroup, follow
<1>9. novaLongLived' = novaLongLived
  BY <1>7 DEF novaLongLived, repeats
<1>10. octaviaGraph' = octaviaGraph
  <2>1. \A kind, role, keys : follow(kind, role, keys)' = follow(kind, role, keys)
    BY <1>1 DEF follow
  <2>2. /\ \A keys : lbsOfPool(keys)' = lbsOfPool(keys)
        /\ \A keys : lbSubnet(keys)' = lbSubnet(keys)
    BY <2>1 DEF lbsOfPool, lbSubnet, subnetOf
  <2>3. \A e : octaviaMember(e)' = octaviaMember(e)
    BY <2>2 DEF octaviaMember
  <2>4. /\ Of("network")' = Of("network") /\ Of("lb")' = Of("lb")
        /\ Of("listener")' = Of("listener") /\ Of("pool")' = Of("pool")
        /\ Of("member")' = Of("member") /\ Of("monitor")' = Of("monitor")
    BY <1>1
  <2> QED BY <2>1, <2>2, <2>3, <2>4, Zenon DEF octaviaGraph
<1> QED BY <1>2, <1>3, <1>4, <1>5, <1>6, <1>8, <1>9, <1>7, <1>10 DEF Graph

\* A step of planning neither starts from a finished plan nor ends in a graph.
LEMMA PlanningPhases ==
  ASSUME PlansNext
  PROVE  phase \notin {"planned", "built"} /\ phase' # "built"
<1>1. CASE ValidateScenario \/ ValidatePlan
  BY <1>1 DEF ValidateScenario, ValidatePlan
<1>2. \A new, next : phase = "generate" /\ Emit(new, next) => phase' # "built"
  BY DEF Emit
<1>3. CASE NeutronPools
  BY <1>2, <1>3 DEF NeutronPools, At
<1>4. CASE NeutronSubnets
  BY <1>2, <1>4 DEF NeutronSubnets, At
<1>5. CASE NeutronRouters
  BY <1>2, <1>5 DEF NeutronRouters, At
<1>6. CASE NeutronInterfaces
  BY <1>2, <1>6 DEF NeutronInterfaces, At
<1>7. CASE NeutronSecurityGroups
  BY <1>2, <1>7 DEF NeutronSecurityGroups, At
<1>8. CASE NeutronPorts
  BY <1>2, <1>8 DEF NeutronPorts, At
<1>9. CASE appendRouterLinks
  BY <1>2, <1>9 DEF appendRouterLinks, At
<1>10. CASE appendFloatingIPs
  BY <1>2, <1>10 DEF appendFloatingIPs, At
<1>11. CASE CinderVolumes
  BY <1>2, <1>11 DEF CinderVolumes, At
<1>12. CASE CinderSnapshots
  BY <1>2, <1>12 DEF CinderSnapshots, At
<1>13. CASE GlanceImages
  BY <1>2, <1>13 DEF GlanceImages, At
<1>14. CASE BarbicanSecrets
  BY <1>2, <1>14 DEF BarbicanSecrets, At
<1>15. CASE BarbicanContainers
  BY <1>2, <1>15 DEF BarbicanContainers, At
<1>16. CASE NovaNetworks
  BY <1>2, <1>16 DEF NovaNetworks, At
<1>17. CASE NovaServer
  BY <1>2, <1>17 DEF NovaServer, At
<1>18. CASE PersonaShape
  BY <1>2, <1>18 DEF PersonaShape, At
<1>19. CASE MixPersona
  BY <1>2, <1>19 DEF MixPersona, At
<1>20. CASE KeystoneRoles
  BY <1>2, <1>20 DEF KeystoneRoles, At
<1>21. CASE KeystoneProjects
  BY <1>2, <1>21 DEF KeystoneProjects, At
<1>22. CASE KeystoneUsers
  BY <1>2, <1>22 DEF KeystoneUsers, At
<1>23. CASE KeystoneGrants
  BY <1>2, <1>23 DEF KeystoneGrants, At
<1>24. CASE KeystoneTokens
  BY <1>2, <1>24 DEF KeystoneTokens, At
<1>25. CASE KeystoneFans
  BY <1>2, <1>25 DEF KeystoneFans, At
<1>26. CASE OctaviaLoadBalancers
  BY <1>2, <1>26 DEF OctaviaLoadBalancers, At
<1>27. CASE OctaviaListener
  BY <1>2, <1>27 DEF OctaviaListener, At
<1>28. CASE OctaviaMembers
  BY <1>2, <1>28 DEF OctaviaMembers, At
<1>29. CASE OctaviaMonitors
  BY <1>2, <1>29 DEF OctaviaMonitors, At
<1> QED BY <1>1, <1>3, <1>4, <1>5, <1>6, <1>7, <1>8, <1>9, <1>10, <1>11, <1>12, <1>13, <1>14,
  <1>15, <1>16, <1>17, <1>18, <1>19, <1>20, <1>21, <1>22, <1>23, <1>24, <1>25, <1>26, <1>27,
  <1>28, <1>29 DEF PlansNext

LEMMA GraphInvHolds == Spec => []GraphInv
<1>1. Init => GraphInv
  BY PlansStart DEF Init, GraphInv, PlansInit
<1>2. GraphInv /\ [Next]_vars => GraphInv'
  <2> SUFFICES ASSUME GraphInv, [Next]_vars PROVE GraphInv'
    OBVIOUS
  <2>1. CASE Build
    <3>1. sc' = sc /\ plan' = plan /\ step' = step /\ phase = "planned" /\ phase' = "built"
          /\ nodes' = Graph /\ PlanInv
      BY <2>1 DEF Build, GraphInv
    <3>2. Common'
      BY <3>1 DEF PlanInv, Common, Panicked, UniqueIn
    <3>3. ServiceInv'
      BY <3>1, ServicesStay DEF Still, PlanInv
    <3>4. Graph' = Graph
      BY <3>1, GraphStays
    <3> QED BY <3>1, <3>2, <3>3, <3>4 DEF GraphInv, PlanInv
  <2>2. CASE PlansNext /\ UNCHANGED <<nodes, present>>
    <3>1. PlanInv' /\ nodes' = nodes
      BY <2>2, PlansNextKeeps DEF GraphInv
    <3>2. phase \notin {"planned", "built"} /\ phase' # "built"
      BY <2>2, PlanningPhases
    <3> QED BY <3>1, <3>2 DEF GraphInv
  <2>3. CASE UNCHANGED vars
    <3>1. sc' = sc /\ plan' = plan /\ step' = step /\ phase' = phase /\ nodes' = nodes /\ PlanInv
      BY <2>3 DEF vars, planVars, GraphInv
    <3>2. Common'
      BY <3>1 DEF PlanInv, Common, Panicked, UniqueIn
    <3>3. ServiceInv'
      BY <3>1, ServicesStay DEF Still, PlanInv
    <3>4. Graph' = Graph
      BY <3>1, GraphStays
    <3> QED BY <3>1, <3>2, <3>3, <3>4 DEF GraphInv, PlanInv
  <2> QED BY <2>1, <2>2, <2>3 DEF Next
<1> QED BY <1>1, <1>2, PTL DEF Spec

(***************************************************************************)
(* A scenario that Validate accepts makes a plan: Generate never picks     *)
(* from nothing and ValidatePlan finds no fault with what it drew, for     *)
(* every scenario of every service, whatever the draws.                    *)
(***************************************************************************)
THEOREM ScenariosPlan == Spec => []AcceptedScenariosPlan
<1>1. GraphInv => AcceptedScenariosPlan
  BY DEF GraphInv, PlanInv, Common, AcceptedScenariosPlan
<1> QED BY <1>1, GraphInvHolds, PTL

-----------------------------------------------------------------------------
(***************************************************************************)
(* What makes a graph one the engine can run: every edge leads to a lower  *)
(* level, and there are no more levels than nodes.                         *)
(***************************************************************************)
Level(prefix) ==
  CASE prefix \in {"sub", "rule", "srv", "ctr", "assign"} -> 1
    [] prefix = "lb" -> 2
    [] prefix \in {"lsn", "vol"} -> 3
    [] prefix \in {"pool", "snap"} -> 4
    [] prefix \in {"subnet", "link-subnet", "member", "hm"} -> 5
    [] prefix \in {"port", "link-port"} -> 6
    [] prefix \in {"rif", "link-rif-a", "link-rif-b", "fip"} -> 7
    [] OTHER -> 0

LEMMA LevelIsNat == ASSUME NEW p PROVE Level(p) \in Nat
BY DEF Level

NodeRight(n, N) ==
  /\ n.parents \subseteq {m.key : m \in N} /\ n.reads \subseteq n.parents
  /\ \A p \in n.parents : Level(p[1]) < Level(n.key[1])
  /\ n.acts # {} => n.gate = n.acts /\ \E x : n.acts = {x}
  /\ n.roll # {} => ~n.pinned /\ \A c \in N : n.key \in c.parents => c.roll = n.roll
GraphRight(N) == IsFiniteSet(N) /\ UniqueIn(N) /\ \A n \in N : NodeRight(n, N)

Above(L) == {n \in nodes : parentsOf(n) \subseteq {m.key : m \in L}}
LayersUpTo(g, n) == g = [i \in 0..n |-> IF i = 0 THEN {} ELSE Above(g[i - 1])]

LEMMA LayersDefined ==
  ASSUME IsFiniteSet(nodes)
  PROVE  LayersUpTo(Layers, Cardinality(nodes))
<1> DEFINE last == Cardinality(nodes)
           Without == {n \in 0..last : ~\E g : LayersUpTo(g, n)}
<1>0. last \in Nat /\ Without \in SUBSET Nat
  BY FS_CardinalityType
<1>1. Without = {}
  <2> SUFFICES ASSUME Without # {} PROVE FALSE
    OBVIOUS
  <2>1. PICK m \in Without : \A j \in Without : m <= j
    <3> HIDE DEF Without
    <3> QED BY <1>0, LeastOf
  <2> HIDE DEF last
  <2>2. m # 0
    <3>1. LayersUpTo([i \in 0..0 |-> {}], 0)
      BY DEF LayersUpTo
    <3> QED BY <3>1, <2>1
  <2>3. m \in Nat /\ m - 1 \in 0..last /\ m - 1 \notin Without
    BY <1>0, <2>1, <2>2
  <2>4. PICK g : LayersUpTo(g, m - 1)
    BY <2>3
  <2> DEFINE h == [i \in 0..m |-> IF i = 0 THEN {} ELSE Above(g[i - 1])]
  <2>40. /\ \A i \in 0..(m - 1) : i \in 0..m
         /\ \A i \in 0..m : i # 0 => i - 1 \in 0..(m - 1)
    BY <2>3
  <2>41. \A i \in 0..(m - 1) : g[i] = IF i = 0 THEN {} ELSE Above(g[i - 1])
    BY <2>4 DEF LayersUpTo
  <2>42. \A i \in 0..m : h[i] = IF i = 0 THEN {} ELSE Above(g[i - 1])
    OBVIOUS
  <2> HIDE DEF h
  <2>5. \A i \in 0..(m - 1) : h[i] = g[i]
    BY <2>40, <2>41, <2>42
  <2>6. \A i \in 0..m : i # 0 => h[i] = Above(h[i - 1])
    BY <2>40, <2>42, <2>5
  <2>7. h[0] = {}
    BY <2>3, <2>42
  <2>8. h = [i \in 0..m |-> IF i = 0 THEN {} ELSE Above(h[i - 1])]
    BY <2>3, <2>6, <2>7 DEF h
  <2>9. LayersUpTo(h, m)
    BY <2>8 DEF LayersUpTo
  <2> QED BY <2>1, <2>9
<1>2. \E g : LayersUpTo(g, last)
  BY <1>0, <1>1
<1>3. Layers = CHOOSE g : LayersUpTo(g, last)
  BY DEF Layers, LayersUpTo, Above
<1> QED BY <1>2, <1>3

LEMMA KeysOfNodes ==
  ASSUME IsFiniteSet(nodes), UniqueIn(nodes)
  PROVE  Cardinality(AllKeys) = Cardinality(nodes)
<1> DEFINE f == [n \in nodes |-> n.key]
<1>1. f \in Bijection(nodes, AllKeys)
  BY DEF Bijection, Injection, Surjection, IsInjective, AllKeys, UniqueIn
<1>2. ExistsBijection(nodes, AllKeys)
  BY <1>1 DEF ExistsBijection
<1> QED BY <1>2, FS_Bijection

LEMMA NoCycle ==
  ASSUME GraphRight(nodes)
  PROVE  Layers[Cardinality(nodes)] = nodes
<1> DEFINE last == Cardinality(nodes)
           below(n) == {m \in nodes : m.key \in parentsOf(n)}
<1>0. IsFiniteSet(nodes) /\ UniqueIn(nodes) /\ last \in Nat /\ Cardinality({}) = 0
  BY FS_CardinalityType, FS_EmptySet DEF GraphRight
<1>1. Layers[0] = {} /\ \A i \in 1..last : Layers[i] = Above(Layers[i - 1]) /\ i - 1 \in 0..last
  <2>1. LayersUpTo(Layers, last)
    BY <1>0, LayersDefined
  <2> HIDE DEF last
  <2>2. \A i \in 0..last : Layers[i] = IF i = 0 THEN {} ELSE Above(Layers[i - 1])
    BY <2>1 DEF LayersUpTo
  <2>3. 0 \in 0..last /\ \A i \in 1..last : i \in 0..last /\ i # 0 /\ i - 1 \in 0..last
    BY <1>0
  <2> QED BY <2>2, <2>3
<1>2. ASSUME NEW L \in SUBSET nodes, L # nodes
      PROVE  \E n \in nodes : n \notin L /\ n \in Above(L)
  <2> DEFINE levels == {Level(n.key[1]) : n \in nodes \ L}
  <2>1. levels \in SUBSET Nat /\ levels # {}
    BY <1>2, LevelIsNat
  <2>2. PICK l \in levels : \A j \in levels : l <= j
    <3> HIDE DEF levels
    <3> QED BY <2>1, LeastOf
  <2>3. PICK n \in nodes \ L : l = Level(n.key[1])
    BY <2>2
  <2>4. ASSUME NEW p \in parentsOf(n) PROVE p \in {m.key : m \in L}
    <3>1. PICK m \in nodes : m.key = p
      BY <2>4 DEF parentsOf, AllKeys
    <3>2. Level(m.key[1]) < l
      BY <2>3, <2>4, <3>1 DEF parentsOf, GraphRight, NodeRight
    <3>3. m \in L
      <4> SUFFICES ASSUME m \notin L PROVE FALSE
        OBVIOUS
      <4>1. l <= Level(m.key[1])
        BY <2>2, <3>1
      <4>2. l \in Nat /\ Level(m.key[1]) \in Nat
        BY <2>3, LevelIsNat
      <4> QED BY <3>2, <4>1, <4>2
    <3> QED BY <3>1, <3>3
  <2> QED BY <2>3, <2>4 DEF Above
<1>3. \A i \in 0..last : Layers[i] \in SUBSET nodes
  <2> SUFFICES ASSUME NEW i \in 0..last PROVE Layers[i] \in SUBSET nodes
    OBVIOUS
  <2>1. CASE i = 0
    BY <1>1, <2>1
  <2>2. CASE i # 0
    <3>1. i \in 1..last
      BY <1>0, <2>2
    <3> QED BY <1>1, <3>1 DEF Above
  <2> QED BY <2>1, <2>2
<1>4. \A K, L \in SUBSET nodes : K \subseteq L => Above(K) \subseteq Above(L)
  BY DEF Above
<1> DEFINE Odd == {i \in 0..last : ~ /\ i < last => Layers[i] \subseteq Layers[i + 1]
                                     /\ Layers[i] = nodes \/ i <= Cardinality(Layers[i])}
<1>5. Odd = {}
  <2> SUFFICES ASSUME Odd # {} PROVE FALSE
    OBVIOUS
  <2>0. Odd \in SUBSET Nat
    BY <1>0
  <2>1. PICK i \in Odd : \A j \in Odd : i <= j
    <3> HIDE DEF Odd
    <3> QED BY <2>0, LeastOf
  <2> HIDE DEF last
  <2>2. i # 0
    BY <1>0, <1>1, <2>1
  <2>3. i \in 1..last /\ i - 1 \in 0..last /\ i - 1 < last /\ i - 1 \notin Odd /\ (i - 1) + 1 = i /\ i \in Nat
    BY <1>0, <2>1, <2>2
  <2>4. /\ Layers[i - 1] \subseteq Layers[i]
        /\ Layers[i - 1] = nodes \/ i - 1 <= Cardinality(Layers[i - 1])
    BY <2>3
  <2>5. Layers[i] = Above(Layers[i - 1]) /\ Layers[i - 1] \in SUBSET nodes /\ Layers[i] \in SUBSET nodes
    BY <1>1, <1>3, <2>1, <2>3
  <2>6. ASSUME i < last PROVE Layers[i] \subseteq Layers[i + 1]
    <3>1. i + 1 \in 1..last /\ (i + 1) - 1 = i
      BY <1>0, <2>3, <2>6
    <3>2. Layers[i + 1] = Above(Layers[i])
      BY <1>1, <3>1
    <3> QED BY <1>4, <2>4, <2>5, <3>2
  <2>7. ASSUME Layers[i] # nodes PROVE i <= Cardinality(Layers[i])
    <3>1. Layers[i - 1] # nodes
      BY <2>4, <2>5, <2>7
    <3>2. PICK n \in nodes : n \notin Layers[i - 1] /\ n \in Layers[i]
      BY <1>2, <2>5, <3>1
    <3>3. IsFiniteSet(Layers[i])
      BY <1>0, <2>5, FS_Subset
    <3>4. Layers[i - 1] \in SUBSET Layers[i] /\ Layers[i - 1] # Layers[i]
      BY <2>4, <3>2
    <3>5. /\ Cardinality(Layers[i - 1]) \in Nat /\ Cardinality(Layers[i]) \in Nat
          /\ Cardinality(Layers[i - 1]) < Cardinality(Layers[i])
      BY <3>3, <3>4, PartIsSmaller
    <3> QED BY <2>3, <2>4, <3>1, <3>5
  <2> QED BY <2>1, <2>6, <2>7
<1>6. Layers[last] = nodes \/ last <= Cardinality(Layers[last])
  BY <1>0, <1>5
<1>7. Layers[last] \in SUBSET nodes
  BY <1>0, <1>3
<1>8. ASSUME Layers[last] # nodes PROVE FALSE
  <2>1. Cardinality(Layers[last]) < last /\ Cardinality(Layers[last]) \in Nat
    BY <1>0, <1>7, <1>8, PartIsSmaller
  <2> HIDE DEF last
  <2> QED BY <1>0, <1>6, <1>8, <2>1
<1> QED BY <1>8

LEMMA RightGraphFits ==
  ASSUME GraphRight(nodes)
  PROVE  GraphFitsEngine
<1>1. EdgesComplete
  BY KeysOfNodes DEF GraphRight, NodeRight, EdgesComplete, AllKeys
<1>2. FitsScheduler
  BY NoCycle DEF FitsScheduler, GraphRight, NodeRight, childrenOf, parentsOf
<1>3. FamiliesShareGate
  BY DEF FamiliesShareGate, GraphRight, NodeRight
<1> QED BY <1>1, <1>2, <1>3 DEF GraphFitsEngine

-----------------------------------------------------------------------------
(***************************************************************************)
(* The nodes.                                                              *)
(***************************************************************************)
IsNode(n) ==
  DOMAIN n = {"key", "kind", "parents", "reads", "acts", "gate", "mutable", "pinned", "roll"}
Shape(n, e, P, R, A, G) ==
  /\ IsNode(n)
  /\ n.key = e.key /\ n.kind = e.kind /\ n.parents = P /\ n.reads = R
  /\ n.acts = A /\ n.gate = G /\ ~n.pinned /\ n.roll = {}

LEMMA NodeFields ==
  ASSUME NEW e, NEW P, NEW R
  PROVE  /\ Shape(Node(e, P, R), e, P, R, {}, {})
         /\ \A b : Shape(Mutable(Node(e, P, R), b), e, P, R, {}, {})
<1>1. IsNode(Node(e, P, R)) /\ \A b : IsNode(Mutable(Node(e, P, R), b))
  BY DEF Node, Mutable, IsNode
<1> QED BY <1>1 DEF Shape, Node, Mutable

LEMMA GatedFields ==
  ASSUME NEW e, NEW P, NEW R, NEW A, NEW G
  PROVE  /\ Shape(Gated(Node(e, P, R), A, G), e, P, R, A, G)
         /\ \A b : Shape(Mutable(Gated(Node(e, P, R), A, G), b), e, P, R, A, G)
<1>1. /\ IsNode(Gated(Node(e, P, R), A, G))
      /\ \A b : IsNode(Mutable(Gated(Node(e, P, R), A, G), b))
  BY DEF Node, Mutable, Gated, IsNode
<1> QED BY <1>1 DEF Shape, Node, Mutable, Gated

LEMMA ShapeIsRight ==
  ASSUME NEW n, NEW e, NEW P, NEW R, NEW A, NEW G, NEW N, Shape(n, e, P, R, A, G),
         P \subseteq {m.key : m \in N}, R \subseteq P,
         \A p \in P : Level(p[1]) < Level(e.key[1]),
         A # {} => G = A /\ \E x : A = {x}
  PROVE  NodeRight(n, N)
BY DEF Shape, NodeRight

\* One node for every entry of some kinds.
OneEach(N, kinds, f) ==
  /\ N = {f[e] : e \in {x \in plan : x.kind \in kinds}}
  /\ \A e \in plan : e.kind \in kinds => f[e].key = e.key

LEMMA NodesOfEntries ==
  ASSUME IsFiniteSet(plan), UniqueIn(plan), NEW N, NEW kinds, NEW f, OneEach(N, kinds, f)
  PROVE  /\ IsFiniteSet(N) /\ UniqueIn(N)
         /\ \A k \in kinds : Keys(k) \subseteq {m.key : m \in N}
<1> DEFINE D == {x \in plan : x.kind \in kinds}
<1>1. IsFiniteSet(D)
  BY FS_Subset
<1>2. \A n \in N : \E e \in D : n = f[e]
  BY DEF OneEach
<1>3. \A d, e \in D : f[d].key = f[e].key => d = e
  BY DEF OneEach, UniqueIn
<1>4. IsFiniteSet(N) /\ UniqueIn(N)
  <2> HIDE DEF D
  <2> QED BY <1>1, <1>2, <1>3, Numbered
<1>5. \A k \in kinds : Keys(k) \subseteq {m.key : m \in N}
  BY DEF Keys, Of, OneEach
<1> QED BY <1>4, <1>5

LEMMA CinderGraphs == ASSUME PlanInv, sc.service = "cinder" PROVE GraphRight(cinderGraph)
<1>1. /\ IsFiniteSet(plan) /\ UniqueIn(plan) /\ \A e \in plan : CinderEntry(e)
  BY DEF PlanInv, ServiceInv, Common, CinderInv
<1> DEFINE v(e) == Refs(e, "volume")
           f == [e \in plan |->
                   IF e.kind = "volume"
                   THEN Mutable(Gated(Node(e, {}, {}), {e.key}, {e.key}), Refs(e, "target") # {})
                   ELSE Gated(Node(e, v(e), v(e)), v(e), v(e))]
           kinds == {"volume", "snapshot"}
<1>2. cinderGraph = {f[e] : e \in {x \in plan : x.kind \in kinds}}
  BY DEF cinderGraph, Of
<1>3. \A e \in plan : e.kind = "volume" => Shape(f[e], e, {}, {}, {e.key}, {e.key})
  BY GatedFields
<1>4. \A e \in plan : e.kind = "snapshot" => Shape(f[e], e, v(e), v(e), v(e), v(e))
  BY GatedFields
<1> HIDE DEF f
<1>5. OneEach(cinderGraph, kinds, f)
  BY <1>2, <1>3, <1>4 DEF OneEach, Shape
<1>6. /\ IsFiniteSet(cinderGraph) /\ UniqueIn(cinderGraph)
      /\ \A k \in kinds : Keys(k) \subseteq {m.key : m \in cinderGraph}
  <2> HIDE DEF kinds
  <2> QED BY <1>1, <1>5, NodesOfEntries
<1>7. \A k \in Keys("volume") : k[1] = "vol"
  BY <1>1, KeysAre DEF CinderEntry, Is
<1>8. ASSUME NEW e \in plan PROVE NodeRight(f[e], cinderGraph)
  <2>1. CASE e.kind = "volume"
    <3> DEFINE own == {e.key}
    <3>1. Shape(f[e], e, {}, {}, own, own) /\ \E x : own = {x}
      BY <1>3, <2>1
    <3> HIDE DEF own
    <3>2. {} \subseteq {m.key : m \in cinderGraph} /\ \A p \in {} : Level(p[1]) < Level(e.key[1])
      OBVIOUS
    <3>3. own # {} => own = own /\ \E x : own = {x}
      BY <3>1
    <3>4. Shape(f[e], e, {}, {}, own, own)
      BY <3>1
    <3> QED BY <3>2, <3>3, <3>4, ShapeIsRight
  <2>2. CASE e.kind = "snapshot"
    <3>1. /\ e.key[1] = "snap" /\ v(e) \subseteq Keys("volume") /\ \E x : v(e) = {x}
      BY <1>1, <2>2 DEF CinderEntry, Is, Just
    <3>2. \A p \in v(e) : Level(p[1]) < Level(e.key[1])
      BY <1>7, <3>1 DEF Level
    <3>3. v(e) \subseteq {m.key : m \in cinderGraph}
      BY <1>6, <3>1
    <3>4. Shape(f[e], e, v(e), v(e), v(e), v(e))
      BY <1>4, <2>2
    <3> HIDE DEF v
    <3> QED BY <3>1, <3>2, <3>3, <3>4, ShapeIsRight
  <2> QED BY <1>1, <2>1, <2>2 DEF CinderEntry, Is
<1> QED BY <1>2, <1>6, <1>8 DEF GraphRight

LEMMA GlanceGraphs == ASSUME PlanInv, sc.service = "glance" PROVE GraphRight(glanceGraph)
<1>1. /\ IsFiniteSet(plan) /\ UniqueIn(plan) /\ \A e \in plan : GlanceEntry(e)
  BY DEF PlanInv, ServiceInv, Common, GlanceInv
<1> DEFINE f == [e \in plan |->
                   Mutable(Node(e, {}, {}), e.flags \cap {"metadata", "shared", "community", "public", "deactivate"} # {})]
           kinds == {"image"}
<1>2. glanceGraph = {f[e] : e \in {x \in plan : x.kind \in kinds}}
  BY DEF glanceGraph, Of
<1>3. \A e \in plan : Shape(f[e], e, {}, {}, {}, {})
  BY NodeFields
<1> HIDE DEF f
<1>5. OneEach(glanceGraph, kinds, f)
  BY <1>2, <1>3 DEF OneEach, Shape
<1>6. IsFiniteSet(glanceGraph) /\ UniqueIn(glanceGraph)
  <2> HIDE DEF kinds
  <2> QED BY <1>1, <1>5, NodesOfEntries
<1>8. ASSUME NEW e \in plan PROVE NodeRight(f[e], glanceGraph)
  BY <1>3, ShapeIsRight
<1> QED BY <1>2, <1>6, <1>8 DEF GraphRight

LEMMA BarbicanGraphs == ASSUME PlanInv, sc.service = "barbican" PROVE GraphRight(barbicanGraph)
<1>1. /\ IsFiniteSet(plan) /\ UniqueIn(plan) /\ \A e \in plan : BarbicanEntry(e)
  BY DEF PlanInv, ServiceInv, Common, BarbicanInv
<1> DEFINE s(e) == Refs(e, "secret")
           f == [e \in plan |-> IF e.kind = "secret" THEN Mutable(Node(e, {}, {}), "retrieve" \in e.flags)
                                ELSE Node(e, s(e), s(e))]
           kinds == {"secret", "container"}
<1>2. barbicanGraph = {f[e] : e \in {x \in plan : x.kind \in kinds}}
  BY DEF barbicanGraph, Of
<1>3. \A e \in plan : e.kind = "secret" => Shape(f[e], e, {}, {}, {}, {})
  BY NodeFields
<1>4. \A e \in plan : e.kind = "container" => Shape(f[e], e, s(e), s(e), {}, {})
  BY NodeFields
<1> HIDE DEF f
<1>5. OneEach(barbicanGraph, kinds, f)
  BY <1>2, <1>3, <1>4 DEF OneEach, Shape
<1>6. /\ IsFiniteSet(barbicanGraph) /\ UniqueIn(barbicanGraph)
      /\ \A k \in kinds : Keys(k) \subseteq {m.key : m \in barbicanGraph}
  <2> HIDE DEF kinds
  <2> QED BY <1>1, <1>5, NodesOfEntries
<1>7. \A k \in Keys("secret") : k[1] = "sec"
  BY <1>1, KeysAre DEF BarbicanEntry, Is
<1>8. ASSUME NEW e \in plan, e.kind \in kinds PROVE NodeRight(f[e], barbicanGraph)
  <2>1. CASE e.kind = "secret"
    BY <1>3, <2>1, ShapeIsRight
  <2>2. CASE e.kind = "container"
    <3>1. e.key[1] = "ctr" /\ s(e) \subseteq Keys("secret")
      BY <1>1, <2>2 DEF BarbicanEntry, Is
    <3>2. \A p \in s(e) : Level(p[1]) < Level(e.key[1])
      BY <1>7, <3>1 DEF Level
    <3>3. s(e) \subseteq {m.key : m \in barbicanGraph}
      BY <1>6, <3>1
    <3>4. Shape(f[e], e, s(e), s(e), {}, {})
      BY <1>4, <2>2
    <3> HIDE DEF s
    <3> QED BY <3>1, <3>2, <3>3, <3>4, ShapeIsRight
  <2> QED BY <1>8, <2>1, <2>2
<1> QED BY <1>2, <1>6, <1>8 DEF GraphRight

LEMMA KeystoneGraphs == ASSUME PlanInv, sc.service = "keystone" PROVE GraphRight(keystoneGraph)
<1>1. /\ IsFiniteSet(plan) /\ UniqueIn(plan) /\ \A e \in plan : KeystoneEntry(e)
  BY DEF PlanInv, ServiceInv, Common, KeystoneInv
<1> DEFINE to(e) == Refs(e, "user") \cup Refs(e, "project")
           token(e) == \E t \in Of("token") : Refs(t, "user") = Refs(e, "user")
                                             /\ Refs(t, "project") = Refs(e, "project")
           f == [e \in plan |-> IF e.kind = "assignment" THEN Mutable(Node(e, to(e), to(e)), token(e))
                                ELSE Node(e, {}, {})]
           kinds == {"project", "user", "assignment"}
<1>2. keystoneGraph = {f[e] : e \in {x \in plan : x.kind \in kinds}}
  <2>1. keystoneGraph = {Node(e, {}, {}) : e \in Of("project") \cup Of("user")}
                          \cup {Mutable(Node(e, to(e), to(e)), token(e)) : e \in Of("assignment")}
    BY DEF keystoneGraph
  <2>2. \A e \in plan : e.kind = "assignment" => f[e] = Mutable(Node(e, to(e), to(e)), token(e))
    OBVIOUS
  <2>3. \A e \in plan : e.kind # "assignment" => f[e] = Node(e, {}, {})
    OBVIOUS
  <2> HIDE DEF f, to, token
  <2>4. Of("assignment") = {x \in plan : x.kind = "assignment"}
    BY DEF Of
  <2>5. Of("project") \cup Of("user") = {x \in plan : x.kind \in {"project", "user"}}
    BY DEF Of
  <2> QED BY <2>1, <2>2, <2>3, <2>4, <2>5
<1>3. \A e \in plan : e.kind # "assignment" => Shape(f[e], e, {}, {}, {}, {})
  BY NodeFields
<1>4. \A e \in plan : e.kind = "assignment" => Shape(f[e], e, to(e), to(e), {}, {})
  <2> HIDE DEF to, token
  <2> QED BY NodeFields
<1> HIDE DEF f, to
<1>5. OneEach(keystoneGraph, kinds, f)
  BY <1>2, <1>3, <1>4 DEF OneEach, Shape
<1>6. /\ IsFiniteSet(keystoneGraph) /\ UniqueIn(keystoneGraph)
      /\ \A k \in kinds : Keys(k) \subseteq {m.key : m \in keystoneGraph}
  <2> HIDE DEF kinds
  <2> QED BY <1>1, <1>5, NodesOfEntries
<1>7. \A k \in Keys("user") \cup Keys("project") : k[1] \in {"user", "fan", "proj"}
  <2>1. \A e \in plan : e.kind = "user" => KeystoneUser(e)
    BY <1>1, KeystoneKinds
  <2>2. \A e \in plan : e.kind = "project" => KeystoneProject(e)
    BY <1>1, KeystoneKinds
  <2> QED BY <2>1, <2>2, KeysAre DEF KeystoneUser, KeystoneProject, Is
<1>8. ASSUME NEW e \in plan PROVE NodeRight(f[e], keystoneGraph)
  <2>1. CASE e.kind # "assignment"
    BY <1>3, <2>1, ShapeIsRight
  <2>2. CASE e.kind = "assignment"
    <3>0. KeystoneGrant(e)
      BY <1>1, <2>2, KeystoneKinds
    <3>1. e.key[1] = "assign" /\ to(e) \subseteq Keys("user") \cup Keys("project")
      BY <3>0 DEF KeystoneGrant, Is, to
    <3>2. \A p \in to(e) : Level(p[1]) < Level(e.key[1])
      BY <1>7, <3>1 DEF Level
    <3>3. to(e) \subseteq {m.key : m \in keystoneGraph}
      BY <1>6, <3>1
    <3>4. Shape(f[e], e, to(e), to(e), {}, {})
      BY <1>4, <2>2
    <3> QED BY <3>1, <3>2, <3>3, <3>4, ShapeIsRight
  <2> QED BY <2>1, <2>2
<1> QED BY <1>2, <1>6, <1>8 DEF GraphRight

LEMMA NeutronGraphs == ASSUME PlanInv, sc.service = "neutron" PROVE GraphRight(neutronGraph)
<1>1. /\ IsFiniteSet(plan) /\ UniqueIn(plan) /\ \A e \in plan : NeutronEntry(e)
  BY DEF PlanInv, ServiceInv, Common, NeutronInv
<1> DEFINE f == [e \in plan |-> Node(e, neutronParents(e), neutronReads(e))]
           D == {x \in plan : x.kind # "fip" \/ sc.external}
<1>2. neutronGraph = {f[e] : e \in D}
  BY DEF neutronGraph
<1>3. \A e \in plan : Shape(f[e], e, neutronParents(e), neutronReads(e), {}, {})
  BY NodeFields
<1> HIDE DEF f
<1>4. IsFiniteSet(neutronGraph) /\ UniqueIn(neutronGraph)
  <2>1. IsFiniteSet(D)
    BY <1>1, FS_Subset
  <2>2. \A d, e \in D : f[d].key = f[e].key => d = e
    BY <1>1, <1>3 DEF Shape, UniqueIn
  <2>3. \A n \in neutronGraph : \E e \in D : n = f[e]
    BY <1>2
  <2> HIDE DEF D
  <2> QED BY <2>1, <2>2, <2>3, Numbered
<1>5. \A kind : kind # "fip" => Keys(kind) \subseteq {m.key : m \in neutronGraph}
  BY <1>2, <1>3 DEF Keys, Of, Shape
<1>6. ASSUME NEW e \in plan, NEW role
      PROVE  Refs(e, role) \subseteq Keys(Target(role))
  <2>1. \A r \in e.refs : r[2] \in Keys(Target(r[1]))
    BY <1>1 DEF NeutronEntry
  <2> QED BY <2>1, RefsAre
<1>7. /\ \A e \in plan : Refs(e, "network") \subseteq Keys("network")
      /\ \A e \in plan : Refs(e, "subnet") \subseteq Keys("subnet")
      /\ \A e \in plan : Refs(e, "pool") \subseteq Keys("pool")
      /\ \A e \in plan : Refs(e, "router") \subseteq Keys("router")
      /\ \A e \in plan : Refs(e, "port") \subseteq Keys("port")
      /\ \A e \in plan : Refs(e, "group") \subseteq Keys("group")
      /\ \A e \in plan : Refs(e, "remote") \subseteq Keys("group")
  BY <1>6 DEF Target
<1>8. /\ \A k \in Keys("network") : k[1] \in {"net", "link-net"}
      /\ \A k \in Keys("subnet") : k[1] \in {"subnet", "link-subnet"}
      /\ \A k \in Keys("pool") : k[1] = "pool"
      /\ \A k \in Keys("router") : k[1] = "router"
      /\ \A k \in Keys("port") : k[1] \in {"port", "link-port"}
      /\ \A k \in Keys("group") : k[1] = "sg"
  BY <1>1, KeysAre DEF NeutronEntry, NeutronKind, Is
<1>9. /\ \A k \in Keys("network") : Level(k[1]) = 0
      /\ \A k \in Keys("subnet") : Level(k[1]) = 5
      /\ \A k \in Keys("pool") : Level(k[1]) = 4
      /\ \A k \in Keys("router") : Level(k[1]) = 0
      /\ \A k \in Keys("port") : Level(k[1]) = 6
      /\ \A k \in Keys("group") : Level(k[1]) = 0
  BY <1>8 DEF Level
<1> DEFINE Known == {m.key : m \in neutronGraph}
           Right(e) == /\ neutronParents(e) \subseteq Known /\ neutronReads(e) \subseteq neutronParents(e)
                       /\ \A p \in neutronParents(e) : Level(p[1]) < Level(e.key[1])
<1>10. ASSUME NEW e \in plan PROVE Right(e)
  <2>0. /\ Keys("network") \subseteq Known /\ Keys("subnet") \subseteq Known
        /\ Keys("pool") \subseteq Known /\ Keys("router") \subseteq Known
        /\ Keys("port") \subseteq Known /\ Keys("group") \subseteq Known
    BY <1>5
  <2> HIDE DEF Known
  <2>1. CASE e.kind \in {"scope", "network", "router", "group"}
    BY <2>1 DEF neutronParents, neutronReads
  <2>2. CASE e.kind = "pool"
    <3>1. e.refs = {}
      BY <1>1, <2>2 DEF NeutronEntry, NeutronKind, Is
    <3>2. neutronParents(e) = {} /\ neutronReads(e) = {}
      BY <2>2, <3>1 DEF neutronParents, neutronReads, Refs
    <3> QED BY <3>2
  <2>3. CASE e.kind = "subnet"
    <3>1. e.key[1] \in {"subnet", "link-subnet"} /\ \A r \in e.refs : r[1] \in {"network", "pool"}
      BY <1>1, <2>3 DEF NeutronEntry, NeutronKind, Is
    <3>2. neutronParents(e) = Refs(e, "network") \cup Refs(e, "pool")
      BY <2>3 DEF neutronParents
    <3>3. neutronReads(e) = {r[2] : r \in e.refs}
      BY <2>3 DEF neutronReads
    <3>4. neutronReads(e) \subseteq neutronParents(e)
      BY <3>1, <3>2, <3>3, RefsAre
    <3>5. Level(e.key[1]) = 5
      BY <3>1 DEF Level
    <3> QED BY <1>7, <1>9, <2>0, <3>2, <3>4, <3>5
  <2>4. CASE e.kind = "rule"
    <3>1. e.key[1] = "rule" /\ \A r \in e.refs : r[1] \in {"group", "remote"}
      BY <1>1, <2>4 DEF NeutronEntry, NeutronKind, Is
    <3>2. neutronParents(e) = Refs(e, "group") \cup Refs(e, "remote")
      BY <2>4 DEF neutronParents
    <3>3. neutronReads(e) = {r[2] : r \in e.refs}
      BY <2>4 DEF neutronReads
    <3>4. neutronReads(e) \subseteq neutronParents(e)
      BY <3>1, <3>2, <3>3, RefsAre
    <3>5. Level(e.key[1]) = 1
      BY <3>1 DEF Level
    <3> QED BY <1>7, <1>9, <2>0, <3>2, <3>4, <3>5
  <2>5. CASE e.kind = "port"
    <3>1. /\ e.key[1] \in {"port", "link-port"}
          /\ \A r \in e.refs : r[1] \in {"network", "subnet", "group"}
      BY <1>1, <2>5 DEF NeutronEntry, NeutronKind, Is
    <3>2. neutronParents(e) = Refs(e, "network") \cup Refs(e, "subnet") \cup Refs(e, "group")
      BY <2>5 DEF neutronParents
    <3>3. neutronReads(e) = {r[2] : r \in e.refs}
      BY <2>5 DEF neutronReads
    <3>4. neutronReads(e) \subseteq neutronParents(e)
      BY <3>1, <3>2, <3>3, RefsAre
    <3>5. Level(e.key[1]) = 6
      BY <3>1 DEF Level
    <3> QED BY <1>7, <1>9, <2>0, <3>2, <3>4, <3>5
  <2>6. CASE e.kind = "rif"
    <3>1. /\ e.key[1] \in {"rif", "link-rif-a", "link-rif-b"}
          /\ (Refs(e, "subnet") = {}) # (Refs(e, "port") = {})
      BY <1>1, <2>6 DEF NeutronEntry, NeutronKind, Is
    <3>2. neutronParents(e) =
            Refs(e, "router") \cup IF Refs(e, "subnet") # {} THEN Refs(e, "subnet") ELSE Refs(e, "port")
      BY <2>6 DEF neutronParents
    <3>3. neutronReads(e) = Refs(e, "router") \cup Refs(e, "subnet") \cup Refs(e, "port")
      BY <2>6 DEF neutronReads
    <3>4. neutronParents(e) = neutronReads(e)
      BY <3>1, <3>2, <3>3
    <3>5. Level(e.key[1]) = 7
      BY <3>1 DEF Level
    <3> QED BY <1>7, <1>9, <2>0, <3>3, <3>4, <3>5
  <2>7. CASE e.kind = "fip"
    <3>1. e.key[1] = "fip" /\ \A r \in e.refs : r[1] = "port"
      BY <1>1, <2>7 DEF NeutronEntry, NeutronKind, Is
    <3>2. neutronParents(e) = Refs(e, "port")
      BY <2>7 DEF neutronParents
    <3>3. neutronReads(e) = {r[2] : r \in e.refs}
      BY <2>7 DEF neutronReads
    <3>4. neutronReads(e) \subseteq neutronParents(e)
      BY <3>1, <3>2, <3>3, RefsAre
    <3>5. Level(e.key[1]) = 7
      BY <3>1 DEF Level
    <3> QED BY <1>7, <1>9, <2>0, <3>2, <3>4, <3>5
  <2>8. e.kind \in {"scope", "network", "router", "group", "pool", "subnet", "rule", "port", "rif", "fip"}
    BY <1>1 DEF NeutronEntry, NeutronKind, Is
  <2> HIDE DEF Right
  <2> QED BY <2>1, <2>2, <2>3, <2>4, <2>5, <2>6, <2>7, <2>8
<1>11. ASSUME NEW e \in plan PROVE NodeRight(f[e], neutronGraph)
  <2>1. Right(e) /\ Shape(f[e], e, neutronParents(e), neutronReads(e), {}, {})
    BY <1>3, <1>10
  <2> QED BY <2>1, ShapeIsRight
<1> QED BY <1>2, <1>4, <1>11 DEF GraphRight

-----------------------------------------------------------------------------
\* What a node of Nova is made of.
NovaNode(n) ==
  \/ /\ n.kind \in {"network", "servergroup"} /\ n.key[1] \in {"net", "grp"}
     /\ n.parents = {} /\ n.reads = {} /\ n.acts = {}
  \/ /\ n.kind = "server" /\ n.key[1] = "srv" /\ n.acts = {n.key}
     /\ n.parents \subseteq Keys("network") \cup Keys("servergroup")
  \/ /\ n.kind \in {"volume", "port"} /\ n.key[1] \in {"vol", "port"}
     /\ \E s \in Keys("server") : n.acts = {s}
     /\ n.parents \subseteq n.acts \cup Keys("network")
NovaNodeRight(n) ==
  /\ IsNode(n) /\ NovaNode(n)
  /\ n.gate = n.acts /\ n.reads \subseteq n.parents /\ ~n.pinned /\ n.roll = {}

LEMMA NovaKeys ==
  ASSUME \A e \in plan : NovaEntry(e)
  PROVE  /\ \A k \in Keys("network") : k[1] = "net"
         /\ \A k \in Keys("servergroup") : k[1] = "grp"
         /\ \A k \in Keys("server") : k[1] = "srv"
BY KeysAre DEF NovaEntry, NovaServerEntry, NovaVolumeEntry, NovaPortEntry, Is

LEMMA NovaGraphIs ==
  ASSUME PlanInv, sc.service = "nova"
  PROVE  /\ IsFiniteSet(novaGraph) /\ UniqueIn(novaGraph)
         /\ \A k \in {"network", "servergroup", "server"} : Keys(k) \subseteq {m.key : m \in novaGraph}
         /\ \A n \in novaGraph : NovaNodeRight(n)
<1>1. /\ IsFiniteSet(plan) /\ UniqueIn(plan) /\ \A e \in plan : NovaEntry(e)
  BY DEF PlanInv, ServiceInv, Common, NovaInv
<1> DEFINE s(e) == Refs(e, "server")
           nets(e) == Refs(e, "network")
           grps(e) == Refs(e, "group")
           srvNode(e) == Mutable(Gated(Node(e, nets(e) \cup grps(e), nets(e) \cup grps(e)),
                                       {e.key}, {e.key}), hasLifecycle(e))
           volNode(e) == Gated(Node(e, s(e), s(e)), s(e), s(e))
           portNode(e) == Gated(Node(e, s(e) \cup nets(e), s(e) \cup nets(e)), s(e), s(e))
           f == [e \in plan |-> CASE e.kind = "server" -> srvNode(e)
                                  [] e.kind = "volume" -> volNode(e)
                                  [] e.kind = "port" -> portNode(e)
                                  [] OTHER -> Node(e, {}, {})]
           kinds == {"servergroup", "network", "server", "volume", "port"}
<1>2. novaGraph = {f[e] : e \in {x \in plan : x.kind \in kinds}}
  <2>1. novaGraph = {Node(e, {}, {}) : e \in Of("servergroup") \cup Of("network")}
          \cup {srvNode(e) : e \in Of("server")} \cup {volNode(e) : e \in Of("volume")}
          \cup {portNode(e) : e \in Of("port")}
    BY DEF novaGraph, novaPort
  <2> HIDE DEF srvNode, volNode, portNode
  <2>2. \A e \in plan :
          /\ e.kind = "server" => f[e] = srvNode(e)
          /\ e.kind = "volume" => f[e] = volNode(e)
          /\ e.kind = "port" => f[e] = portNode(e)
          /\ e.kind \in {"servergroup", "network"} => f[e] = Node(e, {}, {})
    OBVIOUS
  <2> HIDE DEF f
  <2>3. \A kind : \A e : e \in Of(kind) <=> e \in plan /\ e.kind = kind
    BY DEF Of
  <2>4. ASSUME NEW n \in novaGraph PROVE n \in {f[e] : e \in {x \in plan : x.kind \in kinds}}
    <3>1. \/ \E e \in Of("servergroup") \cup Of("network") : n = Node(e, {}, {})
          \/ \E e \in Of("server") : n = srvNode(e)
          \/ \E e \in Of("volume") : n = volNode(e)
          \/ \E e \in Of("port") : n = portNode(e)
      BY <2>1
    <3>2. \E e \in plan : e.kind \in kinds /\ n = f[e]
      BY <2>2, <2>3, <3>1
    <3> QED BY <3>2
  <2>5. ASSUME NEW e \in plan, e.kind \in kinds PROVE f[e] \in novaGraph
    <3>1. CASE e.kind \in {"servergroup", "network"}
      BY <2>1, <2>2, <2>3, <3>1
    <3>2. CASE e.kind = "server"
      <4>1. e \in Of("server") /\ f[e] = srvNode(e)
        BY <2>2, <2>3, <3>2
      <4> QED BY <2>1, <4>1
    <3>3. CASE e.kind = "volume"
      <4>1. e \in Of("volume") /\ f[e] = volNode(e)
        BY <2>2, <2>3, <3>3
      <4> QED BY <2>1, <4>1
    <3>4. CASE e.kind = "port"
      <4>1. e \in Of("port") /\ f[e] = portNode(e)
        BY <2>2, <2>3, <3>4
      <4> QED BY <2>1, <4>1
    <3> QED BY <2>5, <3>1, <3>2, <3>3, <3>4
  <2> QED BY <2>4, <2>5
<1>3. \A e \in plan :
         e.kind = "server" => Shape(f[e], e, nets(e) \cup grps(e), nets(e) \cup grps(e), {e.key}, {e.key})
  BY GatedFields
<1>4. \A e \in plan : e.kind = "volume" => Shape(f[e], e, s(e), s(e), s(e), s(e))
  BY GatedFields
<1>5. \A e \in plan : e.kind = "port" => Shape(f[e], e, s(e) \cup nets(e), s(e) \cup nets(e), s(e), s(e))
  BY GatedFields
<1>6. \A e \in plan : e.kind \in {"servergroup", "network"} => Shape(f[e], e, {}, {}, {}, {})
  BY NodeFields
<1> HIDE DEF f
<1>7. OneEach(novaGraph, kinds, f)
  BY <1>2, <1>3, <1>4, <1>5, <1>6 DEF OneEach, Shape
<1>8. /\ IsFiniteSet(novaGraph) /\ UniqueIn(novaGraph)
      /\ \A k \in kinds : Keys(k) \subseteq {m.key : m \in novaGraph}
  <2> HIDE DEF kinds
  <2> QED BY <1>1, <1>7, NodesOfEntries
<1>9. ASSUME NEW e \in plan, e.kind \in kinds PROVE NovaNodeRight(f[e])
  <2>1. CASE e.kind = "server"
    <3>1. NovaServerEntry(e)
      BY <1>1, <2>1 DEF NovaEntry, NovaVolumeEntry, NovaPortEntry, Is
    <3>2. /\ e.key[1] = "srv" /\ nets(e) \subseteq Keys("network")
          /\ grps(e) \subseteq Keys("servergroup")
      BY <3>1 DEF NovaServerEntry, Is
    <3> HIDE DEF nets, grps, s
    <3> QED BY <1>3, <2>1, <3>2 DEF Shape, NovaNodeRight, NovaNode
  <2>2. CASE e.kind = "volume"
    <3>1. NovaVolumeEntry(e)
      BY <1>1, <2>2 DEF NovaEntry, NovaServerEntry, NovaPortEntry, Is
    <3>2. e.key[1] = "vol" /\ \E k \in Keys("server") : s(e) = {k}
      BY <3>1 DEF NovaVolumeEntry, Is, Just
    <3> HIDE DEF nets, grps, s
    <3> QED BY <1>4, <2>2, <3>2 DEF Shape, NovaNodeRight, NovaNode
  <2>3. CASE e.kind = "port"
    <3>1. NovaPortEntry(e)
      BY <1>1, <2>3 DEF NovaEntry, NovaServerEntry, NovaVolumeEntry, Is
    <3>2. /\ e.key[1] = "port" /\ nets(e) \subseteq Keys("network")
          /\ \E k \in Keys("server") : s(e) = {k}
      BY <3>1 DEF NovaPortEntry, Is, Just
    <3> HIDE DEF nets, grps, s
    <3> QED BY <1>5, <2>3, <3>2 DEF Shape, NovaNodeRight, NovaNode
  <2>4. CASE e.kind \in {"servergroup", "network"}
    <3>1. e.key[1] \in {"net", "grp"}
      BY <1>1, <2>4 DEF NovaEntry, NovaServerEntry, NovaVolumeEntry, NovaPortEntry, Is
    <3> QED BY <1>6, <2>4, <3>1 DEF Shape, NovaNodeRight, NovaNode
  <2> QED BY <1>9, <2>1, <2>2, <2>3, <2>4
<1> QED BY <1>2, <1>8, <1>9

\* The marks of a persona leave the edges and the gates alone.
Same(m, n) ==
  /\ m.key = n.key /\ m.kind = n.kind /\ m.parents = n.parents /\ m.reads = n.reads
  /\ m.acts = n.acts /\ m.gate = n.gate

LEMMA MarksKeep ==
  ASSUME NEW n, IsNode(n), NEW b, NEW r
  PROVE  /\ Same([n EXCEPT !.pinned = TRUE, !.mutable = b], n)
         /\ [n EXCEPT !.pinned = TRUE, !.mutable = b].roll = n.roll
         /\ Same([n EXCEPT !.mutable = b, !.pinned = TRUE], n)
         /\ [n EXCEPT !.mutable = b, !.pinned = TRUE].roll = n.roll
         /\ Same([n EXCEPT !.mutable = b, !.roll = r], n)
         /\ [n EXCEPT !.mutable = b, !.roll = r].roll = r
         /\ [n EXCEPT !.mutable = b, !.roll = r].pinned = n.pinned
<1>1. /\ Same([n EXCEPT !.pinned = TRUE, !.mutable = b], n)
      /\ [n EXCEPT !.pinned = TRUE, !.mutable = b].roll = n.roll
  BY DEF IsNode, Same
<1>2. /\ Same([n EXCEPT !.mutable = b, !.pinned = TRUE], n)
      /\ [n EXCEPT !.mutable = b, !.pinned = TRUE].roll = n.roll
  BY DEF IsNode, Same
<1>3. Same([n EXCEPT !.mutable = b, !.roll = r], n)
  BY DEF IsNode, Same
<1>4. /\ [n EXCEPT !.mutable = b, !.roll = r].roll = r
      /\ [n EXCEPT !.mutable = b, !.roll = r].pinned = n.pinned
  BY DEF IsNode
<1> QED BY <1>1, <1>2, <1>3, <1>4

LEMMA MarkedGraph ==
  ASSUME NEW G, IsFiniteSet(G), UniqueIn(G), NEW N
  PROVE  \A g : N = {g[n] : n \in G} /\ (\A n \in G : g[n].key = n.key) =>
           IsFiniteSet(N) /\ UniqueIn(N) /\ {m.key : m \in N} = {m.key : m \in G}
<1> SUFFICES ASSUME NEW g, N = {g[n] : n \in G}, \A n \in G : g[n].key = n.key
             PROVE  IsFiniteSet(N) /\ UniqueIn(N) /\ {m.key : m \in N} = {m.key : m \in G}
  OBVIOUS
<1>1. \A m, n \in G : g[m].key = g[n].key => m = n
  BY DEF UniqueIn
<1>2. \A e \in N : \E n \in G : e = g[n]
  OBVIOUS
<1>3. IsFiniteSet(N) /\ UniqueIn(N)
  BY <1>1, <1>2, Numbered
<1> QED BY <1>3

LEMMA NovaParents ==
  ASSUME PlanInv, sc.service = "nova", NEW n \in novaGraph
  PROVE  /\ n.parents \subseteq {m.key : m \in novaGraph} /\ n.reads \subseteq n.parents
         /\ \A p \in n.parents : Level(p[1]) < Level(n.key[1])
         /\ n.acts # {} => n.gate = n.acts /\ \E x : n.acts = {x}
<1>0. \A e \in plan : NovaEntry(e)
  BY DEF PlanInv, ServiceInv, NovaInv
<1>1. /\ NovaNodeRight(n)
      /\ Keys("network") \subseteq {m.key : m \in novaGraph}
      /\ Keys("servergroup") \subseteq {m.key : m \in novaGraph}
      /\ Keys("server") \subseteq {m.key : m \in novaGraph}
  BY NovaGraphIs
<1>2. /\ \A k \in Keys("network") \cup Keys("servergroup") : Level(k[1]) = 0
      /\ \A k \in Keys("server") : Level(k[1]) = 1
  BY <1>0, NovaKeys DEF Level
<1>3. NovaNode(n) /\ n.gate = n.acts /\ n.reads \subseteq n.parents
  BY <1>1 DEF NovaNodeRight
<1>4. CASE n.kind \in {"network", "servergroup"}
  BY <1>3, <1>4 DEF NovaNode
<1>5. CASE n.kind = "server"
  <2>1. /\ n.key[1] = "srv" /\ n.acts = {n.key}
        /\ n.parents \subseteq Keys("network") \cup Keys("servergroup")
    BY <1>3, <1>5 DEF NovaNode
  <2>2. Level(n.key[1]) = 1
    BY <2>1 DEF Level
  <2> QED BY <1>1, <1>2, <1>3, <2>1, <2>2
<1>6. CASE n.kind \in {"volume", "port"}
  <2>1. /\ n.key[1] \in {"vol", "port"} /\ n.parents \subseteq n.acts \cup Keys("network")
        /\ \E s \in Keys("server") : n.acts = {s}
    BY <1>3, <1>6 DEF NovaNode
  <2>2. Level(n.key[1]) \in {3, 6}
    BY <2>1 DEF Level
  <2>3. \A p \in n.parents : p \in Keys("server") \cup Keys("network")
    BY <2>1
  <2> QED BY <1>1, <1>2, <1>3, <2>1, <2>2, <2>3
<1> QED BY <1>3, <1>4, <1>5, <1>6 DEF NovaNode

LEMMA NovaGraphs ==
  ASSUME PlanInv, sc.service = "nova"
  PROVE  GraphRight(novaGraph) /\ GraphRight(novaLongLived)
<1>1. /\ IsFiniteSet(novaGraph) /\ UniqueIn(novaGraph)
      /\ \A n \in novaGraph : IsNode(n) /\ ~n.pinned /\ n.roll = {}
  BY NovaGraphIs DEF NovaNodeRight
<1>2. GraphRight(novaGraph)
  BY <1>1, NovaParents DEF GraphRight, NodeRight
<1> DEFINE g == [n \in novaGraph |-> [n EXCEPT !.pinned = TRUE, !.mutable = repeats(n)]]
<1>3. novaLongLived = {g[n] : n \in novaGraph}
  BY DEF novaLongLived
<1>4. \A n \in novaGraph : Same(g[n], n) /\ g[n].roll = {}
  <2> SUFFICES ASSUME NEW n \in novaGraph PROVE Same(g[n], n) /\ g[n].roll = {}
    OBVIOUS
  <2> DEFINE b == repeats(n)
  <2>1. g[n] = [n EXCEPT !.pinned = TRUE, !.mutable = b]
    OBVIOUS
  <2> HIDE DEF b, g
  <2>2. /\ Same([n EXCEPT !.pinned = TRUE, !.mutable = b], n)
        /\ [n EXCEPT !.pinned = TRUE, !.mutable = b].roll = n.roll
    BY <1>1, MarksKeep
  <2> QED BY <1>1, <2>1, <2>2
<1> HIDE DEF g
<1>5. /\ IsFiniteSet(novaLongLived) /\ UniqueIn(novaLongLived)
      /\ {m.key : m \in novaLongLived} = {m.key : m \in novaGraph}
  <2>1. \A n \in novaGraph : g[n].key = n.key
    BY <1>4 DEF Same
  <2> QED BY <1>1, <1>3, <2>1, MarkedGraph
<1>6. ASSUME NEW n \in novaGraph PROVE NodeRight(g[n], novaLongLived)
  <2>1. /\ n.parents \subseteq {m.key : m \in novaLongLived} /\ n.reads \subseteq n.parents
        /\ \A p \in n.parents : Level(p[1]) < Level(n.key[1])
        /\ n.acts # {} => n.gate = n.acts /\ \E x : n.acts = {x}
    BY <1>5, NovaParents
  <2>2. Same(g[n], n) /\ g[n].roll = {}
    BY <1>4
  <2> QED BY <2>1, <2>2 DEF NodeRight, Same
<1> QED BY <1>2, <1>3, <1>5, <1>6 DEF GraphRight

\* What hangs off a server rolls with it: its group is looked up through the
\* one server its calls act on.
LEMMA RollingGraphs == ASSUME PlanInv, sc.service = "nova" PROVE GraphRight(novaRolling)
<1>0. \A e \in plan : NovaEntry(e)
  BY DEF PlanInv, ServiceInv, NovaInv
<1>1. /\ IsFiniteSet(novaGraph) /\ UniqueIn(novaGraph)
      /\ \A n \in novaGraph : IsNode(n) /\ NovaNode(n) /\ ~n.pinned /\ n.roll = {}
  BY NovaGraphIs DEF NovaNodeRight
<1> DEFINE g == [n \in novaGraph |->
                   IF n.kind \in {"servergroup", "network"}
                   THEN [n EXCEPT !.mutable = FALSE, !.pinned = TRUE]
                   ELSE [n EXCEPT !.mutable = FALSE, !.roll = rollGroup(n)]]
<1>2. novaRolling = {g[n] : n \in novaGraph}
  BY DEF novaRolling
<1>3. ASSUME NEW n \in novaGraph, n.kind \in {"servergroup", "network"}
      PROVE  Same(g[n], n) /\ g[n].roll = {}
  <2>1. g[n] = [n EXCEPT !.mutable = FALSE, !.pinned = TRUE]
    BY <1>3
  <2> HIDE DEF g
  <2>2. /\ Same([n EXCEPT !.mutable = FALSE, !.pinned = TRUE], n)
        /\ [n EXCEPT !.mutable = FALSE, !.pinned = TRUE].roll = n.roll
    BY <1>1, MarksKeep
  <2> QED BY <1>1, <2>1, <2>2
<1>4. ASSUME NEW n \in novaGraph, n.kind \notin {"servergroup", "network"}
      PROVE  Same(g[n], n) /\ g[n].roll = rollGroup(n) /\ ~g[n].pinned
  <2> DEFINE r == rollGroup(n)
  <2>1. g[n] = [n EXCEPT !.mutable = FALSE, !.roll = r]
    BY <1>4
  <2> HIDE DEF g, r
  <2>2. Same([n EXCEPT !.mutable = FALSE, !.roll = r], n)
    BY <1>1, MarksKeep
  <2>0. IsNode(n)
    BY <1>1
  <2>3. [n EXCEPT !.mutable = FALSE, !.roll = r].roll = r
    BY <2>0 DEF IsNode
  <2>4. [n EXCEPT !.mutable = FALSE, !.roll = r].pinned = n.pinned
    BY <2>0 DEF IsNode
  <2> QED BY <1>1, <2>1, <2>2, <2>3, <2>4 DEF r
<1> HIDE DEF g
<1>5. \A n \in novaGraph : Same(g[n], n)
  BY <1>3, <1>4
<1>6. /\ IsFiniteSet(novaRolling) /\ UniqueIn(novaRolling)
      /\ {m.key : m \in novaRolling} = {m.key : m \in novaGraph}
  <2>1. \A n \in novaGraph : g[n].key = n.key
    BY <1>5 DEF Same
  <2> QED BY <1>1, <1>2, <2>1, MarkedGraph
<1>7. ASSUME NEW n \in novaGraph, NEW c \in novaGraph, n.key \in c.parents, g[n].roll # {}
      PROVE  g[c].roll = g[n].roll
  <2>1. n.kind \notin {"servergroup", "network"} /\ g[n].roll = rollGroup(n)
    BY <1>3, <1>4, <1>7
  <2>2. n.key[1] \in {"srv", "vol", "port"}
    BY <1>1, <2>1 DEF NovaNode
  <2>3. /\ \A k \in Keys("network") : k[1] = "net"
        /\ \A k \in Keys("servergroup") : k[1] = "grp"
        /\ \A k \in Keys("server") : k[1] = "srv"
    BY <1>0, NovaKeys
  <2>4. /\ c.kind \in {"volume", "port"} /\ c.parents \subseteq c.acts \cup Keys("network")
        /\ \E s \in Keys("server") : c.acts = {s}
    BY <1>1, <1>7, <2>2, <2>3 DEF NovaNode
  <2>5. c.acts = {n.key} /\ n.key[1] = "srv"
    BY <1>7, <2>2, <2>3, <2>4
  <2>6. n.kind = "server"
    BY <1>1, <2>5 DEF NovaNode
  <2>7. rollGroup(c) = rollGroup(n)
    BY <2>4, <2>5, <2>6 DEF rollGroup
  <2>8. g[c].roll = rollGroup(c)
    BY <1>4, <2>4
  <2> QED BY <2>1, <2>7, <2>8
<1>8. ASSUME NEW n \in novaGraph PROVE NodeRight(g[n], novaRolling)
  <2>1. /\ n.parents \subseteq {m.key : m \in novaRolling} /\ n.reads \subseteq n.parents
        /\ \A p \in n.parents : Level(p[1]) < Level(n.key[1])
        /\ n.acts # {} => n.gate = n.acts /\ \E x : n.acts = {x}
    BY <1>6, NovaParents
  <2>2. g[n].roll # {} => ~g[n].pinned
    BY <1>3, <1>4
  <2>3. g[n].roll # {} => \A c \in novaRolling : g[n].key \in c.parents => c.roll = g[n].roll
    BY <1>2, <1>5, <1>7 DEF Same
  <2> QED BY <1>5, <2>1, <2>2, <2>3 DEF NodeRight, Same
<1> QED BY <1>2, <1>6, <1>8 DEF GraphRight

-----------------------------------------------------------------------------
(***************************************************************************)
(* The nodes of Octavia: a subnet of their own beside the entries, and the *)
(* load balancer below everything that hangs off it.                       *)
(***************************************************************************)
Subnets == {<<"sub", k[2]>> : k \in Keys("network")}
OctaviaNames == Keys("network") \cup Keys("lb") \cup Keys("listener") \cup Keys("pool") \cup Subnets

LEMMA SubnetOfNetwork ==
  ASSUME Common, OctaviaInv, sc.service = "octavia", NEW i, <<"net", i>> \in Keys("network")
  PROVE  subnetOf({<<"net", i>>}) = {<<"sub", i>>} /\ <<"sub", i>> \in Subnets
<1>0. UniqueIn(plan) /\ \A e \in plan : OctaviaEntry(e)
  BY DEF Common, OctaviaInv
<1>1. PICK n \in plan : n.kind = "network" /\ n.key = <<"net", i>>
  BY KeysAre
<1>2. OctaviaNetwork(n)
  BY <1>0, <1>1, OctaviaKinds
<1>3. Refs(n, "subnet") = {<<"sub", i>>}
  BY <1>1, <1>2 DEF OctaviaNetwork
<1>4. follow("network", "subnet", {<<"net", i>>}) = {<<"sub", i>>}
  BY <1>0, <1>1, <1>3, FollowOne
<1>5. <<"net", i>>[2] = i
  OBVIOUS
<1>6. <<"sub", i>> \in Subnets
  BY <1>5 DEF Subnets
<1> QED BY <1>4, <1>6 DEF subnetOf

LEMMA SubnetOfBalancer ==
  ASSUME Common, OctaviaInv, sc.service = "octavia", NEW j, <<"lb", j>> \in Keys("lb")
  PROVE  lbSubnet({<<"lb", j>>}) = {<<"sub", netOf(j)>>} /\ <<"sub", netOf(j)>> \in Subnets
<1> DEFINE i == netOf(j)
<1>1. follow("lb", "network", {<<"lb", j>>}) = {<<"net", i>>} /\ <<"net", i>> \in Keys("network")
  BY NetworkOfBalancer
<1> HIDE DEF i
<1>2. subnetOf({<<"net", i>>}) = {<<"sub", i>>} /\ <<"sub", i>> \in Subnets
  BY <1>1, SubnetOfNetwork
<1>3. lbSubnet({<<"lb", j>>}) = {<<"sub", i>>} /\ <<"sub", i>> \in Subnets
  BY <1>1, <1>2 DEF lbSubnet
<1> QED BY <1>3 DEF i

LEMMA OctaviaLevels ==
  ASSUME \A e \in plan : OctaviaEntry(e)
  PROVE  /\ \A k \in Keys("network") : Level(k[1]) = 0
         /\ \A k \in Subnets : Level(k[1]) = 1
         /\ \A k \in Keys("lb") : Level(k[1]) = 2
         /\ \A k \in Keys("listener") : Level(k[1]) = 3
         /\ \A k \in Keys("pool") : Level(k[1]) = 4
<1>1. /\ \A e \in plan : e.kind = "network" => e.key[1] = "net"
      /\ \A e \in plan : e.kind = "lb" => e.key[1] = "lb"
      /\ \A e \in plan : e.kind = "listener" => e.key[1] = "lsn"
      /\ \A e \in plan : e.kind = "pool" => e.key[1] = "pool"
  BY OctaviaKinds DEF OctaviaNetwork, OctaviaBalancer, OctaviaListenerEntry, OctaviaPool, Is
<1>2. /\ \A k \in Keys("network") : k[1] = "net"
      /\ \A k \in Keys("lb") : k[1] = "lb"
      /\ \A k \in Keys("listener") : k[1] = "lsn"
      /\ \A k \in Keys("pool") : k[1] = "pool"
  BY <1>1, KeysAre
<1>3. \A k \in Subnets : k[1] = "sub"
  BY DEF Subnets
<1> QED BY <1>2, <1>3 DEF Level

\* A node of an entry, and where its edges may lead.
Hangs(n, e) ==
  /\ n.key = e.key /\ n.roll = {} /\ n.reads \subseteq n.parents /\ n.parents \subseteq OctaviaNames
  /\ \A p \in n.parents : Level(p[1]) < Level(e.key[1])
  /\ n.acts # {} => n.gate = n.acts /\ \E x : n.acts = {x}

LEMMA ShapeHangs ==
  ASSUME NEW n, NEW e, NEW P, NEW R, NEW A, Shape(n, e, P, R, A, A),
         R \subseteq P, P \subseteq OctaviaNames, \A p \in P : Level(p[1]) < Level(e.key[1]),
         A = {} \/ \E x : A = {x}
  PROVE  Hangs(n, e)
BY DEF Shape, Hangs

LEMMA ChildShape ==
  ASSUME NEW e, NEW lb, NEW P, NEW R
  PROVE  Shape(octaviaChild(e, lb, P, R), e, P, R \cup lb, lb, lb)
<1> DEFINE b == e.kind \in {"listener", "member"}
<1>1. octaviaChild(e, lb, P, R) = Mutable(Gated(Node(e, P, R \cup lb), lb, lb), b)
  BY DEF octaviaChild
<1> HIDE DEF b
<1> QED BY <1>1, GatedFields

LEMMA BalancerHangs ==
  ASSUME PlanInv, sc.service = "octavia", NEW e \in plan, e.kind = "lb"
  PROVE  Hangs(Gated(Node(e, lbSubnet({e.key}), lbSubnet({e.key})), {e.key}, {e.key}), e)
<1>0. Common /\ OctaviaInv /\ \A x \in plan : OctaviaEntry(x)
  BY DEF PlanInv, ServiceInv, OctaviaInv
<1>1. OctaviaBalancer(e)
  BY <1>0, OctaviaKinds
<1> DEFINE j == e.key[2]
           own == {e.key}
           sub == lbSubnet({e.key})
<1>2. e.key = <<"lb", j>> /\ e.key[1] = "lb" /\ e.key \in Keys("lb")
  BY <1>1, KeysAre DEF OctaviaBalancer, Is
<1>3. sub = {<<"sub", netOf(j)>>} /\ <<"sub", netOf(j)>> \in Subnets
  <2> HIDE DEF j
  <2>1. <<"lb", j>> \in Keys("lb")
    BY <1>2
  <2>2. lbSubnet({<<"lb", j>>}) = {<<"sub", netOf(j)>>} /\ <<"sub", netOf(j)>> \in Subnets
    BY <1>0, <2>1, SubnetOfBalancer
  <2> QED BY <1>2, <2>2
<1>4. sub \subseteq OctaviaNames /\ \A p \in sub : Level(p[1]) < Level(e.key[1])
  <2>1. Level(e.key[1]) = 2
    BY <1>2 DEF Level
  <2>2. \A p \in sub : p \in Subnets
    BY <1>3
  <2> HIDE DEF sub
  <2> QED BY <1>0, <2>1, <2>2, OctaviaLevels DEF OctaviaNames
<1>5. \E x : own = {x}
  OBVIOUS
<1> HIDE DEF sub, own
<1>6. Hangs(Gated(Node(e, sub, sub), own, own), e)
  <2>1. Shape(Gated(Node(e, sub, sub), own, own), e, sub, sub, own, own)
    BY GatedFields
  <2> DEFINE n == Gated(Node(e, sub, sub), own, own)
  <2> HIDE DEF n
  <2>2. Shape(n, e, sub, sub, own, own)
    BY <2>1 DEF n
  <2>3. Hangs(n, e)
    BY <1>4, <1>5, <2>2, ShapeHangs
  <2> QED BY <2>3 DEF n
<1> QED BY <1>6 DEF sub, own

\* What hangs off one load balancer, whose name it looks up.
LEMMA ChildHangs ==
  ASSUME \A x \in plan : OctaviaEntry(x), NEW e, NEW lb, NEW b, lb = {b}, NEW P, NEW R,
         R \cup lb \subseteq P, P \subseteq OctaviaNames,
         \A p \in P : Level(p[1]) < Level(e.key[1])
  PROVE  Hangs(octaviaChild(e, lb, P, R), e)
<1> DEFINE n == octaviaChild(e, lb, P, R)
           S == R \cup lb
<1>1. Shape(n, e, P, S, lb, lb)
  BY ChildShape
<1>2. S \subseteq P /\ \E x : lb = {x}
  OBVIOUS
<1> HIDE DEF n, S
<1>3. Hangs(n, e)
  BY <1>1, <1>2, ShapeHangs
<1> QED BY <1>3 DEF n

LEMMA ListenerHangs ==
  ASSUME PlanInv, sc.service = "octavia", NEW e \in plan, e.kind = "listener"
  PROVE  Hangs(octaviaChild(e, Refs(e, "lb"), Refs(e, "lb"), Refs(e, "lb")), e)
<1>0. \A x \in plan : OctaviaEntry(x)
  BY DEF PlanInv, ServiceInv, OctaviaInv
<1>1. OctaviaListenerEntry(e)
  BY <1>0, OctaviaKinds
<1> DEFINE b == <<"lb", lbOf(e.key[2])>>
           lb == Refs(e, "lb")
<1>2. lb = {b} /\ lb \subseteq Keys("lb") /\ e.key[1] = "lsn"
  BY <1>1 DEF OctaviaListenerEntry, Is
<1> HIDE DEF b, lb
<1>3. Level(e.key[1]) = 3
  BY <1>2 DEF Level
<1>4. lb \subseteq OctaviaNames /\ \A p \in lb : Level(p[1]) < Level(e.key[1])
  BY <1>0, <1>2, <1>3, OctaviaLevels DEF OctaviaNames
<1>5. Hangs(octaviaChild(e, lb, lb, lb), e)
  BY <1>0, <1>2, <1>4, ChildHangs
<1> QED BY <1>5 DEF lb

LEMMA PoolHangs ==
  ASSUME PlanInv, sc.service = "octavia", NEW e \in plan, e.kind = "pool"
  PROVE  Hangs(octaviaChild(e, follow("listener", "lb", Refs(e, "listener")),
                            Refs(e, "listener") \cup follow("listener", "lb", Refs(e, "listener")),
                            Refs(e, "listener")), e)
<1>0. /\ Common /\ OctaviaInv /\ UniqueIn(plan) /\ \A x \in plan : OctaviaEntry(x)
  BY DEF PlanInv, ServiceInv, OctaviaInv, Common
<1>1. OctaviaPool(e)
  BY <1>0, OctaviaKinds
<1> DEFINE j == e.key[2]
           b == <<"lb", lbOf(j)>>
           lsn == Refs(e, "listener")
           lb == follow("listener", "lb", lsn)
           to == lsn \cup lb
<1>2. e.key[1] = "pool" /\ e.key = <<"pool", j>> /\ lsn = {<<"lsn", j>>} /\ lsn \subseteq Keys("listener")
  BY <1>1 DEF OctaviaPool, Is
<1>3. <<"pool", j>> \in Keys("pool")
  BY <1>2, KeysAre
<1>4. lb = {b} /\ b \in Keys("lb")
  <2>1. follow("pool", "listener", {<<"pool", j>>}) = {<<"lsn", j>>}
        /\ lbsOfPool({<<"pool", j>>}) = {b} /\ b \in Keys("lb")
    <3> HIDE DEF j
    <3>1. <<"pool", j>> \in Keys("pool")
      BY <1>3
    <3> QED BY <1>0, <3>1, BalancerOfPool
  <2> HIDE DEF j, b
  <2> QED BY <1>2, <2>1 DEF lbsOfPool
<1>5. Level(e.key[1]) = 4
  BY <1>2 DEF Level
<1> HIDE DEF b, lsn, lb, j
<1>6. to \subseteq OctaviaNames /\ \A p \in to : Level(p[1]) < Level(e.key[1])
  BY <1>0, <1>2, <1>4, <1>5, OctaviaLevels DEF OctaviaNames
<1>7. lsn \cup lb \subseteq to
  OBVIOUS
<1> HIDE DEF to
<1>8. Hangs(octaviaChild(e, lb, to, lsn), e)
  BY <1>0, <1>4, <1>6, <1>7, ChildHangs
<1> QED BY <1>8 DEF to, lb, lsn

LEMMA MemberHangs ==
  ASSUME PlanInv, sc.service = "octavia", NEW e \in plan, e.kind = "member"
  PROVE  Hangs(octaviaMember(e), e)
<1>0. /\ Common /\ OctaviaInv /\ \A x \in plan : OctaviaEntry(x)
  BY DEF PlanInv, ServiceInv, OctaviaInv
<1>1. OctaviaMemberEntry(e)
  BY <1>0, OctaviaKinds
<1> DEFINE j == poolOf(e.key[2] - 1)
           i == lbOf(j)
           pools == Refs(e, "pool")
           lb == lbsOfPool(pools)
           sub == lbSubnet(lb)
           to == pools \cup lb \cup sub
           asks == pools \cup sub
<1>2. e.key[1] = "member" /\ pools = {<<"pool", j>>} /\ pools \subseteq Keys("pool")
  BY <1>1 DEF OctaviaMemberEntry, Is
<1>3. lb = {<<"lb", i>>} /\ <<"lb", i>> \in Keys("lb")
  <2>1. <<"pool", j>> \in Keys("pool")
    BY <1>2
  <2> HIDE DEF j, pools
  <2>2. lbsOfPool({<<"pool", j>>}) = {<<"lb", i>>} /\ <<"lb", i>> \in Keys("lb")
    BY <1>0, <2>1, BalancerOfPool
  <2> QED BY <1>2, <2>2
<1> HIDE DEF j, i, pools, lb
<1>4. \A p \in sub : p \in Subnets
  <2>1. <<"lb", i>> \in Keys("lb")
    BY <1>3
  <2>2. lbSubnet({<<"lb", i>>}) = {<<"sub", netOf(i)>>} /\ <<"sub", netOf(i)>> \in Subnets
    BY <1>0, <2>1, SubnetOfBalancer
  <2> QED BY <1>3, <2>2
<1> HIDE DEF sub
<1>5. Level(e.key[1]) = 5
  BY <1>2 DEF Level
<1>6. to \subseteq OctaviaNames /\ \A p \in to : Level(p[1]) < Level(e.key[1])
  <2>1. \A p \in to : p \in Keys("pool") \/ p \in Keys("lb") \/ p \in Subnets
    BY <1>2, <1>3, <1>4
  <2> HIDE DEF to
  <2> QED BY <1>0, <1>5, <2>1, OctaviaLevels DEF OctaviaNames
<1>7. asks \cup lb \subseteq to
  OBVIOUS
<1>8. octaviaMember(e) = octaviaChild(e, lb, to, asks)
  BY DEF octaviaMember, lb, pools, sub
<1> HIDE DEF to, asks
<1>9. Hangs(octaviaChild(e, lb, to, asks), e)
  BY <1>0, <1>3, <1>6, <1>7, ChildHangs
<1> QED BY <1>8, <1>9

LEMMA MonitorHangs ==
  ASSUME PlanInv, sc.service = "octavia", NEW e \in plan, e.kind = "monitor"
  PROVE  Hangs(octaviaChild(e, lbsOfPool(Refs(e, "pool")), Refs(e, "pool") \cup lbsOfPool(Refs(e, "pool")),
                            Refs(e, "pool")), e)
<1>0. /\ Common /\ OctaviaInv /\ \A x \in plan : OctaviaEntry(x)
  BY DEF PlanInv, ServiceInv, OctaviaInv
<1>1. OctaviaMonitor(e)
  BY <1>0, OctaviaKinds
<1> DEFINE pools == Refs(e, "pool")
           lb == lbsOfPool(pools)
           to == pools \cup lb
<1>2. e.key[1] = "hm" /\ pools \subseteq Keys("pool") /\ \E x : pools = {x}
  BY <1>1 DEF OctaviaMonitor, Is, Just
<1>3. PICK x : pools = {x}
  BY <1>2
<1>4. PICK p \in plan : p.kind = "pool" /\ p.key = x
  BY <1>2, <1>3, KeysAre
<1> DEFINE j == p.key[2]
           i == lbOf(j)
<1>5. x = <<"pool", j>>
  BY <1>0, <1>4, OctaviaKinds DEF OctaviaPool, Is
<1> HIDE DEF j, pools
<1>6. lb = {<<"lb", i>>} /\ <<"lb", i>> \in Keys("lb")
  <2>1. <<"pool", j>> \in Keys("pool")
    BY <1>2, <1>3, <1>5
  <2>2. lbsOfPool({<<"pool", j>>}) = {<<"lb", i>>} /\ <<"lb", i>> \in Keys("lb")
    BY <1>0, <2>1, BalancerOfPool
  <2> QED BY <1>3, <1>5, <2>2
<1> HIDE DEF lb, i
<1>7. Level(e.key[1]) = 5
  BY <1>2 DEF Level
<1>8. to \subseteq OctaviaNames /\ \A q \in to : Level(q[1]) < Level(e.key[1])
  <2>1. \A q \in to : q \in Keys("pool") \/ q \in Keys("lb")
    BY <1>2, <1>6
  <2> HIDE DEF to
  <2> QED BY <1>0, <1>7, <2>1, OctaviaLevels DEF OctaviaNames
<1>9. pools \cup lb \subseteq to
  OBVIOUS
<1> HIDE DEF to
<1>10. Hangs(octaviaChild(e, lb, to, pools), e)
  BY <1>0, <1>6, <1>8, <1>9, ChildHangs
<1> QED BY <1>10 DEF to, lb, pools

\* The node of a network's subnet, which no entry of the plan stands for.
subnetNode(e) ==
  LET sub == CHOOSE s \in Refs(e, "subnet") : TRUE
  IN [Node(e, {e.key}, {e.key}) EXCEPT !.key = sub, !.kind = "subnet"]

LEMMA SubnetNode ==
  ASSUME NEW e, OctaviaNetwork(e), e.key \in Keys("network")
  PROVE  /\ subnetNode(e).key = <<"sub", e.key[2]>> /\ subnetNode(e).roll = {}
         /\ subnetNode(e).reads = {e.key} /\ subnetNode(e).parents = {e.key}
         /\ subnetNode(e).acts = {}
<1> DEFINE sub == CHOOSE s \in Refs(e, "subnet") : TRUE
           n == Node(e, {e.key}, {e.key})
           name == <<"sub", e.key[2]>>
<1>1. Refs(e, "subnet") = {name}
  BY DEF OctaviaNetwork
<1>2. sub = name
  <2> HIDE DEF name
  <2> QED BY <1>1
<1>3. /\ IsNode(n) /\ n.roll = {} /\ n.reads = {e.key} /\ n.parents = {e.key} /\ n.acts = {}
  BY NodeFields DEF Shape
<1>4. subnetNode(e) = [n EXCEPT !.key = sub, !.kind = "subnet"]
  BY DEF subnetNode
<1> HIDE DEF n, sub
<1>5. /\ subnetNode(e).key = sub /\ subnetNode(e).roll = {}
      /\ subnetNode(e).reads = {e.key} /\ subnetNode(e).parents = {e.key}
      /\ subnetNode(e).acts = {}
  BY <1>3, <1>4 DEF IsNode
<1> QED BY <1>2, <1>5

LEMMA OctaviaGraphs == ASSUME PlanInv, sc.service = "octavia" PROVE GraphRight(octaviaGraph)
<1>1. /\ IsFiniteSet(plan) /\ UniqueIn(plan) /\ \A e \in plan : OctaviaEntry(e)
  BY DEF PlanInv, ServiceInv, Common, OctaviaInv
<1> DEFINE lbNode(e) == Gated(Node(e, lbSubnet({e.key}), lbSubnet({e.key})), {e.key}, {e.key})
           lsnNode(e) == octaviaChild(e, Refs(e, "lb"), Refs(e, "lb"), Refs(e, "lb"))
           poolNode(e) == octaviaChild(e, follow("listener", "lb", Refs(e, "listener")),
                            Refs(e, "listener") \cup follow("listener", "lb", Refs(e, "listener")),
                            Refs(e, "listener"))
           hmNode(e) == octaviaChild(e, lbsOfPool(Refs(e, "pool")),
                          Refs(e, "pool") \cup lbsOfPool(Refs(e, "pool")), Refs(e, "pool"))
           netNode(e) == Node(e, {}, {})
           f == [e \in plan |-> IF e.kind = "network" THEN netNode(e)
                                ELSE IF e.kind = "lb" THEN lbNode(e)
                                ELSE IF e.kind = "listener" THEN lsnNode(e)
                                ELSE IF e.kind = "pool" THEN poolNode(e)
                                ELSE IF e.kind = "member" THEN octaviaMember(e)
                                ELSE hmNode(e)]
           kinds == {"network", "lb", "listener", "pool", "member", "monitor"}
           G == {f[e] : e \in {x \in plan : x.kind \in kinds}}
           S == {subnetNode(e) : e \in Of("network")}
<1>2. octaviaGraph = {netNode(e) : e \in Of("network")} \cup S \cup {lbNode(e) : e \in Of("lb")}
        \cup {lsnNode(e) : e \in Of("listener")} \cup {poolNode(e) : e \in Of("pool")}
        \cup {octaviaMember(e) : e \in Of("member")} \cup {hmNode(e) : e \in Of("monitor")}
  BY DEF octaviaGraph, subnetNode
<1>3. /\ \A e \in Of("lb") : Hangs(lbNode(e), e)
      /\ \A e \in Of("listener") : Hangs(lsnNode(e), e)
      /\ \A e \in Of("pool") : Hangs(poolNode(e), e)
      /\ \A e \in Of("member") : Hangs(octaviaMember(e), e)
      /\ \A e \in Of("monitor") : Hangs(hmNode(e), e)
  <2>1. \A kind : \A e \in Of(kind) : e \in plan /\ e.kind = kind
    BY DEF Of
  <2>2. \A e \in Of("lb") : Hangs(lbNode(e), e)
    BY <2>1, BalancerHangs
  <2>3. \A e \in Of("listener") : Hangs(lsnNode(e), e)
    BY <2>1, ListenerHangs
  <2>4. \A e \in Of("pool") : Hangs(poolNode(e), e)
    BY <2>1, PoolHangs
  <2>5. \A e \in Of("member") : Hangs(octaviaMember(e), e)
    BY <2>1, MemberHangs
  <2>6. \A e \in Of("monitor") : Hangs(hmNode(e), e)
    BY <2>1, MonitorHangs
  <2> QED BY <2>2, <2>3, <2>4, <2>5, <2>6
<1>4. \A e \in Of("network") : Hangs(netNode(e), e)
  <2> SUFFICES ASSUME NEW e \in Of("network") PROVE Hangs(netNode(e), e)
    OBVIOUS
  <2>1. Shape(netNode(e), e, {}, {}, {}, {})
    BY NodeFields
  <2> HIDE DEF netNode
  <2> QED BY <2>1 DEF Shape, Hangs
<1> HIDE DEF lbNode, lsnNode, poolNode, hmNode, netNode
<1>5. /\ \A e \in Of("network") : f[e] = netNode(e)
      /\ \A e \in Of("lb") : f[e] = lbNode(e)
      /\ \A e \in Of("listener") : f[e] = lsnNode(e)
      /\ \A e \in Of("pool") : f[e] = poolNode(e)
      /\ \A e \in Of("member") : f[e] = octaviaMember(e)
      /\ \A e \in Of("monitor") : f[e] = hmNode(e)
  BY DEF Of
<1> HIDE DEF f
<1>6. {x \in plan : x.kind \in kinds} = Of("network") \cup Of("lb") \cup Of("listener")
        \cup Of("pool") \cup Of("member") \cup Of("monitor")
  BY DEF Of
<1>7. octaviaGraph = G \cup S
  <2> HIDE DEF S, kinds
  <2> QED BY <1>2, <1>5, <1>6
<1>8. \A e \in plan : e.kind \in kinds => Hangs(f[e], e)
  <2>1. \A e \in plan : e.kind \in kinds =>
          e \in Of("network") \/ e \in Of("lb") \/ e \in Of("listener")
            \/ e \in Of("pool") \/ e \in Of("member") \/ e \in Of("monitor")
    BY DEF Of
  <2> HIDE DEF kinds
  <2> QED BY <1>3, <1>4, <1>5, <2>1
<1>9. /\ IsFiniteSet(G) /\ UniqueIn(G)
      /\ \A k \in kinds : Keys(k) \subseteq {m.key : m \in G}
  <2>1. OneEach(G, kinds, f)
    BY <1>8 DEF OneEach, Hangs
  <2> HIDE DEF kinds, G
  <2> QED BY <1>1, <2>1, NodesOfEntries
<1>10. \A e \in Of("network") :
         /\ OctaviaNetwork(e) /\ e.key \in Keys("network")
         /\ e.key = <<"net", e.key[2]>>
  BY <1>1, OctaviaKinds DEF Of, Keys, OctaviaNetwork, Is
<1>11. \A e \in Of("network") :
         /\ subnetNode(e).key = <<"sub", e.key[2]>> /\ subnetNode(e).roll = {}
         /\ subnetNode(e).reads = {e.key} /\ subnetNode(e).parents = {e.key}
         /\ subnetNode(e).acts = {}
  BY <1>10, SubnetNode
<1>12. IsFiniteSet(S) /\ UniqueIn(S)
  <2> DEFINE D == Of("network")
             h == [e \in D |-> subnetNode(e)]
  <2>1. IsFiniteSet(D)
    BY <1>1, FS_Subset DEF Of
  <2>2. \A n \in S : \E e \in D : n = h[e]
    OBVIOUS
  <2>3. \A d, e \in D : h[d].key = h[e].key => d = e
    <3> SUFFICES ASSUME NEW d \in D, NEW e \in D, h[d].key = h[e].key PROVE d = e
      OBVIOUS
    <3>1. <<"sub", d.key[2]>> = <<"sub", e.key[2]>>
      BY <1>11
    <3>2. d.key[2] = e.key[2]
      BY <3>1
    <3>3. d.key = e.key
      BY <1>10, <3>2
    <3> QED BY <1>1, <3>3 DEF UniqueIn, Of
  <2> HIDE DEF D, h, S
  <2> QED BY <2>1, <2>2, <2>3, Numbered
<1>13. \A e \in plan : e.key[1] # "sub"
  BY <1>1 DEF OctaviaEntry, OctaviaNetwork, OctaviaBalancer, OctaviaListenerEntry, OctaviaPool,
              OctaviaMemberEntry, OctaviaMonitor, Is
<1>14. \A a \in G, b \in S : a.key # b.key
  <2>1. \A a \in G : a.key[1] # "sub"
    BY <1>8, <1>13 DEF Hangs
  <2>2. \A b \in S : b.key[1] = "sub"
    BY <1>11
  <2> QED BY <2>1, <2>2
<1>15. Subnets = {m.key : m \in S}
  <2>1. \A k \in Subnets : k \in {m.key : m \in S}
    <3> SUFFICES ASSUME NEW k \in Keys("network") PROVE <<"sub", k[2]>> \in {m.key : m \in S}
      BY DEF Subnets
    <3>1. PICK e \in Of("network") : e.key = k
      BY DEF Keys
    <3> QED BY <1>11, <3>1
  <2>2. \A m \in S : m.key \in Subnets
    BY <1>10, <1>11 DEF Subnets
  <2> QED BY <2>1, <2>2
<1> DEFINE Known == {m.key : m \in octaviaGraph}
<1>16. OctaviaNames \subseteq Known
  <2>1. /\ Keys("network") \subseteq {m.key : m \in G} /\ Keys("lb") \subseteq {m.key : m \in G}
        /\ Keys("listener") \subseteq {m.key : m \in G} /\ Keys("pool") \subseteq {m.key : m \in G}
    BY <1>9
  <2>2. {m.key : m \in G} \subseteq Known /\ {m.key : m \in S} \subseteq Known
    BY <1>7
  <2> HIDE DEF Known, G, S
  <2> QED BY <1>15, <2>1, <2>2 DEF OctaviaNames
<1>17. \A n \in G : NodeRight(n, octaviaGraph)
  <2> SUFFICES ASSUME NEW e \in plan, e.kind \in kinds PROVE NodeRight(f[e], octaviaGraph)
    OBVIOUS
  <2>1. Hangs(f[e], e)
    BY <1>8
  <2> HIDE DEF kinds, G, S
  <2> QED BY <1>16, <2>1 DEF Hangs, NodeRight
<1>18. \A n \in S : NodeRight(n, octaviaGraph)
  <2> SUFFICES ASSUME NEW e \in Of("network") PROVE NodeRight(subnetNode(e), octaviaGraph)
    OBVIOUS
  <2>1. e.key \in OctaviaNames /\ Level(e.key[1]) = 0
    BY <1>1, <1>10, OctaviaLevels DEF OctaviaNames
  <2>2. Level(subnetNode(e).key[1]) = 1
    BY <1>11 DEF Level
  <2> HIDE DEF G, S
  <2> QED BY <1>11, <1>16, <2>1, <2>2 DEF NodeRight
<1>19. IsFiniteSet(G \cup S) /\ UniqueIn(G \cup S)
  <2> HIDE DEF G, S
  <2> QED BY <1>9, <1>12, <1>14, BothUnique
<1> HIDE DEF G, S
<1> QED BY <1>7, <1>17, <1>18, <1>19 DEF GraphRight

-----------------------------------------------------------------------------
LEMMA GraphsRight == ASSUME PlanInv, sc.service # "mix" PROVE GraphRight(Graph)
<1>1. /\ sc.service = "neutron"  => Graph = neutronGraph
      /\ sc.service = "cinder"   => Graph = cinderGraph
      /\ sc.service = "glance"   => Graph = glanceGraph
      /\ sc.service = "barbican" => Graph = barbicanGraph
      /\ sc.service = "keystone" => Graph = keystoneGraph
      /\ sc.service = "octavia"  => Graph = octaviaGraph
      /\ sc.service = "nova"     => Graph \in {novaGraph, novaRolling, novaLongLived}
  BY DEF Graph
<1>2. sc.service \in {"neutron", "cinder", "glance", "barbican", "keystone", "octavia", "nova"}
  BY DEF PlanInv, Common, Services
<1>3. sc.service = "nova" => GraphRight(Graph)
  BY <1>1, NovaGraphs, RollingGraphs
<1>4. sc.service # "nova" => GraphRight(Graph)
  BY <1>1, <1>2, NeutronGraphs, CinderGraphs, GlanceGraphs, BarbicanGraphs, KeystoneGraphs, OctaviaGraphs
<1> QED BY <1>3, <1>4

LEMMA NodesRight == GraphInv => GraphRight(nodes)
<1> SUFFICES ASSUME GraphInv PROVE GraphRight(nodes)
  OBVIOUS
<1>1. CASE phase = "built"
  BY <1>1, GraphsRight DEF GraphInv, PlanInv
<1>2. CASE phase # "built"
  <2>1. nodes = {}
    BY <1>2 DEF GraphInv
  <2> QED BY <2>1, FS_EmptySet DEF GraphRight, UniqueIn
<1> QED BY <1>1, <1>2

(***************************************************************************)
(* Every graph a builder makes of a generated plan is one the engine can   *)
(* run: the edges it would silently skip and the ids its closures would    *)
(* send empty are never there, it has no cycle, a rolling set goes and     *)
(* comes back as one, and two nodes whose calls change one server, volume  *)
(* or load balancer take one gate.                                         *)
(***************************************************************************)
THEOREM GraphsFitEngine == Spec => []GraphFitsEngine
<1>1. GraphInv => GraphFitsEngine
  BY NodesRight, RightGraphFits
<1> QED BY <1>1, GraphInvHolds, PTL

=============================================================================
