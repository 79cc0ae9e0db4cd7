----------------------------- MODULE ChurnBuckets -----------------------------
(***************************************************************************)
(* The time buckets of a churn run (type results in                        *)
(* internal/chaos/engine.go): the scheduler advances the slots at every    *)
(* tick and seals the ones nothing is in flight in, dropping their raw     *)
(* latencies; the goroutines of the operations add outcomes under the      *)
(* offset of the tick that dispatched them, however late they finish.      *)
(*                                                                         *)
(* Time is counted in bucket widths.  Slots are numbered from 0, as in the *)
(* code.  An outcome is its slot: latency and error kind are left out.     *)
(***************************************************************************)
EXTENDS Integers, FiniteSets

CONSTANTS
  Ops,          \* the operations of the run
  SlotCount,    \* bucketCount, the number of slots of a bounded run
  MaxTime,      \* bound: the last instant, in bucket widths
  MaxOutcomes   \* bound: outcomes per operation (its retries and its own)

ASSUME BucketAssumption ==
  /\ IsFiniteSet(Ops)
  /\ SlotCount \in Nat \ {0}
  /\ MaxTime \in Nat
  /\ MaxOutcomes \in Nat \ {0}

VARIABLES
  fixed,      \* results.fixed: a bounded run, with a fixed number of slots
  now,        \* the clock
  tick,       \* the offset of the current tick
  ticking,    \* the scheduler is between an advance and the next sleep
  count,      \* len(results.slots)
  attempted,  \* attempted[i]: len(latencies) of slot i
  inFlight,   \* slot.inFlight
  sealed,     \* the sealed slots
  shown,      \* shown[i]: what the bucket computed at sealing says
  open,       \* results.open
  pc,         \* pc[o]: not launched ("new"), "flying" or "ended"
  offset,     \* offset[o]: the tick that dispatched o
  added       \* added[o]: outcomes o has recorded

bucketVars == <<fixed, now, tick, ticking, count, attempted, inFlight, sealed, shown, open, pc,
                offset, added>>

Slot == 0..(IF SlotCount > MaxTime THEN SlotCount ELSE MaxTime + 1)

TypeOK ==
  /\ fixed \in BOOLEAN
  /\ now \in 0..MaxTime /\ tick \in 0..MaxTime /\ ticking \in BOOLEAN
  /\ count \in Slot /\ open \in Slot
  /\ attempted \in [Slot -> Nat] /\ shown \in [Slot -> Nat]
  /\ inFlight \in [Slot -> Nat]
  /\ sealed \subseteq Slot
  /\ pc \in [Ops -> {"new", "flying", "ended"}]
  /\ offset \in [Ops -> 0..MaxTime]
  /\ added \in [Ops -> 0..MaxOutcomes]

BucketsInit ==
  /\ fixed \in BOOLEAN
  /\ now = 0 /\ tick = 0 /\ ticking = FALSE
  /\ count = IF fixed THEN SlotCount ELSE 0
  /\ attempted = [i \in Slot |-> 0] /\ shown = [i \in Slot |-> 0]
  /\ inFlight = [i \in Slot |-> 0]
  /\ sealed = {} /\ open = 0
  /\ pc = [o \in Ops |-> "new"]
  /\ offset = [o \in Ops |-> 0]
  /\ added = [o \in Ops |-> 0]

index(off) == IF fixed /\ off >= SlotCount THEN SlotCount - 1 ELSE off

Pass ==
  /\ now < MaxTime
  /\ now' = now + 1
  /\ UNCHANGED <<fixed, tick, ticking, count, attempted, inFlight, sealed, shown, open,
                 pc, offset, added>>

(***************************************************************************)
(* advance: slots up to the current one exist, past ones nothing is in     *)
(* flight in are sealed, and open moves over the sealed prefix.            *)
(***************************************************************************)
SealableIdle(cur) == {i \in open..(cur - 1) : i \notin sealed}   \* mutant: in flight too
Sealable(cur) == {i \in open..(cur - 1) : i \notin sealed /\ inFlight[i] = 0}

OpenAfter(cur, done) ==
  IF open >= cur THEN open
  ELSE CHOOSE k \in open..cur : /\ open..(k - 1) \subseteq done
                                /\ k = cur \/ k \notin done

Grown(cur) == IF count <= cur THEN cur + 1 ELSE count

advance ==
  LET cur  == index(now)
      done == sealed \union Sealable(cur)
  IN /\ ~ticking
     /\ ticking' = TRUE
     /\ tick' = now
     /\ count' = Grown(cur)
     /\ sealed' = done
     /\ shown' = [i \in Slot |-> IF i \in Sealable(cur) THEN attempted[i] ELSE shown[i]]
     /\ attempted' = [i \in Slot |-> IF i \in Sealable(cur) THEN 0 ELSE attempted[i]]
     /\ open' = OpenAfter(cur, done)
     /\ UNCHANGED <<fixed, now, inFlight, pc, offset, added>>

\* The fan-out of the tick is over; the scheduler sleeps.
Sleep ==
  /\ ticking
  /\ ticking' = FALSE
  /\ UNCHANGED <<fixed, now, tick, count, attempted, inFlight, sealed, shown, open, pc,
                 offset, added>>


\* begin, called by launch under the offset of the tick.
begin(o) ==
  /\ ticking
  /\ pc[o] = "new"
  /\ pc' = [pc EXCEPT ![o] = "flying"]
  /\ offset' = [offset EXCEPT ![o] = tick]
  /\ inFlight' = [inFlight EXCEPT ![index(tick)] = @ + 1]
  /\ UNCHANGED <<fixed, now, tick, ticking, count, attempted, sealed, shown, open, added>>


\* add: a retry's, the operation's own or a panic's outcome, before end.
add(o) ==
  /\ pc[o] = "flying"
  /\ added[o] < MaxOutcomes
  /\ added' = [added EXCEPT ![o] = @ + 1]
  /\ attempted' = [attempted EXCEPT ![index(offset[o])] = @ + 1]
  /\ UNCHANGED <<fixed, now, tick, ticking, count, inFlight, sealed, shown, open, pc, offset>>

end(o) ==
  /\ pc[o] = "flying"
  /\ pc' = [pc EXCEPT ![o] = "ended"]
  /\ inFlight' = [inFlight EXCEPT ![index(offset[o])] = @ - 1]
  /\ UNCHANGED <<fixed, now, tick, ticking, count, attempted, sealed, shown, open, offset,
                 added>>

BucketsNext ==
  \/ Pass \/ advance \/ Sleep
  \/ \E o \in Ops : begin(o) \/ add(o) \/ end(o)

BucketsSpec == BucketsInit /\ [][BucketsNext]_bucketVars

\* bucket(i), as a checkpoint or the result reads it.
bucket(i) == IF i \in sealed THEN shown[i] ELSE attempted[i]

\* inFlight(): run() looks only at the slots from open on.
Flying == \E i \in open..(count - 1) : inFlight[i] > 0

-----------------------------------------------------------------------------
\* The outcomes recorded under slot i, numbered per operation.
Dispatched(o, i) == pc[o] # "new" /\ index(offset[o]) = i
Outcomes(i) == {x \in Ops \X (1..MaxOutcomes) : Dispatched(x[1], i) /\ x[2] <= added[x[1]]}

(***************************************************************************)
(* Every outcome recorded so far is in the bucket of the tick that         *)
(* dispatched its operation: sealing, which drops the raw latencies, never *)
(* comes before an outcome of that slot (advance, add, end).               *)
(***************************************************************************)
EveryOutcomeReported == \A i \in 0..(count - 1) : bucket(i) = Cardinality(Outcomes(i))

(***************************************************************************)
(* inFlight() is exact although it starts at open: run() announces a drain *)
(* and writes the last checkpoint exactly when an operation is unfinished. *)
(***************************************************************************)
InFlightExact == Flying <=> \E o \in Ops : pc[o] = "flying"

(***************************************************************************)
(* No slot is indexed that does not exist: the operations of a tick find   *)
(* the slot advance made, those of a bounded run's last tick the last one, *)
(* and a bounded run keeps its fixed number of slots.                      *)
(***************************************************************************)
IndexInRange ==
  /\ fixed => count = SlotCount
  /\ ticking => index(tick) < count
  /\ \A o \in Ops : pc[o] # "new" => index(offset[o]) < count

(***************************************************************************)
(* The slots account for every operation and every outcome, whichever slot *)
(* is current when an operation ends (tick, add, end, advance).            *)
(***************************************************************************)
BucketsExact == EveryOutcomeReported /\ InFlightExact /\ IndexInRange

=============================================================================
