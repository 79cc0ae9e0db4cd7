----------------------------- MODULE ChurnEngine -----------------------------
(***************************************************************************)
(* The churn engine of internal/chaos/engine.go: one scheduler goroutine   *)
(* that decides on the logical inventory and launches one goroutine per    *)
(* operation, and the operations, which wait for the operations they       *)
(* depend on, take the node's gate and an execution slot, and call the     *)
(* cloud.                                                                  *)
(*                                                                         *)
(* An operation is a number, in the order of dispatch.  The number of the  *)
(* create also names the instance it brings about: an instance i is in the *)
(* cloud when i \in cloud, and the engine knows its id when i \in res.     *)
(* "Attempt <<o, i>>" is what the code keeps in an op with a deleteFailed  *)
(* field: the delete of instance i by the delete operation o, or its retry *)
(* inside the create operation o.                                          *)
(*                                                                         *)
(* Left out: the clock (a bounded run may be over at any tick), the random *)
(* draws (every one is possible), the bucketed outcomes, and the counters  *)
(* that are only reported.                                                 *)
(***************************************************************************)
EXTENDS ChurnInventory, FiniteSetsExt

CONSTANTS
  Gate,          \* Gate[n]: the per-parent lock of node n, or NoGate (Node.Gate)
  NoGate,        \* the nil gate
  Limit,         \* min(MaxParallel, Concurrency): capacity of sem and pending
  MaxParallel,   \* Config.MaxParallel, the fan-out ceiling
  Unbounded,     \* Config.Unbounded: only a cancellation ends the run
  Faults,        \* bound: the kinds of failure the cloud calls show, see below
  MaxOps         \* bound: the number of operations dispatched in one run

ASSUME EngineAssumption ==
  /\ Node \subseteq DOMAIN Gate
  /\ Limit \in Nat \ {0}
  /\ MaxParallel \in Nat /\ Limit <= MaxParallel
  /\ Unbounded \in BOOLEAN
  /\ MaxOps \in Nat

(***************************************************************************)
(* How a cloud call can go wrong.                                          *)
(*   unready  a create returns an id and an error (the readiness wait)     *)
(*   refused  a create returns an error and there is no instance           *)
(*   lost     a create returns an error, no id, and there is an instance   *)
(*   kept     a delete returns an error and the instance stays             *)
(*   late     a delete returns an error and the instance goes              *)
(*   panic    the closure panics, in any of these situations               *)
(***************************************************************************)
AllFaults == {"unready", "refused", "lost", "kept", "late", "panic"}
ASSUME FaultAssumption == Faults \subseteq AllFaults

NoOp == 0
OpId == 1..MaxOps

VARIABLES
  create,       \* create[n]: the current or most recent create of n
  last,         \* last[n]: the most recent operation of n
  del,          \* del[i]: the operation that decides on retired instance i
  sched,        \* where the scheduler is
  budget,       \* steps left in the fan-out of the current tick
  extra,        \* the extra dependencies of the roll under way
  nops,         \* operations dispatched so far
  op,           \* op[o]: what the closure of operation o captured
  pc,           \* pc[o]: where the goroutine of operation o is
  token,        \* the operations that hold a pending token
  res,          \* the creates that returned a resource with an id
  failed,       \* the creates that returned an error
  deleteFailed, \* the attempts not known to have removed their instance
  ids,          \* the attempts that know their parents' cloud ids
  settled,      \* the retries, as attempts, whose done channel is closed
  cloud,        \* the instances that exist in the cloud
  confirmed,    \* the instances a successful delete call was made for
  cycles,       \* results.cycles
  cancelled     \* the run's context is cancelled

schedule == <<present, mutated, pop, rolling>>
states   == <<create, last, del>>
loop     == <<sched, budget, extra>>
outcomes == <<res, failed, deleteFailed, ids, settled, cloud, confirmed, cycles>>
vars == <<schedule, states, loop, nops, op, pc, token, outcomes, cancelled>>

NoRetries == [i \in {} |-> NoOp]
Idle == [kind |-> "none", node |-> NoOp, deps |-> {}, parents |-> {},
         create |-> NoOp, retries |-> NoRetries]

OpRecord ==
  [kind    : {"none", "create", "delete", "mutate"},
   node    : Node \union {NoOp},
   deps    : SUBSET OpId,
   parents : SUBSET OpId,
   create  : OpId \union {NoOp},
   retries : UNION {[S -> OpId] : S \in SUBSET OpId}]

TypeOK ==
  /\ present \subseteq Node /\ mutated \subseteq Node /\ rolling \subseteq Node
  /\ pop \in Int
  /\ create \in [Node -> OpId \union {NoOp}]
  /\ last \in [Node -> OpId \union {NoOp}]
  /\ del \in [OpId -> OpId \union {NoOp}]
  /\ sched \in {"loop", "step", "launch", "drain", "returned"}
  /\ budget \in 0..MaxParallel
  /\ extra \subseteq OpId
  /\ nops \in 0..MaxOps
  /\ op \in [OpId -> OpRecord]
  /\ pc \in [OpId -> {"none", "launch", "await", "gate", "slot", "run",
                      "exit", "closing", "done"}]
  /\ token \subseteq OpId /\ res \subseteq OpId /\ failed \subseteq OpId
  /\ deleteFailed \subseteq OpId \X OpId
  /\ ids \subseteq OpId \X OpId /\ settled \subseteq OpId \X OpId
  /\ cloud \subseteq OpId /\ confirmed \subseteq OpId
  /\ cycles \in Nat
  /\ cancelled \in BOOLEAN

Init ==
  /\ present = {} /\ mutated = {} /\ pop = 0 /\ rolling = {}
  /\ create = [n \in Node |-> NoOp]
  /\ last = [n \in Node |-> NoOp]
  /\ del = [i \in OpId |-> NoOp]
  /\ sched = "loop" /\ budget = 0 /\ extra = {} /\ nops = 0
  /\ op = [o \in OpId |-> Idle]
  /\ pc = [o \in OpId |-> "none"]
  /\ token = {} /\ res = {} /\ failed = {}
  /\ deleteFailed = {} /\ ids = {} /\ settled = {}
  /\ cloud = {} /\ confirmed = {} /\ cycles = 0
  /\ cancelled = FALSE

-----------------------------------------------------------------------------
(***************************************************************************)
(* The bookkeeping the scheduler reads.                                    *)
(***************************************************************************)
Done(o) == pc[o] = "done"

AttemptDone(o, i) ==
  IF op[o].kind = "delete" THEN Done(o) ELSE <<o, i>> \in settled

\* An attempt that finished and is known to have removed its instance.
RemovedOnceTried(o, i) == AttemptDone(o, i)   \* mutant: forgets the verdict
Removed(o, i) == AttemptDone(o, i) /\ <<o, i>> \notin deleteFailed

Retired(n) == {i \in OpId : del[i] # NoOp /\ op[i].node = n}
Unconfirmed(n) == {i \in Retired(n) : ~Removed(del[i], i)}

\* The resources a checkpoint, and the result of the run, would list now.
LiveResources ==
  {i \in OpId : /\ i \in res /\ Done(i)
                /\ \/ del[i] # NoOp /\ ~Removed(del[i], i)
                   \/ op[i].node \in present /\ create[op[i].node] = i}

ParentOps(n) == {create[p] : p \in Parents[n]}
Prior(n) == {last[n]} \ {NoOp}
DeleteDepsNoChildren(n) ==   \* mutant: does not wait for the dependents
  (Prior(n) \union ParentOps(n) \union extra) \ {NoOp}
DeleteDeps(n) ==
  (Prior(n) \union ParentOps(n) \union extra
     \union {last[c] : c \in Children(n) \ present}) \ {NoOp}

-----------------------------------------------------------------------------
(***************************************************************************)
(* The scheduler.  A dispatch captures what the closure needs, updates the *)
(* inventory and goes on to launch, which may block; the fan-out goes on   *)
(* after that.                                                             *)
(***************************************************************************)
Deciding == sched = "step" /\ rolling = {} /\ budget > 0

Dispatch(record, room) ==
  /\ nops + room <= MaxOps
  /\ nops' = nops + 1
  /\ op' = [op EXCEPT ![nops + 1] = record]
  /\ pc' = [pc EXCEPT ![nops + 1] = "launch"]
  /\ sched' = "launch"
  /\ UNCHANGED <<token, res, failed, settled, ids, cloud, confirmed, cycles, cancelled>>

DispatchCreate(n) ==
  LET o == nops + 1
      U == Unconfirmed(n)
  IN /\ Dispatch([kind |-> "create", node |-> n,
                  deps |-> Prior(n) \union ParentOps(n),
                  parents |-> ParentOps(n), create |-> o,
                  retries |-> [i \in U |-> del[i]]], 1)
     /\ del' = [i \in OpId |-> IF i \in U THEN o ELSE del[i]]
     /\ deleteFailed' = deleteFailed \union ({o} \X U)
     /\ present' = present \union {n}
     /\ mutated' = mutated \ {n}
     /\ create' = [create EXCEPT ![n] = o]
     /\ last' = [last EXCEPT ![n] = o]
     /\ pop' = pop + 1

DispatchDelete(n, room) ==
  LET o == nops + 1
      i == create[n]
      U == Unconfirmed(n)
  IN /\ Dispatch([kind |-> "delete", node |-> n, deps |-> DeleteDeps(n),
                  parents |-> ParentOps(n), create |-> i, retries |-> NoRetries], room)
     /\ del' = [j \in OpId |-> IF j = i THEN o
                               ELSE IF j \in Retired(n) \ U THEN NoOp ELSE del[j]]
     /\ deleteFailed' = deleteFailed \union {<<o, i>>}
     /\ present' = present \ {n}
     /\ last' = [last EXCEPT ![n] = o]
     /\ pop' = pop - 1
     /\ UNCHANGED <<mutated, create>>

DispatchMutate(n) ==
  LET o == nops + 1
  IN /\ Dispatch([kind |-> "mutate", node |-> n,
                  deps |-> Prior(n) \union ParentOps(n),
                  parents |-> ParentOps(n), create |-> create[n],
                  retries |-> NoRetries], 1)
     /\ mutated' = mutated \union {n}
     /\ last' = [last EXCEPT ![n] = o]
     /\ UNCHANGED <<present, pop, create, del, deleteFailed>>

StepEagerCreate(n) ==
  /\ Deciding
  /\ n \in EagerCreateCandidates(present)
  /\ DispatchCreate(n)
  /\ budget' = budget - 1
  /\ UNCHANGED <<rolling, extra>>

StepMutate(n) ==
  /\ Deciding
  /\ DrawsMutate(present, mutated)
  /\ n \in MutateCandidates(present, mutated)
  /\ DispatchMutate(n)
  /\ budget' = budget - 1
  /\ UNCHANGED <<rolling, extra>>

StepCreate(n) ==
  /\ Deciding
  /\ DrawsCreate(present, mutated, pop)
  /\ n \in CreateCandidates(present)
  /\ DispatchCreate(n)
  /\ budget' = budget - 1
  /\ UNCHANGED <<rolling, extra>>

StepDelete(n) ==
  /\ Deciding
  /\ DrawsDelete(present, mutated, pop)
  /\ n \in DeleteCandidates(present) \ Rolling
  /\ DispatchDelete(n, 1)
  /\ budget' = budget - 1
  /\ UNCHANGED <<rolling, extra>>

(***************************************************************************)
(* A roll: the last operations of the whole set are collected first, then  *)
(* the present descendants of the root are deleted, children first, each   *)
(* dispatch depending on all of them.  The order among siblings is open.   *)
(***************************************************************************)
RollExtraFirst(n) ==   \* mutant: collected once, when the set was filled
  {o \in 1..nops : /\ op[o].node \in RollSet(n)
                   /\ \A q \in 1..(o - 1) : op[q].node # op[o].node}
RollExtra(n) == {last[m] : m \in RollSet(n)} \ {NoOp}

RollBegin(n) ==
  /\ Deciding
  /\ DrawsDelete(present, mutated, pop)
  /\ n \in DeleteCandidates(present) \cap Rolling
  /\ rolling' = Descendants[n] \cap present
  /\ nops + Cardinality(rolling') <= MaxOps
  /\ extra' = RollExtra(n)
  /\ budget' = budget - 1
  /\ UNCHANGED <<present, mutated, pop, states, sched, nops, op, pc, token,
                 outcomes, cancelled>>


RollDelete(n) ==
  /\ sched = "step"
  /\ n \in rolling
  /\ Children(n) \cap present = {}
  /\ DispatchDelete(n, Cardinality(rolling))
  /\ rolling' = rolling \ {n}
  /\ extra' = IF rolling' = {} THEN {} ELSE extra
  /\ UNCHANGED budget

\* A no-op, or the bound: a run that may be out of operation numbers.
NothingToDo == DrawsNoop(present, mutated) \/ nops + Cardinality(Node) > MaxOps

StepNoop ==
  /\ Deciding
  /\ NothingToDo
  /\ budget' = budget - 1
  /\ sched' = IF budget' = 0 THEN "loop" ELSE "step"
  /\ UNCHANGED <<schedule, states, extra, nops, op, pc, token, outcomes, cancelled>>

(***************************************************************************)
(* launch: a pending token, or none once the run is cancelled.             *)
(***************************************************************************)
Launch ==
  /\ sched = "launch"
  /\ pc' = [pc EXCEPT ![nops] = "await"]
  /\ \/ Cardinality(token) < Limit /\ token' = token \union {nops}
     \/ cancelled /\ UNCHANGED token
  /\ sched' = IF budget = 0 /\ rolling = {} THEN "loop" ELSE "step"
  /\ UNCHANGED <<schedule, states, budget, extra, nops, op, outcomes, cancelled>>

(***************************************************************************)
(* run: a tick opens a fan-out; the loop ends on a cancellation, or when a *)
(* bounded run's time is up; the run returns when every operation is done. *)
(***************************************************************************)
Tick ==
  /\ sched = "loop"
  /\ ~cancelled
  /\ budget' \in 1..MaxParallel
  /\ sched' = "step"
  /\ UNCHANGED <<schedule, states, extra, nops, op, pc, token, outcomes, cancelled>>

Stop ==
  /\ sched = "loop"
  /\ cancelled \/ ~Unbounded
  /\ sched' = "drain"
  /\ UNCHANGED <<schedule, states, budget, extra, nops, op, pc, token, outcomes,
                 cancelled>>

Return ==
  /\ sched = "drain"
  /\ \A o \in 1..nops : Done(o)
  /\ sched' = "returned"
  /\ UNCHANGED <<schedule, states, budget, extra, nops, op, pc, token, outcomes,
                 cancelled>>

Cancel ==
  /\ ~cancelled
  /\ sched # "returned"
  /\ cancelled' = TRUE
  /\ UNCHANGED <<schedule, states, loop, nops, op, pc, token, outcomes>>

-----------------------------------------------------------------------------
(***************************************************************************)
(* The operations.  Every step of an operation leaves the scheduler alone. *)
(***************************************************************************)
Scheduler == <<schedule, states, loop, nops, op, cancelled>>

Goto(o, where) == pc' = [pc EXCEPT ![o] = where]
Running == {o \in OpId : pc[o] = "run"}
GateFree(g) == \A o \in OpId : pc[o] \in {"slot", "run"} => Gate[op[o].node] # g

AwaitDeps(o) ==
  /\ pc[o] = "await"
  /\ \A d \in op[o].deps : Done(d)
  /\ Goto(o, IF Gate[op[o].node] = NoGate THEN "slot" ELSE "gate")
  /\ UNCHANGED <<Scheduler, token, outcomes>>

TakeGate(o) ==
  /\ pc[o] = "gate"
  /\ GateFree(Gate[op[o].node])
  /\ Goto(o, "slot")
  /\ UNCHANGED <<Scheduler, token, outcomes>>

TakeSlotUnchecked(o) ==   \* mutant: the context is not looked at again
  /\ pc[o] = "slot"
  /\ Cardinality(Running) < Limit
  /\ Goto(o, "run")
  /\ UNCHANGED <<Scheduler, token, outcomes>>

\* The context is looked at again once the slot is there.
TakeSlot(o) ==
  /\ pc[o] = "slot"
  /\ Cardinality(Running) < Limit
  /\ ~cancelled
  /\ Goto(o, "run")
  /\ UNCHANGED <<Scheduler, token, outcomes>>

NotAdmittedAgain(o) ==   \* mutant: a cancelled wait starts over
  /\ pc[o] \in {"await", "gate", "slot"}
  /\ cancelled
  /\ Goto(o, "await")
  /\ UNCHANGED <<Scheduler, token, outcomes>>

\* await returns false, wherever it waits, and gives the gate back.
NotAdmitted(o) ==
  /\ pc[o] \in {"await", "gate", "slot"}
  /\ cancelled
  /\ Goto(o, "exit")
  /\ UNCHANGED <<Scheduler, token, outcomes>>

Unsettled(o) == {i \in DOMAIN op[o].retries : <<o, i>> \notin settled}
ParentOpFailed(o) == \E p \in op[o].parents : p \in failed \/ p \notin res

\* The instance that operation o is deleting or about to delete again.
Retrying(o, i) ==
  /\ pc[o] = "run" /\ op[o].kind = "create"
  /\ Unsettled(o) # {} /\ i = Min(Unsettled(o))
RetryCallsAlways(o, i) == i \in res   \* mutant: verdict not looked at
RetryCalls(o, i) == <<op[o].retries[i], i>> \in deleteFailed /\ i \in res

\* The retry takes over what the previous attempt knew of the parents' ids.
InheritIDs(o, i) ==
  ids' = IF <<op[o].retries[i], i>> \in ids THEN ids \union {<<o, i>>} ELSE ids

RetryDeletes(o, i) ==
  /\ Retrying(o, i) /\ RetryCalls(o, i)
  /\ cloud' = cloud \ {i}
  /\ confirmed' = confirmed \union {i}
  /\ cycles' = cycles + 1
  /\ deleteFailed' = deleteFailed \ {<<o, i>>}
  /\ settled' = settled \union {<<o, i>>}
  /\ InheritIDs(o, i)
  /\ UNCHANGED <<Scheduler, pc, token, res, failed>>

\* A failed delete call; the instance may be gone all the same.
FailedDelete(i) ==
  \/ "kept" \in Faults /\ UNCHANGED cloud
  \/ "late" \in Faults /\ cloud' = cloud \ {i}

RetryFails(o, i) ==
  /\ Retrying(o, i) /\ RetryCalls(o, i)
  /\ FailedDelete(i)
  /\ settled' = settled \union {<<o, i>>}
  /\ InheritIDs(o, i)
  /\ UNCHANGED <<Scheduler, pc, token, res, failed, deleteFailed, confirmed, cycles>>

\* A panic ends the whole operation, the create it was about to make too.
RetryPanics(o, i) ==
  /\ Retrying(o, i) /\ RetryCalls(o, i)
  /\ "panic" \in Faults
  /\ FailedDelete(i)
  /\ Goto(o, "exit")
  /\ UNCHANGED <<Scheduler, token, res, failed, deleteFailed, ids, settled,
                 confirmed, cycles>>

\* The attempt takes over the verdict of the one before it.
Inherit(o, i) ==
  /\ deleteFailed' = IF <<op[o].retries[i], i>> \in deleteFailed
                     THEN deleteFailed ELSE deleteFailed \ {<<o, i>>}
  /\ InheritIDs(o, i)
  /\ settled' = settled \union {<<o, i>>}

RetrySkips(o, i) ==
  /\ Retrying(o, i) /\ ~RetryCalls(o, i)
  /\ Inherit(o, i)
  /\ UNCHANGED <<Scheduler, pc, token, res, failed, cloud, confirmed, cycles>>

\* The retries are behind it and the parents are there.
Creating(o) ==
  /\ pc[o] = "run" /\ op[o].kind = "create"
  /\ Unsettled(o) = {} /\ ~ParentOpFailed(o)

CreateSucceeds(o) ==
  /\ Creating(o)
  /\ res' = res \union {o} /\ cloud' = cloud \union {o}
  /\ Goto(o, "exit")
  /\ UNCHANGED <<Scheduler, token, failed, deleteFailed, ids, settled, confirmed, cycles>>

\* Created, but the wait for it to become ready failed: an id and an error.
CreateUnready(o) ==
  /\ Creating(o)
  /\ "unready" \in Faults
  /\ res' = res \union {o} /\ cloud' = cloud \union {o}
  /\ failed' = failed \union {o}
  /\ Goto(o, "exit")
  /\ UNCHANGED <<Scheduler, token, deleteFailed, ids, settled, confirmed, cycles>>

\* An error and no id; the cloud may hold the instance all the same.
FailedCreate(o) ==
  \/ "refused" \in Faults /\ UNCHANGED cloud
  \/ "lost" \in Faults /\ cloud' = cloud \union {o}

CreateFailsForgets(o) ==   \* mutant: a failed create leaves the inventory
  /\ Creating(o)
  /\ FailedCreate(o)
  /\ failed' = failed \union {o}
  /\ present' = present \ {op[o].node}
  /\ pop' = pop - 1
  /\ Goto(o, "exit")
  /\ UNCHANGED <<mutated, rolling, states, loop, nops, op, cancelled, token, res,
                 deleteFailed, ids, settled, confirmed, cycles>>

CreateFails(o) ==
  /\ Creating(o)
  /\ FailedCreate(o)
  /\ failed' = failed \union {o}
  /\ Goto(o, "exit")
  /\ UNCHANGED <<Scheduler, token, res, deleteFailed, ids, settled, confirmed, cycles>>

\* A panic leaves neither a resource nor an error behind.
CreatePanics(o) ==
  /\ Creating(o)
  /\ "panic" \in Faults
  /\ FailedCreate(o)
  /\ Goto(o, "exit")
  /\ UNCHANGED <<Scheduler, token, res, failed, deleteFailed, ids, settled,
                 confirmed, cycles>>

CreateSkips(o) ==
  /\ pc[o] = "run" /\ op[o].kind = "create"
  /\ Unsettled(o) = {} /\ ParentOpFailed(o)
  /\ Goto(o, "exit")
  /\ UNCHANGED <<Scheduler, token, outcomes>>

\* The delete of an instance whose id is known: the call is under way.
Deleting(o) == pc[o] = "run" /\ op[o].kind = "delete" /\ op[o].create \in res
Attempt(o) == <<o, op[o].create>>

DeleteSucceeds(o) ==
  /\ Deleting(o)
  /\ cloud' = cloud \ {op[o].create}
  /\ confirmed' = confirmed \union {op[o].create}
  /\ cycles' = cycles + 1
  /\ deleteFailed' = deleteFailed \ {Attempt(o)}
  /\ ids' = ids \union {Attempt(o)}
  /\ Goto(o, "exit")
  /\ UNCHANGED <<Scheduler, token, res, failed, settled>>

\* An error or a panic; the instance may be gone all the same.
DeleteFails(o) ==
  /\ Deleting(o)
  /\ FailedDelete(op[o].create)
  /\ ids' = ids \union {Attempt(o)}
  /\ Goto(o, "exit")
  /\ UNCHANGED <<Scheduler, token, res, failed, deleteFailed, settled, confirmed, cycles>>

\* The create never produced a cloud resource; nothing to delete.
DeleteSkips(o) ==
  /\ pc[o] = "run" /\ op[o].kind = "delete" /\ op[o].create \notin res
  /\ deleteFailed' = deleteFailed \ {Attempt(o)}
  /\ ids' = ids \union {Attempt(o)}
  /\ Goto(o, "exit")
  /\ UNCHANGED <<Scheduler, token, res, failed, settled, cloud, confirmed, cycles>>

Mutating(o) ==
  /\ pc[o] = "run" /\ op[o].kind = "mutate"
  /\ ~ParentOpFailed(o)
  /\ op[o].create \in res \ failed

\* Skipped, or called with an outcome that only the buckets see.
MutateEnds(o) ==
  /\ pc[o] = "run" /\ op[o].kind = "mutate"
  /\ Goto(o, "exit")
  /\ UNCHANGED <<Scheduler, token, outcomes>>

\* settleRetries: a retry that never ran waits for the attempt before it.
Settle(o, i) ==
  /\ pc[o] = "exit"
  /\ Unsettled(o) # {} /\ i = Min(Unsettled(o))
  /\ AttemptDone(op[o].retries[i], i)
  /\ Inherit(o, i)
  /\ UNCHANGED <<Scheduler, pc, token, res, failed, cloud, confirmed, cycles>>

\* The deferred calls of launch: the pending token goes back first, ...
Exit(o) ==
  /\ pc[o] = "exit" /\ Unsettled(o) = {}
  /\ token' = token \ {o}
  /\ Goto(o, "closing")
  /\ UNCHANGED <<Scheduler, outcomes>>

\* ... and then the done channel is closed.
Close(o) ==
  /\ pc[o] = "closing"
  /\ Goto(o, "done")
  /\ UNCHANGED <<Scheduler, token, outcomes>>

-----------------------------------------------------------------------------
Decide ==
  \/ \E n \in Node : StepEagerCreate(n)
  \/ \E n \in Node : StepMutate(n)
  \/ \E n \in Node : StepCreate(n)
  \/ \E n \in Node : StepDelete(n)
  \/ \E n \in Node : RollBegin(n)
  \/ \E n \in Node : RollDelete(n)
  \/ StepNoop

OpStep(o) ==
  \/ AwaitDeps(o) \/ TakeGate(o) \/ TakeSlot(o) \/ NotAdmitted(o)
  \/ \E i \in OpId : RetryDeletes(o, i)
  \/ \E i \in OpId : RetryFails(o, i)
  \/ \E i \in OpId : RetryPanics(o, i)
  \/ \E i \in OpId : RetrySkips(o, i)
  \/ CreateSucceeds(o) \/ CreateUnready(o) \/ CreateFails(o)
  \/ CreatePanics(o) \/ CreateSkips(o)
  \/ DeleteSucceeds(o) \/ DeleteFails(o) \/ DeleteSkips(o)
  \/ MutateEnds(o)
  \/ \E i \in OpId : Settle(o, i)
  \/ Exit(o) \/ Close(o)

Terminated == sched = "returned" /\ UNCHANGED vars

Next ==
  \/ Decide
  \/ Launch \/ Tick \/ Stop \/ Return \/ Cancel
  \/ \E o \in OpId : OpStep(o)
  \/ Terminated

Spec == Init /\ [][Next]_vars

(***************************************************************************)
(* Fairness: the scheduler goroutine runs (a decision is drawn, a launch   *)
(* that can proceed does), the clock passes a bounded run's end however    *)
(* often a tick comes first, every operation's goroutine runs, and every   *)
(* cloud call returns.  Nothing makes a cancellation happen.               *)
(***************************************************************************)
Fairness ==
  /\ WF_vars(Decide) /\ WF_vars(Launch) /\ WF_vars(Tick) /\ WF_vars(Return)
  /\ SF_vars(Stop)
  /\ \A o \in OpId : WF_vars(OpStep(o))

FairSpec == Spec /\ Fairness

-----------------------------------------------------------------------------
(***************************************************************************)
(* Operations on one node never overlap: whatever waits for the gate or a  *)
(* slot, and whatever was cancelled before it ran, at most one operation   *)
(* per node is past await (dispatch* put last into deps).                  *)
(***************************************************************************)
NodeSerial ==
  \A o, q \in Running : op[o].node = op[q].node => o = q

(***************************************************************************)
(* A running operation reads the fields of another operation only after    *)
(* that operation closed its done channel: the parents' resources, the     *)
(* resource of its own node's create, the verdicts of the attempts it      *)
(* retries.  Nothing else orders these reads after the writes (await).     *)
(***************************************************************************)
ReadsAreOrdered ==
  \A o \in Running :
    /\ \A p \in op[o].parents : Done(p)
    /\ op[o].kind # "create" => Done(op[o].create)
    /\ \A i \in DOMAIN op[o].retries :
         Done(i) /\ AttemptDone(op[o].retries[i], i)

(***************************************************************************)
(* A create or mutate call is made only under parents that exist and are   *)
(* ready, and no delete of one of them is under way meanwhile (await,      *)
(* parentOpFailed, and the children's last operations in dispatchDelete).  *)
(***************************************************************************)
InstanceUnderDelete ==
  {op[o].create : o \in {x \in Running : Deleting(x)}}
    \union {i \in OpId : \E o \in Running : Retrying(o, i) /\ RetryCalls(o, i)}

ParentsOutliveCalls ==
  \A o \in Running : Creating(o) \/ Mutating(o) =>
    /\ op[o].parents \subseteq cloud \intersect res
    /\ op[o].parents \intersect (failed \union InstanceUnderDelete) = {}

(***************************************************************************)
(* A delete call, first or retried, is made only when nothing under the    *)
(* instance is being created, mutated or deleted for the first time, and   *)
(* every dependent instance the engine has an id for is gone or has a      *)
(* delete behind it that failed (dispatchDelete, runRetries).              *)
(***************************************************************************)
ChildrenGoFirst ==
  \A i \in InstanceUnderDelete : \A c \in OpId :
    i \in op[c].parents =>
      /\ c \notin Running
      /\ op[c].kind = "create" /\ c \in cloud \intersect res =>
           \E o \in OpId : <<o, c>> \in ids \intersect deleteFailed /\ AttemptDone(o, c)

(***************************************************************************)
(* In the cloud too, and not only in the inventory the decisions are made  *)
(* on, parents come before and go after what depends on them, although     *)
(* the calls of a fan-out run concurrently, fail and are retried (await).  *)
(***************************************************************************)
CallsFollowTheGraph == ParentsOutliveCalls /\ ChildrenGoFirst

(***************************************************************************)
(* A rolling set is torn down one root at a time in the cloud too: while a *)
(* delete of the set runs, no create of the set runs and every other       *)
(* running delete of it belongs to the same root (roll's extra             *)
(* dependencies).                                                          *)
(***************************************************************************)
RollsDoNotOverlap ==
  \A o, q \in Running :
    /\ op[o].kind = "delete" /\ op[o].node \in Rolling
    /\ op[q].node \in RollSet(op[o].node)
    => /\ op[q].kind # "create"
       /\ op[q].kind = "delete" =>
            \E r \in RollRoot : {op[o].node, op[q].node} \subseteq Descendants[r]

(***************************************************************************)
(* At every moment the record lists every instance that exists, has an id  *)
(* and whose create is over, through failed deletes, retries, retries of   *)
(* retries, panics and operations a cancellation kept from running, so     *)
(* that a checkpoint never leaks what it should name (liveResources).      *)
(***************************************************************************)
RecordComplete ==
  \A i \in cloud \intersect res : Done(i) => i \in LiveResources

(***************************************************************************)
(* The result of a run lists exactly the instances the engine has an id    *)
(* for and no successful delete (liveResources after wg.Wait).             *)
(***************************************************************************)
FinalRecordExact ==
  sched = "returned" => LiveResources = res \ confirmed

(***************************************************************************)
(* The record names all that exists at every checkpoint, and in the end    *)
(* nothing else (liveResources).                                           *)
(***************************************************************************)
RecordExact == RecordComplete /\ FinalRecordExact

(***************************************************************************)
(* A retried delete is given the parents' ids the first attempt resolved:  *)
(* a map that was never filled in is never passed on (rt.prev.ids).        *)
(***************************************************************************)
RetryKnowsParents ==
  \A o \in Running : \A i \in DOMAIN op[o].retries :
    Retrying(o, i) /\ RetryCalls(o, i) => <<op[o].retries[i], i>> \in ids

(***************************************************************************)
(* No delete call is made for an instance that a delete call already       *)
(* removed, nor for one that another operation is deleting (retire,        *)
(* retryDeletes, runRetries).                                              *)
(***************************************************************************)
NoSecondDelete ==
  /\ InstanceUnderDelete \intersect confirmed = {}
  /\ \A o, q \in Running : \A i \in OpId :
       Deleting(o) /\ op[o].create = i => ~(Retrying(q, i) /\ RetryCalls(q, i))

(***************************************************************************)
(* A failed delete is retried once at a time, never after it succeeded,    *)
(* and with the parents' ids (retryDeletes, runRetries, settleRetries).    *)
(***************************************************************************)
RetriesAreSound == NoSecondDelete /\ RetryKnowsParents

(***************************************************************************)
(* After the cancellation nothing is admitted any more: no operation       *)
(* starts a cloud call, even one that already waited for its slot (await). *)
(***************************************************************************)
NothingAdmittedAfterCancel ==
  [][cancelled => {o \in OpId : pc'[o] = "run"} \subseteq Running]_vars

(***************************************************************************)
(* The decisions are those of the schedule, whatever the cloud calls do    *)
(* and whenever they finish.                                               *)
(***************************************************************************)
Schedule == INSTANCE ChurnSchedule
              WITH present <- present, mutated <- mutated, pop <- pop, rolling <- rolling
ScheduleSpec == Schedule!Spec

(***************************************************************************)
(* A cancelled run drains and returns: no wait for a dependency, gate,     *)
(* slot, token or settled retry is for ever (run, launch, await,           *)
(* settleRetries).                                                         *)
(***************************************************************************)
CancelledRunReturns == cancelled ~> sched = "returned"

(***************************************************************************)
(* What the comment on cycle() says: a create and its delete both          *)
(* succeeded.                                                              *)
(***************************************************************************)
CyclesArePairs == cycles <= Cardinality(confirmed \ failed)

=============================================================================
