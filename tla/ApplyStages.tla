----------------------------- MODULE ApplyStages -----------------------------
(***************************************************************************)
(* Apply, the one-shot execution of a plan: the staged executor every      *)
(* service has a copy of (internal/executor and internal/*/executor).      *)
(*                                                                         *)
(* Apply walks a list of stages.  runStage runs the work items of a stage  *)
(* on a bounded pool of workers fed by a dispatcher; the first error       *)
(* cancels the stage, what was created is appended to the result, and the  *)
(* identifiers a stage obtained are resolved by the creates of the later   *)
(* ones.  A work item is a sequence of steps, each a call to the cloud:    *)
(*                                                                         *)
(*   create   WithRetry around a create; a success adds step.r             *)
(*   call     WithRetry around an operation that creates nothing           *)
(*   delete   like call, where 404 ends the item at once with success      *)
(*   poll     a readiness wait only a cancellation can fail (Neutron)      *)
(*   lenient  a readiness wait that tolerates a missed deadline            *)
(*   once     a bounded call or wait, not retried, every error of which is *)
(*            fatal; a success adds step.r when the step names a new one   *)
(*   check    an explicit look at ctx.Err() before the next write          *)
(*                                                                         *)
(* step.uses are the resources whose identifiers the call needs, step.on   *)
(* the objects the call leaves in a transitional state (a load balancer).  *)
(***************************************************************************)
EXTENDS Integers, Sequences, FiniteSets

CONSTANTS
  Service,          \* the services whose executor is explored
  Resource,         \* the resources a plan can create
  Stages,           \* Stages[s]: the stages of the Apply of service s
  KeepsResult,      \* services whose runStage stores a failing item's result
  PrefersFailure,   \* services whose runStage prefers a real error to Canceled
  ConflictAttempts, \* [Service -> attempts of a create answered with a 409]
  MaxAttempts,      \* maxAttempts of WithRetry
  Concurrency       \* workers of a stage (--concurrency)

Op == {"create", "call", "delete", "poll", "lenient", "once", "check"}
CloudCall == [op : Op, new : SUBSET Resource, uses : SUBSET Resource,
              on : SUBSET Resource]

StageRow == [items : Seq(Seq(CloudCall)), indexed : BOOLEAN]

ASSUME StagesAssumption == Stages \in [Service -> Seq(StageRow)]

(***************************************************************************)
(* What the stages of a service owe to the order in which Apply lists      *)
(* them, before anything runs: an identifier is obtained by an earlier     *)
(* stage, or earlier in the work item, than the call that needs it;        *)
(* nothing is created by a readiness wait that may be given up, nor after  *)
(* a delete that may end the item; a write that leaves an object in        *)
(* transition is followed by the wait for it; and two work items of a      *)
(* stage do not write to one object.                                       *)
(***************************************************************************)
CreatedIn(steps) == UNION {steps[k].new : k \in DOMAIN steps}
CreatedBefore(steps, k) == UNION {steps[j].new : j \in {m \in DOMAIN steps : m < k}}
CreatedBy(s, n) ==
  UNION {CreatedIn(Stages[s][n].items[i]) : i \in DOMAIN Stages[s][n].items}
CreatedUntil(s, n) == UNION {CreatedBy(s, m) : m \in {g \in DOMAIN Stages[s] : g < n}}
WrittenIn(steps) == UNION {steps[k].on : k \in DOMAIN steps}

InOrder(known, steps, k) ==
  /\ steps[k].uses \subseteq known \cup CreatedBefore(steps, k)
  /\ steps[k].op \in {"check", "poll", "lenient"} => steps[k].new = {}
  /\ steps[k].op = "delete" => \A j \in DOMAIN steps : j >= k => steps[j].new = {}
  /\ steps[k].op \in {"create", "call", "delete"} /\ steps[k].on # {} =>
       /\ k + 1 \in DOMAIN steps
       /\ steps[k + 1].op = "once" /\ steps[k].on \subseteq steps[k + 1].on

StageInOrder(s, n) ==
  LET items == Stages[s][n].items
  IN \A i \in DOMAIN items :
       /\ \A k \in DOMAIN items[i] : InOrder(CreatedUntil(s, n), items[i], k)
       /\ \A j \in DOMAIN items \ {i} : WrittenIn(items[i]) \cap WrittenIn(items[j]) = {}

ASSUME OrderAssumption ==
  \A s \in Service : \A n \in DOMAIN Stages[s] : StageInOrder(s, n)

ASSUME ApplyAssumption ==
  /\ MaxAttempts \in Nat \ {0}
  /\ Concurrency \in Nat \ {0}
  /\ ConflictAttempts \in [Service -> 1..MaxAttempts]
  /\ KeepsResult \subseteq Service
  /\ PrefersFailure \subseteq Service

VARIABLES
  svc,        \* the service
  at,         \* the stage Apply is in or about to enter
  phase,      \* "enter" (between stages), "run", "returned", "panicked"
  cancelled,  \* the context of Apply is cancelled (a signal)
  stop,       \* cancel() of the running stage was called
  next,       \* the next item the dispatcher hands out
  closed,     \* the dispatcher has left its loop
  item,       \* the work items of the running stage
  ids,        \* resources whose identifiers later stages can resolve
  created,    \* Result.Created
  outcome,    \* the error Apply returned, "nil" for none
  acked,      \* history: resources whose create was acknowledged
  pending     \* external: objects in a transitional state after a write

vars == <<svc, at, phase, cancelled, stop, next, closed, item, ids, created,
          outcome, acked, pending>>

-----------------------------------------------------------------------------
Items == Stages[svc][at].items
Indexed == Stages[svc][at].indexed
Step(i) == Items[i][item[i].pc]

(***************************************************************************)
(* stageCtx.Done(): the stage was cancelled, or the context above it.      *)
(***************************************************************************)
Done == stop \/ cancelled

Idle == [mode |-> "idle", pc |-> 1, tries |-> 1, res |-> {}, err |-> "nil"]
Active == {i \in DOMAIN item : item[i].mode \notin {"idle", "done"}}

Init ==
  /\ svc \in Service
  /\ at = 1
  /\ phase = "enter"
  /\ cancelled = FALSE
  /\ stop = FALSE
  /\ next = 1
  /\ closed = FALSE
  /\ item = <<>>
  /\ ids = {}
  /\ created = {}
  /\ outcome = "nil"
  /\ acked = {}
  /\ pending = {}

(***************************************************************************)
(* SIGINT or SIGTERM cancels the context of the command.                   *)
(***************************************************************************)
Cancel ==
  /\ phase \in {"enter", "run"}
  /\ ~cancelled
  /\ cancelled' = TRUE
  /\ UNCHANGED <<svc, at, phase, stop, next, closed, item, ids, created,
                 outcome, acked, pending>>

-----------------------------------------------------------------------------
(***************************************************************************)
(* runStage and the code of Apply around it.                               *)
(***************************************************************************)
SkipStage ==   \* no items: nil, nil
  /\ phase = "enter" /\ at <= Len(Stages[svc]) /\ Items = <<>>
  /\ at' = at + 1
  /\ UNCHANGED <<svc, phase, cancelled, stop, next, closed, item, ids,
                 created, outcome, acked, pending>>

StartStage ==
  /\ phase = "enter" /\ at <= Len(Stages[svc]) /\ Items # <<>>
  /\ ~cancelled
  /\ phase' = "run"
  /\ item' = [i \in DOMAIN Items |-> Idle]
  /\ UNCHANGED <<svc, at, cancelled, stop, next, closed, ids, created,
                 outcome, acked, pending>>

(***************************************************************************)
(* The context is already cancelled: runStage returns a nil slice and the  *)
(* error.  An Apply that indexes the slice before it looks at the error    *)
(* panics; the others return.                                              *)
(***************************************************************************)
RefuseStage ==
  /\ phase = "enter" /\ at <= Len(Stages[svc]) /\ Items # <<>>
  /\ cancelled
  /\ IF Indexed
     THEN phase' = "panicked" /\ UNCHANGED outcome
     ELSE phase' = "returned" /\ outcome' = "canceled"
  /\ UNCHANGED <<svc, at, cancelled, stop, next, closed, item, ids, created,
                 acked, pending>>

ReturnNil ==
  /\ phase = "enter" /\ at > Len(Stages[svc])
  /\ phase' = "returned"
  /\ UNCHANGED <<svc, at, cancelled, stop, next, closed, item, ids, created,
                 outcome, acked, pending>>

(***************************************************************************)
(* The dispatcher's select: an idle worker takes the next item, or the     *)
(* stage context is done.  With both ready either branch is taken.         *)
(***************************************************************************)
Dispatch ==
  /\ phase = "run" /\ ~closed
  /\ next <= Len(Items)
  /\ Cardinality(Active) < Concurrency
  /\ item' = [item EXCEPT ![next].mode =
                 IF Items[next] = <<>> THEN "done" ELSE "issue"]
  /\ next' = next + 1
  /\ UNCHANGED <<svc, at, phase, cancelled, stop, closed, ids, created,
                 outcome, acked, pending>>

CloseJobs ==
  /\ phase = "run" /\ ~closed
  /\ next > Len(Items) \/ Done
  /\ closed' = TRUE
  /\ UNCHANGED <<svc, at, phase, cancelled, stop, next, item, ids, created,
                 outcome, acked, pending>>

(***************************************************************************)
(* The error runStage returns: a quota error first, then the context's,    *)
(* then the first error in item order, skipping Canceled where the         *)
(* service prefers a real failure.                                         *)
(***************************************************************************)
Errs == {i \in DOMAIN item : item[i].err # "nil"}
First(S) == CHOOSE i \in S : \A j \in S : i <= j
StageErrorInOrder ==   \* mutant: the first error in item order, whatever it is
  IF \E i \in Errs : item[i].err = "quota" THEN "quota"
  ELSE IF cancelled THEN "canceled"
  ELSE IF Errs # {} THEN item[First(Errs)].err
  ELSE "nil"
StageError ==
  LET real == {i \in Errs : item[i].err # "canceled"}
      seen == IF svc \in PrefersFailure /\ real # {} THEN real ELSE Errs
  IN IF \E i \in Errs : item[i].err = "quota" THEN "quota"
     ELSE IF cancelled THEN "canceled"
     ELSE IF seen # {} THEN item[First(seen)].err
     ELSE "nil"

(***************************************************************************)
(* results: what each item produced.  Neutron's worker skips the store for *)
(* an item that failed.                                                    *)
(***************************************************************************)
ResultsOfSucceeded ==   \* mutant: every service skips the failed items
  UNION {item[i].res : i \in DOMAIN item \ Errs}
Results ==
  UNION {item[i].res : i \in IF svc \in KeepsResult THEN DOMAIN item
                                                    ELSE DOMAIN item \ Errs}

(***************************************************************************)
(* wg.Wait() is over: append what was created, then return the error or    *)
(* fill the identifier map and go on.                                      *)
(***************************************************************************)
Collect ==
  /\ phase = "run" /\ closed
  /\ Active = {}
  /\ created' = created \cup Results
  /\ ids' = ids \cup Results
  /\ outcome' = StageError
  /\ IF StageError = "nil"
     THEN phase' = "enter" /\ at' = at + 1
     ELSE phase' = "returned" /\ at' = at
  /\ stop' = FALSE /\ next' = 1 /\ closed' = FALSE /\ item' = <<>>
  /\ UNCHANGED <<svc, cancelled, acked, pending>>

-----------------------------------------------------------------------------
(***************************************************************************)
(* A work item.  An error ends it and cancels the stage.                   *)
(***************************************************************************)
Fail(i, class) ==
  /\ item' = [item EXCEPT ![i].mode = "done", ![i].err = class]
  /\ stop' = TRUE

Advance(i, got) ==
  LET last == item[i].pc = Len(Items[i]) IN
  item' = [item EXCEPT ![i].mode = IF last THEN "done" ELSE "issue",
                       ![i].pc = @ + 1,
                       ![i].tries = 1,
                       ![i].res = @ \cup got]

Running(i) == phase = "run" /\ i \in Active

(***************************************************************************)
(* Each call starts under the stage context, which fails it at once when   *)
(* it is done.  A check is only that look.                                 *)
(***************************************************************************)
Issue(i) ==
  /\ Running(i) /\ item[i].mode = "issue"
  /\ IF Done THEN Fail(i, "canceled")
     ELSE /\ IF Step(i).op = "check" THEN Advance(i, {})
             ELSE item' = [item EXCEPT ![i].mode = "calling"]
          /\ UNCHANGED stop
  /\ UNCHANGED <<svc, at, phase, cancelled, next, closed, ids, created,
                 outcome, acked, pending>>

Calling(i, ops) ==
  Running(i) /\ item[i].mode = "calling" /\ Step(i).op \in ops

(***************************************************************************)
(* The call succeeds: a create is acknowledged with its identifier.  The   *)
(* write leaves its objects in transition; the wait after it sees them     *)
(* settled.                                                                *)
(***************************************************************************)
Retried == {"create", "call", "delete"}
Waits == {"poll", "lenient", "once"}
Succeed(i) ==
  /\ Calling(i, Retried \cup Waits)
  /\ Advance(i, Step(i).new)
  /\ acked' = acked \cup Step(i).new
  /\ pending' = IF Step(i).op \in Waits THEN pending \ Step(i).on
                                         ELSE pending \cup Step(i).on
  /\ UNCHANGED <<svc, at, phase, cancelled, stop, next, closed, ids, created,
                 outcome>>

(***************************************************************************)
(* A delete answered with 404 ends the item.                               *)
(***************************************************************************)
Gone(i) ==
  /\ Calling(i, {"delete"})
  /\ item' = [item EXCEPT ![i].mode = "done"]
  /\ UNCHANGED <<svc, at, phase, cancelled, stop, next, closed, ids, created,
                 outcome, acked, pending>>

(***************************************************************************)
(* An attempt fails with a retryable answer: back off while attempts are   *)
(* left (fewer for a conflict), else give the error up.                    *)
(***************************************************************************)
Attempts(class) ==
  IF class = "conflict" THEN ConflictAttempts[svc] ELSE MaxAttempts
BackOffUncounted(i) == item' = [item EXCEPT ![i].mode = "backoff"]   \* mutant
BackOff(i) ==
  item' = [item EXCEPT ![i].mode = "backoff", ![i].tries = @ + 1]
Retryable(i) ==
  /\ Calling(i, Retried)
  /\ \E class \in {"transient", "conflict"} :
       IF item[i].tries < Attempts(class)
       THEN BackOff(i) /\ UNCHANGED stop
       ELSE Fail(i, "failed")
  /\ UNCHANGED <<svc, at, phase, cancelled, next, closed, ids, created,
                 outcome, acked, pending>>

(***************************************************************************)
(* The backoff is a select over the timer and the context.                 *)
(***************************************************************************)
BackoffOver(i) ==
  /\ Running(i) /\ item[i].mode = "backoff"
  /\ \/ item' = [item EXCEPT ![i].mode = "issue"] /\ UNCHANGED stop
     \/ Done /\ Fail(i, "canceled")
  /\ UNCHANGED <<svc, at, phase, cancelled, next, closed, ids, created,
                 outcome, acked, pending>>

(***************************************************************************)
(* An answer that is not retried: quota (Keystone: 403), any other error,  *)
(* the deadline of the attempt.                                            *)
(***************************************************************************)
Rejected(i) ==
  /\ Calling(i, Retried \cup {"lenient", "once"})
  /\ \E class \in IF Step(i).op \in Retried THEN {"quota", "failed"}
                                            ELSE {"failed"} : Fail(i, class)
  /\ UNCHANGED <<svc, at, phase, cancelled, next, closed, ids, created,
                 outcome, acked, pending>>

(***************************************************************************)
(* A readiness wait misses its deadline while the stage is live: tolerated.*)
(***************************************************************************)
UnreadyAnyWait(i) ==   \* mutant: a missed deadline is never fatal
  /\ Calling(i, Waits)
  /\ ~Done
  /\ Advance(i, {})
  /\ UNCHANGED <<svc, at, phase, cancelled, stop, next, closed, ids, created,
                 outcome, acked, pending>>

Unready(i) ==
  /\ Calling(i, {"poll", "lenient"})
  /\ ~Done
  /\ Advance(i, {})
  /\ UNCHANGED <<svc, at, phase, cancelled, stop, next, closed, ids, created,
                 outcome, acked, pending>>

(***************************************************************************)
(* The context ends a call or a wait under way.                            *)
(***************************************************************************)
Interrupted(i) ==
  /\ Calling(i, Retried \cup Waits)
  /\ Done
  /\ Fail(i, "canceled")
  /\ UNCHANGED <<svc, at, phase, cancelled, next, closed, ids, created,
                 outcome, acked, pending>>

ItemStep(i) ==
  \/ Issue(i) \/ Succeed(i) \/ Gone(i) \/ Retryable(i) \/ BackoffOver(i)
  \/ Rejected(i) \/ Unready(i) \/ Interrupted(i)

StageStep ==
  \/ SkipStage \/ StartStage \/ RefuseStage \/ ReturnNil
  \/ Dispatch \/ CloseJobs \/ Collect

Next == Cancel \/ StageStep \/ \E i \in DOMAIN item : ItemStep(i)

Spec == Init /\ [][Next]_vars

(***************************************************************************)
(* Every call and every wait is bounded by opTimeout and every backoff by  *)
(* a timer, and the goroutines of a stage are scheduled.  Nothing obliges  *)
(* a signal to come.                                                       *)
(***************************************************************************)
FairSpec == Spec /\ WF_vars(StageStep \/ \E i \in DOMAIN item : ItemStep(i))

-----------------------------------------------------------------------------
Err == {"nil", "quota", "canceled", "failed"}
WorkItem == [mode : {"idle", "issue", "calling", "backoff", "done"},
             pc : Nat, tries : Nat, res : SUBSET Resource, err : Err]

(***************************************************************************)
(* Types: work items exist only while their stage runs, one for each entry *)
(* of the stage; an item at work is at one of its steps, and one not yet   *)
(* dispatched is untouched.                                                *)
(***************************************************************************)
TypeOK ==
  /\ svc \in Service
  /\ at \in 1..Len(Stages[svc]) + 1
  /\ phase \in {"enter", "run", "returned", "panicked"}
  /\ cancelled \in BOOLEAN /\ stop \in BOOLEAN /\ closed \in BOOLEAN
  /\ next \in Nat \ {0}
  /\ ids \subseteq Resource /\ created \subseteq Resource
  /\ acked \subseteq Resource /\ pending \subseteq Resource
  /\ outcome \in Err
  /\ phase = "run" =>
       /\ at \in DOMAIN Stages[svc]
       /\ item \in [DOMAIN Items -> WorkItem]
       /\ \A i \in Active : item[i].pc \in DOMAIN Items[i]
       /\ \A i \in DOMAIN item : i >= next =>
            item[i].mode = "idle" /\ item[i].pc = 1
  /\ phase # "run" => item = <<>>

(***************************************************************************)
(* A call is only made when every identifier it needs was obtained: by an  *)
(* earlier stage (the ids map and the ByLogical maps of Apply, filled      *)
(* between stages) or earlier in the same work item.  The code never       *)
(* checks: a missing key reads as the empty string.                        *)
(***************************************************************************)
ResolvedIDs ==
  \A i \in Active : item[i].mode = "calling" =>
    Step(i).uses \subseteq ids \cup item[i].res

(***************************************************************************)
(* When Apply returns, by whatever path, the result names every resource   *)
(* the cloud acknowledged: what the run record and the reclaim of untagged *)
(* resources are built from.                                               *)
(***************************************************************************)
AllRecorded == phase = "returned" => acked \subseteq created

(***************************************************************************)
(* The services whose runStage stores a failing item's result record       *)
(* every acknowledged resource, also one whose readiness wait was cut      *)
(* short by a sibling's failure or by a signal.                            *)
(***************************************************************************)
RecordComplete == svc \in KeepsResult => AllRecorded

(***************************************************************************)
(* What Apply returns is honest: nil only if every step of the plan was    *)
(* gone through (no item was skipped by a dispatcher that lost the race    *)
(* with the cancellation), and, where a real failure is preferred,         *)
(* Canceled only if the context of Apply was cancelled.                    *)
(***************************************************************************)
PlannedBy(n) == CreatedBy(svc, n)
OutcomeHonest ==
  phase = "returned" =>
    /\ outcome = "nil" =>
         \A n \in DOMAIN Stages[svc] : PlannedBy(n) \subseteq created
    /\ outcome = "canceled" /\ svc \in PrefersFailure => cancelled

(***************************************************************************)
(* No write reaches a load balancer while an earlier one is being applied  *)
(* to it or is under way: every write of a group waits for ACTIVE before   *)
(* the next, and one work item per load balancer does all of its writes.   *)
(***************************************************************************)
WritesAreSpaced ==
  \A i \in Active : item[i].mode = "calling" /\ Step(i).op \in Retried =>
    /\ Step(i).on \cap pending = {}
    /\ \A j \in Active \ {i} :
         item[j].mode = "calling" => Step(i).on \cap Step(j).on = {}

(***************************************************************************)
(* A call is made only when the cloud can serve it: what it names was      *)
(* created, and what it writes to is not being changed (Apply's stages).   *)
(***************************************************************************)
CallsAreReady == ResolvedIDs /\ WritesAreSpaced

(***************************************************************************)
(* A cancelled context makes Apply return its error; it never takes the    *)
(* process down ("ctx cancellation returns ctx.Err()").                    *)
(***************************************************************************)
NeverPanics == phase # "panicked"

(***************************************************************************)
(* Apply comes to an end whatever the cloud answers and whenever the       *)
(* signal comes.                                                           *)
(***************************************************************************)
ApplyReturns == <>(phase \in {"returned", "panicked"})

=============================================================================
