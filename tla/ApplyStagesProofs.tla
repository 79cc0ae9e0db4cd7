-------------------------- MODULE ApplyStagesProofs --------------------------
(***************************************************************************)
(* For every service, every plan, any number of workers and any bound on   *)
(* the attempts: the executors that store a failing item's result lose no  *)
(* acknowledged resource, a call is made only when it is ready, and what   *)
(* Apply returns is honest.                                                *)
(*                                                                         *)
(* RecordComplete speaks of the moment Apply returns.  What is inductive   *)
(* is that an acknowledged resource is always either in Result.Created or  *)
(* in the result of a work item of the running stage.                      *)
(***************************************************************************)
EXTENDS ApplyStages, WellFoundedInduction, TLAPS

HeldBy(w) == UNION {w[i].res : i \in DOMAIN w}
NothingLost == svc \in KeepsResult => acked \subseteq created \cup HeldBy(item)
RInv == TypeOK /\ NothingLost

(***************************************************************************)
(* The stage of a running item, and the call it is at.                     *)
(***************************************************************************)
LEMMA StepIsCall ==
  ASSUME TypeOK, NEW i, Running(i)
  PROVE  /\ at \in DOMAIN Stages[svc]
         /\ i \in DOMAIN Items /\ Items \in Seq(Seq(CloudCall))
         /\ item \in [DOMAIN Items -> WorkItem]
         /\ item[i].pc \in 1..Len(Items[i])
         /\ Step(i) \in CloudCall
<1>1. at \in DOMAIN Stages[svc] /\ item \in [DOMAIN Items -> WorkItem]
      /\ i \in DOMAIN Items /\ item[i].pc \in DOMAIN Items[i]
  BY DEF TypeOK, Running, Active
<1>2. Stages[svc] \in Seq(StageRow)
  BY StagesAssumption DEF TypeOK
<1>3. Items \in Seq(Seq(CloudCall))
  <2>1. Stages[svc][at] \in StageRow
    BY <1>1, <1>2
  <2> QED BY <2>1 DEF Items, StageRow
<1>4. Items[i] \in Seq(CloudCall)
  BY <1>1, <1>3
<1>5. Step(i) \in CloudCall
  BY <1>1, <1>4 DEF Step
<1> QED BY <1>1, <1>3, <1>4, <1>5

(***************************************************************************)
(* An item that fails keeps its result and its place.                      *)
(***************************************************************************)
LEMMA FailKeeps ==
  ASSUME TypeOK, NEW i, Running(i), NEW c \in Err, Fail(i, c),
         svc' = svc, at' = at
  PROVE  /\ item' \in [DOMAIN Items -> WorkItem]
         /\ \A j \in Active' : item'[j].pc \in DOMAIN Items[j]
         /\ \A j \in DOMAIN Items \ {i} : item'[j] = item[j]
         /\ HeldBy(item') = HeldBy(item)
<1>1. item \in [DOMAIN Items -> WorkItem] /\ i \in DOMAIN Items
  BY StepIsCall
<1>2. /\ item' \in [DOMAIN Items -> WorkItem]
      /\ \A j \in DOMAIN Items : item'[j].res = item[j].res
      /\ \A j \in DOMAIN Items : item'[j].pc = item[j].pc
      /\ \A j \in DOMAIN Items : item'[j].mode \in {item[j].mode, "done"}
  BY <1>1 DEF Fail, WorkItem
<1>3. HeldBy(item') = HeldBy(item)
  BY <1>1, <1>2 DEF HeldBy
<1>4. \A j \in Active' : item'[j].pc \in DOMAIN Items[j]
  BY <1>1, <1>2 DEF Active, TypeOK, Running
<1>5. \A j \in DOMAIN Items \ {i} : item'[j] = item[j]
  BY <1>1 DEF Fail
<1> QED BY <1>2, <1>3, <1>4, <1>5

(***************************************************************************)
(* An item that goes on adds what its call created to its result.          *)
(***************************************************************************)
LEMMA AdvanceAdds ==
  ASSUME TypeOK, NEW i, Running(i), NEW got \in SUBSET Resource,
         Advance(i, got), svc' = svc, at' = at
  PROVE  /\ item' \in [DOMAIN Items -> WorkItem]
         /\ \A j \in Active' : item'[j].pc \in DOMAIN Items[j]
         /\ \A j \in DOMAIN Items \ {i} : item'[j] = item[j]
         /\ HeldBy(item') = HeldBy(item) \cup got
<1>1. /\ item \in [DOMAIN Items -> WorkItem] /\ i \in DOMAIN Items
      /\ Items \in Seq(Seq(CloudCall)) /\ item[i].pc \in 1..Len(Items[i])
  BY StepIsCall
<1>2. /\ item' \in [DOMAIN Items -> WorkItem]
      /\ item'[i].res = item[i].res \cup got
      /\ item'[i].pc = item[i].pc + 1
      /\ item'[i].mode # "done" => item[i].pc # Len(Items[i])
      /\ \A j \in DOMAIN Items \ {i} : item'[j] = item[j]
  <2> DEFINE w == item[i]
             m == IF w.pc = Len(Items[i]) THEN "done" ELSE "issue"
             moved == [w EXCEPT !.mode = m, !.pc = @ + 1, !.tries = 1,
                                !.res = @ \cup got]
  <2>1. w \in WorkItem /\ m \in {"done", "issue"}
    BY <1>1
  <2>2. item' = [item EXCEPT ![i] = moved]
    BY <1>1, <2>1 DEF Advance, WorkItem
  <2>3. m # "done" => w.pc # Len(Items[i])
    OBVIOUS
  <2> HIDE DEF w, m
  <2>4. /\ moved \in WorkItem
        /\ moved.res = w.res \cup got
        /\ moved.pc = w.pc + 1
        /\ moved.mode = m
    <3>1. w.pc + 1 \in Nat /\ w.res \cup got \in SUBSET Resource
      BY <2>1 DEF WorkItem
    <3> QED BY <2>1, <3>1 DEF WorkItem
  <2> HIDE DEF moved
  <2>5. item'[i] = moved /\ item' \in [DOMAIN Items -> WorkItem]
        /\ \A j \in DOMAIN Items \ {i} : item'[j] = item[j]
    BY <1>1, <2>2, <2>4
  <2> QED BY <2>1, <2>3, <2>4, <2>5 DEF w
<1>3. HeldBy(item') = HeldBy(item) \cup got
  BY <1>1, <1>2 DEF HeldBy
<1>4. Items[i] \in Seq(CloudCall)
  BY <1>1
<1>5. \A j \in Active' : item'[j].pc \in DOMAIN Items[j]
  <2> SUFFICES ASSUME NEW j \in Active' PROVE item'[j].pc \in DOMAIN Items[j]
    OBVIOUS
  <2>1. j \in DOMAIN Items /\ item'[j].mode \notin {"idle", "done"}
    BY <1>2 DEF Active
  <2>2. CASE j = i
    BY <2>1, <2>2, <1>1, <1>2, <1>4
  <2>3. CASE j # i
    BY <2>1, <2>3, <1>1, <1>2 DEF Active, TypeOK, Running
  <2> QED BY <2>2, <2>3
<1> QED BY <1>2, <1>3, <1>5

-----------------------------------------------------------------------------
(***************************************************************************)
(* What a step of a work item has to show.                                 *)
(***************************************************************************)
LEMMA ItemStepKeeps ==
  ASSUME RInv, NEW i, Running(i), NEW got \in SUBSET Resource,
         item' \in [DOMAIN Items -> WorkItem],
         \A j \in Active' : item'[j].pc \in DOMAIN Items[j],
         \A j \in DOMAIN Items \ {i} : item'[j] = item[j],
         HeldBy(item') = HeldBy(item) \cup got, acked' = acked \cup got,
         pending' \subseteq Resource, stop' \in BOOLEAN,
         UNCHANGED <<svc, at, phase, cancelled, next, closed, ids, created,
                     outcome>>
  PROVE  RInv'
<1>1. Items' = Items
  BY DEF Items
<1>2. \A j \in DOMAIN Items : j >= next =>
        item'[j].mode = "idle" /\ item'[j].pc = 1
  BY DEF RInv, TypeOK, Running, Active
<1>3. TypeOK'
  BY <1>1, <1>2 DEF RInv, TypeOK, Running
<1>4. NothingLost'
  BY DEF RInv, NothingLost
<1> QED BY <1>3, <1>4 DEF RInv

LEMMA ItemStepsKeep == RInv /\ (\E i \in DOMAIN item : ItemStep(i)) => RInv'
<1> SUFFICES ASSUME RInv, NEW i \in DOMAIN item, ItemStep(i) PROVE RInv'
  OBVIOUS
<1> USE DEF RInv
<1>0. Running(i) /\ TypeOK
  BY DEF ItemStep, Issue, Succeed, Gone, Retryable, BackoffOver, Rejected,
         Unready, Interrupted, Calling
<1>1. /\ item \in [DOMAIN Items -> WorkItem] /\ i \in DOMAIN Items
      /\ Step(i) \in CloudCall
      /\ \A j \in Active : item[j].pc \in DOMAIN Items[j]
      /\ stop \in BOOLEAN /\ pending \subseteq Resource
  BY <1>0, StepIsCall DEF TypeOK, Running
<1>2. ASSUME NEW c \in Err, Fail(i, c), acked' = acked, pending' = pending,
             UNCHANGED <<svc, at, phase, cancelled, next, closed, ids,
                         created, outcome>>
      PROVE  RInv'
  <2>1. Running(i) /\ svc' = svc /\ at' = at
    BY <1>0, <1>2
  <2>2. /\ item' \in [DOMAIN Items -> WorkItem]
        /\ \A j \in Active' : item'[j].pc \in DOMAIN Items[j]
        /\ \A j \in DOMAIN Items \ {i} : item'[j] = item[j]
        /\ HeldBy(item') = HeldBy(item)
    BY <1>0, <1>2, <2>1, FailKeeps
  <2>3. HeldBy(item') = HeldBy(item) \cup {} /\ acked' = acked \cup {}
    BY <1>2, <2>2
  <2>4. stop' \in BOOLEAN /\ pending' \subseteq Resource /\ {} \in SUBSET Resource
    BY <1>1, <1>2 DEF Fail
  <2> QED BY <1>2, <2>1, <2>2, <2>3, <2>4, ItemStepKeeps
<1>3. ASSUME NEW got \in SUBSET Resource, Advance(i, got),
             acked' = acked \cup got, pending' \subseteq Resource,
             UNCHANGED <<svc, at, phase, cancelled, stop, next, closed, ids,
                         created, outcome>>
      PROVE  RInv'
  BY <1>0, <1>1, <1>3, AdvanceAdds, ItemStepKeeps
<1>4. ASSUME NEW m \in {"issue", "calling", "backoff", "done"},
             NEW t \in Nat,
             item' = [item EXCEPT ![i].mode = m, ![i].tries = t],
             acked' = acked, pending' = pending,
             UNCHANGED <<svc, at, phase, cancelled, stop, next, closed, ids,
                         created, outcome>>
      PROVE  RInv'
  <2>1. /\ item' \in [DOMAIN Items -> WorkItem]
        /\ \A j \in DOMAIN Items : item'[j].res = item[j].res
        /\ \A j \in DOMAIN Items : item'[j].pc = item[j].pc
        /\ \A j \in DOMAIN Items \ {i} : item'[j].mode = item[j].mode
        /\ item'[i].mode = m
    BY <1>1, <1>4 DEF WorkItem
  <2>2. HeldBy(item') = HeldBy(item)
    BY <1>1, <2>1 DEF HeldBy
  <2>3. \A j \in Active' : item'[j].pc \in DOMAIN Items[j]
    BY <1>0, <1>1, <2>1 DEF Active, Running
  <2>4. \A j \in DOMAIN Items \ {i} : item'[j] = item[j]
    BY <1>1, <1>4
  <2>5. HeldBy(item') = HeldBy(item) \cup {} /\ acked' = acked \cup {}
    BY <1>4, <2>2
  <2>6. /\ stop' \in BOOLEAN /\ pending' \subseteq Resource
        /\ {} \in SUBSET Resource /\ Running(i)
    BY <1>0, <1>1, <1>4
  <2>7. UNCHANGED <<svc, at, phase, cancelled, next, closed, ids, created,
                    outcome>>
    BY <1>4
  <2> QED BY <2>1, <2>3, <2>4, <2>5, <2>6, <2>7, ItemStepKeeps
<1>5. item[i] \in WorkItem
  BY <1>1
<1>6. CASE Issue(i)
  BY <1>1, <1>2, <1>3, <1>4, <1>5, <1>6 DEF Issue, Err, WorkItem
<1>7. CASE Succeed(i)
  BY <1>1, <1>3, <1>7 DEF Succeed, CloudCall
<1>8. CASE Gone(i)
  BY <1>1, <1>4, <1>5, <1>8 DEF Gone, WorkItem
<1>9. CASE Retryable(i)
  BY <1>1, <1>2, <1>4, <1>5, <1>9 DEF Retryable, BackOff, Err, WorkItem
<1>10. CASE BackoffOver(i)
  BY <1>1, <1>2, <1>4, <1>5, <1>10 DEF BackoffOver, Err, WorkItem
<1>11. CASE Rejected(i)
  BY <1>2, <1>11 DEF Rejected, Err
<1>12. CASE Unready(i)
  BY <1>1, <1>3, <1>12 DEF Unready
<1>13. CASE Interrupted(i)
  BY <1>2, <1>13 DEF Interrupted, Err
<1> QED BY <1>6, <1>7, <1>8, <1>9, <1>10, <1>11, <1>12, <1>13 DEF ItemStep

(***************************************************************************)
(* A non-empty set of item indices has a first one, so that the error a    *)
(* stage returns is one of its items' errors.                              *)
(***************************************************************************)
LEMMA FirstExists ==
  ASSUME NEW S \in SUBSET Nat, S # {}
  PROVE  First(S) \in S
<1>1. \E x \in S : \A y \in S : ~ (<<y, x>> \in OpToRel(<, Nat))
  BY WFMin, NatLessThanWellFounded
<1>2. \A x, y \in S : x <= y \/ <<y, x>> \in OpToRel(<, Nat)
  <2> SUFFICES ASSUME NEW x \in S, NEW y \in S, ~(x <= y)
               PROVE  <<y, x>> \in OpToRel(<, Nat)
    OBVIOUS
  <2>1. y < x /\ <<y, x>> \in Nat \X Nat
    OBVIOUS
  <2> QED BY <2>1 DEF OpToRel
<1>3. \E x \in S : \A y \in S : x <= y
  BY <1>1, <1>2
<1> QED BY <1>3 DEF First

LEMMA StageErrorTyped ==
  ASSUME TypeOK, phase = "run"
  PROVE  StageError \in Err
<1>1. at \in DOMAIN Stages[svc] /\ item \in [DOMAIN Items -> WorkItem]
  BY DEF TypeOK
<1>2. Stages[svc] \in Seq(StageRow)
  BY StagesAssumption DEF TypeOK
<1>3. Stages[svc][at] \in StageRow
  BY <1>1, <1>2
<1>4. Items \in Seq(Seq(CloudCall))
  BY <1>3 DEF Items, StageRow
<1>5. DOMAIN Items \subseteq Nat
  BY <1>4
<1>6. Errs \subseteq DOMAIN Items
  BY <1>1 DEF Errs
<1>7. ASSUME NEW S \in SUBSET Errs, S # {}
      PROVE  item[First(S)].err \in Err
  <2>1. First(S) \in S
    BY <1>5, <1>6, <1>7, FirstExists
  <2> QED BY <2>1, <1>1, <1>6, <1>7 DEF WorkItem
<1> DEFINE real == {i \in Errs : item[i].err # "canceled"}
           seen == IF svc \in PrefersFailure /\ real # {} THEN real ELSE Errs
<1>8. seen \in SUBSET Errs
  OBVIOUS
<1>9. seen # {} => item[First(seen)].err \in Err
  BY <1>7, <1>8
<1> QED BY <1>9 DEF StageError, Err

(***************************************************************************)
(* Starting a stage gives its items empty results; collecting one moves    *)
(* every result to Result.Created.                                         *)
(***************************************************************************)
LEMMA StageStepsKeep == RInv /\ StageStep => RInv'
<1> SUFFICES ASSUME RInv, StageStep PROVE RInv'
  OBVIOUS
<1>0. TypeOK /\ NothingLost
  BY DEF RInv
<1>1. Stages[svc] \in Seq(StageRow)
  BY <1>0, StagesAssumption DEF TypeOK
<1>2. Len(Stages[svc]) \in Nat /\ DOMAIN Stages[svc] = 1..Len(Stages[svc])
  BY <1>1
<1>3. CASE SkipStage
  BY <1>0, <1>2, <1>3 DEF SkipStage, RInv, TypeOK, NothingLost, HeldBy
<1>4. CASE StartStage
  <2>1. /\ at \in DOMAIN Stages[svc] /\ Items' = Items /\ phase' = "run"
        /\ item' = [j \in DOMAIN Items |-> Idle] /\ item = <<>>
    BY <1>0, <1>2, <1>4 DEF StartStage, TypeOK, Items
  <2>2. Idle \in WorkItem /\ Idle.mode = "idle" /\ Idle.pc = 1
    BY DEF Idle, WorkItem, Err
  <2>3. /\ item' \in [DOMAIN Items -> WorkItem] /\ Active' = {}
        /\ \A j \in DOMAIN Items : item'[j].mode = "idle" /\ item'[j].pc = 1
    BY <2>1, <2>2 DEF Active
  <2>4. TypeOK'
    BY <1>0, <1>4, <2>1, <2>3 DEF StartStage, TypeOK
  <2>5. HeldBy(item) = {}
    BY <2>1 DEF HeldBy
  <2>6. NothingLost'
    BY <1>0, <1>4, <2>5 DEF StartStage, NothingLost
  <2> QED BY <2>4, <2>6 DEF RInv
<1>5. CASE RefuseStage
  BY <1>0, <1>2, <1>5 DEF RefuseStage, RInv, TypeOK, NothingLost, HeldBy, Err
<1>6. CASE ReturnNil
  BY <1>0, <1>2, <1>6 DEF ReturnNil, RInv, TypeOK, NothingLost, HeldBy
<1>7. CASE Dispatch
  <2>1. /\ phase = "run" /\ at \in DOMAIN Stages[svc] /\ Items' = Items
        /\ item \in [DOMAIN Items -> WorkItem]
        /\ \A j \in Active : item[j].pc \in DOMAIN Items[j]
        /\ \A j \in DOMAIN Items : j >= next =>
             item[j].mode = "idle" /\ item[j].pc = 1
    BY <1>0, <1>7 DEF Dispatch, TypeOK, Items
  <2>2. Stages[svc][at] \in StageRow
    BY <1>1, <2>1
  <2>3. Items \in Seq(Seq(CloudCall))
    BY <2>2 DEF Items, StageRow
  <2>4. next \in DOMAIN Items /\ next' = next + 1 /\ next \in Nat \ {0}
    <3>1. next <= Len(Items) /\ next' = next + 1 /\ next \in Nat \ {0}
      BY <1>0, <1>7 DEF Dispatch, TypeOK
    <3>2. DOMAIN Items = 1..Len(Items) /\ Len(Items) \in Nat
      BY <2>3
    <3> HIDE DEF Items
    <3> QED BY <3>1, <3>2
  <2>5. Items[next] \in Seq(CloudCall)
    BY <2>3, <2>4
  <2> DEFINE m == IF Items[next] = <<>> THEN "done" ELSE "issue"
  <2>6. /\ item' = [item EXCEPT ![next].mode = m] /\ m \in {"done", "issue"}
        /\ m # "done" => 1 \in DOMAIN Items[next]
    BY <1>7, <2>5 DEF Dispatch
  <2> HIDE DEF m
  <2>7. /\ item' \in [DOMAIN Items -> WorkItem]
        /\ \A j \in DOMAIN Items : item'[j].res = item[j].res
        /\ \A j \in DOMAIN Items : item'[j].pc = item[j].pc
        /\ \A j \in DOMAIN Items \ {next} : item'[j].mode = item[j].mode
        /\ item'[next].mode = m
    BY <2>1, <2>4, <2>6 DEF WorkItem
  <2>8. \A j \in DOMAIN Items : j \in Nat
    BY <2>3
  <2>9. \A j \in DOMAIN Items : j >= next' =>
          item'[j].mode = "idle" /\ item'[j].pc = 1
    BY <2>1, <2>4, <2>7, <2>8
  <2>10. \A j \in Active' : item'[j].pc \in DOMAIN Items[j]
    <3> SUFFICES ASSUME NEW j \in Active' PROVE item'[j].pc \in DOMAIN Items[j]
      OBVIOUS
    <3>1. j \in DOMAIN Items /\ item'[j].mode \notin {"idle", "done"}
      BY <2>7 DEF Active
    <3>2. CASE j = next
      BY <2>1, <2>4, <2>6, <2>7, <2>8, <3>1, <3>2
    <3>3. CASE j # next
      BY <2>1, <2>7, <3>1, <3>3 DEF Active
    <3> QED BY <3>2, <3>3
  <2>11. TypeOK'
    BY <1>0, <1>7, <2>1, <2>4, <2>7, <2>9, <2>10 DEF Dispatch, TypeOK
  <2>12. HeldBy(item') = HeldBy(item)
    BY <2>1, <2>7 DEF HeldBy
  <2>13. NothingLost'
    BY <1>0, <1>7, <2>12 DEF Dispatch, NothingLost
  <2> QED BY <2>11, <2>13 DEF RInv
<1>8. CASE CloseJobs
  <2>1. Items' = Items /\ Active' = Active
    BY <1>8 DEF CloseJobs, Items, Active
  <2> QED BY <1>0, <1>8, <2>1 DEF CloseJobs, RInv, TypeOK, NothingLost, HeldBy
<1>9. CASE Collect
  <2>1. /\ phase = "run" /\ at \in DOMAIN Stages[svc]
        /\ item \in [DOMAIN Items -> WorkItem] /\ item' = <<>>
        /\ phase' \in {"enter", "returned"}
    BY <1>0, <1>9 DEF Collect, TypeOK
  <2>2. HeldBy(item) \subseteq Resource /\ Results \subseteq HeldBy(item)
    BY <2>1 DEF HeldBy, Results, WorkItem
  <2>3. svc \in KeepsResult => Results = HeldBy(item)
    BY DEF HeldBy, Results
  <2>4. at' \in 1..Len(Stages[svc]) + 1
    BY <1>2, <1>9, <2>1 DEF Collect
  <2>5. StageError \in Err
    BY <1>0, <1>9, StageErrorTyped DEF Collect
  <2>6. TypeOK'
    <3>1. (cancelled \in BOOLEAN /\ stop \in BOOLEAN /\ closed \in BOOLEAN)'
      BY <1>0, <1>9, Zenon DEF Collect, TypeOK
    <3>2. /\ svc' = svc /\ next' = 1 /\ outcome' \in Err
          /\ ids' \subseteq Resource /\ created' \subseteq Resource
          /\ acked' = acked /\ pending' = pending
      BY <1>0, <1>9, <2>2, <2>5, Zenon DEF Collect, TypeOK
    <3>3. phase' # "run"
      BY <2>1
    <3> QED BY <1>0, <2>1, <2>4, <3>1, <3>2, <3>3 DEF TypeOK
  <2>7. NothingLost'
    BY <1>0, <1>9, <2>3 DEF Collect, NothingLost
  <2> QED BY <2>6, <2>7 DEF RInv
<1> QED BY <1>3, <1>4, <1>5, <1>6, <1>7, <1>8, <1>9 DEF StageStep

LEMMA RInvHolds == Spec => []RInv
<1>1. Init => RInv
  <2> SUFFICES ASSUME Init PROVE RInv
    OBVIOUS
  <2>1. Stages[svc] \in Seq(StageRow) /\ svc \in Service
    BY StagesAssumption DEF Init
  <2>2. Len(Stages[svc]) \in Nat
    BY <2>1
  <2>3. TypeOK
    <3>1. cancelled \in BOOLEAN /\ stop \in BOOLEAN /\ closed \in BOOLEAN
      BY Zenon DEF Init
    <3>2. at \in 1..Len(Stages[svc]) + 1 /\ next \in Nat \ {0}
      BY <2>2 DEF Init
    <3>3. phase \in {"enter", "run", "returned", "panicked"}
          /\ phase # "run" /\ outcome \in Err
      BY DEF Init, Err
    <3> QED BY <2>1, <3>1, <3>2, <3>3, Zenon DEF Init, TypeOK
  <2>4. NothingLost
    BY DEF Init, NothingLost
  <2> QED BY <2>3, <2>4 DEF RInv
<1>2. RInv /\ [Next]_vars => RInv'
  <2> SUFFICES ASSUME RInv, [Next]_vars PROVE RInv'
    OBVIOUS
  <2>1. CASE Cancel
    <3>1. Items' = Items /\ Active' = Active
      BY <2>1 DEF Cancel, Items, Active
    <3> QED BY <2>1, <3>1 DEF Cancel, RInv, TypeOK, NothingLost, HeldBy
  <2>2. CASE StageStep
    BY <2>2, StageStepsKeep
  <2>3. CASE \E i \in DOMAIN item : ItemStep(i)
    BY <2>3, ItemStepsKeep
  <2>4. CASE UNCHANGED vars
    <3>1. Items' = Items /\ Active' = Active
      BY <2>4 DEF vars, Items, Active
    <3> QED BY <2>4, <3>1 DEF vars, RInv, TypeOK, NothingLost, HeldBy
  <2> QED BY <2>1, <2>2, <2>3, <2>4 DEF Next
<1> QED BY <1>1, <1>2, PTL DEF Spec

(***************************************************************************)
(* Type correctness of Apply, for every table of stages.                   *)
(***************************************************************************)
THEOREM ApplyTypeCorrect == Spec => []TypeOK
<1>1. RInv => TypeOK
  BY DEF RInv
<1> QED BY <1>1, RInvHolds, PTL

(***************************************************************************)
(* When Apply returns, the result of a service that stores failing items'  *)
(* results names every acknowledged resource, for every plan and however   *)
(* failures, retries and the signal interleave.                            *)
(***************************************************************************)
THEOREM RecordIsComplete == Spec => []RecordComplete
<1>1. RInv => RecordComplete
  BY DEF RInv, TypeOK, NothingLost, RecordComplete, AllRecorded, HeldBy
<1> QED BY <1>1, RInvHolds, PTL

-----------------------------------------------------------------------------
(***************************************************************************)
(* The outcome and the readiness of the calls.  AInv is the inductive      *)
(* invariant: Fetched, the identifiers and the result hold what the stages *)
(* behind Apply created; Progress, an item's result holds what the steps   *)
(* behind it created, and an item that ended without an error went through *)
(* all of its steps; StopsForCause, a stage is stopped for a real error or *)
(* for a cancellation of Apply, and the dispatcher leaves its loop early   *)
(* only then; Spaced, an object in transition is waited for by the item    *)
(* that wrote to it, or that item failed.                                  *)
(***************************************************************************)
Fetched ==
  phase \in {"enter", "run"} =>
    outcome = "nil" /\ CreatedUntil(svc, at) \subseteq ids \cap created

WentThrough(i) ==
  /\ i < next => item[i].mode # "idle"
  /\ CreatedBefore(Items[i], item[i].pc) \subseteq item[i].res
  /\ item[i].err # "nil" => item[i].mode = "done"
  /\ item[i].mode = "done" /\ item[i].err = "nil" => CreatedIn(Items[i]) \subseteq item[i].res

Progress == phase = "run" => \A i \in DOMAIN item : WentThrough(i)

StopsForCause ==
  /\ phase # "run" => ~stop /\ ~closed /\ next = 1
  /\ Errs # {} => stop
  /\ stop /\ ~cancelled => \E i \in Errs : item[i].err # "canceled"
  /\ closed => next > Len(Items) \/ Done

Holds(i, p) ==
  \/ item[i].err # "nil" /\ p \in WrittenIn(Items[i])
  \/ i \in Active /\ Step(i).op = "once" /\ p \in Step(i).on

Spaced ==
  /\ phase = "enter" => pending = {}
  /\ phase = "run" => \A p \in pending : \E i \in DOMAIN item : Holds(i, p)

AInv == Fetched /\ Progress /\ StopsForCause /\ Spaced /\ OutcomeHonest

(***************************************************************************)
(* A stage of the running service is listed in order.                      *)
(***************************************************************************)
LEMMA StageListed ==
  ASSUME TypeOK, at \in DOMAIN Stages[svc]
  PROVE  /\ Items \in Seq(Seq(CloudCall)) /\ at \in Nat
         /\ StageInOrder(svc, at)
         /\ PlannedBy(at) = UNION {CreatedIn(Items[i]) : i \in DOMAIN Items}
         /\ CreatedUntil(svc, at + 1) = CreatedUntil(svc, at) \cup PlannedBy(at)
<1>1. Stages[svc] \in Seq(StageRow) /\ svc \in Service
  BY StagesAssumption DEF TypeOK
<1>2. Stages[svc][at] \in StageRow /\ at \in Nat /\ DOMAIN Stages[svc] \subseteq Nat
  BY <1>1
<1>3. Items \in Seq(Seq(CloudCall))
  BY <1>2 DEF Items, StageRow
<1>4. StageInOrder(svc, at)
  BY <1>1, OrderAssumption
<1>5. PlannedBy(at) = UNION {CreatedIn(Items[i]) : i \in DOMAIN Items}
  BY DEF PlannedBy, CreatedBy, Items
<1>6. {g \in DOMAIN Stages[svc] : g < at + 1} = {g \in DOMAIN Stages[svc] : g < at} \cup {at}
  BY <1>2
<1>7. CreatedUntil(svc, at + 1) = CreatedUntil(svc, at) \cup PlannedBy(at)
  BY <1>6 DEF CreatedUntil, PlannedBy
<1> QED BY <1>2, <1>3, <1>4, <1>5, <1>7

(***************************************************************************)
(* What the steps before step k + 1 created is what those before step k    *)
(* created, and what step k did.                                           *)
(***************************************************************************)
LEMMA CreatedNext ==
  ASSUME NEW steps \in Seq(CloudCall), NEW k \in DOMAIN steps
  PROVE  /\ CreatedBefore(steps, k + 1) = CreatedBefore(steps, k) \cup steps[k].new
         /\ CreatedIn(steps) = CreatedBefore(steps, Len(steps) + 1)
         /\ CreatedBefore(steps, 1) = {}
<1>1. DOMAIN steps = 1..Len(steps) /\ Len(steps) \in Nat
  OBVIOUS
<1>2. {m \in DOMAIN steps : m < k + 1} = {m \in DOMAIN steps : m < k} \cup {k}
  BY <1>1
<1>3. {m \in DOMAIN steps : m < Len(steps) + 1} = DOMAIN steps /\ {m \in DOMAIN steps : m < 1} = {}
  BY <1>1
<1> QED BY <1>2, <1>3 DEF CreatedBefore, CreatedIn

-----------------------------------------------------------------------------
(***************************************************************************)
(* The four things a step does to a work item.                             *)
(***************************************************************************)
Elsewhere(i) ==
  /\ item' \in [DOMAIN Items -> WorkItem]
  /\ \A j \in DOMAIN Items \ {i} : item'[j] = item[j]
  /\ UNCHANGED <<svc, at, phase, cancelled, next, closed, ids, created, outcome>>

GivesUp(i) ==
  /\ item'[i].mode = "done" /\ item'[i].err # "nil"
  /\ item'[i].err = "canceled" => Done
  /\ item'[i].pc = item[i].pc /\ item'[i].res = item[i].res
  /\ stop' = TRUE /\ pending' = pending

GoesOn(i) ==
  /\ item'[i].mode = IF item[i].pc = Len(Items[i]) THEN "done" ELSE "issue"
  /\ item'[i].err = item[i].err /\ item'[i].pc = item[i].pc + 1
  /\ item'[i].res = item[i].res \cup Step(i).new
  /\ UNCHANGED stop
  /\ pending' = IF Step(i).op = "once" THEN pending \ Step(i).on
                ELSE IF Step(i).op \in Retried THEN pending \cup Step(i).on
                ELSE pending'
  /\ pending' \subseteq pending \cup Step(i).on
  /\ Step(i).op \notin Retried => pending' \subseteq pending

EndsEarly(i) ==
  /\ Step(i).op = "delete"
  /\ item'[i].mode = "done" /\ item'[i].err = item[i].err
  /\ item'[i].pc = item[i].pc /\ item'[i].res = item[i].res
  /\ UNCHANGED <<stop, pending>>

StaysAtStep(i) ==
  /\ item'[i].mode \notin {"idle", "done"} /\ item'[i].err = item[i].err
  /\ item'[i].pc = item[i].pc /\ item'[i].res = item[i].res
  /\ UNCHANGED <<stop, pending>>

ItemEffect(i) ==
  Elsewhere(i) /\ (GivesUp(i) \/ GoesOn(i) \/ EndsEarly(i) \/ StaysAtStep(i))

(***************************************************************************)
(* An error ends the item, a success takes it to its next step, and any    *)
(* other move leaves it at its step or ends it there.                      *)
(***************************************************************************)
LEMMA FailGivesUp ==
  ASSUME TypeOK, NEW i, Running(i), NEW c \in Err \ {"nil"}, Fail(i, c),
         c = "canceled" => Done, pending' = pending,
         UNCHANGED <<svc, at, phase, cancelled, next, closed, ids, created, outcome>>
  PROVE  ItemEffect(i)
<1>1. item \in [DOMAIN Items -> WorkItem] /\ i \in DOMAIN Items /\ item[i] \in WorkItem
  BY StepIsCall
<1>2. /\ item'[i].mode = "done" /\ item'[i].err = c
      /\ item'[i].pc = item[i].pc /\ item'[i].res = item[i].res
  BY <1>1 DEF Fail, WorkItem
<1>3. Elsewhere(i)
  BY FailKeeps DEF Elsewhere
<1> QED BY <1>2, <1>3 DEF ItemEffect, GivesUp, Fail

LEMMA AdvanceGoesOn ==
  ASSUME TypeOK, NEW i, Running(i), Advance(i, Step(i).new),
         pending' = IF Step(i).op = "once" THEN pending \ Step(i).on
                    ELSE IF Step(i).op \in Retried THEN pending \cup Step(i).on
                    ELSE pending',
         Step(i).op \notin Retried => pending' \subseteq pending,
         UNCHANGED <<svc, at, phase, cancelled, stop, next, closed, ids, created, outcome>>
  PROVE  ItemEffect(i)
<1>1. item \in [DOMAIN Items -> WorkItem] /\ i \in DOMAIN Items /\ item[i] \in WorkItem
      /\ Step(i) \in CloudCall
  BY StepIsCall
<1> DEFINE m == IF item[i].pc = Len(Items[i]) THEN "done" ELSE "issue"
<1>2. item'[i] = [item[i] EXCEPT !.mode = m, !.pc = @ + 1, !.tries = 1, !.res = @ \cup Step(i).new]
  BY <1>1 DEF Advance
<1> HIDE DEF m
<1>3. /\ item'[i].mode = m /\ item'[i].err = item[i].err
      /\ item'[i].pc = item[i].pc + 1 /\ item'[i].res = item[i].res \cup Step(i).new
  BY <1>1, <1>2 DEF WorkItem
<1>4. Elsewhere(i)
  BY <1>1, AdvanceAdds DEF Elsewhere, CloudCall
<1>5. pending' \subseteq pending \cup Step(i).on
  OBVIOUS
<1> QED BY <1>3, <1>4, <1>5 DEF ItemEffect, GoesOn, m

LEMMA MoveStays ==
  ASSUME TypeOK, NEW i, Running(i), NEW m \in {"issue", "calling", "backoff", "done"},
         NEW t \in Nat, item' = [item EXCEPT ![i].mode = m, ![i].tries = t],
         m = "done" => Step(i).op = "delete",
         UNCHANGED <<svc, at, phase, cancelled, stop, next, closed, ids, created, outcome,
                     pending>>
  PROVE  ItemEffect(i)
<1>1. item \in [DOMAIN Items -> WorkItem] /\ i \in DOMAIN Items /\ item[i] \in WorkItem
  BY StepIsCall
<1>2. /\ item'[i].mode = m /\ item'[i].err = item[i].err
      /\ item'[i].pc = item[i].pc /\ item'[i].res = item[i].res
  BY <1>1 DEF WorkItem
<1>3. item' \in [DOMAIN Items -> WorkItem] /\ \A j \in DOMAIN Items \ {i} : item'[j] = item[j]
  BY <1>1 DEF WorkItem
<1> QED BY <1>2, <1>3 DEF ItemEffect, Elsewhere, EndsEarly, StaysAtStep

(***************************************************************************)
(* Every step of a work item is one of the four.                           *)
(***************************************************************************)
LEMMA ItemEffects ==
  ASSUME TypeOK, NEW i, ItemStep(i)
  PROVE  Running(i) /\ ItemEffect(i)
<1>0. Running(i)
  BY DEF ItemStep, Issue, Succeed, Gone, Retryable, BackoffOver, Rejected,
         Unready, Interrupted, Calling
<1>1. /\ Step(i) \in CloudCall /\ item[i] \in WorkItem
      /\ item \in [DOMAIN Items -> WorkItem] /\ i \in DOMAIN Items
      /\ item[i].pc \in DOMAIN Items[i] /\ StageInOrder(svc, at)
  BY <1>0, StepIsCall, StageListed
<1>2. Step(i).op \in {"check", "poll", "lenient"} => Step(i).new = {}
  BY <1>1 DEF StageInOrder, InOrder, Step, Items
<1>3. CASE Issue(i)
  <2>1. CASE Done
    BY <1>0, <1>3, <2>1, FailGivesUp DEF Issue, Err
  <2>2. CASE ~Done /\ Step(i).op = "check"
    <3>1. Advance(i, Step(i).new) /\ UNCHANGED <<stop, pending>>
      BY <1>2, <1>3, <2>2 DEF Issue
    <3>2. Step(i).op \notin Retried /\ Step(i).op # "once"
      BY <2>2 DEF Retried
    <3> QED BY <1>0, <1>3, <3>1, <3>2, AdvanceGoesOn DEF Issue
  <2>3. CASE ~Done /\ Step(i).op # "check"
    <3>1. item[i].tries \in Nat
      BY <1>1 DEF WorkItem
    <3>2. item' = [item EXCEPT ![i].mode = "calling", ![i].tries = item[i].tries]
      BY <1>1, <1>3, <2>3 DEF Issue, WorkItem
    <3> QED BY <1>0, <1>3, <2>3, <3>1, <3>2, MoveStays DEF Issue
  <2> QED BY <2>1, <2>2, <2>3
<1>4. CASE Succeed(i)
  <2>1. Step(i).op \in Retried \cup Waits /\ Step(i).op = "once" => Step(i).op \in Waits
    BY <1>4 DEF Succeed, Calling, Waits
  <2>2. /\ Step(i).op = "once" => pending' = pending \ Step(i).on
        /\ Step(i).op \in Retried => pending' = pending \cup Step(i).on
        /\ Step(i).op \notin Retried => pending' \subseteq pending
    BY <1>4 DEF Succeed, Calling, Retried, Waits
  <2> QED BY <1>0, <1>4, <2>2, AdvanceGoesOn DEF Succeed
<1>5. CASE Gone(i)
  <2>1. item[i].tries \in Nat /\ Step(i).op = "delete"
    BY <1>1, <1>5 DEF WorkItem, Gone, Calling
  <2>2. item' = [item EXCEPT ![i].mode = "done", ![i].tries = item[i].tries]
    BY <1>1, <1>5 DEF Gone, WorkItem
  <2> QED BY <1>0, <1>5, <2>1, <2>2, MoveStays DEF Gone
<1>6. CASE Retryable(i)
  <2>1. CASE BackOff(i) /\ UNCHANGED stop
    <3>1. item[i].tries + 1 \in Nat
      BY <1>1 DEF WorkItem
    <3>2. item' = [item EXCEPT ![i].mode = "backoff", ![i].tries = item[i].tries + 1]
      BY <1>1, <2>1 DEF BackOff, WorkItem
    <3> QED BY <1>0, <1>6, <2>1, <3>1, <3>2, MoveStays DEF Retryable
  <2>2. CASE Fail(i, "failed")
    BY <1>0, <1>6, <2>2, FailGivesUp DEF Retryable, Err
  <2> QED BY <1>6, <2>1, <2>2 DEF Retryable
<1>7. CASE BackoffOver(i)
  <2>1. CASE item' = [item EXCEPT ![i].mode = "issue"] /\ UNCHANGED stop
    <3>1. item[i].tries \in Nat
      BY <1>1 DEF WorkItem
    <3>2. item' = [item EXCEPT ![i].mode = "issue", ![i].tries = item[i].tries]
      BY <1>1, <2>1 DEF WorkItem
    <3> QED BY <1>0, <1>7, <2>1, <3>1, <3>2, MoveStays DEF BackoffOver
  <2>2. CASE Done /\ Fail(i, "canceled")
    BY <1>0, <1>7, <2>2, FailGivesUp DEF BackoffOver, Err
  <2> QED BY <1>7, <2>1, <2>2 DEF BackoffOver
<1>8. CASE Rejected(i)
  <2>1. PICK c \in {"quota", "failed"} : Fail(i, c)
    BY <1>8 DEF Rejected
  <2> QED BY <1>0, <1>8, <2>1, FailGivesUp DEF Rejected, Err
<1>9. CASE Unready(i)
  <2>1. Step(i).op \in {"poll", "lenient"} /\ Advance(i, {})
    BY <1>9 DEF Unready, Calling
  <2>2. Advance(i, Step(i).new) /\ Step(i).op \notin Retried /\ Step(i).op # "once"
    BY <1>2, <2>1 DEF Retried
  <2> QED BY <1>0, <1>9, <2>2, AdvanceGoesOn DEF Unready
<1>10. CASE Interrupted(i)
  BY <1>0, <1>10, FailGivesUp DEF Interrupted, Err
<1> QED BY <1>0, <1>3, <1>4, <1>5, <1>6, <1>7, <1>8, <1>9, <1>10 DEF ItemStep

(***************************************************************************)
(* A step of a work item preserves each part of the invariant.             *)
(***************************************************************************)
LEMMA EffectInv ==
  ASSUME TypeOK, AInv, NEW i, Running(i), ItemEffect(i), TypeOK'
  PROVE  AInv'
<1>1. /\ phase = "run" /\ phase' = "run" /\ i \in DOMAIN Items /\ i \in Active
      /\ item \in [DOMAIN Items -> WorkItem] /\ item' \in [DOMAIN Items -> WorkItem]
      /\ Items' = Items /\ Items \in Seq(Seq(CloudCall)) /\ StageInOrder(svc, at)
      /\ item[i].pc \in DOMAIN Items[i] /\ at \in DOMAIN Stages[svc]
      /\ UNCHANGED <<svc, at, phase, cancelled, next, closed, ids, created, outcome>>
      /\ \A j \in DOMAIN Items \ {i} : item'[j] = item[j]
      /\ GivesUp(i) \/ GoesOn(i) \/ EndsEarly(i) \/ StaysAtStep(i)
  BY StepIsCall, StageListed DEF ItemEffect, Elsewhere, Running, Items
<1>2. /\ item[i].mode \notin {"idle", "done"} /\ item[i].err = "nil" /\ WentThrough(i)
      /\ \A j \in DOMAIN Items : WentThrough(j)
  BY <1>1 DEF Active, AInv, Progress, WentThrough
<1>3. Items[i] \in Seq(CloudCall) /\ Len(Items[i]) \in Nat /\ DOMAIN Items[i] = 1..Len(Items[i])
  BY <1>1
<1>4. Step(i) = Items[i][item[i].pc]
  BY DEF Step
<1>5. Fetched'
  BY <1>1 DEF AInv, Fetched, CreatedUntil, CreatedBy
<1>6. OutcomeHonest'
  BY <1>1 DEF OutcomeHonest
<1>7. Progress'
  <2>1. ASSUME NEW j \in DOMAIN Items \ {i} PROVE WentThrough(j)'
    BY <1>1, <1>2 DEF WentThrough
  <2>2. CreatedBefore(Items[i], item'[i].pc) \subseteq item'[i].res
    <3>1. CreatedBefore(Items[i], item[i].pc) \subseteq item[i].res
      BY <1>2 DEF WentThrough
    <3>2. CASE GoesOn(i)
      <4>1. CreatedBefore(Items[i], item[i].pc + 1) = CreatedBefore(Items[i], item[i].pc) \cup Step(i).new
        BY <1>1, <1>3, <1>4, CreatedNext
      <4>2. item'[i].pc = item[i].pc + 1 /\ item'[i].res = item[i].res \cup Step(i).new
        BY <3>2 DEF GoesOn
      <4> QED BY <3>1, <4>1, <4>2
    <3>3. CASE GivesUp(i) \/ EndsEarly(i) \/ StaysAtStep(i)
      <4>1. item'[i].pc = item[i].pc /\ item'[i].res = item[i].res
        BY <3>3 DEF GivesUp, EndsEarly, StaysAtStep
      <4> QED BY <3>1, <4>1
    <3> QED BY <1>1, <3>2, <3>3
  <2>3. ASSUME item'[i].mode = "done", item'[i].err = "nil"
        PROVE  CreatedIn(Items[i]) \subseteq item'[i].res
    <3>1. CASE GoesOn(i)
      <4>1. item[i].pc = Len(Items[i])
        BY <2>3, <3>1 DEF GoesOn
      <4>2. item'[i].pc = Len(Items[i]) + 1
        BY <3>1, <4>1 DEF GoesOn
      <4> QED BY <1>3, <2>2, <4>2, CreatedNext, <1>1
    <3>2. CASE EndsEarly(i)
      <4>1. \A j \in DOMAIN Items[i] : j >= item[i].pc => Items[i][j].new = {}
        <5>1. Step(i).op = "delete"
          BY <3>2 DEF EndsEarly
        <5>2. InOrder(CreatedUntil(svc, at), Items[i], item[i].pc)
          BY <1>1 DEF StageInOrder, Items
        <5> QED BY <1>4, <5>1, <5>2 DEF InOrder
      <4>2. CreatedIn(Items[i]) \subseteq CreatedBefore(Items[i], item[i].pc)
        <5> SUFFICES ASSUME NEW k \in DOMAIN Items[i], NEW x \in Items[i][k].new
                     PROVE  k < item[i].pc
          BY DEF CreatedIn, CreatedBefore
        <5>1. item[i].pc \in Nat /\ k \in Nat
          BY <1>1, <1>3
        <5>2. ~(k >= item[i].pc)
          BY <4>1
        <5> QED BY <5>1, <5>2
      <4>3. item'[i].pc = item[i].pc
        BY <3>2 DEF EndsEarly
      <4> QED BY <4>2, <4>3, <2>2
    <3> QED BY <1>1, <2>3, <3>1, <3>2 DEF GivesUp, StaysAtStep
  <2>4. item'[i].mode # "idle" /\ (item'[i].err # "nil" => item'[i].mode = "done")
    BY <1>1, <1>2 DEF GivesUp, GoesOn, EndsEarly, StaysAtStep
  <2>5. WentThrough(i)'
    BY <1>1, <2>2, <2>3, <2>4 DEF WentThrough
  <2> QED BY <1>1, <2>1, <2>5 DEF Progress
<1>8. StopsForCause'
  <2>1. closed' => next' > Len(Items') \/ Done'
    BY <1>1 DEF AInv, StopsForCause, Done, GivesUp, GoesOn, EndsEarly, StaysAtStep
  <2>2. CASE GivesUp(i)
    <3>1. i \in Errs'
      BY <1>1, <2>2 DEF Errs, GivesUp
    <3>2. \A j \in Errs : j \in Errs' /\ item'[j].err = item[j].err
      BY <1>1, <1>2 DEF Errs
    <3>3. CASE item'[i].err # "canceled"
      BY <1>1, <2>1, <2>2, <3>1, <3>3 DEF StopsForCause, GivesUp
    <3>4. CASE item'[i].err = "canceled"
      BY <1>1, <2>1, <2>2, <3>2, <3>4 DEF StopsForCause, GivesUp, Done, AInv
    <3> QED BY <3>3, <3>4
  <2>3. CASE ~GivesUp(i)
    <3>1. stop' = stop /\ \A j \in DOMAIN Items : item'[j].err = item[j].err
      BY <1>1, <2>3 DEF GoesOn, EndsEarly, StaysAtStep
    <3>2. Errs' = Errs
      BY <1>1, <3>1 DEF Errs
    <3> QED BY <1>1, <2>1, <3>1, <3>2 DEF AInv, StopsForCause, Errs
  <2> QED BY <2>2, <2>3
<1>9. Spaced'
  <2> SUFFICES ASSUME NEW p \in pending' PROVE \E j \in DOMAIN item' : Holds(j, p)'
    BY <1>1 DEF Spaced
  <2>1. ASSUME NEW j \in DOMAIN Items \ {i}, Holds(j, p) PROVE Holds(j, p)'
    BY <1>1, <2>1 DEF Holds, Active, Step
  <2>2. CASE p \in pending
    <3>1. PICK j \in DOMAIN Items : Holds(j, p)
      BY <1>1, <2>2 DEF AInv, Spaced
    <3>2. CASE j = i
      <4>1. Step(i).op = "once" /\ p \in Step(i).on
        BY <1>2, <3>1, <3>2 DEF Holds
      <4>2. CASE GivesUp(i)
        <5>1. p \in WrittenIn(Items[i])
          BY <1>1, <1>4, <4>1 DEF WrittenIn
        <5> QED BY <1>1, <4>2, <5>1 DEF Holds, GivesUp
      <4>3. CASE GoesOn(i)
        BY <4>1, <4>3 DEF GoesOn
      <4>4. CASE EndsEarly(i)
        BY <4>1, <4>4 DEF EndsEarly
      <4>5. CASE StaysAtStep(i)
        BY <1>1, <4>1, <4>5 DEF StaysAtStep, Holds, Active, Step
      <4> QED BY <1>1, <4>2, <4>3, <4>4, <4>5
    <3> QED BY <1>1, <2>1, <3>1, <3>2
  <2>3. CASE p \notin pending
    <3>1. GoesOn(i) /\ Step(i).op \in Retried /\ p \in Step(i).on
      BY <1>1, <2>3 DEF GivesUp, GoesOn, EndsEarly, StaysAtStep
    <3>2. /\ item[i].pc + 1 \in DOMAIN Items[i]
          /\ Items[i][item[i].pc + 1].op = "once" /\ p \in Items[i][item[i].pc + 1].on
      BY <1>1, <1>4, <3>1 DEF StageInOrder, InOrder, Items, Retried
    <3>3. item'[i].pc = item[i].pc + 1 /\ item'[i].mode = "issue"
      BY <1>1, <1>3, <3>1, <3>2 DEF GoesOn
    <3>4. i \in Active' /\ Step(i)' = Items[i][item[i].pc + 1]
      BY <1>1, <3>3 DEF Active, Step
    <3> QED BY <1>1, <3>2, <3>4 DEF Holds
  <2> QED BY <2>2, <2>3
<1> QED BY <1>5, <1>6, <1>7, <1>8, <1>9 DEF AInv

(***************************************************************************)
(* The error a stage returns tells what happened to its items.             *)
(***************************************************************************)
LEMMA StageErrorTells ==
  ASSUME TypeOK, AInv, phase = "run"
  PROVE  /\ StageError = "nil" => Errs = {} /\ ~cancelled
         /\ StageError = "canceled" /\ svc \in PrefersFailure => cancelled
<1>1. /\ item \in [DOMAIN Items -> WorkItem] /\ Items \in Seq(Seq(CloudCall))
  BY StageListed DEF TypeOK
<1>2. Errs \subseteq DOMAIN item /\ DOMAIN item \subseteq Nat
  BY <1>1 DEF Errs
<1> DEFINE real == {i \in Errs : item[i].err # "canceled"}
           seen == IF svc \in PrefersFailure /\ real # {} THEN real ELSE Errs
<1>3. seen # {} => First(seen) \in seen
  BY <1>2, FirstExists
<1>4. ASSUME StageError = "nil" PROVE Errs = {} /\ ~cancelled
  <2>1. ~cancelled /\ (seen # {} => item[First(seen)].err = "nil")
    BY <1>4 DEF StageError
  <2>2. seen = {}
    BY <1>3, <2>1 DEF Errs
  <2> QED BY <2>1, <2>2
<1>5. ASSUME StageError = "canceled", svc \in PrefersFailure, ~cancelled PROVE FALSE
  <2>1. seen # {} /\ item[First(seen)].err = "canceled"
    BY <1>5 DEF StageError
  <2>2. real = {}
    BY <1>3, <1>5, <2>1
  <2>3. Errs # {}
    BY <2>1
  <2> QED BY <1>5, <2>2, <2>3 DEF AInv, StopsForCause
<1> QED BY <1>4, <1>5

(***************************************************************************)
(* So does a step of Apply and of runStage: collecting a stage without an  *)
(* error means that all of its items went through all of their steps.      *)
(***************************************************************************)
LEMMA StageStepInv ==
  ASSUME TypeOK, AInv, StageStep, TypeOK'
  PROVE  AInv'
<1>0. /\ Stages[svc] \in Seq(StageRow) /\ Len(Stages[svc]) \in Nat
      /\ DOMAIN Stages[svc] = 1..Len(Stages[svc]) /\ at \in 1..Len(Stages[svc]) + 1
  BY StagesAssumption DEF TypeOK
<1>1. CASE SkipStage
  <2>1. at \in DOMAIN Stages[svc] /\ Items = <<>> /\ phase = "enter" /\ at' = at + 1
    BY <1>0, <1>1 DEF SkipStage
  <2>2. PlannedBy(at) = {}
    BY <2>1, StageListed
  <2>3. CreatedUntil(svc, at + 1) = CreatedUntil(svc, at)
    BY <2>1, <2>2, StageListed
  <2>4. Fetched'
    <3>1. CreatedUntil(svc, at)' = CreatedUntil(svc, at + 1)
      BY <1>1 DEF SkipStage, CreatedUntil, CreatedBy
    <3> QED BY <1>1, <2>3, <3>1 DEF SkipStage, AInv, Fetched
  <2>5. Progress' /\ StopsForCause' /\ Spaced' /\ OutcomeHonest'
    BY <1>1, <2>1 DEF SkipStage, AInv, Progress, StopsForCause, Errs, Spaced, OutcomeHonest
  <2> QED BY <2>4, <2>5 DEF AInv
<1>2. CASE StartStage
  <2>1. /\ at \in DOMAIN Stages[svc] /\ phase = "enter" /\ phase' = "run" /\ Items' = Items
        /\ item' = [j \in DOMAIN Items |-> Idle] /\ pending' = {} /\ ~stop' /\ ~closed'
        /\ UNCHANGED <<svc, at, ids, created, outcome, cancelled, next>> /\ next \in Nat \ {0}
    BY <1>0, <1>2 DEF StartStage, AInv, Spaced, StopsForCause, TypeOK, Items
  <2>2. Items \in Seq(Seq(CloudCall))
    BY <2>1, StageListed
  <2>3. next = 1
    BY <2>1 DEF AInv, StopsForCause
  <2>4. \A j \in DOMAIN Items : CreatedBefore(Items[j], 1) = {} /\ ~(j < 1)
    <3>1. \A j \in DOMAIN Items : DOMAIN Items[j] \subseteq Nat \ {0} /\ j \in Nat \ {0}
      BY <2>2
    <3> QED BY <3>1 DEF CreatedBefore
  <2>5. Progress'
    BY <2>1, <2>3, <2>4 DEF Progress, WentThrough, Idle
  <2>6. Errs' = {}
    BY <2>1 DEF Errs, Idle
  <2>7. Fetched' /\ StopsForCause' /\ Spaced' /\ OutcomeHonest'
    BY <2>1, <2>6 DEF AInv, Fetched, CreatedUntil, CreatedBy, StopsForCause, Spaced, OutcomeHonest
  <2> QED BY <2>5, <2>7 DEF AInv
<1>3. CASE RefuseStage
  BY <1>3 DEF RefuseStage, AInv, Fetched, Progress, StopsForCause, Errs, Spaced, OutcomeHonest
<1>4. CASE ReturnNil
  <2>1. /\ phase = "enter" /\ phase' = "returned" /\ at > Len(Stages[svc])
        /\ UNCHANGED <<svc, at, stop, closed, next, item, ids, created, outcome, cancelled>>
    BY <1>4 DEF ReturnNil
  <2>2. \A n \in DOMAIN Stages[svc] : PlannedBy(n) \subseteq CreatedUntil(svc, at)
    BY <1>0, <2>1 DEF PlannedBy, CreatedUntil
  <2>3. \A n \in DOMAIN Stages[svc] : PlannedBy(n)' \subseteq created'
    BY <2>1, <2>2 DEF AInv, Fetched, PlannedBy, CreatedBy
  <2> QED BY <2>1, <2>3 DEF AInv, Fetched, Progress, StopsForCause, Errs, Spaced, OutcomeHonest
<1>5. CASE Dispatch
  <2>1. /\ phase = "run" /\ at \in DOMAIN Stages[svc] /\ Items' = Items
        /\ item \in [DOMAIN Items -> WorkItem] /\ next' = next + 1 /\ next \in Nat
        /\ next <= Len(Items) /\ ~closed /\ next \in Nat \ {0}
        /\ item[next].mode = "idle" /\ item[next].pc = 1
        /\ UNCHANGED <<svc, at, phase, cancelled, stop, closed, ids, created, outcome, pending>>
    BY <1>5 DEF Dispatch, TypeOK, Items
  <2>2. Items \in Seq(Seq(CloudCall))
    BY <2>1, StageListed
  <2>3. next \in DOMAIN Items /\ Items[next] \in Seq(CloudCall)
    BY <2>1, <2>2
  <2> DEFINE m == IF Items[next] = <<>> THEN "done" ELSE "issue"
  <2>4. /\ item' = [item EXCEPT ![next].mode = m]
    BY <1>5 DEF Dispatch
  <2>5. /\ item' \in [DOMAIN Items -> WorkItem] /\ item'[next].mode = m
        /\ item'[next].pc = 1 /\ item'[next].res = item[next].res /\ item'[next].err = item[next].err
        /\ \A j \in DOMAIN Items \ {next} : item'[j] = item[j]
    BY <2>1, <2>3, <2>4 DEF WorkItem
  <2>6. m = "done" => CreatedIn(Items[next]) = {}
    BY DEF CreatedIn
  <2>7. m # "idle"
    OBVIOUS
  <2> HIDE DEF m
  <2>8. item[next].err = "nil" /\ CreatedBefore(Items[next], 1) \subseteq item[next].res
    BY <2>1, <2>3 DEF AInv, Progress, WentThrough
  <2>9. ASSUME NEW j \in DOMAIN Items PROVE WentThrough(j)'
    <3>1. WentThrough(j) /\ j \in Nat
      BY <2>1, <2>2 DEF AInv, Progress
    <3>2. CASE j = next
      BY <2>1, <2>5, <2>6, <2>7, <2>8, <3>2 DEF WentThrough
    <3>3. CASE j # next
      BY <2>1, <2>5, <3>1, <3>3 DEF WentThrough
    <3> QED BY <3>2, <3>3
  <2>11. Progress'
    BY <2>1, <2>5, <2>9 DEF Progress
  <2>12. Errs' = Errs /\ \A j \in Errs : item'[j].err = item[j].err
    BY <2>1, <2>5, <2>8 DEF Errs
  <2>13. StopsForCause'
    BY <2>1, <2>12 DEF AInv, StopsForCause
  <2>14. \A p : \A j \in DOMAIN Items : Holds(j, p) => Holds(j, p)'
    BY <2>1, <2>5, <2>8 DEF Holds, Active, Step
  <2>15. Spaced'
    BY <2>1, <2>5, <2>14 DEF AInv, Spaced
  <2>16. Fetched' /\ OutcomeHonest'
    BY <2>1 DEF AInv, Fetched, CreatedUntil, CreatedBy, OutcomeHonest
  <2> QED BY <2>11, <2>13, <2>15, <2>16 DEF AInv
<1>6. CASE CloseJobs
  <2>1. /\ Items' = Items /\ Active' = Active /\ closed' /\ phase = "run"
        /\ next > Len(Items) \/ Done
        /\ UNCHANGED <<svc, at, phase, cancelled, stop, next, item, ids, created, outcome, pending>>
    BY <1>6 DEF CloseJobs, Items, Active
  <2> QED BY <2>1 DEF AInv, Fetched, CreatedUntil, CreatedBy, Progress, WentThrough, StopsForCause,
                      Errs, Done, Spaced, Holds, Step, OutcomeHonest
<1>7. CASE Collect
  <2>1. /\ phase = "run" /\ at \in DOMAIN Stages[svc] /\ item \in [DOMAIN Items -> WorkItem]
        /\ closed /\ Active = {} /\ ~stop' /\ next' = 1 /\ ~closed' /\ item' = <<>>
        /\ created' = created \cup Results /\ ids' = ids \cup Results
        /\ outcome' = StageError /\ UNCHANGED <<svc, cancelled, pending>>
        /\ IF StageError = "nil" THEN phase' = "enter" /\ at' = at + 1
                               ELSE phase' = "returned" /\ at' = at
    BY <1>7 DEF Collect, TypeOK
  <2>2. /\ StageError = "nil" => Errs = {} /\ ~cancelled
        /\ StageError = "canceled" /\ svc \in PrefersFailure => cancelled
    BY <2>1, StageErrorTells
  <2>3. Progress' /\ StopsForCause' /\ phase' # "run"
    BY <2>1 DEF Progress, StopsForCause, Errs
  <2>4. CASE StageError = "nil"
    <3>1. Items \in Seq(Seq(CloudCall)) /\ at \in Nat
          /\ PlannedBy(at) = UNION {CreatedIn(Items[i]) : i \in DOMAIN Items}
          /\ CreatedUntil(svc, at + 1) = CreatedUntil(svc, at) \cup PlannedBy(at)
      BY <2>1, StageListed
    <3>2. ~stop /\ ~cancelled /\ next > Len(Items) /\ Errs = {}
      BY <2>1, <2>2, <2>4 DEF AInv, StopsForCause, Done
    <3>3. ASSUME NEW i \in DOMAIN Items
          PROVE  item[i].mode = "done" /\ item[i].err = "nil"
      <4>1. i < next
        BY <3>1, <3>2 DEF TypeOK
      <4>2. item[i].mode # "idle"
        BY <2>1, <4>1 DEF AInv, Progress, WentThrough
      <4> QED BY <2>1, <3>2, <4>2 DEF Active, Errs
    <3>4. PlannedBy(at) \subseteq Results
      <4>1. \A i \in DOMAIN Items : CreatedIn(Items[i]) \subseteq item[i].res
        BY <2>1, <3>3 DEF AInv, Progress, WentThrough
      <4> QED BY <2>1, <3>1, <3>2, <4>1 DEF Results
    <3>5. CreatedUntil(svc, at + 1) \subseteq ids' \cap created'
      BY <2>1, <3>1, <3>4 DEF AInv, Fetched
    <3>6. CreatedUntil(svc, at)' = CreatedUntil(svc, at + 1)
      BY <2>1, <2>4 DEF CreatedUntil, CreatedBy
    <3>7. Fetched'
      BY <2>1, <2>4, <3>5, <3>6 DEF Fetched
    <3>8. \A p : \A i \in DOMAIN Items : ~Holds(i, p)
      BY <2>1, <3>3 DEF Holds
    <3>9. Spaced'
      BY <2>1, <2>4, <3>8 DEF AInv, Spaced
    <3> QED BY <2>1, <2>3, <2>4, <3>7, <3>9 DEF AInv, OutcomeHonest
  <2>5. CASE StageError # "nil"
    BY <2>1, <2>2, <2>3, <2>5 DEF AInv, Fetched, Spaced, OutcomeHonest
  <2> QED BY <2>4, <2>5
<1> QED BY <1>1, <1>2, <1>3, <1>4, <1>5, <1>6, <1>7 DEF StageStep

(***************************************************************************)
(* The invariant holds, beside the one above.                              *)
(***************************************************************************)
LEMMA AInvHolds == Spec => [](RInv /\ AInv)
<1>1. Init => AInv
  <2> SUFFICES ASSUME Init PROVE AInv
    OBVIOUS
  <2>1. Stages[svc] \in Seq(StageRow) /\ svc \in Service
    BY StagesAssumption DEF Init
  <2>2. DOMAIN Stages[svc] = 1..Len(Stages[svc]) /\ Len(Stages[svc]) \in Nat
    BY <2>1
  <2>3. {g \in DOMAIN Stages[svc] : g < 1} = {}
    BY <2>2
  <2>4. CreatedUntil(svc, at) = {}
    BY <2>3 DEF CreatedUntil, Init
  <2> QED BY <2>4 DEF Init, AInv, Fetched, Progress, StopsForCause, Errs, Spaced, OutcomeHonest
<1>2. RInv /\ RInv' /\ AInv /\ [Next]_vars => AInv'
  <2> SUFFICES ASSUME TypeOK, TypeOK', AInv, [Next]_vars PROVE AInv'
    BY DEF RInv
  <2>1. CASE StageStep
    BY <2>1, StageStepInv
  <2>2. CASE \E i \in DOMAIN item : ItemStep(i)
    BY <2>2, ItemEffects, EffectInv
  <2>3. CASE Cancel
    <3>1. /\ Items' = Items /\ Active' = Active /\ phase # "returned" /\ cancelled'
          /\ UNCHANGED <<svc, at, phase, stop, next, closed, item, ids, created, outcome, pending>>
      BY <2>3 DEF Cancel, Items, Active
    <3> QED BY <3>1 DEF AInv, Fetched, CreatedUntil, CreatedBy, Progress, WentThrough, StopsForCause,
                        Errs, Done, Spaced, Holds, Step, OutcomeHonest
  <2>4. CASE UNCHANGED vars
    <3>1. Items' = Items /\ Active' = Active
      BY <2>4 DEF vars, Items, Active
    <3> QED BY <2>4, <3>1 DEF vars, AInv, Fetched, CreatedUntil, CreatedBy, PlannedBy, Progress,
                        WentThrough, StopsForCause, Errs, Done, Spaced, Holds, Step, OutcomeHonest
  <2> QED BY <2>1, <2>2, <2>3, <2>4 DEF Next
<1> QED BY <1>1, <1>2, RInvHolds, PTL DEF Spec

(***************************************************************************)
(* What an active item is about to call is ready for it.                   *)
(***************************************************************************)
LEMMA CallsReadyNow == RInv /\ AInv => CallsAreReady
<1> SUFFICES ASSUME TypeOK, AInv, NEW i \in Active
             PROVE  /\ Step(i).uses \subseteq ids \cup item[i].res
                    /\ Step(i).op \in Retried =>
                         /\ Step(i).on \cap pending = {}
                         /\ \A j \in Active \ {i} : Step(i).on \cap Step(j).on = {}
  BY DEF RInv, CallsAreReady, ResolvedIDs, WritesAreSpaced
<1>1. phase = "run" /\ \A j \in Active : Running(j)
  BY DEF TypeOK, Active, Running
<1>2. /\ at \in DOMAIN Stages[svc] /\ item \in [DOMAIN Items -> WorkItem]
      /\ \A j \in Active : j \in DOMAIN Items /\ item[j].pc \in DOMAIN Items[j]
                          /\ Step(j).on \subseteq WrittenIn(Items[j])
  BY <1>1, StepIsCall DEF Step, WrittenIn, TypeOK, Active
<1>3. StageInOrder(svc, at)
  BY <1>2, StageListed
<1>4. Step(i).uses \subseteq CreatedUntil(svc, at) \cup CreatedBefore(Items[i], item[i].pc)
  BY <1>2, <1>3 DEF StageInOrder, InOrder, Step, Items
<1>5. Step(i).uses \subseteq ids \cup item[i].res
  BY <1>1, <1>2, <1>4 DEF AInv, Fetched, Progress, WentThrough
<1>6. \A j \in DOMAIN Items \ {i} : WrittenIn(Items[i]) \cap WrittenIn(Items[j]) = {}
  BY <1>2, <1>3 DEF StageInOrder, Items
<1>7. ASSUME NEW p \in pending, p \in Step(i).on, Step(i).op \in Retried PROVE FALSE
  <2>1. PICK j \in DOMAIN Items : Holds(j, p)
    BY <1>1, <1>2 DEF AInv, Spaced
  <2>2. p \in WrittenIn(Items[j])
    BY <1>2, <2>1 DEF Holds
  <2>3. j = i
    BY <1>2, <1>6, <1>7, <2>2
  <2>4. item[i].err = "nil"
    BY <1>1, <1>2 DEF AInv, Progress, WentThrough, Active
  <2> QED BY <1>7, <2>1, <2>3, <2>4 DEF Holds, Retried
<1> QED BY <1>2, <1>5, <1>6, <1>7

(***************************************************************************)
(* For every plan and every table of stages in order, a call is made only  *)
(* when every identifier it needs was obtained and what it writes to is    *)
(* not being changed, however the workers interleave, fail and are         *)
(* cancelled (Apply, runStage, the waits for ACTIVE).                      *)
(***************************************************************************)
THEOREM CallsReady == Spec => []CallsAreReady
BY AInvHolds, CallsReadyNow, PTL

(***************************************************************************)
(* Apply returns nil only if every entry of the plan was created, and an   *)
(* executor that prefers a real error returns Canceled only if the command *)
(* was cancelled (runStage).                                               *)
(***************************************************************************)
THEOREM OutcomeIsHonest == Spec => []OutcomeHonest
<1>1. AInv => OutcomeHonest
  BY DEF AInv
<1> QED BY <1>1, AInvHolds, PTL

=============================================================================
