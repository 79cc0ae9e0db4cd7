---------------------------- MODULE PressureEngine ----------------------------
(***************************************************************************)
(* The staged pressure run of internal/pressure/engine.go: closed-loop     *)
(* workers that draw one call after another while their offset lies in the *)
(* window of the current stage, a control goroutine that waits for the end *)
(* of a window, for the workers to park when the next stage has an Enter,  *)
(* runs that Enter, and releases the workers into the stage, and the       *)
(* deadline and cancellation of the run's context.                         *)
(*                                                                         *)
(* Stages are numbered from 1.  Time is counted in abstract units; a timer *)
(* may fire late, and the context's deadline is noticed by a step of its   *)
(* own.  What a call does and the drawing of its operation are left out.   *)
(***************************************************************************)
EXTENDS Integers, Sequences, FiniteSets

CONSTANTS
  Workers,    \* the workers
  Duration,   \* Duration[i]: the length of stage i's window (Stage.Duration)
  HasEnter,   \* the stages with an Enter (Stage.Enter # nil)
  Slack       \* bound: how far the clock runs past the end of the run

Stages == DOMAIN Duration
Last == Len(Duration)

ASSUME StageAssumption ==
  /\ IsFiniteSet(Workers) /\ Workers # {}
  /\ Duration \in Seq(Nat \ {0}) /\ Len(Duration) > 0
  /\ HasEnter \subseteq Stages
  /\ Slack \in Nat

\* stages.ends and windowStart: offsets at which the windows end and start.
ends[i \in 0..Last] == IF i = 0 THEN 0 ELSE ends[i - 1] + Duration[i]
windowStart(i) == ends[i - 1]

VARIABLES
  now,        \* the offset the clock shows
  ctxDone,    \* the run context's Err is not nil
  control,    \* where the control goroutine (for stage 1: Run itself) is
  stage,      \* the stage control is waiting for or entering
  offset,     \* the offset control read before it took the lock in begin
  entered,    \* stages.entered
  starts,     \* stages.starts
  released,   \* stages.released
  parked,     \* stages.parked
  allParked,  \* stages.allParked is closed
  resumed,    \* how many resume channels have been closed
  pc,         \* pc[w]: where worker w is
  waits,      \* waits[w]: the resume channel a parked worker waits on
  drawn,      \* drawn[w]: the stage and the offset of w's last admission
  stageErr    \* control returned an error

vars == <<now, ctxDone, control, stage, offset, entered, starts, released, parked,
          allParked, resumed, pc, waits, drawn, stageErr>>
controlVars == <<control, stage, offset, stageErr>>
stagesVars  == <<entered, starts, released, parked, allParked, resumed>>
workerVars  == <<pc, waits, drawn>>

End == ends[Last]
Time == 0..(End + Slack)

TypeOK ==
  /\ now \in Time /\ offset \in Time /\ released \in Time
  /\ ctxDone \in BOOLEAN /\ allParked \in BOOLEAN /\ stageErr \in BOOLEAN
  /\ control \in {"sleep", "wait", "enter", "begin", "over", "returned"}
  /\ stage \in Stages
  /\ entered \in 0..Last
  /\ starts \in [Stages -> Time]
  /\ parked \in 0..Cardinality(Workers)
  /\ resumed \in 0..Last
  /\ pc \in [Workers -> {"new", "loop", "admit", "parked", "call", "exit"}]
  /\ waits \in [Workers -> 0..Last]
  /\ drawn \in [Workers -> [stage : 0..Last, offset : Time]]

Init ==
  /\ now = 0 /\ ctxDone = FALSE
  /\ control = "enter" /\ stage = 1 /\ offset = 0 /\ stageErr = FALSE
  /\ entered = 0 /\ starts = [i \in Stages |-> 0] /\ released = 0
  /\ parked = 0 /\ allParked = FALSE /\ resumed = 0
  /\ pc = [w \in Workers |-> "new"]
  /\ waits = [w \in Workers |-> 0]
  /\ drawn = [w \in Workers |-> [stage |-> 0, offset |-> 0]]

-----------------------------------------------------------------------------
Pass ==
  /\ now < End + Slack
  /\ now' = now + 1
  /\ UNCHANGED <<ctxDone, controlVars, stagesVars, workerVars>>

\* The deadline of the run's context.
Expire ==
  /\ ~ctxDone /\ now >= End
  /\ ctxDone' = TRUE
  /\ UNCHANGED <<now, controlVars, stagesVars, workerVars>>

\* The caller's context is cancelled.
Cancel ==
  /\ ~ctxDone /\ control # "returned"
  /\ ctxDone' = TRUE
  /\ UNCHANGED <<now, controlVars, stagesVars, workerVars>>

-----------------------------------------------------------------------------
(***************************************************************************)
(* control and enterStage.                                                 *)
(***************************************************************************)
AfterSleep(i) == IF i \in HasEnter THEN "wait" ELSE "enter"

Sleep ==
  /\ control = "sleep"
  /\ \/ now >= windowStart(stage) /\ ~ctxDone /\ control' = AfterSleep(stage)
     \/ ctxDone /\ control' = "over"
  /\ UNCHANGED <<now, ctxDone, stage, offset, stageErr, stagesVars, workerVars>>

waitParked ==
  /\ control = "wait"
  /\ \/ allParked /\ ~ctxDone /\ control' = "enter"
     \/ ctxDone /\ control' = "over"
  /\ UNCHANGED <<now, ctxDone, stage, offset, stageErr, stagesVars, workerVars>>

\* Enter returns nil, or there is none: the offset is read ahead of the lock.
Enter ==
  /\ control = "enter"
  /\ control' = "begin"
  /\ offset' = now
  /\ UNCHANGED <<now, ctxDone, stage, stageErr, stagesVars, workerVars>>

\* Enter returns an error: the run is cancelled unless it already ended.
EnterFails ==
  /\ control = "enter" /\ stage \in HasEnter
  /\ control' = "over"
  /\ \/ ctxDone /\ UNCHANGED <<ctxDone, stageErr>>
     \/ ~ctxDone /\ ctxDone' = TRUE /\ stageErr' = TRUE
  /\ UNCHANGED <<now, stage, offset, stagesVars, workerVars>>

Start(i) ==
  LET start == IF i \in HasEnter THEN offset
               ELSE IF released > windowStart(i) THEN released ELSE windowStart(i)
  IN IF start >= ends[i] THEN ends[i] ELSE start

Reparked == parked   \* mutant: the count is not reset
Unparked == 0

begin ==
  /\ control = "begin"
  /\ starts' = [starts EXCEPT ![stage] = Start(stage)]
  /\ entered' = stage
  /\ released' = offset
  /\ parked' = Unparked
  /\ allParked' = FALSE
  /\ resumed' = resumed + 1
  /\ \/ stage < Last /\ stage' = stage + 1 /\ control' = "sleep"
     \/ stage = Last /\ UNCHANGED stage /\ control' = "over"
  /\ UNCHANGED <<now, ctxDone, offset, stageErr, workerVars>>

\* workers.Wait and control.Wait; without a first stage no worker starts.
Return ==
  /\ control = "over"
  /\ \A w \in Workers : pc[w] = "exit" \/ (pc[w] = "new" /\ entered = 0)
  /\ control' = "returned"
  /\ UNCHANGED <<now, ctxDone, stage, offset, stageErr, stagesVars, workerVars>>

-----------------------------------------------------------------------------
(***************************************************************************)
(* work and admit.                                                         *)
(***************************************************************************)
Goto(w, where) == pc' = [pc EXCEPT ![w] = where]

StartWorker(w) ==
  /\ pc[w] = "new" /\ entered > 0
  /\ Goto(w, "loop")
  /\ UNCHANGED <<now, ctxDone, controlVars, stagesVars, waits, drawn>>

Loop(w) ==
  /\ pc[w] = "loop"
  /\ Goto(w, IF ctxDone THEN "exit" ELSE "admit")
  /\ UNCHANGED <<now, ctxDone, controlVars, stagesVars, waits, drawn>>

Admit(w) ==
  /\ pc[w] = "admit" /\ now < ends[entered]
  /\ Goto(w, "call")
  /\ drawn' = [drawn EXCEPT ![w] = [stage |-> entered, offset |-> now]]
  /\ UNCHANGED <<now, ctxDone, controlVars, stagesVars, waits>>

NoMoreStages(w) ==
  /\ pc[w] = "admit" /\ now >= ends[entered] /\ entered = Last
  /\ Goto(w, "exit")
  /\ UNCHANGED <<now, ctxDone, controlVars, stagesVars, waits, drawn>>

Park(w) ==
  /\ pc[w] = "admit" /\ now >= ends[entered] /\ entered < Last
  /\ Goto(w, "parked")
  /\ waits' = [waits EXCEPT ![w] = resumed]
  /\ parked' = parked + 1
  /\ allParked' = (parked' = Cardinality(Workers))
  /\ UNCHANGED <<now, ctxDone, controlVars, entered, starts, released, resumed, drawn>>

WakeWaitsOn(w) ==   \* mutant: a worker parked when the run ends waits on
  /\ pc[w] = "parked"
  /\ resumed > waits[w] \/ ctxDone
  /\ Goto(w, IF ctxDone THEN "parked" ELSE "admit")
  /\ UNCHANGED <<now, ctxDone, controlVars, stagesVars, waits, drawn>>

Wake(w) ==
  /\ pc[w] = "parked"
  /\ resumed > waits[w] \/ ctxDone
  /\ Goto(w, IF ctxDone THEN "exit" ELSE "admit")
  /\ UNCHANGED <<now, ctxDone, controlVars, stagesVars, waits, drawn>>

\* A call returns, at its own timeout at the latest, and is recorded.
CallReturns(w) ==
  /\ pc[w] = "call"
  /\ Goto(w, "loop")
  /\ UNCHANGED <<now, ctxDone, controlVars, stagesVars, waits, drawn>>

Work(w) ==
  \/ StartWorker(w) \/ Loop(w) \/ Admit(w) \/ NoMoreStages(w)
  \/ Park(w) \/ Wake(w) \/ CallReturns(w)

Control == Sleep \/ waitParked \/ Enter \/ EnterFails \/ begin \/ Return

Terminated == control = "returned" /\ UNCHANGED vars

Next ==
  \/ Pass \/ Expire \/ Cancel
  \/ Sleep \/ waitParked \/ Enter \/ EnterFails \/ begin \/ Return
  \/ \E w \in Workers : Work(w)
  \/ Terminated

Spec == Init /\ [][Next]_vars

(***************************************************************************)
(* Time passes, the deadline is noticed, goroutines run, an Enter returns  *)
(* (it must, once the context ends) and so does a call (OpTimeout).  A     *)
(* worker may draw any number of calls within one unit of time.            *)
(***************************************************************************)
Fairness ==
  /\ WF_vars(Pass) /\ WF_vars(Expire) /\ WF_vars(Control)
  /\ \A w \in Workers : WF_vars(Work(w))

FairSpec == Spec /\ Fairness

-----------------------------------------------------------------------------
(***************************************************************************)
(* No operation is in flight while a stage's Enter runs, and none starts   *)
(* before it returns (Stage, waitParked).                                  *)
(***************************************************************************)
QuietEnter ==
  control = "enter" /\ stage \in HasEnter => \A w \in Workers : pc[w] # "call"

(***************************************************************************)
(* Every call a stage records started in [Start, end of the window) of     *)
(* that stage, however long the worker was parked (admit).                 *)
(***************************************************************************)
DrawnInWindow ==
  \A w \in Workers : pc[w] = "call" =>
    LET d == drawn[w]
    IN starts[d.stage] <= d.offset /\ d.offset < ends[d.stage]

(***************************************************************************)
(* A snapshot never shows a stage of negative length nor two stages that   *)
(* overlap: a Start lies in the stage's own window and is not ahead of the *)
(* clock (begin, snapshot).                                                *)
(***************************************************************************)
WindowsSound ==
  \A i \in 1..entered :
    /\ windowStart(i) <= starts[i] /\ starts[i] <= ends[i]
    /\ starts[i] <= now

(***************************************************************************)
(* The counter that closes allParked counts the workers parked since the   *)
(* current stage was entered, each once (admit, begin).                    *)
(***************************************************************************)
ParkedCounts ==
  /\ parked = Cardinality({w \in Workers : pc[w] \in {"parked", "exit"} /\ waits[w] = resumed})
  /\ allParked => parked = Cardinality(Workers)

(***************************************************************************)
(* Once an Enter has failed no call is in flight any more: the workers it  *)
(* kept waiting leave without another draw (enterStage, admit).            *)
(***************************************************************************)
NoCallAfterFailedEnter == stageErr => \A w \in Workers : pc[w] # "call"

(***************************************************************************)
(* The stages keep apart: what a stage sets up in Enter, the calls drawn   *)
(* for it and the window it is reported for never mix with another's,      *)
(* however late a worker parks, wakes or is admitted (Stage).              *)
(***************************************************************************)
StagesKeepApart == QuietEnter /\ DrawnInWindow /\ WindowsSound /\ NoCallAfterFailedEnter

(***************************************************************************)
(* Every run returns: no worker waits for a stage that is never entered,   *)
(* and the control goroutine does not wait for a worker that has left.     *)
(***************************************************************************)
RunReturns == <>(control = "returned")

=============================================================================
