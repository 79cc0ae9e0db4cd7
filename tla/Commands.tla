------------------------------ MODULE Commands ------------------------------
(***************************************************************************)
(* The dizzy commands that create and delete: apply, chaos and monitor of  *)
(* every service, mix chaos, and the cleanup commands.  An operator starts *)
(* one after the other; each is the script of its RunE (CommandTables).    *)
(* Signals, kills and failing calls come at any step.  What survives a     *)
(* process is the cloud and the run records on disk.                       *)
(*                                                                         *)
(* Apply, the churn engine and Cleanup have modules of their own.  Here a  *)
(* create takes effect in the cloud, gets the run's identity with it or by *)
(* a second request, and its answer makes it known to the process; a       *)
(* cleanup of a lane deletes what it found when it started, in any order   *)
(* (what goes along with a network or a load balancer is Cleanup's).  A    *)
(* single-service command is a run with one lane.                          *)
(***************************************************************************)
EXTENDS CommandTables, Integers, FiniteSets

CONSTANTS
  Services,    \* the services, or "mix", a session is about
  LanesOf,     \* LanesOf[s]: the lanes of a run, in order
  ServiceOf,   \* ServiceOf[l]: the service of a lane, "persona" for a persona
  Copies,      \* Copies[l]: how many resources of each kind lane l creates
  Options,     \* Options[c]: the flags command c is started with
  MaxRuns,     \* MaxRuns[s]: bound on the run ids of a session
  MaxCommands, \* bound on commands of a session
  MaxFaults    \* bound on failing calls, lost answers and kills

ASSUME CommandsAssumption ==
  /\ \A s \in Services : MaxRuns[s] \in Nat /\ LanesOf[s] \in Seq(DOMAIN Copies)
  /\ MaxCommands \in Nat /\ MaxFaults \in Nat

\* What a lane creates has an identity, or a place in the record that its
\* cleanup reads.  (A rule or a listener has neither and goes with its parent.)
ASSUME LanesAssumption ==
  \A l \in DOMAIN Copies :
    /\ ServiceOf[l] \in AllServices \cup {"persona"}
    /\ DOMAIN Copies[l] \subseteq LaneIdentity[ServiceOf[l]]
                               \cup LaneRecorded[ServiceOf[l]]

VARIABLES
  svc,       \* the service of the session
  cmd, opt,  \* the command that runs, "none" between two, and its flags
  p,         \* the memory of its process
  exit,      \* how the last command ended
  claim,     \* the verdict its leak check printed
  cloud,     \* the resources that exist
  marked,    \* those that were given the identity of their run
  late,      \* creates that were given up and may still take effect
  disk,      \* disk[r]: the run record
  spent,     \* the resources this command or iteration asked for
  arrived,   \* those that took effect late, in this command or iteration
  runs, commands, faults   \* run ids, commands and faults so far

world == <<cloud, marked, late, spent, arrived>>
bounds == <<runs, commands>>
vars == <<svc, cmd, opt, p, exit, claim, world, disk, bounds, faults>>

-----------------------------------------------------------------------------
MaxRun == MaxRuns[svc]
LaneSeq == LanesOf[svc]
Lanes == {LaneSeq[i] : i \in DOMAIN LaneSeq}

(***************************************************************************)
(* The memory of a process:                                                *)
(*   pc        its step in the script                                      *)
(*   run       the run id it works on; byRecord: cleanup --run, not --run-id *)
(*   iter      monitor: iterations so far                                  *)
(*   ctx       the signal context is not cancelled                         *)
(*   notify    a signal is notified to it; otherwise a signal kills it     *)
(*   err, abort, wrote   an error to report; an aborted apply; the record  *)
(*   known     its results; landed: creates that are not answered yet      *)
(*   engine    engine[l]: "running", "waiting", "writing" or "returned"    *)
(*   drained   drained[l]: the checkpoint before the drain was taken       *)
(*   snap, latest, copy, mutex          the checkpoint callback of mix.Run *)
(*   li, targets, busy, terr, hung      the teardown, lane by lane         *)
(***************************************************************************)
Fresh ==
  [pc |-> 1, run |-> 0, byRecord |-> FALSE, iter |-> 0, ctx |-> TRUE,
   notify |-> FALSE, err |-> FALSE, abort |-> FALSE, wrote |-> "no",
   known |-> {}, landed |-> {},
   engine |-> [l \in Lanes |-> "running"], drained |-> [l \in Lanes |-> FALSE],
   snap |-> [l \in Lanes |-> {}], latest |-> [l \in Lanes |-> {}],
   copy |-> [l \in Lanes |-> {}],
   mutex |-> "free",
   li |-> 1, targets |-> {}, busy |-> FALSE, terr |-> FALSE, hung |-> "no"]

Script == CommandScripts[cmd][svc]
At(s) == cmd # "none" /\ Script[p.pc] = s
AtAny(S) == \E s \in S : At(s)
StepOf(s) == CHOOSE i \in DOMAIN Script : Script[i] = s
Fault == faults < MaxFaults /\ faults' = faults + 1

(***************************************************************************)
(* The plan of a run, and what of it the current step may create.          *)
(***************************************************************************)
Plan(r) == UNION {UNION {{[run |-> r, lane |-> l, kind |-> k, n |-> n] :
                            n \in 1..Copies[l][k]} : k \in DOMAIN Copies[l]} :
                  l \in Lanes}
IsRoot(x) == x.kind \in RootKinds[ServiceOf[x.lane]]
Roots == {x \in p.known : IsRoot(x)}
Wanted ==
  {x \in Plan(p.run) :
     \/ At("apply")
     \/ AtAny({"roots", "provision"}) /\ IsRoot(x)
     \/ /\ At("churn") /\ ~IsRoot(x) /\ x.kind \notin barbicanChurnEnvelope
        /\ p.engine[x.lane] # "returned"}

resourcesOfLane(created, l) == {x \in created : x.lane = l}

(***************************************************************************)
(* A kind that is searched for by the run's identity carries it in the     *)
(* create request or is given it afterwards (createTagged, StampSecret).   *)
(***************************************************************************)
Identified(x) == x.kind \in LaneIdentity[ServiceOf[x.lane]]
InPost(x) == Identified(x) /\ x.kind \notin TaggedAfterCreate
Secret(x) == x.kind = "secret"

NoRecord == [there |-> FALSE, made |-> {}]
Init ==
  /\ svc \in Services /\ cmd = "none" /\ opt = [keep |-> FALSE] /\ p = Fresh
  /\ exit = "none" /\ claim = "none"
  /\ cloud = {} /\ marked = {} /\ late = {} /\ spent = {} /\ arrived = {}
  /\ disk = [r \in 1..MaxRun |-> NoRecord]
  /\ runs = 0 /\ commands = 0 /\ faults = 0

(***************************************************************************)
(* The end of a process: its memory is gone.                               *)
(***************************************************************************)
Ends(code) == cmd' = "none" /\ exit' = code /\ p' = Fresh
Runs(q) == p' = q /\ UNCHANGED <<cmd, exit>>
Advance(q) == Runs([q EXCEPT !.pc = @ + 1])

(***************************************************************************)
(* The operator starts a command; cleanup names a run by its record or by  *)
(* its id.                                                                 *)
(***************************************************************************)
Start(c) ==
  /\ cmd = "none" /\ commands < MaxCommands /\ svc \in DOMAIN CommandScripts[c]
  /\ cmd' = c /\ commands' = commands + 1 /\ opt' \in Options[c]
  /\ IF c = "cleanup"
     THEN \E r \in 1..runs, b \in BOOLEAN :
            /\ b => disk[r].there
            /\ p' = [p EXCEPT !.run = r, !.byRecord = b]
     ELSE runs < MaxRun /\ UNCHANGED p
  /\ exit' = "none" /\ claim' = "none" /\ spent' = {} /\ arrived' = {}
  /\ UNCHANGED <<svc, cloud, marked, late, disk, runs, faults>>

(***************************************************************************)
(* The first SIGINT or SIGTERM after NotifyContext cancels the context,    *)
(* and every command but cleanup then gives the signal its default         *)
(* disposition back, so that the next one kills.  (A signal that comes     *)
(* before that is lost, as if it had not been sent.)                       *)
(***************************************************************************)
Signal ==
  /\ cmd # "none"
  /\ \/ /\ p.notify /\ p.ctx
        /\ Runs([p EXCEPT !.ctx = FALSE, !.notify = (cmd = "cleanup")])
     \/ ~p.notify /\ Ends("killed")
  /\ UNCHANGED <<svc, opt, claim, world, disk, bounds, faults>>
Kill ==
  /\ cmd # "none" /\ Fault /\ Ends("killed")
  /\ UNCHANGED <<svc, opt, claim, world, disk, bounds>>

-----------------------------------------------------------------------------
(***************************************************************************)
(* Steps before anything exists.                                           *)
(***************************************************************************)
Preparing == {"plan", "config", "telemetry", "client", "precheck", "resolve",
              "privilege", "project", "graph", "buildLanes", "flags", "service"}
Prepare ==
  /\ AtAny(Preparing) /\ Advance(p)
  /\ UNCHANGED <<svc, opt, claim, world, disk, bounds, faults>>
PrepareFails ==
  /\ AtAny(Preparing \cup {"runID", "load"}) /\ Fault /\ Ends("error")
  /\ UNCHANGED <<svc, opt, claim, world, disk, bounds>>
DryRun ==
  /\ At("dryRun") /\ (Advance(p) \/ Ends("ok"))
  /\ UNCHANGED <<svc, opt, claim, world, disk, bounds, faults>>
Signals ==
  /\ At("signals") /\ Advance([p EXCEPT !.notify = TRUE])
  /\ UNCHANGED <<svc, opt, claim, world, disk, bounds, faults>>
newRunID ==
  /\ AtAny({"runID", "iterID"})
  /\ runs' = runs + 1 /\ Advance([p EXCEPT !.run = runs + 1])
  /\ UNCHANGED <<svc, opt, claim, world, disk, commands, faults>>
resolveRun ==
  /\ At("load")
  /\ Advance([p EXCEPT !.known = IF p.byRecord THEN disk[p.run].made ELSE {}])
  /\ UNCHANGED <<svc, opt, claim, world, disk, bounds, faults>>

-----------------------------------------------------------------------------
(***************************************************************************)
(* Creates.  An error of apply or of the scaffold stops further creates; a *)
(* create given up on may have taken effect, or still take it.             *)
(***************************************************************************)
\* The context of a call in flight has ended: with the signal, or with the
\* stage when a sibling failed.  An unbounded churn lets it finish.
CutShort == ~p.ctx   \* mutant: an unbounded churn cuts its calls short, too
Cut ==
  \/ ~p.ctx /\ ~(At("churn") /\ opt.unbounded)
  \/ p.err /\ At("apply")
CallFails == (Cut /\ UNCHANGED faults) \/ Fault

Create(x) ==
  /\ x \in Wanted \ spent /\ p.ctx /\ ~p.err
  /\ cloud' = cloud \cup {x} /\ spent' = spent \cup {x}
  /\ marked' = marked \cup {y \in {x} : InPost(y)}
  /\ Runs([p EXCEPT !.landed = @ \cup {x}])
  /\ UNCHANGED <<svc, opt, claim, late, arrived, disk, bounds, faults>>
Tag(x) ==
  /\ x \in p.landed \ marked /\ Identified(x) /\ ~Cut
  /\ marked' = marked \cup {x}
  /\ UNCHANGED <<svc, cmd, opt, p, exit, claim, cloud, late, spent, arrived,
                 disk, bounds, faults>>
AnswerUntagged(x) ==   \* mutant: a failed tag call is only logged
  /\ x \in p.landed
  /\ Runs([p EXCEPT !.landed = @ \ {x}, !.known = @ \cup {x}])
  /\ UNCHANGED <<svc, opt, claim, world, disk, bounds, faults>>
Answer(x) ==
  /\ x \in p.landed /\ (Identified(x) => x \in marked)
  /\ Runs([p EXCEPT !.landed = @ \ {x}, !.known = @ \cup {x}])
  /\ UNCHANGED <<svc, opt, claim, world, disk, bounds, faults>>

\* The answer is lost, or the rollback after a failed tag call fails, too.
CreateFails(x) ==
  /\ \/ x \in p.landed /\ CallFails /\ UNCHANGED <<late, spent>>
     \/ /\ x \in Wanted \ spent /\ p.ctx /\ ~p.err /\ Fault
        /\ late' = late \cup {x} /\ spent' = spent \cup {x}
  /\ Runs([p EXCEPT !.landed = @ \ {x}, !.err = @ \/ ~At("churn")])
  /\ UNCHANGED <<svc, opt, claim, cloud, marked, arrived, disk, bounds>>
\* A failed tag call rolls the create back.
Rollback(x) ==
  /\ x \in p.landed /\ Identified(x) /\ ~InPost(x) /\ ~Secret(x)
  /\ ~Cut /\ Fault
  /\ cloud' = cloud \ {x}
  /\ Runs([p EXCEPT !.landed = @ \ {x}, !.err = @ \/ ~At("churn")])
  /\ UNCHANGED <<svc, opt, claim, marked, late, spent, arrived, disk, bounds>>
\* A secret whose stamp failed is a result, beside the error.
StampFails(x) ==
  /\ x \in p.landed /\ Secret(x) /\ CallFails
  /\ Runs([p EXCEPT !.landed = @ \ {x}, !.known = @ \cup {x},
                    !.err = @ \/ ~At("churn")])
  /\ UNCHANGED <<svc, opt, claim, world, disk, bounds>>
\* Nobody tags what takes effect late.
LateLands(x) ==
  /\ x \in late
  /\ late' = late \ {x} /\ cloud' = cloud \cup {x} /\ arrived' = arrived \cup {x}
  /\ marked' = marked \cup {y \in {x} : InPost(y)}
  /\ UNCHANGED <<svc, cmd, opt, p, exit, claim, spent, disk, bounds, faults>>

(***************************************************************************)
(* The end of apply and of the scaffold.  A keystone chaos whose scaffold  *)
(* failed returns at once; a mix run tears down the scaffolds first.       *)
(***************************************************************************)
Filled == ~p.err /\ Wanted \subseteq p.known
Settled == p.landed = {} /\ (Filled \/ p.err \/ ~p.ctx)
ApplyEnds ==
  /\ At("apply") /\ Settled /\ Advance([p EXCEPT !.err = ~Filled])
  /\ UNCHANGED <<svc, opt, claim, world, disk, bounds, faults>>
BindRoots ==
  /\ At("roots") \/ (At("provision") /\ ~p.err)
  /\ Settled
  /\ \/ Filled /\ Advance(p)
     \/ ~Filled /\ At("roots") /\ Ends("error")
     \/ ~Filled /\ At("provision") /\ Runs([p EXCEPT !.err = TRUE])
  /\ UNCHANGED <<svc, opt, claim, world, disk, bounds, faults>>

-----------------------------------------------------------------------------
(***************************************************************************)
(* Churn.  Each lane has an engine; its checkpoint is a snapshot of what   *)
(* the engine knows, merged under the mutex of mix.Run with the latest     *)
(* snapshots of the other lanes and written over the record.  A cancelled  *)
(* engine takes one more while its operations are in flight.               *)
(***************************************************************************)
ChurnDelete(x) ==
  /\ At("churn") /\ p.ctx /\ x \in p.known \cap cloud /\ ~IsRoot(x)
  /\ p.engine[x.lane] # "returned"
  /\ cloud' = cloud \ {x}
  /\ UNCHANGED <<svc, cmd, opt, p, exit, claim, marked, late, spent, arrived,
                 disk, bounds, faults>>
DeleteAnswered(x) ==
  /\ At("churn") /\ x \in p.known \ cloud
  /\ Runs([p EXCEPT !.known = @ \ {x}])
  /\ UNCHANGED <<svc, opt, claim, world, disk, bounds, faults>>
InFlight(l) == resourcesOfLane(p.landed \cup (p.known \ cloud), l) # {}
OnCheckpoint(l) ==
  /\ Runs([p EXCEPT !.snap[l] = resourcesOfLane(p.known \ Roots, l),
                    !.engine[l] = "waiting", !.drained[l] = ~p.ctx])
  /\ UNCHANGED <<svc, opt, claim, world, disk, bounds, faults>>
Snapshot(l) ==
  At("churn") /\ p.ctx /\ p.engine[l] = "running" /\ OnCheckpoint(l)
SnapshotBeforeDrain(l) ==
  /\ At("churn") /\ ~p.ctx /\ p.engine[l] = "running"
  /\ ~p.drained[l] /\ InFlight(l) /\ OnCheckpoint(l)
Merged(l) ==
  LET now == [p.latest EXCEPT ![l] = p.snap[l]] IN
  [p EXCEPT !.latest = now, !.engine[l] = "writing",
            !.copy[l] = UNION {now[k] : k \in Lanes}]
MergeUnlocked(l) ==   \* mutant: the mutex does not cover the write
  /\ At("churn") /\ p.engine[l] = "waiting"
  /\ Runs(Merged(l))
  /\ UNCHANGED <<svc, opt, claim, world, disk, bounds, faults>>
Merge(l) ==
  /\ At("churn") /\ p.engine[l] = "waiting" /\ p.mutex = "free"
  /\ Runs([Merged(l) EXCEPT !.mutex = "held"])
  /\ UNCHANGED <<svc, opt, claim, world, disk, bounds, faults>>
buildMixRecord(results) ==
  [there |-> TRUE, made |-> Roots \cup results]
WriteCheckpoint(l, ok) ==
  /\ At("churn") /\ p.engine[l] = "writing"
  /\ Runs([p EXCEPT !.mutex = "free", !.engine[l] = "running", !.copy[l] = {}])
  /\ IF ok THEN disk' = [disk EXCEPT ![p.run] = buildMixRecord(p.copy[l])]
                /\ UNCHANGED faults
           ELSE Fault /\ UNCHANGED disk
  /\ UNCHANGED <<svc, opt, claim, world, bounds>>
EngineReturns(l) ==
  /\ At("churn") /\ p.engine[l] = "running" /\ (~p.ctx \/ ~opt.unbounded)
  /\ ~InFlight(l)
  /\ Runs([p EXCEPT !.engine[l] = "returned"])
  /\ UNCHANGED <<svc, opt, claim, world, disk, bounds, faults>>
ChurnEnds ==
  /\ At("churn") /\ \A l \in Lanes : p.engine[l] = "returned"
  /\ Advance([p EXCEPT !.engine = Fresh.engine, !.snap = Fresh.snap,
                       !.latest = Fresh.latest, !.drained = Fresh.drained])
  /\ UNCHANGED <<svc, opt, claim, world, disk, bounds, faults>>
ChurnRefused ==
  /\ At("churn") /\ \A l \in Lanes : p.engine[l] = "running"
  /\ \A x \in spent : IsRoot(x)
  /\ Fault /\ Ends("error")
  /\ UNCHANGED <<svc, opt, claim, world, disk, bounds>>
Mismatch ==
  /\ At("mismatch") /\ \E b \in BOOLEAN : Advance([p EXCEPT !.err = b])
  /\ UNCHANGED <<svc, opt, claim, world, disk, bounds, faults>>

-----------------------------------------------------------------------------
(***************************************************************************)
(* The epilogue: metrics, the record, and the exit or the teardown.  A     *)
(* record that could not be written does not stop the teardown; a record   *)
(* whose path could not be printed ends the command, unless it is aborted. *)
(***************************************************************************)
Output ==
  /\ At("output") /\ Advance(p)
  /\ UNCHANGED <<svc, opt, claim, world, disk, bounds, faults>>
OutputFails ==
  /\ At("output") /\ Fault /\ Ends("error")
  /\ UNCHANGED <<svc, opt, claim, world, disk, bounds>>
runAborted == p.err /\ ~p.ctx
Decide ==
  /\ At("decide") /\ Advance([p EXCEPT !.abort = runAborted])
  /\ UNCHANGED <<svc, opt, claim, world, disk, bounds, faults>>
WriteRecord == disk' = [disk EXCEPT ![p.run] =
                          [there |-> TRUE, made |-> p.known]]
Record ==
  /\ At("record") /\ WriteRecord /\ Advance([p EXCEPT !.wrote = "yes"])
  /\ UNCHANGED <<svc, opt, claim, world, bounds, faults>>
RecordFails ==
  /\ At("record") /\ Fault
  /\ \/ Advance([p EXCEPT !.wrote = "failed"]) /\ UNCHANGED disk
     \/ ~p.abort /\ WriteRecord /\ Ends("error")
  /\ UNCHANGED <<svc, opt, claim, world, bounds>>
OutcomeNil == "ok"   \* mutant: an aborted apply that was torn down exits 0
Outcome == IF p.err \/ (cmd = "apply" /\ (p.abort \/ p.wrote # "yes"))
           THEN "error" ELSE "ok"
Finish ==
  /\ At("finish")
  /\ IF opt.keep \/ (cmd = "apply" /\ ~p.abort) THEN Ends(Outcome) ELSE Advance(p)
  /\ UNCHANGED <<svc, opt, claim, world, disk, bounds, faults>>

-----------------------------------------------------------------------------
(***************************************************************************)
(* Cleanup, lane by lane.  Teardowns run on a context without              *)
(* cancellation; the sweep before an iteration and the cleanup command run *)
(* under the signal context.                                               *)
(***************************************************************************)
Sweeping == \/ AtAny({"teardown", "own", "cleanup"})
            \/ At("preflight") /\ (svc \in SweepsOnRequest => opt.reclaim)
            \/ At("provision") /\ p.err /\ p.landed = {}
Interruptible == AtAny({"preflight", "cleanup"})
Stopped == Interruptible /\ ~p.ctx
Lane == LaneSeq[p.li]
Skipped == At("provision") /\ RootKinds[ServiceOf[Lane]] = {}
Found ==
  IF At("preflight")
  THEN {x \in cloud \cap marked : x.lane = Lane /\ x.kind \in OrphanKinds[svc]}
  ELSE {x \in cloud :
          /\ x.run = p.run /\ x.lane = Lane
          /\ \/ x \in marked /\ x.kind \in LaneIdentity[ServiceOf[Lane]]
             \/ /\ x.kind \in LaneRecorded[ServiceOf[Lane]]
                /\ x \in resourcesOfLane(p.known, Lane)}
BeginLane ==
  /\ Sweeping /\ p.li <= Len(LaneSeq) /\ ~p.busy
  /\ IF Skipped THEN Runs([p EXCEPT !.li = @ + 1])
                ELSE Runs([p EXCEPT !.busy = TRUE, !.targets = Found])
  /\ UNCHANGED <<svc, opt, claim, world, disk, bounds, faults>>
DeleteTarget(x) ==
  /\ Sweeping /\ p.busy /\ p.hung = "no" /\ ~Stopped /\ x \in p.targets
  /\ cloud' = cloud \ {x} /\ Runs([p EXCEPT !.targets = @ \ {x}])
  /\ UNCHANGED <<svc, opt, claim, marked, late, spent, arrived, disk, bounds,
                 faults>>
Hang(c) ==
  /\ Sweeping /\ p.busy /\ p.hung = "no" /\ c \in LaneCalls[ServiceOf[Lane]]
  /\ Fault /\ Runs([p EXCEPT !.hung = c])
  /\ UNCHANGED <<svc, opt, claim, world, disk, bounds>>
Bounded(c) == /\ c \in LaneTimeouts[ServiceOf[Lane]]
              /\ cmd = "cleanup" => svc \in BoundedCleanup
LaneEnds(ok) ==
  /\ Runs([p EXCEPT !.li = @ + 1, !.busy = FALSE, !.hung = "no",
                    !.targets = {}, !.terr = @ \/ ~ok])
  /\ UNCHANGED <<svc, opt, claim, world, disk, bounds>>
LaneClean ==
  /\ Sweeping /\ p.busy /\ p.hung = "no" /\ ~Stopped /\ p.targets = {}
  /\ LaneEnds(TRUE) /\ UNCHANGED faults
LaneGivesUp ==
  /\ Sweeping /\ p.busy /\ (Stopped \/ (p.hung # "no" /\ Bounded(p.hung)))
  /\ LaneEnds(FALSE) /\ UNCHANGED faults
LaneFails == Sweeping /\ p.busy /\ p.hung = "no" /\ Fault /\ LaneEnds(FALSE)

Swept == [p EXCEPT !.li = 1, !.terr = FALSE]
preflightGoesOn ==   \* mutant: apply runs after a failed sweep
  Advance(Swept)
preflightOutcome ==
  IF p.terr THEN Runs([Swept EXCEPT !.err = TRUE, !.pc = StepOf("own")])
            ELSE Advance(Swept)
SweepEnds ==
  /\ Sweeping /\ p.li > Len(LaneSeq)
  /\ \/ At("teardown") /\ cmd = "apply" /\ Ends(Outcome)
     \/ At("cleanup") /\ Ends(IF p.terr THEN "error" ELSE "ok")
     \/ At("provision") /\ Ends("error")
     \/ At("teardown") /\ cmd = "chaos" /\ p.terr /\ Ends("error")
     \/ At("teardown") /\ cmd = "chaos" /\ ~p.terr /\ Advance(Swept)
     \/ At("own") /\ Advance([Swept EXCEPT !.err = @ \/ p.terr])
     \/ At("preflight") /\ preflightOutcome
  /\ UNCHANGED <<svc, opt, claim, world, disk, bounds, faults>>
PreflightSkipped ==
  /\ At("preflight") /\ ~Sweeping /\ Advance(p)
  /\ UNCHANGED <<svc, opt, claim, world, disk, bounds, faults>>

LeakCheck ==
  /\ At("leakCheck")
  /\ claim' = IF \E x \in cloud \cap marked : x.run = p.run /\ x.lane \in Lanes
                 /\ x.kind \in LeakKinds[ServiceOf[x.lane]]
              THEN "leaked" ELSE "clean"
  /\ Ends(Outcome)
  /\ UNCHANGED <<svc, opt, world, disk, bounds, faults>>
LeakCheckFails ==
  /\ At("leakCheck") /\ Fault /\ Ends("error")
  /\ UNCHANGED <<svc, opt, claim, world, disk, bounds>>

-----------------------------------------------------------------------------
(***************************************************************************)
(* runMonitorLoop and runIteration.  A record an iteration cannot write is *)
(* only logged.                                                            *)
(***************************************************************************)
LoopDone == ~p.ctx \/ (opt.iterations # 0 /\ p.iter >= opt.iterations)
runMonitorLoop ==
  /\ At("loop")
  /\ IF LoopDone
     THEN Ends("ok") /\ UNCHANGED <<spent, arrived>>
     ELSE /\ runs < MaxRun /\ spent' = {} /\ arrived' = {}
          /\ Advance([p EXCEPT !.iter = @ + 1, !.err = FALSE, !.known = {}])
  /\ UNCHANGED <<svc, opt, claim, cloud, marked, late, disk, bounds, faults>>
IterationReady ==
  /\ AtAny({"iterClient", "iterQuota"}) \/ (At("keepRecord") /\ ~opt.records)
  /\ Advance(p)
  /\ UNCHANGED <<svc, opt, claim, world, disk, bounds, faults>>
IterationFails ==
  /\ \/ AtAny({"iterID", "iterClient"})
        /\ Runs([p EXCEPT !.err = TRUE, !.pc = StepOf("pace")])
     \/ At("iterQuota") /\ Runs([p EXCEPT !.err = TRUE, !.pc = StepOf("own")])
     \/ At("keepRecord") /\ opt.records /\ Advance(p)
  /\ Fault
  /\ UNCHANGED <<svc, opt, claim, world, disk, bounds>>
writeIterationRecord ==
  /\ At("keepRecord") /\ opt.records /\ WriteRecord /\ Advance(p)
  /\ UNCHANGED <<svc, opt, claim, world, bounds, faults>>
Pace ==
  /\ At("pace")
  /\ IF LoopDone THEN Ends("ok") ELSE Runs([p EXCEPT !.pc = StepOf("loop")])
  /\ UNCHANGED <<svc, opt, claim, world, disk, bounds, faults>>

-----------------------------------------------------------------------------
(***************************************************************************)
(* Work is what a process does on its own: every call it has under way is  *)
(* answered or ends at its timeout, and the process goes on.  New creates, *)
(* deletes and checkpoints of a churn, signals and faults need not come.   *)
(***************************************************************************)
Work ==
  \/ Prepare \/ DryRun \/ Signals \/ newRunID \/ resolveRun
  \/ \E x \in p.landed : Tag(x) \/ Answer(x) \/ (Cut /\ CreateFails(x))
  \/ ApplyEnds \/ BindRoots
  \/ \E x \in p.known : DeleteAnswered(x)
  \/ \E l \in Lanes : \/ SnapshotBeforeDrain(l) \/ Merge(l)
                       \/ WriteCheckpoint(l, TRUE) \/ EngineReturns(l)
  \/ ChurnEnds \/ Mismatch \/ Output \/ Decide \/ Record \/ Finish
  \/ BeginLane \/ (\E x \in p.targets : DeleteTarget(x)) \/ LaneClean
  \/ LaneGivesUp \/ SweepEnds \/ PreflightSkipped \/ LeakCheck
  \/ runMonitorLoop \/ IterationReady \/ writeIterationRecord \/ Pace
Choices ==
  \/ \E x \in Plan(p.run) : Create(x) \/ ChurnDelete(x)
  \/ \E l \in Lanes : Snapshot(l)
Faults ==
  \/ Kill \/ PrepareFails \/ OutputFails \/ RecordFails \/ ChurnRefused
  \/ LaneFails \/ LeakCheckFails \/ IterationFails
  \/ \E x \in Plan(p.run) : CreateFails(x) \/ Rollback(x) \/ StampFails(x)
  \/ \E x \in late : LateLands(x)
  \/ \E l \in Lanes : WriteCheckpoint(l, FALSE)
  \/ \E c \in UNION {LaneCalls[ServiceOf[l]] : l \in Lanes} : Hang(c)
Next ==
  \/ \E c \in DOMAIN CommandScripts : Start(c)
  \/ Signal \/ Work \/ Choices \/ Faults

Spec == Init /\ [][Next]_vars /\ WF_vars(Work)

-----------------------------------------------------------------------------
(***************************************************************************)
(* What the record of a run names and the cloud still has, no later        *)
(* version of the record forgets: neither a checkpoint that was built      *)
(* before another lane's (mix/run.go, the mutex around the write), nor the *)
(* final record, nor the record of a rerun.                                *)
(***************************************************************************)
RecordNeverGoesBack ==
  [][\A r \in 1..MaxRun : disk[r].made \cap cloud' \subseteq disk'[r].made]_vars

(***************************************************************************)
(* While a run is torn down by its own command the record on disk names    *)
(* everything of the results that still exists, so that a kill during the  *)
(* teardown leaves a record to reclaim from ("Persist the run record       *)
(* before teardown", chaos.go; writeRecord first in finishAbortedApply).   *)
(***************************************************************************)
TeardownIsRecorded ==
  At("teardown") =>
    \/ p.wrote = "failed"
    \/ p.known \cap cloud \subseteq disk[p.run].made

(***************************************************************************)
(* A cleanup command that exits 0 leaves nothing of the run, whatever      *)
(* killed or failed the commands before, except creates that took effect   *)
(* after it began and resources without the identity: those no result ever *)
(* named (a create cut off between the POST and the tag, whose rollback    *)
(* did not happen or failed, too), and, when it was not given the record,  *)
(* kinds without a tag and secrets whose stamp failed.                     *)
(***************************************************************************)
CleanupReclaims ==
  [][cmd = "cleanup" /\ exit' = "ok" /\ cmd' = "none" =>
       \A x \in cloud' :
         x.run = p.run =>
           \/ x \in arrived
           \/ /\ x \notin marked
              /\ x \in disk[p.run].made =>
                   ~p.byRecord /\ (Secret(x) \/ ~Identified(x))]_vars

(***************************************************************************)
(* An unbounded chaos run that is ended by a signal cuts no create off     *)
(* between its two requests: unless a call failed, what a run has in the   *)
(* cloud carries its identity, or a call that will give it is in flight    *)
(* (opContext, "which would leave an untagged resource behind").           *)
(***************************************************************************)
EndsAreTagged ==
  cmd = "chaos" /\ opt.unbounded /\ faults = 0 =>
    \A x \in cloud : x.run = p.run /\ Identified(x) => x \in marked \cup p.landed

(***************************************************************************)
(* The verdict "no resources remain" is printed only when nothing of the   *)
(* run remains that carries its identity.                                  *)
(***************************************************************************)
CleanVerdictIsTrue ==
  [][At("leakCheck") /\ claim' = "clean" =>
       \A x \in cloud : x.run = p.run => x \notin marked]_vars

(***************************************************************************)
(* An iteration of monitor applies only to a project without leftovers:    *)
(* whatever ended earlier iterations and commands, no resource of another  *)
(* run that carries an identity is there, unless it took effect after the  *)
(* sweep began.  Keystone is exempt unless it is asked to sweep.           *)
(***************************************************************************)
IterationsStartEmpty ==
  At("apply") /\ cmd = "monitor" /\ (svc \in SweepsOnRequest => opt.reclaim) =>
    \A x \in cloud : x.run = p.run \/ x \in arrived
                     \/ x \notin marked \/ x.kind \notin OrphanKinds[svc]

(***************************************************************************)
(* Exit 0 means: apply created its whole plan, wrote it to the record and  *)
(* left nothing of it without its identity; chaos left its resources on    *)
(* request or printed a verdict on them; in particular no interrupted      *)
(* apply exits 0 after it tore its run down.                               *)
(***************************************************************************)
ExitZeroIsEarned ==
  [][cmd' = "none" /\ exit' = "ok" /\ p.run # 0 =>
       /\ cmd = "apply" => /\ Plan(p.run) \subseteq cloud'
                           /\ Plan(p.run) \subseteq disk'[p.run].made
                           /\ \A x \in Plan(p.run) : Identified(x) => x \in marked
       /\ cmd = "chaos" => opt.keep \/ claim' # "none"]_vars

(***************************************************************************)
(* A command that was signalled ends without a second signal, wherever the *)
(* signal met it and whichever call of its teardown hangs (the timeout     *)
(* cleaners bound every call that runs without the signal context).        *)
(***************************************************************************)
SignalledEnds == cmd # "none" /\ ~p.ctx ~> cmd = "none"

=============================================================================
