--------------------------- MODULE CommandsProofs ---------------------------
(***************************************************************************)
(* For every service and every composition of a mix run, any number of     *)
(* resources, commands, signals, kills and failing calls: the record of a  *)
(* run forgets nothing that exists, a run is recorded before it is torn    *)
(* down, an iteration of monitor starts in an empty project, a cleanup     *)
(* that exits 0 leaves nothing that is marked or that a result named, an   *)
(* unbounded churn leaves nothing between POST and tag, and verdicts and   *)
(* exit codes are true.                                                    *)
(*                                                                         *)
(* The scripts are thirty sequences.  All the proofs use of them is which  *)
(* step may follow which (Flow), so that the invariant speaks of the step  *)
(* a process is at (Here) and never of an index into a script.             *)
(***************************************************************************)
EXTENDS Commands, TLAPS

Here == IF cmd = "none" THEN "none" ELSE Script[p.pc]

-----------------------------------------------------------------------------
(***************************************************************************)
(* What follows a step in the scripts of a command.                        *)
(***************************************************************************)
ApplyFlow ==
  {<<"plan", "dryRun">>, <<"dryRun", "signals">>, <<"signals", "telemetry">>,
   <<"telemetry", "runID">>, <<"runID", "client">>, <<"client", "precheck">>,
   <<"client", "resolve">>, <<"client", "privilege">>, <<"client", "apply">>,
   <<"precheck", "apply">>, <<"resolve", "apply">>, <<"privilege", "apply">>,
   <<"apply", "output">>, <<"output", "decide">>, <<"decide", "record">>,
   <<"record", "finish">>, <<"finish", "teardown">>}
ChaosFlow ==
  {<<"plan", "config">>, <<"config", "signals">>, <<"signals", "telemetry">>,
   <<"signals", "runID">>, <<"telemetry", "runID">>, <<"runID", "client">>,
   <<"runID", "buildLanes">>, <<"buildLanes", "provision">>,
   <<"provision", "churn">>, <<"client", "precheck">>, <<"client", "graph">>,
   <<"client", "resolve">>, <<"client", "privilege">>, <<"precheck", "graph">>,
   <<"resolve", "graph">>, <<"privilege", "roots">>, <<"roots", "graph">>,
   <<"graph", "churn">>, <<"churn", "output">>, <<"churn", "mismatch">>,
   <<"mismatch", "output">>, <<"output", "record">>, <<"record", "finish">>,
   <<"finish", "teardown">>, <<"teardown", "leakCheck">>}
MonitorFlow ==
  {<<"plan", "config">>, <<"config", "signals">>, <<"signals", "telemetry">>,
   <<"telemetry", "client">>, <<"client", "precheck">>, <<"client", "loop">>,
   <<"client", "resolve">>, <<"client", "project">>, <<"client", "privilege">>,
   <<"project", "precheck">>, <<"precheck", "loop">>, <<"resolve", "loop">>,
   <<"privilege", "loop">>, <<"loop", "iterID">>, <<"iterID", "iterClient">>,
   <<"iterClient", "preflight">>, <<"preflight", "apply">>,
   <<"preflight", "iterQuota">>, <<"iterQuota", "apply">>, <<"apply", "own">>,
   <<"own", "keepRecord">>, <<"keepRecord", "pace">>}
CleanupFlow ==
  {<<"flags", "load">>, <<"load", "service">>, <<"service", "signals">>,
   <<"signals", "client">>, <<"signals", "buildLanes">>,
   <<"client", "cleanup">>, <<"buildLanes", "cleanup">>}
Flow(c) == CASE c = "apply" -> ApplyFlow [] c = "chaos" -> ChaosFlow
             [] c = "monitor" -> MonitorFlow [] OTHER -> CleanupFlow
First(c) == CASE c = "cleanup" -> {"flags", "load"} [] OTHER -> {"plan"}
Last(c) == CASE c = "apply" -> "teardown" [] c = "chaos" -> "leakCheck"
             [] c = "monitor" -> "pace" [] OTHER -> "cleanup"

-----------------------------------------------------------------------------
(***************************************************************************)
(* Types.                                                                  *)
(***************************************************************************)
Resource == UNION {Plan(r) : r \in 1..MaxRun}
Calls == UNION {LaneCalls[ServiceOf[l]] : l \in Lanes}
Memory ==
  [pc : Nat, run : Nat, byRecord : BOOLEAN, iter : Nat, ctx : BOOLEAN,
   notify : BOOLEAN, err : BOOLEAN, abort : BOOLEAN,
   wrote : {"no", "yes", "failed"},
   known : SUBSET Resource, landed : SUBSET Resource,
   engine : [Lanes -> {"running", "waiting", "writing", "returned"}],
   drained : [Lanes -> BOOLEAN],
   snap : [Lanes -> SUBSET Resource], latest : [Lanes -> SUBSET Resource],
   copy : [Lanes -> SUBSET Resource], mutex : {"free", "held"},
   li : Nat \ {0}, targets : SUBSET Resource, busy : BOOLEAN, terr : BOOLEAN,
   hung : {"no"} \cup Calls]
RunRecord == [there : BOOLEAN, made : SUBSET Resource]

TypeOK ==
  /\ svc \in Services
  /\ cmd \in {"none"} \cup DOMAIN CommandScripts
  /\ cmd = "none" => p = Fresh
  /\ cmd # "none" => /\ svc \in DOMAIN CommandScripts[cmd]
                     /\ p.pc \in DOMAIN Script
                     /\ claim = "none"
  /\ p \in Memory
  /\ runs \in 0..MaxRun /\ p.run \in 0..runs
  /\ disk \in [1..MaxRun -> RunRecord]
  /\ cloud \subseteq Resource /\ late \subseteq Resource

(***************************************************************************)
(* Run ids: before its run id a process knows nothing and has no record;   *)
(* from then on the id is its own.                                         *)
(***************************************************************************)
Startup == {"plan", "dryRun", "config", "signals", "telemetry", "runID"}
Iteration == {"iterClient", "preflight", "iterQuota", "apply", "own",
              "keepRecord"}
Unnumbered == \/ cmd \in {"apply", "chaos"} /\ Here \in Startup
              \/ cmd = "monitor" /\ Here = "iterID"
Numbered == \/ cmd \in {"apply", "chaos"} /\ Here \notin Startup
            \/ cmd = "monitor" /\ Here \in Iteration
Numbering ==
  /\ \A x \in cloud \cup late : x.run <= runs
  /\ \A r \in 1..MaxRun : r > runs => disk[r].made = {}
  /\ Unnumbered => /\ runs < MaxRun /\ p.known = {}
                   /\ cmd # "monitor" => p.run = 0
  /\ Numbered \/ cmd = "cleanup" => p.run # 0

(***************************************************************************)
(* Only the steps that create have creates in flight, all of the run, a    *)
(* scaffold those of roots, and only churn has checkpoints; an engine that *)
(* returned has no create in flight.                                       *)
(***************************************************************************)
Creating == {"apply", "roots", "provision", "churn"}
Quiet ==
  /\ Here \notin Creating => p.landed = {}
  /\ \A x \in p.landed : /\ x.run = p.run
                         /\ Here \in {"roots", "provision"} => IsRoot(x)
  /\ Here # "churn" =>
       \A l \in Lanes : /\ p.engine[l] = "running"
                        /\ p.snap[l] = {} /\ p.latest[l] = {}
  /\ \A l \in Lanes, x \in p.landed : p.engine[l] = "returned" => x.lane # l

(***************************************************************************)
(* The ledger of a run: what a snapshot or the record names was asked for  *)
(* by this run, is neither in flight nor late, and is known as long as it  *)
(* exists.                                                                 *)
(***************************************************************************)
Latest == UNION {p.latest[l] : l \in Lanes}
Noted == disk[p.run].made \cup Latest \cup UNION {p.snap[l] : l \in Lanes}
Ledger ==
  Numbered =>
    /\ \A x \in cloud \cup late : x.run = p.run => x \in spent
    /\ p.known \cup p.landed \cup Noted \subseteq spent
    /\ (p.known \cup Noted) \cap (late \cup p.landed) = {}
    /\ p.landed \cap late = {}
    /\ Noted \cap cloud \subseteq p.known

(***************************************************************************)
(* The checkpoints: at most one writer, whose copy is current, and what    *)
(* the record names and still exists is a root or in a latest snapshot.    *)
(***************************************************************************)
BeforeChurn == Startup \cup {"client", "precheck", "graph", "resolve",
                             "privilege", "roots", "buildLanes", "provision"}
Merging ==
  /\ cmd = "chaos" /\ Here \in BeforeChurn \ Startup => disk[p.run].made = {}
  /\ Here = "churn" =>
       /\ \A l \in Lanes : \A x \in p.snap[l] \cup p.latest[l] :
            x.lane = l /\ ~IsRoot(x)
       /\ \A l \in Lanes : p.engine[l] = "waiting" =>
            p.latest[l] \cap cloud \subseteq p.snap[l]
       /\ \A l \in Lanes : p.engine[l] = "writing" =>
            p.mutex = "held" /\ p.copy[l] = Latest
       /\ \A k, l \in Lanes :
            p.engine[k] = "writing" /\ p.engine[l] = "writing" => k = l
       /\ disk[p.run].made \cap cloud \subseteq Roots \cup Latest

Recorded ==
  Here \in {"finish", "teardown"} =>
    p.wrote = "failed" \/ p.known \subseteq disk[p.run].made

(***************************************************************************)
(* Apply: without an error the whole plan is known, and what is known      *)
(* exists until the teardown of an aborted run.                            *)
(***************************************************************************)
Applied ==
  cmd = "apply" =>
    /\ Here # "teardown" => p.known \cup p.landed \subseteq cloud
    /\ Here \in {"output", "decide", "record", "finish"} /\ ~p.err =>
         Plan(p.run) \subseteq p.known
    /\ Here = "teardown" => p.abort

(***************************************************************************)
(* The sweeps: what a lane that is done left behind, without an error,     *)
(* arrived late; what the lane at hand still has is a target, or arrived.  *)
(***************************************************************************)
Reclaims == svc \in SweepsOnRequest => opt.reclaim
Sweeps == {"preflight", "own", "cleanup"}
Sought(x) ==
  IF Here = "preflight" THEN x \in marked /\ x.kind \in OrphanKinds[svc]
  ELSE /\ x.run = p.run
       /\ \/ x \in marked /\ Identified(x)
          \/ x.kind \in LaneRecorded[ServiceOf[x.lane]] /\ x \in p.known
Sweep ==
  /\ p.busy => p.li <= Len(LaneSeq)
  /\ cmd \in {"monitor", "cleanup"} =>
       \/ Here \in Sweeps /\ (Here = "preflight" => Reclaims)
       \/ p.li = 1 /\ ~p.busy /\ ~p.terr
  /\ Here \in {"preflight", "cleanup"} =>
       \A x \in cloud \ arrived : Sought(x) =>
         /\ p.terr \/ \A k \in 1..(p.li - 1) : LaneSeq[k] # x.lane
         /\ p.busy /\ x.lane = Lane => x \in p.targets
Loaded ==
  cmd = "cleanup" /\ Here \notin {"flags", "load"} =>
    p.known = IF p.byRecord THEN disk[p.run].made ELSE {}
Emptied ==
  cmd = "monitor" /\ Here \in {"iterQuota", "apply"} /\ Reclaims =>
    \A x \in cloud \ arrived :
      x.run = p.run \/ x \notin marked \/ x.kind \notin OrphanKinds[svc]

(***************************************************************************)
(* A churn run has no Barbican order.                                      *)
(***************************************************************************)
NoOrders ==
  cmd = "chaos" /\ Numbered =>
    \A x \in cloud \cup late : x.run = p.run => x.kind # "order"

CInv == /\ TypeOK /\ Numbering /\ Quiet /\ Ledger /\ Merging
        /\ Recorded /\ Applied /\ Sweep /\ Loaded /\ Emptied /\ NoOrders

-----------------------------------------------------------------------------
(***************************************************************************)
(* A script is a path through the flow of its command.                     *)
(***************************************************************************)
Path(S, n, c) ==
  /\ DOMAIN S = 1..n /\ S[1] \in First(c) /\ S[n] = Last(c)
  /\ \A i \in 1..(n - 1) : <<S[i], S[i + 1]>> \in Flow(c)
HasPath(S, c) == \E n \in Nat \ {0} : Path(S, n, c)

LEMMA ApplyPaths ==
  \A s \in DOMAIN ApplyScripts : HasPath(ApplyScripts[s], "apply")
<1> USE DEF Path, First, Last, Flow, ApplyFlow
<1>1. Path(NeutronApply, 13, "apply")
  BY DEF NeutronApply, NeutronFinishAborted
<1>2. Path(CinderApply, 13, "apply")
  BY DEF CinderApply, CinderFinishAborted
<1>3. Path(GlanceApply, 12, "apply")
  BY DEF GlanceApply, GlanceFinishAborted
<1>4. Path(NovaApply, 13, "apply")
  BY DEF NovaApply, NovaFinishAborted
<1>5. Path(OctaviaApply, 13, "apply")
  BY DEF OctaviaApply, OctaviaFinishAborted
<1>6. Path(KeystoneApply, 13, "apply")
  BY DEF KeystoneApply, KeystoneFinishAborted
<1>7. Path(BarbicanApply, 13, "apply")
  BY DEF BarbicanApply, BarbicanFinishAborted
<1> HIDE DEF Path, First, Last, Flow, ApplyFlow
<1>8. ASSUME NEW S, NEW n \in Nat \ {0}, Path(S, n, "apply")
      PROVE  HasPath(S, "apply")
  BY <1>8 DEF HasPath
<1> QED
  BY <1>1, <1>2, <1>3, <1>4, <1>5, <1>6, <1>7, <1>8
  DEF ApplyScripts

LEMMA ChaosPaths ==
  \A s \in DOMAIN ChaosScripts : HasPath(ChaosScripts[s], "chaos")
<1> USE DEF Path, First, Last, Flow, ChaosFlow
<1>1. Path(NeutronChaos, 14, "chaos")
  BY DEF NeutronChaos, NeutronFinishChurn
<1>2. Path(CinderChaos, 14, "chaos")
  BY DEF CinderChaos, CinderFinishChurn
<1>3. Path(GlanceChaos, 13, "chaos")
  BY DEF GlanceChaos, GlanceFinishChurn
<1>4. Path(NovaChaos, 14, "chaos")
  BY DEF NovaChaos, NovaFinishChurn
<1>5. Path(OctaviaChaos, 14, "chaos")
  BY DEF OctaviaChaos, OctaviaFinishChurn
<1>6. Path(KeystoneChaos, 15, "chaos")
  BY DEF KeystoneChaos, KeystoneFinishChurn
<1>7. Path(BarbicanChaos, 15, "chaos")
  BY DEF BarbicanChaos, BarbicanFinishChurn
<1>8. Path(MixChaos, 12, "chaos")
  BY DEF MixChaos, finishMixChurn
<1> HIDE DEF Path, First, Last, Flow, ChaosFlow
<1>9. ASSUME NEW S, NEW n \in Nat \ {0}, Path(S, n, "chaos")
      PROVE  HasPath(S, "chaos")
  BY <1>9 DEF HasPath
<1> QED
  BY <1>1, <1>2, <1>3, <1>4, <1>5, <1>6, <1>7, <1>8, <1>9
  DEF ChaosScripts

LEMMA MonitorEach ==
  /\ DOMAIN MonitorScripts = {"neutron", "cinder", "glance", "nova", "octavia",
                              "keystone", "barbican"}
  /\ MonitorScripts["neutron"] = NeutronMonitor \o NeutronIteration
  /\ MonitorScripts["cinder"] = CinderMonitor \o CinderIteration
  /\ MonitorScripts["glance"] = GlanceMonitor \o GlanceIteration
  /\ MonitorScripts["nova"] = NovaMonitor \o NovaIteration
  /\ MonitorScripts["octavia"] = OctaviaMonitor \o OctaviaIteration
  /\ MonitorScripts["keystone"] = KeystoneMonitor \o KeystoneIteration
  /\ MonitorScripts["barbican"] = BarbicanMonitor \o BarbicanIteration
BY DEF MonitorScripts

LEMMA MonitorPaths ==
  \A s \in DOMAIN MonitorScripts : HasPath(MonitorScripts[s], "monitor")
<1> USE DEF Path, First, Last, Flow, MonitorFlow
<1>1. Path(NeutronMonitor \o NeutronIteration, 14, "monitor")
  BY DEF NeutronMonitor, NeutronIteration
<1>2. Path(CinderMonitor \o CinderIteration, 14, "monitor")
  BY DEF CinderMonitor, CinderIteration
<1>3. Path(GlanceMonitor \o GlanceIteration, 13, "monitor")
  BY DEF GlanceMonitor, GlanceIteration
<1>4. Path(NovaMonitor \o NovaIteration, 14, "monitor")
  BY DEF NovaMonitor, NovaIteration
<1>5. Path(OctaviaMonitor \o OctaviaIteration, 16, "monitor")
  BY DEF OctaviaMonitor, OctaviaIteration
<1>6. Path(KeystoneMonitor \o KeystoneIteration, 14, "monitor")
  BY DEF KeystoneMonitor, KeystoneIteration
<1>7. Path(BarbicanMonitor \o BarbicanIteration, 15, "monitor")
  BY DEF BarbicanMonitor, BarbicanIteration
<1> HIDE DEF Path, First, Last, Flow, MonitorFlow
<1>8. ASSUME NEW S, NEW n \in {13, 14, 15, 16}, Path(S, n, "monitor")
      PROVE  HasPath(S, "monitor")
  BY <1>8 DEF HasPath
<1>9. /\ HasPath(MonitorScripts["neutron"], "monitor")
      /\ HasPath(MonitorScripts["cinder"], "monitor")
      /\ HasPath(MonitorScripts["glance"], "monitor")
      /\ HasPath(MonitorScripts["nova"], "monitor")
      /\ HasPath(MonitorScripts["octavia"], "monitor")
      /\ HasPath(MonitorScripts["keystone"], "monitor")
      /\ HasPath(MonitorScripts["barbican"], "monitor")
  BY <1>1, <1>2, <1>3, <1>4, <1>5, <1>6, <1>7, <1>8, MonitorEach, Zenon
<1> QED
  BY <1>9, MonitorEach

LEMMA CleanupPaths ==
  \A s \in DOMAIN CleanupScripts : HasPath(CleanupScripts[s], "cleanup")
<1> USE DEF Path, First, Last, Flow, CleanupFlow
<1>1. Path(NeutronCleanup, 5, "cleanup")
  BY DEF NeutronCleanup
<1>2. Path(CinderCleanup, 5, "cleanup")
  BY DEF CinderCleanup
<1>3. Path(GlanceCleanup, 5, "cleanup")
  BY DEF GlanceCleanup
<1>4. Path(NovaCleanup, 5, "cleanup")
  BY DEF NovaCleanup
<1>5. Path(OctaviaCleanup, 5, "cleanup")
  BY DEF OctaviaCleanup
<1>6. Path(KeystoneCleanup, 5, "cleanup")
  BY DEF KeystoneCleanup
<1>7. Path(BarbicanCleanup, 5, "cleanup")
  BY DEF BarbicanCleanup
<1>8. Path(MixCleanup, 6, "cleanup")
  BY DEF MixCleanup
<1> HIDE DEF Path, First, Last, Flow, CleanupFlow
<1>9. ASSUME NEW S, NEW n \in Nat \ {0}, Path(S, n, "cleanup")
      PROVE  HasPath(S, "cleanup")
  BY <1>9 DEF HasPath
<1> QED
  BY <1>1, <1>2, <1>3, <1>4, <1>5, <1>6, <1>7, <1>8, <1>9
  DEF CleanupScripts

\* An iteration can jump to its own cleanup, and back to the loop.
LEMMA IterationSteps ==
  ASSUME NEW s \in DOMAIN MonitorScripts
  PROVE  \A t \in {"own", "loop"} :
           \E i \in DOMAIN MonitorScripts[s] : MonitorScripts[s][i] = t
<1> DEFINE Goal(S) == \A t \in {"own", "loop"} : \E i \in DOMAIN S : S[i] = t
<1>1. Goal(NeutronMonitor \o NeutronIteration)
  <2>1. /\ {7, 12} \subseteq DOMAIN (NeutronMonitor \o NeutronIteration)
        /\ (NeutronMonitor \o NeutronIteration)[7] = "loop"
        /\ (NeutronMonitor \o NeutronIteration)[12] = "own"
    BY DEF NeutronMonitor, NeutronIteration
  <2> QED BY <2>1
<1>2. Goal(CinderMonitor \o CinderIteration)
  <2>1. /\ {7, 12} \subseteq DOMAIN (CinderMonitor \o CinderIteration)
        /\ (CinderMonitor \o CinderIteration)[7] = "loop"
        /\ (CinderMonitor \o CinderIteration)[12] = "own"
    BY DEF CinderMonitor, CinderIteration
  <2> QED BY <2>1
<1>3. Goal(GlanceMonitor \o GlanceIteration)
  <2>1. /\ {6, 11} \subseteq DOMAIN (GlanceMonitor \o GlanceIteration)
        /\ (GlanceMonitor \o GlanceIteration)[6] = "loop"
        /\ (GlanceMonitor \o GlanceIteration)[11] = "own"
    BY DEF GlanceMonitor, GlanceIteration
  <2> QED BY <2>1
<1>4. Goal(NovaMonitor \o NovaIteration)
  <2>1. /\ {7, 12} \subseteq DOMAIN (NovaMonitor \o NovaIteration)
        /\ (NovaMonitor \o NovaIteration)[7] = "loop"
        /\ (NovaMonitor \o NovaIteration)[12] = "own"
    BY DEF NovaMonitor, NovaIteration
  <2> QED BY <2>1
<1>5. Goal(OctaviaMonitor \o OctaviaIteration)
  <2>1. /\ {8, 14} \subseteq DOMAIN (OctaviaMonitor \o OctaviaIteration)
        /\ (OctaviaMonitor \o OctaviaIteration)[8] = "loop"
        /\ (OctaviaMonitor \o OctaviaIteration)[14] = "own"
    BY DEF OctaviaMonitor, OctaviaIteration
  <2> QED BY <2>1
<1>6. Goal(KeystoneMonitor \o KeystoneIteration)
  <2>1. /\ {7, 12} \subseteq DOMAIN (KeystoneMonitor \o KeystoneIteration)
        /\ (KeystoneMonitor \o KeystoneIteration)[7] = "loop"
        /\ (KeystoneMonitor \o KeystoneIteration)[12] = "own"
    BY DEF KeystoneMonitor, KeystoneIteration
  <2> QED BY <2>1
<1>7. Goal(BarbicanMonitor \o BarbicanIteration)
  <2>1. /\ {7, 13} \subseteq DOMAIN (BarbicanMonitor \o BarbicanIteration)
        /\ (BarbicanMonitor \o BarbicanIteration)[7] = "loop"
        /\ (BarbicanMonitor \o BarbicanIteration)[13] = "own"
    BY DEF BarbicanMonitor, BarbicanIteration
  <2> QED BY <2>1
<1> HIDE DEF Goal
<1>8. Goal(MonitorScripts[s])
  BY <1>1, <1>2, <1>3, <1>4, <1>5, <1>6, <1>7, MonitorEach
<1> QED BY <1>8 DEF Goal

(***************************************************************************)
(* Every script follows the flow of its command.                           *)
(***************************************************************************)
LEMMA ScriptPaths ==
  ASSUME NEW c \in DOMAIN CommandScripts, NEW s \in DOMAIN CommandScripts[c]
  PROVE  HasPath(CommandScripts[c][s], c)
<1>1. CASE c = "apply"
  BY <1>1, ApplyPaths DEF CommandScripts
<1>2. CASE c = "chaos"
  BY <1>2, ChaosPaths DEF CommandScripts
<1>3. CASE c = "monitor"
  BY <1>3, MonitorPaths DEF CommandScripts
<1>4. CASE c = "cleanup"
  BY <1>4, CleanupPaths DEF CommandScripts
<1> QED BY <1>1, <1>2, <1>3, <1>4 DEF CommandScripts

LEMMA StepAfter ==
  ASSUME NEW S, NEW c, HasPath(S, c), NEW i \in DOMAIN S, S[i] # Last(c)
  PROVE  i + 1 \in DOMAIN S /\ <<S[i], S[i + 1]>> \in Flow(c)
BY DEF HasPath, Path

LEMMA StepFirst ==
  ASSUME NEW S, NEW c, HasPath(S, c)
  PROVE  1 \in DOMAIN S /\ S[1] \in First(c)
BY DEF HasPath, Path

LEMMA StepAny ==
  ASSUME NEW S, NEW c, HasPath(S, c), NEW i \in DOMAIN S
  PROVE  i \in Nat /\ (S[i] = Last(c) \/ \E t : <<S[i], t>> \in Flow(c))
<1>1. PICK n \in Nat \ {0} : Path(S, n, c)
  BY DEF HasPath
<1>2. i \in 1..n /\ (i = n \/ <<S[i], S[i + 1]>> \in Flow(c)) /\ S[n] = Last(c)
  BY <1>1 DEF Path
<1>3. i \in Nat /\ (S[i] = Last(c) \/ <<S[i], S[i + 1]>> \in Flow(c))
  BY <1>2
<1> QED BY <1>3, Zenon

(***************************************************************************)
(* Which command a step belongs to.                                        *)
(***************************************************************************)
StepsOf(c) ==
  CASE c = "apply" -> {"plan", "dryRun", "signals", "telemetry", "runID",
                       "client", "precheck", "resolve", "privilege", "apply",
                       "output", "decide", "record", "finish", "teardown"}
    [] c = "chaos" -> {"plan", "config", "signals", "telemetry", "runID",
                       "client", "buildLanes", "provision", "precheck",
                       "resolve", "privilege", "roots", "graph", "churn",
                       "mismatch", "output", "record", "finish", "teardown",
                       "leakCheck"}
    [] c = "monitor" -> {"plan", "config", "signals", "telemetry", "client",
                         "precheck", "resolve", "project", "privilege", "loop",
                         "iterID", "iterClient", "preflight", "iterQuota",
                         "apply", "own", "keepRecord", "pace"}
    [] OTHER -> {"flags", "load", "service", "signals", "client",
                 "buildLanes", "cleanup"}
LEMMA FlowSteps ==
  ASSUME NEW c \in DOMAIN CommandScripts, NEW s,
         s = Last(c) \/ \E t : <<s, t>> \in Flow(c)
  PROVE  s \in StepsOf(c)
<1>1. CASE c = "apply"
  BY <1>1 DEF Flow, Last, StepsOf, ApplyFlow
<1>2. CASE c = "chaos"
  BY <1>2 DEF Flow, Last, StepsOf, ChaosFlow
<1>3. CASE c = "monitor"
  BY <1>3 DEF Flow, Last, StepsOf, MonitorFlow
<1>4. CASE c = "cleanup"
  BY <1>4 DEF Flow, Last, StepsOf, CleanupFlow
<1> QED BY <1>1, <1>2, <1>3, <1>4 DEF CommandScripts

LEMMA FlowFacts ==
  ASSUME NEW c \in DOMAIN CommandScripts, NEW s, NEW t, <<s, t>> \in Flow(c)
  PROVE  /\ s \in StepsOf(c) /\ t \in StepsOf(c) /\ s # t
         /\ c \in {"apply", "chaos"} =>
              (t \in Startup <=> s \in Startup \ {"runID"})
         /\ c = "monitor" => /\ t \in Iteration => s \in Iteration \cup {"iterID"}
                             /\ t = "iterID" => s = "loop"
                             /\ t = "apply" => s \in {"preflight", "iterQuota"}
                             /\ t = "iterQuota" => s = "preflight"
         /\ t = "finish" => s = "record"
         /\ t = "teardown" => s = "finish"
         /\ c = "apply" => /\ t = "output" => s = "apply"
                           /\ t \in {"decide", "record", "finish"} =>
                                s \in {"output", "decide", "record"}
         /\ c = "chaos" => /\ t \in BeforeChurn => s \in BeforeChurn
                           /\ t = "churn" => s \in BeforeChurn \ Startup
         /\ c = "cleanup" => /\ s = "flags" <=> t = "load"
                             /\ t # "flags"
<1> USE DEF Startup, Iteration, BeforeChurn
<1>1. CASE c = "apply"
  BY <1>1 DEF Flow, StepsOf, ApplyFlow
<1>2. CASE c = "chaos"
  BY <1>2 DEF Flow, StepsOf, ChaosFlow
<1>3. CASE c = "monitor"
  BY <1>3 DEF Flow, StepsOf, MonitorFlow
<1>4. CASE c = "cleanup"
  BY <1>4 DEF Flow, StepsOf, CleanupFlow
<1> QED BY <1>1, <1>2, <1>3, <1>4 DEF CommandScripts

-----------------------------------------------------------------------------
(***************************************************************************)
(* Where a process is.                                                     *)
(***************************************************************************)
LEMMA HereIs == ASSUME NEW s, s # "none" PROVE At(s) <=> Here = s
BY DEF At, Here

LEMMA HereIn == ASSUME NEW S, "none" \notin S PROVE AtAny(S) <=> Here \in S
BY DEF At, AtAny, Here

LEMMA LaneFacts ==
  ASSUME TypeOK
  PROVE  /\ MaxRun \in Nat /\ Len(LaneSeq) \in Nat
         /\ DOMAIN LaneSeq = 1..Len(LaneSeq) /\ Lanes \subseteq DOMAIN Copies
         /\ \A l \in Lanes : \E k \in 1..Len(LaneSeq) : LaneSeq[k] = l
<1>1. MaxRun \in Nat /\ LaneSeq \in Seq(DOMAIN Copies)
  BY CommandsAssumption DEF TypeOK, MaxRun, LaneSeq
<1>2. /\ Len(LaneSeq) \in Nat /\ DOMAIN LaneSeq = 1..Len(LaneSeq)
      /\ \A k \in DOMAIN LaneSeq : LaneSeq[k] \in DOMAIN Copies
  BY <1>1
<1> QED BY <1>1, <1>2 DEF Lanes

LEMMA PlanFacts ==
  ASSUME NEW r, NEW x \in Plan(r)
  PROVE  x.run = r /\ x.lane \in Lanes /\ x.kind \in DOMAIN Copies[x.lane]
<1>1. PICK l \in Lanes : x \in UNION {{[run |-> r, lane |-> l, kind |-> k, n |-> n] :
                            n \in 1..Copies[l][k]} : k \in DOMAIN Copies[l]}
  BY DEF Plan
<1>2. PICK k \in DOMAIN Copies[l] :
        x \in {[run |-> r, lane |-> l, kind |-> k, n |-> n] : n \in 1..Copies[l][k]}
  BY <1>1
<1> QED BY <1>2

LEMMA ResourceFacts ==
  ASSUME NEW x \in Resource
  PROVE  /\ x.run \in 1..MaxRun /\ x \in Plan(x.run)
         /\ x.lane \in Lanes /\ x.kind \in DOMAIN Copies[x.lane]
<1>1. PICK r \in 1..MaxRun : x \in Plan(r)
  BY DEF Resource
<1> QED BY <1>1, PlanFacts

LEMMA PlanIsResource ==
  ASSUME TypeOK, p.run # 0
  PROVE  p.run \in 1..MaxRun /\ Plan(p.run) \subseteq Resource
<1>1. p.run \in 1..MaxRun
  BY LaneFacts DEF TypeOK
<1> QED BY <1>1 DEF Resource

(***************************************************************************)
(* What depends on the service of the session only does not change.        *)
(***************************************************************************)
LEMMA SameService ==
  ASSUME svc' = svc
  PROVE  /\ Lanes' = Lanes /\ MaxRun' = MaxRun /\ Resource' = Resource
         /\ Memory' = Memory /\ LaneSeq' = LaneSeq /\ Fresh' = Fresh
         /\ cmd' = cmd => Script' = Script
<1>1. LaneSeq' = LaneSeq /\ MaxRun' = MaxRun
  BY DEF LaneSeq, MaxRun
<1>2. Lanes' = Lanes
  BY <1>1 DEF Lanes
<1>3. Resource' = Resource
  BY <1>1, <1>2 DEF Resource, Plan
<1>4. Calls' = Calls
  BY <1>2 DEF Calls
<1>5. Memory' = Memory
  BY <1>2, <1>3, <1>4 DEF Memory
<1> QED BY <1>1, <1>2, <1>3, <1>5 DEF Fresh, Script

(***************************************************************************)
(* One step on in the script, and the jumps of an iteration.               *)
(***************************************************************************)
LEMMA Onwards ==
  ASSUME TypeOK, cmd # "none", svc' = svc, cmd' = cmd, p'.pc = p.pc + 1,
         Here # Last(cmd)
  PROVE  p'.pc \in DOMAIN Script /\ <<Here, Here'>> \in Flow(cmd)
<1>1. HasPath(Script, cmd) /\ p.pc \in DOMAIN Script
  BY ScriptPaths DEF TypeOK, Script
<1>2. Here = Script[p.pc]
  BY DEF Here
<1>3. p.pc + 1 \in DOMAIN Script /\ <<Script[p.pc], Script[p.pc + 1]>> \in Flow(cmd)
  BY <1>1, <1>2, StepAfter
<1>4. Here' = Script[p.pc + 1]
  BY SameService DEF Here
<1> QED BY <1>2, <1>3, <1>4

LEMMA Jumps ==
  ASSUME TypeOK, cmd = "monitor", svc' = svc, cmd' = cmd,
         NEW t \in {"own", "loop", "pace"}, p'.pc = StepOf(t)
  PROVE  p'.pc \in DOMAIN Script /\ Here' = t
<1>1. Script = MonitorScripts[svc] /\ svc \in DOMAIN MonitorScripts
  BY DEF TypeOK, Script, CommandScripts
<1>2. \E i \in DOMAIN Script : Script[i] = t
  <2>1. CASE t = "pace"
    <3>1. HasPath(Script, "monitor")
      BY <1>1, MonitorPaths
    <3>2. PICK n \in Nat \ {0} : DOMAIN Script = 1..n /\ Script[n] = "pace"
      BY <3>1 DEF HasPath, Path, Last
    <3> QED BY <3>2, <2>1
  <2>2. CASE t \in {"own", "loop"}
    BY <2>2, <1>1, IterationSteps
  <2> QED BY <2>1, <2>2
<1>3. StepOf(t) \in DOMAIN Script /\ Script[StepOf(t)] = t
  BY <1>2 DEF StepOf
<1> QED BY <1>3, SameService DEF Here

LEMMA Whereabouts ==
  ASSUME TypeOK
  PROVE  /\ cmd = "none" <=> Here = "none"
         /\ cmd # "none" => cmd \in DOMAIN CommandScripts /\ Here \in StepsOf(cmd)
<1>1. ASSUME cmd # "none"
      PROVE  cmd \in DOMAIN CommandScripts /\ Here \in StepsOf(cmd)
  <2>1. /\ cmd \in DOMAIN CommandScripts /\ HasPath(Script, cmd)
        /\ p.pc \in DOMAIN Script /\ Here = Script[p.pc]
    BY <1>1, ScriptPaths DEF TypeOK, Script, Here
  <2> QED BY <2>1, StepAny, FlowSteps
<1>2. \A c : "none" \notin StepsOf(c)
  BY DEF StepsOf
<1> QED BY <1>1, <1>2 DEF Here

-----------------------------------------------------------------------------
(***************************************************************************)
(* The steps by what they change: the place in the script, the ledger      *)
(* (known, in flight, checkpoints), the sweep, the flags, the world.       *)
(***************************************************************************)
SameLedger ==
  /\ p'.known = p.known /\ p'.landed = p.landed /\ p'.engine = p.engine
  /\ p'.snap = p.snap /\ p'.latest = p.latest /\ p'.copy = p.copy
  /\ p'.mutex = p.mutex
SameSweep == /\ p'.li = p.li /\ p'.targets = p.targets
             /\ p'.busy = p.busy /\ p'.terr = p.terr
SameFlags == p'.err = p.err /\ p'.abort = p.abort /\ p'.wrote = p.wrote
SameWorld == /\ cloud' = cloud /\ late' = late /\ spent' = spent
             /\ arrived' = arrived
InCommand ==
  /\ cmd # "none" /\ cmd' = cmd /\ svc' = svc /\ opt' = opt /\ claim' = claim
  /\ p' \in Memory /\ p'.pc \in DOMAIN Script /\ p'.byRecord = p.byRecord
SameRun == InCommand /\ runs' = runs /\ p'.run = p.run
GoesOn == <<Here, Here'>> \in Flow(cmd)

\* A command begins, or ends.
Begins ==
  /\ cmd = "none" /\ cmd' \in DOMAIN CommandScripts /\ svc' = svc
  /\ svc \in DOMAIN CommandScripts[cmd'] /\ claim' = "none"
  /\ Here' \in First(cmd') /\ p' \in Memory /\ p'.pc \in DOMAIN Script'
  /\ p'.run \in 0..runs /\ p'.known = {} /\ p'.landed = {}
  /\ \A l \in Lanes : /\ p'.engine[l] = "running"
                      /\ p'.snap[l] = {} /\ p'.latest[l] = {}
  /\ p'.li = 1 /\ ~p'.busy /\ ~p'.terr
  /\ IF cmd' = "cleanup" THEN p'.run # 0 ELSE p'.run = 0 /\ runs < MaxRun
  /\ cloud' = cloud /\ late' = late /\ disk' = disk /\ runs' = runs
Exits ==
  /\ cmd # "none" /\ cmd' = "none" /\ svc' = svc /\ p' = Fresh
  /\ SameWorld /\ runs' = runs
  /\ \/ disk' = disk
     \/ Here = "record" /\ WriteRecord

\* The process moves in its script, and only the flags change.
Quietly == SameRun /\ SameLedger /\ SameSweep /\ SameWorld /\ disk' = disk
Stays == Quietly /\ Here' = Here /\ SameFlags
Proceeds ==
  /\ Quietly /\ GoesOn
  /\ Here \notin {"runID", "iterID", "load", "churn", "loop", "own",
                  "teardown", "cleanup", "apply"}
  /\ p'.landed = {} /\ (Here = "preflight" => ~Reclaims)
  /\ p'.wrote = IF Here = "record" THEN "failed" ELSE p.wrote
  /\ cmd = "apply" => p'.err = p.err
  /\ cmd = "apply" /\ Here = "finish" => p.abort /\ p'.abort
Errs == /\ Quietly /\ Here' = Here /\ Here = "provision"
        /\ p'.abort = p.abort /\ p'.wrote = p.wrote
AppliedAll ==
  /\ Quietly /\ Here = "apply" /\ GoesOn /\ p.landed = {}
  /\ p'.err \/ (~p.err /\ Wanted \subseteq p.known)
  /\ p'.wrote = p.wrote
Jumped ==
  /\ Quietly /\ cmd = "monitor"
  /\ \/ Here \in {"iterID", "iterClient"} /\ Here' = "pace"
     \/ Here = "iterQuota" /\ Here' = "own"
     \/ Here = "pace" /\ Here' = "loop"

\* Run ids and records that are read.
Numbers ==
  /\ InCommand /\ SameLedger /\ SameSweep /\ SameWorld /\ SameFlags
  /\ disk' = disk /\ Here \in {"runID", "iterID"} /\ GoesOn
  /\ runs' = runs + 1 /\ p'.run = runs + 1
Loads ==
  /\ SameRun /\ SameSweep /\ SameFlags /\ SameWorld /\ disk' = disk
  /\ Here = "load" /\ GoesOn
  /\ p'.known = IF p.byRecord THEN disk[p.run].made ELSE {}
  /\ p'.landed = p.landed /\ p'.engine = p.engine /\ p'.snap = p.snap
  /\ p'.latest = p.latest /\ p'.copy = p.copy /\ p'.mutex = p.mutex
Loops ==
  /\ SameRun /\ SameSweep /\ cloud' = cloud /\ late' = late /\ disk' = disk
  /\ Here = "loop" /\ GoesOn /\ runs < MaxRun
  /\ p'.known = {} /\ p'.landed = p.landed /\ p'.engine = p.engine
  /\ p'.snap = p.snap /\ p'.latest = p.latest /\ p'.copy = p.copy
  /\ p'.mutex = p.mutex

\* Creates.  One whose context ended, or that failed, may stay unmarked.
SameChurn ==
  /\ p'.engine = p.engine /\ p'.snap = p.snap /\ p'.latest = p.latest
  /\ p'.copy = p.copy /\ p'.mutex = p.mutex
InPlace == /\ SameRun /\ Here' = Here /\ disk' = disk
           /\ p'.abort = p.abort /\ p'.wrote = p.wrote
Spends(x) == /\ Here \in Creating /\ x \in Plan(p.run) \ spent
             /\ Here = "churn" => p.engine[x.lane] # "returned"
             /\ cmd = "chaos" => x.kind # "order"
             /\ Here \in {"roots", "provision"} => IsRoot(x)
             /\ spent' = spent \cup {x} /\ arrived' = arrived
Asks(x) ==
  /\ InPlace /\ SameChurn /\ SameSweep /\ Spends(x) /\ p'.err = p.err
  /\ cloud' = cloud \cup {x} /\ late' = late
  /\ p'.known = p.known /\ p'.landed = p.landed \cup {x}
Learns(x) ==
  /\ InPlace /\ SameChurn /\ SameSweep /\ SameWorld
  /\ x \in p.landed /\ (p.err => p'.err)
  /\ p'.known = p.known \cup {x} /\ p'.landed = p.landed \ {x}
  /\ Identified(x) /\ x \notin marked =>
       Secret(x) /\ (Cut \/ Fault) /\ (cmd = "apply" => p'.err)
Misses(x) ==
  /\ InPlace /\ SameChurn /\ SameSweep /\ x \in p.landed
  /\ Here \in Creating /\ (p.err => p'.err)
  /\ \/ cloud' = cloud /\ (Cut \/ Fault)
     \/ cloud' = cloud \ {x}
  /\ late' = late /\ spent' = spent /\ arrived' = arrived
  /\ p'.known = p.known /\ p'.landed = p.landed \ {x}
GivesUp(x) ==
  /\ InPlace /\ SameChurn /\ SameSweep /\ Spends(x)
  /\ (p.err => p'.err) /\ Fault
  /\ cloud' = cloud /\ late' = late \cup {x}
  /\ p'.known = p.known /\ p'.landed = p.landed \ {x}

\* Churn: a delete, its answer, and the steps of a checkpoint.
Removes(x) ==
  /\ InPlace /\ SameLedger /\ SameSweep /\ p'.err = p.err /\ Here = "churn"
  /\ cloud' = cloud \ {x} /\ late' = late /\ spent' = spent
  /\ arrived' = arrived
Drops(x) ==
  /\ InPlace /\ SameChurn /\ SameSweep /\ SameWorld /\ p'.err = p.err
  /\ Here = "churn" /\ x \notin cloud
  /\ p'.known = p.known \ {x} /\ p'.landed = p.landed
Checks ==
  /\ SameRun /\ SameSweep /\ SameFlags /\ SameWorld /\ Here = "churn"
  /\ p'.known = p.known /\ p'.landed = p.landed
Snaps(l) ==
  /\ Checks /\ Here' = Here /\ disk' = disk /\ p.engine[l] = "running"
  /\ p'.engine = [p.engine EXCEPT ![l] = "waiting"]
  /\ p'.snap = [p.snap EXCEPT ![l] = resourcesOfLane(p.known \ Roots, l)]
  /\ p'.latest = p.latest /\ p'.copy = p.copy /\ p'.mutex = p.mutex
Merges(l) ==
  /\ Checks /\ Here' = Here /\ disk' = disk
  /\ p.engine[l] = "waiting" /\ p.mutex = "free"
  /\ p'.engine = [p.engine EXCEPT ![l] = "writing"]
  /\ p'.snap = p.snap /\ p'.latest = [p.latest EXCEPT ![l] = p.snap[l]]
  /\ p'.copy = [p.copy EXCEPT ![l] = UNION {p'.latest[k] : k \in Lanes}]
  /\ p'.mutex = "held"
Writes(l) ==
  /\ Checks /\ Here' = Here /\ p.engine[l] = "writing"
  /\ p'.engine = [p.engine EXCEPT ![l] = "running"]
  /\ p'.snap = p.snap /\ p'.latest = p.latest
  /\ p'.copy = [p.copy EXCEPT ![l] = {}] /\ p'.mutex = "free"
  /\ \/ disk' = disk
     \/ disk' = [disk EXCEPT ![p.run] = buildMixRecord(p.copy[l])]
Returns(l) ==
  /\ Checks /\ Here' = Here /\ disk' = disk /\ p.engine[l] = "running"
  /\ \A x \in p.landed : x.lane # l
  /\ p'.engine = [p.engine EXCEPT ![l] = "returned"]
  /\ p'.snap = p.snap /\ p'.latest = p.latest /\ p'.copy = p.copy
  /\ p'.mutex = p.mutex
Settles ==
  /\ Checks /\ GoesOn /\ disk' = disk
  /\ \A l \in Lanes : /\ p.engine[l] = "returned"
                      /\ p'.engine[l] = "running"
                      /\ p'.snap[l] = {} /\ p'.latest[l] = {}

\* The record.
Persists ==
  /\ SameRun /\ SameLedger /\ SameSweep /\ SameWorld /\ GoesOn
  /\ Here \in {"record", "keepRecord"} /\ WriteRecord
  /\ p'.err = p.err /\ p'.abort = p.abort

\* The sweeps.
Aims ==
  /\ InPlace /\ SameLedger /\ SameWorld /\ p'.err = p.err /\ Sweeping
  /\ p'.terr = p.terr /\ p'.li = p.li /\ p.li <= Len(LaneSeq)
  /\ p'.busy /\ p'.targets = Found
Skips ==
  /\ InPlace /\ SameLedger /\ SameWorld /\ p'.err = p.err
  /\ Here = "provision" /\ ~p'.busy /\ p'.terr = p.terr
Clears(x) ==
  /\ InPlace /\ SameLedger /\ p'.err = p.err /\ Sweeping /\ p.busy
  /\ cloud' = cloud \ {x} /\ late' = late /\ spent' = spent
  /\ arrived' = arrived /\ p'.li = p.li /\ p'.busy /\ p'.terr = p.terr
  /\ p'.targets = p.targets \ {x}
Leaves ==
  /\ InPlace /\ SameLedger /\ SameWorld /\ p'.err = p.err /\ Sweeping /\ p.busy
  /\ p'.li = p.li + 1 /\ ~p'.busy /\ p'.targets = {}
  /\ p'.terr \/ (~p.terr /\ p.targets = {})
WrapsUp ==
  /\ SameRun /\ SameLedger /\ SameWorld /\ disk' = disk /\ Sweeping
  /\ p.li > Len(LaneSeq) /\ p'.li = 1 /\ p'.busy = p.busy /\ ~p'.terr
  /\ p'.abort = p.abort /\ p'.wrote = p.wrote
  /\ \/ GoesOn /\ Here = "teardown" /\ cmd = "chaos"
     \/ GoesOn /\ Here = "own"
     \/ GoesOn /\ Here = "preflight" /\ ~p.terr
     \/ Here = "preflight" /\ Here' = "own"

\* A create that was given up takes effect.
Arrives(x) ==
  /\ cmd' = cmd /\ svc' = svc /\ opt' = opt /\ p' = p /\ claim' = claim
  /\ x \in late /\ late' = late \ {x} /\ cloud' = cloud \cup {x}
  /\ arrived' = arrived \cup {x} /\ spent' = spent /\ disk' = disk
  /\ runs' = runs

-----------------------------------------------------------------------------
(***************************************************************************)
(* What each action of Next is.                                            *)
(***************************************************************************)
LEMMA Advancing ==
  ASSUME TypeOK, cmd # "none", svc' = svc, opt' = opt, claim' = claim,
         NEW q \in Memory, q.pc = p.pc, q.byRecord = p.byRecord,
         Advance(q), Here # Last(cmd)
  PROVE  /\ InCommand /\ GoesOn /\ p'.run = q.run
         /\ p'.known = q.known /\ p'.landed = q.landed /\ p'.engine = q.engine
         /\ p'.snap = q.snap /\ p'.latest = q.latest /\ p'.copy = q.copy
         /\ p'.mutex = q.mutex /\ p'.li = q.li /\ p'.targets = q.targets
         /\ p'.busy = q.busy /\ p'.terr = q.terr /\ p'.err = q.err
         /\ p'.abort = q.abort /\ p'.wrote = q.wrote
<1>1. cmd' = cmd /\ p' = [q EXCEPT !.pc = @ + 1]
  BY DEF Advance, Runs
<1>2. /\ p' \in Memory /\ p'.pc = p.pc + 1 /\ p'.byRecord = q.byRecord
      /\ p'.run = q.run
      /\ p'.known = q.known /\ p'.landed = q.landed /\ p'.engine = q.engine
      /\ p'.snap = q.snap /\ p'.latest = q.latest /\ p'.copy = q.copy
      /\ p'.mutex = q.mutex /\ p'.li = q.li /\ p'.targets = q.targets
      /\ p'.busy = q.busy /\ p'.terr = q.terr /\ p'.err = q.err
      /\ p'.abort = q.abort /\ p'.wrote = q.wrote
  BY <1>1 DEF Memory
<1>3. p'.pc \in DOMAIN Script /\ GoesOn
  BY <1>1, <1>2, Onwards DEF GoesOn
<1> QED BY <1>1, <1>2, <1>3 DEF InCommand

LEMMA NotLast ==
  ASSUME TypeOK, cmd # "none",
         Here \notin {"teardown", "leakCheck", "pace", "cleanup"}
  PROVE  Here # Last(cmd)
BY DEF Last

\* Setting one flag keeps everything else.
OneFlag(q) ==
  \/ q = p
  \/ \E b \in BOOLEAN : \/ q = [p EXCEPT !.err = b]
                        \/ q = [p EXCEPT !.abort = b]
                        \/ q = [p EXCEPT !.ctx = FALSE, !.notify = b]
                        \/ q = [p EXCEPT !.notify = b]
  \/ \E w \in {"no", "yes", "failed"} : q = [p EXCEPT !.wrote = w]
KeptBy(q) ==
  /\ q \in Memory /\ q.pc = p.pc /\ q.byRecord = p.byRecord
  /\ q.run = p.run
  /\ q.known = p.known /\ q.landed = p.landed /\ q.engine = p.engine
  /\ q.snap = p.snap /\ q.latest = p.latest /\ q.copy = p.copy
  /\ q.mutex = p.mutex /\ q.li = p.li /\ q.targets = p.targets
  /\ q.busy = p.busy /\ q.terr = p.terr
LEMMA Flagged ==
  ASSUME TypeOK, NEW q, OneFlag(q)
  PROVE  KeptBy(q)
<1> USE DEF TypeOK, Memory, KeptBy
<1>1. CASE q = p
  BY <1>1
<1>2. ASSUME NEW b \in BOOLEAN, q = [p EXCEPT !.err = b]
      PROVE  KeptBy(q)
  BY <1>2
<1>3. ASSUME NEW b \in BOOLEAN, q = [p EXCEPT !.abort = b]
      PROVE  KeptBy(q)
  BY <1>3
<1>4. ASSUME NEW b \in BOOLEAN, q = [p EXCEPT !.ctx = FALSE, !.notify = b]
      PROVE  KeptBy(q)
  BY <1>4
<1>5. ASSUME NEW b \in BOOLEAN, q = [p EXCEPT !.notify = b]
      PROVE  KeptBy(q)
  BY <1>5
<1>6. ASSUME NEW w \in {"no", "yes", "failed"}, q = [p EXCEPT !.wrote = w]
      PROVE  KeptBy(q)
  BY <1>6
<1> HIDE DEF TypeOK, Memory, KeptBy
<1> QED BY <1>1, <1>2, <1>3, <1>4, <1>5, <1>6 DEF OneFlag

\* A step on that sets at most one flag.
LEMMA FlagStep ==
  ASSUME TypeOK, cmd # "none", svc' = svc, opt' = opt, claim' = claim,
         SameWorld, disk' = disk, runs' = runs, Here # Last(cmd),
         NEW q, OneFlag(q), Advance(q)
  PROVE  /\ Quietly /\ GoesOn
         /\ p'.err = q.err /\ p'.abort = q.abort /\ p'.wrote = q.wrote
BY Flagged, Advancing DEF KeptBy, Quietly, SameRun, SameLedger, SameSweep

LEMMA FlagsOf ==
  ASSUME TypeOK
  PROVE  /\ p.err \in BOOLEAN /\ p.abort \in BOOLEAN
         /\ p.wrote \in {"no", "yes", "failed"}
         /\ p.ctx \in BOOLEAN /\ p.notify \in BOOLEAN /\ p \in Memory
BY DEF TypeOK, Memory

LEMMA FlagFields ==
  ASSUME TypeOK, NEW b
  PROVE  /\ [p EXCEPT !.err = b].err = b
         /\ [p EXCEPT !.err = b].abort = p.abort
         /\ [p EXCEPT !.err = b].wrote = p.wrote
         /\ [p EXCEPT !.abort = b].err = p.err
         /\ [p EXCEPT !.abort = b].abort = b
         /\ [p EXCEPT !.abort = b].wrote = p.wrote
         /\ [p EXCEPT !.wrote = b].err = p.err
         /\ [p EXCEPT !.wrote = b].abort = p.abort
         /\ [p EXCEPT !.wrote = b].wrote = b
         /\ [p EXCEPT !.notify = b].err = p.err
         /\ [p EXCEPT !.notify = b].abort = p.abort
         /\ [p EXCEPT !.notify = b].wrote = p.wrote
BY DEF TypeOK, Memory

\* The steps that only proceed.
LEMMA IsPrepare ==
  ASSUME TypeOK, Quiet, Prepare \/ Signals \/ Output \/ IterationReady
         \/ PreflightSkipped
  PROVE  Proceeds
<1>1. /\ cmd # "none" /\ svc' = svc /\ opt' = opt /\ claim' = claim
      /\ SameWorld /\ disk' = disk /\ runs' = runs
  BY DEF Prepare, Signals, Output, IterationReady, PreflightSkipped, world,
         bounds, SameWorld, At, AtAny
<1>2. /\ Advance(p) \/ Advance([p EXCEPT !.notify = TRUE])
      /\ Here \in Preparing \cup {"signals", "output", "iterClient",
                                  "iterQuota", "keepRecord", "preflight"}
      /\ Here = "preflight" => ~Sweeping
  BY HereIs, HereIn DEF Prepare, Signals, Output, IterationReady,
     PreflightSkipped, Preparing
<1>3. Here = "preflight" => ~Reclaims
  BY <1>2, HereIs DEF Sweeping, Reclaims
<1>4. Here # Last(cmd) /\ p.landed = {}
  BY <1>2, NotLast, <1>1 DEF Preparing, Quiet, Creating
<1>5. PICK q : OneFlag(q) /\ Advance(q) /\ q.err = p.err /\ q.abort = p.abort
               /\ q.wrote = p.wrote
  BY <1>2, FlagFields DEF OneFlag
<1>6. /\ Quietly /\ GoesOn /\ p'.err = p.err /\ p'.abort = p.abort
      /\ p'.wrote = p.wrote
  BY <1>1, <1>4, <1>5, FlagStep
<1>7. p'.landed = {}
  BY <1>4, <1>6 DEF Quietly, SameLedger
<1> QED BY <1>2, <1>3, <1>6, <1>7 DEF Proceeds, Preparing

LEMMA IsFlagged ==
  ASSUME TypeOK, Quiet, Mismatch \/ Decide
  PROVE  Proceeds
<1>1. /\ cmd # "none" /\ svc' = svc /\ opt' = opt /\ claim' = claim
      /\ SameWorld /\ disk' = disk /\ runs' = runs
      /\ Here \in {"mismatch", "decide"}
  BY HereIs DEF Mismatch, Decide, world, bounds, SameWorld, At
<1>2. PICK q : OneFlag(q) /\ Advance(q) /\ q.wrote = p.wrote
               /\ (Here = "decide" => q.err = p.err)
  <2>1. CASE Mismatch
    <3>1. PICK b \in BOOLEAN : Advance([p EXCEPT !.err = b])
      BY <2>1 DEF Mismatch
    <3>2. [p EXCEPT !.err = b].wrote = p.wrote /\ OneFlag([p EXCEPT !.err = b])
      BY FlagFields DEF OneFlag
    <3>3. Here = "mismatch"
      BY <2>1, HereIs DEF Mismatch
    <3> QED BY <3>1, <3>2, <3>3, Zenon
  <2>2. CASE Decide
    <3>1. runAborted \in BOOLEAN
      BY FlagsOf DEF runAborted
    <3>2. /\ OneFlag([p EXCEPT !.abort = runAborted])
          /\ [p EXCEPT !.abort = runAborted].wrote = p.wrote
          /\ [p EXCEPT !.abort = runAborted].err = p.err
      BY <3>1, FlagFields DEF OneFlag
    <3> QED BY <2>2, <3>2 DEF Decide
  <2> QED BY <2>1, <2>2
<1>3. Here # Last(cmd) /\ p.landed = {}
  BY <1>1, NotLast DEF Quiet, Creating
<1>4. Quietly /\ GoesOn /\ p'.wrote = p.wrote /\ (Here = "decide" => p'.err = p.err)
  BY <1>1, <1>2, <1>3, FlagStep
<1>5. cmd = "apply" => Here # "mismatch"
  BY Whereabouts DEF StepsOf
<1> QED BY <1>1, <1>3, <1>4, <1>5 DEF Proceeds, Quietly, SameLedger

LEMMA IsBindRoots ==
  ASSUME TypeOK, BindRoots
  PROVE  Proceeds \/ Errs \/ Exits
<1>1. /\ cmd # "none" /\ svc' = svc /\ opt' = opt /\ claim' = claim
      /\ SameWorld /\ disk' = disk /\ runs' = runs
      /\ Here \in {"roots", "provision"} /\ p.landed = {}
  BY HereIs DEF BindRoots, world, bounds, SameWorld, At, Settled
<1>2. CASE Advance(p)
  <2>1. Quietly /\ GoesOn /\ p'.wrote = p.wrote /\ p'.err = p.err
    BY <1>1, <1>2, FlagStep, NotLast DEF OneFlag
  <2> QED BY <1>1, <2>1 DEF Proceeds, Quietly, SameLedger
<1>3. CASE Ends("error")
  BY <1>1, <1>3 DEF Exits, Ends
<1>4. CASE At("provision") /\ Runs([p EXCEPT !.err = TRUE])
  <2> DEFINE q == [p EXCEPT !.err = TRUE]
  <2>1. p' = q /\ cmd' = cmd /\ KeptBy(q) /\ Here = "provision"
    BY <1>4, Flagged, HereIs DEF OneFlag, Runs
  <2>2. q.abort = p.abort /\ q.wrote = p.wrote
    BY FlagFields
  <2> HIDE DEF q
  <2>3. p.pc \in DOMAIN Script
    BY <1>1 DEF TypeOK
  <2>4. Here' = Here
    BY <1>1, <2>1, SameService DEF Here, KeptBy
  <2> QED BY <1>1, <2>1, <2>2, <2>3, <2>4
          DEF Errs, Quietly, SameRun, InCommand, SameLedger, SameSweep, KeptBy
<1> QED BY <1>2, <1>3, <1>4 DEF BindRoots

LEMMA IsApplyEnds ==
  ASSUME TypeOK, ApplyEnds
  PROVE  AppliedAll
<1>1. /\ cmd # "none" /\ svc' = svc /\ opt' = opt /\ claim' = claim
      /\ SameWorld /\ disk' = disk /\ runs' = runs
      /\ Here = "apply" /\ p.landed = {} /\ Advance([p EXCEPT !.err = ~Filled])
  BY HereIs DEF ApplyEnds, world, bounds, SameWorld, At, Settled
<1> DEFINE q == [p EXCEPT !.err = ~Filled]
<1>2. Filled \in BOOLEAN
  BY FlagsOf DEF Filled
<1>3. OneFlag(q) /\ Advance(q)
  BY <1>1, <1>2 DEF OneFlag
<1>4. q.wrote = p.wrote /\ q.err = ~Filled
  BY FlagFields
<1> HIDE DEF q
<1>5. Quietly /\ GoesOn /\ p'.err = ~Filled /\ p'.wrote = p.wrote
  BY <1>1, <1>3, <1>4, FlagStep, NotLast
<1> QED BY <1>1, <1>5 DEF AppliedAll, Filled

LEMMA IsFinish ==
  ASSUME TypeOK, Quiet, Finish
  PROVE  Proceeds \/ Exits
<1>1. /\ cmd # "none" /\ svc' = svc /\ opt' = opt /\ claim' = claim
      /\ SameWorld /\ disk' = disk /\ runs' = runs /\ Here = "finish"
  BY HereIs DEF Finish, world, bounds, SameWorld, At
<1>2. p.landed = {}
  BY <1>1 DEF Quiet, Creating
<1>3. CASE Advance(p) /\ ~(cmd = "apply" /\ ~p.abort)
  <2>1. /\ Quietly /\ GoesOn /\ p'.wrote = p.wrote /\ p'.err = p.err
        /\ p'.abort = p.abort
    BY <1>1, <1>3, FlagStep, NotLast DEF OneFlag
  <2> QED BY <1>1, <1>2, <1>3, <2>1 DEF Proceeds, Quietly, SameLedger
<1>4. CASE Ends(Outcome)
  BY <1>1, <1>4 DEF Exits, Ends
<1> QED BY <1>3, <1>4 DEF Finish

\* The steps that end the command.
LEMMA IsEnd ==
  ASSUME TypeOK, Kill \/ PrepareFails \/ OutputFails \/ LeakCheck
         \/ LeakCheckFails \/ ChurnRefused
  PROVE  Exits
BY DEF Kill, PrepareFails, OutputFails, LeakCheck, LeakCheckFails,
       ChurnRefused, At, AtAny, Ends, Exits, world, bounds, SameWorld

LEMMA IsDryRun ==
  ASSUME TypeOK, Quiet, DryRun
  PROVE  Proceeds \/ Exits
<1>1. /\ cmd # "none" /\ svc' = svc /\ opt' = opt /\ claim' = claim
      /\ SameWorld /\ disk' = disk /\ runs' = runs /\ Here = "dryRun"
  BY HereIs DEF DryRun, world, bounds, SameWorld, At
<1>2. CASE Advance(p)
  <2>1. /\ Quietly /\ GoesOn /\ p'.wrote = p.wrote /\ p'.err = p.err
    BY <1>1, <1>2, FlagStep, NotLast DEF OneFlag
  <2>2. p.landed = {}
    BY <1>1 DEF Quiet, Creating
  <2> QED BY <1>1, <2>1, <2>2 DEF Proceeds, Quietly, SameLedger
<1>3. CASE Ends("ok")
  BY <1>1, <1>3 DEF Exits, Ends
<1> QED BY <1>2, <1>3 DEF DryRun

\* A step that stays, or jumps, and sets at most one flag and the place.
LEMMA Placing ==
  ASSUME TypeOK, cmd # "none", svc' = svc, opt' = opt, claim' = claim,
         SameWorld, disk' = disk, runs' = runs, cmd' = cmd,
         NEW q, OneFlag(q), NEW i \in DOMAIN Script, p' = [q EXCEPT !.pc = i]
  PROVE  /\ Quietly /\ p'.pc = i
         /\ p'.err = q.err /\ p'.abort = q.abort /\ p'.wrote = q.wrote
<1>1. KeptBy(q)
  BY Flagged
<1>2. i \in Nat
  BY ScriptPaths, StepAny DEF TypeOK, Script
<1>3. /\ p' \in Memory /\ p'.pc = i /\ p'.byRecord = q.byRecord
      /\ p'.run = q.run
      /\ p'.known = q.known /\ p'.landed = q.landed /\ p'.engine = q.engine
      /\ p'.snap = q.snap /\ p'.latest = q.latest /\ p'.copy = q.copy
      /\ p'.mutex = q.mutex /\ p'.li = q.li /\ p'.targets = q.targets
      /\ p'.busy = q.busy /\ p'.terr = q.terr
      /\ p'.err = q.err /\ p'.abort = q.abort /\ p'.wrote = q.wrote
  BY <1>1, <1>2 DEF KeptBy, Memory
<1> QED BY <1>1, <1>3
        DEF Quietly, SameRun, InCommand, SameLedger, SameSweep, KeptBy

LEMMA IsSignal ==
  ASSUME TypeOK, Signal
  PROVE  Stays \/ Exits
<1>1. /\ cmd # "none" /\ svc' = svc /\ opt' = opt /\ claim' = claim
      /\ SameWorld /\ disk' = disk /\ runs' = runs
  BY DEF Signal, world, bounds, SameWorld
<1>2. CASE Ends("killed")
  BY <1>1, <1>2 DEF Exits, Ends
<1>3. CASE Runs([p EXCEPT !.ctx = FALSE, !.notify = (cmd = "cleanup")])
  <2> DEFINE q == [p EXCEPT !.ctx = FALSE, !.notify = (cmd = "cleanup")]
  <2>1. OneFlag(q) /\ p' = q /\ cmd' = cmd
    BY <1>3 DEF OneFlag, Runs
  <2>2. q.err = p.err /\ q.abort = p.abort /\ q.wrote = p.wrote
    BY DEF TypeOK, Memory
  <2> HIDE DEF q
  <2>3. KeptBy(q)
    BY <2>1, Flagged
  <2>4. Here' = Here /\ p.pc \in DOMAIN Script
    BY <1>1, <2>1, <2>3, SameService DEF Here, KeptBy, TypeOK
  <2> QED BY <1>1, <2>1, <2>2, <2>3, <2>4
          DEF Stays, Quietly, SameRun, InCommand, SameLedger, SameSweep,
              SameFlags, KeptBy
<1> QED BY <1>2, <1>3 DEF Signal

LEMMA IsPace ==
  ASSUME TypeOK, Pace
  PROVE  Jumped \/ Exits
<1>1. /\ cmd # "none" /\ svc' = svc /\ opt' = opt /\ claim' = claim
      /\ SameWorld /\ disk' = disk /\ runs' = runs /\ Here = "pace"
  BY HereIs DEF Pace, world, bounds, SameWorld, At
<1>2. CASE Ends("ok")
  BY <1>1, <1>2 DEF Exits, Ends
<1>3. CASE Runs([p EXCEPT !.pc = StepOf("loop")])
  <2>1. cmd = "monitor"
    BY <1>1, Whereabouts DEF StepsOf, CommandScripts
  <2>2. p' = [p EXCEPT !.pc = StepOf("loop")] /\ cmd' = cmd
    BY <1>3 DEF Runs
  <2>3. p'.pc = StepOf("loop")
    BY <2>2 DEF TypeOK, Memory
  <2>4. StepOf("loop") \in DOMAIN Script /\ Here' = "loop"
    BY <1>1, <2>1, <2>2, <2>3, Jumps
  <2>5. Quietly
    BY <1>1, <2>2, <2>4, Placing DEF OneFlag
  <2> QED BY <1>1, <2>1, <2>4, <2>5 DEF Jumped
<1> QED BY <1>2, <1>3 DEF Pace

LEMMA IsIterationFails ==
  ASSUME TypeOK, Quiet, IterationFails
  PROVE  Jumped \/ Proceeds
<1>1. /\ cmd # "none" /\ svc' = svc /\ opt' = opt /\ claim' = claim
      /\ SameWorld /\ disk' = disk /\ runs' = runs
      /\ Here \in {"iterID", "iterClient", "iterQuota", "keepRecord"}
  BY HereIs, HereIn DEF IterationFails, world, bounds, SameWorld, At, AtAny
<1>2. cmd = "monitor" /\ p.landed = {}
  BY <1>1, Whereabouts DEF StepsOf, CommandScripts, Quiet, Creating
<1>3. CASE At("keepRecord") /\ Advance(p)
  <2>1. Here = "keepRecord"
    BY <1>3, HereIs
  <2>2. /\ Quietly /\ GoesOn /\ p'.wrote = p.wrote /\ p'.err = p.err
    BY <1>1, <1>3, <2>1, FlagStep, NotLast DEF OneFlag
  <2> QED BY <1>2, <2>1, <2>2 DEF Proceeds, Quietly, SameLedger
<1>4. ASSUME NEW t \in {"own", "pace"},
             Runs([p EXCEPT !.err = TRUE, !.pc = StepOf(t)]),
             IF t = "own" THEN Here = "iterQuota"
                          ELSE Here \in {"iterID", "iterClient"}
      PROVE  Jumped
  <2> DEFINE q == [p EXCEPT !.err = TRUE]
  <2>1. p' = [q EXCEPT !.pc = StepOf(t)] /\ cmd' = cmd /\ OneFlag(q)
    BY <1>4 DEF Runs, OneFlag
  <2> HIDE DEF q
  <2>2. p'.pc = StepOf(t)
    BY <2>1, Flagged DEF KeptBy, Memory
  <2>3. StepOf(t) \in DOMAIN Script /\ Here' = t
    BY <1>1, <1>2, <2>1, <2>2, Jumps
  <2>4. Quietly
    BY <1>1, <2>1, <2>3, Placing
  <2> QED BY <1>2, <1>4, <2>3, <2>4 DEF Jumped
<1>5. CASE /\ Here \in {"iterID", "iterClient"}
           /\ Runs([p EXCEPT !.err = TRUE, !.pc = StepOf("pace")])
  BY <1>4, <1>5
<1>6. CASE /\ Here = "iterQuota"
           /\ Runs([p EXCEPT !.err = TRUE, !.pc = StepOf("own")])
  BY <1>4, <1>6
<1> QED BY <1>3, <1>5, <1>6, HereIs, HereIn DEF IterationFails

\* Run ids, the record that is read, and the record that is written.
LEMMA IsNewRunID ==
  ASSUME TypeOK, newRunID
  PROVE  Numbers
<1> DEFINE q == [p EXCEPT !.run = runs + 1]
<1>1. /\ cmd # "none" /\ svc' = svc /\ opt' = opt /\ claim' = claim
      /\ SameWorld /\ disk' = disk /\ runs' = runs + 1
      /\ Here \in {"runID", "iterID"} /\ Advance(q)
  BY HereIn DEF newRunID, world, SameWorld, At, AtAny
<1>2. runs + 1 \in Nat /\ p \in Memory
  BY LaneFacts DEF TypeOK
<1>3. /\ q \in Memory /\ q.pc = p.pc /\ q.byRecord = p.byRecord
      /\ q.run = runs + 1
      /\ q.known = p.known /\ q.landed = p.landed /\ q.engine = p.engine
      /\ q.snap = p.snap /\ q.latest = p.latest /\ q.copy = p.copy
      /\ q.mutex = p.mutex /\ q.li = p.li /\ q.targets = p.targets
      /\ q.busy = p.busy /\ q.terr = p.terr /\ q.err = p.err
      /\ q.abort = p.abort /\ q.wrote = p.wrote
  BY <1>2 DEF Memory
<1> HIDE DEF q
<1> QED BY <1>1, <1>3, Advancing, NotLast
        DEF Numbers, SameLedger, SameSweep, SameFlags

LEMMA IsResolveRun ==
  ASSUME TypeOK, p.run # 0, resolveRun
  PROVE  Loads
<1> DEFINE k == IF p.byRecord THEN disk[p.run].made ELSE {}
           q == [p EXCEPT !.known = k]
<1>1. /\ cmd # "none" /\ svc' = svc /\ opt' = opt /\ claim' = claim
      /\ SameWorld /\ disk' = disk /\ runs' = runs
      /\ Here = "load" /\ Advance(q)
  BY HereIs DEF resolveRun, world, bounds, SameWorld, At
<1>2. k \subseteq Resource
  BY PlanIsResource DEF TypeOK, RunRecord
<1> HIDE DEF k
<1>3. /\ q \in Memory /\ q.pc = p.pc /\ q.byRecord = p.byRecord
      /\ q.run = p.run
      /\ q.known = k /\ q.landed = p.landed /\ q.engine = p.engine
      /\ q.snap = p.snap /\ q.latest = p.latest /\ q.copy = p.copy
      /\ q.mutex = p.mutex /\ q.li = p.li /\ q.targets = p.targets
      /\ q.busy = p.busy /\ q.terr = p.terr /\ q.err = p.err
      /\ q.abort = p.abort /\ q.wrote = p.wrote
  BY <1>2 DEF TypeOK, Memory
<1> HIDE DEF q
<1>4. /\ SameRun /\ SameSweep /\ SameFlags /\ GoesOn /\ p'.known = k
      /\ p'.landed = p.landed /\ p'.engine = p.engine /\ p'.snap = p.snap
      /\ p'.latest = p.latest /\ p'.copy = p.copy /\ p'.mutex = p.mutex
  BY <1>1, <1>3, Advancing, NotLast DEF SameRun, SameSweep, SameFlags
<1> QED BY <1>1, <1>4 DEF Loads, k

LEMMA IsRunMonitorLoop ==
  ASSUME TypeOK, runMonitorLoop
  PROVE  Loops \/ Exits
<1>1. /\ cmd # "none" /\ svc' = svc /\ opt' = opt /\ claim' = claim
      /\ cloud' = cloud /\ late' = late /\ disk' = disk /\ runs' = runs
      /\ Here = "loop"
  BY HereIs DEF runMonitorLoop, bounds, At
<1>2. CASE Ends("ok") /\ UNCHANGED <<spent, arrived>>
  BY <1>1, <1>2 DEF Exits, Ends, SameWorld
<1>3. CASE /\ runs < MaxRun
           /\ Advance([p EXCEPT !.iter = @ + 1, !.err = FALSE, !.known = {}])
  <2> DEFINE q == [p EXCEPT !.iter = @ + 1, !.err = FALSE, !.known = {}]
  <2>1. Advance(q) /\ runs < MaxRun
    BY <1>3
  <2> DEFINE a == [p EXCEPT !.iter = @ + 1]
             b == [a EXCEPT !.err = FALSE]
  <2>2. KeptBy(a)
    BY SMTT(30) DEF TypeOK, Memory, KeptBy
  <2>3. q = [b EXCEPT !.known = {}]
    BY Zenon
  <2> HIDE DEF a
  <2>4. KeptBy(b)
    BY <2>2 DEF Memory, KeptBy
  <2> HIDE DEF b, q
  <2>5. /\ q \in Memory /\ q.pc = p.pc /\ q.byRecord = p.byRecord
        /\ q.run = p.run
        /\ q.known = {} /\ q.landed = p.landed /\ q.engine = p.engine
        /\ q.snap = p.snap /\ q.latest = p.latest /\ q.copy = p.copy
        /\ q.mutex = p.mutex /\ q.li = p.li /\ q.targets = p.targets
        /\ q.busy = p.busy /\ q.terr = p.terr
    BY <2>3, <2>4 DEF Memory, KeptBy
  <2>6. /\ SameRun /\ SameSweep /\ GoesOn /\ p'.known = {}
        /\ p'.landed = p.landed /\ p'.engine = p.engine /\ p'.snap = p.snap
        /\ p'.latest = p.latest /\ p'.copy = p.copy /\ p'.mutex = p.mutex
    BY <1>1, <2>1, <2>5, Advancing, NotLast DEF SameRun, SameSweep
  <2> QED BY <1>1, <2>1, <2>6 DEF Loops
<1> QED BY <1>2, <1>3 DEF runMonitorLoop

LEMMA IsRecord ==
  ASSUME TypeOK, Record \/ writeIterationRecord
  PROVE  Persists
<1>1. /\ cmd # "none" /\ svc' = svc /\ opt' = opt /\ claim' = claim
      /\ SameWorld /\ runs' = runs /\ WriteRecord
      /\ Here \in {"record", "keepRecord"}
  BY HereIs DEF Record, writeIterationRecord, world, bounds, SameWorld, At
<1>2. PICK q : OneFlag(q) /\ Advance(q) /\ q.err = p.err /\ q.abort = p.abort
  <2>1. CASE Record
    <3>1. /\ OneFlag([p EXCEPT !.wrote = "yes"])
          /\ [p EXCEPT !.wrote = "yes"].err = p.err
          /\ [p EXCEPT !.wrote = "yes"].abort = p.abort
      BY FlagFields DEF OneFlag
    <3> QED BY <2>1, <3>1 DEF Record
  <2>2. CASE writeIterationRecord
    BY <2>2 DEF writeIterationRecord, OneFlag
  <2> QED BY <2>1, <2>2
<1>3. KeptBy(q)
  BY <1>2, Flagged
<1>4. /\ SameRun /\ SameLedger /\ SameSweep /\ GoesOn /\ p'.err = p.err
      /\ p'.abort = p.abort
  BY <1>1, <1>2, <1>3, Advancing, NotLast
     DEF KeptBy, SameRun, SameLedger, SameSweep
<1> QED BY <1>1, <1>4 DEF Persists

LEMMA IsRecordFails ==
  ASSUME TypeOK, Quiet, RecordFails
  PROVE  Proceeds \/ Exits
<1>1. /\ cmd # "none" /\ svc' = svc /\ opt' = opt /\ claim' = claim
      /\ SameWorld /\ runs' = runs /\ Here = "record"
  BY HereIs DEF RecordFails, world, bounds, SameWorld, At
<1>2. CASE Advance([p EXCEPT !.wrote = "failed"]) /\ UNCHANGED disk
  <2> DEFINE q == [p EXCEPT !.wrote = "failed"]
  <2>1. OneFlag(q) /\ Advance(q) /\ q.err = p.err /\ q.wrote = "failed"
    BY <1>2, FlagFields DEF OneFlag
  <2> HIDE DEF q
  <2>2. Quietly /\ GoesOn /\ p'.err = p.err /\ p'.wrote = "failed"
    BY <1>1, <1>2, <2>1, FlagStep, NotLast
  <2>3. p.landed = {}
    BY <1>1 DEF Quiet, Creating
  <2> QED BY <1>1, <2>2, <2>3 DEF Proceeds, Quietly, SameLedger
<1>3. CASE WriteRecord /\ Ends("error")
  BY <1>1, <1>3 DEF Exits, Ends
<1> QED BY <1>2, <1>3 DEF RecordFails

\* Creates and their answers.
LEMMA WantedFacts ==
  ASSUME TypeOK, NEW x \in Wanted
  PROVE  /\ x \in Plan(p.run) /\ Here \in Creating
         /\ Here = "churn" => p.engine[x.lane] # "returned"
         /\ cmd = "chaos" => x.kind # "order"
         /\ Here \in {"roots", "provision"} => IsRoot(x)
<1>1. At("apply") \/ AtAny({"roots", "provision"}) \/ At("churn")
  BY DEF Wanted
<1>2. Here \in Creating
  BY <1>1, HereIs, HereIn DEF Creating
<1>3. Here = "churn" => p.engine[x.lane] # "returned"
  BY HereIs, HereIn DEF Wanted
<1>4. ASSUME cmd = "chaos"
      PROVE  x.kind # "order"
  <2>1. ~At("apply")
    BY <1>4, Whereabouts, HereIs DEF StepsOf
  <2>2. IsRoot(x) \/ x.kind \notin barbicanChurnEnvelope
    BY <2>1 DEF Wanted
  <2>3. x.lane \in DOMAIN Copies
    BY PlanFacts, LaneFacts DEF Wanted
  <2>4. ServiceOf[x.lane] \in AllServices \cup {"persona"}
    BY <2>3, LanesAssumption
  <2> QED BY <2>2, <2>4 DEF IsRoot, RootKinds, barbicanChurnEnvelope
<1>5. Here \in {"roots", "provision"} => IsRoot(x)
  BY HereIs, HereIn DEF Wanted
<1> QED BY <1>2, <1>3, <1>4, <1>5 DEF Wanted

LEMMA LandedIn ==
  ASSUME TypeOK, NEW k \in SUBSET Resource, NEW s \in SUBSET Resource,
         NEW e \in BOOLEAN, cmd # "none", cmd' = cmd, svc' = svc, opt' = opt,
         claim' = claim, runs' = runs, disk' = disk,
         p' = [p EXCEPT !.landed = s, !.known = k, !.err = e]
  PROVE  /\ InPlace /\ SameChurn /\ SameSweep /\ p'.err = e
         /\ p'.known = k /\ p'.landed = s
<1> DEFINE a == [p EXCEPT !.landed = s]
           b == [a EXCEPT !.known = k]
<1>1. /\ a \in Memory /\ a.pc = p.pc /\ a.byRecord = p.byRecord
      /\ a.run = p.run
      /\ a.known = p.known /\ a.landed = s /\ a.engine = p.engine
      /\ a.snap = p.snap /\ a.latest = p.latest /\ a.copy = p.copy
      /\ a.mutex = p.mutex /\ a.li = p.li /\ a.targets = p.targets
      /\ a.busy = p.busy /\ a.terr = p.terr /\ a.err = p.err
      /\ a.abort = p.abort /\ a.wrote = p.wrote
  BY DEF TypeOK, Memory
<1>2. p' = [b EXCEPT !.err = e]
  OBVIOUS
<1> HIDE DEF a
<1>3. /\ b \in Memory /\ b.pc = p.pc /\ b.byRecord = p.byRecord
      /\ b.run = p.run
      /\ b.known = k /\ b.landed = s /\ b.engine = p.engine
      /\ b.snap = p.snap /\ b.latest = p.latest /\ b.copy = p.copy
      /\ b.mutex = p.mutex /\ b.li = p.li /\ b.targets = p.targets
      /\ b.busy = p.busy /\ b.terr = p.terr /\ b.err = p.err
      /\ b.abort = p.abort /\ b.wrote = p.wrote
  BY <1>1 DEF Memory
<1> HIDE DEF b
<1>4. /\ p' \in Memory /\ p'.pc = p.pc /\ p'.byRecord = p.byRecord
      /\ p'.run = p.run
      /\ p'.known = k /\ p'.landed = s /\ p'.engine = p.engine
      /\ p'.snap = p.snap /\ p'.latest = p.latest /\ p'.copy = p.copy
      /\ p'.mutex = p.mutex /\ p'.li = p.li /\ p'.targets = p.targets
      /\ p'.busy = p.busy /\ p'.terr = p.terr /\ p'.err = e
      /\ p'.abort = p.abort /\ p'.wrote = p.wrote
  BY <1>2, <1>3 DEF Memory
<1>5. Here' = Here /\ p.pc \in DOMAIN Script
  BY <1>4, SameService DEF Here, TypeOK
<1> QED BY <1>4, <1>5
        DEF InPlace, SameRun, InCommand, SameChurn, SameSweep

\* A memory is a function, and writing back what a field holds changes nothing.
MemoryFields ==
  {"pc", "run", "byRecord", "iter", "ctx", "notify", "err", "abort", "wrote",
   "known", "landed", "engine", "drained", "snap", "latest", "copy", "mutex",
   "li", "targets", "busy", "terr", "hung"}
IsMemory(m) == m = [f \in MemoryFields |-> m[f]]

LEMMA MemoryIsFunction ==
  ASSUME NEW m \in Memory
  PROVE  IsMemory(m)
BY DEF Memory, IsMemory, MemoryFields

LEMMA WriteBack ==
  ASSUME NEW m, IsMemory(m)
  PROVE  /\ [m EXCEPT !.known = m.known] = m
         /\ [m EXCEPT !.landed = m.landed] = m
         /\ [m EXCEPT !.err = m.err] = m
<1> DEFINE F == MemoryFields
<1>1. /\ m = [f \in F |-> m[f]]
      /\ {"known", "landed", "err"} \subseteq F
  BY DEF IsMemory, MemoryFields
<1>2. ASSUME NEW g \in F
      PROVE  [m EXCEPT ![g] = m[g]] = m
  <2> HIDE DEF F
  <2> QED BY <1>1
<1>3. m.known = m["known"] /\ m.landed = m["landed"] /\ m.err = m["err"]
  OBVIOUS
<1> QED BY <1>1, <1>2, <1>3

LEMMA WriteLanded ==
  ASSUME NEW m, IsMemory(m), NEW s
  PROVE  /\ IsMemory([m EXCEPT !.landed = s])
         /\ [m EXCEPT !.landed = s].known = m.known
         /\ [m EXCEPT !.landed = s].err = m.err
BY DEF IsMemory, MemoryFields

LEMMA WriteKnown ==
  ASSUME NEW m, IsMemory(m), NEW k
  PROVE  /\ IsMemory([m EXCEPT !.known = k])
         /\ [m EXCEPT !.known = k].err = m.err
BY DEF IsMemory, MemoryFields

LEMMA LedgerTypes ==
  ASSUME TypeOK
  PROVE  /\ p.known \subseteq Resource /\ p.landed \subseteq Resource
         /\ p.err \in BOOLEAN
         /\ \A s, k, e :
              /\ [p EXCEPT !.landed = s] =
                   [p EXCEPT !.landed = s, !.known = p.known, !.err = p.err]
              /\ [p EXCEPT !.landed = s, !.err = e] =
                   [p EXCEPT !.landed = s, !.known = p.known, !.err = e]
              /\ [p EXCEPT !.landed = s, !.known = k] =
                   [p EXCEPT !.landed = s, !.known = k, !.err = p.err]
              /\ [p EXCEPT !.known = k] =
                   [p EXCEPT !.landed = p.landed, !.known = k, !.err = p.err]
<1>1. p \in Memory /\ IsMemory(p)
  BY MemoryIsFunction DEF TypeOK
<1>2. /\ p.known \subseteq Resource /\ p.landed \subseteq Resource
      /\ p.err \in BOOLEAN
  BY <1>1 DEF Memory
<1>3. ASSUME NEW s, NEW k, NEW e
      PROVE  /\ [p EXCEPT !.landed = s] =
                   [p EXCEPT !.landed = s, !.known = p.known, !.err = p.err]
             /\ [p EXCEPT !.landed = s, !.err = e] =
                   [p EXCEPT !.landed = s, !.known = p.known, !.err = e]
             /\ [p EXCEPT !.landed = s, !.known = k] =
                   [p EXCEPT !.landed = s, !.known = k, !.err = p.err]
             /\ [p EXCEPT !.known = k] =
                   [p EXCEPT !.landed = p.landed, !.known = k, !.err = p.err]
  <2> DEFINE a == [p EXCEPT !.landed = s]
             b == [a EXCEPT !.known = k]
             c == [p EXCEPT !.known = k]
  <2>1. IsMemory(a) /\ a.known = p.known /\ a.err = p.err
    BY <1>1, WriteLanded
  <2>2. [a EXCEPT !.known = p.known] = a /\ [a EXCEPT !.err = p.err] = a
    <3> HIDE DEF a
    <3> QED BY <2>1, WriteBack
  <2>3. [b EXCEPT !.err = p.err] = b
    <3>1. IsMemory(b) /\ b.err = a.err
      <4> HIDE DEF a
      <4> QED BY <2>1, WriteKnown
    <3> HIDE DEF b
    <3> QED BY <2>1, <3>1, WriteBack
  <2>4. [c EXCEPT !.err = p.err] = c
    <3>1. IsMemory(c) /\ c.err = p.err
      BY <1>1, WriteKnown
    <3> HIDE DEF c
    <3> QED BY <3>1, WriteBack
  <2>5. [p EXCEPT !.landed = p.landed] = p
    BY <1>1, WriteBack
  <2> QED BY <2>2, <2>3, <2>4, <2>5, Zenon
<1> QED BY <1>2, <1>3

LEMMA IsCreate ==
  ASSUME TypeOK, p.run # 0, NEW x, Create(x)
  PROVE  Asks(x)
<1>1. /\ svc' = svc /\ opt' = opt /\ claim' = claim /\ late' = late
      /\ arrived' = arrived /\ disk' = disk /\ runs' = runs
      /\ cloud' = cloud \cup {x} /\ spent' = spent \cup {x} /\ cmd' = cmd
      /\ p' = [p EXCEPT !.landed = @ \cup {x}] /\ x \in Wanted \ spent
  BY DEF Create, bounds, Runs
<1>2. /\ x \in Plan(p.run) /\ Here \in Creating
      /\ Here = "churn" => p.engine[x.lane] # "returned"
      /\ cmd = "chaos" => x.kind # "order"
      /\ Here \in {"roots", "provision"} => IsRoot(x)
  BY <1>1, WantedFacts
<1>3. cmd # "none" /\ x \in Resource
  BY <1>2, PlanIsResource DEF Creating, Here
<1>4. p' = [p EXCEPT !.landed = p.landed \cup {x}, !.known = p.known,
                     !.err = p.err]
  BY <1>1, LedgerTypes
<1>5. p.landed \cup {x} \in SUBSET Resource /\ p.known \in SUBSET Resource
      /\ p.err \in BOOLEAN
  BY <1>3, LedgerTypes
<1>6. /\ InPlace /\ SameChurn /\ SameSweep /\ p'.err = p.err
      /\ p'.known = p.known /\ p'.landed = p.landed \cup {x}
  BY <1>1, <1>3, <1>4, <1>5, LandedIn
<1> QED BY <1>1, <1>2, <1>6 DEF Asks, Spends

\* A tag changes nothing but what is marked.
LEMMA IsTag ==
  ASSUME TypeOK, NEW x, Tag(x)
  PROVE  Stays
<1>1. /\ svc' = svc /\ opt' = opt /\ claim' = claim /\ SameWorld /\ disk' = disk
      /\ runs' = runs /\ cmd' = cmd /\ p' = p /\ x \in p.landed
  BY DEF Tag, bounds, SameWorld
<1>2. cmd # "none"
  BY <1>1 DEF TypeOK, Fresh
<1>3. Here' = Here /\ p.pc \in DOMAIN Script /\ p' \in Memory
  BY <1>1, <1>2, SameService DEF Here, TypeOK
<1> QED BY <1>1, <1>2, <1>3 DEF Stays, Quietly, SameRun, InCommand, SameLedger,
                                SameSweep, SameFlags

LEMMA IsAnswer ==
  ASSUME TypeOK, NEW x, NEW e \in BOOLEAN, Quiet, x \in p.landed,
         Runs([p EXCEPT !.landed = @ \ {x}, !.known = @ \cup {x}, !.err = e]),
         p.err => e,
         Identified(x) /\ x \notin marked =>
           Secret(x) /\ (Cut \/ Fault) /\ (cmd = "apply" => e),
         UNCHANGED <<svc, opt, claim, world, disk, bounds>>
  PROVE  Learns(x)
<1>1. /\ svc' = svc /\ opt' = opt /\ claim' = claim /\ SameWorld
      /\ disk' = disk /\ runs' = runs /\ cmd' = cmd
      /\ p' = [p EXCEPT !.landed = @ \ {x}, !.known = @ \cup {x}, !.err = e]
  BY DEF world, bounds, Runs, SameWorld
<1>2. cmd # "none"
  BY <1>1 DEF TypeOK, Fresh
<1> DEFINE s == p.landed \ {x}
           k == p.known \cup {x}
<1>3. p' = [p EXCEPT !.landed = s, !.known = k, !.err = e]
  BY <1>1, Zenon
<1>4. s \in SUBSET Resource /\ k \in SUBSET Resource
  BY LedgerTypes
<1>5. /\ InPlace /\ SameChurn /\ SameSweep /\ p'.err = e
      /\ p'.known = k /\ p'.landed = s
  <2> HIDE DEF s, k
  <2>1. /\ svc' = svc /\ opt' = opt /\ claim' = claim /\ runs' = runs
        /\ disk' = disk /\ cmd' = cmd
    BY <1>1
  <2> QED BY <1>2, <1>3, <1>4, <2>1, LandedIn
<1> QED BY <1>1, <1>5 DEF Learns

LEMMA IsAnswered ==
  ASSUME TypeOK, NEW x, Answer(x), Quiet
  PROVE  Learns(x)
<1>1. p' = [p EXCEPT !.landed = @ \ {x}, !.known = @ \cup {x}, !.err = p.err]
  <2> DEFINE s == p.landed \ {x}
             k == p.known \cup {x}
  <2>1. p' = [p EXCEPT !.landed = s, !.known = k]
    BY Zenon DEF Answer, Runs
  <2>2. p' = [p EXCEPT !.landed = s, !.known = k, !.err = p.err]
    <3> HIDE DEF s, k
    <3> QED BY <2>1, LedgerTypes
  <2> QED BY <2>2, Zenon
<1>2. p.err \in BOOLEAN
  BY FlagsOf
<1>3. /\ x \in p.landed /\ (Identified(x) => x \in marked)
      /\ UNCHANGED <<svc, opt, claim, world, disk, bounds>>
      /\ Runs([p EXCEPT !.landed = @ \ {x}, !.known = @ \cup {x}, !.err = p.err])
  BY <1>1 DEF Answer, Runs
<1> QED BY <1>2, <1>3, IsAnswer

LEMMA IsStampFails ==
  ASSUME TypeOK, NEW x, StampFails(x), Quiet
  PROVE  Learns(x)
<1> DEFINE e == p.err \/ ~At("churn")
<1>1. /\ x \in p.landed /\ Secret(x) /\ CallFails
      /\ UNCHANGED <<svc, opt, claim, world, disk, bounds>>
      /\ Runs([p EXCEPT !.landed = @ \ {x}, !.known = @ \cup {x}, !.err = e])
  BY DEF StampFails
<1>2. e \in BOOLEAN /\ (p.err => e)
  BY FlagsOf DEF At
<1>3. cmd = "apply" => e
  BY Whereabouts, HereIs DEF StepsOf
<1>4. Cut \/ Fault
  BY <1>1 DEF CallFails
<1> HIDE DEF e
<1> QED BY <1>1, <1>2, <1>3, <1>4, IsAnswer

LEMMA IsRollback ==
  ASSUME TypeOK, NEW x, Rollback(x), Quiet
  PROVE  Misses(x)
<1> DEFINE e == p.err \/ ~At("churn")
<1>1. /\ svc' = svc /\ opt' = opt /\ claim' = claim /\ cloud' = cloud \ {x}
      /\ late' = late /\ spent' = spent /\ arrived' = arrived
      /\ disk' = disk /\ runs' = runs /\ cmd' = cmd /\ x \in p.landed
      /\ p' = [p EXCEPT !.landed = @ \ {x}, !.err = e]
  BY DEF Rollback, bounds, Runs
<1>2. p' = [p EXCEPT !.landed = p.landed \ {x}, !.known = p.known, !.err = e]
  <2> HIDE DEF e
  <2> QED BY <1>1, LedgerTypes
<1>3. /\ p.landed \ {x} \in SUBSET Resource /\ p.known \in SUBSET Resource
      /\ e \in BOOLEAN /\ (p.err => e)
  BY LedgerTypes DEF At
<1> HIDE DEF e
<1>4. Here \in Creating /\ cmd # "none"
  BY <1>1 DEF Quiet, Here, Creating
<1>5. /\ InPlace /\ SameChurn /\ SameSweep /\ p'.err = e
      /\ p'.known = p.known /\ p'.landed = p.landed \ {x}
  BY <1>1, <1>2, <1>3, <1>4, LandedIn
<1> QED BY <1>1, <1>3, <1>4, <1>5 DEF Misses

LEMMA IsCreateFails ==
  ASSUME TypeOK, p.run # 0, NEW x, CreateFails(x), Quiet
  PROVE  Misses(x) \/ GivesUp(x)
<1> DEFINE e == p.err \/ ~At("churn")
<1>1. /\ svc' = svc /\ opt' = opt /\ claim' = claim /\ cloud' = cloud
      /\ arrived' = arrived /\ disk' = disk /\ runs' = runs /\ cmd' = cmd
      /\ p' = [p EXCEPT !.landed = @ \ {x}, !.err = e]
      /\ \/ x \in p.landed /\ CallFails /\ UNCHANGED <<late, spent>>
         \/ /\ x \in Wanted \ spent /\ Fault
            /\ late' = late \cup {x} /\ spent' = spent \cup {x}
  BY DEF CreateFails, bounds, Runs
<1>2. p' = [p EXCEPT !.landed = p.landed \ {x}, !.known = p.known, !.err = e]
  <2> HIDE DEF e
  <2> QED BY <1>1, LedgerTypes
<1>3. /\ p.landed \ {x} \in SUBSET Resource /\ p.known \in SUBSET Resource
      /\ e \in BOOLEAN /\ (p.err => e)
  BY <1>1, LedgerTypes DEF At
<1> HIDE DEF e
<1>4. Here \in Creating
  BY <1>1, WantedFacts DEF Quiet
<1>5. cmd # "none"
  BY <1>4 DEF Here, Creating
<1>6. /\ InPlace /\ SameChurn /\ SameSweep /\ (p.err => p'.err)
      /\ p'.known = p.known /\ p'.landed = p.landed \ {x}
  BY <1>1, <1>2, <1>3, <1>5, LandedIn
<1>7. CASE x \in p.landed /\ CallFails /\ UNCHANGED <<late, spent>>
  BY <1>1, <1>4, <1>6, <1>7 DEF Misses, CallFails
<1>8. CASE /\ x \in Wanted \ spent /\ Fault
           /\ late' = late \cup {x} /\ spent' = spent \cup {x}
  BY <1>1, <1>6, <1>8, WantedFacts DEF GivesUp, Spends
<1> QED BY <1>1, <1>7, <1>8

LEMMA IsLateLands ==
  ASSUME NEW x, LateLands(x)
  PROVE  Arrives(x)
BY DEF LateLands, Arrives, bounds

\* Churn: deletes, checkpoints and the end.
LEMMA IsChurnDelete ==
  ASSUME TypeOK, NEW x, ChurnDelete(x)
  PROVE  Removes(x)
<1>1. /\ svc' = svc /\ opt' = opt /\ claim' = claim /\ late' = late
      /\ spent' = spent /\ arrived' = arrived /\ disk' = disk
      /\ runs' = runs /\ cmd' = cmd /\ p' = p /\ cloud' = cloud \ {x}
      /\ cmd # "none" /\ Here = "churn"
  BY HereIs DEF ChurnDelete, bounds, At
<1>2. Here' = Here /\ p.pc \in DOMAIN Script /\ p' \in Memory
  BY <1>1, SameService DEF Here, TypeOK
<1> QED BY <1>1, <1>2
        DEF Removes, InPlace, SameRun, InCommand, SameLedger, SameSweep

LEMMA IsDeleteAnswered ==
  ASSUME TypeOK, NEW x, DeleteAnswered(x)
  PROVE  Drops(x)
<1>1. /\ svc' = svc /\ opt' = opt /\ claim' = claim /\ SameWorld
      /\ disk' = disk /\ runs' = runs /\ cmd' = cmd
      /\ p' = [p EXCEPT !.known = @ \ {x}]
      /\ cmd # "none" /\ Here = "churn" /\ x \notin cloud
  BY HereIs DEF DeleteAnswered, world, bounds, Runs, SameWorld, At
<1> DEFINE s == p.landed
           k == p.known \ {x}
           e == p.err
<1>2. p' = [p EXCEPT !.landed = s, !.known = k, !.err = e]
  <2>1. p' = [p EXCEPT !.known = k]
    BY <1>1, Zenon
  <2> HIDE DEF k
  <2> QED BY <2>1, LedgerTypes
<1>3. s \in SUBSET Resource /\ k \in SUBSET Resource /\ e \in BOOLEAN
  BY LedgerTypes
<1>4. /\ InPlace /\ SameChurn /\ SameSweep /\ p'.err = e
      /\ p'.known = k /\ p'.landed = s
  <2> HIDE DEF s, k, e
  <2>1. /\ svc' = svc /\ opt' = opt /\ claim' = claim /\ runs' = runs
        /\ disk' = disk /\ cmd' = cmd /\ cmd # "none"
    BY <1>1
  <2> QED BY <1>2, <1>3, <2>1, LandedIn
<1> QED BY <1>1, <1>4 DEF Drops

\* A step of a checkpoint sets some of the churn fields.
ChurnAt(q) ==
  /\ q \in Memory /\ q.pc = p.pc /\ q.byRecord = p.byRecord
  /\ q.run = p.run
  /\ q.known = p.known /\ q.landed = p.landed
  /\ q.li = p.li /\ q.targets = p.targets
  /\ q.busy = p.busy /\ q.terr = p.terr
  /\ q.err = p.err /\ q.abort = p.abort /\ q.wrote = p.wrote
LEMMA Checking ==
  ASSUME TypeOK, svc' = svc, opt' = opt, claim' = claim, SameWorld,
         runs' = runs, At("churn"), ChurnAt(p'), cmd' = cmd
  PROVE  Checks /\ Here' = Here
<1>1. Here = "churn" /\ cmd # "none"
  BY HereIs DEF At
<1>2. Here' = Here /\ p.pc \in DOMAIN Script
  BY <1>1, SameService DEF Here, TypeOK, ChurnAt
<1> QED BY <1>1, <1>2
        DEF Checks, SameRun, InCommand, SameSweep, SameFlags, ChurnAt

LEMMA IsSnapshot ==
  ASSUME TypeOK, NEW l \in Lanes, Snapshot(l) \/ SnapshotBeforeDrain(l)
  PROVE  Snaps(l)
<1> DEFINE s == resourcesOfLane(p.known \ Roots, l)
           a == [p EXCEPT !.snap = [p.snap EXCEPT ![l] = s]]
           b == [a EXCEPT !.engine = [p.engine EXCEPT ![l] = "waiting"]]
           c == [b EXCEPT !.drained = [p.drained EXCEPT ![l] = ~p.ctx]]
<1>1. /\ svc' = svc /\ opt' = opt /\ claim' = claim /\ SameWorld
      /\ disk' = disk /\ runs' = runs /\ cmd' = cmd
      /\ At("churn") /\ p.engine[l] = "running"
      /\ p' = [p EXCEPT !.snap[l] = s, !.engine[l] = "waiting",
                        !.drained[l] = ~p.ctx]
  BY DEF Snapshot, SnapshotBeforeDrain, OnCheckpoint, world, bounds, Runs,
         SameWorld
<1>2. s \subseteq Resource /\ p.ctx \in BOOLEAN /\ p \in Memory
  BY LedgerTypes, FlagsOf DEF resourcesOfLane
<1> HIDE DEF s
<1>3. p' = c
  BY <1>1, <1>2 DEF Memory
<1>4. /\ ChurnAt(a) /\ a.snap = [p.snap EXCEPT ![l] = s]
      /\ a.engine = p.engine /\ a.latest = p.latest /\ a.copy = p.copy
      /\ a.mutex = p.mutex /\ a.drained = p.drained
  BY <1>2 DEF Memory, ChurnAt
<1> HIDE DEF a
<1>5. /\ ChurnAt(b) /\ b.snap = [p.snap EXCEPT ![l] = s]
      /\ b.engine = [p.engine EXCEPT ![l] = "waiting"]
      /\ b.latest = p.latest /\ b.copy = p.copy
      /\ b.mutex = p.mutex /\ b.drained = p.drained
  BY <1>4 DEF Memory, ChurnAt
<1> HIDE DEF b
<1>6. /\ ChurnAt(c) /\ c.snap = [p.snap EXCEPT ![l] = s]
      /\ c.engine = [p.engine EXCEPT ![l] = "waiting"]
      /\ c.latest = p.latest /\ c.copy = p.copy /\ c.mutex = p.mutex
  BY <1>5, <1>2 DEF Memory, ChurnAt
<1> HIDE DEF c
<1>7. Checks /\ Here' = Here
  BY <1>1, <1>3, <1>6, Checking
<1> QED BY <1>1, <1>3, <1>6, <1>7 DEF Snaps, s

LEMMA IsMerge ==
  ASSUME TypeOK, NEW l \in Lanes, Merge(l)
  PROVE  Merges(l)
<1> DEFINE now == [p.latest EXCEPT ![l] = p.snap[l]]
           u == UNION {now[k] : k \in Lanes}
           a == [p EXCEPT !.latest = now]
           b == [a EXCEPT !.engine = [p.engine EXCEPT ![l] = "writing"]]
           c == [b EXCEPT !.copy = [p.copy EXCEPT ![l] = u]]
           d == [c EXCEPT !.mutex = "held"]
<1>1. /\ svc' = svc /\ opt' = opt /\ claim' = claim /\ SameWorld
      /\ disk' = disk /\ runs' = runs /\ cmd' = cmd
      /\ At("churn") /\ p.engine[l] = "waiting" /\ p.mutex = "free"
      /\ p' = [[p EXCEPT !.latest = now, !.engine[l] = "writing",
                         !.copy[l] = u] EXCEPT !.mutex = "held"]
  BY DEF Merge, Merged, world, bounds, Runs, SameWorld
<1>2. p \in Memory
  BY DEF TypeOK
<1>3. now \in [Lanes -> SUBSET Resource] /\ u \subseteq Resource
  BY <1>2 DEF Memory
<1> HIDE DEF now, u
<1>4. p' = d
  BY <1>1, <1>2 DEF Memory
<1>5. /\ ChurnAt(a) /\ a.snap = p.snap /\ a.latest = now
      /\ a.engine = p.engine /\ a.copy = p.copy /\ a.mutex = p.mutex
  BY <1>2, <1>3 DEF Memory, ChurnAt
<1> HIDE DEF a
<1>6. /\ ChurnAt(b) /\ b.snap = p.snap /\ b.latest = now
      /\ b.engine = [p.engine EXCEPT ![l] = "writing"]
      /\ b.copy = p.copy /\ b.mutex = p.mutex
  BY <1>2, <1>5 DEF Memory, ChurnAt
<1> HIDE DEF b
<1>7. /\ ChurnAt(c) /\ c.snap = p.snap /\ c.latest = now
      /\ c.engine = [p.engine EXCEPT ![l] = "writing"]
      /\ c.copy = [p.copy EXCEPT ![l] = u]
  BY <1>2, <1>3, <1>6 DEF Memory, ChurnAt
<1> HIDE DEF c
<1>8. /\ ChurnAt(d) /\ d.snap = p.snap /\ d.latest = now
      /\ d.engine = [p.engine EXCEPT ![l] = "writing"]
      /\ d.copy = [p.copy EXCEPT ![l] = u] /\ d.mutex = "held"
  BY <1>7 DEF Memory, ChurnAt
<1> HIDE DEF d
<1>9. Checks /\ Here' = Here
  BY <1>1, <1>4, <1>8, Checking
<1>10. u = UNION {p'.latest[k] : k \in Lanes}
  BY <1>4, <1>8 DEF u
<1> QED BY <1>1, <1>4, <1>8, <1>9, <1>10 DEF Merges, now

LEMMA IsWriteCheckpoint ==
  ASSUME TypeOK, NEW l \in Lanes, NEW ok \in BOOLEAN, WriteCheckpoint(l, ok)
  PROVE  Writes(l)
<1> DEFINE a == [p EXCEPT !.mutex = "free"]
           b == [a EXCEPT !.engine = [p.engine EXCEPT ![l] = "running"]]
           c == [b EXCEPT !.copy = [p.copy EXCEPT ![l] = {}]]
<1>1. /\ svc' = svc /\ opt' = opt /\ claim' = claim /\ SameWorld
      /\ runs' = runs /\ cmd' = cmd
      /\ At("churn") /\ p.engine[l] = "writing"
      /\ p' = [p EXCEPT !.mutex = "free", !.engine[l] = "running",
                        !.copy[l] = {}]
      /\ \/ disk' = disk
         \/ disk' = [disk EXCEPT ![p.run] = buildMixRecord(p.copy[l])]
  BY DEF WriteCheckpoint, world, bounds, Runs, SameWorld
<1>2. p \in Memory
  BY DEF TypeOK
<1>3. p' = c
  BY <1>1, <1>2 DEF Memory
<1>4. /\ ChurnAt(a) /\ a.snap = p.snap /\ a.latest = p.latest
      /\ a.engine = p.engine /\ a.copy = p.copy /\ a.mutex = "free"
  BY <1>2 DEF Memory, ChurnAt
<1> HIDE DEF a
<1>5. /\ ChurnAt(b) /\ b.snap = p.snap /\ b.latest = p.latest
      /\ b.engine = [p.engine EXCEPT ![l] = "running"]
      /\ b.copy = p.copy /\ b.mutex = "free"
  BY <1>2, <1>4 DEF Memory, ChurnAt
<1> HIDE DEF b
<1>6. /\ ChurnAt(c) /\ c.snap = p.snap /\ c.latest = p.latest
      /\ c.engine = [p.engine EXCEPT ![l] = "running"]
      /\ c.copy = [p.copy EXCEPT ![l] = {}] /\ c.mutex = "free"
  BY <1>2, <1>5 DEF Memory, ChurnAt
<1> HIDE DEF c
<1>7. Checks /\ Here' = Here
  BY <1>1, <1>3, <1>6, Checking
<1> QED BY <1>1, <1>3, <1>6, <1>7 DEF Writes

LEMMA IsEngineReturns ==
  ASSUME TypeOK, NEW l \in Lanes, EngineReturns(l)
  PROVE  Returns(l)
<1>1. /\ svc' = svc /\ opt' = opt /\ claim' = claim /\ SameWorld
      /\ disk' = disk /\ runs' = runs /\ cmd' = cmd
      /\ At("churn") /\ p.engine[l] = "running"
      /\ p' = [p EXCEPT !.engine = [p.engine EXCEPT ![l] = "returned"]]
      /\ \A x \in p.landed : x.lane # l
  BY DEF EngineReturns, world, bounds, Runs, SameWorld, InFlight,
         resourcesOfLane
<1>2. /\ ChurnAt(p') /\ p'.snap = p.snap /\ p'.latest = p.latest
      /\ p'.engine = [p.engine EXCEPT ![l] = "returned"]
      /\ p'.copy = p.copy /\ p'.mutex = p.mutex
  BY <1>1 DEF TypeOK, Memory, ChurnAt
<1>3. Checks /\ Here' = Here
  BY <1>1, <1>2, Checking
<1> QED BY <1>1, <1>2, <1>3 DEF Returns

LEMMA IsChurnEnds ==
  ASSUME TypeOK, ChurnEnds
  PROVE  Settles
<1> DEFINE a == [p EXCEPT !.engine = Fresh.engine]
           b == [a EXCEPT !.snap = Fresh.snap]
           c == [b EXCEPT !.latest = Fresh.latest]
           q == [c EXCEPT !.drained = Fresh.drained]
<1>1. /\ svc' = svc /\ opt' = opt /\ claim' = claim /\ SameWorld
      /\ disk' = disk /\ runs' = runs /\ Advance(q)
      /\ cmd # "none" /\ Here = "churn"
      /\ \A l \in Lanes : p.engine[l] = "returned"
  BY HereIs DEF ChurnEnds, world, bounds, SameWorld, At
<1>2. /\ Fresh.engine \in [Lanes -> {"running"}]
      /\ Fresh.snap \in [Lanes -> SUBSET Resource]
      /\ Fresh.latest \in [Lanes -> SUBSET Resource]
      /\ Fresh.drained \in [Lanes -> BOOLEAN]
      /\ \A l \in Lanes : Fresh.snap[l] = {} /\ Fresh.latest[l] = {}
  BY DEF Fresh
<1>3. p \in Memory
  BY DEF TypeOK
<1>4. /\ ChurnAt(a) /\ a.snap = p.snap /\ a.latest = p.latest
      /\ a.engine = Fresh.engine /\ a.copy = p.copy /\ a.mutex = p.mutex
  BY <1>2, <1>3, SMTT(30) DEF Memory, ChurnAt
<1> HIDE DEF a
<1>5. /\ ChurnAt(b) /\ b.snap = Fresh.snap /\ b.latest = p.latest
      /\ b.engine = Fresh.engine
  BY <1>2, <1>4 DEF Memory, ChurnAt
<1> HIDE DEF b
<1>6. /\ ChurnAt(c) /\ c.snap = Fresh.snap /\ c.latest = Fresh.latest
      /\ c.engine = Fresh.engine
  BY <1>2, <1>5 DEF Memory, ChurnAt
<1> HIDE DEF c
<1>7. /\ ChurnAt(q) /\ q.snap = Fresh.snap /\ q.latest = Fresh.latest
      /\ q.engine = Fresh.engine
  BY <1>2, <1>6 DEF Memory, ChurnAt
<1> HIDE DEF q
<1>8. /\ InCommand /\ GoesOn /\ p'.run = p.run
      /\ p'.known = p.known /\ p'.landed = p.landed
      /\ p'.engine = Fresh.engine /\ p'.snap = Fresh.snap
      /\ p'.latest = Fresh.latest /\ SameSweep /\ SameFlags
  <2>1. q \in Memory /\ q.pc = p.pc /\ q.byRecord = p.byRecord
    BY <1>7 DEF ChurnAt
  <2>2. Here # Last(cmd)
    BY <1>1, NotLast
  <2>3. /\ InCommand /\ GoesOn /\ p'.run = q.run
        /\ p'.known = q.known /\ p'.landed = q.landed /\ p'.engine = q.engine
        /\ p'.snap = q.snap /\ p'.latest = q.latest /\ p'.copy = q.copy
        /\ p'.mutex = q.mutex /\ p'.li = q.li /\ p'.targets = q.targets
        /\ p'.busy = q.busy /\ p'.terr = q.terr /\ p'.err = q.err
        /\ p'.abort = q.abort /\ p'.wrote = q.wrote
    BY <1>1, <2>1, <2>2, Advancing
  <2> QED BY <1>7, <2>3 DEF ChurnAt, SameSweep, SameFlags
<1>9. Checks
  BY <1>1, <1>8 DEF Checks, SameRun
<1> QED BY <1>1, <1>2, <1>8, <1>9 DEF Settles

\* The sweeps.
SweepAt(q) ==
  /\ q \in Memory /\ q.pc = p.pc /\ q.byRecord = p.byRecord
  /\ q.run = p.run
  /\ q.known = p.known /\ q.landed = p.landed /\ q.engine = p.engine
  /\ q.snap = p.snap /\ q.latest = p.latest /\ q.copy = p.copy
  /\ q.mutex = p.mutex
  /\ q.err = p.err /\ q.abort = p.abort /\ q.wrote = p.wrote
LEMMA Sweeping1 ==
  ASSUME TypeOK, svc' = svc, opt' = opt, claim' = claim, disk' = disk,
         runs' = runs, SweepAt(p'), cmd' = cmd, cmd # "none"
  PROVE  InPlace /\ SameLedger /\ p'.err = p.err
<1>1. Here' = Here /\ p.pc \in DOMAIN Script
  BY SameService DEF Here, TypeOK, SweepAt
<1> QED BY <1>1 DEF InPlace, SameRun, InCommand, SameLedger, SweepAt

LEMMA SweepingHere == Sweeping => cmd # "none"
BY DEF Sweeping, At, AtAny

LEMMA FoundExists == Found \subseteq cloud
BY DEF Found

LEMMA IsBeginLane ==
  ASSUME TypeOK, BeginLane
  PROVE  Aims \/ Skips
<1>1. /\ svc' = svc /\ opt' = opt /\ claim' = claim /\ SameWorld
      /\ disk' = disk /\ runs' = runs /\ cmd' = cmd /\ Sweeping /\ ~p.busy
      /\ cmd # "none" /\ p.li <= Len(LaneSeq)
      /\ IF Skipped THEN p' = [p EXCEPT !.li = @ + 1]
                    ELSE p' = [p EXCEPT !.busy = TRUE, !.targets = Found]
  BY SweepingHere DEF BeginLane, world, bounds, Runs, SameWorld
<1>2. p \in Memory /\ Found \subseteq Resource
  BY FoundExists DEF TypeOK
<1>3. CASE Skipped
  <2>1. Here = "provision" /\ p' = [p EXCEPT !.li = p.li + 1]
    BY <1>1, <1>3, HereIs DEF Skipped
  <2>2. /\ SweepAt(p') /\ p'.terr = p.terr /\ p'.busy = p.busy
    BY <1>2, <2>1 DEF Memory, SweepAt
  <2>3. InPlace /\ SameLedger /\ p'.err = p.err
    BY <1>1, <2>2, Sweeping1
  <2> QED BY <1>1, <2>1, <2>2, <2>3 DEF Skips
<1>4. CASE ~Skipped
  <2> DEFINE a == [p EXCEPT !.busy = TRUE]
  <2>1. p' = [a EXCEPT !.targets = Found]
    BY <1>1, <1>4
  <2>2. SweepAt(a) /\ a.li = p.li /\ a.terr = p.terr /\ a.busy = TRUE
    BY <1>2 DEF Memory, SweepAt
  <2> HIDE DEF a
  <2>3. /\ SweepAt(p') /\ p'.li = p.li /\ p'.terr = p.terr /\ p'.busy = TRUE
        /\ p'.targets = Found
    BY <1>2, <2>1, <2>2 DEF Memory, SweepAt
  <2>4. InPlace /\ SameLedger /\ p'.err = p.err
    BY <1>1, <2>3, Sweeping1
  <2> QED BY <1>1, <2>3, <2>4 DEF Aims
<1> QED BY <1>3, <1>4

LEMMA IsDeleteTarget ==
  ASSUME TypeOK, NEW x, DeleteTarget(x)
  PROVE  Clears(x)
<1>1. /\ svc' = svc /\ opt' = opt /\ claim' = claim /\ disk' = disk
      /\ runs' = runs /\ cmd' = cmd /\ Sweeping /\ p.busy
      /\ cmd # "none" /\ cloud' = cloud \ {x} /\ late' = late
      /\ spent' = spent /\ arrived' = arrived
      /\ p' = [p EXCEPT !.targets = p.targets \ {x}]
  BY SweepingHere DEF DeleteTarget, bounds, Runs
<1>2. /\ SweepAt(p') /\ p'.li = p.li /\ p'.terr = p.terr
      /\ p'.busy = p.busy /\ p'.targets = p.targets \ {x}
  BY <1>1 DEF TypeOK, Memory, SweepAt
<1>3. InPlace /\ SameLedger /\ p'.err = p.err
  BY <1>1, <1>2, Sweeping1
<1> QED BY <1>1, <1>2, <1>3 DEF Clears

LEMMA IsLaneEnds ==
  ASSUME TypeOK, LaneClean \/ LaneGivesUp \/ LaneFails
  PROVE  Leaves
<1>1. PICK ok \in BOOLEAN :
        /\ LaneEnds(ok) /\ Sweeping /\ p.busy
        /\ ok => p.targets = {}
  BY DEF LaneClean, LaneGivesUp, LaneFails
<1> DEFINE a == [p EXCEPT !.li = p.li + 1]
           b == [a EXCEPT !.busy = FALSE]
           c == [b EXCEPT !.hung = "no"]
           d == [c EXCEPT !.targets = {}]
           t == p.terr \/ ~ok
<1>2. /\ svc' = svc /\ opt' = opt /\ claim' = claim /\ SameWorld
      /\ disk' = disk /\ runs' = runs /\ cmd' = cmd /\ cmd # "none"
      /\ p' = [p EXCEPT !.li = @ + 1, !.busy = FALSE, !.hung = "no",
                        !.targets = {}, !.terr = @ \/ ~ok]
  BY <1>1, SweepingHere DEF LaneEnds, world, bounds, Runs, SameWorld
<1>3. p \in Memory /\ p.terr \in BOOLEAN /\ p.li \in Nat \ {0}
  BY DEF TypeOK, Memory
<1>4. p' = [d EXCEPT !.terr = t]
  BY <1>2, <1>3 DEF Memory
<1>5. t \in BOOLEAN
  BY <1>3
<1> HIDE DEF t
<1>6. SweepAt(a) /\ a.li = p.li + 1 /\ a.terr = p.terr
  BY <1>3 DEF Memory, SweepAt
<1> HIDE DEF a
<1>7. SweepAt(b) /\ b.li = p.li + 1 /\ b.terr = p.terr /\ b.busy = FALSE
  BY <1>6 DEF Memory, SweepAt
<1> HIDE DEF b
<1>8. SweepAt(c) /\ c.li = p.li + 1 /\ c.terr = p.terr /\ c.busy = FALSE
  BY <1>7 DEF Memory, SweepAt
<1> HIDE DEF c
<1>9. /\ SweepAt(d) /\ d.li = p.li + 1 /\ d.terr = p.terr /\ d.busy = FALSE
      /\ d.targets = {}
  BY <1>8 DEF Memory, SweepAt
<1> HIDE DEF d
<1>10. /\ SweepAt(p') /\ p'.li = p.li + 1 /\ p'.terr = t /\ p'.busy = FALSE
       /\ p'.targets = {}
  BY <1>4, <1>5, <1>9 DEF Memory, SweepAt
<1>11. InPlace /\ SameLedger /\ p'.err = p.err
  BY <1>2, <1>10, Sweeping1
<1>12. p'.terr \/ (~p.terr /\ p.targets = {})
  BY <1>1, <1>10 DEF t
<1> QED BY <1>1, <1>2, <1>10, <1>11, <1>12 DEF Leaves

LEMMA IsHang ==
  ASSUME TypeOK, NEW c \in Calls, Hang(c)
  PROVE  Stays
<1>1. /\ svc' = svc /\ opt' = opt /\ claim' = claim /\ SameWorld
      /\ disk' = disk /\ runs' = runs /\ cmd' = cmd /\ cmd # "none"
      /\ p' = [p EXCEPT !.hung = c]
  BY SweepingHere DEF Hang, world, bounds, Runs, SameWorld
<1>2. SweepAt(p') /\ SameSweep /\ SameFlags
  BY <1>1 DEF TypeOK, Memory, SweepAt, SameSweep, SameFlags
<1>3. InPlace /\ SameLedger /\ p'.err = p.err
  BY <1>1, <1>2, Sweeping1
<1> QED BY <1>1, <1>2, <1>3 DEF Stays, Quietly, InPlace

LEMMA SweptFacts ==
  ASSUME TypeOK
  PROVE  /\ SweepAt(Swept) /\ Swept.li = 1 /\ Swept.terr = FALSE
         /\ Swept.busy = p.busy
<1> DEFINE a == [p EXCEPT !.li = 1]
<1>1. SweepAt(a) /\ a.busy = p.busy
  BY DEF TypeOK, Memory, SweepAt
<1>2. a.li = 1
  BY DEF TypeOK, Memory
<1>3. Swept = [a EXCEPT !.terr = FALSE]
  BY DEF Swept
<1> HIDE DEF a
<1> QED BY <1>1, <1>2, <1>3 DEF SweepAt, Memory

LEMMA IsSweepEnds ==
  ASSUME TypeOK, SweepEnds
  PROVE  WrapsUp \/ Exits
<1>1. /\ svc' = svc /\ opt' = opt /\ claim' = claim /\ SameWorld
      /\ disk' = disk /\ runs' = runs /\ cmd # "none" /\ Sweeping
      /\ p.li > Len(LaneSeq)
  BY SweepingHere DEF SweepEnds, world, bounds, SameWorld
<1>2. ASSUME NEW k, Ends(k)
      PROVE  Exits
  BY <1>1, <1>2 DEF Exits, Ends
<1>3. ASSUME NEW q, SweepAt(q), q.li = 1, q.busy = p.busy, q.terr = FALSE,
             Advance(q), Here # Last(cmd)
      PROVE  /\ SameRun /\ SameLedger /\ GoesOn /\ p'.li = 1
             /\ p'.busy = p.busy /\ ~p'.terr
             /\ p'.abort = p.abort /\ p'.wrote = p.wrote
  BY <1>1, <1>3, Advancing DEF SweepAt, SameRun, SameLedger
<1>4. CASE At("teardown") /\ cmd = "chaos" /\ Advance(Swept)
  <2>1. Here = "teardown" /\ Here # Last(cmd)
    BY <1>4, HereIs DEF Last
  <2> QED BY <1>1, <1>3, <1>4, <2>1, SweptFacts DEF WrapsUp
<1>5. CASE At("preflight") /\ ~p.terr /\ Advance(Swept)
  <2>1. Here = "preflight" /\ Here # Last(cmd)
    BY <1>5, HereIs DEF Last
  <2> QED BY <1>1, <1>3, <1>5, <2>1, SweptFacts DEF WrapsUp
<1>6. CASE At("own") /\ Advance([Swept EXCEPT !.err = @ \/ p.terr])
  <2> DEFINE e == Swept.err \/ p.terr
             q == [Swept EXCEPT !.err = e]
  <2>1. Here = "own" /\ Here # Last(cmd) /\ Advance(q)
    BY <1>6, HereIs DEF Last
  <2>2. e \in BOOLEAN
    BY SweptFacts DEF TypeOK, Memory, SweepAt
  <2> HIDE DEF e
  <2>3. /\ q \in Memory /\ q.pc = p.pc /\ q.byRecord = p.byRecord
        /\ q.run = p.run
        /\ q.known = p.known /\ q.landed = p.landed /\ q.engine = p.engine
        /\ q.snap = p.snap /\ q.latest = p.latest /\ q.copy = p.copy
        /\ q.mutex = p.mutex
        /\ q.abort = p.abort /\ q.wrote = p.wrote
        /\ q.li = 1 /\ q.busy = p.busy /\ q.terr = FALSE
    BY <2>2, SweptFacts DEF SweepAt, Memory
  <2> HIDE DEF q
  <2>4. /\ SameRun /\ SameLedger /\ GoesOn /\ p'.li = 1
        /\ p'.busy = p.busy /\ ~p'.terr
        /\ p'.abort = p.abort /\ p'.wrote = p.wrote
    BY <1>1, <2>1, <2>3, Advancing DEF SameRun, SameLedger
  <2> QED BY <1>1, <2>1, <2>4 DEF WrapsUp
<1>7. CASE /\ At("preflight")
           /\ Runs([Swept EXCEPT !.err = TRUE, !.pc = StepOf("own")])
  <2> DEFINE a == [Swept EXCEPT !.err = TRUE]
  <2>1. Here = "preflight" /\ cmd = "monitor"
    BY <1>1, <1>7, HereIs, Whereabouts DEF StepsOf, CommandScripts
  <2>2. cmd' = cmd /\ p' = [a EXCEPT !.pc = StepOf("own")]
    BY <1>7 DEF Runs
  <2>3. /\ a \in Memory /\ a.pc = p.pc /\ a.byRecord = p.byRecord
        /\ a.run = p.run
        /\ a.known = p.known /\ a.landed = p.landed /\ a.engine = p.engine
        /\ a.snap = p.snap /\ a.latest = p.latest /\ a.copy = p.copy
        /\ a.mutex = p.mutex
        /\ a.abort = p.abort /\ a.wrote = p.wrote
        /\ a.li = 1 /\ a.busy = p.busy /\ a.terr = FALSE
    BY SweptFacts DEF SweepAt, Memory
  <2> HIDE DEF a
  <2>4. p'.pc = StepOf("own")
    BY <2>2, <2>3 DEF Memory
  <2>5. StepOf("own") \in DOMAIN Script /\ Here' = "own"
    BY <1>1, <2>1, <2>2, <2>4, Jumps
  <2>6. StepOf("own") \in Nat
    BY <2>5, ScriptPaths, StepAny, <1>1 DEF TypeOK, Script
  <2>7. /\ p' \in Memory /\ p'.byRecord = p.byRecord
        /\ p'.run = p.run
        /\ p'.known = p.known /\ p'.landed = p.landed /\ p'.engine = p.engine
        /\ p'.snap = p.snap /\ p'.latest = p.latest /\ p'.copy = p.copy
        /\ p'.mutex = p.mutex
        /\ p'.abort = p.abort /\ p'.wrote = p.wrote
        /\ p'.li = 1 /\ p'.busy = p.busy /\ p'.terr = FALSE
    BY <2>2, <2>3, <2>6 DEF Memory
  <2>8. SameRun /\ SameLedger
    BY <1>1, <2>2, <2>4, <2>5, <2>7 DEF SameRun, InCommand, SameLedger
  <2> QED BY <1>1, <2>1, <2>5, <2>7, <2>8 DEF WrapsUp
<1> QED
  BY <1>2, <1>4, <1>5, <1>6, <1>7 DEF SweepEnds, preflightOutcome

\* A command starts.
LEMMA IsStart ==
  ASSUME TypeOK, NEW c \in DOMAIN CommandScripts, Start(c)
  PROVE  Begins
<1>1. /\ svc' = svc /\ cloud' = cloud /\ late' = late /\ disk' = disk
      /\ runs' = runs /\ cmd = "none" /\ cmd' = c /\ claim' = "none"
      /\ svc \in DOMAIN CommandScripts[c]
      /\ IF c = "cleanup"
         THEN \E r \in 1..runs, b \in BOOLEAN :
                p' = [p EXCEPT !.run = r, !.byRecord = b]
         ELSE runs < MaxRun /\ p' = p
  BY DEF Start
<1>2. p = Fresh /\ p \in Memory /\ runs \in Nat
  <2>1. p = Fresh /\ p \in Memory
    BY <1>1 DEF TypeOK
  <2>2. runs \in 0..MaxRun
    BY DEF TypeOK
  <2> QED BY <2>1, <2>2, LaneFacts
<1>3. /\ p.run = 0 /\ p.known = {} /\ p.landed = {} /\ p.li = 1 /\ ~p.busy
      /\ ~p.terr /\ p.pc = 1
      /\ \A l \in Lanes : /\ p.engine[l] = "running"
                          /\ p.snap[l] = {} /\ p.latest[l] = {}
  BY <1>2 DEF Fresh
<1>4. PICK r \in 0..runs, b \in BOOLEAN :
        /\ p' = [p EXCEPT !.run = r, !.byRecord = b]
        /\ IF c = "cleanup" THEN r # 0 ELSE r = 0 /\ runs < MaxRun
  <2>1. CASE c = "cleanup"
    <3>1. PICK r \in 1..runs, b \in BOOLEAN :
            p' = [p EXCEPT !.run = r, !.byRecord = b]
      BY <1>1, <2>1
    <3>2. r \in 0..runs /\ r # 0
      BY <1>2
    <3> QED BY <2>1, <3>1, <3>2, Zenon
  <2>2. CASE c # "cleanup"
    <3>1. p = [p EXCEPT !.run = 0, !.byRecord = p.byRecord]
      BY <1>2, <1>3 DEF Memory
    <3>2. p.byRecord \in BOOLEAN /\ 0 \in 0..runs
      BY <1>2 DEF Memory
    <3> QED BY <1>1, <2>2, <3>1, <3>2, Zenon
  <2> QED BY <2>1, <2>2
<1> DEFINE a == [p EXCEPT !.run = r]
<1>5. /\ a \in Memory /\ a.run = r /\ a.known = {} /\ a.landed = {}
      /\ a.engine = p.engine /\ a.snap = p.snap /\ a.latest = p.latest
      /\ a.li = 1 /\ ~a.busy /\ ~a.terr /\ a.pc = 1
  BY <1>2, <1>3 DEF Memory
<1>6. p' = [a EXCEPT !.byRecord = b]
  BY <1>4
<1> HIDE DEF a
<1>7. /\ p' \in Memory /\ p'.run = r /\ p'.known = {} /\ p'.landed = {}
      /\ p'.engine = p.engine /\ p'.snap = p.snap /\ p'.latest = p.latest
      /\ p'.li = 1 /\ ~p'.busy /\ ~p'.terr /\ p'.pc = 1
  BY <1>5, <1>6 DEF Memory
<1>8. Script' = CommandScripts[c][svc]
  BY <1>1 DEF Script
<1>9. 1 \in DOMAIN Script' /\ Script'[1] \in First(c)
  BY <1>1, <1>8, ScriptPaths, StepFirst
<1>10. c # "none" /\ Here' = Script'[1]
  BY <1>1, <1>7 DEF Here, CommandScripts
<1> QED BY <1>1, <1>3, <1>4, <1>7, <1>9, <1>10 DEF Begins

-----------------------------------------------------------------------------
Kind ==
  \/ Begins \/ Exits
  \/ Stays \/ Proceeds \/ Errs \/ AppliedAll \/ Jumped
  \/ Numbers \/ Loads \/ Loops
  \/ \E x : \/ Asks(x) \/ Learns(x) \/ Misses(x) \/ GivesUp(x)
            \/ Removes(x) \/ Drops(x) \/ Clears(x) \/ Arrives(x)
  \/ \E l \in Lanes : Snaps(l) \/ Merges(l) \/ Writes(l) \/ Returns(l)
  \/ Settles \/ Persists \/ Aims \/ Skips \/ Leaves \/ WrapsUp

LEMMA CreatingRuns ==
  ASSUME TypeOK, Numbering, Here \in Creating
  PROVE  Numbered /\ p.run # 0
<1>1. cmd \in {"apply", "chaos", "monitor"} /\ (cmd = "monitor" => Here = "apply")
  BY Whereabouts DEF StepsOf, Creating, CommandScripts
<1>2. Numbered
  BY <1>1 DEF Numbered, Creating, Startup, Iteration
<1> QED BY <1>2 DEF Numbering

LEMMA EveryStep ==
  ASSUME CInv, Next
  PROVE  Kind
<1>1. TypeOK /\ Numbering /\ Quiet
  BY DEF CInv
<1>2. CASE \E c \in DOMAIN CommandScripts : Start(c)
  BY <1>1, <1>2, IsStart DEF Kind
<1>3. CASE Signal
  BY <1>1, <1>3, IsSignal DEF Kind
<1>4. CASE Work
  <2>1. CASE Prepare \/ Signals \/ Output \/ IterationReady \/ PreflightSkipped
    BY <1>1, <2>1, IsPrepare DEF Kind
  <2>2. CASE DryRun
    BY <1>1, <2>2, IsDryRun DEF Kind
  <2>3. CASE newRunID
    BY <1>1, <2>3, IsNewRunID DEF Kind
  <2>4. CASE resolveRun
    <3>1. cmd = "cleanup"
      BY <1>1, <2>4, HereIs, Whereabouts DEF resolveRun, StepsOf, CommandScripts,
                                            At
    <3> QED BY <1>1, <2>4, <3>1, IsResolveRun DEF Kind, Numbering
  <2>5. ASSUME NEW x \in p.landed, Tag(x) \/ Answer(x) \/ CreateFails(x)
        PROVE  Kind
    <3>1. Here \in Creating
      BY <1>1, <2>5 DEF Quiet
    <3> QED BY <1>1, <2>5, <3>1, CreatingRuns, IsTag, IsAnswered, IsCreateFails
            DEF Kind
  <2>6. CASE ApplyEnds
    BY <1>1, <2>6, IsApplyEnds DEF Kind
  <2>7. CASE BindRoots
    BY <1>1, <2>7, IsBindRoots DEF Kind
  <2>8. CASE \E x \in p.known : DeleteAnswered(x)
    BY <1>1, <2>8, IsDeleteAnswered DEF Kind
  <2>9. CASE \E l \in Lanes : \/ SnapshotBeforeDrain(l) \/ Merge(l)
                              \/ WriteCheckpoint(l, TRUE) \/ EngineReturns(l)
    BY <1>1, <2>9, IsSnapshot, IsMerge, IsWriteCheckpoint, IsEngineReturns
       DEF Kind
  <2>10. CASE ChurnEnds
    BY <1>1, <2>10, IsChurnEnds DEF Kind
  <2>11. CASE Mismatch \/ Decide
    BY <1>1, <2>11, IsFlagged DEF Kind
  <2>12. CASE Record \/ writeIterationRecord
    BY <1>1, <2>12, IsRecord DEF Kind
  <2>13. CASE Finish
    BY <1>1, <2>13, IsFinish DEF Kind
  <2>14. CASE BeginLane
    BY <1>1, <2>14, IsBeginLane DEF Kind
  <2>15. CASE \E x \in p.targets : DeleteTarget(x)
    BY <1>1, <2>15, IsDeleteTarget DEF Kind
  <2>16. CASE LaneClean \/ LaneGivesUp
    BY <1>1, <2>16, IsLaneEnds DEF Kind
  <2>17. CASE SweepEnds
    BY <1>1, <2>17, IsSweepEnds DEF Kind
  <2>18. CASE LeakCheck
    BY <1>1, <2>18, IsEnd DEF Kind
  <2>19. CASE runMonitorLoop
    BY <1>1, <2>19, IsRunMonitorLoop DEF Kind
  <2>20. CASE Pace
    BY <1>1, <2>20, IsPace DEF Kind
  <2> QED
    BY <1>4, <2>1, <2>2, <2>3, <2>4, <2>5, <2>6, <2>7, <2>8, <2>9, <2>10,
       <2>11, <2>12, <2>13, <2>14, <2>15, <2>16, <2>17, <2>18, <2>19, <2>20
       DEF Work
<1>5. CASE Choices
  <2>1. ASSUME NEW x, Create(x)
        PROVE  Kind
    <3>1. Here \in Creating
      BY <1>1, <2>1, WantedFacts DEF Create
    <3> QED BY <1>1, <2>1, <3>1, CreatingRuns, IsCreate DEF Kind
  <2>2. ASSUME NEW x, ChurnDelete(x)
        PROVE  Kind
    BY <1>1, <2>2, IsChurnDelete DEF Kind
  <2>3. ASSUME NEW l \in Lanes, Snapshot(l)
        PROVE  Kind
    BY <1>1, <2>3, IsSnapshot DEF Kind
  <2> QED BY <1>5, <2>1, <2>2, <2>3 DEF Choices
<1>6. CASE Faults
  <2>1. CASE Kill \/ PrepareFails \/ OutputFails \/ ChurnRefused \/ LeakCheckFails
    BY <1>1, <2>1, IsEnd DEF Kind
  <2>2. CASE RecordFails
    BY <1>1, <2>2, IsRecordFails DEF Kind
  <2>3. CASE LaneFails
    BY <1>1, <2>3, IsLaneEnds DEF Kind
  <2>4. CASE IterationFails
    BY <1>1, <2>4, IsIterationFails DEF Kind
  <2>5. ASSUME NEW x, CreateFails(x) \/ Rollback(x) \/ StampFails(x)
        PROVE  Kind
    <3>1. Here \in Creating
      BY <1>1, <2>5, WantedFacts DEF CreateFails, Rollback, StampFails, Quiet
    <3> QED BY <1>1, <2>5, <3>1, CreatingRuns, IsCreateFails, IsRollback,
               IsStampFails DEF Kind
  <2>6. ASSUME NEW x, LateLands(x)
        PROVE  Kind
    BY <2>6, IsLateLands DEF Kind
  <2>7. ASSUME NEW l \in Lanes, WriteCheckpoint(l, FALSE)
        PROVE  Kind
    BY <1>1, <2>7, IsWriteCheckpoint DEF Kind
  <2>8. ASSUME NEW c \in Calls, Hang(c)
        PROVE  Kind
    BY <1>1, <2>8, IsHang DEF Kind
  <2> QED BY <1>6, <2>1, <2>2, <2>3, <2>4, <2>5, <2>6, <2>7, <2>8
          DEF Faults, Calls
<1> QED BY <1>2, <1>3, <1>4, <1>5, <1>6 DEF Next

(***************************************************************************)
(* What a step marks, and how it counts the faults.  A mark stays; a       *)
(* resource of the run that creates is marked, or one that arrives.        *)
(***************************************************************************)
MarkStep ==
  /\ marked \subseteq marked'
  /\ \A x \in marked' \ marked :
       Identified(x) /\ (x \in arrived' \/ (Here \in Creating /\ x.run = p.run))
  /\ \A x \in cloud' \ cloud : InPost(x) => x \in marked'

LEMMA MarkedByFew ==
  ASSUME Next, \A x : ~Create(x) /\ ~Tag(x) /\ ~LateLands(x)
  PROVE  marked' = marked /\ cloud' \subseteq cloud
<1>1. ASSUME \E c \in DOMAIN CommandScripts : Start(c)
      PROVE  marked' = marked /\ cloud' = cloud
  BY <1>1 DEF Start
<1>2. ASSUME \/ Signal \/ Prepare \/ DryRun \/ Signals \/ newRunID \/ resolveRun
             \/ ApplyEnds \/ BindRoots \/ ChurnEnds \/ Mismatch \/ Output
             \/ Decide \/ Record \/ Finish \/ BeginLane \/ LaneClean
             \/ LaneGivesUp \/ SweepEnds \/ PreflightSkipped \/ LeakCheck
      PROVE  marked' = marked /\ cloud' = cloud
  BY <1>2 DEF Signal, Prepare, DryRun, Signals, newRunID, resolveRun, ApplyEnds,
              BindRoots, ChurnEnds, Mismatch, Output, Decide, Record, Finish,
              BeginLane, LaneClean, LaneGivesUp, LaneEnds, SweepEnds,
              PreflightSkipped, LeakCheck, world
<1>3. ASSUME \/ runMonitorLoop \/ IterationReady \/ writeIterationRecord \/ Pace
             \/ Kill \/ PrepareFails \/ OutputFails \/ RecordFails
             \/ ChurnRefused \/ LeakCheckFails \/ LaneFails \/ IterationFails
      PROVE  marked' = marked /\ cloud' = cloud
  BY <1>3 DEF runMonitorLoop, IterationReady, writeIterationRecord, Pace, Kill,
              PrepareFails, OutputFails, RecordFails, ChurnRefused,
              LeakCheckFails, LaneFails, LaneEnds, IterationFails, world
<1>4. ASSUME NEW x, \/ Answer(x) \/ DeleteAnswered(x) \/ DeleteTarget(x)
                    \/ ChurnDelete(x) \/ CreateFails(x) \/ Rollback(x)
                    \/ StampFails(x)
      PROVE  marked' = marked /\ cloud' \subseteq cloud
  BY <1>4 DEF Answer, DeleteAnswered, DeleteTarget, ChurnDelete, CreateFails,
              Rollback, StampFails, world
<1>5. ASSUME NEW l, NEW ok, \/ Snapshot(l) \/ SnapshotBeforeDrain(l)
                            \/ Merge(l) \/ WriteCheckpoint(l, ok)
                            \/ EngineReturns(l)
      PROVE  marked' = marked /\ cloud' = cloud
  BY <1>5 DEF Snapshot, SnapshotBeforeDrain, OnCheckpoint, Merge,
              WriteCheckpoint, EngineReturns, world
<1>6. ASSUME NEW c, Hang(c)
      PROVE  marked' = marked /\ cloud' = cloud
  BY <1>6 DEF Hang, world
<1> QED BY <1>1, <1>2, <1>3, <1>4, <1>5, <1>6 DEF Next, Work, Choices, Faults

LEMMA MarksOfSteps ==
  ASSUME CInv, Next
  PROVE  MarkStep
<1>1. TypeOK /\ Numbering /\ Quiet
  BY DEF CInv
<1>2. ASSUME NEW x, Create(x)
      PROVE  MarkStep
  <2>1. /\ x \in Wanted /\ cloud' = cloud \cup {x}
        /\ marked' = marked \cup {y \in {x} : InPost(y)}
    BY <1>2 DEF Create
  <2>2. Here \in Creating /\ x.run = p.run
    BY <1>1, <2>1, WantedFacts, PlanFacts
  <2> QED BY <2>1, <2>2 DEF MarkStep, InPost
<1>3. ASSUME NEW x, Tag(x)
      PROVE  MarkStep
  <2>1. /\ x \in p.landed /\ Identified(x) /\ cloud' = cloud
        /\ marked' = marked \cup {x}
    BY <1>3 DEF Tag
  <2>2. Here \in Creating /\ x.run = p.run
    BY <1>1, <2>1 DEF Quiet
  <2> QED BY <2>1, <2>2 DEF MarkStep
<1>4. ASSUME NEW x, LateLands(x)
      PROVE  MarkStep
  BY <1>4 DEF LateLands, MarkStep, InPost
<1>5. CASE \A x : ~Create(x) /\ ~Tag(x) /\ ~LateLands(x)
  BY <1>5, MarkedByFew DEF MarkStep
<1> QED BY <1>2, <1>3, <1>4, <1>5

LEMMA FaultsOfSteps ==
  ASSUME Next
  PROVE  faults' = faults \/ Fault
<1>1. ASSUME \/ \E c \in DOMAIN CommandScripts : Start(c)
             \/ Signal \/ Prepare \/ DryRun \/ Signals \/ newRunID \/ resolveRun
             \/ ApplyEnds \/ BindRoots \/ ChurnEnds \/ Mismatch \/ Output
             \/ Decide \/ Record \/ Finish \/ BeginLane \/ LaneClean
             \/ LaneGivesUp \/ SweepEnds \/ PreflightSkipped \/ LeakCheck
             \/ runMonitorLoop \/ IterationReady \/ writeIterationRecord \/ Pace
      PROVE  faults' = faults
  BY <1>1 DEF Start, Signal, Prepare, DryRun, Signals, newRunID, resolveRun,
              ApplyEnds, BindRoots, ChurnEnds, Mismatch, Output, Decide, Record,
              Finish, BeginLane, LaneClean, LaneGivesUp, SweepEnds,
              PreflightSkipped, LeakCheck, runMonitorLoop, IterationReady,
              writeIterationRecord, Pace
<1>2. ASSUME \/ Kill \/ PrepareFails \/ OutputFails \/ RecordFails
             \/ ChurnRefused \/ LeakCheckFails \/ LaneFails \/ IterationFails
      PROVE  Fault
  BY <1>2 DEF Kill, PrepareFails, OutputFails, RecordFails, ChurnRefused,
              LeakCheckFails, LaneFails, IterationFails
<1>3. ASSUME NEW x, \/ Tag(x) \/ Answer(x) \/ DeleteAnswered(x)
                    \/ DeleteTarget(x) \/ Create(x) \/ ChurnDelete(x)
                    \/ CreateFails(x) \/ Rollback(x) \/ StampFails(x)
                    \/ LateLands(x)
      PROVE  faults' = faults \/ Fault
  BY <1>3 DEF Tag, Answer, DeleteAnswered, DeleteTarget, Create, ChurnDelete,
              CreateFails, Rollback, StampFails, LateLands, CallFails
<1>4. ASSUME NEW l, NEW ok \in BOOLEAN,
             \/ Snapshot(l) \/ SnapshotBeforeDrain(l) \/ Merge(l)
             \/ WriteCheckpoint(l, ok) \/ EngineReturns(l)
      PROVE  faults' = faults \/ Fault
  BY <1>4 DEF Snapshot, SnapshotBeforeDrain, OnCheckpoint, Merge,
              WriteCheckpoint, EngineReturns
<1>5. ASSUME NEW c, Hang(c)
      PROVE  Fault
  BY <1>5 DEF Hang
<1> QED BY <1>1, <1>2, <1>3, <1>4, <1>5 DEF Next, Work, Choices, Faults

-----------------------------------------------------------------------------
(***************************************************************************)
(* Every step keeps the types.                                             *)
(***************************************************************************)
LEMMA InCommandType ==
  ASSUME TypeOK, InCommand, runs' \in 0..MaxRun, p'.run \in 0..runs',
         disk' \in [1..MaxRun -> RunRecord],
         cloud' \subseteq Resource, late' \subseteq Resource
  PROVE  TypeOK'
<1>1. /\ svc' = svc /\ cmd' = cmd /\ cmd # "none" /\ claim' = claim
      /\ p' \in Memory /\ p'.pc \in DOMAIN Script
  BY DEF InCommand
<1>2. /\ Lanes' = Lanes /\ MaxRun' = MaxRun /\ Resource' = Resource
      /\ Memory' = Memory /\ Script' = Script
  BY <1>1, SameService
<1>3. RunRecord' = RunRecord
  BY <1>2 DEF RunRecord
<1> QED BY <1>1, <1>2, <1>3 DEF TypeOK

LEMMA RecordType ==
  ASSUME TypeOK, NEW m \in SUBSET Resource,
         disk' = [disk EXCEPT ![p.run] = [there |-> TRUE, made |-> m]]
  PROVE  disk' \in [1..MaxRun -> RunRecord]
<1>1. disk \in [1..MaxRun -> RunRecord]
  BY DEF TypeOK
<1>2. [there |-> TRUE, made |-> m] \in RunRecord
  BY DEF RunRecord
<1> QED BY <1>1, <1>2

LEMMA TypeParts ==
  ASSUME TypeOK
  PROVE  /\ runs \in 0..MaxRun /\ p.run \in 0..runs
         /\ disk \in [1..MaxRun -> RunRecord] /\ p \in Memory
         /\ cloud \subseteq Resource /\ late \subseteq Resource
         /\ p.known \subseteq Resource /\ p.landed \subseteq Resource
         /\ \A l \in Lanes : p.copy[l] \subseteq Resource
         /\ MaxRun \in Nat
<1>1. MaxRun \in Nat
  BY LaneFacts
<1>2. p \in Memory
  BY DEF TypeOK
<1>3. /\ p.known \subseteq Resource /\ p.landed \subseteq Resource
      /\ p.copy \in [Lanes -> SUBSET Resource]
  BY <1>2 DEF Memory
<1> QED BY <1>1, <1>2, <1>3 DEF TypeOK

LEMMA TypeKept ==
  ASSUME CInv, Kind
  PROVE  TypeOK'
<1>1. TypeOK /\ Numbering
  BY DEF CInv
<1>2. /\ runs \in 0..MaxRun /\ p.run \in 0..runs
      /\ disk \in [1..MaxRun -> RunRecord] /\ p \in Memory
      /\ cloud \subseteq Resource /\ late \subseteq Resource
      /\ p.known \subseteq Resource /\ p.landed \subseteq Resource
      /\ \A l \in Lanes : p.copy[l] \subseteq Resource
      /\ MaxRun \in Nat
  BY <1>1, TypeParts
<1>3. CASE Begins
  <2>1. cmd' # "none" /\ claim' = "none"
    BY <1>3 DEF Begins, CommandScripts
  <2>2. /\ MaxRun' = MaxRun /\ Resource' = Resource /\ Memory' = Memory
        /\ svc' = svc
    BY <1>3, SameService DEF Begins
  <2>3. RunRecord' = RunRecord
    BY <2>2 DEF RunRecord
  <2>4. /\ cmd' \in DOMAIN CommandScripts /\ svc' \in DOMAIN CommandScripts[cmd']
        /\ p' \in Memory /\ p'.pc \in DOMAIN Script' /\ runs' = runs
        /\ p'.run \in 0..runs /\ disk' = disk /\ cloud' = cloud /\ late' = late
    BY <1>3 DEF Begins
  <2>5. svc' \in Services
    BY <1>1, <2>2 DEF TypeOK
  <2> QED BY <1>2, <2>1, <2>2, <2>3, <2>4, <2>5 DEF TypeOK
<1>4. CASE Exits
  <2>1. /\ MaxRun' = MaxRun /\ Resource' = Resource /\ Memory' = Memory
        /\ svc' = svc /\ Fresh' = Fresh
    BY <1>4, SameService DEF Exits
  <2>2. RunRecord' = RunRecord
    BY <2>1 DEF RunRecord
  <2>3. disk' \in [1..MaxRun -> RunRecord]
    BY <1>1, <1>2, <1>4, RecordType DEF Exits, WriteRecord
  <2>4. cmd' = "none" /\ p' = Fresh /\ runs' = runs /\ cloud' = cloud /\ late' = late
    BY <1>4 DEF Exits, SameWorld
  <2>5. Fresh \in Memory /\ Fresh.run = 0
    <3>1. /\ Fresh.engine \in [Lanes -> {"running", "waiting", "writing", "returned"}]
          /\ Fresh.drained \in [Lanes -> BOOLEAN]
          /\ Fresh.snap \in [Lanes -> SUBSET Resource]
          /\ Fresh.latest \in [Lanes -> SUBSET Resource]
          /\ Fresh.copy \in [Lanes -> SUBSET Resource]
      BY DEF Fresh
    <3> QED BY <3>1 DEF Fresh, Memory
  <2>6. svc' \in Services
    BY <1>1, <2>1 DEF TypeOK
  <2> QED BY <1>2, <2>1, <2>2, <2>3, <2>4, <2>5, <2>6 DEF TypeOK
<1>5. CASE Stays \/ Proceeds \/ Errs \/ AppliedAll \/ Jumped
  <2>1. Quietly
    BY <1>5 DEF Stays, Proceeds, Errs, AppliedAll, Jumped
  <2> QED BY <1>1, <1>2, <2>1, InCommandType DEF Quietly, SameRun, SameWorld
<1>6. CASE Numbers
  <2>1. InCommand /\ runs' = runs + 1 /\ p'.run = runs + 1 /\ disk' = disk
        /\ cloud' = cloud /\ late' = late
    BY <1>6 DEF Numbers, SameWorld
  <2>2. Unnumbered
    <3>1. cmd \in {"apply", "chaos", "monitor"}
      BY <1>1, <1>6, Whereabouts DEF Numbers, StepsOf, CommandScripts, InCommand
    <3>2. cmd = "monitor" => Here = "iterID"
      BY <1>1, <1>6, Whereabouts DEF Numbers, StepsOf, InCommand
    <3>3. cmd # "monitor" => Here = "runID"
      BY <1>1, <1>6, <3>1, Whereabouts DEF Numbers, StepsOf, InCommand
    <3> QED BY <3>1, <3>2, <3>3 DEF Unnumbered, Startup
  <2>3. runs < MaxRun
    BY <1>1, <2>2 DEF Numbering
  <2> QED BY <1>1, <1>2, <2>1, <2>3, InCommandType
<1>7. CASE Loads \/ Loops
  BY <1>1, <1>2, <1>7, InCommandType DEF Loads, Loops, SameRun, SameWorld
<1>8. ASSUME NEW x, Asks(x) \/ GivesUp(x)
      PROVE  TypeOK'
  <2>1. x \in Plan(p.run) /\ Here \in Creating
    BY <1>8 DEF Asks, GivesUp, Spends
  <2>2. x \in Resource
    BY <1>1, <2>1, CreatingRuns, PlanIsResource
  <2>3. /\ InCommand /\ runs' = runs /\ p'.run = p.run /\ disk' = disk
        /\ cloud' \subseteq cloud \cup {x} /\ late' \subseteq late \cup {x}
    BY <1>8 DEF Asks, GivesUp, InPlace, SameRun
  <2> QED BY <1>1, <1>2, <2>2, <2>3, InCommandType
<1>9. ASSUME NEW x, Learns(x) \/ Misses(x) \/ Removes(x) \/ Drops(x) \/ Clears(x)
      PROVE  TypeOK'
  <2>1. /\ InCommand /\ runs' = runs /\ p'.run = p.run /\ disk' = disk
        /\ cloud' \subseteq cloud /\ late' = late
    BY <1>9 DEF Learns, Misses, Removes, Drops, Clears, InPlace, SameRun, SameWorld
  <2> QED BY <1>1, <1>2, <2>1, InCommandType
<1>10. ASSUME NEW x, Arrives(x)
       PROVE  TypeOK'
  <2>1. /\ svc' = svc /\ cmd' = cmd /\ p' = p /\ claim' = claim /\ runs' = runs
        /\ disk' = disk /\ cloud' \subseteq Resource /\ late' \subseteq Resource
    BY <1>2, <1>10 DEF Arrives
  <2>2. /\ MaxRun' = MaxRun /\ Resource' = Resource /\ Memory' = Memory
        /\ Fresh' = Fresh /\ Script' = Script
    BY <2>1, SameService
  <2>3. RunRecord' = RunRecord
    BY <2>2 DEF RunRecord
  <2> QED BY <1>1, <2>1, <2>2, <2>3 DEF TypeOK
<1>11. ASSUME NEW l \in Lanes, Snaps(l) \/ Merges(l) \/ Returns(l)
       PROVE  TypeOK'
  BY <1>1, <1>2, <1>11, InCommandType
     DEF Snaps, Merges, Returns, Checks, SameRun, SameWorld
<1>12. ASSUME NEW l \in Lanes, Writes(l)
       PROVE  TypeOK'
  <2>1. Roots \cup p.copy[l] \subseteq Resource
    BY <1>2 DEF Roots
  <2>2. disk' \in [1..MaxRun -> RunRecord]
    BY <1>1, <1>2, <1>12, <2>1, RecordType DEF Writes, buildMixRecord
  <2> QED BY <1>1, <1>2, <1>12, <2>2, InCommandType
          DEF Writes, Checks, SameRun, SameWorld
<1>13. CASE Settles
  BY <1>1, <1>2, <1>13, InCommandType DEF Settles, Checks, SameRun, SameWorld
<1>14. CASE Persists
  <2>1. disk' \in [1..MaxRun -> RunRecord]
    BY <1>1, <1>2, <1>14, RecordType DEF Persists, WriteRecord
  <2> QED BY <1>1, <1>2, <1>14, <2>1, InCommandType
          DEF Persists, SameRun, SameWorld
<1>15. CASE Aims \/ Skips \/ Leaves \/ WrapsUp
  BY <1>1, <1>2, <1>15, InCommandType
     DEF Aims, Skips, Leaves, WrapsUp, InPlace, SameRun, SameWorld
<1> QED
  BY <1>3, <1>4, <1>5, <1>6, <1>7, <1>8, <1>9, <1>10, <1>11, <1>12, <1>13,
     <1>14, <1>15 DEF Kind

-----------------------------------------------------------------------------
(***************************************************************************)
(* What a step of a running command that takes no new run id may do to the *)
(* place in the script.                                                    *)
(***************************************************************************)
Leaps == {<<"iterID", "pace">>, <<"iterClient", "pace">>, <<"iterQuota", "own">>,
          <<"preflight", "own">>, <<"pace", "loop">>}
Walks ==
  \/ Here' = Here
  \/ GoesOn /\ Here \notin {"runID", "iterID", "loop"}
  \/ cmd = "monitor" /\ <<Here, Here'>> \in Leaps
LEMMA Walking ==
  ASSUME TypeOK, Kind, cmd # "none", cmd' # "none", ~Numbers, ~Loops
  PROVE  /\ cmd' = cmd /\ svc' = svc /\ opt' = opt
         /\ runs' = runs /\ p'.run = p.run
         /\ p'.byRecord = p.byRecord /\ Walks
<1>1. CASE Stays \/ Errs
  BY <1>1 DEF Stays, Errs, Quietly, SameRun, InCommand, Walks
<1>2. CASE Proceeds \/ AppliedAll
  BY <1>2 DEF Proceeds, AppliedAll, Quietly, SameRun, InCommand, Walks
<1>3. CASE Jumped
  BY <1>3 DEF Jumped, Quietly, SameRun, InCommand, Walks, Leaps
<1>4. CASE Loads
  BY <1>4 DEF Loads, SameRun, InCommand, Walks
<1>5. ASSUME NEW x, \/ Asks(x) \/ Learns(x) \/ Misses(x) \/ GivesUp(x)
                    \/ Removes(x) \/ Drops(x) \/ Clears(x)
      PROVE  InPlace
  BY <1>5 DEF Asks, Learns, Misses, GivesUp, Removes, Drops, Clears
<1>6. CASE Aims \/ Skips \/ Leaves
  BY <1>6 DEF Aims, Skips, Leaves, InPlace, SameRun, InCommand, Walks
<1>7. ASSUME InPlace
      PROVE  /\ cmd' = cmd /\ svc' = svc /\ opt' = opt
             /\ runs' = runs /\ p'.run = p.run
             /\ p'.byRecord = p.byRecord /\ Walks
  BY <1>7 DEF InPlace, SameRun, InCommand, Walks
<1>8. ASSUME NEW x, Arrives(x)
      PROVE  /\ cmd' = cmd /\ svc' = svc /\ opt' = opt
             /\ runs' = runs /\ p'.run = p.run
             /\ p'.byRecord = p.byRecord /\ Walks
  BY <1>8, SameService DEF Arrives, Walks, Here
<1>9. ASSUME NEW l \in Lanes, Snaps(l) \/ Merges(l) \/ Writes(l) \/ Returns(l)
      PROVE  /\ cmd' = cmd /\ svc' = svc /\ opt' = opt
             /\ runs' = runs /\ p'.run = p.run
             /\ p'.byRecord = p.byRecord /\ Walks
  BY <1>9 DEF Snaps, Merges, Writes, Returns, Checks, SameRun, InCommand, Walks
<1>10. CASE Settles \/ Persists
  BY <1>10 DEF Settles, Persists, Checks, SameRun, InCommand, Walks
<1>11. CASE WrapsUp
  <2>1. cmd = "monitor" \/ Here # "preflight"
    BY Whereabouts DEF StepsOf, CommandScripts
  <2> QED BY <1>11, <2>1 DEF WrapsUp, SameRun, InCommand, Walks, Leaps,
                             Sweeping
<1>12. ~Begins /\ ~Exits
  BY DEF Begins, Exits
<1> QED BY <1>1, <1>2, <1>3, <1>4, <1>5, <1>6, <1>7, <1>8, <1>9, <1>10, <1>11,
           <1>12 DEF Kind

LEMMA RunsOfSteps ==
  ASSUME TypeOK, Kind, cmd # "none", cmd' # "none", ~Numbers, ~Loops
  PROVE  /\ Numbered' => Numbered
         /\ Unnumbered' => Unnumbered
         /\ cmd' \in DOMAIN CommandScripts
<1>1. cmd' = cmd /\ Walks /\ cmd \in DOMAIN CommandScripts /\ Here \in StepsOf(cmd)
  BY Walking, Whereabouts
<1>2. CASE Here' = Here
  BY <1>1, <1>2 DEF Numbered, Unnumbered
<1>3. CASE GoesOn /\ Here \notin {"runID", "iterID", "loop"}
  <2>1. /\ cmd \in {"apply", "chaos"} =>
              (Here' \in Startup <=> Here \in Startup \ {"runID"})
        /\ cmd = "monitor" =>
             /\ Here' \in Iteration => Here \in Iteration \cup {"iterID"}
             /\ Here' = "iterID" => Here = "loop"
    BY <1>1, <1>3, FlowFacts DEF GoesOn
  <2> QED BY <1>1, <1>3, <2>1 DEF Numbered, Unnumbered
<1>4. CASE cmd = "monitor" /\ <<Here, Here'>> \in Leaps
  BY <1>1, <1>4 DEF Leaps, Numbered, Unnumbered, Iteration
<1> QED BY <1>1, <1>2, <1>3, <1>4 DEF Walks

\* A run gets its id.
LEMMA NumberingStep ==
  ASSUME CInv, Numbers
  PROVE  /\ Unnumbered /\ Numbered' /\ ~Unnumbered' /\ cmd # "cleanup"
         /\ p.known = {} /\ p.landed = {}
         /\ Here \notin Creating /\ cmd' = cmd /\ svc' = svc
         /\ Here = "iterID" <=> cmd = "monitor"
<1>1. TypeOK /\ Numbering /\ Quiet
  BY DEF CInv
<1>2. /\ cmd # "none" /\ Here \in {"runID", "iterID"} /\ GoesOn /\ cmd' = cmd
      /\ svc' = svc
  BY DEF Numbers, InCommand
<1>3. cmd \in DOMAIN CommandScripts /\ Here \in StepsOf(cmd)
  BY <1>1, <1>2, Whereabouts
<1>4. cmd \in {"apply", "chaos", "monitor"} /\ (Here = "iterID" <=> cmd = "monitor")
  BY <1>2, <1>3 DEF StepsOf, CommandScripts
<1>5. Here \notin Creating
  BY <1>2 DEF Creating
<1>6. Unnumbered /\ p.known = {} /\ p.landed = {}
  BY <1>1, <1>2, <1>4, <1>5 DEF Unnumbered, Numbering, Quiet, Startup
<1>7. Here' \in StepsOf(cmd)
      /\ (cmd \in {"apply", "chaos"} =>
            (Here' \in Startup <=> Here \in Startup \ {"runID"}))
      /\ (cmd = "monitor" => Here' \in Iteration \cup {"pace"})
  <2>1. cmd = "monitor" => Here' \in {"iterClient"}
    BY <1>2, <1>4 DEF GoesOn, Flow, MonitorFlow
  <2> QED BY <1>2, <1>3, <2>1, FlowFacts DEF GoesOn, Iteration
<1>8. cmd = "monitor" => Here' = "iterClient"
  BY <1>2, <1>4 DEF GoesOn, Flow, MonitorFlow
<1>9. Numbered' /\ ~Unnumbered'
  BY <1>2, <1>4, <1>7, <1>8 DEF Numbered, Unnumbered, Iteration
<1> QED BY <1>2, <1>4, <1>5, <1>6, <1>9

\* The next iteration.
LEMMA LoopStep ==
  ASSUME CInv, Loops
  PROVE  /\ cmd = "monitor" /\ cmd' = cmd /\ svc' = svc /\ Here' = "iterID"
         /\ ~Numbered' /\ p.landed = {}
<1>1. /\ cmd # "none" /\ Here = "loop" /\ GoesOn /\ cmd' = cmd /\ svc' = svc
  BY DEF Loops, SameRun, InCommand
<1>2. cmd \in DOMAIN CommandScripts /\ Here \in StepsOf(cmd)
  BY <1>1, Whereabouts DEF CInv
<1>3. cmd = "monitor"
  BY <1>1, <1>2 DEF StepsOf, CommandScripts
<1>4. Here' = "iterID"
  BY <1>1, <1>3 DEF GoesOn, Flow, MonitorFlow
<1>5. ~Numbered'
  BY <1>1, <1>3, <1>4 DEF Numbered, Iteration
<1> QED BY <1>1, <1>3, <1>4, <1>5 DEF CInv, Quiet, Creating

\* The first step of a command.
LEMMA FirstStep ==
  ASSUME CInv, Begins
  PROVE  /\ cmd' \in DOMAIN CommandScripts /\ svc' = svc /\ ~Numbered'
         /\ Here' \in {"plan", "flags", "load"}
         /\ cmd' = "cleanup" <=> Here' # "plan"
         /\ Unnumbered' => cmd' \in {"apply", "chaos"}
<1>1. Here' \in First(cmd') /\ cmd' \in DOMAIN CommandScripts /\ svc' = svc
  BY DEF Begins
<1>2. Here' \in {"plan", "flags", "load"} /\ (cmd' = "cleanup" <=> Here' # "plan")
  BY <1>1 DEF First
<1> QED BY <1>1, <1>2 DEF Numbered, Unnumbered, Startup, Iteration
-----------------------------------------------------------------------------
(***************************************************************************)
(* What a step may add to the cloud and to the late creates, and which     *)
(* records it may change.                                                  *)
(***************************************************************************)
LEMMA WorldOfSteps ==
  ASSUME TypeOK, Numbering, Kind, NEW y \in cloud' \cup late'
  PROVE  \/ y \in cloud \cup late
         \/ y \in Plan(p.run) \ spent /\ Here \in Creating /\ p.run # 0
            /\ y.run = p.run /\ (cmd = "chaos" => y.kind # "order")
<1>1. CASE \E x : Asks(x) \/ GivesUp(x)
  <2>1. PICK x : Asks(x) \/ GivesUp(x)
    BY <1>1
  <2>2. Spends(x) /\ cloud' \cup late' \subseteq cloud \cup late \cup {x}
    BY <2>1 DEF Asks, GivesUp
  <2>3. p.run # 0
    BY <2>2, CreatingRuns DEF Spends
  <2> QED BY <2>2, <2>3, PlanFacts DEF Spends
<1>2. ASSUME NEW x, \/ Learns(x) \/ Misses(x) \/ Removes(x) \/ Drops(x)
                    \/ Clears(x) \/ Arrives(x)
      PROVE  cloud' \cup late' \subseteq cloud \cup late
  BY <1>2 DEF Learns, Misses, Removes, Drops, Clears, Arrives, SameWorld
<1>3. ASSUME \/ Begins \/ Exits \/ Stays \/ Proceeds \/ Errs \/ AppliedAll
             \/ Jumped \/ Numbers \/ Loads \/ Loops \/ Settles \/ Persists
             \/ Aims \/ Skips \/ Leaves \/ WrapsUp
      PROVE  cloud' = cloud /\ late' = late
  BY <1>3 DEF Begins, Exits, Stays, Proceeds, Errs, AppliedAll, Jumped, Numbers,
              Loads, Loops, Settles, Persists, Aims, Skips, Leaves, WrapsUp,
              Quietly, Checks, SameWorld
<1>4. ASSUME NEW l \in Lanes, Snaps(l) \/ Merges(l) \/ Writes(l) \/ Returns(l)
      PROVE  cloud' = cloud /\ late' = late
  BY <1>4 DEF Snaps, Merges, Writes, Returns, Checks, SameWorld
<1> QED BY <1>1, <1>2, <1>3, <1>4 DEF Kind

\* Between two commands late creates arrive, and a command begins.
LEMMA ArrivesOnly ==
  ASSUME Kind, cmd = "none" \/ cmd' = "none", ~Begins, ~Exits
  PROVE  cmd' = cmd /\ \E x : Arrives(x)
<1>1. ~(\/ Stays \/ Proceeds \/ Errs \/ AppliedAll \/ Jumped \/ Loads \/ Settles
        \/ Persists \/ Aims \/ Skips \/ Leaves \/ WrapsUp \/ Numbers \/ Loops)
  BY DEF Stays, Proceeds, Errs, AppliedAll, Jumped, Loads, Settles,
              Persists, Aims, Skips, Leaves, WrapsUp, Numbers, Loops,
              Quietly, Checks, InPlace, SameRun, InCommand
<1>2. ASSUME NEW x
      PROVE  ~(\/ Asks(x) \/ Learns(x) \/ Misses(x) \/ GivesUp(x)
               \/ Removes(x) \/ Drops(x) \/ Clears(x))
  BY DEF Asks, Learns, Misses, GivesUp, Removes, Drops, Clears,
              InPlace, SameRun, InCommand
<1>3. ASSUME NEW l
      PROVE  ~(Snaps(l) \/ Merges(l) \/ Writes(l) \/ Returns(l))
  BY DEF Snaps, Merges, Writes, Returns, Checks, SameRun, InCommand
<1>4. \E x : Arrives(x)
  BY <1>1, <1>2, <1>3 DEF Kind
<1> QED BY <1>4 DEF Arrives

LEMMA RunsGrow ==
  ASSUME TypeOK, Kind
  PROVE  runs' \in Nat /\ runs <= runs' /\ svc' = svc
<1>1. runs \in Nat
  BY TypeParts
<1>2. CASE Begins \/ Exits
  BY <1>1, <1>2 DEF Begins, Exits
<1>3. CASE Numbers
  BY <1>1, <1>3 DEF Numbers, InCommand
<1>4. CASE Loops
  BY <1>1, <1>4 DEF Loops, SameRun, InCommand
<1>5. CASE cmd # "none" /\ cmd' # "none" /\ ~Numbers /\ ~Loops
  BY <1>1, <1>5, Walking
<1>6. ASSUME cmd = "none" \/ cmd' = "none", ~Begins, ~Exits
      PROVE  \E x : Arrives(x)
  BY <1>6, ArrivesOnly
<1>7. ASSUME NEW x, Arrives(x)
      PROVE  runs' = runs /\ svc' = svc
  BY <1>7 DEF Arrives
<1> QED BY <1>1, <1>2, <1>3, <1>4, <1>5, <1>6, <1>7

LEMMA DiskOfSteps ==
  ASSUME Kind, ~Exits, ~Persists, \A l \in Lanes : ~Writes(l)
  PROVE  disk' = disk
<1>1. ASSUME NEW x, \/ Asks(x) \/ Learns(x) \/ Misses(x) \/ GivesUp(x)
                    \/ Removes(x) \/ Drops(x) \/ Clears(x) \/ Arrives(x)
      PROVE  disk' = disk
  BY <1>1 DEF Asks, Learns, Misses, GivesUp, Removes, Drops, Clears, Arrives,
              InPlace
<1>2. ASSUME \/ Begins \/ Stays \/ Proceeds \/ Errs \/ AppliedAll \/ Jumped
             \/ Numbers \/ Loads \/ Loops \/ Settles
             \/ Aims \/ Skips \/ Leaves \/ WrapsUp
      PROVE  disk' = disk
  BY <1>2 DEF Begins, Stays, Proceeds, Errs, AppliedAll, Jumped, Numbers,
              Loads, Loops, Settles, Aims, Skips, Leaves, WrapsUp, Quietly,
              InPlace
<1>3. ASSUME NEW l \in Lanes, Snaps(l) \/ Merges(l) \/ Returns(l)
      PROVE  disk' = disk
  BY <1>3 DEF Snaps, Merges, Returns
<1> QED BY <1>1, <1>2, <1>3 DEF Kind

LEMMA RecordsOfSteps ==
  ASSUME TypeOK, Kind, NEW r \in 1..MaxRun, r # p.run
  PROVE  disk'[r] = disk[r]
<1>1. disk \in [1..MaxRun -> RunRecord]
  BY DEF TypeOK
<1>2. disk' = disk \/ \E m : disk' = [disk EXCEPT ![p.run] = m]
  <2>1. CASE Exits \/ Persists
    BY <2>1 DEF Exits, Persists, WriteRecord
  <2>2. ASSUME NEW l \in Lanes, Writes(l)
        PROVE  disk' = disk \/ \E m : disk' = [disk EXCEPT ![p.run] = m]
    BY <2>2 DEF Writes
  <2> QED BY <2>1, <2>2, DiskOfSteps
<1> QED BY <1>1, <1>2

(***************************************************************************)
(* Run ids stay numbered.                                                  *)
(***************************************************************************)
LEMMA NumberingKept ==
  ASSUME CInv, Kind
  PROVE  Numbering'
<1>1. TypeOK /\ Numbering
  BY DEF CInv
<1>2. /\ runs \in 0..MaxRun /\ p.run \in 0..runs /\ MaxRun \in Nat
      /\ runs' \in Nat /\ runs <= runs' /\ svc' = svc
  BY <1>1, TypeParts, RunsGrow
<1>3. MaxRun' = MaxRun
  BY <1>2, SameService
<1>4. ASSUME NEW x \in (cloud \cup late)'
      PROVE  x.run <= runs'
  <2>1. CASE x \in cloud \cup late
    <3>1. x.run <= runs /\ x \in Resource
      BY <1>1, <2>1 DEF Numbering, TypeOK
    <3>2. x.run \in 1..MaxRun
      BY <3>1, ResourceFacts
    <3> QED BY <1>2, <3>1, <3>2
  <2>2. CASE x.run = p.run
    BY <1>2, <2>2
  <2> QED BY <1>1, <1>4, <2>1, <2>2, WorldOfSteps
<1>5. ASSUME NEW r \in 1..MaxRun, r > runs'
      PROVE  disk'[r].made = {}
  BY <1>1, <1>2, <1>5, RecordsOfSteps DEF Numbering
<1>6. /\ Unnumbered' => /\ runs' < MaxRun /\ p'.known = {}
                        /\ cmd' # "monitor" => p'.run = 0
      /\ Numbered' \/ cmd' = "cleanup" => p'.run # 0
  <2>1. CASE Begins
    <3>1. /\ ~Numbered' /\ (Unnumbered' => cmd' \in {"apply", "chaos"})
      BY <2>1, FirstStep
    <3> QED BY <2>1, <3>1 DEF Begins
  <2>2. CASE cmd' = "none"
    BY <2>2 DEF Numbered, Unnumbered
  <2>3. CASE Numbers
    <3>1. ~Unnumbered' /\ cmd' # "cleanup" /\ p'.run = runs + 1
      BY <2>3, NumberingStep DEF Numbers
    <3> QED BY <1>2, <3>1
  <2>4. CASE Loops
    <3>1. cmd' = "monitor" /\ ~Numbered'
      BY <2>4, LoopStep
    <3> QED BY <2>4, <3>1 DEF Loops, SameRun
  <2>5. CASE cmd # "none" /\ cmd' # "none" /\ ~Numbers /\ ~Loops
    <3>1. /\ cmd' = cmd /\ runs' = runs /\ p'.run = p.run
          /\ Numbered' => Numbered
          /\ Unnumbered' => Unnumbered
      BY <1>1, <2>5, Walking, RunsOfSteps
    <3>2. Unnumbered => p'.known = {}
      <4> SUFFICES ASSUME Unnumbered
                   PROVE  p'.known = {}
        OBVIOUS
      <4>1. p.known = {} /\ Here \notin Creating
        BY <1>1 DEF Numbering, Unnumbered, Startup, Creating
      <4>2. p.landed = {} /\ cmd # "cleanup"
        BY <4>1 DEF CInv, Quiet, Unnumbered
      <4>3. ~Loads
        <5>1. Here # "load"
          BY DEF Unnumbered, Startup
        <5> QED BY <5>1 DEF Loads
      <4>4. ASSUME \/ Stays \/ Proceeds \/ Errs \/ AppliedAll \/ Jumped
                   \/ Settles \/ Persists \/ Aims \/ Skips \/ Leaves \/ WrapsUp
            PROVE  p'.known = p.known
        BY <4>4 DEF Stays, Proceeds, Errs, AppliedAll, Jumped, Settles,
                    Persists, Aims, Skips, Leaves, WrapsUp, Quietly, Checks,
                    SameLedger
      <4>5. ASSUME NEW x, \/ Asks(x) \/ Learns(x) \/ Misses(x) \/ GivesUp(x)
                          \/ Removes(x) \/ Drops(x) \/ Clears(x) \/ Arrives(x)
            PROVE  p'.known \subseteq p.known
        BY <4>2, <4>5 DEF Asks, Learns, Misses, GivesUp, Removes, Drops, Clears,
                    Arrives, SameLedger
      <4>6. ASSUME NEW l \in Lanes, Snaps(l) \/ Merges(l) \/ Writes(l) \/ Returns(l)
            PROVE  p'.known = p.known
        BY <4>6 DEF Snaps, Merges, Writes, Returns, Checks
      <4>7. ~Begins /\ ~Exits
        BY <2>5 DEF Begins, Exits
      <4> QED BY <2>5, <4>1, <4>3, <4>4, <4>5, <4>6, <4>7 DEF Kind
    <3> QED BY <1>1, <3>1, <3>2 DEF Numbering
  <2>6. CASE cmd = "none" /\ cmd' # "none" /\ ~Begins
    BY <1>1, <2>6, ArrivesOnly DEF Begins, Exits
  <2> QED BY <2>1, <2>2, <2>3, <2>4, <2>5, <2>6
<1> QED BY <1>3, <1>4, <1>5, <1>6 DEF Numbering

(***************************************************************************)
(* Creates stay where they are made, checkpoints in churn.                 *)
(***************************************************************************)
LEMMA QuietKept ==
  ASSUME CInv, Kind
  PROVE  Quiet'
<1>1. TypeOK /\ Quiet
  BY DEF CInv
<1>2. svc' = svc /\ Lanes' = Lanes
  BY <1>1, RunsGrow, SameService
<1>3. CASE Begins
  <2>1. Here' # "churn" /\ Here' \notin Creating
    BY <1>3, FirstStep DEF Creating
  <2> QED BY <1>2, <1>3, <2>1 DEF Begins, Quiet
<1>4. CASE Exits
  <2>1. /\ p'.landed = {}
        /\ \A l \in Lanes : /\ p'.engine[l] = "running"
                            /\ p'.snap[l] = {} /\ p'.latest[l] = {}
    BY <1>4 DEF Exits, Fresh
  <2> QED BY <1>2, <2>1 DEF Quiet
<1>5. CASE Stays \/ Errs \/ Skips \/ Aims \/ Leaves
  <2>1. Here' = Here /\ SameLedger /\ p'.run = p.run
    BY <1>5 DEF Stays, Errs, Skips, Aims, Leaves, InPlace, Quietly, SameRun
  <2> QED BY <1>1, <1>2, <2>1 DEF SameLedger, Quiet, IsRoot
<1>6. ASSUME SameLedger, p'.landed = {}, Here # "churn"
      PROVE  Quiet'
  BY <1>1, <1>2, <1>6 DEF SameLedger, Quiet
<1>7. CASE Proceeds
  BY <1>6, <1>7 DEF Proceeds, Quietly
<1>8. CASE AppliedAll
  BY <1>6, <1>8 DEF AppliedAll, Quietly, SameLedger
<1>9. CASE Jumped \/ Numbers \/ Persists
  <2>1. SameLedger /\ Here \notin Creating
    BY <1>9 DEF Jumped, Numbers, Persists, Quietly, Creating
  <2>2. p.landed = {}
    BY <1>1, <2>1 DEF Quiet
  <2> QED BY <1>6, <2>1, <2>2 DEF SameLedger, Creating
<1>10. CASE WrapsUp
  <2>1. SameLedger /\ Here \notin Creating
    BY <1>10 DEF WrapsUp, Creating
  <2>2. p.landed = {}
    BY <1>1, <2>1 DEF Quiet
  <2> QED BY <1>6, <2>1, <2>2 DEF SameLedger, Creating
<1>11. CASE Loads \/ Loops
  <2>1. /\ Here \notin Creating /\ p'.landed = p.landed /\ p'.engine = p.engine
        /\ p'.snap = p.snap /\ p'.latest = p.latest
    BY <1>11 DEF Loads, Loops, Creating
  <2> QED BY <1>1, <1>2, <2>1 DEF Quiet, Creating
<1>12. ASSUME NEW x, Asks(x) \/ GivesUp(x)
       PROVE  Quiet'
  <2>1. /\ Here' = Here /\ Here \in Creating /\ p'.run = p.run
        /\ p'.engine = p.engine /\ p'.snap = p.snap /\ p'.latest = p.latest
        /\ p'.landed \subseteq p.landed \cup {x}
        /\ Here = "churn" => p.engine[x.lane] # "returned"
        /\ x.run = p.run /\ (Here \in {"roots", "provision"} => IsRoot(x))
    BY <1>12, PlanFacts DEF Asks, GivesUp, InPlace, SameRun, SameChurn, Spends
  <2>2. Here # "churn" => \A l \in Lanes : p.engine[l] # "returned"
    BY <1>1 DEF Quiet
  <2> QED BY <1>1, <1>2, <2>1, <2>2 DEF Quiet, IsRoot
<1>13. ASSUME NEW x, Learns(x) \/ Misses(x) \/ Removes(x) \/ Drops(x) \/ Clears(x)
       PROVE  Quiet'
  <2>1. /\ Here' = Here /\ p'.landed \subseteq p.landed /\ p'.run = p.run
        /\ p'.engine = p.engine /\ p'.snap = p.snap /\ p'.latest = p.latest
    BY <1>13 DEF Learns, Misses, Removes, Drops, Clears, InPlace, SameRun,
                 SameChurn, SameLedger
  <2> QED BY <1>1, <1>2, <2>1 DEF Quiet, IsRoot
<1>14. ASSUME NEW x, Arrives(x)
       PROVE  Quiet'
  <2>1. p' = p /\ Here' = Here
    BY <1>14, SameService DEF Arrives, Here
  <2> QED BY <1>1, <1>2, <2>1 DEF Quiet, IsRoot
<1>15. ASSUME NEW l \in Lanes, Snaps(l) \/ Merges(l) \/ Writes(l)
       PROVE  Quiet'
  <2>1. /\ Here' = "churn" /\ p'.landed = p.landed /\ p'.run = p.run
        /\ \A k \in Lanes : p'.engine[k] = "returned" => p.engine[k] = "returned"
    <3>1. p.engine \in [Lanes -> {"running", "waiting", "writing", "returned"}]
      BY <1>1, TypeParts DEF Memory
    <3>2. PICK e \in {"running", "waiting", "writing"} :
            p'.engine = [p.engine EXCEPT ![l] = e]
      BY <1>15 DEF Snaps, Merges, Writes
    <3>3. \A k \in Lanes : p'.engine[k] = "returned" => p.engine[k] = "returned"
      BY <3>1, <3>2
    <3> QED BY <1>15, <3>3 DEF Snaps, Merges, Writes, Checks, SameRun
  <2> QED BY <1>1, <1>2, <2>1 DEF Quiet, Creating
<1>16. ASSUME NEW l \in Lanes, Returns(l)
       PROVE  Quiet'
  <2>1. p.engine \in [Lanes -> {"running", "waiting", "writing", "returned"}]
    BY <1>1, TypeParts DEF Memory
  <2>2. /\ Here' = "churn" /\ p'.landed = p.landed /\ p'.run = p.run
        /\ \A x \in p.landed : x.lane # l
        /\ p'.engine = [p.engine EXCEPT ![l] = "returned"]
    BY <1>16 DEF Returns, Checks, SameRun
  <2>3. \A k \in Lanes : p'.engine[k] = "returned" =>
                           k = l \/ p.engine[k] = "returned"
    BY <2>1, <2>2
  <2> QED BY <1>1, <1>2, <2>2, <2>3 DEF Quiet, Creating
<1>17. CASE Settles
  <2>1. /\ p'.landed = p.landed
        /\ \A l \in Lanes : /\ p.engine[l] = "returned"
                            /\ p'.engine[l] = "running"
                            /\ p'.snap[l] = {} /\ p'.latest[l] = {}
    BY <1>17 DEF Settles, Checks
  <2>2. \A x \in p.landed : x.lane \in Lanes
    BY <1>1, TypeParts, ResourceFacts
  <2>3. p.landed = {}
    BY <1>1, <2>1, <2>2 DEF Quiet
  <2> QED BY <1>2, <2>1, <2>3 DEF Quiet
<1> QED BY <1>3, <1>4, <1>5, <1>7, <1>8, <1>9, <1>10, <1>11, <1>12, <1>13, <1>14,
           <1>15, <1>16, <1>17 DEF Kind

(***************************************************************************)
(* A churn run has no order.                                               *)
(***************************************************************************)
LEMMA NoOrdersKept ==
  ASSUME CInv, Kind
  PROVE  NoOrders'
<1>1. TypeOK /\ Numbering /\ NoOrders
  BY DEF CInv
<1> SUFFICES ASSUME (cmd = "chaos" /\ Numbered)', NEW x \in (cloud \cup late)',
                    x.run = p'.run
             PROVE  x.kind # "order"
  BY DEF NoOrders
<1>2. cmd' = "chaos" /\ Numbered' /\ cmd' # "none"
  OBVIOUS
<1>3. CASE Begins
  BY <1>2, <1>3, FirstStep
<1>4. CASE Numbers
  <2>1. p'.run = runs + 1 /\ cloud' = cloud /\ late' = late /\ runs \in Nat
    BY <1>1, <1>4, TypeParts DEF Numbers, SameWorld
  <2>2. x.run <= runs
    BY <1>1, <2>1 DEF Numbering
  <2> QED BY <2>1, <2>2
<1>5. CASE Loops
  BY <1>2, <1>5, LoopStep
<1>6. CASE cmd # "none" /\ ~Numbers /\ ~Loops
  <2>1. cmd = "chaos" /\ Numbered /\ p'.run = p.run
    BY <1>1, <1>2, <1>6, Walking, RunsOfSteps
  <2> QED BY <1>1, <2>1, WorldOfSteps DEF NoOrders
<1>7. CASE cmd = "none" /\ ~Begins
  BY <1>2, <1>7, ArrivesOnly DEF Exits
<1> QED BY <1>3, <1>4, <1>5, <1>6, <1>7

(***************************************************************************)
(* What is noted was known.                                                *)
(***************************************************************************)
LEMMA NotedWasKnown ==
  ASSUME CInv, Kind, Numbered, cmd' # "none", ~Numbers, ~Loops
  PROVE  Noted' \subseteq Noted \cup p.known
<1>1. TypeOK
  BY DEF CInv
<1>2. cmd # "none"
  BY DEF Numbered
<1>3. /\ svc' = svc /\ p'.run = p.run /\ Lanes' = Lanes
  BY <1>1, <1>2, Walking, SameService
<1>4. /\ p.run \in 1..MaxRun /\ disk \in [1..MaxRun -> RunRecord]
      /\ p.snap \in [Lanes -> SUBSET Resource]
      /\ p.latest \in [Lanes -> SUBSET Resource]
  <2>1. p.run # 0
    BY DEF CInv, Numbering
  <2> QED BY <1>1, <2>1, PlanIsResource, TypeParts DEF Memory
<1>5. ASSUME disk' = disk, p'.snap = p.snap, p'.latest = p.latest
      PROVE  Noted' \subseteq Noted \cup p.known
  BY <1>3, <1>5 DEF Noted, Latest
<1>6. ASSUME \/ Stays \/ Proceeds \/ Errs \/ AppliedAll \/ Jumped \/ Loads
             \/ Aims \/ Skips \/ Leaves \/ WrapsUp
      PROVE  disk' = disk /\ p'.snap = p.snap /\ p'.latest = p.latest
  BY <1>6 DEF Stays, Proceeds, Errs, AppliedAll, Jumped, Loads, Aims, Skips,
              Leaves, WrapsUp, Quietly, InPlace, SameLedger
<1>7. ASSUME NEW x, \/ Asks(x) \/ Learns(x) \/ Misses(x) \/ GivesUp(x)
                    \/ Removes(x) \/ Drops(x) \/ Clears(x) \/ Arrives(x)
      PROVE  disk' = disk /\ p'.snap = p.snap /\ p'.latest = p.latest
  BY <1>7 DEF Asks, Learns, Misses, GivesUp, Removes, Drops, Clears, Arrives,
              InPlace, SameChurn, SameLedger
<1>8. ASSUME NEW l \in Lanes, Snaps(l)
      PROVE  Noted' \subseteq Noted \cup p.known
  <2>1. /\ disk' = disk /\ p'.latest = p.latest
        /\ p'.snap = [p.snap EXCEPT ![l] = resourcesOfLane(p.known \ Roots, l)]
    BY <1>8 DEF Snaps
  <2>2. resourcesOfLane(p.known \ Roots, l) \subseteq p.known
    BY DEF resourcesOfLane
  <2>3. \A k \in Lanes : p'.snap[k] \subseteq p.snap[k] \cup p.known
    BY <1>4, <2>1, <2>2
  <2>4. UNION {p'.snap[k] : k \in Lanes} \subseteq Noted \cup p.known
    BY <2>3 DEF Noted
  <2>5. disk[p.run].made \cup Latest \subseteq Noted
    BY DEF Noted
  <2>6. Noted' = disk[p.run].made \cup Latest \cup UNION {p'.snap[k] : k \in Lanes}
    BY <1>3, <2>1 DEF Noted, Latest
  <2> QED BY <2>4, <2>5, <2>6
<1>9. ASSUME NEW l \in Lanes, Merges(l)
      PROVE  Noted' \subseteq Noted \cup p.known
  <2>1. /\ disk' = disk /\ p'.snap = p.snap
        /\ p'.latest = [p.latest EXCEPT ![l] = p.snap[l]]
    BY <1>9 DEF Merges
  <2>2. \A k \in Lanes : p'.latest[k] \subseteq p.latest[k] \cup p.snap[k]
    BY <1>4, <2>1
  <2>3. Latest' \subseteq Noted
    BY <1>3, <2>2 DEF Noted, Latest
  <2>4. disk'[p.run].made \subseteq Noted
        /\ UNION {p.snap[k] : k \in Lanes} \subseteq Noted
    BY <2>1 DEF Noted
  <2>5. Noted' = disk'[p.run].made \cup Latest' \cup UNION {p.snap[k] : k \in Lanes}
    BY <1>3, <2>1 DEF Noted
  <2> QED BY <2>3, <2>4, <2>5
<1>10. ASSUME NEW l \in Lanes, Writes(l)
       PROVE  Noted' \subseteq Noted \cup p.known
  <2>1. /\ p'.snap = p.snap /\ p'.latest = p.latest
        /\ Here = "churn" /\ p.engine[l] = "writing"
        /\ \/ disk' = disk
           \/ disk' = [disk EXCEPT ![p.run] = buildMixRecord(p.copy[l])]
    BY <1>10 DEF Writes, Checks
  <2>2. p.copy[l] = Latest
    BY <2>1 DEF CInv, Merging
  <2>3. Roots \subseteq p.known
    BY DEF Roots
  <2>4. disk'[p.run].made \subseteq disk[p.run].made \cup p.known \cup Latest
    <3>1. CASE disk' = disk
      BY <3>1
    <3>2. CASE disk' = [disk EXCEPT ![p.run] = buildMixRecord(p.copy[l])]
      <4>1. disk'[p.run].made = Roots \cup Latest
        BY <1>4, <2>2, <3>2 DEF buildMixRecord
      <4> QED BY <2>3, <4>1
    <3> QED BY <2>1, <3>1, <3>2
  <2> QED BY <1>3, <2>1, <2>4 DEF Noted, Latest
<1>11. ASSUME NEW l \in Lanes, Returns(l)
       PROVE  disk' = disk /\ p'.snap = p.snap /\ p'.latest = p.latest
  BY <1>11 DEF Returns
<1>12. CASE Settles
  <2>1. disk' = disk /\ \A l \in Lanes : p'.snap[l] = {} /\ p'.latest[l] = {}
    BY <1>12 DEF Settles
  <2> QED BY <1>3, <2>1 DEF Noted, Latest
<1>13. CASE Persists
  <2>1. /\ p'.snap = p.snap /\ p'.latest = p.latest
        /\ disk' = [disk EXCEPT ![p.run] = [there |-> TRUE, made |-> p.known]]
    BY <1>13 DEF Persists, SameLedger, WriteRecord
  <2>2. disk'[p.run].made = p.known
    BY <1>4, <2>1
  <2> QED BY <1>3, <2>1, <2>2 DEF Noted, Latest
<1>14. ~Begins /\ ~Exits
  BY <1>2 DEF Begins, Exits
<1> QED BY <1>5, <1>6, <1>7, <1>8, <1>9, <1>10, <1>11, <1>12, <1>13, <1>14
        DEF Kind

(***************************************************************************)
(* The ledger of a run is kept: what is asked for has not been asked for   *)
(* before, so that nothing noted can be in flight or late.                 *)
(***************************************************************************)
LedgerSound(known, landed, noted, c, l, s) ==
  /\ known \cup landed \cup noted \subseteq s
  /\ (known \cup noted) \cap (l \cup landed) = {}
  /\ landed \cap l = {}
  /\ noted \cap c \subseteq known

LEMMA LedgerKept ==
  ASSUME CInv, Kind
  PROVE  Ledger'
<1>1. TypeOK /\ Numbering /\ Quiet /\ Ledger
  BY DEF CInv
<1> SUFFICES ASSUME Numbered'
             PROVE  /\ \A x \in (cloud \cup late)' : x.run = p'.run => x \in spent'
                    /\ LedgerSound(p'.known, p'.landed, Noted', cloud', late', spent')
  BY DEF Ledger, LedgerSound
<1>2. cmd' # "none"
  BY DEF Numbered
<1>3. CASE Begins
  BY <1>3, FirstStep
<1>4. CASE Loops
  BY <1>4, LoopStep
<1>5. CASE Numbers
  <2>1. /\ p'.run = runs + 1 /\ disk' = disk /\ runs \in Nat
        /\ cloud' = cloud /\ late' = late
        /\ p'.known = p.known /\ p'.landed = p.landed
        /\ p'.snap = p.snap /\ p'.latest = p.latest
    BY <1>1, <1>5, TypeParts DEF Numbers, SameWorld, SameLedger
  <2>2. /\ p.known = {} /\ p.landed = {} /\ Here \notin Creating /\ Unnumbered
        /\ svc' = svc
    BY <1>5, NumberingStep
  <2>3. runs < MaxRun /\ MaxRun \in Nat /\ Lanes' = Lanes
    BY <1>1, <2>2, TypeParts, SameService DEF Numbering
  <2>4. disk[runs + 1].made = {}
    <3>1. runs + 1 \in 1..MaxRun /\ runs + 1 > runs
      BY <2>1, <2>3
    <3> QED BY <1>1, <3>1 DEF Numbering
  <2>5. \A x \in cloud \cup late : x.run # runs + 1
    <3> SUFFICES ASSUME NEW x \in cloud \cup late, x.run = runs + 1
                 PROVE  FALSE
      OBVIOUS
    <3>1. x.run <= runs
      BY <1>1 DEF Numbering
    <3> QED BY <2>1, <3>1
  <2>6. \A l \in Lanes : p.snap[l] = {} /\ p.latest[l] = {}
    BY <1>1, <2>2 DEF Quiet, Creating
  <2>7. Noted' = {}
    BY <2>1, <2>3, <2>4, <2>6 DEF Noted, Latest
  <2> QED BY <2>1, <2>2, <2>5, <2>7 DEF LedgerSound
<1>6. CASE cmd = "none" /\ ~Begins
  BY <1>2, <1>6, ArrivesOnly DEF Exits
<1>7. ASSUME cmd # "none", ~Numbers, ~Loops
      PROVE  /\ Numbered /\ p'.run = p.run /\ Noted' \subseteq Noted \cup p.known
             /\ \A x \in cloud \cup late : x.run = p.run => x \in spent
             /\ LedgerSound(p.known, p.landed, Noted, cloud, late, spent)
             /\ LedgerSound(p.known, p.landed, Noted', cloud, late, spent)
  <2>1. Numbered /\ p'.run = p.run
    BY <1>1, <1>2, <1>7, Walking, RunsOfSteps
  <2>2. Noted' \subseteq Noted \cup p.known
    BY <1>2, <1>7, <2>1, NotedWasKnown
  <2>3. /\ \A x \in cloud \cup late : x.run = p.run => x \in spent
        /\ LedgerSound(p.known, p.landed, Noted, cloud, late, spent)
    BY <1>1, <2>1 DEF Ledger, LedgerSound
  <2> QED BY <2>1, <2>2, <2>3 DEF LedgerSound
<1>8. ASSUME SameWorld, p'.known = p.known, p'.landed = p.landed, cmd # "none",
             ~Numbers, ~Loops
      PROVE  Ledger'
  BY <1>7, <1>8 DEF SameWorld, Ledger, LedgerSound
<1>9. ASSUME cmd # "none", ~Numbers, ~Loops,
             \/ Stays \/ Proceeds \/ Errs \/ AppliedAll \/ Jumped
             \/ Settles \/ Persists \/ Aims \/ Skips \/ Leaves \/ WrapsUp
      PROVE  SameWorld /\ p'.known = p.known /\ p'.landed = p.landed
  BY <1>9 DEF Stays, Proceeds, Errs, AppliedAll, Jumped, Settles, Persists, Aims,
              Skips, Leaves, WrapsUp, Quietly, Checks, SameLedger
<1>10. ASSUME cmd # "none", ~Numbers, ~Loops, NEW l \in Lanes,
              Snaps(l) \/ Merges(l) \/ Writes(l) \/ Returns(l)
       PROVE  SameWorld /\ p'.known = p.known /\ p'.landed = p.landed
  BY <1>10 DEF Snaps, Merges, Writes, Returns, Checks
<1>11. CASE Loads
  <2>1. cmd # "none" /\ Here = "load" /\ GoesOn /\ cmd' = cmd
    BY <1>11 DEF Loads, SameRun, InCommand
  <2>2. cmd = "cleanup"
    BY <1>1, <2>1, Whereabouts DEF StepsOf, CommandScripts
  <2> QED BY <2>1, <2>2 DEF Numbered
<1>12. ASSUME NEW x, ~Numbers, ~Loops, cmd # "none", Asks(x) \/ GivesUp(x)
       PROVE  Ledger'
  <2>1. /\ x \notin spent /\ spent' = spent \cup {x} /\ x.run = p.run
        /\ p'.known = p.known
        /\ \/ /\ cloud' = cloud \cup {x} /\ late' = late
              /\ p'.landed = p.landed \cup {x}
           \/ /\ cloud' = cloud /\ late' = late \cup {x}
              /\ p'.landed = p.landed \ {x}
    BY <1>12, PlanFacts DEF Asks, GivesUp, Spends
  <2>2. x \notin late /\ x \notin p.known \cup Noted'
    BY <1>7, <1>12, <2>1 DEF LedgerSound
  <2>3. \A y \in (cloud \cup late)' : y.run = p'.run => y \in spent'
    BY <1>7, <1>12, <2>1
  <2>4. LedgerSound(p'.known, p'.landed, Noted', cloud', late', spent')
    BY <1>7, <1>12, <2>1, <2>2 DEF LedgerSound
  <2> QED BY <2>3, <2>4 DEF Ledger, LedgerSound
<1>13. ASSUME NEW x, ~Numbers, ~Loops, cmd # "none",
              \/ Learns(x) \/ Misses(x) \/ Removes(x) \/ Drops(x)
              \/ Clears(x) \/ Arrives(x)
       PROVE  Ledger'
  <2>1. /\ spent' = spent
        /\ \/ /\ cloud' = cloud /\ late' = late
              /\ x \in p.landed /\ p'.known = p.known \cup {x}
              /\ p'.landed = p.landed \ {x}
           \/ /\ cloud' \subseteq cloud /\ late' = late
              /\ p'.known = p.known /\ p'.landed = p.landed \ {x}
           \/ /\ cloud' = cloud \ {x} /\ late' = late
              /\ p'.known = p.known /\ p'.landed = p.landed
           \/ /\ cloud' = cloud /\ late' = late /\ x \notin cloud
              /\ p'.known = p.known \ {x} /\ p'.landed = p.landed
           \/ /\ x \in late /\ cloud' = cloud \cup {x} /\ late' = late \ {x}
              /\ p'.known = p.known /\ p'.landed = p.landed
    BY <1>13 DEF Learns, Misses, Removes, Drops, Clears, Arrives, SameWorld,
                 SameLedger
  <2>2. \A y \in (cloud \cup late)' : y.run = p'.run => y \in spent'
    BY <1>7, <1>13, <2>1
  <2>3. LedgerSound(p'.known, p'.landed, Noted', cloud', late', spent')
    BY <1>7, <1>13, <2>1 DEF LedgerSound
  <2> QED BY <2>2, <2>3 DEF Ledger, LedgerSound
<1>14. ~Exits
  BY <1>2 DEF Exits
<1>15. Ledger'
  BY <1>3, <1>4, <1>5, <1>6, <1>8, <1>9, <1>10, <1>11, <1>12, <1>13, <1>14
     DEF Kind, Ledger, LedgerSound
<1> QED BY <1>15 DEF Ledger, LedgerSound

(***************************************************************************)
(* The checkpoints of a run that churns.                                   *)
(***************************************************************************)
LEMMA ChurnParts ==
  ASSUME CInv, Here = "churn"
  PROVE  /\ cmd = "chaos" /\ Numbered /\ p.run \in 1..MaxRun
         /\ disk \in [1..MaxRun -> RunRecord]
         /\ p.engine \in [Lanes -> {"running", "waiting", "writing", "returned"}]
         /\ p.snap \in [Lanes -> SUBSET Resource]
         /\ p.latest \in [Lanes -> SUBSET Resource]
         /\ p.copy \in [Lanes -> SUBSET Resource]
         /\ Noted \cap (late \cup p.landed) = {} /\ Noted \cap cloud \subseteq p.known
         /\ Noted \subseteq spent
<1>1. TypeOK /\ Numbering /\ Ledger
  BY DEF CInv
<1>2. cmd = "chaos"
  BY <1>1, Whereabouts DEF StepsOf, CommandScripts
<1>3. Numbered
  BY <1>2 DEF Numbered, Startup
<1>4. p.run # 0
  BY <1>1, <1>3 DEF Numbering
<1> QED BY <1>1, <1>2, <1>3, <1>4, PlanIsResource, TypeParts DEF Memory, Ledger

\* A step in churn that leaves the checkpoints alone.
LEMMA MergingWorld ==
  ASSUME CInv, Here = "churn", Here' = "churn", SameChurn, disk' = disk,
         p'.run = p.run, Lanes' = Lanes,
         cloud' \cap Noted \subseteq cloud, Roots \cap cloud' \subseteq Roots'
  PROVE  Merging'
<1>1. Merging
  BY DEF CInv
<1>2. /\ p'.engine = p.engine /\ p'.snap = p.snap /\ p'.latest = p.latest
      /\ p'.copy = p.copy /\ p'.mutex = p.mutex /\ Latest' = Latest
  BY DEF SameChurn, Latest
<1>3. \A l \in Lanes : p.latest[l] \cap cloud' \subseteq p.latest[l] \cap cloud
  BY DEF Noted, Latest
<1>4. disk[p.run].made \cap cloud' \subseteq disk[p.run].made \cap cloud
  BY DEF Noted
<1>5. disk[p.run].made \cap cloud' \subseteq Roots' \cup Latest
  BY <1>1, <1>4 DEF Merging
<1>6. Here' \notin BeforeChurn
  BY DEF BeforeChurn, Startup
<1> QED BY <1>1, <1>2, <1>3, <1>5, <1>6 DEF Merging

LEMMA MergingInChurn ==
  ASSUME CInv, Kind, Here = "churn", Here' = "churn", cmd' # "none", Lanes' = Lanes
  PROVE  Merging'
<1>1. TypeOK /\ Numbering /\ Quiet /\ Merging /\ Ledger
  BY DEF CInv
<1>2. /\ cmd = "chaos" /\ Numbered /\ p.run \in 1..MaxRun
      /\ disk \in [1..MaxRun -> RunRecord]
      /\ p.engine \in [Lanes -> {"running", "waiting", "writing", "returned"}]
      /\ p.snap \in [Lanes -> SUBSET Resource]
      /\ p.latest \in [Lanes -> SUBSET Resource]
      /\ p.copy \in [Lanes -> SUBSET Resource]
      /\ Noted \cap (late \cup p.landed) = {} /\ Noted \cap cloud \subseteq p.known
      /\ Noted \subseteq spent
  BY ChurnParts
<1>3. /\ \A l \in Lanes : \A x \in p.snap[l] \cup p.latest[l] :
            x.lane = l /\ ~IsRoot(x)
      /\ \A l \in Lanes : p.engine[l] = "waiting" =>
            p.latest[l] \cap cloud \subseteq p.snap[l]
      /\ \A l \in Lanes : p.engine[l] = "writing" =>
            p.mutex = "held" /\ p.copy[l] = Latest
      /\ \A k, l \in Lanes :
            p.engine[k] = "writing" /\ p.engine[l] = "writing" => k = l
      /\ disk[p.run].made \cap cloud \subseteq Roots \cup Latest
  BY <1>1 DEF Merging
<1>4. ~Numbers /\ ~Loops /\ ~Begins /\ ~Exits
  BY <1>2 DEF Numbers, Loops, Begins, Exits
<1>5. p'.run = p.run /\ Walks /\ cmd' = cmd
  BY <1>1, <1>2, <1>4, Walking
<1>6. ~GoesOn
  <2>1. ASSUME GoesOn PROVE Here # Here'
    BY <1>2, <2>1, FlowFacts DEF GoesOn, CommandScripts
  <2> QED BY <2>1
<1>7. Here' \notin BeforeChurn
  BY DEF BeforeChurn, Startup
<1>8. ASSUME NEW x, \/ Asks(x) \/ Learns(x) \/ Misses(x) \/ GivesUp(x)
                    \/ Removes(x) \/ Drops(x) \/ Clears(x) \/ Arrives(x)
      PROVE  Merging'
  <2>1. SameChurn /\ disk' = disk
    BY <1>8 DEF Asks, Learns, Misses, GivesUp, Removes, Drops, Clears, Arrives,
                SameChurn, SameLedger, InPlace
  <2>2. cloud' \cap Noted \subseteq cloud
    <3>1. \/ cloud' \subseteq cloud
          \/ cloud' = cloud \cup {x} /\ (x \notin spent \/ x \in late)
      BY <1>8 DEF Asks, Learns, Misses, GivesUp, Removes, Drops, Clears, Arrives,
                  SameWorld, Spends
    <3> QED BY <1>2, <3>1
  <2>3. Roots \cap cloud' \subseteq Roots'
    <3>1. \A y \in p.known : y \in cloud' => y \in p'.known
      BY <1>8 DEF Asks, Learns, Misses, GivesUp, Removes, Drops, Clears, Arrives,
                  SameWorld, SameLedger
    <3> QED BY <3>1 DEF Roots, IsRoot
  <2> QED BY <1>5, <2>1, <2>2, <2>3, MergingWorld
<1>9. CASE Stays \/ Errs \/ Aims \/ Skips \/ Leaves
  <2>1. SameLedger /\ disk' = disk /\ cloud' = cloud
    BY <1>9 DEF Stays, Errs, Aims, Skips, Leaves, Quietly, InPlace, SameWorld
  <2>2. Roots' = Roots /\ SameChurn
    BY <2>1 DEF SameLedger, SameChurn, Roots, IsRoot
  <2> QED BY <1>5, <2>1, <2>2, MergingWorld
<1>10. ~Proceeds /\ ~AppliedAll /\ ~Loads /\ ~Settles /\ ~Persists
  BY <1>6 DEF Proceeds, AppliedAll, Loads, Settles, Persists
<1>11. ~Jumped /\ ~WrapsUp
  BY DEF Jumped, WrapsUp
<1>12. ASSUME NEW l \in Lanes, Snaps(l)
       PROVE  Merging'
  <2> DEFINE new == resourcesOfLane(p.known \ Roots, l)
  <2>1. /\ disk' = disk /\ cloud' = cloud /\ p'.known = p.known
        /\ p.engine[l] = "running" /\ p'.latest = p.latest /\ p'.copy = p.copy
        /\ p'.mutex = p.mutex
        /\ p'.engine = [p.engine EXCEPT ![l] = "waiting"]
        /\ p'.snap = [p.snap EXCEPT ![l] = new]
    BY <1>12 DEF Snaps, Checks, SameWorld
  <2>2. \A x \in new : x \in p.known /\ x.lane = l /\ ~IsRoot(x)
    BY DEF resourcesOfLane, Roots
  <2>3. p.latest[l] \cap cloud \subseteq new
    <3> SUFFICES ASSUME NEW x \in p.latest[l], x \in cloud
                 PROVE  x \in p.known /\ x.lane = l /\ ~IsRoot(x)
      BY DEF resourcesOfLane, Roots
    <3>1. x \in Noted
      BY DEF Noted, Latest
    <3> QED BY <1>2, <1>3, <3>1
  <2> HIDE DEF new
  <2>4. /\ \A k \in Lanes : /\ k # l => /\ p'.engine[k] = p.engine[k]
                                         /\ p'.snap[k] = p.snap[k]
                            /\ k = l => p'.engine[k] = "waiting" /\ p'.snap[k] = new
    BY <1>2, <2>1
  <2>5. Latest' = Latest /\ Roots' = Roots
    BY <2>1 DEF Latest, Roots, IsRoot
  <2>6. \A k \in Lanes : \A x \in p'.snap[k] \cup p'.latest[k] :
            x.lane = k /\ ~IsRoot(x)
    BY <1>3, <2>1, <2>2, <2>4
  <2>7. \A k \in Lanes : p'.engine[k] = "waiting" =>
            p'.latest[k] \cap cloud' \subseteq p'.snap[k]
    BY <1>3, <2>1, <2>3, <2>4
  <2>8. \A k \in Lanes : p'.engine[k] = "writing" =>
            p'.mutex = "held" /\ p'.copy[k] = Latest'
    BY <1>3, <2>1, <2>4, <2>5
  <2>9. \A k, m \in Lanes :
            p'.engine[k] = "writing" /\ p'.engine[m] = "writing" => k = m
    BY <1>3, <2>4
  <2> QED BY <1>3, <1>5, <1>7, <2>1, <2>5, <2>6, <2>7, <2>8, <2>9
          DEF Merging, IsRoot
<1>13. ASSUME NEW l \in Lanes, Merges(l)
       PROVE  Merging'
  <2>1. /\ disk' = disk /\ cloud' = cloud /\ p'.known = p.known
        /\ p.engine[l] = "waiting" /\ p.mutex = "free" /\ p'.snap = p.snap
        /\ p'.mutex = "held"
        /\ p'.engine = [p.engine EXCEPT ![l] = "writing"]
        /\ p'.latest = [p.latest EXCEPT ![l] = p.snap[l]]
        /\ p'.copy = [p.copy EXCEPT ![l] = UNION {p'.latest[k] : k \in Lanes}]
    BY <1>13 DEF Merges, Checks, SameWorld
  <2>2. /\ \A k \in Lanes : /\ k # l => /\ p'.engine[k] = p.engine[k]
                                         /\ p'.latest[k] = p.latest[k]
                            /\ k = l => p'.engine[k] = "writing"
                                        /\ p'.latest[k] = p.snap[k]
    BY <1>2, <2>1
  <2>3. Roots' = Roots
    BY <2>1 DEF Roots, IsRoot
  <2>4. p'.copy[l] = Latest'
    BY <1>2, <2>1 DEF Latest
  <2>5. \A k \in Lanes : p.engine[k] # "writing"
    BY <1>3, <2>1
  <2>6. \A k \in Lanes : \A x \in p'.snap[k] \cup p'.latest[k] :
            x.lane = k /\ ~IsRoot(x)
    BY <1>3, <2>1, <2>2
  <2>7. \A k \in Lanes : p'.engine[k] = "waiting" =>
            p'.latest[k] \cap cloud' \subseteq p'.snap[k]
    BY <1>3, <2>1, <2>2
  <2>8. \A k \in Lanes : p'.engine[k] = "writing" => k = l
    BY <2>2, <2>5
  <2>9. Latest \cap cloud \subseteq Latest'
    <3> SUFFICES ASSUME NEW k \in Lanes, NEW x \in p.latest[k], x \in cloud
                 PROVE  x \in p'.latest[k]
      BY DEF Latest
    <3>1. k = l => x \in p.snap[l]
      BY <1>3, <2>1
    <3> QED BY <2>2, <3>1
  <2>10. disk[p.run].made \cap cloud \subseteq Roots \cup Latest'
    BY <1>3, <2>9
  <2> QED BY <1>5, <1>7, <2>1, <2>3, <2>4, <2>6, <2>7, <2>8, <2>10
          DEF Merging, IsRoot
<1>14. ASSUME NEW l \in Lanes, Writes(l) \/ Returns(l)
       PROVE  Merging'
  <2>1. /\ cloud' = cloud /\ p'.known = p.known /\ p'.snap = p.snap
        /\ p'.latest = p.latest
    BY <1>14 DEF Writes, Returns, Checks, SameWorld
  <2>2. Roots' = Roots /\ Latest' = Latest
    BY <2>1 DEF Roots, IsRoot, Latest
  <2>3. CASE Returns(l)
    <3>1. /\ disk' = disk /\ p'.copy = p.copy /\ p'.mutex = p.mutex
          /\ p'.engine = [p.engine EXCEPT ![l] = "returned"]
      BY <2>3 DEF Returns
    <3>2. \A k \in Lanes : p'.engine[k] \in {"waiting", "writing"} =>
                             p'.engine[k] = p.engine[k]
      BY <1>2, <3>1
    <3> QED BY <1>3, <1>5, <1>7, <2>1, <2>2, <3>1, <3>2 DEF Merging, IsRoot
  <2>4. CASE Writes(l)
    <3>1. /\ p.engine[l] = "writing"
          /\ p'.engine = [p.engine EXCEPT ![l] = "running"]
          /\ \/ disk' = disk
             \/ disk' = [disk EXCEPT ![p.run] = buildMixRecord(p.copy[l])]
      BY <2>4 DEF Writes
    <3>2. \A k \in Lanes : /\ p'.engine[k] # "writing"
                           /\ p'.engine[k] = "waiting" => p.engine[k] = "waiting"
      BY <1>2, <1>3, <3>1
    <3>3. disk'[p.run].made \cap cloud \subseteq Roots \cup Latest
      <4>1. CASE disk' = disk
        BY <1>3, <4>1
      <4>2. CASE disk' = [disk EXCEPT ![p.run] = buildMixRecord(p.copy[l])]
        <5>1. disk'[p.run].made = Roots \cup Latest
          BY <1>2, <1>3, <3>1, <4>2 DEF buildMixRecord
        <5> QED BY <5>1
      <4> QED BY <3>1, <4>1, <4>2
    <3> QED BY <1>3, <1>5, <1>7, <2>1, <2>2, <3>2, <3>3 DEF Merging, IsRoot
  <2> QED BY <1>14, <2>3, <2>4
<1> QED BY <1>4, <1>8, <1>9, <1>10, <1>11, <1>12, <1>13, <1>14 DEF Kind

LEMMA MergingKept ==
  ASSUME CInv, Kind
  PROVE  Merging'
<1>1. TypeOK /\ Numbering /\ Quiet /\ Merging /\ Ledger
  BY DEF CInv
<1>2. svc' = svc /\ Lanes' = Lanes
  BY <1>1, RunsGrow, SameService
<1>3. CASE cmd' = "none" \/ cmd = "none"
  <2>1. CASE cmd' = "none"
    BY <2>1 DEF Merging, Here
  <2>2. CASE cmd' # "none"
    <3>1. Begins
      BY <1>3, <2>2, ArrivesOnly DEF Exits
    <3> QED BY <3>1, FirstStep DEF Merging, Startup
  <2> QED BY <2>1, <2>2
<1>4. CASE Loops
  BY <1>4, LoopStep DEF Merging
<1>5. CASE Numbers
  <2>1. /\ Unnumbered /\ Numbered' /\ cmd' = cmd
    BY <1>5, NumberingStep
  <2>2. p'.run = runs + 1 /\ disk' = disk /\ GoesOn /\ runs \in Nat
        /\ Here \in {"runID", "iterID"}
    BY <1>1, <1>5, TypeParts DEF Numbers
  <2>3. runs < MaxRun /\ MaxRun \in Nat
    BY <1>1, <2>1, TypeParts DEF Numbering
  <2>4. disk[runs + 1].made = {}
    <3>1. runs + 1 \in 1..MaxRun /\ runs + 1 > runs
      BY <2>2, <2>3
    <3> QED BY <1>1, <3>1 DEF Numbering
  <2>5. Here' # "churn"
    <3>1. cmd \in DOMAIN CommandScripts
      BY <2>1 DEF Unnumbered, CommandScripts
    <3>2. cmd = "chaos" \/ Here' # "churn"
      BY <2>2, <3>1, FlowFacts DEF GoesOn, StepsOf, CommandScripts
    <3> QED BY <2>2, <3>1, <3>2, FlowFacts DEF GoesOn, Startup, BeforeChurn
  <2> QED BY <2>2, <2>4, <2>5 DEF Merging
<1>6. CASE cmd # "none" /\ cmd' # "none" /\ ~Numbers /\ ~Loops /\ Here # "churn"
  <2>1. /\ cmd' = cmd /\ p'.run = p.run /\ Walks /\ cmd \in DOMAIN CommandScripts
        /\ Here \in StepsOf(cmd) /\ Here \notin {"none"}
    BY <1>1, <1>6, Walking, Whereabouts
  <2>2. ASSUME cmd' = "chaos" /\ Here' \in (BeforeChurn \ Startup) \cup {"churn"}
        PROVE  /\ cmd = "chaos" /\ Here \in BeforeChurn \ Startup
               /\ disk'[p'.run].made = {}
    <3>1. cmd = "chaos" /\ Here \in BeforeChurn \ Startup
      <4>1. CASE Here' = Here
        BY <1>6, <2>1, <2>2, <4>1
      <4>2. CASE GoesOn /\ Here \notin {"runID", "iterID", "loop"}
        <5>1. /\ Here' \in BeforeChurn => Here \in BeforeChurn
              /\ Here' = "churn" => Here \in BeforeChurn \ Startup
              /\ Here' \in Startup <=> Here \in Startup \ {"runID"}
          BY <2>1, <2>2, <4>2, FlowFacts DEF GoesOn
        <5> QED BY <2>1, <2>2, <4>2, <5>1
      <4> QED BY <2>1, <2>2, <4>1, <4>2 DEF Walks
    <3>2. disk' = disk
      <4>1. Here \notin {"record", "keepRecord"}
        BY <3>1 DEF BeforeChurn, Startup
      <4>2. ASSUME NEW l \in Lanes, Writes(l)
            PROVE  FALSE
        BY <1>6, <4>2 DEF Writes, Checks
      <4>3. ~Persists /\ ~Exits
        BY <1>6, <4>1 DEF Persists, Exits
      <4> QED BY <1>1, <4>2, <4>3, DiskOfSteps
    <3> QED BY <1>1, <2>1, <3>1, <3>2 DEF Merging
  <2>3. ASSUME Here' = "churn"
        PROVE  /\ cmd' = "chaos"
               /\ \A l \in Lanes : /\ p'.engine[l] = "running"
                                   /\ p'.snap[l] = {} /\ p'.latest[l] = {}
    <3>1. cmd' = "chaos"
      <4>1. TypeOK'
        BY TypeKept
      <4>2. cmd' = "none" \/ Here' \in StepsOf(cmd')
        BY <2>1, <2>3, <4>1, FlowFacts DEF GoesOn, Walks, Leaps
      <4>3. cmd = "chaos"
        BY <1>6, <2>1, <2>3, <4>2 DEF StepsOf, CommandScripts
      <4> QED BY <2>1, <4>3
    <3>2. /\ p'.engine = p.engine /\ p'.snap = p.snap /\ p'.latest = p.latest
      <4>1. ASSUME NEW l, Snaps(l) \/ Merges(l) \/ Writes(l) \/ Returns(l)
            PROVE  FALSE
        BY <1>6, <4>1 DEF Snaps, Merges, Writes, Returns, Checks
      <4>2. ~Settles /\ ~Begins /\ ~Exits
        BY <1>6 DEF Settles, Checks, Begins, Exits
      <4>3. ASSUME NEW x, \/ Asks(x) \/ Learns(x) \/ Misses(x) \/ GivesUp(x)
                          \/ Removes(x) \/ Drops(x) \/ Clears(x) \/ Arrives(x)
            PROVE  /\ p'.engine = p.engine /\ p'.snap = p.snap
                   /\ p'.latest = p.latest
        BY <4>3 DEF Asks, Learns, Misses, GivesUp, Removes, Drops, Clears,
                    Arrives, SameChurn, SameLedger
      <4>4. ASSUME \/ Stays \/ Proceeds \/ Errs \/ AppliedAll \/ Jumped \/ Loads
                   \/ Persists \/ Aims \/ Skips \/ Leaves \/ WrapsUp
            PROVE  /\ p'.engine = p.engine /\ p'.snap = p.snap
                   /\ p'.latest = p.latest
        BY <4>4 DEF Stays, Proceeds, Errs, AppliedAll, Jumped, Loads, Persists,
                    Aims, Skips, Leaves, WrapsUp, Quietly, SameLedger
      <4> QED BY <1>6, <4>1, <4>2, <4>3, <4>4 DEF Kind
    <3> QED BY <1>1, <1>6, <3>1, <3>2 DEF Quiet
  <2>4. ASSUME Here' = "churn"
        PROVE  Merging'
    <3>1. disk'[p'.run].made = {}
      BY <2>2, <2>3, <2>4
    <3>2. Here' \notin BeforeChurn
      BY <2>4 DEF BeforeChurn, Startup
    <3> QED BY <1>2, <2>3, <2>4, <3>1, <3>2 DEF Merging
  <2> QED BY <2>2, <2>4 DEF Merging
<1>7. CASE Here = "churn" /\ Here' # "churn" /\ cmd' # "none"
  <2>1. cmd = "chaos" /\ cmd # "none"
    BY <1>7, ChurnParts
  <2>2. ~Numbers /\ ~Loops
    BY <1>7 DEF Numbers, Loops
  <2>3. Walks /\ cmd' = cmd
    BY <1>1, <1>7, <2>1, <2>2, Walking
  <2>4. Here' \notin BeforeChurn
    <3>1. <<Here, Here'>> \in Flow("chaos")
      BY <1>7, <2>1, <2>3 DEF Walks, GoesOn
    <3>2. Here' \in BeforeChurn => Here \in BeforeChurn
      BY <3>1, FlowFacts DEF CommandScripts
    <3> QED BY <1>7, <3>2 DEF BeforeChurn, Startup
  <2> QED BY <1>7, <2>4 DEF Merging
<1>8. CASE Here = "churn" /\ Here' = "churn" /\ cmd' # "none"
  BY <1>2, <1>8, MergingInChurn
<1> QED BY <1>3, <1>4, <1>5, <1>6, <1>7, <1>8

(***************************************************************************)
(* Away from the creates and the record nothing is learned or written.     *)
(***************************************************************************)
LEMMA StepsElsewhere ==
  ASSUME CInv, Kind, cmd # "none", cmd' # "none",
         Here \notin Creating \cup {"record", "keepRecord", "load", "loop"}
  PROVE  p'.known = p.known /\ disk' = disk
<1>1. Here # "churn" /\ p.landed = {}
  BY DEF CInv, Quiet, Creating
<1>2. ~Begins /\ ~Exits /\ ~Persists /\ ~Loads /\ ~Loops /\ ~Settles
  BY <1>1 DEF Begins, Exits, Persists, Loads, Loops, Settles, Checks
<1>3. ASSUME NEW l, Snaps(l) \/ Merges(l) \/ Writes(l) \/ Returns(l)
      PROVE  FALSE
  BY <1>1, <1>3 DEF Snaps, Merges, Writes, Returns, Checks
<1>4. disk' = disk
  BY <1>2, <1>3, DiskOfSteps
<1>5. ASSUME NEW x, \/ Asks(x) \/ Learns(x) \/ Misses(x) \/ GivesUp(x)
                    \/ Removes(x) \/ Drops(x) \/ Clears(x) \/ Arrives(x)
      PROVE  p'.known = p.known
  BY <1>1, <1>5 DEF Asks, Learns, Misses, GivesUp, Removes, Drops, Clears,
                    Arrives, SameLedger
<1>6. ASSUME \/ Stays \/ Proceeds \/ Errs \/ AppliedAll \/ Jumped \/ Numbers
             \/ Aims \/ Skips \/ Leaves \/ WrapsUp
      PROVE  p'.known = p.known
  BY <1>6 DEF Stays, Proceeds, Errs, AppliedAll, Jumped, Numbers, Aims, Skips,
              Leaves, WrapsUp, Quietly, SameLedger
<1> QED BY <1>2, <1>3, <1>4, <1>5, <1>6 DEF Kind

LEMMA FlagsElsewhere ==
  ASSUME CInv, Kind, cmd # "none", cmd' # "none",
         Here \in {"output", "decide", "record", "finish", "teardown"}
  PROVE  /\ Here # "record" => p'.wrote = p.wrote
         /\ Here = "record" => p'.wrote = "failed" \/ Persists \/ Here' = Here
         /\ cmd = "apply" => p'.err = p.err
         /\ cmd = "apply" /\ Here = "finish" /\ Here' # Here => p'.abort
         /\ Here = "teardown" /\ Here' = Here => p'.abort = p.abort
<1>1. TypeOK /\ p.landed = {} /\ Here \notin Creating /\ Here # "churn"
  BY DEF CInv, Quiet, Creating
<1>2. ~Begins /\ ~Exits /\ ~Loads /\ ~Loops /\ ~Settles /\ ~Jumped /\ ~Numbers
      /\ ~AppliedAll /\ ~Errs
  BY <1>1 DEF Begins, Exits, Loads, Loops, Settles, Checks, Jumped, Numbers,
              AppliedAll, Errs
<1>3. ASSUME NEW l, Snaps(l) \/ Merges(l) \/ Writes(l) \/ Returns(l)
      PROVE  FALSE
  BY <1>1, <1>3 DEF Snaps, Merges, Writes, Returns, Checks
<1>4. ASSUME NEW x, \/ Asks(x) \/ Learns(x) \/ Misses(x) \/ GivesUp(x)
                    \/ Removes(x) \/ Drops(x)
      PROVE  FALSE
  BY <1>1, <1>4 DEF Asks, Learns, Misses, GivesUp, Removes, Drops, Spends
<1>5. ASSUME NEW x, Clears(x) \/ Arrives(x)
      PROVE  /\ p'.wrote = p.wrote /\ p'.err = p.err /\ p'.abort = p.abort
             /\ Here' = Here
  BY <1>5, SameService DEF Clears, Arrives, InPlace, Here
<1>6. CASE Stays \/ Aims \/ Skips \/ Leaves
  <2>1. /\ p'.wrote = p.wrote /\ p'.err = p.err /\ p'.abort = p.abort
        /\ Here' = Here
    BY <1>6 DEF Stays, Aims, Skips, Leaves, SameFlags, InPlace
  <2> QED BY <2>1
<1>7. CASE Proceeds
  <2>1. cmd = "apply" /\ Here = "finish" => p.abort /\ p'.abort
    BY <1>7 DEF Proceeds
  <2>2. /\ p'.wrote = IF Here = "record" THEN "failed" ELSE p.wrote
        /\ cmd = "apply" => p'.err = p.err
        /\ Here # "teardown"
    BY <1>7 DEF Proceeds
  <2> QED BY <2>1, <2>2
<1>8. CASE Persists
  BY <1>8 DEF Persists
<1>9. CASE WrapsUp
  <2>1. p'.wrote = p.wrote /\ GoesOn /\ Here = "teardown" /\ cmd = "chaos"
    BY <1>9 DEF WrapsUp
  <2>2. Here' # Here
    BY <2>1, FlowFacts DEF GoesOn, CommandScripts
  <2> QED BY <2>1, <2>2
<1> QED BY <1>2, <1>3, <1>4, <1>5, <1>6, <1>7, <1>8, <1>9 DEF Kind

(***************************************************************************)
(* A run is recorded before it is torn down.                               *)
(***************************************************************************)
LEMMA RecordedKept ==
  ASSUME CInv, Kind
  PROVE  Recorded'
<1>1. TypeOK /\ Recorded
  BY DEF CInv
<1> SUFFICES ASSUME Here' \in {"finish", "teardown"}
             PROVE  p'.wrote = "failed" \/ p'.known \subseteq disk'[p'.run].made
  BY DEF Recorded
<1>2. cmd' # "none"
  BY DEF Here
<1>3. cmd # "none"
  <2>1. ASSUME cmd = "none" PROVE FALSE
    <3>1. Begins
      BY <1>2, <2>1, ArrivesOnly DEF Exits
    <3> QED BY <3>1, FirstStep
  <2> QED BY <2>1
<1>4. ~Numbers /\ ~Loops
  <2>1. ~Loops
    BY LoopStep
  <2>2. ASSUME Numbers PROVE FALSE
    <3>1. cmd \in DOMAIN CommandScripts /\ GoesOn /\ Here \in {"runID", "iterID"}
      BY <1>1, <1>3, <2>2, Whereabouts DEF Numbers
    <3>2. Here \in {"record", "finish"}
      BY <3>1, FlowFacts DEF GoesOn
    <3> QED BY <3>1, <3>2
  <2> QED BY <2>1, <2>2
<1>5. /\ cmd' = cmd /\ p'.run = p.run /\ Walks /\ cmd \in DOMAIN CommandScripts
  BY <1>1, <1>2, <1>3, <1>4, Walking, Whereabouts
<1>6. /\ Here \in {"record", "finish", "teardown"}
      /\ Here = "record" => Here' # Here
  BY <1>5, FlowFacts DEF Walks, GoesOn, Leaps
<1>7. CASE Here = "record"
  <2>1. p'.wrote = "failed" \/ Persists
    BY <1>2, <1>3, <1>6, <1>7, FlagsElsewhere
  <2>2. ASSUME Persists
        PROVE  p'.known \subseteq disk'[p'.run].made
    <3>1. p'.known = p.known
          /\ disk' = [disk EXCEPT ![p.run] = [there |-> TRUE, made |-> p.known]]
      BY <2>2 DEF Persists, SameLedger, WriteRecord
    <3>2. p.run \in 1..MaxRun /\ disk \in [1..MaxRun -> RunRecord]
      <4>1. cmd \in {"apply", "chaos"}
        BY <1>1, <1>3, <1>7, Whereabouts DEF StepsOf, CommandScripts
      <4>2. p.run # 0
        BY <1>7, <4>1 DEF CInv, Numbering, Numbered, Startup
      <4> QED BY <1>1, <4>2, PlanIsResource DEF TypeOK
    <3> QED BY <1>5, <3>1, <3>2
  <2> QED BY <2>1, <2>2
<1>8. CASE Here \in {"finish", "teardown"}
  <2>1. p'.known = p.known /\ disk' = disk /\ p'.wrote = p.wrote
    BY <1>2, <1>3, <1>8, StepsElsewhere, FlagsElsewhere DEF Creating
  <2> QED BY <1>1, <1>5, <1>8, <2>1 DEF Recorded
<1> QED BY <1>6, <1>7, <1>8

(***************************************************************************)
(* A cleanup works from the record it was given.                           *)
(***************************************************************************)
LEMMA LoadedKept ==
  ASSUME CInv, Kind
  PROVE  Loaded'
<1>1. TypeOK /\ Loaded
  BY DEF CInv
<1> SUFFICES ASSUME cmd' = "cleanup", Here' \notin {"flags", "load"}
             PROVE  p'.known = IF p'.byRecord THEN disk'[p'.run].made ELSE {}
  BY DEF Loaded
<1>2. cmd # "none"
  <2>1. ASSUME cmd = "none" PROVE FALSE
    <3>1. Begins
      BY <2>1, ArrivesOnly DEF Exits
    <3>2. Here' \in First(cmd')
      BY <3>1 DEF Begins
    <3> QED BY <3>2 DEF First
  <2> QED BY <2>1
<1>3. ~Numbers /\ ~Loops
  BY NumberingStep, LoopStep
<1>4. /\ cmd = "cleanup" /\ p'.run = p.run /\ p'.byRecord = p.byRecord /\ Walks
  BY <1>1, <1>2, <1>3, Walking
<1>5. Here \in StepsOf("cleanup") /\ "cleanup" \in DOMAIN CommandScripts
  BY <1>1, <1>4, Whereabouts DEF CommandScripts
<1>6. Here # "flags"
  BY <1>4, <1>5, FlowFacts DEF Walks, GoesOn
<1>7. CASE Here # "load"
  <2>1. p'.known = p.known /\ disk' = disk
    BY <1>2, <1>5, <1>7, StepsElsewhere DEF Creating, StepsOf
  <2> QED BY <1>1, <1>4, <1>6, <1>7, <2>1 DEF Loaded
<1>8. CASE Here = "load"
  <2>1. Here' # Here
    BY <1>8
  <2>2. Loads
    <3>1. p.landed = {}
      BY <1>8 DEF CInv, Quiet, Creating
    <3>2. ASSUME \/ Stays \/ Proceeds \/ Errs \/ AppliedAll \/ Jumped \/ Settles
                 \/ Persists \/ Aims \/ Skips \/ Leaves \/ WrapsUp \/ Begins
                 \/ Exits
          PROVE  FALSE
      BY <1>2, <1>8, <2>1, <3>2
         DEF Stays, Proceeds, Errs, AppliedAll, Jumped, Settles, Persists, Aims,
             Skips, Leaves, WrapsUp, Begins, Exits, Checks, InPlace
    <3>3. ASSUME NEW x, \/ Asks(x) \/ Learns(x) \/ Misses(x) \/ GivesUp(x)
                        \/ Removes(x) \/ Drops(x) \/ Clears(x)
          PROVE  FALSE
      BY <2>1, <3>3 DEF Asks, Learns, Misses, GivesUp, Removes, Drops, Clears,
                        InPlace
    <3>4. ASSUME NEW x, Arrives(x)
          PROVE  FALSE
      BY <2>1, <3>4, SameService DEF Arrives, Here
    <3>5. ASSUME NEW l, Snaps(l) \/ Merges(l) \/ Writes(l) \/ Returns(l)
          PROVE  FALSE
      BY <1>8, <3>5 DEF Snaps, Merges, Writes, Returns, Checks
    <3> QED BY <1>3, <3>2, <3>3, <3>4, <3>5 DEF Kind
  <2> QED BY <1>4, <2>2 DEF Loads, SameRun, InCommand
<1> QED BY <1>7, <1>8

(***************************************************************************)
(* An apply loses nothing before its teardown.                             *)
(***************************************************************************)
LEMMA ApplyLedger ==
  ASSUME CInv, Kind, cmd = "apply", cmd' = "apply", Here # "teardown"
  PROVE  \/ /\ p'.known \cup p'.landed \subseteq p.known \cup p.landed
            /\ (p'.known \cup p'.landed) \cap cloud \subseteq cloud'
         \/ \E x : /\ p'.known \cup p'.landed \subseteq p.known \cup p.landed \cup {x}
                   /\ cloud' = cloud \cup {x}
<1>1. TypeOK
  BY DEF CInv
<1>2. Here \in StepsOf("apply")
  BY <1>1, Whereabouts
<1>3. ~Begins /\ ~Exits /\ ~Loads /\ ~Loops /\ ~Settles
  BY <1>2 DEF Begins, Exits, Loads, Loops, Settles, Checks, StepsOf
<1>4. ASSUME NEW l, Snaps(l) \/ Merges(l) \/ Writes(l) \/ Returns(l)
      PROVE  FALSE
  BY <1>2, <1>4 DEF Snaps, Merges, Writes, Returns, Checks, StepsOf
<1>5. ASSUME NEW x, Removes(x) \/ Drops(x) \/ Clears(x)
      PROVE  FALSE
  <2>1. ~Sweeping
    BY <1>2, HereIs, HereIn DEF Sweeping, StepsOf
  <2> QED BY <1>2, <1>5, <2>1 DEF Removes, Drops, Clears, StepsOf
<1>6. ASSUME NEW x, Asks(x)
      PROVE  /\ p'.known \cup p'.landed \subseteq p.known \cup p.landed \cup {x}
             /\ cloud' = cloud \cup {x}
  BY <1>6 DEF Asks
<1>7. ASSUME NEW x, Learns(x) \/ GivesUp(x) \/ Arrives(x)
      PROVE  p'.known \cup p'.landed \subseteq p.known \cup p.landed
             /\ cloud \subseteq cloud'
  BY <1>7 DEF Learns, GivesUp, Arrives, SameWorld
<1>9. ASSUME NEW x, Misses(x)
      PROVE  /\ p'.known \cup p'.landed \subseteq p.known \cup p.landed
             /\ (p'.known \cup p'.landed) \cap cloud \subseteq cloud'
  <2>1. /\ p'.known = p.known /\ p'.landed = p.landed \ {x} /\ x \in p.landed
        /\ cloud \ {x} \subseteq cloud' /\ Here \in Creating
    BY <1>9 DEF Misses
  <2>2. x \notin p.known
    BY <1>1, <2>1, CreatingRuns DEF CInv, Ledger
  <2> QED BY <2>1, <2>2
<1>8. ASSUME \/ Stays \/ Proceeds \/ Errs \/ AppliedAll \/ Jumped \/ Numbers
             \/ Persists \/ Aims \/ Skips \/ Leaves \/ WrapsUp
      PROVE  p'.known \cup p'.landed \subseteq p.known \cup p.landed
             /\ cloud \subseteq cloud'
  BY <1>8 DEF Stays, Proceeds, Errs, AppliedAll, Jumped, Numbers, Persists, Aims,
              Skips, Leaves, WrapsUp, Quietly, SameLedger, SameWorld
<1> QED BY <1>3, <1>4, <1>5, <1>6, <1>7, <1>8, <1>9 DEF Kind

LEMMA KnownAtRecord ==
  ASSUME CInv, Kind, cmd # "none", cmd' # "none", Here = "record"
  PROVE  p'.known = p.known
<1>1. p.landed = {}
  BY DEF CInv, Quiet, Creating
<1>2. ~Begins /\ ~Exits /\ ~Loads /\ ~Loops /\ ~Settles
  BY DEF Begins, Exits, Loads, Loops, Settles, Checks
<1>3. ASSUME NEW l, Snaps(l) \/ Merges(l) \/ Writes(l) \/ Returns(l)
      PROVE  FALSE
  BY <1>3 DEF Snaps, Merges, Writes, Returns, Checks
<1>4. ASSUME NEW x, \/ Asks(x) \/ Learns(x) \/ Misses(x) \/ GivesUp(x)
                    \/ Removes(x) \/ Drops(x) \/ Clears(x) \/ Arrives(x)
      PROVE  p'.known = p.known
  BY <1>1, <1>4 DEF Asks, Learns, Misses, GivesUp, Removes, Drops, Clears,
                    Arrives, SameLedger
<1>5. ASSUME \/ Stays \/ Proceeds \/ Errs \/ AppliedAll \/ Jumped \/ Numbers
             \/ Persists \/ Aims \/ Skips \/ Leaves \/ WrapsUp
      PROVE  p'.known = p.known
  BY <1>5 DEF Stays, Proceeds, Errs, AppliedAll, Jumped, Numbers, Persists, Aims,
              Skips, Leaves, WrapsUp, Quietly, SameLedger
<1> QED BY <1>2, <1>3, <1>4, <1>5 DEF Kind

LEMMA AppliedKept ==
  ASSUME CInv, Kind
  PROVE  Applied'
<1>1. TypeOK /\ Numbering /\ Applied
  BY DEF CInv
<1> SUFFICES ASSUME cmd' = "apply"
             PROVE  /\ Here' # "teardown" =>
                         p'.known \cup p'.landed \subseteq cloud'
                    /\ Here' \in {"output", "decide", "record", "finish"} /\ ~p'.err =>
                         Plan(p.run)' \subseteq p'.known
                    /\ Here' = "teardown" => p'.abort
  BY DEF Applied, Plan, Lanes, LaneSeq
<1>2. svc' = svc /\ Lanes' = Lanes
  BY <1>1, RunsGrow, SameService
<1>3. CASE cmd = "none"
  <2>1. Begins
    BY <1>3, ArrivesOnly DEF Exits
  <2>2. Here' = "plan"
    BY <2>1, FirstStep
  <2> QED BY <2>1, <2>2 DEF Begins
<1>4. CASE Numbers
  <2>1. /\ p.known = {} /\ p.landed = {} /\ cmd = "apply"
        /\ p'.known = p.known /\ p'.landed = p.landed
    BY <1>4, NumberingStep DEF Numbers, SameLedger
  <2>2. GoesOn /\ Here \in {"runID", "iterID"}
    BY <1>4 DEF Numbers
  <2>3. Here' \notin {"output", "decide", "record", "finish", "teardown"}
    BY <2>1, <2>2, FlowFacts DEF GoesOn, CommandScripts
  <2> QED BY <2>1, <2>3
<1>5. CASE cmd # "none" /\ ~Numbers
  <2>1. cmd = "apply" /\ p'.run = p.run /\ Walks /\ "apply" \in DOMAIN CommandScripts
        /\ Here \in StepsOf("apply")
    <3>1. ~Loops
      BY LoopStep
    <3>2. cmd = "apply" /\ p'.run = p.run /\ Walks
      BY <1>1, <1>5, <3>1, Walking
    <3> QED BY <1>1, <3>2, Whereabouts
  <2>2. Plan(p.run)' = Plan(p.run)
    BY <1>2, <2>1 DEF Plan
  <2>3. \/ Here' = Here
        \/ <<Here, Here'>> \in Flow("apply") /\ Here' # Here
    BY <2>1, FlowFacts DEF Walks, GoesOn, CommandScripts
  <2>4. Here' # "teardown" => Here # "teardown"
    BY <2>3 DEF Flow, ApplyFlow
  <2>5. Here' # "teardown" => p'.known \cup p'.landed \subseteq cloud'
    BY <1>1, <2>1, <2>4, ApplyLedger DEF Applied
  <2>6. ASSUME Here' \in {"output", "decide", "record", "finish"}, ~p'.err
        PROVE  Plan(p.run) \subseteq p'.known
    <3>1. Here \in {"apply", "output", "decide", "record", "finish"}
      BY <2>3, <2>6, FlowFacts DEF CommandScripts
    <3>2. CASE Here = "apply"
      <4>1. Here' # Here
        BY <2>6, <3>2
      <4>2. AppliedAll
        <5>1. ASSUME \/ Stays \/ Proceeds \/ Errs \/ Jumped \/ Settles \/ Loads
                     \/ Loops \/ Persists \/ Aims \/ Skips \/ Leaves \/ Begins
                     \/ Exits
              PROVE  FALSE
          BY <2>1, <3>2, <4>1, <5>1
             DEF Stays, Proceeds, Errs, Jumped, Settles, Loads, Loops, Persists,
                 Aims, Skips, Leaves, Begins, Exits, Checks, InPlace
        <5>2. ASSUME NEW x, \/ Asks(x) \/ Learns(x) \/ Misses(x) \/ GivesUp(x)
                            \/ Removes(x) \/ Drops(x) \/ Clears(x)
              PROVE  FALSE
          BY <4>1, <5>2 DEF Asks, Learns, Misses, GivesUp, Removes, Drops,
                            Clears, InPlace
        <5>3. ASSUME NEW x, Arrives(x)
              PROVE  FALSE
          BY <4>1, <5>3, SameService DEF Arrives, Here
        <5>4. ASSUME NEW l, Snaps(l) \/ Merges(l) \/ Writes(l) \/ Returns(l)
              PROVE  FALSE
          BY <3>2, <5>4 DEF Snaps, Merges, Writes, Returns, Checks
        <5>5. ~WrapsUp
          BY <3>2 DEF WrapsUp
        <5> QED BY <1>5, <5>1, <5>2, <5>3, <5>4, <5>5 DEF Kind
      <4>3. Wanted \subseteq p.known /\ p'.known = p.known
        BY <2>6, <4>2 DEF AppliedAll, Quietly, SameLedger
      <4>4. Wanted = Plan(p.run)
        BY <3>2, HereIs DEF Wanted
      <4> QED BY <4>3, <4>4
    <3>3. CASE Here # "apply"
      <4>1. p'.err = p.err
        BY <2>1, <3>1, <3>3, FlagsElsewhere
      <4>2. Plan(p.run) \subseteq p.known
        BY <1>1, <2>1, <2>6, <3>1, <3>3, <4>1 DEF Applied
      <4>3. p'.known = p.known
        <5>1. CASE Here = "record"
          BY <2>1, <5>1, KnownAtRecord
        <5>2. CASE Here # "record"
          BY <2>1, <3>1, <3>3, <5>2, StepsElsewhere DEF Creating
        <5> QED BY <5>1, <5>2
      <4> QED BY <4>2, <4>3
    <3> QED BY <3>2, <3>3
  <2>7. ASSUME Here' = "teardown"
        PROVE  p'.abort
    <3>1. Here = "finish" \/ Here = "teardown"
      BY <2>3, <2>7, FlowFacts DEF CommandScripts
    <3>2. Here = "finish" /\ Here' # Here => p'.abort
      BY <2>1, FlagsElsewhere
    <3>3. Here = "teardown" => p'.abort = p.abort
      BY <2>1, <2>7, FlagsElsewhere
    <3> QED BY <1>1, <2>1, <2>7, <3>1, <3>2, <3>3 DEF Applied
  <2> QED BY <2>2, <2>5, <2>6, <2>7
<1> QED BY <1>3, <1>4, <1>5


(***************************************************************************)
(* The sweeps lose nothing that they look for.                             *)
(***************************************************************************)
LEMMA SweepsWhere ==
  ASSUME TypeOK, Sweeping
  PROVE  /\ cmd # "none"
         /\ cmd \in {"monitor", "cleanup"} =>
              Here \in Sweeps /\ (Here = "preflight" => Reclaims)
         /\ Here \in {"teardown", "own", "cleanup", "preflight", "provision"}
         /\ Here = "provision" => cmd = "chaos"
<1>1. \/ Here \in {"teardown", "own", "cleanup"}
      \/ Here = "preflight" /\ Reclaims
      \/ Here = "provision"
  BY HereIs, HereIn DEF Sweeping, Reclaims
<1>2. cmd # "none"
  BY <1>1 DEF Here
<1>3. cmd \in DOMAIN CommandScripts /\ Here \in StepsOf(cmd)
  BY <1>2, Whereabouts
<1>4. cmd = "monitor" => Here \in {"own", "preflight"}
  BY <1>1, <1>3 DEF StepsOf
<1>5. cmd = "cleanup" => Here = "cleanup"
  BY <1>1, <1>3 DEF StepsOf
<1>6. Here = "provision" => cmd = "chaos"
  BY <1>3 DEF StepsOf, CommandScripts
<1>7. Here = "preflight" => Reclaims
  BY <1>1
<1> QED BY <1>1, <1>2, <1>4, <1>5, <1>6, <1>7, Zenon DEF Sweeps

\* Nothing sweeps yet.
LEMMA SweepAtRest ==
  ASSUME CInv, cmd \in {"monitor", "cleanup"},
         Here \notin Sweeps \/ (Here = "preflight" /\ ~Reclaims)
  PROVE  p.li = 1 /\ ~p.busy /\ ~p.terr
BY DEF CInv, Sweep

LEMMA AtRest ==
  ASSUME p'.li = 1, ~p'.busy, ~p'.terr
  PROVE  Sweep'
<1>1. 1..(p'.li - 1) = {}
  BY SMT
<1> QED BY <1>1 DEF Sweep

\* A sweep seeks no more than it began with: what is marked meanwhile arrived.
LEMMA SoughtKept ==
  ASSUME MarkStep, Here' = Here, Here \in {"preflight", "cleanup"}, svc' = svc,
         p'.run = p.run, p'.known = p.known,
         NEW x, x \notin arrived', Sought(x)'
  PROVE  Sought(x)
<1>1. x \in marked' => x \in marked
  BY DEF MarkStep, Creating
<1> QED BY <1>1 DEF Sought, Identified

LEMMA WhereaboutsAfter ==
  ASSUME TypeOK', cmd' # "none"
  PROVE  cmd' \in DOMAIN CommandScripts /\ Here' \in StepsOf(cmd')
<1>1. /\ cmd' \in DOMAIN CommandScripts /\ HasPath(Script', cmd')
      /\ p'.pc \in DOMAIN Script' /\ Here' = Script'[p'.pc]
  BY ScriptPaths DEF TypeOK, Script, Here
<1> QED BY <1>1, StepAny, FlowSteps

LEMMA SweepKept ==
  ASSUME CInv, Kind, MarkStep
  PROVE  Sweep'
<1>1. TypeOK /\ Sweep /\ Quiet
  BY DEF CInv
<1>2. svc' = svc /\ LaneSeq' = LaneSeq /\ Lanes' = Lanes
  BY <1>1, RunsGrow, SameService
<1>3. Len(LaneSeq) \in Nat /\ p.li \in Nat \ {0}
  BY <1>1, LaneFacts, TypeParts DEF Memory
<1>4. CASE Begins
  BY <1>4, AtRest DEF Begins
<1>5. CASE Exits
  BY <1>5, AtRest DEF Exits, Fresh
<1>6. ASSUME SameSweep, cmd \in {"monitor", "cleanup"},
             Here \notin Sweeps \/ (Here = "preflight" /\ ~Reclaims)
      PROVE  Sweep'
  BY <1>6, SweepAtRest, AtRest DEF SameSweep
<1>7. ASSUME p'.busy => p'.li <= Len(LaneSeq), cmd' \notin {"monitor", "cleanup"},
             cmd' # "none"
      PROVE  Sweep'
  <2>1. TypeOK'
    BY TypeKept
  <2>2. cmd' \in DOMAIN CommandScripts /\ Here' \in StepsOf(cmd')
    BY <1>7, <2>1, WhereaboutsAfter
  <2>3. Here' \notin {"preflight", "cleanup"}
    BY <1>7, <2>2 DEF StepsOf, CommandScripts
  <2> QED BY <1>2, <1>7, <2>3 DEF Sweep
<1>8. ASSUME SameSweep, cmd' = cmd, cmd # "none",
             \/ Here \notin Sweeps
             \/ Here = "preflight" /\ ~Reclaims
             \/ cmd \notin {"monitor", "cleanup"}
      PROVE  Sweep'
  <2>1. CASE cmd \in {"monitor", "cleanup"}
    BY <1>6, <1>8, <2>1
  <2>2. CASE cmd \notin {"monitor", "cleanup"}
    BY <1>1, <1>7, <1>8, <2>2 DEF Sweep, SameSweep
  <2> QED BY <2>1, <2>2
<1>9. CASE Proceeds \/ AppliedAll \/ Jumped \/ Numbers \/ Loads \/ Loops \/ Settles
           \/ Persists
  <2>1. SameSweep /\ cmd' = cmd /\ cmd # "none"
    BY <1>9 DEF Proceeds, AppliedAll, Jumped, Numbers, Loads, Loops, Settles,
                Persists, Quietly, Checks, SameRun, InCommand
  <2>2. Here \notin Sweeps \/ (Here = "preflight" /\ ~Reclaims)
    BY <1>9 DEF Proceeds, AppliedAll, Jumped, Numbers, Loads, Loops, Settles,
                Persists, Checks, Sweeps
  <2> QED BY <1>8, <2>1, <2>2
<1>10. ASSUME NEW l \in Lanes, Snaps(l) \/ Merges(l) \/ Writes(l) \/ Returns(l)
       PROVE  Sweep'
  <2>1. SameSweep /\ cmd' = cmd /\ cmd # "none" /\ Here = "churn"
    BY <1>10 DEF Snaps, Merges, Writes, Returns, Checks, SameRun, InCommand
  <2> QED BY <1>8, <2>1 DEF Sweeps
<1>11. ASSUME NEW x, \/ Asks(x) \/ Learns(x) \/ Misses(x) \/ GivesUp(x)
                     \/ Removes(x) \/ Drops(x)
       PROVE  Sweep'
  <2>1. SameSweep /\ cmd' = cmd /\ cmd # "none"
    BY <1>11 DEF Asks, Learns, Misses, GivesUp, Removes, Drops, InPlace, SameRun,
                 InCommand
  <2>2. Here \in Creating \/ Here = "churn" \/ p.landed # {}
    BY <1>11 DEF Asks, Learns, Misses, GivesUp, Removes, Drops, Spends
  <2>3. Here \notin Sweeps
    BY <1>1, <2>2 DEF Quiet, Creating, Sweeps
  <2> QED BY <1>8, <2>1, <2>3
<1>12. CASE Skips
  <2>1. cmd # "none" /\ Here = "provision" /\ ~p'.busy /\ cmd' = cmd
    BY <1>12 DEF Skips, InPlace, SameRun, InCommand
  <2>2. cmd = "chaos"
    BY <1>1, <2>1, Whereabouts DEF StepsOf, CommandScripts
  <2> QED BY <1>7, <2>1, <2>2
<1>13. CASE Errs
  <2>1. cmd # "none" /\ Here = "provision" /\ SameSweep /\ cmd' = cmd
    BY <1>13 DEF Errs, Quietly, SameRun, InCommand
  <2> QED BY <1>8, <2>1 DEF Sweeps
<1>14. CASE Stays
  <2>1. /\ SameSweep /\ Here' = Here /\ p'.run = p.run /\ p'.known = p.known
        /\ cloud' = cloud /\ arrived' = arrived /\ cmd' = cmd /\ opt' = opt
    BY <1>14 DEF Stays, Quietly, SameRun, InCommand, SameWorld, SameLedger
  <2>2. Here \in {"preflight", "cleanup"} =>
          \A x : x \notin arrived' /\ Sought(x)' => Sought(x)
    BY <1>2, <2>1, SoughtKept
  <2> QED BY <1>1, <1>2, <2>1, <2>2 DEF Sweep, SameSweep, Reclaims, Lane
<1>15. ASSUME NEW x, Arrives(x)
       PROVE  Sweep'
  <2>1. /\ p' = p /\ cmd' = cmd /\ opt' = opt
        /\ cloud' \ arrived' \subseteq cloud \ arrived
    BY <1>15 DEF Arrives
  <2>2. Here' = Here
    BY <1>2, <2>1, SameService DEF Here
  <2>3. Here \in {"preflight", "cleanup"} =>
          \A y : y \notin arrived' /\ Sought(y)' => Sought(y)
    BY <1>2, <2>1, <2>2, SoughtKept
  <2>4. SameSweep
    BY <2>1 DEF SameSweep
  <2> QED BY <1>1, <1>2, <2>1, <2>2, <2>3, <2>4 DEF Sweep, SameSweep, Reclaims, Lane
<1>16. ASSUME NEW x, Clears(x)
       PROVE  Sweep'
  <2>1. /\ Here' = Here /\ p'.run = p.run /\ p'.known = p.known
        /\ cloud' = cloud \ {x} /\ arrived' = arrived /\ cmd' = cmd /\ opt' = opt
        /\ p'.li = p.li /\ p'.busy /\ p'.terr = p.terr
        /\ p'.targets = p.targets \ {x} /\ Sweeping /\ p.busy
    BY <1>16 DEF Clears, InPlace, SameRun, InCommand, SameLedger
  <2>2. Here \in {"preflight", "cleanup"} =>
          \A y : y \notin arrived' /\ Sought(y)' => Sought(y)
    BY <1>2, <2>1, SoughtKept
  <2>3. cmd \in {"monitor", "cleanup"} =>
          Here \in Sweeps /\ (Here = "preflight" => Reclaims)
    <3>1. Sweeping
      BY <2>1
    <3> QED BY <1>1, <3>1, SweepsWhere, Zenon
  <2> QED BY <1>1, <1>2, <2>1, <2>2, <2>3 DEF Sweep, Reclaims, Lane
<1>17. CASE Aims
  <2>1. /\ Here' = Here /\ p'.run = p.run /\ p'.known = p.known
        /\ cloud' = cloud /\ arrived' = arrived /\ cmd' = cmd /\ opt' = opt
        /\ p'.li = p.li /\ p'.busy /\ p'.terr = p.terr /\ p.li <= Len(LaneSeq)
        /\ p'.targets = Found /\ Sweeping
    BY <1>17 DEF Aims, InPlace, SameRun, InCommand, SameLedger, SameWorld
  <2>2. Here \in {"preflight", "cleanup"} =>
          \A y : y \notin arrived' /\ Sought(y)' => Sought(y)
    BY <1>2, <2>1, SoughtKept
  <2>3. cmd \in {"monitor", "cleanup"} =>
          Here \in Sweeps /\ (Here = "preflight" => Reclaims)
    <3>1. Sweeping
      BY <2>1
    <3> QED BY <1>1, <3>1, SweepsWhere, Zenon
  <2>4. ASSUME NEW x \in cloud, Sought(x), x.lane = Lane
        PROVE  x \in Found
    BY <2>4, HereIs DEF Found, Sought, Identified, resourcesOfLane
  <2> QED BY <1>1, <1>2, <2>1, <2>2, <2>3, <2>4 DEF Sweep, Reclaims, Lane
<1>18. CASE Leaves
  <2>1. /\ Here' = Here /\ p'.run = p.run /\ p'.known = p.known
        /\ cloud' = cloud /\ arrived' = arrived /\ cmd' = cmd /\ opt' = opt
        /\ p'.li = p.li + 1 /\ ~p'.busy
        /\ p'.terr \/ (~p.terr /\ p.targets = {})
        /\ Sweeping /\ p.busy
    BY <1>18 DEF Leaves, InPlace, SameRun, InCommand, SameLedger, SameWorld
  <2>2. Here \in {"preflight", "cleanup"} =>
          \A y : y \notin arrived' /\ Sought(y)' => Sought(y)
    BY <1>2, <2>1, SoughtKept
  <2>3. cmd \in {"monitor", "cleanup"} =>
          Here \in Sweeps /\ (Here = "preflight" => Reclaims)
    <3>1. Sweeping
      BY <2>1
    <3> QED BY <1>1, <3>1, SweepsWhere, Zenon
  <2>4. ASSUME Here \in {"preflight", "cleanup"}, NEW x \in cloud \ arrived,
               Sought(x), ~p'.terr
        PROVE  \A k \in 1..(p'.li - 1) : LaneSeq[k] # x.lane
    <3>1. ~p.terr /\ p.targets = {} /\ p.busy
      BY <2>1, <2>4
    <3>2. /\ \A k \in 1..(p.li - 1) : LaneSeq[k] # x.lane
          /\ x.lane # Lane
      BY <1>1, <2>4, <3>1 DEF Sweep
    <3>3. \A k \in 1..(p'.li - 1) : k \in 1..(p.li - 1) \/ k = p.li
      BY <1>3, <2>1
    <3> QED BY <3>2, <3>3 DEF Lane
  <2> QED BY <1>2, <2>1, <2>2, <2>3, <2>4 DEF Sweep, Reclaims, Lane
<1>19. CASE WrapsUp
  <2>1. p'.li = 1 /\ p'.busy = p.busy /\ ~p'.terr /\ p.li > Len(LaneSeq)
    BY <1>19 DEF WrapsUp
  <2>2. ~p.busy
    BY <1>1, <1>3, <2>1 DEF Sweep
  <2> QED BY <2>1, <2>2, AtRest
<1> QED BY <1>4, <1>5, <1>9, <1>10, <1>11, <1>12, <1>13, <1>14, <1>15, <1>16,
           <1>17, <1>18, <1>19 DEF Kind

(***************************************************************************)
(* A sweep that is through without an error left nothing that it seeks.    *)
(***************************************************************************)
LEMMA SweptClean ==
  ASSUME CInv, Here \in {"preflight", "cleanup"}, p.li > Len(LaneSeq), ~p.terr,
         NEW x \in cloud \ arrived
  PROVE  ~Sought(x)
<1>1. TypeOK /\ Sweep
  BY DEF CInv
<1>2. x.lane \in Lanes /\ p.li \in Nat /\ Len(LaneSeq) \in Nat
  BY <1>1, TypeParts, ResourceFacts, LaneFacts DEF Memory
<1>3. PICK k \in 1..Len(LaneSeq) : LaneSeq[k] = x.lane
  BY <1>1, <1>2, LaneFacts
<1>4. k \in 1..(p.li - 1)
  BY <1>2, <1>3
<1> QED BY <1>1, <1>3, <1>4 DEF Sweep

(***************************************************************************)
(* An iteration applies to an empty project.                               *)
(***************************************************************************)
LEMMA EmptiedKept ==
  ASSUME CInv, Kind, MarkStep
  PROVE  Emptied'
<1>1. TypeOK /\ Emptied
  BY DEF CInv
<1> SUFFICES ASSUME cmd' = "monitor", Here' \in {"iterQuota", "apply"}, Reclaims',
                    NEW x \in cloud' \ arrived'
             PROVE  \/ x.run = p'.run \/ x \notin marked'
                    \/ x.kind \notin OrphanKinds[svc']
  BY DEF Emptied
<1>2. svc' = svc
  BY <1>1, RunsGrow
<1>3. cmd # "none"
  <2>1. ASSUME cmd = "none" PROVE FALSE
    <3>1. Begins
      BY <2>1, ArrivesOnly DEF Exits
    <3> QED BY <3>1, FirstStep
  <2> QED BY <2>1
<1>4. ~Loops
  BY LoopStep
<1>5. ~Numbers
  <2>1. ASSUME Numbers PROVE FALSE
    <3>1. cmd = "monitor" /\ <<Here, Here'>> \in MonitorFlow /\ Here = "iterID"
      BY <2>1, NumberingStep DEF Numbers, GoesOn, Flow
    <3> QED BY <3>1 DEF MonitorFlow
  <2> QED BY <2>1
<1>6. /\ cmd = "monitor" /\ p'.run = p.run /\ opt' = opt /\ Walks
      /\ Reclaims
  <2>1. /\ cmd = "monitor" /\ p'.run = p.run /\ opt' = opt /\ Walks
    BY <1>1, <1>3, <1>4, <1>5, Walking
  <2> QED BY <1>2, <2>1 DEF Reclaims
<1>7. \/ Here' = Here
      \/ Here = "iterQuota" /\ Here' = "apply"
      \/ Here = "preflight" /\ Here' # Here
  BY <1>6 DEF Walks, GoesOn, Leaps, Flow, MonitorFlow
<1>8. ASSUME Here \in {"iterQuota", "apply"}
      PROVE  x.run = p.run \/ x \notin marked' \/ x.kind \notin OrphanKinds[svc]
  <2>1. x \in cloud \ arrived \/ x.run = p.run
    <3>1. ASSUME NEW y, Asks(y) \/ GivesUp(y)
          PROVE  /\ cloud' \subseteq cloud \cup {y} /\ arrived' = arrived
                 /\ y.run = p.run
      BY <3>1, PlanFacts DEF Asks, GivesUp, Spends
    <3>2. ASSUME NEW y, \/ Learns(y) \/ Misses(y) \/ Removes(y) \/ Drops(y)
                        \/ Clears(y) \/ Arrives(y)
          PROVE  cloud' \ arrived' \subseteq cloud \ arrived
      BY <3>2 DEF Learns, Misses, Removes, Drops, Clears, Arrives, SameWorld
    <3>3. ASSUME NEW l, Snaps(l) \/ Merges(l) \/ Writes(l) \/ Returns(l)
          PROVE  FALSE
      BY <1>8, <3>3 DEF Snaps, Merges, Writes, Returns, Checks
    <3>4. ~Begins /\ ~Exits
      BY <1>3 DEF Begins, Exits
    <3>5. ASSUME \/ Stays \/ Proceeds \/ Errs \/ AppliedAll \/ Jumped \/ Loads
                 \/ Settles \/ Persists \/ Aims \/ Skips \/ Leaves \/ WrapsUp
          PROVE  cloud' = cloud /\ arrived' = arrived
      BY <3>5 DEF Stays, Proceeds, Errs, AppliedAll, Jumped, Loads, Settles,
                  Persists, Aims, Skips, Leaves, WrapsUp, Quietly, Checks,
                  SameWorld
    <3> QED BY <1>4, <1>5, <3>1, <3>2, <3>3, <3>4, <3>5 DEF Kind
  <2>2. x \in marked' => x \in marked \/ x.run = p.run
    BY DEF MarkStep
  <2> QED BY <1>1, <1>6, <1>8, <2>1, <2>2 DEF Emptied
<1>9. CASE Here = "preflight" /\ Here' # Here
  <2>1. WrapsUp
    <3>1. ASSUME \/ Stays \/ Proceeds \/ Errs \/ AppliedAll \/ Jumped \/ Loads
                 \/ Settles \/ Persists \/ Aims \/ Skips \/ Leaves \/ Begins
                 \/ Exits
          PROVE  FALSE
      BY <1>3, <1>6, <1>9, <3>1
         DEF Stays, Proceeds, Errs, AppliedAll, Jumped, Loads, Settles, Persists,
             Aims, Skips, Leaves, Begins, Exits, Checks, InPlace
    <3>2. ASSUME NEW y, \/ Asks(y) \/ Learns(y) \/ Misses(y) \/ GivesUp(y)
                        \/ Removes(y) \/ Drops(y) \/ Clears(y)
          PROVE  FALSE
      BY <1>9, <3>2 DEF Asks, Learns, Misses, GivesUp, Removes, Drops, Clears,
                        InPlace
    <3>3. ASSUME NEW y, Arrives(y)
          PROVE  FALSE
      BY <1>9, <3>3, SameService DEF Arrives, Here
    <3>4. ASSUME NEW l, Snaps(l) \/ Merges(l) \/ Writes(l) \/ Returns(l)
          PROVE  FALSE
      BY <1>9, <3>4 DEF Snaps, Merges, Writes, Returns, Checks
    <3> QED BY <1>4, <1>5, <3>1, <3>2, <3>3, <3>4 DEF Kind
  <2>2. /\ ~p.terr /\ p.li > Len(LaneSeq) /\ cloud' = cloud
        /\ arrived' = arrived
    BY <1>9, <2>1 DEF WrapsUp, SameWorld
  <2>3. ~Sought(x)
    BY <1>9, <2>2, SweptClean
  <2>4. x \in marked' => x \in marked
    BY <1>9 DEF MarkStep, Creating
  <2> QED BY <1>2, <1>9, <2>3, <2>4 DEF Sought
<1> QED BY <1>2, <1>6, <1>7, <1>8, <1>9

-----------------------------------------------------------------------------
(***************************************************************************)
(* The invariant.                                                          *)
(***************************************************************************)
LEMMA FreshFacts ==
  /\ Fresh \in Memory /\ Fresh.run = 0 /\ Fresh.li = 1 /\ ~Fresh.busy
  /\ ~Fresh.terr /\ Fresh.landed = {} /\ Fresh.known = {}
  /\ \A l \in Lanes : /\ Fresh.engine[l] = "running"
                      /\ Fresh.snap[l] = {} /\ Fresh.latest[l] = {}
<1>1. /\ Fresh.engine \in [Lanes -> {"running", "waiting", "writing", "returned"}]
      /\ Fresh.drained \in [Lanes -> BOOLEAN]
      /\ Fresh.snap \in [Lanes -> SUBSET Resource]
      /\ Fresh.latest \in [Lanes -> SUBSET Resource]
      /\ Fresh.copy \in [Lanes -> SUBSET Resource]
  BY DEF Fresh
<1> QED BY <1>1 DEF Fresh, Memory

LEMMA InitSound == Init => CInv
<1> SUFFICES ASSUME Init
             PROVE  CInv
  OBVIOUS
<1>1. /\ svc \in Services /\ cmd = "none" /\ p = Fresh /\ runs = 0
      /\ cloud = {} /\ late = {} /\ disk = [r \in 1..MaxRun |-> NoRecord]
  BY DEF Init
<1>2. MaxRun \in Nat
  BY <1>1, CommandsAssumption DEF MaxRun
<1>3. Here = "none"
  BY <1>1 DEF Here
<1>4. TypeOK
  <2>1. NoRecord \in RunRecord
    BY DEF NoRecord, RunRecord
  <2> QED BY <1>1, <1>2, <2>1, FreshFacts DEF TypeOK
<1>5. Numbering
  <2>1. \A r \in 1..MaxRun : disk[r].made = {}
    BY <1>1 DEF NoRecord
  <2> QED BY <1>1, <2>1 DEF Numbering, Numbered, Unnumbered
<1>6. Quiet
  BY <1>1, FreshFacts DEF Quiet
<1>7. Ledger /\ NoOrders /\ Applied /\ Loaded /\ Emptied
  BY <1>1 DEF Ledger, NoOrders, Applied, Loaded, Emptied, Numbered
<1>8. Merging /\ Recorded
  BY <1>1, <1>3 DEF Merging, Recorded
<1>9. Sweep
  <2>1. p.li = 1 /\ ~p.busy /\ ~p.terr
    BY <1>1, FreshFacts
  <2> QED BY <1>1, <1>3, <2>1 DEF Sweep
<1> QED BY <1>4, <1>5, <1>6, <1>7, <1>8, <1>9 DEF CInv

LEMMA Stuttering ==
  ASSUME CInv, UNCHANGED vars
  PROVE  CInv'
<1>1. /\ svc' = svc /\ cmd' = cmd /\ opt' = opt /\ p' = p /\ claim' = claim
      /\ cloud' = cloud /\ marked' = marked /\ late' = late /\ spent' = spent
      /\ arrived' = arrived /\ disk' = disk /\ runs' = runs
  BY DEF vars, world, bounds
<1>2. /\ Lanes' = Lanes /\ MaxRun' = MaxRun /\ Resource' = Resource
      /\ Memory' = Memory /\ LaneSeq' = LaneSeq /\ Fresh' = Fresh
      /\ Script' = Script
  BY <1>1, SameService
<1>3. Here' = Here
  BY <1>1, <1>2 DEF Here
<1>4. TypeOK'
  BY <1>1, <1>2 DEF CInv, TypeOK, RunRecord
<1>5. (Numbered' <=> Numbered) /\ (Unnumbered' <=> Unnumbered)
  BY <1>1, <1>3 DEF Numbered, Unnumbered
<1>6. Numbering'
  BY <1>1, <1>2, <1>5 DEF CInv, Numbering
<1>7. Quiet'
  BY <1>1, <1>2, <1>3 DEF CInv, Quiet, IsRoot
<1>8. Latest' = Latest /\ Noted' = Noted /\ Roots' = Roots
  BY <1>1, <1>2 DEF Latest, Noted, Roots, IsRoot
<1>9. Ledger' /\ NoOrders'
  BY <1>1, <1>5, <1>8 DEF CInv, Ledger, NoOrders
<1>10. Merging'
  BY <1>1, <1>2, <1>3, <1>8 DEF CInv, Merging, IsRoot
<1>11. Recorded' /\ Loaded'
  BY <1>1, <1>3 DEF CInv, Recorded, Loaded
<1>12. Applied'
  BY <1>1, <1>2, <1>3 DEF CInv, Applied, Plan
<1>13. \A x : Sought(x)' <=> Sought(x)
  BY <1>1, <1>3 DEF Sought, Identified
<1>14. Sweep'
  BY <1>1, <1>2, <1>3, <1>13 DEF CInv, Sweep, Reclaims, Lane
<1>15. Emptied'
  BY <1>1, <1>3 DEF CInv, Emptied, Reclaims
<1> QED BY <1>4, <1>6, <1>7, <1>9, <1>10, <1>11, <1>12, <1>14, <1>15 DEF CInv

LEMMA CommandsInvariant == Spec => []CInv
<1>1. Init => CInv
  BY InitSound
<1>2. CInv /\ [Next]_vars => CInv'
  <2> SUFFICES ASSUME CInv, [Next]_vars
               PROVE  CInv'
    OBVIOUS
  <2>1. CASE Next
    <3>1. Kind /\ MarkStep
      BY <2>1, EveryStep, MarksOfSteps
    <3>2. TypeOK' /\ Numbering' /\ Quiet' /\ Ledger' /\ Merging'
      BY <3>1, TypeKept, NumberingKept, QuietKept, LedgerKept, MergingKept
    <3>3. Recorded' /\ Applied' /\ Sweep' /\ Loaded' /\ Emptied' /\ NoOrders'
      BY <3>1, RecordedKept, AppliedKept, SweepKept, LoadedKept, EmptiedKept,
         NoOrdersKept
    <3> QED BY <3>2, <3>3 DEF CInv
  <2>2. CASE UNCHANGED vars
    BY <2>2, Stuttering
  <2> QED BY <2>1, <2>2
<1> QED BY <1>1, <1>2, PTL DEF Spec

-----------------------------------------------------------------------------
(***************************************************************************)
(* Identities.  Only a create that is in flight, was cut off or failed     *)
(* lacks the identity of its run: everything a result, a checkpoint or a   *)
(* record names has it, but for secrets whose stamp failed, of which an    *)
(* apply without an error has none.                                        *)
(***************************************************************************)
Named == p.known \cup Latest \cup (UNION {p.snap[l] : l \in Lanes})
         \cup (UNION {disk[r].made : r \in 1..MaxRun})
Marking ==
  /\ faults \in Nat
  /\ \A x \in marked : Identified(x)
  /\ \A x \in cloud : InPost(x) => x \in marked
  /\ \A x \in Named : Identified(x) /\ ~Secret(x) => x \in marked
  /\ cmd = "apply" /\ ~p.err => \A x \in p.known : Identified(x) => x \in marked
  /\ faults = 0 => late = {}
  /\ EndsAreTagged

\* Whose step it is that a create leaves flight, or something appears.
News ==
  /\ \A y \in p.landed : \/ y \in p'.landed
                         \/ Learns(y) \/ Misses(y) \/ GivesUp(y) \/ Exits
  /\ \A y \in cloud' : y \in cloud \/ Asks(y) \/ Arrives(y)
  /\ \A y \in late' : y \in late \/ GivesUp(y)
  /\ \A y \in p'.known : y \in p.known \/ Learns(y) \/ Loads

LEMMA NewsOfSteps ==
  ASSUME TypeOK, Kind
  PROVE  News
<1>1. ASSUME p.landed \subseteq p'.landed, cloud' \subseteq cloud, late' = late,
             p'.known \subseteq p.known
      PROVE  News
  BY <1>1 DEF News
<1>2. CASE Begins
  <2>1. p.landed = {}
    BY <1>2 DEF Begins, TypeOK, Fresh
  <2>2. cloud' = cloud /\ late' = late /\ p'.known = {}
    BY <1>2 DEF Begins
  <2> QED BY <1>1, <2>1, <2>2
<1>3. CASE Exits
  <2>1. cloud' = cloud /\ late' = late /\ p'.known = {}
    BY <1>3 DEF Exits, SameWorld, Fresh
  <2> QED BY <1>3, <2>1 DEF News
<1>4. ASSUME \/ Stays \/ Proceeds \/ Errs \/ AppliedAll \/ Jumped \/ Numbers
             \/ Loops \/ Settles \/ Persists \/ Aims \/ Skips \/ Leaves
             \/ WrapsUp
      PROVE  News
  <2>1. /\ p'.landed = p.landed /\ cloud' = cloud /\ late' = late
        /\ p'.known \subseteq p.known
    BY <1>4 DEF Stays, Proceeds, Errs, AppliedAll, Jumped, Numbers, Loops, Settles,
                Persists, Aims, Skips, Leaves, WrapsUp, Quietly, Checks,
                SameLedger, SameWorld
  <2> QED BY <1>1, <2>1
<1>5. CASE Loads
  <2>1. p'.landed = p.landed /\ cloud' = cloud /\ late' = late
    BY <1>5 DEF Loads, SameWorld
  <2> QED BY <1>5, <2>1 DEF News
<1>6. ASSUME NEW l, Snaps(l) \/ Merges(l) \/ Writes(l) \/ Returns(l)
      PROVE  News
  <2>1. /\ p'.landed = p.landed /\ cloud' = cloud /\ late' = late
        /\ p'.known = p.known
    BY <1>6 DEF Snaps, Merges, Writes, Returns, Checks, SameWorld
  <2> QED BY <1>1, <2>1
<1>7. ASSUME NEW x, Removes(x) \/ Drops(x) \/ Clears(x)
      PROVE  News
  <2>1. /\ p'.landed = p.landed /\ cloud' \subseteq cloud /\ late' = late
        /\ p'.known \subseteq p.known
    BY <1>7 DEF Removes, Drops, Clears, SameLedger, SameWorld
  <2> QED BY <1>1, <2>1
<1>8. ASSUME NEW x, Asks(x)
      PROVE  News
  <2>1. /\ p.landed \subseteq p'.landed /\ cloud' = cloud \cup {x}
        /\ late' = late /\ p'.known = p.known
    BY <1>8 DEF Asks
  <2> QED BY <1>8, <2>1 DEF News
<1>9. ASSUME NEW x, Learns(x)
      PROVE  News
  <2>1. /\ p'.landed = p.landed \ {x} /\ cloud' = cloud /\ late' = late
        /\ p'.known = p.known \cup {x}
    BY <1>9 DEF Learns, SameWorld
  <2> QED BY <1>9, <2>1 DEF News
<1>10. ASSUME NEW x, Misses(x)
       PROVE  News
  <2>1. /\ p'.landed = p.landed \ {x} /\ cloud' \subseteq cloud /\ late' = late
        /\ p'.known = p.known
    BY <1>10 DEF Misses
  <2> QED BY <1>10, <2>1 DEF News
<1>11. ASSUME NEW x, GivesUp(x)
       PROVE  News
  <2>1. /\ p'.landed = p.landed \ {x} /\ cloud' = cloud
        /\ late' = late \cup {x} /\ p'.known = p.known
    BY <1>11 DEF GivesUp
  <2> QED BY <1>11, <2>1 DEF News
<1>12. ASSUME NEW x, Arrives(x)
       PROVE  News
  <2>1. /\ p' = p /\ cloud' = cloud \cup {x} /\ late' \subseteq late
    BY <1>12 DEF Arrives
  <2> QED BY <1>12, <2>1 DEF News
<1>13. ASSUME \E x : \/ Asks(x) \/ Learns(x) \/ Misses(x) \/ GivesUp(x)
                     \/ Removes(x) \/ Drops(x) \/ Clears(x) \/ Arrives(x)
       PROVE  News
  BY <1>7, <1>8, <1>9, <1>10, <1>11, <1>12, <1>13
<1> QED BY <1>2, <1>3, <1>4, <1>5, <1>6, <1>13 DEF Kind

\* Results, checkpoints and records name nothing but what was learnt.
LEMMA NamedOfSteps ==
  ASSUME CInv, Kind, NEW y \in Named'
  PROVE  y \in Named \/ Learns(y)
<1>1. TypeOK /\ Numbering /\ Merging
  BY DEF CInv
<1>2. /\ svc' = svc /\ Lanes' = Lanes /\ MaxRun' = MaxRun
      /\ disk \in [1..MaxRun -> RunRecord] /\ p \in Memory
  BY <1>1, RunsGrow, SameService, TypeParts
<1>3. ASSUME y \in p'.known
      PROVE  y \in Named \/ Learns(y)
  <2>1. ASSUME Loads, y \in p'.known
        PROVE  y \in Named
    <3>1. /\ cmd = "cleanup" /\ p'.known \subseteq disk[p.run].made
      BY <1>1, <2>1, Whereabouts DEF Loads, SameRun, InCommand, StepsOf,
                                     CommandScripts
    <3>2. p.run \in 1..MaxRun
      BY <1>1, <3>1, PlanIsResource DEF Numbering
    <3> QED BY <2>1, <3>1, <3>2 DEF Named
  <2> QED BY <1>1, <1>3, <2>1, NewsOfSteps DEF News, Named
<1>4. ASSUME NEW l \in Lanes, y \in p'.snap[l] \cup p'.latest[l]
      PROVE  y \in Named
  <2>1. CASE Begins \/ Exits \/ Settles
    BY <1>4, <2>1 DEF Begins, Exits, Settles, Fresh
  <2>2. ASSUME p'.snap = p.snap, p'.latest = p.latest
        PROVE  y \in Named
    BY <1>4, <2>2 DEF Named, Latest
  <2>3. ASSUME \/ Stays \/ Proceeds \/ Errs \/ AppliedAll \/ Jumped \/ Numbers
               \/ Loads \/ Loops \/ Persists \/ Aims \/ Skips \/ Leaves
               \/ WrapsUp
        PROVE  p'.snap = p.snap /\ p'.latest = p.latest
    BY <2>3 DEF Stays, Proceeds, Errs, AppliedAll, Jumped, Numbers, Loads, Loops,
                Persists, Aims, Skips, Leaves, WrapsUp, Quietly, SameLedger
  <2>4. ASSUME NEW x, \/ Asks(x) \/ Learns(x) \/ Misses(x) \/ GivesUp(x)
                      \/ Removes(x) \/ Drops(x) \/ Clears(x) \/ Arrives(x)
        PROVE  p'.snap = p.snap /\ p'.latest = p.latest
    BY <2>4 DEF Asks, Learns, Misses, GivesUp, Removes, Drops, Clears, Arrives,
                SameChurn, SameLedger
  <2>5. ASSUME NEW k, Writes(k) \/ Returns(k)
        PROVE  p'.snap = p.snap /\ p'.latest = p.latest
    BY <2>5 DEF Writes, Returns
  <2>6. /\ p.snap \in [Lanes -> SUBSET Resource]
        /\ p.latest \in [Lanes -> SUBSET Resource]
    BY <1>2 DEF Memory
  <2>7. ASSUME NEW k, Snaps(k)
        PROVE  y \in Named
    <3>1. /\ p'.snap = [p.snap EXCEPT ![k] = resourcesOfLane(p.known \ Roots, k)]
          /\ p'.latest = p.latest
      BY <2>7 DEF Snaps
    <3>2. y \in p.known \/ y \in p.snap[l] \/ y \in p.latest[l]
      BY <1>4, <2>6, <3>1 DEF resourcesOfLane
    <3> QED BY <3>2 DEF Named, Latest
  <2>8. ASSUME NEW k \in Lanes, Merges(k)
        PROVE  y \in Named
    <3>1. /\ p'.latest = [p.latest EXCEPT ![k] = p.snap[k]]
          /\ p'.snap = p.snap
      BY <2>8 DEF Merges
    <3>2. y \in p.snap[k] \/ y \in p.snap[l] \/ y \in p.latest[l]
      BY <1>4, <2>6, <3>1
    <3> QED BY <3>2 DEF Named, Latest
  <2> QED BY <2>1, <2>2, <2>3, <2>4, <2>5, <2>7, <2>8 DEF Kind
<1>5. ASSUME NEW r \in 1..MaxRun, y \in disk'[r].made
      PROVE  y \in Named
  <2>1. ASSUME disk'[r].made \subseteq disk[r].made \cup p.known \cup Latest
        PROVE  y \in Named
    BY <1>5, <2>1 DEF Named
  <2>2. CASE Exits \/ Persists
    <3>1. disk' = disk \/ WriteRecord
      BY <2>2 DEF Exits, Persists
    <3>2. CASE WriteRecord
      <4>1. disk'[r] = disk[r] \/ disk'[r].made = p.known
        BY <1>2, <3>2 DEF WriteRecord
      <4> QED BY <2>1, <4>1
    <3> QED BY <2>1, <3>1, <3>2
  <2>3. ASSUME NEW l \in Lanes, Writes(l)
        PROVE  y \in Named
    <3>1. /\ Here = "churn" /\ p.engine[l] = "writing"
          /\ \/ disk' = disk
             \/ disk' = [disk EXCEPT ![p.run] = buildMixRecord(p.copy[l])]
      BY <2>3 DEF Writes, Checks
    <3>2. p.copy[l] = Latest
      BY <1>1, <3>1 DEF Merging
    <3>3. disk'[r] = disk[r] \/ disk'[r].made = Roots \cup Latest
      <4>1. ASSUME disk' = [disk EXCEPT ![p.run] = buildMixRecord(p.copy[l])]
            PROVE  disk'[r] = disk[r] \/ disk'[r] = buildMixRecord(Latest)
        BY <1>2, <3>2, <4>1
      <4> QED BY <3>1, <4>1 DEF buildMixRecord
    <3> QED BY <2>1, <3>3 DEF Roots
  <2>4. CASE ~Exits /\ ~Persists /\ \A l \in Lanes : ~Writes(l)
    BY <2>1, <2>4, DiskOfSteps
  <2> QED BY <2>2, <2>3, <2>4
<1> QED BY <1>2, <1>3, <1>4, <1>5 DEF Named, Latest

\* Roots carry their identity in the create request.
LEMMA RootsInPost ==
  ASSUME TypeOK, NEW x \in Resource, IsRoot(x), Identified(x)
  PROVE  InPost(x)
<1>1. x.lane \in DOMAIN Copies
  BY ResourceFacts, LaneFacts
<1>2. ServiceOf[x.lane] \in AllServices \cup {"persona"}
  BY <1>1, LanesAssumption
<1>3. x.kind \in {"domain", "role", "implied_role"}
  BY <1>2 DEF IsRoot, RootKinds
<1>4. x.kind \notin TaggedAfterCreate
  BY <1>3 DEF TaggedAfterCreate
<1> QED BY <1>4 DEF InPost

\* An apply does not forget an error.
LEMMA ErrorsStay ==
  ASSUME TypeOK, Kind, cmd = "apply", ~Begins, ~Exits, p.err
  PROVE  p'.err
<1>1. ASSUME NEW x, \/ Asks(x) \/ Learns(x) \/ Misses(x) \/ GivesUp(x)
                    \/ Removes(x) \/ Drops(x) \/ Clears(x) \/ Arrives(x)
      PROVE  p'.err
  BY <1>1 DEF Asks, Learns, Misses, GivesUp, Removes, Drops, Clears, Arrives
<1>2. ASSUME NEW l, Snaps(l) \/ Merges(l) \/ Writes(l) \/ Returns(l)
      PROVE  p'.err
  BY <1>2 DEF Snaps, Merges, Writes, Returns, Checks, SameFlags
<1>3. ASSUME \/ Stays \/ Proceeds \/ AppliedAll \/ Numbers \/ Loads \/ Settles
             \/ Persists \/ Aims \/ Skips \/ Leaves
      PROVE  p'.err
  BY <1>3 DEF Stays, Proceeds, AppliedAll, Numbers, Loads, Settles, Persists,
              Aims, Skips, Leaves, Checks, SameFlags
<1>4. Here \in StepsOf("apply")
  BY Whereabouts
<1>5. ~Errs /\ ~Jumped /\ ~Loops /\ ~WrapsUp
  BY <1>4 DEF Errs, Jumped, Loops, WrapsUp, StepsOf
<1> QED BY <1>1, <1>2, <1>3, <1>5 DEF Kind

LEMMA MarkingKept ==
  ASSUME CInv, Marking, Next
  PROVE  Marking'
<1>1. /\ Kind /\ MarkStep /\ News /\ (faults' = faults \/ Fault)
      /\ TypeOK /\ Numbering /\ Quiet
  BY EveryStep, MarksOfSteps, NewsOfSteps, FaultsOfSteps DEF CInv
<1>2. faults' \in Nat /\ (Fault => faults' # 0) /\ (faults' = 0 => faults = 0)
  BY <1>1 DEF Marking, Fault
<1>3. \A x \in marked' : Identified(x)
  BY <1>1 DEF Marking, MarkStep
<1>4. \A x \in cloud' : InPost(x) => x \in marked'
  BY <1>1 DEF Marking, MarkStep
<1>5. \A x \in Named' : Identified(x) /\ ~Secret(x) => x \in marked'
  <2>1. \A x \in Named' : x \in Named \/ Learns(x)
    BY <1>1, NamedOfSteps
  <2> QED BY <1>1, <2>1 DEF Marking, MarkStep, Learns
<1>6. ASSUME cmd' = "apply", ~p'.err, NEW x \in p'.known, Identified(x)
      PROVE  x \in marked'
  <2>1. ~Begins /\ ~Exits
    BY <1>6 DEF Begins, Exits
  <2>2. cmd = "apply"
    <3>1. cmd = "none" => cmd' = cmd
      BY <1>1, <2>1, ArrivesOnly
    <3>2. Numbers \/ Loops => cmd' = cmd
      BY DEF Numbers, Loops, SameRun, InCommand
    <3> QED BY <1>1, <1>6, <3>1, <3>2, Walking
  <2>3. Here # "load"
    BY <1>1, <2>2, Whereabouts DEF StepsOf, CommandScripts
  <2>4. x \in p.known \/ Learns(x)
    BY <1>1, <1>6, <2>3 DEF News, Loads
  <2>5. ~p.err
    BY <1>1, <1>6, <2>1, <2>2, ErrorsStay
  <2> QED BY <1>1, <1>6, <2>2, <2>4, <2>5 DEF Marking, MarkStep, Learns
<1>7. faults' = 0 => late' = {}
  BY <1>1, <1>2 DEF Marking, News, GivesUp
<1>8. EndsAreTagged'
  <2> SUFFICES ASSUME cmd' = "chaos", opt'.unbounded, faults' = 0, NEW x \in cloud',
                      x.run = p'.run, Identified(x)
               PROVE  x \in marked' \cup p'.landed
    BY DEF EndsAreTagged, Identified
  <2>1. faults = 0 /\ ~Fault /\ late = {}
    BY <1>1, <1>2 DEF Marking
  <2>2. x \in Resource /\ x.run \in 1..MaxRun
    <3>1. TypeOK' /\ svc' = svc
      BY <1>1, TypeKept, RunsGrow
    <3>2. x \in Resource
      BY <3>1, SameService DEF TypeOK
    <3> QED BY <3>2, ResourceFacts
  <2>3. ~Begins /\ ~Exits
    <3>1. Begins => p'.run = 0
      BY DEF Begins
    <3> QED BY <2>2, <3>1 DEF Exits
  <2>4. cmd = "chaos" /\ opt' = opt
    <3>1. cmd = "none" => cmd' = cmd
      BY <1>1, <2>3, ArrivesOnly
    <3>2. Numbers \/ Loops => cmd' = cmd /\ opt' = opt
      BY DEF Numbers, Loops, SameRun, InCommand
    <3> QED BY <1>1, <3>1, <3>2, Walking
  <2>5. ~Arrives(x)
    BY <2>1 DEF Arrives
  <2>6. x \in cloud \/ x \in p'.landed
    BY <1>1, <2>5 DEF News, Asks
  <2>7. p'.run = p.run \/ (x.run = runs + 1 /\ cloud' = cloud)
    <3>1. Numbers => p'.run = runs + 1 /\ cloud' = cloud
      BY DEF Numbers, SameWorld
    <3>2. ~Loops
      BY <2>4, LoopStep
    <3> QED BY <1>1, <2>4, <3>1, <3>2, Walking
  <2>8. CASE x \in cloud
    <3>1. x.run = p.run
      BY <1>1, <2>2, <2>7, <2>8, TypeParts DEF Numbering
    <3>2. x \in marked \cup p.landed
      BY <2>1, <2>4, <2>8, <3>1 DEF Marking, EndsAreTagged
    <3>3. ASSUME x \in p.landed, Cut
          PROVE  x \in marked
      <4>1. Here \in {"roots", "provision"}
        <5>1. Here # "churn" /\ Here \in Creating \ {"apply"}
          <6>1. Here \in Creating
            BY <1>1, <3>3 DEF Quiet
          <6>2. Here # "apply"
            BY <1>1, <2>4, Whereabouts DEF StepsOf, CommandScripts
          <6>3. Here # "churn"
            BY <2>4, <3>3, <6>2, HereIs DEF Cut
          <6> QED BY <6>1, <6>2, <6>3
        <5> QED BY <5>1 DEF Creating
      <4>2. IsRoot(x)
        BY <1>1, <3>3, <4>1 DEF Quiet
      <4>3. InPost(x)
        BY <1>1, <2>2, <4>2, RootsInPost
      <4> QED BY <2>8, <4>3 DEF Marking
    <3>4. Learns(x) \/ Misses(x) => x \in marked \/ Cut
      BY <2>1 DEF Learns, Misses
    <3>5. ~GivesUp(x)
      BY <2>1 DEF GivesUp
    <3> QED BY <1>1, <2>3, <3>2, <3>3, <3>4, <3>5 DEF News, MarkStep
  <2> QED BY <2>6, <2>8
<1>9. \A x : (Identified(x) <=> Identified(x)')
  BY DEF Identified
<1> QED BY <1>2, <1>3, <1>4, <1>5, <1>6, <1>7, <1>8, <1>9
        DEF Marking, InPost, Secret

LEMMA MarkingInvariant == Spec => []Marking
<1>1. Init => Marking
  <2> SUFFICES ASSUME Init
               PROVE  Marking
    OBVIOUS
  <2>1. /\ svc \in Services /\ cmd = "none" /\ p = Fresh /\ faults = 0
        /\ cloud = {} /\ late = {} /\ marked = {}
        /\ disk = [r \in 1..MaxRun |-> NoRecord]
    BY DEF Init
  <2>2. Named = {}
    BY <2>1, FreshFacts DEF Named, Latest, NoRecord
  <2> QED BY <2>1, <2>2 DEF Marking, EndsAreTagged
<1>2. CInv /\ Marking /\ [Next]_vars => Marking'
  <2> SUFFICES ASSUME CInv, Marking, [Next]_vars
               PROVE  Marking'
    OBVIOUS
  <2>1. CASE UNCHANGED vars
    <3>1. /\ svc' = svc /\ cmd' = cmd /\ opt' = opt /\ p' = p /\ cloud' = cloud
          /\ marked' = marked /\ late' = late /\ disk' = disk /\ faults' = faults
      BY <2>1 DEF vars, world
    <3>2. Named' = Named
      BY <3>1, SameService DEF Named, Latest
    <3> QED BY <3>1, <3>2 DEF Marking, EndsAreTagged, Identified, InPost, Secret
  <2> QED BY <2>1, MarkingKept
<1> QED BY <1>1, <1>2, CommandsInvariant, PTL DEF Spec

(***************************************************************************)
(* The state of the commands is well-typed: a process is at a step of its  *)
(* script and knows, has in flight and records resources of plans only.    *)
(***************************************************************************)
THEOREM CommandsTypeCorrect == Spec => []TypeOK
<1>1. CInv => TypeOK
  BY DEF CInv
<1> QED BY <1>1, CommandsInvariant, PTL

(***************************************************************************)
(* A run is recorded before its own command tears it down: whatever        *)
(* interrupts the teardown, the record names what still exists ("Persist   *)
(* the run record before teardown", chaos.go).                             *)
(***************************************************************************)
THEOREM RecordsPrecedeTeardowns == Spec => []TeardownIsRecorded
<1>1. CInv => TeardownIsRecorded
  <2> SUFFICES ASSUME CInv, At("teardown")
               PROVE  \/ p.wrote = "failed"
                      \/ p.known \cap cloud \subseteq disk[p.run].made
    BY DEF TeardownIsRecorded
  <2>1. Here = "teardown"
    BY HereIs
  <2> QED BY <2>1 DEF CInv, Recorded
<1> QED BY <1>1, CommandsInvariant, PTL

(***************************************************************************)
(* An iteration of monitor applies to a project without leftovers of other *)
(* runs that carry their identity (runIteration sweeps first and goes on   *)
(* only after a sweep without an error).                                   *)
(***************************************************************************)
THEOREM IterationsFindNothing == Spec => []IterationsStartEmpty
<1>1. CInv => IterationsStartEmpty
  <2> SUFFICES ASSUME CInv, At("apply"), cmd = "monitor", Reclaims,
                      NEW x \in cloud
               PROVE  x.run = p.run \/ x \in arrived
                      \/ x \notin marked \/ x.kind \notin OrphanKinds[svc]
    BY DEF IterationsStartEmpty, Reclaims
  <2>1. Here = "apply"
    BY HereIs
  <2> QED BY <2>1 DEF CInv, Emptied
<1> QED BY <1>1, CommandsInvariant, PTL

(***************************************************************************)
(* No version of a run's record forgets a resource that still exists and   *)
(* an earlier version named: the checkpoints of the lanes are merged and   *)
(* written under one mutex, and the final record is what the run knows.    *)
(***************************************************************************)
LEMMA RecordStep ==
  ASSUME CInv, Next, NEW r \in 1..MaxRun
  PROVE  disk[r].made \cap cloud' \subseteq disk'[r].made
<1>1. Kind /\ TypeOK /\ Numbering /\ Ledger /\ Merging
  BY EveryStep DEF CInv
<1>2. CASE r # p.run
  BY <1>1, <1>2, RecordsOfSteps
<1>3. CASE r = p.run
  <2>1. disk \in [1..MaxRun -> RunRecord]
    BY <1>1 DEF TypeOK
  <2>2. ASSUME Here \in {"record", "keepRecord"}, WriteRecord, cloud' = cloud
        PROVE  disk[r].made \cap cloud' \subseteq disk'[r].made
    <3>1. disk'[r].made = p.known
      BY <1>3, <2>1, <2>2 DEF WriteRecord
    <3>2. Numbered
      <4>1. cmd \in DOMAIN CommandScripts /\ Here \in StepsOf(cmd)
        BY <1>1, <2>2, Whereabouts
      <4> QED BY <2>2, <4>1 DEF Numbered, StepsOf, CommandScripts, Startup,
                                Iteration
    <3>3. Noted \cap cloud \subseteq p.known
      BY <1>1, <3>2 DEF Ledger
    <3> QED BY <1>3, <2>2, <3>1, <3>3 DEF Noted
  <2>3. CASE Exits \/ Persists
    <3>1. /\ cloud' = cloud
          /\ \/ disk' = disk
             \/ Here \in {"record", "keepRecord"} /\ WriteRecord
      BY <2>3 DEF Exits, Persists, SameWorld
    <3> QED BY <2>2, <3>1
  <2>4. ASSUME NEW l \in Lanes, Writes(l)
        PROVE  disk[r].made \cap cloud' \subseteq disk'[r].made
    <3>1. /\ Here = "churn" /\ cloud' = cloud /\ p.engine[l] = "writing"
          /\ \/ disk' = disk
             \/ disk' = [disk EXCEPT ![p.run] = buildMixRecord(p.copy[l])]
      BY <2>4 DEF Writes, Checks, SameWorld
    <3>2. /\ p.copy[l] = Latest
          /\ disk[p.run].made \cap cloud \subseteq Roots \cup Latest
      BY <1>1, <3>1 DEF Merging
    <3>3. CASE disk' = [disk EXCEPT ![p.run] = buildMixRecord(p.copy[l])]
      <4>1. disk'[r].made = Roots \cup Latest
        BY <1>3, <2>1, <3>2, <3>3 DEF buildMixRecord
      <4> QED BY <1>3, <3>1, <3>2, <4>1
    <3> QED BY <3>1, <3>3
  <2>5. CASE ~Exits /\ ~Persists /\ \A l \in Lanes : ~Writes(l)
    BY <1>1, <2>5, DiskOfSteps
  <2> QED BY <2>3, <2>4, <2>5
<1> QED BY <1>2, <1>3

THEOREM RecordsNeverForget == Spec => RecordNeverGoesBack
<1>1. CInv /\ [Next]_vars =>
        [\A r \in 1..MaxRun : disk[r].made \cap cloud' \subseteq disk'[r].made]_vars
  BY RecordStep
<1> QED BY <1>1, CommandsInvariant, PTL DEF Spec, RecordNeverGoesBack

-----------------------------------------------------------------------------
(***************************************************************************)
(* The steps that end a command, and those that end it with exit 0.        *)
(***************************************************************************)
LEMMA EndsOk ==
  ASSUME TypeOK, Next, cmd # "none", cmd' = "none", exit' = "ok"
  PROVE  DryRun \/ Finish \/ SweepEnds \/ LeakCheck \/ runMonitorLoop \/ Pace
<1>1. ~(\E c \in DOMAIN CommandScripts : Start(c))
  BY DEF Start
<1>2. ~Signal
  BY DEF Signal, Runs, Ends
<1>3. ~(\/ Prepare \/ Signals \/ newRunID \/ resolveRun \/ ApplyEnds
        \/ ChurnEnds \/ Mismatch \/ Output \/ Decide \/ Record
        \/ BeginLane \/ LaneClean \/ LaneGivesUp \/ PreflightSkipped
        \/ IterationReady \/ writeIterationRecord)
  BY DEF Prepare, Signals, newRunID, resolveRun, ApplyEnds, ChurnEnds, Mismatch,
         Output, Decide, Record, BeginLane, LaneClean, LaneGivesUp, LaneEnds,
         PreflightSkipped, IterationReady, writeIterationRecord, Advance, Runs
<1>4. ~BindRoots
  BY DEF BindRoots, Advance, Runs, Ends
<1>5. ASSUME NEW x
      PROVE  ~(\/ Tag(x) \/ Answer(x) \/ DeleteAnswered(x) \/ DeleteTarget(x)
               \/ Create(x) \/ ChurnDelete(x) \/ CreateFails(x) \/ Rollback(x)
               \/ StampFails(x) \/ LateLands(x))
  BY DEF Tag, Answer, DeleteAnswered, DeleteTarget, Create, ChurnDelete,
         CreateFails, Rollback, StampFails, LateLands, Runs
<1>6. ASSUME NEW l, NEW ok
      PROVE  ~(\/ Snapshot(l) \/ SnapshotBeforeDrain(l) \/ Merge(l)
               \/ WriteCheckpoint(l, ok) \/ EngineReturns(l))
  BY DEF Snapshot, SnapshotBeforeDrain, OnCheckpoint, Merge, WriteCheckpoint,
         EngineReturns, Runs
<1>7. ~(\/ Kill \/ PrepareFails \/ OutputFails \/ ChurnRefused \/ LeakCheckFails)
  BY DEF Kill, PrepareFails, OutputFails, ChurnRefused, LeakCheckFails, Ends
<1>8. ~RecordFails
  BY DEF RecordFails, Ends, Advance, Runs
<1>9. ~(LaneFails \/ IterationFails)
  BY DEF LaneFails, LaneEnds, IterationFails, Advance, Runs
<1>10. ASSUME NEW c
       PROVE  ~Hang(c)
  BY DEF Hang, Runs
<1> QED BY <1>1, <1>2, <1>3, <1>4, <1>5, <1>6, <1>7, <1>8, <1>9, <1>10
        DEF Next, Work, Choices, Faults

(***************************************************************************)
(* Exit 0 is earned: an apply created, marked and recorded its whole plan, *)
(* a chaos kept its resources on request or printed a verdict on them.     *)
(***************************************************************************)
ZeroIsEarned ==
  /\ cmd = "apply" => /\ Plan(p.run) \subseteq cloud'
                      /\ Plan(p.run) \subseteq disk'[p.run].made
                      /\ \A x \in Plan(p.run) : Identified(x) => x \in marked
  /\ cmd = "chaos" => opt.keep \/ claim' # "none"

LEMMA EarnedStep ==
  ASSUME CInv, Marking, Next, cmd' = "none", exit' = "ok", p.run # 0
  PROVE  ZeroIsEarned
<1>1. TypeOK /\ Numbering /\ Applied /\ Recorded
  BY DEF CInv
<1>2. cmd # "none"
  BY <1>1 DEF TypeOK, Fresh
<1>3. cmd \in DOMAIN CommandScripts /\ Here \in StepsOf(cmd)
  BY <1>1, <1>2, Whereabouts
<1>4. CASE DryRun
  <2>1. Here = "dryRun"
    BY <1>4, HereIs DEF DryRun
  <2>2. cmd = "apply"
    BY <1>3, <2>1 DEF StepsOf, CommandScripts
  <2> QED BY <1>1, <2>1, <2>2 DEF Numbering, Unnumbered, Startup
<1>5. CASE Finish
  <2>1. /\ Here = "finish" /\ cloud' = cloud /\ disk' = disk
        /\ opt.keep \/ (cmd = "apply" /\ ~p.abort) \/ cmd' = cmd
    BY <1>5, HereIs DEF Finish, world, Advance, Runs
  <2>2. ASSUME cmd = "apply"
        PROVE  /\ Plan(p.run) \subseteq cloud
               /\ Plan(p.run) \subseteq disk[p.run].made
               /\ \A x \in Plan(p.run) : Identified(x) => x \in marked
    <3>1. Outcome = "ok"
      BY <1>2, <1>5 DEF Finish, Ends, Advance, Runs
    <3>2. ~p.err /\ p.wrote = "yes"
      BY <2>2, <3>1 DEF Outcome
    <3>3. Plan(p.run) \subseteq p.known /\ p.known \subseteq cloud
      BY <1>1, <2>1, <2>2, <3>2 DEF Applied
    <3>4. p.known \subseteq disk[p.run].made
      BY <1>1, <2>1, <3>2 DEF Recorded
    <3>5. \A x \in p.known : Identified(x) => x \in marked
      BY <2>2, <3>2 DEF Marking
    <3> QED BY <3>3, <3>4, <3>5
  <2>3. cmd = "chaos" => opt.keep
    BY <1>2, <2>1
  <2> QED BY <2>1, <2>2, <2>3 DEF ZeroIsEarned
<1>6. CASE SweepEnds
  <2>1. ASSUME cmd = "apply" PROVE FALSE
    <3>1. Here = "teardown" /\ Outcome = "ok"
      BY <1>2, <1>3, <1>6, <2>1, HereIs
         DEF SweepEnds, StepsOf, Ends, Advance, Runs, preflightOutcome
    <3>2. p.abort
      BY <1>1, <2>1, <3>1 DEF Applied
    <3> QED BY <2>1, <3>1, <3>2 DEF Outcome
  <2>2. ASSUME cmd = "chaos" PROVE FALSE
    BY <1>2, <1>3, <1>6, <2>2, HereIs
       DEF SweepEnds, StepsOf, Ends, Advance, Runs, preflightOutcome
  <2> QED BY <2>1, <2>2 DEF ZeroIsEarned
<1>7. CASE LeakCheck
  <2>1. Here = "leakCheck" /\ claim' # "none"
    BY <1>7, HereIs DEF LeakCheck
  <2>2. cmd = "chaos"
    BY <1>3, <2>1 DEF StepsOf, CommandScripts
  <2> QED BY <2>1, <2>2 DEF ZeroIsEarned
<1>8. CASE runMonitorLoop \/ Pace
  <2>1. Here \in {"loop", "pace"}
    BY <1>8, HereIs DEF runMonitorLoop, Pace
  <2>2. cmd = "monitor"
    BY <1>3, <2>1 DEF StepsOf, CommandScripts
  <2> QED BY <2>2 DEF ZeroIsEarned
<1> QED BY <1>1, <1>2, <1>4, <1>5, <1>6, <1>7, <1>8, EndsOk

THEOREM ZeroMeansDone == Spec => ExitZeroIsEarned
<1>1. CInv /\ Marking /\ [Next]_vars =>
        [cmd' = "none" /\ exit' = "ok" /\ p.run # 0 => ZeroIsEarned]_vars
  BY EarnedStep
<1> QED BY <1>1, CommandsInvariant, MarkingInvariant, PTL DEF Spec, ExitZeroIsEarned, ZeroIsEarned

(***************************************************************************)
(* A cleanup that exits 0 reclaimed the run, whatever ended the commands   *)
(* before: what remains arrived after it began, or was never marked, and   *)
(* then no record names it, or only one that this cleanup was not given    *)
(* (a kind without a tag, or a secret whose stamp failed).                 *)
(***************************************************************************)
Reclaimed ==
  \A x \in cloud' :
    x.run = p.run =>
      \/ x \in arrived
      \/ /\ x \notin marked
         /\ x \in disk[p.run].made =>
              ~p.byRecord /\ (Secret(x) \/ ~Identified(x))

\* A record finds a secret that could not be stamped.
LEMMA SecretsRecorded ==
  \A s \in AllServices \cup {"persona"} :
    "secret" \in LaneIdentity[s] => "secret" \in LaneRecorded[s]
<1>1. ASSUME NEW s \in AllServices \ {"neutron", "keystone"}
      PROVE  LaneIdentity[s] = LaneRecorded[s]
  BY DEF LaneIdentity, LaneRecorded, RecordKinds, IdentityKinds, AllServices
<1>2. LaneIdentity["persona"] = LaneRecorded["persona"]
  BY DEF LaneIdentity, LaneRecorded
<1>3. "secret" \notin LaneIdentity["neutron"] \cup LaneIdentity["keystone"]
  BY DEF LaneIdentity, IdentityKinds, NeutronListByTag, KeystoneListings
<1> QED BY <1>1, <1>2, <1>3 DEF AllServices

LEMMA ReclaimStep ==
  ASSUME CInv, Marking, Next, cmd = "cleanup", exit' = "ok", cmd' = "none"
  PROVE  Reclaimed
<1>1. TypeOK /\ Loaded /\ Here \in StepsOf("cleanup")
  BY Whereabouts DEF CInv
<1>2. SweepEnds
  <2>1. DryRun \/ Finish \/ SweepEnds \/ LeakCheck \/ runMonitorLoop \/ Pace
    BY <1>1, EndsOk
  <2>2. ~(DryRun \/ Finish \/ LeakCheck \/ runMonitorLoop \/ Pace)
    BY <1>1, HereIs DEF DryRun, Finish, LeakCheck, runMonitorLoop, Pace, StepsOf
  <2> QED BY <2>1, <2>2
<1>3. /\ Here = "cleanup" /\ ~p.terr /\ p.li > Len(LaneSeq) /\ cloud' = cloud
  BY <1>1, <1>2, HereIs
     DEF SweepEnds, StepsOf, Ends, Advance, Runs, preflightOutcome, world
<1> SUFFICES ASSUME NEW x \in cloud, x.run = p.run, x \notin arrived
             PROVE  /\ x \notin marked
                    /\ x \in disk[p.run].made =>
                         ~p.byRecord /\ (Secret(x) \/ ~Identified(x))
  BY <1>3 DEF Reclaimed
<1>4. ~Sought(x)
  BY <1>3, SweptClean
<1>5. /\ ~(x \in marked /\ Identified(x))
      /\ ~(x.kind \in LaneRecorded[ServiceOf[x.lane]] /\ x \in p.known)
  BY <1>3, <1>4 DEF Sought
<1>6. x \notin marked
  BY <1>5 DEF Marking
<1> SUFFICES ASSUME x \in disk[p.run].made
             PROVE  ~p.byRecord /\ (Secret(x) \/ ~Identified(x))
  BY <1>6
<1>7. Secret(x) \/ ~Identified(x)
  <2>1. p.run \in 1..MaxRun
    BY <1>1, TypeParts, ResourceFacts
  <2>2. x \in Named
    BY <2>1 DEF Named
  <2> QED BY <1>6, <2>2 DEF Marking
<1>8. ASSUME p.byRecord PROVE FALSE
  <2>1. x \in p.known
    BY <1>1, <1>3, <1>8 DEF Loaded
  <2>2. x.lane \in DOMAIN Copies /\ x.kind \in DOMAIN Copies[x.lane]
    BY <1>1, TypeParts, ResourceFacts, LaneFacts
  <2>3. /\ ServiceOf[x.lane] \in AllServices \cup {"persona"}
        /\ x.kind \in LaneIdentity[ServiceOf[x.lane]]
                      \cup LaneRecorded[ServiceOf[x.lane]]
    BY <2>2, LanesAssumption
  <2>4. Identified(x) => x.kind \in LaneRecorded[ServiceOf[x.lane]]
    BY <1>7, <2>3, SecretsRecorded DEF Secret, Identified
  <2> QED BY <1>5, <2>1, <2>3, <2>4 DEF Identified
<1> QED BY <1>7, <1>8

THEOREM CleanupsReclaim == Spec => CleanupReclaims
<1>1. CInv /\ Marking /\ [Next]_vars =>
        [cmd = "cleanup" /\ exit' = "ok" /\ cmd' = "none" => Reclaimed]_vars
  BY ReclaimStep
<1> QED BY <1>1, CommandsInvariant, MarkingInvariant, PTL
        DEF Spec, CleanupReclaims, Reclaimed

(***************************************************************************)
(* "No resources remain" is printed only when no resource of the run that  *)
(* was marked remains.                                                     *)
(***************************************************************************)
VerdictTrue == \A x \in cloud : x.run = p.run => x \notin marked

LEMMA LeakKindsCover ==
  \A s \in AllServices \cup {"persona"} :
    LaneIdentity[s] \subseteq LeakKinds[s] \cup {"order"}
<1>1. /\ LaneIdentity["neutron"] = NeutronListByTag
      /\ LaneIdentity["cinder"] = CinderListings
      /\ LaneIdentity["glance"] = GlanceListings
      /\ LaneIdentity["nova"] = NovaListings
      /\ LaneIdentity["octavia"] = OctaviaListings
      /\ LaneIdentity["keystone"] = KeystoneListings
      /\ LaneIdentity["barbican"] = BarbicanListings
      /\ LaneIdentity["persona"] = PersonaKinds
  BY DEF LaneIdentity, IdentityKinds
<1>2. /\ LeakKinds["neutron"] = NeutronLeakKinds
      /\ LeakKinds["cinder"] = CinderLeakKinds
      /\ LeakKinds["glance"] = GlanceLeakKinds
      /\ LeakKinds["nova"] = NovaLeakKinds
      /\ LeakKinds["octavia"] = OctaviaLeakKinds
      /\ LeakKinds["keystone"] = KeystoneLeakKinds
      /\ LeakKinds["barbican"] = BarbicanLeakKinds
      /\ LeakKinds["persona"] = PersonaLeakKinds
  BY DEF LeakKinds
<1>3. /\ NeutronListByTag \subseteq NeutronLeakKinds
      /\ CinderListings \subseteq CinderLeakKinds
      /\ GlanceListings \subseteq GlanceLeakKinds
      /\ NovaListings \subseteq NovaLeakKinds
      /\ OctaviaListings \subseteq OctaviaLeakKinds
      /\ KeystoneListings \subseteq KeystoneLeakKinds
      /\ BarbicanListings \subseteq BarbicanLeakKinds \cup {"order"}
      /\ PersonaKinds \subseteq PersonaLeakKinds
  BY DEF NeutronListByTag, NeutronLeakKinds, CinderListings, CinderLeakKinds,
         GlanceListings, GlanceLeakKinds, NovaListings, NovaLeakKinds,
         OctaviaListings, OctaviaLeakKinds, KeystoneListings, KeystoneLeakKinds,
         BarbicanListings, BarbicanLeakKinds, PersonaKinds, PersonaLeakKinds
<1> QED BY <1>1, <1>2, <1>3 DEF AllServices

LEMMA ClaimsOfSteps ==
  ASSUME Next, cmd # "none", claim = "none", claim' = "clean"
  PROVE  LeakCheck
<1>1. claim' # claim
  OBVIOUS
<1>2. ~(\E c \in DOMAIN CommandScripts : Start(c))
  BY DEF Start
<1>3. ~Signal
  BY <1>1 DEF Signal
<1>4. ~(\/ Prepare \/ DryRun \/ Signals \/ newRunID \/ resolveRun \/ ApplyEnds
        \/ BindRoots \/ ChurnEnds \/ Mismatch \/ Output \/ Decide \/ Record
        \/ Finish \/ BeginLane \/ LaneClean \/ LaneGivesUp \/ SweepEnds
        \/ PreflightSkipped \/ runMonitorLoop \/ IterationReady
        \/ writeIterationRecord \/ Pace)
  BY <1>1 DEF Prepare, DryRun, Signals, newRunID, resolveRun, ApplyEnds,
         BindRoots, ChurnEnds, Mismatch, Output, Decide, Record, Finish,
         BeginLane, LaneClean, LaneGivesUp, LaneEnds, SweepEnds,
         PreflightSkipped, runMonitorLoop, IterationReady, writeIterationRecord,
         Pace
<1>5. ASSUME NEW x
      PROVE  ~(\/ Tag(x) \/ Answer(x) \/ DeleteAnswered(x) \/ DeleteTarget(x)
               \/ Create(x) \/ ChurnDelete(x) \/ CreateFails(x) \/ Rollback(x)
               \/ StampFails(x) \/ LateLands(x))
  BY <1>1 DEF Tag, Answer, DeleteAnswered, DeleteTarget, Create, ChurnDelete,
              CreateFails, Rollback, StampFails, LateLands
<1>6. ASSUME NEW l, NEW ok
      PROVE  ~(\/ Snapshot(l) \/ SnapshotBeforeDrain(l) \/ Merge(l)
               \/ WriteCheckpoint(l, ok) \/ EngineReturns(l))
  BY <1>1 DEF Snapshot, SnapshotBeforeDrain, OnCheckpoint, Merge,
              WriteCheckpoint, EngineReturns
<1>7. ~(\/ Kill \/ PrepareFails \/ OutputFails \/ RecordFails \/ ChurnRefused
        \/ LeakCheckFails \/ LaneFails \/ IterationFails)
  BY <1>1 DEF Kill, PrepareFails, OutputFails, RecordFails, ChurnRefused,
              LeakCheckFails, LaneFails, LaneEnds, IterationFails
<1>8. ASSUME NEW c
      PROVE  ~Hang(c)
  BY <1>1 DEF Hang
<1> QED BY <1>2, <1>3, <1>4, <1>5, <1>6, <1>7, <1>8 DEF Next, Work, Choices, Faults

LEMMA VerdictStep ==
  ASSUME CInv, Marking, Next, At("leakCheck"), claim' = "clean"
  PROVE  VerdictTrue
<1>1. TypeOK /\ NoOrders /\ Here = "leakCheck"
  BY HereIs DEF CInv
<1>2. cmd # "none" /\ claim = "none"
  BY <1>1 DEF Here, TypeOK
<1>3. cmd = "chaos"
  BY <1>1, <1>2, Whereabouts DEF StepsOf, CommandScripts
<1>4. LeakCheck
  BY <1>2, ClaimsOfSteps
<1> SUFFICES ASSUME NEW x \in cloud, x.run = p.run, x \in marked
             PROVE  FALSE
  BY DEF VerdictTrue
<1>5. x.lane \in Lanes
  BY <1>1, TypeParts, ResourceFacts
<1>6. x.kind \notin LeakKinds[ServiceOf[x.lane]]
  BY <1>4, <1>5 DEF LeakCheck
<1>7. x.kind # "order"
  BY <1>1, <1>3 DEF NoOrders, Numbered, Startup
<1>8. ServiceOf[x.lane] \in AllServices \cup {"persona"}
  BY <1>1, <1>5, LaneFacts, LanesAssumption
<1>9. x.kind \in LaneIdentity[ServiceOf[x.lane]]
  BY DEF Marking, Identified
<1> QED BY <1>6, <1>7, <1>8, <1>9, LeakKindsCover

THEOREM VerdictsAreTrue == Spec => CleanVerdictIsTrue
<1>1. CInv /\ Marking /\ [Next]_vars =>
        [At("leakCheck") /\ claim' = "clean" => VerdictTrue]_vars
  BY VerdictStep
<1> QED BY <1>1, CommandsInvariant, MarkingInvariant, PTL
        DEF Spec, CleanVerdictIsTrue, VerdictTrue

(***************************************************************************)
(* An unbounded churn run that is signalled leaves no create between its   *)
(* POST and its tag: unless a call failed, whatever exists of the run is   *)
(* marked or has its second request in flight.                             *)
(***************************************************************************)
THEOREM EndsStayTagged == Spec => []EndsAreTagged
<1>1. Marking => EndsAreTagged
  BY DEF Marking
<1> QED BY <1>1, MarkingInvariant, PTL
=============================================================================
