--------------------------- MODULE CommandTables ---------------------------
(***************************************************************************)
(* The commands of each service as scripts for Commands: the steps of RunE *)
(* in order, each of which may return early.  The steps that only prepare  *)
(* (parse, authenticate, pre-check, build) end the command on an error.    *)
(***************************************************************************)
EXTENDS CleanupTables

(***************************************************************************)
(* apply.  "decide" is runAborted, "finish" the exit or the teardown of an *)
(* aborted run.  Glance has no quota to pre-check.                         *)
(***************************************************************************)
NeutronFinishAborted == <<"finish", "teardown">>
NeutronApply ==
  <<"plan", "dryRun", "signals", "telemetry", "runID", "client", "precheck",
    "apply", "output", "decide", "record">>
  \o NeutronFinishAborted
CinderFinishAborted == <<"finish", "teardown">>
CinderApply ==
  <<"plan", "dryRun", "signals", "telemetry", "runID", "client", "precheck",
    "apply", "output", "decide", "record">>
  \o CinderFinishAborted
GlanceFinishAborted == <<"finish", "teardown">>
GlanceApply ==
  <<"plan", "dryRun", "signals", "telemetry", "runID", "client",
    "apply", "output", "decide", "record">>
  \o GlanceFinishAborted
NovaFinishAborted == <<"finish", "teardown">>
NovaApply ==
  <<"plan", "dryRun", "signals", "telemetry", "runID", "client", "resolve",
    "apply", "output", "decide", "record">>
  \o NovaFinishAborted
OctaviaFinishAborted == <<"finish", "teardown">>
OctaviaApply ==
  <<"plan", "dryRun", "signals", "telemetry", "runID", "client", "precheck",
    "apply", "output", "decide", "record">>
  \o OctaviaFinishAborted
KeystoneFinishAborted == <<"finish", "teardown">>
KeystoneApply ==
  <<"plan", "dryRun", "signals", "telemetry", "runID", "client", "privilege",
    "apply", "output", "decide", "record">>
  \o KeystoneFinishAborted
BarbicanFinishAborted == <<"finish", "teardown">>
BarbicanApply ==
  <<"plan", "dryRun", "signals", "telemetry", "runID", "client", "precheck",
    "apply", "output", "decide", "record">>
  \o BarbicanFinishAborted

(***************************************************************************)
(* chaos.  Keystone creates its scaffold before the graph; Barbican looks  *)
(* for read-backs that returned other bytes before it prints anything.     *)
(***************************************************************************)
NeutronFinishChurn == <<"finish", "teardown", "leakCheck">>
NeutronChaosLateRecord ==   \* mutant: the record is written after the teardown
  <<"plan", "config", "signals", "telemetry", "runID", "client", "precheck",
    "graph", "churn", "output", "finish", "teardown", "record", "leakCheck">>
NeutronChaos ==
  <<"plan", "config", "signals", "telemetry", "runID", "client", "precheck",
    "graph", "churn", "output", "record">>
  \o NeutronFinishChurn
CinderFinishChurn == <<"finish", "teardown", "leakCheck">>
CinderChaos ==
  <<"plan", "config", "signals", "telemetry", "runID", "client", "precheck",
    "graph", "churn", "output", "record">>
  \o CinderFinishChurn
GlanceFinishChurn == <<"finish", "teardown", "leakCheck">>
GlanceChaos ==
  <<"plan", "config", "signals", "telemetry", "runID", "client",
    "graph", "churn", "output", "record">>
  \o GlanceFinishChurn
NovaFinishChurn == <<"finish", "teardown", "leakCheck">>
NovaChaos ==
  <<"plan", "config", "signals", "telemetry", "runID", "client", "resolve",
    "graph", "churn", "output", "record">>
  \o NovaFinishChurn
OctaviaFinishChurn == <<"finish", "teardown", "leakCheck">>
OctaviaChaos ==
  <<"plan", "config", "signals", "telemetry", "runID", "client", "precheck",
    "graph", "churn", "output", "record">>
  \o OctaviaFinishChurn
KeystoneFinishChurn == <<"finish", "teardown", "leakCheck">>
KeystoneChaos ==
  <<"plan", "config", "signals", "telemetry", "runID", "client", "privilege",
    "roots", "graph", "churn", "output", "record">>
  \o KeystoneFinishChurn
BarbicanFinishChurn == <<"finish", "teardown", "leakCheck">>
BarbicanChaos ==
  <<"plan", "config", "signals", "telemetry", "runID", "client", "precheck",
    "graph", "churn", "mismatch", "output", "record">>
  \o BarbicanFinishChurn

(***************************************************************************)
(* mix chaos: every lane is built and pre-checked before any lane creates  *)
(* its scaffold.                                                           *)
(***************************************************************************)
finishMixChurn == <<"finish", "teardown", "leakCheck">>
MixChaos ==
  <<"plan", "config", "signals", "runID", "buildLanes", "provision", "churn",
    "output", "record">>
  \o finishMixChurn

(***************************************************************************)
(* monitor: the startup, then iterations.  Octavia refuses an unscoped     *)
(* token; Glance only authenticates.                                       *)
(***************************************************************************)
NeutronMonitor ==
  <<"plan", "config", "signals", "telemetry", "client", "precheck", "loop">>
CinderMonitor ==
  <<"plan", "config", "signals", "telemetry", "client", "precheck", "loop">>
GlanceMonitor ==
  <<"plan", "config", "signals", "telemetry", "client", "loop">>
NovaMonitor ==
  <<"plan", "config", "signals", "telemetry", "client", "resolve", "loop">>
OctaviaMonitor ==
  <<"plan", "config", "signals", "telemetry", "client", "project",
    "precheck", "loop">>
KeystoneMonitor ==
  <<"plan", "config", "signals", "telemetry", "client", "privilege", "loop">>
BarbicanMonitor ==
  <<"plan", "config", "signals", "telemetry", "client", "precheck", "loop">>

(***************************************************************************)
(* One iteration: a run id and a client of its own, the sweep of leftovers *)
(* of any run, apply, cleanup, an optional record.  Octavia and Barbican   *)
(* look at the quota again; Keystone sweeps only when it is asked to.      *)
(***************************************************************************)
NeutronIteration ==
  <<"iterID", "iterClient", "preflight", "apply", "own", "keepRecord", "pace">>
CinderIteration ==
  <<"iterID", "iterClient", "preflight", "apply", "own", "keepRecord", "pace">>
GlanceIteration ==
  <<"iterID", "iterClient", "preflight", "apply", "own", "keepRecord", "pace">>
NovaIteration ==
  <<"iterID", "iterClient", "preflight", "apply", "own", "keepRecord", "pace">>
OctaviaIteration ==
  <<"iterID", "iterClient", "preflight", "iterQuota", "apply", "own",
    "keepRecord", "pace">>
KeystoneIteration ==
  <<"iterID", "iterClient", "preflight", "apply", "own", "keepRecord", "pace">>
BarbicanIteration ==
  <<"iterID", "iterClient", "preflight", "iterQuota", "apply", "own",
    "keepRecord", "pace">>
SweepsOnRequest == {"keystone"}

-----------------------------------------------------------------------------
(***************************************************************************)
(* cleanup: from a record or from a run id.  Only the cleanup commands of  *)
(* BoundedCleanup pass their calls through a timeout cleaner.              *)
(***************************************************************************)
NeutronCleanup == <<"load", "service", "signals", "client", "cleanup">>
CinderCleanup == <<"load", "service", "signals", "client", "cleanup">>
GlanceCleanup == <<"load", "service", "signals", "client", "cleanup">>
NovaCleanup == <<"load", "service", "signals", "client", "cleanup">>
OctaviaCleanup == <<"load", "service", "signals", "client", "cleanup">>
KeystoneCleanup == <<"load", "service", "signals", "client", "cleanup">>
BarbicanCleanup == <<"load", "service", "signals", "client", "cleanup">>
MixCleanup == <<"flags", "load", "service", "signals", "buildLanes", "cleanup">>
BoundedCleanup == {"glance", "nova", "octavia", "barbican", "mix"}

(***************************************************************************)
(* Calls of a cleanup that a timeout cleaner bounds.  Barbican bounds the  *)
(* discovery of secrets request by request.                                *)
(***************************************************************************)
NeutronTimeouts == {"list", "detach", "sweep", "send"}
CinderTimeouts == {"list", "send", "wait"}
GlanceTimeouts == {"list", "send", "wait"}
NovaTimeouts == {"list", "sweep", "send", "wait"}
OctaviaTimeouts == {"list", "send", "wait"}
KeystoneTimeoutsNoGrants == {"list", "disable", "send"}   \* mutant
KeystoneTimeouts == {"list", "grants", "disable", "send"}
BarbicanTimeouts == {"list", "send"}

(***************************************************************************)
(* Kinds the leak check counts, and kinds an orphan sweep finds by what    *)
(* every run writes on its resources.                                      *)
(***************************************************************************)
NeutronLeakKinds == {"floating_ip", "port", "network", "subnet", "router",
                     "security_group", "subnet_pool"}
CinderLeakKindsVolumes == {"volume"}   \* mutant: snapshots are not counted
CinderLeakKinds == {"volume", "snapshot"}
GlanceLeakKinds == {"image"}
NovaLeakKinds == {"server", "volume", "port", "network", "subnet"}
OctaviaLeakKinds == {"loadbalancer", "subnet", "network"}
KeystoneLeakKinds == {"project", "user", "role", "domain"}
BarbicanLeakKinds == {"container", "secret"}
PersonaLeakKinds == NovaLeakKinds \cup {"server_group"}

NeutronOrphans == NeutronListByTag
CinderOrphans == {"volume", "snapshot"}
GlanceOrphans == {"image"}
NovaOrphans == {"server", "volume", "port", "network", "subnet"}
OctaviaOrphans == {"loadbalancer", "subnet", "network"}
KeystoneOrphans == {"project", "user", "role", "domain"}
BarbicanOrphans == {"container", "order", "secret"}

(***************************************************************************)
(* A persona's lane of a mix run: Nova's cleanup, then the server groups   *)
(* of the lane whatever happened before.                                   *)
(***************************************************************************)
PersonaKinds == NovaListings \cup {"server_group"}
PersonaTimeouts == {"list", "send"}

(***************************************************************************)
(* What only BindRoots creates, and what a churn run never creates.        *)
(***************************************************************************)
RootKinds == [s \in AllServices \cup {"persona"} |->
                IF s = "keystone" THEN {"domain", "role", "implied_role"} ELSE {}]
barbicanChurnEnvelope == {"order"}

-----------------------------------------------------------------------------
ApplyScripts ==
  [neutron |-> NeutronApply, cinder |-> CinderApply, glance |-> GlanceApply,
   nova |-> NovaApply, octavia |-> OctaviaApply, keystone |-> KeystoneApply,
   barbican |-> BarbicanApply]
ChaosScripts ==
  [neutron |-> NeutronChaos, cinder |-> CinderChaos, glance |-> GlanceChaos,
   nova |-> NovaChaos, octavia |-> OctaviaChaos, keystone |-> KeystoneChaos,
   barbican |-> BarbicanChaos, mix |-> MixChaos]
MonitorScripts ==
  [neutron |-> NeutronMonitor \o NeutronIteration,
   cinder |-> CinderMonitor \o CinderIteration,
   glance |-> GlanceMonitor \o GlanceIteration,
   nova |-> NovaMonitor \o NovaIteration,
   octavia |-> OctaviaMonitor \o OctaviaIteration,
   keystone |-> KeystoneMonitor \o KeystoneIteration,
   barbican |-> BarbicanMonitor \o BarbicanIteration]
CleanupScripts ==
  [neutron |-> NeutronCleanup, cinder |-> CinderCleanup,
   glance |-> GlanceCleanup, nova |-> NovaCleanup, octavia |-> OctaviaCleanup,
   keystone |-> KeystoneCleanup, barbican |-> BarbicanCleanup,
   mix |-> MixCleanup]
CommandScripts == [apply |-> ApplyScripts, chaos |-> ChaosScripts,
                   monitor |-> MonitorScripts, cleanup |-> CleanupScripts]

LeakKinds ==
  [neutron |-> NeutronLeakKinds, cinder |-> CinderLeakKinds,
   glance |-> GlanceLeakKinds, nova |-> NovaLeakKinds,
   octavia |-> OctaviaLeakKinds, keystone |-> KeystoneLeakKinds,
   barbican |-> BarbicanLeakKinds, persona |-> PersonaLeakKinds]
OrphanKinds ==
  [neutron |-> NeutronOrphans, cinder |-> CinderOrphans,
   glance |-> GlanceOrphans, nova |-> NovaOrphans, octavia |-> OctaviaOrphans,
   keystone |-> KeystoneOrphans, barbican |-> BarbicanOrphans]
LaneIdentity == [s \in DOMAIN IdentityKinds \cup {"persona"} |->
                   IF s = "persona" THEN PersonaKinds ELSE IdentityKinds[s]]
LaneRecorded == [s \in DOMAIN RecordKinds \cup {"persona"} |->
                   IF s = "persona" THEN PersonaKinds ELSE RecordKinds[s]]

(***************************************************************************)
(* The calls a lane's cleanup makes, and which of them are bounded.        *)
(***************************************************************************)
CallsOf(script) ==
  {"list"} \cup (IF \E i \in DOMAIN script : script[i].do = "grants"
                 THEN {"grants"} ELSE {})
  \cup UNION {{script[i].acts[j] : j \in DOMAIN script[i].acts} :
              i \in {i \in DOMAIN script : script[i].do = "each"}}
LaneCalls == [s \in DOMAIN CleanupScript \cup {"persona"} |->
                CallsOf(IF s = "persona" THEN NovaScript ELSE CleanupScript[s])]
LaneTimeouts ==
  [neutron |-> NeutronTimeouts, cinder |-> CinderTimeouts,
   glance |-> GlanceTimeouts, nova |-> NovaTimeouts,
   octavia |-> OctaviaTimeouts, keystone |-> KeystoneTimeouts,
   barbican |-> BarbicanTimeouts,
   persona |-> NovaTimeouts \cup PersonaTimeouts]

=============================================================================
