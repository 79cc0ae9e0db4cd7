# Formal models of dizzy

dizzy puts load on an OpenStack cloud: it builds a plan from a seeded scenario
and applies it once (`apply`), applies and removes it again and again
(`monitor`), churns it for hours (`chaos`, `mix chaos`), or drives Keystone
with closed-loop workers (`keystone pressure`). What it creates it has to give
back, so the run record - the list of what exists - matters as much as the load.

This directory holds TLA+ modules translated from the Go source, the TLC
configurations that check them on small instances, and TLAPS proofs.

## 1. Inventory

| Component | State | Operations | Talks to |
|---|---|---|---|
| Churn scheduler, `internal/chaos/engine.go` (`step`, `roll`, `*Candidates`, `pCreate`) | logical inventory (`present`, `mutated`), population counter | eager create, mutate, create, delete, roll | hands operations to the engine |
| Churn engine, same file (`run`, `launch`, `await`, `dispatch*`, `runRetries`, `settleRetries`, `liveResources`) | one `op` per operation with a done channel; per node the last op, the current create and the retired instances; pending queue, slots, gates | tick, launch, await, cloud call, retry of a failed delete, drain, checkpoint | closures of the graph builders; the checkpoint callback |
| Time buckets, same file (`results`) | slots, in-flight counts, sealed prefix | advance, begin, add, end, inFlight | scheduler and operation goroutines, under one mutex |
| Graph builders, `internal/chaos/*graph` | none (they build the nodes) | Build | engine and cloud clients |
| Staged executors, `internal/executor`, `internal/*/executor` (`Apply`, `runStage`, `WithRetry`) | result, identifier maps, worker pool of a stage | stages of creates, waits and lifecycle calls | cloud clients |
| Cleanup, the same packages (`Cleanup`) | count of deleted resources | list by tag, detach, delete in order | cloud clients, run record |
| Cloud clients, `internal/{neutron,nova,...}` | metrics; pending create tokens (Nova, Octavia) | create and tag, wait, delete, list by tag, adopt | OpenStack |
| Pressure engine, `internal/pressure/engine.go` | stage windows, parked workers, resume channels | draw a call, park, enter a stage | `keystoneops` operations |
| Keystone operations and probe, `internal/pressure/keystoneops`, `.../probe` | token pools, revoked tokens | issue, validate, revoke, refresh, propagate | Keystone and the other services |
| Mix, `internal/mix` | latest result of every lane | run the lanes, merged checkpoint | churn engines |
| Commands, `cmd/dizzy` | signal context, record file | apply, chaos, monitor, cleanup, status, generate, report | everything above |
| Scenarios and plans, `internal/{,*/}scenario`, `internal/{,*/}plan`, `internal/mix/scenario` | a plan: entries with cross references | Validate, Generate, Validate of the plan | commands, graph builders, executors |
| Run records, `internal/run` | `run-<id>.json` | Write (temporary file, then rename), Load, report, compare | commands |
| Metrics, telemetry, config, quota pre-checks | counters; nothing | I/O | commands |

What is hard to test, and where: the interleaving of the engine's goroutines
with one another and with a cancellation; a delete that fails and whose instance
must be remembered across any number of re-creates; the moment a worker parks
against the moment a stage is entered; a token two actors of a pressure run both
mean to replace; the sibling of a failing work item; a signal between two
stages, or anywhere in a command; a kill between two checkpoints; an answer that
is lost, and a request that takes effect after it was given up; one service of
seven whose copy of the same code differs. `PROJECT.json` lists these hazards at
their lines, with the properties that would catch them.

What makes a component correct, in one line each:

* scheduler - never decides on a node without its parents, nor on the delete of
  a parent before its dependents; pinned nodes stay; sets roll one root at a time;
* engine - one operation per node; reads ordered after writes; no call under a
  missing parent; the record names every instance with an id; it always drains;
* buckets - every outcome is counted in the bucket of its tick, once;
* scenarios, plans, graphs - what validation accepts generates a valid plan, and
  every graph has all its edges, its gates, and the shape the scheduler assumes;
* apply - identifiers are there when needed; everything acknowledged is in the
  result; the error is the cause; it always returns;
* clients - what a failed create leaves can be found, a lost create is adopted
  once, a finished delete leaves nothing, every call returns with its context;
* pressure - Enter runs in quiet; calls stay in their window; it always returns;
* token pool - holds the tokens it was primed with, none of them revoked, none
  near its expiry for long; grants come back; every grant made is accounted for;
* cleanup - deletes everything a tag, a name or the record leads to and nothing
  else, in an order nothing of its own refuses; stopped anywhere, it leaves what
  a rerun needs;
* commands, mix - the record survives a kill and never goes back; verdicts and
  exit codes are true; after a signal the command ends.

## 2. Modules

| Module | Models | Extends / instantiates |
|---|---|---|
| `ChurnGraph` | the node graph and the candidate lists, as operators | |
| `ChurnInventory` | the logical inventory, and what must hold of it | `ChurnGraph` |
| `ChurnSchedule` | the abstract specification: the decisions, with no cloud | `ChurnInventory` |
| `ChurnEngine` | the concurrent engine | `ChurnInventory`; `Schedule == INSTANCE ChurnSchedule WITH ...` |
| `ChurnBuckets` | type `results` | |
| `Plans` | Validate, Generate and plan validation of every service and persona | |
| `ChurnGraphs` | the graph builders of every service and persona | `Plans` |
| `ApplyStages`, `ApplyTables` | `Apply`, generic in the stage table; the table of each service | |
| `Clients`, `ClientTables` | the clients, generic in a recipe; the recipe of each kind | |
| `Cleanup`, `CleanupTables` | `Cleanup`, generic in a script; the script of each service | |
| `PressureEngine` | the staged pressure run | |
| `TokenPool` | the Keystone operations of a pressure run | |
| `Commands`, `CommandTables` | the commands, generic in a script; the script of each `RunE` | |
| `MC*` | the instances TLC explores | the module of the name |
| `ChurnEngineProofs` (also of `ChurnSchedule`), `ChurnDataProofs` (of `ChurnBuckets`, `Plans` and `ChurnGraphs`), `PressureEngineProofs`, `ApplyStagesProofs`, `TokenPoolProofs`, `ClientsProofs`, `CommandsProofs`, `CleanupProofs` | theorems | the module of the name |

dizzy holds seven copies of most of its code, one per service. A module models
the shared shape once, and a `*Tables` module holds what the copies differ in,
one definition per copy, each mapped to its own lines: a copy that forgets a
step, a kind or a bound shows as a wrong row. A run chooses the service in
`Init`, so that one run checks them all.

Operators whose comment says *mutant* are not part of a model: each is the
plausible bug some property must catch when it takes the place of the operator
defined after it.

### 2.1 ChurnGraph, ChurnSchedule

A node is a planned resource. `present`, `mutated` are `nodeState.present` and
`.mutated`, `pop` is `engine.present`, the counter the controller reads, and
`rolling` what the recursion of `roll` has still to visit (a roll is several
steps in the model because the engine blocks in `launch` between its deletes).
The generator is left open: a draw whose probability is strictly between 0 and 1
can go either way, and probabilities are whole percents so that 0 and 1 remain
exact. The assumptions on the graph - finite, acyclic, a rolling node is not
pinned and its dependents are in its set - are what the builders guarantee;
`newEngine` relies on it and does not check.

### 2.2 ChurnEngine

Operations are numbered in dispatch order; the number of a create also names
the instance it brings about. `op[o]` is what the closure of o captured at
dispatch (its dependencies, its parents' creates, the retries it owes), `pc[o]`
where its goroutine is:

    launch -> await -> gate -> slot -> run -> exit -> closing -> done

`launch` takes a pending token and may block the scheduler; `await` waits for
the done channels of the dependencies, then the gate, then a slot, each a select
against the context; `exit` settles the retries that never ran and returns the
token; `closing` closes the done channel. `<<o, i>>` is the attempt of operation
o to delete instance i, with its `deleteFailed` verdict and the parent ids it
resolved. The cloud is `cloud` (what exists) and the outcome of each call, chosen
from `Faults`: an id with an error, an error with and without an instance, a
failed delete that removed its instance all the same, a panic. Not in the model:
the clock (a bounded run may be over at any tick) and the reported counters.
`MaxOps` bounds a run: a scheduler that may run out of numbers draws no-ops.

### 2.3 ChurnBuckets

Time in bucket widths, one tick at a time: `advance`, the `begin`s of the tick's
fan-out, `add`s and `end`s of operations at any later time. An outcome is
reduced to the slot it is counted in. `fixed` chooses between the bounded run
(`SlotCount` slots) and the unbounded one, whose slots grow.

### 2.4 PressureEngine

The clock, the run's context, the control goroutine (stage by stage: sleep until
the window ends, wait for the workers to park if the stage has an Enter, Enter,
begin) and the workers (loop, admit, call, park). `offset` is read before the
lock of `begin` is taken, as in the code. `resumed` counts the resume channels
closed so far, and `waits[w]` names the one a parked worker waits on.

### 2.5 ApplyStages, ApplyTables

Seven packages hold copies of one executor. `ApplyStages` models it once:
dispatcher, workers, the first error cancelling the stage, `WithRetry`, the
result and the error that is returned. Three constants carry the differences
between the copies: whether a failing item's result is stored (all but Neutron),
whether a real failure is preferred to a sibling's `Canceled` (Glance, Nova,
Octavia, Barbican), and how many attempts a 409 gets. A work item is a sequence
of cloud calls, and `ApplyTables` gives every service's stages as such
sequences, computed from a plan: `NeutronStages`, `CinderStages`, ... Where the
map names one copy of `runStage` or `WithRetry`, the definition stands for all
seven. A stage is `indexed` when `Apply` indexes its results before looking at
the error. Keystone is modelled in the admin tier. `OrderAssumption` is what the
tables are taken to guarantee: the stages, and the calls of an item, are in the
order their identifiers need, a write that leaves an object in transition is
followed by the wait for it, and two items of a stage do not write to one object.
TLC evaluates it on the table of every service.

### 2.6 Cleanup, CleanupTables

A cleanup is a script: discovery requests and loops over targets, each target
going through the calls of `acts` (`NeutronScript`, `NovaScript`, ... are the
bodies of the seven `Cleanup` functions). `Init` is what an interrupted apply or
churn run can leave: any set of resources closed under references, at most one
of them created and not yet tagged or stamped, with a record or without. Beside
them live resources dizzy did not create. A call fails before or after its
effect, the process is killed, and the operator runs the command again. The
cloud is external and taken from what the code's comments and error handling
say: `Pins` (whose existence refuses whose delete), `Cascades`, `Slow` (accepted
deletes that take effect later), and `Late` (a DHCP port, or the secret of an
order, that appears while the cleanup runs). `Reach` is what some handle leads
to, directly or through a parent; `had` remembers what ever had one. The count
of deleted resources is left out.

What makes a script a right one is stated on the script alone (`WellOrdered`,
`UsesHandles`, `UnusedWhenSent`, `ServersFirst`): listings before the loops that
read them, a loop for every handle, and before a delete is sent, a loop over
whatever could still use its target. `ScriptAssumption` says that every script is
such a one, `HandleAssumption` and `CloudAssumption` say what of the cloud that
rests on; TLC evaluates all three on the seven scripts of `CleanupTables`, so
that a script that deletes in another order fails there already.

### 2.7 Clients, ClientTables

One logical name of one kind, chosen in `Init` from every kind the seven clients
create or attach. `obj[i]` is what POST number i made or may still make,
`pending` the requests whose answer was lost and whose object was not found yet,
`held` the id the caller has. A call goes step by step - pending lookup, POST,
lookup after a lost answer, tag with its attempts, rollback, readiness polls,
delete, wait - and its context may expire, or be cancelled with the run, before
any of them. A recipe says when the object gets the run's identity, what a lost
answer leads to, and whether the service itself refuses a second one. The cloud
may commit a request after its answer was given up, finish a delete later than
it answered, show a detach in one view before the other, and lose an object. The
caller is the churn engine: it creates only when it holds nothing, and deletes
again what it could not delete. Left out: lifecycle calls (stop, resize, live
migration, extend), image import, payload read-back.

An Octavia child (listener, pool, member, monitor) whose lost create lands
between the pending lookup and the next POST is refused with 409 from then on:
the pending name was taken by the lookup and the refusal is not an adoption.
Nothing promises otherwise, and the teardown's cascade removes it.

`LeftoversFindable` lets a lost answer excuse an unfindable object only for a
kind whose create request does not carry the run's identity; the kinds that
send a tag or a name with the request have to be found whatever gets lost.

### 2.8 TokenPool

The tokens of a pressure run live in `pool` and `fanPool`; a token is its (user,
project) pair and an id, so that no two are equal and each pool is a set. The
bound is `MaxIds`: a token is issued only while an id of its pair is free
(`Issues`). Actors: the setup (reader grants, priming),
the workers with one operation each, the refresher, the ticker of the
propagation probe and the probes in flight, the growth of the fan users' grants
at a stage, and `Close`. Every use of a token is several steps - taken, revoked,
reissued, put back - and any of them may fail or lose its answer. Time is
coarse: a token comes within the refresh margin, or a revoked one becomes old
enough to be sent as a bad token, at any moment. `main` follows
`runKeystonePressure`; the engine under it is `PressureEngine`.

### 2.9 Plans, ChurnGraphs

`Plans` takes a scenario through `Scenario.Validate`, `Generate` (one action per
collection, every draw a choice) and `Plan.Validate`. A logical name is a pair
of a prefix and a number. `Panic` stands for what Go does when a generator
indexes an empty list, takes more of a permutation than it has, or searches for
a free item that does not exist. `ChurnGraphs` adds what the builders make of a
plan: per node the parents it lists, the ids its closures read, what its calls
change, its gate, whether it mutates, is pinned or rolls - and then
`newEngine`'s rule that a parent that is no node is skipped.

Abstractions: address blocks and ports are counters; rule keys are numbered
across groups; the shares of `Apportion` are exact fractions where the code uses
floats; a mix is generated one persona at a time; a loop whose bound is redrawn
in every iteration (`j < randRange(...)`) is one draw, since it reaches the same
counts; products of counts are capped by `MaxCount`. Names, sizes, seeds and the
YAML profiles are left out. Two errors that the generators document and report
(no servers for a planned role, an exhausted address pool) end in phases of
their own.

### 2.10 Commands, CommandTables

A session of commands against one cloud: the operator starts `apply`, `chaos`,
`monitor`, `cleanup` of a service, or `mix chaos` and `mix cleanup`; each is the
script of its `RunE`, step by step, with the memory of its process in `p`. What
survives it is the cloud and the records in `disk`. A first signal cancels the
context, a second one kills (except in `cleanup`, where it changes nothing); a
kill, a failing call, a hanging call or a record that cannot be written come at
any step.

Apply, the churn engine and `Cleanup` have modules of their own, so here a create
takes effect, is marked, is answered, fails, or lands late. `marked` is what has
got the identity of its run: with the create where the request carries it
(`InPost`), otherwise by the second request, the action `Tag`, as in the
`createTagged` of Neutron, Nova and Octavia and the stamp of a Barbican secret.
Between the two the process may be killed, the answer may be lost, the context
may end (`Cut`: in apply also because a sibling failed, in an unbounded churn
never, which is `opContext`), or the tag call may fail: then the create is rolled
back (`Rollback`), which may fail, too (`CreateFails`); a secret whose stamp
failed stays, is reported and is in the record (`StampFails`). A create that
lands late is marked only if its request says so. What a cleanup lists, a sweep
finds and the leak check sees is what is marked; `CleanupReclaims` states which
unmarked resources a cleanup that exits 0 may leave, those no result ever named.

A churn lane deletes and creates what
it likes, checkpoints, and checkpoints once more when it is cancelled with
operations in flight; a cleanup deletes what it found when it began, in any
order. The listings at the start of a cleanup and of the leak check are one step,
where the code asks kind by kind (as `Cleanup` does in its own module). Only a
late create can come between two of these listings: `CleanupReclaims` excepts
all that arrive during the cleanup, and `CleanVerdictIsTrue` says nothing of a
resource that lands after its kind was listed. A service command is a run with one lane; `mix chaos` has a lane for each
service and persona, an engine each, and the checkpoint callback of `mix.Run`
with its mutex. `LaneTimeouts` are the methods a service's timeout cleaner
bounds, `LaneCalls` the kinds of calls its cleanup makes. Steps that change
nothing a property is about (flags, telemetry, quota checks, printing) keep their
place in the script, because they can fail there. `LanesAssumption` says that
what a lane creates carries an identity or has a place in the record that its
cleanup reads; a kind with neither (a rule, a listener) goes with its parent.

## 3. Runs

| Run | Instance | Shows |
|---|---|---|
| `schedule` | 8 nodes: two pinned, one free, a rolling set of two roots, one with a diamond below | `InventorySound`, `SetsMadeWhole` |
| `engine_chain` | parent and child, five operations, two slots, every fault, a cancellation at any time | `ReadsAreOrdered`, `CallsFollowTheGraph`, `RecordExact`, `RetriesAreSound`, `ScheduleSpec` (refinement) |
| `engine_roll` | rolling set of two roots with gates, six operations, unbounded, a cancellation at any time | `RollsDoNotOverlap`, `CancelledRunReturns` |
| `buckets` | three operations with two outcomes each, four widths, two fixed slots | `BucketsExact` |
| `pressure` | two workers, windows of 1, 2, 1 units, Enter on the first and last stage | `StagesKeepApart`, `RunReturns` |
| `tokens` | seven configurations of up to two workers, one probe, two pool pairs, a fan user, one fault | `PoolSound`, `GrantsRestored`, `GrantsAccounted`, `DueIsReplaced`, `RunEnds` |
| `apply` | a small plan of each of the seven services, two workers, three attempts | `CallsAreReady`, `RecordComplete`, `OutcomeHonest`, `ApplyReturns` |
| `apply_panic` | violation | `NeverPanics`: a signal between stages |
| `clients` | every kind, four calls, two faults, three tag attempts | `DuplicatesAreLate`, `LeftoversFindable`, `AdoptsLive`, `DeletedIsGone`, `CallsReturn` |
| `cleanup` | three to nine resources of each service, two workers, two failures or kills | `CleanupComplete`, `DeletesAreRight`, `NoHandleLost`, `EventuallyClean` |
| `commands` | two commands, one fault, one or two resources per lane, two run ids (one for Neutron and mix); mix with a Keystone and a persona lane | `TeardownIsRecorded`, `IterationsStartEmpty`, `EndsAreTagged`, `RecordNeverGoesBack`, `CleanupReclaims`, `CleanVerdictIsTrue`, `ExitZeroIsEarned`, `SignalledEnds` |
| `graphs` | 4356 scenarios of the seven services, their personas and mixes, counts up to five | `AcceptedScenariosPlan`, `GraphFitsEngine` |

The properties of one module often say several things of one mechanism; their
parts have names of their own beside them: `InventorySound` is
`ParentsPresent /\ PopCounts`, `GraphFitsEngine` contains `FamiliesShareGate`, `CallsFollowTheGraph` is `ParentsOutliveCalls /\ ChildrenGoFirst`, `RecordExact` is the engine's
`RecordComplete /\ FinalRecordExact`, and so on.

**Why the bounds are enough.** Five operations on two nodes are create parent,
create child, delete, re-create (which retries the failed delete) and one more,
so a chain of two retries, a retry beside a panic and a retry a cancellation
kept from running all happen. In the rolling set six operations are
the two creates that make it whole, one root deleted and created again, and then
the other one: the second replacement is under way while the first may still
run, and a roll that depends on the operations that first filled the set, and
not on the latest ones, is caught there only. With a dependent behind one root
the same takes eight operations, which `MCChurnEngineSet.cfg` explores without
fairness; the theorem `RollsStayApart` is about every set.
Three operations
over four widths let one outlive every slot while two others open and seal them.
Two workers and three stages have a stage without an Enter between two with one,
a worker that lags and one that parks. In `tokens` each configuration puts two
of the actors against each other on one token, and six ids of a pair are enough
for a token to be revoked, reissued and refreshed. The apply plans have two
entries wherever siblings can disturb each other, two children of one load
balancer and two snapshots of one volume; three attempts are one more than
Neutron's conflict limit, so that both limits of `WithRetry` are met. In
`clients` four calls are two lives of a name, and with two faults the create of
the second life meets what two lost answers of the first left. The cleanup
instances have every kind, a parent with two children where a wait matters, and
two failures, so that a rerun is itself interrupted and meets half-deleted and
already-gone resources. In `commands` every property needs at most an
interrupted command, one fault, and the command after it. The lanes have between
them a kind whose identity comes with the create (a server, an image), one that
is tagged by a second request (a network of Neutron and of Octavia), one that is
stamped (a secret) and one without an identity (an address scope, an implied
role). The scenarios of `graphs` take the bounds each validation names, from both sides.

**Fairness.** Engine: the scheduler's and every operation's goroutine run, every
cloud call returns (each is bounded by `opTimeout`), and the clock passes the end
of a bounded run (strong fairness of `Stop`, since a tick may come first any
number of times). Pressure: time passes, the deadline is noticed, an Enter
returns once the context ends, a call returns at its timeout. Token pool: setup,
calls, probes and `Close` go on; the refresher's stop is strongly fair, since
Go's `select` takes any ready case at random and a tick may be ready each time.
Apply: calls, waits and backoffs are bounded by timers. Clients: a call's own
steps, and its deadline; the cloud promises nothing. Cleanup: calls return,
accepted deletes take effect, load balancers settle, and the operator runs a
failed cleanup again, as its error message asks for; failures are bounded.
Commands: a process goes on by itself, and its calls in flight are answered; a
call that hangs is only ended by the bound its wrapper gives it. No liveness
property relies on a signal arriving. Deadlock is checked in the churn and
pressure runs; in the others a returned `Apply` or `Cleanup`, a closed set, the
last call or command of the bound, and a built graph really are the end.

**By hand.** `MCChurnEngineCycles.cfg` (with `MCChurnEngine`), `MCApplyRecord.cfg`
(`MCApplyStages`), `MCCleanupLate.cfg` (`MCCleanup`) and `MCGraphRouted.cfg`
(`MCChurnGraphs`) each show one finding below as a counterexample.
`MCChurnEngineSet.cfg` (`MCChurnEngine`) is the larger rolling set; it holds.

## 4. Findings

* `apply_panic`: Cinder, Glance, Nova and Keystone index the nil slice `runStage`
  returns when the context is already cancelled at the start of a stage.
* `MCApplyRecord.cfg`, `AllRecorded`: Neutron's worker leaves its loop body
  before it stores the result of an item that failed (`executor.go`, `continue`).
  A network, router or port whose readiness wait is cut short - by a signal, or
  because a sibling failed - exists but is not in `Result.Created`, contrary to
  the comment on `runStage`. Tag-based cleanup still finds it; the record, the
  abort report and record-based reclaim do not.
* `MCChurnEngineCycles.cfg`, `CyclesArePairs`: the cycle count includes instances
  whose create returned an error with an id, against the comment beside it ("a
  create and its delete both succeeded").
* `MCCleanupLate.cfg`, `NoHandleLost`: Barbican's cleanup takes orders and
  generated secrets from one listing. An order that is PENDING there and ACTIVE
  when it is deleted leaves a secret that was never stamped and is in no record:
  its only handle is gone. Listing the orders again before they are deleted would
  narrow the window, and leaving PENDING orders to a rerun would close it.
* `MCGraphRouted.cfg`, `FloatingIPsRouted`: the Neutron builder parents a floating
  IP on its port alone (`neutrongraph/graph.go`), so churn creates or keeps a
  floating IP while the router interface or the gateway router it is routed
  through is absent. Neutron refuses both the association without a route and the
  delete of the interface under it, and `docs/explanation/churn-engine.md` says
  that "the engine never issues a dependency-violating call of its own making".
  Apply's stage order and cleanup's delete order do keep this dependency.
* An untagged floating IP or subnet pool (a create whose tagging and rollback
  were cut short) has no handle and pins its port and router, or its address
  scope: `Cleanup` then fails at that delete on every run, and what comes after
  it stays. The precondition of `EventuallyClean` excludes exactly this. Untagged
  ports and subnets are reclaimed through their network.
* The `runStage` of Neutron, Cinder and Keystone returns the first error in item
  order, which may be the `Canceled` of a sibling and hide the failure that caused
  it; the other four look for the cause. `OutcomeHonest` states the promise for
  those four.

## 5. Proofs

All theorems hold for every value of the constants under the named assumptions.

**ChurnEngineProofs, the schedule** (`NodeAssumption`, `AcyclicAssumption`,
`RollAssumption`, `RatioAssumption`), about `Schedule!Spec`. `ParentsPresent` is
not inductive alone: in the middle of a roll it survives because what is left to
delete is closed under present dependents. The invariant `SInv` is `TypeOK /\
PopCounts /\ ParentsPresent /\ RollClosed /\ RollUnderOneRoot`; from it follow
`ParentsArePresent` and `CounterIsExact` (together `InventoryIsSound`), `RollsAreClosed`, the action properties
`PinnedNodesStay` and `RollsTakeOneRoot`, and `PopulationIsBounded`.
`Descendants` is the least set closed under `Children`, and the lemmas on it use
only that.

**ChurnEngineProofs, the engine** (also `EngineAssumption`, `FaultAssumption`).
`ImplementsSchedule` is the step simulation from `ChurnEngine` to
`ChurnSchedule` under the identity on the four schedule variables: operation
steps stutter, decision steps map to the decision of the same name; so that the
engine inherits what the schedule promises (`EngineKeepsSchedule`).
`NodesAreSerial`, `ReadsAfterDone` and `NoAdmissionAfterCancel` come from the
invariant `EInv`: types, the inventory closed under parents, every dispatched
operation in range, only the newest one being launched, the per-node bookkeeping
(`last`, `create`, `del` point at operations of the node, in order), what a
dispatch captured, that an operation past `await` has all its dependencies done
unless it was cancelled (`Serial`), and that a retry is settled only after the
attempt before it (`SettledFirst`).

`RecordExact`, `RetriesAreSound` and `CallsFollowTheGraph` need the history of
an instance: its create, the delete that first tried to remove it, and the
creates of its node that took the delete over. `HInv` adds that these attempts
form a chain (`Chained`), that a verdict is never lost along it and agrees with
the cloud (`Verdicts`, `Instances`), that an attempt which ran knows its
parents' ids (`IdsKnown`), and that a delete waits for all that happened before
it under its node (`ChildrenFirst`, `SerialUnder`). `RollsDoNotOverlap` is
harder, since `await` only looks at direct dependencies. `RInv` is about all
that the dependencies of an operation lead to (`Behind`): a create or delete of
a rolling set has the earlier deletes or creates of the set behind it, except
those under its own root (`SetBehind`, `CreateBehind`, and what makes them
inductive), and what is behind an operation is done before it runs
(`BehindDone`).

**ChurnDataProofs, the buckets** (`BucketAssumption`). `BucketsExact` speaks of
what is read. Inductive is the bookkeeping behind it: a slot's counter is the
number of operations in flight in it (`FlightsCounted`), a sealed slot has none
and lies before the current one (`SealsSound`), and its outcomes are where
reading looks for them (`Reported`), so that sealing never loses one.

**ChurnDataProofs, the plans** (`PlansAssumption`: a scenario is of one of the
services or a mix with three shares, and a persona comes out of a mix only). For
every such set of scenarios, whatever its counts and ranges. `AcceptedScenariosPlan` speaks of the end
of a generation; inductive is `PlanInv`. Its part that all services share,
`Common`: the scenario in hand was validated, the plan is finite, its names are
unique, and no entry refers to a panic. Then one part per service: what an entry
of each kind refers to and which numbers it may carry (`NovaEntry`,
`OctaviaEntry`, ...), which names exist at which step of Generate
(`NovaGenerates`, ...), and which entries may not agree in a number or a target
(`ListenersApart`, `GrantsApart`, `Unshared`). Each action of a generator keeps
it by what Validate demanded: a prefix of a permutation is no longer than the
list, a modulus is not zero, a listener port is left for every listener of a
balancer (`QuotientBelow`). The end, `PlansPass`, is that such a plan meets every
check of `Plan.Validate`.

Sums over counts are folds of the library over a set, in an order `CHOOSE` fixes;
`SumTakesOut` shows from the fold's own recursive function that the order does
not matter, by a least counterexample instead of induction.

**ChurnDataProofs, the graphs.** `GraphInv` adds that the nodes are the graph of
the plan that was validated. A graph is right (`GraphRight`) when its keys are
unique, what a node reads is among its parents, every parent is a node of a
lower `Level` - a number the kind of a name has - a node acts on at most one
thing, under its gate, and a rolling node takes its children with it. That
holds of the graph of every service and persona; and because the layers of a
right graph grow until nothing is left (`NoCycle`), `GraphsFitEngine` follows.
With it the assumptions of `ChurnGraph`, on which the proofs about the scheduler and the engine rest, are what every builder provides.

**PressureEngineProofs** (`StageAssumption`). The argument for `StagesKeepApart`
goes through the parked counter: it is the number of workers parked since the
current stage was entered (`ParkedCounts`), so that once it closes `allParked`
no worker can draw before the next stage is entered, and an Enter is started
only then (`Quiet`). The windows are a recursive function of the stage, and what
is needed of them follows from a least counterexample.

**ApplyStagesProofs** (`StagesAssumption`, `ApplyAssumption`, and for
`CallsReady` and `OutcomeIsHonest` `OrderAssumption`). For every stage table.
`RecordComplete`: an acknowledged resource is in the result or held by a work
item of the running stage, and `Collect` empties the items into the result
(`NothingLost`). `CallsAreReady` and `OutcomeHonest`: `AInv` says that what the
stages before the running one plan is created and in the result (`Fetched`),
that an item without an error went through all of its calls up to where it is
(`Progress`), that a stage is only stopped for a real error or a cancelled Apply
(`StopsForCause`), and that an object in transition is waited for by the item
that wrote to it, or that item failed (`Spaced`).

**TokenPoolProofs** (`PoolAssumption`). `PoolSound` counts: for every pair, the
entries in the pools, the tokens taken by a worker or a probe and those a failed
reissue cost add up to what was primed. `PInv` adds what makes the count
inductive: a token that is taken is in no pool and is taken once (`Apart`), and
what Keystone did to each (`Verdicts`). `LockInv` (a churned grant is locked by
the one worker that churns it) gives `GrantsRestored`, and `MadeInv` gives
`GrantsAccounted`.

**ClientsProofs** (`ClientsAssumption`). `CInv` says of each object what its
kind and the steps of the call in progress allow (`ObjSound`, `CallSound`), and
`Matched` counts: the live objects nobody knows of are no more than the creates
that landed after a lookup had missed them. All the proof uses of the 37 recipes
is one lemma on the table (`KindFacts`).

**CommandsProofs** (`CommandsAssumption`, `LanesAssumption`). All the proofs use
of the thirty scripts is which step may follow which (`Flow`, lemma
`ScriptPaths`), so that the invariant speaks of the step a process is at and
never of an index; and every action is first shown to be one of a few kinds of
step (`Kind`, lemma `EveryStep`). The parts of `CInv`: run ids and what comes
before them (`Numbering`); only steps that create have creates in flight
(`Quiet`); nothing a record or a checkpoint names is still in flight or late,
and what of it exists is known (`Ledger`), without which a late create could be
dropped by the next record; at most one lane writes, from a copy that is current
(`Merging`), which is the mutex of `mix.Run`; the record of a run that finishes
(`Recorded`); who may lack the identity of its run (`Marking`: nothing a result,
a checkpoint or a record names, but a secret whose stamp failed), which
`CleanupReclaims` and `ExitZeroIsEarned` need and of which `EndsAreTagged` is a
part; apply's results exist until its own teardown (`Applied`); what a
lane left behind after its sweep arrived late (`Sweep`, `Emptied`), on which
`CleanupReclaims` and `IterationsStartEmpty` rest; and a churn run has no
Barbican order, the one kind the leak check does not list (`NoOrders`).

**CleanupProofs** (`CleanupAssumption`, `ScriptAssumption`, `HandleAssumption`,
`CloudAssumption`). What a cleanup has done is its position in the script.
`Discovered`: the listings behind that position hold all that was marked and is
alive. `Handled`: whatever a loop behind it was aimed at and still exists went
through the acts of the loop; `InWork` says the same of the loop under way, as
long as no call of it failed. `World`: nothing appears but what is late, and a
resource of the run is marked unless its kind is marked after its create or not
at all. With `TypeInv` they are inductive (`IInv`), and the assumptions on the
script turn a position into what is gone by then (`HandledBefore`,
`ClearedGone`). At the end of the script that is `CleanupsComplete`, before a
delete it is `DeletesStayRight`. `HandlesAreKept` is about single steps: when the
last handle of a resource goes, the resource goes in the same step. Its condition
`LinkedNeverLate`, that nothing which may appear late hangs on an order, holds of
every service but Barbican, and `MCCleanupLate.cfg` shows that Barbican's cleanup
loses a handle without it.

**Only model-checked.** Everything under fairness (`SetsMadeWhole`,
`CancelledRunReturns`, `RunReturns`, `RunEnds`, `DueIsReplaced`, `ApplyReturns`,
`CallsReturn`, `EventuallyClean`, `SignalledEnds`), since the prover does not
treat ENABLED. `TypeOK` of `TokenPool` is in no theorem, because the jobs of a
fan-out are sorted by an operator that is an induction over sets; `PInv` has the
types the other proofs need.

`PinnedStay`, `OneRootAtATime`, `NodeSerial`,
`NothingAdmittedAfterCancel`, `ParkedCounts` and the type invariants are the
other way round: proved for every instance, and in no run of their own.

## 6. Plan

Modelled is what runs, and every safety invariant a run checks is proved. What
could come next is more of the program: the Keystone tier that uses existing
roots, the lifecycle calls of servers and volumes, and the latency histogram of
a pressure run.

## 7. Not modelled

Reports and comparison format finished results. `status`, `report`, `generate`
and `list-networks` only read and print. Metrics and telemetry are counters
behind one mutex and an SDK. Configuration, authentication and quota look-ups
are I/O and one-shot arithmetic; that they can fail, and when, is part of
`Commands`. Left out of modelled parts: the weighted draw of an operation and
the latency histogram of the pressure engine, Keystone's project tier in apply,
names, sizes, payloads and YAML profiles of the scenarios, the lifecycle calls
of servers and volumes, the HTTP reads of the probe. The modules are composed
through their interfaces and not as one state machine: `Commands` takes from
apply, the engine and cleanup what their own runs show of them.
