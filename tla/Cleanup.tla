------------------------------- MODULE Cleanup -------------------------------
(***************************************************************************)
(* Cleanup, the teardown every service has: find what a run created, by    *)
(* the identity it wrote on it and in the run record, and delete it in     *)
(* reverse dependency order.  A cleanup is a script of steps (the table    *)
(* Script):                                                                *)
(*                                                                         *)
(*   list     one discovery request; the result is kept                    *)
(*   grants   the live role assignments of the users to be deleted         *)
(*   each     for every target of a kind, the calls of step.acts in order: *)
(*            send (a delete), wait (until it is gone), sweep (delete the  *)
(*            plain ports of a network), detach (the interfaces of a       *)
(*            router), disable (a domain)                                  *)
(*                                                                         *)
(* An interrupted apply or churn run left the state a cleanup starts from; *)
(* calls fail, the command is killed, and an operator runs it again.  The  *)
(* cloud is external: what pins what and what a delete takes along is what *)
(* the comments and error handling of the code rely on.                    *)
(***************************************************************************)
EXTENDS Integers, Sequences, FiniteSets

CONSTANTS
  Service,      \* the services whose cleanup is explored
  Resource,     \* the resources of all of them
  KindOf,       \* the kind of a resource
  ServiceOf,    \* the service it belongs to
  Foreign,      \* resources dizzy did not create
  Refs,         \* what a resource was created from
  Script,       \* Script[s]: the steps of the cleanup of service s
  Guarded,      \* services whose cleanup refuses an empty run id
  ByMark,       \* ByMark[s]: kinds the run's identity is searched on
  ByRecord,     \* ByRecord[s]: kinds reclaimed from the run record
  Through,      \* Through[r]: resources whose own cleanup reclaims r too
  Unmarkable,   \* kinds that carry no identity of the run
  MarkedLater,  \* kinds created first and marked by a second request
  Pins,         \* external: Pins[r]: whose delete is refused while r exists
  Cascades,     \* external: Cascades[r]: removed together with r
  Slow,         \* external: kinds whose accepted delete takes effect later
  DeviceOwned,  \* external: ports that have a device owner
  Late,         \* external: resources the cloud may add during a cleanup
  Concurrency,  \* workers of a batch that runs through runStage
  MaxFaults     \* bound on failed calls, timeouts and kills

ASSUME CleanupAssumption ==
  /\ Concurrency \in Nat \ {0}
  /\ MaxFaults \in Nat
  /\ Foreign \subseteq Resource /\ Late \subseteq Resource
  /\ DeviceOwned \subseteq Resource /\ Guarded \subseteq Service
  /\ \A r \in Resource : KindOf[r] # "linked"

VARIABLES
  svc,       \* the service
  named,     \* the run id is not empty
  marked,    \* resources that carry the identity of the run
  record,    \* the resources of the run record ({} without one)
  live,      \* resources that exist
  leaving,   \* those whose delete was accepted and has not taken effect
  settling,  \* load balancers in a PENDING status
  disabled,  \* domains that have been disabled
  awaited,   \* late resources that have not appeared
  phase,     \* "step", "each", "done", "failed", "killed", "refused"
  pc,        \* the step of the script
  found,     \* results of the discovery requests, by kind
  todo,      \* targets of the step no call was made for
  item,      \* targets in work, and the act each of them is in
  stop,      \* a call of the step failed
  faults,    \* failures so far
  had        \* history: resources some cleanup could have found

scenario == <<svc, named, marked, record>>
cloud == <<live, leaving, settling, disabled, awaited>>
run == <<phase, pc, found, todo, item, stop>>
vars == <<scenario, cloud, run, faults, had>>

-----------------------------------------------------------------------------
Own(s) == {r \in Resource : ServiceOf[r] = s} \ Foreign
Others(s) == {r \in Foreign : ServiceOf[r] = s}
OfKind(S, k) == {r \in S : KindOf[r] = k}

(***************************************************************************)
(* What the deletion orders have in common, and the cloud they are written *)
(* for.  Nothing below speaks of a state: these are facts about the        *)
(* scripts (the bodies of the seven Cleanup functions) and about what pins *)
(* what, from which the properties at the end of the module follow for     *)
(* every run, interruption and rerun.                                      *)
(***************************************************************************)
Acts == {"send", "wait", "sweep", "detach", "disable"}
ListStep == [do : {"list", "grants"}, kind : STRING]
LoopStep == [do : {"each"}, kind : STRING, acts : Seq(Acts) \ {<<>>},
             listed : BOOLEAN, recorded : BOOLEAN, owned : BOOLEAN,
             skipLinked : BOOLEAN, resend : BOOLEAN, pool : BOOLEAN]
Steps(s) == DOMAIN Script[s]

\* Loop h does act to its targets; it sends deletes for r.
Does(s, h, act) ==
  Script[s][h].do = "each" /\ \E a \in DOMAIN Script[s][h].acts : Script[s][h].acts[a] = act
MaySend(s, h, r) ==
  /\ Does(s, h, "send")
  /\ \/ Script[s][h].kind = KindOf[r]
     \/ Script[s][h].kind = "linked" /\ KindOf[r] = "secret"
\* In loop h every act comes after an earlier one.
ActAfter(s, h, act, earlier) ==
  \A b \in DOMAIN Script[s][h].acts : Script[s][h].acts[b] = act =>
    \E a \in DOMAIN Script[s][h].acts : a < b /\ Script[s][h].acts[a] = earlier

Lists(s, i, k) == Script[s][i].do = "list" /\ Script[s][i].kind = k
ListedBefore(s, h, k) == \E i \in Steps(s) : i < h /\ Lists(s, i, k)
\* What loop h leaves to the loop over the linked secrets, that loop has done.
SparesDone(s, h, act) ==
  Script[s][h].skipLinked =>
    \E g \in Steps(s) : g < h /\ Script[s][g].kind = "linked" /\ Does(s, g, act)

(***************************************************************************)
(* Before step j the script does act to everything of kind k it finds, and *)
(* to everything of kind k in the record; it has removed all of both.      *)
(***************************************************************************)
DoneByMark(s, h, k, act) ==
  /\ Does(s, h, act) /\ Script[s][h].kind = k /\ Script[s][h].listed
  /\ ListedBefore(s, h, k) /\ SparesDone(s, h, act)
DoneByRecord(s, h, k, act) ==
  /\ Does(s, h, act) /\ Script[s][h].kind = k /\ Script[s][h].recorded
  /\ SparesDone(s, h, act)
DoneBefore(s, j, k, act) ==
  /\ k \in ByMark[s] => \E h \in Steps(s) : h < j /\ DoneByMark(s, h, k, act)
  /\ k \in ByRecord[s] => \E h \in Steps(s) : h < j /\ DoneByRecord(s, h, k, act)
ClearedBefore(s, j, k) ==
  DoneBefore(s, j, k, "send") /\ (k \in Slow => DoneBefore(s, j, k, "wait"))

(***************************************************************************)
(* Every handle is used: what the run's identity or the record leads to is *)
(* deleted somewhere, and what others hang on is gone when the script      *)
(* ends.                                                                   *)
(***************************************************************************)
UsesHandles(s) ==
  /\ \A k \in ByMark[s] \cup ByRecord[s] : DoneBefore(s, Len(Script[s]) + 1, k, "send")
  /\ \A r \in Resource : \A t \in Through[r] :
       ServiceOf[t] = s => ClearedBefore(s, Len(Script[s]) + 1, KindOf[t])

(***************************************************************************)
(* The listings come before the loops that read them; the secrets the      *)
(* orders generated are looked up once, before any loop over secrets, and  *)
(* deleted before the orders; a domain is disabled before it is deleted.   *)
(***************************************************************************)
WellOrdered(s) ==
  /\ Script[s] \in Seq(ListStep \cup LoopStep)
  /\ \A h, i \in Steps(s) :
       /\ Script[s][h].do = "grants" /\ Script[s][i].do = "list" =>
            Script[s][h].kind # Script[s][i].kind
       /\ Lists(s, i, "order") /\ Script[s][h].do = "each"
          /\ (Script[s][h].kind = "linked" \/ Script[s][h].skipLinked) => i < h
  /\ \A h \in Steps(s) :
       /\ Script[s][h].do # "each" => Script[s][h].kind # "linked"
       /\ Script[s][h].do = "each" /\ Script[s][h].skipLinked =>
            \E g \in Steps(s) : Script[s][g].kind = "linked"
       /\ Script[s][h].do = "each" /\ Script[s][h].kind = "linked" =>
            Script[s][h].listed /\ ~Script[s][h].recorded /\ ~Script[s][h].skipLinked
       /\ Script[s][h].do = "each" /\ Script[s][h].kind = "domain" =>
            ActAfter(s, h, "send", "disable")
       /\ Does(s, h, "send") /\ Script[s][h].kind = "order" =>
            \E i, g \in Steps(s) : i < g /\ g < h /\ Lists(s, i, "order")
              /\ Script[s][g].kind = "linked" /\ Does(s, g, "send")

(***************************************************************************)
(* Before a delete is sent, whatever could pin its target and has a handle *)
(* is gone: by its own handle, because what it hangs on is gone, or as a   *)
(* port of a network that was swept or an interface of a router that was   *)
(* detached.                                                               *)
(***************************************************************************)
SweptBefore(s, j, r, t, q) ==
  /\ KindOf[q] = "port" /\ t \in Refs[q] /\ q \notin DeviceOwned
  /\ \/ DoneBefore(s, j, KindOf[t], "sweep")
     \/ t = r /\ ActAfter(s, j, "send", "sweep")
DetachedBefore(s, j, t, q) ==
  /\ KindOf[q] = "router_interface" /\ t \in Refs[q]
  /\ DoneBefore(s, j, KindOf[t], "detach")
UnusedWhenSent(s) ==
  \A j \in Steps(s), r \in Own(s), q \in Resource :
    MaySend(s, j, r) /\ r \in Pins[q] /\ ServiceOf[q] = s =>
      /\ q \notin Foreign => ClearedBefore(s, j, KindOf[q])
      /\ \A t \in Through[q] : \/ ClearedBefore(s, j, KindOf[t])
                               \/ SweptBefore(s, j, r, t, q)
                               \/ DetachedBefore(s, j, t, q)

\* A server is always marked, and gone before a network is swept.
ServersFirst(s) ==
  \A q \in Own(s) : KindOf[q] = "server" =>
    /\ q \notin Late /\ KindOf[q] \notin MarkedLater \cup Unmarkable
    /\ KindOf[q] \in ByMark[s]
    /\ \A j \in Steps(s) : Does(s, j, "sweep") => ClearedBefore(s, j, KindOf[q])

ASSUME ScriptAssumption ==
  \A s \in Service : /\ WellOrdered(s) /\ UsesHandles(s)
                     /\ UnusedWhenSent(s) /\ ServersFirst(s)

(***************************************************************************)
(* What hangs on a resource goes with it, or keeps it from being deleted,  *)
(* or is a secret its order generated; ports and router interfaces hold    *)
(* nothing.                                                                *)
(***************************************************************************)
ASSUME HandleAssumption ==
  \A r \in Resource : \A t \in Through[r] :
    /\ t \in Resource /\ ServiceOf[t] = ServiceOf[r] /\ r \notin Foreign
    /\ KindOf[t] \notin {"port", "router_interface"}
    /\ \A q \in Resource : t \in Cascades[q] => r \in Cascades[q]
    /\ \/ r \in Cascades[t]
       \/ t \in Pins[r] /\ KindOf[t] \notin Slow
       \/ KindOf[t] = "order"
    /\ KindOf[t] = "order" =>
         /\ KindOf[r] = "secret" /\ {"order", "secret"} \cap Slow = {}
         /\ t \notin Late /\ "order" \notin MarkedLater \cup Unmarkable

(***************************************************************************)
(* Nothing dizzy did not create goes with a resource of a run, and no      *)
(* server of somebody else uses a port of a run; late ports are the DHCP   *)
(* agent's.                                                                *)
(***************************************************************************)
ASSUME CloudAssumption ==
  /\ \A r \in Resource \ Foreign : Cascades[r] \cap Foreign = {}
  /\ \A q \in Foreign : KindOf[q] = "server" =>
       \A p \in Refs[q] : p \in Foreign \/ KindOf[p] # "port"
  /\ \A r \in Late : /\ KindOf[r] # "router_interface"
                     /\ KindOf[r] = "port" => r \in DeviceOwned

-----------------------------------------------------------------------------
Step == Script[svc][pc]
Act(r) == Step.acts[item[r]]

(***************************************************************************)
(* Handles.  A resource is reclaimed by a cleanup that finds its identity, *)
(* that has it in the record, or that reclaims a resource it hangs on: a   *)
(* plain port or a subnet of a network, an interface of a router, the      *)
(* secret an order generated.                                              *)
(***************************************************************************)
Direct == {r \in live : \/ r \in marked /\ KindOf[r] \in ByMark[svc]
                        \/ r \in record /\ KindOf[r] \in ByRecord[svc]}
Reach == Direct \cup {r \in live : Through[r] \cap Direct # {}}

(***************************************************************************)
(* The cloud's refusals: something still uses r, or r is not in a state in *)
(* which it can be deleted.                                                *)
(***************************************************************************)
Holders(r) == {q \in live : r \in Pins[q]}
Unready(r) == r \in settling \/ (KindOf[r] = "domain" /\ r \notin disabled)
Gone(r) == {r} \cup Cascades[r]

(***************************************************************************)
(* What an interrupted run leaves: resources closed under what they were   *)
(* created from, of which at most one was not marked yet (it is nobody's   *)
(* parent), and a record that is missing or lists what was created.  The   *)
(* record has no resource whose create failed at the marking, except a     *)
(* Barbican secret, which is recorded before it is stamped.                *)
(***************************************************************************)
Init ==
  /\ svc \in Service
  /\ named \in BOOLEAN /\ (svc \notin Guarded => named)
  /\ \E made \in SUBSET (Own(svc) \ Late), others \in SUBSET Others(svc) :
     \E orphan \in SUBSET made :
       /\ \A r \in made \cup others : Refs[r] \subseteq (made \cup others) \ orphan
       /\ Cardinality(orphan) <= 1
       /\ \A r \in orphan : KindOf[r] \in MarkedLater
       /\ live = made \cup others
       /\ marked = {r \in made \ orphan : KindOf[r] \notin Unmarkable}
       /\ record \in {{}, made \ orphan} \cup
                     {made : r \in OfKind(orphan, "secret")}
       /\ settling \in SUBSET OfKind(made, "loadbalancer")
  /\ leaving = {}
  /\ disabled = {}
  /\ awaited = Late \cap Own(svc)
  /\ phase = "step"
  /\ pc = 1
  /\ found = [k \in {Script[svc][i].kind : i \in DOMAIN Script[svc]} |-> {}]
  /\ todo = {}
  /\ item = <<>>
  /\ stop = FALSE
  /\ faults = 0
  /\ had = Reach

-----------------------------------------------------------------------------
(***************************************************************************)
(* An empty run id would match every resource without the identity; the    *)
(* guard refuses it before any request.  Neutron needs no guard: its tag   *)
(* filter is exact and nothing carries dizzy:run= alone.                   *)
(***************************************************************************)
RefusesEmptyID == ~named /\ svc \in Guarded

Refuse ==
  /\ phase = "step" /\ pc = 1 /\ RefusesEmptyID
  /\ phase' = "refused"
  /\ UNCHANGED <<scenario, cloud, pc, found, todo, item, stop, faults>>

Listed(k) == {r \in OfKind(live, k) : (r \in marked) = named}

InStep(do) == phase = "step" /\ ~RefusesEmptyID /\ pc <= Len(Script[svc])
              /\ Step.do = do

(***************************************************************************)
(* A discovery request.  The order listing of Barbican also names the      *)
(* secret each order generated.                                            *)
(***************************************************************************)
ListUnlinked ==   \* mutant: what the orders generated is not looked up
  /\ InStep("list")
  /\ found' = [found EXCEPT ![Step.kind] = Listed(Step.kind)]
  /\ pc' = pc + 1
  /\ UNCHANGED <<scenario, cloud, phase, todo, item, stop, faults>>
List ==
  /\ InStep("list")
  /\ LET listed == Listed(Step.kind)
         linked == {r \in live : Through[r] \cap listed # {}}
     IN found' = [k \in DOMAIN found |->
                    IF k = Step.kind THEN listed
                    ELSE IF k = "linked" /\ Step.kind = "order" THEN linked
                    ELSE found[k]]
  /\ pc' = pc + 1
  /\ UNCHANGED <<scenario, cloud, phase, todo, item, stop, faults>>

Recorded(k) == OfKind(record, k)
TargetsListedOnly(step) ==   \* mutant: the record is not consulted
  IF step.listed THEN found[step.kind] ELSE {}
Targets(step) ==
  LET all == (IF step.listed THEN found[step.kind] ELSE {}) \cup
             (IF step.recorded THEN Recorded(step.kind) ELSE {})
      kept == IF step.skipLinked THEN all \ found["linked"] ELSE all
  IN IF step.owned THEN kept \ Foreign ELSE kept

Grants ==
  /\ InStep("grants")
  /\ found' = [found EXCEPT ![Step.kind] =
                 {r \in OfKind(live, Step.kind) :
                    Through[r] \cap (found["user"] \cup Recorded("user")) # {}}]
  /\ pc' = pc + 1
  /\ UNCHANGED <<scenario, cloud, phase, todo, item, stop, faults>>

ListFails ==
  /\ InStep("list") \/ InStep("grants")
  /\ faults < MaxFaults
  /\ phase' = "failed"
  /\ faults' = faults + 1
  /\ UNCHANGED <<scenario, cloud, pc, found, todo, item, stop>>

-----------------------------------------------------------------------------
(***************************************************************************)
(* A loop over the targets, one at a time or through runStage.             *)
(***************************************************************************)
Load ==
  /\ InStep("each")
  /\ todo' = Targets(Step)
  /\ phase' = "each"
  /\ UNCHANGED <<scenario, cloud, pc, found, item, stop, faults>>

Width == IF Step.pool THEN Concurrency ELSE 1

Take(r) ==
  /\ phase = "each" /\ ~stop
  /\ r \in todo
  /\ Cardinality(DOMAIN item) < Width
  /\ todo' = todo \ {r}
  /\ item' = [q \in DOMAIN item \cup {r} |-> IF q = r THEN 1 ELSE item[q]]
  /\ UNCHANGED <<scenario, cloud, phase, pc, found, stop, faults>>

InAct(r, act) == phase = "each" /\ r \in DOMAIN item /\ Act(r) = act
Drop(r) == [q \in DOMAIN item \ {r} |-> item[q]]
Advance(r) ==
  item' = IF item[r] = Len(Step.acts) THEN Drop(r)
          ELSE [item EXCEPT ![r] = @ + 1]
Fails(r) == item' = Drop(r) /\ stop' = TRUE

StepDone ==
  /\ phase = "each" /\ todo = {} /\ DOMAIN item = {} /\ ~stop
  /\ phase' = "step"
  /\ pc' = pc + 1
  /\ UNCHANGED <<scenario, cloud, found, todo, item, stop, faults>>

StepFailed ==
  /\ phase = "each" /\ stop /\ DOMAIN item = {}
  /\ phase' = "failed"
  /\ UNCHANGED <<scenario, cloud, pc, found, todo, item, stop, faults>>

Return ==
  /\ phase = "step" /\ ~RefusesEmptyID /\ pc > Len(Script[svc])
  /\ phase' = "done"
  /\ UNCHANGED <<scenario, cloud, pc, found, todo, item, stop, faults>>

-----------------------------------------------------------------------------
(***************************************************************************)
(* A delete.  An already-gone resource (404) is a success that skips the   *)
(* wait; a conflict stops the cleanup, unless the step sends it again.     *)
(***************************************************************************)
NotFoundFails(r) == Fails(r)   \* mutant: a 404 is an error
NotFound(r) == item' = Drop(r) /\ UNCHANGED stop

SendGone(r) ==
  /\ InAct(r, "send") \/ InAct(r, "disable")
  /\ r \notin live
  /\ NotFound(r)
  /\ UNCHANGED <<scenario, cloud, phase, pc, found, todo, faults>>

Deletable(r) == r \in live /\ Holders(r) = {} /\ ~Unready(r)
Effect(r) ==
  IF KindOf[r] \in Slow
  THEN leaving' = leaving \cup {r} /\ UNCHANGED live
  ELSE live' = live \ Gone(r) /\ UNCHANGED leaving

SendAccepted(r) ==
  /\ InAct(r, "send")
  /\ Deletable(r)
  /\ Effect(r)
  /\ Advance(r)
  /\ UNCHANGED <<scenario, settling, disabled, awaited, phase, pc, found,
                 todo, stop, faults>>

(***************************************************************************)
(* deleteResending waits and sends again, so a refusal is final only when  *)
(* opTimeout has passed; a load balancer settles well before that.         *)
(***************************************************************************)
SendRefused(r) ==
  /\ InAct(r, "send")
  /\ r \in live /\ ~Deletable(r)
  /\ Step.resend => Holders(r) # {}
  /\ Fails(r)
  /\ UNCHANGED <<scenario, cloud, phase, pc, found, todo, faults>>

WaitForGoneOnce(r) ==   \* mutant: the first answer ends the wait
  /\ InAct(r, "wait")
  /\ Advance(r)
  /\ UNCHANGED <<scenario, cloud, phase, pc, found, todo, stop, faults>>
WaitForGone(r) ==
  /\ InAct(r, "wait")
  /\ r \notin live
  /\ Advance(r)
  /\ UNCHANGED <<scenario, cloud, phase, pc, found, todo, stop, faults>>

(***************************************************************************)
(* DeleteNetworkPorts: the ports on the network without a device owner.    *)
(***************************************************************************)
HasOwner(p) == p \in DeviceOwned
               \/ \E q \in OfKind(live, "server") : p \in Refs[q]
PlainPorts(n) == {p \in OfKind(live, "port") : n \in Refs[p] /\ ~HasOwner(p)}

Sweep(n) ==
  /\ InAct(n, "sweep")
  /\ IF PlainPorts(n) = {} THEN Advance(n) /\ UNCHANGED <<live, stop>>
     ELSE \E p \in PlainPorts(n) :
            IF Holders(p) = {} THEN live' = live \ {p} /\ UNCHANGED <<item, stop>>
            ELSE Fails(n) /\ UNCHANGED live
  /\ UNCHANGED <<scenario, leaving, settling, disabled, awaited, phase, pc,
                 found, todo, faults>>

DetachRouterInterfaces(n) ==
  /\ InAct(n, "detach")
  /\ LET interfaces == {i \in OfKind(live, "router_interface") : n \in Refs[i]}
     IN IF interfaces = {} THEN Advance(n) /\ UNCHANGED <<live, stop>>
        ELSE \E i \in interfaces :
               IF Holders(i) = {}
               THEN live' = live \ {i} /\ UNCHANGED <<item, stop>>
               ELSE Fails(n) /\ UNCHANGED live
  /\ UNCHANGED <<scenario, leaving, settling, disabled, awaited, phase, pc,
                 found, todo, faults>>

DisableDomain(r) ==
  /\ InAct(r, "disable")
  /\ r \in live
  /\ disabled' = disabled \cup {r}
  /\ Advance(r)
  /\ UNCHANGED <<scenario, live, leaving, settling, awaited, phase, pc, found,
                 todo, stop, faults>>

-----------------------------------------------------------------------------
(***************************************************************************)
(* Failures.  A call fails or times out, before it had an effect or after  *)
(* it (a lost answer); the siblings in the pool are cancelled with it; the *)
(* command is killed; an operator runs the cleanup again.                  *)
(***************************************************************************)
CallFails(r) ==
  /\ phase = "each" /\ r \in DOMAIN item
  /\ faults < MaxFaults
  /\ faults' = faults + 1
  /\ Fails(r)
  /\ \/ UNCHANGED <<live, leaving>>
     \/ Act(r) = "send" /\ Deletable(r) /\ Effect(r)
  /\ UNCHANGED <<scenario, settling, disabled, awaited, phase, pc, found, todo>>

CancelledWithStage(r) ==
  /\ phase = "each" /\ stop /\ r \in DOMAIN item
  /\ item' = Drop(r)
  /\ UNCHANGED <<scenario, cloud, phase, pc, found, todo, stop, faults>>

Kill ==
  /\ phase \in {"step", "each"} /\ ~RefusesEmptyID
  /\ faults < MaxFaults
  /\ faults' = faults + 1
  /\ phase' = "killed"
  /\ UNCHANGED <<scenario, cloud, pc, found, todo, item, stop>>

Rerun ==
  /\ phase \in {"failed", "killed"}
  /\ phase' = "step"
  /\ pc' = 1
  /\ found' = [k \in DOMAIN found |-> {}]
  /\ todo' = {}
  /\ item' = <<>>
  /\ stop' = FALSE
  /\ UNCHANGED <<scenario, cloud, faults>>

(***************************************************************************)
(* The cloud: an accepted delete takes effect, a load balancer leaves its  *)
(* PENDING status, a late resource appears.                                *)
(***************************************************************************)
Vanish(r) ==
  /\ r \in leaving
  /\ live' = live \ Gone(r)
  /\ leaving' = leaving \ Gone(r)
  /\ UNCHANGED <<scenario, settling, disabled, awaited, run, faults>>

Settle(r) ==
  /\ r \in settling
  /\ settling' = settling \ {r}
  /\ UNCHANGED <<scenario, live, leaving, disabled, awaited, run, faults>>

Appear(r) ==
  /\ r \in awaited
  /\ Refs[r] \subseteq live \ leaving
  /\ awaited' = awaited \ {r}
  /\ live' = live \cup {r}
  /\ UNCHANGED <<scenario, leaving, settling, disabled, run, faults>>

Call(r) ==
  \/ Take(r) \/ SendGone(r) \/ SendAccepted(r) \/ SendRefused(r)
  \/ WaitForGone(r) \/ Sweep(r) \/ DetachRouterInterfaces(r)
  \/ DisableDomain(r) \/ CancelledWithStage(r)
Progress == Refuse \/ List \/ Grants \/ Load \/ StepDone \/ StepFailed
            \/ Return \/ \E r \in Resource : Call(r)
CloudStep(r) == Vanish(r) \/ Settle(r) \/ Appear(r)

Next ==
  /\ \/ Progress
     \/ ListFails \/ Kill \/ Rerun
     \/ \E r \in Resource : CallFails(r) \/ CloudStep(r)
  /\ had' = had \cup Reach'

Keeps(A) == A /\ had' = had \cup Reach'
Spec == Init /\ [][Next]_vars
FairSpec ==
  /\ Spec
  /\ WF_vars(Keeps(Progress))
  /\ WF_vars(Keeps(Rerun))
  /\ \A r \in Resource : WF_vars(Keeps(CloudStep(r)))

-----------------------------------------------------------------------------
(***************************************************************************)
(* A cleanup that returns without an error has deleted every resource a    *)
(* handle leads to; one whose delete is only accepted may still be there.  *)
(***************************************************************************)
CleanupComplete == phase = "done" => Reach \subseteq leaving

(***************************************************************************)
(* Only the right deletes are sent, in the right order, whatever failed or *)
(* was interrupted before: none for a resource something reclaimable still *)
(* uses or for an enabled domain, so that what refuses a delete is         *)
(* something the cleanup has no handle for; and none that takes with it    *)
(* what dizzy did not create, not by an empty run id, a sweep of a         *)
(* network, a cascade or a reused domain.                                  *)
(***************************************************************************)
DeletesAreRight ==
  \A r \in live : InAct(r, "send") =>
    /\ Holders(r) \cap Reach = {}
    /\ KindOf[r] = "domain" => r \in disabled
    /\ Gone(r) \cap live \cap Foreign = {}

(***************************************************************************)
(* At no point does a cleanup delete the last handle of something that     *)
(* still exists: stopped there, a rerun would not find it.                 *)
(***************************************************************************)
NoHandleLost == live \cap had \subseteq Reach

(***************************************************************************)
(* With a bounded number of failures and kills, an operator who runs the   *)
(* cleanup again comes to one that returns without an error, unless        *)
(* something without a handle pins a resource of the run.                  *)
(***************************************************************************)
Pinned == \E q \in live \ Reach : Pins[q] \cap Reach # {}
EventuallyClean == [](named /\ ~Pinned) => <>(phase = "done")

=============================================================================
