---------------------------- MODULE CleanupProofs ----------------------------
(***************************************************************************)
(* Proofs about the cleanups, for every set of resources, every script     *)
(* that is ordered as the seven scripts are, and any number of failures,   *)
(* kills, reruns and late resources.                                       *)
(*                                                                         *)
(* What a cleanup has done so far is the position in its script: Handled   *)
(* says of every loop behind that position that what it was aimed at and   *)
(* still exists has been treated, InWork says it of the loop under way.    *)
(* Both rest on Discovered (the listings hold whatever the run marked and  *)
(* is alive) and on World (what exists only shrinks, but for resources     *)
(* that were never found).  ScriptAssumption then turns a position into    *)
(* what is gone by then.                                                   *)
(***************************************************************************)
EXTENDS Cleanup, TLAPS

Kinds(s) == {Script[s][i].kind : i \in DOMAIN Script[s]}

\* Found and treated things are the run's.
Found == (UNION {found[k] : k \in DOMAIN found}) \cup todo \cup DOMAIN item

TypeInv ==
  /\ svc \in Service /\ named \in BOOLEAN /\ (svc \notin Guarded => named)
  /\ phase \in {"step", "each", "done", "failed", "killed", "refused"}
  /\ pc \in 1..(Len(Script[svc]) + 1)
  /\ phase = "each" => /\ pc \in DOMAIN Script[svc] /\ Step.do = "each"
                       /\ \A r \in DOMAIN item : item[r] \in DOMAIN Step.acts
  /\ phase = "done" => pc = Len(Script[svc]) + 1
  /\ phase = "step" => todo = {} /\ DOMAIN item = {} /\ ~stop
  /\ ~named => phase \in {"step", "refused"} /\ pc = 1 /\ leaving = {}
  /\ DOMAIN found = Kinds(svc)

World ==
  /\ marked \subseteq Own(svc) /\ record \subseteq Own(svc)
  /\ live \subseteq Resource /\ \A r \in live : ServiceOf[r] = svc
  /\ awaited \subseteq Late /\ awaited \cap (live \cup had \cup marked \cup record) = {}
  /\ awaited \subseteq Own(svc)
  /\ \A r \in leaving : KindOf[r] \in Slow
  /\ \A r \in (live \cap Own(svc)) \ Late :
       KindOf[r] \notin MarkedLater \cup Unmarkable => r \in marked
  /\ Found \subseteq Own(svc) \ awaited

\* r is one of the resources loop h deletes or treats.
Aimed(h, r) ==
  IF Script[svc][h].kind = "linked" THEN r \in found["linked"]
  ELSE /\ KindOf[r] = Script[svc][h].kind
       /\ \/ Script[svc][h].listed /\ ListedBefore(svc, h, KindOf[r]) /\ r \in marked
          \/ Script[svc][h].recorded /\ r \in record
       /\ Script[svc][h].skipLinked => r \notin found["linked"]

\* The act was done to r, or r is gone.
ActDone(r, act) ==
  r \in live =>
    /\ act = "send" => r \in leaving
    /\ act # "wait"
    /\ act = "sweep" => \A p \in OfKind(live, "port") :
                          r \in Refs[p] => p \in DeviceOwned \cup Foreign
    /\ act = "detach" => \A i \in OfKind(live, "router_interface") : r \notin Refs[i]
    /\ act = "disable" => r \in disabled
LoopDone(h, r) ==
  \A a \in DOMAIN Script[svc][h].acts : ActDone(r, Script[svc][h].acts[a])

Working == phase \in {"step", "each", "done"}
OfStep(r) == KindOf[r] = Step.kind \/ (Step.kind = "linked" /\ KindOf[r] = "secret")

Discovered ==
  /\ \A k \in DOMAIN found : \A r \in found[k] :
       KindOf[r] = k \/ (k = "linked" /\ KindOf[r] = "secret")
  /\ Working => \A i \in 1..(pc - 1) : Script[svc][i].do = "list" =>
       /\ OfKind(marked \cap live, Script[svc][i].kind) \subseteq found[Script[svc][i].kind]
       /\ Script[svc][i].kind = "order" /\ "linked" \in DOMAIN found =>
            \A r \in live \ Late : \A t \in Through[r] :
              KindOf[t] = "order" /\ t \in marked \cap live => r \in found["linked"]

Handled ==
  Working => \A h \in 1..(pc - 1) : Script[svc][h].do = "each" =>
    \A r \in live : Aimed(h, r) => LoopDone(h, r)

InWork ==
  phase = "each" =>
    /\ \A r \in todo \cup DOMAIN item : OfStep(r)
    /\ ~stop => \A r \in live : Aimed(pc, r) =>
         r \in todo \/ r \in DOMAIN item \/ LoopDone(pc, r)
    /\ \A r \in DOMAIN item : \A a \in DOMAIN Step.acts :
         a < item[r] => ActDone(r, Step.acts[a])

IInv == TypeInv /\ World /\ Discovered /\ Handled /\ InWork

-----------------------------------------------------------------------------
(***************************************************************************)
(* What a step may do to the cloud: nothing appears but a resource that    *)
(* was awaited, and what is being deleted stays so while it exists.        *)
(***************************************************************************)
Moves ==
  /\ UNCHANGED scenario
  /\ awaited' \subseteq awaited /\ live' \subseteq live \cup (awaited \ awaited')
  /\ leaving \cap live' \subseteq leaving'
  /\ \A r \in leaving' \ leaving : KindOf[r] \in Slow
  /\ disabled \subseteq disabled'
  /\ had' \subseteq had \cup live'

LEMMA ReachIsLive == Reach \subseteq live /\ Reach' \subseteq live'
BY DEF Reach, Direct

LEMMA StepMoves == [Next]_vars => Moves
<1> SUFFICES ASSUME [Next]_vars PROVE Moves
  OBVIOUS
<1>1. CASE UNCHANGED vars
  BY <1>1 DEF Moves, vars, scenario, cloud
<1> SUFFICES ASSUME Next PROVE Moves
  BY <1>1
<1>2. had' \subseteq had \cup live'
  BY ReachIsLive DEF Next
<1> DEFINE Still == UNCHANGED <<scenario, cloud>>
           Shrinks == /\ UNCHANGED <<scenario, awaited>> /\ disabled \subseteq disabled'
                      /\ live' \subseteq live /\ leaving \cap live' \subseteq leaving'
                      /\ \A r \in leaving' \ leaving : KindOf[r] \in Slow
<1>3. ASSUME Still PROVE Moves
  BY <1>2, <1>3 DEF Moves, cloud
<1>4. ASSUME Shrinks PROVE Moves
  BY <1>2, <1>4 DEF Moves
<1>5. ASSUME NEW r, Effect(r), UNCHANGED <<scenario, awaited, disabled>> PROVE Shrinks
  BY <1>5 DEF Effect
<1>6. CASE Refuse \/ List \/ Grants \/ Load \/ StepDone \/ StepFailed \/ Return
  <2>1. Still
    BY <1>6 DEF Refuse, List, Grants, Load, StepDone, StepFailed, Return
  <2> QED BY <1>3, <2>1
<1>7. ASSUME NEW r \in Resource, Call(r) PROVE Moves
  <2>1. CASE Take(r) \/ SendGone(r) \/ SendRefused(r) \/ WaitForGone(r) \/ CancelledWithStage(r)
    <3>1. Still
      BY <2>1 DEF Take, SendGone, SendRefused, WaitForGone, CancelledWithStage
    <3> QED BY <1>3, <3>1
  <2>2. CASE SendAccepted(r)
    BY <1>4, <1>5, <2>2 DEF SendAccepted
  <2>3. CASE Sweep(r) \/ DetachRouterInterfaces(r)
    <3>1. live' \subseteq live /\ UNCHANGED <<scenario, awaited, leaving, disabled>>
      BY <2>3 DEF Sweep, DetachRouterInterfaces
    <3>2. Shrinks
      BY <3>1
    <3> QED BY <1>4, <3>2
  <2>4. CASE DisableDomain(r)
    BY <1>4, <2>4 DEF DisableDomain
  <2> QED BY <1>7, <2>1, <2>2, <2>3, <2>4 DEF Call
<1>8. CASE ListFails \/ Kill \/ Rerun
  <2>1. Still
    BY <1>8 DEF ListFails, Kill, Rerun
  <2> QED BY <1>3, <2>1
<1>9. ASSUME NEW r \in Resource, CallFails(r) PROVE Moves
  <2>1. CASE UNCHANGED <<live, leaving>>
    BY <1>4, <1>9, <2>1 DEF CallFails
  <2>2. CASE Effect(r)
    BY <1>4, <1>5, <1>9, <2>2 DEF CallFails
  <2> QED BY <1>9, <2>1, <2>2 DEF CallFails
<1>10. ASSUME NEW r \in Resource, CloudStep(r) PROVE Moves
  <2>1. CASE Vanish(r)
    BY <1>4, <2>1 DEF Vanish
  <2>2. CASE Settle(r)
    BY <1>4, <2>2 DEF Settle
  <2>3. CASE Appear(r)
    BY <1>2, <2>3 DEF Appear, Moves
  <2> QED BY <1>10, <2>1, <2>2, <2>3 DEF CloudStep
<1> QED BY <1>6, <1>7, <1>8, <1>9, <1>10 DEF Next, Progress

-----------------------------------------------------------------------------
LEMMA ScriptShape ==
  ASSUME NEW s \in Service
  PROVE  /\ Len(Script[s]) \in Nat /\ Steps(s) = 1..Len(Script[s])
         /\ \A i \in Steps(s) : Script[s][i] \in ListStep \cup LoopStep
         /\ \A i \in Steps(s) : Script[s][i].do = "each" =>
              /\ Script[s][i].acts \in Seq(Acts) /\ Script[s][i].acts # <<>>
              /\ Script[s][i].listed \in BOOLEAN /\ Script[s][i].skipLinked \in BOOLEAN
<1>1. Script[s] \in Seq(ListStep \cup LoopStep)
  BY ScriptAssumption DEF WellOrdered
<1>2. \A i \in Steps(s) : Script[s][i] \in ListStep \cup LoopStep
  BY <1>1 DEF Steps
<1>3. ASSUME NEW i \in Steps(s), Script[s][i].do = "each"
      PROVE  /\ Script[s][i].acts \in Seq(Acts) /\ Script[s][i].acts # <<>>
             /\ Script[s][i].listed \in BOOLEAN /\ Script[s][i].skipLinked \in BOOLEAN
  <2>1. Script[s][i] \notin ListStep
    BY <1>3 DEF ListStep
  <2>2. Script[s][i] \in LoopStep
    BY <1>2, <2>1
  <2> QED BY <2>2 DEF LoopStep
<1> QED BY <1>1, <1>2, <1>3 DEF Steps

LEMMA InitInv == Init => IInv
<1> SUFFICES ASSUME Init PROVE IInv
  OBVIOUS
<1>1. /\ svc \in Service /\ named \in BOOLEAN /\ (svc \notin Guarded => named)
      /\ phase = "step" /\ pc = 1 /\ leaving = {} /\ todo = {} /\ stop = FALSE
      /\ DOMAIN item = {} /\ DOMAIN found = Kinds(svc)
      /\ \A k \in DOMAIN found : found[k] = {}
  BY DEF Init, Kinds
<1>2. TypeInv
  BY <1>1, ScriptShape DEF TypeInv
<1>3. Found = {}
  BY <1>1 DEF Found
<1>4. World
  <2>1. PICK made \in SUBSET (Own(svc) \ Late), others \in SUBSET Others(svc) :
          \E orphan \in SUBSET made :
            /\ \A r \in orphan : KindOf[r] \in MarkedLater
            /\ live = made \cup others
            /\ marked = {r \in made \ orphan : KindOf[r] \notin Unmarkable}
            /\ record \subseteq made
    BY DEF Init
  <2>2. marked \subseteq made /\ record \subseteq made /\ live = made \cup others
        /\ \A r \in made : KindOf[r] \notin MarkedLater \cup Unmarkable => r \in marked
    BY <2>1
  <2>3. made \subseteq Own(svc) /\ others \cap Own(svc) = {}
        /\ \A r \in live : r \in Resource /\ ServiceOf[r] = svc
    BY <2>2, CleanupAssumption DEF Own, Others
  <2>4. awaited = Late \cap Own(svc) /\ had \subseteq live
    BY ReachIsLive DEF Init
  <2>5. awaited \cap (live \cup had \cup marked \cup record) = {}
    BY <2>2, <2>3, <2>4
  <2>6. \A r \in (live \cap Own(svc)) \ Late :
          KindOf[r] \notin MarkedLater \cup Unmarkable => r \in marked
    BY <2>2, <2>3
  <2> QED BY <1>1, <1>3, <2>2, <2>3, <2>4, <2>5, <2>6 DEF World
<1>5. Discovered /\ Handled /\ InWork
  BY <1>1 DEF Discovered, Handled, InWork
<1> QED BY <1>2, <1>4, <1>5 DEF IInv

-----------------------------------------------------------------------------
(***************************************************************************)
(* What was done to a resource stays done: the only ports and interfaces   *)
(* that appear belong to the DHCP agent.                                   *)
(***************************************************************************)
LEMMA ActStays ==
  ASSUME World, Moves, NEW r, r \notin awaited, NEW act, ActDone(r, act)
  PROVE  ActDone(r, act)'
<1> SUFFICES ASSUME r \in live'
             PROVE  /\ act = "send" => r \in leaving'
                    /\ act # "wait"
                    /\ act = "sweep" => \A p \in OfKind(live', "port") :
                                          r \in Refs[p] => p \in DeviceOwned \cup Foreign
                    /\ act = "detach" => \A i \in OfKind(live', "router_interface") :
                                          r \notin Refs[i]
                    /\ act = "disable" => r \in disabled'
  BY DEF ActDone, OfKind
<1>1. r \in live
  BY DEF Moves
<1>2. \A q \in live' \ live : q \in Late
  BY DEF World, Moves
<1>3. \A q \in live' \ live : /\ KindOf[q] # "router_interface"
                              /\ KindOf[q] = "port" => q \in DeviceOwned
  BY <1>2, CloudAssumption
<1>4. act = "send" => r \in leaving'
  BY <1>1 DEF ActDone, Moves
<1>5. act = "sweep" => \A p \in OfKind(live', "port") :
                        r \in Refs[p] => p \in DeviceOwned \cup Foreign
  BY <1>1, <1>3 DEF ActDone, OfKind
<1>6. act = "detach" => \A i \in OfKind(live', "router_interface") : r \notin Refs[i]
  BY <1>1, <1>3 DEF ActDone, OfKind
<1>7. act # "wait" /\ (act = "disable" => r \in disabled')
  BY <1>1 DEF ActDone, Moves
<1> QED BY <1>4, <1>5, <1>6, <1>7

LEMMA LoopStays ==
  ASSUME World, Moves, NEW r, r \notin awaited, NEW h, LoopDone(h, r)
  PROVE  LoopDone(h, r)'
<1>1. svc' = svc
  BY DEF Moves, scenario
<1>2. \A act : ActDone(r, act) => ActDone(r, act)'
  BY ActStays
<1> QED BY <1>1, <1>2 DEF LoopDone

LEMMA WorldKept ==
  ASSUME World, Moves, Found' \subseteq Own(svc) \ awaited'
  PROVE  World'
<1>1. UNCHANGED <<svc, marked, record>> /\ Own(svc)' = Own(svc)
  BY DEF Moves, scenario, Own
<1>2. live' \subseteq Resource /\ \A r \in live' : ServiceOf[r] = svc
  BY DEF World, Moves, Own
<1>3. awaited' \subseteq Late /\ awaited' \cap (live' \cup had' \cup marked \cup record) = {}
      /\ awaited' \subseteq Own(svc)
  BY DEF World, Moves
<1>4. \A r \in leaving' : KindOf[r] \in Slow
  BY DEF World, Moves
<1>5. \A r \in (live' \cap Own(svc)) \ Late :
        KindOf[r] \notin MarkedLater \cup Unmarkable => r \in marked
  BY DEF World, Moves
<1>6. marked \subseteq Own(svc) /\ record \subseteq Own(svc)
  BY DEF World
<1> QED BY <1>1, <1>2, <1>3, <1>4, <1>5, <1>6 DEF World

\* What a loop is aimed at was there from the start or was found.
LEMMA AimedSeen ==
  ASSUME TypeInv, World, NEW h \in Steps(svc), NEW r, Aimed(h, r)
  PROVE  r \in Own(svc) \ awaited
<1>1. CASE Script[svc][h].kind = "linked"
  <2>1. "linked" \in DOMAIN found
    BY <1>1 DEF TypeInv, Kinds, Steps
  <2> QED BY <1>1, <2>1 DEF Aimed, World, Found
<1>2. CASE Script[svc][h].kind # "linked"
  BY <1>2 DEF Aimed, World
<1> QED BY <1>1, <1>2

(***************************************************************************)
(* A step that neither moves in the script nor learns anything keeps what  *)
(* is known and what is done.                                              *)
(***************************************************************************)
LEMMA SamePlace ==
  ASSUME IInv, Moves, UNCHANGED <<pc, found>>, Working' => Working
  PROVE  Discovered' /\ Handled'
<1>1. UNCHANGED <<svc, marked, record>>
  BY DEF Moves, scenario
<1>2. \A r \in marked \cap live' : r \in live
  BY DEF IInv, World, Moves
<1>3. live' \ Late \subseteq live
  BY DEF IInv, World, Moves
<1>4. Discovered'
  <2> SUFFICES ASSUME Working', NEW i \in 1..(pc - 1), Script[svc][i].do = "list"
               PROVE  /\ OfKind(marked \cap live', Script[svc][i].kind) \subseteq found[Script[svc][i].kind]
                      /\ Script[svc][i].kind = "order" /\ "linked" \in DOMAIN found =>
                           \A r \in live' \ Late : \A t \in Through[r] :
                             KindOf[t] = "order" /\ t \in marked \cap live' => r \in found["linked"]
    BY <1>1 DEF IInv, Discovered, OfKind
  <2>1. /\ OfKind(marked \cap live, Script[svc][i].kind) \subseteq found[Script[svc][i].kind]
        /\ Script[svc][i].kind = "order" /\ "linked" \in DOMAIN found =>
             \A r \in live \ Late : \A t \in Through[r] :
               KindOf[t] = "order" /\ t \in marked \cap live => r \in found["linked"]
    BY DEF IInv, Discovered
  <2> QED BY <1>2, <1>3, <2>1 DEF OfKind
<1>5. Handled'
  <2> SUFFICES ASSUME Working', NEW h \in 1..(pc - 1), Script[svc][h].do = "each",
                      NEW r \in live', Aimed(h, r)
               PROVE  LoopDone(h, r)'
    BY <1>1 DEF Handled, Aimed
  <2>1. h \in Steps(svc)
    BY ScriptShape DEF IInv, TypeInv
  <2>2. r \notin awaited
    BY <2>1, AimedSeen DEF IInv
  <2>3. r \in live
    BY <2>2 DEF Moves
  <2>4. LoopDone(h, r)
    BY <2>3 DEF IInv, Handled
  <2> QED BY <2>2, <2>4, LoopStays DEF IInv
<1> QED BY <1>4, <1>5

-----------------------------------------------------------------------------
(***************************************************************************)
(* What the position in the script says: an act the script does to a kind  *)
(* before step j was done to everything reclaimable of that kind, and what *)
(* it clears before step j is gone.                                        *)
(***************************************************************************)
LEMMA HandledBefore ==
  ASSUME IInv, Working, NEW j \in 1..pc, NEW r \in Direct, NEW act,
         DoneBefore(svc, j, KindOf[r], act)
  PROVE  ActDone(r, act)
<1> DEFINE k == KindOf[r]
<1>1. svc \in Service /\ Steps(svc) = 1..Len(Script[svc]) /\ Len(Script[svc]) \in Nat
      /\ pc \in 1..(Len(Script[svc]) + 1) /\ r \in live /\ k # "linked"
  BY ScriptShape, CleanupAssumption DEF IInv, TypeInv, World, Direct
<1>2. ASSUME NEW h \in Steps(svc), h < j, Does(svc, h, act), Aimed(h, r)
      PROVE  ActDone(r, act)
  <2>1. LoopDone(h, r)
    BY <1>1, <1>2 DEF IInv, Handled, Does
  <2> QED BY <1>2, <2>1 DEF LoopDone, Does
<1>3. ASSUME NEW h \in Steps(svc), h < j, SparesDone(svc, h, act), Script[svc][h].skipLinked,
             r \in found["linked"]
      PROVE  ActDone(r, act)
  <2>1. PICK g \in Steps(svc) : g < h /\ Script[svc][g].kind = "linked" /\ Does(svc, g, act)
    BY <1>3 DEF SparesDone
  <2> QED BY <1>1, <1>2, <1>3, <2>1 DEF Aimed
<1>4. CASE r \in marked /\ k \in ByMark[svc]
  <2>1. PICK h \in Steps(svc) : h < j /\ DoneByMark(svc, h, k, act)
    BY <1>4 DEF DoneBefore
  <2> QED BY <1>1, <1>2, <1>3, <1>4, <2>1 DEF DoneByMark, Aimed
<1>5. CASE r \in record /\ k \in ByRecord[svc]
  <2>1. PICK h \in Steps(svc) : h < j /\ DoneByRecord(svc, h, k, act)
    BY <1>5 DEF DoneBefore
  <2> QED BY <1>1, <1>2, <1>3, <1>5, <2>1 DEF DoneByRecord, Aimed
<1> QED BY <1>4, <1>5 DEF Direct

LEMMA ClearedGone ==
  ASSUME IInv, Working, NEW j \in 1..pc, NEW t, ClearedBefore(svc, j, KindOf[t])
  PROVE  t \notin Direct
<1> SUFFICES ASSUME t \in Direct PROVE FALSE
  OBVIOUS
<1>1. t \in live
  BY DEF Direct
<1>2. t \in leaving
  BY <1>1, HandledBefore DEF ClearedBefore, ActDone
<1>3. KindOf[t] \in Slow
  BY <1>2 DEF IInv, World
<1>4. ActDone(t, "wait")
  BY <1>3, HandledBefore DEF ClearedBefore
<1> QED BY <1>1, <1>4 DEF ActDone

-----------------------------------------------------------------------------
(***************************************************************************)
(* Steps in which no target is taken, advanced or dropped.                 *)
(***************************************************************************)
LEMMA TypeKept ==
  ASSUME TypeInv, Moves, UNCHANGED run, leaving' \subseteq leaving
  PROVE  TypeInv'
BY DEF TypeInv, Moves, scenario, run, Step, Kinds

LEMMA SameRun ==
  ASSUME IInv, Moves, UNCHANGED run, leaving' \subseteq leaving
  PROVE  IInv'
<1>1. UNCHANGED <<svc, named, marked, record, phase, pc, found, todo, item, stop>>
  BY DEF Moves, scenario, run
<1>2. TypeInv'
  BY TypeKept DEF IInv
<1>3. Found' = Found
  BY <1>1 DEF Found
<1>4. World'
  BY <1>3, WorldKept DEF IInv, World, Moves
<1>5. Discovered' /\ Handled'
  BY <1>1, SamePlace DEF Working
<1>6. InWork'
  <2> SUFFICES ASSUME phase = "each" PROVE InWork'
    BY <1>1 DEF InWork
  <2>1. pc \in Steps(svc) /\ Step' = Step
    BY <1>1 DEF IInv, TypeInv, Steps, Step
  <2>2. \A r \in todo \cup DOMAIN item : OfStep(r)'
    BY <1>1, <2>1 DEF IInv, InWork, OfStep
  <2>3. ASSUME ~stop, NEW r \in live', Aimed(pc, r)
        PROVE  r \in todo \/ r \in DOMAIN item \/ LoopDone(pc, r)'
    <3>1. r \notin awaited
      BY <2>1, <2>3, AimedSeen DEF IInv
    <3>2. r \in live
      BY <3>1 DEF Moves
    <3>3. r \in todo \/ r \in DOMAIN item \/ LoopDone(pc, r)
      BY <2>3, <3>2 DEF IInv, InWork
    <3>4. \A h : LoopDone(h, r) => LoopDone(h, r)'
      BY <3>1, LoopStays DEF IInv
    <3> QED BY <1>1, <3>3, <3>4
  <2>4. ASSUME NEW r \in DOMAIN item, NEW a \in DOMAIN Step.acts, a < item[r]
        PROVE  ActDone(r, Step.acts[a])'
    <3>1. r \notin awaited
      BY DEF IInv, World, Found
    <3>2. ActDone(r, Step.acts[a])
      BY <2>4 DEF IInv, InWork
    <3>3. \A act : ActDone(r, act) => ActDone(r, act)'
      BY <3>1, ActStays DEF IInv
    <3> QED BY <2>1, <3>2, <3>3
  <2> QED BY <1>1, <2>1, <2>2, <2>3, <2>4 DEF InWork, Aimed
<1> QED BY <1>2, <1>4, <1>5, <1>6 DEF IInv

(***************************************************************************)
(* A run is refused, ends, is killed or starts again.                      *)
(***************************************************************************)
LEMMA EndKeeps ==
  ASSUME IInv, Moves, Refuse \/ ListFails \/ StepFailed \/ Kill
  PROVE  IInv'
<1>1. /\ UNCHANGED <<svc, named, leaving, pc, found, todo, item, stop>>
      /\ phase' \in {"refused", "failed", "killed"}
      /\ phase' # "refused" => named
  BY DEF Refuse, ListFails, StepFailed, Kill, InStep, scenario, cloud, IInv, TypeInv, RefusesEmptyID
<1>2. ~Working' /\ phase' # "each"
  BY <1>1 DEF Working
<1>3. ~named => pc = 1 /\ leaving = {}
  BY DEF IInv, TypeInv
<1>4. TypeInv'
  BY <1>1, <1>3 DEF IInv, TypeInv, Kinds
<1>5. World'
  <2>1. Found' = Found
    BY <1>1 DEF Found
  <2> QED BY <2>1, WorldKept DEF IInv, World, Moves
<1>6. Discovered' /\ Handled'
  BY <1>1, <1>2, SamePlace
<1>7. InWork'
  BY <1>2 DEF InWork
<1> QED BY <1>4, <1>5, <1>6, <1>7 DEF IInv

LEMMA ReturnKeeps ==
  ASSUME IInv, Moves, Return
  PROVE  IInv'
<1>1. /\ UNCHANGED <<svc, named, leaving, pc, found, todo, item, stop>>
      /\ phase = "step" /\ phase' = "done" /\ named /\ pc > Len(Script[svc])
  BY DEF Return, scenario, cloud, IInv, TypeInv, RefusesEmptyID
<1>2. TypeInv'
  BY <1>1, ScriptShape DEF IInv, TypeInv, Kinds
<1>3. World'
  <2>1. Found' = Found
    BY <1>1 DEF Found
  <2> QED BY <2>1, WorldKept DEF IInv, World, Moves
<1>4. Discovered' /\ Handled'
  BY <1>1, SamePlace DEF Working
<1>5. InWork'
  BY <1>1 DEF InWork
<1> QED BY <1>2, <1>3, <1>4, <1>5 DEF IInv

LEMMA RerunKeeps ==
  ASSUME IInv, Moves, Rerun
  PROVE  IInv'
<1>1. /\ UNCHANGED <<svc, named, leaving>> /\ named
      /\ phase' = "step" /\ pc' = 1 /\ todo' = {} /\ DOMAIN item' = {} /\ ~stop'
      /\ DOMAIN found' = DOMAIN found /\ \A k \in DOMAIN found : found'[k] = {}
  BY DEF Rerun, scenario, cloud, IInv, TypeInv
<1>2. TypeInv'
  BY <1>1, ScriptShape DEF IInv, TypeInv, Kinds
<1>3. World'
  <2>1. Found' = {}
    BY <1>1 DEF Found
  <2> QED BY <2>1, WorldKept DEF IInv
<1>4. Discovered' /\ Handled' /\ InWork'
  BY <1>1 DEF Discovered, Handled, InWork
<1> QED BY <1>2, <1>3, <1>4 DEF IInv

(***************************************************************************)
(* A loop begins with all it is aimed at (Load), and when it ends the      *)
(* position moves past it (StepDone).                                      *)
(***************************************************************************)
LEMMA LoadKeeps ==
  ASSUME IInv, Moves, Load
  PROVE  IInv'
<1>1. /\ UNCHANGED <<svc, named, marked, record, live, leaving, awaited, pc, found, item, stop>>
      /\ phase = "step" /\ phase' = "each" /\ named /\ todo' = Targets(Step)
      /\ Step.do = "each" /\ pc <= Len(Script[svc]) /\ Step' = Step
  BY DEF Load, InStep, scenario, cloud, IInv, TypeInv, RefusesEmptyID, Step
<1>2. /\ svc \in Service /\ pc \in Steps(svc) /\ pc \in 1..Len(Script[svc])
      /\ Step = Script[svc][pc] /\ DOMAIN item = {} /\ Step.kind \in DOMAIN found
      /\ Step.listed \in BOOLEAN /\ Step.skipLinked \in BOOLEAN
  BY <1>1, ScriptShape DEF IInv, TypeInv, Step, Kinds, Steps
<1>3. Targets(Step) \subseteq found[Step.kind] \cup OfKind(record, Step.kind)
  BY DEF Targets, Recorded
<1>4. TypeInv'
  BY <1>1, <1>2 DEF IInv, TypeInv, Kinds, Steps
<1>5. World'
  <2>1. Found' \subseteq Found \cup record
    BY <1>1, <1>2, <1>3 DEF Found, OfKind
  <2>2. Found' \subseteq Own(svc) \ awaited
    BY <2>1 DEF IInv, World
  <2> QED BY <1>1, <2>2, WorldKept DEF IInv
<1>6. Discovered' /\ Handled'
  BY <1>1, SamePlace DEF Working
<1>7. InWork'
  <2>1. \A r \in todo' : OfStep(r)'
    BY <1>1, <1>2, <1>3 DEF IInv, Discovered, OfStep, OfKind
  <2>2. ASSUME NEW r \in live, Aimed(pc, r) PROVE r \in todo'
    <3>1. r \notin Foreign /\ r \in Own(svc)
      BY <1>2, <2>2, AimedSeen DEF IInv, Own
    <3>2. CASE Step.kind = "linked"
      <4>1. Step.listed /\ ~Step.skipLinked
        BY <1>1, <1>2, <3>2, ScriptAssumption DEF WellOrdered
      <4>2. r \in found[Step.kind]
        BY <1>2, <2>2, <3>2 DEF Aimed
      <4> QED BY <1>1, <3>1, <4>1, <4>2 DEF Targets
    <3>3. CASE Step.kind # "linked"
      <4>1. /\ KindOf[r] = Step.kind /\ (Step.skipLinked => r \notin found["linked"])
            /\ \/ Step.listed /\ ListedBefore(svc, pc, KindOf[r]) /\ r \in marked
               \/ Step.recorded /\ r \in record
        BY <1>2, <2>2, <3>3 DEF Aimed
      <4>2. ASSUME ListedBefore(svc, pc, KindOf[r]), r \in marked PROVE r \in found[Step.kind]
        <5>1. PICK i \in Steps(svc) : i < pc /\ Lists(svc, i, KindOf[r])
          BY <4>2 DEF ListedBefore
        <5>2. i \in 1..(pc - 1)
          BY <1>2, <5>1, ScriptShape
        <5>3. Script[svc][i].do = "list" /\ Script[svc][i].kind = Step.kind
          BY <4>1, <5>1 DEF Lists
        <5>4. OfKind(marked \cap live, Step.kind) \subseteq found[Step.kind]
          BY <1>1, <5>2, <5>3 DEF IInv, Discovered, Working
        <5> QED BY <4>1, <4>2, <5>4 DEF OfKind
      <4> QED BY <1>1, <3>1, <4>1, <4>2 DEF Targets, Recorded, OfKind
    <3> QED BY <3>2, <3>3
  <2>3. \A r : Aimed(pc, r)' = Aimed(pc, r)
    BY <1>1 DEF Aimed
  <2> QED BY <1>1, <1>2, <2>1, <2>2, <2>3 DEF InWork
<1> QED BY <1>4, <1>5, <1>6, <1>7 DEF IInv

LEMMA StepDoneKeeps ==
  ASSUME IInv, Moves, StepDone
  PROVE  IInv'
<1>1. /\ UNCHANGED <<svc, named, marked, record, live, leaving, disabled, awaited, found, todo, item, stop>>
      /\ phase = "each" /\ phase' = "step" /\ pc' = pc + 1
      /\ todo = {} /\ DOMAIN item = {} /\ ~stop
  BY DEF StepDone, scenario, cloud
<1>2. /\ svc \in Service /\ pc \in Steps(svc) /\ pc \in 1..Len(Script[svc])
      /\ Step.do = "each" /\ Len(Script[svc]) \in Nat /\ named
  BY <1>1, ScriptShape DEF IInv, TypeInv, Steps
<1>3. TypeInv'
  <2>1. pc' \in 1..(Len(Script[svc]) + 1)
    BY <1>1, <1>2
  <2> QED BY <1>1, <1>2, <2>1 DEF IInv, TypeInv, Kinds
<1>4. World'
  <2>1. Found' = Found
    BY <1>1 DEF Found
  <2> QED BY <2>1, WorldKept DEF IInv, World, Moves
<1>5. Working /\ 1..(pc' - 1) = (1..(pc - 1)) \cup {pc}
  BY <1>1, <1>2 DEF Working
<1>6. Discovered'
  <2>1. Script[svc][pc].do # "list"
    BY <1>2 DEF Step
  <2> QED BY <1>1, <1>5, <2>1 DEF IInv, Discovered
<1>7. Handled'
  <2> SUFFICES ASSUME NEW h \in 1..(pc' - 1), Script[svc][h].do = "each",
                      NEW r \in live, Aimed(h, r)
               PROVE  LoopDone(h, r)'
    BY <1>1 DEF Handled, Aimed
  <2>1. LoopDone(h, r)
    <3>1. CASE h = pc
      BY <1>1, <3>1 DEF IInv, InWork
    <3>2. CASE h \in 1..(pc - 1)
      BY <1>5, <3>2 DEF IInv, Handled
    <3> QED BY <1>5, <3>1, <3>2
  <2> QED BY <1>1, <2>1 DEF LoopDone, ActDone
<1>8. InWork'
  BY <1>1 DEF InWork
<1> QED BY <1>3, <1>4, <1>6, <1>7, <1>8 DEF IInv

-----------------------------------------------------------------------------
(***************************************************************************)
(* Discovery.  A listing finds what the run marked and is alive; the one   *)
(* of the orders also what they generated.  The loops behind it do not     *)
(* read what it changes.                                                   *)
(***************************************************************************)
LEMMA Findable ==
  ASSUME World, NEW r \in live, NEW S, Through[r] \cap S # {}
  PROVE  r \in Own(svc) \ awaited
BY HandleAssumption DEF World, Own

LEMMA ListKeeps ==
  ASSUME IInv, Moves, List
  PROVE  IInv'
<1> DEFINE k == Step.kind
           listed == OfKind(marked \cap live, k)
           linked == {r \in live : Through[r] \cap listed # {}}
<1>1. /\ UNCHANGED <<svc, named, marked, record, live, leaving, disabled, awaited, phase, todo, item, stop>>
      /\ phase = "step" /\ pc' = pc + 1 /\ pc <= Len(Script[svc]) /\ named /\ Step.do = "list"
  BY DEF List, InStep, scenario, cloud, IInv, TypeInv, RefusesEmptyID
<1>2. /\ svc \in Service /\ pc \in Steps(svc) /\ pc \in 1..Len(Script[svc])
      /\ Step = Script[svc][pc] /\ Len(Script[svc]) \in Nat /\ DOMAIN found = Kinds(svc)
  BY <1>1, ScriptShape DEF IInv, TypeInv, Step, Steps
<1>3. Listed(k) = listed
  BY <1>1 DEF IInv, TypeInv, Listed, OfKind
<1>4. k # "linked"
  BY <1>1, <1>2, ScriptAssumption DEF WellOrdered
<1>5. found' = [m \in DOMAIN found |-> IF m = k THEN listed
                                       ELSE IF m = "linked" /\ k = "order" THEN linked
                                       ELSE found[m]]
  BY <1>3 DEF List
<1>6. listed \subseteq Own(svc) \ awaited /\ linked \subseteq Own(svc) \ awaited
  <2>1. listed \subseteq Own(svc) \ awaited
    BY DEF IInv, World, OfKind
  <2>2. ASSUME NEW r \in linked PROVE r \in Own(svc) \ awaited
    BY Findable DEF IInv
  <2> QED BY <2>1, <2>2
<1>7. TypeInv'
  <2>1. pc' \in 1..(Len(Script[svc]) + 1)
    BY <1>1, <1>2
  <2>2. DOMAIN found' = DOMAIN found
    BY <1>5
  <2> QED BY <1>1, <2>1, <2>2 DEF IInv, TypeInv, Kinds
<1>8. World'
  <2>1. \A m \in DOMAIN found : found[m] \subseteq Own(svc) \ awaited
    BY DEF IInv, World, Found
  <2>2. \A m \in DOMAIN found' : found'[m] \subseteq Own(svc) \ awaited
    BY <1>5, <1>6, <2>1
  <2>3. todo \cup DOMAIN item \subseteq Own(svc) \ awaited
    BY DEF IInv, World, Found
  <2>4. Found' \subseteq Own(svc) \ awaited'
    BY <1>1, <2>2, <2>3 DEF Found
  <2> QED BY <2>4, WorldKept DEF IInv
<1>9. Working /\ 1..(pc' - 1) = (1..(pc - 1)) \cup {pc}
  BY <1>1, <1>2 DEF Working
<1>10. Discovered'
  <2>1. ASSUME NEW m \in DOMAIN found, NEW r \in found'[m]
        PROVE  KindOf[r] = m \/ (m = "linked" /\ KindOf[r] = "secret")
    <3>1. CASE m = k
      BY <1>5, <2>1, <3>1 DEF OfKind
    <3>2. CASE m # k /\ m = "linked" /\ k = "order"
      <4>1. r \in linked
        BY <1>5, <2>1, <3>2
      <4>2. PICK t \in Through[r] : t \in listed
        BY <4>1
      <4>3. KindOf[t] = "order" /\ r \in Resource
        BY <3>2, <4>1, <4>2 DEF OfKind, IInv, World
      <4> QED BY <3>2, <4>2, <4>3, HandleAssumption
    <3>3. CASE m # k /\ ~(m = "linked" /\ k = "order")
      BY <1>5, <2>1, <3>3 DEF IInv, Discovered
    <3> QED BY <3>1, <3>2, <3>3
  <2>2. ASSUME NEW i \in 1..(pc' - 1), Script[svc][i].do = "list"
        PROVE  /\ OfKind(marked \cap live, Script[svc][i].kind) \subseteq found'[Script[svc][i].kind]
               /\ Script[svc][i].kind = "order" /\ "linked" \in DOMAIN found =>
                    \A r \in live \ Late : \A t \in Through[r] :
                      KindOf[t] = "order" /\ t \in marked \cap live => r \in found'["linked"]
    <3>1. i \in Steps(svc)
      BY <1>2, <2>2, <1>9, ScriptShape
    <3>2. Script[svc][i].kind \in DOMAIN found /\ Script[svc][i].kind # "linked"
      BY <1>2, <2>2, <3>1, ScriptAssumption DEF WellOrdered, Kinds, Steps
    <3>3. CASE Script[svc][i].kind = k
      <4>1. found'[k] = listed
        BY <1>5, <3>2, <3>3
      <4>2. k = "order" /\ "linked" \in DOMAIN found => found'["linked"] = linked
        BY <1>4, <1>5
      <4> QED BY <3>3, <4>1, <4>2 DEF OfKind
    <3>4. CASE Script[svc][i].kind # k
      <4>1. i \in 1..(pc - 1)
        BY <1>2, <1>9, <2>2, <3>4
      <4>2. found'[Script[svc][i].kind] = found[Script[svc][i].kind]
        BY <1>5, <3>2, <3>4
      <4>3. Script[svc][i].kind = "order" /\ "linked" \in DOMAIN found =>
              found'["linked"] = found["linked"]
        BY <1>4, <1>5, <3>4
      <4> QED BY <1>9, <2>2, <4>1, <4>2, <4>3 DEF IInv, Discovered
    <3> QED BY <3>3, <3>4
  <2>3. DOMAIN found' = DOMAIN found
    BY <1>5
  <2> QED BY <1>1, <2>1, <2>2, <2>3 DEF Discovered, OfKind
<1>11. Handled'
  <2> SUFFICES ASSUME NEW h \in 1..(pc' - 1), Script[svc][h].do = "each",
                      NEW r \in live, Aimed(h, r)'
               PROVE  LoopDone(h, r)'
    BY <1>1 DEF Handled
  <2>1. h \in 1..(pc - 1) /\ h \in Steps(svc) /\ ~(pc < h)
    BY <1>1, <1>2, <1>9, ScriptShape
  <2>2. Aimed(h, r)
    <3>1. CASE Script[svc][h].kind = "linked" \/ Script[svc][h].skipLinked
      <4>1. "linked" \in DOMAIN found
        BY <1>2, <2>1, <3>1, ScriptAssumption DEF WellOrdered, Kinds, Steps
      <4>2. k # "order"
        BY <1>1, <1>2, <2>1, <3>1, ScriptAssumption DEF WellOrdered, Lists
      <4>3. found'["linked"] = found["linked"]
        BY <1>4, <1>5, <4>1, <4>2
      <4> QED BY <1>1, <4>3 DEF Aimed
    <3>2. CASE ~(Script[svc][h].kind = "linked" \/ Script[svc][h].skipLinked)
      BY <1>1, <3>2 DEF Aimed
    <3> QED BY <3>1, <3>2
  <2>3. LoopDone(h, r)
    BY <1>9, <2>1, <2>2 DEF IInv, Handled
  <2> QED BY <1>1, <2>3 DEF LoopDone, ActDone
<1>12. InWork'
  BY <1>1 DEF InWork
<1> QED BY <1>7, <1>8, <1>10, <1>11, <1>12 DEF IInv

LEMMA GrantsKeep ==
  ASSUME IInv, Moves, Grants
  PROVE  IInv'
<1> DEFINE k == Step.kind
<1>1. /\ UNCHANGED <<svc, named, marked, record, live, leaving, disabled, awaited, phase, todo, item, stop>>
      /\ phase = "step" /\ pc' = pc + 1 /\ pc <= Len(Script[svc]) /\ named /\ Step.do = "grants"
  BY DEF Grants, InStep, scenario, cloud, IInv, TypeInv, RefusesEmptyID
<1>2. /\ svc \in Service /\ pc \in Steps(svc) /\ pc \in 1..Len(Script[svc])
      /\ Step = Script[svc][pc] /\ Len(Script[svc]) \in Nat /\ DOMAIN found = Kinds(svc)
  BY <1>1, ScriptShape DEF IInv, TypeInv, Step, Steps
<1>3. PICK held \in SUBSET live :
        /\ found' = [found EXCEPT ![k] = held]
        /\ \A r \in held : KindOf[r] = k /\ \E S : Through[r] \cap S # {}
  <2> DEFINE held == {r \in OfKind(live, k) : Through[r] \cap (found["user"] \cup Recorded("user")) # {}}
  <2>1. found' = [found EXCEPT ![k] = held]
    BY DEF Grants
  <2>2. held \in SUBSET live /\ \A r \in held : KindOf[r] = k /\ \E S : Through[r] \cap S # {}
    BY DEF OfKind
  <2> HIDE DEF held
  <2> QED BY <2>1, <2>2
<1>4. k # "linked"
  BY <1>1, <1>2, ScriptAssumption DEF WellOrdered
<1>5. \A m \in DOMAIN found : found'[m] = IF m = k THEN held ELSE found[m]
  BY <1>3
<1>6. held \subseteq Own(svc) \ awaited
  BY <1>3, Findable DEF IInv
<1>7. DOMAIN found' = DOMAIN found
  BY <1>3
<1>8. TypeInv'
  <2>1. pc' \in 1..(Len(Script[svc]) + 1)
    BY <1>1, <1>2
  <2> QED BY <1>1, <1>7, <2>1 DEF IInv, TypeInv, Kinds
<1>9. World'
  <2>1. \A m \in DOMAIN found : found[m] \subseteq Own(svc) \ awaited
    BY DEF IInv, World, Found
  <2>2. \A m \in DOMAIN found' : found'[m] \subseteq Own(svc) \ awaited
    BY <1>5, <1>6, <1>7, <2>1
  <2>3. todo \cup DOMAIN item \subseteq Own(svc) \ awaited
    BY DEF IInv, World, Found
  <2>4. Found' \subseteq Own(svc) \ awaited'
    BY <1>1, <2>2, <2>3 DEF Found
  <2> QED BY <2>4, WorldKept DEF IInv
<1>10. Working /\ 1..(pc' - 1) = (1..(pc - 1)) \cup {pc}
  BY <1>1, <1>2 DEF Working
<1>11. Discovered'
  <2>1. ASSUME NEW m \in DOMAIN found, NEW r \in found'[m]
        PROVE  KindOf[r] = m \/ (m = "linked" /\ KindOf[r] = "secret")
    BY <1>3, <1>5, <2>1 DEF IInv, Discovered
  <2>2. ASSUME NEW i \in 1..(pc' - 1), Script[svc][i].do = "list"
        PROVE  /\ OfKind(marked \cap live, Script[svc][i].kind) \subseteq found'[Script[svc][i].kind]
               /\ Script[svc][i].kind = "order" /\ "linked" \in DOMAIN found =>
                    \A r \in live \ Late : \A t \in Through[r] :
                      KindOf[t] = "order" /\ t \in marked \cap live => r \in found'["linked"]
    <3>1. i \in 1..(pc - 1) /\ i \in Steps(svc)
      BY <1>1, <1>2, <1>10, <2>2, ScriptShape
    <3>2. Script[svc][i].kind \in DOMAIN found /\ Script[svc][i].kind # k
      BY <1>1, <1>2, <2>2, <3>1, ScriptAssumption DEF WellOrdered, Kinds, Steps
    <3>3. found'[Script[svc][i].kind] = found[Script[svc][i].kind]
          /\ ("linked" \in DOMAIN found => found'["linked"] = found["linked"])
      BY <1>4, <1>5, <3>2
    <3> QED BY <1>10, <2>2, <3>1, <3>3 DEF IInv, Discovered
  <2> QED BY <1>1, <1>7, <2>1, <2>2 DEF Discovered, OfKind
<1>12. Handled'
  <2> SUFFICES ASSUME NEW h \in 1..(pc' - 1), Script[svc][h].do = "each",
                      NEW r \in live, Aimed(h, r)'
               PROVE  LoopDone(h, r)'
    BY <1>1 DEF Handled
  <2>1. h \in 1..(pc - 1) /\ h \in Steps(svc)
    BY <1>1, <1>2, <1>10, ScriptShape
  <2>2. Aimed(h, r)
    <3>1. CASE Script[svc][h].kind = "linked" \/ Script[svc][h].skipLinked
      <4>1. "linked" \in DOMAIN found
        BY <1>2, <2>1, <3>1, ScriptAssumption DEF WellOrdered, Kinds, Steps
      <4>2. found'["linked"] = found["linked"]
        BY <1>4, <1>5, <4>1
      <4> QED BY <1>1, <4>2 DEF Aimed
    <3>2. CASE ~(Script[svc][h].kind = "linked" \/ Script[svc][h].skipLinked)
      BY <1>1, <3>2 DEF Aimed
    <3> QED BY <3>1, <3>2
  <2>3. LoopDone(h, r)
    BY <1>10, <2>1, <2>2 DEF IInv, Handled
  <2> QED BY <1>1, <2>3 DEF LoopDone, ActDone
<1>13. InWork'
  BY <1>1 DEF InWork
<1> QED BY <1>8, <1>9, <1>11, <1>12, <1>13 DEF IInv

-----------------------------------------------------------------------------
(***************************************************************************)
(* A target is taken; a target in work is dropped because the step failed  *)
(* or it is gone, or goes on to its next act after the one it is in.       *)
(***************************************************************************)
LEMMA TakeKeeps ==
  ASSUME IInv, Moves, NEW r \in Resource, Take(r)
  PROVE  IInv'
<1>1. /\ UNCHANGED <<svc, named, marked, record, live, leaving, disabled, awaited, phase, pc, found, stop>>
      /\ phase = "each" /\ ~stop /\ r \in todo /\ todo' = todo \ {r}
      /\ item' = [q \in DOMAIN item \cup {r} |-> IF q = r THEN 1 ELSE item[q]]
      /\ Step' = Step
  BY DEF Take, scenario, cloud, Step
<1>2. /\ pc \in Steps(svc) /\ Step = Script[svc][pc] /\ DOMAIN Step.acts = 1..Len(Step.acts)
      /\ 1 \in DOMAIN Step.acts
  <2>1. pc \in Steps(svc) /\ Step = Script[svc][pc] /\ Step.do = "each" /\ svc \in Service
    BY <1>1 DEF IInv, TypeInv, Step, Steps
  <2>2. Step.acts \in Seq(Acts) /\ Step.acts # <<>>
    BY <2>1, ScriptShape
  <2> QED BY <2>1, <2>2
<1>3. DOMAIN item' = DOMAIN item \cup {r} /\ item'[r] = 1
      /\ \A q \in DOMAIN item \ {r} : item'[q] = item[q]
  BY <1>1
<1>4. TypeInv'
  BY <1>1, <1>2, <1>3 DEF IInv, TypeInv, Kinds
<1>5. World'
  <2>1. Found' \subseteq Found
    BY <1>1, <1>3 DEF Found
  <2> QED BY <1>1, <2>1, WorldKept DEF IInv, World
<1>6. Discovered' /\ Handled'
  BY <1>1, SamePlace DEF Working
<1>7. InWork'
  <2>1. \A q \in todo' \cup DOMAIN item' : OfStep(q)'
    BY <1>1, <1>3 DEF IInv, InWork, OfStep
  <2>2. ASSUME NEW q \in live, Aimed(pc, q), q \notin todo', q \notin DOMAIN item'
        PROVE  LoopDone(pc, q)
    BY <1>1, <1>3, <2>2 DEF IInv, InWork
  <2>3. ASSUME NEW q \in DOMAIN item', NEW a \in DOMAIN Step.acts, a < item'[q]
        PROVE  ActDone(q, Step.acts[a])
    <3>1. q # r
      BY <1>2, <1>3, <2>3
    <3> QED BY <1>1, <1>3, <2>3, <3>1 DEF IInv, InWork
  <2>4. (\A q : Aimed(pc, q)' = Aimed(pc, q)) /\ (\A q : LoopDone(pc, q)' = LoopDone(pc, q))
        /\ \A q, act : ActDone(q, act)' = ActDone(q, act)
    BY <1>1 DEF Aimed, LoopDone, ActDone
  <2> QED BY <1>1, <2>1, <2>2, <2>3, <2>4 DEF InWork
<1> QED BY <1>4, <1>5, <1>6, <1>7 DEF IInv

LEMMA ItemMoves ==
  ASSUME IInv, Moves, phase = "each", UNCHANGED <<phase, pc, found, todo>>,
         NEW r \in DOMAIN item, NEW act,
         \/ UNCHANGED <<item, stop>>
         \/ item' = Drop(r) /\ (stop => stop') /\ (stop' \/ r \notin live')
         \/ Advance(r) /\ stop' = stop /\ Act(r) = act /\ ActDone(r, act)'
  PROVE  IInv'
<1>1. UNCHANGED <<svc, named, marked, record>> /\ Step' = Step
  BY DEF Moves, scenario, Step
<1>2. /\ pc \in Steps(svc) /\ Step = Script[svc][pc] /\ DOMAIN Step.acts = 1..Len(Step.acts)
      /\ Len(Step.acts) \in Nat /\ item[r] \in 1..Len(Step.acts) /\ named
  <2>1. /\ pc \in Steps(svc) /\ Step = Script[svc][pc] /\ Step.do = "each" /\ svc \in Service
        /\ item[r] \in DOMAIN Step.acts /\ named
    BY DEF IInv, TypeInv, Step, Steps
  <2>2. Step.acts \in Seq(Acts)
    BY <2>1, ScriptShape
  <2> QED BY <2>1, <2>2
<1>3. /\ DOMAIN item' \subseteq DOMAIN item
      /\ \A q \in DOMAIN item' \ {r} : item'[q] = item[q]
      /\ \A q \in DOMAIN item : q \notin DOMAIN item' => q = r
      /\ stop => stop'
  BY DEF Drop, Advance
<1>4. \A q \in DOMAIN item : q \notin awaited
  BY DEF IInv, World, Found
<1>5. \A q \in DOMAIN item : \A x : ActDone(q, x) => ActDone(q, x)'
  BY <1>4, ActStays DEF IInv
<1>6. \A q \in DOMAIN item, a \in DOMAIN Step.acts : a < item[q] => ActDone(q, Step.acts[a])'
  <2> SUFFICES ASSUME NEW q \in DOMAIN item, NEW a \in DOMAIN Step.acts, a < item[q]
               PROVE  ActDone(q, Step.acts[a])'
    BY <1>1
  <2>1. ActDone(q, Step.acts[a])
    BY DEF IInv, InWork
  <2> QED BY <1>1, <1>5, <2>1
<1>7. r \in DOMAIN item' =>
        \/ item'[r] = item[r]
        \/ /\ item'[r] = item[r] + 1 /\ item[r] # Len(Step.acts)
           /\ ActDone(r, act)' /\ Act(r) = act
  BY DEF Drop, Advance
<1>8. r \in DOMAIN item /\ r \notin DOMAIN item' =>
        \/ stop' \/ r \notin live'
        \/ item[r] = Len(Step.acts) /\ ActDone(r, act)' /\ Act(r) = act
  BY DEF Drop, Advance
<1>9. TypeInv'
  <2>1. \A q \in DOMAIN item' : item'[q] \in DOMAIN Step.acts
    <3>1. \A q \in DOMAIN item' \ {r} : item'[q] \in DOMAIN Step.acts
      BY <1>3 DEF IInv, TypeInv
    <3>2. r \in DOMAIN item' => item'[r] \in 1..Len(Step.acts)
      BY <1>2, <1>7
    <3> QED BY <1>2, <3>1, <3>2
  <2> QED BY <1>1, <1>2, <2>1 DEF IInv, TypeInv, Kinds
<1>10. World'
  <2>1. Found' \subseteq Found
    BY <1>3 DEF Found
  <2> QED BY <1>1, <2>1, WorldKept DEF IInv, World, Moves
<1>11. Discovered' /\ Handled'
  BY SamePlace DEF Working
<1>12. InWork'
  <2>1. \A q \in todo' \cup DOMAIN item' : OfStep(q)'
    BY <1>1, <1>3 DEF IInv, InWork, OfStep
  <2>2. ASSUME ~stop', NEW q \in live', Aimed(pc, q), q \notin todo, q \notin DOMAIN item'
        PROVE  LoopDone(pc, q)'
    <3>1. q \notin awaited
      BY <1>2, <2>2, AimedSeen DEF IInv
    <3>2. q \in live /\ ~stop
      BY <1>3, <2>2, <3>1 DEF Moves
    <3>3. CASE q \notin DOMAIN item
      <4>1. LoopDone(pc, q)
        BY <2>2, <3>2, <3>3 DEF IInv, InWork
      <4>2. \A h : LoopDone(h, q) => LoopDone(h, q)'
        BY <3>1, LoopStays DEF IInv
      <4> QED BY <4>1, <4>2
    <3>4. CASE q \in DOMAIN item
      <4>1. q = r /\ item[r] = Len(Step.acts) /\ ActDone(r, act)' /\ Act(r) = act
        BY <1>3, <1>8, <2>2, <3>4
      <4>2. ASSUME NEW a \in DOMAIN Step.acts PROVE ActDone(r, Step.acts[a])'
        <5>1. CASE a < item[r]
          BY <1>6, <5>1
        <5>2. CASE ~(a < item[r])
          <6>1. a = item[r]
            BY <1>2, <4>1, <5>2
          <6>2. Step.acts[a] = act
            BY <4>1, <6>1 DEF Act
          <6> QED BY <1>1, <4>1, <6>2
        <5> QED BY <5>1, <5>2
      <4>3. Step' = Script[svc][pc]'
        BY DEF Step
      <4> QED BY <1>1, <4>1, <4>2, <4>3 DEF LoopDone
    <3> QED BY <3>3, <3>4
  <2>3. ASSUME NEW q \in DOMAIN item', NEW a \in DOMAIN Step.acts, a < item'[q]
        PROVE  ActDone(q, Step.acts[a])'
    <3>1. CASE q # r \/ item'[r] = item[r]
      BY <1>3, <1>6, <2>3, <3>1
    <3>2. CASE q = r /\ item'[r] # item[r]
      <4>1. item'[r] = item[r] + 1 /\ ActDone(r, act)' /\ Act(r) = act
        BY <1>7, <2>3, <3>2
      <4>2. a < item[r] \/ a = item[r]
        BY <1>2, <2>3, <3>2, <4>1
      <4>3. a = item[r] => Step.acts[a] = act
        BY <4>1 DEF Act
      <4> QED BY <1>1, <1>6, <3>2, <4>1, <4>2, <4>3
    <3> QED BY <3>1, <3>2
  <2>4. \A q : Aimed(pc, q)' = Aimed(pc, q)
    BY <1>1 DEF Aimed
  <2> QED BY <1>1, <2>1, <2>2, <2>3, <2>4 DEF InWork
<1> QED BY <1>9, <1>10, <1>11, <1>12 DEF IInv

(***************************************************************************)
(* A swept network has no port left but those of a device: when a sweep    *)
(* begins no server of the run is alive.                                   *)
(***************************************************************************)
LEMMA SweptClean ==
  ASSUME IInv, NEW n, InAct(n, "sweep"), PlainPorts(n) = {}
  PROVE  ActDone(n, "sweep")
<1> SUFFICES ASSUME NEW p \in OfKind(live, "port"), n \in Refs[p], p \notin DeviceOwned
             PROVE  p \in Foreign
  BY DEF ActDone
<1>1. PICK q \in OfKind(live, "server") : p \in Refs[q]
  BY DEF PlainPorts, HasOwner
<1>2. q \in live /\ KindOf[q] = "server" /\ KindOf[p] = "port"
  BY <1>1 DEF OfKind
<1>3. q \in Foreign
  <2> SUFFICES ASSUME q \notin Foreign PROVE FALSE
    OBVIOUS
  <2>1. q \in Own(svc) /\ svc \in Service
    BY <1>2 DEF IInv, TypeInv, World, Own
  <2>2. pc \in 1..pc /\ pc \in Steps(svc) /\ Working /\ Does(svc, pc, "sweep")
    <3>1. phase = "each" /\ n \in DOMAIN item /\ Step.acts[item[n]] = "sweep"
      BY DEF InAct, Act
    <3>2. /\ pc \in Steps(svc) /\ pc \in 1..(Len(Script[svc]) + 1) /\ Script[svc][pc].do = "each"
          /\ item[n] \in DOMAIN Script[svc][pc].acts
      BY <3>1 DEF IInv, TypeInv, Step, Steps
    <3>3. pc \in 1..pc
      BY <2>1, <3>2, ScriptShape
    <3> QED BY <3>1, <3>2, <3>3 DEF Working, Does, Step
  <2>3. /\ q \notin Late /\ KindOf[q] \notin MarkedLater \cup Unmarkable
        /\ KindOf[q] \in ByMark[svc] /\ ClearedBefore(svc, pc, KindOf[q])
    BY <1>2, <2>1, <2>2, ScriptAssumption DEF ServersFirst
  <2>4. q \in Direct
    BY <1>2, <2>1, <2>3 DEF IInv, World, Direct
  <2> QED BY <2>2, <2>3, <2>4, ClearedGone
<1> QED BY <1>1, <1>2, <1>3, CloudAssumption

\* After an accepted delete of r it is being deleted or gone.
LEMMA EffectDone ==
  ASSUME NEW r, Effect(r)
  PROVE  ActDone(r, "send")'
BY DEF Effect, Gone, ActDone, OfKind

LEMMA CallKeeps ==
  ASSUME IInv, Moves, NEW r \in Resource, Call(r) \/ CallFails(r)
  PROVE  IInv'
<1> DEFINE Stays == phase = "each" /\ UNCHANGED <<phase, pc, found, todo>> /\ r \in DOMAIN item
<1>1. CASE Take(r)
  BY <1>1, TakeKeeps
<1>2. CASE SendGone(r)
  <2>1. Stays /\ r \notin live
    BY <1>2 DEF SendGone, InAct
  <2>2. item' = Drop(r) /\ stop' = stop /\ live' = live
    BY <1>2 DEF SendGone, NotFound, cloud
  <2> QED BY <2>1, <2>2, ItemMoves
<1>3. CASE SendAccepted(r)
  <2>1. Stays /\ Act(r) = "send" /\ Advance(r) /\ stop' = stop /\ Effect(r)
    BY <1>3 DEF SendAccepted, InAct
  <2>2. ActDone(r, "send")'
    BY <2>1, EffectDone
  <2> QED BY <2>1, <2>2, ItemMoves
<1>4. CASE SendRefused(r)
  <2>1. Stays /\ item' = Drop(r) /\ stop'
    BY <1>4 DEF SendRefused, InAct, Fails
  <2> QED BY <2>1, ItemMoves
<1>5. CASE WaitForGone(r)
  <2>1. Stays /\ Act(r) = "wait" /\ Advance(r) /\ stop' = stop /\ r \notin live'
    BY <1>5 DEF WaitForGone, InAct, cloud
  <2>2. ActDone(r, "wait")'
    BY <2>1 DEF ActDone
  <2> QED BY <2>1, <2>2, ItemMoves
<1>6. CASE Sweep(r)
  <2>1. Stays /\ Act(r) = "sweep"
    BY <1>6 DEF Sweep, InAct
  <2>2. CASE PlainPorts(r) = {}
    <3>1. Advance(r) /\ UNCHANGED <<live, leaving, disabled, stop>>
      BY <1>6, <2>2 DEF Sweep
    <3>2. ActDone(r, "sweep")
      BY <1>6, <2>2, SweptClean DEF Sweep
    <3>3. ActDone(r, "sweep")'
      BY <3>1, <3>2 DEF ActDone
    <3> QED BY <2>1, <3>1, <3>3, ItemMoves
  <2>3. CASE PlainPorts(r) # {}
    <3>1. UNCHANGED <<item, stop>> \/ (item' = Drop(r) /\ stop')
      BY <1>6, <2>3 DEF Sweep, Fails
    <3> QED BY <2>1, <3>1, ItemMoves
  <2> QED BY <2>2, <2>3
<1>7. CASE DetachRouterInterfaces(r)
  <2> DEFINE interfaces == {i \in OfKind(live, "router_interface") : r \in Refs[i]}
  <2>1. Stays /\ Act(r) = "detach"
    BY <1>7 DEF DetachRouterInterfaces, InAct
  <2>2. CASE interfaces = {}
    <3>1. Advance(r) /\ UNCHANGED <<live, leaving, disabled, stop>>
      BY <1>7, <2>2 DEF DetachRouterInterfaces
    <3>2. ActDone(r, "detach")
      BY <2>2 DEF ActDone
    <3>3. ActDone(r, "detach")'
      BY <3>1, <3>2 DEF ActDone
    <3> QED BY <2>1, <3>1, <3>3, ItemMoves
  <2>3. CASE interfaces # {}
    <3>1. UNCHANGED <<item, stop>> \/ (item' = Drop(r) /\ stop')
      BY <1>7, <2>3 DEF DetachRouterInterfaces, Fails
    <3> QED BY <2>1, <3>1, ItemMoves
  <2> QED BY <2>2, <2>3
<1>8. CASE DisableDomain(r)
  <2>1. Stays /\ Act(r) = "disable" /\ Advance(r) /\ stop' = stop /\ disabled' = disabled \cup {r}
    BY <1>8 DEF DisableDomain, InAct
  <2>2. ActDone(r, "disable")'
    BY <2>1 DEF ActDone
  <2> QED BY <2>1, <2>2, ItemMoves
<1>9. CASE CancelledWithStage(r)
  <2>1. Stays /\ stop /\ item' = Drop(r) /\ stop' = stop
    BY <1>9 DEF CancelledWithStage
  <2> QED BY <2>1, ItemMoves
<1>10. CASE CallFails(r)
  <2>1. Stays /\ item' = Drop(r) /\ stop'
    BY <1>10 DEF CallFails, Fails
  <2> QED BY <2>1, ItemMoves
<1> QED BY <1>1, <1>2, <1>3, <1>4, <1>5, <1>6, <1>7, <1>8, <1>9, <1>10 DEF Call

LEMMA StepInv == IInv /\ [Next]_vars => IInv'
<1> SUFFICES ASSUME IInv, [Next]_vars PROVE IInv'
  OBVIOUS
<1>1. Moves
  BY StepMoves
<1>2. CASE UNCHANGED vars
  BY <1>1, <1>2, SameRun DEF vars, cloud
<1>3. CASE Refuse \/ ListFails \/ StepFailed \/ Kill
  BY <1>1, <1>3, EndKeeps
<1>4. CASE List \/ Grants \/ Load \/ StepDone \/ Return \/ Rerun
  BY <1>1, <1>4, ListKeeps, GrantsKeep, LoadKeeps, StepDoneKeeps, ReturnKeeps, RerunKeeps
<1>5. ASSUME NEW r \in Resource, Call(r) \/ CallFails(r) PROVE IInv'
  BY <1>1, <1>5, CallKeeps
<1>6. ASSUME NEW r \in Resource, CloudStep(r) PROVE IInv'
  <2>1. UNCHANGED run /\ leaving' \subseteq leaving
    BY <1>6 DEF CloudStep, Vanish, Settle, Appear
  <2> QED BY <1>1, <2>1, SameRun
<1> QED BY <1>2, <1>3, <1>4, <1>5, <1>6 DEF Next, Progress

(***************************************************************************)
(* Types, the world, and what is done behind the position in the script    *)
(* and in the loop under way, for every cleanup and every rerun.           *)
(***************************************************************************)
THEOREM Invariance == Spec => []IInv
BY InitInv, StepInv, PTL DEF Spec

-----------------------------------------------------------------------------
(***************************************************************************)
(* A cleanup that returns without an error has reclaimed all a handle      *)
(* leads to, for every script that uses its handles.                       *)
(***************************************************************************)
THEOREM CleanupsComplete == Spec => []CleanupComplete
<1>1. ASSUME IInv PROVE CleanupComplete
  <2> SUFFICES ASSUME phase = "done", NEW r \in Reach PROVE r \in leaving
    BY DEF CleanupComplete
  <2>1. svc \in Service /\ pc = Len(Script[svc]) + 1 /\ Len(Script[svc]) \in Nat /\ Working
    BY <1>1, ScriptShape DEF IInv, TypeInv, Working
  <2>2. UsesHandles(svc) /\ Len(Script[svc]) + 1 \in 1..pc
    BY <2>1, ScriptAssumption
  <2>3. CASE r \in Direct
    <3>1. KindOf[r] \in ByMark[svc] \cup ByRecord[svc] /\ r \in live
      BY <2>3 DEF Direct
    <3>2. ActDone(r, "send")
      BY <1>1, <2>1, <2>2, <2>3, <3>1, HandledBefore DEF UsesHandles
    <3> QED BY <3>1, <3>2 DEF ActDone
  <2>4. CASE r \notin Direct
    <3>1. r \in live /\ \E t \in Through[r] : t \in Direct
      BY <2>4 DEF Reach
    <3>2. PICK t \in Through[r] : t \in Direct
      BY <3>1
    <3>3. r \in Resource /\ ServiceOf[t] = svc
      BY <1>1, <3>1, <3>2 DEF IInv, World, Direct
    <3>4. ClearedBefore(svc, Len(Script[svc]) + 1, KindOf[t])
      BY <2>2, <3>2, <3>3 DEF UsesHandles
    <3> QED BY <1>1, <2>1, <2>2, <3>2, <3>4, ClearedGone
  <2> QED BY <2>3, <2>4
<1> QED BY <1>1, Invariance, PTL

(***************************************************************************)
(* Only the right deletes are sent, in the right order, after any history  *)
(* of failures, kills and reruns.                                          *)
(***************************************************************************)
THEOREM DeletesStayRight == Spec => []DeletesAreRight
<1>1. ASSUME IInv PROVE DeletesAreRight
  <2> SUFFICES ASSUME NEW r \in live, InAct(r, "send")
               PROVE  /\ Holders(r) \cap Reach = {}
                      /\ KindOf[r] = "domain" => r \in disabled
                      /\ Gone(r) \cap live \cap Foreign = {}
    BY DEF DeletesAreRight
  <2>1. /\ svc \in Service /\ pc \in Steps(svc) /\ pc \in 1..pc /\ Working
        /\ Step = Script[svc][pc] /\ Step.do = "each"
        /\ r \in DOMAIN item /\ item[r] \in DOMAIN Step.acts /\ Step.acts[item[r]] = "send"
    <3>1. phase = "each" /\ r \in DOMAIN item /\ Step.acts[item[r]] = "send"
      BY DEF InAct, Act
    <3>2. /\ svc \in Service /\ pc \in Steps(svc) /\ pc \in 1..(Len(Script[svc]) + 1)
          /\ Step.do = "each" /\ item[r] \in DOMAIN Step.acts
      BY <1>1, <3>1 DEF IInv, TypeInv, Steps
    <3>3. pc \in 1..pc
      BY <3>2, ScriptShape
    <3> QED BY <3>1, <3>2, <3>3 DEF Working, Step
  <2>2. r \in Own(svc) /\ r \in Resource \ Foreign /\ OfStep(r)
    BY <1>1, <2>1 DEF IInv, World, InWork, Found, Own, InAct
  <2>3. MaySend(svc, pc, r)
    BY <2>1, <2>2 DEF MaySend, Does, OfStep
  <2>4. \A early : ActAfter(svc, pc, "send", early) => ActDone(r, early)
    BY <1>1, <2>1 DEF ActAfter, IInv, InWork, InAct
  <2>5. ASSUME NEW q \in Reach, r \in Pins[q] PROVE FALSE
    <3>1. q \in live /\ q \in Resource /\ ServiceOf[q] = svc
      BY <1>1, ReachIsLive DEF IInv, World
    <3>2. /\ q \notin Foreign => ClearedBefore(svc, pc, KindOf[q])
          /\ \A t \in Through[q] : \/ ClearedBefore(svc, pc, KindOf[t])
                                   \/ SweptBefore(svc, pc, r, t, q)
                                   \/ DetachedBefore(svc, pc, t, q)
      BY <2>1, <2>2, <2>3, <2>5, <3>1, ScriptAssumption DEF UnusedWhenSent
    <3>3. CASE q \in Direct
      <4>1. q \notin Foreign
        BY <1>1, <3>3 DEF Direct, IInv, World, Own
      <4> QED BY <1>1, <2>1, <3>2, <3>3, <4>1, ClearedGone
    <3>4. CASE q \notin Direct
      <4>1. PICK t \in Through[q] : t \in Direct
        BY <3>4 DEF Reach
      <4>2. t \in live /\ q \notin Foreign
        BY <3>1, <4>1, HandleAssumption DEF Direct
      <4>3. CASE ClearedBefore(svc, pc, KindOf[t])
        BY <1>1, <2>1, <4>1, <4>3, ClearedGone
      <4>4. CASE SweptBefore(svc, pc, r, t, q)
        <5>1. ActDone(t, "sweep")
          BY <1>1, <2>1, <2>4, <4>1, <4>4, HandledBefore DEF SweptBefore
        <5> QED BY <3>1, <4>2, <4>4, <5>1 DEF ActDone, OfKind, SweptBefore
      <4>5. CASE DetachedBefore(svc, pc, t, q)
        <5>1. ActDone(t, "detach")
          BY <1>1, <2>1, <4>1, <4>5, HandledBefore DEF DetachedBefore
        <5> QED BY <3>1, <4>2, <4>5, <5>1 DEF ActDone, OfKind, DetachedBefore
      <4> QED BY <3>2, <4>1, <4>3, <4>4, <4>5
    <3> QED BY <3>3, <3>4
  <2>6. ASSUME KindOf[r] = "domain" PROVE r \in disabled
    <3>1. Script[svc][pc].kind = "domain"
      BY <2>1, <2>2, <2>6 DEF OfStep
    <3>2. ActAfter(svc, pc, "send", "disable")
      BY <2>1, <3>1, ScriptAssumption DEF WellOrdered
    <3> QED BY <2>4, <3>2 DEF ActDone
  <2>7. Gone(r) \cap Foreign = {}
    BY <2>2, CloudAssumption DEF Gone
  <2> QED BY <2>5, <2>6, <2>7 DEF Holders
<1> QED BY <1>1, Invariance, PTL

-----------------------------------------------------------------------------
(***************************************************************************)
(* No step deletes the last handle of something that stays, unless Barbican *)
(* generates a secret after its order was looked up.  That is the case     *)
(* MCCleanupLate.cfg shows a loss in; every other late resource is         *)
(* allowed.                                                                *)
(***************************************************************************)
LinkedNeverLate == \A r \in Late : \A t \in Through[r] : KindOf[t] # "order"

\* What a secret was generated by is deleted after the secret.
LEMMA LinkedGoFirst ==
  ASSUME IInv, LinkedNeverLate, NEW t \in Direct, NEW r \in live, t \in Through[r],
         KindOf[t] = "order", InAct(t, "send")
  PROVE  FALSE
<1>1. /\ r \in Resource /\ t \in live /\ r \notin Late
      /\ KindOf[r] = "secret" /\ "secret" \notin Slow
      /\ t \notin Late /\ KindOf[t] \notin MarkedLater \cup Unmarkable
  BY HandleAssumption DEF IInv, World, Direct, LinkedNeverLate
<1>2. /\ svc \in Service /\ pc \in Steps(svc) /\ pc \in 1..(Len(Script[svc]) + 1) /\ Working
      /\ t \in DOMAIN item /\ OfStep(t) /\ Does(svc, pc, "send") /\ Step = Script[svc][pc]
  <2>1. phase = "each" /\ t \in DOMAIN item /\ Step.acts[item[t]] = "send"
    BY DEF InAct, Act
  <2> QED BY <2>1 DEF IInv, TypeInv, InWork, Working, Does, Steps, Step
<1>3. Script[svc][pc].kind = "order"
  BY <1>2 DEF OfStep
<1>4. PICK i, g \in Steps(svc) : /\ i < g /\ g < pc /\ Lists(svc, i, "order")
                               /\ Script[svc][g].kind = "linked" /\ Does(svc, g, "send")
  BY <1>2, <1>3, ScriptAssumption DEF WellOrdered
<1>5. i \in 1..(pc - 1) /\ g \in 1..(pc - 1)
  BY <1>2, <1>4, ScriptShape
<1>6. t \in marked
  <2>1. t \in live \cap Own(svc)
    BY <1>1, <1>2 DEF IInv, World, Found
  <2> QED BY <1>1, <2>1 DEF IInv, World
<1>7. r \in found["linked"]
  <2>1. "linked" \in DOMAIN found
    BY <1>2, <1>4 DEF IInv, TypeInv, Kinds, Steps
  <2>2. Script[svc][i].do = "list" /\ Script[svc][i].kind = "order"
    BY <1>4 DEF Lists
  <2> QED BY <1>1, <1>2, <1>5, <1>6, <2>1, <2>2 DEF IInv, Discovered
<1>8. LoopDone(g, r)
  BY <1>2, <1>4, <1>5, <1>7 DEF IInv, Handled, Aimed, Does
<1>9. ActDone(r, "send")
  BY <1>4, <1>8 DEF LoopDone, Does
<1> QED BY <1>1, <1>9 DEF ActDone, IInv, World

\* A handle leaves with what hangs on it.
LEMMA HandleLeaves ==
  ASSUME IInv, LinkedNeverLate, Next,
         NEW t \in Direct, NEW r \in live, t \in Through[r], t \notin live'
  PROVE  r \notin live'
<1>1. /\ r \in Resource /\ t \in live /\ KindOf[t] \notin {"port", "router_interface"}
      /\ \A q \in Resource : t \in Cascades[q] => r \in Cascades[q]
      /\ r \in Cascades[t] \/ (t \in Pins[r] /\ KindOf[t] \notin Slow) \/ KindOf[t] = "order"
      /\ KindOf[t] = "order" => KindOf[t] \notin Slow
  BY HandleAssumption DEF IInv, World, Direct
<1>2. ASSUME NEW x \in Resource, live' = live \ Gone(x), t \in Gone(x),
             x = t => r \in Cascades[t]
      PROVE  r \notin live'
  BY <1>1, <1>2 DEF Gone
<1>3. ASSUME NEW x \in Resource, InAct(x, "send"), Deletable(x), Effect(x)
      PROVE  r \notin live'
  <2>1. live' = live \ Gone(x) /\ t \in Gone(x)
    BY <1>1, <1>3 DEF Effect
  <2>2. x = t => r \in Cascades[t]
    <3> SUFFICES ASSUME x = t, r \notin Cascades[t] PROVE FALSE
      OBVIOUS
    <3>1. CASE t \in Pins[r]
      BY <1>3, <3>1 DEF Deletable, Holders
    <3>2. CASE KindOf[t] = "order"
      BY <1>3, <3>2, LinkedGoFirst
    <3> QED BY <1>1, <3>1, <3>2
  <2> QED BY <1>2, <2>1, <2>2
<1>4. ASSUME NEW x \in Resource, Vanish(x) PROVE r \notin live'
  <2>1. live' = live \ Gone(x) /\ t \in Gone(x) /\ KindOf[x] \in Slow
    BY <1>1, <1>4 DEF Vanish, IInv, World
  <2> QED BY <1>1, <1>2, <2>1
<1>5. ASSUME NEW x \in Resource, Sweep(x) \/ DetachRouterInterfaces(x) PROVE FALSE
  <2>1. \A p \in live \ live' : KindOf[p] \in {"port", "router_interface"}
    BY <1>5 DEF Sweep, DetachRouterInterfaces, PlainPorts, OfKind
  <2> QED BY <1>1, <2>1
<1>6. ASSUME live \subseteq live' PROVE FALSE
  BY <1>1, <1>6
<1>7. CASE Refuse \/ List \/ Grants \/ Load \/ StepDone \/ StepFailed \/ Return
           \/ ListFails \/ Kill \/ Rerun
  BY <1>6, <1>7 DEF Refuse, List, Grants, Load, StepDone, StepFailed, Return, ListFails, Kill,
     Rerun, cloud
<1>8. ASSUME NEW x \in Resource, Call(x) PROVE r \notin live'
  <2>1. CASE Take(x) \/ SendGone(x) \/ SendRefused(x) \/ WaitForGone(x)
             \/ DisableDomain(x) \/ CancelledWithStage(x)
    BY <1>6, <2>1 DEF Take, SendGone, SendRefused, WaitForGone, DisableDomain,
       CancelledWithStage, cloud
  <2>2. CASE SendAccepted(x)
    BY <1>3, <2>2 DEF SendAccepted
  <2> QED BY <1>5, <1>8, <2>1, <2>2 DEF Call
<1>9. ASSUME NEW x \in Resource, CallFails(x) PROVE r \notin live'
  <2>1. live' = live \/ (InAct(x, "send") /\ Deletable(x) /\ Effect(x))
    BY <1>9 DEF CallFails, InAct
  <2> QED BY <1>3, <1>6, <2>1
<1>10. ASSUME NEW x \in Resource, CloudStep(x) PROVE r \notin live'
  <2>1. CASE Settle(x) \/ Appear(x)
    BY <1>6, <2>1 DEF Settle, Appear
  <2> QED BY <1>4, <1>10, <2>1 DEF CloudStep
<1> QED BY <1>7, <1>8, <1>9, <1>10 DEF Next, Progress

THEOREM HandlesAreKept == LinkedNeverLate => (Spec => []NoHandleLost)
<1> SUFFICES ASSUME LinkedNeverLate PROVE Spec => []NoHandleLost
  OBVIOUS
<1>1. Init => NoHandleLost
  BY DEF Init, NoHandleLost
<1>2. ASSUME IInv, NoHandleLost, [Next]_vars PROVE NoHandleLost'
  <2>1. CASE UNCHANGED vars
    BY <1>2, <2>1 DEF NoHandleLost, Reach, Direct, vars, scenario, cloud
  <2>2. CASE Next
    <3> SUFFICES ASSUME NEW r \in live', r \in had' PROVE r \in Reach'
      BY DEF NoHandleLost
    <3>1. Moves /\ UNCHANGED <<svc, marked, record>>
      BY <1>2, StepMoves DEF Moves, scenario
    <3>2. r \in had \/ r \in Reach'
      BY <2>2 DEF Next
    <3>3. ASSUME r \in had PROVE r \in live /\ r \in Reach
      BY <1>2, <3>1, <3>3 DEF Moves, IInv, World, NoHandleLost
    <3>4. \A q \in Direct : q \in live' => q \in Direct'
      BY <3>1 DEF Direct
    <3>5. CASE r \in Direct
      BY <3>4, <3>5 DEF Reach
    <3>6. CASE r \in live /\ \E t \in Through[r] : t \in Direct
      <4>1. PICK t \in Through[r] : t \in Direct
        BY <3>6
      <4>2. t \in live'
        BY <1>2, <2>2, <3>6, <4>1, HandleLeaves
      <4> QED BY <3>4, <4>1, <4>2 DEF Reach
    <3> QED BY <3>2, <3>3, <3>5, <3>6 DEF Reach
  <2> QED BY <1>2, <2>1, <2>2
<1> QED BY <1>1, <1>2, Invariance, PTL DEF Spec

=============================================================================
