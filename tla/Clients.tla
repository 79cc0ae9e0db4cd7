------------------------------ MODULE Clients ------------------------------
(***************************************************************************)
(* One logical name of one kind, driven through its service's client: the  *)
(* create with its lookups, tag call and rollback, the readiness wait, the *)
(* delete and its wait.  The cloud may lose an answer, commit a request    *)
(* late, delete later than it answers, and lose the object; the context of *)
(* a call may end in the middle of it.  One model checks every kind: the   *)
(* kind is chosen in Init and its behaviour comes from ClientTables.       *)
(***************************************************************************)
EXTENDS Integers, Sequences, FiniteSetsExt, ClientTables

CONSTANTS MaxCalls,     \* bound: calls the caller makes
          MaxFaults,    \* bound: answers lost, refused or failed
          tagAttempts   \* the tag calls of one create

ASSUME ClientsAssumption ==
  /\ MaxCalls \in Nat /\ MaxFaults \in Nat
  /\ tagAttempts \in Nat \ {0}

VARIABLES
  kind,     \* the kind of the name, an element of Kinds
  obj,      \* per POST, the object it made or may still make
  pending,  \* the POSTs whose answer was lost and whose object was not found
  held,     \* the object the caller has the id of, 0 when none
  call,     \* the client call under way
  ctx,      \* its context: "live", "expired", or "cancelled" with the run
  calls, faults

vars == <<kind, obj, pending, held, call, ctx, calls, faults>>

Recipe == Creates[kind]
Posts  == DOMAIN obj
Live   == {"build", "active", "error"}

Idle == [op |-> "none", pc |-> "none", post |-> 0, tries |-> 0]

\* "sent" may still take effect, "never" did not; "half" is gone in the first
\* of two views.  The flags lost, missed and stuck are history: the answer of
\* the POST was not a success, a lookup that ran found nothing, the rollback
\* was not confirmed.
Object(st, stamped, lost) ==
  [st |-> st, stamped |-> stamped, had |-> FALSE, lost |-> lost,
   missed |-> FALSE, stuck |-> FALSE]

TypeOK ==
  /\ kind \in Kinds
  /\ \A i \in Posts : obj[i].st \in {"sent", "never", "deleting", "half", "gone"} \cup Live
  /\ pending \subseteq Posts /\ held \in Posts \cup {0}
  /\ call.op \in {"none", "create", "ready", "stamp", "delete"}
  /\ ctx \in {"live", "expired", "cancelled"}
  /\ calls \in 0..MaxCalls /\ faults \in 0..MaxFaults

Init ==
  /\ kind \in Kinds
  /\ obj = << >> /\ pending = {} /\ held = 0 /\ call = Idle
  /\ ctx = "live" /\ calls = 0 /\ faults = 0

(***************************************************************************)
(* The cloud.                                                              *)
(***************************************************************************)
Set(i, st) == obj' = [obj EXCEPT ![i].st = st]

Exists == \E i \in Posts : obj[i].st \in Live \cup {"deleting"}

\* The service refuses a second object beside the first.
Refuses == Recipe.once /\ Exists

\* A request that was sent and not answered takes effect late.
Lands(i) ==
  /\ obj[i].st = "sent" /\ ~Refuses
  /\ Set(i, "build")
  /\ UNCHANGED <<kind, pending, held, call, ctx, calls, faults>>

Builds(i) ==
  /\ obj[i].st = "build"
  /\ \E st \in {"active", "error"} : Set(i, st)
  /\ UNCHANGED <<kind, pending, held, call, ctx, calls, faults>>

\* A detach clears the port's interface before the server's addresses.
Goes(i) ==
  /\ \/ obj[i].st = "deleting" /\ Set(i, IF kind = "portAttachment" THEN "half" ELSE "gone")
     \/ obj[i].st = "half" /\ Set(i, "gone")
  /\ UNCHANGED <<kind, pending, held, call, ctx, calls, faults>>

Fault == faults < MaxFaults /\ faults' = faults + 1

\* Somebody else deletes the object.
Vanishes(i) ==
  /\ obj[i].st \in Live
  /\ Fault
  /\ Set(i, "gone")
  /\ UNCHANGED <<kind, pending, held, call, ctx, calls>>

\* The delete of a server's network deletes the run's servers the churn does
\* not hold; the node has none and no call is under way then.
deleteNetworkServers(i) ==
  /\ kind = "server" /\ held = 0 /\ call = Idle
  /\ obj[i].st \in Live
  /\ Set(i, "deleting")
  /\ UNCHANGED <<kind, pending, held, call, ctx, calls, faults>>

(***************************************************************************)
(* Calls and contexts.  Every attempt has its own deadline under the       *)
(* context of the run.                                                     *)
(***************************************************************************)
Starts(op, pc) ==
  /\ call = Idle /\ ctx # "cancelled" /\ calls < MaxCalls
  /\ calls' = calls + 1 /\ ctx' = "live"
  /\ call' = [Idle EXCEPT !.op = op, !.pc = pc]
  /\ UNCHANGED <<kind, obj, pending, held, faults>>

CallCreate == held = 0 /\ Starts("create", IF pending # {} THEN "lookup" ELSE "post")
CallReady  == held # 0 /\ ReadyEnds(kind) # {} /\ Starts("ready", "poll")
CallStamp  == held # 0 /\ Recipe.stamp = "later" /\ Starts("stamp", "stamp")
CallDelete == held # 0 /\ Starts("delete", "delete")

Deadline ==
  /\ call # Idle /\ ctx = "live"
  /\ ctx' = "expired"
  /\ UNCHANGED <<kind, obj, pending, held, call, calls, faults>>

Signal ==
  /\ ctx # "cancelled" /\ Fault
  /\ ctx' = "cancelled"
  /\ UNCHANGED <<kind, obj, pending, held, call, calls>>

At(pc) == call.pc = pc
Go(pc) == call' = [call EXCEPT !.pc = pc]
Return == call' = Idle
Sends  == ctx = "live"

\* A request that fails: not sent once the context has ended, or answered with
\* an error.
Fails(e) == \/ ~Sends /\ e = Lost /\ UNCHANGED faults
            \/ Sends /\ e \in Errors /\ Fault

(***************************************************************************)
(* Create: the lookup of an earlier create, the POST, the lookup after it. *)
(***************************************************************************)
lostServersAny(posts) ==   \* mutant: a server that is being deleted counts
  {i \in posts : obj[i].st \in Live \cup {"deleting"}}
lostServers(posts) == {i \in posts : obj[i].st \in Live}
lostVolumes(posts) == {i \in posts : obj[i].st \in Live \cup {"deleting"}}
pickLost           == {i \in Posts : obj[i].stamped /\ obj[i].st \in Live}

Found(posts) ==
  CASE kind = "server"     -> lostServers(posts)
    [] kind = "novaVolume" -> lostVolumes(posts)
    [] OTHER               -> pickLost

\* The newest of several servers or volumes; the first Octavia lists.
Chosen(found) == IF Recipe.adopt = "token" THEN {Max(found)} ELSE found

Adopts(i) == /\ held' = i
             /\ obj' = [obj EXCEPT ![i].had = TRUE]
             /\ Return

\* What a lookup that found nothing was looking for.
Missed(posts) ==
  [i \in Posts |->
     [obj[i] EXCEPT !.missed = @ \/ (obj[i].st = "sent" /\ (Recipe.adopt = "name" \/ i \in posts))]]

LookupForgets ==   \* mutant: a lookup that fails forgets the tokens
  /\ At("lookup")
  /\ \/ /\ Sends
        /\ \/ Found(pending) # {} /\ \E i \in Chosen(Found(pending)) : Adopts(i)
           \/ Found(pending) = {} /\ obj' = Missed(pending) /\ Go("post") /\ UNCHANGED held
        /\ pending' = {} /\ UNCHANGED faults
     \/ /\ \E e \in Errors : Fails(e)
        /\ pending' = {}
        /\ Return
        /\ UNCHANGED <<obj, held>>
  /\ UNCHANGED <<kind, ctx, calls>>
\* A pending create is looked up before anything is posted.  When the lookup
\* fails its tokens go back and nothing is posted.
Lookup ==
  /\ At("lookup")
  /\ \/ /\ Sends
        /\ \/ Found(pending) # {} /\ \E i \in Chosen(Found(pending)) : Adopts(i)
           \/ Found(pending) = {} /\ obj' = Missed(pending) /\ Go("post") /\ UNCHANGED held
        /\ pending' = {} /\ UNCHANGED faults
     \/ /\ \E e \in Errors : Fails(e)
        /\ Return
        /\ UNCHANGED <<obj, held, pending>>
  /\ UNCHANGED <<kind, ctx, calls>>

Stamped == Recipe.stamp = "post"
New     == Len(obj) + 1

\* The POST is answered with the new object's id.
PostAnswered ==
  /\ At("post") /\ Sends /\ ~Refuses
  /\ IF Recipe.stamp \in {"tag", "try"}
     THEN /\ obj' = Append(obj, Object("build", FALSE, FALSE))
          /\ call' = [call EXCEPT !.pc = "tag", !.post = New]
          /\ UNCHANGED held
     ELSE /\ obj' = Append(obj, [Object("build", Stamped, FALSE) EXCEPT !.had = TRUE])
          /\ held' = New
          /\ Return
  /\ UNCHANGED <<kind, pending, ctx, calls, faults>>

\* The POST is refused because the object is already there; an attach then
\* asks whether it is there on this server.
PostRefused ==
  /\ At("post") /\ Sends /\ Refuses
  /\ IF Recipe.adopt = "fold" THEN Go("get") ELSE Return
  /\ UNCHANGED <<kind, obj, pending, held, ctx, calls, faults>>

\* The POST fails.  It may have landed, may land later, or never arrived.
PostFails ==
  /\ At("post")
  /\ \E e \in Errors :
       /\ Fails(e)
       /\ \E st \in {"sent", "build", "never"} :
            /\ st # "never" => Sends /\ (e.status = 0 \/ e.status >= 500)
            /\ st = "build" => ~Refuses
            /\ obj' = Append(obj, Object(st, Stamped, TRUE))
       /\ IF Recipe.adopt \in {"token", "name"} /\ mayHaveLanded(kind, e)
          THEN IF Sends
               THEN call' = [call EXCEPT !.pc = "find", !.post = New] /\ UNCHANGED pending
               ELSE pending' = pending \cup {New} /\ Return
          ELSE Return /\ UNCHANGED pending
  /\ UNCHANGED <<kind, held, ctx, calls>>

\* The lookup after a POST that may have landed; without a match the token
\* stays pending and the create fails with the POST's error.
Find ==
  /\ At("find")
  /\ \/ /\ Sends /\ Found({call.post}) # {}
        /\ \E i \in Chosen(Found({call.post})) : Adopts(i)
        /\ UNCHANGED <<pending, faults>>
     \/ /\ \/ Sends /\ Found({call.post}) = {} /\ UNCHANGED faults
           \/ \E e \in Errors : Fails(e)
        /\ pending' = pending \cup {call.post}
        /\ Return
        /\ UNCHANGED <<obj, held>>
  /\ UNCHANGED <<kind, ctx, calls>>

\* An attach that was refused reads the attachment: one that is there, even
\* one a detach has not finished with, makes the attach a success.
Get ==
  /\ At("get")
  /\ \/ /\ Sends
        /\ \/ \E i \in Posts : obj[i].st \in Live \cup {"deleting"} /\ Adopts(i)
           \/ ~Exists /\ Return /\ UNCHANGED <<obj, held>>
        /\ UNCHANGED faults
     \/ (\E e \in Errors : Fails(e)) /\ Return /\ UNCHANGED <<obj, held>>
  /\ UNCHANGED <<kind, pending, ctx, calls>>

(***************************************************************************)
(* Tagging a created object, and rolling it back when that fails.          *)
(***************************************************************************)
Tags(i) == obj' = [obj EXCEPT ![i].stamped = TRUE, ![i].had = TRUE]

\* The tag call succeeds.
TagAnswered ==
  /\ At("tag") /\ Sends /\ obj[call.post].st \in Live
  /\ Tags(call.post) /\ held' = call.post /\ Return
  /\ UNCHANGED <<kind, pending, ctx, calls, faults>>

GivesUpUntagged ==   \* mutant: a create whose tag failed is not rolled back
  IF Recipe.stamp = "try"
  THEN held' = call.post /\ Return
  ELSE Return /\ UNCHANGED held
GivesUp ==
  IF Recipe.stamp = "try"
  THEN held' = call.post /\ Return
  ELSE Go("rollback") /\ UNCHANGED held

\* A failed tag call is tried again while the error is transient, attempts are
\* left and the context lives; an error after the tag took effect is possible.
TagFails ==
  /\ At("tag")
  /\ \E e \in Errors \cup {[status |-> 404, quota |-> FALSE]} :
       /\ IF obj[call.post].st \notin Live /\ Sends
          THEN e.status = 404 /\ UNCHANGED faults
          ELSE e.status # 404 /\ Fails(e)
       /\ \/ UNCHANGED obj
          \/ /\ Sends /\ (e.status = 0 \/ e.status >= 500)
             /\ obj' = [obj EXCEPT ![call.post].stamped = TRUE]
       /\ IF IsRetryable(kind, e) /\ call.tries + 1 < tagAttempts
          THEN call' = [call EXCEPT !.tries = @ + 1] /\ UNCHANGED held
          ELSE GivesUp
  /\ UNCHANGED <<kind, pending, ctx, calls>>

\* The rollback is a delete under the context of the create.
Rollback ==
  /\ At("rollback")
  /\ \/ /\ Sends
        /\ Set(call.post, "gone")
        /\ UNCHANGED faults
     \/ \E e \in Errors :
          /\ Fails(e)
          /\ \E st \in {obj[call.post].st, "gone"} :
               /\ st = "gone" => Sends \/ obj[call.post].st = "gone"
               /\ obj' = [obj EXCEPT ![call.post].st = st, ![call.post].stuck = TRUE]
  /\ Return
  /\ UNCHANGED <<kind, pending, held, ctx, calls>>

(***************************************************************************)
(* The waits, the stamp of a stored secret, the delete.                    *)
(***************************************************************************)
CtxDone == ctx # "live"

\* A readiness wait ends with the status or the error its kind waits for, or
\* with the context; the caller keeps the object either way.
PollReady ==
  /\ At("poll")
  /\ \/ obj[held].st \in ReadyEnds(kind)
     \/ obj[held].st = "gone" /\ "gone" \in ReadyEnds(kind)
     \/ CtxDone
  /\ Return
  /\ UNCHANGED <<kind, obj, pending, held, ctx, calls, faults>>

StampSecret ==
  /\ At("stamp")
  /\ \/ Sends /\ obj[held].st \in Live /\ Tags(held) /\ UNCHANGED faults
     \/ Sends /\ obj[held].st \notin Live /\ UNCHANGED <<obj, faults>>
     \/ (\E e \in Errors : Fails(e)) /\ UNCHANGED obj
  /\ Return
  /\ UNCHANGED <<kind, pending, held, ctx, calls>>

Attachment == kind \in {"portAttachment", "volumeAttachment"}

\* The delete is answered.  A 404 counts as deleted, and only a detach waits
\* after it.  A delete without a wait is done when it is answered.
DeleteAnswered ==
  /\ At("delete") /\ Sends
  /\ IF obj[held].st \in {"half", "gone"}
     THEN /\ UNCHANGED obj
          /\ IF Attachment THEN Go("gone") /\ UNCHANGED held
                           ELSE held' = 0 /\ Return
     ELSE /\ Set(held, IF GoneIn(kind) = {} THEN "gone" ELSE "deleting")
          /\ IF GoneIn(kind) = {} THEN held' = 0 /\ Return
                                  ELSE Go("gone") /\ UNCHANGED held
  /\ UNCHANGED <<kind, pending, ctx, calls, faults>>

\* The delete fails, perhaps after it took effect; the caller keeps the id and
\* deletes again before its next create.
DeleteFails ==
  /\ At("delete")
  /\ \E e \in Errors :
       /\ Fails(e)
       /\ \/ UNCHANGED obj
          \/ /\ Sends /\ (e.status = 0 \/ e.status >= 500) /\ obj[held].st \in Live
             /\ Set(held, IF GoneIn(kind) = {} THEN "gone" ELSE "deleting")
  /\ Return
  /\ UNCHANGED <<kind, pending, held, ctx, calls>>

PollGonePastContext ==   \* mutant: the wait does not end with its context
  /\ At("gone")
  /\ obj[held].st \in GoneIn(kind) /\ held' = 0
  /\ Return
  /\ UNCHANGED <<kind, obj, pending, ctx, calls, faults>>
\* The wait after a delete.
PollGone ==
  /\ At("gone")
  /\ \/ obj[held].st \in GoneIn(kind) /\ held' = 0
     \/ CtxDone /\ UNCHANGED held
  /\ Return
  /\ UNCHANGED <<kind, obj, pending, ctx, calls, faults>>

Cloud == \E i \in Posts :
  Lands(i) \/ Builds(i) \/ Goes(i) \/ Vanishes(i) \/ deleteNetworkServers(i)
Caller == CallCreate \/ CallReady \/ CallStamp \/ CallDelete
Step ==
  \/ Lookup \/ PostAnswered \/ PostRefused \/ PostFails \/ Find \/ Get
  \/ TagAnswered \/ TagFails \/ Rollback \/ PollReady \/ StampSecret
  \/ DeleteAnswered \/ DeleteFails \/ PollGone

Next == Cloud \/ Caller \/ Deadline \/ Signal \/ Step

\* A client call goes on by itself and its deadline passes; the cloud promises
\* nothing.
Spec == Init /\ [][Next]_vars /\ WF_vars(Step) /\ WF_vars(Deadline)

(***************************************************************************)
(* Properties.                                                             *)
(***************************************************************************)
\* An object a create takes over from an earlier request (CreateServer,
\* CreateVolume, createAdopting, AttachPort, AttachVolume) is neither being
\* deleted nor one the caller had before: a lookup or a repeated attach never
\* hands out what a sweep or a detach is about to remove.
AdoptsLive ==
  [][\A i \in Posts : At("lookup") \/ At("find") \/ At("get") =>
       (held' = i => obj[i].st \in Live /\ ~obj[i].had)]_vars

\* A kind whose lost creates are adopted leaves a live object its client does
\* not know of only beside a create that landed after a lookup had run without
\* finding it, one for one (lostServers, lostVolumes, pickLost, addPending,
\* takePending): no answer lost earlier than that makes a duplicate.
DuplicatesAreLate ==
  call = Idle /\ Recipe.adopt \in {"token", "name"} =>
    Cardinality({i \in Posts \ (pending \cup {held}) : obj[i].st \in Live})
      <= Cardinality({i \in Posts : obj[i].missed /\ obj[i].st # "sent"})

\* An object nobody has the id of is found by the service's cleanup listings.
\* The exceptions are an object whose rollback was not confirmed, and, of a
\* kind whose create request does not carry the run's identity, one whose
\* answer was lost (createTagged and the run identity in create requests).
LeftoversFindable ==
  call = Idle =>
    \A i \in Posts :
      obj[i].st \in Live /\ i # held =>
        \/ Findable(kind, obj[i])
        \/ obj[i].lost /\ Recipe.stamp # "post"
        \/ obj[i].stuck

\* When a delete has returned without an error nothing of the object is left:
\* it is gone in every view, or, for an image, on its way (deleteGone,
\* WaitForPortDetached, WaitForVolumeDetached, WaitForActiveAfterDelete).
DeletedIsGone ==
  [][\A i \in Posts : held = i /\ held' = 0 =>
       obj'[i].st = "gone" \/ (kind = "image" /\ obj'[i].st = "deleting")]_vars

\* Every client call returns: its polls and retries end with the context.
CallsReturn == (call # Idle) ~> (call = Idle)
=============================================================================
