---------------------------- MODULE ClientsProofs ----------------------------
(***************************************************************************)
(* Proofs about Clients, for every number of calls, faults and tag         *)
(* attempts and for every kind of object.                                  *)
(***************************************************************************)
EXTENDS Clients, FiniteSetTheorems, TLAPS

-----------------------------------------------------------------------------
(***************************************************************************)
(* The inductive invariant.                                                *)
(***************************************************************************)
Records == [st : {"sent", "never", "deleting", "half", "gone"} \cup Live,
            stamped : BOOLEAN, had : BOOLEAN, lost : BOOLEAN,
            missed : BOOLEAN, stuck : BOOLEAN]

\* The steps of a call that has no object yet, and of one that has.
Creating == {"lookup", "post", "find", "get", "tag", "rollback"}
Holding  == {"poll", "stamp", "delete", "gone"}
CallType == [op : {"none", "create", "ready", "stamp", "delete"},
             pc : {"none"} \cup Creating \cup Holding, post : Nat, tries : Nat]

Typed ==
  /\ kind \in Kinds /\ obj \in Seq(Records)
  /\ pending \subseteq Posts /\ held \in Posts \cup {0}
  /\ call \in CallType

\* A kind whose lost creates are looked up.
Adopting == Recipe.adopt \in {"token", "name"}

\* At each step: what the call holds, and what is still pending.  At most one
\* POST is pending, and none while the next one is made.
CallSound ==
  /\ call.pc \in Creating => held = 0
  /\ call.pc \in Holding => held # 0
  /\ call.pc \in {"find", "tag", "rollback"} => call.post \in Posts
  /\ call.pc \in {"tag", "rollback"} => Recipe.stamp \in {"tag", "try"}
  /\ call.pc = "find" => Adopting
  /\ call.pc = "lookup" => pending # {}
  /\ pending # {} => Adopting
  /\ call.pc \in {"post", "find", "get"} => pending = {}
  /\ \A i, j \in pending : i = j
  /\ call.pc = "get" => Recipe.adopt = "fold"
  /\ call.pc = "stamp" => Recipe.stamp = "later"

\* Every object: a live one is held, being tagged or rolled back, or its
\* answer was lost or its rollback not confirmed; one the caller had is gone
\* once it is not held; and only what the caller had is ever deleted.
InTag(i) == call.pc \in {"tag", "rollback"} /\ i = call.post
ObjSound(i) ==
  /\ obj[i].st \in Live => i = held \/ obj[i].lost \/ obj[i].stuck \/ InTag(i)
  /\ Recipe.stamp = "post" => obj[i].stamped
  /\ obj[i].had /\ i # held =>
       obj[i].st = "gone" \/ (kind = "image" /\ obj[i].st = "deleting")
  /\ obj[i].st \in {"deleting", "half"} => obj[i].had \/ kind = "server"
  /\ obj[i].st = "half" => kind = "portAttachment"
  /\ obj[i].st = "sent" => obj[i].lost /\ ~obj[i].had
  /\ i = held => obj[i].had \/ GoneIn(kind) = {}

\* The client knows of what it holds or will look up.  What else is live, or
\* may still land without a lookup having missed it, is loose: never more than
\* the creates that landed after a lookup had missed them.
Known == pending \cup {held} \cup (IF call.pc = "find" THEN {call.post} ELSE {})
Loose ==
  {i \in Posts \ Known : obj[i].st \in Live \/ (obj[i].st = "sent" /\ ~obj[i].missed)}
Late == {i \in Posts : obj[i].missed /\ obj[i].st # "sent"}
Matched == Adopting => Cardinality(Loose) <= Cardinality(Late)

CInv == Typed /\ CallSound /\ (\A i \in Posts : ObjSound(i)) /\ Matched

-----------------------------------------------------------------------------
(***************************************************************************)
(* Facts about the tables, and about replacing and adding an object.       *)
(***************************************************************************)
\* The kinds by what their create requests carry.
TagKinds == {"neutronNetwork", "neutronSubnet", "subnetPool", "router",
  "neutronPort", "securityGroup", "floatingIP", "novaNetwork", "novaSubnet",
  "novaPort", "vipNetwork", "vipSubnet"}
TokenKinds == {"server", "novaVolume"}
NameKinds == {"loadBalancer", "listener", "pool", "member", "monitor"}
IdentityKinds == {"serverGroup", "volume", "snapshot", "image", "order",
  "container", "domain", "project", "user", "role"}
ChildKinds == {"securityRule", "routerInterface", "portAttachment",
  "volumeAttachment", "impliedRole", "assignment"}

\* The recipes of the kinds (Creates): what is looked up for is stamped by its
\* POST, only an address scope does without its tag, and what is stamped by its
\* POST or goes with its parent is in a listing of the cleanup (Findable).
LEMMA KindFacts ==
  ASSUME NEW k \in Kinds
  PROVE  /\ Creates[k].adopt \in {"token", "name"} => Creates[k].stamp = "post"
         /\ (Creates[k].adopt = "token") <=> (k \in TokenKinds)
         /\ Creates[k].adopt = "name" => k \in NameKinds
         /\ Creates[k].stamp = "try" => k = "addressScope"
         /\ k \in {"addressScope", "image"} => Creates[k].adopt = "never"
         /\ \A o : Creates[k].stamp = "post" /\ o.stamped => Findable(k, o)
         /\ \A o : Creates[k].stamp = "none" => Findable(k, o)
<1>1. k \in TagKinds \cup TokenKinds \cup NameKinds \cup IdentityKinds \cup ChildKinds
           \cup {"addressScope", "secret"}
  BY DEF Kinds, Creates, TagKinds, TokenKinds, NameKinds, IdentityKinds, ChildKinds
<1>2. k \in TagKinds => Creates[k].stamp = "tag" /\ Creates[k].adopt = "never"
  BY DEF TagKinds, Creates, NeutronCreateNetwork, neutronCreateTagged, Tagged,
         NeutronCreateSubnet, NeutronCreateSubnetPool, NeutronCreateRouter,
         NeutronCreatePort, NeutronCreateSecurityGroup,
         NeutronCreateFloatingIP, NovaCreateNetwork, novaCreateTagged,
         NovaCreateSubnet, NovaCreatePort, OctaviaCreateNetwork,
         octaviaCreateTagged, OctaviaCreateSubnet
<1>3. k = "addressScope" => Creates[k].stamp = "try" /\ Creates[k].adopt = "never"
  BY DEF Creates, NeutronCreateAddressScope, tagOptional, neutronCreateTagged,
         Tagged
<1>4. k = "secret" => Creates[k].stamp = "later" /\ Creates[k].adopt = "never"
  BY DEF Creates, BarbicanStoreSecret, InPost
<1>5. k \in ChildKinds => Creates[k].stamp = "none" /\ Creates[k].adopt \notin {"token", "name"}
  BY DEF ChildKinds, Creates, NeutronCreateSecurityGroupRule, Child,
         NeutronCreateRouterInterface, NovaAttachPort, NovaAttachVolume,
         KeystoneCreateImpliedRole, KeystoneAssignRole
<1>6. k \in TokenKinds => Creates[k].stamp = "post" /\ Creates[k].adopt = "token"
  BY DEF TokenKinds, Creates, NovaCreateServer, InPost, NovaCreateVolume
<1>7. /\ DOMAIN createAdopting = {"stamp", "adopt", "once"}
      /\ createAdopting.stamp = "post" /\ createAdopting.adopt = "name"
  BY DEF createAdopting, InPost
<1>8. k \in NameKinds => Creates[k].stamp = "post" /\ Creates[k].adopt = "name"
  BY <1>7 DEF NameKinds, Creates, OctaviaCreateLoadBalancer, OctaviaCreateListener,
              OctaviaCreatePool, OctaviaCreateMember, OctaviaCreateHealthMonitor
<1>9. k \in IdentityKinds => Creates[k].stamp = "post" /\ Creates[k].adopt = "never"
  BY DEF IdentityKinds, Creates, NovaCreateServerGroup, InPost,
         CinderCreateVolume, CinderCreateSnapshot, GlanceCreateImage,
         BarbicanCreateOrder, BarbicanCreateContainer, KeystoneCreateDomain,
         KeystoneCreateProject, KeystoneCreateUser, KeystoneCreateRole
<1>10. \A o : k \in TokenKinds \cup NameKinds \cup IdentityKinds /\ o.stamped =>
         Findable(k, o)
  BY DEF TokenKinds, NameKinds, IdentityKinds, Findable,
         NeutronDetachRouterInterfaces, NovaListServersByMetadata,
         NovaListVolumesByMetadata, NovaListServerGroupsByName,
         OctaviaListByTag, OctaviaDeleteCascade, CinderListVolumesByMetadata,
         CinderListSnapshotsByMetadata, GlanceListImagesByTag,
         BarbicanListSecretsByRun, BarbicanListOrdersByRun,
         BarbicanListContainersByRun, KeystoneListDomainsByPrefix,
         KeystoneListProjectsByTag, KeystoneListUsersByPrefix,
         KeystoneListRolesByPrefix, KeystoneListAssignmentsForUser,
         GoesWithParent
<1>11. \A o : k \in ChildKinds => Findable(k, o)
  BY DEF ChildKinds, Findable, NeutronDetachRouterInterfaces, KeystoneListAssignmentsForUser,
         GoesWithParent
<1> QED
  BY <1>1, <1>2, <1>3, <1>4, <1>5, <1>6, <1>8, <1>9, <1>10, <1>11
  DEF TagKinds, TokenKinds, NameKinds, IdentityKinds, ChildKinds

\* What a delete's wait takes for gone (GoneIn).
LEMMA GoneFacts ==
  ASSUME NEW k \in Kinds
  PROVE  /\ GoneIn(k) \subseteq {"deleting", "gone"}
         /\ k # "image" => GoneIn(k) \subseteq {"gone"}
         /\ GoneIn("addressScope") = {}
BY DEF GoneIn, NovaWaitForGone, NovaWaitForVolumeDetached, NovaWaitForPortDetached,
       OctaviaWaitForGone, OctaviaWaitAfterDelete, CinderWaitForGone, GlanceWaitForGone

\* No call under way is a call.
LEMMA IdleType == Idle \in CallType /\ Idle.pc = "none"
BY DEF CallType, Idle

\* One object of the sequence is replaced, and one is added.
LEMMA Replaced ==
  ASSUME NEW o \in Seq(Records), NEW i \in DOMAIN o, NEW r \in Records,
         NEW o1, o1 = [o EXCEPT ![i] = r]
  PROVE  /\ o1 \in Seq(Records) /\ DOMAIN o1 = DOMAIN o
         /\ o1[i] = r /\ \A j \in DOMAIN o \ {i} : o1[j] = o[j]
OBVIOUS

\* The object of a new POST has the next index.
LEMMA Added ==
  ASSUME NEW o \in Seq(Records), NEW r \in Records, NEW o1, o1 = Append(o, r)
  PROVE  /\ o1 \in Seq(Records) /\ Len(o) + 1 \notin DOMAIN o
         /\ DOMAIN o1 = DOMAIN o \cup {Len(o) + 1}
         /\ o1[Len(o) + 1] = r /\ \A j \in DOMAIN o : o1[j] = o[j]
OBVIOUS

(***************************************************************************)
(* The cloud moves one object on.                                          *)
(***************************************************************************)
Moves(i, r) ==
  /\ obj' = [obj EXCEPT ![i] = r]
  /\ r \in Records /\ r = [obj[i] EXCEPT !.st = r.st]
  /\ UNCHANGED <<kind, pending, held, call>>
  /\ \/ obj[i].st = "sent" /\ r.st = "build"
     \/ obj[i].st = "build" /\ r.st \in {"active", "error"}
     \/ obj[i].st = "deleting" /\ r.st = "half" /\ kind = "portAttachment"
     \/ obj[i].st \in Live \cup {"deleting", "half"} /\ r.st = "gone"
     \/ obj[i].st \in Live /\ r.st = "deleting" /\ kind = "server"

\* Every step of the cloud moves one object on.
LEMMA CloudMoves ==
  ASSUME Typed, NEW i \in Posts,
         Lands(i) \/ Builds(i) \/ Goes(i) \/ Vanishes(i) \/ deleteNetworkServers(i)
  PROVE  \E r : Moves(i, r)
<1>1. obj[i] \in Records
  BY DEF Typed, Posts
<1> DEFINE R(st) == [obj[i] EXCEPT !.st = st]
<1>2. \A st \in {"half", "gone", "deleting"} \cup Live :
        R(st) \in Records /\ R(st).st = st /\ R(st) = [obj[i] EXCEPT !.st = R(st).st]
  BY <1>1 DEF Records, Live
<1>3. \A st : Set(i, st) => obj' = [obj EXCEPT ![i] = R(st)]
  BY DEF Set
<1> HIDE DEF R
<1>4. CASE Lands(i)
  BY <1>2, <1>3, <1>4 DEF Lands, Moves, Live
<1>5. CASE Builds(i)
  <2>1. PICK st \in {"active", "error"} : Set(i, st)
    BY <1>5 DEF Builds
  <2> QED BY <1>2, <1>3, <1>5, <2>1 DEF Builds, Moves, Live
<1>6. CASE Goes(i)
  <2>1. CASE obj[i].st = "deleting" /\ kind = "portAttachment"
    BY <1>2, <1>3, <1>6, <2>1 DEF Goes, Moves
  <2>2. CASE obj[i].st = "half" \/ kind # "portAttachment"
    BY <1>2, <1>3, <1>6, <2>2 DEF Goes, Moves
  <2> QED BY <1>6, <2>1, <2>2 DEF Goes
<1>7. CASE Vanishes(i)
  BY <1>2, <1>3, <1>7 DEF Vanishes, Moves
<1>8. CASE deleteNetworkServers(i)
  BY <1>2, <1>3, <1>8 DEF deleteNetworkServers, Moves
<1> QED BY <1>4, <1>5, <1>6, <1>7, <1>8

\* A move of the cloud keeps every object accounted for.
LEMMA CloudKeeps ==
  ASSUME Typed, CallSound, \A i \in Posts : ObjSound(i),
         NEW i \in Posts, NEW r, Moves(i, r)
  PROVE  Typed' /\ CallSound' /\ \A j \in Posts' : ObjSound(j)'
<1>1. /\ obj \in Seq(Records) /\ obj' \in Seq(Records) /\ Posts' = Posts /\ obj'[i] = r
      /\ \A j \in Posts \ {i} : obj'[j] = obj[j]
      /\ r.had = obj[i].had /\ r.stamped = obj[i].stamped /\ r.lost = obj[i].lost
      /\ r.stuck = obj[i].stuck /\ r.missed = obj[i].missed
  <2>1. r \in Records /\ r = [obj[i] EXCEPT !.st = r.st] /\ obj[i] \in Records /\ obj \in Seq(Records)
    BY DEF Moves, Typed, Posts
  <2>2. /\ r.had = obj[i].had /\ r.stamped = obj[i].stamped /\ r.lost = obj[i].lost
        /\ r.stuck = obj[i].stuck /\ r.missed = obj[i].missed
    BY <2>1 DEF Records
  <2>3. QED BY ONLY <2>1, <2>2, Replaced, Moves(i, r), i \in Posts DEF Moves, Posts
<1>2. Typed' /\ CallSound'
  BY <1>1 DEF Typed, CallSound, Moves, Recipe, Adopting
<1>3. \A j \in Posts' : ObjSound(j)'
  <2>1. ASSUME NEW j \in Posts PROVE ObjSound(j)'
    <3>1. CASE j = i
      BY <1>1, <3>1 DEF Moves, ObjSound, InTag, Recipe, Live
    <3>2. CASE j # i
      BY <1>1, <3>2 DEF Moves, ObjSound, InTag, Recipe, Live
    <3> QED BY <3>1, <3>2
  <2> QED BY <1>1, <2>1
<1> QED BY <1>2, <1>3

(***************************************************************************)
(* Counting the objects without an owner against the lookups that missed.  *)
(***************************************************************************)
\* Fewer loose objects, or more late ones.
LEMMA CountKept ==
  ASSUME NEW A, NEW B, NEW A1, NEW B1, IsFiniteSet(A), IsFiniteSet(B1),
         A1 \subseteq A, B \subseteq B1, Cardinality(A) <= Cardinality(B)
  PROVE  Cardinality(A1) <= Cardinality(B1)
BY FS_Subset, FS_CardinalityType

\* One more of both.
LEMMA CountBoth ==
  ASSUME NEW A, NEW B, NEW A1, NEW B1, NEW i, IsFiniteSet(A), IsFiniteSet(B1),
         A1 \subseteq A \cup {i}, B \cup {i} \subseteq B1, i \notin B,
         Cardinality(A) <= Cardinality(B)
  PROVE  Cardinality(A1) <= Cardinality(B1)
<1>1. IsFiniteSet(A \cup {i}) /\ IsFiniteSet(B \cup {i}) /\ IsFiniteSet(B)
  BY FS_AddElement, FS_Subset
<1>2. Cardinality(A \cup {i}) <= Cardinality(A) + 1
  <2>1. Cardinality(A) \in Nat
    BY FS_CardinalityType
  <2>2. Cardinality(A \cup {i}) = Cardinality(A) \/ Cardinality(A \cup {i}) = Cardinality(A) + 1
    BY FS_AddElement
  <2> QED BY <2>1, <2>2
<1>5. Cardinality(B \cup {i}) = Cardinality(B) + 1
  BY <1>1, FS_AddElement
<1>3. Cardinality(A1) <= Cardinality(A \cup {i}) /\ Cardinality(B \cup {i}) <= Cardinality(B1)
  BY <1>1, FS_Subset
<1>4. IsFiniteSet(A1)
  BY <1>1, FS_Subset
<1>6. /\ Cardinality(A) \in Nat /\ Cardinality(B) \in Nat
      /\ Cardinality(A1) \in Nat /\ Cardinality(B1) \in Nat
      /\ Cardinality(A \cup {i}) \in Nat
  BY <1>1, <1>4, FS_CardinalityType
<1> QED BY <1>2, <1>3, <1>5, <1>6

\* One loose object in the place of another.
LEMMA CountSwap ==
  ASSUME NEW A, NEW B, NEW A1, NEW B1, NEW i, NEW j, IsFiniteSet(A), IsFiniteSet(B1),
         i \in A, A1 \subseteq (A \ {i}) \cup {j}, B \subseteq B1,
         Cardinality(A) <= Cardinality(B)
  PROVE  Cardinality(A1) <= Cardinality(B1)
<1> DEFINE C == A \ {i}
<1>1. IsFiniteSet(C) /\ Cardinality(C) = Cardinality(A) - 1 /\ Cardinality(A) \in Nat
  BY FS_RemoveElement, FS_CardinalityType
<1>2. A1 \subseteq C \cup {j}
  OBVIOUS
<1> HIDE DEF C
<1>3. IsFiniteSet(C \cup {j}) /\ Cardinality(C \cup {j}) <= Cardinality(C) + 1
  BY <1>1, FS_AddElement, FS_CardinalityType
<1>4. IsFiniteSet(A1) /\ Cardinality(A1) <= Cardinality(C \cup {j})
  BY <1>2, <1>3, FS_Subset
<1>5. IsFiniteSet(B) /\ Cardinality(B) <= Cardinality(B1)
  BY FS_Subset
<1> QED BY <1>1, <1>3, <1>4, <1>5, FS_CardinalityType

\* There are finitely many POSTs.
LEMMA PostsFinite ==
  ASSUME NEW o \in Seq(Records)
  PROVE  IsFiniteSet(DOMAIN o)
<1>1. DOMAIN o = 1..Len(o) /\ Len(o) \in Nat
  OBVIOUS
<1> QED BY <1>1, FS_Interval

\* A POST that lands after a lookup missed it is loose and late at once.
LEMMA CloudMatches ==
  ASSUME Typed, Typed', Matched, NEW i \in Posts, NEW r, Moves(i, r)
  PROVE  Matched'
<1>1. /\ Posts' = Posts /\ obj'[i] = r /\ \A j \in Posts \ {i} : obj'[j] = obj[j]
      /\ r.missed = obj[i].missed
  <2>1. r \in Records /\ r = [obj[i] EXCEPT !.st = r.st] /\ obj[i] \in Records /\ obj \in Seq(Records)
    BY DEF Moves, Typed, Posts
  <2>2. r.missed = obj[i].missed
    BY <2>1 DEF Records
  <2> QED BY ONLY <2>1, <2>2, Replaced, Moves(i, r), i \in Posts DEF Moves, Posts
<1>2. Known' = Known /\ Adopting' = Adopting
  BY DEF Moves, Known, Adopting, Recipe
<1>3. IsFiniteSet(Loose) /\ IsFiniteSet(Late')
  <2>1. IsFiniteSet(Posts) /\ IsFiniteSet(Posts')
    BY PostsFinite DEF Typed, Posts
  <2> QED BY <2>1, FS_Subset DEF Loose, Late
<1>4. SUFFICES ASSUME Adopting PROVE Cardinality(Loose') <= Cardinality(Late')
  BY <1>2 DEF Matched
<1>5. CASE obj[i].st = "sent" /\ obj[i].missed
  <2>1. /\ Loose' \subseteq Loose \cup {i} /\ Late \cup {i} \subseteq Late' /\ i \notin Late
    BY <1>1, <1>2, <1>5 DEF Loose, Late, Moves, Live
  <2> QED BY ONLY <1>3, <1>4, <2>1, Matched, CountBoth DEF Matched
<1>6. CASE ~(obj[i].st = "sent" /\ obj[i].missed)
  <2>1. Loose' \subseteq Loose /\ Late \subseteq Late'
    BY <1>1, <1>2, <1>6 DEF Loose, Late, Moves, Live
  <2> QED BY ONLY <1>3, <1>4, <2>1, Matched, CountKept DEF Matched
<1> QED BY <1>5, <1>6

(***************************************************************************)
(* Steps of the caller.                                                    *)
(***************************************************************************)
\* A step that makes no object loose keeps the count.
LEMMA Matches ==
  ASSUME Typed, Typed', Matched, kind' = kind,
         Adopting => Loose' \subseteq Loose /\ Late \subseteq Late'
  PROVE  Matched'
<1>1. IsFiniteSet(Loose) /\ IsFiniteSet(Late')
  <2>1. IsFiniteSet(Posts) /\ IsFiniteSet(Posts')
    BY PostsFinite DEF Typed, Posts
  <2> QED BY <2>1, FS_Subset DEF Loose, Late
<1>2. Adopting' = Adopting
  BY DEF Adopting, Recipe
<1> QED BY <1>1, <1>2, CountKept DEF Matched

Marked == {"find", "tag", "rollback"}
Quiet ==
  /\ UNCHANGED <<kind, obj, pending, held>>
  /\ call' \in CallType
  /\ call' = call \/ (call.pc \notin Marked /\ call'.pc \notin Marked)

\* A step that leaves the objects alone and is not about to name one.
LEMMA QuietKeeps ==
  ASSUME CInv, Quiet, CallSound'
  PROVE  CInv'
<1>1. Typed'
  BY DEF CInv, Quiet, Typed, Posts
<1>2. \A i \in Posts' : ObjSound(i)'
  BY DEF CInv, Quiet, ObjSound, InTag, Marked, Posts, Recipe
<1>3. Loose' = Loose /\ Late' = Late
  BY DEF Quiet, Loose, Late, Known, Marked, Posts
<1>4. Matched'
  BY <1>1, <1>3, Matches DEF CInv, Quiet
<1> QED BY <1>1, <1>2, <1>4 DEF CInv

\* A call starts, its deadline passes, or a signal comes.
LEMMA CallerKeeps ==
  ASSUME CInv, Caller \/ Deadline \/ Signal
  PROVE  CInv'
<1>1. CASE Deadline \/ Signal
  <2>1. UNCHANGED <<kind, obj, pending, held, call>>
    BY <1>1 DEF Deadline, Signal
  <2>2. Quiet /\ CallSound'
    BY <2>1 DEF CInv, Typed, CallSound, Quiet, Adopting, Recipe, Posts
  <2> QED BY <2>2, QuietKeeps
<1>2. CASE Caller
  <2>1. PICK op, pc :
          /\ Starts(op, pc) /\ op \in {"create", "ready", "stamp", "delete"}
          /\ \/ held = 0 /\ pc = "lookup" /\ pending # {}
             \/ held = 0 /\ pc = "post" /\ pending = {}
             \/ held # 0 /\ pc \in {"poll", "delete"}
             \/ held # 0 /\ pc = "stamp" /\ Recipe.stamp = "later"
    BY <1>2 DEF Caller, CallCreate, CallReady, CallStamp, CallDelete
  <2>2. /\ call.pc = "none" /\ call'.pc = pc /\ call' \in CallType
        /\ UNCHANGED <<kind, obj, pending, held>>
    BY <2>1 DEF Starts, Idle, CallType, Creating, Holding
  <2>3. Quiet /\ CallSound'
    BY <2>1, <2>2 DEF CInv, Typed, CallSound, Quiet, Adopting, Recipe, Posts, Creating, Holding, Marked
  <2> QED BY <2>3, QuietKeeps
<1> QED BY <1>1, <1>2

\* Taking over object i when the posts P were looked for.
Adopted(P, i) ==
  /\ i \in Posts /\ held' = i /\ call' = Idle /\ kind' = kind
  /\ obj' = [obj EXCEPT ![i].had = TRUE]
  /\ held = 0 /\ call.pc \notin {"tag", "rollback"}
  /\ obj[i].st \in Live \cup {"deleting"}
  /\ pending' \subseteq pending
  /\ Adopting => /\ pending' = {} /\ Known = P \cup {0} /\ P \subseteq Posts
                 /\ \A a, b \in P : a = b
                 /\ i \in P \/ obj[i].st \in Live

\* Taking an object over: by name it may be another one than was looked for,
\* which is then loose in its place.
LEMMA AdoptKeeps ==
  ASSUME CInv, NEW P, NEW i, Adopted(P, i)
  PROVE  CInv'
<1> DEFINE r == [obj[i] EXCEPT !.had = TRUE]
<1>1. /\ obj \in Seq(Records) /\ obj[i] \in Records /\ i \in Posts
      /\ obj' = [obj EXCEPT ![i] = r]
  BY DEF CInv, Typed, Posts, Adopted
<1>2. /\ r \in Records /\ r.had /\ r.st = obj[i].st /\ r.stamped = obj[i].stamped
      /\ r.missed = obj[i].missed
  BY <1>1 DEF Records
<1> HIDE DEF r
<1>3. /\ obj' \in Seq(Records) /\ Posts' = Posts /\ obj'[i] = r
      /\ \A j \in Posts \ {i} : obj'[j] = obj[j]
  BY ONLY <1>1, <1>2, Replaced DEF Posts
<1>4. Typed'
  BY <1>1, <1>3, IdleType DEF CInv, Typed, Adopted
<1>5. CallSound'
  BY <1>1, <1>3 DEF CInv, Typed, CallSound, Adopted, Idle, Adopting, Recipe, Creating, Holding
<1>6. ASSUME NEW j \in Posts PROVE ObjSound(j)'
  <2>1. CASE j = i
    BY <1>2, <1>3, <2>1 DEF CInv, ObjSound, Adopted, Recipe, Live
  <2>2. CASE j # i
    BY <1>3, <2>2 DEF CInv, ObjSound, Adopted, Recipe, InTag, Posts, Typed
  <2> QED BY <2>1, <2>2
<1>7. /\ Known' = pending' \cup {i}
      /\ \A x \in Posts : obj'[x].st = obj[x].st /\ obj'[x].missed = obj[x].missed
  BY <1>2, <1>3 DEF Adopted, Known, Idle
<1>8. Late' = Late
  BY <1>3, <1>7 DEF Late
<1>9. Matched'
  <2>1. CASE i \in P
    <3>1. Adopting => Loose' \subseteq Loose /\ Late \subseteq Late'
      <4>1. SUFFICES ASSUME Adopting PROVE Loose' \subseteq Loose
        BY <1>8
      <4>2. Known' = {i} /\ P = {i} /\ Known = {i, 0} /\ 0 \notin Posts
        BY <1>1, <1>7, <2>1, <4>1 DEF Adopted, Posts
      <4> QED BY <1>3, <1>7, <4>2 DEF Loose
    <3> QED BY <1>4, <3>1, Matches DEF CInv, Adopted
  <2>2. CASE i \notin P
    <3>1. SUFFICES ASSUME Adopting PROVE Cardinality(Loose') <= Cardinality(Late')
      BY DEF Matched, Adopting, Adopted, Recipe
    <3>2. IsFiniteSet(Loose) /\ IsFiniteSet(Late')
      <4>1. IsFiniteSet(Posts) /\ IsFiniteSet(Posts')
        BY <1>4, PostsFinite DEF CInv, Typed, Posts
      <4> QED BY <4>1, FS_Subset DEF Loose, Late
    <3>3. 0 \notin Posts
      BY <1>1 DEF Posts
    <3>4. i \in Loose /\ Late \subseteq Late'
      BY <1>8, <2>2, <3>1, <3>3 DEF Adopted, Loose
    <3>5. PICK j : P \subseteq {j}
      BY <3>1 DEF Adopted
    <3>6. Loose' \subseteq (Loose \ {i}) \cup {j}
      <4>1. Known' = {i} /\ Known \subseteq {j, 0}
        BY <1>7, <3>1, <3>5 DEF Adopted
      <4> QED BY <1>3, <1>7, <3>3, <4>1 DEF Loose
    <3> QED BY ONLY <3>1, <3>2, <3>4, <3>6, CInv, CountSwap DEF CInv, Matched
  <2> QED BY <2>1, <2>2
<1> QED BY <1>3, <1>4, <1>5, <1>6, <1>9 DEF CInv

\* What a lookup chooses: of the tokens the one that is pending, else any live
\* object of the name; of these only a volume may be on its way.
LEMMA ChosenFound ==
  ASSUME CInv, NEW P, P \subseteq Posts, \A a, b \in P : a = b, Adopting,
         Found(P) # {}, NEW i \in Chosen(Found(P))
  PROVE  /\ i \in Posts /\ obj[i].st \in Live \cup {"deleting"}
         /\ i \in P \/ obj[i].st \in Live
         /\ obj[i].st = "deleting" => kind = "novaVolume"
<1>1. Recipe = Creates[kind] /\ kind \in Kinds
  BY DEF CInv, Typed, Recipe
<1>2. CASE Recipe.adopt = "token"
  <2>1. kind \in {"server", "novaVolume"}
    BY <1>1, <1>2, KindFacts DEF TokenKinds
  <2>2. Found(P) \subseteq P
    BY <2>1 DEF Found, lostServers, lostVolumes
  <2>3. PICK a \in Found(P) : Found(P) = {a}
    BY <2>2
  <2>4. a \in Nat
    BY <2>2, <2>3 DEF CInv, Typed, Posts
  <2>5. Max({a}) = a
    BY <2>4 DEF Max
  <2>6. i = a
    BY <1>2, <2>3, <2>5 DEF Chosen
  <2>7. i \in P /\ i \in Found(P)
    BY <2>2, <2>3, <2>6
  <2>8. CASE kind = "server"
    BY <2>7, <2>8 DEF Found, lostServers, Live
  <2>9. CASE kind = "novaVolume"
    BY <2>7, <2>9 DEF Found, lostVolumes
  <2> QED BY <2>1, <2>8, <2>9
<1>3. CASE Recipe.adopt = "name"
  <2>1. kind \notin {"server", "novaVolume"}
    BY <1>1, <1>3, KindFacts DEF NameKinds
  <2>2. i \in pickLost
    BY <1>3, <2>1 DEF Chosen, Found
  <2> QED BY <2>2 DEF pickLost, Live
<1> QED BY <1>2, <1>3 DEF Adopting

\* A lookup that found nothing: what it looked for is not there yet.
LEMMA MissKeeps ==
  ASSUME CInv, call.pc = "lookup", Found(pending) = {}, pending # {},
         obj' = Missed(pending), pending' = {}, call' = [call EXCEPT !.pc = "post"],
         UNCHANGED <<kind, held>>
  PROVE  CInv'
<1>1. obj \in Seq(Records) /\ Posts = 1..Len(obj) /\ Len(obj) \in Nat /\ held = 0
      /\ Adopting /\ Recipe = Creates[kind] /\ kind \in Kinds
  BY DEF CInv, Typed, CallSound, Creating, Posts, Recipe
<1> DEFINE R(i) == [obj[i] EXCEPT !.missed = @ \/ (obj[i].st = "sent"
                                     /\ (Recipe.adopt = "name" \/ i \in pending))]
<1>2. \A i \in Posts :
        /\ R(i) \in Records /\ R(i).st = obj[i].st /\ R(i).had = obj[i].had
        /\ R(i).stamped = obj[i].stamped /\ R(i).lost = obj[i].lost /\ R(i).stuck = obj[i].stuck
        /\ obj[i].missed => R(i).missed
        /\ obj[i].st = "sent" /\ (Recipe.adopt = "name" \/ i \in pending) => R(i).missed
  <2>1. \A i \in Posts : obj[i] \in Records
    BY <1>1
  <2> QED BY <2>1 DEF Records
<1>3. obj' = [i \in Posts |-> R(i)]
  BY DEF Missed
<1> HIDE DEF R
<1>4. obj' \in Seq(Records) /\ Posts' = Posts /\ \A i \in Posts : obj'[i] = R(i)
  BY <1>1, <1>2, <1>3 DEF Posts
<1>5. Typed' /\ CallSound'
  <2>1. call'.pc = "post" /\ call' \in CallType
    BY DEF CInv, Typed, CallType, Creating
  <2>2. Typed'
    BY <1>1, <1>4, <2>1 DEF Typed
  <2> QED BY <1>1, <1>4, <2>1, <2>2 DEF CInv, CallSound, Adopting, Recipe, Creating, Holding
<1>6. ASSUME NEW j \in Posts PROVE ObjSound(j)'
  BY <1>1, <1>2, <1>4 DEF CInv, ObjSound, InTag, Recipe
<1>7. \A i \in Posts : obj[i].st \in Live => i \notin pending
  <2>1. CASE Recipe.adopt = "token"
    <3>1. kind \in {"server", "novaVolume"}
      BY <1>1, <2>1, KindFacts DEF TokenKinds
    <3> QED BY <3>1 DEF Found, lostServers, lostVolumes
  <2>2. CASE Recipe.adopt = "name"
    <3>1. kind \notin {"server", "novaVolume"} /\ Recipe.stamp = "post"
      BY <1>1, <2>2, KindFacts DEF NameKinds
    <3>2. \A i \in Posts : obj[i].stamped
      BY <3>1 DEF CInv, ObjSound
    <3> QED BY <3>1, <3>2 DEF Found, pickLost
  <2> QED BY <1>1, <2>1, <2>2 DEF Adopting
<1>8. Loose' \subseteq Loose /\ Late \subseteq Late'
  <2>1. Known' = {0} /\ Known = pending \cup {0}
    BY <1>1, <1>5, call' = [call EXCEPT !.pc = "post"] DEF Known, CInv, Typed
  <2>2. Late \subseteq Late'
    BY <1>2, <1>4 DEF Late
  <2>3. ASSUME NEW x \in Loose' PROVE x \in Loose
    <3>1. /\ x \in Posts \ {0}
          /\ obj[x].st \in Live \/ (obj[x].st = "sent" /\ ~R(x).missed)
      BY <1>2, <1>4, <2>1 DEF Loose
    <3>2. CASE obj[x].st \in Live
      BY <1>7, <2>1, <3>1, <3>2 DEF Loose
    <3>3. CASE obj[x].st = "sent" /\ ~R(x).missed
      <4>1. x \in Posts /\ ~obj[x].missed
        BY ONLY <1>2, <3>1, <3>3
      <4>2. x \notin pending
        BY ONLY <1>2, <3>3, <4>1
      <4> QED BY <2>1, <3>1, <3>3, <4>1, <4>2 DEF Loose
    <3> QED BY <3>1, <3>2, <3>3
  <2> QED BY <2>2, <2>3
<1>9. Matched'
  BY <1>5, <1>8, Matches DEF CInv
<1> QED BY <1>4, <1>5, <1>6, <1>9 DEF CInv

\* The lookup of an earlier create (CreateServer, CreateVolume, createAdopting).
LEMMA LookupKeeps ==
  ASSUME CInv, Lookup
  PROVE  CInv'
<1>1. /\ call.pc = "lookup" /\ kind' = kind /\ held = 0 /\ pending # {} /\ Adopting
      /\ pending \subseteq Posts /\ \A a, b \in pending : a = b
  BY DEF Lookup, At, CInv, Typed, CallSound, Creating
<1>2. CASE \E i \in Chosen(Found(pending)) : Found(pending) # {} /\ Adopts(i) /\ pending' = {}
  <2>1. PICK i \in Chosen(Found(pending)) : Found(pending) # {} /\ Adopts(i) /\ pending' = {}
    BY <1>2
  <2>2. Adopted(pending, i)
    BY <1>1, <2>1, ChosenFound DEF Adopts, Return, Adopted, Known
  <2> QED BY <2>2, AdoptKeeps
<1>3. CASE /\ Found(pending) = {} /\ obj' = Missed(pending) /\ Go("post")
           /\ UNCHANGED held /\ pending' = {}
  <2>1. call' = [call EXCEPT !.pc = "post"]
    BY <1>3 DEF Go
  <2> QED BY <1>1, <1>3, <2>1, MissKeeps
<1>4. CASE Return /\ UNCHANGED <<obj, held, pending>>
  <2>1. Quiet /\ CallSound'
    BY <1>1, <1>4, IdleType
    DEF CInv, CallSound, Quiet, Return, Adopting, Recipe, Marked, Creating, Holding
  <2> QED BY <2>1, QuietKeeps
<1> QED BY <1>2, <1>3, <1>4 DEF Lookup

\* The lookup after a POST that may have landed.
LEMMA FindKeeps ==
  ASSUME CInv, Find
  PROVE  CInv'
<1> DEFINE P == {call.post}
<1>1. /\ call.pc = "find" /\ kind' = kind /\ held = 0 /\ pending = {} /\ Adopting
      /\ P \subseteq Posts /\ call.post \in Posts
  BY DEF Find, At, CInv, Typed, CallSound, Creating
<1>2. CASE \E i \in Chosen(Found(P)) : Found(P) # {} /\ Adopts(i) /\ pending' = pending
  <2>1. PICK i \in Chosen(Found(P)) : Found(P) # {} /\ Adopts(i) /\ pending' = pending
    BY <1>2
  <2>2. Adopted(P, i)
    BY <1>1, <2>1, ChosenFound DEF Adopts, Return, Adopted, Known
  <2> QED BY <2>2, AdoptKeeps
<1>3. CASE pending' = pending \cup P /\ Return /\ UNCHANGED <<obj, held>>
  <2>1. Typed' /\ Posts' = Posts
    BY <1>1, <1>3, IdleType DEF CInv, Typed, Return, Posts
  <2>2. CallSound'
    BY <1>1, <1>3 DEF CInv, CallSound, Return, Idle, Adopting, Recipe, Creating, Holding
  <2>3. \A i \in Posts' : ObjSound(i)'
    BY <1>1, <1>3, <2>1 DEF CInv, ObjSound, InTag, Recipe, Return, Idle
  <2>4. Known' = Known
    BY <1>1, <1>3 DEF Known, Return, Idle
  <2>5. Loose' = Loose /\ Late' = Late
    BY <1>3, <2>1, <2>4 DEF Loose, Late
  <2>6. Matched'
    BY <1>1, <2>1, <2>5, Matches DEF CInv
  <2> QED BY <2>1, <2>2, <2>3, <2>6 DEF CInv
<1> QED BY <1>1, <1>2, <1>3 DEF Find

\* The read of an attachment after a refusal (AttachPort, AttachVolume).
LEMMA GetKeeps ==
  ASSUME CInv, Get
  PROVE  CInv'
<1>1. /\ call.pc = "get" /\ kind' = kind /\ pending' = pending /\ held = 0 /\ ~Adopting
  BY DEF Get, At, CInv, CallSound, Creating, Adopting
<1>2. CASE \E i \in Posts : obj[i].st \in Live \cup {"deleting"} /\ Adopts(i)
  <2>1. PICK i \in Posts : obj[i].st \in Live \cup {"deleting"} /\ Adopts(i)
    BY <1>2
  <2>2. Adopted({}, i)
    BY <1>1, <2>1 DEF Adopts, Return, Adopted
  <2> QED BY <2>2, AdoptKeeps
<1>3. CASE Return /\ UNCHANGED <<obj, held>>
  <2>1. Quiet /\ CallSound'
    BY <1>1, <1>3, IdleType
    DEF CInv, CallSound, Quiet, Return, Adopting, Recipe, Marked, Creating, Holding
  <2> QED BY <2>1, QuietKeeps
<1> QED BY <1>2, <1>3 DEF Get

(***************************************************************************)
(* Posting.                                                                *)
(***************************************************************************)
\* The POST is answered.
LEMMA PostAnsweredKeeps ==
  ASSUME CInv, PostAnswered
  PROVE  CInv'
<1>1. /\ call.pc = "post" /\ kind' = kind /\ pending' = pending /\ held = 0 /\ pending = {}
      /\ obj \in Seq(Records) /\ kind \in Kinds /\ Recipe = Creates[kind]
  BY DEF PostAnswered, At, CInv, Typed, CallSound, Creating, Recipe
<1>2. New \in Nat /\ New # 0
  BY <1>1 DEF New
<1>3. CASE Recipe.stamp \in {"tag", "try"}
  <2> DEFINE r == Object("build", FALSE, FALSE)
  <2>1. /\ obj' = Append(obj, r) /\ call' = [call EXCEPT !.pc = "tag", !.post = New] /\ held' = 0
    BY <1>1, <1>3 DEF PostAnswered
  <2>2. r \in Records /\ r.st = "build" /\ ~r.had
    BY DEF Object, Records, Live
  <2> HIDE DEF r
  <2>3. /\ obj' \in Seq(Records) /\ Posts' = Posts \cup {New} /\ New \notin Posts
        /\ obj'[New] = r /\ \A j \in Posts : obj'[j] = obj[j]
    BY ONLY <1>1, <2>1, <2>2, Added DEF New, Posts
  <2>4. call' \in CallType
        /\ call'.pc = "tag" /\ call'.post = New
    BY <1>2, <2>1 DEF CInv, Typed, CallType, Creating
  <2>5. ~Adopting
    BY <1>1, <1>3, KindFacts DEF Adopting
  <2>6. Typed' /\ CallSound'
    BY <1>1, <1>3, <2>1, <2>3, <2>4, <2>5
    DEF CInv, Typed, CallSound, Adopting, Recipe, Creating, Holding
  <2>7. ASSUME NEW j \in Posts' PROVE ObjSound(j)'
    <3>1. CASE j = New
      BY <1>1, <1>2, <1>3, <2>1, <2>2, <2>3, <2>4, <3>1 DEF ObjSound, InTag, Recipe
    <3>2. CASE j \in Posts
      BY <1>1, <2>1, <2>3, <3>2 DEF CInv, ObjSound, InTag, Recipe
    <3> QED BY <2>3, <3>1, <3>2
  <2>8. Matched'
    BY <1>1, <2>5 DEF Matched, Adopting, Recipe
  <2> QED BY <2>6, <2>7, <2>8 DEF CInv
<1>4. CASE Recipe.stamp \notin {"tag", "try"}
  <2> DEFINE r == [Object("build", Stamped, FALSE) EXCEPT !.had = TRUE]
  <2>1. /\ obj' = Append(obj, r) /\ call' = Idle /\ held' = New
    BY <1>1, <1>4 DEF PostAnswered, Return
  <2>2. r \in Records /\ r.st = "build" /\ r.had /\ (Recipe.stamp = "post" => r.stamped)
    BY DEF Object, Records, Live, Stamped
  <2> HIDE DEF r
  <2>3. /\ obj' \in Seq(Records) /\ Posts' = Posts \cup {New} /\ New \notin Posts
        /\ obj'[New] = r /\ \A j \in Posts : obj'[j] = obj[j]
    BY ONLY <1>1, <2>1, <2>2, Added DEF New, Posts
  <2>4. Typed'
    BY <1>1, <2>1, <2>3, IdleType DEF Typed
  <2>5. CallSound'
    BY <1>1, <2>1, <2>3 DEF CInv, CallSound, Idle, Adopting, Recipe, Creating, Holding
  <2>6. ASSUME NEW j \in Posts' PROVE ObjSound(j)'
    <3>1. CASE j = New
      BY <1>1, <2>1, <2>2, <2>3, <3>1 DEF ObjSound, Recipe
    <3>2. CASE j \in Posts
      BY <1>1, <2>1, <2>3, <3>2 DEF CInv, Typed, ObjSound, InTag, Recipe, Idle, Posts
    <3> QED BY <2>3, <3>1, <3>2
  <2>7. Loose' \subseteq Loose /\ Late \subseteq Late'
    <3>1. Known' = {New} /\ Known = {0}
      BY <1>1, <2>1 DEF Known, Idle
    <3>2. 0 \notin Posts
      BY <1>1 DEF Posts
    <3> QED BY <2>3, <3>1, <3>2 DEF Loose, Late
  <2>8. Matched'
    BY <1>1, <2>4, <2>7, Matches DEF CInv
  <2> QED BY <2>4, <2>5, <2>6, <2>8 DEF CInv
<1> QED BY <1>3, <1>4

\* The POST fails; what may have landed is looked up or stays pending.
LEMMA PostFailsKeeps ==
  ASSUME CInv, PostFails
  PROVE  CInv'
<1>1. /\ call.pc = "post" /\ kind' = kind /\ held' = held /\ held = 0 /\ pending = {}
      /\ obj \in Seq(Records) /\ kind \in Kinds /\ Recipe = Creates[kind]
      /\ call \in CallType
  BY DEF PostFails, At, CInv, Typed, CallSound, Creating, Recipe
<1>2. New \in Nat /\ New # 0 /\ 0 \notin Posts
  BY <1>1 DEF New, Posts
<1>3. PICK e \in Errors :
        /\ \E st \in {"sent", "build", "never"} :
             /\ st # "never" => Sends /\ (e.status = 0 \/ e.status >= 500)
             /\ obj' = Append(obj, Object(st, Stamped, TRUE))
        /\ IF Recipe.adopt \in {"token", "name"} /\ mayHaveLanded(kind, e)
           THEN IF Sends
                THEN call' = [call EXCEPT !.pc = "find", !.post = New] /\ UNCHANGED pending
                ELSE pending' = pending \cup {New} /\ Return
           ELSE Return /\ UNCHANGED pending
  BY DEF PostFails
<1>4. PICK st \in {"sent", "build", "never"} :
        /\ st # "never" => Sends /\ (e.status = 0 \/ e.status >= 500)
        /\ obj' = Append(obj, Object(st, Stamped, TRUE))
  BY <1>3
<1> DEFINE r == Object(st, Stamped, TRUE)
<1>5. /\ r \in Records /\ r.st = st /\ r.lost /\ ~r.had /\ (Recipe.stamp = "post" => r.stamped)
      /\ ~r.missed /\ obj' = Append(obj, r)
  BY <1>4 DEF Object, Records, Live, Stamped
<1> HIDE DEF r
<1>6. /\ obj' \in Seq(Records) /\ Posts' = Posts \cup {New} /\ New \notin Posts
      /\ obj'[New] = r /\ \A j \in Posts : obj'[j] = obj[j]
  BY ONLY <1>1, <1>5, Added DEF New, Posts
<1>7. \/ /\ call' = Idle /\ pending' = {} /\ (Adopting => st = "never")
      \/ /\ call' = Idle /\ pending' = {New} /\ Adopting
      \/ /\ call'.pc = "find" /\ call'.post = New /\ pending' = {} /\ Adopting
         /\ call' = [call EXCEPT !.pc = "find", !.post = New]
  <2>1. st # "never" => mayHaveLanded(kind, e)
    BY <1>4 DEF mayHaveLanded, novaMayHaveLanded, octaviaMayHaveLanded
  <2>2. CASE ~(Adopting /\ mayHaveLanded(kind, e))
    BY <1>1, <1>3, <2>1, <2>2 DEF Adopting, Return
  <2>3. CASE Adopting /\ mayHaveLanded(kind, e) /\ ~Sends
    BY <1>1, <1>3, <2>3 DEF Adopting, Return
  <2>4. CASE Adopting /\ mayHaveLanded(kind, e) /\ Sends
    <3>1. call' = [call EXCEPT !.pc = "find", !.post = New] /\ pending' = {}
      BY <1>1, <1>3, <2>4 DEF Adopting
    <3> QED BY <1>1, <2>4, <3>1 DEF CallType
  <2> QED BY <2>2, <2>3, <2>4
<1>8. Typed'
  <2>1. call' \in CallType
    <3>1. CASE call' = Idle
      BY <3>1, IdleType
    <3>2. CASE call' = [call EXCEPT !.pc = "find", !.post = New]
      BY <1>1, <1>2, <3>2 DEF CallType, Creating
    <3> QED BY <1>7, <3>1, <3>2
  <2> QED BY <1>1, <1>6, <1>7, <2>1 DEF Typed
<1>9. CallSound'
  BY <1>1, <1>6, <1>7 DEF CInv, CallSound, Idle, Adopting, Recipe, Creating, Holding
<1>10. ASSUME NEW j \in Posts' PROVE ObjSound(j)'
  <2>1. CASE j = New
    BY <1>1, <1>2, <1>4, <1>5, <1>6, <2>1 DEF ObjSound, Recipe
  <2>2. CASE j \in Posts
    BY <1>1, <1>6, <2>2 DEF CInv, ObjSound, InTag, Recipe
  <2> QED BY <1>6, <2>1, <2>2
<1>11. Adopting => Loose' \subseteq Loose /\ Late \subseteq Late'
  <2>1. SUFFICES ASSUME Adopting PROVE Loose' \subseteq Loose /\ Late \subseteq Late'
    OBVIOUS
  <2>2. Known = {0} /\ 0 \in Known'
    BY <1>1 DEF Known
  <2>3. New \in Known' \/ r.st = "never"
    BY <1>5, <1>7, <2>1 DEF Known, Idle
  <2> QED BY <1>2, <1>5, <1>6, <2>2, <2>3 DEF Loose, Late, Live
<1>12. Matched'
  BY <1>1, <1>8, <1>11, Matches DEF CInv
<1> QED BY <1>8, <1>9, <1>10, <1>12 DEF CInv

\* The POST is refused.
LEMMA PostRefusedKeeps ==
  ASSUME CInv, PostRefused
  PROVE  CInv'
<1>1. /\ call.pc = "post" /\ UNCHANGED <<kind, obj, pending, held>>
      /\ \/ Recipe.adopt = "fold" /\ call' = [call EXCEPT !.pc = "get"]
         \/ call' = Idle
  BY DEF PostRefused, At, Go, Return
<1>2. call' \in CallType /\ call'.pc \in {"get", "none"} /\ (call'.pc = "get" => Recipe.adopt = "fold")
  <2>1. CASE call' = Idle
    BY <2>1, IdleType
  <2>2. CASE Recipe.adopt = "fold" /\ call' = [call EXCEPT !.pc = "get"]
    BY <2>2 DEF CInv, Typed, CallType, Creating
  <2> QED BY <1>1, <2>1, <2>2
<1>3. Quiet /\ CallSound'
  BY <1>1, <1>2 DEF CInv, CallSound, Quiet, Adopting, Recipe, Marked, Creating, Holding
<1> QED BY <1>3, QuietKeeps

(***************************************************************************)
(* Tagging, rolling back and deleting: object i becomes r.                 *)
(***************************************************************************)
Becomes(i, r) ==
  /\ i \in Posts /\ r \in Records /\ obj' = [obj EXCEPT ![i] = r]
  /\ UNCHANGED <<kind, pending>> /\ held' \in Posts \cup {0} /\ call' \in CallType
  /\ r.missed = obj[i].missed /\ r.lost = obj[i].lost
  /\ (obj[i].stamped => r.stamped) /\ (obj[i].had => r.had) /\ (obj[i].stuck => r.stuck)

\* What the others of the objects are left with.
LEMMA BecomesKeeps ==
  ASSUME CInv, NEW i, NEW r, Becomes(i, r), CallSound',
         ObjSound(i)',
         \A j \in Posts \ {i} : j # held /\ ~InTag(j) /\ j # held',
         Adopting => /\ \/ Known \subseteq Known'
                        \/ Known \subseteq Known' \cup {i} /\ r.st \notin Live \cup {"sent"}
                     /\ r.st \in Live \cup {"sent"} => r.st = obj[i].st
                     /\ r.st = "sent" => obj[i].st = "sent"
  PROVE  CInv'
<1>1. /\ obj' \in Seq(Records) /\ Posts' = Posts /\ obj'[i] = r
      /\ \A j \in Posts \ {i} : obj'[j] = obj[j]
  <2>1. obj \in Seq(Records)
    BY DEF CInv, Typed
  <2> QED BY ONLY <2>1, Becomes(i, r), Replaced DEF Becomes, Posts
<1>2. Typed'
  BY <1>1 DEF CInv, Typed, Becomes
<1>3. ASSUME NEW j \in Posts \ {i} PROVE ObjSound(j)'
  BY <1>1, <1>3 DEF CInv, ObjSound, Becomes, Recipe
<1>4. Adopting => Loose' \subseteq Loose /\ Late \subseteq Late'
  BY <1>1 DEF Loose, Late, Becomes
<1>5. Matched'
  BY <1>2, <1>4, Matches DEF CInv, Becomes
<1> QED BY <1>1, <1>2, <1>3, <1>5 DEF CInv

\* The tag call and its retries (createTagged).
LEMMA TagKeeps ==
  ASSUME CInv, TagAnswered \/ TagFails
  PROVE  CInv'
<1>0. PICK i : i = call.post
  OBVIOUS
<1>1. /\ call.pc = "tag" /\ i \in Posts /\ held = 0 /\ 0 \notin Posts
      /\ UNCHANGED <<kind, pending>>
      /\ obj \in Seq(Records) /\ obj[i] \in Records /\ kind \in Kinds /\ Recipe = Creates[kind]
      /\ Recipe.stamp \in {"tag", "try"} /\ call \in CallType
  BY <1>0 DEF TagAnswered, TagFails, At, CInv, Typed, CallSound, Creating, Posts, Recipe
<1>2. ~Adopting /\ (Recipe.stamp = "try" => GoneIn(kind) = {})
  BY <1>1, KindFacts, GoneFacts DEF Adopting
<1>3. PICK r :
        /\ Becomes(i, r) /\ r.st = obj[i].st
        /\ \/ held' = i /\ call' = Idle /\ r.had /\ r.st \in Live
           \/ held' = i /\ call' = Idle /\ Recipe.stamp = "try" /\ r.had = obj[i].had
           \/ held' = 0 /\ call'.pc \in {"tag", "rollback"} /\ call'.post = i /\ r.had = obj[i].had
  <2>1. CASE TagAnswered
    <3> DEFINE r == [obj[i] EXCEPT !.stamped = TRUE, !.had = TRUE]
    <3>1. /\ r \in Records /\ r.st = obj[i].st /\ r.had /\ r.stamped
          /\ r.missed = obj[i].missed /\ r.lost = obj[i].lost /\ r.stuck = obj[i].stuck
      BY <1>1 DEF Records
    <3>2. /\ obj' = [obj EXCEPT ![i] = r] /\ held' = i /\ call' = Idle /\ obj[i].st \in Live
      BY <1>0, <2>1 DEF TagAnswered, Tags, Return
    <3> HIDE DEF r
    <3>3. Becomes(i, r)
      BY <1>1, <3>1, <3>2, IdleType DEF Becomes
    <3> QED BY <3>1, <3>2, <3>3
  <2>2. CASE TagFails
    <3>1. /\ obj' = obj \/ obj' = [obj EXCEPT ![i].stamped = TRUE]
          /\ \/ call' = [call EXCEPT !.tries = @ + 1] /\ held' = held
             \/ GivesUp
      BY <1>0, <2>2 DEF TagFails
    <3>2. \/ /\ held' = 0 /\ call' \in CallType /\ call'.pc \in {"tag", "rollback"} /\ call'.post = i
          \/ held' = i /\ call' = Idle /\ Recipe.stamp = "try"
      <4>1. CASE call' = [call EXCEPT !.tries = @ + 1] /\ held' = held
        BY <1>0, <1>1, <4>1 DEF CallType
      <4>2. CASE GivesUp
        BY <1>0, <1>1, <4>2 DEF GivesUp, Return, Go, CallType, Creating
      <4> QED BY <3>1, <4>1, <4>2
    <3>3. PICK r : /\ obj' = [obj EXCEPT ![i] = r] /\ r \in Records
                   /\ \/ r = obj[i]
                      \/ r = [obj[i] EXCEPT !.stamped = TRUE]
      <4>1. CASE obj' = obj
        <5>1. obj = [obj EXCEPT ![i] = obj[i]]
          BY <1>1
        <5> QED BY <1>1, <4>1, <5>1
      <4>2. CASE obj' = [obj EXCEPT ![i].stamped = TRUE]
        <5>1. [obj[i] EXCEPT !.stamped = TRUE] \in Records
          BY <1>1 DEF Records
        <5> QED BY <4>2, <5>1
      <4> QED BY <3>1, <4>1, <4>2
    <3>4. /\ r.st = obj[i].st /\ r.had = obj[i].had /\ (obj[i].stamped => r.stamped)
          /\ r.missed = obj[i].missed /\ r.lost = obj[i].lost /\ r.stuck = obj[i].stuck
      BY <1>1, <3>3 DEF Records
    <3>5. held' \in Posts \cup {0} /\ call' \in CallType
      BY <1>1, <3>2, IdleType
    <3>6. Becomes(i, r)
      BY <1>1, <3>3, <3>4, <3>5 DEF Becomes
    <3> QED BY <3>2, <3>4, <3>6
  <2> QED BY <2>1, <2>2
<1>4. obj'[i] = r /\ Posts' = Posts
  BY <1>1, <1>3 DEF Becomes, Posts
<1>5. CallSound'
  BY <1>1, <1>2, <1>3, <1>4, IdleType
  DEF CInv, CallSound, Becomes, Adopting, Recipe, Creating, Holding
<1>6. ObjSound(i)'
  <2>1. /\ ObjSound(i) /\ kind' = kind /\ Recipe' = Recipe
        /\ r.lost = obj[i].lost /\ (obj[i].stamped => r.stamped)
    BY <1>1, <1>3 DEF CInv, Becomes, Recipe
  <2>2. CASE held' = i /\ r.had /\ r.st \in Live
    BY <1>3, <1>4, <2>1, <2>2 DEF ObjSound, Live
  <2>3. CASE held' = i /\ Recipe.stamp = "try" /\ r.had = obj[i].had
    BY <1>2, <1>3, <1>4, <2>1, <2>3 DEF ObjSound
  <2>4. CASE held' = 0 /\ InTag(i)' /\ r.had = obj[i].had
    BY <1>1, <1>3, <1>4, <2>1, <2>4 DEF ObjSound
  <2> QED BY <1>3, <2>2, <2>3, <2>4 DEF InTag
<1>7. \A j \in Posts \ {i} : j # held /\ ~InTag(j) /\ j # held'
  BY <1>0, <1>1, <1>3 DEF InTag
<1> QED BY <1>2, <1>3, <1>5, <1>6, <1>7, BecomesKeeps

\* The rollback of a create whose tag call failed (createTagged).
LEMMA RollbackKeeps ==
  ASSUME CInv, Rollback
  PROVE  CInv'
<1>0. PICK i : i = call.post
  OBVIOUS
<1>1. /\ call.pc = "rollback" /\ i \in Posts /\ held = 0 /\ 0 \notin Posts
      /\ UNCHANGED <<kind, pending>> /\ held' = 0 /\ call' = Idle
      /\ obj \in Seq(Records) /\ obj[i] \in Records /\ kind \in Kinds /\ Recipe = Creates[kind]
      /\ Recipe.stamp \in {"tag", "try"}
  BY <1>0 DEF Rollback, At, CInv, Typed, CallSound, Creating, Posts, Recipe, Return
<1>2. ~Adopting
  BY <1>1, KindFacts DEF Adopting
<1>3. PICK st \in {obj[i].st, "gone"} :
        \/ st = "gone" /\ obj' = [obj EXCEPT ![i].st = st]
        \/ obj' = [obj EXCEPT ![i].st = st, ![i].stuck = TRUE]
  BY <1>0 DEF Rollback, Set
<1>4. PICK r :
        /\ Becomes(i, r) /\ r.st = st /\ r.had = obj[i].had
        /\ st = "gone" \/ r.stuck
  <2>1. CASE st = "gone" /\ obj' = [obj EXCEPT ![i].st = st]
    <3> DEFINE r == [obj[i] EXCEPT !.st = st]
    <3>1. /\ r \in Records /\ r.st = st /\ r.had = obj[i].had /\ r.stamped = obj[i].stamped
          /\ r.missed = obj[i].missed /\ r.lost = obj[i].lost /\ r.stuck = obj[i].stuck
      BY <1>1, <2>1 DEF Records
    <3>2. obj' = [obj EXCEPT ![i] = r]
      BY <2>1
    <3> HIDE DEF r
    <3>3. Becomes(i, r)
      BY <1>1, <3>1, <3>2, IdleType DEF Becomes
    <3> QED BY <2>1, <3>1, <3>3
  <2>2. CASE obj' = [obj EXCEPT ![i].st = st, ![i].stuck = TRUE]
    <3> DEFINE r == [obj[i] EXCEPT !.st = st, !.stuck = TRUE]
    <3>1. /\ r \in Records /\ r.st = st /\ r.had = obj[i].had /\ r.stamped = obj[i].stamped
          /\ r.missed = obj[i].missed /\ r.lost = obj[i].lost /\ r.stuck
      BY <1>1 DEF Records
    <3>2. obj' = [obj EXCEPT ![i] = r]
      <4>1. [obj EXCEPT ![i].st = st][i] = [obj[i] EXCEPT !.st = st]
        BY <1>1 DEF Posts
      <4> QED BY <1>1, <2>2, <4>1
    <3> HIDE DEF r
    <3>3. Becomes(i, r)
      BY <1>1, <3>1, <3>2, IdleType DEF Becomes
    <3> QED BY <3>1, <3>3
  <2> QED BY <1>3, <2>1, <2>2
<1>5. obj'[i] = r /\ Posts' = Posts
  BY <1>1, <1>4 DEF Becomes, Posts
<1>6. CallSound'
  BY <1>1, <1>2, <1>4, <1>5, IdleType
  DEF CInv, CallSound, Becomes, Adopting, Recipe, Creating, Holding
<1>7. ObjSound(i)'
  <2>1. /\ ObjSound(i) /\ kind' = kind /\ Recipe' = Recipe
        /\ r.lost = obj[i].lost /\ (obj[i].stamped => r.stamped)
    BY <1>1, <1>4 DEF CInv, Becomes, Recipe
  <2> QED BY <1>1, <1>3, <1>4, <1>5, <2>1 DEF ObjSound, Live
<1>8. \A j \in Posts \ {i} : j # held /\ ~InTag(j) /\ j # held'
  BY <1>0, <1>1 DEF InTag
<1> QED BY <1>2, <1>4, <1>6, <1>7, <1>8, BecomesKeeps

\* The readiness wait and the stamp of a secret.
LEMMA HoldingKeeps ==
  ASSUME CInv, PollReady \/ StampSecret
  PROVE  CInv'
<1>1. /\ call.pc \in {"poll", "stamp"} /\ held # 0 /\ held \in Posts /\ 0 \notin Posts
      /\ UNCHANGED <<kind, pending, held>> /\ call' = Idle
      /\ obj \in Seq(Records) /\ obj[held] \in Records /\ kind \in Kinds /\ Recipe = Creates[kind]
  BY DEF PollReady, StampSecret, At, CInv, Typed, CallSound, Holding, Posts, Recipe, Return
<1>2. CASE obj' = obj
  <2>1. Quiet /\ CallSound'
    BY <1>1, <1>2, IdleType
    DEF CInv, CallSound, Quiet, Adopting, Recipe, Marked, Creating, Holding
  <2> QED BY <2>1, QuietKeeps
<1>3. CASE StampSecret /\ Tags(held) /\ obj[held].st \in Live
  <2>0. PICK i : i = held
    OBVIOUS
  <2> DEFINE r == [obj[i] EXCEPT !.stamped = TRUE, !.had = TRUE]
  <2>1. /\ r \in Records /\ r.st = obj[i].st /\ r.had /\ r.stamped
        /\ r.missed = obj[i].missed /\ r.lost = obj[i].lost /\ r.stuck = obj[i].stuck
    BY <2>0, <1>1 DEF Records
  <2>2. obj' = [obj EXCEPT ![i] = r]
    BY <2>0, <1>3 DEF Tags
  <2> HIDE DEF r
  <2>3. Becomes(i, r)
    BY <2>0, <1>1, <2>1, <2>2, IdleType DEF Becomes
  <2>4. obj'[i] = r /\ Posts' = Posts
    BY <2>0, <1>1, <2>2 DEF Posts
  <2>5. Recipe.stamp = "later" /\ ~Adopting
    BY <2>0, <1>1, <1>3, KindFacts DEF CInv, CallSound, StampSecret, At, Adopting
  <2>6. CallSound'
    BY <2>0, <1>1, <2>4, <2>5, IdleType
    DEF CInv, CallSound, Adopting, Recipe, Creating, Holding
  <2>7. ObjSound(i)'
    BY <2>0, <1>1, <1>3, <2>1, <2>4 DEF CInv, ObjSound, Recipe, Live
  <2>8. \A j \in Posts \ {i} : j # held /\ ~InTag(j) /\ j # held'
    BY <2>0, <1>1 DEF InTag
  <2> QED BY <2>3, <2>5, <2>6, <2>7, <2>8, BecomesKeeps
<1>4. CASE PollReady
  BY <1>2, <1>4 DEF PollReady
<1>5. CASE StampSecret
  <2>1. (Tags(held) /\ obj[held].st \in Live) \/ obj' = obj
    BY <1>5 DEF StampSecret
  <2> QED BY <1>2, <1>3, <1>5, <2>1
<1> QED BY <1>4, <1>5

\* The delete and the wait after it.
LEMMA DeleteKeeps ==
  ASSUME CInv, DeleteAnswered \/ DeleteFails \/ PollGone
  PROVE  CInv'
<1>0. PICK i : i = held
  OBVIOUS
<1>1. /\ call.pc \in {"delete", "gone"} /\ i # 0 /\ i \in Posts /\ 0 \notin Posts
      /\ UNCHANGED <<kind, pending>> /\ call \in CallType
      /\ obj \in Seq(Records) /\ obj[i] \in Records /\ kind \in Kinds /\ Recipe = Creates[kind]
      /\ obj = [obj EXCEPT ![i] = obj[i]]
  BY <1>0 DEF DeleteAnswered, DeleteFails, PollGone, At, CInv, Typed, CallSound, Holding, Posts, Recipe
<1>2. /\ ObjSound(i) /\ GoneIn(kind) \subseteq {"deleting", "gone"}
      /\ kind # "image" => GoneIn(kind) \subseteq {"gone"}
  BY <1>1, GoneFacts DEF CInv
<1>3. PICK r :
        /\ r \in Records /\ obj' = [obj EXCEPT ![i] = r]
        /\ \/ r = obj[i]
           \/ r = [obj[i] EXCEPT !.st = "gone"]
           \/ r = [obj[i] EXCEPT !.st = "deleting"] /\ GoneIn(kind) # {}
        /\ \/ held' = i /\ (call' = Idle \/ call' = [call EXCEPT !.pc = "gone"])
           \/ /\ held' = 0 /\ call' = Idle
              /\ r.st = "gone" \/ (kind = "image" /\ r.st = "deleting")
  <2>1. \A st \in {"gone", "deleting"} : [obj[i] EXCEPT !.st = st] \in Records
                                        /\ [obj[i] EXCEPT !.st = st].st = st
    BY <1>1 DEF Records
  <2>2. \A st : Set(i, st) => obj' = [obj EXCEPT ![i] = [obj[i] EXCEPT !.st = st]]
    BY DEF Set
  <2>3. CASE DeleteAnswered
    <3>1. CASE obj[i].st \in {"half", "gone"}
      <4>1. obj' = obj /\ IF Attachment THEN Go("gone") /\ held' = i ELSE held' = 0 /\ Return
        BY <1>0, <2>3, <3>1 DEF DeleteAnswered
      <4>2. ~Attachment => obj[i].st = "gone"
        BY <1>2, <3>1 DEF ObjSound, Attachment
      <4> QED BY <1>1, <4>1, <4>2 DEF Go, Return
    <3>2. CASE obj[i].st \notin {"half", "gone"}
      <4>1. /\ Set(i, IF GoneIn(kind) = {} THEN "gone" ELSE "deleting")
            /\ IF GoneIn(kind) = {} THEN held' = 0 /\ Return ELSE Go("gone") /\ held' = i
        BY <1>0, <2>3, <3>2 DEF DeleteAnswered
      <4>2. CASE GoneIn(kind) = {}
        BY <2>1, <2>2, <4>1, <4>2 DEF Return
      <4>3. CASE GoneIn(kind) # {}
        BY <2>1, <2>2, <4>1, <4>3 DEF Go
      <4> QED BY <4>2, <4>3
    <3> QED BY <3>1, <3>2
  <2>4. CASE DeleteFails
    <3>1. /\ held' = i /\ call' = Idle
          /\ obj' = obj \/ Set(i, IF GoneIn(kind) = {} THEN "gone" ELSE "deleting")
      BY <1>0, <2>4 DEF DeleteFails, Return
    <3>2. CASE obj' = obj
      BY <1>1, <3>1, <3>2
    <3>3. CASE GoneIn(kind) = {} /\ Set(i, "gone")
      BY <2>1, <2>2, <3>1, <3>3
    <3>4. CASE GoneIn(kind) # {} /\ Set(i, "deleting")
      BY <2>1, <2>2, <3>1, <3>4
    <3> QED BY <3>1, <3>2, <3>3, <3>4
  <2>5. CASE PollGone
    <3>1. /\ obj' = obj /\ call' = Idle
          /\ \/ obj[i].st \in GoneIn(kind) /\ held' = 0
             \/ held' = i
      BY <1>0, <2>5 DEF PollGone, Return
    <3> QED BY <1>1, <1>2, <3>1
  <2> QED BY <2>3, <2>4, <2>5
<1>4. /\ r.had = obj[i].had /\ r.stamped = obj[i].stamped /\ r.missed = obj[i].missed
      /\ r.lost = obj[i].lost /\ r.stuck = obj[i].stuck
      /\ r.st = obj[i].st \/ r.st = "gone" \/ (r.st = "deleting" /\ GoneIn(kind) # {})
  BY <1>1, <1>3 DEF Records
<1>5. call' \in CallType /\ call'.pc \in {"none", "gone"}
  <2>1. CASE call' = Idle
    BY <2>1, IdleType
  <2>2. CASE call' = [call EXCEPT !.pc = "gone"]
    BY <1>1, <2>2 DEF CallType, Holding
  <2> QED BY <1>3, <2>1, <2>2
<1>6. held' = i \/ (held' = 0 /\ call'.pc = "none")
  BY <1>3, IdleType
<1>7. Becomes(i, r)
  BY <1>1, <1>3, <1>4, <1>5 DEF Becomes
<1>8. obj'[i] = r /\ Posts' = Posts
  BY <1>1, <1>3 DEF Posts
<1>9. CallSound'
  BY <1>1, <1>5, <1>6, <1>8 DEF CInv, CallSound, Adopting, Recipe, Creating, Holding
<1>10. ObjSound(i)'
  <2>1. kind' = kind /\ Recipe' = Recipe
    BY <1>1 DEF Recipe
  <2>2. CASE held' = i
    BY <1>0, <1>2, <1>4, <1>8, <2>1, <2>2 DEF ObjSound, Live
  <2>3. CASE held' = 0 /\ (r.st = "gone" \/ (kind = "image" /\ r.st = "deleting"))
    BY <1>0, <1>1, <1>2, <1>4, <1>8, <2>1, <2>3 DEF ObjSound, Live
  <2> QED BY <1>1, <1>3, <2>2, <2>3
<1>11. \A j \in Posts \ {i} : j # held /\ ~InTag(j) /\ j # held'
  BY <1>0, <1>1, <1>3 DEF InTag
<1>12. /\ Known \subseteq Known' \/ (Known \subseteq Known' \cup {i} /\ r.st \notin Live \cup {"sent"})
       /\ r.st \in Live \cup {"sent"} => r.st = obj[i].st
  <2>1. Known = pending \cup {i} /\ Known' = pending \cup {held'}
    BY <1>0, <1>1, <1>5 DEF Known
  <2> QED BY <1>1, <1>3, <1>4, <2>1 DEF Live
<1> QED BY <1>7, <1>9, <1>10, <1>11, <1>12, BecomesKeeps

\* Nothing is posted yet.
LEMMA InitSound ==
  ASSUME Init
  PROVE  CInv
<1>1. Typed
  BY IdleType DEF Init, Typed, Posts
<1>2. CallSound
  BY IdleType DEF Init, CallSound, Creating, Holding
<1>3. Posts = {}
  BY DEF Init, Posts
<1>4. Loose = {} /\ Late = {}
  BY <1>3 DEF Loose, Late
<1>5. Matched
  BY <1>4, FS_EmptySet DEF Matched
<1> QED BY <1>1, <1>2, <1>3, <1>5 DEF CInv

\* Every step keeps the invariant.
LEMMA StepSound ==
  ASSUME CInv, [Next]_vars
  PROVE  CInv'
<1>1. CASE Cloud
  <2>1. PICK i \in Posts :
          Lands(i) \/ Builds(i) \/ Goes(i) \/ Vanishes(i) \/ deleteNetworkServers(i)
    BY <1>1 DEF Cloud
  <2>2. PICK r : Moves(i, r)
    BY <2>1, CloudMoves DEF CInv
  <2>3. Typed' /\ CallSound' /\ \A j \in Posts' : ObjSound(j)'
    BY <2>2, CloudKeeps DEF CInv
  <2>4. Matched'
    BY <2>2, <2>3, CloudMatches DEF CInv
  <2> QED BY <2>3, <2>4 DEF CInv
<1>2. CASE Caller \/ Deadline \/ Signal
  BY <1>2, CallerKeeps
<1>3. CASE Lookup \/ Find \/ Get
  BY <1>3, LookupKeeps, FindKeeps, GetKeeps
<1>4. CASE PostAnswered \/ PostRefused \/ PostFails
  BY <1>4, PostAnsweredKeeps, PostRefusedKeeps, PostFailsKeeps
<1>5. CASE TagAnswered \/ TagFails \/ Rollback
  BY <1>5, TagKeeps, RollbackKeeps
<1>6. CASE PollReady \/ StampSecret \/ DeleteAnswered \/ DeleteFails \/ PollGone
  BY <1>6, HoldingKeeps, DeleteKeeps
<1>7. CASE UNCHANGED vars
  <2>1. UNCHANGED <<kind, obj, pending, held, call>>
    BY <1>7 DEF vars
  <2>2. Quiet /\ CallSound'
    BY <2>1 DEF CInv, Typed, CallSound, Quiet, Adopting, Recipe, Posts
  <2> QED BY <2>2, QuietKeeps
<1> QED BY <1>1, <1>2, <1>3, <1>4, <1>5, <1>6, <1>7 DEF Next, Step

\* The invariant holds for every kind, however many calls and faults there are.
THEOREM ClientsInvariant == Spec => []CInv
BY InitSound, StepSound, PTL DEF Spec

(***************************************************************************)
(* What it says of the properties.                                         *)
(***************************************************************************)
\* The invariant says both properties of an idle client.
LEMMA IdleSound ==
  ASSUME CInv
  PROVE  LeftoversFindable /\ DuplicatesAreLate
<1>1. LeftoversFindable
  <2>1. SUFFICES ASSUME call = Idle, NEW i \in Posts, obj[i].st \in Live, i # held
                 PROVE  \/ Findable(kind, obj[i])
                        \/ obj[i].lost /\ Recipe.stamp # "post"
                        \/ obj[i].stuck
    BY DEF LeftoversFindable
  <2>2. ~InTag(i)
    BY <2>1, IdleType DEF InTag
  <2>3. obj[i].lost \/ obj[i].stuck
    BY <2>1, <2>2 DEF CInv, ObjSound
  <2>4. Recipe.stamp = "post" => Findable(kind, obj[i])
    BY KindFacts DEF CInv, Typed, ObjSound, Recipe
  <2> QED BY <2>3, <2>4
<1>2. DuplicatesAreLate
  <2>1. SUFFICES ASSUME call = Idle, Adopting
                 PROVE  Cardinality({i \in Posts \ (pending \cup {held}) : obj[i].st \in Live})
                          <= Cardinality(Late)
    BY DEF DuplicatesAreLate, Adopting, Late
  <2>2. Known = pending \cup {held}
    BY <2>1, IdleType DEF Known
  <2>3. {i \in Posts \ (pending \cup {held}) : obj[i].st \in Live} \subseteq Loose
    BY <2>2 DEF Loose
  <2>4. IsFiniteSet(Loose) /\ IsFiniteSet(Late)
    <3>1. IsFiniteSet(Posts)
      BY PostsFinite DEF CInv, Typed, Posts
    <3> QED BY <3>1, FS_Subset DEF Loose, Late
  <2>5. Cardinality(Loose) <= Cardinality(Late)
    BY <2>1 DEF CInv, Matched
  <2> QED BY ONLY <2>3, <2>4, <2>5, CountKept
<1> QED BY <1>1, <1>2

\* An object nobody has the id of is found by the cleanup's listings, unless
\* its rollback was not confirmed or its answer was lost for a kind whose
\* create request does not carry the run's identity.
THEOREM LeftoversAreFindable == Spec => []LeftoversFindable
BY ClientsInvariant, IdleSound, PTL

\* Each live object its client does not know of stands beside a create that
\* landed after a lookup had missed it: no lost answer alone makes a duplicate.
THEOREM DuplicatesLandLate == Spec => []DuplicatesAreLate
BY ClientsInvariant, IdleSound, PTL

\* A lookup and a repeated attach hand out a live object the caller never had.
THEOREM AdoptionsAreLive == Spec => AdoptsLive
<1>1. ASSUME CInv, [Next]_vars
      PROVE  [\A i \in Posts : At("lookup") \/ At("find") \/ At("get") =>
                (held' = i => obj[i].st \in Live /\ ~obj[i].had)]_vars
  <2>1. SUFFICES ASSUME Next, NEW i \in Posts, At("lookup") \/ At("find") \/ At("get"), held' = i
                 PROVE  obj[i].st \in Live /\ ~obj[i].had
    BY <1>1
  <2>2. /\ held = 0 /\ i # 0 /\ ObjSound(i) /\ pending \subseteq Posts
        /\ kind \in Kinds /\ Recipe = Creates[kind]
    BY <1>1, <2>1 DEF At, CInv, Typed, CallSound, Creating, Posts, Recipe
  <2>3. ASSUME obj[i].st \in Live \cup {"deleting"},
               obj[i].st = "deleting" => kind = "novaVolume" \/ Recipe.adopt = "fold"
        PROVE  obj[i].st \in Live /\ ~obj[i].had
    <3>1. kind # "image" \/ Recipe.adopt = "never"
      BY <2>2, KindFacts
    <3>2. kind # "server" \/ Recipe.adopt = "token"
      BY <2>2, KindFacts DEF TokenKinds
    <3> QED BY <2>2, <2>3, <3>1, <3>2 DEF ObjSound, Live
  <2>4. CASE Lookup
    <3>1. pending # {} /\ Adopting /\ \A a, b \in pending : a = b
      BY <1>1, <2>4 DEF Lookup, At, CInv, CallSound
    <3>2. Found(pending) # {} /\ i \in Chosen(Found(pending))
      BY <2>1, <2>2, <2>4 DEF Lookup, Adopts
    <3> QED BY <1>1, <2>2, <2>3, <3>1, <3>2, ChosenFound
  <2>5. CASE Find
    <3>1. Adopting /\ call.post \in Posts
      BY <1>1, <2>5 DEF Find, At, CInv, CallSound
    <3>2. Found({call.post}) # {} /\ i \in Chosen(Found({call.post}))
      BY <2>1, <2>2, <2>5 DEF Find, Adopts
    <3> QED BY <1>1, <2>2, <2>3, <3>1, <3>2, ChosenFound
  <2>6. CASE Get
    <3>1. Recipe.adopt = "fold"
      BY <1>1, <2>6 DEF Get, At, CInv, CallSound
    <3>2. obj[i].st \in Live \cup {"deleting"}
      BY <2>1, <2>2, <2>6 DEF Get, Adopts
    <3> QED BY <2>3, <3>1, <3>2 DEF Live
  <2>7. CASE Cloud \/ Deadline \/ Signal
    <3>1. held' = held
      BY <2>7 DEF Cloud, Lands, Builds, Goes, Vanishes, deleteNetworkServers, Deadline, Signal
    <3> QED BY <2>1, <2>2, <3>1
  <2>8. CASE Caller
    BY <2>1, <2>8 DEF Caller, CallCreate, CallReady, CallStamp, CallDelete, Starts, At, Idle
  <2>9. CASE PostAnswered \/ PostRefused \/ PostFails \/ TagAnswered \/ TagFails \/ Rollback
    BY <2>1, <2>9 DEF PostAnswered, PostRefused, PostFails, TagAnswered, TagFails, Rollback, At
  <2>10. CASE PollReady \/ StampSecret \/ DeleteAnswered \/ DeleteFails \/ PollGone
    BY <2>1, <2>10 DEF PollReady, StampSecret, DeleteAnswered, DeleteFails, PollGone, At
  <2> QED BY <2>1, <2>4, <2>5, <2>6, <2>7, <2>8, <2>9, <2>10 DEF Next, Step
<1> QED BY <1>1, ClientsInvariant, PTL DEF Spec, AdoptsLive

\* A delete that returned without an error leaves nothing, or an image on its
\* way.
THEOREM DeletesLeaveNothing == Spec => DeletedIsGone
<1>1. ASSUME CInv, [Next]_vars
      PROVE  [\A i \in Posts : held = i /\ held' = 0 =>
                obj'[i].st = "gone" \/ (kind = "image" /\ obj'[i].st = "deleting")]_vars
  <2>1. SUFFICES ASSUME Next, NEW i \in Posts, held = i, held' = 0
                 PROVE  obj'[i].st = "gone" \/ (kind = "image" /\ obj'[i].st = "deleting")
    BY <1>1
  <2>2. /\ i # 0 /\ ObjSound(i) /\ call.pc \notin Creating
        /\ obj \in Seq(Records) /\ obj[i] \in Records /\ i \in DOMAIN obj
        /\ kind # "image" => GoneIn(kind) \subseteq {"gone"}
        /\ GoneIn(kind) \subseteq {"deleting", "gone"}
    BY <1>1, <2>1, GoneFacts DEF CInv, Typed, CallSound, Posts
  <2>3. CASE DeleteAnswered
    <3>1. CASE obj[i].st \in {"half", "gone"}
      BY <2>1, <2>2, <2>3, <3>1 DEF DeleteAnswered, Attachment, ObjSound
    <3>2. CASE obj[i].st \notin {"half", "gone"}
      <4>1. obj' = [obj EXCEPT ![i].st = "gone"]
        BY <2>1, <2>2, <2>3, <3>2 DEF DeleteAnswered, Set
      <4> QED BY <2>2, <4>1 DEF Records
    <3> QED BY <3>1, <3>2
  <2>4. CASE PollGone
    BY <2>1, <2>2, <2>4 DEF PollGone
  <2>5. CASE Cloud \/ Deadline \/ Signal
    <3>1. held' = held
      BY <2>5 DEF Cloud, Lands, Builds, Goes, Vanishes, deleteNetworkServers, Deadline, Signal
    <3> QED BY <2>1, <2>2, <3>1
  <2>6. CASE Caller
    BY <2>1, <2>2, <2>6 DEF Caller, CallCreate, CallReady, CallStamp, CallDelete, Starts
  <2>7. CASE \/ Lookup \/ Find \/ Get \/ PostAnswered \/ PostRefused \/ PostFails
            \/ TagAnswered \/ TagFails \/ Rollback
    BY <2>2, <2>7 DEF Lookup, Find, Get, PostAnswered, PostRefused, PostFails, TagAnswered,
                      TagFails, Rollback, At, Creating
  <2>8. CASE PollReady \/ StampSecret \/ DeleteFails
    BY <2>1, <2>2, <2>8 DEF PollReady, StampSecret, DeleteFails
  <2> QED BY <2>1, <2>3, <2>4, <2>5, <2>6, <2>7, <2>8 DEF Next, Step
<1> QED BY <1>1, ClientsInvariant, PTL DEF Spec, DeletedIsGone
=============================================================================
