----------------------------- MODULE ApplyTables -----------------------------
(***************************************************************************)
(* The stages of the Apply of each service, as data for ApplyStages: which *)
(* plan entries form the work items of a stage, the calls of a work item   *)
(* in order, and whether Apply indexes the stage's results before it looks *)
(* at the stage's error.                                                   *)
(***************************************************************************)
EXTENDS SequencesExt

CONSTANTS
  Plan,         \* Plan[s][kind]: the plan entries of a service, in plan order
  Refs,         \* Refs[r]: the entries whose identifiers the create of r needs
  Flags,        \* Flags[r]: the optional operations the plan asks of r
  HasExternal   \* an external network was discovered (Neutron)

(***************************************************************************)
(* Steps.                                                                  *)
(***************************************************************************)
CallStep(op, new, uses, on) == [op |-> op, new |-> new, uses |-> uses, on |-> on]
Create(r) == CallStep("create", {r}, Refs[r], {})
Call(r) == CallStep("call", {}, {r}, {})
CallWith(r, q) == CallStep("call", {}, {r, q}, {})
Delete(r) == CallStep("delete", {}, {r}, {})
Poll(r) == CallStep("poll", {}, {r}, {})
Lenient(r) == CallStep("lenient", {}, {r}, {})
Once(r) == CallStep("once", {}, {r}, {})
Check == CallStep("check", {}, {}, {})

If(cond, steps) == IF cond THEN steps ELSE <<>>
Stage(items) == [items |-> items, indexed |-> FALSE]
IndexedStage(items) == [items |-> items, indexed |-> TRUE]

Of(s, kind) == IF kind \in DOMAIN Plan[s] THEN Plan[s][kind] ELSE <<>>
Each(seq, Work(_)) == [i \in DOMAIN seq |-> Work(seq[i])]
Flagged(seq, flag) == SelectSeq(seq, LAMBDA r : flag \in Flags[r])
All(seq, Work(_)) == FlattenSeq(Each(seq, Work))

(***************************************************************************)
(* The entries of seq bucketed by their owner, the buckets in the order of *)
(* owners, empty ones left out.                                            *)
(***************************************************************************)
GroupBy(owners, seq, ownerOf) ==
  LET bucket(o) == SelectSeq(seq, LAMBDA r : ownerOf[r] = o)
  IN SelectSeq([i \in DOMAIN owners |-> bucket(owners[i])],
               LAMBDA g : g # <<>>)
OwnerIn(seq, r) == CHOOSE o \in ToSet(seq) : o \in Refs[r]

-----------------------------------------------------------------------------
(***************************************************************************)
(* Neutron.  Only networks, routers and ports have a status to poll; the   *)
(* floating IPs are skipped without an external network.                   *)
(***************************************************************************)
isStatusKind == {"network", "router", "port"}
NeutronOrder ==
  <<"address_scope", "subnet_pool", "network", "router", "security_group",
    "subnet", "rule", "port", "router_interface">>
  \o If(HasExternal, <<"floating_ip">>)
NeutronStages ==
  LET provision(kind, r) ==
        <<Create(r)>> \o If(kind \in isStatusKind, <<Poll(r)>>)
  IN Each(NeutronOrder, LAMBDA kind :
       Stage(Each(Of("neutron", kind), LAMBDA r : provision(kind, r))))

(***************************************************************************)
(* Cinder.  The snapshots of a volume are one work item, taken one after   *)
(* the other.                                                              *)
(***************************************************************************)
CinderStages ==
  LET volumes == Of("cinder", "volume")
      snapshots == Of("cinder", "snapshot")
      provisionVolume(v) == <<Create(v), Lenient(v)>>
      extendVolume(v) == <<Call(v), Lenient(v)>>
      volumeOf == [s \in ToSet(snapshots) |-> OwnerIn(volumes, s)]
      seen(order, s) == IF volumeOf[s] \in ToSet(order) THEN order
                        ELSE Append(order, volumeOf[s])
      provisionSnapshots(group) ==
        All(group, LAMBDA s : <<Create(s), Lenient(s)>>)
  IN <<IndexedStage(Each(volumes, provisionVolume)),
       Stage(Each(Flagged(volumes, "resize"), extendVolume)),
       Stage(Each(GroupBy(FoldLeft(seen, <<>>, snapshots), snapshots, volumeOf),
                  provisionSnapshots))>>

(***************************************************************************)
(* Glance.  The owner of a shared image is read once, without a retry; a   *)
(* missed active deadline is fatal.                                        *)
(***************************************************************************)
driveImage(img) ==
  LET wants(flag) == flag \in Flags[img] IN
     If(wants("metadata"), <<Call(img), Call(img)>>)
  \o If(wants("shared"), <<Call(img), Once(img), Call(img)>>)
  \o If(wants("shared") /\ wants("accept"), <<Call(img)>>)
  \o If(wants("shared") /\ wants("remove"), <<Call(img)>>)
  \o If(wants("deactivate"), <<Call(img), Call(img)>>)
  \o If(wants("community"), <<Call(img)>>)
  \o If(wants("public"), <<Call(img)>>)

GlanceStages ==
  LET images == Of("glance", "image")
      provisionImage(img) == <<Create(img), Call(img), Once(img)>>
      deleteImage(img) == <<Delete(img), Once(img)>>
  IN <<IndexedStage(Each(images, provisionImage)),
       Stage(Each(images, driveImage)),
       Stage(Each(Flagged(images, "delete"), deleteImage))>>

(***************************************************************************)
(* Nova.  A network entry is created with its subnet; the plan names the   *)
(* subnet of a network, the volumes and the ports of a server by Refs.     *)
(***************************************************************************)
driveServer(srv) ==
  LET wants(flag) == flag \in Flags[srv]
      mine(kind) == SelectSeq(Of("nova", kind), LAMBDA q : q \in Refs[srv])
      attachVolume(v) == <<CallWith(srv, v), Lenient(v)>>
      attachPort(p) == <<CallWith(srv, p)>>
      detachPort(p) == If("detach" \in Flags[p], <<CallWith(srv, p)>>)
      detachVolume(v) ==
        If("detach" \in Flags[v], <<CallWith(srv, v), Lenient(v)>>)
      twice == <<Call(srv), Lenient(srv), Call(srv), Lenient(srv)>>
  IN All(mine("volume"), attachVolume)
     \o All(mine("port"), attachPort)
     \o If(wants("soft"), twice)
     \o If(wants("hard"), <<Call(srv), Lenient(srv)>>)
     \o If(wants("resize"), twice)
     \o If(wants("migrate"), <<Call(srv), Lenient(srv)>>)
     \o All(mine("port"), detachPort)
     \o All(mine("volume"), detachVolume)

NovaStages ==
  LET servers == Of("nova", "server")
      subnetOf(n) == CHOOSE q \in ToSet(Of("nova", "subnet")) : n \in Refs[q]
      provisionNetwork(n) == <<Create(n), Lenient(n),
                               Create(subnetOf(n)), Lenient(subnetOf(n))>>
      provisionVolume(v) == <<Create(v), Lenient(v)>>
      provisionPort(p) == <<Create(p)>>
      boot(srv) == CallStep("create", {srv},
                     Refs[srv] \cap ToSet(Of("nova", "network")), {})
      provisionServer(srv) == <<boot(srv), Once(srv)>>
      deleteServer(srv) == <<Delete(srv), Once(srv)>>
  IN <<IndexedStage(Each(Of("nova", "network"), provisionNetwork)),
       IndexedStage(Each(Of("nova", "volume"), provisionVolume)),
       IndexedStage(Each(Of("nova", "port"), provisionPort)),
       IndexedStage(Each(servers, provisionServer)),
       Stage(Each(servers, driveServer)),
       Stage(Each(Flagged(servers, "delete"), deleteServer))>>

(***************************************************************************)
(* Octavia.  Every write to a load balancer is followed by a wait for      *)
(* ACTIVE; the children of one load balancer in a stage are one work item. *)
(***************************************************************************)
lbWrite(r, lb) == <<CallStep("create", {r}, Refs[r], {lb}),
                    CallStep("once", {}, {lb}, {lb})>>
lbOfListener == [r \in ToSet(Of("octavia", "listener")) |->
  OwnerIn(Of("octavia", "loadbalancer"), r)]
lbOfPool == [r \in ToSet(Of("octavia", "pool")) |->
  lbOfListener[OwnerIn(Of("octavia", "listener"), r)]]
lbOfPoolChild ==
  [r \in ToSet(Of("octavia", "member") \o Of("octavia", "healthmonitor")) |->
    lbOfPool[OwnerIn(Of("octavia", "pool"), r)]]

runLoadBalancerStage(kind, lbOf) ==
  LET group(g) == All(g, LAMBDA r : <<Check>> \o lbWrite(r, lbOf[r]))
  IN Stage(Each(GroupBy(Of("octavia", "loadbalancer"), Of("octavia", kind),
                        lbOf), group))

OctaviaStages ==
  LET subnetOf(n) == CHOOSE q \in ToSet(Of("octavia", "subnet")) : n \in Refs[q]
      provisionNetwork(n) == <<Create(n), Lenient(n), Create(subnetOf(n))>>
      provisionLoadBalancer(lb) == lbWrite(lb, lb)
  IN <<Stage(Each(Of("octavia", "network"), provisionNetwork)),
       Stage(Each(Of("octavia", "loadbalancer"), provisionLoadBalancer)),
       runLoadBalancerStage("listener", lbOfListener),
       runLoadBalancerStage("pool", lbOfPool),
       runLoadBalancerStage("member", lbOfPoolChild),
       runLoadBalancerStage("healthmonitor", lbOfPoolChild)>>

(***************************************************************************)
(* Keystone, admin tier: BindRoots creates domains, roles and rules, the   *)
(* projects and users share one pool, tokens create nothing.               *)
(***************************************************************************)
BindRoots ==
  LET create(r) == <<Create(r)>>
  IN <<IndexedStage(Each(Of("keystone", "domain"), create)),
       IndexedStage(Each(Of("keystone", "role"), create)),
       Stage(Each(Of("keystone", "implied_role"), create))>>
Provision ==
  LET create(r) == <<Create(r)>>
  IN BindRoots \o
     <<IndexedStage(Each(Of("keystone", "project") \o Of("keystone", "user"),
                         create)),
       Stage(Each(Of("keystone", "assignment"), create))>>
KeystoneStages ==
  LET issueToken(t) == <<CallStep("call", {}, Refs[t], {})>>
  IN Provision \o <<Stage(Each(Of("keystone", "token"), issueToken))>>

(***************************************************************************)
(* Barbican.  The wait for an order names the secret it generated, which   *)
(* is stamped like a stored one.                                           *)
(***************************************************************************)
BarbicanStages ==
  LET secrets == Of("barbican", "secret")
      generated(o) ==
        CHOOSE q \in ToSet(Of("barbican", "generated")) : o \in Refs[q]
      storeSecret(q) == <<Create(q), Call(q)>>
      provisionOrder(o) == <<Create(o),
                             CallStep("once", {generated(o)}, {o}, {}),
                             Call(generated(o))>>
      createContainer(c) == <<Create(c)>>
      readBack(q) == <<Call(q)>>
  IN <<Stage(Each(secrets, storeSecret)),
       Stage(Each(Of("barbican", "order"), provisionOrder)),
       Stage(Each(Of("barbican", "container"), createContainer)),
       Stage(Each(Flagged(secrets, "retrieve"), readBack))>>

(***************************************************************************)
(* All services, and how their runStage copies differ.                     *)
(***************************************************************************)
ApplyServices ==
  {"neutron", "cinder", "glance", "nova", "octavia", "keystone", "barbican"}
StageTable == [s \in ApplyServices |->
  CASE s = "neutron" -> NeutronStages
    [] s = "cinder" -> CinderStages
    [] s = "glance" -> GlanceStages
    [] s = "nova" -> NovaStages
    [] s = "octavia" -> OctaviaStages
    [] s = "keystone" -> KeystoneStages
    [] s = "barbican" -> BarbicanStages]
StoresFailedItems == ApplyServices \ {"neutron"}
PrefersRealError == {"glance", "nova", "octavia", "barbican"}
ConflictLimit(s, max) ==
  CASE s = "neutron" -> 2 [] s = "keystone" -> 1 [] OTHER -> max

=============================================================================
