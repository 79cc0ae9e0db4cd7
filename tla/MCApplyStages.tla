---------------------------- MODULE MCApplyStages ----------------------------
(***************************************************************************)
(* Small plans for every service, and the instances of ApplyStages that    *)
(* TLC explores.  Each plan has two entries in the stages where siblings   *)
(* can disturb one another and one of nearly every kind; Keystone's has    *)
(* no implied roles, so that an empty stage is skipped.                    *)
(***************************************************************************)
EXTENDS ApplyStages, ApplyTables, TLC

SmallPlan == [
  neutron |-> [address_scope |-> <<"n.as">>, subnet_pool |-> <<"n.pool">>,
               network |-> <<"n.net1", "n.net2">>, router |-> <<"n.router">>,
               security_group |-> <<"n.sg">>, subnet |-> <<"n.subnet">>,
               rule |-> <<"n.rule">>, port |-> <<"n.port1", "n.port2">>,
               router_interface |-> <<"n.if">>, floating_ip |-> <<"n.fip">>],
  cinder |-> [volume |-> <<"c.v1", "c.v2">>,
              snapshot |-> <<"c.s1", "c.s2", "c.s3">>],
  glance |-> [image |-> <<"g.i1", "g.i2">>],
  nova |-> [network |-> <<"v.net">>, subnet |-> <<"v.sub">>,
            volume |-> <<"v.vol">>, port |-> <<"v.port">>,
            server |-> <<"v.s1", "v.s2">>],
  octavia |-> [network |-> <<"o.net">>, subnet |-> <<"o.sub">>,
               loadbalancer |-> <<"o.lb1", "o.lb2">>,
               listener |-> <<"o.l1", "o.l2", "o.l3">>, pool |-> <<"o.p1">>,
               member |-> <<"o.m1", "o.m2">>, healthmonitor |-> <<"o.h1">>],
  keystone |-> [domain |-> <<"k.dom">>, role |-> <<"k.r1", "k.r2">>,
                implied_role |-> <<>>, project |-> <<"k.prj">>,
                user |-> <<"k.u1", "k.u2">>, assignment |-> <<"k.a1">>,
                token |-> <<"k.t1">>],
  barbican |-> [secret |-> <<"b.s1", "b.s2">>, order |-> <<"b.o">>,
                generated |-> <<"b.g">>, container |-> <<"b.c">>]]

NeutronRefs ==
  "n.pool" :> {"n.as"} @@ "n.subnet" :> {"n.net1", "n.pool"} @@
  "n.rule" :> {"n.sg"} @@ "n.port1" :> {"n.net1", "n.subnet", "n.sg"} @@
  "n.port2" :> {"n.net2"} @@ "n.if" :> {"n.router", "n.subnet"} @@
  "n.fip" :> {"n.port1"}
OtherRefs ==
  "c.s1" :> {"c.v2"} @@ "c.s2" :> {"c.v1"} @@ "c.s3" :> {"c.v2"} @@
  "v.sub" :> {"v.net"} @@ "v.port" :> {"v.net"} @@
  "v.s1" :> {"v.net", "v.vol", "v.port"} @@ "v.s2" :> {"v.net"} @@
  "o.sub" :> {"o.net"} @@ "o.lb1" :> {"o.sub"} @@ "o.lb2" :> {"o.sub"} @@
  "o.l1" :> {"o.lb1"} @@ "o.l2" :> {"o.lb1"} @@ "o.l3" :> {"o.lb2"} @@
  "o.p1" :> {"o.lb1", "o.l1"} @@ "o.m1" :> {"o.p1", "o.sub"} @@
  "o.m2" :> {"o.p1", "o.sub"} @@ "o.h1" :> {"o.p1"} @@
  "k.prj" :> {"k.dom"} @@
  "k.u1" :> {"k.dom"} @@ "k.u2" :> {"k.dom"} @@
  "k.a1" :> {"k.u1", "k.prj", "k.r1"} @@
  "k.t1" :> {"k.u1", "k.prj", "k.dom"} @@
  "b.g" :> {"b.o"} @@ "b.c" :> {"b.s1", "b.s2"}
NoRefs == {"n.as", "n.net1", "n.net2", "n.router", "n.sg", "c.v1", "c.v2",
           "g.i1", "g.i2", "v.net", "v.vol", "o.net", "k.dom", "k.r1", "k.r2",
           "b.s1", "b.s2", "b.o"}
SmallRefs == NeutronRefs @@ OtherRefs @@ [r \in NoRefs |-> {}]

Asked ==
  "c.v1" :> {"resize"} @@ "g.i1" :> {"shared", "accept", "delete"} @@
  "g.i2" :> {"deactivate"} @@ "v.s1" :> {"soft", "delete"} @@
  "v.vol" :> {"detach"} @@ "v.port" :> {"detach"} @@ "b.s1" :> {"retrieve"}
SmallFlags == Asked @@ [r \in DOMAIN SmallRefs |-> {}]

MCResource == DOMAIN SmallRefs
MCStages == [s \in Service |-> StageTable[s]]
MCKeepsResult == StoresFailedItems \cap Service
MCPrefersFailure == PrefersRealError \cap Service
MCConflictAttempts == [s \in Service |-> ConflictLimit(s, MaxAttempts)]

=============================================================================
