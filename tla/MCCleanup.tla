------------------------------ MODULE MCCleanup ------------------------------
(***************************************************************************)
(* A few resources of each service, with what dizzy did not create beside  *)
(* them: a port of somebody else's server on a network of the run, an      *)
(* image, and in Keystone the domain and role a domain manager reuses.     *)
(***************************************************************************)
EXTENDS Cleanup, CleanupTables, TLC

Row(k, refs) == [kind |-> k, refs |-> refs]
NeutronRows ==
  "n.as" :> Row("address_scope", {}) @@
  "n.pool" :> Row("subnet_pool", {"n.as"}) @@
  "n.net" :> Row("network", {}) @@ "n.router" :> Row("router", {}) @@
  "n.sg" :> Row("security_group", {}) @@
  "n.subnet" :> Row("subnet", {"n.net", "n.pool"}) @@
  "n.port" :> Row("port", {"n.net", "n.subnet", "n.sg"}) @@
  "n.if" :> Row("router_interface", {"n.router", "n.subnet"}) @@
  "n.fip" :> Row("floating_ip", {"n.port", "n.router"}) @@
  "n.dhcp" :> Row("port", {"n.net", "n.subnet"}) @@
  "n.alien" :> Row("port", {"n.net"})
NovaRows ==
  "v.net" :> Row("network", {}) @@ "v.sub" :> Row("subnet", {"v.net"}) @@
  "v.port" :> Row("port", {"v.net"}) @@ "v.vol" :> Row("volume", {}) @@
  "v.s1" :> Row("server", {"v.net", "v.port", "v.vol"}) @@
  "v.s2" :> Row("server", {"v.net"})
OtherRows ==
  "c.v1" :> Row("volume", {}) @@ "c.s1" :> Row("snapshot", {"c.v1"}) @@
  "c.s2" :> Row("snapshot", {"c.v1"}) @@
  "g.i1" :> Row("image", {}) @@ "g.i2" :> Row("image", {}) @@
  "g.alien" :> Row("image", {}) @@
  "o.net" :> Row("network", {}) @@ "o.sub" :> Row("subnet", {"o.net"}) @@
  "o.lb1" :> Row("loadbalancer", {"o.sub"}) @@
  "o.lb2" :> Row("loadbalancer", {"o.sub"}) @@
  "o.l" :> Row("listener", {"o.lb1"}) @@
  "k.dom" :> Row("domain", {}) @@ "k.shared" :> Row("domain", {}) @@
  "k.role" :> Row("role", {}) @@ "k.member" :> Row("role", {}) @@
  "k.rule" :> Row("implied_role", {"k.role", "k.member"}) @@
  "k.p1" :> Row("project", {"k.dom"}) @@
  "k.p2" :> Row("project", {"k.shared"}) @@
  "k.u" :> Row("user", {"k.shared"}) @@
  "k.a" :> Row("assignment", {"k.u", "k.p2", "k.member"}) @@
  "b.s" :> Row("secret", {}) @@ "b.c" :> Row("container", {"b.s"}) @@
  "b.o" :> Row("order", {}) @@ "b.g" :> Row("secret", {"b.o"}) @@
  "b.o2" :> Row("order", {})
Rows == NeutronRows @@ NovaRows @@ OtherRows


NamesOf ==
  [neutron |-> DOMAIN NeutronRows, nova |-> DOMAIN NovaRows,
   cinder |-> {"c.v1", "c.s1", "c.s2"}, glance |-> {"g.i1", "g.i2", "g.alien"},
   octavia |-> {"o.net", "o.sub", "o.lb1", "o.lb2", "o.l"},
   keystone |-> {"k.dom", "k.shared", "k.role", "k.member", "k.rule", "k.p1",
                 "k.p2", "k.u", "k.a"},
   barbican |-> {"b.s", "b.c", "b.o", "b.g", "b.o2"}]

MCResource == DOMAIN Rows
MCKindOf == [r \in MCResource |-> Rows[r].kind]
MCRefs == [r \in MCResource |-> Rows[r].refs]
MCServiceOf ==
  [r \in MCResource |-> CHOOSE s \in AllServices : r \in NamesOf[s]]
MCForeign == {"n.alien", "g.alien", "k.shared", "k.member"}
MCDeviceOwned == {"n.alien", "n.dhcp"}
MCLate == {"n.dhcp"}
MCLateSecret == {"b.g"}

None == [r \in MCResource |-> {}]
MCThrough ==
  "n.port" :> {"n.net"} @@ "n.subnet" :> {"n.net"} @@
  "n.if" :> {"n.router"} @@ "n.dhcp" :> {"n.net"} @@
  "v.port" :> {"v.net"} @@ "v.sub" :> {"v.net"} @@
  "o.l" :> {"o.lb1"} @@ "k.a" :> {"k.u"} @@ "k.rule" :> {"k.role"} @@
  "k.p1" :> {"k.dom"} @@ "b.g" :> {"b.o"} @@ None
MCPins ==
  "n.fip" :> {"n.port", "n.router"} @@ "n.pool" :> {"n.as"} @@
  "n.if" :> {"n.router", "n.subnet", "n.net"} @@
  "n.port" :> {"n.subnet", "n.net", "n.sg"} @@ "n.subnet" :> {"n.pool"} @@
  "n.dhcp" :> {"n.subnet"} @@ "n.alien" :> {"n.net"} @@
  "c.s1" :> {"c.v1"} @@ "c.s2" :> {"c.v1"} @@
  "v.s1" :> {"v.net", "v.port", "v.vol"} @@ "v.s2" :> {"v.net"} @@
  "v.port" :> {"v.net"} @@
  "o.lb1" :> {"o.sub", "o.net"} @@ "o.lb2" :> {"o.sub", "o.net"} @@
  "b.c" :> {"b.s"} @@ None
MCCascades ==
  "n.net" :> {"n.subnet", "n.dhcp"} @@ "n.subnet" :> {"n.dhcp"} @@
  "v.net" :> {"v.sub"} @@ "o.net" :> {"o.sub"} @@ "o.lb1" :> {"o.l"} @@
  "k.u" :> {"k.a"} @@ "k.p2" :> {"k.a"} @@ "k.role" :> {"k.rule"} @@
  "k.dom" :> {"k.p1"} @@ None
MCSlow == {"server", "volume", "snapshot", "image", "loadbalancer"}
MCScript == CleanupScript
MCByMark == IdentityKinds
MCByRecord == RecordKinds
MCGuarded == EmptyIDRefused \cap Service

=============================================================================
