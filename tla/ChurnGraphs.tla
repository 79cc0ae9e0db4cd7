----------------------------- MODULE ChurnGraphs -----------------------------
(***************************************************************************)
(* The churn graph each service's builder makes of a plan, and the edges   *)
(* the engine keeps of it.  A node carries                                 *)
(*   parents   the logical names the builder lists as its parents,         *)
(*   reads     the names its Create, Delete and Mutate closures look up in *)
(*             the ids of its parents, where a missing one is sent as "",  *)
(*   acts      the server, volume or load balancer whose state its calls   *)
(*             change, as the cloud sees it,                               *)
(*   gate      the object whose gate it takes,                             *)
(* and whether it mutates, is pinned, and which set it rolls with.         *)
(***************************************************************************)
EXTENDS Plans

VARIABLES
  nodes,    \* the graph handed to the engine
  present   \* the keys of the nodes that exist (ChurnSpec only)

vars == <<planVars, nodes, present>>

Node(e, parents, reads) ==
  [key |-> e.key, kind |-> e.kind, parents |-> parents, reads |-> reads,
   acts |-> {}, gate |-> {}, mutable |-> FALSE, pinned |-> FALSE, roll |-> {}]
Gated(n, acts, gate) == [n EXCEPT !.acts = acts, !.gate = gate]
Mutable(n, b) == [n EXCEPT !.mutable = b]

(***************************************************************************)
(* Neutron: no gates, no mutation.  Floating IPs need an external network. *)
(***************************************************************************)
neutronParents(e) ==
  CASE e.kind = "pool"   -> Refs(e, "scope")
    [] e.kind = "subnet" -> Refs(e, "network") \cup Refs(e, "pool")
    [] e.kind = "rule"   -> Refs(e, "group") \cup Refs(e, "remote")
    [] e.kind = "port"   -> Refs(e, "network") \cup Refs(e, "subnet") \cup Refs(e, "group")
    [] e.kind = "rif"    -> Refs(e, "router")
                              \cup IF Refs(e, "subnet") # {} THEN Refs(e, "subnet") ELSE Refs(e, "port")
    [] e.kind = "fip"    -> Refs(e, "port")
    [] OTHER             -> {}

neutronReads(e) ==
  CASE e.kind = "rif" -> Refs(e, "router") \cup Refs(e, "subnet") \cup Refs(e, "port")
    [] e.kind \in {"pool", "subnet", "rule", "port", "fip"} -> {r[2] : r \in e.refs}
    [] OTHER -> {}

neutronGraph ==
  {Node(e, neutronParents(e), neutronReads(e)) :
     e \in {x \in plan : x.kind # "fip" \/ sc.external}}

(***************************************************************************)
(* Cinder, Glance, Barbican (its orders yield no node) and Keystone (its   *)
(* domains, roles and rules are a scaffold outside the graph).             *)
(***************************************************************************)
cinderGraph ==
  {Mutable(Gated(Node(e, {}, {}), {e.key}, {e.key}), Refs(e, "target") # {}) : e \in Of("volume")}
    \cup {LET v == Refs(e, "volume") IN Gated(Node(e, v, v), v, v) : e \in Of("snapshot")}

glanceGraph ==
  {Mutable(Node(e, {}, {}),
           e.flags \cap {"metadata", "shared", "community", "public", "deactivate"} # {}) :
     e \in Of("image")}

barbicanGraph ==
  {Mutable(Node(e, {}, {}), "retrieve" \in e.flags) : e \in Of("secret")}
    \cup {LET s == Refs(e, "secret") IN Node(e, s, s) : e \in Of("container")}

\* A grant that backs a planned token issue issues it as its mutation.
keystoneGraph ==
  {Node(e, {}, {}) : e \in Of("project") \cup Of("user")}
    \cup {LET to == Refs(e, "user") \cup Refs(e, "project")
              token == \E t \in Of("token") : Refs(t, "user") = Refs(e, "user")
                                             /\ Refs(t, "project") = Refs(e, "project")
          IN Mutable(Node(e, to, to), token) : e \in Of("assignment")}

(***************************************************************************)
(* Nova: a server and its volumes and ports are one family.  The server's  *)
(* create reads the ids of its networks and its group, a volume's and a    *)
(* port's calls that of its server.                                        *)
(***************************************************************************)
hasLifecycle(e) == e.flags \cap {"stop", "resize", "live"} # {}

novaPort(e) ==
  LET to == Refs(e, "server") \cup Refs(e, "network")
  IN Gated(Node(e, to, to), Refs(e, "server"), Refs(e, "server"))

novaGraph ==
  {Node(e, {}, {}) : e \in Of("servergroup") \cup Of("network")}
    \cup {LET to == Refs(e, "network") \cup Refs(e, "group")
          IN Mutable(Gated(Node(e, to, to), {e.key}, {e.key}), hasLifecycle(e)) : e \in Of("server")}
    \cup {LET s == Refs(e, "server") IN Gated(Node(e, s, s), s, s) : e \in Of("volume")}
    \cup {novaPort(e) : e \in Of("port")}

\* BuildRolling: groups and networks stay, a server and what hangs off it rolls
\* with the server's group.
rollGroup(n) ==
  follow("server", "group", IF n.kind = "server" THEN {n.key} ELSE n.acts)

novaRolling ==
  {IF n.kind \in {"servergroup", "network"} THEN [n EXCEPT !.mutable = FALSE, !.pinned = TRUE]
   ELSE [n EXCEPT !.mutable = FALSE, !.roll = rollGroup(n)] : n \in novaGraph}

\* BuildLongLived: everything stays; a server repeats the operations enabled for
\* it, a volume or port marked for detach toggles its attachment.  The flag is
\* in the plan; live and cold migration are those the run enabled.
repeats(n) ==
  \E e \in plan : e.key = n.key /\
    (CASE e.kind = "server" -> e.flags \cap {"stop", "resize", "live", "cold"} # {}
       [] e.kind \in {"volume", "port"} -> "detach" \in e.flags
       [] OTHER -> FALSE)

novaLongLived == {[n EXCEPT !.pinned = TRUE, !.mutable = repeats(n)] : n \in novaGraph}

(***************************************************************************)
(* Octavia: a load balancer and everything below it are one family; the    *)
(* calls of a child wait on the load balancer, whose name the builder      *)
(* looks up through the listener.                                          *)
(***************************************************************************)
subnetOf(nets) == follow("network", "subnet", nets)
lbSubnet(lbs)  == subnetOf(follow("lb", "network", lbs))

octaviaChild(e, lb, parents, reads) ==
  Mutable(Gated(Node(e, parents, reads \cup lb), lb, lb), e.kind \in {"listener", "member"})

octaviaMemberNoSubnet(e) ==   \* mutant: the member's subnet is no parent
  LET lb == lbsOfPool(Refs(e, "pool"))
  IN octaviaChild(e, lb, Refs(e, "pool") \cup lb, Refs(e, "pool") \cup lbSubnet(lb))
octaviaMember(e) ==
  LET lb == lbsOfPool(Refs(e, "pool"))
      to == Refs(e, "pool") \cup lb \cup lbSubnet(lb)
  IN octaviaChild(e, lb, to, Refs(e, "pool") \cup lbSubnet(lb))

octaviaGraph ==
  {Node(e, {}, {}) : e \in Of("network")}
    \cup {LET sub == CHOOSE s \in Refs(e, "subnet") : TRUE
          IN [Node(e, {e.key}, {e.key}) EXCEPT !.key = sub, !.kind = "subnet"] : e \in Of("network")}
    \cup {LET sub == lbSubnet({e.key})
          IN Gated(Node(e, sub, sub), {e.key}, {e.key}) : e \in Of("lb")}
    \cup {LET lb == Refs(e, "lb") IN octaviaChild(e, lb, lb, lb) : e \in Of("listener")}
    \cup {LET lb == follow("listener", "lb", Refs(e, "listener"))
          IN octaviaChild(e, lb, Refs(e, "listener") \cup lb, Refs(e, "listener")) : e \in Of("pool")}
    \cup {octaviaMember(e) : e \in Of("member")}
    \cup {LET lb == lbsOfPool(Refs(e, "pool"))
          IN octaviaChild(e, lb, Refs(e, "pool") \cup lb, Refs(e, "pool")) : e \in Of("monitor")}

\* buildPersonaNodes, and the one builder of every other run.
Graph ==
  CASE sc.service = "neutron"  -> neutronGraph
    [] sc.service = "cinder"   -> cinderGraph
    [] sc.service = "glance"   -> glanceGraph
    [] sc.service = "barbican" -> barbicanGraph
    [] sc.service = "keystone" -> keystoneGraph
    [] sc.service = "octavia"  -> octaviaGraph
    [] sc.service = "nova"     ->
         CASE sc.persona = "gardener" -> novaRolling
           [] sc.persona = "legacy"   -> novaLongLived
           [] OTHER                   -> novaGraph

-----------------------------------------------------------------------------
Init == PlansInit /\ nodes = {} /\ present = {}

Build ==
  /\ phase = "planned"
  /\ nodes' = Graph /\ phase' = "built"
  /\ UNCHANGED <<sc, step, plan, present>>

Next == Build \/ (PlansNext /\ UNCHANGED <<nodes, present>>)

Spec == Init /\ [][Next]_vars

(***************************************************************************)
(* newEngine: a parent that is no node is skipped without a word.          *)
(***************************************************************************)
AllKeys == {n.key : n \in nodes}
parentsOf(n) == n.parents \cap AllKeys
childrenOf(n) == {c \in nodes : n.key \in parentsOf(c)}

\* The churn itself, one sequential decision at a time.
Create(n) ==
  /\ phase = "built" /\ n.key \notin present /\ parentsOf(n) \subseteq present
  /\ present' = present \cup {n.key} /\ UNCHANGED <<planVars, nodes>>

Delete(n) ==
  /\ phase = "built" /\ n.key \in present /\ ~n.pinned
  /\ \A c \in childrenOf(n) : c.key \notin present
  /\ present' = present \ {n.key} /\ UNCHANGED <<planVars, nodes>>

ChurnNext == Next \/ \E n \in nodes : Create(n) \/ Delete(n)
ChurnSpec == Init /\ [][ChurnNext]_vars

-----------------------------------------------------------------------------
(***************************************************************************)
(* The engine drops a parent it cannot find and a closure sends "" for an  *)
(* id it does not have, both without an error.  Neither ever happens: keys *)
(* are unique, every parent is a node, and every name a closure reads is   *)
(* among the parents of its node.                                          *)
(***************************************************************************)
EdgesComplete ==
  /\ Cardinality(AllKeys) = Cardinality(nodes)
  /\ \A n \in nodes : n.parents \subseteq AllKeys /\ n.reads \subseteq n.parents

(***************************************************************************)
(* Nova, Cinder and Octavia reject a second change of a server, volume or  *)
(* load balancer that is still changing.  Any two nodes whose calls act on *)
(* the same one share one gate, so the engine never runs them together.    *)
(***************************************************************************)
FamiliesShareGate ==
  \A m, n \in nodes : m.acts \cap n.acts # {} => m.gate = n.gate /\ m.gate # {}

(***************************************************************************)
(* The premises of the scheduler (NodeAssumption, AcyclicAssumption and    *)
(* RollAssumption of ChurnGraph) hold of every graph a builder makes: the  *)
(* graph has no cycle, a rolling node is not pinned and its dependents are *)
(* in the same rolling set.                                                *)
(***************************************************************************)
Layers[i \in 0..Cardinality(nodes)] ==
  IF i = 0 THEN {}
  ELSE LET below == {m.key : m \in Layers[i - 1]}
       IN {n \in nodes : parentsOf(n) \subseteq below}
FitsScheduler ==
  /\ Layers[Cardinality(nodes)] = nodes
  /\ \A n \in nodes : n.roll # {} =>
       ~n.pinned /\ \A c \in childrenOf(n) : c.roll = n.roll

(***************************************************************************)
(* Every graph a builder makes of a generated plan is one the engine can   *)
(* run: nothing it silently skips, all its scheduler relies on, and one    *)
(* gate for all that must not run together.                                *)
(***************************************************************************)
GraphFitsEngine == EdgesComplete /\ FitsScheduler /\ FamiliesShareGate

(***************************************************************************)
(* "The engine never issues a dependency-violating call of its own         *)
(* making": a floating IP associated with a port exists only while the     *)
(* interface and the gateway router it is routed through exist, which is   *)
(* what apply's stage order and cleanup's delete order keep.               *)
(***************************************************************************)
FloatingIPsRouted ==
  \A f \in Of("fip") : f.key \in present =>
    \A pt \in Of("port") : pt.key \in Refs(f, "port") =>
      \E ri \in Of("rif") :
        /\ ri.key \in present
        /\ Refs(ri, "subnet") \cap Refs(pt, "subnet") # {}
        /\ Refs(ri, "router") \subseteq gatewayRouters

=============================================================================
