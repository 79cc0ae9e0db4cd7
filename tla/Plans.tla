-------------------------------- MODULE Plans --------------------------------
(***************************************************************************)
(* From a scenario to a plan: Scenario.Validate, Scenario.Generate and     *)
(* Plan.Validate of the seven services, and the persona plans of a mix.    *)
(*                                                                         *)
(* A plan is a set of entries.  A logical name such as net-0002 is the     *)
(* pair <<"net", 2>>; the cross references of an entry are pairs of a role *)
(* and a name.  Every draw of the random generator is a choice, a ratio is *)
(* a whole percentage (so that 0 and 1 keep their meaning), and a          *)
(* collection of the plan is one action, which reads the plan so far.      *)
(***************************************************************************)
EXTENDS Integers, FiniteSetsExt, Functions

CONSTANTS
  Scenarios,        \* the scenarios a run may be given
  Blocks,           \* address blocks: [pool, v4, v6, link |-> Nat]
  MaxNetworks,      \* the VIP networks whose /24 fits into 10.0.0.0/16
  MemberAddresses,  \* member addresses of one VIP network
  MaxCount,         \* the cap of every count
  MaxPort           \* the largest TCP port

VARIABLES
  sc,      \* the scenario
  phase,   \* "scenario", "generate", "generated", "planned", or how it ended
  step,    \* the collection Generate is at
  plan     \* the entries generated so far

planVars == <<sc, phase, step, plan>>

Services == {"neutron", "cinder", "nova", "glance", "keystone", "barbican",
             "octavia", "mix"}

\* Only a mix makes a run a persona.
ASSUME PlansAssumption ==
  /\ \A s \in Scenarios : /\ s.service \in Services
                          /\ s.service = "nova" => s.persona = "none"
                          /\ s.service = "mix" => s.shares \in [1..3 -> Int]
  /\ DOMAIN Blocks = {"pool", "v4", "v6", "link"}
  /\ MaxNetworks \in Nat /\ MemberAddresses \in Nat /\ MaxCount \in Nat /\ MaxPort \in Nat \ {0}

Entry(key, kind, refs, flags, num) ==
  [key |-> key, kind |-> kind, refs |-> refs, flags |-> flags, num |-> num]

Of(kind)      == {e \in plan : e.kind = kind}
Keys(kind)    == {e.key : e \in Of(kind)}
Refs(e, role) == {r[2] : r \in {x \in e.refs : x[1] = role}}
One(role, S)  == {<<role, x>> : x \in S}
Names(prefix, n)       == {<<prefix, i>> : i \in 1..n}
Plain(kind, prefix, n) == {Entry(k, kind, {}, {}, 1) : k \in Names(prefix, n)}

\* A reference the generator dies on: Intn(0), Perm(n)[:k] with k > n, a zero
\* divisor or a search that never ends.
Panic == <<"panic", 0>>
Pick(S) == IF S = {} THEN {Panic} ELSE S
permPrefix(k, S) == IF k > Cardinality(S) THEN {{Panic}} ELSE kSubset(k, S)
roundRobin(prefix, i, n) == IF n < 1 THEN Panic ELSE <<prefix, (i % n) + 1>>

randRange(r) == r.lo .. r.hi
Draw(pct)    == {b \in BOOLEAN : IF b THEN pct > 0 ELSE pct < 100}
AtMostOne(S) == {{}} \cup {{x} : x \in S}

\* The flags drawn with the ratios f, where a flag may need another first.
FlagDraws(f, needs) ==
  {F \in SUBSET DOMAIN f :
     \A x \in DOMAIN f :
       LET open == needs[x] \subseteq F
       IN (x \in F => open /\ f[x] > 0) /\ (x \notin F => ~open \/ f[x] < 100)}

\* Things counted through several owners: the owner of the k-th of them.
Counts(n, r) == [1..n -> randRange(r)]
UpTo(counts, i) == SumFunctionOnSet(counts, 1..i)
Total(counts) == SumFunction(counts)
Owner(counts, k) ==
  CHOOSE i \in DOMAIN counts : UpTo(counts, i - 1) < k /\ k <= UpTo(counts, i)

validateRange(r) == r.hi \in 0..MaxCount /\ r.lo \in 0..r.hi
CountOK(n) == n \in 0..MaxCount
RatioOK(p) == p \in 0..100

-----------------------------------------------------------------------------
(***************************************************************************)
(* Scenario.Validate of each service.                                      *)
(***************************************************************************)
neutronScenarioOK(s) ==
  /\ \A n \in {s.pools, s.scopes, s.networks, s.routers, s.groups, s.links, s.fips} : CountOK(n)
  /\ \A r \in {s.subnets, s.ports, s.rules, s.portGroups} : validateRange(r)
  /\ \A p \in {s.poolPct, s.v6Pct, s.attachPct, s.gatewayPct, s.fipPct} : RatioOK(p)
  /\ s.poolPct > 0 => s.pools > 0
  /\ s.links > 0 => s.routers >= 2

cinderScenarioOK(s) ==
  /\ CountOK(s.volumes) /\ RatioOK(s.resizePct)
  /\ \A r \in {s.size, s.growth, s.snapshots} : validateRange(r)
  /\ s.volumes * s.snapshots.hi <= MaxCount
  /\ s.volumes > 0 => s.size.lo >= 1
  /\ s.resizePct > 0 => s.growth.lo >= 1

novaCounts(s) ==
  /\ CountOK(s.servers) /\ CountOK(s.networks)
  /\ \A r \in {s.perServer, s.volumes, s.ports, s.size, s.root} : validateRange(r)
  /\ \A f \in DOMAIN s.pct : RatioOK(s.pct[f])
  /\ s.servers * s.volumes.hi <= MaxCount
  /\ s.servers * s.ports.hi <= MaxCount
  /\ s.servers * s.networks <= MaxCount

novaScenarioOKAnyCount(s) ==   \* mutant: networks_per_server not checked against networks
  /\ novaCounts(s)
  /\ s.servers > 0 => s.perServer.lo >= 1
  /\ s.pct["resize"] > 0 => s.resizeFlavor
  /\ s.pct["boot"] > 0 => s.root.lo >= 1
  /\ s.volumes.hi > 0 => s.size.lo >= 1
novaScenarioOK(s) ==
  /\ novaCounts(s)
  /\ s.servers > 0 => s.perServer.lo >= 1 /\ s.perServer.hi <= s.networks
  /\ s.pct["resize"] > 0 => s.resizeFlavor
  /\ s.pct["boot"] > 0 => s.root.lo >= 1
  /\ s.volumes.hi > 0 => s.size.lo >= 1

glanceScenarioOK(s) ==
  /\ CountOK(s.images) /\ validateRange(s.size)
  /\ \A f \in DOMAIN s.pct : RatioOK(s.pct[f])
  /\ s.images > 0 => s.size.lo >= 1

barbicanScenarioOK(s) ==
  /\ CountOK(s.secrets) /\ CountOK(s.orders) /\ CountOK(s.containers)
  /\ validateRange(s.size) /\ validateRange(s.perContainer) /\ RatioOK(s.retrievePct)
  /\ s.secrets > 0 => s.size.lo >= 1
  /\ s.containers > 0 => s.perContainer.hi <= s.secrets

portRange(r) == r.hi \in 1..MaxPort /\ r.lo \in 1..r.hi

membersPerNetwork(s, i) ==
  Cardinality({m \in 0..(s.members - 1) : ((m % s.listeners) % s.lbs) % s.networks = i})

octaviaScenarioOK(s) ==
  /\ \A n \in {s.networks, s.lbs, s.listeners, s.members, s.monitors} : CountOK(n)
  /\ s.networks <= MaxNetworks
  /\ s.lbs > 0 => s.networks >= 1
  /\ s.listeners > 0 => s.lbs >= 1
  /\ s.members > 0 => s.listeners >= 1
  /\ s.listeners >= s.lbs /\ s.members >= s.listeners /\ s.monitors <= s.listeners
  /\ portRange(s.lport) /\ portRange(s.mport)
  /\ s.lbs > 0 => s.lport.hi - s.lport.lo + 1 >= (s.listeners + s.lbs - 1) \div s.lbs
  /\ \A i \in 0..(s.networks - 1) : membersPerNetwork(s, i) <= MemberAddresses

validateImpliedRoles(s) ==
  s.implied # {} =>
    /\ s.roles >= 2
    /\ \A r \in s.implied : r[1] \in 1..s.roles /\ r[2] \in 1..s.roles /\ r[1] # r[2]

keystoneScenarioOK(s) ==
  /\ \A n \in {s.domains, s.roles, s.projects, s.users, s.fans} : CountOK(n)
  /\ \A r \in {s.perDomain, s.grants, s.fanGrants} : validateRange(r)
  /\ RatioOK(s.domainPct) /\ RatioOK(s.tokenPct)
  /\ s.projects + s.users + s.fans > 0 => s.domains >= 1
  /\ (s.users > 0 /\ s.grants.hi > 0) \/ s.fans > 0 => s.roles >= 1
  /\ s.projects > 0 => s.perDomain.lo >= 1
  /\ s.fans > 0 => s.fanGrants.lo >= 1 /\ s.fanGrants.hi <= s.projects
  /\ s.users * s.grants.hi + s.fans * s.fanGrants.hi <= MaxCount
  /\ validateImpliedRoles(s)

-----------------------------------------------------------------------------
(***************************************************************************)
(* The personas of a mix: the server envelope is divided by the shares,    *)
(* and each persona with a server gets a compute scenario of its own.      *)
(***************************************************************************)
Personas == <<"ci", "gardener", "legacy">>

Apportion(total, shares) ==
  LET sum == SumFunction(shares)
      base == [i \in DOMAIN shares |-> (total * shares[i]) \div sum]
      remainder == [i \in DOMAIN shares |-> (total * shares[i]) % sum]
      left == total - SumFunction(base)
      ahead(i) == {j \in DOMAIN shares :
                     /\ shares[j] > 0
                     /\ \/ remainder[j] > remainder[i]
                        \/ remainder[j] = remainder[i] /\ j < i}
  IN IF total <= 0 \/ sum = 0 THEN [i \in DOMAIN shares |-> 0]
     ELSE [i \in DOMAIN shares |->
             base[i] + IF shares[i] > 0 /\ Cardinality(ahead(i)) < left THEN 1 ELSE 0]

NovaFlags == {"boot", "userData", "stop", "hard", "resize", "live", "delete"}
NovaNeeds == [f \in NovaFlags |-> IF f = "hard" THEN {"stop"} ELSE {}]
NoDraws   == [f \in NovaFlags |-> 0]
Exactly(n) == [lo |-> n, hi |-> n]

ciNova(s, n) ==
  [service |-> "nova", persona |-> "ci", servers |-> n, networks |-> s.networks,
   perServer |-> Exactly(1), volumes |-> s.volumes, ports |-> Exactly(0),
   size |-> s.size, root |-> Exactly(0), pct |-> NoDraws, volumeDetach |-> 0,
   portDetach |-> 0, resizeFlavor |-> FALSE, cold |-> FALSE]

gardenerNova(s, n) ==
  [ciNova(s, n) EXCEPT !.persona = "gardener", !.networks = s.clusters,
                       !.volumes = Exactly(1)]

legacyNova(s, n) ==
  [ciNova(s, n) EXCEPT
     !.persona = "legacy", !.ports = s.ports, !.volumeDetach = 100, !.portDetach = 100,
     !.resizeFlavor = s.resizeFlavor, !.cold = s.cold,
     !.pct = [NoDraws EXCEPT !["stop"] = 100, !["live"] = 100,
                             !["resize"] = IF s.resizeFlavor THEN 100 ELSE 0]]

PersonaNova(name, s, n) ==
  CASE name = "ci" -> ciNova(s, n)
    [] name = "gardener" -> gardenerNova(s, n)
    [] name = "legacy" -> legacyNova(s, n)

gardenerCheck(s, n) == s.clusters >= 1 /\ (n >= 1 => s.clusters <= n)

mixScenarioOK(s) ==
  /\ CountOK(s.servers)
  /\ \A i \in DOMAIN s.shares : s.shares[i] >= 0
  /\ \E i \in DOMAIN s.shares : s.shares[i] > 0
  /\ \A i \in DOMAIN Personas : s.shares[i] > 0 =>
       LET n == Apportion(s.servers, s.shares)[i]
       IN /\ Personas[i] = "gardener" => gardenerCheck(s, n)
          /\ novaScenarioOK(PersonaNova(Personas[i], s, n))

scenarioOK(s) ==
  CASE s.service = "neutron"  -> neutronScenarioOK(s)
    [] s.service = "cinder"   -> cinderScenarioOK(s)
    [] s.service = "nova"     -> novaScenarioOK(s)
    [] s.service = "glance"   -> glanceScenarioOK(s)
    [] s.service = "keystone" -> keystoneScenarioOK(s)
    [] s.service = "barbican" -> barbicanScenarioOK(s)
    [] s.service = "octavia"  -> octaviaScenarioOK(s)
    [] s.service = "mix"      -> mixScenarioOK(s)

-----------------------------------------------------------------------------
(***************************************************************************)
(* The bookkeeping of Generate: one collection after another; the last one *)
(* hands the plan to Plan.Validate.                                        *)
(***************************************************************************)
At(service, i) == phase = "generate" /\ sc.service = service /\ step = i

Panicked(p) == \E e \in p : \E r \in e.refs : r[2] = Panic
Exhausted(p) ==
  LET sub(f) == Cardinality({e \in p : e.kind = "subnet" /\ f \in e.flags})
  IN \/ Cardinality({e \in p : e.kind = "pool" /\ sc.service = "neutron"}) > Blocks.pool
     \/ sub("v4") > Blocks.v4 \/ sub("v6") > Blocks.v6 \/ sub("link") > Blocks.link

Emit(new, next) ==
  /\ plan' = plan \cup new
  /\ phase' = CASE Panicked(plan') -> "panic"
                [] Exhausted(plan') /\ ~Panicked(plan') -> "exhausted"
                [] OTHER -> IF next = 0 THEN "generated" ELSE phase
  /\ step' = next
  /\ UNCHANGED sc

(***************************************************************************)
(* Neutron.                                                                *)
(***************************************************************************)
NeutronPools ==
  /\ At("neutron", 1)
  /\ Emit(Plain("scope", "as", sc.scopes) \cup Plain("pool", "pool", sc.pools)
            \cup Plain("network", "net", sc.networks), 2)

\* A subnet is IPv6, from a pool, or an IPv4 block of its own.
subnetHow ==
  {[flag |-> "v6", pool |-> {}] : b \in {x \in Draw(sc.v6Pct) : x}}
    \cup {[flag |-> "pool", pool |-> {p}] :
            p \in IF sc.v6Pct < 100 /\ sc.poolPct > 0 THEN Keys("pool") ELSE {}}
    \cup {[flag |-> "v4", pool |-> {}] :
            b \in {x \in Draw(sc.v6Pct) : ~x /\ (Keys("pool") = {} \/ sc.poolPct < 100)}}

NeutronSubnets ==
  /\ At("neutron", 2)
  /\ \E counts \in Counts(sc.networks, sc.subnets) :
       \E how \in [1..Total(counts) -> subnetHow] :
         Emit({Entry(<<"subnet", k>>, "subnet",
                     {<<"network", <<"net", Owner(counts, k)>>>>} \cup One("pool", how[k].pool),
                     {how[k].flag}, 1) : k \in DOMAIN how}, 3)

NeutronRouters ==
  /\ At("neutron", 3)
  /\ \E gateway \in [1..sc.routers -> Draw(sc.gatewayPct)] :
       Emit({Entry(<<"router", i>>, "router", {}, IF gateway[i] THEN {"gateway"} ELSE {}, 1) :
               i \in DOMAIN gateway}, 4)

\* Each subnet is considered once, so it gets at most one router.
NeutronInterfaces ==
  /\ At("neutron", 4)
  /\ LET n == Cardinality(Keys("subnet"))
     IN \E att \in [1..n -> AtMostOne(Keys("router"))] :
          /\ \A k \in 1..n : (att[k] # {}) \in
               IF Keys("router") = {} THEN {FALSE} ELSE Draw(sc.attachPct)
          /\ Emit({Entry(<<"rif", Cardinality({j \in 1..k : att[j] # {}})>>, "rif",
                         One("router", att[k]) \cup {<<"subnet", <<"subnet", k>>>>}, {}, 1) :
                     k \in {j \in 1..n : att[j] # {}}}, 5)

randomRule(n) == AtMostOne(Names("sg", n))

NeutronSecurityGroups ==
  /\ At("neutron", 5)
  /\ \E counts \in Counts(sc.groups, sc.rules) :
       \E remote \in [1..Total(counts) -> randomRule(sc.groups)] :
         Emit(Plain("group", "sg", sc.groups) \cup
              {Entry(<<"rule", k>>, "rule",
                     {<<"group", <<"sg", Owner(counts, k)>>>>} \cup One("remote", remote[k]),
                     {}, 1) : k \in DOMAIN remote}, 6)

\* A port gets some groups and a fixed address on a subnet of its own network,
\* when the network has one.
subnetsByNetwork(net) == {e.key : e \in {x \in Of("subnet") : net \in Refs(x, "network")}}

NeutronPorts ==
  /\ At("neutron", 6)
  /\ \E counts \in Counts(sc.networks, sc.ports) :
       \E groups \in [1..Total(counts) -> SUBSET Keys("group")] :
       \E fixed \in [1..Total(counts) -> AtMostOne(Keys("subnet"))] :
         LET net(k) == <<"net", Owner(counts, k)>>
         IN /\ \A k \in DOMAIN groups :
                 /\ \E n \in randRange(sc.portGroups) :
                      Cardinality(groups[k]) = Min({n, Cardinality(Keys("group"))})
                 /\ fixed[k] \subseteq subnetsByNetwork(net(k))
                 /\ fixed[k] = {} => subnetsByNetwork(net(k)) = {}
            /\ Emit({Entry(<<"port", k>>, "port",
                           {<<"network", net(k)>>} \cup One("subnet", fixed[k])
                             \cup One("group", groups[k]), {}, 1) : k \in DOMAIN groups}, 7)

\* A link: two distinct routers, one on the transit subnet, one on its port.
linkEntries(i, a, b) ==
  {Entry(<<"link-net", i>>, "network", {}, {}, 1),
   Entry(<<"link-subnet", i>>, "subnet", {<<"network", <<"link-net", i>>>>}, {"link"}, 1),
   Entry(<<"link-port", i>>, "port",
         {<<"network", <<"link-net", i>>>>, <<"subnet", <<"link-subnet", i>>>>}, {}, 1),
   Entry(<<"link-rif-a", i>>, "rif", {<<"router", a>>, <<"subnet", <<"link-subnet", i>>>>}, {}, 1),
   Entry(<<"link-rif-b", i>>, "rif", {<<"router", b>>, <<"port", <<"link-port", i>>>>}, {}, 1)}

appendRouterLinks ==
  /\ At("neutron", 7)
  /\ \E f \in [1..(IF Cardinality(Keys("router")) >= 2 THEN sc.links ELSE 0)
                 -> Keys("router") \X Keys("router")] :
       /\ \A i \in DOMAIN f : f[i][1] # f[i][2]
       /\ Emit(UNION {linkEntries(i, f[i][1], f[i][2]) : i \in DOMAIN f}, 8)

\* The ports on an IPv4 subnet behind a gateway router that are not themselves
\* a router's interface.  A pool subnet and a link subnet are IPv4 too.
gatewayRouters == {e.key : e \in {x \in Of("router") : "gateway" \in x.flags}}
ipv4Subnets    == {e.key : e \in {x \in Of("subnet") : "v6" \notin x.flags}}
externalSubnets ==
  UNION {Refs(ri, "subnet") : ri \in {x \in Of("rif") : Refs(x, "router") \subseteq gatewayRouters}}
    \cap ipv4Subnets
eligibleFloatingIPPorts ==
  {e.key : e \in {pt \in Of("port") : /\ Refs(pt, "subnet") \cap externalSubnets # {}
                                     /\ \A ri \in Of("rif") : pt.key \notin Refs(ri, "port")}}

appendFloatingIPs ==
  /\ At("neutron", 8)
  /\ \E f \in [1..sc.fips -> AtMostOne(eligibleFloatingIPPorts)] :
       /\ \A i, j \in DOMAIN f : f[i] = f[j] /\ f[i] # {} => i = j
       /\ sc.fipPct = 0 => \A i \in DOMAIN f : f[i] = {}
       /\ sc.fipPct = 100 => \A i \in DOMAIN f : f[i] = {} =>
            UNION {f[j] : j \in 1..(i - 1)} = eligibleFloatingIPPorts
       /\ Emit({Entry(<<"fip", i>>, "fip", One("port", f[i]), {}, 1) : i \in DOMAIN f}, 0)

(***************************************************************************)
(* Cinder, Glance and Barbican.                                            *)
(***************************************************************************)
\* num is the size of a volume; a resize target is size plus growth, so the
\* reference <<"target", ...>> keeps the growth.
CinderVolumes ==
  /\ At("cinder", 1)
  /\ \E size \in [1..sc.volumes -> randRange(sc.size)] :
     \E resize \in [1..sc.volumes -> Draw(sc.resizePct)] :
     \E growth \in [1..sc.volumes -> randRange(sc.growth)] :
       Emit({Entry(<<"vol", i>>, "volume",
                   IF resize[i] THEN {<<"target", <<"gib", size[i] + growth[i]>>>>} ELSE {},
                   {}, size[i]) : i \in DOMAIN size}, 2)

CinderSnapshots ==
  /\ At("cinder", 2)
  /\ \E counts \in Counts(sc.volumes, sc.snapshots) :
       Emit({Entry(<<"snap", k>>, "snapshot", {<<"volume", <<"vol", Owner(counts, k)>>>>}, {}, 1) :
               k \in 1..Total(counts)}, 0)

ImageFlags == {"metadata", "shared", "accept", "remove", "community", "public",
               "deactivate", "delete"}
ImageNeeds == [f \in ImageFlags |-> IF f \in {"accept", "remove"} THEN {"shared"} ELSE {}]

GlanceImages ==
  /\ At("glance", 1)
  /\ \E flags \in [1..sc.images -> FlagDraws(sc.pct, ImageNeeds)] :
     \E size \in [1..sc.images -> randRange(sc.size)] :
       Emit({Entry(<<"img", i>>, "image", {}, flags[i], size[i]) : i \in DOMAIN flags}, 0)

BarbicanSecrets ==
  /\ At("barbican", 1)
  /\ \E retrieve \in [1..sc.secrets -> Draw(sc.retrievePct)] :
     \E size \in [1..sc.secrets -> randRange(sc.size)] :
       Emit({Entry(<<"sec", i>>, "secret", {}, IF retrieve[i] THEN {"retrieve"} ELSE {}, size[i]) :
               i \in DOMAIN retrieve} \cup Plain("order", "ord", sc.orders), 2)

BarbicanContainers ==
  /\ At("barbican", 2)
  /\ \E refs \in [1..sc.containers ->
                    UNION {permPrefix(k, Keys("secret")) : k \in randRange(sc.perContainer)}] :
       Emit({Entry(<<"ctr", i>>, "container", One("secret", refs[i]), {}, 1) : i \in DOMAIN refs}, 0)

(***************************************************************************)
(* Nova, one server with its volumes and ports at a time, and what a       *)
(* persona makes of the generated plan.                                    *)
(***************************************************************************)
NovaNetworks ==
  /\ At("nova", 1)
  /\ Emit(Plain("network", "net", sc.networks), IF sc.servers = 0 THEN 0 ELSE 2)

\* A volume or port is numbered through all servers.
NovaServer ==
  /\ phase = "generate" /\ sc.service = "nova" /\ step \in 2..(sc.servers + 1)
  /\ LET srv == <<"srv", step - 1>>
         vols == Cardinality(Of("volume"))
         ports == Cardinality(Of("port"))
         detach(b) == IF b THEN {"detach"} ELSE {}
     IN \E flags \in FlagDraws(sc.pct, NovaNeeds) :
        \E nets \in UNION {permPrefix(k, Keys("network")) : k \in randRange(sc.perServer)} :
        \E root \in IF "boot" \in flags THEN randRange(sc.root) ELSE {0} :
        \E v \in randRange(sc.volumes) : \E p \in randRange(sc.ports) :
        \E size \in [1..v -> randRange(sc.size)] :
        \E vdetach \in [1..v -> Draw(sc.volumeDetach)] :
        \E on \in [1..p -> Pick(nets)] : \E pdetach \in [1..p -> Draw(sc.portDetach)] :
          Emit({Entry(srv, "server", One("network", nets), flags, root)}
               \cup {Entry(<<"vol", vols + i>>, "volume", {<<"server", srv>>},
                           detach(vdetach[i]), size[i]) : i \in 1..v}
               \cup {Entry(<<"port", ports + i>>, "port", {<<"server", srv>>, <<"network", on[i]>>},
                           detach(pdetach[i]), 1) : i \in 1..p},
               IF step <= sc.servers \/ sc.persona \in {"gardener", "legacy"} THEN step + 1 ELSE 0)

\* Cluster k is network k and group k; server i joins cluster i % k.
gardenerShape(p) ==
  LET k == Cardinality({e \in p : e.kind = "network"})
      shaped(e) == IF e.kind # "server" THEN e
                   ELSE [e EXCEPT !.refs =
                           {<<"network", roundRobin("net", e.key[2] - 1, k)>>,
                            <<"group", roundRobin("grp", e.key[2] - 1, k)>>}]
  IN {shaped(e) : e \in p} \cup Plain("servergroup", "grp", k)

\* Every server of a persona that cold-migrates is marked for it.
coldMigrate(p) ==
  {IF e.kind = "server" THEN [e EXCEPT !.flags = @ \cup {"cold"}] ELSE e : e \in p}

PersonaShape ==
  /\ At("nova", sc.servers + 2)
  /\ plan' = LET marked == IF sc.cold THEN coldMigrate(plan) ELSE plan
             IN IF sc.persona = "gardener" THEN gardenerShape(marked) ELSE marked
  /\ phase' = IF Panicked(plan') THEN "panic" ELSE "generated"
  /\ step' = 0 /\ UNCHANGED sc

\* Scenario.Generate of a mix: a persona that received a server; without one
\* the plan's own check refuses it.
MixPersona ==
  /\ At("mix", 1)
  /\ LET servers == Apportion(sc.servers, sc.shares)
     IN \/ \E i \in DOMAIN Personas :
             /\ servers[i] >= 1
             /\ sc' = PersonaNova(Personas[i], sc, servers[i])
             /\ UNCHANGED <<phase, step, plan>>
        \/ /\ \A i \in DOMAIN Personas : servers[i] < 1
           /\ phase' = "noservers" /\ UNCHANGED <<sc, step, plan>>

(***************************************************************************)
(* Keystone.                                                               *)
(***************************************************************************)
KeystoneRoles ==
  /\ At("keystone", 1)
  /\ Emit(Plain("domain", "dom", sc.domains) \cup Plain("role", "role", sc.roles)
          \cup {Entry(<<"rule", r[1] * (MaxCount + 1) + r[2]>>, "implied",
                      {<<"prior", <<"role", r[1]>>>>, <<"implied", <<"role", r[2]>>>>}, {}, 1) :
                  r \in sc.implied}, 2)

\* The projects are dealt to the domains in turn, in batches of a drawn length;
\* cuts holds the first project of every batch.
batched(cuts) ==
  \A c \in cuts : LET after == {d \in cuts : d > c}
                  IN IF after = {} THEN sc.projects - c + 1 <= sc.perDomain.hi
                     ELSE Min(after) - c \in randRange(sc.perDomain)

KeystoneProjects ==
  /\ At("keystone", 2)
  /\ \E cuts \in SUBSET (1..sc.projects) :
       /\ sc.projects > 0 => 1 \in cuts
       /\ batched(cuts)
       /\ Emit({Entry(<<"proj", i>>, "project",
                      {<<"domain", roundRobin("dom", Cardinality(cuts \cap 1..i) - 1, sc.domains)>>},
                      {}, 1) : i \in 1..sc.projects}, 3)

KeystoneUsers ==
  /\ At("keystone", 3)
  /\ \E f \in [1..sc.users -> Pick(Keys("domain"))] :
       Emit({Entry(<<"user", i>>, "user", {<<"domain", f[i]>>}, {}, 1) : i \in DOMAIN f}, 4)

\* A user's grants are on projects of its own domain or, when it draws so or
\* the domain has none, on the domain; a triple drawn again is skipped.
grantOptions(u) ==
  LET own == {e.key : e \in {x \in Of("project") : Refs(x, "domain") = Refs(u, "domain")}}
      scopes == (IF TRUE \in Draw(sc.domainPct) \/ own = {} THEN {{}} ELSE {})
                  \cup (IF FALSE \in Draw(sc.domainPct) THEN {{p} : p \in own} ELSE {})
  IN scopes \X Pick(Keys("role"))

Grant(i, u, scope, role) ==
  Entry(<<"assign", i>>, "assignment",
        {<<"user", u>>, <<"role", role>>} \cup One("project", scope), {}, 1)

KeystoneGrants ==
  /\ phase = "generate" /\ sc.service = "keystone" /\ step \in 4..(sc.users + 3)
  /\ LET u == CHOOSE e \in Of("user") : e.key = <<"user", step - 3>>
         base == Cardinality(Of("assignment"))
     IN \E n \in randRange(sc.grants) : \E draw \in [1..n -> grantOptions(u)] :
          LET kept == {k \in 1..n : \A j \in 1..(k - 1) : draw[j] # draw[k]}
          IN Emit({Grant(base + Cardinality(kept \cap 1..k), u.key, draw[k][1], draw[k][2]) :
                     k \in kept}, step + 1)

\* A token is scoped to a project its user holds a grant on.
tokenTargets(u) == UNION {Refs(a, "project") : a \in {x \in Of("assignment") : u \in Refs(x, "user")}}

KeystoneTokens ==
  /\ At("keystone", sc.users + 4)
  /\ \E f \in [1..sc.users -> AtMostOne(Keys("project"))] :
       /\ \A i \in DOMAIN f :
            /\ f[i] \subseteq tokenTargets(<<"user", i>>)
            /\ (f[i] # {}) \in
                 IF tokenTargets(<<"user", i>>) = {} THEN {FALSE} ELSE Draw(sc.tokenPct)
       /\ Emit({Entry(<<"token", i>>, "token", {<<"user", <<"user", i>>>>} \cup One("project", f[i]),
                      {}, 1) : i \in {j \in DOMAIN f : f[j] # {}}}, sc.users + 5)

\* A fan user lives in the first domain and holds grants on distinct projects
\* of any domain.
KeystoneFans ==
  /\ At("keystone", sc.users + 5)
  /\ \E on \in [1..sc.fans -> UNION {permPrefix(n, Keys("project")) : n \in randRange(sc.fanGrants)}] :
     \E role \in [1..sc.fans -> [Keys("project") -> Pick(Keys("role"))]] :
       LET base == Cardinality(Of("assignment"))
           pairs == UNION {{<<i, p>> : p \in on[i]} : i \in DOMAIN on}
           upTo(i, p) == {x \in pairs : x[1] < i \/ (x[1] = i /\ x[2][2] <= p[2])}
       IN Emit({Entry(<<"fan", i>>, "user", {<<"domain", roundRobin("dom", 0, sc.domains)>>},
                      {"fan"}, 1) : i \in DOMAIN on}
               \cup {Grant(base + Cardinality(upTo(x[1], x[2])), <<"fan", x[1]>>, {x[2]},
                            role[x[1]][x[2]]) : x \in pairs}, 0)

(***************************************************************************)
(* Octavia.  Everything goes round-robin; only ports and the pools with a  *)
(* health monitor are drawn.                                               *)
(***************************************************************************)
OctaviaLoadBalancers ==
  /\ At("octavia", 1)
  /\ Emit({Entry(<<"net", i>>, "network", {<<"subnet", <<"sub", i>>>>}, {}, 1) : i \in 1..sc.networks}
          \cup {Entry(<<"lb", i>>, "lb", {<<"network", roundRobin("net", i - 1, sc.networks)>>}, {}, 1) :
                  i \in 1..sc.lbs}, 2)

\* The drawn port or the next free one up, wrapping around; Panic when the
\* search never ends.
freePort(port, taken) ==
  LET free == randRange(sc.lport) \ taken
      up(x) == (x - port) % (sc.lport.hi - sc.lport.lo + 1)
  IN CHOOSE x \in free : \A y \in free : up(x) <= up(y)

OctaviaListener ==
  /\ phase = "generate" /\ sc.service = "octavia" /\ step \in 2..(sc.listeners + 1)
  /\ LET i == step - 1
         lb == roundRobin("lb", i - 1, sc.lbs)
         taken == {e.num : e \in {x \in Of("listener") : Refs(x, "lb") = {lb}}}
         full == randRange(sc.lport) \subseteq taken
     IN \E port \in randRange(sc.lport) :
          Emit({Entry(<<"lsn", i>>, "listener", {<<"lb", IF full THEN Panic ELSE lb>>}, {},
                      IF full THEN 0 ELSE freePort(port, taken)),
                Entry(<<"pool", i>>, "pool", {<<"listener", <<"lsn", i>>>>}, {}, 1)},
               step + 1)

\* num is the member's place in the upper half of its network.
OctaviaMembers ==
  /\ At("octavia", sc.listeners + 2)
  /\ LET pool(m) == roundRobin("pool", m, sc.listeners)
         net(m) == roundRobin("net", (m % sc.listeners) % sc.lbs, sc.networks)
     IN Emit({Entry(<<"member", m + 1>>, "member",
                    {<<"pool", pool(m)>>, <<"named", pool(m)>>, <<"addr", net(m)>>}, {},
                    Cardinality({x \in 0..m : net(x) = net(m)})) : m \in 0..(sc.members - 1)},
             sc.listeners + 3)

OctaviaMonitors ==
  /\ At("octavia", sc.listeners + 3)
  /\ \E pools \in permPrefix(sc.monitors, Keys("pool")) :
       Emit({Entry(<<"hm", Cardinality({q \in pools : q[2] <= p[2]})>>, "monitor",
                   {<<"pool", p>>}, {}, 1) : p \in pools}, 0)

-----------------------------------------------------------------------------
(***************************************************************************)
(* Plan.Validate of each service.                                          *)
(***************************************************************************)
Resolves(kind, role, target) ==
  \A e \in Of(kind) : Refs(e, role) \subseteq Keys(target)
Unshared(kind, role) ==
  \A a, b \in Of(kind) : a # b => Refs(a, role) \cap Refs(b, role) = {}
UniqueNames(kind) == Cardinality(Keys(kind)) = Cardinality(Of(kind))

neutronPlanOK ==
  /\ Resolves("pool", "scope", "scope")
  /\ Resolves("subnet", "network", "network") /\ Resolves("subnet", "pool", "pool")
  /\ Resolves("rif", "router", "router")
  /\ Resolves("rif", "subnet", "subnet") /\ Resolves("rif", "port", "port")
  /\ \A ri \in Of("rif") : (Refs(ri, "subnet") = {}) # (Refs(ri, "port") = {})
  /\ Unshared("rif", "subnet") /\ Unshared("rif", "port")
  /\ Resolves("rule", "remote", "group")
  /\ Resolves("port", "network", "network") /\ Resolves("port", "subnet", "subnet")
  /\ Resolves("port", "group", "group")
  /\ Resolves("fip", "port", "port")

novaPlanOK ==
  /\ \A s \in Of("server") :
       /\ Refs(s, "network") # {}
       /\ "boot" \in s.flags => s.num >= 1
       /\ "resize" \in s.flags => sc.resizeFlavor
  /\ Resolves("server", "network", "network") /\ Resolves("server", "group", "servergroup")
  /\ \A v \in Of("volume") : v.num >= 1
  /\ Resolves("volume", "server", "server")
  /\ Resolves("port", "server", "server") /\ Resolves("port", "network", "network")
  /\ \A pt \in Of("port") : \A s \in Of("server") :
       s.key \in Refs(pt, "server") => Refs(pt, "network") \subseteq Refs(s, "network")

cinderPlanOK ==
  /\ \A v \in Of("volume") : v.num >= 1 /\ \A t \in Refs(v, "target") : t[2] > v.num
  /\ Resolves("snapshot", "volume", "volume")

glancePlanOK ==
  /\ UniqueNames("image")
  /\ \A i \in Of("image") : /\ i.num >= 1
                            /\ i.flags \cap {"accept", "remove"} # {} => "shared" \in i.flags

barbicanPlanOK ==
  /\ UniqueNames("secret") /\ UniqueNames("order") /\ UniqueNames("container")
  /\ \A s \in Of("secret") : s.num >= 1
  /\ Resolves("container", "secret", "secret")

keystonePlanOK ==
  /\ \A k \in {"domain", "role", "project", "user"} : UniqueNames(k)
  /\ Resolves("implied", "prior", "role") /\ Resolves("implied", "implied", "role")
  /\ \A r \in Of("implied") : Refs(r, "prior") # Refs(r, "implied")
  /\ Resolves("project", "domain", "domain") /\ Resolves("user", "domain", "domain")
  /\ Resolves("assignment", "user", "user") /\ Resolves("assignment", "role", "role")
  /\ Resolves("assignment", "project", "project")
  /\ \A a, b \in Of("assignment") : a.refs = b.refs => a = b
  /\ Resolves("token", "user", "user") /\ Resolves("token", "project", "project")
  /\ \A t \in Of("token") : \E a \in Of("assignment") :
       Refs(a, "user") = Refs(t, "user") /\ Refs(a, "project") = Refs(t, "project")

\* The network a member's address must lie on, through the lookups of validator.
follow(kind, role, keys) == UNION {Refs(e, role) : e \in {x \in Of(kind) : x.key \in keys}}
lbsOfPool(pools) == follow("listener", "lb", follow("pool", "listener", pools))

octaviaListenersOK ==
  /\ Resolves("listener", "lb", "lb")
  /\ \A l \in Of("listener") :
       /\ l.num \in 1..MaxPort
       /\ \A o \in Of("listener") : o # l /\ o.refs = l.refs => o.num # l.num

octaviaMembersOK ==
  /\ Resolves("member", "pool", "pool")
  /\ \A m \in Of("member") :
       /\ Refs(m, "named") = Refs(m, "pool")
       /\ Refs(m, "addr") = follow("lb", "network", lbsOfPool(Refs(m, "pool")))
       /\ m.num \in 1..MemberAddresses
       /\ \A o \in Of("member") : o # m /\ Refs(o, "addr") = Refs(m, "addr") => o.num # m.num

octaviaPoolsOK == Resolves("pool", "listener", "listener") /\ Unshared("pool", "listener")
octaviaMonitorsOK == Resolves("monitor", "pool", "pool") /\ Unshared("monitor", "pool")

octaviaPlanOK ==
  /\ \A k \in {"network", "lb", "listener", "pool", "member", "monitor"} : UniqueNames(k)
  /\ Unshared("network", "subnet")
  /\ Resolves("lb", "network", "network")
  /\ octaviaListenersOK /\ octaviaPoolsOK /\ octaviaMembersOK /\ octaviaMonitorsOK

planOK ==
  CASE sc.service = "neutron"  -> neutronPlanOK
    [] sc.service = "cinder"   -> cinderPlanOK
    [] sc.service = "nova"     -> novaPlanOK
    [] sc.service = "glance"   -> glancePlanOK
    [] sc.service = "keystone" -> keystonePlanOK
    [] sc.service = "barbican" -> barbicanPlanOK
    [] sc.service = "octavia"  -> octaviaPlanOK

-----------------------------------------------------------------------------
PlansInit == sc \in Scenarios /\ phase = "scenario" /\ step = 0 /\ plan = {}

ValidateScenario ==
  /\ phase = "scenario"
  /\ phase' = IF scenarioOK(sc) THEN "generate" ELSE "refused"
  /\ step' = 1 /\ UNCHANGED <<sc, plan>>

ValidatePlan ==
  /\ phase = "generated"
  /\ phase' = IF planOK THEN "planned" ELSE "invalid"
  /\ UNCHANGED <<sc, step, plan>>

PlansNext ==
  \/ ValidateScenario \/ ValidatePlan
  \/ NeutronPools \/ NeutronSubnets \/ NeutronRouters \/ NeutronInterfaces
  \/ NeutronSecurityGroups \/ NeutronPorts \/ appendRouterLinks \/ appendFloatingIPs
  \/ CinderVolumes \/ CinderSnapshots \/ GlanceImages
  \/ BarbicanSecrets \/ BarbicanContainers
  \/ NovaNetworks \/ NovaServer \/ PersonaShape \/ MixPersona
  \/ KeystoneRoles \/ KeystoneProjects \/ KeystoneUsers \/ KeystoneGrants
  \/ KeystoneTokens \/ KeystoneFans
  \/ OctaviaLoadBalancers \/ OctaviaListener \/ OctaviaMembers \/ OctaviaMonitors

(***************************************************************************)
(* What Scenario.Validate promises the generator, and the generator the    *)
(* plan's own check: an accepted scenario never makes Generate panic or    *)
(* hang, and never yields a plan Plan.Validate refuses ("generated plan    *)
(* failed validation").                                                    *)
(***************************************************************************)
AcceptedScenariosPlan == phase \notin {"panic", "invalid"}

=============================================================================
