---------------------------- MODULE MCChurnGraphs ----------------------------
(***************************************************************************)
(* Small scenarios of every service, most accepted and some that only      *)
(* Scenario.Validate keeps away from the generator.                        *)
(***************************************************************************)
EXTENDS ChurnGraphs

R(lo, hi) == [lo |-> lo, hi |-> hi]

\* Neutron: topology with links and floating IPs, then groups and rules.
NeutronBase ==
  [service |-> "neutron", scopes |-> 0, pools |-> 0, networks |-> 1, routers |-> 1,
   groups |-> 0, links |-> 0, fips |-> 0, subnets |-> R(0, 2), ports |-> R(0, 2),
   rules |-> R(0, 2), portGroups |-> R(0, 1), poolPct |-> 0, v6Pct |-> 50,
   attachPct |-> 50, gatewayPct |-> 50, fipPct |-> 50, external |-> TRUE]
NeutronScenarios ==
  {[NeutronBase EXCEPT !.fips = f, !.external = x, !.fipPct = p] :
     f \in 1..2, x \in BOOLEAN, p \in {0, 50, 100}}
  \cup {[NeutronBase EXCEPT !.networks = 2, !.subnets = R(1, 1), !.ports = R(1, 1), !.routers = r,
                            !.links = 1, !.fips = 1, !.gatewayPct = 100] : r \in 1..2}
  \cup {[NeutronBase EXCEPT !.networks = 2, !.routers = 0, !.groups = 2, !.ports = R(1, 1),
                            !.subnets = R(1, 1), !.v6Pct = 0],
        [NeutronBase EXCEPT !.pools = 2, !.poolPct = 50, !.scopes = 1, !.subnets = R(1, 2)],
        [NeutronBase EXCEPT !.pools = 0, !.poolPct = 50],
        [NeutronBase EXCEPT !.pools = 3],
        [NeutronBase EXCEPT !.subnets = R(2, 3), !.v6Pct = 0, !.routers = 0, !.ports = R(0, 0)],
        [NeutronBase EXCEPT !.attachPct = 100, !.v6Pct = 100, !.fips = 1]}

CinderScenarios ==
  [service : {"cinder"}, volumes : 0..2, size : {R(0, 1), R(1, 2)}, growth : {R(0, 1), R(1, 1)},
   snapshots : {R(0, 2), R(1, 1)}, resizePct : {0, 50}]

NovaBase ==
  [service |-> "nova", persona |-> "none", servers |-> 2, networks |-> 2, perServer |-> R(1, 2),
   volumes |-> R(0, 1), ports |-> R(0, 1), size |-> R(1, 1), root |-> R(1, 1), pct |-> NoDraws,
   volumeDetach |-> 0, portDetach |-> 0, resizeFlavor |-> FALSE, cold |-> FALSE]
NovaScenarios ==
  {[NovaBase EXCEPT !.perServer = r, !.networks = n, !.servers = k] :
     r \in {R(0, 1), R(1, 1), R(1, 2)}, n \in 0..2, k \in 0..2}
  \cup {[NovaBase EXCEPT !.servers = 1, !.pct[f] = 50, !.pct["stop"] = 50, !.resizeFlavor = b,
                         !.root = R(r, 1), !.volumeDetach = 50, !.portDetach = 50] :
          f \in NovaFlags, b \in BOOLEAN, r \in 0..1}
  \cup {[NovaBase EXCEPT !.volumes = R(0, 2), !.size = R(s, 1), !.servers = 1] : s \in 0..1}

GlanceScenarios ==
  {[service |-> "glance", images |-> n, size |-> R(lo, 1),
    pct |-> [f \in ImageFlags |-> IF f \in F THEN 50 ELSE 0]] :
     n \in 0..2, lo \in 0..1,
     F \in {{}, {"shared", "accept"}, {"shared", "accept", "remove"}, {"accept"},
            {"metadata", "community"}, {"public", "deactivate", "delete"}}}

BarbicanScenarios ==
  [service : {"barbican"}, secrets : 0..2, orders : 0..1, containers : 0..2,
   size : {R(0, 1), R(1, 1)}, perContainer : {R(0, 0), R(0, 2), R(2, 3)}, retrievePct : {0, 50}]

OctaviaScenarios ==
  [service : {"octavia"}, networks : 0..3, lbs : 0..2, listeners : 0..3, members : 0..5,
   monitors : 0..2, lport : {R(1, 1), R(1, 2), R(2, 3)}, mport : {R(1, 1)}]

KeystoneBase ==
  [service |-> "keystone", domains |-> 2, roles |-> 1, projects |-> 2, users |-> 1,
   perDomain |-> R(1, 1), grants |-> R(0, 2), domainPct |-> 50, tokenPct |-> 50, fans |-> 0,
   fanGrants |-> R(1, 2), implied |-> {}]
KeystoneScenarios ==
  {[KeystoneBase EXCEPT !.domains = d, !.roles = r, !.projects = p, !.users = u] :
     d \in 0..2, r \in 0..2, p \in 0..2, u \in 0..1}
  \cup {[KeystoneBase EXCEPT !.fans = f, !.fanGrants = g, !.projects = p, !.users = u] :
          f \in 1..2, g \in {R(0, 1), R(1, 2)}, p \in 0..2, u \in 0..1}
  \cup {[KeystoneBase EXCEPT !.users = 2, !.grants = R(1, 1), !.domainPct = q, !.tokenPct = t] :
          q \in {0, 100}, t \in {0, 100}}
  \cup {[KeystoneBase EXCEPT !.projects = 3, !.perDomain = b, !.users = 0] :
          b \in {R(0, 1), R(1, 2), R(2, 3)}}
  \cup {[KeystoneBase EXCEPT !.users = 0, !.roles = r, !.implied = i] :
          r \in 1..2, i \in {{<<1, 2>>}, {<<1, 2>>, <<2, 1>>}, {<<1, 1>>}}}

MixScenarios ==
  [service : {"mix"}, servers : 0..3, shares : [1..3 -> 0..2], networks : {1}, clusters : {0, 1, 2},
   volumes : {R(0, 1)}, ports : {R(0, 1)}, size : {R(1, 1)}, resizeFlavor : BOOLEAN,
   cold : BOOLEAN]

MCScenarios ==
  NeutronScenarios \cup CinderScenarios \cup NovaScenarios \cup GlanceScenarios
    \cup BarbicanScenarios \cup OctaviaScenarios \cup KeystoneScenarios \cup MixScenarios

MCBlocks == [pool |-> 2, v4 |-> 2, v6 |-> 2, link |-> 1]

\* The topology the routed floating IP is about.
MCRouted == {[NeutronBase EXCEPT !.fips = 1, !.subnets = R(1, 1), !.ports = R(1, 1)]}

=============================================================================
