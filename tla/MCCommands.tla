----------------------------- MODULE MCCommands -----------------------------
EXTENDS Commands

MCServices == {"neutron", "cinder", "glance", "nova", "octavia", "keystone",
               "barbican", "mix"}
MCLanesOf == [s \in MCServices |->
                IF s = "mix" THEN <<"keystone", "ci">> ELSE <<s>>]
MCServiceOf == [l \in MCServices \cup {"ci"} |->
                  IF l = "ci" THEN "persona" ELSE l]

(***************************************************************************)
(* One or two resources a lane: a kind that carries the run's identity,    *)
(* and the kinds that do not where the service has one.                    *)
(***************************************************************************)
MCCopies ==
  [neutron |-> [network |-> 1, address_scope |-> 1],
   cinder |-> [snapshot |-> 1], glance |-> [image |-> 1],
   nova |-> [server |-> 1], octavia |-> [network |-> 1],
   keystone |-> [implied_role |-> 1, user |-> 1],
   barbican |-> [secret |-> 1], ci |-> [server_group |-> 1]]

MCMaxRuns == [s \in MCServices |-> IF s \in {"mix", "neutron"} THEN 1 ELSE 2]

MCOptions ==
  [apply |-> {[keep |-> FALSE]},
   chaos |-> {[keep |-> b, unbounded |-> b] : b \in BOOLEAN},
   monitor |-> {[records |-> b, reclaim |-> b,
                 iterations |-> IF b THEN 0 ELSE 1] : b \in BOOLEAN},
   cleanup |-> {[keep |-> FALSE]}]

=============================================================================
