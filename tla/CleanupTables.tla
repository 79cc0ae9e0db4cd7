---------------------------- MODULE CleanupTables ----------------------------
(***************************************************************************)
(* The cleanup of each service as a script for Cleanup, and by which       *)
(* handles its resources are found.                                        *)
(***************************************************************************)
EXTENDS Sequences

(***************************************************************************)
(* Steps.  The targets of a loop are what was listed, what the record has, *)
(* or both (union); pool steps run through runStage.                       *)
(***************************************************************************)
ListKind(k) == [do |-> "list", kind |-> k]
ListGrants == [do |-> "grants", kind |-> "assignment"]
Loop(k, acts) ==
  [do |-> "each", kind |-> k, acts |-> acts, listed |-> TRUE,
   recorded |-> TRUE, owned |-> FALSE, skipLinked |-> FALSE,
   resend |-> FALSE, pool |-> FALSE]
FromListing(step) == [step EXCEPT !.recorded = FALSE]
FromRecord(step) == [step EXCEPT !.listed = FALSE]
OwnedOnly(step) == [step EXCEPT !.owned = TRUE]
Pooled(step) == [step EXCEPT !.pool = TRUE]
Resending(step) == [step EXCEPT !.resend = TRUE]
WithoutLinked(step) == [step EXCEPT !.skipLinked = TRUE]

Send == <<"send">>
SendAndWait == <<"send", "wait">>

-----------------------------------------------------------------------------
(***************************************************************************)
(* Neutron: everything by tag, address scopes from the record alone.  The  *)
(* routers are listed once, for the detach and for the delete.             *)
(***************************************************************************)
deleteKind(k) == <<ListKind(k), FromListing(Loop(k, Send))>>
NeutronScript ==
  deleteKind("floating_ip")
  \o <<ListKind("router"), FromListing(Loop("router", <<"detach">>))>>
  \o deleteKind("port")
  \o <<ListKind("network"), FromListing(Loop("network", <<"sweep">>)),
       FromListing(Loop("network", Send))>>
  \o deleteKind("subnet")
  \o deleteKind("security_group")
  \o <<FromListing(Loop("router", Send))>>
  \o deleteKind("subnet_pool")
  \o <<FromRecord(Loop("address_scope", Send))>>
NeutronListByTag == {"network", "subnet", "router", "security_group",
                     "subnet_pool", "port", "floating_ip"}

(***************************************************************************)
(* Cinder: a volume with snapshots cannot be deleted, so each snapshot is  *)
(* waited for.                                                             *)
(***************************************************************************)
CinderScript ==
  <<ListKind("snapshot"), Loop("snapshot", SendAndWait),
    ListKind("volume"), Loop("volume", Send)>>

CinderListings == {"snapshot", "volume"}

GlanceScript == <<ListKind("image"), Pooled(Loop("image", SendAndWait))>>
GlanceListings == {"image"}

(***************************************************************************)
(* Nova: each network is swept and deleted before the next one.            *)
(***************************************************************************)
NovaScript ==
  <<ListKind("server"), Loop("server", SendAndWait),
    ListKind("port"), Loop("port", Send),
    ListKind("volume"), Loop("volume", Send),
    ListKind("network"), Loop("network", <<"sweep", "send">>),
    ListKind("subnet"), Loop("subnet", Send)>>
NovaListings == {"server", "port", "volume", "network", "subnet"}

(***************************************************************************)
(* Octavia: a load balancer goes with its children and its VIP port; a     *)
(* delete answered with a conflict is sent again.                          *)
(***************************************************************************)
OctaviaScript ==
  <<ListKind("loadbalancer"),
    Resending(Pooled(Loop("loadbalancer", SendAndWait))),
    ListKind("subnet"), Resending(Loop("subnet", Send)),
    ListKind("network"), Resending(Loop("network", Send))>>
OctaviaListings == {"loadbalancer", "subnet", "network"}

(***************************************************************************)
(* Keystone: implied roles are known to the record only; roles and domains *)
(* without the dizzy- prefix are never touched.                            *)
(***************************************************************************)
KeystoneScript ==
  <<ListKind("user"), ListGrants, Loop("assignment", Send),
    Loop("user", Send),
    ListKind("project"), Loop("project", Send),
    FromRecord(Loop("implied_role", Send)),
    ListKind("role"), OwnedOnly(Loop("role", Send)),
    ListKind("domain"), OwnedOnly(Loop("domain", <<"disable", "send">>))>>
KeystoneListings == {"user", "project", "role", "domain"}

(***************************************************************************)
(* Barbican: the secrets the orders generated, then the orders, then the   *)
(* other secrets.                                                          *)
(***************************************************************************)
LinkedSecrets == [FromListing(Pooled(Loop("secret", Send))) EXCEPT
                    !.kind = "linked"]
BarbicanScript ==
  <<ListKind("container"), Pooled(Loop("container", Send)),
    ListKind("order"), LinkedSecrets, Pooled(Loop("order", Send)),
    ListKind("secret"), WithoutLinked(Pooled(Loop("secret", Send)))>>
BarbicanListings == {"container", "order", "secret"}

-----------------------------------------------------------------------------
AllServices == {"neutron", "cinder", "glance", "nova", "octavia", "keystone",
                "barbican"}
CleanupScript ==
  [neutron |-> NeutronScript, cinder |-> CinderScript,
   glance |-> GlanceScript, nova |-> NovaScript, octavia |-> OctaviaScript,
   keystone |-> KeystoneScript, barbican |-> BarbicanScript]

(***************************************************************************)
(* Kinds discovered by the identity of the run, and kinds the run record   *)
(* is a handle for.                                                        *)
(***************************************************************************)
IdentityKinds ==
  [neutron |-> NeutronListByTag, cinder |-> CinderListings,
   glance |-> GlanceListings, nova |-> NovaListings,
   octavia |-> OctaviaListings, keystone |-> KeystoneListings,
   barbican |-> BarbicanListings]
RecordKinds ==
  [IdentityKinds EXCEPT !.neutron = {"address_scope"},
                        !.keystone = @ \cup {"assignment", "implied_role"}]
EmptyIDRefused == AllServices \ {"neutron"}

(***************************************************************************)
(* Kinds created first and tagged or stamped by a request of their own,    *)
(* and kinds that carry no identity a cleanup searches for.                *)
(***************************************************************************)
TaggedAfterCreate == {"network", "subnet", "router", "security_group",
                      "subnet_pool", "port", "floating_ip", "secret"}
NoIdentity == {"address_scope", "router_interface", "rule", "assignment",
               "implied_role", "listener"}

=============================================================================
