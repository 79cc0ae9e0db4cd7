--------------------------- MODULE ClientTables ---------------------------
(***************************************************************************)
(* What each service's client does for each kind of object, as recipes for *)
(* Clients.  A create recipe says                                          *)
(*   stamp   when the object gets the run's identity: in the POST ("post"),*)
(*           by a tag call after it ("tag", "try" when its failure is      *)
(*           tolerated), by a call of the caller ("later"), or never       *)
(*           ("none");                                                     *)
(*   adopt   what a lost answer leads to: nothing ("never"), a lookup by   *)
(*           the token of the request ("token") or by name and run tag     *)
(*           ("name"), or, for an attachment, a repeated request whose     *)
(*           refusal is read as success ("fold");                          *)
(*   once    whether the service refuses a second object beside the first. *)
(***************************************************************************)
EXTENDS Naturals

Tagged   == [stamp |-> "tag", adopt |-> "never", once |-> FALSE]
InPost   == [stamp |-> "post", adopt |-> "never", once |-> FALSE]
Child    == [stamp |-> "none", adopt |-> "never", once |-> TRUE]

(***************************************************************************)
(* Neutron.                                                                *)
(***************************************************************************)
neutronCreateTagged == Tagged
tagOptional(recipe) == [recipe EXCEPT !.stamp = "try"]

NeutronCreateNetwork           == neutronCreateTagged
NeutronCreateSubnet            == neutronCreateTagged
NeutronCreateSubnetPool        == neutronCreateTagged
NeutronCreateRouter            == neutronCreateTagged
NeutronCreatePort              == neutronCreateTagged
NeutronCreateSecurityGroup     == neutronCreateTagged
NeutronCreateAddressScope      == tagOptional(neutronCreateTagged)
NeutronCreateFloatingIP        == neutronCreateTagged
NeutronCreateSecurityGroupRule == Child
NeutronCreateRouterInterface   == Child

(***************************************************************************)
(* Nova, with the networks, ports and volumes beside its servers.          *)
(***************************************************************************)
novaCreateTagged      == Tagged
NovaCreateNetwork     == novaCreateTagged
NovaCreateSubnet      == novaCreateTagged
NovaCreatePort        == novaCreateTagged
NovaCreateServer      == [InPost EXCEPT !.adopt = "token"]
NovaCreateVolume      == [InPost EXCEPT !.adopt = "token"]
NovaCreateServerGroup == InPost
NovaAttachPort        == [Child EXCEPT !.adopt = "fold"]
NovaAttachVolume      == [Child EXCEPT !.adopt = "fold"]

(***************************************************************************)
(* Octavia.  A second load balancer of a name is another amphora; a second *)
(* listener, pool, member or monitor is refused with 409.                  *)
(***************************************************************************)
createAdopting == [InPost EXCEPT !.adopt = "name"]

octaviaCreateTagged        == Tagged
OctaviaCreateNetwork       == octaviaCreateTagged
OctaviaCreateSubnet        == octaviaCreateTagged
OctaviaCreateLoadBalancer  == createAdopting
OctaviaCreateListener      == [createAdopting EXCEPT !.once = TRUE]
OctaviaCreatePool          == [createAdopting EXCEPT !.once = TRUE]
OctaviaCreateMember        == [createAdopting EXCEPT !.once = TRUE]
OctaviaCreateHealthMonitor == [createAdopting EXCEPT !.once = TRUE]

(***************************************************************************)
(* Cinder, Glance, Barbican and Keystone stamp in the POST: metadata, tags *)
(* or the name.  A Barbican secret is stamped by a call of its own.        *)
(***************************************************************************)
CinderCreateVolume      == InPost
CinderCreateSnapshot    == InPost
GlanceCreateImage       == InPost
BarbicanStoreSecret     == [InPost EXCEPT !.stamp = "later"]
BarbicanCreateOrder     == InPost
BarbicanCreateContainer == InPost
KeystoneCreateDomain      == [InPost EXCEPT !.once = TRUE]
KeystoneCreateProject     == [InPost EXCEPT !.once = TRUE]
KeystoneCreateUser        == [InPost EXCEPT !.once = TRUE]
KeystoneCreateRole        == [InPost EXCEPT !.once = TRUE]
KeystoneCreateImpliedRole == Child
KeystoneAssignRole        == Child

Creates ==
  [neutronNetwork |-> NeutronCreateNetwork, neutronSubnet |-> NeutronCreateSubnet,
   subnetPool |-> NeutronCreateSubnetPool, router |-> NeutronCreateRouter,
   neutronPort |-> NeutronCreatePort, securityGroup |-> NeutronCreateSecurityGroup,
   addressScope |-> NeutronCreateAddressScope, floatingIP |-> NeutronCreateFloatingIP,
   securityRule |-> NeutronCreateSecurityGroupRule,
   routerInterface |-> NeutronCreateRouterInterface,
   novaNetwork |-> NovaCreateNetwork, novaSubnet |-> NovaCreateSubnet,
   novaPort |-> NovaCreatePort, server |-> NovaCreateServer,
   novaVolume |-> NovaCreateVolume, serverGroup |-> NovaCreateServerGroup,
   portAttachment |-> NovaAttachPort, volumeAttachment |-> NovaAttachVolume,
   vipNetwork |-> OctaviaCreateNetwork, vipSubnet |-> OctaviaCreateSubnet,
   loadBalancer |-> OctaviaCreateLoadBalancer, listener |-> OctaviaCreateListener,
   pool |-> OctaviaCreatePool, member |-> OctaviaCreateMember,
   monitor |-> OctaviaCreateHealthMonitor,
   volume |-> CinderCreateVolume, snapshot |-> CinderCreateSnapshot,
   image |-> GlanceCreateImage, secret |-> BarbicanStoreSecret,
   order |-> BarbicanCreateOrder, container |-> BarbicanCreateContainer,
   domain |-> KeystoneCreateDomain, project |-> KeystoneCreateProject,
   user |-> KeystoneCreateUser, role |-> KeystoneCreateRole,
   impliedRole |-> KeystoneCreateImpliedRole, assignment |-> KeystoneAssignRole]

Kinds == DOMAIN Creates

NeutronKinds  == {"neutronNetwork", "neutronSubnet", "subnetPool", "router",
                  "neutronPort", "securityGroup", "addressScope", "floatingIP",
                  "securityRule", "routerInterface"}
NovaKinds     == {"novaNetwork", "novaSubnet", "novaPort", "server",
                  "novaVolume", "serverGroup", "portAttachment",
                  "volumeAttachment"}
OctaviaKinds  == {"vipNetwork", "vipSubnet", "loadBalancer", "listener",
                  "pool", "member", "monitor"}

(***************************************************************************)
(* Readiness.  A wait that ends on "gone" fails at once when the object is *)
(* not there; the others poll on.  A wait that ends on "error" fails on a  *)
(* terminal status.  A kind without a wait is ready when created.          *)
(***************************************************************************)
NeutronWaitForReady(k) ==
  IF k \in {"neutronNetwork", "router", "neutronPort"} THEN {"active"} ELSE {}
NovaWaitForReady(k) ==
  CASE k \in {"server", "novaVolume"}     -> {"active", "gone", "error"}
    [] k \in {"novaNetwork", "novaPort"}  -> {"active", "gone"}
    [] OTHER                              -> {}
OctaviaWaitForReady(k) == IF k = "vipNetwork" THEN {"active", "gone"} ELSE {}
OctaviaWaitForActive   == {"active", "gone", "error"}
CinderWaitForReady     == {"active", "error"}
GlanceWaitForReady     == {"active", "gone", "error"}
BarbicanWaitForOrder   == {"active", "gone", "error"}

ReadyEnds(k) ==
  CASE k \in NeutronKinds               -> NeutronWaitForReady(k)
    [] k \in NovaKinds                  -> NovaWaitForReady(k)
    [] k \in {"vipNetwork", "vipSubnet"} -> OctaviaWaitForReady(k)
    [] k \in OctaviaKinds               -> OctaviaWaitForActive
    [] k \in {"volume", "snapshot"}     -> CinderWaitForReady
    [] k = "image"                      -> GlanceWaitForReady
    [] k = "order"                      -> BarbicanWaitForOrder
    [] OTHER                            -> {}

(***************************************************************************)
(* Deletes.  The states of an object a delete's wait takes for gone; {}    *)
(* when the service deletes before it answers and there is no wait.  A     *)
(* port is in two views of its server: the interface list, which clears    *)
(* first ("half"), and the server's addresses.                             *)
(***************************************************************************)
NovaWaitForGone           == {"gone"}
NovaWaitForVolumeDetached == {"gone"}
WaitForInterfaceGone      == {"half", "gone"}  \* mutant: the addresses are not read
NovaWaitForPortDetached   == {"gone"}
OctaviaWaitForGone        == {"gone"}
OctaviaWaitAfterDelete    == {"gone"}
CinderWaitForGone         == {"gone"}
GlanceWaitForGone         == {"deleting", "gone"}

GoneIn(k) ==
  CASE k \in {"server", "novaVolume", "novaPort", "novaNetwork", "serverGroup"} -> NovaWaitForGone
    [] k = "volumeAttachment"                     -> NovaWaitForVolumeDetached
    [] k = "portAttachment"                       -> NovaWaitForPortDetached
    [] k = "loadBalancer"                         -> OctaviaWaitForGone
    [] k \in {"listener", "pool", "member", "monitor"} -> OctaviaWaitAfterDelete
    [] k \in {"volume", "snapshot"}               -> CinderWaitForGone
    [] k = "image"                                -> GlanceWaitForGone
    [] OTHER                                      -> {}

(***************************************************************************)
(* Discovery.  Whether the listings of the service's cleanup find an       *)
(* object o of kind k that is not in the record.                           *)
(***************************************************************************)
NeutronListByTag(k, o) == k \notin {"addressScope", "securityRule", "routerInterface"} /\ o.stamped
NeutronDeleteNetworkPorts(k)     == k = "neutronPort"
NeutronDetachRouterInterfaces(k) == k = "routerInterface"
NovaListByTag(k, o)    == k \in {"novaNetwork", "novaSubnet", "novaPort"} /\ o.stamped
NovaDeleteNetworkPorts(k)        == k = "novaPort"
NovaListServersByMetadata(k, o)  == k = "server" /\ o.stamped
NovaListVolumesByMetadata(k, o)  == k = "novaVolume" /\ o.stamped
NovaListServerGroupsByName(k, o) == k = "serverGroup" /\ o.stamped
OctaviaListByTag(k, o) == k \in {"vipNetwork", "vipSubnet", "loadBalancer"} /\ o.stamped
OctaviaDeleteCascade(k)          == k \in {"listener", "pool", "member", "monitor"}
CinderListVolumesByMetadata(k, o)   == k = "volume" /\ o.stamped
CinderListSnapshotsByMetadata(k, o) == k = "snapshot" /\ o.stamped
GlanceListImagesByTag(k, o)         == k = "image" /\ o.stamped
BarbicanListSecretsByRun(k, o)      == k = "secret" /\ o.stamped
BarbicanListOrdersByRun(k, o)       == k = "order" /\ o.stamped
BarbicanListContainersByRun(k, o)   == k = "container" /\ o.stamped
KeystoneListDomainsByPrefix(k, o)   == k = "domain" /\ o.stamped
KeystoneListProjectsByTag(k, o)     == k = "project" /\ o.stamped
KeystoneListUsersByPrefix(k, o)     == k = "user" /\ o.stamped
KeystoneListRolesByPrefix(k, o)     == k = "role" /\ o.stamped
KeystoneListAssignmentsForUser(k)   == k = "assignment"
GoesWithParent(k) ==
  k \in {"securityRule", "impliedRole", "portAttachment", "volumeAttachment"}

Findable(k, o) ==
  \/ NeutronListByTag(k, o) \/ NeutronDeleteNetworkPorts(k) \/ NeutronDetachRouterInterfaces(k)
  \/ NovaListByTag(k, o) \/ NovaDeleteNetworkPorts(k) \/ NovaListServersByMetadata(k, o)
  \/ NovaListVolumesByMetadata(k, o) \/ NovaListServerGroupsByName(k, o)
  \/ OctaviaListByTag(k, o) \/ OctaviaDeleteCascade(k)
  \/ CinderListVolumesByMetadata(k, o) \/ CinderListSnapshotsByMetadata(k, o)
  \/ GlanceListImagesByTag(k, o)
  \/ BarbicanListSecretsByRun(k, o) \/ BarbicanListOrdersByRun(k, o) \/ BarbicanListContainersByRun(k, o)
  \/ KeystoneListDomainsByPrefix(k, o) \/ KeystoneListProjectsByTag(k, o)
  \/ KeystoneListUsersByPrefix(k, o) \/ KeystoneListRolesByPrefix(k, o)
  \/ KeystoneListAssignmentsForUser(k)
  \/ GoesWithParent(k)

(***************************************************************************)
(* Errors.  An answer is a status and whether its body speaks of a quota;  *)
(* status 0 is an error without one: a lost connection, a deadline, a      *)
(* cancel.  Two services' clients word their checks differently.           *)
(***************************************************************************)
Lost      == [status |-> 0, quota |-> FALSE]
Conflict  == [status |-> 409, quota |-> FALSE]
OverQuota(code) == [status |-> code, quota |-> TRUE]
Errors == {Lost, Conflict, OverQuota(409), OverQuota(403), OverQuota(400)}
          \cup {[status |-> s, quota |-> FALSE] : s \in {400, 413, 503}}

Transient == {500, 502, 503, 504, 429, 409}
neutronIsQuota(e) == e.status \in {409, 403} /\ e.quota
novaIsQuota(e)    == e.status = 413 \/ (e.status \in {403, 400, 409} /\ e.quota)
octaviaIsQuota(e) == e.status \in {403, 400, 409} /\ e.quota
neutronIsRetryable(e) == ~neutronIsQuota(e) /\ e.status \in Transient
novaIsRetryable(e)    == ~novaIsQuota(e) /\ e.status \in Transient
octaviaIsRetryable(e) == ~octaviaIsQuota(e) /\ e.status \in Transient
IsRetryable(k, e) ==
  CASE k \in NeutronKinds -> neutronIsRetryable(e)
    [] k \in NovaKinds    -> novaIsRetryable(e)
    [] OTHER              -> octaviaIsRetryable(e)

novaMayHaveLanded(e)    == e.status = 0 \/ e.status >= 500
octaviaMayHaveLanded(e) == e.status = 0 \/ e.status >= 500
mayHaveLanded(k, e) ==
  IF k \in NovaKinds THEN novaMayHaveLanded(e) ELSE octaviaMayHaveLanded(e)
=============================================================================
