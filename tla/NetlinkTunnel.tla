--------------------------- MODULE NetlinkTunnel ---------------------------
(***************************************************************************)
(* One session of the netlink backend, request by request                  *)
(* (src/shared/awg/awg-connection-manager-netlink.c): the link, its        *)
(* addresses, and the routes of the families NetworkManager does not       *)
(* manage, in a routing table that others use too; then what set_config    *)
(* (src/src/nm-amneziawg-service.c) announces, and the way back.           *)
(*                                                                         *)
(* A position <<p, i>> is the i-th AllowedIP of the p-th peer.  Routes are *)
(* those of the main table with the metric manage_route gets by default:   *)
(* only they collide.                                                      *)
(***************************************************************************)
EXTENDS Integers, FiniteSets, Sequences

CONSTANTS
    Devices,    \* the devices that connect, all of them valid
    Nets,       \* prefixes
    Foreign,    \* which prefixes may be routed through other interfaces
    Faults,     \* which sets of failures the environment may be prone to
    MaxOthers   \* bound: changes by other processes

Families   == {"v4", "v6"}
NoNet      == "none"
\* exact: no bit of the address is set beyond the prefix.
AllowedIp  == [family : Families, net : Nets, exact : BOOLEAN]
PeerConf   == [endpoint : {"literal", "bracketed", "name"}, allowed_ips : Seq(AllowedIp)]
DeviceConf == [peers : Seq(PeerConf), address : [Families -> Nets \cup {NoNet}],
               mtu : BOOLEAN, awg31 : BOOLEAN]
Route      == [dst : Families \X Nets, oif : {"tun", "other"}, proto : {"static", "kernel"}]
FaultNames == {"dns", "add", "set", "local", "refuse", "route", "delete"}

ASSUME DevicesAssumption ==
    /\ Devices \subseteq DeviceConf
    /\ \A d \in Devices : Len(d.peers) > 0
    /\ NoNet \notin Nets
    /\ Foreign \subseteq SUBSET (Families \X Nets)
    /\ Faults \subseteq SUBSET FaultNames
    /\ MaxOthers \in Nat

VARIABLES
    device, auto,     \* the families NetworkManager manages
    version,          \* of the kernel module, as far as it can be read
    faults,           \* what may fail in this session
    link, up,         \* the link of the profile's name
    addresses,        \* the families the link has an address of
    table,            \* the routing table
    others,           \* how often others changed the link or the table
    pc, todo,         \* AllowedIPs the loop over the routes has yet to visit
    endpoints,        \* peers whose endpoint was resolved, and told the kernel
    refused,          \* unacknowledged requests the kernel refused
    failed,           \* a step of the teardown failed
    announced, reply

profile == <<device, auto, version, faults>>
kernel  == <<link, up, addresses, table>>
call    == <<endpoints, refused, failed, announced, reply>>
vars    == <<profile, kernel, others, pc, todo, call>>

NoConfig == [gateway |-> "none", routes |-> {}]

TypeOK ==
    /\ device \in Devices /\ auto \subseteq Families
    /\ version \in {"new", "other"} /\ faults \in Faults
    /\ link \in {"none", "ours", "foreign"} /\ up \in BOOLEAN
    /\ addresses \subseteq Families /\ table \subseteq Route
    /\ others \in 0 .. MaxOthers
    /\ pc \in {"check", "add", "resolve", "set", "address4", "address6", "up", "mtu", "cleanup",
               "routes", "connected", "delete", "del_device", "end"}
    /\ todo \subseteq Nat \X Nat
    /\ endpoints \subseteq DOMAIN device.peers
    /\ refused \subseteq {"v4", "v6", "up"} /\ failed \in BOOLEAN
    /\ announced \in [gateway : {"none", "endpoint"}, routes : SUBSET (Nat \X Nat)]
    /\ reply \in {"none", "failure", "config", "disconnected", "error"}

Through(dst) == [dst |-> dst, oif |-> "other", proto |-> "static"]

Init ==
    /\ device \in Devices /\ auto \in SUBSET Families
    /\ version \in {"new", "other"} /\ faults \in Faults
    /\ link \in {"none", "foreign"} /\ up = FALSE /\ addresses = {}
    /\ \E taken \in Foreign : table = {Through(dst) : dst \in taken}
    /\ others = 0 /\ pc = "check" /\ todo = {} /\ endpoints = {} /\ refused = {}
    /\ failed = FALSE /\ announced = NoConfig /\ reply = "none"

-----------------------------------------------------------------------------
(* AllowedIPs and routes.                                                  *)

Positions == UNION {{p} \X DOMAIN device.peers[p].allowed_ips : p \in DOMAIN device.peers}

Ip(x) == device.peers[x[1]].allowed_ips[x[2]]

RoutedIn(families) == {x \in Positions : Ip(x).family \in families}

\* IPv4 comes first, then the order of the peers and of their lists.
NotAfter(x, y) ==
    \/ Ip(x).family = "v4" /\ Ip(y).family = "v6"
    \/ /\ Ip(x).family = Ip(y).family
       /\ x[1] < y[1] \/ (x[1] = y[1] /\ x[2] <= y[2])

Visits(x) == x \in todo /\ \A y \in todo : NotAfter(x, y)

RouteOf(x) == [dst |-> <<Ip(x).family, Ip(x).net>>, oif |-> "tun", proto |-> "static"]

\* The kernel takes no IPv4 destination with bits beyond its prefix.
Routable(x) == Ip(x).family = "v4" => Ip(x).exact

\* RTM_NEWROUTE with NLM_F_CREATE and NLM_F_EXCL.
Addable(x) ==
    /\ link = "ours" /\ up /\ Routable(x)
    /\ \A r \in table : r.dst # RouteOf(x).dst

\* RTM_DELROUTE: the destination, the interface and RTPROT_STATIC must match.
Deletable(x) == link = "ours" /\ Routable(x) /\ RouteOf(x) \in table

\* What is left of the table when the link goes down or away.
WithoutLink == {r \in table : r.oif = "other"}

LinkRemoved == link' = "none" /\ up' = FALSE /\ addresses' = {} /\ table' = WithoutLink

-----------------------------------------------------------------------------
(* awg_connection_manager_netlink_connect.                                 *)

Failure == pc' = "end" /\ reply' = "failure" /\ UNCHANGED <<endpoints, refused, failed, announced>>

\* The 3.1 parameters need a module that is known to be 3.0 or newer.
check_awg31_support ==
    /\ pc = "check"
    /\ \/ (device.awg31 => version = "new") /\ pc' = "add" /\ UNCHANGED call
       \/ device.awg31 /\ version # "new" /\ Failure
    /\ UNCHANGED <<profile, kernel, others, todo>>

\* NLM_F_EXCL: a link of that name is never taken over.
wg_add_device ==
    /\ pc = "add"
    /\ \/ link = "none" /\ link' = "ours" /\ pc' = "resolve" /\ UNCHANGED call
       \/ (link # "none" \/ "add" \in faults) /\ Failure /\ UNCHANGED link
    /\ UNCHANGED <<profile, up, addresses, table, others, todo>>

\* getaddrinfo, on everything before the last colon: it takes no brackets.  A
\* peer whose endpoint is not resolved goes to the kernel without one.
resolve_endpoints ==
    /\ pc = "resolve" /\ pc' = "set"
    /\ LET Named(kind) == {p \in DOMAIN device.peers : device.peers[p].endpoint = kind} IN
       \E found \in SUBSET Named("name") :
          /\ "dns" \notin faults => found = Named("name")
          /\ endpoints' = Named("literal") \cup found
    /\ UNCHANGED <<profile, kernel, others, todo, refused, failed, announced, reply>>

\* The module SetDevice has the call itself.
wg_set_device ==
    /\ pc = "set"
    /\ \/ link = "ours" /\ pc' = "address4"
       \/ (link # "ours" \/ "set" \in faults) /\ pc' = "cleanup"
    /\ UNCHANGED <<profile, kernel, others, todo, call>>

\* RTM_NEWADDR and RTM_SETLINK: sent without NLM_F_ACK, so that only a failure on
\* this side is seen; what the kernel refuses counts as done.
LocalFailure == (link # "ours" \/ "local" \in faults) /\ pc' = "cleanup" /\ UNCHANGED <<kernel, refused>>

Refused(request) ==
    /\ link = "ours" /\ "refuse" \in faults
    /\ refused' = refused \cup {request} /\ UNCHANGED kernel

\* Wrong variant: an address that cannot be added is passed over.
add_ip_address_FallThrough(family, here, next) ==
    /\ pc = here
    /\ \/ device.address[family] = NoNet /\ pc' = next /\ UNCHANGED <<kernel, refused>>
       \/ /\ device.address[family] # NoNet
          /\ \/ link = "ours" /\ addresses' = addresses \cup {family} /\ pc' = next
                /\ UNCHANGED <<link, up, table, refused>>
             \/ Refused(family) /\ pc' = next
             \/ (link # "ours" \/ "local" \in faults) /\ pc' = next /\ UNCHANGED <<kernel, refused>>
    /\ UNCHANGED <<profile, others, todo, endpoints, failed, announced, reply>>

add_ip_address(family, here, next) ==
    /\ pc = here
    /\ \/ device.address[family] = NoNet /\ pc' = next /\ UNCHANGED <<kernel, refused>>
       \/ /\ device.address[family] # NoNet
          /\ \/ link = "ours" /\ addresses' = addresses \cup {family} /\ pc' = next
                /\ UNCHANGED <<link, up, table, refused>>
             \/ Refused(family) /\ pc' = next
             \/ LocalFailure
    /\ UNCHANGED <<profile, others, todo, endpoints, failed, announced, reply>>

\* The kernel routes the prefix of an IPv4 address itself, with the same metric;
\* that of an IPv6 address has another one.
Connected ==
    IF "v4" \in addresses
    THEN {[dst |-> <<"v4", device.address["v4"]>>, oif |-> "tun", proto |-> "kernel"]}
    ELSE {}

set_interface_up ==
    /\ pc = "up"
    /\ \/ /\ link = "ours" /\ up' = TRUE /\ table' = table \cup Connected
          /\ pc' = "mtu" /\ UNCHANGED <<link, addresses, refused>>
       \/ Refused("up") /\ pc' = "mtu"
       \/ LocalFailure
    /\ UNCHANGED <<profile, others, todo, endpoints, failed, announced, reply>>

\* The last request, and the worker's routes for the families that are manual.
set_interface_mtu ==
    /\ pc = "mtu"
    /\ \/ (device.mtu => link = "ours") /\ pc' = "routes" /\ UNCHANGED <<kernel, refused>>
          /\ todo' = RoutedIn(Families \ auto)
       \/ device.mtu /\ LocalFailure /\ UNCHANGED todo
    /\ UNCHANGED <<profile, others, endpoints, failed, announced, reply>>

\* Wrong variant: the error path does not delete the link.
cleanup_KeepLink ==
    /\ pc = "cleanup" /\ Failure
    /\ UNCHANGED <<profile, kernel, others, todo>>

\* The label "cleanup": the result of wg_del_device is not looked at.
cleanup ==
    /\ pc = "cleanup" /\ Failure
    /\ \/ link = "ours" /\ LinkRemoved
       \/ (link # "ours" \/ "delete" \in faults) /\ UNCHANGED kernel
    /\ UNCHANGED <<profile, others, todo>>

-----------------------------------------------------------------------------
(* Routes, one request at a time.                                          *)

\* Wrong variant: the request replaces a route of the same prefix.
add_route_Replace ==
    /\ pc = "routes"
    /\ \E x \in todo :
          /\ Visits(x) /\ todo' = todo \ {x}
          /\ \/ /\ link = "ours" /\ up /\ Routable(x)
                /\ table' = {r \in table : r.dst # RouteOf(x).dst} \cup {RouteOf(x)}
             \/ UNCHANGED table
    /\ UNCHANGED <<profile, link, up, addresses, others, pc, call>>

\* A route that cannot be added is a warning; the loop goes on.
add_route ==
    /\ pc = "routes"
    /\ \E x \in todo :
          /\ Visits(x) /\ todo' = todo \ {x}
          /\ \/ Addable(x) /\ table' = table \cup {RouteOf(x)}
             \/ (~Addable(x) \/ "route" \in faults) /\ UNCHANGED table
    /\ UNCHANGED <<profile, link, up, addresses, others, pc, call>>

\* Wrong variant: the first route that cannot be deleted ends the loop.
delete_route_StopAtError ==
    /\ pc = "delete"
    /\ \E x \in todo :
          /\ Visits(x)
          /\ \/ Deletable(x) /\ table' = table \ {RouteOf(x)} /\ todo' = todo \ {x} /\ UNCHANGED failed
             \/ /\ ~Deletable(x) \/ "route" \in faults
                /\ todo' = {} /\ failed' = TRUE /\ UNCHANGED table
    /\ UNCHANGED <<profile, link, up, addresses, others, pc, endpoints, refused, announced, reply>>

\* A route that cannot be deleted makes the teardown a failure; it goes on.
delete_route ==
    /\ pc = "delete"
    /\ \E x \in todo :
          /\ Visits(x) /\ todo' = todo \ {x}
          /\ \/ Deletable(x) /\ table' = table \ {RouteOf(x)} /\ UNCHANGED failed
             \/ (~Deletable(x) \/ "route" \in faults) /\ failed' = TRUE /\ UNCHANGED table
    /\ UNCHANGED <<profile, link, up, addresses, others, pc, endpoints, refused, announced, reply>>

-----------------------------------------------------------------------------
(* The service.                                                            *)

\* The address of the first peer's endpoint: the one the backend resolved, or
\* else the host, without its brackets, as a literal or resolved once more.
gateway(g) ==
    IF 1 \in endpoints \/ device.peers[1].endpoint \in {"literal", "bracketed"} THEN g = "endpoint"
    ELSE g = "endpoint" \/ (g = "none" /\ "dns" \in faults)

\* The first peer's AllowedIPs, where NetworkManager manages the family and the
\* device has an address of it.
ConfigRoutes ==
    {x \in RoutedIn(auto) : x[1] = 1 /\ device.address[Ip(x).family] # NoNet}

\* Wrong variant: the teardown deletes the routes of all families.
Teardown_AllFamilies == pc' = "delete" /\ todo' = RoutedIn(Families)

Teardown == pc' = "delete" /\ todo' = RoutedIn(Families \ auto)

HasAddress == \E f \in Families : device.address[f] # NoNet

\* connect_task_completed, with set_config.
task_connected ==
    /\ pc = "routes" /\ todo = {} /\ HasAddress
    /\ \E g \in {"none", "endpoint"} :
          gateway(g) /\ announced' = [gateway |-> g, routes |-> ConfigRoutes]
    /\ pc' = "connected" /\ reply' = "config"
    /\ UNCHANGED <<profile, kernel, others, todo, endpoints, refused, failed>>

task_unconfigurable ==
    /\ pc = "routes" /\ todo = {} /\ ~HasAddress
    /\ Teardown /\ reply' = "failure"
    /\ UNCHANGED <<profile, kernel, others, endpoints, refused, failed, announced>>

\* Somebody disconnected meanwhile; nobody is answered.
task_abandoned ==
    /\ pc = "routes" /\ todo = {}
    /\ Teardown
    /\ UNCHANGED <<profile, kernel, others, call>>

wg_disconnect ==
    /\ pc = "connected"
    /\ Teardown
    /\ UNCHANGED <<profile, kernel, others, call>>

\* set_interface_up(ifname, FALSE), not looked at.
set_interface_down ==
    /\ pc = "delete" /\ todo = {} /\ pc' = "del_device"
    /\ \/ /\ link = "ours" /\ up' = FALSE /\ table' = WithoutLink
          /\ UNCHANGED <<link, addresses>>
       \/ (link # "ours" \/ faults \cap {"local", "refuse"} # {}) /\ UNCHANGED kernel
    /\ UNCHANGED <<profile, others, todo, call>>

\* The answer of a Disconnect; nobody waits for that of another teardown.
Answer(fault) ==
    reply' = IF reply # "config" THEN reply
             ELSE IF failed \/ fault THEN "error" ELSE "disconnected"

wg_del_device ==
    /\ pc = "del_device" /\ pc' = "end"
    /\ \/ link = "ours" /\ LinkRemoved /\ Answer(FALSE)
       \/ (link # "ours" \/ "delete" \in faults) /\ UNCHANGED kernel /\ Answer(TRUE)
    /\ UNCHANGED <<profile, others, todo, endpoints, refused, failed, announced>>

-----------------------------------------------------------------------------
(* Other processes.                                                        *)

Others == pc # "end" /\ others < MaxOthers /\ others' = others + 1 /\ UNCHANGED <<profile, pc, todo, call>>

others_add_route ==
    /\ Others
    /\ \E dst \in Families \X Nets :
          /\ \A r \in table : r.dst # dst
          /\ table' = table \cup {Through(dst)}
    /\ UNCHANGED <<link, up, addresses>>

others_delete_route ==
    /\ Others
    /\ \E r \in table : table' = table \ {r}
    /\ UNCHANGED <<link, up, addresses>>

others_delete_link == Others /\ link = "ours" /\ LinkRemoved

Next ==
    \/ check_awg31_support \/ wg_add_device \/ resolve_endpoints \/ wg_set_device
    \/ add_ip_address("v4", "address4", "address6") \/ add_ip_address("v6", "address6", "up")
    \/ set_interface_up \/ set_interface_mtu \/ cleanup
    \/ add_route \/ delete_route
    \/ task_connected \/ task_unconfigurable \/ task_abandoned
    \/ wg_disconnect \/ set_interface_down \/ wg_del_device
    \/ others_add_route \/ others_delete_route \/ others_delete_link

Spec == Init /\ [][Next]_vars

-----------------------------------------------------------------------------
(* Properties.                                                             *)

\* Neither a session nor its end takes a route away that leads through another
\* interface, whatever the AllowedIPs are (NLM_F_EXCL, RTA_OIF).
ForeignRoutesStay ==
    [][others' = others => \A r \in table : r.oif = "other" => r \in table']_vars

\* A session that ends leaves no route of its own in the table, even if its link
\* cannot be taken down or deleted: each route is deleted by itself, and one that
\* fails does not keep the others (CHANGELOG.md:26).
RoutesGoneWithSession ==
    pc = "end" /\ "route" \notin faults =>
        \A r \in table : ~(r.oif = "tun" /\ r.proto = "static")

\* Why an AllowedIP cannot get a route in an environment that does not change:
\* bits beyond the prefix, the prefix twice in the lists, a route of another
\* interface, the prefix of the own address.
Obstructed(x) ==
    \/ ~Routable(x)
    \/ \E y \in Positions : y # x /\ NotAfter(y, x) /\ RouteOf(y) = RouteOf(x) /\ Routable(y)
    \/ Through(RouteOf(x).dst) \in table
    \/ Ip(x).family = "v4" /\ device.address["v4"] = Ip(x).net

\* Where nothing fails and nobody interferes, a Disconnect is answered with an
\* error exactly if some AllowedIP had not got its route when the session began:
\* the link is gone all the same (connection-manager-netlink.c:532).
DisconnectErrorHasCause ==
    (pc = "end" /\ reply \in {"disconnected", "error"} /\ others = 0 /\ faults \subseteq {"dns"}) =>
        /\ link = "none"
        /\ reply = "error" <=> \E x \in RoutedIn(Families \ auto) : Obstructed(x)

\* A tunnel that is announced has what the profile asks for: addresses and the
\* link's state unless the kernel refused them unseen, and every AllowedIP of a
\* manual family that is not obstructed has a route; nothing else has one, and
\* what NetworkManager is told to route is not routed here as well.
UpMeansComplete ==
    (pc = "connected" /\ others = 0) =>
        /\ link = "ours"
        /\ \A f \in Families : device.address[f] # NoNet => f \in addresses \cup refused
        /\ up \/ "up" \in refused
        /\ LET installed == {x \in Positions : RouteOf(x) \in table} IN
           /\ installed \subseteq RoutedIn(Families \ auto)
           /\ (up /\ "route" \notin faults) =>
                 \A x \in RoutedIn(Families \ auto) : x \in installed \/ Obstructed(x)

\* The kernel knows the endpoint of every peer, bracketed or not, of which a
\* gateway could be announced (CHANGELOG.md:26).
EndpointsReachKernel ==
    (pc = "connected" /\ "dns" \notin faults) => endpoints = DOMAIN device.peers

-----------------------------------------------------------------------------
(* The backend, as the service sees it.                                    *)

BackendPhase ==
    CASE pc \in {"check", "add"} -> "connecting"
      [] pc \in {"resolve", "set", "address4", "address6", "up", "mtu", "cleanup"} -> "configuring"
      [] pc = "routes" -> "connected"
      [] pc = "connected" -> "up"
      [] pc \in {"delete", "del_device"} -> "releasing"
      [] OTHER -> "over"

Own(r) == r.oif = "tun" /\ r.proto = "static"

Backend == INSTANCE TunnelBackend
    WITH phase <- BackendPhase, link <- link = "ours", routed <- \E r \in table : Own(r),
         answer <- reply, deletable <- "delete" \notin faults

\* The session is one that TunnelBackend describes: a connect that fails leaves no
\* link behind unless the kernel keeps it, routes are only added between a
\* completed connect and its announcement, and a Disconnect that reports success
\* has left neither link nor routes (cleanup_connection_manager relies on it).
ImplementsBackend == Backend!Spec

-----------------------------------------------------------------------------
(* The inductive invariant.                                                *)

Manual == RoutedIn(Families \ auto)

RoutesPhase == {"routes", "connected", "delete", "del_device", "end"}

\* Every address is one of the device's, every route of the session one of an
\* AllowedIP, and while they are deleted one of those still to be visited.
RouteInv ==
    /\ \A f \in addresses : device.address[f] # NoNet
    /\ todo \subseteq Manual
    /\ link # "ours" => \A r \in table : r.oif = "other"
    /\ pc \notin RoutesPhase => \A r \in table : ~Own(r)
    /\ \A r \in table : Own(r) => \E x \in Manual : RouteOf(x) = r /\ Routable(x)
    /\ pc = "delete" /\ "route" \notin faults =>
          \A r \in table : Own(r) => \E x \in todo : RouteOf(x) = r /\ Routable(x)
    /\ pc \in {"del_device", "end"} /\ "route" \notin faults => \A r \in table : ~Own(r)

\* Where nobody interferes: how far the configuration has come.
LinkInv ==
    /\ pc \in {"check", "add", "resolve", "set", "address4", "address6", "up"} => ~up
    /\ pc \in {"resolve", "set", "address4", "address6", "up", "mtu", "routes", "connected", "delete"}
          => link = "ours"
    /\ pc \in {"address6", "up", "mtu", "routes", "connected"} /\ device.address["v4"] # NoNet
          => "v4" \in addresses \cup refused
    /\ pc \in {"up", "mtu", "routes", "connected"} /\ device.address["v6"] # NoNet
          => "v6" \in addresses \cup refused
    /\ pc \in {"mtu", "routes", "connected"} => up \/ "up" \in refused
    /\ refused # {} => "refuse" \in faults
    /\ pc = "connected" => todo = {}

\* The own prefix is there as soon as the link is up, and every route of the table
\* is accounted for; what has been visited has its route or cannot have it.
OwnPrefix == [dst |-> <<"v4", device.address["v4"]>>, oif |-> "tun", proto |-> "kernel"]

TableInv ==
    /\ \A r \in table : Own(r) \/ r = OwnPrefix \/ r = Through(r.dst)
    /\ pc \in {"mtu", "routes", "connected"} /\ up /\ "v4" \in addresses => OwnPrefix \in table
    /\ \A r \in table : Own(r) => Through(r.dst) \notin table /\ (OwnPrefix \in table => r.dst # OwnPrefix.dst)
    /\ pc \in {"routes", "connected"} /\ up /\ "route" \notin faults =>
          \A x \in Manual \ todo : RouteOf(x) \in table \/ Obstructed(x)

\* The route of an obstructed AllowedIP is missing, or goes with another's.
Unroutable(x) ==
    \/ ~Routable(x) \/ RouteOf(x) \notin table
    \/ \E y \in todo : y # x /\ NotAfter(y, x) /\ RouteOf(y) = RouteOf(x) /\ Routable(y)

\* What the teardown is going to find, and whether it has found it.
Found == \A x \in todo : IF Obstructed(x) THEN Unroutable(x) ELSE RouteOf(x) \in table
Counted == failed <=> \E x \in Manual \ todo : Obstructed(x)

\* Where nothing fails either: the answer is an error if an AllowedIP is obstructed.
TeardownInv ==
    /\ pc \notin {"connected", "delete", "del_device", "end"} => reply = "none" /\ ~failed
    /\ pc = "connected" => ~failed
    /\ pc = "delete" /\ reply = "config" => Found /\ Counted
    /\ pc = "del_device" => link = "ours"
    /\ pc = "del_device" /\ reply = "config" => (failed <=> \E x \in Manual : Obstructed(x))
    /\ reply \in {"disconnected", "error"} =>
          pc = "end" /\ link = "none" /\ (reply = "error" <=> \E x \in Manual : Obstructed(x))

IInv ==
    /\ TypeOK /\ RouteInv
    /\ others = 0 => LinkInv /\ TableInv
    /\ others = 0 /\ faults \subseteq {"dns"} => TeardownInv
=============================================================================
