------------------------- MODULE NetlinkTunnelProofs -------------------------
(***************************************************************************)
(* Proofs about NetlinkTunnel, for any device, any routing table and any   *)
(* number of changes by others.                                            *)
(***************************************************************************)
EXTENDS NetlinkTunnel, TLAPS

-----------------------------------------------------------------------------
(* AllowedIPs and their routes.                                            *)

\* What is known of the device.
LEMMA DeviceFacts ==
    ASSUME device \in Devices
    PROVE  /\ device.peers \in Seq(PeerConf) /\ Len(device.peers) \in Nat /\ Len(device.peers) > 0
           /\ DOMAIN device.peers = 1 .. Len(device.peers)
           /\ \A f \in Families : device.address[f] \in Nets \cup {NoNet}
           /\ \A p \in DOMAIN device.peers :
                 /\ device.peers[p].allowed_ips \in Seq(AllowedIp)
                 /\ DOMAIN device.peers[p].allowed_ips \subseteq Nat
<1>1. device \in DeviceConf /\ Len(device.peers) > 0
  BY DevicesAssumption
<1>2. device.peers \in Seq(PeerConf) /\ device.address \in [Families -> Nets \cup {NoNet}]
  BY <1>1 DEF DeviceConf
<1>3. Len(device.peers) \in Nat /\ DOMAIN device.peers = 1 .. Len(device.peers)
  BY <1>2
<1>4. ASSUME NEW p \in DOMAIN device.peers
      PROVE  /\ device.peers[p].allowed_ips \in Seq(AllowedIp)
             /\ DOMAIN device.peers[p].allowed_ips \subseteq Nat
  <2>1. device.peers[p] \in PeerConf
    BY <1>2, <1>3, <1>4
  <2>2. device.peers[p].allowed_ips \in Seq(AllowedIp)
    BY <2>1 DEF PeerConf
  <2>3. QED
    BY <2>2
<1>5. QED
  BY <1>1, <1>2, <1>3, <1>4

\* A position is a pair of numbers and stands for an AllowedIP.
LEMMA PositionFacts ==
    ASSUME device \in Devices, NEW x \in Positions
    PROVE  /\ x \in Nat \X Nat /\ x = <<x[1], x[2]>> /\ x[1] \in Nat /\ x[2] \in Nat
           /\ Ip(x) \in AllowedIp /\ Ip(x).family \in Families /\ Ip(x).net \in Nets
<1>1. PICK p \in DOMAIN device.peers : x \in {p} \X DOMAIN device.peers[p].allowed_ips
  BY DEF Positions
<1>2. x[1] = p /\ x[2] \in DOMAIN device.peers[p].allowed_ips /\ x = <<x[1], x[2]>>
  BY <1>1
<1>3. p \in Nat /\ x[2] \in Nat
  BY <1>2, DeviceFacts
<1>4. device.peers[p].allowed_ips[x[2]] \in AllowedIp
  BY <1>2, DeviceFacts
<1>5. Ip(x) \in AllowedIp
  BY <1>2, <1>4 DEF Ip
<1>6. QED
  BY <1>2, <1>3, <1>5 DEF AllowedIp

\* The route of a position leads through the tunnel.
LEMMA RouteFacts ==
    ASSUME device \in Devices, NEW x \in Positions
    PROVE  /\ RouteOf(x) \in Route /\ Own(RouteOf(x)) /\ RouteOf(x).oif = "tun"
           /\ RouteOf(x).dst = <<Ip(x).family, Ip(x).net>>
BY PositionFacts DEF RouteOf, Route, Own

\* A route of the session is determined by its destination.
LEMMA OwnByDst ==
    ASSUME device \in Devices, NEW x \in Positions, NEW r \in Route, Own(r), r.dst = RouteOf(x).dst
    PROVE  r = RouteOf(x)
BY RouteFacts DEF RouteOf, Route, Own

\* The manual AllowedIPs are positions; no two of them come before each other.
LEMMA ManualFacts ==
    ASSUME device \in Devices
    PROVE  /\ Manual \subseteq Positions
           /\ \A x \in Manual : \A y \in Positions : RouteOf(y) = RouteOf(x) => y \in Manual
           /\ \A x, y \in Positions : NotAfter(x, y) /\ NotAfter(y, x) => x = y
<1>1. Manual \subseteq Positions
  BY DEF Manual, RoutedIn
<1>2. ASSUME NEW x \in Manual, NEW y \in Positions, RouteOf(y) = RouteOf(x)
      PROVE  y \in Manual
  <2>1. Ip(y).family = Ip(x).family
    BY <1>2, <1>1, RouteFacts
  <2>2. QED
    BY <2>1, <1>2 DEF Manual, RoutedIn
<1>3. ASSUME NEW x \in Positions, NEW y \in Positions, NotAfter(x, y), NotAfter(y, x)
      PROVE  x = y
  <2>1. /\ x[1] \in Nat /\ x[2] \in Nat /\ x = <<x[1], x[2]>>
        /\ y[1] \in Nat /\ y[2] \in Nat /\ y = <<y[1], y[2]>>
    BY PositionFacts
  <2>2. Ip(x).family = Ip(y).family
    BY <1>3 DEF NotAfter
  <2>3. x[1] = y[1] /\ x[2] = y[2]
    BY <1>3, <2>1, <2>2 DEF NotAfter
  <2>4. QED
    BY <2>1, <2>3
<1>4. QED
  BY <1>1, <1>2, <1>3

\* The profile of a session never changes, nor what depends on it only.
LEMMA ProfileKept ==
    ASSUME UNCHANGED profile
    PROVE  /\ Manual' = Manual /\ Positions' = Positions /\ OwnPrefix' = OwnPrefix
           /\ \A x : RouteOf(x)' = RouteOf(x) /\ Routable(x)' = Routable(x) /\ Ip(x)' = Ip(x)
           /\ \A x, y : NotAfter(x, y)' = NotAfter(x, y)
           /\ \A f : RoutedIn(f)' = RoutedIn(f)
BY DEF profile, Manual, RoutedIn, Positions, OwnPrefix, RouteOf, Routable, Ip, NotAfter

\* A route of another interface.
LEMMA ThroughFacts ==
    ASSUME NEW dst
    PROVE  /\ Through(dst).oif = "other" /\ Through(dst).dst = dst /\ ~Own(Through(dst))
           /\ dst \in Families \X Nets => Through(dst) \in Route
BY DEF Through, Own, Route

\* No step changes what a session was started with.
LEMMA NextKeepsProfile ==
    ASSUME [Next]_vars
    PROVE  UNCHANGED profile
BY DEF Next, vars, check_awg31_support, wg_add_device, resolve_endpoints, wg_set_device,
       add_ip_address, set_interface_up, set_interface_mtu, cleanup, add_route, delete_route,
       task_connected, task_unconfigurable, task_abandoned, wg_disconnect, set_interface_down,
       wg_del_device, others_add_route, others_delete_route, others_delete_link, Others

-----------------------------------------------------------------------------
(* Type correctness.                                                       *)

\* The initial states are typed.
LEMMA InitType == Init => TypeOK
<1> SUFFICES ASSUME Init PROVE TypeOK
  OBVIOUS
<1>1. PICK taken \in Foreign : table = {Through(dst) : dst \in taken}
  BY DEF Init
<1>2. taken \subseteq Families \X Nets
  BY <1>1, DevicesAssumption
<1>3. table \subseteq Route
  BY <1>1, <1>2, ThroughFacts
<1>4. announced \in [gateway : {"none", "endpoint"}, routes : SUBSET (Nat \X Nat)]
  BY DEF Init, NoConfig
<1>5. others \in 0 .. MaxOthers /\ device \in Devices /\ faults \in Faults /\ auto \subseteq Families
  BY DevicesAssumption DEF Init
<1>6. QED
  BY <1>3, <1>4, <1>5 DEF Init, TypeOK

\* The own prefix is a route, and what the kernel adds with the link.
LEMMA OwnPrefixFacts ==
    ASSUME TypeOK, RouteInv
    PROVE  /\ Connected \subseteq {OwnPrefix} /\ ~Own(OwnPrefix) /\ OwnPrefix.oif = "tun"
           /\ "v4" \in addresses => Connected = {OwnPrefix} /\ OwnPrefix \in Route
<1>1. Connected = IF "v4" \in addresses THEN {OwnPrefix} ELSE {}
  BY DEF Connected, OwnPrefix
<1>2. ASSUME "v4" \in addresses PROVE OwnPrefix \in Route
  <2>1. device.address["v4"] \in Nets
    BY <1>2, DeviceFacts DEF TypeOK, RouteInv, Families
  <2>2. QED
    BY <2>1 DEF OwnPrefix, Route, Families
<1>3. QED
  BY <1>1, <1>2 DEF OwnPrefix, Own

\* Every step keeps the types; an address the link has is one the device asks for.
LEMMA TypeStep == TypeOK /\ RouteInv /\ [Next]_vars => TypeOK'
<1> SUFFICES ASSUME TypeOK, RouteInv, [Next]_vars PROVE TypeOK'
  OBVIOUS
<1>p. UNCHANGED profile
  BY NextKeepsProfile
<1>a. device \in Devices
  BY DEF TypeOK
<1>f. ASSUME Failure PROVE /\ pc' = "end" /\ reply' = "failure" /\ UNCHANGED <<endpoints, refused, failed, announced>>
  BY <1>f DEF Failure
<1>l. ASSUME LinkRemoved PROVE link' = "none" /\ up' = FALSE /\ addresses' = {} /\ table' \subseteq table
  BY <1>l DEF LinkRemoved, WithoutLink
<1>1. CASE UNCHANGED vars
  BY <1>1 DEF vars, TypeOK, profile, kernel, call
<1>2. CASE check_awg31_support \/ wg_add_device \/ wg_set_device
  BY <1>2, <1>f DEF check_awg31_support, wg_add_device, wg_set_device, TypeOK, profile, kernel, call
<1>3. CASE resolve_endpoints
  BY <1>3 DEF resolve_endpoints, TypeOK, profile, kernel, call
<1>4. ASSUME NEW f \in Families, NEW here, NEW next, add_ip_address(f, here, next), next \in {"address6", "up"}
      PROVE  TypeOK'
  BY <1>4 DEF add_ip_address, Refused, LocalFailure, TypeOK, profile, kernel, call, Families
<1>5. CASE set_interface_up
  BY <1>5, OwnPrefixFacts DEF set_interface_up, Refused, LocalFailure, Connected, TypeOK, profile, kernel, call
<1>6. CASE set_interface_mtu
  <2>1. RoutedIn(Families \ auto) \subseteq Nat \X Nat
    BY <1>a, PositionFacts DEF RoutedIn
  <2>2. QED
    BY <1>6, <2>1 DEF set_interface_mtu, Refused, LocalFailure, TypeOK, profile, kernel, call
<1>7. CASE cleanup \/ wg_del_device
  BY <1>7, <1>f, <1>l DEF cleanup, wg_del_device, Answer, TypeOK, profile, kernel, call
<1>8. CASE add_route \/ delete_route
  <2>1. \A x \in todo : RouteOf(x) \in Route
    BY <1>a, ManualFacts, RouteFacts DEF RouteInv
  <2>2. QED
    BY <1>8, <2>1 DEF add_route, delete_route, TypeOK, profile, kernel, call
<1>9. CASE task_connected
  <2>1. ConfigRoutes \subseteq Nat \X Nat
    BY <1>a, PositionFacts DEF ConfigRoutes, RoutedIn
  <2>2. QED
    BY <1>9, <2>1 DEF task_connected, TypeOK, profile, kernel, call
<1>10. CASE task_unconfigurable \/ task_abandoned \/ wg_disconnect
  <2>1. RoutedIn(Families \ auto) \subseteq Nat \X Nat
    BY <1>a, PositionFacts DEF RoutedIn
  <2>2. QED
    BY <1>10, <2>1 DEF task_unconfigurable, task_abandoned, wg_disconnect, Teardown, TypeOK, profile, kernel, call
<1>11. CASE set_interface_down
  BY <1>11 DEF set_interface_down, WithoutLink, TypeOK, profile, kernel, call
<1>12. CASE others_add_route \/ others_delete_route \/ others_delete_link
  <2>1. others' \in 0 .. MaxOthers
    BY <1>12, DevicesAssumption DEF others_add_route, others_delete_route, others_delete_link, Others, TypeOK
  <2>2. table' \subseteq Route
    <3>1. CASE others_add_route
      BY <3>1, ThroughFacts DEF others_add_route, TypeOK
    <3>2. CASE others_delete_route \/ others_delete_link
      BY <3>2, <1>l DEF others_delete_route, others_delete_link, TypeOK
    <3>3. QED
      BY <1>12, <3>1, <3>2
  <2>3. link' \in {"none", "ours", "foreign"} /\ up' \in BOOLEAN /\ addresses' \subseteq Families
    BY <1>12, <1>l DEF others_add_route, others_delete_route, others_delete_link, TypeOK
  <2>4. UNCHANGED <<profile, pc, todo, call>>
    BY <1>12 DEF others_add_route, others_delete_route, others_delete_link, Others
  <2>5. QED
    BY <2>1, <2>2, <2>3, <2>4 DEF TypeOK, profile, call
<1>13. QED
  BY <1>1, <1>2, <1>3, <1>4, <1>5, <1>6, <1>7, <1>8, <1>9, <1>10, <1>11, <1>12 DEF Next, Families

-----------------------------------------------------------------------------
(* The routes of the session.                                              *)

\* There is no route of the session before it begins.
LEMMA InitRoute == Init => RouteInv
<1> SUFFICES ASSUME Init PROVE RouteInv
  OBVIOUS
<1>1. \A r \in table : r.oif = "other" /\ ~Own(r)
  BY ThroughFacts DEF Init
<1>2. QED
  BY <1>1 DEF Init, RouteInv, RoutesPhase

\* A step that leaves the loops alone and adds no route of the session.
LEMMA RouteKept ==
    ASSUME RouteInv, UNCHANGED <<profile, todo>>,
           \A r \in table' : Own(r) => r \in table,
           link' # "ours" => \A r \in table' : r.oif = "other",
           \A f \in addresses' : device.address[f] # NoNet,
           pc' \notin RoutesPhase => pc \notin RoutesPhase,
           pc' = "delete" => pc = "delete",
           pc' \in {"del_device", "end"} => pc \in {"del_device", "end"} \/ pc \notin RoutesPhase
    PROVE  RouteInv'
<1>1. Manual' = Manual /\ \A x : RouteOf(x)' = RouteOf(x) /\ Routable(x)' = Routable(x)
  BY ProfileKept
<1>2. UNCHANGED <<device, faults, todo>>
  BY DEF profile
<1>3. \A r \in table' : Own(r) => \E x \in Manual : RouteOf(x) = r /\ Routable(x)
  BY DEF RouteInv
<1>4. pc' = "delete" /\ "route" \notin faults =>
         \A r \in table' : Own(r) => \E x \in todo : RouteOf(x) = r /\ Routable(x)
  BY DEF RouteInv
<1>5. pc' \in {"del_device", "end"} /\ "route" \notin faults => \A r \in table' : ~Own(r)
  BY DEF RouteInv
<1>6. pc' \notin RoutesPhase => \A r \in table' : ~Own(r)
  BY DEF RouteInv
<1>7. todo \subseteq Manual
  BY DEF RouteInv
<1>8. (\A r \in table : Own(r) => \E x \in Manual : RouteOf(x) = r /\ Routable(x))'
  BY <1>1, <1>3 DEF Own
<1>9. (pc = "delete" /\ "route" \notin faults =>
         \A r \in table : Own(r) => \E x \in todo : RouteOf(x) = r /\ Routable(x))'
  BY <1>1, <1>2, <1>4 DEF Own
<1>10. QED
  BY <1>1, <1>2, <1>5, <1>6, <1>7, <1>8, <1>9 DEF RouteInv, Own, RoutesPhase

\* The link going down or away leaves no route through it.
LEMMA WithoutLinkFacts ==
    /\ \A r \in WithoutLink : r \in table /\ r.oif = "other" /\ ~Own(r)
    /\ \A r \in table : r.oif = "other" => r \in WithoutLink
BY DEF WithoutLink, Own

\* Every step, of others too, keeps the routes of the session those of its AllowedIPs.
LEMMA RouteStep == TypeOK /\ RouteInv /\ [Next]_vars => RouteInv'
<1> SUFFICES ASSUME TypeOK, RouteInv, [Next]_vars PROVE RouteInv'
  OBVIOUS
<1>p. UNCHANGED profile
  BY NextKeepsProfile
<1>k. Manual' = Manual /\ \A x : RouteOf(x)' = RouteOf(x) /\ Routable(x)' = Routable(x)
  BY <1>p, ProfileKept
<1>v. device' = device /\ faults' = faults /\ auto' = auto
  BY <1>p DEF profile
<1>a. device \in Devices
  BY DEF TypeOK
<1>m. \A x \in todo : x \in Manual /\ x \in Positions
  BY <1>a, ManualFacts DEF RouteInv
<1>n. RoutedIn(Families \ auto) = Manual
  BY DEF Manual
<1>1. CASE UNCHANGED vars
  <2>1. UNCHANGED <<table, link, addresses, pc, todo>>
    BY <1>1 DEF vars, kernel
  <2>2. QED
    BY <1>p, <2>1, RouteKept DEF RouteInv
<1>2. CASE check_awg31_support \/ wg_add_device \/ wg_set_device \/ resolve_endpoints
  <2>1. UNCHANGED <<table, addresses, todo>> /\ (link' = link \/ link' = "ours")
    BY <1>2 DEF check_awg31_support, wg_add_device, wg_set_device, resolve_endpoints, kernel
  <2>2. /\ pc \in {"check", "add", "resolve", "set"}
        /\ pc' \in {"add", "resolve", "set", "address4", "cleanup", "end"}
    BY <1>2 DEF check_awg31_support, wg_add_device, wg_set_device, resolve_endpoints, Failure
  <2>3. pc \notin RoutesPhase /\ pc' # "delete"
    BY <2>2 DEF RoutesPhase
  <2>4. /\ link' # "ours" => \A r \in table' : r.oif = "other"
        /\ \A f \in addresses' : device.address[f] # NoNet
        /\ \A r \in table' : Own(r) => r \in table
    BY <2>1 DEF RouteInv
  <2>5. QED
    BY <1>p, <2>1, <2>3, <2>4, RouteKept
<1>3. ASSUME NEW f \in Families, NEW here \in {"address4", "address6"}, NEW next \in {"address6", "up"},
             add_ip_address(f, here, next)
      PROVE  RouteInv'
  <2>1. UNCHANGED <<table, link, todo>> /\ pc = here /\ pc' \in {next, "cleanup"}
    BY <1>3 DEF add_ip_address, Refused, LocalFailure, kernel
  <2>2. addresses' = addresses \/ (addresses' = addresses \cup {f} /\ device.address[f] # NoNet)
    BY <1>3 DEF add_ip_address, Refused, LocalFailure, kernel
  <2>3. pc \notin RoutesPhase /\ pc' # "delete"
    BY <2>1 DEF RoutesPhase
  <2>4. \A g \in addresses' : device.address[g] # NoNet
    BY <2>2 DEF RouteInv
  <2>5. QED
    BY <1>p, <2>1, <2>3, <2>4, RouteKept DEF RouteInv
<1>4. CASE set_interface_up
  <2>1. /\ UNCHANGED <<link, addresses, todo>> /\ pc = "up" /\ pc' \in {"mtu", "cleanup"}
        /\ table' = table \/ (table' = table \cup Connected /\ link = "ours")
    BY <1>4 DEF set_interface_up, Refused, LocalFailure, kernel
  <2>2. /\ \A r \in table' : Own(r) => r \in table
        /\ link' # "ours" => \A r \in table' : r.oif = "other"
    BY <2>1, OwnPrefixFacts DEF RouteInv
  <2>3. pc \notin RoutesPhase /\ pc' # "delete"
    BY <2>1 DEF RoutesPhase
  <2>4. QED
    BY <1>p, <2>1, <2>2, <2>3, RouteKept DEF RouteInv
<1>5. CASE set_interface_mtu
  <2>1. /\ UNCHANGED <<table, link, addresses>> /\ pc = "mtu" /\ pc' \in {"routes", "cleanup"}
        /\ todo' = todo \/ todo' = Manual
    BY <1>5, <1>n DEF set_interface_mtu, Refused, LocalFailure, kernel
  <2>2. \A r \in table' : ~Own(r)
    BY <2>1 DEF RouteInv, RoutesPhase
  <2>3. todo' \subseteq Manual'
    BY <2>1, <1>k DEF RouteInv
  <2>4. /\ link' # "ours" => \A r \in table' : r.oif = "other"
        /\ \A f \in addresses' : device'.address[f] # NoNet
    BY <2>1, <1>v DEF RouteInv
  <2>5. QED
    BY <2>2, <2>3, <2>4 DEF RouteInv, Own
<1>6. CASE cleanup
  <2>1. /\ UNCHANGED todo /\ pc = "cleanup" /\ pc' = "end"
        /\ UNCHANGED kernel \/ LinkRemoved
    BY <1>6 DEF cleanup, Failure
  <2>2. /\ \A r \in table' : Own(r) => r \in table
        /\ link' # "ours" => \A r \in table' : r.oif = "other"
        /\ \A f \in addresses' : device.address[f] # NoNet
    BY <2>1, WithoutLinkFacts DEF RouteInv, LinkRemoved, kernel
  <2>3. pc \notin RoutesPhase /\ pc' # "delete"
    BY <2>1 DEF RoutesPhase
  <2>4. QED
    BY <1>p, <2>1, <2>2, <2>3, RouteKept
<1>7. CASE add_route
  <2>1. PICK x \in todo : /\ todo' = todo \ {x}
                          /\ \/ Addable(x) /\ table' = table \cup {RouteOf(x)}
                             \/ UNCHANGED table
    BY <1>7 DEF add_route
  <2>2. pc = "routes" /\ pc' = "routes" /\ UNCHANGED <<link, addresses>>
    BY <1>7 DEF add_route
  <2>3. ASSUME NEW r \in table', Own(r)
        PROVE  \E y \in Manual : RouteOf(y) = r /\ Routable(y)
    <3>1. CASE r \in table
      BY <3>1, <2>3 DEF RouteInv
    <3>2. CASE r \notin table
      BY <3>2, <2>1, <2>3, <1>m DEF Addable
    <3>3. QED
      BY <3>1, <3>2
  <2>4. link' # "ours" => \A r \in table' : r.oif = "other"
    BY <2>1, <2>2 DEF RouteInv, Addable
  <2>5. /\ todo' \subseteq Manual'
        /\ \A f \in addresses' : device'.address[f] # NoNet
    BY <2>1, <2>2, <1>k, <1>v DEF RouteInv
  <2>6. (\A r \in table : Own(r) => \E y \in Manual : RouteOf(y) = r /\ Routable(y))'
    BY <2>3, <1>k DEF Own
  <2>7. QED
    BY <2>2, <2>4, <2>5, <2>6 DEF RouteInv, RoutesPhase
<1>8. CASE delete_route
  <2>1. PICK x \in todo : /\ todo' = todo \ {x}
                          /\ \/ Deletable(x) /\ table' = table \ {RouteOf(x)}
                             \/ (~Deletable(x) \/ "route" \in faults) /\ UNCHANGED table
    BY <1>8 DEF delete_route
  <2>2. pc = "delete" /\ pc' = "delete" /\ UNCHANGED <<link, addresses>> /\ table' \subseteq table
    BY <1>8 DEF delete_route
  <2>3. ASSUME "route" \notin faults, NEW r \in table', Own(r)
        PROVE  \E y \in todo' : RouteOf(y) = r /\ Routable(y)
    <3>1. PICK y \in todo : RouteOf(y) = r /\ Routable(y)
      BY <2>2, <2>3 DEF RouteInv
    <3>2. ASSUME y = x PROVE FALSE
      <4>1. link = "ours"
        BY <3>1, <2>2, <2>3, <1>m, <1>a, RouteFacts DEF RouteInv, Own
      <4>2. Deletable(x)
        BY <4>1, <3>1, <3>2, <2>2, <2>3 DEF Deletable
      <4>3. QED
        BY <4>2, <2>1, <2>3, <3>1, <3>2
    <3>3. QED
      BY <3>1, <3>2, <2>1
  <2>4. (pc = "delete" /\ "route" \notin faults =>
           \A r \in table : Own(r) => \E y \in todo : RouteOf(y) = r /\ Routable(y))'
    BY <2>3, <1>k, <1>v DEF Own
  <2>5. (\A r \in table : Own(r) => \E y \in Manual : RouteOf(y) = r /\ Routable(y))'
    BY <2>2, <1>k DEF RouteInv, Own
  <2>6. /\ todo' \subseteq Manual'
        /\ \A f \in addresses' : device'.address[f] # NoNet
        /\ link' # "ours" => \A r \in table' : r.oif = "other"
    BY <2>1, <2>2, <1>k, <1>v DEF RouteInv
  <2>7. QED
    BY <2>2, <2>4, <2>5, <2>6 DEF RouteInv, RoutesPhase
<1>9. CASE task_connected
  <2>1. UNCHANGED <<table, link, addresses, todo>> /\ pc = "routes" /\ pc' = "connected"
    BY <1>9 DEF task_connected, kernel
  <2>2. QED
    BY <1>p, <2>1, RouteKept DEF RouteInv, RoutesPhase
<1>10. CASE task_unconfigurable \/ task_abandoned \/ wg_disconnect
  <2>1. /\ UNCHANGED <<table, link, addresses>> /\ pc \in {"routes", "connected"} /\ pc' = "delete"
        /\ todo' = Manual
    BY <1>10, <1>n DEF task_unconfigurable, task_abandoned, wg_disconnect, Teardown, kernel
  <2>2. (\A r \in table : Own(r) => \E y \in Manual : RouteOf(y) = r /\ Routable(y))'
    BY <2>1, <1>k DEF RouteInv, Own
  <2>3. (\A r \in table : Own(r) => \E y \in todo : RouteOf(y) = r /\ Routable(y))'
    BY <2>1, <2>2, <1>k
  <2>4. /\ todo' \subseteq Manual'
        /\ \A f \in addresses' : device'.address[f] # NoNet
        /\ link' # "ours" => \A r \in table' : r.oif = "other"
    BY <2>1, <1>k, <1>v DEF RouteInv
  <2>5. QED
    BY <2>1, <2>2, <2>3, <2>4 DEF RouteInv, RoutesPhase
<1>11. CASE set_interface_down
  <2>1. /\ pc = "delete" /\ todo = {} /\ pc' = "del_device" /\ UNCHANGED <<link, addresses, todo>>
        /\ table' = table \/ table' = WithoutLink
    BY <1>11 DEF set_interface_down, kernel
  <2>2. \A r \in table' : r \in table
    BY <2>1, WithoutLinkFacts
  <2>3. "route" \notin faults => \A r \in table' : ~Own(r)
    BY <2>1, <2>2 DEF RouteInv
  <2>4. (\A r \in table : Own(r) => \E y \in Manual : RouteOf(y) = r /\ Routable(y))'
    BY <2>2, <1>k DEF RouteInv, Own
  <2>5. /\ todo' \subseteq Manual'
        /\ \A f \in addresses' : device'.address[f] # NoNet
        /\ link' # "ours" => \A r \in table' : r.oif = "other"
    BY <2>1, <2>2, <1>k, <1>v DEF RouteInv
  <2>6. QED
    BY <2>1, <2>3, <2>4, <2>5, <1>v DEF RouteInv, RoutesPhase, Own
<1>12. CASE wg_del_device
  <2>1. /\ UNCHANGED todo /\ pc = "del_device" /\ pc' = "end"
        /\ UNCHANGED kernel \/ LinkRemoved
    BY <1>12 DEF wg_del_device
  <2>2. /\ \A r \in table' : Own(r) => r \in table
        /\ link' # "ours" => \A r \in table' : r.oif = "other"
        /\ \A f \in addresses' : device.address[f] # NoNet
    BY <2>1, WithoutLinkFacts DEF RouteInv, LinkRemoved, kernel
  <2>3. QED
    BY <1>p, <2>1, <2>2, RouteKept DEF RoutesPhase
<1>13. CASE others_add_route \/ others_delete_route \/ others_delete_link
  <2>1. UNCHANGED <<pc, todo>>
    BY <1>13 DEF others_add_route, others_delete_route, others_delete_link, Others
  <2>2. /\ link' = link /\ addresses' = addresses
        /\ \A r \in table' : r \in table \/ (r.oif = "other" /\ ~Own(r))
        \/ LinkRemoved
    BY <1>13, ThroughFacts DEF others_add_route, others_delete_route, others_delete_link
  <2>3. /\ \A r \in table' : Own(r) => r \in table
        /\ link' # "ours" => \A r \in table' : r.oif = "other"
        /\ \A f \in addresses' : device.address[f] # NoNet
    BY <2>2, WithoutLinkFacts DEF RouteInv, LinkRemoved
  <2>4. QED
    BY <1>p, <2>1, <2>3, RouteKept
<1>14. QED
  BY <1>1, <1>2, <1>3, <1>4, <1>5, <1>6, <1>7, <1>8, <1>9, <1>10, <1>11, <1>12, <1>13 DEF Next, Families

\* The type invariant and the one about routes hold in every reachable state.
THEOREM Invariance == Spec => [](TypeOK /\ RouteInv)
<1>1. Init => TypeOK /\ RouteInv
  BY InitType, InitRoute
<1>2. TypeOK /\ RouteInv /\ [Next]_vars => (TypeOK /\ RouteInv)'
  BY TypeStep, RouteStep
<1>3. QED
  BY <1>1, <1>2, PTL DEF Spec

\* A session that ends leaves none of its routes in the table.
THEOREM RoutesAreGone == Spec => []RoutesGoneWithSession
<1>1. TypeOK /\ RouteInv => RoutesGoneWithSession
  BY DEF RouteInv, RoutesGoneWithSession, Own
<1>2. QED
  BY <1>1, Invariance, PTL

\* No step of the session takes away a route of another interface.
THEOREM ForeignRoutesAreKept == Spec => ForeignRoutesStay
<1>1. TypeOK /\ RouteInv /\ [Next]_vars =>
        [others' = others => \A r \in table : r.oif = "other" => r \in table']_vars
  <2> SUFFICES ASSUME TypeOK, RouteInv, Next, others' = others, NEW r \in table, r.oif = "other"
               PROVE  r \in table'
    BY DEF vars, kernel
  <2>1. \A x \in todo : RouteOf(x).oif = "tun"
    BY ManualFacts, RouteFacts DEF TypeOK, RouteInv
  <2>2. r \in WithoutLink
    BY WithoutLinkFacts
  <2>3. CASE table' = table
    BY <2>3
  <2>4. CASE set_interface_up \/ add_route \/ delete_route \/ set_interface_down
    BY <2>1, <2>2, <2>4 DEF set_interface_up, Refused, LocalFailure, add_route, delete_route, set_interface_down, kernel
  <2>5. CASE cleanup \/ wg_del_device
    BY <2>2, <2>5 DEF cleanup, wg_del_device, LinkRemoved, kernel
  <2>6. ~(others_add_route \/ others_delete_route \/ others_delete_link)
    BY DEF others_add_route, others_delete_route, others_delete_link, Others, TypeOK
  <2>7. QED
    BY <2>3, <2>4, <2>5, <2>6
       DEF Next, check_awg31_support, wg_add_device, resolve_endpoints, wg_set_device, add_ip_address,
           set_interface_mtu, Refused, LocalFailure, task_connected, task_unconfigurable, task_abandoned,
           wg_disconnect, kernel
<1>2. QED
  BY <1>1, Invariance, PTL DEF Spec, ForeignRoutesStay

-----------------------------------------------------------------------------
(* Sessions nobody interferes with.                                        *)

\* Other processes count their changes.
LEMMA QuietStep ==
    ASSUME TypeOK, [Next]_vars, others' = 0
    PROVE  others = 0 /\ ~(others_add_route \/ others_delete_route \/ others_delete_link)
<1>1. others \in Nat
  BY DevicesAssumption DEF TypeOK
<1>2. ~(others_add_route \/ others_delete_route \/ others_delete_link)
  BY <1>1 DEF others_add_route, others_delete_route, others_delete_link, Others
<1>3. others' = others
  BY <1>2 DEF Next, vars, check_awg31_support, wg_add_device, resolve_endpoints, wg_set_device,
       add_ip_address, set_interface_up, set_interface_mtu, cleanup, add_route, delete_route,
       task_connected, task_unconfigurable, task_abandoned, wg_disconnect, set_interface_down,
       wg_del_device
<1>4. QED
  BY <1>2, <1>3

\* Where nobody interferes, every step keeps what the configuration has reached.
LEMMA LinkStep ==
    ASSUME TypeOK, RouteInv, [Next]_vars, others' = 0, LinkInv
    PROVE  LinkInv'
<1>q. ~(others_add_route \/ others_delete_route \/ others_delete_link)
  BY QuietStep
<1>v. device' = device /\ faults' = faults
  BY NextKeepsProfile DEF profile
<1>1. CASE UNCHANGED vars
  BY <1>1 DEF LinkInv, vars, profile, kernel, call
<1>2. CASE check_awg31_support \/ wg_add_device \/ wg_set_device \/ resolve_endpoints
  BY <1>2, <1>v DEF check_awg31_support, wg_add_device, wg_set_device, resolve_endpoints, Failure, LinkInv, kernel, call
<1>3. CASE add_ip_address("v4", "address4", "address6")
  BY <1>3, <1>v DEF add_ip_address, Refused, LocalFailure, LinkInv, kernel
<1>4. CASE add_ip_address("v6", "address6", "up")
  BY <1>4, <1>v DEF add_ip_address, Refused, LocalFailure, LinkInv, kernel
<1>5. CASE set_interface_up \/ set_interface_mtu
  BY <1>5, <1>v DEF set_interface_up, set_interface_mtu, Refused, LocalFailure, LinkInv, kernel
<1>6. CASE cleanup \/ set_interface_down \/ wg_del_device
  BY <1>6, <1>v DEF cleanup, set_interface_down, wg_del_device, Failure, LinkInv, call
<1>7. CASE add_route \/ delete_route
  BY <1>7, <1>v DEF add_route, delete_route, LinkInv, call
<1>8. CASE task_connected \/ task_unconfigurable \/ task_abandoned \/ wg_disconnect
  BY <1>8, <1>v DEF task_connected, task_unconfigurable, task_abandoned, wg_disconnect, Teardown, LinkInv, kernel, call
<1>9. QED
  BY <1>q, <1>1, <1>2, <1>3, <1>4, <1>5, <1>6, <1>7, <1>8 DEF Next

\* What a step nobody else takes does to the table.
LEMMA TableStep ==
    ASSUME TypeOK, RouteInv, [Next]_vars, others' = 0
    PROVE  \/ UNCHANGED table
           \/ set_interface_up /\ table' = table \cup Connected
           \/ add_route /\ \E x \in todo : Addable(x) /\ table' = table \cup {RouteOf(x)}
           \/ delete_route /\ \E x \in todo : table' = table \ {RouteOf(x)}
           \/ (cleanup \/ set_interface_down \/ wg_del_device) /\ table' = WithoutLink
<1>q. ~(others_add_route \/ others_delete_route \/ others_delete_link)
  BY QuietStep
<1>1. CASE set_interface_up
  BY <1>1 DEF set_interface_up, Refused, LocalFailure, kernel
<1>2. CASE add_route \/ delete_route
  BY <1>2 DEF add_route, delete_route
<1>3. CASE cleanup \/ set_interface_down \/ wg_del_device
  BY <1>3 DEF cleanup, set_interface_down, wg_del_device, LinkRemoved, kernel
<1>4. QED
  BY <1>q, <1>1, <1>2, <1>3
     DEF Next, vars, kernel, check_awg31_support, wg_add_device, resolve_endpoints, wg_set_device,
         add_ip_address, set_interface_mtu, Refused, LocalFailure, task_connected, task_unconfigurable,
         task_abandoned, wg_disconnect

\* The routes of others are what they were, and with them what is obstructed.
LEMMA ObstructionKept ==
    ASSUME TypeOK, RouteInv, [Next]_vars, others' = 0
    PROVE  /\ \A dst : Through(dst) \in table' <=> Through(dst) \in table
           /\ \A x : Obstructed(x)' <=> Obstructed(x)
<1>p. UNCHANGED profile
  BY NextKeepsProfile
<1>1. \A x \in todo : RouteOf(x).oif = "tun"
  BY ManualFacts, RouteFacts DEF TypeOK, RouteInv
<1>2. ASSUME NEW dst PROVE Through(dst) \in table' <=> Through(dst) \in table
  <2>1. Through(dst).oif = "other"
    BY ThroughFacts
  <2>2. \A r \in Connected : r.oif = "tun"
    BY OwnPrefixFacts
  <2>3. QED
    BY <1>1, <2>1, <2>2, TableStep, WithoutLinkFacts
<1>3. ASSUME NEW x PROVE Obstructed(x)' <=> Obstructed(x)
  <2>1. Through(RouteOf(x).dst)' = Through(RouteOf(x).dst)
    BY <1>p, ProfileKept DEF Through
  <2>2. device' = device
    BY <1>p DEF profile
  <2>3. QED
    BY <1>2, <1>p, <2>1, <2>2, ProfileKept DEF Obstructed
<1>4. QED
  BY <1>2, <1>3

\* The invariants of an undisturbed session hold when it begins.
LEMMA InitQuiet == Init => LinkInv /\ TableInv /\ TeardownInv
<1> SUFFICES ASSUME Init PROVE LinkInv /\ TableInv /\ TeardownInv
  OBVIOUS
<1>1. \A r \in table : r = Through(r.dst) /\ ~Own(r)
  BY ThroughFacts DEF Init
<1>2. pc = "check" /\ ~up /\ refused = {} /\ reply = "none" /\ ~failed
  BY DEF Init
<1>3. LinkInv
  BY <1>2 DEF LinkInv
<1>4. TableInv
  BY <1>1, <1>2 DEF TableInv
<1>5. TeardownInv
  BY <1>2 DEF TeardownInv
<1>6. QED
  BY <1>3, <1>4, <1>5

\* An AllowedIP whose route the kernel does not take is obstructed, or has it.
LEMMA NotAddable ==
    ASSUME TypeOK, TableInv, NEW x \in Positions, link = "ours", up, ~Addable(x)
    PROVE  RouteOf(x) \in table \/ Obstructed(x)
<1>a. device \in Devices /\ table \subseteq Route
  BY DEF TypeOK
<1>1. CASE ~Routable(x)
  BY <1>1 DEF Obstructed
<1>2. ASSUME NEW r \in table, r.dst = RouteOf(x).dst
      PROVE  RouteOf(x) \in table \/ Obstructed(x)
  <2>1. CASE Own(r)
    BY <2>1, <1>2, <1>a, OwnByDst
  <2>2. CASE r = OwnPrefix
    <3>1. <<Ip(x).family, Ip(x).net>> = <<"v4", device.address["v4"]>>
      BY <2>2, <1>2, <1>a, RouteFacts DEF OwnPrefix
    <3>2. QED
      BY <3>1 DEF Obstructed
  <2>3. CASE r = Through(r.dst)
    BY <2>3, <1>2 DEF Obstructed
  <2>4. QED
    BY <2>1, <2>2, <2>3 DEF TableInv
<1>3. QED
  BY <1>1, <1>2 DEF Addable

\* Where nobody interferes, every step keeps the table accounted for: what the loop
\* over the routes has visited has its route or is obstructed.
LEMMA TableInvStep ==
    ASSUME TypeOK, RouteInv, [Next]_vars, others' = 0, LinkInv, TableInv
    PROVE  TableInv'
<1>p. UNCHANGED profile
  BY NextKeepsProfile
<1>k. /\ Manual' = Manual /\ OwnPrefix' = OwnPrefix
      /\ \A x : RouteOf(x)' = RouteOf(x)
  BY <1>p, ProfileKept
<1>v. device' = device /\ faults' = faults
  BY <1>p DEF profile
<1>a. device \in Devices
  BY DEF TypeOK
<1>q. ~(others_add_route \/ others_delete_route \/ others_delete_link)
  BY QuietStep
<1>m. \A x \in todo : x \in Manual /\ x \in Positions
  BY <1>a, ManualFacts DEF RouteInv
<1>o. ~Own(OwnPrefix) /\ Connected \subseteq {OwnPrefix}
  BY OwnPrefixFacts
<1>1. \A r \in table' : Own(r) \/ r = OwnPrefix \/ r = Through(r.dst)
  BY <1>a, <1>m, <1>o, TableStep, RouteFacts, WithoutLinkFacts DEF TableInv
<1>2. pc' \in {"mtu", "routes", "connected"} /\ up' /\ "v4" \in addresses' => OwnPrefix \in table'
  <2> SUFFICES ASSUME pc' \in {"mtu", "routes", "connected"}, up', "v4" \in addresses'
               PROVE  OwnPrefix \in table'
    OBVIOUS
  <2>1. CASE set_interface_up
    <3>1. up' = TRUE /\ table' = table \cup Connected /\ addresses' = addresses
      BY <2>1 DEF set_interface_up, Refused, LocalFailure, LinkInv, kernel
    <3>2. QED
      BY <3>1, OwnPrefixFacts
  <2>2. CASE ~set_interface_up
    <3>1. pc \in {"mtu", "routes", "connected"} /\ UNCHANGED <<up, addresses>> /\ table \subseteq table'
      BY <2>2, <1>q DEF Next, vars, kernel, call, check_awg31_support, wg_add_device, resolve_endpoints, wg_set_device,
           add_ip_address, set_interface_mtu, Refused, LocalFailure, cleanup, Failure, add_route, delete_route,
           task_connected, task_unconfigurable, task_abandoned, wg_disconnect, Teardown, set_interface_down,
           wg_del_device
    <3>2. QED
      BY <3>1 DEF TableInv
  <2>3. QED
    BY <2>1, <2>2
<1>3. \A r \in table' : Own(r) =>
         Through(r.dst) \notin table' /\ (OwnPrefix \in table' => r.dst # OwnPrefix.dst)
  <2> SUFFICES ASSUME NEW r \in table', Own(r)
               PROVE  Through(r.dst) \notin table' /\ (OwnPrefix \in table' => r.dst # OwnPrefix.dst)
    OBVIOUS
  <2>t. Through(r.dst) \in table' <=> Through(r.dst) \in table
    BY ObstructionKept
  <2>1. CASE table' \subseteq table
    BY <2>1, <2>t DEF TableInv
  <2>2. CASE set_interface_up
    BY <2>2, <1>o, TableStep DEF set_interface_up, Refused, LocalFailure, kernel, RouteInv, RoutesPhase
  <2>3. ASSUME NEW x \in todo, Addable(x), table' = table \cup {RouteOf(x)}
        PROVE  Through(r.dst) \notin table' /\ (OwnPrefix \in table' => r.dst # OwnPrefix.dst)
    <3>1. Own(RouteOf(x)) /\ (OwnPrefix \in table' => OwnPrefix \in table)
      BY <2>3, <1>a, <1>m, <1>o, RouteFacts
    <3>2. CASE r \in table
      BY <3>1, <3>2, <2>t DEF TableInv
    <3>3. CASE r = RouteOf(x)
      BY <3>1, <3>3, <2>t, <2>3, ThroughFacts DEF Addable
    <3>4. QED
      BY <2>3, <3>2, <3>3
  <2>4. QED
    BY <2>1, <2>2, <2>3, TableStep, WithoutLinkFacts
<1>4. pc' \in {"routes", "connected"} /\ up' /\ "route" \notin faults =>
         \A x \in Manual \ todo' : RouteOf(x) \in table' \/ Obstructed(x)'
  <2> SUFFICES ASSUME pc' \in {"routes", "connected"}, up', "route" \notin faults, NEW x \in Manual \ todo'
               PROVE  RouteOf(x) \in table' \/ Obstructed(x)'
    OBVIOUS
  <2>t. Obstructed(x)' <=> Obstructed(x)
    BY ObstructionKept
  <2>1. CASE set_interface_mtu
    BY <2>1 DEF set_interface_mtu, LocalFailure, Manual
  <2>2. CASE add_route
    <3>1. PICK y \in todo : /\ todo' = todo \ {y}
                            /\ \/ Addable(y) /\ table' = table \cup {RouteOf(y)}
                               \/ ~Addable(y) /\ UNCHANGED table
      BY <2>2 DEF add_route
    <3>2. pc = "routes" /\ up /\ link = "ours"
      BY <2>2 DEF add_route, LinkInv
    <3>3. CASE x = y
      BY <3>1, <3>2, <3>3, <1>m, <2>t, NotAddable
    <3>4. CASE x # y
      BY <3>1, <3>2, <3>4, <2>t DEF TableInv
    <3>5. QED
      BY <3>3, <3>4
  <2>3. CASE ~set_interface_mtu /\ ~add_route
    <3>1. pc \in {"routes", "connected"} /\ UNCHANGED <<up, table, todo>>
      BY <2>3, <1>q DEF Next, vars, kernel, call, check_awg31_support, wg_add_device, resolve_endpoints, wg_set_device,
           add_ip_address, set_interface_up, LocalFailure, cleanup, Failure, delete_route,
           task_connected, task_unconfigurable, task_abandoned, wg_disconnect, Teardown, set_interface_down,
           wg_del_device
    <3>2. QED
      BY <3>1, <2>t DEF TableInv
  <2>4. QED
    BY <2>1, <2>2, <2>3
<1>5. (\A r \in table : Own(r) \/ r = OwnPrefix \/ r = Through(r.dst))'
  BY <1>1, <1>k DEF Own, Through
<1>6. (\A r \in table : Own(r) => Through(r.dst) \notin table /\ (OwnPrefix \in table => r.dst # OwnPrefix.dst))'
  BY <1>3, <1>k DEF Own, Through
<1>7. (pc \in {"routes", "connected"} /\ up /\ "route" \notin faults =>
         \A x \in Manual \ todo : RouteOf(x) \in table \/ Obstructed(x))'
  BY <1>4, <1>k, <1>v
<1>8. (pc \in {"mtu", "routes", "connected"} /\ up /\ "v4" \in addresses => OwnPrefix \in table)'
  BY <1>2, <1>k
<1>9. QED
  BY <1>5, <1>6, <1>7, <1>8 DEF TableInv


-----------------------------------------------------------------------------
(* Sessions in which nothing fails either.                                 *)

\* Where the teardown begins, the obstructed AllowedIPs are those without a route.
LEMMA ConnectedFacts ==
    ASSUME TypeOK, RouteInv, LinkInv, TableInv, pc = "connected", todo = {}, faults \subseteq {"dns"}
    PROVE  /\ \A x \in Manual : ~Obstructed(x) => RouteOf(x) \in table
           /\ \A x \in Manual : Obstructed(x) =>
                 \/ ~Routable(x) \/ RouteOf(x) \notin table
                 \/ \E y \in Manual : y # x /\ NotAfter(y, x) /\ RouteOf(y) = RouteOf(x) /\ Routable(y)
<1>a. device \in Devices
  BY DEF TypeOK
<1>1. refused = {} /\ up
  BY DEF LinkInv
<1>2. ASSUME NEW x \in Manual, ~Obstructed(x) PROVE RouteOf(x) \in table
  BY <1>1, <1>2 DEF TableInv
<1>3. ASSUME NEW x \in Manual, Obstructed(x), RouteOf(x) \in table, Routable(x)
      PROVE  \E y \in Manual : y # x /\ NotAfter(y, x) /\ RouteOf(y) = RouteOf(x) /\ Routable(y)
  <2>1. x \in Positions /\ Own(RouteOf(x)) /\ RouteOf(x).dst = <<Ip(x).family, Ip(x).net>>
    BY <1>a, <1>3, ManualFacts, RouteFacts
  <2>2. Through(RouteOf(x).dst) \notin table
    BY <2>1, <1>3 DEF TableInv
  <2>3. ASSUME Ip(x).family = "v4", device.address["v4"] = Ip(x).net PROVE FALSE
    <3>1. device.address["v4"] # NoNet
      BY <2>1, <2>3, <1>a, PositionFacts, DevicesAssumption
    <3>2. OwnPrefix \in table
      BY <3>1, <1>1 DEF LinkInv, TableInv
    <3>3. RouteOf(x).dst = OwnPrefix.dst
      BY <2>1, <2>3 DEF OwnPrefix
    <3>4. QED
      BY <3>2, <3>3, <2>1, <1>3 DEF TableInv
  <2>4. PICK y \in Positions : y # x /\ NotAfter(y, x) /\ RouteOf(y) = RouteOf(x) /\ Routable(y)
    BY <1>3, <2>2, <2>3 DEF Obstructed
  <2>5. y \in Manual
    BY <1>a, <1>3, <2>4, ManualFacts
  <2>6. QED
    BY <2>4, <2>5
<1>4. QED
  BY <1>2, <1>3

\* The loop begins.
LEMMA TeardownBegins ==
    ASSUME TypeOK, RouteInv, [Next]_vars, others' = 0, faults \subseteq {"dns"},
           LinkInv, TableInv, TeardownInv, wg_disconnect
    PROVE  Found' /\ Counted'
<1>p. UNCHANGED profile
  BY NextKeepsProfile
<1>k. /\ Manual' = Manual
      /\ \A x : RouteOf(x)' = RouteOf(x) /\ Routable(x)' = Routable(x)
      /\ \A x, y : NotAfter(x, y)' = NotAfter(x, y)
  BY <1>p, ProfileKept
<1>o. \A x : Obstructed(x)' <=> Obstructed(x)
  BY ObstructionKept
<1>1. pc = "connected" /\ todo = {} /\ failed = FALSE /\ UNCHANGED <<table, failed>> /\ todo' = Manual
  BY DEF wg_disconnect, Teardown, Manual, TeardownInv, LinkInv, kernel, call, TypeOK
<1>2. ASSUME NEW x \in todo', Obstructed(x)' PROVE Unroutable(x)'
  <2>1. x \in Manual /\ Obstructed(x)
    BY <1>1, <1>2, <1>o
  <2>2. \/ ~Routable(x) \/ RouteOf(x) \notin table
        \/ \E y \in Manual : y # x /\ NotAfter(y, x) /\ RouteOf(y) = RouteOf(x) /\ Routable(y)
    BY <2>1, <1>1, ConnectedFacts
  <2>3. QED
    BY <2>2, <1>1, <1>k DEF Unroutable
<1>3. ASSUME NEW x \in todo', ~(Obstructed(x)') PROVE RouteOf(x)' \in table'
  <2>1. RouteOf(x) \in table
    BY <1>1, <1>3, <1>o, ConnectedFacts
  <2>2. QED
    BY <2>1, <1>1, <1>k
<1>4. Found'
  BY <1>2, <1>3 DEF Found
<1>5. Counted'
  BY <1>1, <1>k DEF Counted
<1>6. QED
  BY <1>4, <1>5

\* The loop goes on.
LEMMA TeardownGoesOn ==
    ASSUME TypeOK, RouteInv, [Next]_vars, others' = 0, faults \subseteq {"dns"},
           LinkInv, Found, Counted, delete_route
    PROVE  Found' /\ Counted'
<1>p. UNCHANGED profile
  BY NextKeepsProfile
<1>k. /\ Manual' = Manual
      /\ \A x : RouteOf(x)' = RouteOf(x) /\ Routable(x)' = Routable(x)
      /\ \A x, y : NotAfter(x, y)' = NotAfter(x, y)
  BY <1>p, ProfileKept
<1>o. \A x : Obstructed(x)' <=> Obstructed(x)
  BY ObstructionKept
<1>a. device \in Devices
  BY DEF TypeOK
<1>m. todo \subseteq Manual /\ Manual \subseteq Positions
  BY <1>a, ManualFacts DEF RouteInv
<1>1. PICK x \in todo :
        /\ Visits(x) /\ todo' = todo \ {x}
        /\ \/ Deletable(x) /\ table' = table \ {RouteOf(x)} /\ failed' = failed
           \/ ~Deletable(x) /\ failed' = TRUE /\ table' = table
  BY DEF delete_route
<1>2. link = "ours"
  BY DEF LinkInv, delete_route
<1>3. \A y \in todo : NotAfter(x, y)
  BY <1>1 DEF Visits
<1>4. ~Deletable(x) <=> Obstructed(x)
  <2>1. ASSUME ~Obstructed(x) PROVE Deletable(x)
    BY <2>1, <1>2 DEF Found, Deletable, Obstructed
  <2>2. ASSUME Obstructed(x), Deletable(x) PROVE FALSE
    <3>1. PICK y \in todo : y # x /\ NotAfter(y, x)
      BY <2>2 DEF Found, Unroutable, Deletable
    <3>2. QED
      BY <3>1, <1>3, <1>m, <1>a, ManualFacts
  <2>3. QED
    BY <2>1, <2>2
<1>5. ASSUME NEW y \in todo', Obstructed(y)' PROVE Unroutable(y)'
  <2>1. y \in todo /\ Unroutable(y)
    BY <1>5, <1>1, <1>o DEF Found
  <2>2. CASE ~Routable(y) \/ RouteOf(y) \notin table
    BY <2>2, <1>1, <1>k DEF Unroutable
  <2>3. ASSUME NEW z \in todo, z # y, NotAfter(z, y), RouteOf(z) = RouteOf(y), Routable(z)
        PROVE  Unroutable(y)'
    <3>1. CASE z # x
      <4>1. z \in todo'
        BY <1>1, <3>1
      <4>2. QED
        BY <4>1, <2>3, <1>k DEF Unroutable
    <3>2. CASE z = x
      <4>1. RouteOf(y) \notin table'
        BY <3>2, <2>3, <1>1, <1>2 DEF Deletable
      <4>2. QED
        BY <4>1, <1>k DEF Unroutable
    <3>3. QED
      BY <3>1, <3>2
  <2>4. QED
    BY <2>1, <2>2, <2>3 DEF Unroutable
<1>6. ASSUME NEW y \in todo', ~(Obstructed(y)') PROVE RouteOf(y)' \in table'
  <2>1. y \in todo /\ y # x /\ ~Obstructed(y) /\ RouteOf(y) \in table
    BY <1>6, <1>1, <1>o DEF Found
  <2>2. ASSUME Deletable(x) PROVE RouteOf(x) # RouteOf(y)
    <3>1. Routable(x) /\ x \in Positions
      BY <2>2, <1>m DEF Deletable
    <3>2. QED
      BY <3>1, <2>1, <1>3 DEF Obstructed
  <2>3. RouteOf(y) \in table'
    BY <2>1, <2>2, <1>1
  <2>4. QED
    BY <2>3, <1>k
<1>7. Found'
  BY <1>5, <1>6 DEF Found
<1>8. failed' <=> \E y \in Manual \ todo' : Obstructed(y)
  <2>1. Manual \ todo' = (Manual \ todo) \cup {x}
    BY <1>1, <1>m
  <2>2. QED
    BY <2>1, <1>1, <1>4 DEF Counted
<1>9. Counted'
  BY <1>8, <1>k, <1>o DEF Counted
<1>10. QED
  BY <1>7, <1>9

\* Where nothing fails either, the teardown fails at an obstructed AllowedIP and
\* nowhere else.
LEMMA TeardownStep ==
    ASSUME TypeOK, RouteInv, [Next]_vars, others' = 0, faults \subseteq {"dns"},
           LinkInv, TableInv, TeardownInv
    PROVE  TeardownInv'
<1>p. UNCHANGED profile
  BY NextKeepsProfile
<1>k. Manual' = Manual
  BY <1>p, ProfileKept
<1>o. \A x : Obstructed(x)' <=> Obstructed(x)
  BY ObstructionKept
<1>q. ~(others_add_route \/ others_delete_route \/ others_delete_link)
  BY QuietStep
<1>c. (\E x \in Manual : Obstructed(x))' <=> \E x \in Manual : Obstructed(x)
  BY <1>k, <1>o
<1>1. CASE UNCHANGED vars
  <2>1. UNCHANGED <<pc, todo, failed, reply, link, table>>
    BY <1>1 DEF vars, kernel, call
  <2>2. (Found' <=> Found) /\ (Counted' <=> Counted)
    BY <2>1, <1>k, <1>o, <1>p, ProfileKept DEF Found, Counted, Unroutable
  <2>3. QED
    BY <2>1, <2>2, <1>c DEF TeardownInv
<1>2. ASSUME pc \notin {"connected", "delete", "del_device", "end"},
             pc' \notin {"connected", "delete", "del_device", "end"}, UNCHANGED <<reply, failed>>
      PROVE  TeardownInv'
  BY <1>2 DEF TeardownInv
<1>3. CASE check_awg31_support \/ wg_add_device \/ wg_set_device \/ resolve_endpoints
  <2>1. \/ pc' \in {"add", "resolve", "set", "address4", "cleanup"} /\ UNCHANGED <<reply, failed>>
        \/ pc' = "end" /\ reply' = "failure"
    BY <1>3 DEF check_awg31_support, wg_add_device, wg_set_device, resolve_endpoints, Failure, call
  <2>2. pc \in {"check", "add", "resolve", "set"}
    BY <1>3 DEF check_awg31_support, wg_add_device, wg_set_device, resolve_endpoints
  <2>3. QED
    BY <1>2, <2>1, <2>2 DEF TeardownInv
<1>4. CASE \/ add_ip_address("v4", "address4", "address6") \/ add_ip_address("v6", "address6", "up")
           \/ set_interface_up \/ set_interface_mtu \/ add_route
  <2>1. /\ pc \in {"address4", "address6", "up", "mtu", "routes"}
        /\ pc' \in {"address6", "up", "mtu", "routes", "cleanup"} /\ UNCHANGED <<reply, failed>>
    BY <1>4 DEF add_ip_address, set_interface_up, set_interface_mtu, add_route, Refused, LocalFailure, call
  <2>2. QED
    BY <1>2, <2>1
<1>5. CASE cleanup
  BY <1>5 DEF cleanup, Failure, TeardownInv
<1>6. CASE task_connected
  BY <1>6 DEF task_connected, TeardownInv
<1>7. CASE task_unconfigurable \/ task_abandoned
  BY <1>7 DEF task_unconfigurable, task_abandoned, Teardown, TeardownInv, call
<1>8. CASE wg_disconnect
  <2>1. Found' /\ Counted'
    BY <1>8, TeardownBegins
  <2>2. pc = "connected" /\ pc' = "delete" /\ reply' = reply
    BY <1>8 DEF wg_disconnect, Teardown, call
  <2>3. QED
    BY <2>1, <2>2 DEF TeardownInv
<1>9. CASE delete_route
  <2>1. pc = "delete" /\ pc' = "delete" /\ reply' = reply
    BY <1>9 DEF delete_route
  <2>2. reply = "config" => Found' /\ Counted'
    BY <2>1, <1>9, TeardownGoesOn DEF TeardownInv
  <2>3. QED
    BY <2>1, <2>2 DEF TeardownInv
<1>10. CASE set_interface_down
  <2>1. pc = "delete" /\ todo = {} /\ pc' = "del_device" /\ UNCHANGED <<link, reply, failed>>
    BY <1>10 DEF set_interface_down, kernel, call
  <2>2. link = "ours"
    BY <2>1 DEF LinkInv
  <2>3. reply = "config" => (failed <=> \E x \in Manual : Obstructed(x))
    BY <2>1 DEF TeardownInv, Counted
  <2>4. QED
    BY <2>1, <2>2, <2>3, <1>c DEF TeardownInv
<1>11. CASE wg_del_device
  <2>1. pc = "del_device" /\ pc' = "end" /\ link' = "none" /\ Answer(FALSE)
    BY <1>11 DEF wg_del_device, LinkRemoved, TeardownInv
  <2>2. reply = "config" => (failed <=> \E x \in Manual : Obstructed(x))
    BY <2>1 DEF TeardownInv
  <2>3. reply' \in {"disconnected", "error"} => reply = "config" /\ (reply' = "error" <=> failed)
    BY <2>1 DEF TeardownInv, Answer
  <2>4. QED
    BY <2>1, <2>2, <2>3, <1>c DEF TeardownInv
<1>12. QED
  BY <1>q, <1>1, <1>3, <1>4, <1>5, <1>6, <1>7, <1>8, <1>9, <1>10, <1>11 DEF Next

\* The whole inductive invariant.
THEOREM FullInvariance == Spec => []IInv
<1>1. Init => IInv
  BY InitType, InitRoute, InitQuiet DEF IInv
<1>2. IInv /\ [Next]_vars => IInv'
  <2> SUFFICES ASSUME IInv, [Next]_vars PROVE IInv'
    OBVIOUS
  <2>1. TypeOK /\ RouteInv /\ TypeOK' /\ RouteInv'
    BY TypeStep, RouteStep DEF IInv
  <2>2. ASSUME others' = 0 PROVE LinkInv /\ TableInv /\ LinkInv' /\ TableInv'
    BY <2>1, <2>2, QuietStep, LinkStep, TableInvStep DEF IInv
  <2>3. ASSUME others' = 0, faults' \subseteq {"dns"} PROVE TeardownInv'
    <3>1. faults \subseteq {"dns"} /\ others = 0
      BY <2>1, <2>3, NextKeepsProfile, QuietStep DEF profile
    <3>2. QED
      BY <2>1, <2>2, <2>3, <3>1, TeardownStep DEF IInv
  <2>4. QED
    BY <2>1, <2>2, <2>3 DEF IInv
<1>3. QED
  BY <1>1, <1>2, PTL DEF Spec

\* A tunnel that is announced has what the profile asks for.
THEOREM UpIsComplete == Spec => []UpMeansComplete
<1>1. IInv => UpMeansComplete
  <2> SUFFICES ASSUME IInv, pc = "connected", others = 0
               PROVE  /\ link = "ours"
                      /\ \A f \in Families : device.address[f] # NoNet => f \in addresses \cup refused
                      /\ up \/ "up" \in refused
                      /\ \A x \in Positions : RouteOf(x) \in table => x \in Manual
                      /\ (up /\ "route" \notin faults) =>
                            \A x \in Manual : RouteOf(x) \in table \/ Obstructed(x)
    BY ManualFacts DEF UpMeansComplete, Manual, IInv, TypeOK
  <2>1. TypeOK /\ RouteInv /\ LinkInv /\ TableInv
    BY DEF IInv
  <2>2. /\ link = "ours"
        /\ \A f \in Families : device.address[f] # NoNet => f \in addresses \cup refused
        /\ up \/ "up" \in refused
    BY <2>1 DEF LinkInv, Families
  <2>3. \A x \in Positions : RouteOf(x) \in table => x \in Manual
    <3>1. ASSUME NEW x \in Positions, RouteOf(x) \in table PROVE x \in Manual
      <4>1. PICK y \in Manual : RouteOf(y) = RouteOf(x)
        BY <2>1, <3>1, RouteFacts DEF TypeOK, RouteInv
      <4>2. QED
        BY <2>1, <3>1, <4>1, ManualFacts DEF TypeOK
    <3>2. QED
      BY <3>1
  <2>4. todo = {}
    BY <2>1 DEF LinkInv
  <2>5. (up /\ "route" \notin faults) => \A x \in Manual : RouteOf(x) \in table \/ Obstructed(x)
    BY <2>1, <2>4 DEF TableInv
  <2>6. QED
    BY <2>2, <2>3, <2>5
<1>2. QED
  BY <1>1, FullInvariance, PTL

\* An error reported by Disconnect has its cause in the profile or the table.
THEOREM DisconnectErrorIsCaused == Spec => []DisconnectErrorHasCause
<1>1. IInv => DisconnectErrorHasCause
  BY DEF IInv, TeardownInv, DisconnectErrorHasCause, Manual
<1>2. QED
  BY <1>1, FullInvariance, PTL
=============================================================================
