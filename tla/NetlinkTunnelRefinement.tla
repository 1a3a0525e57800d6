----------------------- MODULE NetlinkTunnelRefinement -----------------------
(***************************************************************************)
(* NetlinkTunnel implements TunnelBackend, whatever the device, the table, *)
(* the failures and the others.                                            *)
(***************************************************************************)
EXTENDS NetlinkTunnelProofs

-----------------------------------------------------------------------------
Routed == \E r \in table : Own(r)

\* The step is one of the backend, or none it can tell.
Refines == [Backend!Next]_(Backend!vars)

\* A step that the backend does not notice.
LEMMA Unnoticed ==
    ASSUME UNCHANGED <<BackendPhase, link, reply, faults>>, Routed' = Routed
    PROVE  Refines
BY DEF Refines, Routed, Backend!vars

\* A step after which there may be fewer routes.
LEMMA RoutesGone ==
    ASSUME UNCHANGED <<BackendPhase, link, reply, faults>>, BackendPhase # "over",
           Routed' => Routed
    PROVE  Refines
<1>1. CASE Routed' = Routed
  BY <1>1, Unnoticed
<1>2. CASE ~Routed'
  BY <1>2 DEF Refines, Routed, Backend!Next, Backend!RoutesGo
<1>3. QED
  BY <1>1, <1>2

\* Without routes outside RoutesPhase and without a link, and none left once the
\* link is removed.
LEMMA RoutedFacts ==
    ASSUME RouteInv
    PROVE  /\ pc \notin RoutesPhase => ~Routed
           /\ link # "ours" => ~Routed
           /\ LinkRemoved => ~Routed'
           /\ table' = WithoutLink => ~Routed'
<1>1. ASSUME table' = WithoutLink PROVE ~Routed'
  BY <1>1, WithoutLinkFacts DEF Routed, Own
<1>2. QED
  BY <1>1 DEF RouteInv, Routed, Own, LinkRemoved

-----------------------------------------------------------------------------
(* The steps.                                                              *)

\* Up to the completed connect: a failure finds no routes, and deletes the link.
LEMMA ConnectRefines ==
    ASSUME RouteInv,
           check_awg31_support \/ wg_add_device \/ resolve_endpoints \/ wg_set_device
           \/ add_ip_address("v4", "address4", "address6") \/ add_ip_address("v6", "address6", "up")
           \/ set_interface_up \/ set_interface_mtu \/ cleanup
    PROVE  Refines
<1>f. UNCHANGED faults
  BY NextKeepsProfile DEF Next, profile
<1>1. CASE check_awg31_support
  <2>1. UNCHANGED link /\ Routed' = Routed
    BY <1>1 DEF check_awg31_support, kernel, Routed, Own
  <2>2. CASE pc' = "add" /\ UNCHANGED reply
    BY <1>1, <1>f, <2>1, <2>2, Unnoticed DEF check_awg31_support, BackendPhase
  <2>3. CASE Failure
    BY <1>1, <1>f, <2>1, <2>3
    DEF check_awg31_support, Failure, BackendPhase, Refines, Routed, Backend!Next, Backend!Refuse
  <2>4. QED
    BY <1>1, <2>2, <2>3 DEF check_awg31_support, call
<1>2. CASE wg_add_device
  <2>1. Routed' = Routed
    BY <1>2 DEF wg_add_device, Routed, Own
  <2>2. CASE link' = "ours" /\ pc' = "resolve" /\ UNCHANGED reply
    BY <1>2, <1>f, <2>1, <2>2
    DEF wg_add_device, BackendPhase, Refines, Routed, Backend!Next, Backend!Acquire
  <2>3. CASE Failure /\ UNCHANGED link
    BY <1>2, <1>f, <2>1, <2>3
    DEF wg_add_device, Failure, BackendPhase, Refines, Routed, Backend!Next, Backend!Refuse
  <2>4. QED
    BY <1>2, <2>2, <2>3 DEF wg_add_device, call
<1>3. CASE resolve_endpoints
  BY <1>3, <1>f, Unnoticed DEF resolve_endpoints, kernel, BackendPhase, Routed, Own
<1>4. CASE wg_set_device
  BY <1>4, <1>f, Unnoticed DEF wg_set_device, kernel, call, BackendPhase, Routed, Own
<1>5. CASE add_ip_address("v4", "address4", "address6") \/ add_ip_address("v6", "address6", "up")
  BY <1>5, <1>f, Unnoticed
  DEF add_ip_address, LocalFailure, Refused, kernel, BackendPhase, Routed, Own
<1>6. CASE set_interface_up
  <2>1. \A r \in Connected : ~Own(r)
    BY DEF Connected, Own
  <2>2. Routed' = Routed
    BY <1>6, <2>1 DEF set_interface_up, LocalFailure, Refused, kernel, Routed, Own
  <2>3. QED
    BY <1>6, <1>f, <2>2, Unnoticed DEF set_interface_up, LocalFailure, Refused, kernel, BackendPhase
<1>7. CASE set_interface_mtu
  <2>1. Routed' = Routed /\ UNCHANGED <<link, reply>>
    BY <1>7 DEF set_interface_mtu, LocalFailure, kernel, Routed, Own
  <2>2. CASE pc' = "routes"
    BY <1>7, <1>f, <2>1, <2>2
    DEF set_interface_mtu, BackendPhase, Refines, Routed, Backend!Next, Backend!Complete
  <2>3. CASE pc' = "cleanup"
    BY <1>7, <1>f, <2>1, <2>3, Unnoticed DEF set_interface_mtu, BackendPhase
  <2>4. QED
    BY <1>7, <2>2, <2>3 DEF set_interface_mtu, LocalFailure
<1>8. CASE cleanup
  <2>1. ~Routed /\ pc' = "end" /\ reply' = "failure"
    BY <1>8, RoutedFacts DEF cleanup, Failure, RoutesPhase
  <2>2. CASE LinkRemoved
    BY <1>8, <1>f, <2>1, <2>2, RoutedFacts
    DEF cleanup, LinkRemoved, BackendPhase, Refines, Routed, Backend!Next, Backend!GiveUp, Backend!LinkDeleted
  <2>3. CASE (link # "ours" \/ "delete" \in faults) /\ UNCHANGED kernel
    BY <1>8, <1>f, <2>1, <2>3
    DEF cleanup, kernel, BackendPhase, Refines, Routed, Backend!Next, Backend!GiveUp, Backend!LinkDeleted
  <2>4. QED
    BY <1>8, <2>2, <2>3 DEF cleanup
<1>9. QED
  BY <1>1, <1>2, <1>3, <1>4, <1>5, <1>6, <1>7, <1>8

\* The loops over the routes.
LEMMA RoutesRefine ==
    ASSUME RouteInv, add_route \/ delete_route
    PROVE  Refines
<1>f. UNCHANGED faults
  BY NextKeepsProfile DEF Next, profile
<1>1. CASE add_route
  <2>1. UNCHANGED <<pc, link, reply>> /\ pc = "routes"
    BY <1>1 DEF add_route, call
  <2>2. CASE UNCHANGED table
    BY <1>f, <2>1, <2>2, Unnoticed DEF BackendPhase, Routed, Own
  <2>3. CASE \E x \in todo : Addable(x) /\ table' = table \cup {RouteOf(x)}
    <3>1. PICK x \in todo : link = "ours" /\ table' = table \cup {RouteOf(x)}
      BY <2>3 DEF Addable
    <3>2. Own(RouteOf(x)) /\ RouteOf(x) \in table'
      BY <3>1 DEF RouteOf, Own
    <3>3. Routed'
      BY <3>2 DEF Routed, Own
    <3>4. QED
      BY <1>f, <2>1, <3>1, <3>3 DEF BackendPhase, Refines, Routed, Backend!Next, Backend!AddRoute
  <2>4. PICK x \in todo : (Addable(x) /\ table' = table \cup {RouteOf(x)}) \/ UNCHANGED table
    BY <1>1 DEF add_route
  <2>5. QED
    BY <2>2, <2>3, <2>4
<1>2. CASE delete_route
  <2>1. UNCHANGED <<pc, link, reply>> /\ pc = "delete" /\ table' \subseteq table
    BY <1>2 DEF delete_route
  <2>2. QED
    BY <1>f, <2>1, RoutesGone DEF BackendPhase, Routed, Own
<1>3. QED
  BY <1>1, <1>2

\* What the service does with the result, and the end of the session.
LEMMA SessionRefines ==
    ASSUME RouteInv,
           task_connected \/ task_unconfigurable \/ task_abandoned \/ wg_disconnect
           \/ set_interface_down \/ wg_del_device,
           pc = "routes" => reply = "none"
    PROVE  Refines
<1>f. UNCHANGED faults
  BY NextKeepsProfile DEF Next, profile
<1>1. CASE task_connected
  BY <1>1, <1>f
  DEF task_connected, kernel, BackendPhase, Refines, Routed, Own, Backend!Next, Backend!Announce
<1>2. CASE task_unconfigurable \/ task_abandoned
  BY <1>2, <1>f
  DEF task_unconfigurable, task_abandoned, Teardown, kernel, call, BackendPhase, Refines, Routed, Own,
      Backend!Next, Backend!Abandon
<1>3. CASE wg_disconnect
  BY <1>3, <1>f
  DEF wg_disconnect, Teardown, kernel, call, BackendPhase, Refines, Routed, Own,
      Backend!Next, Backend!Disconnect
<1>4. CASE set_interface_down
  <2>1. Routed' => Routed
    BY <1>4, RoutedFacts DEF set_interface_down, kernel, Routed, Own
  <2>2. UNCHANGED <<BackendPhase, link, reply>> /\ BackendPhase # "over"
    BY <1>4 DEF set_interface_down, kernel, call, BackendPhase
  <2>3. QED
    BY <1>f, <2>1, <2>2, RoutesGone
<1>5. CASE wg_del_device
  <2>1. BackendPhase = "releasing" /\ BackendPhase' = "over"
    BY <1>5 DEF wg_del_device, BackendPhase
  <2>2. CASE LinkRemoved /\ Answer(FALSE)
    <3>1. link' = "none" /\ ~Routed'
      BY <2>2, RoutedFacts DEF LinkRemoved
    <3>2. reply' = reply \/ (reply = "config" /\ reply' \in {"error", "disconnected"})
      BY <2>2 DEF Answer
    <3>3. reply' # reply \/ reply # "config"
      BY <2>2 DEF Answer
    <3>4. QED
      BY <1>f, <2>1, <3>1, <3>2, <3>3
      DEF Refines, Routed, Backend!Next, Backend!Release, Backend!LinkDeleted
  <2>3. CASE (link # "ours" \/ "delete" \in faults) /\ UNCHANGED kernel /\ Answer(TRUE)
    <3>1. link' = link /\ Routed' = Routed /\ (link # "ours" => ~Routed)
      BY <2>3, RoutedFacts DEF kernel, Routed, Own
    <3>2. \/ reply # "config" /\ reply' = reply
          \/ reply = "config" /\ reply' = "error"
      BY <2>3 DEF Answer
    <3>3. QED
      BY <1>f, <2>1, <2>3, <3>1, <3>2
      DEF Refines, Routed, Backend!Next, Backend!Release, Backend!LinkDeleted
  <2>4. QED
    BY <1>5, <2>2, <2>3 DEF wg_del_device
<1>6. QED
  BY <1>1, <1>2, <1>3, <1>4, <1>5

\* Others: their routes are none of the session's, which they may take away.
LEMMA OthersRefine ==
    ASSUME TypeOK, RouteInv, others_add_route \/ others_delete_route \/ others_delete_link
    PROVE  Refines
<1>f. UNCHANGED faults
  BY NextKeepsProfile DEF Next, profile
<1>0. UNCHANGED <<BackendPhase, reply>> /\ BackendPhase # "over"
  <2>1. pc' = pc /\ pc # "end" /\ UNCHANGED reply
    BY DEF others_add_route, others_delete_route, others_delete_link, Others, call
  <2>2. QED
    BY <2>1 DEF BackendPhase, TypeOK
<1>1. CASE others_add_route
  <2>1. Routed' = Routed /\ UNCHANGED link
    BY <1>1, ThroughFacts DEF others_add_route, Routed, Own
  <2>2. QED
    BY <1>f, <1>0, <2>1, Unnoticed
<1>2. CASE others_delete_route
  <2>1. (Routed' => Routed) /\ UNCHANGED link
    BY <1>2 DEF others_delete_route, Routed, Own
  <2>2. QED
    BY <1>f, <1>0, <2>1, RoutesGone
<1>3. CASE others_delete_link
  <2>1. link' = "none" /\ ~Routed'
    BY <1>3, RoutedFacts DEF others_delete_link, LinkRemoved
  <2>2. QED
    BY <1>f, <1>0, <2>1 DEF Refines, Routed, Backend!Next, Backend!LinkGoes
<1>4. QED
  BY <1>1, <1>2, <1>3

-----------------------------------------------------------------------------
(* The refinement.                                                         *)

\* Nobody is told anything before the connect is over.
ReplyInv == pc \notin {"connected", "delete", "del_device", "end"} => reply = "none"

\* Every step keeps that.
LEMMA ReplyStep == ReplyInv /\ [Next]_vars => ReplyInv'
<1> SUFFICES ASSUME ReplyInv, [Next]_vars PROVE ReplyInv'
  OBVIOUS
<1>1. CASE check_awg31_support \/ wg_add_device \/ resolve_endpoints \/ wg_set_device \/ cleanup
  BY <1>1
  DEF check_awg31_support, wg_add_device, resolve_endpoints, wg_set_device, cleanup, Failure, call, ReplyInv
<1>2. CASE \/ add_ip_address("v4", "address4", "address6") \/ add_ip_address("v6", "address6", "up")
           \/ set_interface_up \/ set_interface_mtu
  BY <1>2 DEF add_ip_address, set_interface_up, set_interface_mtu, LocalFailure, Refused, ReplyInv
<1>3. CASE add_route \/ delete_route
  BY <1>3 DEF add_route, delete_route, call, ReplyInv
<1>4. CASE \/ task_connected \/ task_unconfigurable \/ task_abandoned \/ wg_disconnect
           \/ set_interface_down \/ wg_del_device
  BY <1>4
  DEF task_connected, task_unconfigurable, task_abandoned, wg_disconnect, Teardown,
      set_interface_down, wg_del_device, call, ReplyInv
<1>5. CASE others_add_route \/ others_delete_route \/ others_delete_link
  BY <1>5 DEF others_add_route, others_delete_route, others_delete_link, Others, call, ReplyInv
<1>6. CASE UNCHANGED vars
  BY <1>6 DEF vars, call, ReplyInv
<1>7. QED
  BY <1>1, <1>2, <1>3, <1>4, <1>5, <1>6 DEF Next

\* A session of the netlink backend is one of TunnelBackend: the rollback of a
\* failed connect, the order of routes and announcement, and what the answer to a
\* Disconnect says (awg_connection_manager_netlink_connect, _disconnect and
\* cleanup_connection_manager).
THEOREM BackendRefinement == Spec => ImplementsBackend
<1>1. Init => Backend!Init /\ ReplyInv
  BY DEF Init, Through, Own, BackendPhase, Backend!Init, ReplyInv
<1>2. TypeOK /\ RouteInv /\ ReplyInv /\ [Next]_vars => [Backend!Next]_(Backend!vars)
  <2> SUFFICES ASSUME TypeOK, RouteInv, ReplyInv, [Next]_vars PROVE Refines
    BY DEF Refines
  <2>1. CASE UNCHANGED vars
    BY <2>1, Unnoticed DEF vars, profile, kernel, call, BackendPhase, Routed, Own
  <2>2. CASE Next
    BY <2>2, ConnectRefines, RoutesRefine, SessionRefines, OthersRefine DEF Next, ReplyInv
  <2>3. QED
    BY <2>1, <2>2
<1>3. QED
  BY <1>1, <1>2, Invariance, ReplyStep, PTL DEF Spec, ImplementsBackend, Backend!Spec
=============================================================================
