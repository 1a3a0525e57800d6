------------------------- MODULE PluginServiceProofs -------------------------
(* Proofs about PluginService, for every set of profiles, backends and faults. *)
EXTENDS PluginService, TLAPS

-----------------------------------------------------------------------------
(* Facts about the data, so that records stay folded below.                *)

\* A profile names an interface and some families, and is not "no task".
LEMMA ProfileFacts ==
    \A p \in Profiles : /\ p.ifname \in IfNames
                        /\ p.auto \in SUBSET Families
                        /\ p # NoTask
  BY ConstantsAssumption DEF Profile

\* A connection manager has an interface name and is not NULL.
LEMMA ManagerFacts ==
    \A m \in Manager : m.ifname \in IfNames /\ m # NoManager
  BY ConstantsAssumption DEF Manager

\* What a successful backend hands over is a connection manager.
LEMMA NewManager ==
    \A i \in IfNames : \A b \in {"netlink", "external"} :
        /\ [ifname |-> i, backend |-> b] \in Manager
        /\ [ifname |-> i, backend |-> b].ifname = i
  BY DEF Manager

\* A freshly started service satisfies the invariant.
LEMMA InitInv == Init => IInv
  BY ConstantsAssumption
  DEF Init, IInv, TypeOK, TaskInv, StateInv, ProcInv, OwnedLinkHasHandle, Owned,
      WorkerHasLink, StoppedMeansReleased, FlagBelongsToTask,
      RoutesOnlyForManualFamilies, WorkerStates

\* A step that changes nothing preserves the invariant.
LEMMA StutterInv == IInv /\ UNCHANGED vars => IInv'
  BY DEF IInv, TypeOK, TaskInv, StateInv, ProcInv, OwnedLinkHasHandle, Owned,
      WorkerHasLink, StoppedMeansReleased, FlagBelongsToTask,
      RoutesOnlyForManualFamilies, WorkerStates,
      vars, libnm, task, priv, kernel, history

-----------------------------------------------------------------------------
\* Every step of the worker thread preserves the invariant.
LEMMA WorkerInv == IInv /\ Worker => IInv'
<1> SUFFICES ASSUME IInv, Worker PROVE IInv'
  OBVIOUS
<1> USE DEF IInv, TypeOK, TaskInv, StateInv, ProcInv, StoppedMeansReleased,
        FlagBelongsToTask, WorkerStates, WorkerGoes, WorkerFrame,
        libnm, priv, kernel, history
<1>0. /\ connect_task \in Profiles /\ connect_task.ifname \in IfNames
      /\ connect_task.auto \in SUBSET Families
      /\ worker # "none" /\ worker # "ready"
  BY ProfileFacts DEF Worker, connect_worker, netlink_add_device, netlink_configure,
     add_routes, external_connect
<1>1. CASE connect_worker
  BY <1>0, <1>1, ConstantsAssumption
  DEF connect_worker, OwnedLinkHasHandle, Owned, WorkerHasLink, RoutesOnlyForManualFamilies
<1>2. CASE netlink_add_device
  <2>1. (TypeOK /\ TaskInv /\ StateInv /\ ProcInv /\ StoppedMeansReleased /\ FlagBelongsToTask)'
    BY <1>0, <1>2 DEF netlink_add_device
  <2>2. OwnedLinkHasHandle'
    BY <1>0, <1>2 DEF netlink_add_device, OwnedLinkHasHandle, Owned, WorkerHasLink
  <2>3. RoutesOnlyForManualFamilies'
    BY <1>0, <1>2 DEF netlink_add_device, RoutesOnlyForManualFamilies, WorkerHasLink
  <2> QED BY <2>1, <2>2, <2>3
<1>3. CASE netlink_configure
  <2>1. CASE WorkerGoes("configure", "routes") /\ UNCHANGED kernel
    BY <1>0, <1>3, <2>1
    DEF netlink_configure, OwnedLinkHasHandle, Owned, WorkerHasLink, RoutesOnlyForManualFamilies
  <2>2. ASSUME NEW ok \in BOOLEAN,
               WorkerGoes("configure", "failed"),
               manager_disconnect([ifname |-> connect_task.ifname, backend |-> "netlink"], ok)
        PROVE  IInv'
    <3>1. /\ links' = IF ok THEN links \ {connect_task.ifname} ELSE links
          /\ orphans' = IF ok THEN orphans ELSE orphans \cup {connect_task.ifname}
          /\ routes' = {}
      BY <2>2 DEF manager_disconnect
    <3>2. connect_task.ifname \in Owned
      BY <1>0, <2>2 DEF OwnedLinkHasHandle, WorkerHasLink
    <3>3. (TypeOK /\ TaskInv /\ StateInv /\ ProcInv /\ StoppedMeansReleased /\ FlagBelongsToTask)'
      BY <1>0, <1>3, <2>2, <3>1, <3>2 DEF netlink_configure, Owned
    <3>4. OwnedLinkHasHandle'
      BY <1>0, <1>3, <2>2, <3>1 DEF netlink_configure, OwnedLinkHasHandle, Owned, WorkerHasLink
    <3>5. RoutesOnlyForManualFamilies'
      BY <1>0, <1>3, <2>2, <3>1 DEF netlink_configure, RoutesOnlyForManualFamilies, WorkerHasLink
    <3> QED BY <3>3, <3>4, <3>5
  <2> QED BY <1>3, <2>1, <2>2 DEF netlink_configure
<1>4. CASE add_routes
  <2>0. /\ task_manager' \in Manager /\ task_manager' # NoManager
        /\ task_manager'.ifname = connect_task.ifname
    BY <1>0, <1>4, NewManager, ManagerFacts DEF add_routes
  <2>1. (TypeOK /\ TaskInv /\ StateInv /\ ProcInv /\ StoppedMeansReleased /\ FlagBelongsToTask)'
    BY <1>0, <1>4, <2>0 DEF add_routes
  <2>2. OwnedLinkHasHandle'
    BY <1>0, <1>4 DEF add_routes, OwnedLinkHasHandle, Owned, WorkerHasLink
  <2>3. RoutesOnlyForManualFamilies'
    BY <1>0, <1>4 DEF add_routes, RoutesOnlyForManualFamilies, WorkerHasLink
  <2> QED BY <2>1, <2>2, <2>3
<1>5. CASE external_connect
  <2>1. CASE /\ WorkerGoes("external", "ready")
             /\ connect_task.ifname \notin links
             /\ links' = links \cup {connect_task.ifname}
             /\ task_manager' = [ifname |-> connect_task.ifname, backend |-> "external"]
    <3>0. /\ task_manager' \in Manager /\ task_manager' # NoManager
          /\ task_manager'.ifname = connect_task.ifname
      BY <1>0, <2>1, NewManager, ManagerFacts
    <3>1. (TypeOK /\ TaskInv /\ StateInv /\ ProcInv /\ StoppedMeansReleased /\ FlagBelongsToTask)'
      BY <1>0, <1>5, <2>1, <3>0 DEF external_connect
    <3>2. OwnedLinkHasHandle'
      BY <1>0, <1>5, <2>1 DEF external_connect, OwnedLinkHasHandle, Owned, WorkerHasLink
    <3>3. RoutesOnlyForManualFamilies'
      BY <1>0, <1>5, <2>1 DEF external_connect, RoutesOnlyForManualFamilies, WorkerHasLink
    <3> QED BY <3>1, <3>2, <3>3
  <2>2. CASE WorkerGoes("external", "failed") /\ UNCHANGED <<links, task_manager>>
    BY <1>0, <1>5, <2>2
    DEF external_connect, OwnedLinkHasHandle, Owned, WorkerHasLink, RoutesOnlyForManualFamilies
  <2> QED BY <1>5, <2>1, <2>2 DEF external_connect
<1> QED
  BY <1>1, <1>2, <1>3, <1>4, <1>5 DEF Worker

-----------------------------------------------------------------------------
\* A teardown takes the manager's link out of the hands of the service, whether
\* or not the kernel let go of it, and all routes with it.
LEMMA CleanupEffect ==
    ASSUME NEW m, NEW auto, NEW ok,
           links \in SUBSET IfNames, orphans \in SUBSET links, m.ifname \in Owned,
           cleanup_connection_manager(m, auto, ok)
    PROVE  /\ links' \in SUBSET IfNames /\ orphans' \in SUBSET links'
           /\ orphans \subseteq orphans'
           /\ Owned' = Owned \ {m.ifname}
           /\ routes' = {}
  BY DEF cleanup_connection_manager, manager_disconnect, Owned

\* The links owned are those of the manager, if there is one ...
LEMMA ManagerOwns ==
    ASSUME IInv, conn_manager # NoManager
    PROVE  conn_manager \in Manager /\ Owned = {conn_manager.ifname}
<1>1. conn_manager \in Manager /\ conn_manager.ifname \in IfNames /\ ~WorkerHasLink
  BY ManagerFacts DEF IInv, TypeOK, TaskInv, StateInv, WorkerHasLink
<1>2. Owned \subseteq IfNames
  BY DEF IInv, TypeOK, Owned
<1> QED BY <1>1, <1>2 DEF IInv, OwnedLinkHasHandle

\* ... or of the finished task.
LEMMA TaskOwns ==
    ASSUME IInv, worker = "ready"
    PROVE  /\ connect_task \in Profiles /\ connect_task.auto \in SUBSET Families
           /\ task_manager \in Manager /\ task_manager # NoManager
           /\ Owned = {task_manager.ifname}
           /\ conn_manager = NoManager
<1>1. /\ connect_task \in Profiles /\ connect_task # NoTask
      /\ task_manager \in Manager /\ task_manager # NoManager
      /\ task_manager.ifname = connect_task.ifname
      /\ conn_manager = NoManager
  BY DEF IInv, TypeOK, TaskInv, StateInv
<1>2. Owned \subseteq IfNames
  BY DEF IInv, TypeOK, Owned
<1>3. connect_task.ifname \in IfNames /\ connect_task.auto \in SUBSET Families
  BY <1>1, ProfileFacts
<1> QED BY <1>1, <1>2, <1>3 DEF IInv, OwnedLinkHasHandle, WorkerHasLink

\* Without either, nothing is owned.
LEMMA NobodyOwns ==
    ASSUME IInv, conn_manager = NoManager, ~WorkerHasLink
    PROVE  Owned = {}
<1>1. Owned \subseteq IfNames
  BY DEF IInv, TypeOK, Owned
<1> QED BY <1>1 DEF IInv, OwnedLinkHasHandle

\* libnm's disconnect, from the main loop or from shutdown, preserves the
\* invariant.
LEMMA DisconnectInv ==
    ASSUME IInv, libnm_disconnect, proc' \in {"running", "quitting", "shutdown"}
    PROVE  IInv'
<1> USE DEF IInv, TypeOK, TaskInv, StateInv, ProcInv, StoppedMeansReleased,
        FlagBelongsToTask, WorkerStates, task
<1>1. PICK ok \in BOOLEAN :
         /\ wg_disconnect(ok)
         /\ reply' \in {"ok", "error"}
         /\ service_state' = "stopped" /\ fail_stop' = FALSE
         /\ UNCHANGED <<connect_task, worker, task_manager, answer>>
  BY DEF libnm_disconnect
<1>2. config_source_id' = FALSE /\ methods' = methods
  BY <1>1 DEF wg_disconnect, cancel_pending_config
<1>3. CASE /\ connect_task # NoTask
           /\ disconnecting' = TRUE /\ ok
           /\ UNCHANGED <<conn_manager, kernel>>
  BY <1>1, <1>2, <1>3
  DEF kernel, OwnedLinkHasHandle, Owned, WorkerHasLink, RoutesOnlyForManualFamilies
<1>4. CASE /\ connect_task = NoTask /\ conn_manager = NoManager /\ ok
           /\ UNCHANGED <<disconnecting, conn_manager, kernel>>
  BY <1>1, <1>2, <1>4
  DEF kernel, OwnedLinkHasHandle, Owned, WorkerHasLink, RoutesOnlyForManualFamilies
<1>5. CASE /\ connect_task = NoTask /\ conn_manager # NoManager
           /\ cleanup_connection_manager(conn_manager, methods, ok)
           /\ conn_manager' = NoManager
           /\ UNCHANGED disconnecting
  <2>1. /\ links' \in SUBSET IfNames /\ orphans' \in SUBSET links'
        /\ Owned' = {} /\ routes' = {}
    <3>1. Owned = {conn_manager.ifname}
      BY <1>5, ManagerOwns
    <3> QED BY <1>5, <3>1, CleanupEffect
  <2>2. OwnedLinkHasHandle'
    BY <1>1, <1>5, <2>1 DEF OwnedLinkHasHandle, WorkerHasLink
  <2> QED BY <1>1, <1>2, <1>5, <2>1, <2>2 DEF RoutesOnlyForManualFamilies, WorkerHasLink
<1> QED BY <1>1, <1>3, <1>4, <1>5 DEF wg_disconnect

\* Every handler of the main loop preserves the invariant.
LEMMA MainLoopInv == IInv /\ MainLoop => IInv'
<1> SUFFICES ASSUME IInv, MainLoop PROVE IInv'
  OBVIOUS
<1> USE DEF IInv, TypeOK, TaskInv, StateInv, ProcInv, StoppedMeansReleased,
        FlagBelongsToTask, WorkerStates, LoopRuns,
        task, priv, kernel, history
<1>1. ASSUME NEW p \in Profiles, wg_connect(p) PROVE IInv'
  <2>0. /\ service_state \in {"init", "stopped"}
        /\ UNCHANGED <<priv, kernel, proc>>
        /\ proc \in {"running", "quitting"}
    BY <1>1 DEF wg_connect, connect_common
  <2>1. CASE /\ connect_task # NoTask
             /\ fail_stop' = TRUE
             /\ UNCHANGED <<service_state, task, priv, history>>
    BY <2>0, <2>1
    DEF OwnedLinkHasHandle, Owned, WorkerHasLink, RoutesOnlyForManualFamilies
  <2>2. CASE /\ connect_task = NoTask
             /\ connect_task' = p /\ worker' = "start"
             /\ service_state' = "starting" /\ fail_stop' = FALSE
             /\ answer' = "none" /\ reply' = "none"
             /\ UNCHANGED <<task_manager, priv>>
    <3>1. ~WorkerHasLink /\ ~WorkerHasLink' /\ connect_task' # NoTask
      BY <2>2, ProfileFacts DEF WorkerHasLink
    <3>2. OwnedLinkHasHandle' /\ RoutesOnlyForManualFamilies'
      BY <2>0, <2>2, <3>1 DEF OwnedLinkHasHandle, Owned, RoutesOnlyForManualFamilies
    <3>3. /\ conn_manager = NoManager /\ ~config_source_id /\ ~disconnecting
          /\ worker = "none" /\ task_manager = NoManager /\ routes = {}
      BY <2>0, <2>2
    <3>4. /\ UNCHANGED <<task_manager, disconnecting, conn_manager, methods, config_source_id>>
          /\ UNCHANGED <<links, routes, orphans, proc>>
      BY <2>0, <2>2
    <3>5. TypeOK'
      BY <2>0, <2>2, <3>4
    <3>6. (TaskInv /\ StateInv /\ ProcInv /\ StoppedMeansReleased /\ FlagBelongsToTask)'
      BY <2>0, <2>2, <3>1, <3>3, <3>4
    <3> QED BY <3>2, <3>5, <3>6
  <2> QED BY <1>1, <2>1, <2>2 DEF wg_connect, connect_common
<1>2. CASE FailStop
  BY <1>2 DEF FailStop, OwnedLinkHasHandle, Owned, WorkerHasLink, RoutesOnlyForManualFamilies
<1>3. CASE Disconnect
  BY <1>3, DisconnectInv DEF Disconnect
<1>4. CASE send_config
  BY <1>4 DEF send_config, OwnedLinkHasHandle, Owned, WorkerHasLink, RoutesOnlyForManualFamilies
<1>5. CASE connect_task_completed
  <2>0. /\ connect_task' = NoTask /\ worker' = "none" /\ task_manager' = NoManager
        /\ UNCHANGED <<service_state, fail_stop, proc, reply>>
        /\ worker \in {"ready", "failed"} /\ connect_task # NoTask
        /\ conn_manager = NoManager /\ ~config_source_id
        /\ proc \in {"running", "quitting"}
    BY <1>5 DEF connect_task_completed, libnm
  <2>1. CASE TaskAbandoned
    <3>0. /\ disconnecting /\ disconnecting' = FALSE
          /\ UNCHANGED <<conn_manager, methods, config_source_id, answer>>
          /\ service_state = "stopped"
      BY <2>1 DEF TaskAbandoned
    <3>1. /\ links' \in SUBSET IfNames /\ orphans' \in SUBSET links'
          /\ Owned' = {} /\ routes' = {}
      <4>1. CASE task_manager # NoManager
        <5>1. Owned = {task_manager.ifname}
          BY <4>1, TaskOwns
        <5>2. PICK ok \in BOOLEAN :
                 cleanup_connection_manager(task_manager, connect_task.auto, ok)
          BY <2>1, <4>1 DEF TaskAbandoned
        <5> QED BY <5>1, <5>2, CleanupEffect
      <4>2. CASE task_manager = NoManager
        <5>1. worker = "failed" /\ UNCHANGED kernel
          BY <2>0, <2>1, <4>2 DEF TaskAbandoned
        <5>2. Owned = {}
          BY <2>0, <5>1, NobodyOwns DEF WorkerHasLink
        <5> QED BY <2>0, <5>1, <5>2 DEF Owned
      <4> QED BY <4>1, <4>2
    <3>2. OwnedLinkHasHandle'
      BY <2>0, <3>0, <3>1 DEF OwnedLinkHasHandle, WorkerHasLink
    <3> QED BY <2>0, <3>0, <3>1, <3>2 DEF RoutesOnlyForManualFamilies, WorkerHasLink
  <2>2. CASE TaskFailed
    <3>1. ~WorkerHasLink
      BY <2>2 DEF TaskFailed, WorkerHasLink
    <3> QED BY <2>0, <2>2, <3>1
        DEF TaskFailed, Failure, OwnedLinkHasHandle, Owned, WorkerHasLink,
            RoutesOnlyForManualFamilies
  <2>3. CASE TaskConnected
    <3>1. /\ conn_manager' = task_manager /\ methods' = connect_task.auto
          /\ config_source_id' = TRUE /\ ~disconnecting /\ worker = "ready"
          /\ UNCHANGED <<disconnecting, links, routes, orphans, answer>>
      BY <2>3 DEF TaskConnected
    <3>2. /\ connect_task.auto \in SUBSET Families
          /\ task_manager \in Manager /\ task_manager # NoManager
          /\ Owned = {task_manager.ifname}
      BY <3>1, TaskOwns
    <3>3. OwnedLinkHasHandle'
      BY <2>0, <3>1, <3>2 DEF OwnedLinkHasHandle, Owned, WorkerHasLink
    <3>4. RoutesOnlyForManualFamilies'
      BY <2>0, <3>1 DEF RoutesOnlyForManualFamilies, WorkerHasLink
    <3> QED BY <2>0, <3>1, <3>2, <3>3, <3>4
  <2>4. CASE TaskUnconfigurable
    <3>1. /\ methods' = connect_task.auto /\ answer' = "failure"
          /\ ~disconnecting /\ worker = "ready"
          /\ UNCHANGED <<disconnecting, conn_manager, config_source_id>>
      BY <2>4 DEF TaskUnconfigurable, Failure
    <3>2. /\ connect_task.auto \in SUBSET Families
          /\ Owned = {task_manager.ifname}
      BY <3>1, TaskOwns
    <3>3. PICK ok \in BOOLEAN :
             cleanup_connection_manager(task_manager, connect_task.auto, ok)
      BY <2>4 DEF TaskUnconfigurable
    <3>4. /\ links' \in SUBSET IfNames /\ orphans' \in SUBSET links'
          /\ Owned' = {} /\ routes' = {}
      BY <3>2, <3>3, CleanupEffect
    <3>5. OwnedLinkHasHandle'
      BY <2>0, <3>1, <3>4 DEF OwnedLinkHasHandle, WorkerHasLink
    <3> QED BY <2>0, <3>1, <3>2, <3>4, <3>5 DEF RoutesOnlyForManualFamilies, WorkerHasLink
  <2> QED BY <1>5, <2>1, <2>2, <2>3, <2>4 DEF connect_task_completed
<1> QED BY <1>1, <1>2, <1>3, <1>4, <1>5 DEF MainLoop

-----------------------------------------------------------------------------
\* When the process ends, everything it left in the kernel is an orphan.
LEMMA ProcessEndsInv ==
    ASSUME IInv, ProcessEnds
    PROVE  IInv' /\ orphans \subseteq links' /\ Owned' = {}
<1>1. PICK late \in SUBSET IfNames : links' = links \cup late
  BY DEF ProcessEnds
<1>2. links' \in SUBSET IfNames /\ orphans' = links' /\ orphans \subseteq links'
  BY <1>1 DEF ProcessEnds, IInv, TypeOK
<1> QED
  BY <1>2, ConstantsAssumption
  DEF ProcessEnds, IInv, TypeOK, TaskInv, StateInv, ProcInv, OwnedLinkHasHandle, Owned,
      WorkerHasLink, StoppedMeansReleased, FlagBelongsToTask,
      RoutesOnlyForManualFamilies, WorkerStates

\* Every step of main() and of the process's life preserves the invariant.
LEMMA ProcessInv == IInv /\ Process => IInv'
<1> SUFFICES ASSUME IInv, Process PROVE IInv'
  OBVIOUS
<1> USE DEF TypeOK, TaskInv, StateInv, ProcInv, StoppedMeansReleased,
        FlagBelongsToTask, WorkerStates, libnm, task, priv, kernel, history
<1>1. CASE quit_mainloop \/ signal_handler \/ Start
  BY <1>1
  DEF IInv, quit_mainloop, signal_handler, Start, OwnedLinkHasHandle, Owned, WorkerHasLink,
      RoutesOnlyForManualFamilies
<1>2. CASE main_shutdown
  <2>1. CASE libnm_disconnect
    BY <1>2, <2>1, DisconnectInv DEF main_shutdown
  <2>2. CASE /\ service_state \notin {"starting", "started"}
             /\ UNCHANGED <<libnm, task, priv, kernel, history>>
    BY <1>2, <2>2
    DEF IInv, main_shutdown, OwnedLinkHasHandle, Owned, WorkerHasLink, RoutesOnlyForManualFamilies
  <2> QED BY <1>2, <2>1, <2>2 DEF main_shutdown
<1>3. CASE dispose
  <2>1. conn_manager = NoManager
    BY <1>3 DEF IInv, dispose
  <2> QED BY <1>3, <2>1
      DEF IInv, dispose, OwnedLinkHasHandle, Owned, WorkerHasLink, RoutesOnlyForManualFamilies
<1>4. CASE Exit \/ Crash
  BY <1>4, ProcessEndsInv DEF Exit, Crash
<1> QED BY <1>1, <1>2, <1>3, <1>4 DEF Process

-----------------------------------------------------------------------------
\* IInv holds in every reachable state.
THEOREM Invariance == Spec => []IInv
<1>1. Init => IInv
  BY InitInv
<1>2. IInv /\ [Next]_vars => IInv'
  BY MainLoopInv, WorkerInv, ProcessInv, StutterInv DEF Next
<1> QED BY <1>1, <1>2, PTL DEF Spec

\* The variables keep their types.
THEOREM TypeCorrectness == Spec => []TypeOK
<1>1. IInv => TypeOK
  BY DEF IInv
<1> QED BY <1>1, Invariance, PTL

\* Every link is accounted for by the connection manager or by the running
\* task (wg_disconnect, connect_task_completed, the rollback of the netlink
\* backend).
THEOREM LinksAccountedFor == Spec => []OwnedLinkHasHandle
<1>1. IInv => OwnedLinkHasHandle
  BY DEF IInv
<1> QED BY <1>1, Invariance, PTL

\* libnm's STOPPED means that the service holds nothing and that a running
\* task is marked as unwanted.
THEOREM StoppedIsReleased == Spec => []StoppedMeansReleased
<1>1. IInv => StoppedMeansReleased
  BY DEF IInv
<1> QED BY <1>1, Invariance, PTL

\* The disconnecting flag never outlives its task.
THEOREM FlagIsNeverStale == Spec => []FlagBelongsToTask
<1>1. IInv => FlagBelongsToTask
  BY DEF IInv
<1> QED BY <1>1, Invariance, PTL

\* A pending send_config announces a tunnel that stands and is waited for.
THEOREM PendingConfigIsNeverStale == Spec => []PendingConfigIsCurrent
<1>1. ASSUME IInv PROVE PendingConfigIsCurrent
  BY <1>1, ManagerOwns DEF PendingConfigIsCurrent, IInv, StateInv
<1> QED BY <1>1, Invariance, PTL

\* Routes are only installed for families NetworkManager does not manage.
THEOREM RoutesAreManual == Spec => []RoutesOnlyForManualFamilies
<1>1. IInv => RoutesOnlyForManualFamilies
  BY DEF IInv
<1> QED BY <1>1, Invariance, PTL

-----------------------------------------------------------------------------
(* A teardown succeeds where nothing fails.                                *)

\* A step keeps the routes of the tunnel complete.
LEMMA RoutesCompleteStep ==
    ASSUME IInv, RoutesComplete, [Next]_vars
    PROVE  RoutesComplete'
<1> USE DEF RoutesComplete, manages_routes, libnm, task, priv, kernel, history
<1>1. CASE UNCHANGED vars
  BY <1>1 DEF vars
<1>2. CASE Worker
  <2>1. worker # "ready" /\ conn_manager = NoManager /\ conn_manager' = conn_manager
    BY <1>2 DEF Worker, connect_worker, netlink_add_device, netlink_configure, add_routes,
         external_connect, WorkerGoes, WorkerFrame, IInv, TaskInv, StateInv
  <2>2. CASE add_routes
    BY <2>1, <2>2 DEF add_routes, WorkerFrame
  <2>3. CASE external_connect
    BY <2>1, <2>3 DEF external_connect, WorkerGoes, WorkerFrame
  <2>4. CASE connect_worker \/ netlink_add_device \/ netlink_configure
    <3>1. worker' # "ready"
      BY <2>4, ConstantsAssumption DEF connect_worker, netlink_add_device, netlink_configure, WorkerGoes
    <3>2. QED
      BY <2>1, <3>1
  <2>5. QED
    BY <1>2, <2>2, <2>3, <2>4 DEF Worker
<1>3. ASSUME NEW p \in Profiles, wg_connect(p) PROVE RoutesComplete'
  BY <1>3 DEF wg_connect, connect_common
<1>4. CASE FailStop \/ send_config
  BY <1>4 DEF FailStop, send_config
<1>5. CASE connect_task_completed
  <2>1. worker' = "none" /\ conn_manager = NoManager
    BY <1>5 DEF connect_task_completed, IInv, TaskInv, StateInv
  <2>2. CASE TaskConnected
    BY <2>1, <2>2 DEF TaskConnected
  <2>3. CASE TaskAbandoned \/ TaskFailed \/ TaskUnconfigurable
    BY <2>1, <2>3 DEF TaskAbandoned, TaskFailed, TaskUnconfigurable
  <2>4. QED
    BY <1>5, <2>2, <2>3 DEF connect_task_completed
<1>6. CASE libnm_disconnect
  <2>1. \/ conn_manager' = NoManager /\ connect_task = NoTask
        \/ UNCHANGED <<conn_manager, kernel>>
    BY <1>6 DEF libnm_disconnect, wg_disconnect
  <2>2. UNCHANGED <<task, methods>>
    BY <1>6 DEF libnm_disconnect, wg_disconnect
  <2>3. QED
    BY <2>1, <2>2 DEF IInv, TaskInv
<1>7. CASE dispose
  <2>1. conn_manager' = NoManager \/ UNCHANGED <<conn_manager, kernel>>
    BY <1>7 DEF dispose
  <2>2. UNCHANGED <<task, methods>> /\ conn_manager = NoManager
    BY <1>7 DEF dispose, IInv, ProcInv, StoppedMeansReleased
  <2>3. UNCHANGED <<conn_manager, kernel>>
    BY <1>7, <2>2 DEF dispose
  <2>4. QED
    BY <2>2, <2>3
<1>8. CASE quit_mainloop \/ signal_handler \/ Start
  BY <1>8 DEF quit_mainloop, signal_handler, Start
<1>9. CASE main_shutdown
  BY <1>6, <1>9 DEF main_shutdown
<1>10. CASE ProcessEnds
  BY <1>10 DEF ProcessEnds
<1>11. QED
  BY <1>1, <1>2, <1>3, <1>4, <1>5, <1>6, <1>7, <1>8, <1>9, <1>10
     DEF Next, MainLoop, Disconnect, Process, Exit, Crash

\* The teardown of a tunnel with complete routes does not fail by itself.
LEMMA CleanStep ==
    ASSUME IInv, RoutesComplete, CleanDisconnectSucceeds, [Next]_vars
    PROVE  CleanDisconnectSucceeds'
<1> SUFFICES ASSUME Faults \cap {"link_del", "route_add", "route_del"} = {}, reply # "error"
             PROVE  reply' # "error"
  BY DEF CleanDisconnectSucceeds
<1>1. CASE libnm_disconnect
  <2>1. PICK ok \in BOOLEAN : wg_disconnect(ok) /\ reply' = IF ok THEN "ok" ELSE "error"
    BY <1>1 DEF libnm_disconnect
  <2>2. ASSUME conn_manager # NoManager, cleanup_connection_manager(conn_manager, methods, ok)
        PROVE  ok
    <3>1. PICK unrouted, gone \in BOOLEAN :
             /\ DeleteRoutes(conn_manager, methods, unrouted)
             /\ manager_disconnect(conn_manager, gone)
             /\ ok = (unrouted /\ gone)
      BY <2>2 DEF cleanup_connection_manager
    <3>2. gone
      BY <3>1 DEF manager_disconnect
    <3>3. ~manages_routes(conn_manager) => Families \ methods \subseteq routes
      BY <2>2 DEF RoutesComplete
    <3>4. unrouted
      BY <3>1, <3>3 DEF DeleteRoutes
    <3>5. QED
      BY <3>1, <3>2, <3>4
  <2>3. ok
    BY <2>1, <2>2 DEF wg_disconnect
  <2>4. QED
    BY <2>1, <2>3
<1>2. CASE ~libnm_disconnect
  <2>1. \/ UNCHANGED vars \/ Worker \/ Process
        \/ \E p \in Profiles : wg_connect(p)
        \/ FailStop \/ send_config \/ connect_task_completed
    BY <1>2 DEF Next, MainLoop, Disconnect
  <2>2. CASE UNCHANGED vars \/ Worker
    BY <2>2 DEF vars, history, Worker, connect_worker, netlink_add_device, netlink_configure,
         add_routes, external_connect, WorkerFrame
  <2>3. CASE Process
    BY <1>2, <2>3 DEF Process, quit_mainloop, signal_handler, main_shutdown, dispose, Exit, Crash,
         ProcessEnds, Start, history
  <2>4. CASE \/ \E p \in Profiles : wg_connect(p)
             \/ FailStop \/ send_config \/ connect_task_completed
    BY <2>4 DEF wg_connect, connect_common, FailStop, send_config, connect_task_completed, history
  <2>5. QED
    BY <2>1, <2>2, <2>3, <2>4
<1>3. QED
  BY <1>1, <1>2

\* Where routes and links do not fail, every Disconnect succeeds: it deletes the
\* routes of exactly the families bring-up installed.
THEOREM CleanDisconnect == Spec => []CleanDisconnectSucceeds
<1>1. Init => RoutesComplete /\ CleanDisconnectSucceeds
  BY DEF Init, RoutesComplete, CleanDisconnectSucceeds
<1>2. IInv /\ RoutesComplete /\ CleanDisconnectSucceeds /\ [Next]_vars =>
        (RoutesComplete /\ CleanDisconnectSucceeds)'
  BY RoutesCompleteStep, CleanStep
<1>3. QED
  BY <1>1, <1>2, Invariance, PTL DEF Spec

=============================================================================
