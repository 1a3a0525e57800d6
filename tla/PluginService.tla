---------------------------- MODULE PluginService ----------------------------
(***************************************************************************)
(* The VPN service process (src/src/nm-amneziawg-service.c): the handlers  *)
(* of its GLib main loop, the GTask worker thread that brings the tunnel   *)
(* up, the process life cycle in main(), and the kernel links they leave   *)
(* behind.                                                                 *)
(*                                                                         *)
(* A handler of the main loop runs to completion before the next one, so   *)
(* it is one action.  The worker thread runs beside them, one action per   *)
(* operation another thread, or the end of the process, can fall between.  *)
(*                                                                         *)
(* External parts, modelled from the calls the service makes: libnm's      *)
(* NMVpnServicePlugin (service_state, fail_stop), NetworkManager (when it   *)
(* calls Connect and Disconnect) and the kernel (links, routes).           *)
(***************************************************************************)

CONSTANTS
    IfNames,    \* the names "awg-<8 hex digits of the UUID>" profiles map to
    Families,   \* address families
    Profiles,   \* the connection profiles NetworkManager may activate
    Backends,   \* what awg_connection_manager_auto_new may select on this host
    Faults,     \* which failures of the environment may happen
    Persist,    \* the command line option --persist
    NoTask,     \* priv->connect_task = NULL
    NoManager   \* priv->conn_manager = NULL

\* What the service reads of a connection: its interface name, the families
\* whose method is "auto", whether it has an address, and whether
\* awg_device_get_invalid_reason accepts its device.
Profile == [ifname : IfNames, auto : SUBSET Families, addressed : BOOLEAN, valid : BOOLEAN]

Manager == [ifname : IfNames, backend : {"netlink", "external"}]

ASSUME ConstantsAssumption ==
    /\ Profiles \subseteq Profile
    /\ Backends \subseteq {"netlink", "external", "dummy"}
    /\ Faults \subseteq {"signal", "crash", "link_del", "route_add", "route_del"}
    /\ Persist \in BOOLEAN
    /\ NoTask \notin Profile
    /\ NoManager \notin Manager

VARIABLES
    \* libnm
    service_state,     \* NMVpnServiceState
    fail_stop,         \* the idle source that reports a refused Connect as STOPPED
    \* NMAmneziaWGPluginPrivate
    connect_task,      \* the profile of the running GTask, or NoTask
    disconnecting,
    conn_manager,
    methods,           \* families with ip4_method_auto / ip6_method_auto
    config_source_id,  \* whether the send_config source is pending
    \* the worker thread and ConnectTaskData
    worker,            \* what the worker does next
    task_manager,      \* data->conn_manager
    \* the kernel
    links,             \* the interfaces that exist
    routes,            \* families whose AllowedIPs are routed into the current tunnel
    orphans,           \* history: links no live process has a handle on any more
    \* the process and what NetworkManager heard from it
    proc,
    answer,            \* history: the signal that answered the current Connect
    reply              \* history: the reply to the latest Disconnect

libnm   == <<service_state, fail_stop>>
task    == <<connect_task, worker, task_manager>>
priv    == <<disconnecting, conn_manager, methods, config_source_id>>
kernel  == <<links, routes, orphans>>
history == <<answer, reply>>
vars    == <<libnm, task, priv, kernel, proc, history>>

WorkerStates ==
    {"none", "start", "netlink", "configure", "routes", "external", "ready", "failed"}

TypeOK ==
    /\ service_state \in {"init", "starting", "started", "stopped"}
    /\ fail_stop \in BOOLEAN
    /\ connect_task \in Profiles \cup {NoTask}
    /\ disconnecting \in BOOLEAN
    /\ conn_manager \in Manager \cup {NoManager}
    /\ methods \in SUBSET Families
    /\ config_source_id \in BOOLEAN
    /\ worker \in WorkerStates
    /\ task_manager \in Manager \cup {NoManager}
    /\ links \in SUBSET IfNames
    /\ routes \in SUBSET Families
    /\ orphans \in SUBSET links
    /\ proc \in {"running", "quitting", "shutdown", "unreffed", "exited"}
    /\ answer \in {"none", "failure", "config"}
    /\ reply \in {"none", "ok", "error"}

\* A new process: g_object_new zeroes the private structure.
Init ==
    /\ service_state = "init" /\ fail_stop = FALSE
    /\ connect_task = NoTask /\ worker = "none" /\ task_manager = NoManager
    /\ disconnecting = FALSE /\ conn_manager = NoManager
    /\ methods = {} /\ config_source_id = FALSE
    /\ answer = "none" /\ reply = "none"
    /\ links = {} /\ routes = {} /\ orphans = {}
    /\ proc = "running"

-----------------------------------------------------------------------------
(* Tearing a tunnel down.                                                  *)

manages_routes(m) == m.backend = "external"

\* Deleting the routes of every family the plugin routes itself.  A family
\* that was not completely installed fails, because a missing route does.
DeleteRoutes(m, auto, ok) ==
    \/ manages_routes(m) /\ ok
    \/ /\ ~manages_routes(m) /\ ok
       /\ Families \ auto \subseteq routes
    \/ /\ ~manages_routes(m) /\ ~ok
       /\ ~(Families \ auto \subseteq routes) \/ (auto # Families /\ "route_del" \in Faults)

\* The backend's disconnect removes the link, and the kernel its routes.
manager_disconnect(m, ok) ==
    /\ ok \/ "link_del" \in Faults
    /\ links' = IF ok THEN links \ {m.ifname} ELSE links
    /\ orphans' = IF ok THEN orphans ELSE orphans \cup {m.ifname}
    /\ routes' = {}

\* Wrong variant: what the backend's disconnect returned is not reported.
cleanup_connection_manager_IgnoreDisconnect(m, auto, ok) ==
    \E gone \in BOOLEAN : DeleteRoutes(m, auto, ok) /\ manager_disconnect(m, gone)

\* A route that cannot be deleted does not stop the teardown, but is reported.
cleanup_connection_manager(m, auto, ok) ==
    \E unrouted, gone \in BOOLEAN :
        /\ DeleteRoutes(m, auto, unrouted)
        /\ manager_disconnect(m, gone)
        /\ ok = (unrouted /\ gone)

cancel_pending_config == config_source_id' = FALSE

\* Wrong variants: a disconnect that leaves the send_config source pending,
\* one that does not tell the running task, one that forgets the link.
wg_disconnect_NoCancel(ok) ==
    /\ UNCHANGED <<methods, config_source_id>>
    /\ \/ /\ connect_task # NoTask
          /\ disconnecting' = TRUE /\ ok
          /\ UNCHANGED <<conn_manager, kernel>>
       \/ /\ connect_task = NoTask /\ conn_manager = NoManager /\ ok
          /\ UNCHANGED <<disconnecting, conn_manager, kernel>>
       \/ /\ connect_task = NoTask /\ conn_manager # NoManager
          /\ cleanup_connection_manager(conn_manager, methods, ok)
          /\ conn_manager' = NoManager
          /\ UNCHANGED disconnecting

wg_disconnect_NoFlag(ok) ==
    /\ cancel_pending_config
    /\ UNCHANGED <<methods, disconnecting>>
    /\ \/ /\ connect_task # NoTask \/ conn_manager = NoManager
          /\ ok
          /\ UNCHANGED <<conn_manager, kernel>>
       \/ /\ connect_task = NoTask /\ conn_manager # NoManager
          /\ cleanup_connection_manager(conn_manager, methods, ok)
          /\ conn_manager' = NoManager

wg_disconnect_ForgetLink(ok) ==
    /\ cancel_pending_config
    /\ ok /\ conn_manager' = NoManager
    /\ disconnecting' = (connect_task # NoTask)
    /\ UNCHANGED <<methods, kernel>>

\* The virtual function behind Disconnect; ok is what it returns.
wg_disconnect(ok) ==
    /\ cancel_pending_config
    /\ UNCHANGED methods
    /\ \/ /\ connect_task # NoTask       \* the callback will see the flag
          /\ disconnecting' = TRUE /\ ok
          /\ UNCHANGED <<conn_manager, kernel>>
       \/ /\ connect_task = NoTask /\ conn_manager = NoManager /\ ok
          /\ UNCHANGED <<disconnecting, conn_manager, kernel>>
       \/ /\ connect_task = NoTask /\ conn_manager # NoManager
          /\ cleanup_connection_manager(conn_manager, methods, ok)
          /\ conn_manager' = NoManager
          /\ UNCHANGED disconnecting

\* nm_vpn_service_plugin_disconnect: a running service goes through STOPPING,
\* which clears libnm's timers, to STOPPED whatever the virtual returns.
libnm_disconnect ==
    /\ service_state \in {"starting", "started"}
    /\ \E ok \in BOOLEAN : /\ wg_disconnect(ok)
                           /\ reply' = IF ok THEN "ok" ELSE "error"
    /\ service_state' = "stopped"
    /\ fail_stop' = FALSE
    /\ UNCHANGED <<task, answer>>

-----------------------------------------------------------------------------
(* Handlers of the main loop.  g_main_loop_quit lets the sources that are  *)
(* already dispatched in the same iteration run.                           *)

LoopRuns == proc \in {"running", "quitting"}

\* A second Connect while a task runs is refused, and libnm reports STOPPED
\* from an idle source; otherwise the task starts and libnm is STARTING.
connect_common(p) ==
    \/ /\ connect_task # NoTask
       /\ fail_stop' = TRUE
       /\ UNCHANGED <<service_state, task, priv, history>>
    \/ /\ connect_task = NoTask
       /\ connect_task' = p /\ worker' = "start"
       /\ service_state' = "starting" /\ fail_stop' = FALSE
       /\ answer' = "none" /\ reply' = "none"
       /\ UNCHANGED <<task_manager, priv>>

\* Connect and ConnectInteractively; libnm passes them on in these states only.
wg_connect(p) ==
    /\ LoopRuns
    /\ service_state \in {"init", "stopped"}
    /\ connect_common(p)
    /\ UNCHANGED <<kernel, proc>>

FailStop ==
    /\ LoopRuns /\ fail_stop
    /\ fail_stop' = FALSE /\ service_state' = "stopped"
    /\ UNCHANGED <<task, priv, kernel, proc, history>>

\* Disconnect: NetworkManager asks, vanishes from the bus, or libnm's timer
\* for the connect expires.
Disconnect ==
    /\ LoopRuns
    /\ libnm_disconnect
    /\ UNCHANGED proc

\* The deferred SetConfig, SetIp4Config and SetIp6Config; libnm has all the
\* families it was promised after the last one and goes to STARTED.
send_config ==
    /\ LoopRuns /\ config_source_id
    /\ config_source_id' = FALSE
    /\ service_state' = "started" /\ fail_stop' = FALSE
    /\ answer' = "config"
    /\ UNCHANGED <<task, disconnecting, conn_manager, methods, kernel, proc, reply>>

\* set_config succeeds for a device with an address (a valid one has peers)
\* and arms the send_config source.
set_config(p) == p.addressed

Failure == answer' = "failure"       \* nm_vpn_service_plugin_failure

\* Wrong variant: the flag survives the task it was raised for.
TaskAbandoned_KeepFlag ==
    /\ disconnecting
    /\ \/ /\ task_manager # NoManager
          /\ \E ok \in BOOLEAN :
                cleanup_connection_manager(task_manager, connect_task.auto, ok)
       \/ task_manager = NoManager /\ UNCHANGED kernel
    /\ UNCHANGED <<priv, answer>>

\* A Disconnect came while the task ran: tear down what it built, silently.
TaskAbandoned ==
    /\ disconnecting
    /\ disconnecting' = FALSE
    /\ \/ /\ task_manager # NoManager
          /\ \E ok \in BOOLEAN :
                cleanup_connection_manager(task_manager, connect_task.auto, ok)
       \/ task_manager = NoManager /\ UNCHANGED kernel
    /\ UNCHANGED <<conn_manager, methods, config_source_id, answer>>

TaskFailed ==
    /\ ~disconnecting /\ worker = "failed"
    /\ Failure
    /\ UNCHANGED <<priv, kernel>>

\* Wrong variants: the methods of an earlier session stay in force; the
\* completed task is announced whatever a Disconnect asked for.
TaskConnected_StaleMethods ==
    /\ ~disconnecting /\ worker = "ready" /\ set_config(connect_task)
    /\ conn_manager' = task_manager
    /\ config_source_id' = TRUE
    /\ UNCHANGED <<disconnecting, methods, kernel, answer>>

TaskConnected_IgnoreFlag ==
    /\ worker = "ready" /\ set_config(connect_task)
    /\ conn_manager' = task_manager
    /\ methods' = connect_task.auto
    /\ config_source_id' = TRUE
    /\ disconnecting' = FALSE
    /\ UNCHANGED <<kernel, answer>>

TaskConnected ==
    /\ ~disconnecting /\ worker = "ready" /\ set_config(connect_task)
    /\ conn_manager' = task_manager
    /\ methods' = connect_task.auto
    /\ config_source_id' = TRUE
    /\ UNCHANGED <<disconnecting, kernel, answer>>

\* Wrong variants: a configuration that cannot be announced leaves the tunnel
\* behind, or leaves NetworkManager without an answer.
TaskUnconfigurable_NoCleanup ==
    /\ ~disconnecting /\ worker = "ready" /\ ~set_config(connect_task)
    /\ methods' = connect_task.auto
    /\ Failure
    /\ UNCHANGED <<disconnecting, conn_manager, config_source_id, kernel>>

TaskUnconfigurable_Silent ==
    /\ ~disconnecting /\ worker = "ready" /\ ~set_config(connect_task)
    /\ methods' = connect_task.auto
    /\ \E ok \in BOOLEAN : cleanup_connection_manager(task_manager, connect_task.auto, ok)
    /\ UNCHANGED <<disconnecting, conn_manager, config_source_id, answer>>

TaskUnconfigurable ==
    /\ ~disconnecting /\ worker = "ready" /\ ~set_config(connect_task)
    /\ methods' = connect_task.auto
    /\ \E ok \in BOOLEAN : cleanup_connection_manager(task_manager, connect_task.auto, ok)
    /\ Failure
    /\ UNCHANGED <<disconnecting, conn_manager, config_source_id>>

\* Wrong variant: the reference to the completed task is not dropped.
connect_task_completed_KeepTask ==
    /\ LoopRuns /\ worker \in {"ready", "failed"}
    /\ worker' = "none" /\ task_manager' = NoManager
    /\ TaskAbandoned \/ TaskFailed \/ TaskConnected \/ TaskUnconfigurable
    /\ UNCHANGED <<libnm, connect_task, proc, reply>>

\* The task is over whichever way it went: its result is handled in one of
\* four ways.
connect_task_completed ==
    /\ LoopRuns /\ worker \in {"ready", "failed"}
    /\ connect_task' = NoTask /\ worker' = "none" /\ task_manager' = NoManager
    /\ TaskAbandoned \/ TaskFailed \/ TaskConnected \/ TaskUnconfigurable
    /\ UNCHANGED <<libnm, proc, reply>>

-----------------------------------------------------------------------------
(* The worker thread, connect_worker.                                      *)

WorkerGoes(from, to) == worker = from /\ worker' = to

WorkerFrame == UNCHANGED <<libnm, connect_task, priv, proc, history>>

\* The device is built and validated and a backend selected; the dummy
\* backend's connect always fails.
connect_worker ==
    /\ \/ /\ WorkerGoes("start", "failed")
          /\ ~connect_task.valid \/ "dummy" \in Backends
       \/ /\ \E b \in Backends \ {"dummy"} : WorkerGoes("start", b)
          /\ connect_task.valid
    /\ WorkerFrame /\ UNCHANGED <<task_manager, kernel>>

\* Wrong variant: an interface of that name is taken over instead of refused.
netlink_add_device_Adopt ==
    /\ \/ /\ WorkerGoes("netlink", "configure")
          /\ links' = links \cup {connect_task.ifname}
       \/ WorkerGoes("netlink", "failed") /\ UNCHANGED links
    /\ WorkerFrame /\ UNCHANGED <<task_manager, routes, orphans>>

\* wg_add_device; a name in use is refused, and so are 3.1 parameters by an
\* older module before it.
netlink_add_device ==
    /\ \/ /\ WorkerGoes("netlink", "configure")
          /\ connect_task.ifname \notin links
          /\ links' = links \cup {connect_task.ifname}
       \/ WorkerGoes("netlink", "failed") /\ UNCHANGED links
    /\ WorkerFrame /\ UNCHANGED <<task_manager, routes, orphans>>

\* wg_set_device, addresses, up and MTU; a failure deletes the new interface,
\* without looking at whether that worked.
netlink_configure ==
    /\ \/ WorkerGoes("configure", "routes") /\ UNCHANGED kernel
       \/ /\ WorkerGoes("configure", "failed")
          /\ \E ok \in BOOLEAN :
                manager_disconnect([ifname |-> connect_task.ifname, backend |-> "netlink"], ok)
    /\ WorkerFrame /\ UNCHANGED task_manager

\* Routes of the families whose method is not "auto"; failures only warn.
add_routes ==
    /\ WorkerGoes("routes", "ready")
    /\ \E installed \in SUBSET (Families \ connect_task.auto) :
          /\ "route_add" \in Faults \/ installed = Families \ connect_task.auto
          /\ routes' = installed
    /\ task_manager' = [ifname |-> connect_task.ifname, backend |-> "netlink"]
    /\ WorkerFrame /\ UNCHANGED <<links, orphans>>

\* "awg-quick up", which refuses a name in use and undoes what it did if it
\* fails.
external_connect ==
    /\ \/ /\ WorkerGoes("external", "ready")
          /\ connect_task.ifname \notin links
          /\ links' = links \cup {connect_task.ifname}
          /\ task_manager' = [ifname |-> connect_task.ifname, backend |-> "external"]
       \/ WorkerGoes("external", "failed") /\ UNCHANGED <<links, task_manager>>
    /\ WorkerFrame /\ UNCHANGED <<routes, orphans>>

Worker ==
    \/ connect_worker \/ netlink_add_device \/ netlink_configure
    \/ add_routes \/ external_connect

-----------------------------------------------------------------------------
(* main() and the end of the process.                                      *)

\* libnm emits "quit" once the service is STOPPED.
quit_mainloop ==
    /\ ~Persist /\ service_state = "stopped" /\ proc = "running"
    /\ proc' = "quitting"
    /\ UNCHANGED <<libnm, task, priv, kernel, history>>

\* SIGTERM or SIGINT.
signal_handler ==
    /\ "signal" \in Faults /\ proc = "running"
    /\ proc' = "quitting"
    /\ UNCHANGED <<libnm, task, priv, kernel, history>>

\* g_main_loop_run returned: nm_vpn_service_plugin_shutdown.
main_shutdown ==
    /\ proc = "quitting" /\ proc' = "shutdown"
    /\ \/ libnm_disconnect
       \/ /\ service_state \notin {"starting", "started"}
          /\ UNCHANGED <<libnm, task, priv, kernel, history>>

\* g_object_unref: dispose runs unless a task or a pending send_config source
\* still holds a reference.
dispose ==
    /\ proc = "shutdown" /\ proc' = "unreffed"
    /\ \/ /\ connect_task = NoTask /\ ~config_source_id /\ conn_manager # NoManager
          /\ \E ok \in BOOLEAN : cleanup_connection_manager(conn_manager, methods, ok)
          /\ conn_manager' = NoManager
       \/ /\ connect_task # NoTask \/ config_source_id \/ conn_manager = NoManager
          /\ UNCHANGED <<conn_manager, kernel>>
    /\ UNCHANGED <<libnm, task, disconnecting, methods, config_source_id, history>>

\* The process is gone, its threads with it.  An awg-quick child outlives it
\* and may still bring its interface up.
ProcessEnds ==
    /\ proc' = "exited"
    /\ \E late \in SUBSET IfNames :
          /\ late = {} \/ (worker = "external" /\ late = {connect_task.ifname})
          /\ links' = links \cup late
    /\ orphans' = links'
    /\ routes' = {}
    /\ service_state' = "init" /\ fail_stop' = FALSE
    /\ connect_task' = NoTask /\ worker' = "none" /\ task_manager' = NoManager
    /\ disconnecting' = FALSE /\ conn_manager' = NoManager
    /\ methods' = {} /\ config_source_id' = FALSE
    /\ answer' = "none" /\ reply' = "none"

Exit  == proc = "unreffed" /\ ProcessEnds
Crash == "crash" \in Faults /\ proc # "exited" /\ ProcessEnds

\* NetworkManager launches the service again for the next activation.
Start ==
    /\ proc = "exited" /\ proc' = "running"
    /\ UNCHANGED <<libnm, task, priv, kernel, history>>

-----------------------------------------------------------------------------
MainLoop ==
    \/ \E p \in Profiles : wg_connect(p)
    \/ FailStop \/ Disconnect \/ send_config \/ connect_task_completed

Process ==
    \/ quit_mainloop \/ signal_handler \/ main_shutdown \/ dispose
    \/ Exit \/ Crash \/ Start

Next == MainLoop \/ Worker \/ Process

Spec == Init /\ [][Next]_vars

\* The scheduler runs the worker, the main loop dispatches a ready source, and
\* main() goes on once the loop returned.  Nobody is obliged to call the
\* service, to end it or to start it, and libnm's timers are not relied on.
Fairness ==
    /\ WF_vars(Worker)
    /\ WF_vars(connect_task_completed)
    /\ WF_vars(send_config)
    /\ WF_vars(main_shutdown) /\ WF_vars(dispose) /\ WF_vars(Exit)

FairSpec == Spec /\ Fairness

-----------------------------------------------------------------------------
(* Properties.                                                             *)

\* The links that a component of the live process is responsible for.
Owned == links \ orphans

\* The link the worker has raised and not yet handed over.
WorkerHasLink == worker \in {"configure", "routes", "ready"}

\* Every kernel link is accounted for: unless an unlinking failed or a process
\* died, it is the one of the connection manager in the private structure or
\* the one of the running task; nothing else holds a link at any time.  Several
\* return paths (worker rollback, abandoned task, unusable configuration,
\* disconnect) have to get this right.
OwnedLinkHasHandle ==
    \A i \in IfNames :
        i \in Owned <=> \/ conn_manager # NoManager /\ conn_manager.ifname = i
                        \/ WorkerHasLink /\ connect_task.ifname = i

\* Once libnm says STOPPED (or nothing was started yet) the private structure
\* holds no tunnel and no pending configuration, and a task that still runs
\* knows that nobody wants its result.
StoppedMeansReleased ==
    service_state \in {"init", "stopped"} =>
        /\ conn_manager = NoManager
        /\ ~config_source_id
        /\ connect_task # NoTask => disconnecting

\* A disconnecting flag never outlives the task it was raised for, so it cannot
\* silently tear down a later, wanted connection.
FlagBelongsToTask == disconnecting => connect_task # NoTask

\* A configuration waiting to be sent describes a tunnel that exists and that
\* libnm is still waiting for.
PendingConfigIsCurrent ==
    config_source_id => /\ conn_manager # NoManager
                        /\ conn_manager.ifname \in Owned
                        /\ service_state = "starting"

\* Routes are only ever installed for families NetworkManager does not manage.
RoutesOnlyForManualFamilies ==
    /\ conn_manager # NoManager => routes \cap methods = {}
    /\ WorkerHasLink => routes \cap connect_task.auto = {}

\* A Disconnect that is answered with success left nothing behind that was not
\* already lost before, unless a task is still running that will remove its own.
DisconnectOkMeansReleased ==
    [][reply' = "ok" /\ reply # "ok" => links' = orphans \/ connect_task # NoTask]_vars

\* As long as the environment does not fail, tearing a session down succeeds:
\* it deletes the routes of exactly the families bring-up installed.
CleanDisconnectSucceeds ==
    Faults \cap {"link_del", "route_add", "route_del"} = {} => reply # "error"

\* No link is ever left without an owner.
NoOrphans == orphans = {}

\* The service answers a Connect only while libnm waits for the answer: nothing
\* is reported for an attempt that was disconnected or timed out.
AnswerOnlyWhileStarting ==
    [][answer' \notin {answer, "none"} => service_state = "starting"]_vars

\* One Connect gets at most one of Failure and Config.
OneAnswer ==
    [][answer # "none" /\ answer' # answer => answer' = "none"]_vars

\* A link this process has no handle on is never touched: not adopted by a
\* later connect of the same profile, not deleted by its rollback.
ForeignLinksUntouched ==
    [][orphans \subseteq links']_vars

\* A process that ends with no task running leaves no further link behind.
IdleExitLeavesNothing ==
    [][proc = "unreffed" /\ proc' = "exited" /\ connect_task = NoTask
          => links' = orphans]_vars

\* The service itself answers every attempt NetworkManager keeps waiting for:
\* it never needs libnm's timeout to get unstuck.
AttemptAnswered ==
    service_state = "starting" ~> (answer # "none" \/ service_state # "starting")

\* An attempt that was disconnected while it ran is completely undone.
AbandonedAttemptReleased ==
    disconnecting ~> (~disconnecting /\ Owned = {})

-----------------------------------------------------------------------------
(* The inductive invariant behind the safety properties: besides them, how *)
(* the task, the manager and libnm's state exclude each other.             *)

\* The task is live exactly while the worker has something to do or to hand
\* over, and what it hands over is the tunnel of its own profile.
TaskInv ==
    /\ connect_task = NoTask <=> worker = "none"
    /\ task_manager = NoManager <=> worker # "ready"
    /\ worker = "ready" => task_manager.ifname = connect_task.ifname
    /\ worker # "ready" /\ conn_manager = NoManager => routes = {}

\* libnm is STARTING while the result of a task is wanted, STOPPED once it is
\* not, and only leaves a standing tunnel through a teardown.
StateInv ==
    /\ connect_task # NoTask /\ ~disconnecting => service_state = "starting"
    /\ disconnecting => service_state = "stopped"
    /\ conn_manager # NoManager =>
          connect_task = NoTask /\ service_state \in {"starting", "started"}
    /\ config_source_id => conn_manager # NoManager /\ service_state = "starting"
    /\ fail_stop => service_state = "stopped"

\* Past the main loop libnm is never waiting or running any more, and nothing
\* of a dead process is left in memory.
ProcInv ==
    /\ proc \in {"shutdown", "unreffed"} => service_state \in {"init", "stopped"}
    /\ proc = "exited" => connect_task = NoTask /\ ~fail_stop /\ service_state = "init"

\* Unless routes fail, the tunnel that stands, or waits to be handed over, has
\* every route its teardown is going to delete.
RoutesComplete ==
    "route_add" \notin Faults =>
        /\ conn_manager # NoManager /\ ~manages_routes(conn_manager) => Families \ methods \subseteq routes
        /\ worker = "ready" /\ ~manages_routes(task_manager) => Families \ connect_task.auto \subseteq routes

\* The inductive invariant.
IInv ==
    /\ TypeOK /\ TaskInv /\ StateInv /\ ProcInv
    /\ OwnedLinkHasHandle /\ StoppedMeansReleased /\ FlagBelongsToTask
    /\ RoutesOnlyForManualFamilies

-----------------------------------------------------------------------------
(* The service implements TunnelSession.                                   *)

SessionPhase ==
    IF connect_task # NoTask THEN IF disconnecting THEN "releasing" ELSE "connecting"
    ELSE IF conn_manager = NoManager THEN "down"
    ELSE IF config_source_id THEN "announcing"
    ELSE "up"

Session == INSTANCE TunnelSession
    WITH phase <- SessionPhase, tunnels <- Owned, told <- answer

\* Every step of the service is a step of the abstract session or leaves it
\* alone; in particular a session that is down owns no tunnel, one that is
\* announced owns one, and a request is answered by its own outcome.
ImplementsSession == Session!Spec

\* A session that is down holds no tunnel; one whose configuration is announced
\* or in force holds exactly one.
TunnelMatchesPhase == Session!TunnelMatchesPhase

\* Nothing in progress stays in progress: the abstract session settles.
SessionSettles == Session!Settles

=============================================================================
