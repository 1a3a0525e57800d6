----------------------- MODULE PluginServiceRefinement -----------------------
(* PluginService implements TunnelSession, for every set of profiles, backends *)
(* and faults, and what no step of the service may do.  Each kind of step is   *)
(* reduced to its effect on the abstract state first.                          *)
EXTENDS PluginServiceProofs

\* The abstract state, as the refinement mapping sees it.
abstract == <<SessionPhase, Owned, answer>>

\* A step of the service is a step of the abstract session, or none.
Refines == Session!Next \/ UNCHANGED abstract

\* While the worker holds a link, that is the one link owned.
LEMMA WorkerOwns ==
    ASSUME IInv, WorkerHasLink
    PROVE  Owned = {connect_task.ifname} /\ connect_task.ifname \in IfNames
<1>1. connect_task \in Profiles /\ connect_task # NoTask /\ conn_manager = NoManager
  BY DEF IInv, TypeOK, TaskInv, StateInv, WorkerHasLink
<1>2. connect_task.ifname \in IfNames
  BY <1>1, ProfileFacts
<1>3. Owned \subseteq IfNames
  BY DEF IInv, TypeOK, Owned
<1> QED BY <1>1, <1>2, <1>3 DEF IInv, OwnedLinkHasHandle

-----------------------------------------------------------------------------
\* A step of the worker leaves the phase and the answer alone, and raises a
\* tunnel where there was none, takes one down, or does neither.
LEMMA WorkerEffect ==
    ASSUME IInv, Worker
    PROVE  /\ SessionPhase \in {"connecting", "releasing"} /\ SessionPhase' = SessionPhase
           /\ answer' = answer
           /\ \/ Owned' = Owned
              \/ Owned = {} /\ \E i \in IfNames : Owned' = {i}
              \/ Owned' = {}
           /\ orphans \subseteq links'
<1> USE DEF WorkerGoes, WorkerFrame, libnm, priv, kernel, history
<1>1. /\ connect_task \in Profiles /\ connect_task # NoTask
      /\ connect_task.ifname \in IfNames
      /\ conn_manager = NoManager
      /\ orphans \in SUBSET links
      /\ UNCHANGED <<connect_task, priv, answer>>
  BY ProfileFacts
  DEF IInv, TypeOK, TaskInv, StateInv, WorkerStates, Worker, connect_worker,
      netlink_add_device, netlink_configure, add_routes, external_connect
<1>2. /\ SessionPhase \in {"connecting", "releasing"} /\ SessionPhase' = SessionPhase
      /\ answer' = answer
  BY <1>1 DEF SessionPhase
<1>3. ASSUME ~WorkerHasLink, connect_task.ifname \notin links,
             links' = links \cup {connect_task.ifname}, orphans' = orphans
      PROVE  /\ Owned = {} /\ \E i \in IfNames : Owned' = {i}
             /\ orphans \subseteq links'
  <2>1. Owned = {}
    BY <1>1, <1>3, NobodyOwns
  <2>2. Owned' = {connect_task.ifname}
    BY <1>1, <1>3, <2>1 DEF Owned
  <2> QED BY <1>1, <1>3, <2>1, <2>2
<1>4. CASE connect_worker
  BY <1>1, <1>2, <1>4 DEF connect_worker, Owned
<1>5. CASE netlink_add_device
  BY <1>1, <1>2, <1>3, <1>5 DEF netlink_add_device, Owned, WorkerHasLink
<1>6. CASE netlink_configure
  <2>1. CASE UNCHANGED kernel
    BY <1>1, <1>2, <2>1 DEF Owned
  <2>2. ASSUME NEW ok \in BOOLEAN,
               manager_disconnect([ifname |-> connect_task.ifname, backend |-> "netlink"], ok)
        PROVE  Owned' = {} /\ orphans \subseteq links'
    <3>1. Owned = {connect_task.ifname}
      BY <1>6, WorkerOwns DEF netlink_configure, WorkerHasLink
    <3>2. /\ links' = IF ok THEN links \ {connect_task.ifname} ELSE links
          /\ orphans' = IF ok THEN orphans ELSE orphans \cup {connect_task.ifname}
      BY <2>2 DEF manager_disconnect
    <3> QED BY <1>1, <3>1, <3>2 DEF Owned
  <2> QED BY <1>2, <1>6, <2>1, <2>2 DEF netlink_configure
<1>7. CASE add_routes
  BY <1>1, <1>2, <1>7 DEF add_routes, Owned
<1>8. CASE external_connect
  BY <1>1, <1>2, <1>3, <1>8 DEF external_connect, Owned, WorkerHasLink
<1> QED BY <1>4, <1>5, <1>6, <1>7, <1>8 DEF Worker

\* Hence it is a step of the abstract session.
LEMMA WorkerRefines == IInv /\ Worker => Refines
<1> SUFFICES ASSUME IInv, Worker PROVE Refines
  OBVIOUS
<1>1. CASE Owned' = Owned
  BY <1>1, WorkerEffect DEF Refines, abstract
<1>2. ASSUME NEW i \in IfNames, Owned = {}, Owned' = {i} PROVE Refines
  <2>1. Session!Raise(i)
    BY <1>2, WorkerEffect DEF Session!Raise
  <2> QED BY <2>1 DEF Refines, Session!Next
<1>3. CASE Owned' = {}
  <2>1. Session!Undo
    BY <1>3, WorkerEffect DEF Session!Undo
  <2> QED BY <2>1 DEF Refines, Session!Next, Session!Settle
<1> QED BY <1>1, <1>2, <1>3, WorkerEffect

-----------------------------------------------------------------------------
\* libnm's disconnect abandons an attempt, closes a tunnel that stands, or finds
\* nothing to do; a link it has no handle on stays.
LEMMA DisconnectRefines ==
    ASSUME IInv, libnm_disconnect
    PROVE  Refines /\ answer' = answer /\ orphans \subseteq links'
<1>1. PICK ok \in BOOLEAN :
         wg_disconnect(ok) /\ UNCHANGED <<connect_task, worker, task_manager, answer>>
  BY DEF libnm_disconnect, task
<1>2. /\ service_state \in {"starting", "started"} /\ ~disconnecting
      /\ links \in SUBSET IfNames /\ orphans \in SUBSET links
  BY DEF libnm_disconnect, IInv, StateInv, TypeOK
<1>3. CASE /\ connect_task # NoTask
           /\ disconnecting' = TRUE /\ ok
           /\ UNCHANGED <<conn_manager, kernel>>
  <2>1. Session!Abandon
    BY <1>1, <1>2, <1>3 DEF Session!Abandon, SessionPhase, Owned, kernel
  <2> QED BY <1>1, <1>2, <1>3, <2>1 DEF Refines, Session!Next, kernel
<1>4. CASE /\ connect_task = NoTask /\ conn_manager = NoManager /\ ok
           /\ UNCHANGED <<disconnecting, conn_manager, kernel>>
  BY <1>1, <1>2, <1>4 DEF Refines, abstract, SessionPhase, Owned, kernel
<1>5. CASE /\ connect_task = NoTask /\ conn_manager # NoManager
           /\ cleanup_connection_manager(conn_manager, methods, ok)
           /\ conn_manager' = NoManager
           /\ UNCHANGED disconnecting
  <2>1. Owned' = {} /\ orphans \subseteq links'
    <3>1. Owned = {conn_manager.ifname}
      BY <1>5, ManagerOwns
    <3> QED BY <1>2, <1>5, <3>1, CleanupEffect
  <2>2. SessionPhase \in {"announcing", "up"} /\ SessionPhase' = "down"
    BY <1>1, <1>5 DEF SessionPhase
  <2>3. Session!Close
    BY <1>1, <2>1, <2>2 DEF Session!Close
  <2> QED BY <1>1, <2>1, <2>3 DEF Refines, Session!Next
<1> QED BY <1>1, <1>3, <1>4, <1>5 DEF wg_disconnect

\* The completion of a task settles the request it was started for.
LEMMA CompletionRefines ==
    ASSUME IInv, connect_task_completed
    PROVE  /\ Refines /\ orphans \subseteq links'
           /\ answer' # answer => service_state = "starting"
<1>1. /\ connect_task' = NoTask
      /\ worker \in {"ready", "failed"} /\ connect_task # NoTask
      /\ conn_manager = NoManager
      /\ links \in SUBSET IfNames /\ orphans \in SUBSET links
      /\ SessionPhase = IF disconnecting THEN "releasing" ELSE "connecting"
  BY DEF connect_task_completed, IInv, TypeOK, TaskInv, StateInv, SessionPhase
<1>2. ~disconnecting => service_state = "starting"
  BY <1>1 DEF IInv, StateInv
<1>3. ASSUME NEW ok \in BOOLEAN, worker = "ready",
             cleanup_connection_manager(task_manager, connect_task.auto, ok)
      PROVE  Owned' = {} /\ orphans \subseteq links'
  <2>1. Owned = {task_manager.ifname}
    BY <1>3, TaskOwns
  <2> QED BY <1>1, <1>3, <2>1, CleanupEffect
<1>4. worker = "failed" => Owned = {}
  BY <1>1, NobodyOwns DEF WorkerHasLink
<1>5. CASE TaskAbandoned
  <2>1. disconnecting /\ UNCHANGED <<conn_manager, answer>>
    BY <1>5 DEF TaskAbandoned
  <2>2. Owned' = {} /\ orphans \subseteq links'
    <3>1. CASE task_manager # NoManager
      <4>1. worker = "ready"
        BY <3>1 DEF IInv, TaskInv
      <4> QED BY <1>3, <1>5, <3>1, <4>1 DEF TaskAbandoned
    <3>2. CASE task_manager = NoManager
      <4>1. worker = "failed" /\ UNCHANGED <<links, orphans>>
        BY <1>1, <1>5, <3>2 DEF TaskAbandoned, IInv, TaskInv, kernel
      <4> QED BY <1>1, <1>4, <4>1 DEF Owned
    <3> QED BY <3>1, <3>2
  <2>3. Session!Release
    BY <1>1, <2>1, <2>2 DEF Session!Release, SessionPhase
  <2> QED BY <2>1, <2>2, <2>3 DEF Refines, Session!Next, Session!Settle
<1>6. CASE TaskFailed
  <2>1. /\ ~disconnecting /\ Owned = {} /\ answer' = "failure"
        /\ UNCHANGED <<conn_manager, links, orphans>>
    BY <1>4, <1>6 DEF TaskFailed, Failure, priv, kernel
  <2>2. Session!Refuse
    BY <1>1, <2>1 DEF Session!Refuse, SessionPhase, Owned
  <2> QED BY <1>1, <1>2, <2>1, <2>2 DEF Refines, Session!Next, Session!Settle
<1>7. CASE TaskConnected
  <2>1. /\ ~disconnecting /\ worker = "ready" /\ answer' = answer
        /\ conn_manager' = task_manager /\ config_source_id' = TRUE
        /\ UNCHANGED <<links, orphans>>
    BY <1>7 DEF TaskConnected, kernel
  <2>2. task_manager # NoManager /\ Owned = {task_manager.ifname}
    BY <2>1, TaskOwns
  <2>3. Session!Establish
    BY <1>1, <2>1, <2>2 DEF Session!Establish, SessionPhase, Owned
  <2> QED BY <1>1, <2>1, <2>3 DEF Refines, Session!Next, Session!Settle
<1>8. CASE TaskUnconfigurable
  <2>1. /\ ~disconnecting /\ worker = "ready" /\ answer' = "failure"
        /\ conn_manager' = conn_manager
    BY <1>8 DEF TaskUnconfigurable, Failure
  <2>2. Owned' = {} /\ orphans \subseteq links'
    BY <1>3, <1>8, <2>1 DEF TaskUnconfigurable
  <2>3. Session!Refuse
    BY <1>1, <2>1, <2>2 DEF Session!Refuse, SessionPhase
  <2> QED BY <1>2, <2>1, <2>2, <2>3 DEF Refines, Session!Next, Session!Settle
<1> QED BY <1>5, <1>6, <1>7, <1>8 DEF connect_task_completed

\* Every handler of the main loop.
LEMMA MainLoopRefines ==
    ASSUME IInv, MainLoop
    PROVE  /\ Refines /\ orphans \subseteq links'
           /\ answer' \notin {answer, "none"} => service_state = "starting"
<1>0. orphans \subseteq links
  BY DEF IInv, TypeOK
<1>1. ASSUME NEW p \in Profiles, wg_connect(p)
      PROVE  Refines /\ orphans \subseteq links' /\ answer' \in {answer, "none"}
  <2>1. service_state \in {"init", "stopped"} /\ UNCHANGED kernel
    BY <1>1 DEF wg_connect
  <2>2. CASE connect_task # NoTask /\ UNCHANGED <<service_state, task, priv, history>>
    BY <1>0, <2>1, <2>2
    DEF Refines, abstract, SessionPhase, Owned, task, priv, history, kernel
  <2>3. CASE /\ connect_task = NoTask
             /\ connect_task' = p
             /\ answer' = "none"
             /\ UNCHANGED <<task_manager, priv>>
    <3>1. /\ conn_manager = NoManager /\ ~disconnecting /\ p # NoTask
          /\ UNCHANGED <<disconnecting, links, orphans>>
      BY <2>1, <2>3, ProfileFacts DEF IInv, StoppedMeansReleased, FlagBelongsToTask, priv, kernel
    <3>2. Session!Request
      BY <2>3, <3>1 DEF Session!Request, SessionPhase, Owned
    <3> QED BY <1>0, <2>3, <3>1, <3>2 DEF Refines, Session!Next
  <2> QED BY <1>1, <2>2, <2>3 DEF wg_connect, connect_common
<1>2. CASE FailStop
  BY <1>0, <1>2
  DEF FailStop, Refines, abstract, SessionPhase, Owned, task, priv, history, kernel
<1>3. CASE Disconnect
  BY <1>3, DisconnectRefines DEF Disconnect
<1>4. CASE send_config
  <2>1. /\ connect_task = NoTask /\ conn_manager # NoManager
        /\ config_source_id /\ service_state = "starting"
    BY <1>4 DEF send_config, IInv, StateInv
  <2>2. /\ config_source_id' = FALSE /\ answer' = "config"
        /\ UNCHANGED <<connect_task, conn_manager, links, orphans>>
    BY <1>4 DEF send_config, task, kernel
  <2>3. Session!Announce
    BY <2>1, <2>2 DEF Session!Announce, SessionPhase, Owned
  <2> QED BY <1>0, <2>1, <2>2, <2>3 DEF Refines, Session!Next
<1>5. CASE connect_task_completed
  BY <1>5, CompletionRefines
<1> QED BY <1>1, <1>2, <1>3, <1>4, <1>5 DEF MainLoop

\* Every step of main() and of the life of the process.
LEMMA ProcessRefines ==
    ASSUME IInv, Process
    PROVE  Refines /\ orphans \subseteq links' /\ answer' \in {answer, "none"}
<1>0. orphans \subseteq links
  BY DEF IInv, TypeOK
<1>1. CASE UNCHANGED <<libnm, task, priv, kernel, history>>
  BY <1>0, <1>1
  DEF Refines, abstract, SessionPhase, Owned, task, priv, kernel, history
<1>2. CASE libnm_disconnect
  BY <1>2, DisconnectRefines
<1>3. CASE dispose
  <2>1. conn_manager = NoManager
    BY <1>3 DEF dispose, IInv, ProcInv, StoppedMeansReleased
  <2> QED BY <1>0, <1>3, <2>1
      DEF dispose, Refines, abstract, SessionPhase, Owned, task, kernel, history
<1>4. CASE ProcessEnds
  <2>1. /\ connect_task' = NoTask /\ conn_manager' = NoManager /\ answer' = "none"
    BY <1>4 DEF ProcessEnds
  <2>2. Owned' = {} /\ orphans \subseteq links'
    BY <1>4, ProcessEndsInv
  <2>3. Session!Vanish
    BY <2>1, <2>2 DEF Session!Vanish, SessionPhase
  <2> QED BY <2>1, <2>2, <2>3 DEF Refines, Session!Next
<1> QED BY <1>1, <1>2, <1>3, <1>4
    DEF Process, quit_mainloop, signal_handler, main_shutdown, Exit, Crash, Start

-----------------------------------------------------------------------------
\* What every step of the service does and does not do.
LEMMA StepEffect ==
    ASSUME IInv, Next
    PROVE  /\ Refines /\ orphans \subseteq links'
           /\ answer' \notin {answer, "none"} => service_state = "starting"
  BY WorkerRefines, WorkerEffect, MainLoopRefines, ProcessRefines DEF Next

\* The service implements the abstract session: every operation of the handlers,
\* of the worker and of main() is one step of TunnelSession or none.
THEOREM Refinement == Spec => ImplementsSession
<1>1. Init => Session!Init
  BY DEF Init, Session!Init, SessionPhase, Owned
<1>2. IInv /\ [Next]_vars => [Session!Next]_(Session!vars)
  <2>1. CASE Next
    BY <2>1, StepEffect DEF Refines, abstract, Session!vars
  <2>2. CASE UNCHANGED vars
    BY <2>2 DEF vars, task, priv, kernel, history, Session!vars, SessionPhase, Owned
  <2> QED BY <2>1, <2>2
<1> QED BY <1>1, <1>2, Invariance, PTL DEF Spec, ImplementsSession, Session!Spec

\* A link this process has no handle on is never touched, neither by a connect
\* of the same name (wg_add_device refuses it) nor by any rollback or teardown.
THEOREM ForeignLinksStay == Spec => ForeignLinksUntouched
<1>1. IInv /\ [Next]_vars => [orphans \subseteq links']_vars
  BY StepEffect
<1> QED BY <1>1, Invariance, PTL DEF Spec, ForeignLinksUntouched

\* Failure and Config are only ever sent while libnm waits for them
\* (connect_task_completed, send_config).
THEOREM AnswersAreAwaited == Spec => AnswerOnlyWhileStarting
<1>1. IInv /\ [Next]_vars
         => [answer' \notin {answer, "none"} => service_state = "starting"]_vars
  BY StepEffect
<1> QED BY <1>1, Invariance, PTL DEF Spec, AnswerOnlyWhileStarting

\* A session that is down owns no tunnel, one that is announced or up owns one.
THEOREM PhaseTellsTunnels == Spec => []TunnelMatchesPhase
<1>1. ASSUME IInv PROVE TunnelMatchesPhase
  <2>1. CASE connect_task # NoTask
    BY <2>1 DEF TunnelMatchesPhase, Session!TunnelMatchesPhase, SessionPhase
  <2>2. CASE connect_task = NoTask /\ conn_manager = NoManager
    <3>1. Owned = {}
      BY <1>1, <2>2, NobodyOwns DEF IInv, TaskInv, WorkerHasLink
    <3> QED BY <2>2, <3>1 DEF TunnelMatchesPhase, Session!TunnelMatchesPhase, SessionPhase
  <2>3. CASE connect_task = NoTask /\ conn_manager # NoManager
    <3>1. Owned = {conn_manager.ifname} /\ conn_manager.ifname \in IfNames
      BY <1>1, <2>3, ManagerOwns, ManagerFacts
    <3> QED BY <2>3, <3>1 DEF TunnelMatchesPhase, Session!TunnelMatchesPhase, SessionPhase
  <2> QED BY <2>1, <2>2, <2>3
<1> QED BY <1>1, Invariance, PTL

-----------------------------------------------------------------------------
\* A request that is still in progress has not been answered.
Unanswered == SessionPhase \in {"connecting", "announcing"} => answer = "none"

\* The abstract session alone shows that: only Refuse and Announce answer, and
\* both leave the phases in progress.
LEMMA UnansweredStep ==
    ASSUME Unanswered, Refines
    PROVE  Unanswered' /\ (answer # "none" /\ answer' # answer => answer' = "none")
<1>1. CASE UNCHANGED abstract
  BY <1>1 DEF abstract, Unanswered
<1>2. CASE Session!Next
  BY <1>2
  DEF Unanswered, Session!Next, Session!Settle, Session!Request, Session!Raise,
      Session!Undo, Session!Refuse, Session!Establish, Session!Announce,
      Session!Abandon, Session!Release, Session!Close, Session!Vanish
<1> QED BY <1>1, <1>2 DEF Refines

\* One Connect gets at most one of Failure and Config, although three handlers
\* can send one (connect_task_completed in two places, send_config).
THEOREM AnswersOnce == Spec => OneAnswer
<1>1. Init => Unanswered
  BY DEF Init, Unanswered
<1>2. IInv /\ Unanswered /\ [Next]_vars => Unanswered'
  <2>1. ASSUME Unanswered, UNCHANGED vars PROVE Unanswered'
    BY <2>1 DEF vars, task, priv, history, Unanswered, SessionPhase
  <2> QED BY <2>1, StepEffect, UnansweredStep
<1>3. IInv /\ Unanswered /\ [Next]_vars
         => [answer # "none" /\ answer' # answer => answer' = "none"]_vars
  BY StepEffect, UnansweredStep
<1> QED BY <1>1, <1>2, <1>3, Invariance, PTL DEF Spec, OneAnswer

-----------------------------------------------------------------------------
\* What is left when nobody owns a link is lost already.
LEMMA NothingOwned == IInv /\ Owned = {} => links = orphans
  BY DEF IInv, TypeOK, Owned

\* A Disconnect answered with success: an interface that could not be deleted is
\* reported, whatever happened to the routes before it.
LEMMA DisconnectOk ==
    ASSUME IInv, libnm_disconnect, reply' = "ok", connect_task = NoTask
    PROVE  links' = orphans
<1>1. wg_disconnect(TRUE)
  BY DEF libnm_disconnect
<1>2. CASE conn_manager = NoManager /\ UNCHANGED kernel
  <2>1. Owned = {}
    BY <1>2, NobodyOwns DEF IInv, TaskInv, WorkerHasLink
  <2> QED BY <1>2, <2>1, NothingOwned DEF kernel
<1>3. CASE conn_manager # NoManager /\ cleanup_connection_manager(conn_manager, methods, TRUE)
  <2>1. links' = links \ {conn_manager.ifname}
    BY <1>3 DEF cleanup_connection_manager, manager_disconnect
  <2>2. Owned = {conn_manager.ifname} /\ orphans \subseteq links
    BY <1>3, ManagerOwns DEF IInv, TypeOK
  <2> QED BY <2>1, <2>2 DEF Owned
<1> QED BY <1>1, <1>2, <1>3 DEF wg_disconnect

\* Success of a Disconnect means that the tunnel is gone, or that a running task
\* will remove it (wg_disconnect, cleanup_connection_manager).
THEOREM DisconnectOkIsTrue == Spec => DisconnectOkMeansReleased
<1>1. IInv /\ [Next]_vars
        => [reply' = "ok" /\ reply # "ok" => links' = orphans \/ connect_task # NoTask]_vars
  <2> SUFFICES ASSUME IInv, Next, reply' = "ok", reply # "ok", connect_task = NoTask
               PROVE  links' = orphans
    OBVIOUS
  <2>1. libnm_disconnect
    BY DEF Next, MainLoop, Worker, Process, wg_connect, connect_common, FailStop,
           Disconnect, send_config, connect_task_completed, connect_worker,
           netlink_add_device, netlink_configure, add_routes, external_connect,
           WorkerFrame, quit_mainloop, signal_handler, main_shutdown, dispose,
           Exit, Crash, ProcessEnds, Start, history
  <2> QED BY <2>1, DisconnectOk
<1> QED BY <1>1, Invariance, PTL DEF Spec, DisconnectOkMeansReleased

\* A process that ends with no task running leaves no further link behind: the
\* shutdown has torn down what it held (main, dispose).
THEOREM IdleExitIsClean == Spec => IdleExitLeavesNothing
<1>1. IInv /\ [Next]_vars
        => [proc = "unreffed" /\ proc' = "exited" /\ connect_task = NoTask
               => links' = orphans]_vars
  <2> SUFFICES ASSUME IInv, Next, proc = "unreffed", proc' = "exited", connect_task = NoTask
               PROVE  links' = orphans
    OBVIOUS
  <2>1. ProcessEnds
    BY DEF Next, MainLoop, Worker, Process, wg_connect, FailStop, Disconnect, send_config,
           connect_task_completed, connect_worker, netlink_add_device,
           netlink_configure, add_routes, external_connect, WorkerFrame,
           quit_mainloop, signal_handler, main_shutdown, dispose,
           Exit, Crash, Start, LoopRuns
  <2>2. worker = "none" /\ conn_manager = NoManager
    BY DEF IInv, TaskInv, ProcInv, StoppedMeansReleased
  <2>3. links' = links
    BY <2>1, <2>2 DEF ProcessEnds
  <2>4. Owned = {}
    BY <2>2, NobodyOwns DEF WorkerHasLink
  <2> QED BY <2>3, <2>4, NothingOwned
<1> QED BY <1>1, Invariance, PTL DEF Spec, IdleExitLeavesNothing

=============================================================================
