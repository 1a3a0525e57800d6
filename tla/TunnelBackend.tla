---------------------------- MODULE TunnelBackend ----------------------------
(***************************************************************************)
(* What a connection manager promises the service that uses it, for one    *)
(* session: which link and routes it is responsible for in each phase, and *)
(* what its answers say about them.  There are no requests, no families    *)
(* and no routing table in it, only what others may do to the link.        *)
(*                                                                         *)
(* NetlinkTunnel implements this specification (Backend!Spec there).       *)
(***************************************************************************)

VARIABLES
    phase,
    link,        \* the session's link exists
    routed,      \* some route of the session exists
    answer,      \* what was heard of the session last
    deletable    \* a link is deleted when the kernel is asked to

vars == <<phase, link, routed, answer, deletable>>

Init ==
    /\ phase = "connecting" /\ link = FALSE /\ routed = FALSE
    /\ answer = "none" /\ deletable \in BOOLEAN

-----------------------------------------------------------------------------
\* Deleting the link takes the routes along; only the kernel can prevent it.
LinkDeleted ==
    \/ link' = FALSE /\ routed' = FALSE
    \/ ~deletable /\ UNCHANGED <<link, routed>>

\* The connect is refused before there is anything to undo.
Refuse ==
    /\ phase = "connecting"
    /\ phase' = "over" /\ answer' = "failure"
    /\ UNCHANGED <<link, routed, deletable>>

Acquire ==
    /\ phase = "connecting"
    /\ phase' = "configuring" /\ link' = TRUE
    /\ UNCHANGED <<routed, answer, deletable>>

\* It fails later: the link is deleted again.
GiveUp ==
    /\ phase = "configuring"
    /\ phase' = "over" /\ answer' = "failure" /\ LinkDeleted
    /\ UNCHANGED deletable

Complete ==
    /\ phase = "configuring" /\ phase' = "connected"
    /\ UNCHANGED <<link, routed, answer, deletable>>

\* Routes are added to a connected tunnel and to no other.
AddRoute ==
    /\ phase = "connected" /\ link
    /\ routed' = TRUE
    /\ UNCHANGED <<phase, link, answer, deletable>>

Announce ==
    /\ phase = "connected" /\ phase' = "up" /\ answer' = "config"
    /\ UNCHANGED <<link, routed, deletable>>

\* It is not announced after all.
Abandon ==
    /\ phase = "connected" /\ phase' = "releasing"
    /\ answer' \in {"none", "failure"}
    /\ UNCHANGED <<link, routed, deletable>>

Disconnect ==
    /\ phase = "up" /\ phase' = "releasing"
    /\ UNCHANGED <<link, routed, answer, deletable>>

\* The end of a teardown: a Disconnect is told whether anything is left, and
\* perhaps that a step failed.
Release ==
    /\ phase = "releasing" /\ phase' = "over"
    /\ LinkDeleted
    /\ \/ answer # "config" /\ UNCHANGED answer
       \/ answer = "config" /\ answer' = "error"
       \/ answer = "config" /\ ~link' /\ ~routed' /\ answer' = "disconnected"
    /\ UNCHANGED deletable

\* Routes go while the session lasts, by the teardown or by others; so may the
\* link.
RoutesGo ==
    /\ phase # "over" /\ routed' = FALSE
    /\ UNCHANGED <<phase, link, answer, deletable>>

LinkGoes ==
    /\ phase # "over" /\ link' = FALSE /\ routed' = FALSE
    /\ UNCHANGED <<phase, answer, deletable>>

Next ==
    \/ Refuse \/ Acquire \/ GiveUp \/ Complete \/ AddRoute
    \/ Announce \/ Abandon \/ Disconnect \/ Release \/ RoutesGo \/ LinkGoes

Spec == Init /\ [][Next]_vars
=============================================================================
