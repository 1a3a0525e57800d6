---------------------------- MODULE TunnelSession ----------------------------
(***************************************************************************)
(* What the VPN service promises NetworkManager, with no worker thread, no *)
(* backend, no libnm and no process in it: one session at a time, the      *)
(* tunnels it holds in each phase, and the one answer each request gets.   *)
(*                                                                         *)
(* PluginService implements this specification (Session!Spec there).       *)
(***************************************************************************)

CONSTANT IfNames

VARIABLES
    phase,      \* where the session is
    tunnels,    \* the interfaces the service is responsible for
    told        \* what NetworkManager heard about the current request

vars == <<phase, tunnels, told>>

TypeOK ==
    /\ phase \in {"down", "connecting", "releasing", "announcing", "up"}
    /\ tunnels \in SUBSET IfNames
    /\ told \in {"none", "failure", "config"}

Init == phase = "down" /\ tunnels = {} /\ told = "none"

-----------------------------------------------------------------------------
\* Connect is accepted.
Request ==
    /\ phase = "down"
    /\ phase' = "connecting" /\ told' = "none"
    /\ UNCHANGED tunnels

\* Work in progress raises the tunnel, or takes a half-made one down again.
Raise(i) ==
    /\ phase \in {"connecting", "releasing"} /\ tunnels = {}
    /\ tunnels' = {i}
    /\ UNCHANGED <<phase, told>>

Undo ==
    /\ phase \in {"connecting", "releasing"}
    /\ tunnels' = {}
    /\ UNCHANGED <<phase, told>>

\* The request fails: nothing is left of it, and NetworkManager is told.
Refuse ==
    /\ phase = "connecting"
    /\ phase' = "down" /\ tunnels' = {} /\ told' = "failure"

\* The tunnel stands and its configuration will be sent.
Establish ==
    /\ phase = "connecting" /\ tunnels # {}
    /\ phase' = "announcing"
    /\ UNCHANGED <<tunnels, told>>

Announce ==
    /\ phase = "announcing"
    /\ phase' = "up" /\ told' = "config"
    /\ UNCHANGED tunnels

\* Disconnect before the work is done: the service finishes and undoes it.
Abandon ==
    /\ phase = "connecting"
    /\ phase' = "releasing"
    /\ UNCHANGED <<tunnels, told>>

Release ==
    /\ phase = "releasing"
    /\ phase' = "down" /\ tunnels' = {}
    /\ UNCHANGED told

\* Disconnect of a tunnel that stands.
Close ==
    /\ phase \in {"announcing", "up"}
    /\ phase' = "down" /\ tunnels' = {}
    /\ UNCHANGED told

\* The service goes away, and with it every responsibility.
Vanish == phase' = "down" /\ tunnels' = {} /\ told' = "none"

Settle == Undo \/ Refuse \/ Establish \/ Release

Next ==
    \/ Request \/ \E i \in IfNames : Raise(i)
    \/ Settle \/ Announce \/ Abandon \/ Close \/ Vanish

Spec == Init /\ [][Next]_vars

-----------------------------------------------------------------------------
\* What a user of the service may rely on: a session that is down holds no
\* tunnel, one that is announced or up holds exactly one.
TunnelMatchesPhase ==
    /\ phase = "down" => tunnels = {}
    /\ phase \in {"announcing", "up"} => \E i \in IfNames : tunnels = {i}

\* Work in progress comes to an end.
Settles == phase \in {"connecting", "releasing", "announcing"}
              ~> phase \in {"down", "up"}

=============================================================================
