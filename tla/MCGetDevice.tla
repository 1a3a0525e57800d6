---------------------------- MODULE MCGetDevice ----------------------------
(* Instances of GetDevice for TLC. *)
EXTENDS GetDevice

\* Every second peer has a keepalive.
MCPeers(shapes) ==
    [n \in DOMAIN shapes |-> [key |-> n, keepalive |-> n % 2 = 1, ips |-> shapes[n]]]

\* No peer, a peer without AllowedIPs between two others, and peers whose
\* AllowedIPs can be cut into three pieces.
MCConfs ==
    [attrs : {{"numbers", "packets"}, {"numbers", "narrow", "wide"}, {"numbers", "wide", "awg31"}},
     peers : {<<>>, MCPeers(<<<<"a">>, <<>>, <<"b", "c">>>>), MCPeers(<<<<"a", "b", "c">>>>)}]

\* The same, with AllowedIPs the parser does not know.
MCBadConfs ==
    [attrs : {{"numbers"}},
     peers : {MCPeers(<<<<"a", Bad, "b">>, <<"c", "b">>>>), MCPeers(<<<<Bad>>, <<"a", "b", "c">>>>)}]

MCAllConfs == MCConfs \cup MCBadConfs

\* An environment that never fails, and one in which everything may.
MCFaults == {{}, {"open", "send", "recv", "memory"}}
=============================================================================
