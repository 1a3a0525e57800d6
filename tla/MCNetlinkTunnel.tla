-------------------------- MODULE MCNetlinkTunnel --------------------------
(* Instances of NetlinkTunnel for TLC. *)
EXTENDS NetlinkTunnel, TLC

MCIp(f, n)    == [family |-> f, net |-> n, exact |-> TRUE]
MCLoose(f, n) == [family |-> f, net |-> n, exact |-> FALSE]
MCPeer(e, ips) == [endpoint |-> e, allowed_ips |-> ips]

MCAddress(n4, n6) == "v4" :> n4 @@ "v6" :> n6

\* Both families; a prefix in the lists of two peers; the own prefix; bits
\* beyond the prefix.
MCLists ==
    {<<MCPeer("literal", <<MCIp("v4", "a"), MCIp("v6", "a")>>)>>,
     <<MCPeer("bracketed", <<MCIp("v4", "a")>>), MCPeer("name", <<MCIp("v4", "b"), MCIp("v4", "a")>>)>>,
     <<MCPeer("name", <<MCLoose("v4", "b"), MCIp("v4", "b"), MCLoose("v6", "b")>>)>>}

MCDevices ==
    {[peers |-> l, address |-> a, mtu |-> m, awg31 |-> m] :
        l \in MCLists, m \in BOOLEAN,
        a \in {MCAddress("a", NoNet), MCAddress("self", "self"), MCAddress(NoNet, NoNet)}}

MCForeign == {{}, {<<"v4", "a">>}, {<<"v6", "a">>, <<"v4", "b">>}}

\* No failure, each one alone, and those that meet in a teardown.
MCFaults == {{}, {"dns"}, {"add"}, {"set"}, {"local"}, {"refuse"}, {"route"}, {"delete"},
             {"refuse", "delete"}, {"refuse", "route", "delete"}}

\* Nothing fails; every form of an endpoint.
MCNoFault   == {{}}
=============================================================================
