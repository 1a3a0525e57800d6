---------------------------- MODULE MCSetDevice ----------------------------
(* Instances of SetDevice for TLC. *)
EXTENDS SetDevice

MCMaxIps == 3

\* Up to three peers: none, peers without AllowedIPs, and peers whose
\* AllowedIPs end before, at and after the end of a message; with and without
\* what the ABIs encode differently.
MCDevices ==
    [ips : {<<>>, <<0>>, <<1, 2>>, <<3, 0>>, <<2, 3, 1>>}, keepalive : {{}, {2}},
     magic : BOOLEAN, awg31 : BOOLEAN, size : {1, 4}]

\* An environment that never fails, and one in which everything may.
MCFaults == {{}, {"EINVAL", "error", "open", "delete", "add"}}
=============================================================================
