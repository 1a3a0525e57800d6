--------------------------- MODULE MCProfileStore ---------------------------
(* Instances of ProfileStore for TLC. *)
EXTENDS ProfileStore, TLC

CONSTANTS k1, k2, p1, r1, ShortKey

MCKeys  == {k1, k2}
MCRests == {r1}
MCOtherKeys == {ShortKey}

\* One peer was set up with a preshared key, the other without.
MCPskOf == k1 :> p1 @@ k2 :> None

APeer(k, psk, flags) == [public_key |-> k, psk |-> psk, flags |-> flags, rest |-> r1]

MCImported == {APeer(k1, p1, "none"), APeer(k2, None, "none")}

\* A key for the agent, one that is asked for each time, no key at all, and a
\* peer whose AllowedIPs were emptied.
MCOffered == {APeer(k1, p1, "agent"), APeer(k1, None, "notsaved"),
              APeer(k2, None, "notrequired"), [APeer(k1, p1, "none") EXCEPT !.rest = None]}

Parameters(headers, i5, flag, fw_mark) ==
    [headers |-> headers, i5 |-> i5, flag |-> flag, fw_mark |-> fw_mark]

\* WireGuard's own, all that AmneziaWG has with a mark of 32 bits, and a header that
\* is the default of another one.
MCImportedInterfaces == {NoParameters, Parameters(<<7, 8, 9, None>>, TRUE, "on", 2 * IntMax),
                         Parameters(<<2, None, None, None>>, FALSE, None, IntMax)}

\* Two headers that overlap, and none without an I5.
MCOfferedInterfaces == {Parameters(<<7, 7, None, None>>, TRUE, None, IntMax)}

\* A peer whose key is stored, and one without a key.
PlainOffered == {APeer(k1, p1, "none"), APeer(k2, None, "notrequired")}

NmcliWrites(public_key, rests, flags) ==
    [Empty EXCEPT !.public_key = [i \in Slots |-> public_key[i]],
                  !.rest = [i \in Items |-> IF i = 0 THEN NoParameters ELSE rests[i]],
                  !.flags = [i \in Items |-> IF i = 0 THEN None ELSE flags[i]]]

\* A gap, a key that does not parse, an incomplete peer, and flags without a peer.
MCHandWritten == {
    NmcliWrites(<<k1, None, k2>>, <<r1, None, r1>>, <<None, None, None>>),
    NmcliWrites(<<BadKey, k2, None>>, <<r1, r1, None>>, <<"none", None, None>>),
    NmcliWrites(<<k1, k2, None>>, <<None, r1, None>>, <<"agent", "notrequired", None>>),
    NmcliWrites(<<k1, None, None>>, <<r1, None, None>>, <<"none", "none", None>>),
    [NmcliWrites(<<k2, None, None>>, <<r1, None, None>>, <<None, None, None>>)
        EXCEPT !.rest[0] = Parameters(<<7, 7, None, None>>, FALSE, "true", None)]}

\* The conversion of x86: the lowest gint.
Lowest == -IntMax - 1

NoConnections == {}
Both   == BOOLEAN
Always == {TRUE}
Never  == {FALSE}
=============================================================================
