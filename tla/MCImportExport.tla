---------------------------- MODULE MCImportExport ----------------------------
(***************************************************************************)
(* Instances of ImportExport: a dual-stack configuration with two peers,   *)
(* and the files one gets from it by dropping a line, inserting one of     *)
(* Extras, or two headers, or two lines that are rejected.                 *)
(***************************************************************************)
EXTENDS ImportExport

CONSTANTS k1, k2, k3, e1, e2, c1, junk, true   \* words

V4(h, p) == [family |-> "v4", host |-> h, prefix |-> p]
V6(h, p) == [family |-> "v6", host |-> h, prefix |-> p]
BadEntry == [family |-> "bad", host |-> 0, prefix |-> NoPrefix]

L(key, text) == Line(key, text)

Base == <<
    L(Interface, Unset),
    L("private_key", <<k1>>),
    L("address", <<V4(1, 32), V6(1, 128)>>),
    L("dns", <<V4(2, NoPrefix), V6(2, NoPrefix)>>),
    L("h1", <<1, 5>>),
    L(PeerSection, Unset),
    L("public_key", <<k2>>),
    L("endpoint", <<e1>>),
    L("allowed_ips", <<V4(0, 0)>>),
    L(PeerSection, Unset),
    L("public_key", <<k3>>),
    L("endpoint", <<e2>>),
    L("allowed_ips", <<V6(0, NoPrefix), Blank>>)>>

\* Each key once with a value at a limit and once with one that is rejected.
Extras ==
    {L(Interface, Unset), L(PeerSection, Unset), L(Comment, Unset), L(NoEquals, Unset),
     L("private_key", Unset), L("public_key", <<k2>>), L("#_public_key", <<junk>>),
     L("address", <<V4(9, 24)>>), L("address", <<V6(9, NoPrefix), BadEntry>>), L("address", <<Blank, Blank>>),
     L("dns", <<V4(3, NoPrefix), V4(3, NoPrefix)>>), L("dns", <<V6(3, 64)>>),
     L("listen_port", <<U16Max>>), L("listen_port", <<U16Max + 1>>),
     L("fw_mark", <<U16Max + 2>>), L("fw_mark", <<U32Max + 1>>),
     L("mtu", <<67>>), L("mtu", <<68>>), L("mtu", Unset),
     L("jmin", <<5>>), L("jmax", <<U16Max>>), L("jmax", <<U16Max - 1>>),
     L("s3", <<U16Max>>), L("s4", <<U16Max - 32>>),
     L("h1", Unset), L("h2", <<5>>), L("h3", <<9, 6>>), L("h4", <<3, 7>>),
     L("i1", <<c1>>), L("i5", <<junk>>),
     L("header_protection_key", <<k3>>), L("rekey_timeout", <<5, 6>>), L("rekey_timeout", <<6, 5>>),
     L("random_trailers", <<true>>), L("disable_cookies", <<junk>>),
     L("pre_up", <<junk>>),
     L("endpoint", <<e2>>), L("endpoint", <<junk>>), L("public_key", <<junk>>), L("public_key", <<k3>>),
     L("shared_key", <<k1>>), L("shared_key", Unset), L("shared_key", <<junk>>),
     L("allowed_ips", <<V4(7, 24), V6(0, 0)>>), L("allowed_ips", <<Blank, Blank>>), L("allowed_ips", <<V4(7, 33)>>),
     L("keep_alive", <<U16Max>>), L("keep_alive", <<Off>>), L("keep_alive", <<junk>>),
     L("advanced_security", <<On>>), L("advanced_security", <<true>>)}

\* Those whose effects meet in a second line of the kind.
Sections == {L(Interface, Unset), L(PeerSection, Unset)}
Mistakes == {L("shared_key", <<junk>>), L("keep_alive", <<junk>>)}

Inserted(f, lines) == {InsertAt(f, i, l) : i \in 1 .. Len(f) + 1, l \in lines}
Dropped(f) == {RemoveAt(f, i) : i \in 1 .. Len(f)}

OneChange == {Base} \cup Inserted(Base, Extras) \cup Dropped(Base)
MCFiles == OneChange \cup UNION {Inserted(f, Sections) : f \in Inserted(Base, Sections) \cup Dropped(Base)}
                     \cup UNION {Inserted(f, Mistakes) : f \in Inserted(Base, Mistakes)}

\* A value that is accepted, two that are rejected, of the interface and of a peer,
\* and one that a file cannot have.
MCEdits ==
    {L("jmax", <<U16Max>>), L("h1", White), L("random_trailers", <<true>>),
     L("allowed_ips", <<V6(0, 129)>>)}
NoEdits == {}
NoFaults == {}
=============================================================================
