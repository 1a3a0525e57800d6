----------------------------- MODULE ProfileCodec -----------------------------
(***************************************************************************)
(* A device as NetworkManager's connection (src/shared/awg/                *)
(* awg-nm-connection.c): the items of vpn.data and vpn.secrets and the two *)
(* IP settings.  Which secrets NetworkManager hands out, and the numbering *)
(* of the peers when an editor rewrites them, are the matter of            *)
(* ProfileStore; here every secret is there and the values count.          *)
(*                                                                         *)
(* An item that is missing is Unset, like a text that is empty.            *)
(***************************************************************************)
EXTENDS AWGDevice, SequencesExt

CONSTANTS
    MaxPeers,     \* 16: the numbers awg_device_new_from_nm_connection tries
    FlagWords     \* the spellings of a flag that is on: "on" and "true", in any case

ASSUME ProfileCodecAssumption == MaxPeers \in Nat /\ On \in FlagWords

\* The methods, addresses and DNS servers of the settings ipv4 and ipv6.
NoIp == [method |-> "", never_default |-> FALSE, addresses |-> <<>>, dns |-> <<>>]

no_connection == [text   |-> [f \in TextFields \cup FlagFields |-> Unset],
                  number |-> [f \in NumberFields |-> Unset],
                  ip     |-> [f \in Families |-> NoIp],
                  peers  |-> <<>>]

-----------------------------------------------------------------------------
(* Writing.                                                                *)

\* Wrong variant: the family is not looked at.
allowed_ips_have_default_AnyFamily(d, f) ==
    \E p \in DOMAIN d.peers : \E i \in DOMAIN d.peers[p].allowed_ips :
        d.peers[p].allowed_ips[i].prefix = 0

allowed_ips_have_default(d, f) ==
    \E p \in DOMAIN d.peers : \E i \in DOMAIN d.peers[p].allowed_ips :
        LET ip == d.peers[p].allowed_ips[i] IN ip.family = f /\ ip.prefix = 0

Method == [v4 |-> [present |-> "auto", absent |-> "disabled"],
           v6 |-> [present |-> "manual", absent |-> "ignore"]]

\* nm_setting_ip_config_add_dns takes no server twice.
Distinct(s) == Pick(s, {i \in DOMAIN s : \A j \in 1 .. i - 1 : s[j] # s[i]})

\* never-default is left as it was for a family without an address.
ip_setting(d, f, old) ==
    LET present == d.address[f] # <<>> IN
    [method        |-> IF present THEN Method[f].present ELSE Method[f].absent,
     never_default |-> IF present THEN ~allowed_ips_have_default(d, f) ELSE old.never_default,
     addresses     |-> d.address[f],
     dns           |-> Distinct(d.dns[f])]

\* Numbers that may be unset are only written when they are not 0.
NumberItem(d, f) ==
    IF f \in {"listen_port", "fw_mark", "mtu"} /\ d.number[f] = 0 THEN Unset ELSE <<d.number[f]>>

FlagItem(d, f) == IF f \in d.on THEN <<On>> ELSE Unset

PeerItem(p) ==
    [p EXCEPT !.keep_alive = <<@>>, !.advanced_security = IF @ THEN <<On>> ELSE <<Off>>]

\* A new setting "vpn" takes the place of the old one.
awg_device_save_to_nm_connection(d, c) ==
    [text   |-> [f \in TextFields \cup FlagFields |->
                    IF f \in FlagFields THEN FlagItem(d, f) ELSE d.text[f]],
     number |-> [f \in NumberFields |-> NumberItem(d, f)],
     ip     |-> [f \in Families |-> ip_setting(d, f, c.ip[f])],
     peers  |-> [i \in DOMAIN d.peers |-> PeerItem(d.peers[i])]]

-----------------------------------------------------------------------------
(* Reading.  What a setter rejects is left at its default.                 *)

load_number(c, f) ==
    LET d == awg_device_new
        t == c.number[f] IN
    IF t = Unset THEN 0
    ELSE (CASE f \in JunkFields    -> awg_device_set_junk_from_string(d, f, t)
            [] f \in PaddingFields -> awg_device_set_padding_from_string(d, f, t)
            [] f = "listen_port"   -> awg_device_set_listen_port_from_string(d, t)
            [] f = "fw_mark"       -> awg_device_set_fw_mark_from_string(d, t)
            [] f = "mtu"           -> awg_device_set_mtu_from_string(d, t)).value.number[f]

load_text(c, f) ==
    LET d == awg_device_new
        t == c.text[f] IN
    IF t = Unset THEN Unset
    ELSE (CASE f = "private_key"           -> awg_device_set_private_key(d, t)
            [] f = "public_key"            -> awg_device_set_public_key(d, t)
            [] f \in HeaderFields          -> awg_device_set_h(d, f, t)
            [] f \in PacketFields          -> awg_device_set_i(d, f, t)
            [] f = "header_protection_key" -> awg_device_set_header_protection_key(d, t)
            [] f \in RangeFields           -> awg_device_set_range(d, f, t)
            [] f \in ScriptFields          -> awg_device_set_script(d, f, t)).value.text[f]

load_flags(c) == {f \in FlagFields : \E w \in FlagWords : c.text[f] = <<w>>}

\* They are set one by one; as the setter accumulates, that is the same as all
\* at once.
load_addresses(d, addresses) == awg_device_set_address_from_string(d, addresses).value

\* Wrong variant: the servers of one family keep those of the other.
load_dns_Merge(d, dns) ==
    [d EXCEPT !.dns = [f \in Families |-> @[f] \o OfFamily(dns, f)]]

load_dns(d, dns) == awg_device_set_dns_from_string(d, dns).value

load_ip(d, ip) == load_dns(load_addresses(d, ip.addresses), ip.dns)

load_peer(items) ==
    LET p1 == awg_device_peer_set_public_key(awg_device_peer_new, items.public_key).value
        p2 == awg_device_peer_set_shared_key(p1, items.shared_key).value
        p3 == awg_device_peer_set_endpoint(p2, items.endpoint).value
        p4 == awg_device_peer_set_allowed_ips_from_string(p3, items.allowed_ips).value
        p5 == awg_device_peer_set_keep_alive_interval_from_string(p4, items.keep_alive).value IN
    awg_device_peer_set_advanced_security(p5, items.advanced_security = <<On>>)

\* The first numbers that have a key; MaxPeers are tried.
numbered(peers) ==
    LET missing == {i \in 1 .. Len(peers) : peers[i].public_key = Unset}
        tried   == Min({Len(peers), MaxPeers}) IN
    [i \in 1 .. Min({tried} \cup {j - 1 : j \in missing}) |-> peers[i]]

\* awg_device_add_peer takes the valid ones.
load_peers(d, peers) ==
    LET read == [i \in DOMAIN numbered(peers) |-> load_peer(peers[i])] IN
    [d EXCEPT !.peers = Pick(read, {i \in DOMAIN read : awg_device_peer_is_valid(read[i])})]

awg_device_new_from_nm_connection(c) ==
    LET d == [awg_device_new EXCEPT
                 !.text   = [f \in TextFields |-> load_text(c, f)],
                 !.number = [f \in NumberFields |-> load_number(c, f)],
                 !.on     = load_flags(c)] IN
    load_peers(load_ip(load_ip(d, c.ip["v4"]), c.ip["v6"]), c.peers)
=============================================================================
