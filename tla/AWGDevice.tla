------------------------------ MODULE AWGDevice ------------------------------
(***************************************************************************)
(* AWGDevice and AWGDevicePeer (src/shared/awg/awg-device.c) with the      *)
(* validators they call (awg-validate.c): the objects the editor, the      *)
(* import and the service pass to each other, as pure operators.  A setter *)
(* returns whether it accepted the text, and the object afterwards.        *)
(*                                                                         *)
(* A text is a sequence: empty (or NULL), <<x>> for a single word or       *)
(* number, <<lo, hi>> for a range; any longer one parses as nothing.       *)
(* <<Space>> is a text of white space only; others have none around them.  *)
(* The text of a list (addresses, AllowedIPs, DNS servers) is the sequence *)
(* of its entries between the commas.                                      *)
(***************************************************************************)
EXTENDS Integers, FiniteSets, Sequences

CONSTANTS
    Keys,        \* words that are base64 for 32 bytes
    Endpoints,   \* words that are host:port
    Packets,     \* words in the CPS format
    On, Off,     \* the words "on" and "off"
    Space,       \* white space
    U16Max       \* 65535

ASSUME DeviceAssumption == U16Max \in Nat /\ U16Max >= 1500

\* Words and numbers are told apart by how they are spelled.
ASSUME WordsAssumption == On # Off /\ Off \notin Int

ASSUME SpaceAssumption == Space \notin Int /\ Space \notin Keys \cup Packets

U32Max == (U16Max + 1) * (U16Max + 1) - 1

IsText(t) == Len(t) \in Nat /\ t = [i \in 1 .. Len(t) |-> t[i]]

Unset == <<>>
White == <<Space>>

\* g_strstrip
Stripped(t) == IF t = White THEN Unset ELSE t

\* awg_validate_empty trims a copy of the text; the text itself stays.
awg_validate_empty(t) == Stripped(t) = Unset

Families == {"v4", "v6"}
Bits     == [v4 |-> 32, v6 |-> 128]
NoPrefix == -1

\* An empty entry between two commas.  Others are [family, host, prefix].
Blank  == [family |-> "blank", host |-> 0, prefix |-> NoPrefix]

JunkFields    == {"jc", "jmin", "jmax"}
PaddingFields == {"s1", "s2", "s3", "s4"}
NumberFields  == {"listen_port", "fw_mark", "mtu"} \cup JunkFields \cup PaddingFields
HeaderFields  == {"h1", "h2", "h3", "h4"}
PacketFields  == {"i1", "i2", "i3", "i4", "i5"}
RangeFields   == {"content_padding_addition", "rekey_after_time", "rekey_timeout",
                  "reject_after_time", "keepalive_timeout", "max_handshake_attempts"}
ScriptFields  == {"pre_up", "post_up", "pre_down", "post_down"}
KeyFields     == {"private_key", "public_key", "header_protection_key"}
TextFields    == KeyFields \cup HeaderFields \cup PacketFields \cup RangeFields \cup ScriptFields
FlagFields    == {"random_trailers", "disable_cookies"}

awg_device_new ==
    [text    |-> [f \in TextFields |-> Unset],
     number  |-> [f \in NumberFields |-> 0],
     on      |-> {},
     address |-> [f \in Families |-> <<>>],
     dns     |-> [f \in Families |-> <<>>],
     peers   |-> <<>>]

awg_device_peer_new ==
    [public_key |-> Unset, shared_key |-> Unset, endpoint |-> Unset,
     allowed_ips |-> <<>>, keep_alive |-> 0, advanced_security |-> FALSE]

Accept(x) == [ok |-> TRUE, value |-> x]
Reject(x) == [ok |-> FALSE, value |-> x]

-----------------------------------------------------------------------------
(* Texts.                                                                  *)

\* g_ascii_string_to_unsigned(t, 10, 0, max)
IsUnsigned(t, max) == Len(t) = 1 /\ t[1] \in 0 .. max

awg_key_from_base64(t) == Len(t) = 1 /\ t[1] \in Keys

awg_is_valid_endpoint(t) == Len(t) = 1 /\ t[1] \in Endpoints

awg_validate_i_packet(t) == awg_validate_empty(t) \/ (Len(t) = 1 /\ t[1] \in Packets)

IsRange(t, max) == Len(t) = 2 /\ t[1] \in 0 .. max /\ t[2] \in 0 .. max /\ t[1] <= t[2]

awg_validate_magic_header(t) ==
    awg_validate_empty(t) \/ IsUnsigned(t, U32Max) \/ IsRange(t, U32Max)

\* The interval a header stands for: the ends, empty when there is no header,
\* and for white space too.
awg_magic_header_parse(t) ==
    IF IsUnsigned(t, U32Max) THEN <<t[1], t[1]>> ELSE IF IsRange(t, U32Max) THEN t ELSE Unset

\* Wrong variant: the ends are not compared.
awg_range_parse_u32_NoOrder(t) ==
    Len(t) \in {1, 2} /\ \A i \in DOMAIN t : t[i] \in 0 .. U16Max

awg_range_parse_u32(t) == IsUnsigned(t, U16Max) \/ IsRange(t, U16Max)

\* hi << 16 | lo, as the kernel keeps it.
packed(t) == t[Len(t)] * (U16Max + 1) + t[1]

awg_validate_magic_headers_no_overlap(text) ==
    \A f, g \in HeaderFields :
        LET a == awg_magic_header_parse(text[f])
            b == awg_magic_header_parse(text[g]) IN
        (f # g /\ a # Unset /\ b # Unset) => (a[2] < b[1] \/ b[2] < a[1])

awg_validate_jmin_jmax(number) ==
    \/ number["jmin"] = 0 /\ number["jmax"] = 0
    \/ number["jmin"] <= number["jmax"]

-----------------------------------------------------------------------------
(* Lists.                                                                  *)

\* The k-th smallest member of a set of numbers.
Nth(S, k) == CHOOSE i \in S : Cardinality({j \in S : j <= i}) = k

\* What a sequence has at these places, in its order.
Pick(s, places) == [k \in 1 .. Cardinality(places) |-> s[Nth(places, k)]]

Entries(t) == Pick(t, {i \in DOMAIN t : t[i] # Blank})

\* A subnet without a prefix is a single host.
awg_subnet_is_valid(e) ==
    e.family \in Families /\ e.prefix \in {NoPrefix} \cup 0 .. Bits[e.family]

awg_subnet_new_from_string(e) ==
    [family |-> e.family, host |-> e.host,
     prefix |-> IF e.prefix = NoPrefix THEN Bits[e.family] ELSE e.prefix]

IsAddress(e) == e.family \in Families /\ e.prefix = NoPrefix

First(s) == IF s = <<>> THEN s ELSE <<s[1]>>

Subnets(t) == [i \in DOMAIN t |-> awg_subnet_new_from_string(t[i])]

OfFamily(s, f) == Pick(s, {i \in DOMAIN s : s[i].family = f})

\* The addresses of a family in a list.
AddressesOf(t, f) ==
    Subnets(Pick(t, {i \in DOMAIN t : awg_subnet_is_valid(t[i]) /\ t[i].family = f}))

-----------------------------------------------------------------------------
(* Setters of the device.                                                  *)

set_number(d, f, t, max) ==
    IF IsUnsigned(t, max) THEN Accept([d EXCEPT !.number[f] = t[1]]) ELSE Reject(d)

\* An empty text clears the field.
set_text(d, f, t, valid) ==
    IF t = Unset \/ valid THEN Accept([d EXCEPT !.text[f] = t]) ELSE Reject(d)

awg_device_set_private_key(d, t) ==
    IF awg_key_from_base64(t) THEN Accept([d EXCEPT !.text["private_key"] = t]) ELSE Reject(d)

awg_device_set_public_key(d, t) ==
    IF awg_key_from_base64(t) THEN Accept([d EXCEPT !.text["public_key"] = t]) ELSE Reject(d)

\* Addresses accumulate: the first one of each family stays, a second one is
\* an error, and so is an entry that does not parse.
awg_device_set_address_from_string(d, t) ==
    LET all == [f \in Families |-> d.address[f] \o AddressesOf(t, f)] IN
    [ok    |-> /\ \A i \in DOMAIN t : t[i] = Blank \/ awg_subnet_is_valid(t[i])
               /\ \A f \in Families : Len(all[f]) <= 1
               /\ \E f \in Families : all[f] # <<>>,
     value |-> [d EXCEPT !.address = [f \in Families |-> First(all[f])]]]

awg_device_set_listen_port_from_string(d, t) == set_number(d, "listen_port", t, U16Max)

\* The new servers replace those of both families, or none when one is bad.
awg_device_set_dns_from_string(d, t) ==
    IF t # <<>> /\ \A i \in DOMAIN t : t[i] = Blank \/ IsAddress(t[i])
    THEN Accept([d EXCEPT !.dns = [f \in Families |-> OfFamily(t, f)]])
    ELSE Reject(d)

awg_device_set_fw_mark_from_string(d, t) == set_number(d, "fw_mark", t, U32Max)

\* AWG_JMAX_MAX is one less.
awg_device_set_junk_from_string(d, f, t) ==
    set_number(d, f, t, IF f = "jmax" THEN U16Max - 1 ELSE U16Max)

PaddingMax == [s1 |-> U16Max, s2 |-> U16Max, s3 |-> U16Max - 56, s4 |-> U16Max - 32]

awg_device_set_padding_from_string(d, f, t) == set_number(d, f, t, PaddingMax[f])

awg_device_set_h(d, f, t) == set_text(d, f, t, awg_validate_magic_header(t))

awg_device_set_i(d, f, t) == set_text(d, f, t, awg_validate_i_packet(t))

awg_device_set_header_protection_key(d, t) ==
    set_text(d, "header_protection_key", t, awg_key_from_base64(t))

awg_device_set_range(d, f, t) == set_text(d, f, t, awg_range_parse_u32(t))

awg_device_set_flag(d, f, enabled) ==
    Accept([d EXCEPT !.on = IF enabled THEN @ \cup {f} ELSE @ \ {f}])

awg_device_set_mtu_from_string(d, t) ==
    IF t = Unset THEN Accept(d)
    ELSE IF IsUnsigned(t, 1500) /\ (t[1] = 0 \/ t[1] >= 68)
         THEN Accept([d EXCEPT !.number["mtu"] = t[1]]) ELSE Reject(d)

awg_device_set_script(d, f, t) == Accept([d EXCEPT !.text[f] = t])

-----------------------------------------------------------------------------
(* Setters of a peer.                                                      *)

awg_device_peer_set_public_key(p, t) ==
    IF awg_key_from_base64(t) THEN Accept([p EXCEPT !.public_key = t]) ELSE Reject(p)

awg_device_peer_set_shared_key(p, t) ==
    IF t = Unset \/ awg_key_from_base64(t)
    THEN Accept([p EXCEPT !.shared_key = t]) ELSE Reject(p)

awg_device_peer_set_allowed_ips_from_string(p, t) ==
    IF t # <<>> /\ \A i \in DOMAIN t : t[i] = Blank \/ awg_subnet_is_valid(t[i])
    THEN Accept([p EXCEPT !.allowed_ips = Subnets(Entries(t))])
    ELSE Reject(p)

awg_device_peer_set_keep_alive_interval_from_string(p, t) ==
    IF t = <<Off>> THEN Accept([p EXCEPT !.keep_alive = 0])
    ELSE IF IsUnsigned(t, U16Max) THEN Accept([p EXCEPT !.keep_alive = t[1]]) ELSE Reject(p)

awg_device_peer_set_endpoint(p, t) ==
    IF awg_is_valid_endpoint(t) THEN Accept([p EXCEPT !.endpoint = t]) ELSE Reject(p)

awg_device_peer_set_advanced_security(p, enabled) == [p EXCEPT !.advanced_security = enabled]

awg_device_peer_is_valid(p) ==
    p.public_key # Unset /\ p.endpoint # Unset /\ p.allowed_ips # <<>>

-----------------------------------------------------------------------------
(* The list of peers, and whether a device can be used.                    *)

\* A peer that is not valid is not added; no caller looks at the result.
awg_device_add_peer(d, p) ==
    IF awg_device_peer_is_valid(p) THEN [d EXCEPT !.peers = Append(@, p)] ELSE d

awg_device_is_valid(d) ==
    /\ d.text["private_key"] # Unset
    /\ d.peers # <<>>
    /\ awg_validate_magic_headers_no_overlap(d.text)
    /\ awg_validate_jmin_jmax(d.number)
    /\ \A i \in DOMAIN d.peers : awg_device_peer_is_valid(d.peers[i])

\* "" when the device is valid.  (The peers of a device are valid here: only
\* the dialog can replace one by another that is not.)
awg_device_get_invalid_reason(d) ==
    IF d.text["private_key"] = Unset THEN "PrivateKey"
    ELSE IF d.peers = <<>> THEN "peers"
    ELSE IF ~awg_validate_magic_headers_no_overlap(d.text) THEN "H1-H4"
    ELSE IF ~awg_validate_jmin_jmax(d.number) THEN "JMin"
    ELSE IF \E i \in DOMAIN d.peers : ~awg_device_peer_is_valid(d.peers[i]) THEN "peer"
    ELSE ""
=============================================================================
