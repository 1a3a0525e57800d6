------------------------------ MODULE ConfigFile ------------------------------
(***************************************************************************)
(* The configuration file of wg-quick (src/shared/awg/awg-config.c): one   *)
(* line read into a device under construction, and a device written out.   *)
(*                                                                         *)
(* A line is [key, text], both stripped (awg-config.c:127), so that no     *)
(* text of a line is White.  Keys are called by the field they set; the    *)
(* keys Interface and Peer stand for the two section headers, Comment for  *)
(* a blank line or a comment, NoEquals for a line that is none of these    *)
(* and has no "=".                                                         *)
(***************************************************************************)
EXTENDS AWGDevice, SequencesExt

CONSTANT OnWords, OffWords   \* the spellings awg_parse_bool knows

\* The one that is written is among them.
ASSUME SpellingsAssumption == On \in OnWords

Interface == "[Interface]"
PeerSection == "[Peer]"
Comment == "#"
NoEquals == "?"
CommentedKey == "#_public_key"     \* the one comment that is read

Line(key, text) == [key |-> key, text |-> text]

PeerKeys == {"endpoint", "public_key", "shared_key", "allowed_ips", "keep_alive",
             "advanced_security"}

InterfaceKeys == TextFields \cup NumberFields \cup FlagFields \cup {"address", "dns", CommentedKey}

NoError == [code |-> "none", key |-> ""]

\* What the parser holds between two lines; peer is empty or the open [Peer].
new_reader == [device |-> awg_device_new, peer |-> <<>>, section |-> "none",
               success |-> TRUE, error |-> NoError]

-----------------------------------------------------------------------------
(* Reading.                                                                *)

awg_parse_bool(t) == Len(t) = 1 /\ t[1] \in OnWords \cup OffWords

\* The setter that a key of [Interface] calls; other keys are ignored.
interface_item(d, key, t) ==
    CASE key = "private_key"                  -> awg_device_set_private_key(d, t)
      [] key \in {"public_key", CommentedKey} -> awg_device_set_public_key(d, t)
      [] key = "address"                      -> awg_device_set_address_from_string(d, t)
      [] key = "listen_port"                  -> awg_device_set_listen_port_from_string(d, t)
      [] key = "dns"                          -> awg_device_set_dns_from_string(d, t)
      [] key = "fw_mark"                      -> awg_device_set_fw_mark_from_string(d, t)
      [] key \in JunkFields                   -> awg_device_set_junk_from_string(d, key, t)
      [] key \in PaddingFields                -> awg_device_set_padding_from_string(d, key, t)
      [] key \in HeaderFields                 -> awg_device_set_h(d, key, t)
      [] key \in PacketFields                 -> awg_device_set_i(d, key, t)
      [] key = "header_protection_key"        -> awg_device_set_header_protection_key(d, t)
      [] key \in RangeFields                  -> awg_device_set_range(d, key, t)
      [] key \in FlagFields                   ->
             IF awg_parse_bool(t) THEN awg_device_set_flag(d, key, t[1] \in OnWords) ELSE Reject(d)
      [] key = "mtu"                          -> awg_device_set_mtu_from_string(d, t)
      [] key \in ScriptFields                 -> awg_device_set_script(d, key, t)
      [] OTHER                                -> Accept(d)

\* The same for a key of [Peer].
peer_item(p, key, t) ==
    CASE key = "endpoint"    -> awg_device_peer_set_endpoint(p, t)
      [] key = "public_key"  -> awg_device_peer_set_public_key(p, t)
      [] key = "shared_key"  -> awg_device_peer_set_shared_key(p, t)
      [] key = "allowed_ips" -> awg_device_peer_set_allowed_ips_from_string(p, t)
      [] key = "keep_alive"  -> awg_device_peer_set_keep_alive_interval_from_string(p, t)
      [] key = "advanced_security" ->
             IF t \in {<<On>>, <<Off>>}
             THEN Accept(awg_device_peer_set_advanced_security(p, t = <<On>>)) ELSE Reject(p)
      [] OTHER               -> Accept(p)

\* Wrong variant: the last rejection is reported.
keep_first_Last(r, ok, code, key) ==
    [r EXCEPT !.success = @ /\ ok, !.error = IF ok THEN @ ELSE [code |-> code, key |-> key]]

\* SET_OR_FAIL: the first rejection is the one that is reported.
keep_first(r, ok, code, key) ==
    [r EXCEPT !.success = @ /\ ok,
              !.error = IF ~ok /\ @ = NoError THEN [code |-> code, key |-> key] ELSE @]

flush_peer(r) ==
    IF r.peer = <<>> THEN r
    ELSE [r EXCEPT !.device = awg_device_add_peer(@, r.peer[1]), !.peer = <<>>]

\* Wrong variant: a [Peer] goes on with the fields of the last one.
section_line_Reuse(r, key) ==
    IF key = Interface THEN [r EXCEPT !.section = "interface"]
    ELSE [flush_peer(r) EXCEPT !.section = "peer",
              !.peer = IF r.peer = <<>> THEN <<awg_device_peer_new>> ELSE r.peer]

\* A [Peer] ends the one before it; an [Interface] does not.
section_line(r, key) ==
    IF key = Interface THEN [r EXCEPT !.section = "interface"]
    ELSE [flush_peer(r) EXCEPT !.section = "peer", !.peer = <<awg_device_peer_new>>]

\* A bad AdvancedSecurity fails the file without an error.
peer_line(r, key, t) ==
    LET s == peer_item(r.peer[1], key, t)
        q == [r EXCEPT !.peer = <<s.value>>] IN
    IF key = "advanced_security" THEN [q EXCEPT !.success = @ /\ s.ok]
    ELSE keep_first(q, s.ok, "value", key)

interface_line(r, key, t) ==
    LET s == interface_item(r.device, key, t) IN
    keep_first([r EXCEPT !.device = s.value], s.ok, "value", key)

read_line(r, line) ==
    CASE line.key = Comment -> r
      [] line.key \in {Interface, PeerSection} -> section_line(r, line.key)
      [] line.key = NoEquals -> keep_first(r, FALSE, "line", "")
      [] OTHER ->
           CASE r.section = "interface" -> interface_line(r, line.key, line.text)
             [] r.section = "peer"      -> peer_line(r, line.key, line.text)
             [] OTHER                   -> r

\* A read error in the middle sets *error and ends the loop, nothing else.
read_error(r) ==
    [r EXCEPT !.error = IF @ = NoError THEN [code |-> "read", key |-> ""] ELSE @]

\* After the loop: the device is returned when no line was rejected, else the
\* reason.
end_of_file(r) ==
    LET q == flush_peer(r)
        usable == q.success /\ awg_device_is_valid(q.device) IN
    [device |-> IF usable THEN <<q.device>> ELSE <<>>,
     error  |-> IF usable \/ q.error # NoError THEN q.error
                ELSE [code |-> "incomplete", key |-> awg_device_get_invalid_reason(q.device)]]

-----------------------------------------------------------------------------
(* Writing.                                                                *)

\* The line of a value that is set; numbers that are 0 count as unset.
Opt(key, t) == IF t = Unset THEN <<>> ELSE <<Line(key, t)>>
NonZero(key, n) == IF n = 0 THEN <<>> ELSE <<Line(key, <<n>>)>>

\* A text of white space gets its line, with nothing in it to read.
TextLine(key, t) == IF t = Unset THEN <<>> ELSE <<Line(key, Stripped(t))>>

TextLines(d, order) ==
    FlattenSeq([i \in DOMAIN order |-> TextLine(order[i], d.text[order[i]])])

FlagLines(d) ==
    FlattenSeq([i \in 1 .. 2 |->
        LET f == <<"random_trailers", "disable_cookies">>[i] IN
        IF f \in d.on THEN <<Line(f, <<On>>)>> ELSE <<>>])

\* Of the addresses only the IPv4 one; the mark through a guint16.
interface_lines(d) ==
    <<Line(Interface, Unset)>>
    \o Opt("private_key", d.text["private_key"]) \o Opt(CommentedKey, d.text["public_key"])
    \o Opt("address", d.address["v4"])
    \o NonZero("listen_port", d.number["listen_port"])
    \o Opt("dns", d.dns["v4"] \o d.dns["v6"])
    \o NonZero("fw_mark", d.number["fw_mark"] % (U16Max + 1))
    \o NonZero("mtu", d.number["mtu"])

NumberOrder == <<"jc", "jmin", "jmax", "s1", "s2", "s3", "s4">>

HeaderOrder == <<"h1", "h2", "h3", "h4", "i1", "i2", "i3", "i4", "i5">>

RangeOrder ==
    <<"header_protection_key", "content_padding_addition", "rekey_after_time", "rekey_timeout",
      "reject_after_time", "keepalive_timeout", "max_handshake_attempts">>

ScriptOrder == <<"pre_up", "post_up", "pre_down", "post_down">>

parameter_lines(d) ==
    [i \in DOMAIN NumberOrder |-> Line(NumberOrder[i], <<d.number[NumberOrder[i]]>>)]
    \o TextLines(d, HeaderOrder \o RangeOrder) \o FlagLines(d) \o TextLines(d, ScriptOrder)

\* Wrong variant: the preshared key is left out.
peer_lines_NoPsk(p) ==
    <<Line(PeerSection, Unset)>>
    \o Opt("public_key", p.public_key) \o Opt("endpoint", p.endpoint)
    \o <<Line("keep_alive", IF p.keep_alive = 0 THEN <<Off>> ELSE <<p.keep_alive>>)>>
    \o <<Line("allowed_ips", p.allowed_ips)>>
    \o (IF p.advanced_security THEN <<Line("advanced_security", <<On>>)>> ELSE <<>>)

peer_lines(p) ==
    <<Line(PeerSection, Unset)>>
    \o Opt("public_key", p.public_key) \o Opt("shared_key", p.shared_key)
    \o Opt("endpoint", p.endpoint)
    \o <<Line("keep_alive", IF p.keep_alive = 0 THEN <<Off>> ELSE <<p.keep_alive>>)>>
    \o <<Line("allowed_ips", p.allowed_ips)>>
    \o (IF p.advanced_security THEN <<Line("advanced_security", <<On>>)>> ELSE <<>>)

awg_device_create_config_string(d) ==
    interface_lines(d) \o parameter_lines(d)
    \o FlattenSeq([i \in DOMAIN d.peers |-> peer_lines(d.peers[i])])
=============================================================================
