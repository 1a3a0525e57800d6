----------------------------- MODULE ImportExport -----------------------------
(***************************************************************************)
(* Import and export of a profile (src/properties/                         *)
(* nm-amneziawg-editor-plugin.c): a file is read line by line into a       *)
(* device, the device becomes NetworkManager's connection, the connection  *)
(* is loaded again (by the service, or to be exported), and an exported    *)
(* file may be imported.  Between the two, nmcli may set any item of the   *)
(* connection to any text.                                                 *)
(***************************************************************************)
EXTENDS ConfigFile, ProfileCodec

CONSTANTS
    Files,        \* the files users import
    Edits,        \* items set by nmcli, of the interface or of a peer, as lines
    Faults,       \* subset of {"read", "write"}
    MaxImports,   \* bound: imports
    MaxEdits      \* bound: items set by nmcli

ASSUME ImportExportAssumption ==
    /\ MaxImports \in Nat \ {0} /\ MaxEdits \in Nat
    /\ Faults \subseteq {"read", "write"}

ASSUME FilesAssumption ==
    /\ \A f \in Files : \A i \in 1 .. Len(f) : IsText(f[i].text) /\ f[i].text # White
    /\ \A e \in Edits : IsText(e.text)

VARIABLES
    file, at,      \* the file, and how many of its lines were read
    reader,        \* awg_device_new_from_config between two lines
    pc,
    device,        \* what the last import parsed: <<>> when it was refused
    error,
    connection,    \* the profile: <<>> while there is none
    exported,      \* history: the device the file was written from, if any
    imports, edits \* history: calls so far

vars == <<file, at, reader, pc, device, error, connection, exported, imports, edits>>

Init ==
    /\ file \in Files /\ at = 0 /\ reader = new_reader /\ pc = "reading"
    /\ device = <<>> /\ error = NoError
    /\ connection = <<>> /\ exported = <<>>
    /\ imports = 1 /\ edits = 0

-----------------------------------------------------------------------------
ReadLine ==
    /\ pc = "reading" /\ at < Len(file)
    /\ reader' = read_line(reader, file[at + 1])
    /\ at' = at + 1
    /\ UNCHANGED <<file, pc, device, error, connection, exported, imports, edits>>

\* A device becomes a connection of its own; a file that is refused leaves
\* none.
finish(r) ==
    /\ pc' = "done"
    /\ device' = end_of_file(r).device /\ error' = end_of_file(r).error
    /\ connection' = IF end_of_file(r).device = <<>> THEN connection
                     ELSE <<awg_device_save_to_nm_connection(end_of_file(r).device[1], no_connection)>>
    /\ edits' = IF end_of_file(r).device = <<>> THEN edits ELSE 0
    /\ UNCHANGED <<file, at, reader, exported, imports>>

EndOfFile ==
    /\ pc = "reading" /\ at = Len(file)
    /\ finish(reader)

ReadError ==
    /\ pc = "reading" /\ at < Len(file) /\ "read" \in Faults
    /\ finish(read_error(reader))

\* nmcli connection modify vpn.data; the plugin is not asked.
SetItem(f, t) ==
    /\ pc = "done" /\ connection # <<>> /\ edits < MaxEdits
    /\ \/ /\ f \in NumberFields
          /\ connection' = <<[connection[1] EXCEPT !.number[f] = t]>>
       \/ /\ f \in TextFields \cup FlagFields
          /\ connection' = <<[connection[1] EXCEPT !.text[f] = t]>>
       \/ /\ f \in PeerKeys
          /\ \E i \in DOMAIN connection[1].peers :
                connection' = <<[connection[1] EXCEPT !.peers[i] = [@ EXCEPT ![f] = t]]>>
    /\ edits' = edits + 1
    /\ UNCHANGED <<file, at, reader, pc, device, error, exported, imports>>

loaded == awg_device_new_from_nm_connection(connection[1])

\* The file is replaced as a whole; when that fails it stays as it was.
Export ==
    /\ pc = "done" /\ connection # <<>> /\ imports < MaxImports
    /\ \/ /\ file' = awg_device_create_config_string(loaded) /\ exported' = <<loaded>>
          /\ pc' = "exported"
       \/ /\ "write" \in Faults
          /\ pc' = "failed" /\ UNCHANGED <<file, exported>>
    /\ UNCHANGED <<at, reader, device, error, connection, imports, edits>>

\* What was exported, or what was there before, is imported.
Import ==
    /\ pc \in {"exported", "failed"}
    /\ at' = 0 /\ reader' = new_reader /\ pc' = "reading"
    /\ device' = <<>> /\ error' = NoError /\ imports' = imports + 1
    /\ UNCHANGED <<file, connection, exported, edits>>

Next ==
    \/ ReadLine \/ EndOfFile \/ ReadError \/ Export \/ Import
    \/ \E e \in Edits : SetItem(e.key, e.text)

Spec == Init /\ [][Next]_vars

-----------------------------------------------------------------------------
(* What the file says: a second definition of the parser, over the lines   *)
(* that were read, with which the device is compared.                      *)

Headers(i) == {j \in 1 .. i - 1 : file[j].key \in {Interface, PeerSection}}

\* The header line i stands under, 0 for none.
HeaderOf(i) == Max({0} \cup Headers(i))

Under(i, header) == HeaderOf(i) # 0 /\ file[HeaderOf(i)].key = header

\* The text of the last line with this key in the section that starts at s.
Given(s, key) == {i \in s + 1 .. at : HeaderOf(i) = s /\ file[i].key = key}
LastText(s, key) ==
    LET given == Given(s, key) IN
    IF given = {} THEN Unset ELSE file[Max(given)].text

SectionPeer(s) ==
    [public_key |-> LastText(s, "public_key"), shared_key |-> LastText(s, "shared_key"),
     endpoint |-> LastText(s, "endpoint"), allowed_ips |-> Subnets(Entries(LastText(s, "allowed_ips"))),
     keep_alive |-> IF LastText(s, "keep_alive") \in {Unset, <<Off>>} THEN 0
                    ELSE LastText(s, "keep_alive")[1],
     advanced_security |-> LastText(s, "advanced_security") = <<On>>]

PeerHeaders == {i \in 1 .. at : file[i].key = PeerSection}

CompleteSections == {i \in PeerHeaders : awg_device_peer_is_valid(SectionPeer(i))}

\* The peers of these sections, in their order.
PeersOf(sections) == [k \in 1 .. Cardinality(sections) |-> SectionPeer(Nth(sections, k))]

\* The families an Address line gives an address of.
AddressesIn(i, f) ==
    IF Under(i, Interface) /\ file[i].key = "address"
    THEN {k \in DOMAIN file[i].text : awg_subnet_is_valid(file[i].text[k]) /\ file[i].text[k].family = f}
    ELSE {}

BadAddressLine(i) ==
    \/ \E k \in DOMAIN file[i].text : file[i].text[k] # Blank /\ ~awg_subnet_is_valid(file[i].text[k])
    \/ \E f \in Families : \E k \in AddressesIn(i, f) : \E j \in 1 .. i : \E l \in AddressesIn(j, f) : <<j, l>> # <<i, k>>
    \/ \A f \in Families : \A j \in 1 .. i : AddressesIn(j, f) = {}

BadLine(i) ==
    \/ file[i].key = NoEquals
    \/ /\ Under(i, Interface) /\ file[i].key \in InterfaceKeys
       /\ IF file[i].key = "address" THEN BadAddressLine(i)
          ELSE ~interface_item(awg_device_new, file[i].key, file[i].text).ok
    \/ /\ Under(i, PeerSection) /\ file[i].key \in PeerKeys
       /\ ~peer_item(awg_device_peer_new, file[i].key, file[i].text).ok

Rejected == {i \in 1 .. at : BadLine(i)}

\* The lines whose rejection sets the error.  The one of an AdvancedSecurity does
\* not (awg-config.c:239), although the error is to name the offending key
\* (CHANGELOG.md:12): the file is refused without a reason or for a later line.
Reported == {i \in 1 .. at : BadLine(i) /\ (file[i].key = "advanced_security" => ~Under(i, PeerSection))}

RejectionOf(i) == IF file[i].key = NoEquals THEN [code |-> "line", key |-> ""]
                  ELSE [code |-> "value", key |-> file[i].key]

-----------------------------------------------------------------------------
(* Properties.                                                             *)

\* What the kernel unpacks from the encoding of a range.
RangeIsKept(t) ==
    /\ packed(t) % (U16Max + 1) = t[1] /\ packed(t) \div (U16Max + 1) = t[Len(t)]
    /\ t[1] <= t[Len(t)]

EncodableText(f, t) ==
    t = Unset \/ (t = White /\ f \in HeaderFields \cup PacketFields) \/
    CASE f \in KeyFields    -> t[1] \in Keys
      [] f \in HeaderFields -> awg_magic_header_parse(t) # Unset
      [] f \in PacketFields -> t[1] \in Packets
      [] f \in RangeFields  -> Len(t) \in {1, 2} /\ RangeIsKept(t)
      [] OTHER              -> TRUE

MaxOf(f) ==
    CASE f = "fw_mark" -> U32Max [] f = "mtu" -> 1500 [] f = "jmax" -> U16Max - 1
      [] f = "s3" -> U16Max - 56 [] f = "s4" -> U16Max - 32 [] OTHER -> U16Max

Encodable(d) ==
    /\ \A f \in NumberFields : d.number[f] \in 0 .. MaxOf(f)
    /\ \A f \in TextFields : EncodableText(f, d.text[f])
    /\ d.on \subseteq FlagFields

IsKey(t) == Len(t) = 1 /\ t[1] \in Keys

\* A peer that a device holds, with whatever its items said.
EncodablePeer(p) ==
    /\ IsKey(p.public_key) /\ (p.shared_key = Unset \/ IsKey(p.shared_key))
    /\ Len(p.endpoint) = 1 /\ p.endpoint[1] \in Endpoints
    /\ p.keep_alive \in 0 .. U16Max
    /\ \A i \in DOMAIN p.allowed_ips :
          /\ p.allowed_ips[i].family \in Families
          /\ p.allowed_ips[i].prefix \in 0 .. Bits[p.allowed_ips[i].family]

EncodableDevice(d) == Encodable(d) /\ \A i \in DOMAIN d.peers : EncodablePeer(d.peers[i])

\* Whatever a file or nmcli says, no device and none of its peers ever holds a
\* value that a backend cannot encode: numbers beyond the field of the kernel,
\* a range whose ends are swapped (awg-device.c:1556: a wider check would
\* accept values netlink drops), a key of another length, a packet that does
\* not parse, a prefix longer than an address.  The one exception: a magic
\* header or a packet may be white space, which the setters keep
\* (awg-validate.c:350, 578) and which stands for no value.
DeviceEncodable ==
    /\ EncodableDevice(reader.device)
    /\ device # <<>> => EncodableDevice(device[1])
    /\ pc = "done" /\ connection # <<>> => EncodableDevice(loaded)

\* The peers of an imported device are the complete [Peer] sections of what was
\* read, in their order, each with exactly its own lines, wherever sections are
\* interrupted, repeated or cut off by a read error.
PeersAreTheirSections ==
    (pc = "done" /\ device # <<>>) => device[1].peers = PeersOf(CompleteSections)

\* The section of a peer that is still open: 0 before the first.
OpenPeer == Max({0} \cup PeerHeaders)

SectionName ==
    IF HeaderOf(at + 1) = 0 THEN "none"
    ELSE IF file[HeaderOf(at + 1)].key = Interface THEN "interface" ELSE "peer"

\* What a reader r holds unless a line was rejected: the peers of the sections
\* that are closed and complete, and the fields of the one that is open.
Holds(r) ==
    /\ r.peer = <<>> <=> OpenPeer = 0
    /\ r.success =>
        /\ r.device.peers = PeersOf(CompleteSections \ {OpenPeer})
        /\ OpenPeer # 0 => r.peer = <<SectionPeer(OpenPeer)>>

\* The inductive invariant behind it: the reader is in the section of the last
\* header.
ReaderInv ==
    /\ at \in Nat
    /\ pc = "reading" => reader.section = SectionName /\ Holds(reader)

\* A file with a line that is rejected is refused, whichever line it is and
\* whatever else is wrong.  The error names the first rejected line but for
\* the AdvancedSecurity of a peer (awg-config.c:239), and not a consequence of
\* it or a later failure (awg-config.c:76).
FirstRejectionReported ==
    pc = "done" =>
        /\ Rejected # {} => device = <<>>
        /\ Reported # {} => error = RejectionOf(Min(Reported))

\* The inductive invariant behind it: until a line is rejected, the reader has
\* one address of each family that a line gave one of, and no other.
RejectionInv ==
    pc = "reading" =>
        /\ Rejected # {} => ~reader.success
        /\ IF Reported # {}
           THEN reader.error = RejectionOf(Min(Reported))
           ELSE /\ reader.error = NoError
                /\ \A f \in Families :
                      /\ IsText(reader.device.address[f])
                      /\ Len(reader.device.address[f]) =
                            IF \A j \in 1 .. at : AddressesIn(j, f) = {} THEN 0 ELSE 1

Unedited == pc = "done" /\ device # <<>> /\ edits = 0

\* The profile of an imported file loads as the device that was parsed, except
\* that IPv4 name servers are lost when there are IPv6 ones, repeated servers
\* count once, and peers beyond the sixteenth are not read.
ProfileKeepsDevice ==
    Unedited =>
        loaded = [device[1] EXCEPT
                     !.dns = [f \in Families |->
                                 IF f = "v4" /\ device[1].dns["v6"] # <<>> THEN <<>>
                                 ELSE Distinct(device[1].dns[f])],
                     !.peers = [i \in 1 .. Min({Len(@), MaxPeers}) |-> @[i]]]

\* An exported profile imports as the device that was exported, except for its
\* IPv6 address, the upper half of its mark and texts of white space; it is
\* never refused when the service would take it.
FileKeepsDevice ==
    (pc = "done" /\ exported # <<>> /\ at = Len(file) /\ awg_device_is_valid(exported[1])) =>
        device = <<[exported[1] EXCEPT !.address["v6"] = <<>>,
                                       !.number["fw_mark"] = @ % (U16Max + 1),
                                       !.text = [f \in TextFields |-> Stripped(@[f])]]>>

\* A profile becomes the default route of a family exactly if some peer routes
\* all of it; one half of a split tunnel does not speak for the other family
\* (CHANGELOG.md:76).
DefaultRouteAsAllowed ==
    Unedited =>
        \A f \in Families : device[1].address[f] # <<>> =>
            (connection[1].ip[f].never_default <=>
                \A p \in DOMAIN device[1].peers : \A i \in DOMAIN device[1].peers[p].allowed_ips :
                    device[1].peers[p].allowed_ips[i] \notin
                        {[family |-> f, host |-> h, prefix |-> 0] : h \in {device[1].peers[p].allowed_ips[i].host}})

\* Addresses and prefixes survive the configuration file (CHANGELOG.md:17).
ExportKeepsAddresses ==
    (pc = "done" /\ exported # <<>> /\ device # <<>> /\ at = Len(file)) =>
        device[1].address = exported[1].address
=============================================================================
