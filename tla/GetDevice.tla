------------------------------ MODULE GetDevice ------------------------------
(***************************************************************************)
(* wg_get_device (src/shared/amneziawg.c): the kernel's dump of a device   *)
(* is parsed message by message; a peer whose AllowedIPs do not fit goes   *)
(* on in the next message under the same key, and coalesce_peers joins the *)
(* pieces.  A dump that another process's change cut in two is marked by   *)
(* the kernel and must be started over.                                    *)
(*                                                                         *)
(* The kernel's netlink ABI is the current or the legacy one.  The parser  *)
(* knows the legacy one only: it wants the keepalive of a peer in 16 bits  *)
(* and the magic headers as NUL-terminated strings, where the current ABI  *)
(* carries 32 bits and a packed range.                                     *)
(*                                                                         *)
(* The dump is a sequence of items: <<0, 0>> stands for the attributes of  *)
(* the device, <<p, 0>> for those of peer p, <<p, i>> for its i-th         *)
(* AllowedIP.  A cursor is the first item that has not been sent.          *)
(***************************************************************************)
EXTENDS Integers, Sequences, Functions

CONSTANTS
    Confs,       \* what the kernel may hold
    Keys,        \* public keys
    Addresses,   \* AllowedIPs of a family the parser knows
    MaxChanges,  \* bound: changes by another process during the call
    Faults       \* which sets of failures the environment may be prone to

Bad == "bad"     \* an AllowedIP of another family, or of an impossible prefix

\* A peer with a persistent keepalive or without one.
PeerConf == [key : Keys, keepalive : BOOLEAN, ips : Seq(Addresses \cup {Bad})]

\* The attributes of a device: those of the same form in both ABIs, numbers and
\* packets; the magic headers, by whether the upper end of the range is below 2^24
\* (the last byte of the packed range is 0) or not; the 3.1 parameters.
Attrs == {"numbers", "packets", "narrow", "wide", "awg31"}

ASSUME ConfsAssumption ==
    /\ Confs \subseteq [attrs : SUBSET Attrs, peers : Seq(PeerConf)]
    /\ \A c \in Confs : \A p, q \in DOMAIN c.peers : c.peers[p].key = c.peers[q].key => p = q
    /\ Bad \notin Addresses
    /\ MaxChanges \in Nat
    /\ Faults \subseteq SUBSET {"open", "send", "recv", "memory"}

VARIABLES
    abi,           \* the kernel's: "current" or "legacy"
    conf,          \* the kernel's configuration
    dumped,        \* the one it held when this dump began
    changed,       \* it was changed since
    at,            \* the dump's cursor
    changes,
    faults,        \* what may fail during this call
    pc, msg,       \* the peers of the message being parsed
    device,        \* what was parsed so far
    peer,          \* coalesce_peers: the peer it is at,
    linked,        \* and whether that one's last_allowedip is not NULL
    ret

kernel == <<abi, conf, dumped, changed, at, changes, faults>>
joins  == <<peer, linked>>
vars   == <<kernel, pc, msg, device, joins, ret>>

NoDevice == [attrs |-> {}, peers |-> <<>>]

\* A legacy kernel has no 3.1 parameters.
Supported == {c \in Confs : abi = "current" \/ "awg31" \notin c.attrs}

Init ==
    /\ abi \in {"current", "legacy"}
    /\ conf \in Supported /\ dumped = conf /\ changed = FALSE
    /\ at = <<0, 0>> /\ changes = 0 /\ faults \in Faults
    /\ pc = "open" /\ msg = <<>> /\ device = NoDevice /\ ret = "0"
    /\ peer = 1 /\ linked = FALSE

-----------------------------------------------------------------------------
(* The kernel.                                                             *)

Earlier(a, b) == a[1] < b[1] \/ (a[1] = b[1] /\ a[2] < b[2])

End(c) == <<Len(c.peers) + 1, 0>>

Cursors(c) ==
    (UNION {{p} \X (0 .. Len(c.peers[p].ips)) : p \in DOMAIN c.peers}) \cup {End(c)}

\* The peers, or pieces of peers, from one cursor up to another.  Only a piece
\* that starts a peer carries the peer's attributes.
Pieces(c, from, to) ==
    LET first == IF from[1] = 0 THEN 1 ELSE from[1]
        last  == IF to[2] = 0 THEN to[1] - 1 ELSE to[1]
        Piece(p) ==
            LET resumed == p = from[1] /\ from[2] # 0
                lo == IF resumed THEN from[2] ELSE 1
                hi == IF p = to[1] THEN to[2] - 1 ELSE Len(c.peers[p].ips)
            IN  [key |-> c.peers[p].key, attrs |-> ~resumed,
                 keepalive |-> ~resumed /\ c.peers[p].keepalive,
                 ips |-> SubSeq(c.peers[p].ips, lo, hi)]
    IN  [n \in 1 .. last - first + 1 |-> Piece(first + n - 1)]

\* Another process configures the interface; a dump that has begun is marked.
Reconfigure ==
    /\ changes < MaxChanges /\ pc \notin {"out", "crashed"}
    /\ changes' = changes + 1
    /\ conf' \in Supported \ {conf}
    /\ \/ /\ at = <<0, 0>>
          /\ dumped' = conf' /\ UNCHANGED changed
       \/ /\ at # <<0, 0>>
          /\ changed' = TRUE /\ UNCHANGED dumped
    /\ UNCHANGED <<abi, at, faults, pc, msg, device, joins, ret>>

-----------------------------------------------------------------------------
(* The call.                                                               *)

\* The label "out": the socket is closed, and a failure frees the device; an
\* interrupted dump is started over.
TryAgain ==
    /\ pc' = "open" /\ device' = NoDevice /\ msg' = <<>>
    /\ dumped' = conf /\ changed' = FALSE /\ at' = <<0, 0>>
    /\ UNCHANGED <<abi, conf, changes, faults, joins>>

Fail(error) ==
    /\ pc' = "out" /\ device' = NoDevice /\ msg' = <<>> /\ ret' = error
    /\ UNCHANGED <<kernel, joins>>

open ==
    /\ pc = "open"
    /\ \/ pc' = "recv" /\ UNCHANGED <<kernel, msg, device, joins, ret>>
       \/ faults \cap {"open", "send", "memory"} # {} /\ Fail("error")

\* What parse_device makes of the attributes: the 3.1 parameters are not read; a
\* packed range that ends in a zero byte passes for a string, which it garbles, and
\* any other is left out.
Read(attrs) ==
    IF abi = "legacy" THEN attrs \ {"awg31"}
    ELSE (attrs \cap {"numbers", "packets"})
         \cup (IF "narrow" \in attrs THEN {"garbled"} ELSE {})

\* A string for which there is no memory is left out as well.
parse_device(attrs) ==
    \E kept \in SUBSET Read(attrs) :
        /\ "memory" \notin faults => kept = Read(attrs)
        /\ "numbers" \in Read(attrs) => "numbers" \in kept
        /\ device' = [device EXCEPT !.attrs = @ \cup kept]

\* A message of the dump, cut wherever the kernel's buffer was full.
read_device_cb ==
    /\ pc = "recv" /\ ~changed
    /\ \E to \in Cursors(dumped) :
          /\ Earlier(at, to)
          /\ msg' = Pieces(dumped, at, to)
          /\ at' = to
    /\ parse_device(IF at = <<0, 0>> THEN dumped.attrs ELSE {})
    /\ pc' = "parse"
    /\ UNCHANGED <<abi, conf, dumped, changed, changes, faults, joins, ret>>

\* __mnl_cb_run: NLM_F_DUMP_INTR.
cb_run_interrupted ==
    /\ pc = "recv" /\ changed
    /\ ret' = "EINTR" /\ TryAgain

\* Wrong variant: NLMSG_DONE does not end the loop that receives.
mnlg_cb_stop_Noop ==
    /\ pc = "recv" /\ at = End(dumped)
    /\ UNCHANGED vars

\* NLMSG_DONE ends the dump.
mnlg_cb_stop ==
    /\ pc = "recv" /\ at = End(dumped)
    /\ pc' = "coalesce" /\ peer' = 1
    /\ linked' = (device.peers # <<>> /\ Head(device.peers).ips # <<>>)
    /\ UNCHANGED <<kernel, msg, device, ret>>

\* An error message, or recvmsg itself fails (mnlg_cb_error).
mnlg_cb_error ==
    /\ pc = "recv" /\ "recv" \in faults
    /\ Fail("error")

\* Wrong variant: an entry is linked in once it has been looked at.
parse_allowedips_Checked(ips) ==
    LET bad == {i \in DOMAIN ips : ips[i] = Bad}
        n   == IF bad = {} THEN Len(ips) ELSE (CHOOSE i \in bad : \A j \in bad : i <= j) - 1
    IN  {SubSeq(ips, 1, k) : k \in IF "memory" \in faults THEN 0 .. n ELSE {n}}

\* The AllowedIPs of a piece that are kept: an entry is linked in before it is
\* looked at, and one that is refused, or for which there is no memory, ends the
\* piece.  Its error is lost in parse_peers, which only looks for a zero.
parse_allowedips(ips) ==
    LET bad == {i \in DOMAIN ips : ips[i] = Bad}
        n   == IF bad = {} THEN Len(ips) ELSE CHOOSE i \in bad : \A j \in bad : i <= j
    IN  {SubSeq(ips, 1, k) : k \in IF "memory" \in faults THEN 0 .. n ELSE {n}}

\* A piece as it is stored: the keepalive of the current ABI is dropped unseen.
Stored(piece, ips) ==
    [piece EXCEPT !.ips = ips, !.keepalive = @ /\ abi = "legacy"]

\* Wrong variant: the peer is linked in at the head of the list.
parse_peers_Reverse ==
    /\ pc = "parse" /\ msg # <<>>
    /\ \/ /\ \E ips \in parse_allowedips(Head(msg).ips) :
                device' = [device EXCEPT !.peers = <<Stored(Head(msg), ips)>> \o @]
          /\ msg' = Tail(msg)
          /\ UNCHANGED <<kernel, pc, joins, ret>>
       \/ "memory" \in faults /\ Fail("error")

\* One peer of a message.
parse_peers ==
    /\ pc = "parse" /\ msg # <<>>
    /\ \/ /\ \E ips \in parse_allowedips(Head(msg).ips) :
                device' = [device EXCEPT !.peers = Append(@, Stored(Head(msg), ips))]
          /\ msg' = Tail(msg)
          /\ UNCHANGED <<kernel, pc, joins, ret>>
       \/ "memory" \in faults /\ Fail("error")

message_parsed ==
    /\ pc = "parse" /\ msg = <<>>
    /\ pc' = "recv"
    /\ UNCHANGED <<kernel, msg, device, joins, ret>>

\* Wrong variant: only the AllowedIPs of the later piece are kept.
Joined_Last(peers, p) ==
    [n \in 1 .. Len(peers) - 1 |->
        IF n < p THEN peers[n]
        ELSE IF n = p THEN [peers[n] EXCEPT !.ips = peers[n + 1].ips] ELSE peers[n + 1]]

\* The AllowedIPs of the peer after p are hung onto those of p, and it is gone.
Joined(peers, p) ==
    [n \in 1 .. Len(peers) - 1 |->
        IF n < p THEN peers[n]
        ELSE IF n = p THEN [peers[n] EXCEPT !.ips = @ \o peers[n + 1].ips] ELSE peers[n + 1]]

\* Neighbours with the same key are pieces of one peer.  The joined peer takes
\* over the last_allowedip of the piece, which is NULL if that has none; to hang
\* another piece onto it then is a store through NULL.
coalesce_peers ==
    /\ pc = "coalesce" /\ peer < Len(device.peers)
    /\ LET this == device.peers[peer]
           next == device.peers[peer + 1] IN
       /\ linked' = (next.ips # <<>>)
       /\ \/ /\ this.key # next.key
             /\ peer' = peer + 1 /\ UNCHANGED <<pc, device>>
          \/ /\ this.key = next.key /\ (this.ips = <<>> \/ linked)
             /\ device' = [device EXCEPT !.peers = Joined(@, peer)] /\ UNCHANGED <<pc, peer>>
          \/ /\ this.key = next.key /\ this.ips # <<>> /\ ~linked
             /\ pc' = "crashed" /\ UNCHANGED <<peer, device>>
    /\ UNCHANGED <<kernel, msg, ret>>

\* The dump is complete.  "ret" is what an earlier attempt left there.
finish ==
    /\ pc = "coalesce" /\ peer >= Len(device.peers)
    /\ \/ /\ ret = "0"
          /\ pc' = "out"
          /\ UNCHANGED <<kernel, msg, device, joins, ret>>
       \/ ret = "EINTR" /\ TryAgain /\ UNCHANGED ret

Call ==
    \/ open \/ read_device_cb \/ cb_run_interrupted \/ mnlg_cb_stop \/ mnlg_cb_error
    \/ parse_peers \/ message_parsed \/ coalesce_peers \/ finish

Next == Call \/ Reconfigure

Spec == Init /\ [][Next]_vars

\* The caller's thread runs, and the kernel answers.
FairSpec == Spec /\ WF_vars(Call)

-----------------------------------------------------------------------------
(* Properties.                                                             *)

Succeeded == pc = "out" /\ ret = "0"

Legible(c) == \A p \in DOMAIN c.peers : Bad \notin Range(c.peers[p].ips)

\* What a success does not tell of the kernel's device.
Unread == IF abi = "legacy" THEN {"awg31"} ELSE {"narrow", "wide", "awg31"}

\* A call that succeeds without a loss returns what one configuration of the kernel
\* held, however it was cut into messages and whatever was changed meanwhile: every
\* peer once, in order, with its attributes and all its AllowedIPs.  From a kernel
\* with the current ABI the keepalives (amneziawg.c:1525) and the magic headers
\* (1654-1685) are missing, and the headers that pass for strings are garbage.
SuccessIsSnapshot ==
    Succeeded /\ Legible(dumped) /\ "memory" \notin faults =>
        /\ device.attrs \ {"garbled"} = dumped.attrs \ Unread
        /\ "garbled" \in device.attrs <=> abi = "current" /\ "narrow" \in dumped.attrs
        /\ device.peers = [p \in DOMAIN dumped.peers |->
               [key |-> dumped.peers[p].key, attrs |-> TRUE,
                keepalive |-> dumped.peers[p].keepalive /\ abi = "legacy",
                ips |-> dumped.peers[p].ips]]

\* An AllowedIP that cannot be parsed, or stored, goes unreported, but it costs
\* only AllowedIPs of its own peer: no peer is lost, and none gets another's.
LossStaysInPeer ==
    Succeeded =>
        /\ Len(device.peers) = Len(dumped.peers)
        /\ \A p \in DOMAIN device.peers :
              /\ device.peers[p].key = dumped.peers[p].key
              /\ device.peers[p].attrs
              /\ device.peers[p].keepalive = (dumped.peers[p].keepalive /\ abi = "legacy")
              /\ Range(device.peers[p].ips) \subseteq Range(dumped.peers[p].ips)

\* coalesce_peers stores through NULL only if memory ran out: the kernel resumes a
\* peer only where an AllowedIP is left, and one that is refused is linked in all
\* the same, so that every later piece of a peer has one.
CrashNeedsLostMemory == pc = "crashed" => "memory" \in faults

\* A call ends if no other process changes the device meanwhile.
UndisturbedReturns == <>(pc \in {"out", "crashed"} \/ changes > 0)

-----------------------------------------------------------------------------
(* The inductive invariant behind the safety properties.                   *)

Piece == [key : Keys, attrs : BOOLEAN, keepalive : BOOLEAN, ips : Seq(Addresses \cup {Bad})]

\* Types: configurations the kernel may hold, a cursor into the dump, and pieces.
DumpTypeOK ==
    /\ abi \in {"current", "legacy"}
    /\ conf \in Confs /\ dumped \in Confs /\ faults \in Faults
    /\ at \in {<<0, 0>>} \cup Cursors(dumped)
    /\ msg \in Seq(Piece)
    /\ device \in [attrs : SUBSET (Attrs \cup {"garbled"}), peers : Seq(Piece)]
    /\ peer \in Nat \ {0}

\* Where a dump stands: how many peers have begun, and how many AllowedIPs of the
\* last one have been sent.
Full(c, p) == IF p = 0 THEN 0 ELSE Len(c.peers[p].ips)

Mark(c, cursor) ==
    IF cursor[1] = 0 THEN <<0, 0>>
    ELSE IF cursor[2] = 0 THEN <<cursor[1] - 1, Full(c, cursor[1] - 1)>>
    ELSE <<cursor[1], cursor[2] - 1>>

\* A piece of configuration c takes a dump from mark a to mark b: it starts a peer,
\* after all of the one before, or goes on with one.  Where nothing can get lost it
\* holds all AllowedIPs between the marks, and without a lack of memory at least
\* the first.
Leads(c, failing, a, piece, b) ==
    /\ a[2] \in Nat /\ b[1] \in DOMAIN c.peers /\ b[2] \in 0 .. Full(c, b[1])
    /\ piece.key = c.peers[b[1]].key
    /\ Range(piece.ips) \subseteq Range(c.peers[b[1]].ips)
    /\ Legible(c) /\ "memory" \notin failing =>
          piece.ips = SubSeq(c.peers[b[1]].ips, (IF piece.attrs THEN 0 ELSE a[2]) + 1, b[2])
    /\ \/ piece.attrs /\ b[1] = a[1] + 1 /\ a[2] = Full(c, a[1])
       \/ /\ ~piece.attrs /\ b[1] = a[1] /\ a[2] < b[2]
          /\ "memory" \notin failing => piece.ips # <<>>

\* The pieces cut a dump, up to the cursor, without a gap or an overlap.
Cut(c, failing, pieces, cursor) ==
    \E mark \in [0 .. Len(pieces) -> Nat \X Nat] :
        /\ mark[0] = <<0, 0>> /\ mark[Len(pieces)] = Mark(c, cursor)
        /\ \A n \in 1 .. Len(pieces) : Leads(c, failing, mark[n - 1], pieces[n], mark[n])

CutInv == pc # "out" \/ ret = "0" => Cut(dumped, faults, device.peers \o msg, at)

\* What each step of the call leaves to the next.
PhaseInv ==
    /\ pc \in {"open", "recv", "parse", "coalesce", "crashed", "out"}
    /\ pc = "open" => at = <<0, 0>>
    /\ pc # "parse" => msg = <<>>
    /\ at = <<0, 0>> => device = NoDevice /\ msg = <<>>
    /\ at # <<0, 0>> /\ (pc # "out" \/ ret = "0") /\ "memory" \notin faults =>
          device.attrs = Read(dumped.attrs)
    /\ pc = "coalesce" \/ Succeeded => at = End(dumped)

\* The peers that have been joined are those of the configuration.
JoinInv ==
    pc = "coalesce" \/ Succeeded =>
        /\ \A n \in DOMAIN device.peers : n <= peer =>
              /\ n \in DOMAIN dumped.peers
              /\ device.peers[n].key = dumped.peers[n].key
        /\ peer <= Len(device.peers) \/ (peer = 1 /\ device.peers = <<>>)
        /\ Succeeded => peer >= Len(device.peers)
        /\ "memory" \notin faults /\ device.peers # <<>> =>
              (device.peers[peer].ips # <<>> => linked)

DumpInv == DumpTypeOK /\ PhaseInv /\ CutInv /\ JoinInv /\ CrashNeedsLostMemory

\* A piece of a peer that has a keepalive has it if it starts the peer and, once it is
\* parsed, the ABI is one whose keepalives are read.
HasKeepalive(c, key) == \E p \in DOMAIN c.peers : c.peers[p].key = key /\ c.peers[p].keepalive

KeptIn(c, pieces, known) ==
    \A n \in DOMAIN pieces :
        pieces[n].keepalive = (pieces[n].attrs /\ HasKeepalive(c, pieces[n].key) /\ known)

KeepaliveInv == KeptIn(dumped, msg, TRUE) /\ KeptIn(dumped, device.peers, abi = "legacy")
=============================================================================
