------------------------------ MODULE SetDevice ------------------------------
(***************************************************************************)
(* wg_set_device (src/shared/amneziawg.c): a device is written to the      *)
(* kernel in as many netlink messages as it takes, resuming in the middle  *)
(* of a peer, and from the beginning, in the old formats, if the guess     *)
(* about the kernel's ABI turns out wrong.                                 *)
(*                                                                         *)
(* The content of a device is a set of items: <<0, 0>> stands for the      *)
(* attributes of the device itself, <<p, 0>> for those of peer p and       *)
(* <<p, i>> for its i-th AllowedIP.  Sizes are in units of one AllowedIP.  *)
(***************************************************************************)
EXTENDS Integers, Sequences

CONSTANTS
    Devices,     \* the devices that may be configured
    MaxIps,      \* bound: AllowedIPs of a peer
    Capacity,    \* mnl_ideal_socket_buffer_size()
    PeerSize,    \* a peer's nest and key, in every message that names it
    AttrsSize,   \* its other attributes, in the first one only
    Faults       \* which sets of failures the environment may be prone to

\* What the messages depend on: the number of AllowedIPs of each peer, the peers
\* with a keepalive interval, whether a magic header is set, whether a 3.1
\* parameter is, and the size of the device attributes.
Device == [ips : Seq(0 .. MaxIps), keepalive : SUBSET Nat, magic : BOOLEAN,
           awg31 : BOOLEAN, size : 0 .. Capacity]

\* Nothing checks that the device attributes fit; a message of its own always
\* has room for a peer's attributes, or for a continued peer and an AllowedIP.
ASSUME SizesAssumption ==
    /\ Devices \subseteq Device
    /\ MaxIps \in Nat
    /\ Capacity \in Nat /\ PeerSize \in Nat /\ AttrsSize \in Nat
    /\ PeerSize + AttrsSize <= Capacity /\ PeerSize + 1 <= Capacity
    /\ Faults \subseteq SUBSET {"EINVAL", "error", "open", "delete", "add"}

VARIABLES
    device,
    faults,                   \* what may fail during this call
    \* the kernel
    abi, readable,            \* its formats, and whether its version can be read
    link, conf,               \* the interface and the items it has been given
    \* the call
    pc, current_abi, known_abi,
    peer, allowedip,          \* the cursor; 0 is NULL
    msg, room,                \* the message under construction
    ret

host == <<device, faults, abi, readable>>
vars == <<host, link, conf, pc, current_abi, known_abi, peer, allowedip, msg, room, ret>>

Items == {x \in (0 .. Len(device.ips)) \X (0 .. MaxIps) :
             IF x[1] = 0 THEN x[2] = 0 ELSE x[2] <= device.ips[x[1]]}

TypeOK ==
    /\ device \in Devices /\ faults \in Faults
    /\ abi \in {"current", "legacy"} /\ readable \in BOOLEAN
    /\ link \in BOOLEAN /\ conf \in SUBSET Items
    /\ pc \in {"open", "prepare", "peers", "allowedips", "recv", "delete", "add", "out"}
    /\ current_abi \in BOOLEAN /\ known_abi \in BOOLEAN
    /\ peer \in 0 .. Len(device.ips)
    /\ allowedip \in 0 .. MaxIps
    /\ msg \in SUBSET Items /\ room \in 0 .. Capacity
    /\ ret \in {"0", "EINVAL", "error"}

\* The interface was just added, and nothing configured yet.
Init ==
    /\ device \in Devices /\ faults \in Faults
    /\ abi \in {"current", "legacy"} /\ readable \in BOOLEAN
    /\ link = TRUE /\ conf = {}
    /\ pc = "open" /\ current_abi = TRUE /\ known_abi = FALSE
    /\ peer = 0 /\ allowedip = 0
    /\ msg = {} /\ room = Capacity
    /\ ret = "0"

-----------------------------------------------------------------------------
Cursor == <<peer, allowedip>>
Guess  == <<current_abi, known_abi>>
Kernel == <<link, conf>>

\* Wrong variants: a version that was read is not trusted; a guess is.
awg_kernel_uses_current_abi_Doubt ==
    /\ current_abi' = (readable => abi = "current")
    /\ known_abi' = FALSE

awg_kernel_uses_current_abi_Trust ==
    /\ current_abi' = (readable => abi = "current")
    /\ known_abi' = TRUE

\* The version tells the formats; without it the current ones are assumed.
awg_kernel_uses_current_abi ==
    /\ current_abi' = (readable => abi = "current")
    /\ known_abi' = readable

open ==
    /\ pc = "open"
    /\ \/ /\ pc' = "prepare" /\ awg_kernel_uses_current_abi
          /\ UNCHANGED ret
       \/ /\ "open" \in faults
          /\ pc' = "out" /\ ret' = "error" /\ UNCHANGED Guess
    /\ UNCHANGED <<host, Kernel, Cursor, msg, room>>

\* The label "again": only the message without a resumed peer carries the device
\* attributes, and with them the flag that replaces the peers.
prepare ==
    /\ pc = "prepare"
    /\ \/ /\ peer = 0
          /\ msg' = {<<0, 0>>} /\ room' = Capacity - device.size
       \/ /\ peer # 0
          /\ msg' = {} /\ room' = Capacity
    /\ \/ /\ Len(device.ips) = 0
          /\ pc' = "recv" /\ UNCHANGED peer
       \/ /\ Len(device.ips) # 0
          /\ pc' = "peers" /\ peer' = IF peer = 0 THEN 1 ELSE peer
    /\ UNCHANGED <<host, Kernel, Guess, allowedip, ret>>

NextPeer ==
    /\ allowedip' = 0
    /\ \/ peer < Len(device.ips) /\ peer' = peer + 1 /\ pc' = "peers"
       \/ peer = Len(device.ips) /\ peer' = 0 /\ pc' = "recv"

\* What a peer's nest takes before its AllowedIPs; a resumed peer's attributes
\* were already sent.
NestSize == IF allowedip = 0 THEN PeerSize + AttrsSize ELSE PeerSize

\* Wrong variant: a peer that does not fit is dropped.
put_peer_Drop ==
    /\ pc = "peers"
    /\ \/ /\ NestSize <= room
          /\ room' = room - NestSize
          /\ msg' = IF allowedip = 0 THEN msg \cup {<<peer, 0>>} ELSE msg
          /\ \/ device.ips[peer] = 0 /\ NextPeer
             \/ /\ device.ips[peer] # 0
                /\ allowedip' = IF allowedip = 0 THEN 1 ELSE allowedip
                /\ pc' = "allowedips" /\ UNCHANGED peer
       \/ /\ NestSize > room
          /\ NextPeer /\ UNCHANGED <<msg, room>>
    /\ UNCHANGED <<host, Kernel, Guess, ret>>

\* One peer of the loop, up to its AllowedIPs, or "toobig_peers".
put_peer ==
    /\ pc = "peers"
    /\ \/ /\ NestSize <= room
          /\ room' = room - NestSize
          /\ msg' = IF allowedip = 0 THEN msg \cup {<<peer, 0>>} ELSE msg
          /\ \/ device.ips[peer] = 0 /\ NextPeer
             \/ /\ device.ips[peer] # 0
                /\ allowedip' = IF allowedip = 0 THEN 1 ELSE allowedip
                /\ pc' = "allowedips" /\ UNCHANGED peer
       \/ /\ NestSize > room
          /\ pc' = "recv" /\ UNCHANGED <<Cursor, msg, room>>
    /\ UNCHANGED <<host, Kernel, Guess, ret>>

\* Wrong variant: a message that is full forgets where in the peer it was.
put_allowedip_Rewind ==
    /\ pc = "allowedips"
    /\ \/ /\ room >= 1
          /\ room' = room - 1
          /\ msg' = msg \cup {<<peer, allowedip>>}
          /\ \/ allowedip = device.ips[peer] /\ NextPeer
             \/ /\ allowedip < device.ips[peer]
                /\ allowedip' = allowedip + 1 /\ UNCHANGED <<pc, peer>>
       \/ /\ room < 1
          /\ pc' = "recv" /\ allowedip' = 0 /\ UNCHANGED <<peer, msg, room>>
    /\ UNCHANGED <<host, Kernel, Guess, ret>>

\* One AllowedIP of the current peer, or "toobig_allowedips".
put_allowedip ==
    /\ pc = "allowedips"
    /\ \/ /\ room >= 1
          /\ room' = room - 1
          /\ msg' = msg \cup {<<peer, allowedip>>}
          /\ \/ allowedip = device.ips[peer] /\ NextPeer
             \/ /\ allowedip < device.ips[peer]
                /\ allowedip' = allowedip + 1 /\ UNCHANGED <<pc, peer>>
       \/ /\ room < 1
          /\ pc' = "recv" /\ UNCHANGED <<Cursor, msg, room>>
    /\ UNCHANGED <<host, Kernel, Guess, ret>>

-----------------------------------------------------------------------------
(* The kernel's answer.                                                    *)

\* Formats that differ between the ABIs, and attributes an old kernel lacks.
Rejected ==
    \/ /\ current_abi # (abi = "current")
       /\ \/ device.magic /\ <<0, 0>> \in msg
          \/ \E p \in device.keepalive : <<p, 0>> \in msg
    \/ device.awg31 /\ abi = "legacy" /\ <<0, 0>> \in msg

\* The items of a message replace what was there if it asks for that.
acknowledged ==
    /\ pc = "recv" /\ ~Rejected
    /\ conf' = IF <<0, 0>> \in msg THEN msg ELSE conf \cup msg
    /\ pc' = IF peer # 0 THEN "prepare" ELSE "out"
    /\ UNCHANGED <<host, link, Guess, Cursor, msg, room, ret>>

\* A rejected message may have been applied in part.
PartlyApplied == \E part \in SUBSET msg : conf' = conf \cup part

invalid_SameFormats ==
    /\ pc = "recv" /\ (Rejected \/ "EINVAL" \in faults)
    /\ PartlyApplied
    /\ \/ /\ ~known_abi
          /\ peer' = 0 /\ allowedip' = 0
          /\ pc' = "delete" /\ UNCHANGED <<Guess, ret>>
       \/ /\ known_abi
          /\ pc' = "out" /\ ret' = "EINVAL" /\ UNCHANGED <<Guess, Cursor>>
    /\ UNCHANGED <<host, link, msg, room>>

\* -EINVAL: if the ABI was only guessed, once, start over with the old formats.
invalid ==
    /\ pc = "recv" /\ (Rejected \/ "EINVAL" \in faults)
    /\ PartlyApplied
    /\ \/ /\ ~known_abi
          /\ known_abi' = TRUE /\ current_abi' = FALSE
          /\ peer' = 0 /\ allowedip' = 0
          /\ pc' = "delete" /\ UNCHANGED ret
       \/ /\ known_abi
          /\ pc' = "out" /\ ret' = "EINVAL" /\ UNCHANGED <<Guess, Cursor>>
    /\ UNCHANGED <<host, link, msg, room>>

refused ==
    /\ pc = "recv" /\ "error" \in faults
    /\ PartlyApplied
    /\ pc' = "out" /\ ret' = "error"
    /\ UNCHANGED <<host, link, Guess, Cursor, msg, room>>

\* add_del_iface(name, false) and (name, true).
delete_iface ==
    /\ pc = "delete"
    /\ \/ /\ link' = FALSE /\ conf' = {}
          /\ pc' = "add" /\ UNCHANGED ret
       \/ /\ "delete" \in faults
          /\ pc' = "out" /\ ret' = "error" /\ UNCHANGED Kernel
    /\ UNCHANGED <<host, Guess, Cursor, msg, room>>

add_iface ==
    /\ pc = "add"
    /\ \/ /\ link' = TRUE
          /\ pc' = "prepare" /\ UNCHANGED ret
       \/ /\ "add" \in faults
          /\ pc' = "out" /\ ret' = "error" /\ UNCHANGED link
    /\ UNCHANGED <<host, conf, Guess, Cursor, msg, room>>

Next ==
    \/ open \/ prepare \/ put_peer \/ put_allowedip
    \/ acknowledged \/ invalid \/ refused \/ delete_iface \/ add_iface

Spec == Init /\ [][Next]_vars

\* The caller's thread runs, and the kernel answers every request.
FairSpec == Spec /\ WF_vars(Next)

-----------------------------------------------------------------------------
(* Properties.                                                             *)

\* A call that reports success has written every attribute of the device and of
\* every peer and every AllowedIP to an interface that exists, however the
\* device was cut into messages and whichever formats were tried first.
SuccessMeansConfigured ==
    pc = "out" /\ ret = "0" => link /\ conf = Items

\* A message never repeats what the kernel has already accepted: resuming a peer
\* would otherwise reset its endpoint and keys while the tunnel is in use.
NothingSentTwice == pc = "recv" => msg \cap conf = {}

\* A kernel whose version was read never loses its interface to a second guess.
KnownKernelKeepsLink == readable => link

\* The call ends: each message makes progress, and it starts over at most once.
Terminates == <>(pc = "out")

\* On a kernel that knows the parameters the call succeeds unless the
\* environment fails, whether or not the version could be read.
EveryAbiConfigured ==
    faults = {} /\ ~(device.awg31 /\ abi = "legacy") => <>(pc = "out" /\ ret = "0")

-----------------------------------------------------------------------------
(* The inductive invariant: what was acknowledged and what is in the       *)
(* message under construction are, together, all items before the cursor.  *)

Before(p, i) == {x \in Items : x[1] < p \/ (x[1] = p /\ x[2] < i)}

\* Everything that was sent or is about to be, given the cursor.
Reached == IF peer = 0 THEN Items ELSE Before(peer, allowedip)

CursorInv ==
    /\ peer = 0 => allowedip = 0
    /\ peer # 0 => allowedip <= device.ips[peer]
    /\ pc \in {"peers", "allowedips"} => peer # 0
    /\ pc = "allowedips" => allowedip # 0
    /\ pc \in {"open", "delete", "add"} => peer = 0

ContentInv ==
    /\ pc = "prepare" => conf = IF peer = 0 THEN {} ELSE Reached
    /\ pc \in {"peers", "allowedips", "recv"} => conf \cup msg = Reached /\ conf \cap msg = {}
    /\ pc \in {"open", "add"} => conf = {}
    /\ pc \in {"peers", "allowedips", "recv"} /\ <<0, 0>> \in msg => conf = {}
    /\ pc = "out" /\ ret = "0" => conf = Items

\* Nothing but the second guess takes the interface away.
LinkInv ==
    /\ pc \in {"open", "prepare", "peers", "allowedips", "recv", "delete"} => link /\ ret = "0"
    /\ pc = "out" /\ ret = "0" => link
    /\ pc = "add" => ret = "0"
    /\ pc \notin {"open", "out"} /\ readable => known_abi
    /\ pc \in {"delete", "add"} => ~readable
    /\ readable => link

IInv == TypeOK /\ CursorInv /\ ContentInv /\ LinkInv

=============================================================================
