--------------------------- MODULE SetDeviceProofs ---------------------------
(***************************************************************************)
(* Proofs about SetDevice, for any devices, any sizes and any failures.    *)
(***************************************************************************)
EXTENDS SetDevice, TLAPS

-----------------------------------------------------------------------------
(* What the cursor separates.                                              *)

\* The elements and the length of a sequence.
LEMMA SeqFacts ==
    ASSUME NEW S, NEW s \in Seq(S)
    PROVE  Len(s) \in Nat /\ \A p \in 1 .. Len(s) : s[p] \in S
OBVIOUS

\* The parts of a device that the messages depend on.
LEMMA DeviceFacts ==
    ASSUME device \in Devices
    PROVE  /\ device.ips \in Seq(0 .. MaxIps) /\ Len(device.ips) \in Nat
           /\ \A p \in 1 .. Len(device.ips) : device.ips[p] \in 0 .. MaxIps
           /\ device.size \in 0 .. Capacity
           /\ MaxIps \in Nat /\ Capacity \in Nat
<1>1. device \in Device
  BY SizesAssumption
<1>2. device.ips \in Seq(0 .. MaxIps) /\ device.size \in 0 .. Capacity
  BY <1>1 DEF Device
<1>3. /\ Len(device.ips) \in Nat
      /\ \A p \in 1 .. Len(device.ips) : device.ips[p] \in 0 .. MaxIps
  BY <1>2, SeqFacts
<1>4. QED
  BY <1>2, <1>3, SizesAssumption

\* An item of a peer is in Items, not before itself, and moves the cursor by one.
LEMMA NextItem ==
    ASSUME device \in Devices,
           NEW p \in 1 .. Len(device.ips), NEW i \in 0 .. device.ips[p]
    PROVE  /\ <<p, i>> \in Items
           /\ <<p, i>> \notin Before(p, i)
           /\ Before(p, i) \cup {<<p, i>>} = Before(p, i + 1)
<1>1. <<p, i>> \in Items
  BY DeviceFacts DEF Items
<1>2. <<p, i>> \notin Before(p, i)
  BY DeviceFacts DEF Before
<1>3. ASSUME NEW x \in Items
      PROVE  x \in Before(p, i) \cup {<<p, i>>} <=> x \in Before(p, i + 1)
  <2>1. /\ x[1] \in Int /\ x[2] \in Int /\ x = <<x[1], x[2]>>
        /\ p \in Int /\ i \in Int
    BY <1>3, DeviceFacts DEF Items
  <2>2. QED
    BY <2>1, <1>3 DEF Before
<1>4. Before(p, i) \subseteq Items /\ Before(p, i + 1) \subseteq Items
  BY DEF Before
<1>5. QED
  BY <1>1, <1>2, <1>3, <1>4

\* After its last item the cursor is at the next peer, or at the end.
LEMMA LastItem ==
    ASSUME device \in Devices, NEW p \in 1 .. Len(device.ips)
    PROVE  /\ p < Len(device.ips) => Before(p, device.ips[p] + 1) = Before(p + 1, 0)
           /\ p = Len(device.ips) => Before(p, device.ips[p] + 1) = Items
<1>1. ASSUME NEW x \in Items
      PROVE  /\ x[1] \in 0 .. Len(device.ips) /\ x[2] \in 0 .. MaxIps
             /\ x[1] = p => x[2] <= device.ips[p]
  BY <1>1, DeviceFacts DEF Items
<1> DEFINE n == device.ips[p]
<1>a. n \in Nat /\ p \in Nat /\ Len(device.ips) \in Nat
  BY DeviceFacts
<1>2. ASSUME p < Len(device.ips) PROVE Before(p, n + 1) = Before(p + 1, 0)
  <2>1. ASSUME NEW x \in Items PROVE x \in Before(p, n + 1) <=> x \in Before(p + 1, 0)
    <3> HIDE DEF n
    <3>1. x[1] \in Nat /\ x[2] \in Nat
      BY <1>1
    <3>2. x \in Before(p, n + 1) <=> x[1] < p \/ (x[1] = p /\ x[2] < n + 1)
      BY DEF Before
    <3>3. x \in Before(p + 1, 0) <=> x[1] < p + 1 \/ (x[1] = p + 1 /\ x[2] < 0)
      BY DEF Before
    <3>4. x[1] = p => x[2] <= n
      BY <1>1 DEF n
    <3>5. QED
      BY <3>1, <3>2, <3>3, <3>4, <1>a
  <2>2. QED
    BY <2>1 DEF Before
<1>3. ASSUME p = Len(device.ips) PROVE Before(p, n + 1) = Items
  <2>1. ASSUME NEW x \in Items PROVE x \in Before(p, n + 1)
    <3> HIDE DEF n
    <3>1. x[1] \in Nat /\ x[2] \in Nat /\ x[1] <= p
      BY <1>1, <1>3, <1>a
    <3>2. x[1] = p => x[2] <= n
      BY <1>1 DEF n
    <3>3. QED
      BY <3>1, <3>2, <1>a DEF Before
  <2>2. QED
    BY <2>1 DEF Before
<1>4. QED
  BY <1>2, <1>3

\* The first message starts with the device's own attributes.
LEMMA FirstItem ==
    ASSUME device \in Devices
    PROVE  /\ <<0, 0>> \in Items
           /\ Len(device.ips) = 0 => Items = {<<0, 0>>}
           /\ Len(device.ips) # 0 => Before(1, 0) = {<<0, 0>>}
           /\ \A p, i \in Nat : p # 0 => <<p, i>> # <<0, 0>>
<1>1. <<0, 0>> \in Items
  BY DeviceFacts DEF Items
<1>2. ASSUME NEW x \in Items
      PROVE  /\ x[1] \in 0 .. Len(device.ips) /\ x[2] \in 0 .. MaxIps
             /\ x = <<x[1], x[2]>>
             /\ x[1] = 0 => x[2] = 0
  BY <1>2, DeviceFacts DEF Items
<1>3. ASSUME Len(device.ips) = 0 PROVE Items = {<<0, 0>>}
  <2>1. ASSUME NEW x \in Items PROVE x = <<0, 0>>
    <3>1. x[1] = 0
      BY <1>2, <1>3
    <3>2. QED
      BY <1>2, <3>1
  <2>2. QED
    BY <1>1, <2>1
<1>4. ASSUME Len(device.ips) # 0 PROVE Before(1, 0) = {<<0, 0>>}
  <2>1. ASSUME NEW x \in Items, x \in Before(1, 0) PROVE x = <<0, 0>>
    <3>1. x[1] \in Nat /\ x[2] \in Nat
      BY <1>2, DeviceFacts
    <3>2. x[1] < 1 \/ x[2] < 0
      BY <2>1 DEF Before
    <3>3. x[1] = 0
      BY <3>1, <3>2
    <3>4. QED
      BY <1>2, <3>3
  <2>2. <<0, 0>> \in Before(1, 0)
    BY <1>1 DEF Before
  <2>3. QED
    BY <2>1, <2>2 DEF Before
<1>5. QED
  BY <1>1, <1>3, <1>4

-----------------------------------------------------------------------------
(* The invariant.                                                          *)

\* A fresh interface and an empty message satisfy it.
LEMMA InitInv == ASSUME Init PROVE IInv
<1>1. TypeOK
  <2>1. device \in Devices
    BY DEF Init
  <2>2. 0 \in 0 .. Len(device.ips) /\ 0 \in 0 .. MaxIps /\ Capacity \in 0 .. Capacity
    BY <2>1, DeviceFacts
  <2>3. QED
    BY <2>1, <2>2 DEF Init, TypeOK
<1>2. CursorInv /\ ContentInv /\ LinkInv
  BY DEF Init, CursorInv, ContentInv, LinkInv
<1>3. QED
  BY <1>1, <1>2 DEF IInv

\* What an action that leaves the device alone does not change.
LEMMA SameDevice ==
    ASSUME UNCHANGED device
    PROVE  /\ Items' = Items
           /\ \A p, i : Before(p, i)' = Before(p, i)
BY DEF Items, Before

USE DEF host, Cursor, Guess, Kernel, vars

\* Opening the socket and learning the ABI.
LEMMA OpenInv == ASSUME IInv, open PROVE IInv'
<1>1. Items' = Items
  BY SameDevice DEF open
<1>2. TypeOK'
  BY <1>1 DEF IInv, TypeOK, open, awg_kernel_uses_current_abi
<1>3. CursorInv'
  BY DEF IInv, CursorInv, open
<1>4. ContentInv'
  BY <1>1 DEF IInv, ContentInv, CursorInv, open
<1>5. LinkInv'
  BY DEF IInv, TypeOK, LinkInv, open, awg_kernel_uses_current_abi
<1>6. QED
  BY <1>2, <1>3, <1>4, <1>5 DEF IInv

\* The start of a message, the first one or a resumed one.
LEMMA PrepareInv == ASSUME IInv, prepare PROVE IInv'
<1>1. Items' = Items /\ \A p, i : Before(p, i)' = Before(p, i)
  BY SameDevice DEF prepare
<1>2. device \in Devices
  BY DEF IInv, TypeOK
<1>3. TypeOK'
  <2>1. /\ msg' \in SUBSET Items /\ room' \in 0 .. Capacity
        /\ peer' \in 0 .. Len(device.ips)
    BY <1>2, DeviceFacts, FirstItem DEF IInv, TypeOK, prepare
  <2>2. QED
    BY <1>1, <2>1 DEF IInv, TypeOK, prepare
<1>4. CursorInv'
  BY <1>2, DeviceFacts DEF IInv, TypeOK, CursorInv, prepare
<1>5. ContentInv'
  <2>1. CASE peer # 0
    <3>1. Reached' = Reached
      BY <2>1, <1>1 DEF prepare, Reached
    <3>2. conf' = Reached /\ msg' = {} /\ pc' \in {"peers", "recv"}
      BY <2>1 DEF IInv, ContentInv, prepare
    <3>3. QED
      BY <3>1, <3>2 DEF ContentInv
  <2>2. CASE peer = 0 /\ Len(device.ips) # 0
    <3>1. Reached' = {<<0, 0>>}
      BY <2>2, <1>1, <1>2, DeviceFacts, FirstItem DEF IInv, CursorInv, prepare, Reached
    <3>2. conf' = {} /\ msg' = {<<0, 0>>} /\ pc' = "peers"
      BY <2>2 DEF IInv, ContentInv, prepare
    <3>3. QED
      BY <3>1, <3>2 DEF ContentInv
  <2>3. CASE peer = 0 /\ Len(device.ips) = 0
    <3>1. Reached' = {<<0, 0>>}
      BY <2>3, <1>1, <1>2, DeviceFacts, FirstItem DEF IInv, prepare, Reached
    <3>2. conf' = {} /\ msg' = {<<0, 0>>} /\ pc' = "recv"
      BY <2>3 DEF IInv, ContentInv, prepare
    <3>3. QED
      BY <3>1, <3>2 DEF ContentInv
  <2>4. QED
    BY <2>1, <2>2, <2>3
<1>6. LinkInv'
  BY DEF IInv, LinkInv, prepare
<1>7. QED
  BY <1>3, <1>4, <1>5, <1>6 DEF IInv

\* Past the last item of a peer the cursor is where Reached says.
LEMMA NextPeerReached ==
    ASSUME device \in Devices, UNCHANGED device,
           peer \in 1 .. Len(device.ips), NextPeer
    PROVE  /\ Reached' = Before(peer, device.ips[peer] + 1)
           /\ peer' \in 0 .. Len(device.ips) /\ allowedip' = 0
           /\ pc' = IF peer' = 0 THEN "recv" ELSE "peers"
<1>1. Items' = Items /\ \A p, i : Before(p, i)' = Before(p, i)
  BY SameDevice
<1>2. CASE peer < Len(device.ips)
  <2>1. peer' = peer + 1 /\ allowedip' = 0 /\ pc' = "peers"
    BY <1>2 DEF NextPeer
  <2>2. Reached' = Before(peer + 1, 0)
    BY <1>1, <2>1 DEF Reached
  <2>3. QED
    BY <1>2, <2>1, <2>2, LastItem, DeviceFacts
<1>3. CASE peer = Len(device.ips)
  <2>1. peer' = 0 /\ allowedip' = 0 /\ pc' = "recv"
    BY <1>3 DEF NextPeer
  <2>2. Reached' = Items
    BY <1>1, <2>1 DEF Reached
  <2>3. QED
    BY <1>3, <2>1, <2>2, LastItem, DeviceFacts
<1>4. QED
  BY <1>2, <1>3, DeviceFacts

\* Putting one item, the one at the cursor, and moving past it.
LEMMA ItemContent ==
    ASSUME IInv, pc \in {"peers", "allowedips"}, peer # 0,
           NEW i \in 0 .. device.ips[peer], i = allowedip,
           msg' = msg \cup {<<peer, i>>}, UNCHANGED <<conf, ret>>,
           Reached' = Before(peer, i + 1),
           pc' \in {"peers", "allowedips", "recv"}
    PROVE  ContentInv'
<1>1. device \in Devices /\ peer \in 1 .. Len(device.ips)
  BY DeviceFacts DEF IInv, TypeOK
<1>2. conf \cup msg = Before(peer, i) /\ conf \cap msg = {}
  BY DEF IInv, ContentInv, Reached
<1>3. /\ <<peer, i>> \notin Before(peer, i)
      /\ Before(peer, i) \cup {<<peer, i>>} = Before(peer, i + 1)
  BY <1>1, NextItem
<1>4. conf' \cup msg' = Reached' /\ conf' \cap msg' = {}
  BY <1>2, <1>3
<1>5. <<0, 0>> \in msg' => conf' = {}
  BY <1>1, DeviceFacts, FirstItem DEF IInv, ContentInv
<1>6. QED
  BY <1>4, <1>5 DEF ContentInv

\* A peer's attributes, or the end of the message before them.
LEMMA PutPeerInv == ASSUME IInv, put_peer PROVE IInv'
<1> DEFINE n == device.ips[peer]
<1>1. /\ device \in Devices /\ peer \in 1 .. Len(device.ips) /\ UNCHANGED device
      /\ allowedip \in 0 .. n /\ n \in 0 .. MaxIps
      /\ pc = "peers" /\ UNCHANGED <<faults, link, conf, current_abi, known_abi, abi, readable, ret>>
  BY DeviceFacts DEF IInv, TypeOK, CursorInv, put_peer
<1>2. Items' = Items /\ \A p, i : Before(p, i)' = Before(p, i)
  BY <1>1, SameDevice
<1>3. LinkInv'
  BY <1>1 DEF IInv, LinkInv, put_peer, NextPeer
<1>4. CASE NestSize > room
  <2>1. pc' = "recv" /\ UNCHANGED <<peer, allowedip, msg, room>>
    BY <1>4, <1>1, SizesAssumption DEF put_peer, NestSize, IInv, TypeOK
  <2>2. TypeOK' /\ CursorInv'
    BY <1>1, <1>2, <2>1 DEF IInv, TypeOK, CursorInv
  <2>3. ContentInv'
    BY <1>1, <1>2, <2>1 DEF IInv, ContentInv, Reached
  <2>4. QED
    BY <1>3, <2>2, <2>3 DEF IInv
<1>5. CASE NestSize <= room
  <2>1. /\ room' = room - NestSize
        /\ msg' = IF allowedip = 0 THEN msg \cup {<<peer, 0>>} ELSE msg
        /\ \/ n = 0 /\ NextPeer
           \/ /\ n # 0 /\ pc' = "allowedips" /\ UNCHANGED peer
              /\ allowedip' = IF allowedip = 0 THEN 1 ELSE allowedip
    BY <1>5, <1>1, SizesAssumption DEF put_peer, NestSize, IInv, TypeOK
  <2>2. room' \in 0 .. Capacity
    BY <1>5, <2>1, SizesAssumption DEF NestSize, IInv, TypeOK
  <2>3. msg' \in SUBSET Items
    BY <1>1, <2>1, NextItem DEF IInv, TypeOK
  <2>4. CASE n = 0
    <3>1. NextPeer /\ allowedip = 0 /\ msg' = msg \cup {<<peer, 0>>}
      BY <1>1, <2>1, <2>4
    <3>2. /\ Reached' = Before(peer, 0 + 1)
          /\ peer' \in 0 .. Len(device.ips) /\ allowedip' = 0
          /\ pc' = IF peer' = 0 THEN "recv" ELSE "peers"
      BY <1>1, <2>4, <3>1, NextPeerReached
    <3>3. ContentInv'
      BY <1>1, <2>4, <3>1, <3>2, ItemContent
    <3>4. TypeOK' /\ CursorInv'
      <4>1. peer' # 0 => peer' \in 1 .. Len(device.ips)
        BY <1>1, <3>2, DeviceFacts
      <4>2. QED
        BY <1>1, <1>2, <2>2, <2>3, <3>2, <4>1, DeviceFacts DEF IInv, TypeOK, CursorInv
    <3>5. QED
      BY <1>3, <3>3, <3>4 DEF IInv
  <2>5. CASE n # 0
    <3>1. /\ pc' = "allowedips" /\ UNCHANGED peer
          /\ allowedip' = IF allowedip = 0 THEN 1 ELSE allowedip
      BY <2>1, <2>5
    <3>2. TypeOK' /\ CursorInv'
      BY <1>1, <1>2, <2>2, <2>3, <2>5, <3>1, DeviceFacts DEF IInv, TypeOK, CursorInv
    <3>3. ContentInv'
      <4>1. CASE allowedip = 0
        <5>1. Reached' = Before(peer, 0 + 1)
          BY <1>1, <1>2, <3>1, <4>1 DEF Reached
        <5>2. QED
          BY <1>1, <2>1, <3>1, <4>1, <5>1, ItemContent
      <4>2. CASE allowedip # 0
        <5>1. Reached' = Reached /\ msg' = msg
          BY <1>1, <1>2, <2>1, <3>1, <4>2 DEF Reached
        <5>2. QED
          BY <1>1, <3>1, <5>1 DEF IInv, ContentInv
      <4>3. QED
        BY <4>1, <4>2
    <3>4. QED
      BY <1>3, <3>2, <3>3 DEF IInv
  <2>6. QED
    BY <2>4, <2>5
<1>6. QED
  BY <1>4, <1>5, SizesAssumption DEF NestSize, IInv, TypeOK

\* An AllowedIP, or the end of the message before it.
LEMMA PutAllowedIpInv == ASSUME IInv, put_allowedip PROVE IInv'
<1> DEFINE n == device.ips[peer]
<1>1. /\ device \in Devices /\ peer \in 1 .. Len(device.ips) /\ UNCHANGED device
      /\ allowedip \in 1 .. n /\ n \in 0 .. MaxIps /\ allowedip \in 0 .. n
      /\ pc = "allowedips" /\ UNCHANGED <<faults, link, conf, current_abi, known_abi, abi, readable, ret>>
  BY DeviceFacts DEF IInv, TypeOK, CursorInv, put_allowedip
<1>2. Items' = Items /\ \A p, i : Before(p, i)' = Before(p, i)
  BY <1>1, SameDevice
<1>3. LinkInv'
  BY <1>1 DEF IInv, LinkInv, put_allowedip, NextPeer
<1>4. CASE room < 1
  <2>1. pc' = "recv" /\ UNCHANGED <<peer, allowedip, msg, room>>
    BY <1>4, SizesAssumption DEF put_allowedip, IInv, TypeOK
  <2>2. TypeOK' /\ CursorInv'
    BY <1>1, <1>2, <2>1 DEF IInv, TypeOK, CursorInv
  <2>3. ContentInv'
    BY <1>1, <1>2, <2>1 DEF IInv, ContentInv, Reached
  <2>4. QED
    BY <1>3, <2>2, <2>3 DEF IInv
<1>5. CASE room >= 1
  <2>1. /\ room' = room - 1
        /\ msg' = msg \cup {<<peer, allowedip>>}
        /\ \/ allowedip = n /\ NextPeer
           \/ /\ allowedip < n /\ allowedip' = allowedip + 1 /\ UNCHANGED <<pc, peer>>
    BY <1>5, SizesAssumption DEF put_allowedip, IInv, TypeOK
  <2>2. room' \in 0 .. Capacity /\ msg' \in SUBSET Items
    <3>1. room' \in 0 .. Capacity
      BY <1>5, <2>1, SizesAssumption DEF IInv, TypeOK
    <3>2. <<peer, allowedip>> \in Items
      BY <1>1, NextItem
    <3>3. QED
      BY <2>1, <3>1, <3>2 DEF IInv, TypeOK
  <2>3. CASE allowedip = n
    <3>1. NextPeer
      BY <1>1, <2>1, <2>3
    <3>2. /\ Reached' = Before(peer, allowedip + 1)
          /\ peer' \in 0 .. Len(device.ips) /\ allowedip' = 0
          /\ pc' = IF peer' = 0 THEN "recv" ELSE "peers"
      BY <1>1, <2>3, <3>1, NextPeerReached
    <3>3. ContentInv'
      BY <1>1, <2>1, <3>2, ItemContent, DeviceFacts
    <3>4. TypeOK' /\ CursorInv'
      <4>1. peer' # 0 => peer' \in 1 .. Len(device.ips)
        BY <1>1, <3>2, DeviceFacts
      <4>2. QED
        BY <1>1, <1>2, <2>2, <3>2, <4>1, DeviceFacts DEF IInv, TypeOK, CursorInv
    <3>5. QED
      BY <1>3, <3>3, <3>4 DEF IInv
  <2>4. CASE allowedip < n
    <3>1. allowedip' = allowedip + 1 /\ UNCHANGED <<pc, peer>>
      BY <1>1, <2>1, <2>4
    <3>2. Reached' = Before(peer, allowedip + 1)
      BY <1>1, <1>2, <3>1 DEF Reached
    <3>3. ContentInv'
      BY <1>1, <2>1, <3>1, <3>2, ItemContent, DeviceFacts
    <3>4. TypeOK' /\ CursorInv'
      BY <1>1, <1>2, <2>2, <2>4, <3>1, DeviceFacts DEF IInv, TypeOK, CursorInv
    <3>5. QED
      BY <1>3, <3>3, <3>4 DEF IInv
  <2>5. QED
    BY <1>1, <2>3, <2>4
<1>6. QED
  BY <1>4, <1>5, SizesAssumption DEF IInv, TypeOK

\* The kernel took the message.
LEMMA AcknowledgedInv == ASSUME IInv, acknowledged PROVE IInv'
<1>1. Items' = Items /\ Reached' = Reached
  BY SameDevice DEF acknowledged, Reached
<1>2. conf' = Reached
  BY DEF IInv, ContentInv, acknowledged
<1>3. conf' \in SUBSET Items
  BY DEF IInv, TypeOK, acknowledged
<1>4. TypeOK'
  BY <1>1, <1>3 DEF IInv, TypeOK, acknowledged
<1>5. CursorInv' /\ LinkInv'
  BY DEF IInv, CursorInv, LinkInv, acknowledged
<1>6. ContentInv'
  <2>1. peer # 0 => pc' = "prepare" /\ peer' # 0
    BY DEF acknowledged
  <2>2. peer = 0 => pc' = "out" /\ Reached = Items
    BY DEF acknowledged, Reached
  <2>3. QED
    BY <1>1, <1>2, <2>1, <2>2 DEF ContentInv
<1>7. QED
  BY <1>4, <1>5, <1>6 DEF IInv

\* The kernel refused it: the second guess, or the end.
LEMMA RejectedInv == ASSUME IInv, invalid \/ refused PROVE IInv'
<1>1. /\ Items' = Items /\ pc = "recv" /\ pc' \in {"delete", "out"}
      /\ pc' = "out" => ret' # "0"
  BY SameDevice DEF invalid, refused
<1>2. conf' \in SUBSET Items
  BY DEF IInv, TypeOK, invalid, refused, PartlyApplied
<1>3. TypeOK'
  <2>1. /\ peer' \in 0 .. Len(device.ips) /\ allowedip' \in 0 .. MaxIps
    BY SizesAssumption, DeviceFacts DEF IInv, TypeOK, invalid, refused
  <2>2. QED
    BY <1>1, <1>2, <2>1 DEF IInv, TypeOK, invalid, refused
<1>4. CursorInv'
  BY DEF IInv, CursorInv, invalid, refused
<1>5. ContentInv'
  BY <1>1 DEF ContentInv
<1>6. LinkInv'
  <2>1. link /\ (readable => known_abi) /\ UNCHANGED <<link, readable>>
    BY <1>1 DEF IInv, LinkInv, invalid, refused
  <2>2. pc' = "delete" => ~readable /\ ret' = "0"
    BY <1>1, <2>1 DEF IInv, LinkInv, invalid, refused
  <2>3. QED
    BY <1>1, <2>1, <2>2 DEF LinkInv
<1>7. QED
  BY <1>3, <1>4, <1>5, <1>6 DEF IInv

\* The interface is made anew.
LEMMA RecreateInv == ASSUME IInv, delete_iface \/ add_iface PROVE IInv'
<1>1. /\ Items' = Items /\ peer = 0 /\ UNCHANGED peer
      /\ pc \in {"delete", "add"} /\ pc' \in {"add", "prepare", "out"}
      /\ pc' = "out" => ret' # "0"
  BY SameDevice DEF IInv, CursorInv, delete_iface, add_iface
<1>2. TypeOK'
  BY <1>1 DEF IInv, TypeOK, delete_iface, add_iface
<1>3. CursorInv'
  BY <1>1 DEF IInv, CursorInv, delete_iface, add_iface
<1>4. pc' # "out" => conf' = {}
  BY DEF IInv, ContentInv, delete_iface, add_iface
<1>5. ContentInv'
  BY <1>1, <1>4 DEF ContentInv
<1>6. LinkInv'
  BY <1>1 DEF IInv, LinkInv, delete_iface, add_iface
<1>7. QED
  BY <1>2, <1>3, <1>5, <1>6 DEF IInv

\* The invariant holds of every call.
THEOREM Invariance == Spec => []IInv
<1>1. Init => IInv
  BY InitInv
<1>2. IInv /\ [Next]_vars => IInv'
  <2>1. ASSUME IInv, Next PROVE IInv'
    BY <2>1, OpenInv, PrepareInv, PutPeerInv, PutAllowedIpInv, AcknowledgedInv,
       RejectedInv, RecreateInv DEF Next
  <2>2. ASSUME IInv, UNCHANGED vars PROVE IInv'
    BY <2>2 DEF IInv, TypeOK, CursorInv, ContentInv, LinkInv, Reached, Before, Items
  <2>3. QED
    BY <2>1, <2>2
<1>3. QED
  BY <1>1, <1>2, PTL DEF Spec

\* A wg_set_device that returns 0 has written the whole device.
THEOREM SuccessIsComplete == Spec => []SuccessMeansConfigured
<1>1. IInv => SuccessMeansConfigured
  BY DEF IInv, ContentInv, LinkInv, SuccessMeansConfigured
<1>2. QED
  BY <1>1, Invariance, PTL

\* No message repeats an item the kernel has accepted.
THEOREM ItemsAreSentOnce == Spec => []NothingSentTwice
<1>1. IInv => NothingSentTwice
  BY DEF IInv, ContentInv, NothingSentTwice
<1>2. QED
  BY <1>1, Invariance, PTL

\* With a version that can be read the interface is never recreated.
THEOREM NoSecondGuess == Spec => []KnownKernelKeepsLink
<1>1. IInv => KnownKernelKeepsLink
  BY DEF IInv, LinkInv, KnownKernelKeepsLink
<1>2. QED
  BY <1>1, Invariance, PTL

=============================================================================
