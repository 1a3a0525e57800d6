-------------------------- MODULE ImportExportProofs --------------------------
(***************************************************************************)
(* Proofs about import and export, for files of any length and content,    *)
(* any items set by nmcli, and any number of imports.                      *)
(***************************************************************************)
EXTENDS ImportExport, FunctionTheorems, FiniteSetTheorems, TLAPS

(***************************************************************************)
(* Sets of numbers.                                                        *)
(***************************************************************************)

\* The cardinality of an interval that starts at 1.
LEMMA IntervalSize ==
    ASSUME NEW n \in Nat
    PROVE  IsFiniteSet(1 .. n) /\ Cardinality(1 .. n) = n
<1>1. 1 \in Int /\ n \in Int /\ (1 > n => n = 0) /\ (~(1 > n) => n - 1 + 1 = n)
  OBVIOUS
<1>2. IsFiniteSet(1 .. n) /\ Cardinality(1 .. n) = IF 1 > n THEN 0 ELSE n - 1 + 1
  BY <1>1, FS_Interval
<1>3. QED
  BY <1>1, <1>2

Rank(V, i) == Cardinality({j \in V : j <= i})

\* Every number up to its cardinality is the rank of one member of a set of
\* numbers.
LEMMA NthFacts ==
    ASSUME NEW n \in Nat, NEW V, V \subseteq 1 .. n, NEW k \in 1 .. Cardinality(V)
    PROVE  /\ Nth(V, k) \in V
           /\ Rank(V, Nth(V, k)) = k
           /\ \A i \in V : Rank(V, i) = k => i = Nth(V, k)
<1> DEFINE R == 1 .. Cardinality(V)
           Below(i) == {j \in V : j <= i}
           rank == [i \in V |-> Cardinality(Below(i))]
<1>1. IsFiniteSet(V) /\ Cardinality(V) \in Nat
  <2>1. V \in SUBSET (1 .. n)
    OBVIOUS
  <2>2. IsFiniteSet(V)
    BY <2>1, IntervalSize, FS_Subset
  <2>3. QED
    BY <2>2, FS_CardinalityType
<1>2. ASSUME NEW i \in V
      PROVE  IsFiniteSet(Below(i)) /\ Cardinality(Below(i)) \in R
  <2>1. Below(i) \in SUBSET V /\ Below(i) # {}
    OBVIOUS
  <2>2. IsFiniteSet(Below(i)) /\ Cardinality(Below(i)) <= Cardinality(V)
    BY <1>1, <2>1, FS_Subset
  <2>3. Cardinality(Below(i)) \in Nat /\ Cardinality(Below(i)) # 0
    BY <2>1, <2>2, FS_CardinalityType, FS_EmptySet
  <2>4. QED
    BY <1>1, <2>2, <2>3
<1>3. ASSUME NEW i \in V, NEW h \in V, i < h
      PROVE  Cardinality(Below(i)) # Cardinality(Below(h))
  <2>1. i \in Int /\ h \in Int /\ h <= h /\ ~(h <= i) /\ \A j \in V : j <= i => j <= h
    BY <1>3
  <2>2. Below(i) \in SUBSET Below(h) /\ h \in Below(h) /\ h \notin Below(i)
    BY <2>1
  <2>3. QED
    BY <1>2, <2>2, FS_Subset
<1>4. rank \in Injection(V, R)
  <2>1. rank \in [V -> R]
    BY <1>2
  <2>2. \A i, h \in V : rank[i] = rank[h] => i = h
    <3> SUFFICES ASSUME NEW i \in V, NEW h \in V, i # h PROVE rank[i] # rank[h]
      OBVIOUS
    <3>1. i < h \/ h < i
      OBVIOUS
    <3>2. QED
      BY <1>3, <3>1
  <2>3. QED
    BY <2>1, <2>2 DEF Injection, IsInjective
<1>5. IsFiniteSet(R) /\ Cardinality(R) = Cardinality(V)
  BY <1>1, IntervalSize
<1>6. rank \in Surjection(V, R)
  BY <1>4, <1>5, FS_Injection
<1>7. \E i \in V : Cardinality(Below(i)) = k
  BY <1>6 DEF Surjection
<1>8. \A i \in V : Rank(V, i) = Cardinality(Below(i))
  BY DEF Rank
<1>9. \A i, h \in V : Rank(V, i) = Rank(V, h) => i = h
  <2> SUFFICES ASSUME NEW i \in V, NEW h \in V, i # h PROVE Rank(V, i) # Rank(V, h)
    OBVIOUS
  <2>1. i < h \/ h < i
    OBVIOUS
  <2>2. QED
    BY <1>3, <1>8, <2>1
<1> HIDE DEF Below
<1>10. Nth(V, k) \in V /\ Rank(V, Nth(V, k)) = k
  <2>1. \E i \in V : Rank(V, i) = k
    BY <1>7, <1>8
  <2>2. Nth(V, k) = CHOOSE i \in V : Rank(V, i) = k
    BY DEF Nth, Rank
  <2>3. QED
    BY <2>1, <2>2
<1>11. QED
  BY <1>9, <1>10

\* A set of numbers that is not empty has a greatest member.
LEMMA Greatest ==
    ASSUME NEW n \in Nat, NEW V, V \subseteq 1 .. n, V # {}
    PROVE  \E m \in V : \A k \in V : k <= m
<1>1. V \in SUBSET (1 .. n) /\ IsFiniteSet(1 .. n)
  BY IntervalSize
<1>2. IsFiniteSet(V) /\ Cardinality(V) \in Nat /\ Cardinality(V) # 0
  BY <1>1, FS_Subset, FS_CardinalityType, FS_EmptySet
<1>3. PICK m \in V : Rank(V, m) = Cardinality(V)
  <2>1. Cardinality(V) \in 1 .. Cardinality(V)
    BY <1>2
  <2>2. QED
    BY <2>1, NthFacts
<1> DEFINE Below == {j \in V : j <= m}
<1>4. Below \in SUBSET V /\ Cardinality(Below) = Cardinality(V)
  BY <1>3 DEF Rank
<1>5. Below = V
  <2> HIDE DEF Below
  <2>1. QED
    BY <1>2, <1>4, FS_Subset
<1>6. QED
  BY <1>3, <1>5

LEMMA MaxFacts ==
    ASSUME NEW n \in Nat, NEW V, V \subseteq 0 .. n, V # {}
    PROVE  Max(V) \in V /\ \A k \in V : k <= Max(V)
<1>1. \E m \in V : \A k \in V : k <= m
  <2> DEFINE P == V \ {0}
  <2>1. CASE P = {}
    <3>1. \A k \in V : k = 0
      BY <2>1
    <3>2. V = {0}
      BY <3>1
    <3>3. QED
      BY <3>2
  <2>2. CASE P # {}
    <3>1. P \subseteq 1 .. n
      OBVIOUS
    <3> HIDE DEF P
    <3>2. PICK m \in P : \A k \in P : k <= m
      BY <2>2, <3>1, Greatest
    <3>3. m \in V /\ \A k \in V : k <= m
      BY <3>1, <3>2 DEF P
    <3>4. QED
      BY <3>3
  <2>3. QED
    BY <2>1, <2>2
<1>2. \E m \in V : \A k \in V : m >= k
  BY <1>1
<1>3. Max(V) \in V /\ \A k \in V : Max(V) >= k
  BY <1>2 DEF Max
<1>4. QED
  BY <1>3

\* A member above all others comes last.
LEMMA NthLast ==
    ASSUME NEW n \in Nat, NEW V, V \subseteq 1 .. n, NEW m \in Nat, m > n
    PROVE  /\ Cardinality(V) \in Nat
           /\ Cardinality(V \cup {m}) = Cardinality(V) + 1
           /\ \A k \in 1 .. Cardinality(V) : Nth(V \cup {m}, k) = Nth(V, k)
           /\ Nth(V \cup {m}, Cardinality(V) + 1) = m
<1> DEFINE W == V \cup {m}
           c == Cardinality(V)
<1>1. V \in SUBSET (1 .. n) /\ IsFiniteSet(1 .. n) /\ m \notin V
  BY IntervalSize
<1>2. IsFiniteSet(V) /\ c \in Nat /\ Cardinality(W) = c + 1
  BY <1>1, FS_Subset, FS_CardinalityType, FS_AddElement
<1>3. W \subseteq 1 .. m
  OBVIOUS
<1>4. ASSUME NEW i \in V PROVE Rank(W, i) = Rank(V, i) /\ i \in W
  <2>1. {j \in W : j <= i} = {j \in V : j <= i}
    OBVIOUS
  <2>2. QED
    BY <2>1 DEF Rank
<1>5. Rank(W, m) = c + 1 /\ m \in W
  <2>1. \A j \in W : j <= m
    OBVIOUS
  <2> HIDE DEF W
  <2>2. {j \in W : j <= m} = W
    BY <2>1
  <2>3. QED
    BY <1>2, <2>2 DEF Rank, W
<1> HIDE DEF W
<1>6. ASSUME NEW k \in 1 .. c PROVE Nth(W, k) = Nth(V, k)
  <2>1. Nth(V, k) \in V /\ Rank(V, Nth(V, k)) = k
    BY NthFacts
  <2>2. PICK i \in V : i = Nth(V, k) /\ Rank(V, i) = k
    BY <2>1
  <2>3. k \in 1 .. Cardinality(W) /\ i \in W /\ Rank(W, i) = k
    BY <1>2, <1>4, <2>2
  <2>4. i = Nth(W, k)
    BY <1>3, <2>3, NthFacts
  <2>5. QED
    BY <2>2, <2>4
<1>7. Nth(W, c + 1) = m
  <2>1. c + 1 \in 1 .. Cardinality(W)
    BY <1>2
  <2>2. QED
    BY <1>3, <1>5, <2>1, NthFacts
<1>8. QED
  BY <1>2, <1>6, <1>7 DEF W

(***************************************************************************)
(* Fields.                                                                 *)
(***************************************************************************)

\* A device is an object with these fields and no others; the texts are any.
DeviceShape(d) ==
    d = [text    |-> [f \in TextFields |-> d.text[f]],
         number  |-> [f \in NumberFields |-> d.number[f]],
         on      |-> d.on,
         address |-> d.address,
         dns     |-> d.dns,
         peers   |-> d.peers]

Sound(d) == DeviceShape(d) /\ Encodable(d)

\* Packing two 16-bit numbers into one of 32 bits loses neither.
LEMMA PackedApart ==
    ASSUME NEW m \in Nat, m > 0, NEW a \in Nat, NEW b \in 0 .. m - 1
    PROVE  (a * m + b) % m = b /\ (a * m + b) \div m = a
<1> DEFINE n == a * m + b
           q == n \div m
           r == n % m
<1>1. n \in Nat /\ a * m \in Nat
  OBVIOUS
<1>2. q \in Int /\ r \in 0 .. m - 1 /\ n = m * q + r
  BY <1>1
<1>3. a = q
  <2>1. CASE a > q
    <3>1. m * (a - q) >= m * 1
      BY <1>2, <2>1
    <3>2. m * (a - q) = r - b
      BY <1>2
    <3>3. QED
      BY <1>2, <3>1, <3>2
  <2>2. CASE a < q
    <3>1. m * (q - a) >= m * 1
      BY <1>2, <2>2
    <3>2. m * (q - a) = b - r
      BY <1>2
    <3>3. QED
      BY <1>2, <3>1, <3>2
  <2>3. QED
    BY <1>2, <2>1, <2>2
<1>4. QED
  BY <1>2, <1>3

\* The texts that the setters of the ranges take are those the kernel can keep.
LEMMA RangeAccepted ==
    ASSUME NEW t, awg_range_parse_u32(t)
    PROVE  Len(t) \in {1, 2} /\ RangeIsKept(t)
<1> DEFINE m == U16Max + 1
<1>1. m \in Nat /\ m > 0 /\ U16Max \in Nat
  BY DeviceAssumption
<1>2. \E a \in 0 .. U16Max, b \in 0 .. U16Max :
        /\ Len(t) \in {1, 2} /\ t[Len(t)] = a /\ t[1] = b /\ b <= a
  BY <1>1 DEF awg_range_parse_u32, IsUnsigned, IsRange
<1>3. PICK a \in 0 .. U16Max, b \in 0 .. U16Max :
        /\ Len(t) \in {1, 2} /\ t[Len(t)] = a /\ t[1] = b /\ b <= a
  BY <1>2
<1>4. packed(t) = a * m + b
  BY <1>3 DEF packed
<1>5. a \in Nat /\ b \in 0 .. m - 1
  BY <1>1
<1>6. (a * m + b) % m = b /\ (a * m + b) \div m = a
  BY <1>1, <1>5, PackedApart
<1>7. QED
  BY <1>3, <1>4, <1>6 DEF RangeIsKept

\* What a header text that is accepted stands for is not empty, white space
\* excepted.
LEMMA HeaderAccepted ==
    ASSUME NEW t, awg_validate_magic_header(t), t # Unset, t # White
    PROVE  awg_magic_header_parse(t) # Unset
BY DEF awg_validate_magic_header, awg_validate_empty, Stripped, awg_magic_header_parse, Unset

-----------------------------------------------------------------------------
(* Setters.                                                                *)

LEMMA NumberSet ==
    ASSUME NEW d, Sound(d), NEW f \in NumberFields, NEW n \in 0 .. MaxOf(f)
    PROVE  Sound([d EXCEPT !.number[f] = n])
<1> DEFINE v == [d EXCEPT !.number[f] = n]
<1>1. v = [text    |-> [g \in TextFields |-> d.text[g]],
           number  |-> [g \in NumberFields |-> IF g = f THEN n ELSE d.number[g]],
           on |-> d.on, address |-> d.address, dns |-> d.dns, peers |-> d.peers]
  BY DEF Sound, DeviceShape
<1>2. DeviceShape(v)
  BY <1>1 DEF DeviceShape
<1>3. /\ \A g \in NumberFields : v.number[g] = IF g = f THEN n ELSE d.number[g]
      /\ \A g \in TextFields : v.text[g] = d.text[g]
      /\ v.on = d.on
  BY <1>1
<1> HIDE DEF v
<1>4. Encodable(v)
  BY <1>3 DEF Sound, Encodable
<1>5. QED
  BY <1>2, <1>4 DEF Sound, v

LEMMA TextSet ==
    ASSUME NEW d, Sound(d), NEW f \in TextFields, NEW t, EncodableText(f, t)
    PROVE  Sound([d EXCEPT !.text[f] = t])
<1> DEFINE v == [d EXCEPT !.text[f] = t]
<1>1. v = [text    |-> [g \in TextFields |-> IF g = f THEN t ELSE d.text[g]],
           number  |-> [g \in NumberFields |-> d.number[g]],
           on |-> d.on, address |-> d.address, dns |-> d.dns, peers |-> d.peers]
  BY DEF Sound, DeviceShape
<1>2. DeviceShape(v)
  BY <1>1 DEF DeviceShape
<1>3. /\ \A g \in NumberFields : v.number[g] = d.number[g]
      /\ \A g \in TextFields : v.text[g] = IF g = f THEN t ELSE d.text[g]
      /\ v.on = d.on
  BY <1>1
<1> HIDE DEF v
<1>4. Encodable(v)
  BY <1>3 DEF Sound, Encodable
<1>5. QED
  BY <1>2, <1>4 DEF Sound, v

\* Fields that Encodable does not speak of.
LEMMA OtherSet ==
    ASSUME NEW d, Sound(d), NEW x
    PROVE  /\ Sound([d EXCEPT !.address = x])
           /\ Sound([d EXCEPT !.dns = x])
           /\ Sound([d EXCEPT !.peers = x])
           /\ x \in SUBSET FlagFields => Sound([d EXCEPT !.on = x])
BY DEF Sound, DeviceShape, Encodable

\* Each limit of a setter is the limit of the kernel's field.
LEMMA NumberSetter ==
    ASSUME NEW d, Sound(d), NEW f \in NumberFields, NEW t, NEW max, max = MaxOf(f)
    PROVE  Sound(set_number(d, f, t, max).value)
<1>1. CASE IsUnsigned(t, max)
  <2>1. t[1] \in 0 .. MaxOf(f)
    BY <1>1 DEF IsUnsigned
  <2>2. set_number(d, f, t, max).value = [d EXCEPT !.number[f] = t[1]]
    BY <1>1 DEF set_number, Accept
  <2>3. QED
    BY <2>1, <2>2, NumberSet
<1>2. CASE ~IsUnsigned(t, max)
  BY <1>2 DEF set_number, Reject
<1>3. QED
  BY <1>1, <1>2

LEMMA TextSetter ==
    ASSUME NEW d, Sound(d), NEW f \in TextFields, NEW t, NEW valid \in BOOLEAN,
           valid => EncodableText(f, t)
    PROVE  Sound(set_text(d, f, t, valid).value)
<1>1. EncodableText(f, Unset)
  BY DEF EncodableText
<1>2. CASE t = Unset \/ valid
  <2>1. set_text(d, f, t, valid).value = [d EXCEPT !.text[f] = t]
    BY <1>2 DEF set_text, Accept
  <2>2. QED
    BY <1>1, <1>2, <2>1, TextSet
<1>3. CASE ~(t = Unset \/ valid)
  BY <1>3 DEF set_text, Reject
<1>4. QED
  BY <1>2, <1>3

\* The keys of [Interface] exclude each other, so each has one setter.
LEMMA ItemCases ==
    ASSUME NEW d, NEW key, NEW t
    PROVE  /\ key = "private_key" => interface_item(d, key, t) = awg_device_set_private_key(d, t)
           /\ key \in {"public_key", CommentedKey} =>
                interface_item(d, key, t) = awg_device_set_public_key(d, t)
           /\ key = "address" => interface_item(d, key, t) = awg_device_set_address_from_string(d, t)
           /\ key = "listen_port" => interface_item(d, key, t) = awg_device_set_listen_port_from_string(d, t)
           /\ key = "dns" => interface_item(d, key, t) = awg_device_set_dns_from_string(d, t)
           /\ key = "fw_mark" => interface_item(d, key, t) = awg_device_set_fw_mark_from_string(d, t)
           /\ key \in JunkFields => interface_item(d, key, t) = awg_device_set_junk_from_string(d, key, t)
           /\ key \in PaddingFields => interface_item(d, key, t) = awg_device_set_padding_from_string(d, key, t)
           /\ key \in HeaderFields => interface_item(d, key, t) = awg_device_set_h(d, key, t)
           /\ key \in PacketFields => interface_item(d, key, t) = awg_device_set_i(d, key, t)
           /\ key = "header_protection_key" =>
                interface_item(d, key, t) = awg_device_set_header_protection_key(d, t)
           /\ key \in RangeFields => interface_item(d, key, t) = awg_device_set_range(d, key, t)
           /\ key \in FlagFields =>
                interface_item(d, key, t) =
                    IF awg_parse_bool(t) THEN awg_device_set_flag(d, key, t[1] \in OnWords) ELSE Reject(d)
           /\ key = "mtu" => interface_item(d, key, t) = awg_device_set_mtu_from_string(d, t)
           /\ key \in ScriptFields => interface_item(d, key, t) = awg_device_set_script(d, key, t)
           /\ key \in InterfaceKeys \/ interface_item(d, key, t) = Accept(d)
<1> USE DEF CommentedKey, JunkFields, PaddingFields, HeaderFields, PacketFields, RangeFields,
            FlagFields, ScriptFields
<1>1. key = "private_key" => interface_item(d, key, t) = awg_device_set_private_key(d, t)
  BY DEF interface_item
<1>2. key \in {"public_key", CommentedKey} => interface_item(d, key, t) = awg_device_set_public_key(d, t)
  BY DEF interface_item
<1>3. key = "address" => interface_item(d, key, t) = awg_device_set_address_from_string(d, t)
  BY DEF interface_item
<1>4. key = "listen_port" => interface_item(d, key, t) = awg_device_set_listen_port_from_string(d, t)
  BY DEF interface_item
<1>5. key = "dns" => interface_item(d, key, t) = awg_device_set_dns_from_string(d, t)
  BY DEF interface_item
<1>6. key = "fw_mark" => interface_item(d, key, t) = awg_device_set_fw_mark_from_string(d, t)
  BY DEF interface_item
<1>7. key \in JunkFields => interface_item(d, key, t) = awg_device_set_junk_from_string(d, key, t)
  BY DEF interface_item
<1>8. key \in PaddingFields => interface_item(d, key, t) = awg_device_set_padding_from_string(d, key, t)
  BY DEF interface_item
<1>9. key \in HeaderFields => interface_item(d, key, t) = awg_device_set_h(d, key, t)
  BY DEF interface_item
<1>10. key \in PacketFields => interface_item(d, key, t) = awg_device_set_i(d, key, t)
  BY DEF interface_item
<1>11. key = "header_protection_key" => interface_item(d, key, t) = awg_device_set_header_protection_key(d, t)
  BY DEF interface_item
<1>12. key \in RangeFields => interface_item(d, key, t) = awg_device_set_range(d, key, t)
  BY DEF interface_item
<1>13. key \in FlagFields => interface_item(d, key, t) = IF awg_parse_bool(t) THEN awg_device_set_flag(d, key, t[1] \in OnWords) ELSE Reject(d)
  BY DEF interface_item
<1>14. key = "mtu" => interface_item(d, key, t) = awg_device_set_mtu_from_string(d, t)
  BY DEF interface_item
<1>15. key \in ScriptFields => interface_item(d, key, t) = awg_device_set_script(d, key, t)
  BY DEF interface_item
<1>16. key \in InterfaceKeys \/ interface_item(d, key, t) = Accept(d)
  BY DEF interface_item, InterfaceKeys, TextFields, NumberFields, KeyFields
<1>17. QED
  BY ONLY <1>1, <1>2, <1>3, <1>4, <1>5, <1>6, <1>7, <1>8, <1>9, <1>10, <1>11, <1>12, <1>13, <1>14, <1>15, <1>16

\* Whatever a line of [Interface] says, the device stays one that a backend can
\* encode.
LEMMA ItemSound ==
    ASSUME NEW d, Sound(d), NEW key, NEW t
    PROVE  Sound(interface_item(d, key, t).value)
<1> DEFINE v == interface_item(d, key, t).value
<1>1. CASE key \in {"private_key", "public_key", CommentedKey}
  <2>1. \A f \in {"private_key", "public_key"} :
          /\ f \in TextFields
          /\ awg_key_from_base64(t) => EncodableText(f, t)
    BY DEF TextFields, EncodableText, awg_key_from_base64,
           KeyFields, HeaderFields, PacketFields, RangeFields, ScriptFields
  <2>2. \A f \in {"private_key", "public_key"} :
          awg_key_from_base64(t) => Sound([d EXCEPT !.text[f] = t])
    BY <2>1, TextSet
  <2>3. \/ v = d
        \/ awg_key_from_base64(t) /\ v = [d EXCEPT !.text["private_key"] = t]
        \/ awg_key_from_base64(t) /\ v = [d EXCEPT !.text["public_key"] = t]
    BY <1>1, ItemCases DEF awg_device_set_private_key, awg_device_set_public_key,
                Accept, Reject, CommentedKey
  <2>4. QED
    BY <2>2, <2>3
<1>2. CASE key = "address"
  <2> DEFINE x == [f \in Families |-> First(d.address[f] \o AddressesOf(t, f))]
  <2>1. v = [d EXCEPT !.address = x]
    BY <1>2, ItemCases DEF awg_device_set_address_from_string
  <2> HIDE DEF v, x
  <2>2. Sound(v)
    BY <2>1, OtherSet
  <2>3. QED
    BY <2>2 DEF v
<1>3. CASE key = "dns"
  <2> DEFINE x == [f \in Families |-> OfFamily(t, f)]
  <2>1. v = d \/ v = [d EXCEPT !.dns = x]
    BY <1>3, ItemCases DEF awg_device_set_dns_from_string, Accept, Reject
  <2> HIDE DEF x
  <2>2. Sound([d EXCEPT !.dns = x])
    BY OtherSet
  <2>3. QED
    BY <2>1, <2>2
<1>4. CASE key \in {"listen_port", "fw_mark"} \cup JunkFields \cup PaddingFields
  <2>1. v \in {set_number(d, key, t, MaxOf(key)).value}
    BY <1>4, ItemCases DEF CommentedKey, MaxOf, JunkFields, PaddingFields,
                awg_device_set_listen_port_from_string, awg_device_set_fw_mark_from_string,
                awg_device_set_junk_from_string, awg_device_set_padding_from_string, PaddingMax
  <2>2. key \in NumberFields
    BY <1>4 DEF NumberFields
  <2>3. Sound(set_number(d, key, t, MaxOf(key)).value)
    BY <2>2, NumberSetter
  <2>4. QED
    BY <2>1, <2>3
<1>5. CASE key = "mtu"
  <2>1. "mtu" \in NumberFields /\ MaxOf("mtu") = 1500
    BY DEF NumberFields, MaxOf
  <2>2. \/ v = d
        \/ IsUnsigned(t, 1500) /\ v = [d EXCEPT !.number["mtu"] = t[1]]
    BY <1>5, ItemCases DEF awg_device_set_mtu_from_string, Accept, Reject, CommentedKey,
                JunkFields, PaddingFields, HeaderFields, PacketFields, RangeFields, FlagFields
  <2>3. IsUnsigned(t, 1500) => Sound([d EXCEPT !.number["mtu"] = t[1]])
    BY <2>1, NumberSet DEF IsUnsigned
  <2>4. QED
    BY <2>2, <2>3
<1>6. CASE key \in HeaderFields
  <2>1. v = set_text(d, key, t, awg_validate_magic_header(t)).value
    BY <1>6, ItemCases DEF awg_device_set_h, CommentedKey, JunkFields, PaddingFields, HeaderFields
  <2>2. key \in TextFields /\ awg_validate_magic_header(t) \in BOOLEAN
    BY <1>6 DEF TextFields, awg_validate_magic_header, awg_validate_empty, IsUnsigned, IsRange
  <2>3. awg_validate_magic_header(t) => EncodableText(key, t)
    BY <1>6, HeaderAccepted DEF EncodableText, KeyFields, HeaderFields, PacketFields, RangeFields, ScriptFields
  <2>4. QED
    BY <2>1, <2>2, <2>3, TextSetter
<1>7. CASE key \in PacketFields
  <2>1. v = set_text(d, key, t, awg_validate_i_packet(t)).value
    BY <1>7, ItemCases DEF awg_device_set_i, CommentedKey, JunkFields, PaddingFields, HeaderFields, PacketFields
  <2>2. key \in TextFields /\ awg_validate_i_packet(t) \in BOOLEAN
    BY <1>7 DEF TextFields, awg_validate_i_packet, awg_validate_empty
  <2>3. awg_validate_i_packet(t) => EncodableText(key, t)
    BY <1>7 DEF EncodableText, awg_validate_i_packet, awg_validate_empty, Stripped,
                KeyFields, HeaderFields, PacketFields, RangeFields, ScriptFields
  <2>4. QED
    BY <2>1, <2>2, <2>3, TextSetter
<1>8. CASE key = "header_protection_key"
  <2>1. v = set_text(d, key, t, awg_key_from_base64(t)).value
    BY <1>8, ItemCases DEF awg_device_set_header_protection_key, CommentedKey,
                JunkFields, PaddingFields, HeaderFields, PacketFields
  <2>2. key \in TextFields /\ awg_key_from_base64(t) \in BOOLEAN
    BY <1>8 DEF TextFields, KeyFields, awg_key_from_base64
  <2>3. awg_key_from_base64(t) => EncodableText(key, t)
    BY <1>8 DEF EncodableText, awg_key_from_base64,
                KeyFields, HeaderFields, PacketFields, RangeFields, ScriptFields
  <2>4. QED
    BY <2>1, <2>2, <2>3, TextSetter
<1>9. CASE key \in RangeFields
  <2>1. v = set_text(d, key, t, awg_range_parse_u32(t)).value
    BY <1>9, ItemCases DEF awg_device_set_range, CommentedKey, JunkFields, PaddingFields,
                HeaderFields, PacketFields, RangeFields
  <2>2. key \in TextFields /\ awg_range_parse_u32(t) \in BOOLEAN
    BY <1>9 DEF TextFields, awg_range_parse_u32, IsUnsigned, IsRange
  <2>3. awg_range_parse_u32(t) => EncodableText(key, t)
    BY <1>9, RangeAccepted DEF EncodableText, HeaderFields, KeyFields, PacketFields, RangeFields
  <2>4. QED
    BY <2>1, <2>2, <2>3, TextSetter
<1>10. CASE key \in FlagFields
  <2>1. d.on \subseteq FlagFields
    BY DEF Sound, Encodable
  <2>2. ASSUME NEW b \in BOOLEAN PROVE Sound(awg_device_set_flag(d, key, b).value)
    <3> DEFINE x == IF b THEN d.on \cup {key} ELSE d.on \ {key}
    <3>1. awg_device_set_flag(d, key, b).value = [d EXCEPT !.on = x]
      BY DEF awg_device_set_flag, Accept
    <3>2. x \in SUBSET FlagFields
      BY <1>10, <2>1
    <3> HIDE DEF x
    <3>3. Sound([d EXCEPT !.on = x])
      BY <3>2, OtherSet
    <3>4. QED
      BY <3>1, <3>3
  <2> DEFINE b == t[1] \in OnWords
  <2>3. v = d \/ v = awg_device_set_flag(d, key, b).value
    BY <1>10, ItemCases DEF Reject
  <2>4. b \in BOOLEAN
    OBVIOUS
  <2> HIDE DEF b, v
  <2>5. Sound(v)
    BY <2>2, <2>3, <2>4
  <2>6. QED
    BY <2>5 DEF v
<1>11. CASE key \in ScriptFields
  <2>1. v = [d EXCEPT !.text[key] = t]
    BY <1>11, ItemCases DEF awg_device_set_script, Accept, CommentedKey, ScriptFields,
                 JunkFields, PaddingFields, HeaderFields, PacketFields, RangeFields, FlagFields
  <2>2. key \in TextFields /\ EncodableText(key, t)
    BY <1>11 DEF TextFields, EncodableText, KeyFields, HeaderFields, PacketFields, RangeFields, ScriptFields
  <2>3. QED
    BY <2>1, <2>2, TextSet
<1>12. CASE ~(\/ key \in {"private_key", "public_key", CommentedKey, "address", "dns"}
              \/ key \in {"listen_port", "fw_mark", "mtu", "header_protection_key"}
              \/ key \in JunkFields \cup PaddingFields \cup HeaderFields \cup PacketFields
              \/ key \in RangeFields \cup FlagFields \cup ScriptFields)
  <2>1. v = d
    BY <1>12, ItemCases DEF Accept, InterfaceKeys, TextFields, NumberFields, KeyFields
  <2>2. QED
    BY <2>1
<1>13. QED
  BY <1>1, <1>2, <1>3, <1>4, <1>5, <1>6, <1>7, <1>8, <1>9, <1>10, <1>11, <1>12

-----------------------------------------------------------------------------
(* A new device, and one that is loaded.                                   *)

LEMMA MaxIsNat ==
    ASSUME NEW f \in NumberFields
    PROVE  MaxOf(f) \in Nat
<1>1. U16Max \in Nat /\ U16Max >= 1500 /\ (U16Max + 1) * (U16Max + 1) \in Nat
  BY DeviceAssumption
<1>2. (U16Max + 1) * (U16Max + 1) >= 1 * 1
  BY <1>1
<1>3. QED
  BY <1>1, <1>2 DEF MaxOf, U32Max

LEMMA NewSound == Sound(awg_device_new)
<1>1. DeviceShape(awg_device_new)
  BY DEF DeviceShape, awg_device_new
<1>2. \A f \in NumberFields : awg_device_new.number[f] \in 0 .. MaxOf(f)
  BY MaxIsNat DEF awg_device_new
<1>3. QED
  BY <1>1, <1>2 DEF Sound, Encodable, EncodableText, awg_device_new

\* The items of a connection may be any texts: what a setter rejects is left at
\* its default.
LEMMA LoadedNumber ==
    ASSUME NEW c, NEW f \in NumberFields
    PROVE  load_number(c, f) \in 0 .. MaxOf(f)
<1> DEFINE d == awg_device_new
           t == c.number[f]
<1>1. Sound(d) /\ d.number[f] \in 0 .. MaxOf(f) /\ 0 \in 0 .. MaxOf(f)
  BY NewSound, MaxIsNat DEF Sound, Encodable
<1>2. \/ load_number(c, f) = 0
      \/ load_number(c, f) = interface_item(d, f, t).value.number[f]
  BY ItemCases DEF load_number, NumberFields, JunkFields, PaddingFields
<1>3. interface_item(d, f, t).value.number[f] \in 0 .. MaxOf(f)
  BY <1>1, ItemSound DEF Sound, Encodable
<1>4. QED
  BY <1>1, <1>2, <1>3

LEMMA LoadedText ==
    ASSUME NEW c, NEW f \in TextFields
    PROVE  EncodableText(f, load_text(c, f))
<1> DEFINE d == awg_device_new
           t == c.text[f]
<1>1. \/ load_text(c, f) = Unset
      \/ load_text(c, f) = interface_item(d, f, t).value.text[f]
  BY ItemCases DEF load_text, TextFields, KeyFields, HeaderFields, PacketFields, RangeFields, ScriptFields
<1>2. EncodableText(f, interface_item(d, f, t).value.text[f])
  BY NewSound, ItemSound DEF Sound, Encodable
<1>3. QED
  BY <1>1, <1>2 DEF EncodableText

\* Three fields of a device replaced at once.
LEMMA NewWith ==
    ASSUME NEW n, DeviceShape(n), NEW x, NEW y, NEW z
    PROVE  [n EXCEPT !.text = x, !.number = y, !.on = z] =
              [text |-> x, number |-> y, on |-> z, address |-> n.address, dns |-> n.dns, peers |-> n.peers]
<1>1. n = [text |-> n.text, number |-> n.number, on |-> n.on, address |-> n.address,
           dns |-> n.dns, peers |-> n.peers]
  BY DEF DeviceShape
<1> DEFINE n1 == [n EXCEPT !.text = x]
           n2 == [n1 EXCEPT !.number = y]
<1>2. n1 = [text |-> x, number |-> n.number, on |-> n.on, address |-> n.address,
            dns |-> n.dns, peers |-> n.peers]
  BY <1>1
<1> HIDE DEF n1
<1>3. n2 = [text |-> x, number |-> y, on |-> n.on, address |-> n.address,
            dns |-> n.dns, peers |-> n.peers]
  BY <1>2
<1> HIDE DEF n2
<1>4. [n2 EXCEPT !.on = z] = [text |-> x, number |-> y, on |-> z, address |-> n.address,
                              dns |-> n.dns, peers |-> n.peers]
  BY <1>3
<1>5. QED
  BY <1>4 DEF n1, n2

\* A device that is loaded from a connection can be encoded, whatever nmcli or
\* an editor made of the connection.
LEMMA LoadedSound ==
    ASSUME NEW c
    PROVE  Sound(awg_device_new_from_nm_connection(c))
<1> DEFINE d == [awg_device_new EXCEPT
                     !.text   = [f \in TextFields |-> load_text(c, f)],
                     !.number = [f \in NumberFields |-> load_number(c, f)],
                     !.on     = load_flags(c)]
<1>1. d = [text |-> [f \in TextFields |-> load_text(c, f)],
           number |-> [f \in NumberFields |-> load_number(c, f)],
           on |-> load_flags(c), address |-> awg_device_new.address,
           dns |-> awg_device_new.dns, peers |-> awg_device_new.peers]
  <2> DEFINE x == [f \in TextFields |-> load_text(c, f)]
             y == [f \in NumberFields |-> load_number(c, f)]
             z == load_flags(c)
  <2>1. DeviceShape(awg_device_new)
    BY NewSound DEF Sound
  <2> HIDE DEF x, y, z
  <2>2. [awg_device_new EXCEPT !.text = x, !.number = y, !.on = z] =
            [text |-> x, number |-> y, on |-> z, address |-> awg_device_new.address,
             dns |-> awg_device_new.dns, peers |-> awg_device_new.peers]
    BY <2>1, NewWith
  <2>3. QED
    BY <2>2 DEF x, y, z
<1>2. DeviceShape(d)
  BY <1>1 DEF DeviceShape
<1>3. /\ \A f \in NumberFields : d.number[f] = load_number(c, f)
      /\ \A f \in TextFields : d.text[f] = load_text(c, f)
      /\ d.on = load_flags(c)
  BY <1>1
<1>4. load_flags(c) \subseteq FlagFields
  BY DEF load_flags
<1>5. awg_device_new_from_nm_connection(c) =
        load_peers(load_ip(load_ip(d, c.ip["v4"]), c.ip["v6"]), c.peers)
  BY DEF awg_device_new_from_nm_connection
<1> HIDE DEF d
<1>6. Sound(d)
  BY <1>2, <1>3, <1>4, LoadedNumber, LoadedText DEF Sound, Encodable
<1>7. ASSUME NEW e, Sound(e), NEW ip PROVE Sound(load_ip(e, ip))
  <2>1. ASSUME NEW t PROVE Sound(load_addresses(e, t))
    <3>1. interface_item(e, "address", t) = awg_device_set_address_from_string(e, t)
      BY ItemCases
    <3>2. Sound(interface_item(e, "address", t).value)
      BY <1>7, ItemSound
    <3>3. QED
      BY <3>1, <3>2 DEF load_addresses
  <2>2. ASSUME NEW g, Sound(g), NEW t PROVE Sound(load_dns(g, t))
    <3>1. interface_item(g, "dns", t) = awg_device_set_dns_from_string(g, t)
      BY ItemCases
    <3>2. Sound(interface_item(g, "dns", t).value)
      BY <2>2, ItemSound
    <3>3. QED
      BY <3>1, <3>2 DEF load_dns
  <2>3. QED
    BY <2>1, <2>2 DEF load_ip
<1>8. ASSUME NEW e, Sound(e), NEW peers PROVE Sound(load_peers(e, peers))
  <2> DEFINE read == [i \in DOMAIN numbered(peers) |-> load_peer(peers[i])]
             x == Pick(read, {i \in DOMAIN read : awg_device_peer_is_valid(read[i])})
  <2>1. load_peers(e, peers) = [e EXCEPT !.peers = x]
    BY DEF load_peers
  <2> HIDE DEF x
  <2>2. Sound([e EXCEPT !.peers = x])
    BY <1>8, OtherSet
  <2>3. QED
    BY <2>1, <2>2
<1>9. QED
  BY <1>6, <1>7, <1>8, <1>5

-----------------------------------------------------------------------------
(* What one line does to the reader.                                       *)

ReaderShape(r) ==
    /\ r = [device |-> r.device, peer |-> r.peer, section |-> r.section,
            success |-> r.success, error |-> r.error]
    /\ r.success \in BOOLEAN

Markers == {Comment, Interface, PeerSection, NoEquals}

\* The error after a rejection: the first one stays.
ErrorOr(r, new) == IF r.error = NoError THEN new ELSE r.error

LEMMA ReadMarker ==
    ASSUME NEW r, ReaderShape(r), NEW line
    PROVE  /\ line.key = Comment => read_line(r, line) = r
           /\ line.key = Interface =>
                read_line(r, line) =
                    [device |-> r.device, peer |-> r.peer, section |-> "interface",
                     success |-> r.success, error |-> r.error]
           /\ line.key = PeerSection =>
                read_line(r, line) =
                    [device |-> flush_peer(r).device, peer |-> <<awg_device_peer_new>>,
                     section |-> "peer", success |-> r.success, error |-> r.error]
           /\ line.key = NoEquals =>
                read_line(r, line) =
                    [device |-> r.device, peer |-> r.peer, section |-> r.section, success |-> FALSE,
                     error |-> ErrorOr(r, [code |-> "line", key |-> ""])]
<1> USE DEF Comment, Interface, PeerSection, NoEquals
<1>1. line.key = Comment => read_line(r, line) = r
  BY DEF read_line
<1>2. line.key = Interface =>
        read_line(r, line) =
            [device |-> r.device, peer |-> r.peer, section |-> "interface",
             success |-> r.success, error |-> r.error]
  BY DEF read_line, section_line, ReaderShape
<1>3. line.key = PeerSection =>
        read_line(r, line) =
            [device |-> flush_peer(r).device, peer |-> <<awg_device_peer_new>>,
             section |-> "peer", success |-> r.success, error |-> r.error]
  BY DEF read_line, section_line, ReaderShape, flush_peer
<1>4. line.key = NoEquals =>
        read_line(r, line) =
            [device |-> r.device, peer |-> r.peer, section |-> r.section, success |-> FALSE,
             error |-> ErrorOr(r, [code |-> "line", key |-> ""])]
  BY DEF read_line, keep_first, ReaderShape, ErrorOr
<1>5. QED
  BY <1>1, <1>2, <1>3, <1>4

\* A line that is none of these, by the section it stands in.
LEMMA ReadItem ==
    ASSUME NEW r, ReaderShape(r), NEW line, line.key \notin Markers
    PROVE  /\ r.section = "interface" =>
                LET s == interface_item(r.device, line.key, line.text) IN
                read_line(r, line) =
                    [device |-> s.value, peer |-> r.peer, section |-> r.section,
                     success |-> r.success /\ s.ok,
                     error |-> IF s.ok THEN r.error
                               ELSE ErrorOr(r, [code |-> "value", key |-> line.key])]
           /\ r.section = "peer" =>
                LET s == peer_item(r.peer[1], line.key, line.text) IN
                read_line(r, line) =
                    [device |-> r.device, peer |-> <<s.value>>, section |-> r.section,
                     success |-> r.success /\ s.ok,
                     error |-> IF s.ok \/ line.key = "advanced_security" THEN r.error
                               ELSE ErrorOr(r, [code |-> "value", key |-> line.key])]
           /\ r.section \notin {"interface", "peer"} => read_line(r, line) = r
<1> USE DEF Comment, Interface, PeerSection, NoEquals, Markers
<1>1. ASSUME r.section = "interface"
      PROVE  LET s == interface_item(r.device, line.key, line.text) IN
             read_line(r, line) =
                 [device |-> s.value, peer |-> r.peer, section |-> r.section,
                  success |-> r.success /\ s.ok,
                  error |-> IF s.ok THEN r.error
                            ELSE ErrorOr(r, [code |-> "value", key |-> line.key])]
  <2> DEFINE s == interface_item(r.device, line.key, line.text)
  <2>1. read_line(r, line) = keep_first([r EXCEPT !.device = s.value], s.ok, "value", line.key)
    BY <1>1 DEF read_line, interface_line
  <2> HIDE DEF s
  <2>2. read_line(r, line) =
            [device |-> s.value, peer |-> r.peer, section |-> r.section,
             success |-> r.success /\ s.ok,
             error |-> IF s.ok THEN r.error
                       ELSE ErrorOr(r, [code |-> "value", key |-> line.key])]
    BY <2>1 DEF keep_first, ReaderShape, ErrorOr
  <2>3. QED
    BY <2>2 DEF s
<1>2. ASSUME r.section = "peer"
      PROVE  LET s == peer_item(r.peer[1], line.key, line.text) IN
             read_line(r, line) =
                 [device |-> r.device, peer |-> <<s.value>>, section |-> r.section,
                  success |-> r.success /\ s.ok,
                  error |-> IF s.ok \/ line.key = "advanced_security" THEN r.error
                            ELSE ErrorOr(r, [code |-> "value", key |-> line.key])]
  <2> DEFINE s == peer_item(r.peer[1], line.key, line.text)
             q == [r EXCEPT !.peer = <<s.value>>]
  <2>1. read_line(r, line) =
            IF line.key = "advanced_security" THEN [q EXCEPT !.success = @ /\ s.ok]
            ELSE keep_first(q, s.ok, "value", line.key)
    BY <1>2 DEF read_line, peer_line
  <2> HIDE DEF s
  <2>2. read_line(r, line) =
            [device |-> r.device, peer |-> <<s.value>>, section |-> r.section,
             success |-> r.success /\ s.ok,
             error |-> IF s.ok \/ line.key = "advanced_security" THEN r.error
                       ELSE ErrorOr(r, [code |-> "value", key |-> line.key])]
    BY <2>1 DEF keep_first, ReaderShape, ErrorOr
  <2>3. QED
    BY <2>2 DEF s
<1>3. r.section \notin {"interface", "peer"} => read_line(r, line) = r
  BY DEF read_line
<1>4. QED
  BY <1>1, <1>2, <1>3

-----------------------------------------------------------------------------
(* Sections.                                                               *)

\* The header a line stands under is the last one before it.
LEMMA HeaderFacts ==
    ASSUME NEW i \in Nat \ {0}
    PROVE  /\ HeaderOf(i) \in 0 .. i - 1
           /\ HeaderOf(i) = 0 <=> Headers(i) = {}
           /\ HeaderOf(i) # 0 => HeaderOf(i) \in Headers(i)
           /\ \A j \in Headers(i) : j <= HeaderOf(i)
<1> DEFINE H == {0} \cup Headers(i)
<1>1. H \subseteq 0 .. i - 1 /\ i - 1 \in Nat /\ H # {} /\ 0 \notin Headers(i)
  BY DEF Headers
<1>2. HeaderOf(i) \in H /\ \A j \in H : j <= HeaderOf(i)
  BY <1>1, MaxFacts DEF HeaderOf
<1>3. QED
  BY <1>1, <1>2

LEMMA HeaderNext ==
    ASSUME NEW i \in Nat \ {0}
    PROVE  HeaderOf(i + 1) = IF file[i].key \in {Interface, PeerSection} THEN i ELSE HeaderOf(i)
<1>1. i + 1 \in Nat \ {0} /\ i + 1 - 1 = i /\ 1 .. i = (1 .. i - 1) \cup {i}
  OBVIOUS
<1>2. CASE file[i].key \in {Interface, PeerSection}
  <2>1. i \in Headers(i + 1) /\ \A j \in Headers(i + 1) : j <= i
    BY <1>1, <1>2 DEF Headers
  <2>2. HeaderOf(i + 1) \in 0 .. i /\ i <= HeaderOf(i + 1)
    BY <1>1, <2>1, HeaderFacts
  <2>3. QED
    BY <1>2, <2>2
<1>3. CASE file[i].key \notin {Interface, PeerSection}
  <2>1. Headers(i + 1) = Headers(i)
    BY <1>1, <1>3 DEF Headers
  <2>2. QED
    BY <1>3, <2>1 DEF HeaderOf
<1>4. QED
  BY <1>2, <1>3

\* The open section is the last one of a peer.
LEMMA OpenFacts ==
    ASSUME at \in Nat
    PROVE  /\ OpenPeer = 0 <=> PeerHeaders = {}
           /\ OpenPeer # 0 => OpenPeer \in PeerHeaders
           /\ \A j \in PeerHeaders : j <= OpenPeer
<1> DEFINE H == {0} \cup PeerHeaders
<1>1. H \subseteq 0 .. at /\ H # {} /\ 0 \notin PeerHeaders
  BY DEF PeerHeaders
<1>2. OpenPeer \in H /\ \A j \in H : j <= OpenPeer
  BY <1>1, MaxFacts DEF OpenPeer
<1>3. QED
  BY <1>1, <1>2

\* A line under the header of a peer is in the open section.
LEMMA UnderPeerIsOpen ==
    ASSUME at \in Nat, Under(at + 1, PeerSection)
    PROVE  OpenPeer = HeaderOf(at + 1) /\ OpenPeer # 0
<1> DEFINE h == HeaderOf(at + 1)
<1>1. h # 0 /\ h \in Headers(at + 1) /\ \A j \in Headers(at + 1) : j <= h
  BY HeaderFacts DEF Under
<1>2. h \in PeerHeaders /\ \A j \in PeerHeaders : j \in Headers(at + 1)
  BY <1>1 DEF Under, Headers, PeerHeaders
<1>3. OpenPeer \in PeerHeaders /\ h <= OpenPeer
  BY <1>2, OpenFacts
<1>4. OpenPeer <= h /\ OpenPeer \in Nat /\ h \in Nat
  BY <1>1, <1>2, <1>3 DEF PeerHeaders
<1>5. QED
  BY <1>1, <1>3, <1>4

-----------------------------------------------------------------------------
(* One more line.                                                          *)

NextLine == at \in Nat /\ at' = at + 1 /\ file' = file

LEMMA HeadersStay ==
    ASSUME NextLine
    PROVE  /\ \A i : HeaderOf(i)' = HeaderOf(i)
           /\ PeerHeaders' = PeerHeaders \cup {i \in {at + 1} : file[i].key = PeerSection}
           /\ PeerHeaders \subseteq 1 .. at
<1>1. \A i : Headers(i)' = Headers(i)
  BY DEF NextLine, Headers
<1>2. \A i : HeaderOf(i)' = HeaderOf(i)
  BY <1>1 DEF HeaderOf
<1>3. 1 .. at + 1 = (1 .. at) \cup {at + 1}
  BY DEF NextLine
<1>4. QED
  BY <1>2, <1>3 DEF NextLine, PeerHeaders

\* A line changes a field of the section it stands in, and nothing else.
LEMMA TextNext ==
    ASSUME NextLine, NEW s \in 1 .. at, NEW key
    PROVE  LastText(s, key)' = IF HeaderOf(at + 1) = s /\ file[at + 1].key = key
                               THEN file[at + 1].text ELSE LastText(s, key)
<1>1. s + 1 .. at + 1 = (s + 1 .. at) \cup {at + 1} /\ at + 1 \in Nat /\ s \in Nat
  BY DEF NextLine
<1>2. CASE HeaderOf(at + 1) = s /\ file[at + 1].key = key
  <2>1. Given(s, key)' = Given(s, key) \cup {at + 1}
    BY <1>1, <1>2, HeadersStay DEF NextLine, Given
  <2>2. Given(s, key)' \subseteq 0 .. at + 1
    BY <1>1, <2>1 DEF Given
  <2>3. Max(Given(s, key)') \in 0 .. at + 1 /\ at + 1 <= Max(Given(s, key)')
    BY <1>1, <2>1, <2>2, MaxFacts
  <2>4. Max(Given(s, key)') = at + 1
    BY <1>1, <2>3
  <2>5. LastText(s, key)' = file[at + 1].text
    BY <2>1, <2>4 DEF NextLine, LastText
  <2>6. QED
    BY <1>2, <2>5
<1>3. CASE ~(HeaderOf(at + 1) = s /\ file[at + 1].key = key)
  <2>1. Given(s, key)' = Given(s, key)
    BY <1>1, <1>3, HeadersStay DEF NextLine, Given
  <2>2. LastText(s, key)' = LastText(s, key)
    BY <2>1 DEF NextLine, LastText
  <2>3. QED
    BY <1>3, <2>2
<1>4. QED
  BY <1>2, <1>3

\* Lists without entries.
LEMMA PickNone ==
    ASSUME NEW s, NEW places, places = {}
    PROVE  Pick(s, places) = <<>>
<1>1. Cardinality(places) = 0
  BY FS_EmptySet
<1>2. Pick(s, places) = [k \in 1 .. 0 |-> s[Nth(places, k)]]
  BY <1>1 DEF Pick
<1>3. QED
  BY <1>2

LEMMA NoEntries == Subnets(Entries(Unset)) = <<>>
<1>1. {i \in DOMAIN Unset : Unset[i] # Blank} = {}
  BY DEF Unset
<1>2. Entries(Unset) = <<>>
  BY <1>1, PickNone DEF Entries
<1>3. QED
  BY <1>2 DEF Subnets

\* A section starts as a new peer.
LEMMA SectionStarts ==
    ASSUME NextLine, NEW s \in Nat, s = at + 1
    PROVE  SectionPeer(s)' = awg_device_peer_new
<1>1. ASSUME NEW key PROVE LastText(s, key)' = Unset
  <2>1. s + 1 .. at + 1 = {}
    BY DEF NextLine
  <2>2. Given(s, key)' = {}
    BY <2>1 DEF NextLine, Given
  <2>3. QED
    BY <2>2 DEF LastText
<1>2. \A key : LastText(s, key)' = Unset
  BY <1>1
<1>3. Unset \in {Unset, <<Off>>} /\ Unset # <<On>>
  BY DEF Unset
<1>4. SectionPeer(s)' =
        [public_key |-> Unset, shared_key |-> Unset, endpoint |-> Unset,
         allowed_ips |-> Subnets(Entries(Unset)), keep_alive |-> 0, advanced_security |-> FALSE]
  BY <1>2, <1>3 DEF SectionPeer
<1>5. QED
  BY <1>4, NoEntries DEF awg_device_peer_new, Unset

LEMMA SectionStays ==
    ASSUME NextLine, NEW s \in 1 .. at,
           ~(HeaderOf(at + 1) = s /\ file[at + 1].key \in PeerKeys)
    PROVE  SectionPeer(s)' = SectionPeer(s)
<1>1. \A key \in PeerKeys : LastText(s, key)' = LastText(s, key)
  BY TextNext
<1>2. /\ LastText(s, "public_key")' = LastText(s, "public_key")
      /\ LastText(s, "shared_key")' = LastText(s, "shared_key")
      /\ LastText(s, "endpoint")' = LastText(s, "endpoint")
      /\ LastText(s, "allowed_ips")' = LastText(s, "allowed_ips")
      /\ LastText(s, "keep_alive")' = LastText(s, "keep_alive")
      /\ LastText(s, "advanced_security")' = LastText(s, "advanced_security")
  BY <1>1 DEF PeerKeys
<1>3. QED
  BY <1>2 DEF SectionPeer

\* The setters of a peer store what the section says, as long as they accept it.
LEMMA SectionGrows ==
    ASSUME NextLine, NEW s \in 1 .. at, HeaderOf(at + 1) = s,
           peer_item(SectionPeer(s), file[at + 1].key, file[at + 1].text).ok
    PROVE  SectionPeer(s)' = peer_item(SectionPeer(s), file[at + 1].key, file[at + 1].text).value
<1> DEFINE key == file[at + 1].key
           t == file[at + 1].text
           v == peer_item(SectionPeer(s), key, t).value
<1>1. \A k : LastText(s, k)' = IF key = k THEN t ELSE LastText(s, k)
  BY TextNext
<1> HIDE DEF t, key
<1>2. CASE key \notin PeerKeys
  <2>1. SectionPeer(s)' = SectionPeer(s)
    BY <1>2, SectionStays DEF key
  <2>2. v = SectionPeer(s)
    BY <1>2 DEF peer_item, PeerKeys, Accept
  <2>3. QED
    BY <2>1, <2>2 DEF key, t
<1>3. CASE key = "public_key"
  <2>1. v = [SectionPeer(s) EXCEPT !.public_key = t]
    BY <1>3 DEF peer_item, awg_device_peer_set_public_key, Accept, Reject, key, t
  <2>2. SectionPeer(s)' = v
    BY <1>1, <1>3, <2>1 DEF SectionPeer
  <2>3. QED
    BY <2>2 DEF key, t
<1>4. CASE key = "shared_key"
  <2>1. v = [SectionPeer(s) EXCEPT !.shared_key = t]
    BY <1>4 DEF peer_item, awg_device_peer_set_shared_key, Accept, Reject, key, t
  <2>2. SectionPeer(s)' = v
    BY <1>1, <1>4, <2>1 DEF SectionPeer
  <2>3. QED
    BY <2>2 DEF key, t
<1>5. CASE key = "endpoint"
  <2>1. v = [SectionPeer(s) EXCEPT !.endpoint = t]
    BY <1>5 DEF peer_item, awg_device_peer_set_endpoint, Accept, Reject, key, t
  <2>2. SectionPeer(s)' = v
    BY <1>1, <1>5, <2>1 DEF SectionPeer
  <2>3. QED
    BY <2>2 DEF key, t
<1>6. CASE key = "allowed_ips"
  <2>1. v = [SectionPeer(s) EXCEPT !.allowed_ips = Subnets(Entries(t))]
    BY <1>6 DEF peer_item, awg_device_peer_set_allowed_ips_from_string, Accept, Reject, key, t
  <2>2. SectionPeer(s)' = v
    BY <1>1, <1>6, <2>1 DEF SectionPeer
  <2>3. QED
    BY <2>2 DEF key, t
<1>7. CASE key = "keep_alive"
  <2> DEFINE n == IF t \in {Unset, <<Off>>} THEN 0 ELSE t[1]
  <2>1. \/ t = <<Off>> /\ v = [SectionPeer(s) EXCEPT !.keep_alive = 0]
        \/ /\ t # <<Off>> /\ IsUnsigned(t, U16Max)
           /\ v = [SectionPeer(s) EXCEPT !.keep_alive = t[1]]
    BY <1>7 DEF peer_item, awg_device_peer_set_keep_alive_interval_from_string, Accept, Reject, key, t
  <2>2. IsUnsigned(t, U16Max) => t # Unset
    BY DEF IsUnsigned, Unset
  <2>3. v = [SectionPeer(s) EXCEPT !.keep_alive = n]
    BY <2>1, <2>2
  <2>4. SectionPeer(s)' = v
    BY <1>1, <1>7, <2>3 DEF SectionPeer
  <2>5. QED
    BY <2>4 DEF key, t
<1>8. CASE key = "advanced_security"
  <2>1. v = [SectionPeer(s) EXCEPT !.advanced_security = t = <<On>>]
    BY <1>8 DEF peer_item, awg_device_peer_set_advanced_security, Accept, Reject, key, t
  <2>2. SectionPeer(s)' = v
    BY <1>1, <1>8, <2>1 DEF SectionPeer
  <2>3. QED
    BY <2>2 DEF key, t
<1>9. QED
  BY <1>2, <1>3, <1>4, <1>5, <1>6, <1>7, <1>8 DEF PeerKeys, key, t

(***************************************************************************)
(* Every device has values that its fields can hold.                       *)
(***************************************************************************)

LEMMA FlushSound ==
    ASSUME NEW r, ReaderShape(r), Sound(r.device)
    PROVE  ReaderShape(flush_peer(r)) /\ Sound(flush_peer(r).device)
<1>1. CASE r.peer = <<>>
  BY <1>1 DEF flush_peer
<1>2. CASE r.peer # <<>>
  <2> DEFINE x == Append(r.device.peers, r.peer[1])
             e == awg_device_add_peer(r.device, r.peer[1])
  <2>1. flush_peer(r) = [device |-> e, peer |-> <<>>, section |-> r.section,
                         success |-> r.success, error |-> r.error]
    BY <1>2 DEF flush_peer, ReaderShape
  <2>2. e = r.device \/ e = [r.device EXCEPT !.peers = x]
    BY DEF awg_device_add_peer
  <2> HIDE DEF x, e
  <2>3. Sound([r.device EXCEPT !.peers = x])
    BY OtherSet
  <2>4. Sound(e)
    BY <2>2, <2>3
  <2>5. QED
    BY <2>1, <2>4 DEF ReaderShape
<1>3. QED
  BY <1>1, <1>2

LEMMA ReadSound ==
    ASSUME NEW r, ReaderShape(r), Sound(r.device), NEW line
    PROVE  ReaderShape(read_line(r, line)) /\ Sound(read_line(r, line).device)
<1> DEFINE v == read_line(r, line)
<1>1. CASE line.key \in Markers
  <2>1. CASE line.key = Comment
    BY <2>1, ReadMarker
  <2>2. CASE line.key = Interface
    <3>1. v = [device |-> r.device, peer |-> r.peer, section |-> "interface",
               success |-> r.success, error |-> r.error]
      BY <2>2, ReadMarker
    <3>2. QED
      BY <3>1 DEF ReaderShape
  <2>3. CASE line.key = PeerSection
    <3>1. v = [device |-> flush_peer(r).device, peer |-> <<awg_device_peer_new>>,
               section |-> "peer", success |-> r.success, error |-> r.error]
      BY <2>3, ReadMarker
    <3>2. Sound(flush_peer(r).device)
      BY FlushSound
    <3>3. QED
      BY <3>1, <3>2 DEF ReaderShape
  <2>4. CASE line.key = NoEquals
    <3>1. v = [device |-> r.device, peer |-> r.peer, section |-> r.section, success |-> FALSE,
               error |-> ErrorOr(r, [code |-> "line", key |-> ""])]
      BY <2>4, ReadMarker
    <3> HIDE DEF v
    <3>2. Sound(v.device) /\ ReaderShape(v)
      BY <3>1 DEF ReaderShape
    <3>3. QED
      BY <3>2 DEF v
  <2>5. QED
    BY <1>1, <2>1, <2>2, <2>3, <2>4 DEF Markers
<1>2. CASE line.key \notin Markers
  <2>1. CASE r.section = "interface"
    <3> DEFINE s == interface_item(r.device, line.key, line.text)
    <3>1. v = [device |-> s.value, peer |-> r.peer, section |-> r.section,
               success |-> r.success /\ s.ok,
               error |-> IF s.ok THEN r.error
                         ELSE ErrorOr(r, [code |-> "value", key |-> line.key])]
      BY <1>2, <2>1, ReadItem
    <3>2. Sound(s.value)
      BY ItemSound
    <3> HIDE DEF v, s
    <3>3. Sound(v.device) /\ ReaderShape(v)
      BY <3>1, <3>2 DEF ReaderShape
    <3>4. QED
      BY <3>3 DEF v
  <2>2. CASE r.section = "peer"
    <3> DEFINE s == peer_item(r.peer[1], line.key, line.text)
    <3>1. v = [device |-> r.device, peer |-> <<s.value>>, section |-> r.section,
               success |-> r.success /\ s.ok,
               error |-> IF s.ok \/ line.key = "advanced_security" THEN r.error
                         ELSE ErrorOr(r, [code |-> "value", key |-> line.key])]
      BY <1>2, <2>2, ReadItem
    <3> HIDE DEF v, s
    <3>2. Sound(v.device) /\ ReaderShape(v)
      BY <3>1 DEF ReaderShape
    <3>3. QED
      BY <3>2 DEF v
  <2>3. CASE r.section \notin {"interface", "peer"}
    BY <1>2, <2>3, ReadItem
  <2>4. QED
    BY <2>1, <2>2, <2>3
<1>3. QED
  BY <1>1, <1>2

\* A device that a file gives is the one of the reader, with its last peer.
LEMMA EndShape ==
    ASSUME NEW r
    PROVE  LET e == flush_peer(r).device IN
           \/ end_of_file(r).device = <<>>
           \/ /\ end_of_file(r).device = <<e>> /\ flush_peer(r).success
              /\ awg_device_is_valid(e)
BY DEF end_of_file

\* A read error changes the error, and nothing else.
LEMMA ReadErrorShape ==
    ASSUME NEW r, ReaderShape(r)
    PROVE  read_error(r) = [device |-> r.device, peer |-> r.peer, section |-> r.section,
                            success |-> r.success,
                            error |-> ErrorOr(r, [code |-> "read", key |-> ""])]
<1> DEFINE x == ErrorOr(r, [code |-> "read", key |-> ""])
<1>1. read_error(r) = [r EXCEPT !.error = x]
  BY DEF read_error, ErrorOr
<1> HIDE DEF x
<1>2. [r EXCEPT !.error = x] = [device |-> r.device, peer |-> r.peer, section |-> r.section,
                                success |-> r.success, error |-> x]
  BY DEF ReaderShape
<1>3. QED
  BY <1>1, <1>2 DEF x

SoundInv ==
    /\ ReaderShape(reader) /\ Sound(reader.device)
    /\ device # <<>> => device = <<device[1]>> /\ Sound(device[1])

LEMMA FinishSound ==
    ASSUME NEW r, ReaderShape(r), Sound(r.device), device' = end_of_file(r).device
    PROVE  (device # <<>> => device = <<device[1]>> /\ Sound(device[1]))'
<1>1. Sound(flush_peer(r).device)
  BY FlushSound
<1>2. CASE device' = <<>>
  BY <1>2
<1>3. CASE device' = <<flush_peer(r).device>>
  BY <1>1, <1>3
<1>4. QED
  BY <1>2, <1>3, EndShape

LEMMA SoundInvariant == Spec => []SoundInv
<1>1. Init => SoundInv
  BY NewSound DEF Init, SoundInv, new_reader, ReaderShape
<1>2. SoundInv /\ [Next]_vars => SoundInv'
  <2> SUFFICES ASSUME SoundInv, [Next]_vars PROVE SoundInv'
    OBVIOUS
  <2>1. CASE ReadLine
    <3>1. ReaderShape(reader)' /\ Sound(reader.device)'
      BY <2>1, ReadSound DEF ReadLine, SoundInv
    <3>2. QED
      BY <2>1, <3>1 DEF ReadLine, SoundInv
  <2>2. CASE EndOfFile
    <3>1. (device # <<>> => device = <<device[1]>> /\ Sound(device[1]))'
      BY <2>2, FinishSound DEF EndOfFile, finish, SoundInv
    <3>2. QED
      BY <2>2, <3>1 DEF EndOfFile, finish, SoundInv
  <2>3. CASE ReadError
    <3> DEFINE r == read_error(reader)
    <3>1. r = [device |-> reader.device, peer |-> reader.peer, section |-> reader.section,
               success |-> reader.success, error |-> ErrorOr(reader, [code |-> "read", key |-> ""])]
      BY ReadErrorShape DEF SoundInv
    <3> HIDE DEF r
    <3>2. ReaderShape(r) /\ r.device = reader.device
      BY <3>1 DEF SoundInv, ReaderShape
    <3>3. device' = end_of_file(r).device
      BY <2>3 DEF ReadError, finish, r
    <3>4. (device # <<>> => device = <<device[1]>> /\ Sound(device[1]))'
      BY <3>2, <3>3, FinishSound DEF SoundInv
    <3>5. QED
      BY <2>3, <3>4 DEF ReadError, finish, SoundInv
  <2>4. CASE Export
    BY <2>4 DEF Export, SoundInv
  <2>5. CASE Import
    BY <2>5, NewSound DEF Import, SoundInv, new_reader, ReaderShape
  <2>6. CASE \E e \in Edits : SetItem(e.key, e.text)
    BY <2>6 DEF SetItem, SoundInv
  <2>7. CASE UNCHANGED vars
    BY <2>7 DEF vars, SoundInv
  <2>8. QED
    BY <2>1, <2>2, <2>3, <2>4, <2>5, <2>6, <2>7 DEF Next
<1>3. QED
  BY <1>1, <1>2, PTL DEF Spec

(***************************************************************************)
(* The peers of a device are the complete sections of the file.            *)
(***************************************************************************)

\* No key of [Interface] touches the peers, and one sets addresses.
LEMMA ItemKeeps ==
    ASSUME NEW d, DeviceShape(d), NEW key, NEW t
    PROVE  /\ interface_item(d, key, t).value.peers = d.peers
           /\ key # "address" => interface_item(d, key, t).value.address = d.address
<1> DEFINE v == interface_item(d, key, t).value
           Kept(e) == e.peers = d.peers /\ e.address = d.address
<1>1. ASSUME NEW x PROVE /\ Kept([d EXCEPT !.text = x])
                         /\ Kept([d EXCEPT !.number = x])
                         /\ Kept([d EXCEPT !.on = x])
                         /\ [d EXCEPT !.address = x].peers = d.peers
                         /\ Kept([d EXCEPT !.dns = x])
  BY DEF DeviceShape
<1>2. \A f, x : /\ Kept([d EXCEPT !.text[f] = x])
                /\ Kept([d EXCEPT !.number[f] = x])
  BY DEF DeviceShape
<1>3. \A f, max : Kept(set_number(d, f, t, max).value)
  BY <1>2 DEF set_number, Accept, Reject
<1>4. \A f : \A valid \in BOOLEAN : Kept(set_text(d, f, t, valid).value)
  BY <1>2 DEF set_text, Accept, Reject
<1>5. CASE key \in {"private_key", "public_key", CommentedKey}
  <2>1. interface_item(d, key, t) \in {awg_device_set_private_key(d, t), awg_device_set_public_key(d, t)}
    BY <1>5, ItemCases
  <2>2. \/ v = d
        \/ v = [d EXCEPT !.text["private_key"] = t]
        \/ v = [d EXCEPT !.text["public_key"] = t]
    BY <2>1 DEF awg_device_set_private_key, awg_device_set_public_key, Accept, Reject
  <2>3. /\ Kept([d EXCEPT !.text["private_key"] = t])
        /\ Kept([d EXCEPT !.text["public_key"] = t])
    BY DEF DeviceShape
  <2> HIDE DEF v
  <2>4. Kept(v)
    BY <2>2, <2>3
  <2>5. QED
    BY <2>4 DEF v
<1>6. CASE key = "address"
  <2> DEFINE x == [f \in Families |-> First(d.address[f] \o AddressesOf(t, f))]
  <2>1. v = [d EXCEPT !.address = x]
    BY <1>6, ItemCases DEF awg_device_set_address_from_string
  <2> HIDE DEF v, x
  <2>2. v.peers = d.peers
    BY <1>1, <2>1
  <2>3. QED
    BY <1>6, <2>2 DEF v
<1>7. CASE key = "dns"
  <2> DEFINE x == [f \in Families |-> OfFamily(t, f)]
  <2>1. v = d \/ v = [d EXCEPT !.dns = x]
    BY <1>7, ItemCases DEF awg_device_set_dns_from_string, Accept, Reject
  <2> HIDE DEF v, x
  <2>2. Kept(v)
    BY <1>1, <2>1
  <2>3. QED
    BY <2>2 DEF v
<1>8. CASE key \in {"listen_port", "fw_mark"} \cup JunkFields \cup PaddingFields
  <2>1. \E max : v = set_number(d, key, t, max).value
    BY <1>8, ItemCases DEF awg_device_set_listen_port_from_string, awg_device_set_fw_mark_from_string,
                awg_device_set_junk_from_string, awg_device_set_padding_from_string
  <2>2. QED
    BY <1>3, <2>1
<1>9. CASE key = "mtu"
  <2>1. interface_item(d, key, t) = awg_device_set_mtu_from_string(d, t)
    BY <1>9, ItemCases
  <2>2. v = d \/ v = [d EXCEPT !.number["mtu"] = t[1]]
    BY <2>1 DEF awg_device_set_mtu_from_string, Accept, Reject
  <2>3. Kept([d EXCEPT !.number["mtu"] = t[1]])
    BY DEF DeviceShape
  <2> HIDE DEF v
  <2>4. Kept(v)
    BY <2>2, <2>3
  <2>5. QED
    BY <2>4 DEF v
<1>10. CASE key \in HeaderFields \cup PacketFields \cup RangeFields \cup {"header_protection_key"}
  <2>1. \E valid \in BOOLEAN : v = set_text(d, key, t, valid).value
    <3>1. /\ awg_validate_magic_header(t) \in BOOLEAN /\ awg_validate_i_packet(t) \in BOOLEAN
          /\ awg_range_parse_u32(t) \in BOOLEAN /\ awg_key_from_base64(t) \in BOOLEAN
      BY DEF awg_validate_magic_header, awg_validate_i_packet, awg_range_parse_u32,
             awg_key_from_base64, IsUnsigned, IsRange
    <3>2. QED
      BY <1>10, <3>1, ItemCases DEF awg_device_set_h, awg_device_set_i, awg_device_set_range,
                   awg_device_set_header_protection_key
  <2>2. QED
    BY <1>4, <2>1
<1>11. CASE key \in FlagFields
  <2>1. \/ v = d
        \/ \E x : v = [d EXCEPT !.on = x]
    BY <1>11, ItemCases DEF awg_device_set_flag, Accept, Reject
  <2>2. CASE v = d
    BY <2>2
  <2>3. CASE \E x : v = [d EXCEPT !.on = x]
    <3>1. PICK x : v = [d EXCEPT !.on = x]
      BY <2>3
    <3>2. Kept([d EXCEPT !.on = x])
      BY <1>1
    <3>3. Kept(v)
      BY <3>1, <3>2
    <3>4. QED
      BY <3>3
  <2>4. QED
    BY <2>1, <2>2, <2>3
<1>12. CASE key \in ScriptFields
  <2>1. v = [d EXCEPT !.text[key] = t]
    BY <1>12, ItemCases DEF awg_device_set_script, Accept, CommentedKey, ScriptFields,
                 JunkFields, PaddingFields, HeaderFields, PacketFields, RangeFields, FlagFields
  <2>2. QED
    BY <1>2, <2>1
<1>13. CASE key \notin InterfaceKeys
  BY <1>13, ItemCases DEF Accept
<1>14. QED
  BY <1>5, <1>6, <1>7, <1>8, <1>9, <1>10, <1>11, <1>12, <1>13
  DEF InterfaceKeys, TextFields, NumberFields, KeyFields

\* The section of the next line.
LEMMA SectionNext ==
    ASSUME NextLine
    PROVE  SectionName' = IF file[at + 1].key = Interface THEN "interface"
                          ELSE IF file[at + 1].key = PeerSection THEN "peer" ELSE SectionName
<1>1. PICK m \in Nat \ {0} : m = at + 1
  BY DEF NextLine
<1>2. at' + 1 = m + 1 /\ m + 1 \in Nat
  BY <1>1 DEF NextLine
<1>3. HeaderOf(m + 1) = IF file[m].key \in {Interface, PeerSection} THEN m ELSE HeaderOf(m)
  BY HeaderNext
<1>4. HeaderOf(m + 1)' = HeaderOf(m + 1)
  BY HeadersStay
<1>5. SectionName' = IF HeaderOf(m + 1) = 0 THEN "none"
                     ELSE IF file[HeaderOf(m + 1)].key = Interface THEN "interface" ELSE "peer"
  BY <1>2, <1>4 DEF SectionName, NextLine
<1>6. QED
  BY <1>1, <1>3, <1>5 DEF SectionName, Interface, PeerSection

\* A new [Peer] is the open section; any other line leaves it open.
LEMMA OpenNext ==
    ASSUME NextLine
    PROVE  OpenPeer' = IF file[at + 1].key = PeerSection THEN at + 1 ELSE OpenPeer
<1>1. CASE file[at + 1].key = PeerSection
  <2>1. at' \in Nat /\ at + 1 \in PeerHeaders' /\ at + 1 # 0
    BY <1>1, HeadersStay DEF NextLine
  <2> DEFINE H == {0} \cup PeerHeaders'
  <2>2. H \subseteq 0 .. at + 1 /\ at + 1 \in H
    BY <1>1, HeadersStay DEF NextLine
  <2>3. Max(H) \in 0 .. at + 1 /\ at + 1 <= Max(H)
    BY <2>1, <2>2, MaxFacts DEF NextLine
  <2>4. OpenPeer' = Max(H)
    BY DEF OpenPeer
  <2>5. QED
    BY <1>1, <2>3, <2>4 DEF NextLine
<1>2. CASE file[at + 1].key # PeerSection
  <2>1. PeerHeaders' = PeerHeaders
    BY <1>2, HeadersStay
  <2>2. QED
    BY <1>2, <2>1 DEF OpenPeer
<1>3. QED
  BY <1>1, <1>2

\* Only the open section changes.
LEMMA ClosedStay ==
    ASSUME NextLine, NEW s \in PeerHeaders,
           s # OpenPeer \/ file[at + 1].key \notin PeerKeys \/ reader.section # "peer",
           reader.section = SectionName
    PROVE  SectionPeer(s)' = SectionPeer(s)
<1>1. s \in 1 .. at /\ file[s].key = PeerSection /\ s # 0
  BY DEF PeerHeaders
<1>2. CASE HeaderOf(at + 1) = s /\ file[at + 1].key \in PeerKeys
  <2>1. Under(at + 1, PeerSection)
    BY <1>1, <1>2 DEF Under
  <2>2. OpenPeer = s
    BY <1>2, <2>1, UnderPeerIsOpen DEF NextLine
  <2>3. SectionName = "peer"
    BY <1>1, <1>2 DEF SectionName, Interface, PeerSection
  <2>4. QED
    BY <1>2, <2>2, <2>3
<1>3. CASE ~(HeaderOf(at + 1) = s /\ file[at + 1].key \in PeerKeys)
  BY <1>1, <1>3, SectionStays
<1>4. QED
  BY <1>2, <1>3

\* The peers of sections that do not change.
LEMMA PeersStay ==
    ASSUME at \in Nat, NEW S, S \subseteq PeerHeaders,
           \A s \in S : SectionPeer(s)' = SectionPeer(s)
    PROVE  PeersOf(S)' = PeersOf(S)
<1>1. S \subseteq 1 .. at
  BY DEF PeerHeaders
<1>2. \A k \in 1 .. Cardinality(S) : Nth(S, k) \in S
  BY <1>1, NthFacts
<1>3. \A k \in 1 .. Cardinality(S) : SectionPeer(Nth(S, k))' = SectionPeer(Nth(S, k))
  BY <1>2
<1>4. QED
  BY <1>3 DEF PeersOf

\* One more section, after all others.
LEMMA PeersAppend ==
    ASSUME at \in Nat, NEW S, S \subseteq PeerHeaders, NEW m \in PeerHeaders, \A s \in S : s < m
    PROVE  PeersOf(S \cup {m}) = Append(PeersOf(S), SectionPeer(m))
<1>1. PICK n \in Nat : m = n + 1
  <2>1. m \in 1 .. at
    BY DEF PeerHeaders
  <2>2. m - 1 \in Nat /\ m = m - 1 + 1
    BY <2>1
  <2>3. QED
    BY <2>2
<1>2. m \in Nat /\ m > n /\ S \subseteq 1 .. n
  BY <1>1 DEF PeerHeaders
<1>3. /\ Cardinality(S) \in Nat
      /\ Cardinality(S \cup {m}) = Cardinality(S) + 1
      /\ \A k \in 1 .. Cardinality(S) : Nth(S \cup {m}, k) = Nth(S, k)
      /\ Nth(S \cup {m}, Cardinality(S) + 1) = m
  BY <1>2, NthLast
<1> DEFINE W == S \cup {m}
           c == Cardinality(S)
           old == [k \in 1 .. c |-> SectionPeer(Nth(S, k))]
           new == [k \in 1 .. c + 1 |-> SectionPeer(Nth(W, k))]
<1>4. PeersOf(W) = new /\ PeersOf(S) = old
  BY <1>3 DEF PeersOf
<1>5. new = [k \in 1 .. c + 1 |-> IF k = c + 1 THEN SectionPeer(m) ELSE old[k]]
  <2>1. ASSUME NEW k \in 1 .. c + 1
        PROVE  SectionPeer(Nth(W, k)) = IF k = c + 1 THEN SectionPeer(m) ELSE old[k]
    <3>1. k = c + 1 \/ k \in 1 .. c
      BY <1>3
    <3>2. k \in 1 .. c => k # c + 1 /\ old[k] = SectionPeer(Nth(S, k))
      BY <1>3
    <3>3. QED
      BY <1>3, <3>1, <3>2
  <2>2. QED
    BY <2>1
<1>6. Len(old) = c /\ Append(old, SectionPeer(m)) =
        [k \in 1 .. c + 1 |-> IF k = c + 1 THEN SectionPeer(m) ELSE old[k]]
  BY <1>3
<1>7. QED
  BY <1>4, <1>5, <1>6

LEMMA NoPeers == PeersOf({}) = <<>>
<1>1. Cardinality({}) = 0
  BY FS_EmptySet
<1>2. QED
  BY <1>1 DEF PeersOf

\* When the open section is closed as well, all that are complete are there.
LEMMA FlushAdds ==
    ASSUME at \in Nat, NEW r, ReaderShape(r), DeviceShape(r.device), Holds(r), r.success
    PROVE  flush_peer(r).device.peers = PeersOf(CompleteSections) /\ flush_peer(r).success
<1> DEFINE C == CompleteSections \ {OpenPeer}
<1>1. CASE OpenPeer = 0
  <2>1. CompleteSections = {} /\ C = CompleteSections
    BY <1>1, OpenFacts DEF CompleteSections
  <2>2. flush_peer(r) = r
    BY <1>1 DEF flush_peer, Holds
  <2>3. QED
    BY <2>1, <2>2 DEF Holds
<1>2. CASE OpenPeer # 0
  <2> DEFINE p == SectionPeer(OpenPeer)
             d == r.device
  <2>1. r.peer = <<p>> /\ r.peer # <<>> /\ r.peer[1] = p /\ d.peers = PeersOf(C)
    BY <1>2 DEF Holds
  <2> HIDE DEF p
  <2>2. flush_peer(r) = [device |-> awg_device_add_peer(d, p), peer |-> <<>>, section |-> r.section,
                         success |-> r.success, error |-> r.error]
    BY <2>1 DEF flush_peer, ReaderShape
  <2>3. flush_peer(r).device = awg_device_add_peer(d, p) /\ flush_peer(r).success
    BY <2>2
  <2>4. CASE awg_device_peer_is_valid(p)
    <3>1. awg_device_add_peer(d, p) = [d EXCEPT !.peers = Append(PeersOf(C), p)]
      BY <2>1, <2>4 DEF awg_device_add_peer
    <3>2. awg_device_add_peer(d, p).peers = Append(PeersOf(C), p)
      BY <3>1 DEF DeviceShape
    <3>3. OpenPeer \in PeerHeaders /\ CompleteSections = C \cup {OpenPeer}
      BY <1>2, <2>4, OpenFacts DEF CompleteSections, p
    <3>4. C \subseteq PeerHeaders /\ \A s \in C : s < OpenPeer
      <4>1. \A s \in C : s \in PeerHeaders /\ s # OpenPeer /\ s <= OpenPeer
        BY OpenFacts DEF CompleteSections
      <4>2. QED
        BY <3>3, <4>1 DEF PeerHeaders
    <3> HIDE DEF C
    <3>5. PeersOf(C \cup {OpenPeer}) = Append(PeersOf(C), SectionPeer(OpenPeer))
      BY <3>3, <3>4, PeersAppend
    <3>6. QED
      BY <2>3, <3>2, <3>3, <3>5 DEF p
  <2>5. CASE ~awg_device_peer_is_valid(p)
    <3>1. awg_device_add_peer(d, p) = d
      BY <2>5 DEF awg_device_add_peer
    <3>2. C = CompleteSections
      BY <2>5 DEF CompleteSections, p
    <3>3. QED
      BY <2>1, <2>3, <3>1, <3>2
  <2>6. QED
    BY <2>4, <2>5
<1>3. QED
  BY <1>1, <1>2

\* The reader after one more line.
LEMMA HoldsNext ==
    ASSUME NextLine, ReaderShape(reader), DeviceShape(reader.device), Holds(reader),
           reader.section = SectionName, reader' = read_line(reader, file[at + 1])
    PROVE  Holds(reader)'
<1> DEFINE line == file[at + 1]
           C == CompleteSections \ {OpenPeer}
<1>1. at \in Nat
  BY DEF NextLine
<1>2. CASE line.key = PeerSection
  <2>1. PICK m \in Nat : m = at + 1
    BY <1>1
  <2>2. OpenPeer' = m /\ m # 0 /\ PeerHeaders' = PeerHeaders \cup {m} /\ m \notin PeerHeaders
    BY <1>1, <1>2, <2>1, OpenNext, HeadersStay
  <2>3. \A s \in PeerHeaders : SectionPeer(s)' = SectionPeer(s)
    BY <1>2, ClosedStay DEF PeerKeys, PeerSection
  <2>4. CompleteSections' \ {m} = CompleteSections
    BY <2>2, <2>3 DEF CompleteSections
  <2>5. PICK S : S = CompleteSections
    OBVIOUS
  <2>6. PeersOf(S)' = PeersOf(S)
    BY <1>1, <2>3, <2>5, PeersStay DEF CompleteSections
  <2>7. reader' = [device |-> flush_peer(reader).device, peer |-> <<awg_device_peer_new>>,
                   section |-> "peer", success |-> reader.success, error |-> reader.error]
    BY <1>2, ReadMarker
  <2>8. SectionPeer(m)' = awg_device_peer_new
    BY <2>1, SectionStarts
  <2>9. reader.success => reader'.device.peers = PeersOf(S)
    BY <1>1, <2>5, <2>7, FlushAdds
  <2>10. (CompleteSections \ {OpenPeer})' = S
    BY <2>2, <2>4, <2>5
  <2>11. PeersOf(CompleteSections \ {OpenPeer})' = PeersOf(S)
    BY <2>6, <2>10
  <2>12. SectionPeer(OpenPeer)' = awg_device_peer_new
    BY <2>2, <2>8
  <2>13. /\ reader'.peer = <<awg_device_peer_new>> /\ reader'.peer # <<>>
         /\ reader'.success = reader.success
    BY <2>7
  <2>14. QED
    BY <2>2, <2>9, <2>11, <2>12, <2>13 DEF Holds
<1>3. CASE line.key # PeerSection
  <2>1. OpenPeer' = OpenPeer /\ PeerHeaders' = PeerHeaders
    BY <1>3, OpenNext, HeadersStay
  <2>2. \A s \in PeerHeaders : s # OpenPeer => SectionPeer(s)' = SectionPeer(s)
    BY ClosedStay
  <2>3. (CompleteSections \ {OpenPeer})' = C
    BY <2>1, <2>2 DEF CompleteSections
  <2>4. PICK S : S = C
    OBVIOUS
  <2>5. PeersOf(S)' = PeersOf(S)
    BY <1>1, <2>2, <2>4, PeersStay DEF CompleteSections
  <2>6. PICK o : o = OpenPeer
    OBVIOUS
  <2>7. o # 0 => o \in PeerHeaders /\ o \in 1 .. at
    BY <1>1, <2>6, OpenFacts DEF PeerHeaders
  <2>8. reader.success /\ o # 0 => reader.peer = <<SectionPeer(o)>>
    BY <2>6 DEF Holds
  <2>9. /\ reader'.peer = <<>> <=> reader.peer = <<>>
        /\ reader'.success =>
            /\ reader.success /\ reader'.device.peers = reader.device.peers
            /\ o # 0 => reader'.peer = <<SectionPeer(o)'>>
    <3>1. ASSUME reader' = reader, line.key \notin PeerKeys \/ reader.section # "peer"
          PROVE  <2>9
      BY <2>8, <2>7, <3>1, ClosedStay
    <3>2. CASE line.key = Comment
      BY <3>1, <3>2, ReadMarker DEF Comment, PeerKeys
    <3>3. CASE line.key = Interface
      <4>1. reader' = [device |-> reader.device, peer |-> reader.peer, section |-> "interface",
                       success |-> reader.success, error |-> reader.error]
        BY <3>3, ReadMarker
      <4>2. o # 0 => SectionPeer(o)' = SectionPeer(o)
        BY <2>7, <3>3, ClosedStay DEF Interface, PeerKeys
      <4>3. /\ reader'.peer = reader.peer /\ reader'.success = reader.success
            /\ reader'.device = reader.device
        BY <4>1
      <4>4. QED
        BY <2>8, <4>2, <4>3
    <3>4. CASE line.key = NoEquals
      <4>1. reader' = [device |-> reader.device, peer |-> reader.peer, section |-> reader.section,
                       success |-> FALSE,
                       error |-> ErrorOr(reader, [code |-> "line", key |-> ""])]
        BY <3>4, ReadMarker
      <4> DEFINE no == FALSE
                 e == ErrorOr(reader, [code |-> "line", key |-> ""])
      <4>2. reader' = [device |-> reader.device, peer |-> reader.peer, section |-> reader.section,
                       success |-> no, error |-> e]
        BY <4>1
      <4> HIDE DEF no, e
      <4>3. reader'.peer = reader.peer /\ reader'.success = no
        BY <4>2
      <4>4. QED
        BY <4>3 DEF no
    <3>5. CASE line.key \notin Markers /\ reader.section = "interface"
      <4> DEFINE s == interface_item(reader.device, line.key, line.text)
      <4>1. reader' = [device |-> s.value, peer |-> reader.peer, section |-> reader.section,
                       success |-> reader.success /\ s.ok,
                       error |-> IF s.ok THEN reader.error
                                 ELSE ErrorOr(reader, [code |-> "value", key |-> line.key])]
        BY <3>5, ReadItem
      <4>2. s.value.peers = reader.device.peers
        BY ItemKeeps
      <4>3. o # 0 => SectionPeer(o)' = SectionPeer(o)
        BY <2>7, <3>5, ClosedStay
      <4> HIDE DEF s
      <4>4. /\ reader'.peer = reader.peer /\ reader'.success = (reader.success /\ s.ok)
            /\ reader'.device = s.value
        BY <4>1
      <4>5. QED
        BY <2>8, <4>2, <4>3, <4>4
    <3>6. CASE line.key \notin Markers /\ reader.section = "peer"
      <4> DEFINE s == peer_item(reader.peer[1], line.key, line.text)
      <4>1. reader' = [device |-> reader.device, peer |-> <<s.value>>, section |-> reader.section,
                       success |-> reader.success /\ s.ok,
                       error |-> IF s.ok \/ line.key = "advanced_security" THEN reader.error
                                 ELSE ErrorOr(reader, [code |-> "value", key |-> line.key])]
        BY <3>6, ReadItem
      <4>2. o # 0 /\ HeaderOf(at + 1) = o
        <5>1. Under(at + 1, PeerSection)
          <6>1. HeaderOf(at + 1) \in Headers(at + 1) /\ HeaderOf(at + 1) # 0
            BY <1>1, <3>6, HeaderFacts DEF SectionName
          <6>2. file[HeaderOf(at + 1)].key \in {Interface, PeerSection}
            BY <6>1 DEF Headers
          <6>3. QED
            BY <3>6, <6>1, <6>2 DEF Under, SectionName
        <5>2. QED
          BY <1>1, <2>6, <5>1, UnderPeerIsOpen
      <4>3. reader.success => reader.peer[1] = SectionPeer(o)
        BY <2>6, <4>2 DEF Holds
      <4>4. reader.success /\ s.ok => s.value = SectionPeer(o)'
        BY <2>7, <4>2, <4>3, SectionGrows
      <4> HIDE DEF s
      <4>5. reader.peer # <<>>
        BY <2>6, <4>2 DEF Holds
      <4>6. /\ reader'.peer = <<s.value>> /\ reader'.peer # <<>>
            /\ reader'.success = (reader.success /\ s.ok)
            /\ reader'.device = reader.device
        BY <4>1
      <4>7. reader'.success => reader'.peer = <<SectionPeer(o)'>>
        BY <4>4, <4>6
      <4>8. QED
        BY <4>5, <4>6, <4>7
    <3>7. CASE line.key \notin Markers /\ reader.section \notin {"interface", "peer"}
      <4>1. reader' = reader
        BY <3>7, ReadItem
      <4>2. QED
        BY <3>1, <3>7, <4>1
    <3>8. QED
      BY <1>3, <3>2, <3>3, <3>4, <3>5, <3>6, <3>7 DEF Markers
  <2>10. QED
    BY <2>1, <2>3, <2>4, <2>5, <2>6, <2>9 DEF Holds
<1>4. QED
  BY <1>2, <1>3

\* At the start of a file nothing is held.
LEMMA HoldsNothing ==
    ASSUME NextLine \/ UNCHANGED file, at' = 0, reader' = new_reader
    PROVE  Holds(reader)' /\ reader'.section = SectionName'
<1>1. PeerHeaders' = {} /\ Headers(1)' = {}
  <2>1. 1 .. 0 = {} /\ 1 .. 1 - 1 = {}
    OBVIOUS
  <2>2. QED
    BY <2>1 DEF PeerHeaders, Headers
<1>2. Max({0}) = 0
  BY MaxFacts
<1>3. OpenPeer' = 0 /\ CompleteSections' = {} /\ HeaderOf(1)' = 0
  BY <1>1, <1>2 DEF OpenPeer, CompleteSections, HeaderOf
<1>4. PeersOf(CompleteSections \ {OpenPeer})' = PeersOf({})'
  BY <1>3
<1>5. PeersOf({})' = <<>>
  <2>1. Cardinality({}) = 0
    BY FS_EmptySet
  <2>2. QED
    BY <2>1 DEF PeersOf
<1>6. at' + 1 = 1
  OBVIOUS
<1>7. SectionName' = "none"
  BY <1>3, <1>6 DEF SectionName
<1>8. QED
  BY <1>3, <1>4, <1>5, <1>7 DEF Holds, new_reader, awg_device_new

\* Without a new line, nothing that the file says changes.
LEMMA SectionsSame ==
    ASSUME UNCHANGED <<file, at>>
    PROVE  /\ PeersOf(CompleteSections)' = PeersOf(CompleteSections)
           /\ SectionName' = SectionName
           /\ Holds(reader) /\ reader' = reader => Holds(reader)'
<1>1. \A s : HeaderOf(s)' = HeaderOf(s)
  BY DEF HeaderOf, Headers
<1>2. \A s, key : LastText(s, key)' = LastText(s, key)
  BY <1>1 DEF LastText, Given
<1>3. \A s : SectionPeer(s)' = SectionPeer(s)
  BY <1>2 DEF SectionPeer
<1>4. \A S : PeersOf(S)' = PeersOf(S)
  BY <1>3 DEF PeersOf
<1>5. CompleteSections' = CompleteSections /\ OpenPeer' = OpenPeer
  BY <1>3 DEF CompleteSections, PeerHeaders, OpenPeer
<1>6. PICK S, o : S = CompleteSections /\ o = OpenPeer
  OBVIOUS
<1>7. /\ PeersOf(CompleteSections)' = PeersOf(S) /\ SectionPeer(OpenPeer)' = SectionPeer(o)
      /\ PeersOf(CompleteSections \ {OpenPeer})' = PeersOf(S \ {o})
  <2>1. CompleteSections' = S /\ OpenPeer' = o
    BY <1>5, <1>6
  <2>2. PeersOf(S)' = PeersOf(S) /\ PeersOf(S \ {o})' = PeersOf(S \ {o}) /\ SectionPeer(o)' = SectionPeer(o)
    BY <1>3, <1>4
  <2>3. QED
    BY <2>1, <2>2
<1>8. SectionName' = SectionName
  BY DEF SectionName, HeaderOf, Headers
<1>9. QED
  BY <1>5, <1>6, <1>7, <1>8 DEF Holds

LEMMA FinishSections ==
    ASSUME at \in Nat, NEW r, ReaderShape(r), Sound(r.device), Holds(r),
           device' = end_of_file(r).device, UNCHANGED <<file, at>>
    PROVE  PeersAreTheirSections'
<1> DEFINE e == flush_peer(r).device
<1>1. CASE device' = <<>>
  BY <1>1 DEF PeersAreTheirSections
<1>2. CASE device' = <<e>> /\ flush_peer(r).success
  <2>1. r.success
    BY <1>2 DEF flush_peer, ReaderShape
  <2>2. e.peers = PeersOf(CompleteSections)
    BY <2>1, FlushAdds DEF Sound
  <2>3. PeersOf(CompleteSections)' = PeersOf(CompleteSections)
    BY SectionsSame
  <2>4. device[1]' = e
    BY <1>2
  <2> HIDE DEF e
  <2>5. QED
    BY <2>2, <2>3, <2>4 DEF PeersAreTheirSections
<1>3. QED
  BY <1>1, <1>2, EndShape

SectionsInv == ReaderInv /\ PeersAreTheirSections

LEMMA SectionsInvariant == Spec => []SectionsInv
<1>1. Init => SectionsInv
  <2> SUFFICES ASSUME Init PROVE SectionsInv
    OBVIOUS
  <2>1. PeerHeaders = {} /\ Headers(1) = {}
    BY DEF Init, PeerHeaders, Headers
  <2>2. Max({0}) = 0
    BY MaxFacts
  <2>3. OpenPeer = 0 /\ CompleteSections = {} /\ HeaderOf(1) = 0
    BY <2>1, <2>2 DEF OpenPeer, CompleteSections, HeaderOf
  <2>4. PeersOf(CompleteSections \ {OpenPeer}) = <<>>
    BY <2>3, NoPeers
  <2>5. QED
    BY <2>3, <2>4 DEF Init, SectionsInv, ReaderInv, PeersAreTheirSections, Holds, SectionName, new_reader,
                      awg_device_new
<1>2. SoundInv /\ SectionsInv /\ [Next]_vars => SectionsInv'
  <2> SUFFICES ASSUME SoundInv, SectionsInv, [Next]_vars PROVE SectionsInv'
    OBVIOUS
  <2>1. CASE ReadLine
    <3>1. NextLine /\ ReaderShape(reader) /\ DeviceShape(reader.device) /\ Holds(reader)
          /\ reader.section = SectionName /\ reader' = read_line(reader, file[at + 1])
      BY <2>1 DEF ReadLine, NextLine, SectionsInv, ReaderInv, SoundInv, Sound
    <3>2. Holds(reader)'
      BY <3>1, HoldsNext
    <3>3. reader'.section = SectionName'
      <4> DEFINE line == file[at + 1]
      <4>1. CASE line.key \in Markers
        <5>1. CASE line.key = Comment
          BY <3>1, <5>1, ReadMarker, SectionNext DEF Comment, Interface, PeerSection
        <5>2. CASE line.key = Interface
          <6>1. reader' = [device |-> reader.device, peer |-> reader.peer, section |-> "interface",
                           success |-> reader.success, error |-> reader.error]
            BY <3>1, <5>2, ReadMarker
          <6>2. QED
            BY <3>1, <5>2, <6>1, SectionNext
        <5>3. CASE line.key = PeerSection
          <6>1. reader' = [device |-> flush_peer(reader).device, peer |-> <<awg_device_peer_new>>,
                           section |-> "peer", success |-> reader.success, error |-> reader.error]
            BY <3>1, <5>3, ReadMarker
          <6>2. QED
            BY <3>1, <5>3, <6>1, SectionNext DEF Interface, PeerSection
        <5>4. CASE line.key = NoEquals
          <6> DEFINE no == FALSE
                     e == ErrorOr(reader, [code |-> "line", key |-> ""])
          <6>1. reader' = [device |-> reader.device, peer |-> reader.peer, section |-> reader.section,
                           success |-> no, error |-> e]
            BY <3>1, <5>4, ReadMarker
          <6> HIDE DEF no, e
          <6>2. reader'.section = reader.section
            BY <6>1
          <6>3. QED
            BY <3>1, <5>4, <6>2, SectionNext DEF Interface, PeerSection, NoEquals
        <5>5. QED
          BY <4>1, <5>1, <5>2, <5>3, <5>4 DEF Markers
      <4>2. CASE line.key \notin Markers
        <5>1. reader'.section = reader.section
          <6>1. CASE reader.section = "interface"
            <7> DEFINE s == interface_item(reader.device, line.key, line.text)
            <7>1. reader' = [device |-> s.value, peer |-> reader.peer, section |-> reader.section,
                             success |-> reader.success /\ s.ok,
                             error |-> IF s.ok THEN reader.error
                                       ELSE ErrorOr(reader, [code |-> "value", key |-> line.key])]
              BY <3>1, <4>2, <6>1, ReadItem
            <7> HIDE DEF s
            <7>2. QED
              BY <7>1
          <6>2. CASE reader.section = "peer"
            <7> DEFINE s == peer_item(reader.peer[1], line.key, line.text)
            <7>1. reader' = [device |-> reader.device, peer |-> <<s.value>>, section |-> reader.section,
                             success |-> reader.success /\ s.ok,
                             error |-> IF s.ok \/ line.key = "advanced_security" THEN reader.error
                                       ELSE ErrorOr(reader, [code |-> "value", key |-> line.key])]
              BY <3>1, <4>2, <6>2, ReadItem
            <7> HIDE DEF s
            <7>2. QED
              BY <7>1
          <6>3. CASE reader.section \notin {"interface", "peer"}
            BY <3>1, <4>2, <6>3, ReadItem
          <6>4. QED
            BY <6>1, <6>2, <6>3
        <5>2. QED
          BY <3>1, <4>2, <5>1, SectionNext DEF Markers
      <4>3. QED
        BY <4>1, <4>2
    <3>4. QED
      BY <2>1, <3>2, <3>3 DEF ReadLine, SectionsInv, ReaderInv, PeersAreTheirSections
  <2>2. CASE EndOfFile
    <3>1. PeersAreTheirSections'
      BY <2>2, FinishSections DEF EndOfFile, finish, SectionsInv, ReaderInv, SoundInv
    <3>2. QED
      BY <2>2, <3>1 DEF EndOfFile, finish, SectionsInv, ReaderInv
  <2>3. CASE ReadError
    <3> DEFINE r == read_error(reader)
    <3>1. r = [device |-> reader.device, peer |-> reader.peer, section |-> reader.section,
               success |-> reader.success, error |-> ErrorOr(reader, [code |-> "read", key |-> ""])]
      BY ReadErrorShape DEF SoundInv
    <3> HIDE DEF r
    <3>2. device' = end_of_file(r).device
      BY <2>3 DEF ReadError, finish, r
    <3>3. ReaderShape(r) /\ r.device = reader.device /\ r.peer = reader.peer /\ r.success = reader.success
      BY <3>1 DEF ReaderShape, SoundInv
    <3>4. Sound(r.device) /\ Holds(r)
      BY <2>3, <3>3 DEF ReadError, Holds, SoundInv, SectionsInv, ReaderInv
    <3>5. PeersAreTheirSections'
      BY <2>3, <3>2, <3>3, <3>4, FinishSections DEF ReadError, finish, SectionsInv, ReaderInv
    <3>6. QED
      BY <2>3, <3>5 DEF ReadError, finish, SectionsInv, ReaderInv
  <2>4. CASE Export
    BY <2>4 DEF Export, SectionsInv, ReaderInv, PeersAreTheirSections
  <2>5. CASE Import
    <3>1. Holds(reader)' /\ reader'.section = SectionName'
      BY <2>5, HoldsNothing DEF Import
    <3>2. QED
      BY <2>5, <3>1 DEF Import, SectionsInv, ReaderInv, PeersAreTheirSections
  <2>6. CASE \E e \in Edits : SetItem(e.key, e.text)
    <3>1. PeersOf(CompleteSections)' = PeersOf(CompleteSections) /\ UNCHANGED <<at, device, pc>>
      BY <2>6, SectionsSame DEF SetItem
    <3>2. pc = "done"
      BY <2>6 DEF SetItem
    <3>3. QED
      BY <3>1, <3>2 DEF SectionsInv, ReaderInv, PeersAreTheirSections
  <2>7. CASE UNCHANGED vars
    <3>1. PeersOf(CompleteSections)' = PeersOf(CompleteSections)
      BY <2>7, SectionsSame DEF vars
    <3>2. QED
      BY <2>7, <3>1, SectionsSame DEF vars, SectionsInv, ReaderInv, PeersAreTheirSections
  <2>8. QED
    BY <2>1, <2>2, <2>3, <2>4, <2>5, <2>6, <2>7 DEF Next
<1>3. QED
  BY <1>1, <1>2, SoundInvariant, PTL DEF Spec

\* The peers of an imported device are the complete [Peer] sections of what was
\* read, in their order, each with exactly its own lines.
THEOREM PeersAreSections == Spec => []PeersAreTheirSections
<1>1. SectionsInv => PeersAreTheirSections
  BY DEF SectionsInv, ReaderInv
<1>2. QED
  BY <1>1, SectionsInvariant, PTL

(***************************************************************************)
(* The profile of an imported file.                                        *)
(***************************************************************************)

\* Until nmcli changes it, the profile is what the import made of the device.
SavedInv ==
    /\ edits \in Nat
    /\ Unedited => connection = <<awg_device_save_to_nm_connection(device[1], no_connection)>>

LEMMA SavedInvariant == Spec => []SavedInv
<1>1. Init => SavedInv
  BY DEF Init, SavedInv, Unedited
<1>2. SavedInv /\ [Next]_vars => SavedInv'
  <2> SUFFICES ASSUME SavedInv, [Next]_vars PROVE SavedInv'
    OBVIOUS
  <2>1. ASSUME NEW r, finish(r) PROVE SavedInv'
    BY <2>1 DEF finish, SavedInv, Unedited
  <2>2. CASE ReadLine
    BY <2>2 DEF ReadLine, SavedInv, Unedited
  <2>3. CASE EndOfFile \/ ReadError
    BY <2>1, <2>3 DEF EndOfFile, ReadError
  <2>4. CASE Export \/ Import
    BY <2>4 DEF Export, Import, SavedInv, Unedited
  <2>5. CASE \E e \in Edits : SetItem(e.key, e.text)
    <3>1. edits' = edits + 1
      BY <2>5 DEF SetItem
    <3>2. QED
      BY <3>1 DEF SavedInv, Unedited
  <2>6. CASE UNCHANGED vars
    BY <2>6 DEF vars, SavedInv, Unedited
  <2>7. QED
    BY <2>2, <2>3, <2>4, <2>5, <2>6 DEF Next
<1>3. QED
  BY <1>1, <1>2, PTL DEF Spec

\* A profile becomes the default route of a family exactly if some peer routes
\* all of it; one half of a split tunnel does not speak for the other family.
THEOREM DefaultRouteIsAllowed == Spec => []DefaultRouteAsAllowed
<1>1. SavedInv /\ SectionsInv => DefaultRouteAsAllowed
  <2> SUFFICES ASSUME SavedInv, SectionsInv, Unedited, NEW f \in Families, device[1].address[f] # <<>>
               PROVE  connection[1].ip[f].never_default <=>
                          \A p \in DOMAIN device[1].peers : \A i \in DOMAIN device[1].peers[p].allowed_ips :
                              device[1].peers[p].allowed_ips[i] \notin
                                  {[family |-> f, host |-> h, prefix |-> 0] :
                                      h \in {device[1].peers[p].allowed_ips[i].host}}
    BY DEF DefaultRouteAsAllowed
  <2> DEFINE d == device[1]
  <2>1. connection[1].ip[f].never_default = ~allowed_ips_have_default(d, f)
    <3>1. connection[1] = awg_device_save_to_nm_connection(d, no_connection)
      BY DEF SavedInv
    <3>2. connection[1].ip[f] = ip_setting(d, f, no_connection.ip[f])
      BY <3>1 DEF awg_device_save_to_nm_connection
    <3>3. QED
      BY <3>2 DEF ip_setting
  <2>2. ASSUME NEW p \in DOMAIN d.peers, NEW i \in DOMAIN d.peers[p].allowed_ips
        PROVE  LET e == d.peers[p].allowed_ips[i] IN
               e = [family |-> e.family, host |-> e.host, prefix |-> e.prefix]
    <3> DEFINE S == CompleteSections
    <3>1. d.peers = PeersOf(S)
      BY DEF SectionsInv, PeersAreTheirSections, Unedited
    <3>2. d.peers[p] = SectionPeer(Nth(S, p))
      BY <2>2, <3>1 DEF PeersOf
    <3> DEFINE t == Entries(LastText(Nth(S, p), "allowed_ips"))
    <3>3. d.peers[p].allowed_ips = Subnets(t)
      BY <3>2 DEF SectionPeer
    <3> HIDE DEF t
    <3>4. d.peers[p].allowed_ips[i] = awg_subnet_new_from_string(t[i])
      BY <2>2, <3>3 DEF Subnets
    <3>5. QED
      BY <3>4 DEF awg_subnet_new_from_string
  <2> HIDE DEF d
  <2>3. allowed_ips_have_default(d, f) <=>
            \E p \in DOMAIN d.peers : \E i \in DOMAIN d.peers[p].allowed_ips :
                d.peers[p].allowed_ips[i] \in
                    {[family |-> f, host |-> h, prefix |-> 0] : h \in {d.peers[p].allowed_ips[i].host}}
    <3>1. ASSUME NEW e, e = [family |-> e.family, host |-> e.host, prefix |-> e.prefix]
          PROVE  e.family = f /\ e.prefix = 0 <=> e \in {[family |-> f, host |-> h, prefix |-> 0] : h \in {e.host}}
      BY <3>1
    <3>2. ASSUME NEW p \in DOMAIN d.peers, NEW i \in DOMAIN d.peers[p].allowed_ips
          PROVE  LET e == d.peers[p].allowed_ips[i] IN
                 e.family = f /\ e.prefix = 0 <=> e \in {[family |-> f, host |-> h, prefix |-> 0] : h \in {e.host}}
      BY <2>2, <3>1, <3>2
    <3>3. QED
      BY <3>2 DEF allowed_ips_have_default
  <2>4. QED
    BY <2>1, <2>3 DEF d
<1>2. QED
  BY <1>1, SavedInvariant, SectionsInvariant, PTL

(***************************************************************************)
(* Sequences, and the files that are written.                              *)
(***************************************************************************)

\* Induction over a set, by its greatest gap-free beginning: the form in which
\* the provers can use it.
LEMMA Induction ==
    ASSUME NEW S, 0 \in S, \A n \in Nat : n \in S => n + 1 \in S
    PROVE  Nat \subseteq S
<1> SUFFICES ASSUME NEW n \in Nat, n \notin S PROVE FALSE
  OBVIOUS
<1> DEFINE V == {k \in 0 .. n : \A j \in 0 .. k : j \in S}
<1>1. V \subseteq 0 .. n /\ 0 \in V
  OBVIOUS
<1> HIDE DEF V
<1>2. PICK m \in V : \A k \in V : k <= m
  BY <1>1, MaxFacts
<1>3. m \in 0 .. n /\ \A j \in 0 .. m : j \in S
  BY <1>2 DEF V
<1>4. m # n /\ m + 1 \in 0 .. n
  BY <1>3
<1>5. 0 .. m + 1 = (0 .. m) \cup {m + 1} /\ m + 1 \in S
  BY <1>3
<1>6. m + 1 \in V
  BY <1>3, <1>4, <1>5 DEF V
<1>7. QED
  BY <1>2, <1>3, <1>6

LEMMA TextCat ==
    ASSUME NEW a, IsText(a), NEW b, IsText(b)
    PROVE  /\ IsText(a \o b) /\ Len(a \o b) = Len(a) + Len(b)
           /\ \A i \in 1 .. Len(a) : (a \o b)[i] = a[i]
           /\ \A i \in 1 .. Len(b) : (a \o b)[Len(a) + i] = b[i]
<1> DEFINE X == {a[i] : i \in 1 .. Len(a)} \cup {b[i] : i \in 1 .. Len(b)}
<1>1. a \in Seq(X) /\ b \in Seq(X)
  <2>1. a \in [1 .. Len(a) -> X] /\ b \in [1 .. Len(b) -> X] /\ Len(a) \in Nat /\ Len(b) \in Nat
    BY DEF IsText
  <2> HIDE DEF X
  <2>2. QED
    BY <2>1
<1> HIDE DEF X
<1>2. a \o b \in Seq(X) /\ Len(a \o b) = Len(a) + Len(b)
  BY <1>1
<1>3. IsText(a \o b)
  <2> DEFINE c == a \o b
  <2>1. c \in Seq(X)
    BY <1>2
  <2> HIDE DEF c
  <2>2. Len(c) \in Nat /\ c = [i \in 1 .. Len(c) |-> c[i]]
    BY <2>1
  <2>3. QED
    BY <2>2 DEF IsText, c
<1>4. /\ \A i \in 1 .. Len(a) : (a \o b)[i] = a[i]
      /\ \A i \in 1 .. Len(b) : (a \o b)[Len(a) + i] = b[i]
  BY <1>1
<1>5. QED
  BY <1>2, <1>3, <1>4

\* The keys whose texts are lists.
ListKeys == {"address", "dns", "allowed_ips"}

\* A sequence of lines whose lists are sequences.
IsLines(s) == IsText(s) /\ \A i \in 1 .. Len(s) : s[i].key \in ListKeys => IsText(s[i].text)

LEMMA LinesCat ==
    ASSUME NEW a, IsLines(a), NEW b, IsLines(b)
    PROVE  IsLines(a \o b)
<1> DEFINE c == a \o b
<1>1. /\ IsText(c) /\ Len(c) = Len(a) + Len(b) /\ Len(a) \in Nat /\ Len(b) \in Nat
      /\ \A i \in 1 .. Len(a) : c[i] = a[i]
      /\ \A i \in 1 .. Len(b) : c[Len(a) + i] = b[i]
  BY TextCat DEF IsLines, IsText
<1> HIDE DEF c
<1>2. ASSUME NEW i \in 1 .. Len(c), c[i].key \in ListKeys PROVE IsText(c[i].text)
  <2>1. CASE i <= Len(a)
    BY <1>1, <1>2, <2>1 DEF IsLines
  <2>2. CASE ~(i <= Len(a))
    <3>1. PICK k \in 1 .. Len(b) : i = Len(a) + k
      <4>1. i - Len(a) \in 1 .. Len(b) /\ i = Len(a) + (i - Len(a))
        BY <1>1, <2>2
      <4>2. QED
        BY <4>1
    <3>2. QED
      BY <1>1, <1>2, <3>1 DEF IsLines
  <2>3. QED
    BY <2>1, <2>2
<1>3. QED
  BY <1>1, <1>2 DEF IsLines, c

LEMMA NamesCat ==
    ASSUME NEW X, NEW a, IsText(a), \A i \in 1 .. Len(a) : a[i] \notin X,
           NEW b, IsText(b), \A i \in 1 .. Len(b) : b[i] \notin X
    PROVE  IsText(a \o b) /\ \A i \in 1 .. Len(a \o b) : (a \o b)[i] \notin X
<1> DEFINE c == a \o b
<1>1. /\ IsText(c) /\ Len(c) = Len(a) + Len(b) /\ Len(a) \in Nat /\ Len(b) \in Nat
      /\ \A i \in 1 .. Len(a) : c[i] = a[i]
      /\ \A i \in 1 .. Len(b) : c[Len(a) + i] = b[i]
  BY TextCat DEF IsText
<1> HIDE DEF c
<1>2. ASSUME NEW i \in 1 .. Len(c) PROVE c[i] \notin X
  <2>1. i \in 1 .. Len(a) \/ (i - Len(a) \in 1 .. Len(b) /\ i = Len(a) + (i - Len(a)))
    BY <1>1
  <2>2. QED
    BY <1>1, <2>1
<1>3. QED
  BY <1>1, <1>2 DEF c

LEMMA EmptyCat ==
    ASSUME NEW a, IsText(a)
    PROVE  <<>> \o a = a /\ a \o <<>> = a
<1>1. IsText(<<>>) /\ Len(<<>>) = 0
  BY DEF IsText
<1>2. ASSUME NEW b, IsText(b), Len(b) = Len(a), \A i \in 1 .. Len(a) : b[i] = a[i] PROVE b = a
  BY <1>2 DEF IsText
<1>3. /\ IsText(<<>> \o a) /\ Len(<<>> \o a) = 0 + Len(a)
      /\ \A i \in 1 .. Len(a) : (<<>> \o a)[0 + i] = a[i]
  BY <1>1, TextCat
<1>4. /\ IsText(a \o <<>>) /\ Len(a \o <<>>) = Len(a) + 0
      /\ \A i \in 1 .. Len(a) : (a \o <<>>)[i] = a[i]
  BY <1>1, TextCat
<1>5. Len(a) \in Nat
  BY DEF IsText
<1>6. <<>> \o a = a
  BY <1>2, <1>3, <1>5
<1>7. a \o <<>> = a
  BY <1>2, <1>4, <1>5
<1>8. QED
  BY <1>6, <1>7

\* A sequence of sequences is flattened from its first to its last.
LEMMA FlatBuilds ==
    ASSUME NEW n \in Nat, NEW ss, ss = [i \in 1 .. n |-> ss[i]], \A i \in 1 .. n : IsText(ss[i])
    PROVE  \E F : /\ F[0] = <<>> /\ F[n] = FlattenSeq(ss)
                  /\ \A i \in 1 .. n : F[i] = F[i - 1] \o ss[i]
<1>1. Len(ss) = n
  OBVIOUS
<1>2. CASE n = 0
  <2> DEFINE F == [i \in {0} |-> <<>>]
  <2>1. F[0] = <<>> /\ F[n] = FlattenSeq(ss)
    BY <1>1, <1>2 DEF FlattenSeq
  <2> HIDE DEF F
  <2>2. QED
    BY <1>2, <2>1
<1>3. CASE n # 0
  <2> DEFINE Is(f, k) == f = [i \in 1 .. k |-> IF i = 1 THEN ss[i] ELSE f[i - 1] \o ss[i]]
             flat == CHOOSE f : Is(f, n)
             S == {k \in Nat : \E f : Is(f, k)}
             F == [i \in 0 .. n |-> IF i = 0 THEN <<>> ELSE flat[i]]
  <2>1. FlattenSeq(ss) = flat[n]
    BY <1>1, <1>3 DEF FlattenSeq
  <2>2. \E f : Is(f, n)
    <3>1. 0 \in S
      <4>1. Is(<<>>, 0)
        OBVIOUS
      <4>2. QED
        BY <4>1
    <3>2. ASSUME NEW k \in Nat, k \in S PROVE k + 1 \in S
      <4>1. PICK f : Is(f, k)
        BY <3>2
      <4> DEFINE g == [i \in 1 .. k + 1 |-> IF i = 1 THEN ss[i] ELSE f[i - 1] \o ss[i]]
      <4>2. \A i \in 1 .. k : f[i] = IF i = 1 THEN ss[i] ELSE f[i - 1] \o ss[i]
        BY <4>1
      <4>3. \A i \in 1 .. k + 1 : g[i] = IF i = 1 THEN ss[i] ELSE f[i - 1] \o ss[i]
        OBVIOUS
      <4>4. g = [i \in 1 .. k + 1 |-> g[i]]
        OBVIOUS
      <4> HIDE DEF g
      <4>5. ASSUME NEW i \in 1 .. k PROVE g[i] = f[i]
        <5>1. i \in 1 .. k + 1
          OBVIOUS
        <5>2. f[i] = IF i = 1 THEN ss[i] ELSE f[i - 1] \o ss[i]
          BY <4>2
        <5>3. g[i] = IF i = 1 THEN ss[i] ELSE f[i - 1] \o ss[i]
          BY <4>3, <5>1
        <5>4. QED
          BY <5>2, <5>3
      <4>6. \A i \in 1 .. k + 1 : i # 1 => i - 1 \in 1 .. k
        OBVIOUS
      <4>7. \A i \in 1 .. k + 1 : g[i] = IF i = 1 THEN ss[i] ELSE g[i - 1] \o ss[i]
        BY <4>5, <4>6, <4>3
      <4>8. Is(g, k + 1)
        BY <4>7, <4>4
      <4> HIDE DEF Is
      <4>9. \E h : Is(h, k + 1)
        BY <4>8
      <4>10. QED
        BY <4>9
    <3> HIDE DEF S
    <3>3. Nat \subseteq S
      BY <3>1, <3>2, Induction
    <3>4. QED
      BY <3>3 DEF S
  <2>3. Is(flat, n)
    BY <2>2
  <2> HIDE DEF flat
  <2>4. \A i \in 1 .. n : flat[i] = IF i = 1 THEN ss[i] ELSE flat[i - 1] \o ss[i]
    BY <2>3
  <2>5. F[0] = <<>> /\ \A i \in 1 .. n : F[i] = flat[i]
    OBVIOUS
  <2> HIDE DEF F
  <2>6. ASSUME NEW i \in 1 .. n PROVE F[i] = F[i - 1] \o ss[i]
    <3>1. CASE i = 1
      <4>1. F[i - 1] = <<>> /\ F[i] = ss[i]
        BY <2>4, <2>5, <3>1
      <4>2. IsText(ss[i])
        OBVIOUS
      <4>3. QED
        BY <4>1, <4>2, EmptyCat
    <3>2. CASE i # 1
      <4>1. i - 1 \in 1 .. n
        BY <3>2
      <4>2. flat[i] = flat[i - 1] \o ss[i]
        BY <2>4, <3>2
      <4>3. QED
        BY <2>5, <4>1, <4>2
    <3>3. QED
      BY <3>1, <3>2
  <2>7. n \in 1 .. n
    BY <1>3
  <2>8. F[n] = FlattenSeq(ss)
    BY <2>1, <2>5, <2>7
  <2>9. QED
    BY <2>5, <2>6, <2>8
<1>4. QED
  BY <1>2, <1>3

LEMMA LinesFlat ==
    ASSUME NEW n \in Nat, NEW ss, ss = [i \in 1 .. n |-> ss[i]], \A i \in 1 .. n : IsLines(ss[i])
    PROVE  IsLines(FlattenSeq(ss))
<1>1. \A i \in 1 .. n : IsText(ss[i])
  BY DEF IsLines
<1>2. PICK F : /\ F[0] = <<>> /\ F[n] = FlattenSeq(ss)
               /\ \A i \in 1 .. n : F[i] = F[i - 1] \o ss[i]
  BY <1>1, FlatBuilds
<1> DEFINE S == {k \in Nat : k <= n => IsLines(F[k])}
<1>3. 0 \in S
  <2>1. IsLines(<<>>)
    BY DEF IsLines, IsText
  <2>2. QED
    BY <1>2, <2>1
<1>4. ASSUME NEW k \in Nat, k \in S PROVE k + 1 \in S
  <2>1. CASE k + 1 <= n
    <3> DEFINE j == k + 1
    <3>1. IsLines(F[k]) /\ j \in 1 .. n /\ j - 1 = k
      BY <1>4, <2>1
    <3> HIDE DEF j
    <3>2. F[j] = F[k] \o ss[j]
      BY <1>2, <3>1
    <3>3. IsLines(F[j])
      BY <3>1, <3>2, LinesCat
    <3>4. QED
      BY <3>3 DEF j
  <2>2. QED
    BY <2>1
<1> HIDE DEF S
<1>5. Nat \subseteq S
  BY <1>3, <1>4, Induction
<1>6. IsLines(F[n])
  BY <1>5 DEF S
<1>7. QED
  BY <1>2, <1>6

(***************************************************************************)
(* What a connection loads as.                                             *)
(***************************************************************************)

\* The address setting read from a list of texts, and the servers.
AddressesAfter(old, t) == [f \in Families |-> First(old[f] \o AddressesOf(t, f))]

ServersAfter(old, t) ==
    IF t # <<>> /\ \A i \in DOMAIN t : t[i] = Blank \/ IsAddress(t[i])
    THEN [f \in Families |-> OfFamily(t, f)] ELSE old

ReadPeers(peers) == [i \in DOMAIN numbered(peers) |-> load_peer(peers[i])]

ValidPeers(read) == Pick(read, {i \in DOMAIN read : awg_device_peer_is_valid(read[i])})

LEMMA IpLoads ==
    ASSUME NEW d, DeviceShape(d), NEW ip
    PROVE  load_ip(d, ip) =
               [text |-> d.text, number |-> d.number, on |-> d.on,
                address |-> AddressesAfter(d.address, ip.addresses),
                dns |-> ServersAfter(d.dns, ip.dns), peers |-> d.peers]
<1> DEFINE x == AddressesAfter(d.address, ip.addresses)
           y == ServersAfter(d.dns, ip.dns)
           e == load_addresses(d, ip.addresses)
<1>1. e = [d EXCEPT !.address = x]
  BY DEF load_addresses, awg_device_set_address_from_string, AddressesAfter
<1> HIDE DEF x, e
<1>2. e = [text |-> d.text, number |-> d.number, on |-> d.on, address |-> x,
           dns |-> d.dns, peers |-> d.peers]
  BY <1>1 DEF DeviceShape
<1>3. load_ip(d, ip) = IF ip.dns # <<>> /\ \A i \in DOMAIN ip.dns : ip.dns[i] = Blank \/ IsAddress(ip.dns[i])
                       THEN [e EXCEPT !.dns = [f \in Families |-> OfFamily(ip.dns, f)]] ELSE e
  BY DEF load_ip, load_dns, awg_device_set_dns_from_string, Accept, Reject, e
<1>4. CASE ip.dns # <<>> /\ \A i \in DOMAIN ip.dns : ip.dns[i] = Blank \/ IsAddress(ip.dns[i])
  <2>1. y = [f \in Families |-> OfFamily(ip.dns, f)]
    BY <1>4 DEF ServersAfter
  <2>2. load_ip(d, ip) = [e EXCEPT !.dns = y]
    BY <1>3, <1>4, <2>1
  <2> HIDE DEF y
  <2>3. load_ip(d, ip) = [text |-> d.text, number |-> d.number, on |-> d.on, address |-> x,
                          dns |-> y, peers |-> d.peers]
    BY <1>2, <2>2
  <2>4. QED
    BY <2>3 DEF x, y
<1>5. CASE ~(ip.dns # <<>> /\ \A i \in DOMAIN ip.dns : ip.dns[i] = Blank \/ IsAddress(ip.dns[i]))
  <2>1. y = d.dns
    BY <1>5 DEF ServersAfter
  <2>2. load_ip(d, ip) = e
    BY <1>3, <1>5
  <2> HIDE DEF y
  <2>3. QED
    BY <1>2, <2>1, <2>2 DEF x, y
<1>6. QED
  BY <1>4, <1>5

LEMMA LoadedIs ==
    ASSUME NEW c
    PROVE  awg_device_new_from_nm_connection(c) =
               [text    |-> [f \in TextFields |-> load_text(c, f)],
                number  |-> [f \in NumberFields |-> load_number(c, f)],
                on      |-> load_flags(c),
                address |-> AddressesAfter(AddressesAfter(awg_device_new.address, c.ip["v4"].addresses),
                                           c.ip["v6"].addresses),
                dns     |-> ServersAfter(ServersAfter(awg_device_new.dns, c.ip["v4"].dns), c.ip["v6"].dns),
                peers   |-> ValidPeers(ReadPeers(c.peers))]
<1> DEFINE x == [f \in TextFields |-> load_text(c, f)]
           y == [f \in NumberFields |-> load_number(c, f)]
           z == load_flags(c)
           d == [awg_device_new EXCEPT !.text = x, !.number = y, !.on = z]
           e == load_ip(d, c.ip["v4"])
           g == load_ip(e, c.ip["v6"])
           p == ValidPeers(ReadPeers(c.peers))
<1>1. awg_device_new_from_nm_connection(c) = [g EXCEPT !.peers = p]
  BY DEF awg_device_new_from_nm_connection, load_peers, ValidPeers, ReadPeers
<1>2. d = [text |-> x, number |-> y, on |-> z, address |-> awg_device_new.address,
           dns |-> awg_device_new.dns, peers |-> awg_device_new.peers]
  <2> HIDE DEF x, y, z
  <2>1. DeviceShape(awg_device_new)
    BY NewSound DEF Sound
  <2>2. QED
    BY <2>1, NewWith
<1>3. DeviceShape(d)
  BY <1>2 DEF DeviceShape
<1> HIDE DEF d, x, y, z, p
<1>4. e = [text |-> x, number |-> y, on |-> z,
           address |-> AddressesAfter(awg_device_new.address, c.ip["v4"].addresses),
           dns |-> ServersAfter(awg_device_new.dns, c.ip["v4"].dns), peers |-> awg_device_new.peers]
  BY <1>2, <1>3, IpLoads
<1>5. DeviceShape(e)
  BY <1>4 DEF DeviceShape, x, y
<1> HIDE DEF e
<1>6. g = [text |-> x, number |-> y, on |-> z,
           address |-> AddressesAfter(e.address, c.ip["v6"].addresses),
           dns |-> ServersAfter(e.dns, c.ip["v6"].dns), peers |-> awg_device_new.peers]
  BY <1>4, <1>5, IpLoads
<1> HIDE DEF g
<1>7. [g EXCEPT !.peers = p] =
          [text |-> x, number |-> y, on |-> z,
           address |-> AddressesAfter(e.address, c.ip["v6"].addresses),
           dns |-> ServersAfter(e.dns, c.ip["v6"].dns), peers |-> p]
  BY <1>6
<1>8. /\ e.address = AddressesAfter(awg_device_new.address, c.ip["v4"].addresses)
      /\ e.dns = ServersAfter(awg_device_new.dns, c.ip["v4"].dns)
  BY <1>4
<1>9. QED
  BY <1>1, <1>7, <1>8 DEF x, y, z, p

\* The peers that are loaded are a finite list.
LEMMA MinFacts ==
    ASSUME NEW n \in Nat, NEW V, V \subseteq 0 .. n, V # {}
    PROVE  Min(V) \in V /\ \A k \in V : Min(V) <= k
<1> DEFINE W == {n - k : k \in V}
<1>1. W \subseteq 0 .. n /\ W # {}
  <2>1. \A k \in V : n - k \in 0 .. n
    OBVIOUS
  <2>2. PICK k : k \in V
    OBVIOUS
  <2>3. n - k \in W
    BY <2>2
  <2>4. QED
    BY <2>1, <2>3
<1> HIDE DEF W
<1>2. Max(W) \in W /\ \A k \in W : k <= Max(W)
  BY <1>1, MaxFacts
<1>3. PICK m \in V : Max(W) = n - m
  BY <1>2 DEF W
<1>4. \A k \in V : m <= k
  <2> SUFFICES ASSUME NEW k \in V PROVE m <= k
    OBVIOUS
  <2>1. n - k \in W
    BY DEF W
  <2>2. n - k <= n - m /\ k \in Nat /\ m \in Nat
    BY <1>2, <1>3, <2>1
  <2>3. QED
    BY <2>2
<1>5. \E x \in V : \A k \in V : x <= k
  BY <1>4
<1>6. QED
  BY <1>5 DEF Min

\* What is picked from a sequence.
LEMMA PickIs ==
    ASSUME NEW n \in Nat, NEW s, NEW places, places \subseteq 1 .. n
    PROVE  /\ Cardinality(places) \in Nat
           /\ IsText(Pick(s, places)) /\ Len(Pick(s, places)) = Cardinality(places)
           /\ \A k \in 1 .. Cardinality(places) :
                  Pick(s, places)[k] = s[Nth(places, k)] /\ Nth(places, k) \in places
<1>1. places \in SUBSET (1 .. n) /\ IsFiniteSet(1 .. n)
  BY IntervalSize
<1>2. Cardinality(places) \in Nat
  BY <1>1, FS_Subset, FS_CardinalityType
<1> DEFINE p == Pick(s, places)
           c == Cardinality(places)
<1>3. p = [k \in 1 .. c |-> s[Nth(places, k)]]
  BY DEF Pick
<1> HIDE DEF p, c
<1>4. Len(p) = c /\ p = [k \in 1 .. Len(p) |-> p[k]]
  BY <1>2, <1>3 DEF c
<1>5. QED
  BY <1>2, <1>3, <1>4, NthFacts DEF IsText, c, p

\* The first peers of a list are loaded.
LEMMA NumberedIs ==
    ASSUME NEW peers, Len(peers) \in Nat
    PROVE  \E n \in 0 .. Len(peers) : DOMAIN numbered(peers) = 1 .. n
<1> DEFINE missing == {i \in 1 .. Len(peers) : peers[i].public_key = Unset}
           tried   == Min({Len(peers), MaxPeers})
           all     == {tried} \cup {j - 1 : j \in missing}
<1>1. tried \in {Len(peers), MaxPeers} /\ tried <= Len(peers)
  <2>1. \E n \in Nat : {Len(peers), MaxPeers} \subseteq 0 .. n
    <3>1. Len(peers) + MaxPeers \in Nat /\ {Len(peers), MaxPeers} \subseteq 0 .. Len(peers) + MaxPeers
      BY ProfileCodecAssumption
    <3>2. QED
      BY <3>1
  <2>2. QED
    BY <2>1, MinFacts
<1>2. all \subseteq 0 .. Len(peers) /\ all # {}
  BY <1>1, ProfileCodecAssumption
<1>3. DOMAIN numbered(peers) = 1 .. Min(all)
  BY DEF numbered
<1> HIDE DEF all
<1>4. Min(all) \in 0 .. Len(peers)
  BY <1>2, MinFacts
<1>5. QED
  BY <1>3, <1>4

(***************************************************************************)
(* Fields that load as they are.                                           *)
(***************************************************************************)

SubnetList(s) ==
    IsText(s) /\ \A i \in 1 .. Len(s) : awg_subnet_is_valid(s[i]) /\ awg_subnet_new_from_string(s[i]) = s[i]

AddressList(s, f) == SubnetList(s) /\ Len(s) <= 1 /\ \A i \in 1 .. Len(s) : s[i].family = f

ServerList(s, f) == IsText(s) /\ \A i \in 1 .. Len(s) : IsAddress(s[i]) /\ s[i].family = f

\* The setter of the field accepts the text, or nobody sets it.
TextTaken(f, t) ==
    t # Unset =>
        /\ f \in KeyFields => awg_key_from_base64(t)
        /\ f \in HeaderFields => awg_validate_magic_header(t)
        /\ f \in PacketFields => awg_validate_i_packet(t)
        /\ f \in RangeFields => awg_range_parse_u32(t)

PeerTaken(p) ==
    /\ p = [public_key |-> p.public_key, shared_key |-> p.shared_key, endpoint |-> p.endpoint,
            allowed_ips |-> p.allowed_ips, keep_alive |-> p.keep_alive,
            advanced_security |-> p.advanced_security]
    /\ p.public_key = Unset \/ awg_key_from_base64(p.public_key)
    /\ p.shared_key = Unset \/ awg_key_from_base64(p.shared_key)
    /\ p.endpoint = Unset \/ awg_is_valid_endpoint(p.endpoint)
    /\ SubnetList(p.allowed_ips)
    /\ p.keep_alive \in 0 .. U16Max
    /\ p.advanced_security \in BOOLEAN

AddressesTaken(a) == a = [f \in Families |-> a[f]] /\ \A f \in Families : AddressList(a[f], f)
ServersTaken(s) == \A f \in Families : ServerList(s[f], f)
PeersTaken(peers) ==
    IsText(peers) /\ \A i \in 1 .. Len(peers) : PeerTaken(peers[i]) /\ awg_device_peer_is_valid(peers[i])

Taken(d) ==
    /\ \A f \in TextFields : TextTaken(f, d.text[f])
    /\ d.number["mtu"] = 0 \/ d.number["mtu"] >= 68
    /\ AddressesTaken(d.address) /\ ServersTaken(d.dns) /\ PeersTaken(d.peers)

LEMMA SubnetIs ==
    ASSUME NEW e, awg_subnet_is_valid(e)
    PROVE  LET n == awg_subnet_new_from_string(e) IN
           awg_subnet_is_valid(n) /\ awg_subnet_new_from_string(n) = n /\ n.family = e.family
<1> DEFINE n == awg_subnet_new_from_string(e)
           p == IF e.prefix = NoPrefix THEN Bits[e.family] ELSE e.prefix
<1>1. e.family \in {"v4", "v6"} /\ e.prefix \in {NoPrefix} \cup 0 .. Bits[e.family]
  BY DEF awg_subnet_is_valid, Families
<1>2. Bits[e.family] \in {32, 128}
  BY <1>1 DEF Bits
<1>3. p \in 0 .. Bits[e.family] /\ p # NoPrefix
  BY <1>1, <1>2 DEF NoPrefix
<1>4. n = [family |-> e.family, host |-> e.host, prefix |-> p]
  BY DEF awg_subnet_new_from_string
<1> HIDE DEF n, p
<1>5. n.family = e.family /\ n.prefix = p /\ n.host = e.host
  BY <1>4
<1>6. awg_subnet_is_valid(n)
  BY <1>1, <1>3, <1>5 DEF awg_subnet_is_valid, Families
<1>7. awg_subnet_new_from_string(n) = [family |-> e.family, host |-> e.host, prefix |-> p]
  BY <1>3, <1>5 DEF awg_subnet_new_from_string
<1>8. QED
  BY <1>4, <1>5, <1>6, <1>7 DEF n

LEMMA SubnetsAre ==
    ASSUME NEW t, IsText(t), NEW P, P \subseteq 1 .. Len(t), \A i \in P : awg_subnet_is_valid(t[i])
    PROVE  LET s == Subnets(Pick(t, P)) IN
           /\ SubnetList(s) /\ Len(s) = Cardinality(P)
           /\ \A i \in 1 .. Len(s) : \E j \in P : s[i].family = t[j].family
<1> DEFINE q == Pick(t, P)
           s == Subnets(q)
           c == Cardinality(P)
           n == Len(t)
<1>1. n \in Nat /\ P \subseteq 1 .. n
  BY DEF IsText
<1> HIDE DEF n
<1>2. c \in Nat /\ IsText(q) /\ Len(q) = c
  BY <1>1, PickIs
<1>3. ASSUME NEW k \in 1 .. c PROVE q[k] = t[Nth(P, k)] /\ Nth(P, k) \in P
  BY <1>1, NthFacts DEF Pick
<1> HIDE DEF q, c
<1>4. DOMAIN q = 1 .. c
  BY <1>2 DEF IsText
<1>5. s = [i \in 1 .. c |-> awg_subnet_new_from_string(q[i])]
  BY <1>4 DEF Subnets
<1>6. Len(s) = c /\ s = [i \in 1 .. c |-> s[i]] /\ \A i \in 1 .. c : s[i] = awg_subnet_new_from_string(q[i])
  BY <1>2, <1>5
<1> HIDE DEF s
<1>7. IsText(s)
  BY <1>2, <1>6 DEF IsText
<1>8. ASSUME NEW i \in 1 .. c
      PROVE  /\ awg_subnet_is_valid(s[i]) /\ awg_subnet_new_from_string(s[i]) = s[i]
             /\ \E j \in P : s[i].family = t[j].family
  <2>1. awg_subnet_is_valid(q[i]) /\ q[i] = t[Nth(P, i)] /\ Nth(P, i) \in P
    BY <1>3
  <2>2. awg_subnet_is_valid(s[i]) /\ awg_subnet_new_from_string(s[i]) = s[i] /\ s[i].family = q[i].family
    BY <1>6, <2>1, SubnetIs
  <2>3. QED
    BY <2>1, <2>2
<1>9. QED
  BY <1>6, <1>7, <1>8 DEF SubnetList, s, q, c

LEMMA AddressesAre ==
    ASSUME NEW t, IsText(t), NEW f
    PROVE  SubnetList(AddressesOf(t, f)) /\ \A i \in 1 .. Len(AddressesOf(t, f)) : AddressesOf(t, f)[i].family = f
<1> DEFINE P == {i \in DOMAIN t : awg_subnet_is_valid(t[i]) /\ t[i].family = f}
<1>1. AddressesOf(t, f) = Subnets(Pick(t, P))
  BY DEF AddressesOf
<1>2. P \subseteq 1 .. Len(t) /\ \A i \in P : awg_subnet_is_valid(t[i]) /\ t[i].family = f
  BY DEF IsText
<1> HIDE DEF P
<1>3. LET s == Subnets(Pick(t, P)) IN SubnetList(s) /\ \A i \in 1 .. Len(s) : \E j \in P : s[i].family = t[j].family
  BY <1>2, SubnetsAre
<1>4. QED
  BY <1>1, <1>2, <1>3

LEMMA EntriesAre ==
    ASSUME NEW t, IsText(t), \A i \in DOMAIN t : t[i] = Blank \/ awg_subnet_is_valid(t[i])
    PROVE  SubnetList(Subnets(Entries(t)))
<1> DEFINE P == {i \in DOMAIN t : t[i] # Blank}
<1>1. Entries(t) = Pick(t, P)
  BY DEF Entries
<1>2. P \subseteq 1 .. Len(t) /\ \A i \in P : awg_subnet_is_valid(t[i])
  BY DEF IsText
<1> HIDE DEF P
<1>3. SubnetList(Subnets(Pick(t, P)))
  BY <1>2, SubnetsAre
<1>4. QED
  BY <1>1, <1>3

LEMMA ServersAre ==
    ASSUME NEW t, IsText(t), \A i \in DOMAIN t : t[i] = Blank \/ IsAddress(t[i]), NEW f \in Families
    PROVE  ServerList(OfFamily(t, f), f)
<1> DEFINE P == {i \in DOMAIN t : t[i].family = f}
           s == Pick(t, P)
           n == Len(t)
<1>1. n \in Nat /\ P \subseteq 1 .. n
  BY DEF IsText
<1>2. \A i \in P : IsAddress(t[i]) /\ t[i].family = f
  <2>1. Blank.family = "blank" /\ f # "blank"
    BY DEF Blank, Families
  <2>2. QED
    BY <2>1
<1>3. OfFamily(t, f) = s
  BY DEF OfFamily
<1> HIDE DEF P, n
<1>4. IsText(s) /\ Len(s) = Cardinality(P)
  BY <1>1, PickIs
<1>5. ASSUME NEW k \in 1 .. Cardinality(P) PROVE s[k] = t[Nth(P, k)] /\ Nth(P, k) \in P
  BY <1>1, NthFacts DEF Pick
<1> HIDE DEF s
<1>6. QED
  BY <1>2, <1>3, <1>4, <1>5 DEF ServerList

LEMMA FirstIs ==
    ASSUME NEW f, NEW a, SubnetList(a), \A i \in 1 .. Len(a) : a[i].family = f
    PROVE  AddressList(First(a), f)
<1>1. CASE a = <<>>
  <2>1. First(a) = <<>> /\ Len(<<>>) = 0 /\ IsText(<<>>)
    BY <1>1 DEF First, IsText
  <2>2. QED
    BY <2>1 DEF AddressList, SubnetList
<1>2. CASE a # <<>>
  <2>1. 1 \in 1 .. Len(a)
    BY <1>2 DEF SubnetList, IsText
  <2> DEFINE x == a[1]
  <2>2. awg_subnet_is_valid(x) /\ awg_subnet_new_from_string(x) = x /\ x.family = f
    BY <2>1 DEF SubnetList
  <2>3. First(a) = <<x>>
    BY <1>2 DEF First
  <2> HIDE DEF x
  <2>4. IsText(<<x>>) /\ Len(<<x>>) = 1 /\ <<x>>[1] = x
    BY DEF IsText
  <2>5. QED
    BY <2>2, <2>3, <2>4 DEF AddressList, SubnetList
<1>3. QED
  BY <1>1, <1>2

LEMMA FirstOfBoth ==
    ASSUME NEW f, NEW a, AddressList(a, f), NEW t, IsText(t)
    PROVE  AddressList(First(a \o AddressesOf(t, f)), f)
<1> DEFINE b == AddressesOf(t, f)
           c == a \o b
           Good(e) == awg_subnet_is_valid(e) /\ awg_subnet_new_from_string(e) = e /\ e.family = f
<1>1. IsText(a) /\ IsText(b) /\ (\A i \in 1 .. Len(a) : Good(a[i])) /\ (\A i \in 1 .. Len(b) : Good(b[i]))
  BY AddressesAre DEF AddressList, SubnetList
<1> HIDE DEF b, Good
<1>2. /\ IsText(c) /\ Len(c) = Len(a) + Len(b)
      /\ \A i \in 1 .. Len(a) : c[i] = a[i]
      /\ \A i \in 1 .. Len(b) : c[Len(a) + i] = b[i]
  BY <1>1, TextCat
<1> HIDE DEF c
<1>3. ASSUME NEW i \in 1 .. Len(c) PROVE Good(c[i])
  <2>1. i \in 1 .. Len(a) \/ (i - Len(a) \in 1 .. Len(b) /\ i = Len(a) + (i - Len(a)))
    BY <1>1, <1>2 DEF IsText
  <2>2. QED
    BY <1>1, <1>2, <2>1
<1>4. SubnetList(c) /\ \A i \in 1 .. Len(c) : c[i].family = f
  BY <1>2, <1>3 DEF SubnetList, Good
<1>5. QED
  BY <1>4, FirstIs DEF c, b

\* One field replaced.
LEMMA TakenWith ==
    ASSUME NEW d, DeviceShape(d), Taken(d), NEW x
    PROVE  /\ \A f \in TextFields : TextTaken(f, x) => Taken([d EXCEPT !.text[f] = x])
           /\ \A f \in NumberFields : (f = "mtu" => x = 0 \/ x >= 68) => Taken([d EXCEPT !.number[f] = x])
           /\ Taken([d EXCEPT !.on = x])
           /\ AddressesTaken(x) => Taken([d EXCEPT !.address = x])
           /\ ServersTaken(x) => Taken([d EXCEPT !.dns = x])
           /\ PeersTaken(x) => Taken([d EXCEPT !.peers = x])
<1>1. ASSUME NEW f \in TextFields, TextTaken(f, x) PROVE Taken([d EXCEPT !.text[f] = x])
  <2> DEFINE v == [d EXCEPT !.text[f] = x]
  <2>1. /\ v.number = d.number /\ v.address = d.address /\ v.dns = d.dns /\ v.peers = d.peers
        /\ \A g \in TextFields : v.text[g] = IF g = f THEN x ELSE d.text[g]
    BY DEF DeviceShape
  <2> HIDE DEF v
  <2>2. Taken(v)
    BY <1>1, <2>1 DEF Taken
  <2>3. QED
    BY <2>2 DEF v
<1>2. ASSUME NEW f \in NumberFields, f = "mtu" => x = 0 \/ x >= 68 PROVE Taken([d EXCEPT !.number[f] = x])
  <2> DEFINE v == [d EXCEPT !.number[f] = x]
  <2>1. /\ v.text = d.text /\ v.address = d.address /\ v.dns = d.dns /\ v.peers = d.peers
        /\ v.number["mtu"] = IF f = "mtu" THEN x ELSE d.number["mtu"]
    BY DEF DeviceShape, NumberFields
  <2> HIDE DEF v
  <2>2. Taken(v)
    BY <1>2, <2>1 DEF Taken
  <2>3. QED
    BY <2>2 DEF v
<1>3. Taken([d EXCEPT !.on = x])
  <2> DEFINE v == [d EXCEPT !.on = x]
  <2>1. v.text = d.text /\ v.number = d.number /\ v.address = d.address /\ v.dns = d.dns /\ v.peers = d.peers
    BY DEF DeviceShape
  <2> HIDE DEF v
  <2>2. Taken(v)
    BY <2>1 DEF Taken
  <2>3. QED
    BY <2>2 DEF v
<1>4. ASSUME AddressesTaken(x) PROVE Taken([d EXCEPT !.address = x])
  <2> DEFINE v == [d EXCEPT !.address = x]
  <2>1. v.text = d.text /\ v.number = d.number /\ v.address = x /\ v.dns = d.dns /\ v.peers = d.peers
    BY DEF DeviceShape
  <2> HIDE DEF v
  <2>2. Taken(v)
    BY <1>4, <2>1 DEF Taken
  <2>3. QED
    BY <2>2 DEF v
<1>5. ASSUME ServersTaken(x) PROVE Taken([d EXCEPT !.dns = x])
  <2> DEFINE v == [d EXCEPT !.dns = x]
  <2>1. v.text = d.text /\ v.number = d.number /\ v.address = d.address /\ v.dns = x /\ v.peers = d.peers
    BY DEF DeviceShape
  <2> HIDE DEF v
  <2>2. Taken(v)
    BY <1>5, <2>1 DEF Taken
  <2>3. QED
    BY <2>2 DEF v
<1>6. ASSUME PeersTaken(x) PROVE Taken([d EXCEPT !.peers = x])
  <2> DEFINE v == [d EXCEPT !.peers = x]
  <2>1. v.text = d.text /\ v.number = d.number /\ v.address = d.address /\ v.dns = d.dns /\ v.peers = x
    BY DEF DeviceShape
  <2> HIDE DEF v
  <2>2. Taken(v)
    BY <1>6, <2>1 DEF Taken
  <2>3. QED
    BY <2>2 DEF v
<1>7. QED
  BY <1>1, <1>2, <1>3, <1>4, <1>5, <1>6

\* Whatever a line of [Interface] says, the device keeps to what its setters
\* accept.
LEMMA ItemTaken ==
    ASSUME NEW d, DeviceShape(d), Taken(d), NEW key, NEW t, key \in {"address", "dns"} => IsText(t)
    PROVE  Taken(interface_item(d, key, t).value)
<1> DEFINE v == interface_item(d, key, t).value
<1>1. CASE key \in {"private_key", "public_key", CommentedKey}
  <2>1. \A f \in {"private_key", "public_key"} :
          /\ f \in TextFields
          /\ awg_key_from_base64(t) => TextTaken(f, t)
    BY DEF TextFields, TextTaken, KeyFields, HeaderFields, PacketFields, RangeFields
  <2>2. \A f \in {"private_key", "public_key"} :
          awg_key_from_base64(t) => Taken([d EXCEPT !.text[f] = t])
    BY <2>1, TakenWith
  <2>3. \/ v = d
        \/ awg_key_from_base64(t) /\ v = [d EXCEPT !.text["private_key"] = t]
        \/ awg_key_from_base64(t) /\ v = [d EXCEPT !.text["public_key"] = t]
    BY <1>1, ItemCases DEF awg_device_set_private_key, awg_device_set_public_key, Accept, Reject
  <2> HIDE DEF v
  <2>4. Taken(v)
    BY <2>2, <2>3
  <2>5. QED
    BY <2>4 DEF v
<1>2. CASE key = "address"
  <2> DEFINE x == [f \in Families |-> First(d.address[f] \o AddressesOf(t, f))]
  <2>1. v = [d EXCEPT !.address = x]
    BY <1>2, ItemCases DEF awg_device_set_address_from_string
  <2>2. AddressesTaken(x)
    BY <1>2, FirstOfBoth DEF AddressesTaken, Taken
  <2> HIDE DEF v, x
  <2>3. AddressesTaken(x) => Taken([d EXCEPT !.address = x])
    BY TakenWith
  <2>4. Taken(v)
    BY <2>1, <2>2, <2>3
  <2>5. QED
    BY <2>4 DEF v
<1>3. CASE key = "dns"
  <2> DEFINE x == [f \in Families |-> OfFamily(t, f)]
             taken == \A i \in DOMAIN t : t[i] = Blank \/ IsAddress(t[i])
  <2>1. v = d \/ (v = [d EXCEPT !.dns = x] /\ taken)
    BY <1>3, ItemCases DEF awg_device_set_dns_from_string, Accept, Reject
  <2>2. taken => ServersTaken(x)
    BY <1>3, ServersAre DEF ServersTaken
  <2> HIDE DEF v, x, taken
  <2>3. ServersTaken(x) => Taken([d EXCEPT !.dns = x])
    BY TakenWith
  <2>4. Taken(v)
    BY <2>1, <2>2, <2>3
  <2>5. QED
    BY <2>4 DEF v
<1>4. CASE key \in {"listen_port", "fw_mark"} \cup JunkFields \cup PaddingFields
  <2>1. \E max : interface_item(d, key, t) = set_number(d, key, t, max)
    BY <1>4, ItemCases DEF awg_device_set_listen_port_from_string, awg_device_set_fw_mark_from_string,
                awg_device_set_junk_from_string, awg_device_set_padding_from_string
  <2>2. v = d \/ v = [d EXCEPT !.number[key] = t[1]]
    BY <2>1 DEF set_number, Accept, Reject
  <2>3. key \in NumberFields /\ key # "mtu"
    BY <1>4 DEF NumberFields, JunkFields, PaddingFields
  <2>4. Taken([d EXCEPT !.number[key] = t[1]])
    BY <2>3, TakenWith
  <2> HIDE DEF v
  <2>5. Taken(v)
    BY <2>2, <2>4
  <2>6. QED
    BY <2>5 DEF v
<1>5. CASE key = "mtu"
  <2>1. interface_item(d, key, t) = awg_device_set_mtu_from_string(d, t)
    BY <1>5, ItemCases
  <2>2. v = d \/ (v = [d EXCEPT !.number["mtu"] = t[1]] /\ (t[1] = 0 \/ t[1] >= 68))
    BY <2>1 DEF awg_device_set_mtu_from_string, Accept, Reject
  <2>3. "mtu" \in NumberFields
    BY DEF NumberFields
  <2>4. t[1] = 0 \/ t[1] >= 68 => Taken([d EXCEPT !.number["mtu"] = t[1]])
    BY <2>3, TakenWith
  <2> HIDE DEF v
  <2>5. Taken(v)
    BY <2>2, <2>4
  <2>6. QED
    BY <2>5 DEF v
<1>6. CASE key \in HeaderFields \cup PacketFields \cup RangeFields \cup {"header_protection_key"}
  <2>1. \E valid \in BOOLEAN : v = set_text(d, key, t, valid).value /\ (valid => TextTaken(key, t))
    <3>1. /\ awg_validate_magic_header(t) \in BOOLEAN /\ awg_validate_i_packet(t) \in BOOLEAN
          /\ awg_range_parse_u32(t) \in BOOLEAN /\ awg_key_from_base64(t) \in BOOLEAN
      BY DEF awg_validate_magic_header, awg_validate_i_packet, awg_validate_empty,
             awg_range_parse_u32, awg_key_from_base64, IsUnsigned, IsRange
    <3> USE DEF TextTaken, KeyFields, HeaderFields, PacketFields, RangeFields
    <3>2. CASE key \in HeaderFields
      BY <3>1, <3>2, ItemCases DEF awg_device_set_h
    <3>3. CASE key \in PacketFields
      BY <3>1, <3>3, ItemCases DEF awg_device_set_i
    <3>4. CASE key \in RangeFields
      BY <3>1, <3>4, ItemCases DEF awg_device_set_range
    <3>5. CASE key = "header_protection_key"
      BY <3>1, <3>5, ItemCases DEF awg_device_set_header_protection_key
    <3>6. QED
      BY <1>6, <3>2, <3>3, <3>4, <3>5
  <2>2. PICK valid \in BOOLEAN : v = set_text(d, key, t, valid).value /\ (valid => TextTaken(key, t))
    BY <2>1
  <2>3. v = d \/ (v = [d EXCEPT !.text[key] = t] /\ TextTaken(key, t))
    BY <2>2 DEF set_text, Accept, Reject, TextTaken
  <2>4. key \in TextFields
    BY <1>6 DEF TextFields, KeyFields
  <2> HIDE DEF v
  <2>5. TextTaken(key, t) => Taken([d EXCEPT !.text[key] = t])
    BY <2>4, TakenWith
  <2>6. Taken(v)
    BY <2>3, <2>5
  <2>7. QED
    BY <2>6 DEF v
<1>7. CASE key \in FlagFields
  <2> DEFINE b == t[1] \in OnWords
             x == IF b THEN d.on \cup {key} ELSE d.on \ {key}
  <2>1. v = d \/ v = [d EXCEPT !.on = x]
    <3>1. interface_item(d, key, t) = IF awg_parse_bool(t) THEN awg_device_set_flag(d, key, b) ELSE Reject(d)
      BY <1>7, ItemCases
    <3>2. QED
      BY <3>1 DEF awg_device_set_flag, Accept, Reject
  <2> HIDE DEF v, x
  <2>2. Taken([d EXCEPT !.on = x])
    BY TakenWith
  <2>3. Taken(v)
    BY <2>1, <2>2
  <2>4. QED
    BY <2>3 DEF v
<1>8. CASE key \in ScriptFields
  <2>1. v = [d EXCEPT !.text[key] = t]
    BY <1>8, ItemCases DEF awg_device_set_script, Accept
  <2>2. key \in TextFields /\ TextTaken(key, t)
    BY <1>8 DEF TextFields, TextTaken, ScriptFields, KeyFields, HeaderFields, PacketFields, RangeFields
  <2> HIDE DEF v
  <2>3. TextTaken(key, t) => Taken([d EXCEPT !.text[key] = t])
    BY <2>2, TakenWith
  <2>4. Taken(v)
    BY <2>1, <2>2, <2>3
  <2>5. QED
    BY <2>4 DEF v
<1>9. CASE key \notin InterfaceKeys
  BY <1>9, ItemCases DEF Accept
<1>10. QED
  BY <1>1, <1>2, <1>3, <1>4, <1>5, <1>6, <1>7, <1>8, <1>9
  DEF InterfaceKeys, TextFields, NumberFields, KeyFields

\* The same for a line of [Peer].
LEMMA PeerItemTaken ==
    ASSUME NEW p, PeerTaken(p), NEW key, NEW t, key = "allowed_ips" => IsText(t)
    PROVE  PeerTaken(peer_item(p, key, t).value)
<1> DEFINE v == peer_item(p, key, t).value
<1>1. CASE key = "endpoint"
  BY <1>1 DEF peer_item, awg_device_peer_set_endpoint, Accept, Reject, PeerTaken
<1>2. CASE key = "public_key"
  BY <1>2 DEF peer_item, awg_device_peer_set_public_key, Accept, Reject, PeerTaken
<1>3. CASE key = "shared_key"
  BY <1>3 DEF peer_item, awg_device_peer_set_shared_key, Accept, Reject, PeerTaken
<1>4. CASE key = "allowed_ips"
  <2> DEFINE x == Subnets(Entries(t))
             taken == \A i \in DOMAIN t : t[i] = Blank \/ awg_subnet_is_valid(t[i])
  <2>1. v = p \/ (v = [p EXCEPT !.allowed_ips = x] /\ taken)
    BY <1>4 DEF peer_item, awg_device_peer_set_allowed_ips_from_string, Accept, Reject
  <2>2. taken => SubnetList(x)
    BY <1>4, EntriesAre
  <2> HIDE DEF v, x, taken
  <2>3. PeerTaken(v)
    BY <2>1, <2>2 DEF PeerTaken
  <2>4. QED
    BY <2>3 DEF v
<1>5. CASE key = "keep_alive"
  <2>1. v = p \/ \E n \in 0 .. U16Max : v = [p EXCEPT !.keep_alive = n]
    <3>1. 0 \in 0 .. U16Max
      BY DeviceAssumption
    <3>2. QED
      BY <1>5, <3>1 DEF peer_item, awg_device_peer_set_keep_alive_interval_from_string, Accept, Reject, IsUnsigned
  <2> HIDE DEF v
  <2>2. PeerTaken(v)
    BY <2>1 DEF PeerTaken
  <2>3. QED
    BY <2>2 DEF v
<1>6. CASE key = "advanced_security"
  <2> DEFINE on == t = <<On>>
  <2>1. v = p \/ v = [p EXCEPT !.advanced_security = on]
    BY <1>6 DEF peer_item, Accept, Reject, awg_device_peer_set_advanced_security
  <2>2. on \in BOOLEAN
    OBVIOUS
  <2> HIDE DEF v, on
  <2>3. PeerTaken(v)
    BY <2>1, <2>2 DEF PeerTaken
  <2>4. QED
    BY <2>3 DEF v
<1>7. CASE key \notin PeerKeys
  BY <1>7 DEF peer_item, Accept, PeerKeys
<1>8. QED
  BY <1>1, <1>2, <1>3, <1>4, <1>5, <1>6, <1>7 DEF PeerKeys

(***************************************************************************)
(* Files that are written.                                                 *)
(***************************************************************************)

LEMMA LineIs ==
    ASSUME NEW key, NEW t, key \notin ListKeys \/ IsText(t)
    PROVE  IsLines(<<Line(key, t)>>) /\ IsLines(Opt(key, t))
<1>1. Line(key, t).key = key /\ Line(key, t).text = t
  BY DEF Line
<1> DEFINE l == Line(key, t)
<1> HIDE DEF l
<1>2. Len(<<l>>) = 1 /\ <<l>>[1] = l /\ <<l>> = [i \in 1 .. 1 |-> <<l>>[i]]
  OBVIOUS
<1>3. IsLines(<<l>>)
  BY <1>1, <1>2 DEF IsLines, IsText, l
<1>4. IsLines(<<>>)
  BY DEF IsLines, IsText
<1>5. QED
  BY <1>3, <1>4 DEF Opt, l

LEMMA TextLineIs ==
    ASSUME NEW key, key \notin ListKeys, NEW t
    PROVE  IsLines(TextLine(key, t))
<1>1. IsLines(<<>>)
  BY DEF IsLines, IsText
<1>2. IsLines(<<Line(key, Stripped(t))>>)
  BY LineIs
<1>3. QED
  BY <1>1, <1>2 DEF TextLine

LEMMA NumberLineIs ==
    ASSUME NEW key, key \notin ListKeys, NEW n
    PROVE  IsLines(NonZero(key, n))
<1>1. IsLines(<<>>)
  BY DEF IsLines, IsText
<1>2. IsLines(<<Line(key, <<n>>)>>)
  BY LineIs
<1>3. QED
  BY <1>1, <1>2 DEF NonZero

LEMMA TextLinesAre ==
    ASSUME NEW d, NEW order, IsText(order), \A i \in 1 .. Len(order) : order[i] \notin ListKeys
    PROVE  IsLines(TextLines(d, order))
<1> DEFINE ss == [i \in DOMAIN order |-> TextLine(order[i], d.text[order[i]])]
           n == Len(order)
<1>1. n \in Nat /\ DOMAIN order = 1 .. n
  BY DEF IsText
<1>2. \A i \in 1 .. n : IsLines(ss[i])
  BY <1>1, TextLineIs
<1>3. ss = [i \in 1 .. n |-> ss[i]]
  BY <1>1
<1> HIDE DEF ss, n
<1>4. IsLines(FlattenSeq(ss))
  BY <1>1, <1>2, <1>3, LinesFlat
<1>5. QED
  BY <1>4 DEF TextLines, ss

LEMMA FlagLinesAre ==
    ASSUME NEW d
    PROVE  IsLines(FlagLines(d))
<1> DEFINE flag(i) == <<"random_trailers", "disable_cookies">>[i]
           ss == [i \in 1 .. 2 |-> IF flag(i) \in d.on THEN <<Line(flag(i), <<On>>)>> ELSE <<>>]
<1>1. \A i \in 1 .. 2 : flag(i) \notin ListKeys
  BY DEF ListKeys
<1> HIDE DEF flag
<1>2. \A i \in 1 .. 2 : IsLines(<<Line(flag(i), <<On>>)>>)
  BY <1>1, LineIs
<1>3. IsLines(<<>>)
  BY DEF IsLines, IsText
<1>4. \A i \in 1 .. 2 : IsLines(ss[i])
  BY <1>2, <1>3
<1>5. ss = [i \in 1 .. 2 |-> ss[i]]
  OBVIOUS
<1> HIDE DEF ss
<1>6. IsLines(FlattenSeq(ss))
  BY <1>4, <1>5, LinesFlat
<1>7. QED
  BY <1>6 DEF FlagLines, ss, flag

LEMMA PeerLinesAre ==
    ASSUME NEW p, IsText(p.allowed_ips)
    PROVE  IsLines(peer_lines(p))
<1>1. IsLines(<<>>)
  BY DEF IsLines, IsText
<1>2. \A key \in PeerKeys \cup {PeerSection} : \A t :
        key # "allowed_ips" \/ IsText(t) => IsLines(<<Line(key, t)>>) /\ IsLines(Opt(key, t))
  BY LineIs DEF PeerKeys, PeerSection, ListKeys
<1> DEFINE a == <<Line(PeerSection, Unset)>>
           b == Opt("public_key", p.public_key)
           c == Opt("shared_key", p.shared_key)
           d == Opt("endpoint", p.endpoint)
           e == <<Line("keep_alive", IF p.keep_alive = 0 THEN <<Off>> ELSE <<p.keep_alive>>)>>
           f == <<Line("allowed_ips", p.allowed_ips)>>
           g == IF p.advanced_security THEN <<Line("advanced_security", <<On>>)>> ELSE <<>>
<1>3. IsLines(a) /\ IsLines(b) /\ IsLines(c) /\ IsLines(d) /\ IsLines(e) /\ IsLines(f) /\ IsLines(g)
  <2>1. IsLines(a) /\ IsLines(b) /\ IsLines(c) /\ IsLines(d)
    BY <1>2 DEF PeerKeys, PeerSection
  <2>2. IsLines(e) /\ IsLines(f)
    BY <1>2 DEF PeerKeys, PeerSection
  <2>3. IsLines(g)
    BY <1>1, <1>2 DEF PeerKeys
  <2>4. QED
    BY <2>1, <2>2, <2>3
<1>4. peer_lines(p) = a \o b \o c \o d \o e \o f \o g
  BY DEF peer_lines
<1> HIDE DEF a, b, c, d, e, f, g
<1>5. IsLines(a \o b \o c \o d)
  BY <1>3, LinesCat
<1>6. IsLines(a \o b \o c \o d \o e \o f \o g)
  BY <1>3, <1>5, LinesCat
<1>7. QED
  BY <1>4, <1>6

\* In a file that is written, a list is a list of entries.
LEMMA WrittenLines ==
    ASSUME NEW d, Taken(d)
    PROVE  IsLines(awg_device_create_config_string(d))
<1>1. IsLines(interface_lines(d))
  <2> DEFINE a == <<Line(Interface, Unset)>>
             b == Opt("private_key", d.text["private_key"])
             c == Opt(CommentedKey, d.text["public_key"])
             e == Opt("address", d.address["v4"])
             f == NonZero("listen_port", d.number["listen_port"])
             g == Opt("dns", d.dns["v4"] \o d.dns["v6"])
             h == NonZero("fw_mark", d.number["fw_mark"] % (U16Max + 1))
             i == NonZero("mtu", d.number["mtu"])
  <2>1. "v4" \in Families /\ "v6" \in Families
    BY DEF Families
  <2>2. IsText(d.address["v4"]) /\ IsText(d.dns["v4"]) /\ IsText(d.dns["v6"])
    BY <2>1 DEF Taken, AddressesTaken, ServersTaken, AddressList, SubnetList, ServerList
  <2>3. IsText(d.dns["v4"] \o d.dns["v6"])
    BY <2>2, TextCat
  <2>4. IsLines(a) /\ IsLines(b) /\ IsLines(c) /\ IsLines(e) /\ IsLines(g)
    BY <2>2, <2>3, LineIs DEF Interface, CommentedKey, ListKeys
  <2>5. IsLines(f) /\ IsLines(h) /\ IsLines(i)
    BY NumberLineIs DEF ListKeys
  <2>6. interface_lines(d) = a \o b \o c \o e \o f \o g \o h \o i
    BY DEF interface_lines
  <2> HIDE DEF a, b, c, e, f, g, h, i
  <2>7. IsLines(a \o b \o c \o e)
    BY <2>4, LinesCat
  <2>8. IsLines(a \o b \o c \o e \o f \o g)
    BY <2>4, <2>5, <2>7, LinesCat
  <2>9. IsLines(a \o b \o c \o e \o f \o g \o h \o i)
    BY <2>5, <2>8, LinesCat
  <2>10. QED
    BY <2>6, <2>9
<1>2. IsLines(parameter_lines(d))
  <2> DEFINE a == [i \in DOMAIN NumberOrder |-> Line(NumberOrder[i], <<d.number[NumberOrder[i]]>>)]
             b == TextLines(d, HeaderOrder \o RangeOrder)
             c == FlagLines(d)
             e == TextLines(d, ScriptOrder)
  <2>1. IsLines(a)
    <3>1. DOMAIN NumberOrder = 1 .. 7 /\ \A i \in 1 .. 7 : NumberOrder[i] \notin ListKeys
      BY DEF NumberOrder, ListKeys
    <3>2. a = [i \in 1 .. 7 |-> Line(NumberOrder[i], <<d.number[NumberOrder[i]]>>)] /\ Len(a) = 7
      BY <3>1
    <3>3. \A i \in 1 .. 7 : a[i].key \notin ListKeys
      BY <3>1, <3>2 DEF Line
    <3> HIDE DEF a
    <3>4. a = [i \in 1 .. 7 |-> a[i]] /\ Len(a) = 7
      BY <3>2
    <3>5. IsText(a)
      BY <3>4 DEF IsText
    <3>6. QED
      BY <3>3, <3>4, <3>5 DEF IsLines
  <2>2. IsLines(b)
    <3>1. IsText(HeaderOrder) /\ \A i \in 1 .. Len(HeaderOrder) : HeaderOrder[i] \notin ListKeys
      BY DEF HeaderOrder, ListKeys, IsText
    <3>2. IsText(RangeOrder) /\ \A i \in 1 .. Len(RangeOrder) : RangeOrder[i] \notin ListKeys
      BY DEF RangeOrder, ListKeys, IsText
    <3> DEFINE o == HeaderOrder \o RangeOrder
    <3>3. IsText(o) /\ \A i \in 1 .. Len(o) : o[i] \notin ListKeys
      BY <3>1, <3>2, NamesCat
    <3> HIDE DEF o
    <3>4. IsLines(TextLines(d, o))
      BY <3>3, TextLinesAre
    <3>5. QED
      BY <3>4 DEF o
  <2>3. IsLines(c)
    BY FlagLinesAre
  <2>4. IsLines(e)
    <3>1. IsText(ScriptOrder) /\ \A i \in 1 .. Len(ScriptOrder) : ScriptOrder[i] \notin ListKeys
      BY DEF ScriptOrder, ListKeys, IsText
    <3>2. QED
      BY <3>1, TextLinesAre
  <2>5. parameter_lines(d) = a \o b \o c \o e
    BY DEF parameter_lines
  <2> HIDE DEF a, b, c, e
  <2>6. QED
    BY <2>1, <2>2, <2>3, <2>4, <2>5, LinesCat
<1> DEFINE ss == [i \in DOMAIN d.peers |-> peer_lines(d.peers[i])]
           n == Len(d.peers)
<1>3. IsLines(FlattenSeq(ss))
  <2>1. /\ n \in Nat /\ DOMAIN d.peers = 1 .. n
        /\ \A i \in 1 .. n : IsText(d.peers[i].allowed_ips)
    BY DEF IsText, Taken, PeersTaken, PeerTaken, SubnetList
  <2>2. ss = [i \in 1 .. n |-> ss[i]] /\ \A i \in 1 .. n : IsLines(ss[i])
    BY <2>1, PeerLinesAre
  <2> HIDE DEF ss, n
  <2>3. QED
    BY <2>1, <2>2, LinesFlat
<1>4. QED
  BY <1>1, <1>2, <1>3, LinesCat DEF awg_device_create_config_string

ConnectionShape(c) == c = [text |-> c.text, number |-> c.number, ip |-> c.ip, peers |-> c.peers]

(***************************************************************************)
(* Every device has the values its setters accept.                         *)
(***************************************************************************)

LEMMA NewTaken == Taken(awg_device_new) /\ PeerTaken(awg_device_peer_new)
<1>1. IsText(<<>>) /\ Len(<<>>) = 0
  BY DEF IsText
<1>2. "mtu" \in NumberFields
  BY DEF NumberFields
<1>3. /\ \A f \in TextFields : TextTaken(f, awg_device_new.text[f])
      /\ awg_device_new.number["mtu"] = 0
      /\ \A f \in Families : awg_device_new.address[f] = <<>> /\ awg_device_new.dns[f] = <<>>
      /\ awg_device_new.address = [f \in Families |-> awg_device_new.address[f]]
      /\ awg_device_new.peers = <<>>
  BY <1>2 DEF awg_device_new, TextTaken
<1>4. Taken(awg_device_new)
  BY <1>1, <1>3 DEF Taken, AddressesTaken, ServersTaken, PeersTaken, AddressList, SubnetList, ServerList
<1>5. PeerTaken(awg_device_peer_new)
  BY <1>1, DeviceAssumption DEF PeerTaken, awg_device_peer_new, SubnetList
<1>6. QED
  BY <1>4, <1>5

\* The lists of a connection are sequences.
HasAllowedIps(items) == "allowed_ips" \in DOMAIN items /\ IsText(items.allowed_ips)

HasLists(c) ==
    /\ \A f \in Families : IsText(c.ip[f].addresses) /\ IsText(c.ip[f].dns)
    /\ IsText(c.peers) /\ \A i \in 1 .. Len(c.peers) : HasAllowedIps(c.peers[i])

LEMMA PeerLoads ==
    ASSUME NEW items, IsText(items.allowed_ips)
    PROVE  PeerTaken(load_peer(items))
<1> DEFINE p1 == awg_device_peer_set_public_key(awg_device_peer_new, items.public_key).value
           p2 == awg_device_peer_set_shared_key(p1, items.shared_key).value
           p3 == awg_device_peer_set_endpoint(p2, items.endpoint).value
           p4 == awg_device_peer_set_allowed_ips_from_string(p3, items.allowed_ips).value
           p5 == awg_device_peer_set_keep_alive_interval_from_string(p4, items.keep_alive).value
           on == items.advanced_security = <<On>>
           p6 == [p5 EXCEPT !.advanced_security = on]
<1>1. load_peer(items) = p6
  BY DEF load_peer, awg_device_peer_set_advanced_security
<1>2. /\ \A p, t : awg_device_peer_set_public_key(p, t).value = peer_item(p, "public_key", t).value
      /\ \A p, t : awg_device_peer_set_shared_key(p, t).value = peer_item(p, "shared_key", t).value
      /\ \A p, t : awg_device_peer_set_endpoint(p, t).value = peer_item(p, "endpoint", t).value
      /\ \A p, t : awg_device_peer_set_allowed_ips_from_string(p, t).value
                      = peer_item(p, "allowed_ips", t).value
      /\ \A p, t : awg_device_peer_set_keep_alive_interval_from_string(p, t).value
                      = peer_item(p, "keep_alive", t).value
  BY DEF peer_item
<1> HIDE DEF on
<1>3. PeerTaken(p1)
  BY <1>2, NewTaken, PeerItemTaken
<1> HIDE DEF p1
<1>4. PeerTaken(p2)
  BY <1>2, <1>3, PeerItemTaken
<1> HIDE DEF p2
<1>5. PeerTaken(p3)
  BY <1>2, <1>4, PeerItemTaken
<1> HIDE DEF p3
<1>6. PeerTaken(p4)
  BY <1>2, <1>5, PeerItemTaken
<1> HIDE DEF p4
<1>7. PeerTaken(p5)
  BY <1>2, <1>6, PeerItemTaken
<1> HIDE DEF p5
<1>8. on \in BOOLEAN
  BY DEF on
<1>9. PeerTaken(p6)
  BY <1>7, <1>8 DEF PeerTaken
<1>10. QED
  BY <1>1, <1>9

\* Whatever a connection holds, it loads as values that the setters accept.
LEMMA LoadedTaken ==
    ASSUME NEW c, HasLists(c)
    PROVE  Taken(awg_device_new_from_nm_connection(c))
<1> DEFINE d == awg_device_new_from_nm_connection(c)
           new == awg_device_new
           a4 == AddressesAfter(new.address, c.ip["v4"].addresses)
           s4 == ServersAfter(new.dns, c.ip["v4"].dns)
           read == ReadPeers(c.peers)
<1>1. /\ d.text = [f \in TextFields |-> load_text(c, f)]
      /\ d.number = [f \in NumberFields |-> load_number(c, f)]
      /\ d.address = AddressesAfter(a4, c.ip["v6"].addresses)
      /\ d.dns = ServersAfter(s4, c.ip["v6"].dns)
      /\ d.peers = ValidPeers(read)
  BY LoadedIs
<1>2. Taken(new) /\ DeviceShape(new)
  BY NewTaken, NewSound DEF Sound
<1>3. "v4" \in Families /\ "v6" \in Families /\ "mtu" \in NumberFields
  BY DEF Families, NumberFields
<1> HIDE DEF d
<1>4. \A f \in TextFields : TextTaken(f, d.text[f])
  <2> SUFFICES ASSUME NEW f \in TextFields PROVE TextTaken(f, load_text(c, f))
    BY <1>1
  <2> DEFINE t == c.text[f]
  <2>1. \/ load_text(c, f) = Unset
        \/ load_text(c, f) = interface_item(new, f, t).value.text[f]
    BY ItemCases DEF load_text, TextFields, KeyFields, HeaderFields, PacketFields, RangeFields, ScriptFields
  <2>2. f \notin {"address", "dns"}
    BY DEF TextFields, KeyFields, HeaderFields, PacketFields, RangeFields, ScriptFields
  <2>3. Taken(interface_item(new, f, t).value)
    BY <1>2, <2>2, ItemTaken
  <2>4. TextTaken(f, interface_item(new, f, t).value.text[f])
    BY <2>3 DEF Taken
  <2>5. TextTaken(f, Unset)
    BY DEF TextTaken
  <2>6. QED
    BY <2>1, <2>4, <2>5
<1>5. d.number["mtu"] = 0 \/ d.number["mtu"] >= 68
  <2> DEFINE t == c.number["mtu"]
  <2>1. d.number["mtu"] = load_number(c, "mtu")
    BY <1>1, <1>3
  <2>2. \/ load_number(c, "mtu") = 0
        \/ load_number(c, "mtu") = interface_item(new, "mtu", t).value.number["mtu"]
    BY ItemCases DEF load_number, JunkFields, PaddingFields
  <2>3. Taken(interface_item(new, "mtu", t).value)
    BY <1>2, ItemTaken
  <2>4. QED
    BY <2>1, <2>2, <2>3 DEF Taken
<1>6. AddressesTaken(d.address)
  <2>1. ASSUME NEW old, AddressesTaken(old), NEW t, IsText(t) PROVE AddressesTaken(AddressesAfter(old, t))
    BY <2>1, FirstOfBoth DEF AddressesTaken, AddressesAfter
  <2>2. AddressesTaken(new.address)
    BY <1>2 DEF Taken
  <2>3. IsText(c.ip["v4"].addresses) /\ IsText(c.ip["v6"].addresses)
    BY <1>3 DEF HasLists
  <2> HIDE DEF new
  <2>4. AddressesTaken(a4)
    BY <2>1, <2>2, <2>3
  <2> HIDE DEF a4
  <2>5. QED
    BY <1>1, <2>1, <2>3, <2>4
<1>7. ServersTaken(d.dns)
  <2>1. ASSUME NEW old, ServersTaken(old), NEW t, IsText(t) PROVE ServersTaken(ServersAfter(old, t))
    BY <2>1, ServersAre DEF ServersTaken, ServersAfter
  <2>2. ServersTaken(new.dns)
    BY <1>2 DEF Taken
  <2>3. IsText(c.ip["v4"].dns) /\ IsText(c.ip["v6"].dns)
    BY <1>3 DEF HasLists
  <2> HIDE DEF new
  <2>4. ServersTaken(s4)
    BY <2>1, <2>2, <2>3
  <2> HIDE DEF s4
  <2>5. QED
    BY <1>1, <2>1, <2>3, <2>4
<1>8. PeersTaken(d.peers)
  <2> DEFINE places == {i \in DOMAIN read : awg_device_peer_is_valid(read[i])}
  <2>1. Len(c.peers) \in Nat
    BY DEF HasLists, IsText
  <2>2. PICK n \in 0 .. Len(c.peers) : DOMAIN numbered(c.peers) = 1 .. n
    BY <2>1, NumberedIs
  <2>3. read = [i \in 1 .. n |-> load_peer(c.peers[i])]
    BY <2>2 DEF ReadPeers
  <2>4. \A i \in 1 .. n : PeerTaken(read[i])
    BY <2>1, <2>3, PeerLoads DEF HasLists, HasAllowedIps
  <2>5. /\ places \subseteq 1 .. n /\ n \in Nat
        /\ \A i \in places : awg_device_peer_is_valid(read[i])
    BY <2>1, <2>3
  <2>6. d.peers = Pick(read, places)
    BY <1>1 DEF ValidPeers
  <2> HIDE DEF read, places
  <2>7. IsText(Pick(read, places)) /\ Len(Pick(read, places)) = Cardinality(places)
    BY <2>5, PickIs
  <2>8. ASSUME NEW k \in 1 .. Cardinality(places)
        PROVE  Pick(read, places)[k] = read[Nth(places, k)] /\ Nth(places, k) \in places
    BY <2>5, NthFacts DEF Pick
  <2>9. QED
    BY <2>4, <2>5, <2>6, <2>7, <2>8 DEF PeersTaken
<1>9. Taken(d)
  BY <1>4, <1>5, <1>6, <1>7, <1>8 DEF Taken
<1>10. QED
  BY <1>9 DEF d

LEMMA TextAppend ==
    ASSUME NEW a, IsText(a), NEW x
    PROVE  /\ IsText(Append(a, x)) /\ Len(Append(a, x)) = Len(a) + 1
           /\ \A i \in 1 .. Len(a) : Append(a, x)[i] = a[i]
           /\ Append(a, x)[Len(a) + 1] = x
<1> DEFINE X == {a[i] : i \in 1 .. Len(a)} \cup {x}
           c == Append(a, x)
<1>1. a \in Seq(X) /\ x \in X
  <2>1. a \in [1 .. Len(a) -> X] /\ Len(a) \in Nat
    BY DEF IsText
  <2> HIDE DEF X
  <2>2. QED
    BY <2>1 DEF X
<1> HIDE DEF X
<1>2. /\ c \in Seq(X) /\ Len(c) = Len(a) + 1
      /\ \A i \in 1 .. Len(a) : c[i] = a[i]
      /\ c[Len(a) + 1] = x
  BY <1>1
<1> HIDE DEF c
<1>3. IsText(c)
  BY <1>2 DEF IsText
<1>4. QED
  BY <1>2, <1>3 DEF c

ReaderTaken(r) ==
    /\ Taken(r.device)
    /\ r.section = "peer" => r.peer # <<>>
    /\ r.peer # <<>> => r.peer = <<r.peer[1]>> /\ PeerTaken(r.peer[1])

LEMMA FlushTaken ==
    ASSUME NEW r, ReaderShape(r), Sound(r.device), ReaderTaken(r)
    PROVE  Taken(flush_peer(r).device)
<1>1. CASE r.peer = <<>>
  BY <1>1 DEF flush_peer, ReaderTaken
<1>2. CASE r.peer # <<>>
  <2> DEFINE q == r.device.peers
             p == r.peer[1]
             x == Append(q, p)
             e == awg_device_add_peer(r.device, p)
  <2>1. flush_peer(r) = [device |-> e, peer |-> <<>>, section |-> r.section,
                         success |-> r.success, error |-> r.error]
    BY <1>2 DEF flush_peer, ReaderShape
  <2>2. e = r.device \/ (e = [r.device EXCEPT !.peers = x] /\ awg_device_peer_is_valid(p))
    BY DEF awg_device_add_peer
  <2>3. PeersTaken(q) /\ PeerTaken(p) /\ Taken(r.device) /\ DeviceShape(r.device)
    BY <1>2 DEF ReaderTaken, Taken, Sound
  <2> HIDE DEF e, p, q
  <2>4. ASSUME awg_device_peer_is_valid(p) PROVE PeersTaken(x)
    <3>1. /\ IsText(x) /\ Len(x) = Len(q) + 1 /\ Len(q) \in Nat
          /\ \A i \in 1 .. Len(q) : x[i] = q[i]
          /\ x[Len(q) + 1] = p
      BY <2>3, TextAppend DEF PeersTaken, IsText
    <3> HIDE DEF x
    <3>2. ASSUME NEW i \in 1 .. Len(x) PROVE PeerTaken(x[i]) /\ awg_device_peer_is_valid(x[i])
      <4>1. i \in 1 .. Len(q) \/ i = Len(q) + 1
        BY <3>1
      <4>2. QED
        BY <2>3, <2>4, <3>1, <4>1 DEF PeersTaken
    <3>3. QED
      BY <3>1, <3>2 DEF PeersTaken
  <2> HIDE DEF x
  <2>5. PeersTaken(x) => Taken([r.device EXCEPT !.peers = x])
    BY <2>3, TakenWith
  <2>6. Taken(e)
    BY <2>2, <2>3, <2>4, <2>5
  <2>7. QED
    BY <2>1, <2>6
<1>3. QED
  BY <1>1, <1>2

\* Every line leaves values that the setters accept.
LEMMA ReadTaken ==
    ASSUME NEW r, ReaderShape(r), Sound(r.device), ReaderTaken(r),
           NEW line, line.key \in ListKeys => IsText(line.text)
    PROVE  ReaderTaken(read_line(r, line))
<1> DEFINE v == read_line(r, line)
<1>1. CASE line.key \in Markers
  <2>1. CASE line.key = Comment
    BY <2>1, ReadMarker
  <2>2. CASE line.key = Interface
    <3>1. v = [device |-> r.device, peer |-> r.peer, section |-> "interface",
               success |-> r.success, error |-> r.error]
      BY <2>2, ReadMarker
    <3>2. QED
      BY <3>1 DEF ReaderTaken
  <2>3. CASE line.key = PeerSection
    <3> DEFINE e == flush_peer(r).device
               n == awg_device_peer_new
    <3>1. v = [device |-> e, peer |-> <<n>>, section |-> "peer", success |-> r.success, error |-> r.error]
      BY <2>3, ReadMarker
    <3>2. Taken(e) /\ PeerTaken(n)
      BY FlushTaken, NewTaken
    <3> HIDE DEF v, e, n
    <3>3. v.device = e /\ v.peer = <<n>> /\ v.peer # <<>> /\ v.peer[1] = n
      BY <3>1
    <3>4. ReaderTaken(v)
      BY <3>2, <3>3 DEF ReaderTaken
    <3>5. QED
      BY <3>4 DEF v
  <2>4. CASE line.key = NoEquals
    <3>1. v = [device |-> r.device, peer |-> r.peer, section |-> r.section, success |-> FALSE,
               error |-> ErrorOr(r, [code |-> "line", key |-> ""])]
      BY <2>4, ReadMarker
    <3> HIDE DEF v
    <3>2. v.device = r.device /\ v.peer = r.peer /\ v.section = r.section
      BY <3>1
    <3>3. ReaderTaken(v)
      BY <3>2 DEF ReaderTaken
    <3>4. QED
      BY <3>3 DEF v
  <2>5. QED
    BY <1>1, <2>1, <2>2, <2>3, <2>4 DEF Markers
<1>2. CASE line.key \notin Markers
  <2>1. CASE r.section = "interface"
    <3> DEFINE s == interface_item(r.device, line.key, line.text)
    <3>1. v = [device |-> s.value, peer |-> r.peer, section |-> r.section,
               success |-> r.success /\ s.ok,
               error |-> IF s.ok THEN r.error
                         ELSE ErrorOr(r, [code |-> "value", key |-> line.key])]
      BY <1>2, <2>1, ReadItem
    <3>2. Taken(s.value)
      BY ItemTaken DEF ListKeys, ReaderTaken, Sound
    <3> HIDE DEF v, s
    <3>3. v.device = s.value /\ v.peer = r.peer /\ v.section = r.section
      BY <3>1
    <3>4. ReaderTaken(v)
      BY <3>2, <3>3 DEF ReaderTaken
    <3>5. QED
      BY <3>4 DEF v
  <2>2. CASE r.section = "peer"
    <3> DEFINE p == r.peer[1]
               s == peer_item(p, line.key, line.text)
               x == s.value
    <3>1. v = [device |-> r.device, peer |-> <<x>>, section |-> r.section,
               success |-> r.success /\ s.ok,
               error |-> IF s.ok \/ line.key = "advanced_security" THEN r.error
                         ELSE ErrorOr(r, [code |-> "value", key |-> line.key])]
      BY <1>2, <2>2, ReadItem
    <3>2. PeerTaken(p)
      BY <2>2 DEF ReaderTaken
    <3> HIDE DEF p
    <3>3. PeerTaken(x)
      BY <3>2, PeerItemTaken DEF ListKeys
    <3> HIDE DEF v, x, s
    <3>4. v.device = r.device /\ v.peer = <<x>> /\ v.peer # <<>> /\ v.peer[1] = x
      BY <3>1
    <3>5. ReaderTaken(v)
      BY <3>3, <3>4 DEF ReaderTaken
    <3>6. QED
      BY <3>5 DEF v
  <2>3. CASE r.section \notin {"interface", "peer"}
    BY <1>2, <2>3, ReadItem
  <2>4. QED
    BY <2>1, <2>2, <2>3
<1>3. QED
  BY <1>1, <1>2

LEMMA SavedLists ==
    ASSUME NEW d, Taken(d), NEW old
    PROVE  LET c == awg_device_save_to_nm_connection(d, old) IN ConnectionShape(c) /\ HasLists(c)
<1> DEFINE c == awg_device_save_to_nm_connection(d, old)
           p == [i \in DOMAIN d.peers |-> PeerItem(d.peers[i])]
           n == Len(d.peers)
<1>1. /\ ConnectionShape(c) /\ c.peers = p
      /\ \A f \in Families : c.ip[f].addresses = d.address[f] /\ c.ip[f].dns = Distinct(d.dns[f])
  BY DEF awg_device_save_to_nm_connection, ConnectionShape, ip_setting
<1> HIDE DEF c
<1>2. IsText(p) /\ Len(p) = n /\ \A i \in 1 .. n : HasAllowedIps(p[i])
  <2>1. n \in Nat /\ DOMAIN d.peers = 1 .. n /\ \A i \in 1 .. n : PeerTaken(d.peers[i])
    BY DEF Taken, PeersTaken, IsText
  <2>2. p = [i \in 1 .. n |-> p[i]] /\ Len(p) = n /\ \A i \in 1 .. n : p[i] = PeerItem(d.peers[i])
    BY <2>1
  <2> HIDE DEF p, n
  <2>3. IsText(p)
    BY <2>1, <2>2 DEF IsText
  <2>4. ASSUME NEW i \in 1 .. n PROVE HasAllowedIps(p[i])
    <3> DEFINE q == d.peers[i]
    <3>1. PeerTaken(q) /\ p[i] = PeerItem(q)
      BY <2>1, <2>2
    <3> HIDE DEF q
    <3>2. IsText(q.allowed_ips) /\ PeerItem(q).allowed_ips = q.allowed_ips
      BY <3>1 DEF PeerTaken, SubnetList, PeerItem
    <3>3. "allowed_ips" \in DOMAIN PeerItem(q)
      BY <3>1 DEF PeerTaken, PeerItem
    <3>4. QED
      BY <3>1, <3>2, <3>3 DEF HasAllowedIps
  <2>5. QED
    BY <2>2, <2>3, <2>4
<1>3. ASSUME NEW f \in Families PROVE IsText(c.ip[f].addresses) /\ IsText(c.ip[f].dns)
  <2> DEFINE s == d.dns[f]
             m == Len(s)
             places == {i \in DOMAIN s : \A j \in 1 .. i - 1 : s[j] # s[i]}
  <2>1. IsText(d.address[f]) /\ IsText(s)
    BY DEF Taken, AddressesTaken, ServersTaken, AddressList, SubnetList, ServerList
  <2>2. m \in Nat /\ places \subseteq 1 .. m
    BY <2>1 DEF IsText
  <2>3. Distinct(s) = Pick(s, places)
    BY DEF Distinct
  <2> HIDE DEF places, m
  <2>4. IsText(Pick(s, places))
    BY <2>2, PickIs
  <2>5. QED
    BY <1>1, <2>1, <2>3, <2>4
<1>4. ConnectionShape(c) /\ HasLists(c)
  BY <1>1, <1>2, <1>3 DEF HasLists
<1>5. QED
  BY <1>4 DEF c

\* Everywhere on the way of a configuration the lists are sequences and the values
\* are those the setters accept: in the files that are imported, those of users and
\* those that were exported, in the reader, the device and the connection.
TakenInv ==
    /\ \A i \in 1 .. Len(file) : file[i].key \in ListKeys => IsText(file[i].text)
    /\ ReaderTaken(reader)
    /\ device # <<>> => Taken(device[1]) /\ awg_device_is_valid(device[1])
    /\ connection # <<>> =>
        connection = <<connection[1]>> /\ ConnectionShape(connection[1]) /\ HasLists(connection[1])

LEMMA FinishTaken ==
    ASSUME TakenInv, NEW r, ReaderShape(r), Sound(r.device), ReaderTaken(r), finish(r)
    PROVE  TakenInv'
<1> DEFINE e == flush_peer(r).device
<1>1. UNCHANGED <<file, reader>> /\ device' = end_of_file(r).device
  BY DEF finish
<1>2. CASE device' = <<>>
  <2>1. connection' = connection
    BY <1>1, <1>2 DEF finish
  <2>2. QED
    BY <1>1, <1>2, <2>1 DEF TakenInv
<1>3. CASE device' # <<>>
  <2>1. device' = <<e>> /\ awg_device_is_valid(e)
    BY <1>1, <1>3, EndShape
  <2>2. Taken(e)
    BY FlushTaken
  <2> DEFINE c == awg_device_save_to_nm_connection(e, no_connection)
  <2> HIDE DEF e
  <2>3. connection' = <<c>>
    BY <1>1, <1>3, <2>1 DEF finish
  <2>4. ConnectionShape(c) /\ HasLists(c)
    BY <2>2, SavedLists
  <2> HIDE DEF c
  <2>5. device'[1] = e /\ connection'[1] = c
    BY <2>1, <2>3
  <2>6. QED
    BY <1>1, <2>1, <2>2, <2>3, <2>4, <2>5 DEF TakenInv
<1>4. QED
  BY <1>2, <1>3

\* An item of a peer that nmcli sets.
WithPeerItem(c, i, f, t) == [c EXCEPT !.peers[i] = [@ EXCEPT ![f] = t]]

LEMMA PeerItemSet ==
    ASSUME NEW c, ConnectionShape(c), HasLists(c), NEW i \in DOMAIN c.peers, NEW f, NEW t, IsText(t)
    PROVE  ConnectionShape(WithPeerItem(c, i, f, t)) /\ HasLists(WithPeerItem(c, i, f, t))
<1> DEFINE n == Len(c.peers)
           q == [c.peers[i] EXCEPT ![f] = t]
           p == [c.peers EXCEPT ![i] = q]
           v == [c EXCEPT !.peers = p]
<1>1. n \in Nat /\ c.peers = [j \in 1 .. n |-> c.peers[j]] /\ i \in 1 .. n
  BY DEF HasLists, IsText
<1>2. HasAllowedIps(q)
  <2> DEFINE items == c.peers[i]
  <2>1. "allowed_ips" \in DOMAIN items /\ IsText(items["allowed_ips"])
    BY <1>1 DEF HasLists, HasAllowedIps
  <2> HIDE DEF items
  <2>2. DOMAIN [items EXCEPT ![f] = t] = DOMAIN items
    OBVIOUS
  <2>3. [items EXCEPT ![f] = t]["allowed_ips"] = IF f = "allowed_ips" THEN t ELSE items["allowed_ips"]
    BY <2>1
  <2>4. QED
    BY <2>1, <2>2, <2>3 DEF HasAllowedIps, items
<1> HIDE DEF q
<1>3. p = [j \in 1 .. n |-> IF j = i THEN q ELSE c.peers[j]]
  BY <1>1
<1>4. Len(p) = n /\ IsText(p) /\ \A j \in 1 .. n : p[j] = IF j = i THEN q ELSE c.peers[j]
  <2> HIDE DEF p, n
  <2>1. Len(p) = n /\ \A j \in 1 .. n : p[j] = IF j = i THEN q ELSE c.peers[j]
    BY <1>1, <1>3
  <2>2. p = [j \in 1 .. n |-> p[j]]
    BY <1>3
  <2>3. QED
    BY <1>1, <2>1, <2>2 DEF IsText
<1> HIDE DEF p
<1>5. v.ip = c.ip /\ v.peers = p /\ ConnectionShape(v)
  BY DEF ConnectionShape
<1>6. HasLists(v)
  BY <1>2, <1>4, <1>5 DEF HasLists
<1>7. WithPeerItem(c, i, f, t) = v
  BY DEF WithPeerItem, p, q
<1>8. QED
  BY <1>5, <1>6, <1>7

LEMMA TakenInvariant == Spec => []TakenInv
<1>1. Init => TakenInv
  <2>1. new_reader.device = awg_device_new /\ new_reader.peer = <<>> /\ new_reader.section = "none"
    BY DEF new_reader
  <2>2. ReaderTaken(new_reader)
    BY <2>1, NewTaken DEF ReaderTaken
  <2>3. QED
    BY <2>2, FilesAssumption DEF Init, TakenInv
<1>2. SoundInv /\ SectionsInv /\ TakenInv /\ [Next]_vars => TakenInv'
  <2> SUFFICES ASSUME SoundInv, SectionsInv, TakenInv, [Next]_vars PROVE TakenInv'
    OBVIOUS
  <2>1. CASE ReadLine
    <3> DEFINE line == file[at + 1]
    <3>1. ReaderShape(reader) /\ Sound(reader.device) /\ ReaderTaken(reader)
      BY DEF SoundInv, TakenInv
    <3>2. line.key \in ListKeys => IsText(line.text)
      <4>1. Len(file) \in Int => at + 1 \in 1 .. Len(file)
        BY <2>1 DEF ReadLine, SectionsInv, ReaderInv
      <4>2. QED
        BY <4>1 DEF TakenInv
    <3> HIDE DEF line
    <3>3. ReaderTaken(read_line(reader, line))
      BY <3>1, <3>2, ReadTaken
    <3>4. QED
      BY <2>1, <3>3 DEF ReadLine, TakenInv, line
  <2>2. CASE EndOfFile
    BY <2>2, FinishTaken DEF EndOfFile, SoundInv, TakenInv
  <2>3. CASE ReadError
    <3> DEFINE r == read_error(reader)
    <3>1. r = [device |-> reader.device, peer |-> reader.peer, section |-> reader.section,
               success |-> reader.success, error |-> ErrorOr(reader, [code |-> "read", key |-> ""])]
      BY ReadErrorShape DEF SoundInv
    <3> HIDE DEF r
    <3>2. ReaderShape(r) /\ Sound(r.device)
      BY <3>1 DEF SoundInv, ReaderShape
    <3>3. r.device = reader.device /\ r.peer = reader.peer /\ r.section = reader.section
      BY <3>1
    <3>4. ReaderTaken(r)
      BY <3>3 DEF TakenInv, ReaderTaken
    <3>5. finish(r)
      BY <2>3 DEF ReadError, r
    <3>6. QED
      BY <3>2, <3>4, <3>5, FinishTaken
  <2>4. CASE Export
    <3>1. UNCHANGED <<reader, device, connection>> /\ connection # <<>>
      BY <2>4 DEF Export
    <3>2. CASE file' = file
      BY <3>1, <3>2 DEF TakenInv
    <3>3. CASE file' # file
      <4>1. file' = awg_device_create_config_string(loaded)
        BY <2>4, <3>3 DEF Export
      <4>2. Taken(loaded)
        BY <3>1, LoadedTaken DEF TakenInv, loaded
      <4>3. IsLines(file')
        BY <4>1, <4>2, WrittenLines
      <4>4. QED
        BY <3>1, <4>3 DEF TakenInv, IsLines
    <3>4. QED
      BY <3>2, <3>3
  <2>5. CASE Import
    <3>1. new_reader.device = awg_device_new /\ new_reader.peer = <<>> /\ new_reader.section = "none"
      BY DEF new_reader
    <3>2. ReaderTaken(new_reader)
      BY <3>1, NewTaken DEF ReaderTaken
    <3>3. QED
      BY <2>5, <3>2 DEF Import, TakenInv
  <2>6. CASE \E e \in Edits : SetItem(e.key, e.text)
    <3> DEFINE c == connection[1]
    <3>1. PICK e \in Edits : SetItem(e.key, e.text)
      BY <2>6
    <3>2. /\ UNCHANGED <<file, reader, device>> /\ connection # <<>> /\ IsText(e.text)
          /\ \/ connection' = <<[c EXCEPT !.number[e.key] = e.text]>>
             \/ connection' = <<[c EXCEPT !.text[e.key] = e.text]>>
             \/ \E i \in DOMAIN c.peers : connection' = <<WithPeerItem(c, i, e.key, e.text)>>
      BY <3>1, FilesAssumption DEF SetItem, WithPeerItem
    <3>3. ConnectionShape(c) /\ HasLists(c)
      BY <3>2 DEF TakenInv
    <3> HIDE DEF c
    <3>4. ASSUME NEW n, n \in {[c EXCEPT !.number[e.key] = e.text], [c EXCEPT !.text[e.key] = e.text]}
          PROVE  ConnectionShape(n) /\ HasLists(n)
      <4>1. n.peers = c.peers /\ n.ip = c.ip /\ ConnectionShape(n)
        BY <3>3, <3>4 DEF ConnectionShape
      <4>2. QED
        BY <3>3, <4>1 DEF HasLists
    <3>5. PICK n : connection' = <<n>> /\ ConnectionShape(n) /\ HasLists(n)
      BY <3>2, <3>3, <3>4, PeerItemSet
    <3>6. connection'[1] = n
      BY <3>5
    <3>7. QED
      BY <3>2, <3>5, <3>6 DEF TakenInv
  <2>7. CASE UNCHANGED vars
    BY <2>7 DEF vars, TakenInv
  <2>8. QED
    BY <2>1, <2>2, <2>3, <2>4, <2>5, <2>6, <2>7 DEF Next
<1>3. QED
  BY <1>1, <1>2, SoundInvariant, SectionsInvariant, PTL DEF Spec

-----------------------------------------------------------------------------
(* Every device can be encoded, with its peers.                            *)

LEMMA PeerEncodes ==
    ASSUME NEW p, PeerTaken(p), awg_device_peer_is_valid(p)
    PROVE  EncodablePeer(p)
<1> DEFINE s == p.allowed_ips
<1>1. ASSUME NEW i \in DOMAIN s PROVE s[i].family \in Families /\ s[i].prefix \in 0 .. Bits[s[i].family]
  <2> DEFINE e == s[i]
  <2>1. awg_subnet_is_valid(e) /\ awg_subnet_new_from_string(e) = e
    BY DEF PeerTaken, SubnetList, IsText
  <2> HIDE DEF e
  <2>2. e.prefix = IF e.prefix = NoPrefix THEN Bits[e.family] ELSE e.prefix
    BY <2>1 DEF awg_subnet_new_from_string
  <2>3. e.family \in Families /\ e.prefix \in {NoPrefix} \cup 0 .. Bits[e.family]
    BY <2>1 DEF awg_subnet_is_valid
  <2>4. Bits[e.family] \in Nat /\ NoPrefix = -1
    BY <2>3 DEF Families, Bits, NoPrefix
  <2>5. e.prefix \in 0 .. Bits[e.family]
    BY <2>2, <2>3, <2>4
  <2>6. QED
    BY <2>3, <2>5 DEF e
<1>2. /\ awg_key_from_base64(p.public_key)
      /\ p.shared_key = Unset \/ awg_key_from_base64(p.shared_key)
      /\ awg_is_valid_endpoint(p.endpoint) /\ p.keep_alive \in 0 .. U16Max
  BY DEF PeerTaken, awg_device_peer_is_valid
<1>3. QED
  BY <1>1, <1>2 DEF EncodablePeer, IsKey, awg_key_from_base64, awg_is_valid_endpoint

LEMMA DeviceEncodes ==
    ASSUME NEW d, Sound(d), Taken(d)
    PROVE  EncodableDevice(d)
<1>1. ASSUME NEW i \in DOMAIN d.peers PROVE EncodablePeer(d.peers[i])
  <2>1. PeerTaken(d.peers[i]) /\ awg_device_peer_is_valid(d.peers[i])
    BY DEF Taken, PeersTaken, IsText
  <2>2. QED
    BY <2>1, PeerEncodes
<1>2. QED
  BY <1>1 DEF EncodableDevice, Sound

\* Whatever a file or nmcli says, no device and none of its peers ever holds a
\* value that a backend cannot encode; a magic header or a packet of white
\* space is no value.
THEOREM DevicesAreEncodable == Spec => []DeviceEncodable
<1>1. SoundInv /\ TakenInv => DeviceEncodable
  <2> SUFFICES ASSUME SoundInv, TakenInv PROVE DeviceEncodable
    OBVIOUS
  <2>1. EncodableDevice(reader.device)
    BY DeviceEncodes DEF SoundInv, TakenInv, ReaderTaken
  <2>2. device # <<>> => EncodableDevice(device[1])
    BY DeviceEncodes DEF SoundInv, TakenInv
  <2>3. ASSUME connection # <<>> PROVE EncodableDevice(loaded)
    <3>1. Sound(loaded) /\ Taken(loaded)
      BY <2>3, LoadedSound, LoadedTaken DEF TakenInv, loaded
    <3>2. QED
      BY <3>1, DeviceEncodes
  <2>4. QED
    BY <2>1, <2>2, <2>3 DEF DeviceEncodable
<1>2. QED
  BY <1>1, SoundInvariant, TakenInvariant, PTL

(***************************************************************************)
(* What is saved loads as it was.                                          *)
(***************************************************************************)

LEMMA PickAll ==
    ASSUME NEW s, IsText(s)
    PROVE  Pick(s, 1 .. Len(s)) = s
<1> DEFINE n == Len(s)
           P == 1 .. n
<1>1. n \in Nat /\ s = [i \in 1 .. n |-> s[i]]
  BY DEF IsText
<1> HIDE DEF n
<1>2. Cardinality(P) = n
  BY <1>1, IntervalSize
<1>3. ASSUME NEW k \in 1 .. n PROVE Nth(P, k) = k
  <2>1. {j \in P : j <= k} = 1 .. k
    BY <1>1
  <2>2. k \in Nat /\ Cardinality(1 .. k) = k
    BY <1>1, IntervalSize
  <2>3. Rank(P, k) = k
    BY <2>1, <2>2 DEF Rank
  <2>4. P \subseteq 1 .. n /\ k \in P
    OBVIOUS
  <2> HIDE DEF P
  <2>5. k \in 1 .. Cardinality(P)
    BY <1>2
  <2>6. \A i \in P : Rank(P, i) = k => i = Nth(P, k)
    BY <1>1, <2>4, <2>5, NthFacts
  <2>7. QED
    BY <2>3, <2>4, <2>6
<1>4. Pick(s, P) = [k \in 1 .. n |-> s[Nth(P, k)]]
  BY <1>2 DEF Pick
<1>5. Pick(s, P) = [k \in 1 .. n |-> s[k]]
  BY <1>3, <1>4
<1>6. QED
  BY <1>1, <1>5 DEF n

LEMMA SubnetsStay ==
    ASSUME NEW s, SubnetList(s)
    PROVE  Subnets(s) = s /\ Subnets(Entries(s)) = s
<1>1. IsText(s) /\ \A i \in 1 .. Len(s) : awg_subnet_is_valid(s[i]) /\ awg_subnet_new_from_string(s[i]) = s[i]
  BY DEF SubnetList
<1>2. DOMAIN s = 1 .. Len(s) /\ s = [i \in 1 .. Len(s) |-> s[i]]
  BY <1>1 DEF IsText
<1>3. Subnets(s) = s
  <2>1. Subnets(s) = [i \in 1 .. Len(s) |-> awg_subnet_new_from_string(s[i])]
    BY <1>2 DEF Subnets
  <2>2. QED
    BY <1>1, <1>2, <2>1
<1>4. {i \in DOMAIN s : s[i] # Blank} = 1 .. Len(s)
  <2>1. \A i \in 1 .. Len(s) : s[i] # Blank
    BY <1>1 DEF awg_subnet_is_valid, Families, Blank
  <2>2. QED
    BY <1>2, <2>1
<1>5. Entries(s) = s
  BY <1>1, <1>4, PickAll DEF Entries
<1>6. QED
  BY <1>3, <1>5

LEMMA OwnAddresses ==
    ASSUME NEW f, NEW a, AddressList(a, f), NEW g
    PROVE  AddressesOf(a, g) = IF g = f THEN a ELSE <<>>
<1> DEFINE P == {i \in DOMAIN a : awg_subnet_is_valid(a[i]) /\ a[i].family = g}
<1>1. AddressesOf(a, g) = Subnets(Pick(a, P))
  BY DEF AddressesOf
<1>2. IsText(a) /\ SubnetList(a) /\ \A i \in 1 .. Len(a) : awg_subnet_is_valid(a[i]) /\ a[i].family = f
  BY DEF AddressList, SubnetList
<1>3. DOMAIN a = 1 .. Len(a)
  BY <1>2 DEF IsText
<1>4. CASE g = f
  <2>1. P = 1 .. Len(a)
    BY <1>2, <1>3, <1>4
  <2>2. QED
    BY <1>1, <1>2, <1>4, <2>1, PickAll, SubnetsStay
<1>5. CASE g # f
  <2>1. P = {}
    BY <1>2, <1>3, <1>5
  <2>2. Pick(a, P) = <<>>
    BY <2>1, PickNone
  <2>3. SubnetList(<<>>)
    BY DEF SubnetList, IsText
  <2>4. QED
    BY <1>1, <1>5, <2>2, <2>3, SubnetsStay
<1>6. QED
  BY <1>4, <1>5

LEMMA OwnServers ==
    ASSUME NEW f, NEW s, ServerList(s, f), NEW g
    PROVE  OfFamily(s, g) = IF g = f THEN s ELSE <<>>
<1> DEFINE P == {i \in DOMAIN s : s[i].family = g}
<1>1. OfFamily(s, g) = Pick(s, P)
  BY DEF OfFamily
<1>2. IsText(s) /\ DOMAIN s = 1 .. Len(s) /\ \A i \in 1 .. Len(s) : s[i].family = f
  BY DEF ServerList, IsText
<1>3. CASE g = f
  <2>1. P = 1 .. Len(s)
    BY <1>2, <1>3
  <2>2. QED
    BY <1>1, <1>2, <1>3, <2>1, PickAll
<1>4. CASE g # f
  <2>1. P = {}
    BY <1>2, <1>4
  <2>2. QED
    BY <1>1, <1>4, <2>1, PickNone
<1>5. QED
  BY <1>3, <1>4

LEMMA DistinctIs ==
    ASSUME NEW f, NEW s, ServerList(s, f)
    PROVE  ServerList(Distinct(s), f) /\ (Distinct(s) = <<>> <=> s = <<>>)
<1> DEFINE P == {i \in DOMAIN s : \A j \in 1 .. i - 1 : s[j] # s[i]}
           q == Distinct(s)
           n == Len(s)
<1>1. /\ IsText(s) /\ n \in Nat /\ DOMAIN s = 1 .. n
      /\ \A i \in 1 .. n : IsAddress(s[i]) /\ s[i].family = f
  BY DEF ServerList, IsText
<1>2. q = Pick(s, P) /\ P \subseteq 1 .. n
  BY <1>1 DEF Distinct
<1>3. n = 0 \/ 1 \in P
  BY <1>1
<1> HIDE DEF P, q, n
<1>4. IsText(q) /\ Len(q) = Cardinality(P) /\ Cardinality(P) \in Nat
  BY <1>1, <1>2, PickIs
<1>5. ASSUME NEW k \in 1 .. Cardinality(P) PROVE q[k] = s[Nth(P, k)] /\ Nth(P, k) \in P
  BY <1>1, <1>2, NthFacts DEF Pick
<1>6. ServerList(q, f)
  BY <1>1, <1>2, <1>4, <1>5 DEF ServerList
<1>7. CASE n = 0
  <2>1. P = {}
    BY <1>2, <1>7
  <2>2. q = <<>>
    BY <1>2, <2>1, PickNone
  <2>3. s = <<>>
    BY <1>1, <1>7 DEF IsText, n
  <2>4. QED
    BY <1>6, <2>2, <2>3 DEF q
<1>8. CASE n # 0
  <2>1. P \in SUBSET (1 .. n) /\ IsFiniteSet(P)
    BY <1>1, <1>2, IntervalSize, FS_Subset
  <2>2. Cardinality(P) # 0
    BY <1>3, <1>8, <2>1, FS_EmptySet
  <2>3. Len(q) # 0 /\ Len(s) # 0 /\ Len(<<>>) = 0
    BY <1>4, <1>8, <2>2 DEF n
  <2>4. q # <<>> /\ s # <<>>
    BY <2>3
  <2>5. QED
    BY <1>6, <2>4 DEF q
<1>9. QED
  BY <1>7, <1>8

LEMMA AddressesLoad ==
    ASSUME NEW a, AddressesTaken(a)
    PROVE  AddressesAfter(AddressesAfter(awg_device_new.address, a["v4"]), a["v6"]) = a
<1> DEFINE a4 == a["v4"]
           a6 == a["v6"]
           x == AddressesAfter(awg_device_new.address, a4)
           y == AddressesAfter(x, a6)
<1>1. AddressList(a4, "v4") /\ AddressList(a6, "v6") /\ a = [f \in {"v4", "v6"} |-> a[f]]
  BY DEF AddressesTaken, Families
<1>2. ASSUME NEW b, NEW f, AddressList(b, f) PROVE IsText(b) /\ First(b) = b
  <2>1. IsText(b) /\ Len(b) \in {0, 1} /\ b = [i \in 1 .. Len(b) |-> b[i]]
    BY <1>2 DEF AddressList, SubnetList, IsText
  <2>2. CASE Len(b) = 0
    BY <2>1, <2>2 DEF First
  <2>3. CASE Len(b) = 1
    BY <2>1, <2>3 DEF First
  <2>4. QED
    BY <2>1, <2>2, <2>3
<1>3. IsText(a4) /\ First(a4) = a4 /\ IsText(a6) /\ First(a6) = a6 /\ First(<<>>) = <<>> /\ IsText(<<>>)
  BY <1>1, <1>2 DEF First, IsText
<1> HIDE DEF a4, a6
<1>4. /\ AddressesOf(a4, "v4") = a4 /\ AddressesOf(a4, "v6") = <<>>
      /\ AddressesOf(a6, "v4") = <<>> /\ AddressesOf(a6, "v6") = a6
  <2>1. AddressesOf(a4, "v4") = a4 /\ AddressesOf(a6, "v6") = a6
    BY <1>1, OwnAddresses
  <2>2. AddressesOf(a4, "v6") = IF "v6" = "v4" THEN a4 ELSE <<>>
    BY <1>1, OwnAddresses
  <2>3. AddressesOf(a6, "v4") = IF "v4" = "v6" THEN a6 ELSE <<>>
    BY <1>1, OwnAddresses
  <2>4. QED
    BY <2>1, <2>2, <2>3
<1>5. /\ <<>> \o a4 = a4 /\ a4 \o <<>> = a4 /\ <<>> \o a6 = a6 /\ <<>> \o <<>> = <<>>
  BY <1>3, EmptyCat
<1>6. awg_device_new.address["v4"] = <<>> /\ awg_device_new.address["v6"] = <<>>
  BY DEF awg_device_new, Families
<1>7. x["v4"] = a4 /\ x["v6"] = <<>>
  BY <1>3, <1>4, <1>5, <1>6 DEF AddressesAfter, Families
<1> HIDE DEF x
<1>8. y = [f \in {"v4", "v6"} |-> y[f]] /\ y["v4"] = a4 /\ y["v6"] = a6
  BY <1>3, <1>4, <1>5, <1>7 DEF AddressesAfter, Families
<1> HIDE DEF y
<1>9. y = a
  BY <1>1, <1>8 DEF a4, a6
<1>10. QED
  BY <1>9 DEF y, x, a4, a6

\* The servers that stay: those of IPv4 do not if there are others.
ServersLeft(s) ==
    [f \in Families |-> IF f = "v4" /\ s["v6"] # <<>> THEN <<>> ELSE Distinct(s[f])]

LEMMA ServersLoad ==
    ASSUME NEW s, ServersTaken(s)
    PROVE  ServersAfter(ServersAfter(awg_device_new.dns, Distinct(s["v4"])), Distinct(s["v6"]))
               = ServersLeft(s)
<1> DEFINE s4 == Distinct(s["v4"])
           s6 == Distinct(s["v6"])
           none == awg_device_new.dns
           x == ServersAfter(none, s4)
           y == ServersAfter(x, s6)
<1>1. ServerList(s["v4"], "v4") /\ ServerList(s["v6"], "v6")
  BY DEF ServersTaken, Families
<1>2. ServerList(s4, "v4") /\ ServerList(s6, "v6") /\ (s6 = <<>> <=> s["v6"] = <<>>)
  BY <1>1, DistinctIs
<1> HIDE DEF s4, s6
<1>3. ASSUME NEW q, NEW f, ServerList(q, f) PROVE \A i \in DOMAIN q : q[i] = Blank \/ IsAddress(q[i])
  BY <1>3 DEF ServerList, IsText
<1>4. (\A i \in DOMAIN s4 : s4[i] = Blank \/ IsAddress(s4[i])) /\ (\A i \in DOMAIN s6 : s6[i] = Blank \/ IsAddress(s6[i]))
  BY <1>2, <1>3
<1>5. OfFamily(s4, "v4") = s4 /\ OfFamily(s6, "v6") = s6
  BY <1>2, OwnServers
<1>6. OfFamily(s4, "v6") = IF "v6" = "v4" THEN s4 ELSE <<>>
  BY <1>2, OwnServers
<1>7. OfFamily(s6, "v4") = IF "v4" = "v6" THEN s6 ELSE <<>>
  BY <1>2, OwnServers
<1>8. none = [f \in Families |-> <<>>]
  BY DEF awg_device_new
<1> HIDE DEF none
<1>9. x = [f \in Families |-> IF f = "v4" THEN s4 ELSE <<>>]
  <2>1. CASE s4 = <<>>
    <3>1. x = none
      BY <2>1 DEF ServersAfter
    <3>2. QED
      BY <1>8, <2>1, <3>1
  <2>2. CASE s4 # <<>>
    <3>1. x = [f \in Families |-> OfFamily(s4, f)]
      BY <1>4, <2>2 DEF ServersAfter
    <3>2. QED
      BY <1>5, <1>6, <3>1 DEF Families
  <2>3. QED
    BY <2>1, <2>2
<1> HIDE DEF x
<1>10. y = IF s6 = <<>> THEN x ELSE [f \in Families |-> IF f = "v6" THEN s6 ELSE <<>>]
  <2>1. CASE s6 = <<>>
    BY <2>1 DEF ServersAfter
  <2>2. CASE s6 # <<>>
    <3>1. y = [f \in Families |-> OfFamily(s6, f)]
      BY <1>4, <2>2 DEF ServersAfter
    <3>2. QED
      BY <1>5, <1>7, <2>2, <3>1 DEF Families
  <2>3. QED
    BY <2>1, <2>2
<1> HIDE DEF y
<1>11. y = ServersLeft(s)
  <2>1. ServersLeft(s) = [f \in {"v4", "v6"} |-> IF f = "v4" THEN IF s6 # <<>> THEN <<>> ELSE s4 ELSE s6]
    BY <1>2 DEF ServersLeft, Families, s4, s6
  <2>2. QED
    BY <1>9, <1>10, <2>1 DEF Families
<1>12. QED
  BY <1>11 DEF y, x, none, s4, s6

LEMMA PeerStays ==
    ASSUME NEW p, PeerTaken(p), awg_device_peer_is_valid(p)
    PROVE  load_peer(PeerItem(p)) = p
<1> DEFINE items == PeerItem(p)
           new == awg_device_peer_new
           p1 == awg_device_peer_set_public_key(new, items.public_key).value
           p2 == awg_device_peer_set_shared_key(p1, items.shared_key).value
           p3 == awg_device_peer_set_endpoint(p2, items.endpoint).value
           p4 == awg_device_peer_set_allowed_ips_from_string(p3, items.allowed_ips).value
           p5 == awg_device_peer_set_keep_alive_interval_from_string(p4, items.keep_alive).value
           on == items.advanced_security = <<On>>
           p6 == [p5 EXCEPT !.advanced_security = on]
           Made(a, b, c, d, e, f) == [public_key |-> a, shared_key |-> b, endpoint |-> c,
                                      allowed_ips |-> d, keep_alive |-> e, advanced_security |-> f]
           no == FALSE
<1>1. load_peer(items) = p6
  BY DEF load_peer, awg_device_peer_set_advanced_security
<1>2. /\ items.public_key = p.public_key /\ items.shared_key = p.shared_key
      /\ items.endpoint = p.endpoint /\ items.allowed_ips = p.allowed_ips
      /\ items.keep_alive = <<p.keep_alive>>
      /\ items.advanced_security = IF p.advanced_security THEN <<On>> ELSE <<Off>>
  BY DEF PeerItem, PeerTaken
<1>3. on = p.advanced_security
  <2>1. p.advanced_security \in BOOLEAN /\ <<On>> # <<Off>>
    BY WordsAssumption DEF PeerTaken
  <2>2. CASE p.advanced_security
    BY <1>2, <2>2
  <2>3. CASE ~p.advanced_security
    BY <1>2, <2>1, <2>3
  <2>4. QED
    BY <2>1, <2>2, <2>3
<1> HIDE DEF items, on, no
<1>4. new = Made(Unset, Unset, Unset, <<>>, 0, no)
  BY DEF awg_device_peer_new, no
<1> HIDE DEF new
<1>5. p1 = Made(p.public_key, Unset, Unset, <<>>, 0, no)
  <2>1. awg_key_from_base64(p.public_key)
    BY DEF PeerTaken, awg_device_peer_is_valid
  <2>2. p1 = [new EXCEPT !.public_key = p.public_key]
    BY <1>2, <2>1 DEF awg_device_peer_set_public_key, Accept
  <2>3. QED
    BY <1>4, <2>2
<1> HIDE DEF p1
<1>6. p2 = Made(p.public_key, p.shared_key, Unset, <<>>, 0, no)
  <2>1. p.shared_key = Unset \/ awg_key_from_base64(p.shared_key)
    BY DEF PeerTaken
  <2>2. p2 = [p1 EXCEPT !.shared_key = p.shared_key]
    BY <1>2, <2>1 DEF awg_device_peer_set_shared_key, Accept
  <2>3. QED
    BY <1>5, <2>2
<1> HIDE DEF p2
<1>7. p3 = Made(p.public_key, p.shared_key, p.endpoint, <<>>, 0, no)
  <2>1. awg_is_valid_endpoint(p.endpoint)
    BY DEF PeerTaken, awg_device_peer_is_valid
  <2>2. p3 = [p2 EXCEPT !.endpoint = p.endpoint]
    BY <1>2, <2>1 DEF awg_device_peer_set_endpoint, Accept
  <2>3. QED
    BY <1>6, <2>2
<1> HIDE DEF p3
<1>8. p4 = Made(p.public_key, p.shared_key, p.endpoint, p.allowed_ips, 0, no)
  <2> DEFINE t == p.allowed_ips
  <2>1. SubnetList(t) /\ t # <<>>
    BY DEF PeerTaken, awg_device_peer_is_valid
  <2>2. \A i \in DOMAIN t : awg_subnet_is_valid(t[i])
    BY <2>1 DEF SubnetList, IsText
  <2>3. Subnets(Entries(t)) = t
    BY <2>1, SubnetsStay
  <2>4. p4 = [p3 EXCEPT !.allowed_ips = Subnets(Entries(t))]
    BY <1>2, <2>1, <2>2 DEF awg_device_peer_set_allowed_ips_from_string, Accept
  <2>5. QED
    BY <1>7, <2>3, <2>4
<1> HIDE DEF p4
<1>9. p5 = Made(p.public_key, p.shared_key, p.endpoint, p.allowed_ips, p.keep_alive, no)
  <2> DEFINE n == p.keep_alive
  <2>1. n \in 0 .. U16Max /\ n # Off
    BY WordsAssumption DEF PeerTaken
  <2> HIDE DEF n
  <2>2. <<n>> # <<Off>> /\ Len(<<n>>) = 1 /\ <<n>>[1] = n
    BY <2>1
  <2>3. p5 = [p4 EXCEPT !.keep_alive = n]
    BY <1>2, <2>1, <2>2 DEF awg_device_peer_set_keep_alive_interval_from_string, Accept, IsUnsigned, n
  <2>4. QED
    BY <1>8, <2>3 DEF n
<1> HIDE DEF p5
<1>10. p6 = Made(p.public_key, p.shared_key, p.endpoint, p.allowed_ips, p.keep_alive, on)
  BY <1>9
<1>11. p = Made(p.public_key, p.shared_key, p.endpoint, p.allowed_ips, p.keep_alive, p.advanced_security)
  BY DEF PeerTaken
<1> HIDE DEF p6
<1>12. QED
  BY <1>1, <1>3, <1>10, <1>11 DEF items

LEMMA PeersLoad ==
    ASSUME NEW peers, PeersTaken(peers), \A i \in DOMAIN peers : awg_device_peer_is_valid(peers[i])
    PROVE  ValidPeers(ReadPeers([i \in DOMAIN peers |-> PeerItem(peers[i])]))
               = [i \in 1 .. Min({Len(peers), MaxPeers}) |-> peers[i]]
<1> DEFINE items == [i \in DOMAIN peers |-> PeerItem(peers[i])]
           n == Len(peers)
           tried == Min({n, MaxPeers})
           missing == {i \in 1 .. Len(items) : items[i].public_key = Unset}
           read == ReadPeers(items)
           kept == [i \in 1 .. tried |-> peers[i]]
<1>1. n \in Nat /\ DOMAIN peers = 1 .. n /\ MaxPeers \in Nat
  BY ProfileCodecAssumption DEF PeersTaken, IsText
<1>2. tried \in {n, MaxPeers} /\ tried <= n /\ tried \in Nat
  <2>1. {n, MaxPeers} \subseteq 0 .. n + MaxPeers /\ {n, MaxPeers} # {} /\ n + MaxPeers \in Nat
    BY <1>1
  <2>2. tried \in {n, MaxPeers} /\ \A k \in {n, MaxPeers} : tried <= k
    BY <2>1, MinFacts
  <2>3. QED
    BY <1>1, <2>2
<1>3. Len(items) = n /\ \A i \in 1 .. n : items[i] = PeerItem(peers[i])
  BY <1>1
<1>4. \A i \in 1 .. n : items[i].public_key # Unset /\ load_peer(items[i]) = peers[i]
  <2> SUFFICES ASSUME NEW i \in 1 .. n PROVE items[i].public_key # Unset /\ load_peer(items[i]) = peers[i]
    OBVIOUS
  <2> DEFINE p == peers[i]
  <2>1. PeerTaken(p) /\ awg_device_peer_is_valid(p) /\ items[i] = PeerItem(p)
    BY <1>1, <1>3 DEF PeersTaken
  <2> HIDE DEF p, items
  <2>2. PeerItem(p).public_key = p.public_key /\ p.public_key # Unset
    BY <2>1 DEF PeerTaken, PeerItem, awg_device_peer_is_valid
  <2>3. load_peer(PeerItem(p)) = p
    BY <2>1, PeerStays
  <2>4. QED
    BY <2>1, <2>2, <2>3 DEF p
<1>5. DOMAIN numbered(items) = 1 .. tried
  <2>1. missing = {}
    BY <1>3, <1>4
  <2>2. {tried} \cup {j - 1 : j \in missing} = {tried}
    BY <2>1
  <2>3. tried = Min({Len(items), MaxPeers})
    BY <1>3
  <2>4. DOMAIN numbered(items) = 1 .. Min({tried} \cup {j - 1 : j \in missing})
    BY <2>3 DEF numbered
  <2> HIDE DEF tried, missing
  <2>5. Min({tried}) = tried
    <3>1. {tried} \subseteq 0 .. tried /\ {tried} # {}
      BY <1>2
    <3>2. Min({tried}) \in {tried}
      BY <1>2, <3>1, MinFacts
    <3>3. QED
      BY <3>2
  <2>6. QED
    BY <2>2, <2>4, <2>5
<1> HIDE DEF tried, items
<1>6. read = [i \in 1 .. tried |-> load_peer(items[i])]
  BY <1>5 DEF ReadPeers
<1> HIDE DEF read
<1>7. \A i \in 1 .. tried : i \in 1 .. n /\ i \in DOMAIN peers
  <2> SUFFICES ASSUME NEW i \in 1 .. tried PROVE i \in 1 .. n
    BY <1>1
  <2>1. tried \in Nat /\ n \in Nat /\ tried <= n
    BY <1>1, <1>2
  <2> HIDE DEF n
  <2>2. QED
    BY <2>1
<1>8. read = kept
  BY <1>4, <1>6, <1>7
<1>9. kept = [i \in 1 .. tried |-> kept[i]] /\ DOMAIN kept = 1 .. tried
      /\ \A i \in 1 .. tried : kept[i] = peers[i]
  OBVIOUS
<1> HIDE DEF kept
<1>10. Len(kept) = tried
  BY <1>2, <1>9
<1>11. \A i \in 1 .. tried : awg_device_peer_is_valid(kept[i])
  <2> SUFFICES ASSUME NEW i \in 1 .. tried PROVE awg_device_peer_is_valid(kept[i])
    OBVIOUS
  <2>1. i \in DOMAIN peers /\ kept[i] = peers[i]
    BY <1>7, <1>9
  <2>2. QED
    BY <2>1
<1>12. IsText(kept)
  BY <1>2, <1>9, <1>10 DEF IsText
<1>13. {i \in DOMAIN kept : awg_device_peer_is_valid(kept[i])} = 1 .. Len(kept)
  BY <1>9, <1>10, <1>11
<1>14. ValidPeers(kept) = kept
  BY <1>12, <1>13, PickAll DEF ValidPeers
<1>15. QED
  BY <1>8, <1>14 DEF kept, read, tried, items

LEMMA TextStays ==
    ASSUME NEW d, Taken(d), NEW f \in TextFields, NEW c, c.text[f] = d.text[f]
    PROVE  load_text(c, f) = d.text[f]
<1> DEFINE t == d.text[f]
           new == awg_device_new
<1>1. TextTaken(f, t)
  BY DEF Taken
<1>2. CASE t = Unset
  BY <1>2 DEF load_text
<1>3. CASE t # Unset
  <2> DEFINE v == interface_item(new, f, t)
  <2>1. load_text(c, f) = v.value.text[f]
    BY <1>3, ItemCases DEF load_text, TextFields, KeyFields, HeaderFields, PacketFields, RangeFields, ScriptFields
  <2>2. v.value = [new EXCEPT !.text[f] = t]
    <3> HIDE DEF t, new
    <3>1. CASE f = "private_key"
      <4>1. v = awg_device_set_private_key(new, t) /\ awg_key_from_base64(t)
        BY <1>1, <1>3, <3>1, ItemCases DEF TextTaken, KeyFields
      <4>2. QED
        BY <3>1, <4>1 DEF awg_device_set_private_key, Accept
    <3>2. CASE f = "public_key"
      <4>1. v = awg_device_set_public_key(new, t) /\ awg_key_from_base64(t)
        BY <1>1, <1>3, <3>2, ItemCases DEF TextTaken, KeyFields
      <4>2. QED
        BY <3>2, <4>1 DEF awg_device_set_public_key, Accept
    <3>3. CASE f = "header_protection_key"
      <4>1. v = awg_device_set_header_protection_key(new, t) /\ awg_key_from_base64(t)
        BY <1>1, <1>3, <3>3, ItemCases DEF TextTaken, KeyFields
      <4>2. QED
        BY <3>3, <4>1 DEF awg_device_set_header_protection_key, set_text, Accept
    <3>4. CASE f \in HeaderFields
      <4>1. v = awg_device_set_h(new, f, t) /\ awg_validate_magic_header(t)
        BY <1>1, <1>3, <3>4, ItemCases DEF TextTaken
      <4>2. QED
        BY <4>1 DEF awg_device_set_h, set_text, Accept
    <3>5. CASE f \in PacketFields
      <4>1. v = awg_device_set_i(new, f, t) /\ awg_validate_i_packet(t)
        BY <1>1, <1>3, <3>5, ItemCases DEF TextTaken
      <4>2. QED
        BY <4>1 DEF awg_device_set_i, set_text, Accept
    <3>6. CASE f \in RangeFields
      <4>1. v = awg_device_set_range(new, f, t) /\ awg_range_parse_u32(t)
        BY <1>1, <1>3, <3>6, ItemCases DEF TextTaken
      <4>2. QED
        BY <4>1 DEF awg_device_set_range, set_text, Accept
    <3>7. CASE f \in ScriptFields
      <4>1. v = awg_device_set_script(new, f, t)
        BY <3>7, ItemCases
      <4>2. QED
        BY <4>1 DEF awg_device_set_script, Accept
    <3>8. QED
      BY <3>1, <3>2, <3>3, <3>4, <3>5, <3>6, <3>7 DEF TextFields, KeyFields
  <2>3. [new EXCEPT !.text[f] = t].text[f] = t
    BY NewSound DEF Sound, DeviceShape
  <2>4. QED
    BY <2>1, <2>2, <2>3
<1>4. QED
  BY <1>2, <1>3

LEMMA NumberStays ==
    ASSUME NEW d, Sound(d), Taken(d), NEW f \in NumberFields, NEW c, c.number[f] = NumberItem(d, f)
    PROVE  load_number(c, f) = d.number[f]
<1> DEFINE n == d.number[f]
           t == <<n>>
           new == awg_device_new
<1>1. n \in 0 .. MaxOf(f)
  BY DEF Sound, Encodable
<1>2. f = "mtu" => n = 0 \/ n >= 68
  BY DEF Taken
<1> HIDE DEF n
<1>3. CASE c.number[f] = Unset
  <2>1. t # Unset
    BY DEF Unset
  <2>2. n = 0
    BY <1>3, <2>1 DEF NumberItem, n
  <2>3. QED
    BY <1>3, <2>2 DEF load_number, n
<1>4. CASE c.number[f] # Unset
  <2>1. c.number[f] = t /\ t # Unset
    BY <1>4 DEF NumberItem, n, Unset
  <2> DEFINE v == interface_item(new, f, t)
  <2>2. load_number(c, f) = v.value.number[f]
    BY <2>1, ItemCases DEF load_number, NumberFields, JunkFields, PaddingFields
  <2>3. v.value = [new EXCEPT !.number[f] = n]
    <3>1. Len(t) = 1 /\ t[1] = n
      OBVIOUS
    <3> HIDE DEF t, new
    <3>2. CASE f = "mtu"
      <4>1. v = awg_device_set_mtu_from_string(new, t) /\ IsUnsigned(t, 1500)
        BY <1>1, <3>1, <3>2, ItemCases DEF MaxOf, IsUnsigned
      <4>2. QED
        BY <1>2, <2>1, <3>1, <3>2, <4>1 DEF awg_device_set_mtu_from_string, Accept
    <3>3. CASE f # "mtu"
      <4>1. v = set_number(new, f, t, MaxOf(f))
        BY <3>3, ItemCases DEF MaxOf, NumberFields, JunkFields, PaddingFields,
             awg_device_set_listen_port_from_string, awg_device_set_fw_mark_from_string,
             awg_device_set_junk_from_string, awg_device_set_padding_from_string, PaddingMax
      <4>2. IsUnsigned(t, MaxOf(f))
        BY <1>1, <3>1 DEF IsUnsigned
      <4>3. QED
        BY <3>1, <4>1, <4>2 DEF set_number, Accept
    <3>4. QED
      BY <3>2, <3>3
  <2>4. [new EXCEPT !.number[f] = n].number[f] = n
    BY NewSound DEF Sound, DeviceShape
  <2>5. QED
    BY <2>2, <2>3, <2>4 DEF n
<1>5. QED
  BY <1>3, <1>4

LEMMA FlagsStay ==
    ASSUME NEW d, Sound(d), NEW c, \A f \in FlagFields : c.text[f] = FlagItem(d, f)
    PROVE  load_flags(c) = d.on
<1>1. d.on \subseteq FlagFields
  BY DEF Sound, Encodable
<1>2. \A f \in FlagFields : (\E w \in FlagWords : c.text[f] = <<w>>) <=> f \in d.on
  BY ProfileCodecAssumption DEF FlagItem, Unset
<1>3. QED
  BY <1>1, <1>2 DEF load_flags

\* A device that is saved loads as it was, but for the servers and peers that
\* are left out.
LEMMA SavedLoadsAs ==
    ASSUME NEW d, Sound(d), Taken(d), awg_device_is_valid(d), NEW old
    PROVE  awg_device_new_from_nm_connection(awg_device_save_to_nm_connection(d, old)) =
               [d EXCEPT !.dns = ServersLeft(d.dns),
                         !.peers = [i \in 1 .. Min({Len(d.peers), MaxPeers}) |-> d.peers[i]]]
<1> DEFINE c == awg_device_save_to_nm_connection(d, old)
           dns == ServersLeft(d.dns)
           peers == [i \in 1 .. Min({Len(d.peers), MaxPeers}) |-> d.peers[i]]
           items == [i \in DOMAIN d.peers |-> PeerItem(d.peers[i])]
<1>1. /\ \A f \in TextFields : c.text[f] = d.text[f]
      /\ \A f \in FlagFields : c.text[f] = FlagItem(d, f)
      /\ \A f \in NumberFields : c.number[f] = NumberItem(d, f)
      /\ \A f \in Families : c.ip[f].addresses = d.address[f] /\ c.ip[f].dns = Distinct(d.dns[f])
      /\ c.peers = items
  <2>1. \A f \in TextFields : f \notin FlagFields
    BY DEF TextFields, FlagFields, KeyFields, HeaderFields, PacketFields, RangeFields, ScriptFields
  <2>2. QED
    BY <2>1 DEF awg_device_save_to_nm_connection, ip_setting
<1> HIDE DEF c
<1>2. \A f \in TextFields : load_text(c, f) = d.text[f]
  BY <1>1, TextStays
<1>3. \A f \in NumberFields : load_number(c, f) = d.number[f]
  BY <1>1, NumberStays
<1>4. load_flags(c) = d.on
  BY <1>1, FlagsStay
<1>5. AddressesAfter(AddressesAfter(awg_device_new.address, c.ip["v4"].addresses), c.ip["v6"].addresses)
          = d.address
  BY <1>1, AddressesLoad DEF Families, Taken
<1>6. ServersAfter(ServersAfter(awg_device_new.dns, c.ip["v4"].dns), c.ip["v6"].dns) = dns
  BY <1>1, ServersLoad DEF Families, Taken
<1>7. ValidPeers(ReadPeers(c.peers)) = peers
  <2>1. PeersTaken(d.peers) /\ \A i \in DOMAIN d.peers : awg_device_peer_is_valid(d.peers[i])
    BY DEF Taken, awg_device_is_valid
  <2>2. ValidPeers(ReadPeers(items)) = peers
    BY <2>1, PeersLoad
  <2>3. QED
    BY <1>1, <2>2
<1> HIDE DEF dns, peers
<1>8. awg_device_new_from_nm_connection(c) =
          [text |-> [f \in TextFields |-> d.text[f]], number |-> [f \in NumberFields |-> d.number[f]],
           on |-> d.on, address |-> d.address, dns |-> dns, peers |-> peers]
  <2>1. /\ [f \in TextFields |-> load_text(c, f)] = [f \in TextFields |-> d.text[f]]
        /\ [f \in NumberFields |-> load_number(c, f)] = [f \in NumberFields |-> d.number[f]]
    BY <1>2, <1>3
  <2>2. QED
    BY <1>4, <1>5, <1>6, <1>7, <2>1, LoadedIs
<1>9. [d EXCEPT !.dns = dns, !.peers = peers] =
          [text |-> [f \in TextFields |-> d.text[f]], number |-> [f \in NumberFields |-> d.number[f]],
           on |-> d.on, address |-> d.address, dns |-> dns, peers |-> peers]
  <2> DEFINE text == [f \in TextFields |-> d.text[f]]
             number == [f \in NumberFields |-> d.number[f]]
             Made(a, b) == [text |-> text, number |-> number,
                            on |-> d.on, address |-> d.address, dns |-> a, peers |-> b]
  <2>1. d = Made(d.dns, d.peers)
    BY DEF Sound, DeviceShape
  <2> HIDE DEF text, number
  <2>2. /\ [Made(d.dns, d.peers) EXCEPT !.dns = dns, !.peers = peers]
               = [[Made(d.dns, d.peers) EXCEPT !.dns = dns] EXCEPT !.peers = peers]
        /\ [Made(d.dns, d.peers) EXCEPT !.dns = dns] = Made(dns, d.peers)
        /\ [Made(dns, d.peers) EXCEPT !.peers = peers] = Made(dns, peers)
    <3>1. [Made(d.dns, d.peers) EXCEPT !.dns = dns, !.peers = peers]
               = [[Made(d.dns, d.peers) EXCEPT !.dns = dns] EXCEPT !.peers = peers]
      OBVIOUS
    <3>2. [Made(d.dns, d.peers) EXCEPT !.dns = dns] = Made(dns, d.peers)
      OBVIOUS
    <3>3. [Made(dns, d.peers) EXCEPT !.peers = peers] = Made(dns, peers)
      OBVIOUS
    <3>4. QED
      BY <3>1, <3>2, <3>3
  <2> HIDE DEF Made
  <2>3. [d EXCEPT !.dns = dns, !.peers = peers] = Made(dns, peers)
    BY <2>1, <2>2
  <2>4. QED
    BY <2>3 DEF Made, text, number
<1>10. QED
  BY <1>8, <1>9 DEF c, dns, peers

\* The profile of an imported file loads as the device that was parsed, but for
\* the servers and peers that are left out.
THEOREM ProfileIsDevice == Spec => []ProfileKeepsDevice
<1>1. SoundInv /\ TakenInv /\ SavedInv => ProfileKeepsDevice
  <2> SUFFICES ASSUME SoundInv, TakenInv, SavedInv, Unedited PROVE ProfileKeepsDevice
    BY DEF ProfileKeepsDevice
  <2> DEFINE d == device[1]
             c == awg_device_save_to_nm_connection(d, no_connection)
  <2>1. Sound(d) /\ Taken(d) /\ awg_device_is_valid(d)
    BY DEF SoundInv, TakenInv, Unedited
  <2>2. connection = <<c>>
    BY DEF SavedInv
  <2> HIDE DEF c, d
  <2>3. connection[1] = c
    BY <2>2
  <2>4. loaded = awg_device_new_from_nm_connection(c)
    BY <2>3 DEF loaded
  <2>5. awg_device_new_from_nm_connection(c)
          = [d EXCEPT !.dns = ServersLeft(d.dns),
                      !.peers = [i \in 1 .. Min({Len(d.peers), MaxPeers}) |-> d.peers[i]]]
    BY <2>1, SavedLoadsAs DEF c
  <2>6. QED
    BY <2>4, <2>5 DEF ProfileKeepsDevice, ServersLeft, d
<1>2. QED
  BY <1>1, SoundInvariant, TakenInvariant, SavedInvariant, PTL

(***************************************************************************)
(* The first rejection is reported.                                        *)
(***************************************************************************)

\* Whether a line of [Interface] is accepted depends on the line alone, except
\* for addresses.
LEMMA ItemVerdict ==
    ASSUME NEW d, NEW key, key # "address", NEW t
    PROVE  /\ interface_item(d, key, t).ok = interface_item(awg_device_new, key, t).ok
           /\ interface_item(d, key, t).ok \in BOOLEAN
           /\ key \notin InterfaceKeys => interface_item(d, key, t).ok
<1> DEFINE verdict(b) == IF b THEN TRUE ELSE FALSE
           Same(b) == \A x : interface_item(x, key, t).ok = verdict(b)
<1>1. ASSUME NEW b, Same(b), key \in InterfaceKeys
      PROVE  /\ interface_item(d, key, t).ok = interface_item(awg_device_new, key, t).ok
             /\ interface_item(d, key, t).ok \in BOOLEAN
             /\ key \notin InterfaceKeys => interface_item(d, key, t).ok
  <2>1. /\ interface_item(d, key, t).ok = verdict(b)
        /\ interface_item(awg_device_new, key, t).ok = verdict(b)
    BY <1>1
  <2>2. verdict(b) \in BOOLEAN
    OBVIOUS
  <2> HIDE DEF verdict
  <2>3. QED
    BY <1>1, <2>1, <2>2
<1>2. CASE key \in {"private_key", "public_key", CommentedKey}
  <2>1. \A x : interface_item(x, key, t) \in {awg_device_set_private_key(x, t), awg_device_set_public_key(x, t)}
    BY <1>2, ItemCases
  <2>2. \A x : /\ awg_device_set_private_key(x, t).ok = verdict(awg_key_from_base64(t))
               /\ awg_device_set_public_key(x, t).ok = verdict(awg_key_from_base64(t))
    BY DEF awg_device_set_private_key, awg_device_set_public_key, Accept, Reject
  <2>3. Same(awg_key_from_base64(t))
    BY <2>1, <2>2
  <2>4. key \in InterfaceKeys
    BY <1>2 DEF InterfaceKeys, TextFields, KeyFields
  <2> HIDE DEF Same
  <2>5. QED
    BY <1>1, <2>3, <2>4
<1>3. CASE key = "dns"
  <2> DEFINE b == t # <<>> /\ \A i \in DOMAIN t : t[i] = Blank \/ IsAddress(t[i])
  <2>1. \A x : interface_item(x, key, t) = awg_device_set_dns_from_string(x, t)
    BY <1>3, ItemCases
  <2>2. \A x : awg_device_set_dns_from_string(x, t).ok = verdict(b)
    BY DEF awg_device_set_dns_from_string, Accept, Reject
  <2>3. Same(b)
    BY <2>1, <2>2
  <2> HIDE DEF b
  <2>4. QED
    BY <1>1, <1>3, <2>3 DEF InterfaceKeys
<1>4. CASE key \in {"listen_port", "fw_mark"} \cup JunkFields \cup PaddingFields
  <2> DEFINE max == IF key = "listen_port" THEN U16Max ELSE IF key = "fw_mark" THEN U32Max
                    ELSE IF key \in JunkFields THEN IF key = "jmax" THEN U16Max - 1 ELSE U16Max
                    ELSE PaddingMax[key]
  <2>1. \A x : interface_item(x, key, t) = set_number(x, key, t, max)
    BY <1>4, ItemCases DEF awg_device_set_listen_port_from_string, awg_device_set_fw_mark_from_string,
                awg_device_set_junk_from_string, awg_device_set_padding_from_string,
                JunkFields, PaddingFields
  <2> HIDE DEF max
  <2>2. \A x : set_number(x, key, t, max).ok = verdict(IsUnsigned(t, max))
    BY DEF set_number, Accept, Reject
  <2>3. Same(IsUnsigned(t, max))
    BY <2>1, <2>2
  <2>4. QED
    BY <1>1, <1>4, <2>3 DEF InterfaceKeys, NumberFields
<1>5. CASE key = "mtu"
  <2> DEFINE b == t = Unset \/ (IsUnsigned(t, 1500) /\ (t[1] = 0 \/ t[1] >= 68))
  <2>1. \A x : interface_item(x, key, t) = awg_device_set_mtu_from_string(x, t)
    BY <1>5, ItemCases
  <2>2. \A x : awg_device_set_mtu_from_string(x, t).ok = verdict(b)
    BY DEF awg_device_set_mtu_from_string, Accept, Reject
  <2>3. Same(b)
    BY <2>1, <2>2
  <2> HIDE DEF b
  <2>4. QED
    BY <1>1, <1>5, <2>3 DEF InterfaceKeys, NumberFields
<1>6. CASE key \in HeaderFields \cup PacketFields \cup RangeFields \cup {"header_protection_key"}
  <2>1. \E valid \in BOOLEAN : \A x : interface_item(x, key, t) = set_text(x, key, t, valid)
    <3>1. /\ awg_validate_magic_header(t) \in BOOLEAN /\ awg_validate_i_packet(t) \in BOOLEAN
          /\ awg_range_parse_u32(t) \in BOOLEAN /\ awg_key_from_base64(t) \in BOOLEAN
      BY DEF awg_validate_magic_header, awg_validate_i_packet, awg_range_parse_u32,
             awg_key_from_base64, IsUnsigned, IsRange
    <3>2. CASE key \in HeaderFields
      BY <3>1, <3>2, ItemCases DEF awg_device_set_h
    <3>3. CASE key \in PacketFields
      BY <3>1, <3>3, ItemCases DEF awg_device_set_i
    <3>4. CASE key \in RangeFields
      BY <3>1, <3>4, ItemCases DEF awg_device_set_range
    <3>5. CASE key = "header_protection_key"
      BY <3>1, <3>5, ItemCases DEF awg_device_set_header_protection_key
    <3>6. QED
      BY <1>6, <3>2, <3>3, <3>4, <3>5
  <2>2. PICK valid \in BOOLEAN : \A x : interface_item(x, key, t) = set_text(x, key, t, valid)
    BY <2>1
  <2> DEFINE b == t = Unset \/ valid
  <2>3. \A x : set_text(x, key, t, valid).ok = verdict(b)
    BY DEF set_text, Accept, Reject
  <2>4. Same(b) /\ key \in InterfaceKeys
    BY <1>6, <2>2, <2>3 DEF InterfaceKeys, TextFields, KeyFields
  <2> HIDE DEF Same, b
  <2>5. QED
    BY <1>1, <2>4
<1>7. CASE key \in FlagFields
  <2>1. \A x : interface_item(x, key, t) = IF awg_parse_bool(t)
                                           THEN awg_device_set_flag(x, key, t[1] \in OnWords) ELSE Reject(x)
    BY <1>7, ItemCases
  <2>2. \A x : /\ awg_device_set_flag(x, key, t[1] \in OnWords).ok = TRUE
               /\ Reject(x).ok = FALSE
    BY DEF awg_device_set_flag, Accept, Reject
  <2>3. \A x : interface_item(x, key, t).ok = verdict(awg_parse_bool(t))
    BY <2>1, <2>2
  <2> DEFINE b == awg_parse_bool(t)
  <2>4. Same(b) /\ key \in InterfaceKeys
    BY <1>7, <2>3 DEF InterfaceKeys
  <2> HIDE DEF Same, b
  <2>5. QED
    BY <1>1, <2>4
<1>8. CASE key \in ScriptFields
  <2>1. \A x : interface_item(x, key, t) = awg_device_set_script(x, key, t)
    BY <1>8, ItemCases
  <2>2. \A x : awg_device_set_script(x, key, t).ok = TRUE
    BY DEF awg_device_set_script, Accept
  <2>3. \A x : interface_item(x, key, t).ok = TRUE
    BY <2>1, <2>2
  <2>4. Same(TRUE) /\ key \in InterfaceKeys
    BY <1>8, <2>3 DEF InterfaceKeys, TextFields
  <2> HIDE DEF Same
  <2>5. QED
    BY <1>1, <2>4
<1>9. CASE key \notin InterfaceKeys
  <2>1. \A x : interface_item(x, key, t) = Accept(x)
    BY <1>9, ItemCases
  <2>2. \A x : interface_item(x, key, t).ok = TRUE
    BY <2>1 DEF Accept
  <2>3. QED
    BY <1>9, <2>2
<1>10. QED
  BY <1>2, <1>3, <1>4, <1>5, <1>6, <1>7, <1>8, <1>9
  DEF InterfaceKeys, TextFields, NumberFields, KeyFields

\* The same for a line of [Peer].
LEMMA PeerVerdict ==
    ASSUME NEW p, NEW key, NEW t
    PROVE  /\ peer_item(p, key, t).ok = peer_item(awg_device_peer_new, key, t).ok
           /\ peer_item(p, key, t).ok \in BOOLEAN
           /\ key \notin PeerKeys => peer_item(p, key, t).ok
<1>1. CASE key = "endpoint"
  BY <1>1 DEF peer_item, awg_device_peer_set_endpoint, Accept, Reject, PeerKeys
<1>2. CASE key = "public_key"
  BY <1>2 DEF peer_item, awg_device_peer_set_public_key, Accept, Reject, PeerKeys
<1>3. CASE key = "shared_key"
  BY <1>3 DEF peer_item, awg_device_peer_set_shared_key, Accept, Reject, PeerKeys
<1>4. CASE key = "allowed_ips"
  BY <1>4 DEF peer_item, awg_device_peer_set_allowed_ips_from_string, Accept, Reject, PeerKeys
<1>5. CASE key = "keep_alive"
  BY <1>5 DEF peer_item, awg_device_peer_set_keep_alive_interval_from_string, Accept, Reject, PeerKeys
<1>6. CASE key = "advanced_security"
  BY <1>6 DEF peer_item, Accept, Reject, PeerKeys
<1>7. CASE key \notin PeerKeys
  BY <1>7 DEF peer_item, Accept, PeerKeys
<1>8. QED
  BY <1>1, <1>2, <1>3, <1>4, <1>5, <1>6, <1>7 DEF PeerKeys

LEMMA AtMostOne ==
    ASSUME NEW n \in Nat, NEW V, V \subseteq 1 .. n
    PROVE  /\ Cardinality(V) \in Nat
           /\ Cardinality(V) = 0 <=> V = {}
           /\ Cardinality(V) <= 1 <=> \A x, y \in V : x = y
<1>1. V \in SUBSET (1 .. n) /\ IsFiniteSet(1 .. n)
  BY IntervalSize
<1>2. IsFiniteSet(V) /\ Cardinality(V) \in Nat /\ (Cardinality(V) = 0 <=> V = {})
  BY <1>1, FS_Subset, FS_CardinalityType, FS_EmptySet
<1>3. ASSUME Cardinality(V) <= 1, NEW x \in V, NEW y \in V, x # y PROVE FALSE
  <2>1. IsFiniteSet(V \ {x}) /\ Cardinality(V \ {x}) = Cardinality(V) - 1
    BY <1>2, FS_RemoveElement
  <2>2. Cardinality(V) = 1
    BY <1>2, <1>3
  <2>3. V \ {x} = {}
    BY <2>1, <2>2, FS_EmptySet
  <2>4. QED
    BY <1>3, <2>3
<1>4. ASSUME \A x, y \in V : x = y PROVE Cardinality(V) <= 1
  <2>1. CASE V = {}
    BY <1>2, <2>1
  <2>2. CASE V # {}
    <3>1. PICK x : x \in V
      BY <2>2
    <3>2. V = {x}
      BY <1>4, <3>1
    <3>3. QED
      BY <3>2, FS_Singleton
  <2>3. QED
    BY <2>1, <2>2
<1>5. QED
  BY <1>2, <1>3, <1>4

\* The addresses that the lines up to n gave a family.
LenGiven(f, n) == IF \A j \in 1 .. n : AddressesIn(j, f) = {} THEN 0 ELSE 1

\* An address line is accepted exactly if every entry parses, no family gets a
\* second address and some family has one; the device then has the addresses of
\* all the lines.
LEMMA AddressLine ==
    ASSUME NEW m \in Nat \ {0}, Under(m, Interface), file[m].key = "address", IsText(file[m].text),
           NEW d, DeviceShape(d),
           \A f \in Families : IsText(d.address[f]) /\ Len(d.address[f]) = LenGiven(f, m - 1)
    PROVE  LET s == awg_device_set_address_from_string(d, file[m].text) IN
           /\ s.ok <=> ~BadAddressLine(m)
           /\ s.ok => \A f \in Families : /\ IsText(s.value.address[f])
                                          /\ Len(s.value.address[f]) = LenGiven(f, m)
<1> DEFINE t == file[m].text
           n == Len(t)
           V(f) == {k \in DOMAIN t : awg_subnet_is_valid(t[k]) /\ t[k].family = f}
           c(f) == Cardinality(V(f))
           all == [f \in Families |-> d.address[f] \o AddressesOf(t, f)]
           s == awg_device_set_address_from_string(d, t)
<1>1. n \in Nat /\ DOMAIN t = 1 .. n
  BY DEF IsText
<1>2. ASSUME NEW f PROVE V(f) = AddressesIn(m, f)
  BY DEF AddressesIn
<1>3. ASSUME NEW f
      PROVE  /\ c(f) \in Nat /\ (c(f) = 0 <=> V(f) = {}) /\ (c(f) <= 1 <=> \A x, y \in V(f) : x = y)
             /\ IsText(AddressesOf(t, f)) /\ Len(AddressesOf(t, f)) = c(f)
  <2>1. V(f) \subseteq 1 .. n
    BY <1>1
  <2> DEFINE W == V(f)
             p == Pick(t, W)
  <2>2. AddressesOf(t, f) = [i \in DOMAIN p |-> awg_subnet_new_from_string(p[i])]
    BY DEF AddressesOf, Subnets
  <2> HIDE DEF V, n
  <2>3. c(f) \in Nat /\ (c(f) = 0 <=> V(f) = {}) /\ (c(f) <= 1 <=> \A x, y \in V(f) : x = y)
    BY <1>1, <2>1, AtMostOne
  <2>4. IsText(p) /\ Len(p) = c(f)
    BY <1>1, <2>1, PickIs
  <2> HIDE DEF p
  <2>5. DOMAIN p = 1 .. c(f)
    BY <2>4 DEF IsText
  <2> DEFINE a == AddressesOf(t, f)
  <2>6. Len(a) = c(f) /\ a = [i \in 1 .. c(f) |-> a[i]]
    BY <2>2, <2>3, <2>5
  <2> HIDE DEF a
  <2>7. IsText(a)
    BY <2>3, <2>6 DEF IsText
  <2>8. QED
    BY <2>3, <2>6, <2>7 DEF a
<1> HIDE DEF V, n
<1>4. ASSUME NEW f \in Families
      PROVE  IsText(all[f]) /\ Len(all[f]) = LenGiven(f, m - 1) + c(f) /\ LenGiven(f, m - 1) \in {0, 1}
  <2>1. IsText(d.address[f] \o AddressesOf(t, f)) /\
        Len(d.address[f] \o AddressesOf(t, f)) = Len(d.address[f]) + Len(AddressesOf(t, f))
    BY <1>3, TextCat
  <2>2. LenGiven(f, m - 1) \in {0, 1}
    BY DEF LenGiven
  <2>3. QED
    BY <1>3, <2>1, <2>2
<1> HIDE DEF all, c
<1>5. 1 .. m = (1 .. m - 1) \cup {m}
  OBVIOUS
<1>6. ASSUME NEW f \in Families
      PROVE  LenGiven(f, m) = IF LenGiven(f, m - 1) = 0 /\ c(f) = 0 THEN 0 ELSE 1
  BY <1>2, <1>3, <1>5 DEF LenGiven
<1>7. ASSUME NEW f \in Families
      PROVE  Len(all[f]) <= 1 <=>
                 ~ \E k \in AddressesIn(m, f) : \E j \in 1 .. m : \E l \in AddressesIn(j, f) : <<j, l>> # <<m, k>>
  <2> DEFINE Second == \E k \in AddressesIn(m, f) : \E j \in 1 .. m : \E l \in AddressesIn(j, f) : <<j, l>> # <<m, k>>
  <2>1. CASE c(f) = 0
    <3>1. AddressesIn(m, f) = {}
      BY <1>2, <1>3, <2>1
    <3>2. Len(all[f]) <= 1
      BY <1>4, <2>1
    <3>3. QED
      BY <3>1, <3>2
  <2>2. CASE c(f) # 0 /\ LenGiven(f, m - 1) = 1
    <3>1. PICK k : k \in AddressesIn(m, f)
      BY <1>2, <1>3, <2>2
    <3>2. PICK j \in 1 .. m - 1 : AddressesIn(j, f) # {}
      BY <2>2 DEF LenGiven
    <3>3. PICK l : l \in AddressesIn(j, f)
      BY <3>2
    <3>4. j \in 1 .. m /\ <<j, l>> # <<m, k>>
      BY <3>2
    <3>5. Second
      BY <3>1, <3>3, <3>4
    <3>6. ~(Len(all[f]) <= 1)
      BY <1>3, <1>4, <2>2
    <3>7. QED
      BY <3>5, <3>6
  <2>3. CASE c(f) # 0 /\ LenGiven(f, m - 1) = 0
    <3>1. Len(all[f]) = c(f)
      BY <1>3, <1>4, <2>3
    <3>2. \A j \in 1 .. m : AddressesIn(j, f) # {} => j = m
      BY <1>5, <2>3 DEF LenGiven
    <3>3. Second <=> ~ \A x, y \in V(f) : x = y
      <4>1. ASSUME Second PROVE ~ \A x, y \in V(f) : x = y
        <5>1. PICK k \in AddressesIn(m, f) : \E j \in 1 .. m : \E l \in AddressesIn(j, f) : <<j, l>> # <<m, k>>
          BY <4>1
        <5>2. PICK j \in 1 .. m : \E l \in AddressesIn(j, f) : <<j, l>> # <<m, k>>
          BY <5>1
        <5>3. PICK l \in AddressesIn(j, f) : <<j, l>> # <<m, k>>
          BY <5>2
        <5>4. j = m /\ l # k
          BY <3>2, <5>3
        <5>5. k \in V(f) /\ l \in V(f)
          BY <1>2, <5>4
        <5>6. QED
          BY <5>4, <5>5
      <4>2. ASSUME NEW x \in V(f), NEW y \in V(f), x # y PROVE Second
        <5>1. x \in AddressesIn(m, f) /\ y \in AddressesIn(m, f) /\ <<m, y>> # <<m, x>> /\ m \in 1 .. m
          BY <1>2, <4>2
        <5>2. QED
          BY <5>1
      <4> HIDE DEF Second
      <4>3. QED
        BY <4>1, <4>2
    <3> HIDE DEF Second
    <3>4. Len(all[f]) <= 1 <=> ~Second
      BY <1>3, <3>1, <3>3
    <3>5. QED
      BY <3>4 DEF Second
  <2>4. QED
    BY <1>4, <2>1, <2>2, <2>3
<1>8. (\E f \in Families : all[f] # <<>>) <=> ~ \A f \in Families : \A j \in 1 .. m : AddressesIn(j, f) = {}
  <2>1. ASSUME NEW f \in Families PROVE all[f] # <<>> <=> ~ \A j \in 1 .. m : AddressesIn(j, f) = {}
    <3>1. all[f] # <<>> <=> Len(all[f]) # 0
      <4>1. IsText(all[f])
        BY <1>4
      <4> DEFINE a == all[f]
      <4>2. IsText(a)
        BY <4>1
      <4> HIDE DEF a
      <4>3. a = <<>> <=> Len(a) = 0
        BY <4>2 DEF IsText
      <4>4. QED
        BY <4>3 DEF a
    <3>2. Len(all[f]) # 0 <=> LenGiven(f, m) # 0
      BY <1>3, <1>4, <1>6
    <3>3. QED
      BY <3>1, <3>2 DEF LenGiven
  <2>2. QED
    BY <2>1
<1>9. s.ok <=> /\ \A i \in DOMAIN t : t[i] = Blank \/ awg_subnet_is_valid(t[i])
               /\ \A f \in Families : Len(all[f]) <= 1
               /\ \E f \in Families : all[f] # <<>>
  BY DEF awg_device_set_address_from_string, all
<1>10. s.value.address = [f \in Families |-> First(all[f])]
  <2> DEFINE x == [f \in Families |-> First(all[f])]
  <2>1. s.value = [d EXCEPT !.address = x]
    BY DEF awg_device_set_address_from_string, all
  <2> HIDE DEF x
  <2>2. [d EXCEPT !.address = x].address = x
    BY DEF DeviceShape
  <2> HIDE DEF s
  <2>3. QED
    BY <2>1, <2>2 DEF x
<1>11. BadAddressLine(m) <=>
         \/ \E k \in DOMAIN t : t[k] # Blank /\ ~awg_subnet_is_valid(t[k])
         \/ \E f \in Families : \E k \in AddressesIn(m, f) : \E j \in 1 .. m : \E l \in AddressesIn(j, f) : <<j, l>> # <<m, k>>
         \/ \A f \in Families : \A j \in 1 .. m : AddressesIn(j, f) = {}
  BY DEF BadAddressLine
<1>12. s.ok <=> ~BadAddressLine(m)
  <2> HIDE DEF s, t
  <2>1. QED
    BY <1>7, <1>8, <1>9, <1>11
<1>13. ASSUME s.ok, NEW f \in Families
       PROVE  IsText(s.value.address[f]) /\ Len(s.value.address[f]) = LenGiven(f, m)
  <2> DEFINE a == all[f]
  <2>1. IsText(a) /\ Len(a) <= 1 /\ Len(a) = LenGiven(f, m - 1) + c(f) /\ c(f) \in Nat
    BY <1>3, <1>4, <1>9, <1>13
  <2>2. s.value.address[f] = First(a)
    BY <1>10
  <2> HIDE DEF a, s
  <2>3. Len(a) \in {0, 1} /\ (Len(a) = 0 => a = <<>>) /\ (Len(a) = 1 => a # <<>>)
    BY <2>1 DEF IsText
  <2>4. IsText(First(a)) /\ Len(First(a)) = Len(a)
    <3>1. \A x : IsText(<<x>>) /\ Len(<<x>>) = 1
      BY DEF IsText
    <3>2. QED
      BY <2>1, <2>3, <3>1 DEF First
  <2>5. Len(a) = LenGiven(f, m)
    BY <1>4, <1>6, <2>1
  <2>6. QED
    BY <2>2, <2>4, <2>5
<1>14. QED
  BY <1>12, <1>13

\* The section a line stands in.
SectionOf(m) ==
    IF HeaderOf(m) = 0 THEN "none"
    ELSE IF file[HeaderOf(m)].key = Interface THEN "interface" ELSE "peer"

LEMMA SectionIs ==
    ASSUME NEW m \in Nat \ {0}
    PROVE  /\ Under(m, Interface) <=> SectionOf(m) = "interface"
           /\ Under(m, PeerSection) <=> SectionOf(m) = "peer"
           /\ SectionOf(m) \in {"none", "interface", "peer"}
<1>1. HeaderOf(m) # 0 => file[HeaderOf(m)].key \in {Interface, PeerSection}
  BY HeaderFacts DEF Headers
<1>2. QED
  BY <1>1 DEF Under, SectionOf, Interface, PeerSection

\* The rejection of a line is reported.
Reports(m) == BadLine(m) /\ (file[m].key = "advanced_security" => ~Under(m, PeerSection))

\* What a reader holds when no line up to n was rejected.
Accepted(r, n) ==
    /\ r.error = NoError
    /\ \A f \in Families : IsText(r.device.address[f]) /\ Len(r.device.address[f]) = LenGiven(f, n)

LEMMA NoAddressLine ==
    ASSUME NEW m \in Nat \ {0}, ~Under(m, Interface) \/ file[m].key # "address", NEW f
    PROVE  LenGiven(f, m) = LenGiven(f, m - 1)
<1>1. AddressesIn(m, f) = {}
  BY DEF AddressesIn
<1>2. 1 .. m = (1 .. m - 1) \cup {m}
  OBVIOUS
<1>3. QED
  BY <1>1, <1>2 DEF LenGiven

\* A reader that has accepted every line so far accepts the next one exactly if
\* it is not bad, and otherwise reports it.
LEMMA LineVerdict ==
    ASSUME NEW m \in Nat \ {0}, file[m].key = "address" => IsText(file[m].text),
           NEW r, ReaderShape(r), DeviceShape(r.device), r.section = SectionOf(m), Accepted(r, m - 1)
    PROVE  LET v == read_line(r, file[m]) IN
           IF Reports(m) THEN ~v.success /\ v.error = RejectionOf(m) ELSE Accepted(v, m)
<1> DEFINE line == file[m]
           v == read_line(r, line)
           Goal == IF Reports(m) THEN ~v.success /\ v.error = RejectionOf(m) ELSE Accepted(v, m)
<1>1. ASSUME line.key # "address" \/ r.section # "interface"
      PROVE  \A f : LenGiven(f, m) = LenGiven(f, m - 1)
  BY <1>1, NoAddressLine, SectionIs
<1>2. CASE line.key \in Markers \ {NoEquals}
  <2>1. ~Reports(m) /\ line.key # "address"
    BY <1>2 DEF Reports, BadLine, Markers, Comment, Interface, PeerSection, NoEquals, InterfaceKeys,
                PeerKeys, TextFields, NumberFields, FlagFields, KeyFields, HeaderFields, PacketFields,
                RangeFields, ScriptFields, JunkFields, PaddingFields, CommentedKey
  <2>2. v.error = r.error /\ v.device.address = r.device.address
    <3>1. CASE line.key = Comment
      BY <3>1, ReadMarker
    <3>2. CASE line.key = Interface
      <4>1. v = [device |-> r.device, peer |-> r.peer, section |-> "interface",
                 success |-> r.success, error |-> r.error]
        BY <3>2, ReadMarker
      <4> HIDE DEF v
      <4>2. QED
        BY <4>1
    <3>3. CASE line.key = PeerSection
      <4> DEFINE d == flush_peer(r).device
      <4>1. v = [device |-> d, peer |-> <<awg_device_peer_new>>, section |-> "peer",
                 success |-> r.success, error |-> r.error]
        BY <3>3, ReadMarker
      <4>2. d.address = r.device.address
        <5>1. CASE r.peer = <<>>
          BY <5>1 DEF flush_peer
        <5>2. CASE r.peer # <<>>
          <6>1. d = awg_device_add_peer(r.device, r.peer[1])
            BY <5>2 DEF flush_peer, ReaderShape
          <6> DEFINE x == Append(r.device.peers, r.peer[1])
          <6>2. d = r.device \/ d = [r.device EXCEPT !.peers = x]
            BY <6>1 DEF awg_device_add_peer
          <6> HIDE DEF x, d
          <6>3. [r.device EXCEPT !.peers = x].address = r.device.address
            BY DEF DeviceShape
          <6>4. QED
            BY <6>2, <6>3
        <5>3. QED
          BY <5>1, <5>2
      <4> HIDE DEF v, d
      <4>3. QED
        BY <4>1, <4>2
    <3>4. QED
      BY <1>2, <3>1, <3>2, <3>3 DEF Markers
  <2>3. \A f : LenGiven(f, m) = LenGiven(f, m - 1)
    BY <1>1, <2>1
  <2> HIDE DEF v
  <2>4. Accepted(v, m)
    BY <2>2, <2>3 DEF Accepted
  <2>5. QED
    BY <2>1, <2>4 DEF v
<1>3. CASE line.key = NoEquals
  <2> DEFINE no == FALSE
             e == [code |-> "line", key |-> ""]
  <2>1. v = [device |-> r.device, peer |-> r.peer, section |-> r.section, success |-> no,
             error |-> ErrorOr(r, e)]
    BY <1>3, ReadMarker
  <2>2. Reports(m)
    BY <1>3 DEF Reports, BadLine, NoEquals
  <2>3. RejectionOf(m) = e /\ ErrorOr(r, e) = e
    BY <1>3 DEF RejectionOf, ErrorOr, Accepted
  <2>4. ~no
    OBVIOUS
  <2> HIDE DEF v, no, e
  <2>5. ~v.success /\ v.error = RejectionOf(m)
    BY <2>1, <2>3, <2>4
  <2>6. QED
    BY <2>2, <2>5 DEF v
<1>4. CASE line.key \notin Markers /\ r.section = "interface"
  <2> DEFINE s == interface_item(r.device, line.key, line.text)
             e == [code |-> "value", key |-> line.key]
             Good == \A f \in Families : /\ IsText(s.value.address[f])
                                         /\ Len(s.value.address[f]) = LenGiven(f, m)
  <2>1. v = [device |-> s.value, peer |-> r.peer, section |-> r.section,
             success |-> r.success /\ s.ok,
             error |-> IF s.ok THEN r.error ELSE ErrorOr(r, e)]
    BY <1>4, ReadItem
  <2>2. Under(m, Interface) /\ ~Under(m, PeerSection)
    BY <1>4, SectionIs
  <2>3. line.key # NoEquals
    BY <1>4 DEF Markers
  <2>4. (s.ok <=> ~Reports(m)) /\ (s.ok => Good)
    <3>1. CASE line.key = "address"
      <4>1. s = awg_device_set_address_from_string(r.device, line.text)
        BY <3>1, ItemCases
      <4>2. "address" \in InterfaceKeys /\ "address" # "advanced_security"
        BY DEF InterfaceKeys
      <4>3. Reports(m) <=> BadAddressLine(m)
        BY <2>2, <2>3, <3>1, <4>2 DEF Reports, BadLine
      <4>4. (s.ok <=> ~BadAddressLine(m)) /\ (s.ok => Good)
        BY <2>2, <3>1, <4>1, AddressLine DEF Accepted
      <4>5. QED
        BY <4>3, <4>4
    <3>2. CASE line.key # "address"
      <4> DEFINE ok == interface_item(awg_device_new, line.key, line.text).ok
      <4>1. s.ok = ok /\ s.ok \in BOOLEAN /\ (line.key \notin InterfaceKeys => s.ok)
        BY <3>2, ItemVerdict
      <4>2. s.value.address = r.device.address
        BY <3>2, ItemKeeps
      <4>3. \A f : LenGiven(f, m) = LenGiven(f, m - 1)
        BY <1>1, <3>2
      <4>4. Reports(m) <=> line.key \in InterfaceKeys /\ ~ok
        BY <2>2, <2>3, <3>2 DEF Reports, BadLine
      <4> HIDE DEF s, ok
      <4>5. Good
        BY <4>2, <4>3 DEF Accepted
      <4> HIDE DEF Good
      <4>6. QED
        BY <4>1, <4>4, <4>5
    <3>3. QED
      BY <3>1, <3>2
  <2>5. RejectionOf(m) = e /\ ErrorOr(r, e) = e /\ r.error = NoError
    BY <2>3 DEF RejectionOf, ErrorOr, Accepted
  <2> DEFINE ok == s.ok
             d == s.value
  <2>6. (ok <=> ~Reports(m)) /\ (ok => \A f \in Families : IsText(d.address[f]) /\ Len(d.address[f]) = LenGiven(f, m))
    BY <2>4
  <2>7. v.device = d /\ v.success = (r.success /\ ok) /\ v.error = IF ok THEN r.error ELSE ErrorOr(r, e)
    <3> HIDE DEF s, v, e
    <3>1. QED
      BY <2>1
  <2> HIDE DEF v, e, ok, d
  <2>8. CASE Reports(m)
    BY <2>5, <2>6, <2>7, <2>8 DEF v
  <2>9. CASE ~Reports(m)
    BY <2>5, <2>6, <2>7, <2>9 DEF Accepted, v
  <2>10. QED
    BY <2>8, <2>9
<1>5. CASE line.key \notin Markers /\ r.section = "peer"
  <2> DEFINE s == peer_item(r.peer[1], line.key, line.text)
             e == [code |-> "value", key |-> line.key]
             x == IF s.ok \/ line.key = "advanced_security" THEN r.error ELSE ErrorOr(r, e)
  <2>1. v = [device |-> r.device, peer |-> <<s.value>>, section |-> r.section,
             success |-> r.success /\ s.ok, error |-> x]
    BY <1>5, ReadItem
  <2>2. Under(m, PeerSection) /\ ~Under(m, Interface) /\ line.key # NoEquals
    BY <1>5, SectionIs DEF Markers
  <2> DEFINE ok == peer_item(awg_device_peer_new, line.key, line.text).ok
  <2>3. s.ok = ok /\ s.ok \in BOOLEAN /\ (line.key \notin PeerKeys => s.ok)
    BY PeerVerdict
  <2>4. Reports(m) <=> line.key \in PeerKeys /\ ~ok /\ line.key # "advanced_security"
    BY <2>2 DEF Reports, BadLine
  <2>5. RejectionOf(m) = e /\ ErrorOr(r, e) = e /\ r.error = NoError
    BY <2>2 DEF RejectionOf, ErrorOr, Accepted
  <2>6. \A f : LenGiven(f, m) = LenGiven(f, m - 1)
    BY <1>1, <1>5
  <2> DEFINE good == s.ok
  <2>7. v.device = r.device /\ v.success = (r.success /\ good) /\ v.error = x
    <3> HIDE DEF s, v, x
    <3>1. QED
      BY <2>1
  <2>8. (good <=> ~(line.key \in PeerKeys /\ ~ok)) /\ x = IF good \/ line.key = "advanced_security" THEN NoError ELSE e
    BY <2>3, <2>5
  <2> HIDE DEF v, e, ok, x, good
  <2>9. CASE Reports(m)
    BY <2>4, <2>5, <2>7, <2>8, <2>9 DEF v
  <2>10. CASE ~Reports(m)
    <3>1. v.error = NoError
      BY <2>4, <2>7, <2>8, <2>10
    <3>2. Accepted(v, m)
      BY <2>6, <2>7, <3>1 DEF Accepted
    <3>3. QED
      BY <2>10, <3>2 DEF v
  <2>11. QED
    BY <2>9, <2>10
<1>6. CASE line.key \notin Markers /\ r.section \notin {"interface", "peer"}
  <2>1. v = r
    BY <1>6, ReadItem
  <2>2. ~Under(m, PeerSection) /\ ~Under(m, Interface) /\ line.key # NoEquals
    BY <1>6, SectionIs DEF Markers
  <2>3. ~Reports(m)
    BY <2>2 DEF Reports, BadLine
  <2>4. \A f : LenGiven(f, m) = LenGiven(f, m - 1)
    BY <1>1, <1>6
  <2> HIDE DEF v
  <2>5. Accepted(v, m)
    BY <2>1, <2>4 DEF Accepted
  <2>6. QED
    BY <2>3, <2>5 DEF v
<1>7. QED
  BY <1>2, <1>3, <1>4, <1>5, <1>6

\* Once a line was rejected, the file is.
LEMMA FailureStays ==
    ASSUME NEW r, ReaderShape(r), ~r.success, NEW line
    PROVE  ~read_line(r, line).success
<1> DEFINE v == read_line(r, line)
<1>1. CASE line.key \in Markers \ {NoEquals}
  <2>1. CASE line.key = Comment
    BY <2>1, ReadMarker
  <2>2. CASE line.key = Interface
    <3>1. v = [device |-> r.device, peer |-> r.peer, section |-> "interface",
               success |-> r.success, error |-> r.error]
      BY <2>2, ReadMarker
    <3>2. QED
      BY <3>1
  <2>3. CASE line.key = PeerSection
    <3>1. v = [device |-> flush_peer(r).device, peer |-> <<awg_device_peer_new>>,
               section |-> "peer", success |-> r.success, error |-> r.error]
      BY <2>3, ReadMarker
    <3>2. QED
      BY <3>1
  <2>4. QED
    BY <1>1, <2>1, <2>2, <2>3 DEF Markers
<1>2. CASE line.key = NoEquals
  <2> DEFINE no == FALSE
             e == ErrorOr(r, [code |-> "line", key |-> ""])
  <2>1. v = [device |-> r.device, peer |-> r.peer, section |-> r.section, success |-> no, error |-> e]
    BY <1>2, ReadMarker
  <2>2. ~no
    OBVIOUS
  <2> HIDE DEF v, no, e
  <2>3. v.success = no
    BY <2>1
  <2>4. QED
    BY <2>2, <2>3 DEF v
<1>3. CASE line.key \notin Markers /\ r.section = "interface"
  <2> DEFINE s == interface_item(r.device, line.key, line.text)
             e == IF s.ok THEN r.error ELSE ErrorOr(r, [code |-> "value", key |-> line.key])
  <2>1. v = [device |-> s.value, peer |-> r.peer, section |-> r.section,
             success |-> r.success /\ s.ok, error |-> e]
    BY <1>3, ReadItem
  <2> HIDE DEF v, s, e
  <2>2. v.success = (r.success /\ s.ok)
    BY <2>1
  <2>3. QED
    BY <2>2 DEF v
<1>4. CASE line.key \notin Markers /\ r.section = "peer"
  <2> DEFINE s == peer_item(r.peer[1], line.key, line.text)
             e == IF s.ok \/ line.key = "advanced_security" THEN r.error
                  ELSE ErrorOr(r, [code |-> "value", key |-> line.key])
  <2>1. v = [device |-> r.device, peer |-> <<s.value>>, section |-> r.section,
             success |-> r.success /\ s.ok, error |-> e]
    BY <1>4, ReadItem
  <2> HIDE DEF v, s, e
  <2>2. v.success = (r.success /\ s.ok)
    BY <2>1
  <2>3. QED
    BY <2>2 DEF v
<1>5. CASE line.key \notin Markers /\ r.section \notin {"interface", "peer"}
  BY <1>5, ReadItem
<1>6. QED
  BY <1>1, <1>2, <1>3, <1>4, <1>5 DEF Markers

\* A line whose rejection is not reported, AdvancedSecurity in a [Peer], fails
\* the file all the same.
LEMMA UnreportedFails ==
    ASSUME NEW m \in Nat \ {0}, BadLine(m), ~Reports(m),
           NEW r, ReaderShape(r), r.section = SectionOf(m)
    PROVE  ~read_line(r, file[m]).success
<1> DEFINE line == file[m]
           v == read_line(r, line)
           s == peer_item(r.peer[1], line.key, line.text)
<1>1. line.key = "advanced_security" /\ Under(m, PeerSection)
  BY DEF Reports
<1>2. r.section = "peer" /\ ~Under(m, Interface)
  BY <1>1, SectionIs
<1>3. line.key # NoEquals /\ line.key \notin Markers
  BY <1>1 DEF Markers, NoEquals, Comment, Interface, PeerSection
<1>4. ~peer_item(awg_device_peer_new, line.key, line.text).ok
  BY <1>2, <1>3 DEF BadLine
<1>5. ~s.ok
  BY <1>4, PeerVerdict
<1> DEFINE e == IF s.ok \/ line.key = "advanced_security" THEN r.error
                ELSE ErrorOr(r, [code |-> "value", key |-> line.key])
<1>6. v = [device |-> r.device, peer |-> <<s.value>>, section |-> r.section,
           success |-> r.success /\ s.ok, error |-> e]
  BY <1>2, <1>3, ReadItem
<1> HIDE DEF v, s, e
<1>7. v.success = (r.success /\ s.ok)
  BY <1>6
<1>8. QED
  BY <1>5, <1>7 DEF v

\* Once a line was rejected, the reason stays.
LEMMA ErrorStays ==
    ASSUME NEW r, ReaderShape(r), ~r.success, r.error # NoError, NEW line
    PROVE  ~read_line(r, line).success /\ read_line(r, line).error = r.error
<1> DEFINE v == read_line(r, line)
<1>1. \A e : ErrorOr(r, e) = r.error
  BY DEF ErrorOr
<1>2. CASE line.key \in Markers
  <2>1. CASE line.key = Comment
    BY <2>1, ReadMarker
  <2>2. CASE line.key = Interface
    <3>1. v = [device |-> r.device, peer |-> r.peer, section |-> "interface",
               success |-> r.success, error |-> r.error]
      BY <2>2, ReadMarker
    <3>2. QED
      BY <3>1
  <2>3. CASE line.key = PeerSection
    <3>1. v = [device |-> flush_peer(r).device, peer |-> <<awg_device_peer_new>>,
               section |-> "peer", success |-> r.success, error |-> r.error]
      BY <2>3, ReadMarker
    <3>2. QED
      BY <3>1
  <2>4. CASE line.key = NoEquals
    <3> DEFINE no == FALSE
    <3>1. v = [device |-> r.device, peer |-> r.peer, section |-> r.section, success |-> no,
               error |-> r.error]
      BY <1>1, <2>4, ReadMarker
    <3>2. ~no
      OBVIOUS
    <3> HIDE DEF v, no
    <3>3. v.success = no /\ v.error = r.error
      BY <3>1
    <3>4. QED
      BY <3>2, <3>3 DEF v
  <2>5. QED
    BY <1>2, <2>1, <2>2, <2>3, <2>4 DEF Markers
<1>3. CASE line.key \notin Markers
  <2>1. CASE r.section = "interface"
    <3> DEFINE s == interface_item(r.device, line.key, line.text)
    <3>1. v = [device |-> s.value, peer |-> r.peer, section |-> r.section,
               success |-> r.success /\ s.ok, error |-> r.error]
      BY <1>1, <1>3, <2>1, ReadItem
    <3> HIDE DEF v, s
    <3>2. v.success = (r.success /\ s.ok) /\ v.error = r.error
      BY <3>1
    <3>3. QED
      BY <3>2 DEF v
  <2>2. CASE r.section = "peer"
    <3> DEFINE s == peer_item(r.peer[1], line.key, line.text)
    <3>1. v = [device |-> r.device, peer |-> <<s.value>>, section |-> r.section,
               success |-> r.success /\ s.ok, error |-> r.error]
      BY <1>1, <1>3, <2>2, ReadItem
    <3> HIDE DEF v, s
    <3>2. v.success = (r.success /\ s.ok) /\ v.error = r.error
      BY <3>1
    <3>3. QED
      BY <3>2 DEF v
  <2>3. CASE r.section \notin {"interface", "peer"}
    BY <1>3, <2>3, ReadItem
  <2>4. QED
    BY <2>1, <2>2, <2>3
<1>4. QED
  BY <1>2, <1>3

\* What is said of a line depends on the file alone.
LEMMA VerdictsStay ==
    ASSUME file' = file
    PROVE  /\ \A i : Reports(i)' = Reports(i)
           /\ \A i : BadLine(i)' = BadLine(i)
           /\ \A i : RejectionOf(i)' = RejectionOf(i)
           /\ \A f, n : LenGiven(f, n)' = LenGiven(f, n)
<1>1. \A i : HeaderOf(i)' = HeaderOf(i)
  BY DEF HeaderOf, Headers
<1>2. \A i, h : Under(i, h)' = Under(i, h)
  BY <1>1 DEF Under
<1>3. \A i, f : AddressesIn(i, f)' = AddressesIn(i, f)
  BY <1>2 DEF AddressesIn
<1>4. \A i : BadAddressLine(i)' = BadAddressLine(i)
  BY <1>3 DEF BadAddressLine
<1>5. \A i : BadLine(i)' = BadLine(i)
  BY <1>2, <1>4 DEF BadLine
<1>6. QED
  BY <1>2, <1>3, <1>5 DEF Reports, RejectionOf, LenGiven

LEMMA ReportedStay ==
    ASSUME UNCHANGED <<file, at>>
    PROVE  /\ Rejected' = Rejected /\ Reported' = Reported
           /\ RejectionOf(Min(Reported))' = RejectionOf(Min(Reported))
<1>1. Rejected' = Rejected /\ Reported' = Reported
  BY VerdictsStay DEF Rejected, Reported, Reports
<1>2. PICK k : k = Min(Reported)
  OBVIOUS
<1>3. Min(Reported)' = k /\ RejectionOf(k)' = RejectionOf(k)
  BY <1>1, <1>2, VerdictsStay
<1>4. RejectionOf(Min(Reported))' = RejectionOf(k)
  BY <1>3
<1>5. QED
  BY <1>1, <1>2, <1>4

\* A line after all others does not become the first.
LEMMA FirstStays ==
    ASSUME NEW n \in Nat, NEW V, V \subseteq 1 .. n, V # {}, NEW W, W \subseteq {n + 1}
    PROVE  Min(V \cup W) = Min(V)
<1>1. V \subseteq 0 .. n /\ V \cup W \subseteq 0 .. n + 1 /\ V \cup W # {} /\ n + 1 \in Nat
  OBVIOUS
<1>2. Min(V) \in V /\ \A k \in V : Min(V) <= k
  BY <1>1, MinFacts
<1>3. Min(V \cup W) \in V \cup W /\ \A k \in V \cup W : Min(V \cup W) <= k
  BY <1>1, MinFacts
<1> DEFINE a == Min(V)
           b == Min(V \cup W)
<1>4. a \in V /\ (\A k \in V : a <= k) /\ b \in V \cup W /\ \A k \in V \cup W : b <= k
  BY <1>2, <1>3
<1> HIDE DEF a, b
<1>5. a \in 1 .. n /\ b \in 1 .. n + 1 /\ b <= a
  BY <1>4
<1>6. b \in V
  BY <1>4, <1>5
<1>7. a <= b
  BY <1>4, <1>6
<1>8. QED
  BY <1>5, <1>7 DEF a, b

LEMMA NoRejection == \A i : RejectionOf(i) # NoError
BY DEF RejectionOf, NoError

LEMMA ReportedRejected == Reported \subseteq Rejected
BY DEF Reported, Rejected

LEMMA RejectionNext ==
    ASSUME NextLine, ReaderShape(reader), DeviceShape(reader.device), reader.section = SectionName,
           file[at + 1].key = "address" => IsText(file[at + 1].text),
           pc = "reading", RejectionInv, reader' = read_line(reader, file[at + 1])
    PROVE  RejectionInv'
<1>1. PICK m \in Nat \ {0} : m = at + 1
  BY DEF NextLine
<1>2. m - 1 = at /\ at' = m /\ file' = file /\ at \in Nat /\ 1 .. m = (1 .. at) \cup {m}
  BY <1>1 DEF NextLine
<1> DEFINE v == read_line(reader, file[m])
           W == {i \in {m} : Reports(i)}
<1>3. Reported' = Reported \cup W /\ Reported \subseteq 1 .. at
  BY <1>2, VerdictsStay DEF Reported, Reports
<1>4. reader' = v
  BY <1>1
<1>8. Rejected' # {} => ~reader'.success
  <2>1. Rejected' = Rejected \cup {i \in {m} : BadLine(i)}
    BY <1>2, VerdictsStay DEF Rejected
  <2>2. CASE Rejected # {}
    <3>1. ~reader.success
      BY <2>2 DEF RejectionInv
    <3>2. QED
      BY <1>4, <3>1, FailureStays
  <2>3. CASE Rejected = {} /\ BadLine(m)
    <3>1. Reported = {}
      BY <2>3, ReportedRejected
    <3>2. Accepted(reader, m - 1)
      BY <1>2, <3>1 DEF Accepted, RejectionInv, LenGiven
    <3>3. reader.section = SectionOf(m)
      BY <1>1 DEF SectionName, SectionOf
    <3>4. Reports(m) => ~v.success
      BY <1>1, <3>2, <3>3, LineVerdict
    <3>5. ~Reports(m) => ~v.success
      BY <2>3, <3>3, UnreportedFails
    <3>6. QED
      BY <1>4, <3>4, <3>5
  <2>4. QED
    BY <2>1, <2>2, <2>3
<1>5. CASE Reported # {}
  <2>1. PICK k : k = Min(Reported)
    OBVIOUS
  <2>2. ~reader.success /\ reader.error = RejectionOf(k) /\ reader.error # NoError
    BY <1>5, <2>1, NoRejection, ReportedRejected DEF RejectionInv
  <2>3. v.error = RejectionOf(k)
    BY <2>2, ErrorStays
  <2>4. Reported' # {} /\ Min(Reported)' = k
    <3>1. Min(Reported \cup W) = Min(Reported)
      BY <1>1, <1>2, <1>3, <1>5, FirstStays
    <3>2. QED
      BY <1>3, <1>5, <2>1, <3>1
  <2>5. RejectionOf(k)' = RejectionOf(k)
    BY <1>2, VerdictsStay
  <2>6. RejectionOf(Min(Reported))' = RejectionOf(k)
    BY <2>4, <2>5
  <2> HIDE DEF v
  <2>7. QED
    BY <1>4, <1>8, <2>3, <2>4, <2>6 DEF RejectionInv
<1>6. CASE Reported = {}
  <2>1. Accepted(reader, m - 1)
    BY <1>2, <1>6 DEF Accepted, RejectionInv, LenGiven
  <2>2. reader.section = SectionOf(m)
    BY <1>1 DEF SectionName, SectionOf
  <2>3. IF Reports(m) THEN ~v.success /\ v.error = RejectionOf(m) ELSE Accepted(v, m)
    BY <1>1, <2>1, <2>2, LineVerdict
  <2> HIDE DEF v
  <2>4. CASE Reports(m)
    <3>1. Reported' = {m}
      BY <1>3, <1>6, <2>4
    <3>2. Min({m}) = m
      BY <1>2, MinFacts
    <3>3. Min(Reported)' = m /\ RejectionOf(m)' = RejectionOf(m)
      BY <1>2, <3>1, <3>2, VerdictsStay
    <3>4. RejectionOf(Min(Reported))' = RejectionOf(m)
      BY <3>3
    <3>5. QED
      BY <1>4, <1>8, <2>3, <2>4, <3>1, <3>4 DEF RejectionInv
  <2>5. CASE ~Reports(m)
    <3>1. Reported' = {}
      BY <1>3, <1>6, <2>5
    <3>2. Accepted(v, m)
      BY <2>3, <2>5
    <3>3. \A f : LenGiven(f, at)' = LenGiven(f, m)
      BY <1>2, VerdictsStay
    <3>4. \A f \in Families : /\ IsText(reader.device.address[f])'
                              /\ Len(reader.device.address[f])' = LenGiven(f, at)'
      BY <1>4, <3>2, <3>3 DEF Accepted
    <3>5. reader'.error = NoError
      BY <1>4, <3>2 DEF Accepted
    <3>6. QED
      BY <1>8, <3>1, <3>4, <3>5 DEF RejectionInv, LenGiven
  <2>6. QED
    BY <2>4, <2>5
<1>7. QED
  BY <1>5, <1>6

LEMMA FinishRejected ==
    ASSUME NEW r, ReaderShape(r), ~r.success
    PROVE  /\ end_of_file(r).device = <<>>
           /\ r.error # NoError => end_of_file(r).error = r.error
<1>1. flush_peer(r).success = r.success /\ flush_peer(r).error = r.error
  BY DEF flush_peer, ReaderShape
<1> DEFINE q == flush_peer(r)
<1>2. ~q.success /\ q.error = r.error
  BY <1>1
<1> HIDE DEF q
<1>3. LET usable == q.success /\ awg_device_is_valid(q.device) IN
      /\ (IF usable THEN <<q.device>> ELSE <<>>) = <<>>
      /\ r.error # NoError =>
            (IF usable \/ q.error # NoError THEN q.error
             ELSE [code |-> "incomplete", key |-> awg_device_get_invalid_reason(q.device)]) = r.error
  BY <1>2
<1>4. QED
  BY <1>3 DEF end_of_file, q

RejectionsInv == RejectionInv /\ FirstRejectionReported

LEMMA RejectionsInvariant == Spec => []RejectionsInv
<1>1. Init => RejectionsInv
  <2> SUFFICES ASSUME Init PROVE RejectionsInv
    OBVIOUS
  <2>1. Rejected = {} /\ Reported = {}
    BY DEF Init, Rejected, Reported
  <2>2. QED
    BY <2>1 DEF Init, RejectionsInv, RejectionInv, FirstRejectionReported, new_reader, awg_device_new, IsText
<1>2. SoundInv /\ SectionsInv /\ TakenInv /\ RejectionsInv /\ [Next]_vars => RejectionsInv'
  <2> SUFFICES ASSUME SoundInv, SectionsInv, TakenInv, RejectionsInv, [Next]_vars PROVE RejectionsInv'
    OBVIOUS
  <2>1. CASE ReadLine
    <3>1. NextLine /\ ReaderShape(reader) /\ DeviceShape(reader.device) /\ pc = "reading"
          /\ reader.section = SectionName /\ reader' = read_line(reader, file[at + 1])
      BY <2>1 DEF ReadLine, NextLine, SectionsInv, ReaderInv, SoundInv, Sound
    <3>2. file[at + 1].key = "address" => IsText(file[at + 1].text)
      <4>1. Len(file) \in Int => at + 1 \in 1 .. Len(file)
        BY <2>1, <3>1 DEF ReadLine, NextLine
      <4>2. QED
        BY <4>1 DEF TakenInv, ListKeys
    <3>3. RejectionInv'
      BY <3>1, <3>2, RejectionNext DEF RejectionsInv
    <3>4. pc' # "done"
      BY <2>1 DEF ReadLine
    <3>5. QED
      BY <3>3, <3>4 DEF RejectionsInv, FirstRejectionReported
  <2>2. ASSUME NEW r, ReaderShape(r), finish(r), pc = "reading", r.success = reader.success,
               reader.error # NoError => r.error = reader.error
        PROVE  RejectionsInv'
    <3>1. pc' = "done" /\ UNCHANGED <<file, at>> /\ device' = end_of_file(r).device /\ error' = end_of_file(r).error
      BY <2>2 DEF finish
    <3>2. /\ Rejected' = Rejected /\ Reported' = Reported
          /\ RejectionOf(Min(Reported))' = RejectionOf(Min(Reported))
      BY <3>1, ReportedStay
    <3>3. ASSUME Rejected # {} PROVE device' = <<>>
      <4>1. ~r.success
        BY <2>2, <3>3 DEF RejectionsInv, RejectionInv
      <4>2. QED
        BY <2>2, <3>1, <4>1, FinishRejected
    <3>4. ASSUME Reported # {} PROVE error' = RejectionOf(Min(Reported))
      <4>1. ~reader.success /\ reader.error = RejectionOf(Min(Reported))
        BY <2>2, <3>4, ReportedRejected DEF RejectionsInv, RejectionInv
      <4>2. reader.error # NoError
        BY <4>1, NoRejection
      <4>3. ~r.success /\ r.error = reader.error
        BY <2>2, <4>1, <4>2
      <4>4. end_of_file(r).error = r.error
        BY <2>2, <4>2, <4>3, FinishRejected
      <4>5. QED
        BY <3>1, <4>1, <4>3, <4>4
    <3>5. QED
      BY <3>1, <3>2, <3>3, <3>4 DEF RejectionsInv, RejectionInv, FirstRejectionReported
  <2>3. CASE EndOfFile
    BY <2>2, <2>3 DEF EndOfFile, SoundInv
  <2>4. CASE ReadError
    <3> DEFINE r == read_error(reader)
               e == [code |-> "read", key |-> ""]
    <3>1. r = [device |-> reader.device, peer |-> reader.peer, section |-> reader.section,
               success |-> reader.success, error |-> ErrorOr(reader, e)]
      BY ReadErrorShape DEF SoundInv
    <3>2. finish(r) /\ pc = "reading"
      BY <2>4 DEF ReadError
    <3> HIDE DEF r, e
    <3>3. ReaderShape(r) /\ r.success = reader.success /\ r.error = ErrorOr(reader, e)
      BY <3>1 DEF ReaderShape, SoundInv
    <3>4. reader.error # NoError => r.error = reader.error
      BY <3>3 DEF ErrorOr
    <3>5. QED
      BY <2>2, <3>2, <3>3, <3>4
  <2>5. CASE Export
    BY <2>5 DEF Export, RejectionsInv, RejectionInv, FirstRejectionReported
  <2>6. CASE Import
    <3>1. Rejected' = {} /\ Reported' = {} /\ pc' = "reading"
      BY <2>6 DEF Import, Rejected, Reported
    <3>2. reader' = new_reader /\ at' = 0
      BY <2>6 DEF Import
    <3>3. QED
      BY <3>1, <3>2 DEF RejectionsInv, RejectionInv, FirstRejectionReported, new_reader, awg_device_new, IsText
  <2>7. CASE \E e \in Edits : SetItem(e.key, e.text)
    <3>1. UNCHANGED <<file, at, device, error, pc>> /\ pc = "done"
      BY <2>7 DEF SetItem
    <3>2. Rejected' = Rejected /\ Reported' = Reported /\ RejectionOf(Min(Reported))' = RejectionOf(Min(Reported))
      BY <3>1, ReportedStay
    <3>3. QED
      BY <3>1, <3>2 DEF RejectionsInv, RejectionInv, FirstRejectionReported
  <2>8. CASE UNCHANGED vars
    <3>1. UNCHANGED <<file, at, device, error, pc, reader>>
      BY <2>8 DEF vars
    <3>2. Rejected' = Rejected /\ Reported' = Reported /\ RejectionOf(Min(Reported))' = RejectionOf(Min(Reported))
          /\ \A f : LenGiven(f, at)' = LenGiven(f, at)
      BY <3>1, ReportedStay, VerdictsStay
    <3>3. QED
      BY <3>1, <3>2 DEF RejectionsInv, RejectionInv, FirstRejectionReported, LenGiven
  <2>9. QED
    BY <2>1, <2>3, <2>4, <2>5, <2>6, <2>7, <2>8 DEF Next
<1>3. QED
  BY <1>1, <1>2, SoundInvariant, SectionsInvariant, TakenInvariant, PTL DEF Spec

\* A file with a line that is rejected is refused, whichever line it is.  The
\* error names the first rejected line but for the AdvancedSecurity of a peer,
\* and not a consequence of it.
THEOREM FirstRejectionIsReported == Spec => []FirstRejectionReported
<1>1. RejectionsInv => FirstRejectionReported
  BY DEF RejectionsInv
<1>2. QED
  BY <1>1, RejectionsInvariant, PTL

(***************************************************************************)
(* Reading a sequence of lines.                                            *)
(***************************************************************************)

\* The states of the reader from r to q, line by line.
Passes(h, r, s, q) ==
    h[0] = r /\ h[Len(s)] = q /\ \A i \in 1 .. Len(s) : h[i] = read_line(h[i - 1], s[i])

ReadsTo(r, s, q) == \E h : Passes(h, r, s, q)

LEMMA ReadsNone ==
    ASSUME NEW r
    PROVE  ReadsTo(r, <<>>, r)
<1> DEFINE h == [i \in {0} |-> r]
<1>1. Passes(h, r, <<>>, r)
  BY DEF Passes
<1>2. QED
  BY <1>1 DEF ReadsTo

LEMMA ReadsOne ==
    ASSUME NEW r, NEW line
    PROVE  ReadsTo(r, <<line>>, read_line(r, line))
<1> DEFINE q == read_line(r, line)
           h == [i \in {0, 1} |-> IF i = 0 THEN r ELSE q]
<1>1. h[0] = r /\ h[1] = q
  OBVIOUS
<1> HIDE DEF h
<1>2. Len(<<line>>) = 1 /\ <<line>>[1] = line
  OBVIOUS
<1>3. \A i \in 1 .. 1 : h[i] = read_line(h[i - 1], <<line>>[i])
  BY <1>1, <1>2
<1>4. Passes(h, r, <<line>>, q)
  BY <1>1, <1>2, <1>3 DEF Passes
<1>5. QED
  BY <1>4 DEF ReadsTo

LEMMA ReadsCat ==
    ASSUME NEW r, NEW p, NEW q, NEW a, IsText(a), ReadsTo(r, a, p), NEW b, IsText(b), ReadsTo(p, b, q)
    PROVE  ReadsTo(r, a \o b, q)
<1>1. PICK f : Passes(f, r, a, p)
  BY DEF ReadsTo
<1>2. PICK g : Passes(g, p, b, q)
  BY DEF ReadsTo
<1> DEFINE n == Len(a)
           m == Len(b)
           c == a \o b
           h == [i \in 0 .. n + m |-> IF i <= n THEN f[i] ELSE g[i - n]]
<1>3. /\ n \in Nat /\ m \in Nat /\ Len(c) = n + m
      /\ \A i \in 1 .. n : c[i] = a[i]
      /\ \A i \in 1 .. m : c[n + i] = b[i]
  BY TextCat DEF IsText
<1>4. /\ f[0] = r /\ f[n] = p /\ \A i \in 1 .. n : f[i] = read_line(f[i - 1], a[i])
      /\ g[0] = p /\ g[m] = q /\ \A i \in 1 .. m : g[i] = read_line(g[i - 1], b[i])
  BY <1>1, <1>2 DEF Passes
<1> HIDE DEF c, n, m
<1>5. \A j \in 0 .. n + m : h[j] = IF j <= n THEN f[j] ELSE g[j - n]
  OBVIOUS
<1> HIDE DEF h
<1>6. /\ \A i \in 0 .. n : h[i] = f[i]
      /\ \A i \in 0 .. m : h[n + i] = g[i]
  <2>1. ASSUME NEW i \in 0 .. n PROVE h[i] = f[i]
    <3>1. i \in 0 .. n + m /\ i <= n
      BY <1>3
    <3>2. QED
      BY <1>5, <3>1
  <2>2. ASSUME NEW i \in 0 .. m PROVE h[n + i] = g[i]
    <3> DEFINE j == n + i
    <3>1. j \in 0 .. n + m /\ j - n = i /\ (j <= n => i = 0 /\ j = n)
      BY <1>3
    <3> HIDE DEF j
    <3>2. h[j] = IF j <= n THEN f[j] ELSE g[j - n]
      BY <1>5, <3>1
    <3>3. CASE j <= n
      BY <1>4, <3>1, <3>2, <3>3 DEF j
    <3>4. CASE ~(j <= n)
      BY <3>1, <3>2, <3>4 DEF j
    <3>5. QED
      BY <3>3, <3>4
  <2>3. QED
    BY <2>1, <2>2
<1>7. h[0] = r /\ h[n + m] = q
  <2>1. 0 \in 0 .. n /\ m \in 0 .. m
    BY <1>3
  <2>2. QED
    BY <1>4, <1>6, <2>1
<1>8. ASSUME NEW i \in 1 .. n + m PROVE h[i] = read_line(h[i - 1], c[i])
  <2>1. CASE i <= n
    <3>1. i \in 1 .. n /\ i \in 0 .. n /\ i - 1 \in 0 .. n
      BY <1>3, <2>1
    <3>2. h[i] = f[i] /\ h[i - 1] = f[i - 1] /\ c[i] = a[i]
      BY <1>3, <1>6, <3>1
    <3>3. QED
      BY <1>4, <3>1, <3>2
  <2>2. CASE ~(i <= n)
    <3>1. PICK k \in 1 .. m : i = n + k
      <4>1. i - n \in 1 .. m /\ i = n + (i - n)
        BY <1>3, <2>2
      <4>2. QED
        BY <4>1
    <3>2. k \in 0 .. m /\ k - 1 \in 0 .. m /\ i - 1 = n + (k - 1)
      BY <1>3, <3>1
    <3>3. h[i] = g[k] /\ h[i - 1] = g[k - 1] /\ c[i] = b[k]
      BY <1>3, <1>6, <3>1, <3>2
    <3>4. g[k] = read_line(g[k - 1], b[k])
      BY <1>4
    <3>5. QED
      BY <3>3, <3>4
  <2>3. QED
    BY <2>1, <2>2
<1>9. Passes(h, r, c, q)
  BY <1>3, <1>7, <1>8 DEF Passes
<1>10. QED
  BY <1>9 DEF ReadsTo, c

\* What is read is determined by the lines.
LEMMA ReadsSame ==
    ASSUME NEW s, Len(s) \in Nat, NEW r, NEW p, NEW q, ReadsTo(r, s, p), ReadsTo(r, s, q)
    PROVE  p = q
<1>1. PICK f : Passes(f, r, s, p)
  BY DEF ReadsTo
<1>2. PICK g : Passes(g, r, s, q)
  BY DEF ReadsTo
<1> DEFINE n == Len(s)
           S == {k \in Nat : k <= n => f[k] = g[k]}
<1>3. /\ f[0] = r /\ f[n] = p /\ \A i \in 1 .. n : f[i] = read_line(f[i - 1], s[i])
      /\ g[0] = r /\ g[n] = q /\ \A i \in 1 .. n : g[i] = read_line(g[i - 1], s[i])
  BY <1>1, <1>2 DEF Passes
<1> HIDE DEF n
<1>4. 0 \in S
  BY <1>3
<1>5. ASSUME NEW k \in Nat, k \in S PROVE k + 1 \in S
  <2>1. CASE k + 1 <= n
    <3>1. f[k] = g[k] /\ k + 1 \in 1 .. n /\ k + 1 - 1 = k
      BY <1>5, <2>1 DEF n
    <3>2. f[k + 1] = read_line(f[k + 1 - 1], s[k + 1]) /\ g[k + 1] = read_line(g[k + 1 - 1], s[k + 1])
      BY <1>3, <3>1
    <3>3. f[k + 1] = g[k + 1]
      BY <3>1, <3>2
    <3>4. QED
      BY <3>3
  <2>2. QED
    BY <2>1
<1> HIDE DEF S
<1>6. Nat \subseteq S
  BY <1>4, <1>5, Induction
<1>7. n \in Nat
  BY DEF n
<1>8. f[n] = g[n]
  BY <1>6, <1>7 DEF S
<1>9. QED
  BY <1>3, <1>8

\* The states R of the reader before, between and after the sequences.
LEMMA ReadsFlat ==
    ASSUME NEW n \in Nat, NEW ss, ss = [i \in 1 .. n |-> ss[i]], NEW R,
           \A i \in 1 .. n : IsText(ss[i]) /\ ReadsTo(R[i - 1], ss[i], R[i])
    PROVE  IsText(FlattenSeq(ss)) /\ ReadsTo(R[0], FlattenSeq(ss), R[n])
<1>1. PICK F : /\ F[0] = <<>> /\ F[n] = FlattenSeq(ss)
               /\ \A i \in 1 .. n : F[i] = F[i - 1] \o ss[i]
  BY FlatBuilds
<1> DEFINE S == {k \in Nat : k <= n => IsText(F[k]) /\ ReadsTo(R[0], F[k], R[k])}
<1>2. 0 \in S
  <2>1. IsText(<<>>)
    BY DEF IsText
  <2>2. QED
    BY <1>1, <2>1, ReadsNone
<1>3. ASSUME NEW k \in Nat, k \in S PROVE k + 1 \in S
  <2>1. CASE k + 1 <= n
    <3>1. IsText(F[k]) /\ ReadsTo(R[0], F[k], R[k]) /\ k + 1 \in 1 .. n /\ k + 1 - 1 = k
      BY <1>3, <2>1
    <3> DEFINE j == k + 1
    <3>2. j \in 1 .. n /\ j - 1 = k
      BY <3>1
    <3> HIDE DEF j
    <3>3. F[j] = F[k] \o ss[j] /\ IsText(ss[j]) /\ ReadsTo(R[k], ss[j], R[j])
      BY <1>1, <3>2
    <3>4. IsText(F[j]) /\ ReadsTo(R[0], F[j], R[j])
      BY <3>1, <3>3, TextCat, ReadsCat
    <3>5. QED
      BY <3>4 DEF j
  <2>2. QED
    BY <2>1
<1> HIDE DEF S
<1>4. Nat \subseteq S
  BY <1>2, <1>3, Induction
<1>5. IsText(F[n]) /\ ReadsTo(R[0], F[n], R[n])
  BY <1>4 DEF S
<1>6. QED
  BY <1>1, <1>5

(***************************************************************************)
(* What setters make of the texts of a device.                             *)
(***************************************************************************)

\* An empty text clears a field that is not a key of the interface.
LEMMA TextAccepted ==
    ASSUME NEW d, NEW f \in TextFields, NEW t, TextTaken(f, t),
           t # Unset \/ f \notin {"private_key", "public_key"}
    PROVE  interface_item(d, f, t) = Accept([d EXCEPT !.text[f] = t])
<1> DEFINE v == interface_item(d, f, t)
<1>1. CASE f = "private_key"
  <2>1. v = awg_device_set_private_key(d, t) /\ awg_key_from_base64(t)
    BY <1>1, ItemCases DEF TextTaken, KeyFields
  <2>2. QED
    BY <1>1, <2>1 DEF awg_device_set_private_key, Accept
<1>2. CASE f = "public_key"
  <2>1. v = awg_device_set_public_key(d, t) /\ awg_key_from_base64(t)
    BY <1>2, ItemCases DEF TextTaken, KeyFields
  <2>2. QED
    BY <1>2, <2>1 DEF awg_device_set_public_key, Accept
<1>3. CASE f = "header_protection_key"
  <2>1. v = awg_device_set_header_protection_key(d, t) /\ (t = Unset \/ awg_key_from_base64(t))
    BY <1>3, ItemCases DEF TextTaken, KeyFields
  <2>2. QED
    BY <1>3, <2>1 DEF awg_device_set_header_protection_key, set_text, Accept
<1>4. CASE f \in HeaderFields
  <2>1. v = awg_device_set_h(d, f, t) /\ (t = Unset \/ awg_validate_magic_header(t))
    BY <1>4, ItemCases DEF TextTaken
  <2>2. QED
    BY <2>1 DEF awg_device_set_h, set_text, Accept
<1>5. CASE f \in PacketFields
  <2>1. v = awg_device_set_i(d, f, t) /\ (t = Unset \/ awg_validate_i_packet(t))
    BY <1>5, ItemCases DEF TextTaken
  <2>2. QED
    BY <2>1 DEF awg_device_set_i, set_text, Accept
<1>6. CASE f \in RangeFields
  <2>1. v = awg_device_set_range(d, f, t) /\ (t = Unset \/ awg_range_parse_u32(t))
    BY <1>6, ItemCases DEF TextTaken
  <2>2. QED
    BY <2>1 DEF awg_device_set_range, set_text, Accept
<1>7. CASE f \in ScriptFields
  <2>1. v = awg_device_set_script(d, f, t)
    BY <1>7, ItemCases
  <2>2. QED
    BY <2>1 DEF awg_device_set_script, Accept
<1>8. QED
  BY <1>1, <1>2, <1>3, <1>4, <1>5, <1>6, <1>7 DEF TextFields, KeyFields

LEMMA NumberAccepted ==
    ASSUME NEW d, NEW f \in NumberFields, NEW n \in 0 .. MaxOf(f), f = "mtu" => n = 0 \/ n >= 68
    PROVE  interface_item(d, f, <<n>>) = Accept([d EXCEPT !.number[f] = n])
<1> DEFINE t == <<n>>
           v == interface_item(d, f, t)
<1>1. Len(t) = 1 /\ t[1] = n /\ t # Unset
  BY DEF Unset
<1> HIDE DEF t
<1>2. CASE f = "mtu"
  <2>1. v = awg_device_set_mtu_from_string(d, t) /\ IsUnsigned(t, 1500)
    BY <1>1, <1>2, ItemCases DEF MaxOf, IsUnsigned
  <2>2. v = Accept([d EXCEPT !.number[f] = n])
    BY <1>1, <1>2, <2>1 DEF awg_device_set_mtu_from_string, Accept
  <2>3. QED
    BY <2>2 DEF t
<1>3. CASE f # "mtu"
  <2>1. v = set_number(d, f, t, MaxOf(f))
    BY <1>3, ItemCases DEF MaxOf, NumberFields, JunkFields, PaddingFields,
         awg_device_set_listen_port_from_string, awg_device_set_fw_mark_from_string,
         awg_device_set_junk_from_string, awg_device_set_padding_from_string, PaddingMax
  <2>2. IsUnsigned(t, MaxOf(f))
    BY <1>1 DEF IsUnsigned
  <2>3. v = Accept([d EXCEPT !.number[f] = n])
    BY <1>1, <2>1, <2>2 DEF set_number, Accept
  <2>4. QED
    BY <2>3 DEF t
<1>4. QED
  BY <1>2, <1>3

(***************************************************************************)
(* The reader in the [Interface] of a written file.                        *)
(***************************************************************************)

\* A device of which the fields in K were read.
PartOf(d, K) ==
    [text    |-> [f \in TextFields |-> IF f \in K THEN d.text[f] ELSE Unset],
     number  |-> [f \in NumberFields |-> IF f \in K THEN d.number[f] ELSE 0],
     on      |-> d.on \cap K,
     address |-> IF "address" \in K THEN d.address ELSE awg_device_new.address,
     dns     |-> IF "dns" \in K THEN d.dns ELSE awg_device_new.dns,
     peers   |-> <<>>]

AfterItems(d, K) ==
    [device |-> PartOf(d, K), peer |-> <<>>, section |-> "interface", success |-> TRUE, error |-> NoError]

\* These lines bring the reader the fields F.
Gives(d, s, F) ==
    /\ IsText(s)
    /\ \A K : ("address" \in F => "address" \notin K) => ReadsTo(AfterItems(d, K), s, AfterItems(d, K \cup F))

LEMMA GivesCat ==
    ASSUME NEW d, NEW a, NEW b, NEW F, NEW G, Gives(d, a, F), Gives(d, b, G), "address" \notin G
    PROVE  Gives(d, a \o b, F \cup G)
<1>1. IsText(a \o b)
  BY TextCat DEF Gives
<1>2. ASSUME NEW K, "address" \in F => "address" \notin K
      PROVE  ReadsTo(AfterItems(d, K), a \o b, AfterItems(d, K \cup (F \cup G)))
  <2>1. ReadsTo(AfterItems(d, K), a, AfterItems(d, K \cup F))
    BY <1>2 DEF Gives
  <2>2. ReadsTo(AfterItems(d, K \cup F), b, AfterItems(d, (K \cup F) \cup G))
    BY DEF Gives
  <2>3. (K \cup F) \cup G = K \cup (F \cup G)
    OBVIOUS
  <2>4. QED
    BY <2>1, <2>2, <2>3, ReadsCat DEF Gives
<1>3. \A K : ("address" \in F \cup G => "address" \notin K)
             => ReadsTo(AfterItems(d, K), a \o b, AfterItems(d, K \cup (F \cup G)))
  BY <1>2
<1>4. QED
  BY <1>1, <1>3 DEF Gives

LEMMA LineReads ==
    ASSUME NEW d, NEW K, NEW L, NEW line, line.key \notin Markers,
           interface_item(PartOf(d, K), line.key, line.text) = Accept(PartOf(d, L))
    PROVE  read_line(AfterItems(d, K), line) = AfterItems(d, L)
<1> DEFINE r == AfterItems(d, K)
           q == AfterItems(d, L)
           yes == TRUE
           x == PartOf(d, K)
           y == PartOf(d, L)
           s == interface_item(r.device, line.key, line.text)
<1>1. /\ r = [device |-> x, peer |-> <<>>, section |-> "interface", success |-> yes, error |-> NoError]
      /\ q = [device |-> y, peer |-> <<>>, section |-> "interface", success |-> yes, error |-> NoError]
  BY DEF AfterItems
<1>2. /\ r.device = x /\ r.peer = <<>> /\ r.section = "interface" /\ r.success = yes /\ r.error = NoError
  BY <1>1
<1>3. ReaderShape(r)
  BY DEF AfterItems, ReaderShape
<1> HIDE DEF r, q, x, y
<1>4. s.value = y /\ s.ok = TRUE
  <2>1. interface_item(x, line.key, line.text) = Accept(y)
    BY DEF x, y
  <2>2. QED
    BY <1>2, <2>1 DEF Accept
<1> HIDE DEF s
<1>5. read_line(r, line) = [device |-> s.value, peer |-> r.peer, section |-> r.section,
                            success |-> r.success /\ s.ok,
                            error |-> IF s.ok THEN r.error
                                      ELSE ErrorOr(r, [code |-> "value", key |-> line.key])]
  BY <1>2, <1>3, ReadItem DEF s
<1>6. (r.success /\ s.ok) = yes
  BY <1>2, <1>4
<1> HIDE DEF yes
<1>7. QED
  BY <1>1, <1>2, <1>4, <1>5, <1>6 DEF r, q

\* One field more.
WithText(x, f, t) == [x EXCEPT !.text[f] = t]
WithNumber(x, f, n) == [x EXCEPT !.number[f] = n]
WithFlag(x, f, on) == [x EXCEPT !.on = @ \cup (on \cap {f})]
WithAddress(x, a) == [x EXCEPT !.address = a]
WithServers(x, s) == [x EXCEPT !.dns = s]

LEMMA PartAdds ==
    ASSUME NEW d, Sound(d), NEW K, NEW L
    PROVE  /\ \A f \in TextFields :
                  L = K \cup {f} => PartOf(d, L) = WithText(PartOf(d, K), f, d.text[f])
           /\ \A f \in NumberFields :
                  L = K \cup {f} => PartOf(d, L) = WithNumber(PartOf(d, K), f, d.number[f])
           /\ \A f \in FlagFields :
                  L = K \cup {f} => PartOf(d, L) = WithFlag(PartOf(d, K), f, d.on)
           /\ L = K \cup {"address"} => PartOf(d, L) = WithAddress(PartOf(d, K), d.address)
           /\ L = K \cup {"dns"} => PartOf(d, L) = WithServers(PartOf(d, K), d.dns)
<1> DEFINE Made(t, n, o, a, s) ==
              [text |-> t, number |-> n, on |-> o, address |-> a, dns |-> s, peers |-> <<>>]
           T(S) == [f \in TextFields |-> IF f \in S THEN d.text[f] ELSE Unset]
           N(S) == [f \in NumberFields |-> IF f \in S THEN d.number[f] ELSE 0]
           A(S) == IF "address" \in S THEN d.address ELSE awg_device_new.address
           D(S) == IF "dns" \in S THEN d.dns ELSE awg_device_new.dns
           O(S) == d.on \cap S
           x == PartOf(d, K)
<1>1. \A S : PartOf(d, S) = Made(T(S), N(S), O(S), A(S), D(S))
  BY DEF PartOf
<1>2. /\ "address" \notin TextFields /\ "address" \notin NumberFields /\ "address" \notin FlagFields
      /\ "dns" \notin TextFields /\ "dns" \notin NumberFields /\ "dns" \notin FlagFields
      /\ \A f \in TextFields : f \notin NumberFields /\ f \notin FlagFields
      /\ \A f \in NumberFields : f \notin FlagFields
      /\ d.on \subseteq FlagFields
  BY DEF TextFields, NumberFields, FlagFields, KeyFields, HeaderFields, PacketFields, RangeFields,
         ScriptFields, JunkFields, PaddingFields, Sound, Encodable
<1>3. ASSUME NEW f \in TextFields, L = K \cup {f} PROVE PartOf(d, L) = WithText(x, f, d.text[f])
  <2>1. T(L) = [T(K) EXCEPT ![f] = d.text[f]]
    BY <1>3
  <2>2. N(L) = N(K) /\ O(L) = O(K) /\ A(L) = A(K) /\ D(L) = D(K)
    BY <1>2, <1>3
  <2> HIDE DEF T, N, O, A, D, x
  <2>3. x = Made(T(K), N(K), O(K), A(K), D(K))
    BY <1>1 DEF x
  <2>4. WithText(x, f, d.text[f]) = Made([T(K) EXCEPT ![f] = d.text[f]], N(K), O(K), A(K), D(K))
    BY <2>3 DEF WithText
  <2>5. QED
    BY <1>1, <2>1, <2>2, <2>4
<1>4. ASSUME NEW f \in NumberFields, L = K \cup {f} PROVE PartOf(d, L) = WithNumber(x, f, d.number[f])
  <2>1. N(L) = [N(K) EXCEPT ![f] = d.number[f]]
    BY <1>4
  <2>2. T(L) = T(K) /\ O(L) = O(K) /\ A(L) = A(K) /\ D(L) = D(K)
    BY <1>2, <1>4
  <2> HIDE DEF T, N, O, A, D, x
  <2>3. x = Made(T(K), N(K), O(K), A(K), D(K))
    BY <1>1 DEF x
  <2>4. WithNumber(x, f, d.number[f]) = Made(T(K), [N(K) EXCEPT ![f] = d.number[f]], O(K), A(K), D(K))
    BY <2>3 DEF WithNumber
  <2>5. QED
    BY <1>1, <2>1, <2>2, <2>4
<1>5. ASSUME NEW f \in FlagFields, L = K \cup {f} PROVE PartOf(d, L) = WithFlag(x, f, d.on)
  <2> DEFINE p == O(L)
  <2>1. p = O(K) \cup (d.on \cap {f})
    BY <1>5
  <2>2. T(L) = T(K) /\ N(L) = N(K) /\ A(L) = A(K) /\ D(L) = D(K)
    BY <1>2, <1>5
  <2> HIDE DEF T, N, O, A, D, x, p
  <2>3. x = Made(T(K), N(K), O(K), A(K), D(K))
    BY <1>1 DEF x
  <2>4. x.on = O(K)
    BY <2>3
  <2>5. WithFlag(x, f, d.on) = [x EXCEPT !.on = p]
    BY <2>1, <2>4 DEF WithFlag
  <2>6. [x EXCEPT !.on = p] = Made(T(K), N(K), p, A(K), D(K))
    BY <2>3
  <2>7. QED
    BY <1>1, <2>2, <2>5, <2>6 DEF p
<1>6. ASSUME L = K \cup {"address"} PROVE PartOf(d, L) = WithAddress(x, d.address)
  <2>1. A(L) = d.address /\ T(L) = T(K) /\ N(L) = N(K) /\ O(L) = O(K) /\ D(L) = D(K)
    BY <1>2, <1>6
  <2> HIDE DEF T, N, O, A, D, x
  <2>2. x = Made(T(K), N(K), O(K), A(K), D(K))
    BY <1>1 DEF x
  <2>3. WithAddress(x, d.address) = Made(T(K), N(K), O(K), d.address, D(K))
    BY <2>2 DEF WithAddress
  <2>4. QED
    BY <1>1, <2>1, <2>3
<1>7. ASSUME L = K \cup {"dns"} PROVE PartOf(d, L) = WithServers(x, d.dns)
  <2>1. D(L) = d.dns /\ T(L) = T(K) /\ N(L) = N(K) /\ O(L) = O(K) /\ A(L) = A(K)
    BY <1>2, <1>7
  <2> HIDE DEF T, N, O, A, D, x
  <2>2. x = Made(T(K), N(K), O(K), A(K), D(K))
    BY <1>1 DEF x
  <2>3. WithServers(x, d.dns) = Made(T(K), N(K), O(K), A(K), d.dns)
    BY <2>2 DEF WithServers
  <2>4. QED
    BY <1>1, <2>1, <2>3
<1>8. QED
  BY <1>3, <1>4, <1>5, <1>6, <1>7

\* A line that sets the fields F, and no line for fields that are as in a new device.
LEMMA LineGives ==
    ASSUME NEW d, NEW F, NEW line, line.key \notin Markers,
           \A K : ("address" \in F => "address" \notin K)
                  => interface_item(PartOf(d, K), line.key, line.text) = Accept(PartOf(d, K \cup F))
    PROVE  Gives(d, <<line>>, F)
<1>1. IsText(<<line>>)
  BY DEF IsText
<1>2. ASSUME NEW K, "address" \in F => "address" \notin K
      PROVE  ReadsTo(AfterItems(d, K), <<line>>, AfterItems(d, K \cup F))
  <2>1. interface_item(PartOf(d, K), line.key, line.text) = Accept(PartOf(d, K \cup F))
    BY <1>2
  <2>2. read_line(AfterItems(d, K), line) = AfterItems(d, K \cup F)
    BY <2>1, LineReads
  <2>3. ReadsTo(AfterItems(d, K), <<line>>, read_line(AfterItems(d, K), line))
    BY ReadsOne
  <2>4. QED
    BY <2>2, <2>3
<1>3. QED
  BY <1>1, <1>2 DEF Gives

LEMMA NothingGives ==
    ASSUME NEW d, NEW F, \A K : PartOf(d, K \cup F) = PartOf(d, K)
    PROVE  Gives(d, <<>>, F)
<1>1. IsText(<<>>)
  BY DEF IsText
<1>2. \A K : AfterItems(d, K \cup F) = AfterItems(d, K)
  BY DEF AfterItems
<1>3. QED
  BY <1>1, <1>2, ReadsNone DEF Gives

LEMMA FieldNames ==
    /\ "public_key" \in TextFields /\ "address" \notin TextFields \cup NumberFields \cup FlagFields
    /\ TextFields \cap Markers = {} /\ NumberFields \cap Markers = {} /\ FlagFields \cap Markers = {}
    /\ CommentedKey \notin Markers /\ "address" \notin Markers /\ "dns" \notin Markers
<1> USE DEF Markers, Comment, Interface, PeerSection, NoEquals, CommentedKey
<1>1. TextFields \cap Markers = {} /\ "public_key" \in TextFields
  BY DEF TextFields, KeyFields, HeaderFields, PacketFields, RangeFields, ScriptFields
<1>2. NumberFields \cap Markers = {}
  BY DEF NumberFields, JunkFields, PaddingFields
<1>3. FlagFields \cap Markers = {} /\ CommentedKey \notin Markers /\ "address" \notin Markers /\ "dns" \notin Markers
  BY DEF FlagFields
<1>4. "address" \notin TextFields \cup NumberFields \cup FlagFields
  BY DEF TextFields, KeyFields, HeaderFields, PacketFields, RangeFields, ScriptFields,
         NumberFields, JunkFields, PaddingFields, FlagFields
<1>5. QED
  BY <1>1, <1>2, <1>3, <1>4

\* A field that has its value already.
LEMMA PartSame ==
    ASSUME NEW d, Sound(d), NEW K, NEW L
    PROVE  /\ \A f \in TextFields : L = K \cup {f} /\ d.text[f] = Unset => PartOf(d, L) = PartOf(d, K)
           /\ \A f \in NumberFields : L = K \cup {f} /\ d.number[f] = 0 => PartOf(d, L) = PartOf(d, K)
           /\ \A f \in FlagFields : L = K \cup {f} /\ f \notin d.on => PartOf(d, L) = PartOf(d, K)
           /\ L = K \cup {"address"} /\ d.address = awg_device_new.address => PartOf(d, L) = PartOf(d, K)
           /\ L = K \cup {"dns"} /\ d.dns = awg_device_new.dns => PartOf(d, L) = PartOf(d, K)
<1> DEFINE Made(t, n, o, a, s) ==
              [text |-> t, number |-> n, on |-> o, address |-> a, dns |-> s, peers |-> <<>>]
           T(S) == [f \in TextFields |-> IF f \in S THEN d.text[f] ELSE Unset]
           N(S) == [f \in NumberFields |-> IF f \in S THEN d.number[f] ELSE 0]
           A(S) == IF "address" \in S THEN d.address ELSE awg_device_new.address
           D(S) == IF "dns" \in S THEN d.dns ELSE awg_device_new.dns
           O(S) == d.on \cap S
           Equal == T(L) = T(K) /\ N(L) = N(K) /\ O(L) = O(K) /\ A(L) = A(K) /\ D(L) = D(K)
<1>1. Equal => PartOf(d, L) = PartOf(d, K)
  <2>1. \A S : PartOf(d, S) = Made(T(S), N(S), O(S), A(S), D(S))
    BY DEF PartOf
  <2> HIDE DEF T, N, O, A, D
  <2>2. QED
    BY <2>1
<1>2. /\ "address" \notin TextFields /\ "address" \notin NumberFields /\ "address" \notin FlagFields
      /\ "dns" \notin TextFields /\ "dns" \notin NumberFields /\ "dns" \notin FlagFields
      /\ \A f \in TextFields : f \notin NumberFields /\ f \notin FlagFields
      /\ \A f \in NumberFields : f \notin FlagFields
      /\ d.on \subseteq FlagFields
  BY DEF TextFields, NumberFields, FlagFields, KeyFields, HeaderFields, PacketFields, RangeFields,
         ScriptFields, JunkFields, PaddingFields, Sound, Encodable
<1>3. ASSUME NEW f \in TextFields, L = K \cup {f}, d.text[f] = Unset PROVE Equal
  BY <1>2, <1>3
<1>4. ASSUME NEW f \in NumberFields, L = K \cup {f}, d.number[f] = 0 PROVE Equal
  BY <1>2, <1>4
<1>5. ASSUME NEW f \in FlagFields, L = K \cup {f}, f \notin d.on PROVE Equal
  BY <1>2, <1>5
<1>6. ASSUME L = K \cup {"address"}, d.address = awg_device_new.address PROVE Equal
  BY <1>2, <1>6
<1>7. ASSUME L = K \cup {"dns"}, d.dns = awg_device_new.dns PROVE Equal
  BY <1>2, <1>7
<1> HIDE DEF Equal
<1>8. QED
  BY <1>1, <1>3, <1>4, <1>5, <1>6, <1>7

\* A line with the text of a field of d.
LEMMA TextItemGives ==
    ASSUME NEW d, Sound(d), Taken(d), NEW f \in TextFields, NEW key,
           key = f \/ (key = CommentedKey /\ f = "public_key"),
           d.text[f] # Unset \/ f \notin {"private_key", "public_key"}
    PROVE  Gives(d, <<Line(key, d.text[f])>>, {f})
<1> DEFINE t == d.text[f]
           line == Line(key, t)
<1>1. line.key = key /\ line.text = t
  BY DEF Line
<1>2. key \notin Markers /\ "address" \notin {f}
  BY FieldNames
<1>3. ASSUME NEW K PROVE interface_item(PartOf(d, K), key, t) = Accept(PartOf(d, K \cup {f}))
  <2> DEFINE x == PartOf(d, K)
  <2>1. interface_item(x, key, t) = interface_item(x, f, t)
    <3>1. interface_item(x, CommentedKey, t) = awg_device_set_public_key(x, t)
      BY ItemCases
    <3>2. interface_item(x, "public_key", t) = awg_device_set_public_key(x, t)
      BY ItemCases
    <3>3. QED
      BY <3>1, <3>2
  <2>2. interface_item(x, f, t) = Accept([x EXCEPT !.text[f] = t])
    BY TextAccepted DEF Taken
  <2>3. interface_item(x, f, t) = Accept(WithText(x, f, t))
    BY <2>2 DEF WithText
  <2>4. PartOf(d, K \cup {f}) = WithText(x, f, t)
    BY PartAdds
  <2>5. QED
    BY <2>1, <2>3, <2>4
<1> HIDE DEF line
<1>4. Gives(d, <<line>>, {f})
  BY <1>1, <1>2, <1>3, LineGives
<1>5. QED
  BY <1>4 DEF line

LEMMA NoTextGives ==
    ASSUME NEW d, Sound(d), NEW f \in TextFields, d.text[f] = Unset
    PROVE  Gives(d, <<>>, {f})
<1>1. \A K : PartOf(d, K \cup {f}) = PartOf(d, K)
  BY PartSame
<1>2. QED
  BY <1>1, NothingGives

LEMMA TextGives ==
    ASSUME NEW d, Sound(d), Taken(d), NEW f \in TextFields, NEW key,
           key = f \/ (key = CommentedKey /\ f = "public_key")
    PROVE  Gives(d, Opt(key, d.text[f]), {f})
<1>1. CASE d.text[f] = Unset
  BY <1>1, NoTextGives DEF Opt
<1>2. CASE d.text[f] # Unset
  BY <1>2, TextItemGives DEF Opt
<1>3. QED
  BY <1>1, <1>2

\* The same for a text that is written stripped.
LEMMA StrippedGives ==
    ASSUME NEW d, Sound(d), Taken(d), NEW f \in TextFields \ {"private_key", "public_key"},
           NEW t, d.text[f] = Stripped(t)
    PROVE  Gives(d, TextLine(f, t), {f})
<1>1. CASE t = Unset
  <2>1. d.text[f] = Unset
    BY <1>1 DEF Stripped
  <2>2. QED
    BY <1>1, <2>1, NoTextGives DEF TextLine
<1>2. CASE t # Unset
  <2>1. TextLine(f, t) = <<Line(f, d.text[f])>>
    BY <1>2 DEF TextLine
  <2>2. QED
    BY <2>1, TextItemGives
<1>3. QED
  BY <1>1, <1>2

LEMMA NumberGives ==
    ASSUME NEW d, Sound(d), Taken(d), NEW f \in NumberFields
    PROVE  Gives(d, <<Line(f, <<d.number[f]>>)>>, {f}) /\ Gives(d, NonZero(f, d.number[f]), {f})
<1> DEFINE n == d.number[f]
           line == Line(f, <<n>>)
<1>1. line.key = f /\ line.text = <<n>>
  BY DEF Line
<1>2. f \notin Markers /\ "address" \notin {f}
  BY FieldNames
<1>3. ASSUME NEW K PROVE interface_item(PartOf(d, K), f, <<n>>) = Accept(PartOf(d, K \cup {f}))
  <2> DEFINE x == PartOf(d, K)
  <2>1. n \in 0 .. MaxOf(f) /\ (f = "mtu" => n = 0 \/ n >= 68)
    BY DEF Sound, Encodable, Taken
  <2>2. interface_item(x, f, <<n>>) = Accept([x EXCEPT !.number[f] = n])
    BY <2>1, NumberAccepted
  <2>3. interface_item(x, f, <<n>>) = Accept(WithNumber(x, f, n))
    BY <2>2 DEF WithNumber
  <2>4. PartOf(d, K \cup {f}) = WithNumber(x, f, n)
    BY PartAdds
  <2>5. QED
    BY <2>3, <2>4
<1>4. CASE n = 0
  <2>1. NonZero(f, n) = <<>>
    BY <1>4 DEF NonZero
  <2>2. Gives(d, <<>>, {f})
    BY <1>4, PartSame, NothingGives
  <2> HIDE DEF line
  <2>3. Gives(d, <<line>>, {f})
    BY <1>1, <1>2, <1>3, LineGives
  <2>4. QED
    BY <2>1, <2>2, <2>3 DEF line
<1>5. CASE n # 0
  <2>1. NonZero(f, n) = <<line>>
    BY <1>5 DEF NonZero
  <2> HIDE DEF line
  <2>2. Gives(d, <<line>>, {f})
    BY <1>1, <1>2, <1>3, LineGives
  <2>3. QED
    BY <2>1, <2>2 DEF line
<1>6. QED
  BY <1>4, <1>5

LEMMA FlagGives ==
    ASSUME NEW d, Sound(d), NEW f \in FlagFields
    PROVE  Gives(d, IF f \in d.on THEN <<Line(f, <<On>>)>> ELSE <<>>, {f})
<1> DEFINE t == <<On>>
           line == Line(f, t)
<1>1. CASE f \notin d.on
  BY <1>1, PartSame, NothingGives
<1>2. CASE f \in d.on
  <2>1. line.key = f /\ line.text = t
    BY DEF Line
  <2>2. f \notin Markers /\ "address" \notin {f}
    BY FieldNames
  <2>3. Len(t) = 1 /\ t[1] = On
    OBVIOUS
  <2> HIDE DEF t, line
  <2>4. ASSUME NEW K PROVE interface_item(PartOf(d, K), f, t) = Accept(PartOf(d, K \cup {f}))
    <3> DEFINE x == PartOf(d, K)
    <3>1. awg_parse_bool(t) /\ t[1] \in OnWords
      BY <2>3, SpellingsAssumption DEF awg_parse_bool
    <3>2. interface_item(x, f, t) = awg_device_set_flag(x, f, t[1] \in OnWords)
      BY <3>1, ItemCases
    <3>3. d.on \cap {f} = {f}
      BY <1>2
    <3> HIDE DEF x
    <3>4. awg_device_set_flag(x, f, t[1] \in OnWords) = Accept(WithFlag(x, f, d.on))
      BY <3>1, <3>3 DEF awg_device_set_flag, WithFlag
    <3>5. PartOf(d, K \cup {f}) = WithFlag(x, f, d.on)
      BY PartAdds DEF x
    <3>6. QED
      BY <3>2, <3>4, <3>5 DEF x
  <2>5. Gives(d, <<line>>, {f})
    BY <2>1, <2>2, <2>4, LineGives
  <2>6. QED
    BY <1>2, <2>5 DEF line, t
<1>3. QED
  BY <1>1, <1>2

\* The places of a sequence, one by one in their order.
InOrder(s, P, a) ==
    /\ Cardinality(P) = Len(a)
    /\ \A k \in 1 .. Len(a) : \E i \in P : Rank(P, i) = k /\ s[i] = a[k]

LEMMA PickPart ==
    ASSUME NEW n \in Nat, NEW s, NEW P, P \subseteq 1 .. n, NEW a, IsText(a), InOrder(s, P, a)
    PROVE  Pick(s, P) = a
<1> DEFINE m == Len(a)
<1>1. m \in Nat /\ a = [k \in 1 .. m |-> a[k]] /\ Cardinality(P) = m
  BY DEF IsText, InOrder
<1> HIDE DEF m
<1>2. ASSUME NEW k \in 1 .. m PROVE s[Nth(P, k)] = a[k]
  <2>1. k \in 1 .. Len(a)
    BY DEF m
  <2>2. PICK i \in P : Rank(P, i) = k /\ s[i] = a[k]
    BY <2>1 DEF InOrder
  <2>3. k \in 1 .. Cardinality(P)
    BY <1>1
  <2>4. \A j \in P : Rank(P, j) = k => j = Nth(P, k)
    BY <2>3, NthFacts
  <2>5. QED
    BY <2>2, <2>4
<1>3. Pick(s, P) = [k \in 1 .. m |-> s[Nth(P, k)]]
  BY <1>1 DEF Pick
<1>4. QED
  BY <1>1, <1>2, <1>3

LEMMA BothServers ==
    ASSUME NEW a, ServerList(a, "v4"), NEW b, ServerList(b, "v6")
    PROVE  LET c == a \o b IN
           /\ OfFamily(c, "v4") = a /\ OfFamily(c, "v6") = b
           /\ IsText(c) /\ Len(c) = Len(a) + Len(b) /\ \A i \in DOMAIN c : IsAddress(c[i])
<1> DEFINE m == Len(a)
           n == Len(b)
           c == a \o b
           P == 1 .. m
           Q == m + 1 .. m + n
<1>1. /\ IsText(a) /\ IsText(b) /\ m \in Nat /\ n \in Nat
      /\ \A i \in 1 .. m : IsAddress(a[i]) /\ a[i].family = "v4"
      /\ \A i \in 1 .. n : IsAddress(b[i]) /\ b[i].family = "v6"
  BY DEF ServerList, IsText
<1>2. /\ IsText(c) /\ Len(c) = m + n
      /\ \A i \in 1 .. m : c[i] = a[i]
      /\ \A i \in 1 .. n : c[m + i] = b[i]
  BY <1>1, TextCat
<1> HIDE DEF m, n, c
<1>3. DOMAIN c = 1 .. m + n
  BY <1>2 DEF IsText
<1>4. \A i \in 1 .. m : IsAddress(c[i]) /\ c[i].family = "v4"
  BY <1>1, <1>2
<1>5. ASSUME NEW i \in Q PROVE IsAddress(c[i]) /\ c[i].family = "v6"
  <2>1. PICK k \in 1 .. n : i = m + k
    <3>1. i - m \in 1 .. n /\ i = m + (i - m)
      BY <1>1
    <3>2. QED
      BY <3>1
  <2>2. QED
    BY <1>1, <1>2, <2>1
<1>6. \A i \in 1 .. m + n : i \in P \/ i \in Q
  BY <1>1
<1>7. P \subseteq 1 .. m + n /\ Q \subseteq 1 .. m + n /\ m + n \in Nat
  BY <1>1
<1>8. OfFamily(c, "v4") = a
  <2>1. {i \in DOMAIN c : c[i].family = "v4"} = P
    BY <1>3, <1>4, <1>5, <1>6, <1>7
  <2>2. Cardinality(P) = m
    BY <1>1, IntervalSize
  <2>3. ASSUME NEW k \in 1 .. m PROVE Rank(P, k) = k /\ k \in P /\ c[k] = a[k]
    <3>1. {j \in P : j <= k} = 1 .. k /\ k \in Nat
      BY <1>1
    <3>2. Cardinality(1 .. k) = k
      BY <3>1, IntervalSize
    <3>3. QED
      BY <1>2, <3>1, <3>2 DEF Rank
  <2> HIDE DEF P
  <2>4. Pick(c, P) = a
    <3>1. InOrder(c, P, a)
      BY <2>2, <2>3 DEF InOrder, m
    <3> DEFINE all == m + n
    <3>2. P \subseteq 1 .. all /\ all \in Nat
      BY <1>7
    <3> HIDE DEF all
    <3>3. QED
      BY <1>1, <3>1, <3>2, PickPart
  <2>5. QED
    BY <2>1, <2>4 DEF OfFamily
<1>9. OfFamily(c, "v6") = b
  <2>1. {i \in DOMAIN c : c[i].family = "v6"} = Q
    BY <1>3, <1>4, <1>5, <1>6, <1>7
  <2>2. ASSUME NEW k \in 0 .. n PROVE Cardinality(m + 1 .. m + k) = k
    <3> DEFINE x == m + 1
               y == m + k
    <3>1. x \in Int /\ y \in Int /\ (x > y => k = 0) /\ (~(x > y) => y - x + 1 = k)
      BY <1>1
    <3> HIDE DEF x, y
    <3>2. Cardinality(x .. y) = IF x > y THEN 0 ELSE y - x + 1
      BY <3>1, FS_Interval
    <3>3. Cardinality(x .. y) = k
      BY <3>1, <3>2
    <3>4. QED
      BY <3>3 DEF x, y
  <2>3. Cardinality(Q) = n
    <3>1. n \in 0 .. n
      BY <1>1
    <3>2. QED
      BY <2>2, <3>1
  <2>4. ASSUME NEW k \in 1 .. n PROVE \E i \in Q : Rank(Q, i) = k /\ c[i] = b[k]
    <3> DEFINE i == m + k
    <3>1. i \in Q /\ {j \in Q : j <= i} = m + 1 .. m + k /\ k \in 0 .. n
      BY <1>1
    <3>2. Rank(Q, i) = k
      BY <2>2, <3>1 DEF Rank
    <3>3. c[i] = b[k]
      BY <1>2
    <3>4. QED
      BY <3>1, <3>2, <3>3
  <2> HIDE DEF Q
  <2>5. Pick(c, Q) = b
    <3>1. InOrder(c, Q, b)
      BY <2>3, <2>4 DEF InOrder, n
    <3> DEFINE all == m + n
    <3>2. Q \subseteq 1 .. all /\ all \in Nat
      BY <1>7
    <3> HIDE DEF all
    <3>3. QED
      BY <1>1, <3>1, <3>2, PickPart
  <2>6. QED
    BY <2>1, <2>5 DEF OfFamily
<1>10. \A i \in DOMAIN c : IsAddress(c[i])
  BY <1>3, <1>4, <1>5, <1>6
<1>11. QED
  BY <1>2, <1>8, <1>9, <1>10 DEF c, m, n

LEMMA AddressGives ==
    ASSUME NEW d, Sound(d), Taken(d), d.address["v6"] = <<>>
    PROVE  Gives(d, Opt("address", d.address["v4"]), {"address"})
<1> DEFINE a == d.address["v4"]
           none == awg_device_new.address
           line == Line("address", a)
<1>1. AddressList(a, "v4") /\ d.address = [f \in {"v4", "v6"} |-> IF f = "v4" THEN a ELSE <<>>]
  <2>1. d.address = [f \in {"v4", "v6"} |-> d.address[f]] /\ AddressList(a, "v4")
    BY DEF Taken, AddressesTaken, Families
  <2>2. QED
    BY <2>1
<1>2. none = [f \in {"v4", "v6"} |-> <<>>]
  BY DEF awg_device_new, Families
<1>3. CASE a = <<>>
  <2>1. d.address = none
    BY <1>1, <1>2, <1>3
  <2>2. Gives(d, <<>>, {"address"})
    BY <2>1, PartSame, NothingGives
  <2>3. QED
    BY <1>3, <2>2 DEF Opt, Unset
<1>4. CASE a # <<>>
  <2>1. line.key = "address" /\ line.text = a
    BY DEF Line
  <2>2. IsText(a) /\ Len(a) = 1 /\ First(a) = a /\ \A i \in DOMAIN a : awg_subnet_is_valid(a[i])
    <3> HIDE DEF a
    <3>1. IsText(a) /\ Len(a) <= 1 /\ \A i \in 1 .. Len(a) : awg_subnet_is_valid(a[i])
      BY <1>1 DEF AddressList, SubnetList
    <3>2. a = [i \in 1 .. Len(a) |-> a[i]] /\ Len(a) \in Nat
      BY <3>1 DEF IsText
    <3>3. Len(a) = 1
      BY <1>4, <3>1, <3>2
    <3>4. First(a) = a
      BY <1>4, <3>2, <3>3 DEF First
    <3>5. DOMAIN a = 1 .. Len(a)
      BY <3>2
    <3>6. QED
      BY <3>1, <3>3, <3>4, <3>5
  <2>3. AddressesOf(a, "v4") = a /\ AddressesOf(a, "v6") = <<>>
    <3>1. AddressesOf(a, "v6") = IF "v6" = "v4" THEN a ELSE <<>>
      BY <1>1, OwnAddresses
    <3>2. QED
      BY <1>1, <3>1, OwnAddresses
  <2>4. <<>> \o a = a /\ <<>> \o <<>> = <<>> /\ Len(<<>>) = 0 /\ First(<<>>) = <<>>
    <3>1. IsText(<<>>)
      BY DEF IsText
    <3>2. QED
      BY <2>2, <3>1, EmptyCat DEF First
  <2> HIDE DEF line, a, none
  <2>5. ASSUME NEW K, "address" \notin K
        PROVE  interface_item(PartOf(d, K), "address", a) = Accept(PartOf(d, K \cup {"address"}))
    <3> DEFINE x == PartOf(d, K)
               all == [f \in Families |-> x.address[f] \o AddressesOf(a, f)]
               v == [f \in Families |-> First(all[f])]
               ok == /\ \A i \in DOMAIN a : a[i] = Blank \/ awg_subnet_is_valid(a[i])
                     /\ \A f \in Families : Len(all[f]) <= 1
                     /\ \E f \in Families : all[f] # <<>>
    <3>1. x.address = none
      BY <2>5 DEF PartOf, none
    <3> HIDE DEF x
    <3>2. all["v4"] = a /\ all["v6"] = <<>>
      BY <1>2, <2>3, <2>4, <3>1 DEF Families
    <3>3. interface_item(x, "address", a) = [ok |-> ok, value |-> [x EXCEPT !.address = v]]
      BY ItemCases DEF awg_device_set_address_from_string
    <3>4. ok = TRUE
      <4> HIDE DEF all
      <4>1. Len(all["v4"]) <= 1 /\ Len(all["v6"]) <= 1
        <5>1. Len(a) = 1 /\ Len(<<>>) = 0
          BY <2>2
        <5>2. Len(all["v4"]) = 1 /\ Len(all["v6"]) = 0
          BY <3>2, <5>1
        <5>3. QED
          BY <5>2
      <4>2. \A f \in Families : Len(all[f]) <= 1
        BY <4>1 DEF Families
      <4>3. \E f \in Families : all[f] # <<>>
        BY <1>4, <3>2 DEF Families
      <4>4. \A i \in DOMAIN a : a[i] = Blank \/ awg_subnet_is_valid(a[i])
        BY <2>2
      <4>5. QED
        BY <4>2, <4>3, <4>4
    <3> HIDE DEF all
    <3>5. v = d.address
      BY <1>1, <2>2, <2>4, <3>2 DEF Families
    <3> HIDE DEF ok, v
    <3>6. interface_item(x, "address", a) = Accept(WithAddress(x, d.address))
      BY <3>3, <3>4, <3>5 DEF Accept, WithAddress
    <3>7. PartOf(d, K \cup {"address"}) = WithAddress(x, d.address)
      BY PartAdds DEF x
    <3>8. QED
      BY <3>6, <3>7 DEF x
  <2>6. Gives(d, <<line>>, {"address"})
    BY <2>1, <2>5, FieldNames, LineGives
  <2>7. QED
    BY <1>4, <2>6 DEF Opt, Unset, line, a
<1>5. QED
  BY <1>3, <1>4

LEMMA DnsGives ==
    ASSUME NEW d, Sound(d), Taken(d), d.dns = [f \in Families |-> d.dns[f]]
    PROVE  Gives(d, Opt("dns", d.dns["v4"] \o d.dns["v6"]), {"dns"})
<1> DEFINE a == d.dns["v4"]
           b == d.dns["v6"]
           t == a \o b
           line == Line("dns", t)
<1>1. ServerList(a, "v4") /\ ServerList(b, "v6")
  BY DEF Taken, ServersTaken, Families
<1>2. d.dns = [f \in {"v4", "v6"} |-> IF f = "v4" THEN a ELSE b]
  BY DEF Families
<1>3. IsText(a) /\ IsText(b) /\ Len(a) \in Nat /\ Len(b) \in Nat
  BY <1>1 DEF ServerList, IsText
<1>4. /\ OfFamily(t, "v4") = a /\ OfFamily(t, "v6") = b
      /\ IsText(t) /\ Len(t) = Len(a) + Len(b) /\ \A i \in DOMAIN t : IsAddress(t[i])
  BY <1>1, BothServers
<1>5. line.key = "dns" /\ line.text = t
  BY DEF Line
<1> HIDE DEF a, b, t, line
<1>6. CASE t = <<>>
  <2>1. Len(t) = 0
    BY <1>6
  <2>2. Len(a) = 0 /\ Len(b) = 0
    BY <1>3, <1>4, <2>1
  <2>3. a = <<>> /\ b = <<>>
    BY <1>3, <2>2 DEF IsText
  <2>4. d.dns = awg_device_new.dns
    BY <1>2, <2>3 DEF awg_device_new, Families
  <2>5. Gives(d, <<>>, {"dns"})
    BY <2>4, PartSame, NothingGives
  <2>6. QED
    BY <1>6, <2>5 DEF Opt, Unset, t, a, b
<1>7. CASE t # <<>>
  <2>1. ASSUME NEW K PROVE interface_item(PartOf(d, K), "dns", t) = Accept(PartOf(d, K \cup {"dns"}))
    <3> DEFINE x == PartOf(d, K)
               v == [f \in Families |-> OfFamily(t, f)]
    <3>1. interface_item(x, "dns", t) = awg_device_set_dns_from_string(x, t)
      BY ItemCases
    <3> HIDE DEF x
    <3>2. awg_device_set_dns_from_string(x, t) = Accept([x EXCEPT !.dns = v])
      BY <1>4, <1>7 DEF awg_device_set_dns_from_string
    <3>3. v = d.dns
      BY <1>2, <1>4 DEF Families
    <3> HIDE DEF v
    <3>4. awg_device_set_dns_from_string(x, t) = Accept(WithServers(x, d.dns))
      BY <3>2, <3>3 DEF WithServers
    <3>5. PartOf(d, K \cup {"dns"}) = WithServers(x, d.dns)
      BY PartAdds DEF x
    <3>6. QED
      BY <3>1, <3>4, <3>5 DEF x
  <2>2. "address" \notin {"dns"}
    OBVIOUS
  <2>3. Gives(d, <<line>>, {"dns"})
    BY <1>5, <2>1, <2>2, FieldNames, LineGives
  <2>4. QED
    BY <1>7, <2>3 DEF Opt, Unset, line, t, a, b
<1>8. QED
  BY <1>6, <1>7

\* The fields up to a place of an order.
UpTo(order, i) == {order[j] : j \in 1 .. i}

\* Groups of lines for the fields of an order.
LEMMA GroupsGive ==
    ASSUME NEW d, NEW order, NEW n \in Nat, NEW ss, ss = [i \in 1 .. n |-> ss[i]],
           \A i \in 1 .. n : order[i] # "address" /\ Gives(d, ss[i], {order[i]})
    PROVE  Gives(d, FlattenSeq(ss), UpTo(order, n))
<1>1. ASSUME NEW K
      PROVE  /\ IsText(FlattenSeq(ss))
             /\ ReadsTo(AfterItems(d, K), FlattenSeq(ss), AfterItems(d, K \cup UpTo(order, n)))
  <2> DEFINE R == [i \in 0 .. n |-> AfterItems(d, K \cup UpTo(order, i))]
  <2>1. \A i \in 0 .. n : R[i] = AfterItems(d, K \cup UpTo(order, i))
    OBVIOUS
  <2> HIDE DEF R
  <2>2. ASSUME NEW i \in 1 .. n PROVE IsText(ss[i]) /\ ReadsTo(R[i - 1], ss[i], R[i])
    <3> DEFINE k == i - 1
               S == K \cup UpTo(order, k)
               T == K \cup UpTo(order, i)
    <3>1. k \in 0 .. n /\ i \in 0 .. n /\ 1 .. i = 1 .. k \cup {i}
      OBVIOUS
    <3>2. R[k] = AfterItems(d, S) /\ R[i] = AfterItems(d, T)
      BY <2>1, <3>1
    <3>3. T = S \cup {order[i]}
      BY <3>1 DEF UpTo
    <3> HIDE DEF k, S, T
    <3>4. IsText(ss[i]) /\ ReadsTo(AfterItems(d, S), ss[i], AfterItems(d, S \cup {order[i]}))
      BY DEF Gives
    <3>5. IsText(ss[i]) /\ ReadsTo(R[k], ss[i], R[i])
      BY <3>2, <3>3, <3>4
    <3>6. QED
      BY <3>5 DEF k
  <2>3. IsText(FlattenSeq(ss)) /\ ReadsTo(R[0], FlattenSeq(ss), R[n])
    BY <2>2, ReadsFlat
  <2>4. R[0] = AfterItems(d, K) /\ R[n] = AfterItems(d, K \cup UpTo(order, n))
    <3>1. 0 \in 0 .. n /\ n \in 0 .. n
      OBVIOUS
    <3>2. UpTo(order, 0) = {}
      BY DEF UpTo
    <3>3. K \cup UpTo(order, 0) = K
      BY <3>2
    <3>4. QED
      BY <2>1, <3>1, <3>3
  <2>5. QED
    BY <2>3, <2>4
<1>2. QED
  BY <1>1 DEF Gives

\* Single lines for the fields of an order.
LEMMA LinesGive ==
    ASSUME NEW d, NEW order, NEW n \in Nat, NEW s, s = [i \in 1 .. n |-> s[i]],
           \A i \in 1 .. n : order[i] # "address" /\ Gives(d, <<s[i]>>, {order[i]})
    PROVE  Gives(d, s, UpTo(order, n))
<1>1. Len(s) = n /\ IsText(s)
  <2>1. Len(s) = n
    OBVIOUS
  <2>2. QED
    BY <2>1 DEF IsText
<1>2. ASSUME NEW K PROVE ReadsTo(AfterItems(d, K), s, AfterItems(d, K \cup UpTo(order, n)))
  <2> DEFINE R == [i \in 0 .. n |-> AfterItems(d, K \cup UpTo(order, i))]
  <2>1. \A i \in 0 .. n : R[i] = AfterItems(d, K \cup UpTo(order, i))
    OBVIOUS
  <2> HIDE DEF R
  <2>2. ASSUME NEW i \in 1 .. n PROVE R[i] = read_line(R[i - 1], s[i])
    <3> DEFINE k == i - 1
               S == K \cup UpTo(order, k)
               T == K \cup UpTo(order, i)
               line == s[i]
    <3>1. k \in 0 .. n /\ i \in 0 .. n /\ 1 .. i = 1 .. k \cup {i}
      OBVIOUS
    <3>2. R[k] = AfterItems(d, S) /\ R[i] = AfterItems(d, T)
      BY <2>1, <3>1
    <3>3. T = S \cup {order[i]}
      BY <3>1 DEF UpTo
    <3> HIDE DEF k, S, T
    <3>4. ReadsTo(AfterItems(d, S), <<line>>, AfterItems(d, S \cup {order[i]}))
      BY DEF Gives
    <3> HIDE DEF line
    <3>5. ReadsTo(R[k], <<line>>, R[i])
      BY <3>2, <3>3, <3>4
    <3>6. ReadsTo(R[k], <<line>>, read_line(R[k], line)) /\ Len(<<line>>) \in Nat
      BY ReadsOne
    <3>7. R[i] = read_line(R[k], line)
      BY <3>5, <3>6, ReadsSame
    <3>8. QED
      BY <3>7 DEF k, line
  <2>3. R[0] = AfterItems(d, K) /\ R[n] = AfterItems(d, K \cup UpTo(order, n))
    <3>1. 0 \in 0 .. n /\ n \in 0 .. n
      OBVIOUS
    <3>2. UpTo(order, 0) = {}
      BY DEF UpTo
    <3>3. K \cup UpTo(order, 0) = K
      BY <3>2
    <3>4. QED
      BY <2>1, <3>1, <3>3
  <2>4. Passes(R, AfterItems(d, K), s, AfterItems(d, K \cup UpTo(order, n)))
    BY <1>1, <2>2, <2>3 DEF Passes
  <2>5. QED
    BY <2>4 DEF ReadsTo
<1>3. QED
  BY <1>1, <1>2 DEF Gives

\* What a file of the device x says: d has its texts without white space, the
\* lower half of its mark, and no IPv6 address.
SaidBy(d, x) ==
    /\ \A f \in TextFields : d.text[f] = Stripped(x.text[f])
    /\ d.text["private_key"] = x.text["private_key"] /\ d.text["public_key"] = x.text["public_key"]
    /\ d.on = x.on /\ d.dns = x.dns /\ d.peers = x.peers /\ d.address["v4"] = x.address["v4"]
    /\ \A f \in NumberFields \ {"fw_mark"} : d.number[f] = x.number[f]
    /\ d.number["fw_mark"] = x.number["fw_mark"] % (U16Max + 1)

LEMMA TextLinesGive ==
    ASSUME NEW d, Sound(d), Taken(d), NEW x, SaidBy(d, x), NEW order, IsText(order),
           \A i \in 1 .. Len(order) : order[i] \in TextFields \ {"private_key", "public_key"}
    PROVE  Gives(d, TextLines(x, order), UpTo(order, Len(order)))
<1> DEFINE ss == [i \in DOMAIN order |-> TextLine(order[i], x.text[order[i]])]
           n == Len(order)
<1>1. n \in Nat /\ DOMAIN order = 1 .. n
  BY DEF IsText
<1>2. ASSUME NEW i \in 1 .. n PROVE order[i] # "address" /\ Gives(d, ss[i], {order[i]})
  <2> DEFINE f == order[i]
  <2>1. f \in TextFields \ {"private_key", "public_key"} /\ ss[i] = TextLine(f, x.text[f])
    BY <1>1
  <2> HIDE DEF f, ss
  <2>2. d.text[f] = Stripped(x.text[f])
    BY <2>1 DEF SaidBy
  <2>3. Gives(d, TextLine(f, x.text[f]), {f})
    BY <2>1, <2>2, StrippedGives
  <2>4. f # "address"
    BY <2>1, FieldNames
  <2>5. QED
    BY <2>1, <2>3, <2>4 DEF f
<1>3. ss = [i \in 1 .. n |-> ss[i]]
  BY <1>1
<1> HIDE DEF ss, n
<1>4. Gives(d, FlattenSeq(ss), UpTo(order, n))
  BY <1>1, <1>2, <1>3, GroupsGive
<1>5. QED
  BY <1>4 DEF TextLines, ss, n

FlagOrder == <<"random_trailers", "disable_cookies">>

LEMMA FlagLinesGive ==
    ASSUME NEW d, Sound(d), Taken(d), NEW x, SaidBy(d, x)
    PROVE  Gives(d, FlagLines(x), UpTo(FlagOrder, 2))
<1> DEFINE ss == [i \in 1 .. 2 |-> IF FlagOrder[i] \in d.on THEN <<Line(FlagOrder[i], <<On>>)>> ELSE <<>>]
<1>1. ASSUME NEW i \in 1 .. 2 PROVE FlagOrder[i] # "address" /\ Gives(d, ss[i], {FlagOrder[i]})
  <2> DEFINE f == FlagOrder[i]
             s == IF f \in d.on THEN <<Line(f, <<On>>)>> ELSE <<>>
  <2>1. f \in FlagFields /\ f # "address"
    BY DEF FlagOrder, FlagFields
  <2>2. ss[i] = s
    OBVIOUS
  <2> HIDE DEF f
  <2>3. Gives(d, s, {f})
    BY <2>1, FlagGives
  <2> HIDE DEF s, ss
  <2>4. QED
    BY <2>1, <2>2, <2>3 DEF f
<1>2. ss = [i \in 1 .. 2 |-> ss[i]]
  OBVIOUS
<1> HIDE DEF ss
<1>3. Gives(d, FlattenSeq(ss), UpTo(FlagOrder, 2))
  BY <1>1, <1>2, GroupsGive
<1>4. d.on = x.on
  BY DEF SaidBy
<1>5. QED
  BY <1>3, <1>4 DEF FlagLines, ss, FlagOrder

LEMMA NumberLinesGive ==
    ASSUME NEW d, Sound(d), Taken(d), NEW x, SaidBy(d, x)
    PROVE  Gives(d, [i \in DOMAIN NumberOrder |-> Line(NumberOrder[i], <<x.number[NumberOrder[i]]>>)],
                 UpTo(NumberOrder, 7))
<1> DEFINE s == [i \in DOMAIN NumberOrder |-> Line(NumberOrder[i], <<x.number[NumberOrder[i]]>>)]
<1>1. DOMAIN NumberOrder = 1 .. 7 /\ \A i \in 1 .. 7 : NumberOrder[i] \in NumberFields \ {"fw_mark"}
  BY DEF NumberOrder, NumberFields, JunkFields, PaddingFields
<1>2. ASSUME NEW i \in 1 .. 7 PROVE NumberOrder[i] # "address" /\ Gives(d, <<s[i]>>, {NumberOrder[i]})
  <2> DEFINE f == NumberOrder[i]
  <2>1. f \in NumberFields /\ s[i] = Line(f, <<d.number[f]>>)
    BY <1>1 DEF SaidBy
  <2> HIDE DEF f, s
  <2>2. Gives(d, <<Line(f, <<d.number[f]>>)>>, {f})
    BY <2>1, NumberGives
  <2>3. f # "address"
    BY <2>1, FieldNames
  <2>4. QED
    BY <2>1, <2>2, <2>3 DEF f
<1>3. s = [i \in 1 .. 7 |-> s[i]]
  BY <1>1
<1> HIDE DEF s
<1>4. Gives(d, s, UpTo(NumberOrder, 7))
  BY <1>2, <1>3, LinesGive
<1>5. QED
  BY <1>4 DEF s

\* The fields of two orders, one after the other.
LEMMA UpToCat ==
    ASSUME NEW a, IsText(a), NEW b, IsText(b)
    PROVE  UpTo(a \o b, Len(a \o b)) = UpTo(a, Len(a)) \cup UpTo(b, Len(b))
<1> DEFINE c == a \o b
           m == Len(a)
           n == Len(b)
<1>1. /\ m \in Nat /\ n \in Nat /\ Len(c) = m + n
      /\ \A i \in 1 .. m : c[i] = a[i]
      /\ \A i \in 1 .. n : c[m + i] = b[i]
  BY TextCat DEF IsText
<1> HIDE DEF c, m, n
<1>2. ASSUME NEW i \in 1 .. m + n PROVE c[i] \in UpTo(a, m) \cup UpTo(b, n)
  <2>1. CASE i <= m
    BY <1>1, <2>1 DEF UpTo
  <2>2. CASE ~(i <= m)
    <3>1. PICK k \in 1 .. n : i = m + k
      <4>1. i - m \in 1 .. n /\ i = m + (i - m)
        BY <1>1, <2>2
      <4>2. QED
        BY <4>1
    <3>2. QED
      BY <1>1, <3>1 DEF UpTo
  <2>3. QED
    BY <2>1, <2>2
<1>3. ASSUME NEW i \in 1 .. m PROVE a[i] \in UpTo(c, m + n)
  <2>1. i \in 1 .. m + n
    BY <1>1
  <2>2. QED
    BY <1>1, <2>1 DEF UpTo
<1>4. ASSUME NEW i \in 1 .. n PROVE b[i] \in UpTo(c, m + n)
  <2> DEFINE k == m + i
  <2>1. k \in 1 .. m + n /\ c[k] = b[i]
    BY <1>1
  <2> HIDE DEF k
  <2>2. QED
    BY <2>1 DEF UpTo
<1>5. UpTo(c, m + n) = UpTo(a, m) \cup UpTo(b, n)
  <2>1. UpTo(c, m + n) \subseteq UpTo(a, m) \cup UpTo(b, n)
    BY <1>2 DEF UpTo
  <2>2. UpTo(a, m) \subseteq UpTo(c, m + n) /\ UpTo(b, n) \subseteq UpTo(c, m + n)
    BY <1>3, <1>4 DEF UpTo
  <2>3. QED
    BY <2>1, <2>2
<1>6. QED
  BY <1>1, <1>5 DEF c, m, n

ParameterFields ==
    JunkFields \cup PaddingFields \cup HeaderFields \cup PacketFields \cup {"header_protection_key"}
    \cup RangeFields \cup FlagFields \cup ScriptFields

LEMMA ParametersGive ==
    ASSUME NEW d, Sound(d), Taken(d), NEW x, SaidBy(d, x)
    PROVE  Gives(d, parameter_lines(x), ParameterFields)
<1> DEFINE a == [i \in DOMAIN NumberOrder |-> Line(NumberOrder[i], <<x.number[NumberOrder[i]]>>)]
           o == HeaderOrder \o RangeOrder
           A == JunkFields \cup PaddingFields
           B == HeaderFields \cup PacketFields \cup {"header_protection_key"} \cup RangeFields
<1>1. Gives(d, a, A)
  <2>1. UpTo(NumberOrder, 7) = A
    BY DEF UpTo, NumberOrder, JunkFields, PaddingFields
  <2>2. QED
    BY <2>1, NumberLinesGive
<1>2. Gives(d, TextLines(x, o), B)
  <2>1. /\ IsText(HeaderOrder) /\ Len(HeaderOrder) = 9
    BY DEF HeaderOrder, IsText
  <2>2. /\ IsText(RangeOrder) /\ Len(RangeOrder) = 7
    BY DEF RangeOrder, IsText
  <2>3. UpTo(HeaderOrder, 9) = HeaderFields \cup PacketFields
    BY DEF UpTo, HeaderOrder, HeaderFields, PacketFields
  <2>4. UpTo(RangeOrder, 7) = {"header_protection_key"} \cup RangeFields
    BY DEF UpTo, RangeOrder, RangeFields
  <2>5. IsText(o) /\ UpTo(o, Len(o)) = B
    <3>1. IsText(o)
      BY <2>1, <2>2, TextCat
    <3>2. UpTo(o, Len(o)) = UpTo(HeaderOrder, Len(HeaderOrder)) \cup UpTo(RangeOrder, Len(RangeOrder))
      BY <2>1, <2>2, UpToCat
    <3>3. UpTo(o, Len(o)) = UpTo(HeaderOrder, 9) \cup UpTo(RangeOrder, 7)
      BY <2>1, <2>2, <3>2
    <3> HIDE DEF o
    <3>4. QED
      BY <2>3, <2>4, <3>1, <3>3
  <2>6. \A i \in 1 .. Len(o) : o[i] \in TextFields \ {"private_key", "public_key"}
    <3>1. UpTo(o, Len(o)) \subseteq TextFields \ {"private_key", "public_key"}
      BY <2>5 DEF TextFields, KeyFields, HeaderFields, PacketFields, RangeFields
    <3> HIDE DEF o
    <3>2. QED
      BY <3>1 DEF UpTo
  <2> HIDE DEF o
  <2>7. QED
    BY <2>5, <2>6, TextLinesGive
<1>3. Gives(d, FlagLines(x), FlagFields)
  <2>1. UpTo(FlagOrder, 2) = FlagFields
    BY DEF UpTo, FlagOrder, FlagFields
  <2>2. QED
    BY <2>1, FlagLinesGive
<1>4. Gives(d, TextLines(x, ScriptOrder), ScriptFields)
  <2>1. /\ IsText(ScriptOrder) /\ Len(ScriptOrder) = 4
        /\ \A i \in 1 .. Len(ScriptOrder) : ScriptOrder[i] \in TextFields \ {"private_key", "public_key"}
    BY DEF ScriptOrder, IsText, TextFields, ScriptFields
  <2>2. UpTo(ScriptOrder, 4) = ScriptFields
    BY DEF UpTo, ScriptOrder, ScriptFields
  <2>3. QED
    BY <2>1, <2>2, TextLinesGive
<1>5. "address" \notin B /\ "address" \notin FlagFields /\ "address" \notin ScriptFields
  BY DEF HeaderFields, PacketFields, RangeFields, FlagFields, ScriptFields
<1>6. parameter_lines(x) = a \o TextLines(x, o) \o FlagLines(x) \o TextLines(x, ScriptOrder)
  BY DEF parameter_lines
<1> HIDE DEF a, o, A, B
<1>7. Gives(d, a \o TextLines(x, o), A \cup B)
  BY <1>1, <1>2, <1>5, GivesCat
<1>8. Gives(d, a \o TextLines(x, o) \o FlagLines(x), (A \cup B) \cup FlagFields)
  BY <1>3, <1>5, <1>7, GivesCat
<1>9. Gives(d, parameter_lines(x), ((A \cup B) \cup FlagFields) \cup ScriptFields)
  BY <1>4, <1>5, <1>6, <1>8, GivesCat
<1>10. ((A \cup B) \cup FlagFields) \cup ScriptFields = ParameterFields
  BY DEF ParameterFields, A, B
<1>11. QED
  BY <1>9, <1>10

\* Lines that a new reader reads as the fields K.
Reached(d, s, K) == IsText(s) /\ ReadsTo(new_reader, s, AfterItems(d, K))

LEMMA ReachedCat ==
    ASSUME NEW d, NEW s, NEW K, Reached(d, s, K), NEW t, NEW F, Gives(d, t, F),
           "address" \in F => "address" \notin K
    PROVE  Reached(d, s \o t, K \cup F)
<1>1. IsText(s) /\ IsText(t) /\ ReadsTo(new_reader, s, AfterItems(d, K))
      /\ ReadsTo(AfterItems(d, K), t, AfterItems(d, K \cup F))
  BY DEF Reached, Gives
<1> DEFINE p == AfterItems(d, K)
           q == AfterItems(d, K \cup F)
<1> HIDE DEF p, q
<1>2. ReadsTo(new_reader, s, p) /\ ReadsTo(p, t, q)
  BY <1>1 DEF p, q
<1>3. IsText(s \o t) /\ ReadsTo(new_reader, s \o t, q)
  BY <1>1, <1>2, TextCat, ReadsCat
<1>4. QED
  BY <1>3 DEF Reached, q

AllFields == TextFields \cup NumberFields \cup FlagFields \cup {"address", "dns"}

\* Before the first field a device is new, after the last it has all but its peers.
LEMMA PartEnds ==
    ASSUME NEW d, Sound(d)
    PROVE  /\ PartOf(d, {}) = awg_device_new
           /\ \A K : AllFields \subseteq K => PartOf(d, K) = [d EXCEPT !.peers = <<>>]
<1>1. PartOf(d, {}) = awg_device_new
  <2>1. /\ [f \in TextFields |-> IF f \in {} THEN d.text[f] ELSE Unset] = [f \in TextFields |-> Unset]
        /\ [f \in NumberFields |-> IF f \in {} THEN d.number[f] ELSE 0] = [f \in NumberFields |-> 0]
        /\ d.on \cap {} = {}
    OBVIOUS
  <2>2. awg_device_new = [text |-> [f \in TextFields |-> Unset], number |-> [f \in NumberFields |-> 0],
                          on |-> {}, address |-> awg_device_new.address, dns |-> awg_device_new.dns,
                          peers |-> <<>>]
    BY DEF awg_device_new
  <2>3. QED
    BY <2>1, <2>2 DEF PartOf
<1>2. ASSUME NEW K, AllFields \subseteq K PROVE PartOf(d, K) = [d EXCEPT !.peers = <<>>]
  <2> DEFINE T == [f \in TextFields |-> d.text[f]]
             N == [f \in NumberFields |-> d.number[f]]
  <2>1. /\ [f \in TextFields |-> IF f \in K THEN d.text[f] ELSE Unset] = T
        /\ [f \in NumberFields |-> IF f \in K THEN d.number[f] ELSE 0] = N
        /\ d.on \cap K = d.on
        /\ "address" \in K /\ "dns" \in K
    BY <1>2 DEF AllFields, Sound, Encodable
  <2>2. d = [text |-> T, number |-> N, on |-> d.on, address |-> d.address, dns |-> d.dns, peers |-> d.peers]
    BY DEF Sound, DeviceShape
  <2> HIDE DEF T, N
  <2>3. PartOf(d, K) = [text |-> T, number |-> N, on |-> d.on, address |-> d.address, dns |-> d.dns,
                        peers |-> <<>>]
    BY <2>1 DEF PartOf
  <2>4. QED
    BY <2>2, <2>3
<1>3. QED
  BY <1>1, <1>2

\* The first line opens [Interface].
LEMMA InterfaceOpens ==
    ASSUME NEW d, Sound(d)
    PROVE  Reached(d, <<Line(Interface, Unset)>>, {})
<1> DEFINE line == Line(Interface, Unset)
           yes == TRUE
<1>1. line.key = Interface
  BY DEF Line
<1>2. new_reader = [device |-> awg_device_new, peer |-> <<>>, section |-> "none",
                    success |-> yes, error |-> NoError]
      /\ yes \in BOOLEAN
  BY DEF new_reader
<1> HIDE DEF line, yes
<1>3. ReaderShape(new_reader)
  BY <1>2 DEF ReaderShape
<1>4. read_line(new_reader, line) =
          [device |-> new_reader.device, peer |-> new_reader.peer, section |-> "interface",
           success |-> new_reader.success, error |-> new_reader.error]
  BY <1>1, <1>3, ReadMarker
<1>5. read_line(new_reader, line) = [device |-> awg_device_new, peer |-> <<>>, section |-> "interface",
                                     success |-> yes, error |-> NoError]
  BY <1>2, <1>4
<1>6. read_line(new_reader, line) = AfterItems(d, {})
  BY <1>5, PartEnds DEF AfterItems, yes
<1>7. IsText(<<line>>)
  BY DEF IsText
<1>8. QED
  BY <1>6, <1>7, ReadsOne DEF Reached, line

\* A device that a file can say has no IPv6 address.
Sayable(d) ==
    /\ Sound(d) /\ Taken(d)
    /\ d.address["v6"] = <<>> /\ d.dns = [f \in Families |-> d.dns[f]]

\* The lines of [Interface] are read as the device without its peers.
LEMMA FieldsRead ==
    ASSUME NEW d, Sayable(d), NEW x, SaidBy(d, x)
    PROVE  \E K : AllFields \subseteq K /\ Reached(d, interface_lines(x) \o parameter_lines(x), K)
<1> DEFINE a == <<Line(Interface, Unset)>>
           b == Opt("private_key", d.text["private_key"])
           c == Opt(CommentedKey, d.text["public_key"])
           e == Opt("address", d.address["v4"])
           f == NonZero("listen_port", d.number["listen_port"])
           g == Opt("dns", d.dns["v4"] \o d.dns["v6"])
           h == NonZero("fw_mark", d.number["fw_mark"])
           i == NonZero("mtu", d.number["mtu"])
           p == parameter_lines(x)
           K3 == ({} \cup {"private_key"}) \cup {"public_key"}
           K7 == (((K3 \cup {"address"}) \cup {"listen_port"}) \cup {"dns"}) \cup {"fw_mark"}
           K9 == (K7 \cup {"mtu"}) \cup ParameterFields
<1>1. Sound(d) /\ Taken(d)
  BY DEF Sayable
<1>2. Gives(d, b, {"private_key"}) /\ Gives(d, c, {"public_key"})
  <2>1. "private_key" \in TextFields /\ "public_key" \in TextFields
    BY DEF TextFields, KeyFields
  <2>2. QED
    BY <1>1, <2>1, TextGives
<1>3. Gives(d, e, {"address"}) /\ Gives(d, g, {"dns"})
  BY AddressGives, DnsGives DEF Sayable
<1>4. Gives(d, f, {"listen_port"}) /\ Gives(d, h, {"fw_mark"}) /\ Gives(d, i, {"mtu"})
  <2>1. "listen_port" \in NumberFields /\ "fw_mark" \in NumberFields /\ "mtu" \in NumberFields
    BY DEF NumberFields
  <2>2. QED
    BY <1>1, <2>1, NumberGives
<1>5. Gives(d, p, ParameterFields) /\ "address" \notin ParameterFields
  BY <1>1, ParametersGive DEF ParameterFields, JunkFields, PaddingFields, HeaderFields, PacketFields,
     RangeFields, FlagFields, ScriptFields
<1>6. interface_lines(x) = a \o b \o c \o e \o f \o g \o h \o i
  <2>1. x.number["listen_port"] = d.number["listen_port"] /\ x.number["mtu"] = d.number["mtu"]
    BY DEF SaidBy, NumberFields
  <2>2. QED
    BY <2>1 DEF interface_lines, SaidBy
<1>7. Reached(d, a, {})
  BY <1>1, InterfaceOpens
<1>8. AllFields \subseteq K9
  BY DEF AllFields, ParameterFields, TextFields, NumberFields, KeyFields
<1>9. "address" \notin K3
  OBVIOUS
<1> HIDE DEF a, b, c, e, f, g, h, i, p
<1>10. Reached(d, a \o b, {} \cup {"private_key"})
  BY <1>2, <1>7, ReachedCat
<1>11. Reached(d, a \o b \o c, K3)
  BY <1>2, <1>10, ReachedCat
<1> HIDE DEF K3
<1>12. Reached(d, a \o b \o c \o e, K3 \cup {"address"})
  BY <1>3, <1>9, <1>11, ReachedCat
<1>13. Reached(d, a \o b \o c \o e \o f, (K3 \cup {"address"}) \cup {"listen_port"})
  BY <1>4, <1>12, ReachedCat
<1>14. Reached(d, a \o b \o c \o e \o f \o g, ((K3 \cup {"address"}) \cup {"listen_port"}) \cup {"dns"})
  BY <1>3, <1>13, ReachedCat
<1>15. Reached(d, a \o b \o c \o e \o f \o g \o h, K7)
  BY <1>4, <1>14, ReachedCat
<1> HIDE DEF K7
<1>16. Reached(d, a \o b \o c \o e \o f \o g \o h \o i, K7 \cup {"mtu"})
  BY <1>4, <1>15, ReachedCat
<1>17. Reached(d, interface_lines(x) \o p, K9)
  BY <1>5, <1>6, <1>16, ReachedCat
<1> HIDE DEF K9
<1>18. QED
  BY <1>8, <1>17 DEF p

(***************************************************************************)
(* The reader in a [Peer] of a written file.                               *)
(***************************************************************************)

MadePeer(key, psk, endpoint, ips, alive, security) ==
    [public_key |-> key, shared_key |-> psk, endpoint |-> endpoint, allowed_ips |-> ips,
     keep_alive |-> alive, advanced_security |-> security]

InPeer(x, p) == [device |-> x, peer |-> <<p>>, section |-> "peer", success |-> TRUE, error |-> NoError]

LEMMA PeerLineReads ==
    ASSUME NEW x, NEW p, NEW q, NEW key, NEW t, key \notin Markers, peer_item(p, key, t) = Accept(q)
    PROVE  IsText(<<Line(key, t)>>) /\ ReadsTo(InPeer(x, p), <<Line(key, t)>>, InPeer(x, q))
<1> DEFINE line == Line(key, t)
           r == InPeer(x, p)
           yes == TRUE
           y == <<p>>
           s == peer_item(r.peer[1], line.key, line.text)
<1>1. line.key = key /\ line.text = t
  BY DEF Line
<1>2. r = [device |-> x, peer |-> y, section |-> "peer", success |-> yes, error |-> NoError]
      /\ InPeer(x, q) = [device |-> x, peer |-> <<q>>, section |-> "peer", success |-> yes, error |-> NoError]
      /\ yes \in BOOLEAN /\ y[1] = p
  BY DEF InPeer
<1> HIDE DEF r, y, line
<1>3. /\ r.device = x /\ r.peer = y /\ r.section = "peer" /\ r.success = yes /\ r.error = NoError
  BY <1>2
<1>4. ReaderShape(r)
  <2> HIDE DEF yes
  <2>1. QED
    BY <1>2 DEF ReaderShape
<1>5. s.value = q /\ s.ok = TRUE
  <2>1. r.peer[1] = p
    BY <1>2, <1>3
  <2>2. QED
    BY <1>1, <2>1 DEF Accept
<1> HIDE DEF s
<1>6. read_line(r, line) = [device |-> r.device, peer |-> <<s.value>>, section |-> r.section,
                            success |-> r.success /\ s.ok,
                            error |-> IF s.ok \/ line.key = "advanced_security" THEN r.error
                                      ELSE ErrorOr(r, [code |-> "value", key |-> line.key])]
  BY <1>1, <1>3, <1>4, ReadItem DEF s
<1>7. (r.success /\ s.ok) = yes
  BY <1>3, <1>5
<1> HIDE DEF yes
<1>8. read_line(r, line) = InPeer(x, q)
  BY <1>2, <1>3, <1>5, <1>6, <1>7
<1>9. IsText(<<line>>)
  BY DEF IsText
<1>10. QED
  BY <1>8, <1>9, ReadsOne DEF r, line

\* What the setters make of the fields of a complete peer.
LEMMA KeyAccepted ==
    ASSUME NEW p, PeerTaken(p), awg_device_peer_is_valid(p),
           NEW a, NEW b, NEW c, NEW d, NEW e, NEW f
    PROVE  peer_item(MadePeer(a, b, c, d, e, f), "public_key", p.public_key)
               = Accept(MadePeer(p.public_key, b, c, d, e, f))
<1> DEFINE q == MadePeer(a, b, c, d, e, f)
<1>1. awg_key_from_base64(p.public_key)
  BY DEF PeerTaken, awg_device_peer_is_valid
<1>2. peer_item(q, "public_key", p.public_key) = Accept([q EXCEPT !.public_key = p.public_key])
  BY <1>1 DEF peer_item, awg_device_peer_set_public_key
<1>3. QED
  BY <1>2 DEF MadePeer

LEMMA PskAccepted ==
    ASSUME NEW p, PeerTaken(p), awg_device_peer_is_valid(p), p.shared_key # Unset,
           NEW a, NEW b, NEW c, NEW d, NEW e, NEW f
    PROVE  peer_item(MadePeer(a, b, c, d, e, f), "shared_key", p.shared_key)
               = Accept(MadePeer(a, p.shared_key, c, d, e, f))
<1> DEFINE q == MadePeer(a, b, c, d, e, f)
<1>1. awg_key_from_base64(p.shared_key)
  BY DEF PeerTaken
<1>2. peer_item(q, "shared_key", p.shared_key) = Accept([q EXCEPT !.shared_key = p.shared_key])
  BY <1>1 DEF peer_item, awg_device_peer_set_shared_key
<1>3. QED
  BY <1>2 DEF MadePeer

LEMMA EndpointAccepted ==
    ASSUME NEW p, PeerTaken(p), awg_device_peer_is_valid(p),
           NEW a, NEW b, NEW c, NEW d, NEW e, NEW f
    PROVE  peer_item(MadePeer(a, b, c, d, e, f), "endpoint", p.endpoint)
               = Accept(MadePeer(a, b, p.endpoint, d, e, f))
<1> DEFINE q == MadePeer(a, b, c, d, e, f)
<1>1. awg_is_valid_endpoint(p.endpoint)
  BY DEF PeerTaken, awg_device_peer_is_valid
<1>2. peer_item(q, "endpoint", p.endpoint) = Accept([q EXCEPT !.endpoint = p.endpoint])
  BY <1>1 DEF peer_item, awg_device_peer_set_endpoint
<1>3. QED
  BY <1>2 DEF MadePeer

LEMMA AliveAccepted ==
    ASSUME NEW p, PeerTaken(p), awg_device_peer_is_valid(p),
           NEW a, NEW b, NEW c, NEW d, NEW e, NEW f
    PROVE  peer_item(MadePeer(a, b, c, d, e, f), "keep_alive", IF p.keep_alive = 0 THEN <<Off>> ELSE <<p.keep_alive>>)
               = Accept(MadePeer(a, b, c, d, p.keep_alive, f))
<1> DEFINE q == MadePeer(a, b, c, d, e, f)
<1> DEFINE n == p.keep_alive
           t == IF n = 0 THEN <<Off>> ELSE <<n>>
           v == awg_device_peer_set_keep_alive_interval_from_string(q, t)
<1>1. n \in 0 .. U16Max /\ n # Off
  BY WordsAssumption DEF PeerTaken
<1> HIDE DEF n, q
<1>2. v = Accept([q EXCEPT !.keep_alive = n])
  <2>1. CASE n = 0
    BY <2>1 DEF awg_device_peer_set_keep_alive_interval_from_string
  <2>2. CASE n # 0
    <3>1. t = <<n>> /\ <<n>> # <<Off>> /\ Len(<<n>>) = 1 /\ <<n>>[1] = n
      BY <1>1, <2>2
    <3>2. IsUnsigned(<<n>>, U16Max)
      BY <1>1, <3>1 DEF IsUnsigned
    <3>3. QED
      BY <3>1, <3>2 DEF awg_device_peer_set_keep_alive_interval_from_string
  <2>3. QED
    BY <2>1, <2>2
<1>3. peer_item(q, "keep_alive", t) = v
  BY DEF peer_item
<1> HIDE DEF v, t
<1>4. peer_item(q, "keep_alive", t) = Accept(MadePeer(a, b, c, d, n, f))
  BY <1>2, <1>3 DEF MadePeer, q
<1>5. QED
  BY <1>4 DEF t, n, q

LEMMA IpsAccepted ==
    ASSUME NEW p, PeerTaken(p), awg_device_peer_is_valid(p),
           NEW a, NEW b, NEW c, NEW d, NEW e, NEW f
    PROVE  peer_item(MadePeer(a, b, c, d, e, f), "allowed_ips", p.allowed_ips)
               = Accept(MadePeer(a, b, c, p.allowed_ips, e, f))
<1> DEFINE q == MadePeer(a, b, c, d, e, f)
<1> DEFINE t == p.allowed_ips
<1>1. SubnetList(t) /\ t # <<>>
  BY DEF PeerTaken, awg_device_peer_is_valid
<1> HIDE DEF t, q
<1>2. \A i \in DOMAIN t : awg_subnet_is_valid(t[i])
  BY <1>1 DEF SubnetList, IsText
<1>3. Subnets(Entries(t)) = t
  BY <1>1, SubnetsStay
<1>4. peer_item(q, "allowed_ips", t) = awg_device_peer_set_allowed_ips_from_string(q, t)
  BY DEF peer_item
<1>5. awg_device_peer_set_allowed_ips_from_string(q, t) = Accept([q EXCEPT !.allowed_ips = t])
  BY <1>1, <1>2, <1>3 DEF awg_device_peer_set_allowed_ips_from_string
<1>6. [q EXCEPT !.allowed_ips = t] = MadePeer(a, b, c, t, e, f)
  BY DEF MadePeer, q
<1>7. QED
  BY <1>4, <1>5, <1>6 DEF t, q

LEMMA SecurityAccepted ==
    ASSUME NEW p, PeerTaken(p), awg_device_peer_is_valid(p), p.advanced_security,
           NEW a, NEW b, NEW c, NEW d, NEW e, NEW f
    PROVE  peer_item(MadePeer(a, b, c, d, e, f), "advanced_security", <<On>>)
               = Accept(MadePeer(a, b, c, d, e, p.advanced_security))
<1> DEFINE q == MadePeer(a, b, c, d, e, f)
<1> DEFINE on == p.advanced_security
           t == <<On>>
           yes == t = <<On>>
<1>1. on = yes
  BY DEF PeerTaken
<1>2. t \in {<<On>>, <<Off>>}
  OBVIOUS
<1> HIDE DEF on, yes
<1>3. peer_item(q, "advanced_security", t) = Accept(awg_device_peer_set_advanced_security(q, yes))
  BY <1>2 DEF peer_item, yes
<1> HIDE DEF t, q
<1>4. awg_device_peer_set_advanced_security(q, yes) = MadePeer(a, b, c, d, e, on)
  BY <1>1 DEF awg_device_peer_set_advanced_security, MadePeer, q
<1>5. QED
  BY <1>3, <1>4 DEF on, t, q

\* Lines that bring the reader of a file from r to a peer p of the device x.
Opened(r, s, x, p) == IsText(s) /\ ReadsTo(r, s, InPeer(x, p))

LEMMA OpenedCat ==
    ASSUME NEW r, NEW s, NEW x, NEW p, Opened(r, s, x, p), NEW key, NEW t, NEW q,
           key \notin Markers, peer_item(p, key, t) = Accept(q)
    PROVE  Opened(r, s \o <<Line(key, t)>>, x, q)
<1> DEFINE l == <<Line(key, t)>>
           u == InPeer(x, p)
           v == InPeer(x, q)
<1>1. IsText(l) /\ ReadsTo(u, l, v)
  BY PeerLineReads
<1>2. IsText(s) /\ ReadsTo(r, s, u)
  BY DEF Opened
<1> HIDE DEF l, u, v
<1>3. IsText(s \o l) /\ ReadsTo(r, s \o l, v)
  BY <1>1, <1>2, TextCat, ReadsCat
<1>4. QED
  BY <1>3 DEF Opened, l, v

LEMMA OpenedNone ==
    ASSUME NEW r, NEW s, NEW x, NEW p, Opened(r, s, x, p)
    PROVE  Opened(r, s \o <<>>, x, p)
BY EmptyCat DEF Opened

Calm(r) == ReaderShape(r) /\ r.success = TRUE /\ r.error = NoError

\* The lines of a complete peer are read as that peer.
LEMMA PeerReads ==
    ASSUME NEW p, PeerTaken(p), awg_device_peer_is_valid(p), NEW r, Calm(r)
    PROVE  Opened(r, peer_lines(p), flush_peer(r).device, p)
<1> DEFINE x == flush_peer(r).device
           no == FALSE
           a == <<Line(PeerSection, Unset)>>
           b == Opt("public_key", p.public_key)
           c == Opt("shared_key", p.shared_key)
           d == Opt("endpoint", p.endpoint)
           n == IF p.keep_alive = 0 THEN <<Off>> ELSE <<p.keep_alive>>
           e == <<Line("keep_alive", n)>>
           f == <<Line("allowed_ips", p.allowed_ips)>>
           g == IF p.advanced_security THEN <<Line("advanced_security", <<On>>)>> ELSE <<>>
           p0 == MadePeer(Unset, Unset, Unset, <<>>, 0, no)
           p1 == MadePeer(p.public_key, Unset, Unset, <<>>, 0, no)
           p2 == MadePeer(p.public_key, p.shared_key, Unset, <<>>, 0, no)
           p3 == MadePeer(p.public_key, p.shared_key, p.endpoint, <<>>, 0, no)
           p4 == MadePeer(p.public_key, p.shared_key, p.endpoint, <<>>, p.keep_alive, no)
           p5 == MadePeer(p.public_key, p.shared_key, p.endpoint, p.allowed_ips, p.keep_alive, no)
           p6 == MadePeer(p.public_key, p.shared_key, p.endpoint, p.allowed_ips, p.keep_alive,
                          p.advanced_security)
<1>1. p = p6
  BY DEF PeerTaken, MadePeer
<1>2. Opened(r, a, x, p0)
  <2> DEFINE line == Line(PeerSection, Unset)
  <2>1. line.key = PeerSection
    BY DEF Line
  <2>2. awg_device_peer_new = p0
    BY DEF awg_device_peer_new, MadePeer
  <2> HIDE DEF line, x, p0
  <2>3. read_line(r, line) = [device |-> x, peer |-> <<awg_device_peer_new>>, section |-> "peer",
                              success |-> r.success, error |-> r.error]
    BY <2>1, ReadMarker DEF Calm, x
  <2>4. read_line(r, line) = InPeer(x, p0)
    BY <2>2, <2>3 DEF Calm, InPeer
  <2>5. IsText(<<line>>)
    BY DEF IsText
  <2>6. QED
    BY <2>4, <2>5, ReadsOne DEF Opened, line
<1>3. /\ peer_item(p0, "public_key", p.public_key) = Accept(p1)
      /\ p.shared_key # Unset => peer_item(p1, "shared_key", p.shared_key) = Accept(p2)
      /\ peer_item(p2, "endpoint", p.endpoint) = Accept(p3)
      /\ peer_item(p3, "keep_alive", n) = Accept(p4)
      /\ peer_item(p4, "allowed_ips", p.allowed_ips) = Accept(p5)
      /\ p.advanced_security => peer_item(p5, "advanced_security", <<On>>) = Accept(p6)
  <2> HIDE DEF no
  <2>1. peer_item(p0, "public_key", p.public_key) = Accept(p1)
    BY KeyAccepted
  <2>2. p.shared_key # Unset => peer_item(p1, "shared_key", p.shared_key) = Accept(p2)
    BY PskAccepted
  <2>3. peer_item(p2, "endpoint", p.endpoint) = Accept(p3)
    BY EndpointAccepted
  <2>4. peer_item(p3, "keep_alive", n) = Accept(p4)
    BY AliveAccepted
  <2>5. peer_item(p4, "allowed_ips", p.allowed_ips) = Accept(p5)
    BY IpsAccepted
  <2>6. p.advanced_security => peer_item(p5, "advanced_security", <<On>>) = Accept(p6)
    BY SecurityAccepted
  <2>7. QED
    BY <2>1, <2>2, <2>3, <2>4, <2>5, <2>6
<1>4. /\ b = <<Line("public_key", p.public_key)>>
      /\ c = IF p.shared_key = Unset THEN <<>> ELSE <<Line("shared_key", p.shared_key)>>
      /\ d = <<Line("endpoint", p.endpoint)>>
  BY DEF Opt, awg_device_peer_is_valid
<1>5. p.shared_key = Unset => p2 = p1
  OBVIOUS
<1>6. ~p.advanced_security => p6 = p5
  BY DEF PeerTaken
<1>7. peer_lines(p) = a \o b \o c \o d \o e \o f \o g
  BY DEF peer_lines
<1>8. PeerKeys \cap Markers = {} /\ \A key \in {"public_key", "shared_key", "endpoint", "keep_alive",
                                               "allowed_ips", "advanced_security"} : key \notin Markers
  BY DEF PeerKeys, Markers, Comment, Interface, PeerSection, NoEquals
<1> HIDE DEF p0, p1, p2, p3, p4, p5, p6, x, n, a, b, c, d
<1>9. Opened(r, a \o b, x, p1)
  BY <1>2, <1>3, <1>4, <1>8, OpenedCat
<1>10. Opened(r, a \o b \o c, x, p2)
  <2>1. CASE p.shared_key = Unset
    BY <1>4, <1>5, <1>9, <2>1, OpenedNone
  <2>2. CASE p.shared_key # Unset
    <3>1. peer_item(p1, "shared_key", p.shared_key) = Accept(p2) /\ c = <<Line("shared_key", p.shared_key)>>
      BY <1>3, <1>4, <2>2
    <3>2. QED
      BY <1>8, <1>9, <3>1, OpenedCat
  <2>3. QED
    BY <2>1, <2>2
<1>11. Opened(r, a \o b \o c \o d, x, p3)
  BY <1>3, <1>4, <1>8, <1>10, OpenedCat
<1>12. Opened(r, a \o b \o c \o d \o e, x, p4)
  BY <1>3, <1>8, <1>11, OpenedCat
<1> HIDE DEF e
<1>13. Opened(r, a \o b \o c \o d \o e \o f, x, p5)
  BY <1>3, <1>8, <1>12, OpenedCat
<1> HIDE DEF f
<1>14. Opened(r, a \o b \o c \o d \o e \o f \o g, x, p6)
  <2> DEFINE h == a \o b \o c \o d \o e \o f
  <2>1. Opened(r, h, x, p5)
    BY <1>13
  <2> HIDE DEF h
  <2>2. CASE p.advanced_security
    <3>1. peer_item(p5, "advanced_security", <<On>>) = Accept(p6) /\ g = <<Line("advanced_security", <<On>>)>>
      BY <1>3, <2>2
    <3> HIDE DEF g
    <3>2. Opened(r, h \o g, x, p6)
      BY <1>8, <2>1, <3>1, OpenedCat
    <3>3. QED
      BY <3>2 DEF h
  <2>3. CASE ~p.advanced_security
    <3>1. g = <<>> /\ p6 = p5
      BY <1>6, <2>3
    <3> HIDE DEF g
    <3>2. Opened(r, h \o g, x, p6)
      BY <2>1, <3>1, OpenedNone
    <3>3. QED
      BY <3>2 DEF h
  <2>4. QED
    BY <2>2, <2>3
<1>15. QED
  BY <1>1, <1>7, <1>14 DEF x

(***************************************************************************)
(* A written file is read as the device.                                   *)
(***************************************************************************)

FirstPeers(s, k) == [j \in 1 .. k |-> s[j]]

\* A device with the first of its peers.
WithFirst(d, k) == [d EXCEPT !.peers = FirstPeers(d.peers, k)]

LEMMA FirstPeersGrow ==
    ASSUME NEW s, NEW k \in Nat, NEW j, j = k + 1
    PROVE  FirstPeers(s, 0) = <<>> /\ Append(FirstPeers(s, k), s[j]) = FirstPeers(s, j)
<1> DEFINE a == FirstPeers(s, k)
           b == FirstPeers(s, j)
           c == Append(a, s[j])
<1>1. IsText(a) /\ Len(a) = k /\ \A i \in 1 .. k : a[i] = s[i]
  BY DEF FirstPeers, IsText
<1>2. IsText(b) /\ Len(b) = j /\ \A i \in 1 .. j : b[i] = s[i]
  BY DEF FirstPeers, IsText
<1>3. FirstPeers(s, 0) = <<>>
  BY DEF FirstPeers
<1> HIDE DEF a, b
<1>4. /\ IsText(c) /\ Len(c) = k + 1 /\ c[k + 1] = s[j]
      /\ \A i \in 1 .. k : c[i] = a[i]
  BY <1>1, TextAppend
<1> HIDE DEF c
<1>5. ASSUME NEW i \in 1 .. j PROVE c[i] = b[i]
  <2>1. CASE i = k + 1
    BY <1>2, <1>4, <2>1
  <2>2. CASE i # k + 1
    <3>1. i \in 1 .. k
      BY <2>2
    <3>2. QED
      BY <1>1, <1>2, <1>4, <3>1
  <2>3. QED
    BY <2>1, <2>2
<1>6. c = [i \in 1 .. j |-> c[i]] /\ b = [i \in 1 .. j |-> b[i]]
  BY <1>2, <1>4 DEF IsText
<1>7. c = b
  BY <1>5, <1>6
<1>8. QED
  BY <1>3, <1>7 DEF a, b, c

\* The reader before the first peer, and at the end of the peer i.
AtPeer(d, K, i) ==
    IF i = 0 THEN AfterItems(d, K) ELSE InPeer(WithFirst(d, i - 1), d.peers[i])

LEMMA AtPeerIs ==
    ASSUME NEW d, Sound(d), NEW K, AllFields \subseteq K, NEW i \in 0 .. Len(d.peers), Len(d.peers) \in Nat,
           \A j \in 1 .. Len(d.peers) : awg_device_peer_is_valid(d.peers[j])
    PROVE  LET r == AtPeer(d, K, i) IN
           Calm(r) /\ flush_peer(r).device = WithFirst(d, i) /\ flush_peer(r).success = TRUE
<1> DEFINE r == AtPeer(d, K, i)
           yes == TRUE
<1>1. CASE i = 0
  <2> DEFINE x == PartOf(d, K)
  <2>1. x = WithFirst(d, i)
    <3>1. FirstPeers(d.peers, 0) = <<>>
      BY DEF FirstPeers
    <3>2. QED
      BY <1>1, <3>1, PartEnds DEF WithFirst
  <2> HIDE DEF x
  <2>2. r = [device |-> x, peer |-> <<>>, section |-> "interface", success |-> yes, error |-> NoError]
        /\ yes \in BOOLEAN
    BY <1>1 DEF AtPeer, AfterItems, x
  <2>3. r.device = x /\ r.peer = <<>> /\ r.success = yes /\ r.error = NoError
    BY <2>2
  <2> HIDE DEF r
  <2>4. flush_peer(r) = r
    BY <2>3 DEF flush_peer
  <2>5. Calm(r)
    <3> HIDE DEF yes
    <3>1. ReaderShape(r)
      BY <2>2 DEF ReaderShape
    <3>2. QED
      BY <2>3, <3>1 DEF Calm, yes
  <2>6. QED
    BY <2>1, <2>3, <2>4, <2>5 DEF r
<1>2. CASE i # 0
  <2> DEFINE k == i - 1
             x == WithFirst(d, k)
             p == d.peers[i]
             y == <<p>>
  <2>1. k \in Nat /\ i = k + 1 /\ awg_device_peer_is_valid(p)
    BY <1>2
  <2>2. x = [d EXCEPT !.peers = FirstPeers(d.peers, k)]
    BY DEF WithFirst
  <2>3. Append(FirstPeers(d.peers, k), p) = FirstPeers(d.peers, i)
    BY <2>1, FirstPeersGrow
  <2> HIDE DEF k
  <2>4. awg_device_add_peer(x, p) = WithFirst(d, i)
    <3> DEFINE a == FirstPeers(d.peers, k)
               b == FirstPeers(d.peers, i)
    <3>1. Append(a, p) = b
      BY <2>3
    <3> HIDE DEF a, b, p
    <3>2. x.peers = a /\ [x EXCEPT !.peers = b] = [d EXCEPT !.peers = b]
      BY <2>2 DEF a, Sound, DeviceShape
    <3> HIDE DEF x
    <3>3. awg_device_add_peer(x, p) = [x EXCEPT !.peers = b]
      BY <2>1, <3>1, <3>2 DEF awg_device_add_peer
    <3>4. QED
      BY <3>2, <3>3 DEF WithFirst, b
  <2>5. r = [device |-> x, peer |-> y, section |-> "peer", success |-> yes, error |-> NoError]
        /\ yes \in BOOLEAN /\ y # <<>> /\ y[1] = p
    BY <1>2 DEF AtPeer, InPeer, k
  <2> HIDE DEF r, x, y
  <2>6. r.device = x /\ r.peer = y /\ r.success = yes /\ r.error = NoError
    BY <2>5
  <2>7. Calm(r)
    <3> HIDE DEF yes
    <3>1. ReaderShape(r)
      BY <2>5 DEF ReaderShape
    <3>2. QED
      BY <2>6, <3>1 DEF Calm, yes
  <2>8. flush_peer(r).device = awg_device_add_peer(x, p) /\ flush_peer(r).success = yes
    <3> DEFINE z == awg_device_add_peer(x, p)
    <3>1. flush_peer(r) = [r EXCEPT !.device = awg_device_add_peer(r.device, r.peer[1]), !.peer = <<>>]
      BY <2>5, <2>6 DEF flush_peer
    <3>2. awg_device_add_peer(r.device, r.peer[1]) = z
      BY <2>5, <2>6
    <3> HIDE DEF z, yes
    <3>3. flush_peer(r) = [r EXCEPT !.device = z, !.peer = <<>>]
      BY <3>1, <3>2
    <3>4. flush_peer(r).device = z /\ flush_peer(r).success = yes
      BY <2>5, <3>3
    <3>5. QED
      BY <3>4 DEF z
  <2>9. QED
    BY <2>4, <2>7, <2>8 DEF r
<1>3. QED
  BY <1>1, <1>2

\* A valid device that a file can say is read from the files that say it.
LEMMA DeviceReads ==
    ASSUME NEW d, Sayable(d), awg_device_is_valid(d), NEW x, SaidBy(d, x)
    PROVE  \E q : /\ ReadsTo(new_reader, awg_device_create_config_string(x), q)
                  /\ end_of_file(q).device = <<d>>
<1> DEFINE n == Len(d.peers)
           fields == interface_lines(x) \o parameter_lines(x)
           ss == [i \in DOMAIN d.peers |-> peer_lines(d.peers[i])]
<1>1. Sound(d) /\ Taken(d) /\ IsText(d.peers)
  BY DEF Sayable, Taken, PeersTaken
<1>2. n \in Nat /\ DOMAIN d.peers = 1 .. n /\ d.peers = [i \in 1 .. n |-> d.peers[i]]
  BY <1>1 DEF IsText
<1>3. \A i \in 1 .. n : PeerTaken(d.peers[i]) /\ awg_device_peer_is_valid(d.peers[i])
  BY <1>1, <1>2 DEF Taken, PeersTaken, awg_device_is_valid
<1>4. PICK K : AllFields \subseteq K /\ Reached(d, fields, K)
  BY FieldsRead
<1> DEFINE R == [i \in 0 .. n |-> AtPeer(d, K, i)]
<1>5. \A i \in 0 .. n : R[i] = AtPeer(d, K, i)
  OBVIOUS
<1>6. \A i \in 1 .. n : ss[i] = peer_lines(d.peers[i])
  BY <1>2
<1>7. ss = [i \in 1 .. n |-> ss[i]]
  BY <1>2
<1>8. awg_device_create_config_string(x) = fields \o FlattenSeq(ss)
  <2>1. x.peers = d.peers
    BY DEF SaidBy
  <2>2. QED
    BY <2>1 DEF awg_device_create_config_string
<1>9. \A i \in 0 .. n : /\ Calm(R[i]) /\ flush_peer(R[i]).success = TRUE
                        /\ flush_peer(R[i]).device = WithFirst(d, i)
  BY <1>1, <1>2, <1>3, <1>4, <1>5, AtPeerIs
<1> HIDE DEF R, ss, fields
<1>10. ASSUME NEW i \in 1 .. n PROVE IsText(ss[i]) /\ ReadsTo(R[i - 1], ss[i], R[i])
  <2> DEFINE k == i - 1
             r == R[k]
             p == d.peers[i]
  <2>1. k \in 0 .. n /\ i \in 0 .. n /\ i # 0 /\ i - 1 = k
    BY <1>2
  <2>2. PeerTaken(p) /\ awg_device_peer_is_valid(p) /\ ss[i] = peer_lines(p)
    BY <1>3, <1>6
  <2> HIDE DEF k
  <2>3. Calm(r) /\ flush_peer(r).device = WithFirst(d, k)
    BY <1>9, <2>1
  <2>4. R[i] = InPeer(WithFirst(d, k), p)
    BY <1>5, <2>1 DEF AtPeer
  <2> HIDE DEF r, p
  <2>5. Opened(r, peer_lines(p), flush_peer(r).device, p)
    BY <2>2, <2>3, PeerReads
  <2>6. IsText(ss[i]) /\ ReadsTo(r, ss[i], R[i])
    BY <2>2, <2>3, <2>4, <2>5 DEF Opened
  <2>7. QED
    BY <2>6 DEF r, k
<1>11. IsText(FlattenSeq(ss)) /\ ReadsTo(R[0], FlattenSeq(ss), R[n])
  <2> HIDE DEF n
  <2>1. QED
    BY <1>2, <1>7, <1>10, ReadsFlat
<1>12. R[0] = AfterItems(d, K)
  <2>1. 0 \in 0 .. n
    BY <1>2
  <2>2. QED
    BY <1>5, <2>1 DEF AtPeer
<1>13. ReadsTo(new_reader, awg_device_create_config_string(x), R[n])
  <2> DEFINE p == AfterItems(d, K)
             q == R[n]
  <2>1. IsText(fields) /\ ReadsTo(new_reader, fields, p)
    BY <1>4 DEF Reached
  <2> HIDE DEF p
  <2>2. ReadsTo(p, FlattenSeq(ss), q)
    BY <1>11, <1>12 DEF p
  <2> HIDE DEF q
  <2>3. ReadsTo(new_reader, fields \o FlattenSeq(ss), q)
    BY <1>11, <2>1, <2>2, ReadsCat
  <2>4. QED
    BY <1>8, <2>3 DEF q
<1>14. end_of_file(R[n]).device = <<d>>
  <2>1. n \in 0 .. n
    BY <1>2
  <2>2. WithFirst(d, n) = d
    <3> DEFINE a == FirstPeers(d.peers, n)
    <3>1. a = d.peers
      BY <1>2 DEF FirstPeers
    <3> HIDE DEF a
    <3>2. [d EXCEPT !.peers = a] = d
      BY <1>1, <3>1 DEF Sound, DeviceShape
    <3>3. QED
      BY <3>2 DEF WithFirst, a
  <2> DEFINE r == R[n]
             q == flush_peer(r)
  <2>3. q.success = TRUE /\ q.device = d
    BY <1>9, <2>1, <2>2
  <2> HIDE DEF q, r
  <2>4. end_of_file(r).device = <<q.device>>
    BY <2>3 DEF end_of_file, q
  <2>5. QED
    BY <2>3, <2>4 DEF r
<1>15. QED
  BY <1>13, <1>14

\* What of a device is written: not its IPv6 address, the upper half of its mark,
\* and white space.
Written(d) == [d EXCEPT !.address["v6"] = <<>>, !.number["fw_mark"] = @ % (U16Max + 1),
                        !.text = [f \in TextFields |-> Stripped(@[f])]]

\* All texts replaced.
LEMMA TextsSet ==
    ASSUME NEW d, Sound(d), Taken(d), NEW t, t = [f \in TextFields |-> t[f]],
           \A f \in TextFields : EncodableText(f, t[f]) /\ TextTaken(f, t[f])
    PROVE  Sound([d EXCEPT !.text = t]) /\ Taken([d EXCEPT !.text = t])
<1> DEFINE v == [d EXCEPT !.text = t]
<1>1. v = [text |-> t, number |-> d.number, on |-> d.on, address |-> d.address, dns |-> d.dns,
           peers |-> d.peers]
  BY DEF Sound, DeviceShape
<1>2. /\ v.text = t /\ v.number = d.number /\ v.on = d.on /\ v.address = d.address /\ v.dns = d.dns
      /\ v.peers = d.peers
  BY <1>1
<1>3. DeviceShape(v)
  <2>1. d.number = [f \in NumberFields |-> d.number[f]]
    BY DEF Sound, DeviceShape
  <2> HIDE DEF v
  <2>2. v = [text |-> v.text, number |-> v.number, on |-> v.on, address |-> v.address, dns |-> v.dns,
             peers |-> v.peers]
    BY <1>1, <1>2
  <2>3. v.text = [f \in TextFields |-> v.text[f]] /\ v.number = [f \in NumberFields |-> v.number[f]]
    BY <1>2, <2>1
  <2>4. QED
    BY <2>2, <2>3 DEF DeviceShape
<1> HIDE DEF v
<1>4. Encodable(v)
  BY <1>2 DEF Sound, Encodable
<1>5. Taken(v)
  BY <1>2 DEF Taken
<1>6. QED
  BY <1>3, <1>4, <1>5 DEF Sound, v

\* The lower half of a mark is a mark.
LEMMA LowerHalf ==
    ASSUME NEW n \in 0 .. U32Max
    PROVE  n % (U16Max + 1) \in 0 .. U32Max
<1> DEFINE m == U16Max + 1
           k == n % m
<1>1. U16Max \in Nat /\ U16Max >= 1500 /\ m \in Nat /\ m > 0 /\ n \in Nat
  BY DeviceAssumption
<1>2. U32Max = m * m - 1
  BY DEF U32Max
<1>3. k \in 0 .. m - 1
  <2> HIDE DEF m
  <2>1. QED
    BY <1>1
<1> HIDE DEF m, k
<1>4. m * m >= m * 1
  BY <1>1
<1>5. k \in 0 .. U32Max
  BY <1>1, <1>2, <1>3, <1>4
<1>6. QED
  BY <1>5 DEF k, m

\* Without white space a text is still one that the setter of its field takes.
LEMMA StrippedTaken ==
    ASSUME NEW f \in TextFields, NEW t, EncodableText(f, t), TextTaken(f, t)
    PROVE  /\ EncodableText(f, Stripped(t)) /\ TextTaken(f, Stripped(t))
           /\ f \in KeyFields => Stripped(t) = t
           /\ awg_magic_header_parse(Stripped(t)) = awg_magic_header_parse(t)
<1>1. CASE t = White
  <2>1. Len(t) = 1 /\ t[1] = Space /\ t # Unset /\ Stripped(t) = Unset
    BY <1>1 DEF White, Stripped, Unset
  <2>2. f \notin KeyFields
    BY <2>1, SpaceAssumption DEF TextTaken, awg_key_from_base64
  <2>3. EncodableText(f, Unset) /\ TextTaken(f, Unset)
    BY DEF EncodableText, TextTaken
  <2>4. awg_magic_header_parse(t) = Unset
    <3>1. t[1] \notin 0 .. U32Max
      BY <2>1, SpaceAssumption
    <3>2. QED
      BY <2>1, <3>1 DEF awg_magic_header_parse, IsUnsigned, IsRange
  <2>5. awg_magic_header_parse(Unset) = Unset
    <3>1. Len(Unset) = 0
      BY DEF Unset
    <3>2. QED
      BY <3>1 DEF awg_magic_header_parse, IsUnsigned, IsRange
  <2>6. QED
    BY <2>1, <2>2, <2>3, <2>4, <2>5
<1>2. CASE t # White
  BY <1>2 DEF Stripped
<1>3. QED
  BY <1>1, <1>2

\* What is written of a device is a device that a file can say, and the file
\* says it.
LEMMA WrittenIs ==
    ASSUME NEW d, Sound(d), Taken(d), d.dns = [f \in Families |-> d.dns[f]]
    PROVE  /\ Sayable(Written(d)) /\ SaidBy(Written(d), d)
           /\ awg_device_is_valid(d) => awg_device_is_valid(Written(d))
<1> DEFINE a == [d.address EXCEPT !["v6"] = <<>>]
           c == [d EXCEPT !.address = a]
           k == d.number["fw_mark"] % (U16Max + 1)
           t == [f \in TextFields |-> Stripped(d.text[f])]
           g == [c EXCEPT !.number["fw_mark"] = k]
           e == [g EXCEPT !.text = t]
<1>1. "fw_mark" \in NumberFields /\ MaxOf("fw_mark") = U32Max
  BY DEF NumberFields, MaxOf
<1>2. k \in 0 .. U32Max
  <2>1. d.number["fw_mark"] \in 0 .. U32Max
    BY <1>1 DEF Sound, Encodable
  <2>2. QED
    BY <2>1, LowerHalf
<1>3. AddressesTaken(a) /\ a["v6"] = <<>> /\ a["v4"] = d.address["v4"]
  <2>1. d.address = [f \in {"v4", "v6"} |-> d.address[f]] /\ AddressList(d.address["v4"], "v4")
    BY DEF Taken, AddressesTaken, Families
  <2>2. a = [f \in {"v4", "v6"} |-> IF f = "v6" THEN <<>> ELSE d.address[f]]
    BY <2>1
  <2>3. AddressList(<<>>, "v6")
    BY DEF AddressList, SubnetList, IsText
  <2> HIDE DEF a
  <2>4. a["v6"] = <<>> /\ a["v4"] = d.address["v4"] /\ a = [f \in {"v4", "v6"} |-> a[f]]
    BY <2>2
  <2>5. QED
    BY <2>1, <2>3, <2>4 DEF AddressesTaken, Families
<1>4. \A f \in TextFields : EncodableText(f, d.text[f]) /\ TextTaken(f, d.text[f])
  BY DEF Sound, Encodable, Taken
<1>5. /\ t = [f \in TextFields |-> t[f]] /\ \A f \in TextFields : t[f] = Stripped(d.text[f])
      /\ \A f \in TextFields : EncodableText(f, t[f]) /\ TextTaken(f, t[f])
      /\ \A f \in KeyFields : t[f] = d.text[f]
      /\ \A f \in TextFields : awg_magic_header_parse(t[f]) = awg_magic_header_parse(d.text[f])
  <2>1. \A f \in TextFields : t[f] = Stripped(d.text[f])
    OBVIOUS
  <2>2. t = [f \in TextFields |-> t[f]]
    OBVIOUS
  <2> HIDE DEF t
  <2>3. KeyFields \subseteq TextFields
    BY DEF TextFields
  <2>4. QED
    BY <1>4, <2>1, <2>2, <2>3, StrippedTaken
<1>6. Written(d) = e
  <2>1. d = [text |-> d.text, number |-> d.number, on |-> d.on, address |-> d.address, dns |-> d.dns,
             peers |-> d.peers]
    BY DEF Sound, DeviceShape
  <2>2. [d EXCEPT !.address["v6"] = <<>>] = c
    BY <2>1
  <2>3. c.number = d.number /\ c.text = d.text
    BY <2>1
  <2>4. c = [text |-> d.text, number |-> d.number, on |-> d.on, address |-> a, dns |-> d.dns, peers |-> d.peers]
    BY <2>1
  <2> HIDE DEF c, t
  <2>5. Written(d) = [[[d EXCEPT !.address["v6"] = <<>>] EXCEPT !.number["fw_mark"] = @ % (U16Max + 1)]
                         EXCEPT !.text = [f \in TextFields |-> Stripped(@[f])]]
    BY DEF Written
  <2>6. [[d EXCEPT !.address["v6"] = <<>>] EXCEPT !.number["fw_mark"] = @ % (U16Max + 1)] = g
    BY <2>2, <2>3
  <2>7. g.text = d.text
    BY <2>4
  <2> HIDE DEF g
  <2>8. Written(d) = [g EXCEPT !.text = [f \in TextFields |-> Stripped(g.text[f])]]
    BY <2>5, <2>6
  <2>9. QED
    BY <2>7, <2>8 DEF t
<1>7. Sound(c) /\ Taken(c) /\ DeviceShape(d)
  <2>1. DeviceShape(d)
    BY DEF Sound
  <2> HIDE DEF a
  <2>2. Sound(c)
    BY OtherSet
  <2>3. Taken(c)
    BY <1>3, <2>1, TakenWith
  <2>4. QED
    BY <2>1, <2>2, <2>3
<1>8. /\ c.on = d.on /\ c.dns = d.dns /\ c.peers = d.peers /\ c.address = a /\ c.number = d.number
  <2> HIDE DEF a
  <2>1. QED
    BY <1>7 DEF DeviceShape
<1> HIDE DEF c, a, k, t
<1>9. Sound(g) /\ Taken(g)
  <2>1. Sound(g)
    BY <1>1, <1>2, <1>7, NumberSet
  <2>2. DeviceShape(c) /\ "fw_mark" # "mtu"
    BY <1>7 DEF Sound
  <2>3. \A f \in NumberFields : (f = "mtu" => k = 0 \/ k >= 68) => Taken([c EXCEPT !.number[f] = k])
    BY <1>7, <2>2, TakenWith
  <2>4. QED
    BY <1>1, <2>1, <2>2, <2>3
<1>10. /\ g.on = c.on /\ g.dns = c.dns /\ g.peers = c.peers /\ g.address = c.address
       /\ \A f \in NumberFields : g.number[f] = IF f = "fw_mark" THEN k ELSE c.number[f]
  BY <1>1, <1>7 DEF Sound, DeviceShape
<1> HIDE DEF g
<1>11. Sound(e) /\ Taken(e)
  BY <1>5, <1>9, TextsSet
<1>12. /\ e.on = g.on /\ e.dns = g.dns /\ e.peers = g.peers /\ e.address = g.address /\ e.number = g.number
       /\ e.text = t
  BY <1>9 DEF Sound, DeviceShape
<1> HIDE DEF e
<1>13. Sayable(e)
  BY <1>3, <1>8, <1>10, <1>11, <1>12 DEF Sayable
<1>14. /\ \A f \in NumberFields \ {"fw_mark"} : e.number[f] = d.number[f]
       /\ e.number["fw_mark"] = k
  BY <1>1, <1>8, <1>10, <1>12
<1>15. e.on = d.on /\ e.dns = d.dns /\ e.peers = d.peers /\ e.address["v4"] = d.address["v4"]
  BY <1>3, <1>8, <1>10, <1>12
<1>16. e.text["private_key"] = d.text["private_key"] /\ e.text["public_key"] = d.text["public_key"]
  BY <1>5, <1>12 DEF KeyFields
<1>17. SaidBy(e, d)
  BY <1>5, <1>12, <1>14, <1>15, <1>16 DEF SaidBy, k
<1>18. ASSUME awg_device_is_valid(d) PROVE awg_device_is_valid(e)
  <2>1. e.number["jmin"] = d.number["jmin"] /\ e.number["jmax"] = d.number["jmax"]
    BY <1>14 DEF NumberFields, JunkFields
  <2>2. \A f \in HeaderFields : awg_magic_header_parse(e.text[f]) = awg_magic_header_parse(d.text[f])
    BY <1>5, <1>12 DEF TextFields
  <2>3. awg_validate_magic_headers_no_overlap(e.text)
    BY <1>18, <2>2 DEF awg_device_is_valid, awg_validate_magic_headers_no_overlap
  <2>4. QED
    BY <1>15, <1>16, <1>18, <2>1, <2>3 DEF awg_device_is_valid, awg_validate_jmin_jmax
<1>19. QED
  BY <1>6, <1>13, <1>17, <1>18

\* A file says the written part of the device it was written from.
LEMMA ExportReads ==
    ASSUME NEW d, Sound(d), Taken(d), d.dns = [f \in Families |-> d.dns[f]], awg_device_is_valid(d)
    PROVE  \E q : /\ ReadsTo(new_reader, awg_device_create_config_string(d), q)
                  /\ end_of_file(q).device = <<Written(d)>>
BY WrittenIs, DeviceReads

(***************************************************************************)
(* A profile that is exported imports as the device that was exported.     *)
(***************************************************************************)

\* The states h of the reader over the first n lines of s.
ReadSoFar(h, s, n, r) ==
    h[0] = new_reader /\ h[n] = r /\ \A i \in 1 .. n : h[i] = read_line(h[i - 1], s[i])

\* What was written is the file of a device that was loaded from a profile c.
WrittenFrom(c) ==
    /\ HasLists(c)
    /\ exported = <<awg_device_new_from_nm_connection(c)>>
    /\ file = awg_device_create_config_string(awg_device_new_from_nm_connection(c))

\* The file that was written is that of the device that was exported; what the
\* reader is, it became from the lines that were read; and the device is what a
\* file that was read to its end said.
ExportInv ==
    /\ exported # <<>> => \E c : WrittenFrom(c)
    /\ pc \in {"reading", "done"} => \E h : ReadSoFar(h, file, at, reader)
    /\ pc = "done" /\ at = Len(file) => device = end_of_file(reader).device

LEMMA StartsToRead ==
    ASSUME NEW s
    PROVE  \E h : ReadSoFar(h, s, 0, new_reader)
<1> DEFINE h == [i \in {0} |-> new_reader]
<1>1. h[0] = new_reader
  OBVIOUS
<1> HIDE DEF h
<1>2. ReadSoFar(h, s, 0, new_reader)
  BY <1>1 DEF ReadSoFar
<1>3. QED
  BY <1>2

LEMMA ReadsOn ==
    ASSUME NEW h, NEW s, NEW n \in Nat, NEW r, ReadSoFar(h, s, n, r)
    PROVE  \E g : ReadSoFar(g, s, n + 1, read_line(r, s[n + 1]))
<1> DEFINE m == n + 1
           q == read_line(r, s[m])
           g == [i \in 0 .. m |-> IF i = m THEN q ELSE h[i]]
<1>1. m \in Nat /\ m - 1 = n /\ m # 0 /\ m \in 0 .. m /\ 0 \in 0 .. m
  OBVIOUS
<1>2. \A i \in 1 .. m : i \in 0 .. m /\ i - 1 \in 0 .. m /\ i - 1 # m /\ (i # m => i \in 1 .. n)
  OBVIOUS
<1> HIDE DEF m, q
<1>3. \A i \in 0 .. m : g[i] = IF i = m THEN q ELSE h[i]
  OBVIOUS
<1> HIDE DEF g
<1>4. h[0] = new_reader /\ h[n] = r /\ \A i \in 1 .. n : h[i] = read_line(h[i - 1], s[i])
  BY DEF ReadSoFar
<1>5. g[0] = new_reader /\ g[m] = q
  BY <1>1, <1>3, <1>4
<1>6. ASSUME NEW i \in 1 .. m PROVE g[i] = read_line(g[i - 1], s[i])
  <2>1. g[i - 1] = h[i - 1]
    BY <1>2, <1>3
  <2>2. CASE i = m
    BY <1>1, <1>3, <1>4, <2>1, <2>2 DEF q
  <2>3. CASE i # m
    <3>1. g[i] = h[i] /\ i \in 1 .. n
      BY <1>2, <1>3, <2>3
    <3>2. QED
      BY <1>4, <2>1, <3>1
  <2>4. QED
    BY <2>2, <2>3
<1>7. ReadSoFar(g, s, m, q)
  BY <1>5, <1>6 DEF ReadSoFar
<1>8. QED
  BY <1>7 DEF m, q

\* That is an invariant, whoever edits the profile and whichever steps fail.
LEMMA ExportInvariant == Spec => []ExportInv
<1>1. Init => ExportInv
  <2> SUFFICES ASSUME Init PROVE ExportInv
    OBVIOUS
  <2>1. \E h : ReadSoFar(h, file, 0, new_reader)
    BY StartsToRead
  <2>2. QED
    BY <2>1 DEF Init, ExportInv
<1>2. SectionsInv /\ TakenInv /\ ExportInv /\ [Next]_vars => ExportInv'
  <2> SUFFICES ASSUME SectionsInv, TakenInv, ExportInv, [Next]_vars PROVE ExportInv'
    OBVIOUS
  <2>1. ASSUME UNCHANGED <<file, exported>> PROVE (exported # <<>> => \E c : WrittenFrom(c))'
    BY <2>1 DEF ExportInv, WrittenFrom
  <2>2. ASSUME UNCHANGED <<file, at, reader>>, pc \in {"reading", "done"}
        PROVE  (\E h : ReadSoFar(h, file, at, reader))'
    BY <2>2 DEF ExportInv
  <2>3. CASE ReadLine
    <3> DEFINE s == file
               n == at
               r == reader
    <3>1. /\ s' = s /\ n' = n + 1 /\ r' = read_line(r, s[n + 1]) /\ n \in Nat
          /\ pc = "reading" /\ UNCHANGED <<pc, exported>>
      BY <2>3 DEF ReadLine, SectionsInv, ReaderInv
    <3>2. PICK h : ReadSoFar(h, s, n, r)
      BY <3>1 DEF ExportInv
    <3>3. PICK g : ReadSoFar(g, s, n + 1, read_line(r, s[n + 1]))
      BY <3>1, <3>2, ReadsOn
    <3>4. (\E k : ReadSoFar(k, file, at, reader))'
      BY <3>1, <3>3
    <3>5. QED
      BY <2>1, <3>1, <3>4 DEF ExportInv
  <2>4. CASE EndOfFile
    <3>1. /\ pc = "reading" /\ pc' = "done" /\ UNCHANGED <<file, at, reader, exported>>
          /\ device' = end_of_file(reader).device
      BY <2>4 DEF EndOfFile, finish
    <3>2. device' = end_of_file(reader').device
      BY <3>1
    <3>3. QED
      BY <2>1, <2>2, <3>1, <3>2 DEF ExportInv
  <2>5. CASE ReadError
    <3>1. pc = "reading" /\ pc' = "done" /\ UNCHANGED <<file, at, reader, exported>> /\ at < Len(file)
      BY <2>5 DEF ReadError, finish
    <3>2. at \in Nat
      BY DEF SectionsInv, ReaderInv
    <3>3. at # Len(file)
      BY <3>1, <3>2
    <3>4. QED
      BY <2>1, <2>2, <3>1, <3>3 DEF ExportInv
  <2>6. CASE Export
    <3>1. pc' \notin {"reading", "done"}
      BY <2>6 DEF Export
    <3>2. CASE UNCHANGED <<file, exported>>
      BY <2>1, <3>1, <3>2 DEF ExportInv
    <3>3. CASE ~UNCHANGED <<file, exported>>
      <4> DEFINE c == connection[1]
      <4>1. /\ file' = awg_device_create_config_string(awg_device_new_from_nm_connection(c))
            /\ exported' = <<awg_device_new_from_nm_connection(c)>>
            /\ connection # <<>>
        BY <2>6, <3>3 DEF Export, loaded
      <4>2. HasLists(c)
        BY <4>1 DEF TakenInv
      <4> HIDE DEF c
      <4>3. PICK x : /\ HasLists(x) /\ exported' = <<awg_device_new_from_nm_connection(x)>>
                     /\ file' = awg_device_create_config_string(awg_device_new_from_nm_connection(x))
        <5>1. exported' = <<awg_device_new_from_nm_connection(c)>>
          BY <4>1
        <5>2. file' = awg_device_create_config_string(awg_device_new_from_nm_connection(c))
          BY <4>1
        <5>3. QED
          BY <4>2, <5>1, <5>2
      <4>4. (\E y : WrittenFrom(y))'
        BY <4>3 DEF WrittenFrom
      <4>5. QED
        BY <3>1, <4>4 DEF ExportInv
    <3>4. QED
      BY <3>2, <3>3
  <2>7. CASE Import
    <3>1. UNCHANGED <<file, exported>> /\ at' = 0 /\ reader' = new_reader /\ pc' = "reading"
      BY <2>7 DEF Import
    <3>2. PICK h : ReadSoFar(h, file, 0, new_reader)
      BY StartsToRead
    <3>3. (\E k : ReadSoFar(k, file, at, reader))'
      BY <3>1, <3>2
    <3>4. QED
      BY <2>1, <3>1, <3>3 DEF ExportInv
  <2>8. CASE (\E e \in Edits : SetItem(e.key, e.text)) \/ UNCHANGED vars
    <3>1. UNCHANGED <<file, at, reader, pc, device, exported>>
      BY <2>8 DEF SetItem, vars
    <3>2. pc' = "done" /\ at' = Len(file') => device' = end_of_file(reader').device
      BY <3>1 DEF ExportInv
    <3>3. QED
      BY <2>1, <2>2, <3>1, <3>2 DEF ExportInv
  <2>9. QED
    BY <2>3, <2>4, <2>5, <2>6, <2>7, <2>8 DEF Next
<1>3. QED
  BY <1>1, <1>2, SectionsInvariant, TakenInvariant, PTL DEF Spec

\* The servers of a device that was loaded are kept by family.
LEMMA LoadedServers ==
    ASSUME NEW c
    PROVE  LET d == awg_device_new_from_nm_connection(c) IN d.dns = [f \in Families |-> d.dns[f]]
<1> DEFINE s == ServersAfter(awg_device_new.dns, c.ip["v4"].dns)
<1>1. awg_device_new_from_nm_connection(c).dns = ServersAfter(s, c.ip["v6"].dns)
  BY LoadedIs
<1>2. awg_device_new.dns = [f \in Families |-> awg_device_new.dns[f]]
  BY DEF awg_device_new
<1>3. ASSUME NEW old, old = [f \in Families |-> old[f]], NEW t
      PROVE  ServersAfter(old, t) = [f \in Families |-> ServersAfter(old, t)[f]]
  BY <1>3 DEF ServersAfter
<1>4. s = [f \in Families |-> s[f]]
  BY <1>2, <1>3
<1> HIDE DEF s
<1>5. QED
  BY <1>1, <1>3, <1>4

\* An exported profile imports as the device that was exported, except for its
\* IPv6 address, the upper half of its mark and texts of white space; it is
\* never refused when the service would take it.
THEOREM FileIsDevice == Spec => []FileKeepsDevice
<1>1. ExportInv => FileKeepsDevice
  <2> SUFFICES ASSUME ExportInv, pc = "done", exported # <<>>, at = Len(file), awg_device_is_valid(exported[1])
               PROVE  device = <<Written(exported[1])>>
    BY DEF FileKeepsDevice, Written
  <2>1. PICK c : WrittenFrom(c)
    BY DEF ExportInv
  <2> DEFINE d == awg_device_new_from_nm_connection(c)
             s == awg_device_create_config_string(d)
  <2>2. exported[1] = d /\ file = s
    BY <2>1 DEF WrittenFrom
  <2>3. Sound(d) /\ Taken(d) /\ d.dns = [f \in Families |-> d.dns[f]] /\ awg_device_is_valid(d)
    BY <2>1, <2>2, LoadedSound, LoadedTaken, LoadedServers DEF WrittenFrom
  <2> HIDE DEF d
  <2>4. PICK q : ReadsTo(new_reader, s, q) /\ end_of_file(q).device = <<Written(d)>>
    BY <2>3, ExportReads
  <2>5. Len(s) \in Nat
    BY <2>3, WrittenLines DEF IsLines, IsText
  <2> HIDE DEF s
  <2>6. PICK h : ReadSoFar(h, s, Len(s), reader)
    BY <2>2 DEF ExportInv
  <2>7. Passes(h, new_reader, s, reader)
    BY <2>6 DEF ReadSoFar, Passes
  <2>8. ReadsTo(new_reader, s, reader)
    BY <2>7 DEF ReadsTo
  <2>9. reader = q
    BY <2>4, <2>5, <2>8, ReadsSame
  <2>10. device = end_of_file(reader).device
    BY DEF ExportInv
  <2>11. QED
    BY <2>2, <2>4, <2>9, <2>10
<1>2. QED
  BY <1>1, ExportInvariant, PTL
=============================================================================
