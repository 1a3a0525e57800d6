--------------------------- MODULE GetDeviceProofs ---------------------------
(***************************************************************************)
(* Proofs about GetDevice, for any configuration and any number of changes *)
(* by other processes.                                                     *)
(***************************************************************************)
EXTENDS GetDevice, SequenceTheorems, WellFoundedInduction, TLAPS

-----------------------------------------------------------------------------
(* Pieces of a dump.                                                       *)

\* What the kernel may hold.
LEMMA ConfFacts ==
    ASSUME NEW c \in Confs
    PROVE  /\ c.peers \in Seq(PeerConf) /\ c.attrs \subseteq Attrs
           /\ Len(c.peers) \in Nat /\ DOMAIN c.peers = 1 .. Len(c.peers)
           /\ \A p \in DOMAIN c.peers :
                 /\ c.peers[p].key \in Keys /\ c.peers[p].ips \in Seq(Addresses \cup {Bad})
                 /\ c.peers[p].keepalive \in BOOLEAN
                 /\ Len(c.peers[p].ips) \in Nat
                 /\ DOMAIN c.peers[p].ips = 1 .. Len(c.peers[p].ips)
                 /\ Full(c, p) = Len(c.peers[p].ips)
           /\ \A p, q \in DOMAIN c.peers : c.peers[p].key = c.peers[q].key => p = q
<1>1. c \in [attrs : SUBSET Attrs, peers : Seq(PeerConf)]
  BY ConfsAssumption
<1>2. c.peers \in Seq(PeerConf) /\ c.attrs \subseteq Attrs
  BY <1>1
<1>3. Len(c.peers) \in Nat /\ DOMAIN c.peers = 1 .. Len(c.peers)
  BY <1>2, LenProperties
<1>4. ASSUME NEW p \in DOMAIN c.peers
      PROVE  /\ c.peers[p].key \in Keys /\ c.peers[p].ips \in Seq(Addresses \cup {Bad})
             /\ c.peers[p].keepalive \in BOOLEAN
             /\ Full(c, p) = Len(c.peers[p].ips)
  <2>1. c.peers[p] \in PeerConf /\ p # 0
    BY <1>2, <1>3, ElementOfSeq
  <2>2. QED
    BY <2>1 DEF PeerConf, Full
<1>5. \A p \in DOMAIN c.peers : /\ Len(c.peers[p].ips) \in Nat
                                /\ DOMAIN c.peers[p].ips = 1 .. Len(c.peers[p].ips)
  BY <1>4, LenProperties
<1>6. QED
  BY <1>2, <1>3, <1>4, <1>5, ConfsAssumption

\* Nothing has been cut off at first.
LEMMA CutNothing ==
    ASSUME NEW c, NEW failing
    PROVE  Cut(c, failing, <<>>, <<0, 0>>)
<1> DEFINE mark == [n \in 0 .. 0 |-> <<0, 0>>]
<1>1. Len(<<>>) = 0 /\ Mark(c, <<0, 0>>) = <<0, 0>>
  BY DEF Mark
<1>2. mark \in [0 .. 0 -> Nat \X Nat] /\ mark[0] = <<0, 0>>
  OBVIOUS
<1>3. 1 .. 0 = {}
  OBVIOUS
<1> HIDE DEF mark
<1>4. QED
  BY <1>1, <1>2, <1>3 DEF Cut

\* A set of numbers that is not empty has a least member.
LEMMA LeastMember ==
    ASSUME NEW S, S \subseteq Nat, S # {}
    PROVE  \E i \in S : \A j \in S : i <= j
<1>1. \E i \in S : \A j \in S : ~ (<<j, i>> \in OpToRel(<, Nat))
  BY NatLessThanWellFounded, WFMin
<1>2. PICK i \in S : \A j \in S : ~ (<<j, i>> \in OpToRel(<, Nat))
  BY <1>1
<1>3. \A j \in S : ~ (j < i)
  BY <1>2 DEF OpToRel
<1>4. QED
  BY <1>3

\* A part of a sequence has no other members.
LEMMA PartOfRange ==
    ASSUME NEW S, NEW s \in Seq(S), NEW lo \in Nat \ {0}, NEW hi \in 0 .. Len(s)
    PROVE  SubSeq(s, lo, hi) \in Seq(S) /\ Range(SubSeq(s, lo, hi)) \subseteq Range(s)
<1>1. Len(s) \in Nat /\ DOMAIN s = 1 .. Len(s) /\ \A i \in 1 .. Len(s) : s[i] \in S
  BY LenProperties, ElementOfSeq
<1>2. lo \in Int /\ hi \in Int /\ \A i \in lo .. hi : i \in 1 .. Len(s)
  BY <1>1
<1> DEFINE t == SubSeq(s, lo, hi)
<1>3. /\ t \in Seq(S) /\ Len(t) = (IF lo <= hi THEN hi - lo + 1 ELSE 0)
      /\ \A i \in 1 .. hi - lo + 1 : t[i] = s[lo + i - 1]
  BY <1>1, <1>2, SubSeqProperties
<1> HIDE DEF t
<1>4. DOMAIN t = 1 .. Len(t)
  BY <1>3, LenProperties
<1>5. \A i \in DOMAIN t : lo + i - 1 \in DOMAIN s /\ t[i] = s[lo + i - 1]
  BY <1>1, <1>2, <1>3, <1>4
<1>6. Range(t) \subseteq Range(s)
  BY <1>5 DEF Range
<1>7. QED
  BY <1>3, <1>6 DEF t

\* What is kept of a piece is a beginning of it; all of it, if there is memory and
\* every AllowedIP is of a known family; one AllowedIP, if there is memory and one.
LEMMA KeptFacts ==
    ASSUME NEW ips \in Seq(Addresses \cup {Bad}), NEW kept \in parse_allowedips(ips)
    PROVE  /\ kept \in Seq(Addresses \cup {Bad}) /\ Range(kept) \subseteq Range(ips)
           /\ "memory" \notin faults /\ Bad \notin Range(ips) => kept = ips
           /\ "memory" \notin faults /\ ips # <<>> => kept # <<>>
<1> DEFINE bad == {i \in DOMAIN ips : ips[i] = Bad}
           n   == IF bad = {} THEN Len(ips) ELSE CHOOSE i \in bad : \A j \in bad : i <= j
<1>1. Len(ips) \in Nat /\ DOMAIN ips = 1 .. Len(ips)
  BY LenProperties
<1>2. bad # {} => n \in bad
  <2>1. bad \subseteq Nat
    BY <1>1
  <2>2. bad # {} => \E i \in bad : \A j \in bad : i <= j
    BY <2>1, LeastMember
  <2>3. QED
    BY <2>2
<1>3. n \in 0 .. Len(ips) /\ (ips # <<>> => n > 0)
  <2>1. bad # {} => n \in 1 .. Len(ips)
    BY <1>1, <1>2
  <2>2. ips # <<>> => Len(ips) > 0
    BY <1>1, EmptySeq
  <2>3. QED
    BY <1>1, <2>1, <2>2
<1>4. Bad \notin Range(ips) => n = Len(ips)
  BY DEF Range
<1>5. PICK k \in 0 .. Len(ips) : kept = SubSeq(ips, 1, k) /\ ("memory" \notin faults => k = n)
  <2>1. \E k \in IF "memory" \in faults THEN 0 .. n ELSE {n} : kept = SubSeq(ips, 1, k)
    BY DEF parse_allowedips
  <2> HIDE DEF n
  <2>2. QED
    BY <1>1, <1>3, <2>1
<1> HIDE DEF n, bad
<1>6. kept \in Seq(Addresses \cup {Bad}) /\ Range(kept) \subseteq Range(ips)
  BY <1>1, <1>5, PartOfRange
<1>7. "memory" \notin faults /\ Bad \notin Range(ips) => kept = ips
  BY <1>4, <1>5, SubSeqFull
<1>8. "memory" \notin faults /\ ips # <<>> => kept # <<>>
  <2> SUFFICES ASSUME "memory" \notin faults, ips # <<>> PROVE kept # <<>>
    OBVIOUS
  <2>1. k = n /\ n > 0 /\ k \in Int /\ 1 <= k
    BY <1>1, <1>3, <1>5
  <2>2. \A i \in 1 .. k : ips[i] \in Addresses \cup {Bad}
    BY <1>1, <1>5, ElementOfSeq
  <2>3. Len(kept) = k - 1 + 1
    BY <1>5, <2>1, <2>2, SubSeqProperties
  <2>4. Len(kept) # 0
    BY <2>1, <2>3
  <2>5. QED
    BY <2>4
<1>9. QED
  BY <1>6, <1>7, <1>8

\* A piece still takes the dump as far once its AllowedIPs have been parsed.
LEMMA ParsedLeads ==
    ASSUME NEW c \in Confs, NEW a, NEW b, NEW p \in Piece, Leads(c, faults, a, p, b),
           NEW kept \in parse_allowedips(p.ips)
    PROVE  /\ Stored(p, kept) \in Piece
           /\ Leads(c, faults, a, Stored(p, kept), b)
<1> DEFINE q == Stored(p, kept)
           ips == p.ips
<1>1. /\ kept \in Seq(Addresses \cup {Bad}) /\ Range(kept) \subseteq Range(ips)
      /\ "memory" \notin faults /\ Bad \notin Range(ips) => kept = ips
      /\ "memory" \notin faults /\ ips # <<>> => kept # <<>>
  BY KeptFacts DEF Piece
<1>2. q \in Piece /\ q.key = p.key /\ q.attrs = p.attrs /\ q.ips = kept
  BY <1>1 DEF Piece, Stored
<1>3. Legible(c) => Bad \notin Range(ips)
  BY DEF Leads, Legible
<1> HIDE DEF q, ips
<1>4. p.ips = ips
  BY DEF ips
<1>5. Leads(c, faults, a, q, b)
  BY <1>1, <1>2, <1>3, <1>4 DEF Leads
<1>6. QED
  BY <1>2, <1>5 DEF q

\* Replacing a piece by one that leads as far leaves the cut as it is.
LEMMA CutReplace ==
    ASSUME NEW c, NEW failing, NEW s, NEW t, NEW cursor, Cut(c, failing, s, cursor), Len(s) = Len(t),
           \A n \in 1 .. Len(s), a \in Nat \X Nat, b \in Nat \X Nat :
              Leads(c, failing, a, s[n], b) => Leads(c, failing, a, t[n], b)
    PROVE  Cut(c, failing, t, cursor)
<1>1. PICK mark \in [0 .. Len(s) -> Nat \X Nat] :
         /\ mark[0] = <<0, 0>> /\ mark[Len(s)] = Mark(c, cursor)
         /\ \A n \in 1 .. Len(s) : Leads(c, failing, mark[n - 1], s[n], mark[n])
  BY DEF Cut
<1>2. ASSUME NEW n \in 1 .. Len(s) PROVE Leads(c, failing, mark[n - 1], t[n], mark[n])
  <2>1. n - 1 \in 0 .. Len(s) /\ n \in 0 .. Len(s)
    OBVIOUS
  <2>2. QED
    BY <1>1, <2>1
<1>3. QED
  BY <1>1, <1>2 DEF Cut

\* What a cursor is: the attributes of a peer, an AllowedIP of one, or the end.
LEMMA CursorFacts ==
    ASSUME NEW c \in Confs, NEW to \in Cursors(c)
    PROVE  LET N == Len(c.peers) IN
           /\ to = <<to[1], to[2]>> /\ to[1] \in 1 .. N + 1 /\ to[2] \in Nat
           /\ to[1] \in 1 .. N => to[2] \in 0 .. Len(c.peers[to[1]].ips)
           /\ to[1] = N + 1 => to[2] = 0
<1>1. /\ Len(c.peers) \in Nat /\ DOMAIN c.peers = 1 .. Len(c.peers)
      /\ \A p \in DOMAIN c.peers : Len(c.peers[p].ips) \in Nat
  BY ConfFacts
<1>2. CASE to = End(c)
  <2>1. to = <<Len(c.peers) + 1, 0>>
    BY <1>2 DEF End
  <2>2. to[1] = Len(c.peers) + 1 /\ to[2] = 0
    BY <2>1
  <2>3. QED
    BY <1>1, <2>1, <2>2
<1>3. ASSUME NEW p \in DOMAIN c.peers, to \in {p} \X (0 .. Len(c.peers[p].ips))
      PROVE  /\ to = <<to[1], to[2]>> /\ to[1] \in DOMAIN c.peers
             /\ to[2] \in 0 .. Len(c.peers[to[1]].ips)
  BY <1>3
<1>4. CASE \E p \in DOMAIN c.peers : to \in {p} \X (0 .. Len(c.peers[p].ips))
  BY <1>1, <1>3, <1>4
<1>5. to = End(c) \/ \E p \in DOMAIN c.peers : to \in {p} \X (0 .. Len(c.peers[p].ips))
  BY DEF Cursors
<1>6. QED
  BY <1>2, <1>4, <1>5

\* The kernel's next message goes on where the last one has stopped.
LEMMA CutExtend ==
    ASSUME NEW c \in Confs, NEW failing, NEW s \in Seq(Piece),
           NEW from \in {<<0, 0>>} \cup Cursors(c), NEW to \in Cursors(c), Earlier(from, to),
           Cut(c, failing, s, from)
    PROVE  /\ Pieces(c, from, to) \in Seq(Piece)
           /\ Cut(c, failing, s \o Pieces(c, from, to), to)
<1> DEFINE N == Len(c.peers)
           f1 == from[1]
           f2 == from[2]
           t1 == to[1]
           t2 == to[2]
           first == IF f1 = 0 THEN 1 ELSE f1
           last  == IF t2 = 0 THEN t1 - 1 ELSE t1
           resumed(p) == p = f1 /\ f2 # 0
           lo(p) == IF resumed(p) THEN f2 ELSE 1
           hi(p) == IF p = t1 THEN t2 - 1 ELSE Len(c.peers[p].ips)
           Part(p) == [key |-> c.peers[p].key, attrs |-> ~resumed(p),
                       keepalive |-> ~resumed(p) /\ c.peers[p].keepalive,
                       ips |-> SubSeq(c.peers[p].ips, lo(p), hi(p))]
           t == Pieces(c, from, to)
           m == last - first + 1
           L == Len(s)
<1>1. /\ N \in Nat /\ DOMAIN c.peers = 1 .. N
      /\ \A p \in 1 .. N : /\ c.peers[p].key \in Keys /\ c.peers[p].ips \in Seq(Addresses \cup {Bad})
                           /\ c.peers[p].keepalive \in BOOLEAN
                           /\ Len(c.peers[p].ips) \in Nat /\ Full(c, p) = Len(c.peers[p].ips)
                           /\ p # 0
  <2>1. \A p \in 1 .. Len(c.peers) : p # 0
    OBVIOUS
  <2>2. QED
    BY <2>1, ConfFacts
<1>2. /\ t1 \in 1 .. N + 1 /\ t2 \in Nat
      /\ t1 \in 1 .. N => t2 \in 0 .. Len(c.peers[t1].ips)
      /\ t1 = N + 1 => t2 = 0
  BY CursorFacts
<1>3. /\ f1 \in 0 .. N + 1 /\ f2 \in Nat
      /\ f1 \in 1 .. N => f2 \in 0 .. Len(c.peers[f1].ips)
      /\ f1 = 0 => f2 = 0
      /\ f1 = N + 1 => f2 = 0
  <2>1. CASE from = <<0, 0>>
    <3>1. f1 = 0 /\ f2 = 0
      BY <2>1
    <3>2. QED
      BY <1>1, <3>1
  <2>2. CASE from \in Cursors(c)
    <3>1. /\ f1 \in 1 .. N + 1 /\ f2 \in Nat
          /\ f1 \in 1 .. N => f2 \in 0 .. Len(c.peers[f1].ips)
          /\ f1 = N + 1 => f2 = 0
      BY <2>2, CursorFacts
    <3> HIDE DEF f1, f2, N
    <3>2. QED
      BY <1>1, <3>1
  <2>3. QED
    BY <2>1, <2>2
<1>4. f1 < t1 \/ (f1 = t1 /\ f2 < t2)
  BY DEF Earlier
<1>7. t = [n \in 1 .. m |-> Part(first + n - 1)]
  BY DEF Pieces
<1>a. /\ L \in Nat
      /\ \E mark \in [0 .. L -> Nat \X Nat] :
            /\ mark[0] = <<0, 0>> /\ mark[L] = Mark(c, from)
            /\ \A n \in 1 .. L : Leads(c, failing, mark[n - 1], s[n], mark[n])
  BY LenProperties DEF Cut
<1>b. /\ Mark(c, from) = IF f1 = 0 THEN <<0, 0>>
                         ELSE IF f2 = 0 THEN <<f1 - 1, Full(c, f1 - 1)>> ELSE <<f1, f2 - 1>>
      /\ Mark(c, to) = IF t1 = 0 THEN <<0, 0>>
                       ELSE IF t2 = 0 THEN <<t1 - 1, Full(c, t1 - 1)>> ELSE <<t1, t2 - 1>>
  BY DEF Mark
<1> HIDE DEF N, f1, f2, t1, t2, L, t
<1>5. /\ first \in 1 .. N + 1 /\ last \in 0 .. N /\ m \in Nat
      /\ \A p \in first .. last : p \in 1 .. N
      /\ first = f1 \/ (f1 = 0 /\ first = 1)
      /\ (t2 = 0 /\ last = t1 - 1) \/ (t2 # 0 /\ last = t1)
  BY <1>1, <1>2, <1>3, <1>4
<1> DEFINE size(p) == Len(c.peers[p].ips)
<1>6. ASSUME NEW p \in first .. last
      PROVE  /\ lo(p) \in Nat \ {0} /\ hi(p) \in 0 .. size(p)
             /\ resumed(p) => f2 - 1 < hi(p) /\ lo(p) = f2
             /\ ~resumed(p) => lo(p) = 1
             /\ Part(p) \in Piece
             /\ Range(Part(p).ips) \subseteq Range(c.peers[p].ips)
  <2>1. p \in 1 .. N
    BY <1>5
  <2>a. size(p) \in Nat /\ (p = t1 => t2 \in 0 .. size(p)) /\ (p = f1 => f2 \in 0 .. size(p))
    BY <1>1, <1>2, <1>3, <2>1
  <2>b. p = t1 => t2 # 0
    BY <1>2, <1>5
  <2>2. /\ lo(p) \in Nat \ {0} /\ hi(p) \in 0 .. size(p)
        /\ resumed(p) => f2 - 1 < hi(p) /\ lo(p) = f2
        /\ ~resumed(p) => lo(p) = 1
    <3>1. hi(p) = IF p = t1 THEN t2 - 1 ELSE size(p)
      OBVIOUS
    <3> HIDE DEF hi, size
    <3>2. hi(p) \in 0 .. size(p)
      BY <1>2, <2>a, <2>b, <3>1
    <3>3. p = f1 => f2 - 1 < hi(p)
      BY <1>2, <1>3, <1>4, <2>1, <2>a, <2>b, <3>1
    <3>4. QED
      BY <1>3, <3>2, <3>3
  <2>4. /\ SubSeq(c.peers[p].ips, lo(p), hi(p)) \in Seq(Addresses \cup {Bad})
        /\ Range(SubSeq(c.peers[p].ips, lo(p), hi(p))) \subseteq Range(c.peers[p].ips)
    <3> HIDE DEF lo, hi
    <3>1. QED
      BY <1>1, <2>1, <2>2, PartOfRange
  <2>5. Part(p) \in Piece
    <3> HIDE DEF lo, hi
    <3>1. QED
      BY <1>1, <2>1, <2>4 DEF Piece
  <2>6. QED
    BY <2>2, <2>4, <2>5
<1>c. \A p : p # t1 => hi(p) = Len(c.peers[p].ips)
  OBVIOUS
<1>d. hi(t1) = t2 - 1
  OBVIOUS
<1>e. \A p : /\ Part(p).key = c.peers[p].key /\ Part(p).attrs = ~resumed(p)
             /\ Part(p).ips = SubSeq(c.peers[p].ips, lo(p), hi(p))
  OBVIOUS
<1>f. \A p : resumed(p) <=> (p = f1 /\ f2 # 0)
  OBVIOUS
<1>g. m = last - first + 1
  OBVIOUS
<1> HIDE DEF Part, resumed, lo, hi, m, first, last
<1>8. t \in Seq(Piece) /\ Len(t) = m /\ \A n \in 1 .. m : t[n] = Part(first + n - 1)
  <2>1. \A n \in 1 .. m : first + n - 1 \in first .. last
    BY <1>5, <1>g
  <2>2. t \in [1 .. m -> Piece]
    BY <1>6, <1>7, <2>1
  <2>3. t \in Seq(Piece) /\ DOMAIN t = 1 .. m
    BY <1>5, <2>2, SeqDef
  <2>4. Len(t) = m
    BY <1>5, <2>3, LenProperties
  <2>5. QED
    BY <1>7, <2>3, <2>4
<1>11. ASSUME NEW n \in 1 .. m
       PROVE  first + n - 1 \in first .. last /\ first + n - 1 \in 1 .. N /\ hi(first + n - 1) \in Nat
  <2>1. first + n - 1 \in first .. last
    BY <1>5, <1>g
  <2>2. first + n - 1 \in 1 .. N
    BY <1>5, <2>1
  <2>3. hi(first + n - 1) \in 0 .. size(first + n - 1) /\ size(first + n - 1) \in Nat
    BY <1>1, <1>6, <2>1, <2>2
  <2> HIDE DEF size
  <2>4. hi(first + n - 1) \in Nat
    BY <2>3
  <2>5. QED
    BY <2>1, <2>2, <2>4
<1>9. /\ s \o t \in Seq(Piece) /\ Len(s \o t) = L + m
      /\ \A n \in 1 .. L + m : (s \o t)[n] = IF n <= L THEN s[n] ELSE t[n - L]
  BY <1>8, ConcatProperties DEF L
<1>10. PICK mark \in [0 .. L -> Nat \X Nat] :
         /\ mark[0] = <<0, 0>> /\ mark[L] = Mark(c, from)
         /\ \A n \in 1 .. L : Leads(c, failing, mark[n - 1], s[n], mark[n])
  BY <1>a
<1> DEFINE new == [n \in 0 .. L + m |-> IF n <= L THEN mark[n]
                                        ELSE <<first + (n - L) - 1, hi(first + (n - L) - 1)>>]
<1>12. new \in [0 .. L + m -> Nat \X Nat]
  <2> SUFFICES ASSUME NEW n \in 0 .. L + m PROVE new[n] \in Nat \X Nat
    OBVIOUS
  <2>1. CASE n <= L
    <3>1. n \in 0 .. L
      BY <1>a, <2>1
    <3>2. new[n] = mark[n]
      BY <2>1
    <3>3. QED
      BY <1>10, <3>1, <3>2
  <2>2. CASE ~(n <= L)
    <3>1. n - L \in 1 .. m
      BY <1>5, <1>a, <2>2
    <3>2. first + (n - L) - 1 \in Nat /\ hi(first + (n - L) - 1) \in Nat
      BY <1>11, <3>1
    <3>3. new[n] = <<first + (n - L) - 1, hi(first + (n - L) - 1)>>
      BY <2>2
    <3>4. QED
      BY <3>2, <3>3
  <2>3. QED
    BY <2>1, <2>2
<1>13. new[0] = <<0, 0>> /\ \A n \in 0 .. L : new[n] = mark[n]
  <2>1. \A n \in 0 .. L : n \in 0 .. L + m /\ n <= L
    BY <1>5, <1>a
  <2>2. \A n \in 0 .. L : new[n] = mark[n]
    BY <2>1
  <2>3. 0 \in 0 .. L
    BY <1>a
  <2>4. QED
    BY <1>10, <2>2, <2>3
<1>14. \A n \in 1 .. m : new[L + n] = <<first + n - 1, hi(first + n - 1)>>
  <2> SUFFICES ASSUME NEW n \in 1 .. m PROVE new[L + n] = <<first + n - 1, hi(first + n - 1)>>
    OBVIOUS
  <2>1. L + n \in 0 .. L + m /\ ~(L + n <= L) /\ (L + n) - L = n
    BY <1>5, <1>a
  <2>2. QED
    BY <2>1
<1> HIDE DEF new
\* Where a message begins.
<1>15. new[L] = IF f1 = 0 THEN <<0, 0>>
                ELSE IF f2 = 0 THEN <<f1 - 1, Full(c, f1 - 1)>> ELSE <<f1, f2 - 1>>
  <2>1. L \in 0 .. L
    BY <1>a
  <2>2. QED
    BY <1>10, <1>13, <1>b, <2>1
<1>16. Full(c, 0) = 0
  BY DEF Full
\* The mark before each of its pieces.
<1>17. ASSUME NEW n \in 1 .. m
       PROVE  LET p == first + n - 1
                  a == new[L + n - 1] IN
              /\ a[2] \in Nat
              /\ resumed(p) => a[1] = p /\ a[2] = f2 - 1
              /\ ~resumed(p) => a[1] = p - 1 /\ a[2] = Full(c, p - 1)
  <2> DEFINE p == first + n - 1
  <2>1. p \in first .. last /\ p \in 1 .. N
    BY <1>11
  <2>2. CASE n = 1
    <3>1. p = first /\ L + n - 1 = L
      BY <1>5, <1>a, <2>2
    <3>2. CASE f1 = 0
      <4>1. new[L] = <<0, 0>> /\ p = 1 /\ ~resumed(p)
        BY <1>5, <1>15, <1>f, <3>1, <3>2
      <4>2. QED
        BY <1>16, <3>1, <4>1
    <3>3. CASE f1 # 0 /\ f2 = 0
      <4>1. new[L] = <<p - 1, Full(c, p - 1)>> /\ ~resumed(p)
        BY <1>5, <1>15, <1>f, <3>1, <3>3
      <4>2. p - 1 = 0 \/ p - 1 \in 1 .. N
        BY <1>1, <2>1
      <4>3. Full(c, p - 1) \in Nat
        BY <1>1, <1>16, <4>2
      <4>4. QED
        BY <3>1, <4>1, <4>3
    <3>4. CASE f1 # 0 /\ f2 # 0
      <4>1. new[L] = <<p, f2 - 1>> /\ resumed(p)
        BY <1>5, <1>15, <1>f, <3>1, <3>4
      <4>2. f2 - 1 \in Nat
        BY <1>3, <3>4
      <4>3. QED
        BY <3>1, <4>1, <4>2
    <3>5. QED
      BY <3>2, <3>3, <3>4
  <2>3. CASE n # 1
    <3>1. /\ n - 1 \in 1 .. m /\ L + (n - 1) = L + n - 1
          /\ first + (n - 1) - 1 = p - 1
      BY <1>5, <1>a, <2>3
    <3>2. new[L + n - 1] = <<p - 1, hi(p - 1)>> /\ p - 1 \in first .. last /\ p - 1 \in 1 .. N
      BY <1>11, <1>14, <3>1
    <3>3. ~resumed(p)
      BY <1>3, <1>5, <1>f, <3>2, <2>1
    <3>4. p - 1 # t1
      BY <1>2, <1>5, <2>1, <3>2
    <3>5. hi(p - 1) = Full(c, p - 1) /\ Full(c, p - 1) \in Nat
      BY <1>1, <1>c, <3>2, <3>4
    <3>6. QED
      BY <3>2, <3>3, <3>5
  <2>4. QED
    BY <2>2, <2>3
<1>18. ASSUME NEW n \in 1 .. m
       PROVE  Leads(c, failing, new[L + n - 1], t[n], new[L + n])
  <2> DEFINE p == first + n - 1
             a == new[L + n - 1]
             b == new[L + n]
             q == t[n]
  <2>1. p \in first .. last /\ p \in 1 .. N
    BY <1>11
  <2>2. b = <<p, hi(p)>>
    BY <1>14
  <2>3. /\ a[2] \in Nat
        /\ resumed(p) => a[1] = p /\ a[2] = f2 - 1
        /\ ~resumed(p) => a[1] = p - 1 /\ a[2] = Full(c, p - 1)
    BY <1>17
  <2>a. q = Part(p)
    BY <1>8
  <2> HIDE DEF p, a, b, q
  <2>4. /\ q.key = c.peers[p].key /\ q.attrs = ~resumed(p)
        /\ q.ips = SubSeq(c.peers[p].ips, lo(p), hi(p))
        /\ Range(q.ips) \subseteq Range(c.peers[p].ips)
    BY <1>6, <1>e, <2>a, <2>1
  <2>5. /\ lo(p) \in Nat \ {0} /\ hi(p) \in 0 .. size(p)
        /\ resumed(p) => f2 - 1 < hi(p) /\ lo(p) = f2
        /\ ~resumed(p) => lo(p) = 1
    BY <1>6, <2>1
  <2>d. (q.attrs <=> ~resumed(p)) /\ q.attrs \in BOOLEAN
    BY <2>4, Zenon
  <2>6. lo(p) = (IF q.attrs THEN 0 ELSE a[2]) + 1
    <3>1. CASE resumed(p)
      <4>1. a[2] + 1 = f2
        BY <1>3, <2>3, <3>1
      <4>2. QED
        BY <2>5, <2>d, <3>1, <4>1
    <3>2. CASE ~resumed(p)
      <4>1. 0 + 1 = 1
        OBVIOUS
      <4>2. QED
        BY <2>5, <2>d, <3>2, <4>1
    <3>3. QED
      BY <3>1, <3>2
  <2>b. b[1] = p /\ b[2] = hi(p)
    BY <2>2
  <2>c. /\ b[1] \in DOMAIN c.peers /\ b[2] \in 0 .. Full(c, b[1])
        /\ q.key = c.peers[b[1]].key /\ Range(q.ips) \subseteq Range(c.peers[b[1]].ips)
        /\ q.ips = SubSeq(c.peers[b[1]].ips, (IF q.attrs THEN 0 ELSE a[2]) + 1, b[2])
    BY <1>1, <2>1, <2>4, <2>5, <2>6, <2>b
  <2>7. CASE resumed(p)
    <3>1. q.ips # <<>>
      <4>a. size(p) \in Nat /\ \A i \in lo(p) .. hi(p) : i \in 1 .. size(p)
        BY <1>1, <2>1, <2>5
      <4>1. \A i \in lo(p) .. hi(p) : c.peers[p].ips[i] \in Addresses \cup {Bad}
        BY <1>1, <2>1, <4>a, ElementOfSeq
      <4> HIDE DEF size
      <4>2. lo(p) \in Int /\ hi(p) \in Int /\ lo(p) <= hi(p) /\ hi(p) - lo(p) + 1 # 0
        BY <1>3, <2>5, <2>7, <4>a
      <4>3. Len(q.ips) = hi(p) - lo(p) + 1
        BY <2>4, <4>1, <4>2, SubSeqProperties
      <4>4. QED
        BY <4>2, <4>3
    <3>2. b[1] = a[1] /\ a[2] < b[2] /\ ~q.attrs
      BY <2>3, <2>d, <2>5, <2>7, <2>b
    <3>3. Leads(c, failing, a, q, b)
      BY <2>3, <2>c, <3>1, <3>2 DEF Leads
    <3>4. QED
      BY <3>3 DEF a, b, q
  <2>8. CASE ~resumed(p)
    <3>1. p = (p - 1) + 1
      BY <2>1
    <3>2. b[1] = a[1] + 1 /\ a[2] = Full(c, a[1]) /\ q.attrs
      BY <2>3, <2>d, <2>8, <2>b, <3>1
    <3>3. Leads(c, failing, a, q, b)
      BY <2>3, <2>c, <3>2 DEF Leads
    <3>4. QED
      BY <3>3 DEF a, b, q
  <2>9. QED
    BY <2>7, <2>8
<1>19. ASSUME NEW n \in 1 .. L + m
       PROVE  Leads(c, failing, new[n - 1], (s \o t)[n], new[n])
  <2>1. CASE n <= L
    <3>1. n \in 1 .. L /\ n \in 0 .. L /\ n - 1 \in 0 .. L
      BY <1>a, <2>1
    <3>2. QED
      BY <1>9, <1>10, <1>13, <2>1, <3>1
  <2>2. CASE ~(n <= L)
    <3> DEFINE k == n - L
    <3>1. k \in 1 .. m /\ L + k = n /\ L + k - 1 = n - 1
      BY <1>5, <1>a, <2>2
    <3>2. Leads(c, failing, new[L + k - 1], t[k], new[L + k])
      BY <1>18, <3>1
    <3>3. QED
      BY <1>9, <2>2, <3>1, <3>2
  <2>3. QED
    BY <2>1, <2>2
\* Where it ends.
<1>20. new[L + m] = Mark(c, to)
  <2>0. Mark(c, to) = IF t2 = 0 THEN <<t1 - 1, Full(c, t1 - 1)>> ELSE <<t1, t2 - 1>>
    BY <1>2, <1>b
  <2>1. CASE m = 0
    <3>1. last = first - 1 /\ L + m = L
      BY <1>5, <1>a, <1>g, <2>1
    <3>2. t2 = 0 /\ t1 - 1 = first - 1 /\ f2 = 0
      BY <1>2, <1>3, <1>4, <1>5, <3>1
    <3>3. CASE f1 = 0
      BY <1>5, <1>15, <1>16, <2>0, <3>1, <3>2, <3>3
    <3>4. CASE f1 # 0
      BY <1>5, <1>15, <2>0, <3>1, <3>2, <3>4
    <3>5. QED
      BY <3>3, <3>4
  <2>2. CASE m # 0
    <3>1. m \in 1 .. m /\ first + m - 1 = last
      BY <1>5, <1>g, <2>2
    <3>2. new[L + m] = <<last, hi(last)>> /\ last \in 1 .. N
      BY <1>11, <1>14, <3>1
    <3>3. CASE t2 = 0
      <4>1. last = t1 - 1 /\ last # t1
        BY <1>2, <1>5, <3>3
      <4>2. hi(last) = Full(c, last)
        BY <1>1, <1>c, <3>2, <4>1
      <4>3. QED
        BY <2>0, <3>2, <3>3, <4>1, <4>2
    <3>4. CASE t2 # 0
      BY <1>5, <1>d, <2>0, <3>2, <3>4
    <3>5. QED
      BY <3>3, <3>4
  <2>3. QED
    BY <2>1, <2>2
<1>21. Cut(c, failing, s \o t, to)
  <2>1. QED
    BY <1>9, <1>12, <1>13, <1>19, <1>20 DEF Cut
<1>22. QED
  BY <1>8, <1>21 DEF t
\* What it takes to be a piece from one mark to another, as plain facts.
LEMMA LeadsFacts ==
    \A c \in Confs, p \in Piece, a \in Nat \X Nat, b \in Nat \X Nat : \A failing :
        Leads(c, failing, a, p, b) =>
           /\ b[1] \in DOMAIN c.peers /\ b[1] \in Nat \ {0} /\ b[2] \in 0 .. Len(c.peers[b[1]].ips)
           /\ a[1] \in Nat /\ a[2] \in Nat
           /\ p.key = c.peers[b[1]].key
           /\ \/ p.attrs = TRUE /\ b[1] = a[1] + 1 /\ a[2] = Full(c, a[1])
              \/ /\ p.attrs = FALSE /\ b[1] = a[1] /\ a[2] < b[2]
                 /\ "memory" \notin failing => p.ips # <<>>
<1> TAKE c \in Confs, p \in Piece, a \in Nat \X Nat, b \in Nat \X Nat
<1> TAKE failing
<1> HAVE Leads(c, failing, a, p, b)
<1>1. /\ b[1] \in DOMAIN c.peers /\ b[2] \in 0 .. Full(c, b[1]) /\ p.key = c.peers[b[1]].key
      /\ \/ p.attrs /\ b[1] = a[1] + 1 /\ a[2] = Full(c, a[1])
         \/ /\ ~p.attrs /\ b[1] = a[1] /\ a[2] < b[2]
            /\ "memory" \notin failing => p.ips # <<>>
  BY DEF Leads
<1>2. a[1] \in Nat /\ a[2] \in Nat
  OBVIOUS
<1>3. Full(c, b[1]) = Len(c.peers[b[1]].ips) /\ b[1] \in Nat \ {0}
  BY <1>1, ConfFacts
<1>4. p.attrs = TRUE \/ p.attrs = FALSE
  BY DEF Piece
<1>5. QED
  BY <1>1, <1>2, <1>3, <1>4

\* Piece r is pieces p and q of one peer, joined.
AreJoined(p, q, r) ==
    p.key = q.key /\ r.key = p.key /\ r.attrs = p.attrs /\ r.ips = p.ips \o q.ips

\* Two pieces of one peer are, once joined, a piece that leads as far as they do.
LEMMA LeadsJoined ==
    \A c \in Confs, p \in Piece, q \in Piece, r \in Piece,
       a \in Nat \X Nat, b \in Nat \X Nat, d \in Nat \X Nat : \A failing :
          AreJoined(p, q, r) /\ Leads(c, failing, a, p, b) /\ Leads(c, failing, b, q, d)
          => /\ Leads(c, failing, a, r, d)
             /\ "memory" \notin failing => q.ips # <<>>
<1> TAKE c \in Confs, p \in Piece, q \in Piece, r \in Piece,
         a \in Nat \X Nat, b \in Nat \X Nat, d \in Nat \X Nat
<1> TAKE failing
<1> HAVE AreJoined(p, q, r) /\ Leads(c, failing, a, p, b) /\ Leads(c, failing, b, q, d)
<1>p. /\ b[1] \in DOMAIN c.peers /\ b[1] \in Nat \ {0} /\ b[2] \in 0 .. Len(c.peers[b[1]].ips)
      /\ a[1] \in Nat /\ a[2] \in Nat
      /\ p.key = c.peers[b[1]].key
      /\ \/ p.attrs = TRUE /\ b[1] = a[1] + 1 /\ a[2] = Full(c, a[1])
         \/ /\ p.attrs = FALSE /\ b[1] = a[1] /\ a[2] < b[2]
            /\ "memory" \notin failing => p.ips # <<>>
  BY LeadsFacts
<1>q. /\ d[1] \in DOMAIN c.peers /\ d[1] \in Nat \ {0} /\ d[2] \in 0 .. Len(c.peers[d[1]].ips)
      /\ q.key = c.peers[d[1]].key
      /\ \/ q.attrs = TRUE /\ d[1] = b[1] + 1
         \/ /\ q.attrs = FALSE /\ d[1] = b[1] /\ b[2] < d[2]
            /\ "memory" \notin failing => q.ips # <<>>
  BY LeadsFacts
<1> DEFINE P == p.ips
           Q == q.ips
           a1 == a[1]
           a2 == a[2]
           b1 == b[1]
           b2 == b[2]
           d1 == d[1]
           d2 == d[2]
           ips == c.peers[b1].ips
           lo == (IF p.attrs THEN 0 ELSE a2) + 1
<1>1. /\ P \in Seq(Addresses \cup {Bad}) /\ Q \in Seq(Addresses \cup {Bad})
      /\ p.attrs \in BOOLEAN
  BY DEF Piece
<1>2. P \o Q \in Seq(Addresses \cup {Bad})
  BY <1>1, ConcatProperties
<1>3. r.key = p.key /\ r.attrs = p.attrs /\ r.ips = P \o Q /\ p.key = q.key
  BY DEF AreJoined
<1>4. /\ b1 \in DOMAIN c.peers /\ b1 \in Nat \ {0} /\ b2 \in 0 .. Len(ips)
      /\ a1 \in Nat /\ a2 \in Nat
      /\ p.key = c.peers[b1].key
      /\ p.attrs => b1 = a1 + 1 /\ a2 = Full(c, a1)
      /\ ~p.attrs => b1 = a1 /\ a2 < b2 /\ ("memory" \notin failing => P # <<>>)
  BY <1>p
<1>5. /\ d1 \in DOMAIN c.peers /\ d2 \in 0 .. Len(c.peers[d1].ips)
      /\ q.key = c.peers[d1].key
      /\ q.attrs => d1 = b1 + 1
      /\ ~q.attrs => d1 = b1 /\ b2 < d2 /\ ("memory" \notin failing => Q # <<>>)
  BY <1>q
<1>6. d1 = b1
  <2>1. b1 \in DOMAIN c.peers /\ d1 \in DOMAIN c.peers /\ c.peers[b1].key = c.peers[d1].key
    BY <1>3, <1>4, <1>5
  <2>2. QED
    BY <2>1, ConfFacts
<1>7. /\ Range(P) \subseteq Range(ips) /\ Range(Q) \subseteq Range(ips)
      /\ Legible(c) /\ "memory" \notin failing => P = SubSeq(ips, lo, b2)
      /\ Legible(c) /\ "memory" \notin failing =>
            Q = SubSeq(ips, (IF q.attrs THEN 0 ELSE b2) + 1, d2)
  BY <1>6 DEF Leads
<1>8. /\ ips \in Seq(Addresses \cup {Bad}) /\ Len(ips) \in Nat /\ Full(c, b1) = Len(ips)
  BY <1>4, ConfFacts
<1>h. /\ p.attrs => lo = 1
      /\ ~p.attrs => lo = a2 + 1
  OBVIOUS
<1> HIDE DEF P, Q, a1, a2, b1, b2, d1, d2, ips, lo
<1>9. ~q.attrs /\ b2 < d2 /\ d2 \in 0 .. Len(ips) /\ ("memory" \notin failing => Q # <<>>)
  <2>1. d2 \in 0 .. Len(ips)
    BY <1>5, <1>6 DEF ips
  <2>2. ~q.attrs
    BY <1>4, <1>5, <1>6
  <2>3. QED
    BY <1>5, <2>1, <2>2
<1>10. lo \in 1 .. Len(ips) + 1 /\ b2 \in lo - 1 .. Len(ips) /\ d2 \in b2 .. Len(ips)
  <2>1. CASE p.attrs
    BY <1>4, <1>8, <1>9, <1>h, <2>1
  <2>2. CASE ~p.attrs
    BY <1>4, <1>8, <1>9, <1>h, <2>2
  <2>3. QED
    BY <2>1, <2>2
<1>11. Legible(c) /\ "memory" \notin failing => r.ips = SubSeq(ips, lo, d2)
  <2> SUFFICES ASSUME Legible(c), "memory" \notin failing PROVE r.ips = SubSeq(ips, lo, d2)
    OBVIOUS
  <2>1. (IF q.attrs THEN 0 ELSE b2) + 1 = b2 + 1
    BY <1>9
  <2>2. P = SubSeq(ips, lo, b2) /\ Q = SubSeq(ips, b2 + 1, d2)
    BY <1>7, <2>1
  <2>3. SubSeq(ips, lo, b2) \o SubSeq(ips, b2 + 1, d2) = SubSeq(ips, lo, d2)
    BY <1>8, <1>10, ConcatAdjacentSubSeq
  <2>4. QED
    BY <1>3, <2>2, <2>3
<1>12. Range(r.ips) \subseteq Range(ips)
  <2>1. /\ Len(P) \in Nat /\ DOMAIN P = 1 .. Len(P)
        /\ Len(Q) \in Nat /\ DOMAIN Q = 1 .. Len(Q)
        /\ DOMAIN (P \o Q) = 1 .. Len(P \o Q)
    BY <1>1, <1>2, LenProperties
  <2>2. /\ Len(P \o Q) = Len(P) + Len(Q)
        /\ \A i \in 1 .. Len(P) + Len(Q) :
              (P \o Q)[i] = IF i <= Len(P) THEN P[i] ELSE Q[i - Len(P)]
    BY <1>1, ConcatProperties
  <2>3. ASSUME NEW i \in 1 .. Len(P) + Len(Q)
        PROVE  (P \o Q)[i] \in Range(ips)
    <3>1. CASE i <= Len(P)
      <4>1. i \in DOMAIN P /\ (P \o Q)[i] = P[i]
        BY <2>1, <2>2, <3>1
      <4>2. QED
        BY <1>7, <4>1 DEF Range
    <3>2. CASE ~(i <= Len(P))
      <4>1. i - Len(P) \in DOMAIN Q /\ (P \o Q)[i] = Q[i - Len(P)]
        BY <2>1, <2>2, <3>2
      <4>2. QED
        BY <1>7, <4>1 DEF Range
    <3>3. QED
      BY <3>1, <3>2
  <2>4. \A i \in DOMAIN (P \o Q) : (P \o Q)[i] \in Range(ips)
    BY <2>1, <2>2, <2>3
  <2>5. QED
    BY <1>3, <2>4 DEF Range
<1>13. "memory" \notin failing => r.ips # <<>>
  <2> SUFFICES ASSUME "memory" \notin failing PROVE P \o Q # <<>>
    BY <1>3
  <2>1. Len(Q) \in Nat \ {0} /\ Len(P) \in Nat
    BY <1>1, <1>9, EmptySeq, LenProperties
  <2>2. Len(P \o Q) = Len(P) + Len(Q)
    BY <1>1, ConcatProperties
  <2>3. Len(P \o Q) # 0
    BY <2>1, <2>2
  <2>4. QED
    BY <2>3
<1>14. Leads(c, failing, a, r, d)
  <2>1. /\ d[1] = b1 /\ d[2] = d2 /\ a[1] = a1 /\ a[2] = a2 /\ ips = c.peers[d[1]].ips
        /\ lo = (IF r.attrs THEN 0 ELSE a[2]) + 1
    BY <1>3, <1>6 DEF a1, a2, b1, d1, d2, ips, lo
  <2>2. a[2] \in Nat /\ d[1] \in DOMAIN c.peers /\ d[2] \in 0 .. Full(c, d[1])
    BY <1>4, <1>8, <1>9, <2>1
  <2>3. r.key = c.peers[d[1]].key /\ Range(r.ips) \subseteq Range(c.peers[d[1]].ips)
    BY <1>3, <1>4, <1>12, <2>1
  <2>4. Legible(c) /\ "memory" \notin failing =>
           r.ips = SubSeq(c.peers[d[1]].ips, (IF r.attrs THEN 0 ELSE a[2]) + 1, d[2])
    BY <1>11, <2>1
  <2>5. \/ r.attrs /\ d[1] = a[1] + 1 /\ a[2] = Full(c, a[1])
        \/ /\ ~r.attrs /\ d[1] = a[1] /\ a[2] < d[2]
           /\ "memory" \notin failing => r.ips # <<>>
    <3>1. CASE p.attrs
      BY <1>3, <1>4, <2>1, <3>1
    <3>2. CASE ~p.attrs
      <4>1. a2 < d2
        BY <1>4, <1>9, <1>10, <1>8, <3>2
      <4>2. QED
        BY <1>3, <1>4, <1>13, <2>1, <3>2, <4>1
    <3>3. QED
      BY <3>1, <3>2
  <2>6. QED
    BY <2>2, <2>3, <2>4, <2>5 DEF Leads
<1>15. QED
  BY <1>9, <1>14 DEF Q

\* Joining two pieces of one peer leaves the dump cut without a gap or an overlap.
LEMMA CutJoin ==
    \A c \in Confs, s \in Seq(Piece) : \A failing, cursor : \A n \in 1 .. Len(s) - 1 :
        Cut(c, failing, s, cursor) /\ s[n].key = s[n + 1].key =>
           /\ Joined(s, n) \in Seq(Piece) /\ Len(Joined(s, n)) = Len(s) - 1
           /\ \A k \in 1 .. Len(s) - 1 : k < n => Joined(s, n)[k] = s[k]
           /\ Joined(s, n)[n].key = s[n].key
           /\ Cut(c, failing, Joined(s, n), cursor)
           /\ "memory" \notin failing => s[n + 1].ips # <<>>
<1> TAKE c \in Confs, s \in Seq(Piece)
<1> TAKE failing, cursor
<1> TAKE n \in 1 .. Len(s) - 1
<1> HAVE Cut(c, failing, s, cursor) /\ s[n].key = s[n + 1].key
<1> DEFINE L == Len(s)
           t == Joined(s, n)
           p == [s[n] EXCEPT !.ips = @ \o s[n + 1].ips]
           this == s[n]
           next == s[n + 1]
<1>1. /\ L \in Nat /\ n \in 1 .. L - 1 /\ n \in 1 .. L /\ n + 1 \in 1 .. L
      /\ \A k \in 1 .. L : s[k] \in Piece
  BY LenProperties, ElementOfSeq
<1>2. PICK mark \in [0 .. L -> Nat \X Nat] :
         /\ mark[0] = <<0, 0>> /\ mark[L] = Mark(c, cursor)
         /\ \A k \in 1 .. L : Leads(c, failing, mark[k - 1], s[k], mark[k])
  BY DEF Cut
<1>0. this.ips \o next.ips \in Seq(Addresses \cup {Bad})
  <2>1. this \in Piece /\ next \in Piece
    BY <1>1
  <2> HIDE DEF this, next
  <2>2. this.ips \in Seq(Addresses \cup {Bad}) /\ next.ips \in Seq(Addresses \cup {Bad})
    BY <2>1 DEF Piece
  <2>3. QED
    BY <2>2, ConcatProperties
<1>p. p \in Piece /\ p.key = this.key /\ p.attrs = this.attrs /\ p.ips = this.ips \o next.ips
  <2>1. this \in Piece /\ next \in Piece
    BY <1>1
  <2> DEFINE all == this.ips \o next.ips
  <2>2. p = [this EXCEPT !.ips = all]
    OBVIOUS
  <2> HIDE DEF this, next, all, p
  <2>3. QED
    BY <1>0, <2>1, <2>2 DEF Piece, all
<1>3. /\ Leads(c, failing, mark[n - 1], p, mark[n + 1])
      /\ "memory" \notin failing => next.ips # <<>>
  <2>1. /\ mark[n - 1] \in Nat \X Nat /\ mark[n] \in Nat \X Nat /\ mark[n + 1] \in Nat \X Nat
        /\ n + 1 - 1 = n
    <3> HIDE DEF L
    <3>1. n - 1 \in 0 .. L /\ n \in 0 .. L /\ n + 1 \in 0 .. L /\ n + 1 - 1 = n
      BY <1>1
    <3>2. QED
      BY <1>2, <3>1
  <2>2. Leads(c, failing, mark[n - 1], s[n], mark[n]) /\ Leads(c, failing, mark[n], s[n + 1], mark[n + 1])
    BY <1>1, <1>2, <2>1
  <2>3. /\ this \in Piece /\ next \in Piece /\ this.key = next.key
        /\ Leads(c, failing, mark[n - 1], this, mark[n]) /\ Leads(c, failing, mark[n], next, mark[n + 1])
    BY <1>1, <2>2
  <2> DEFINE a == mark[n - 1]
             b == mark[n]
             d == mark[n + 1]
  <2>4. /\ a \in Nat \X Nat /\ b \in Nat \X Nat /\ d \in Nat \X Nat
        /\ Leads(c, failing, a, this, b) /\ Leads(c, failing, b, next, d)
    BY <2>1, <2>3
  <2> HIDE DEF this, next, p, a, b, d
  <2>5. Leads(c, failing, a, p, d) /\ ("memory" \notin failing => next.ips # <<>>)
    <3>1. AreJoined(this, next, p)
      BY <1>p, <2>3 DEF AreJoined
    <3>2. QED
      BY <1>p, <2>3, <2>4, <3>1, LeadsJoined
  <2>6. QED
    BY <2>5 DEF a, d
<1>4. t = [k \in 1 .. L - 1 |-> IF k < n THEN s[k] ELSE IF k = n THEN p ELSE s[k + 1]]
  BY DEF Joined
<1> HIDE DEF t, p, L, this, next
<1>5. /\ t \in Seq(Piece) /\ Len(t) = L - 1
      /\ \A k \in 1 .. L - 1 : t[k] = IF k < n THEN s[k] ELSE IF k = n THEN p ELSE s[k + 1]
  <2>1. ASSUME NEW k \in 1 .. L - 1
        PROVE  (IF k < n THEN s[k] ELSE IF k = n THEN p ELSE s[k + 1]) \in Piece
    <3>1. k \in 1 .. L /\ k + 1 \in 1 .. L
      BY <1>1
    <3>2. QED
      BY <1>1, <1>p, <3>1
  <2>2. t \in [1 .. L - 1 -> Piece]
    BY <1>4, <2>1
  <2>3. L - 1 \in Nat
    BY <1>1
  <2>4. t \in Seq(Piece) /\ DOMAIN t = 1 .. L - 1
    BY <2>2, <2>3, SeqDef
  <2>5. Len(t) = L - 1
    BY <2>3, <2>4, LenProperties
  <2>6. QED
    BY <1>4, <2>4, <2>5
<1> DEFINE new == [k \in 0 .. L - 1 |-> IF k < n THEN mark[k] ELSE mark[k + 1]]
<1>6. /\ new \in [0 .. L - 1 -> Nat \X Nat]
      /\ \A k \in 0 .. L - 1 : /\ k < n => new[k] = mark[k]
                               /\ ~(k < n) => new[k] = mark[k + 1]
  <2>1. \A k \in 0 .. L - 1 : k \in 0 .. L /\ k + 1 \in 0 .. L
    BY <1>1
  <2>2. QED
    BY <1>2, <2>1
<1> HIDE DEF new
<1>7. new[0] = <<0, 0>> /\ new[L - 1] = Mark(c, cursor)
  <2>1. 0 \in 0 .. L - 1 /\ L - 1 \in 0 .. L - 1 /\ 0 < n /\ ~(L - 1 < n) /\ L - 1 + 1 = L
    BY <1>1
  <2>2. QED
    BY <1>2, <1>6, <2>1
<1>8. ASSUME NEW k \in 1 .. L - 1 PROVE Leads(c, failing, new[k - 1], t[k], new[k])
  <2>1. /\ k \in 1 .. L /\ k + 1 \in 1 .. L /\ k - 1 \in 0 .. L - 1 /\ k \in 0 .. L - 1
        /\ k + 1 - 1 = k /\ k - 1 + 1 = k
    BY <1>1
  <2>2. CASE k < n
    <3>1. k - 1 < n
      BY <1>1, <2>1, <2>2
    <3>2. new[k - 1] = mark[k - 1] /\ new[k] = mark[k] /\ t[k] = s[k]
      BY <1>5, <1>6, <2>1, <2>2, <3>1
    <3>3. QED
      BY <1>2, <2>1, <3>2
  <2>3. CASE k = n
    <3>1. k - 1 < n /\ ~(k < n)
      BY <1>1, <2>1, <2>3
    <3>2. new[k - 1] = mark[n - 1] /\ new[k] = mark[n + 1] /\ t[k] = p
      BY <1>5, <1>6, <2>1, <2>3, <3>1
    <3>3. QED
      BY <1>3, <3>2
  <2>4. CASE n < k
    <3>1. ~(k - 1 < n) /\ ~(k < n) /\ k # n
      BY <1>1, <2>1, <2>4
    <3>2. new[k - 1] = mark[k] /\ new[k] = mark[k + 1] /\ t[k] = s[k + 1]
      BY <1>5, <1>6, <2>1, <3>1
    <3>3. Leads(c, failing, mark[k + 1 - 1], s[k + 1], mark[k + 1])
      BY <1>2, <2>1
    <3>4. QED
      BY <2>1, <3>2, <3>3
  <2>5. QED
    BY <1>1, <2>1, <2>2, <2>3, <2>4
<1>9. Cut(c, failing, t, cursor)
  BY <1>5, <1>6, <1>7, <1>8 DEF Cut
<1>10. /\ \A k \in 1 .. L - 1 : k < n => t[k] = s[k]
       /\ t[n] = p
  <2>1. n \in 1 .. L - 1 /\ ~(n < n)
    BY <1>1
  <2>2. \A k \in 1 .. L - 1 : k < n => t[k] = s[k]
    BY <1>5
  <2>3. t[n] = p
    BY <1>5, <2>1
  <2>4. QED
    BY <2>2, <2>3
<1>11. QED
  BY <1>3, <1>5, <1>9, <1>10, <1>p DEF t, L, this, next
\* The first piece is one of the first peer.
LEMMA FirstPeer ==
    ASSUME NEW c \in Confs, NEW failing, NEW s \in Seq(Piece), NEW cursor,
           Cut(c, failing, s, cursor), s # <<>>
    PROVE  1 \in DOMAIN c.peers /\ s[1].key = c.peers[1].key
<1>1. /\ Len(s) \in Nat /\ 1 \in 1 .. Len(s) /\ 0 \in 0 .. Len(s) /\ 1 \in 0 .. Len(s) /\ 1 - 1 = 0
      /\ s[1] \in Piece
  BY LenProperties, EmptySeq, ElementOfSeq
<1>2. PICK mark \in [0 .. Len(s) -> Nat \X Nat] :
         /\ mark[0] = <<0, 0>> /\ mark[Len(s)] = Mark(c, cursor)
         /\ \A k \in 1 .. Len(s) : Leads(c, failing, mark[k - 1], s[k], mark[k])
  BY DEF Cut
<1> DEFINE a == mark[0]
           b == mark[1]
           p == s[1]
<1>3. /\ Leads(c, failing, a, p, b) /\ a \in Nat \X Nat /\ b \in Nat \X Nat /\ p \in Piece
      /\ a[1] = 0
  <2>1. Leads(c, failing, mark[1 - 1], s[1], mark[1])
    BY <1>1, <1>2
  <2>2. a = <<0, 0>> /\ b \in Nat \X Nat /\ p \in Piece /\ Leads(c, failing, a, p, b)
    BY <1>1, <1>2, <2>1
  <2> HIDE DEF a, b, p
  <2>3. QED
    BY <2>2
<1> HIDE DEF a, b, p
<1>4. /\ b[1] \in DOMAIN c.peers /\ b[1] \in Nat \ {0} /\ p.key = c.peers[b[1]].key
      /\ b[1] = a[1] + 1 \/ b[1] = a[1]
  BY <1>3, LeadsFacts
<1>5. b[1] = 1
  BY <1>3, <1>4
<1>6. QED
  BY <1>4, <1>5 DEF p

\* The piece after one of peer n is one of the next peer, if it has another key.
LEMMA NextPeer ==
    ASSUME NEW c \in Confs, NEW failing, NEW s \in Seq(Piece), NEW cursor,
           Cut(c, failing, s, cursor), NEW n \in 1 .. Len(s) - 1,
           n \in DOMAIN c.peers, s[n].key = c.peers[n].key, s[n].key # s[n + 1].key
    PROVE  n + 1 \in DOMAIN c.peers /\ s[n + 1].key = c.peers[n + 1].key
<1>1. /\ Len(s) \in Nat /\ n \in 1 .. Len(s) /\ n + 1 \in 1 .. Len(s) /\ n - 1 \in 0 .. Len(s)
      /\ n \in 0 .. Len(s) /\ n + 1 \in 0 .. Len(s) /\ n + 1 - 1 = n
      /\ s[n] \in Piece /\ s[n + 1] \in Piece
  BY LenProperties, ElementOfSeq
<1>2. PICK mark \in [0 .. Len(s) -> Nat \X Nat] :
         /\ mark[0] = <<0, 0>> /\ mark[Len(s)] = Mark(c, cursor)
         /\ \A k \in 1 .. Len(s) : Leads(c, failing, mark[k - 1], s[k], mark[k])
  BY DEF Cut
<1> DEFINE a == mark[n - 1]
           b == mark[n]
           d == mark[n + 1]
           p == s[n]
           q == s[n + 1]
<1>3. a \in Nat \X Nat /\ b \in Nat \X Nat /\ d \in Nat \X Nat
  BY <1>1
<1>4. Leads(c, failing, a, p, b) /\ Leads(c, failing, b, q, d)
  <2>1. Leads(c, failing, mark[n + 1 - 1], s[n + 1], mark[n + 1])
    BY <1>1, <1>2
  <2>2. QED
    BY <1>1, <1>2, <2>1
<1>5. p \in Piece /\ q \in Piece /\ p.key = c.peers[n].key /\ p.key # q.key
  BY <1>1
<1> HIDE DEF a, b, d, p, q
<1>6. b[1] \in DOMAIN c.peers /\ p.key = c.peers[b[1]].key
  BY <1>3, <1>4, <1>5, LeadsFacts
<1>7. /\ d[1] \in DOMAIN c.peers /\ q.key = c.peers[d[1]].key
      /\ d[1] = b[1] + 1 \/ d[1] = b[1]
  BY <1>3, <1>4, <1>5, LeadsFacts
<1>8. b[1] = n
  BY <1>5, <1>6, ConfFacts
<1>9. d[1] = n + 1
  BY <1>5, <1>7, <1>8
<1>10. QED
  BY <1>7, <1>9 DEF q

\* Pieces of a whole dump that are each of another peer are the peers, whole.
LEMMA WholePeers ==
    \A c \in Confs, s \in Seq(Piece) : \A failing :
        /\ Cut(c, failing, s, End(c))
        /\ \A n \in DOMAIN s : n \in DOMAIN c.peers /\ s[n].key = c.peers[n].key
        => /\ Len(s) = Len(c.peers)
           /\ \A n \in DOMAIN s :
                 /\ s[n].attrs = TRUE
                 /\ Range(s[n].ips) \subseteq Range(c.peers[n].ips)
                 /\ Legible(c) /\ "memory" \notin failing => s[n].ips = c.peers[n].ips
<1> TAKE c \in Confs, s \in Seq(Piece)
<1> TAKE failing
<1> HAVE /\ Cut(c, failing, s, End(c))
         /\ \A n \in DOMAIN s : n \in DOMAIN c.peers /\ s[n].key = c.peers[n].key
<1> DEFINE L == Len(s)
           N == Len(c.peers)
<1>1. /\ L \in Nat /\ DOMAIN s = 1 .. L /\ N \in Nat /\ DOMAIN c.peers = 1 .. N
      /\ \A n \in 1 .. L : s[n] \in Piece
  BY ConfFacts, LenProperties, ElementOfSeq
<1>2. PICK mark \in [0 .. L -> Nat \X Nat] :
         /\ mark[0] = <<0, 0>> /\ mark[L] = Mark(c, End(c))
         /\ \A k \in 1 .. L : Leads(c, failing, mark[k - 1], s[k], mark[k])
  BY DEF Cut
<1>3. mark[L] = <<N, Full(c, N)>>
  <2>1. End(c) = <<N + 1, 0>>
    BY DEF End
  <2>2. End(c)[1] = N + 1 /\ End(c)[2] = 0
    BY <2>1
  <2> HIDE DEF N
  <2>3. Mark(c, End(c)) = <<N + 1 - 1, Full(c, N + 1 - 1)>>
    BY <1>1, <2>2 DEF Mark
  <2>4. N + 1 - 1 = N
    BY <1>1
  <2>5. QED
    BY <1>2, <2>3, <2>4
<1> HIDE DEF L, N
<1>4. \A n \in 0 .. L : mark[n] \in Nat \X Nat
  BY <1>2
<1>5. ASSUME NEW n \in 1 .. L
      PROVE  /\ mark[n][1] = n
             /\ \/ n = mark[n - 1][1] + 1 /\ mark[n - 1][2] = Full(c, mark[n - 1][1])
                \/ n = mark[n - 1][1]
             /\ n # mark[n - 1][1] => s[n].attrs = TRUE
             /\ Range(s[n].ips) \subseteq Range(c.peers[n].ips)
             /\ n # mark[n - 1][1] /\ Legible(c) /\ "memory" \notin failing =>
                   s[n].ips = SubSeq(c.peers[n].ips, 1, mark[n][2])
  <2> DEFINE a == mark[n - 1]
             b == mark[n]
             p == s[n]
  <2>1. /\ a \in Nat \X Nat /\ b \in Nat \X Nat /\ p \in Piece /\ Leads(c, failing, a, p, b)
        /\ n \in DOMAIN c.peers /\ p.key = c.peers[n].key
    <3>1. n - 1 \in 0 .. L /\ n \in 0 .. L /\ n \in DOMAIN s
      BY <1>1
    <3>2. QED
      BY <1>1, <1>2, <1>4, <3>1
  <2> HIDE DEF a, b, p
  <2>2. /\ b[1] \in DOMAIN c.peers /\ p.key = c.peers[b[1]].key
        /\ \/ p.attrs = TRUE /\ b[1] = a[1] + 1 /\ a[2] = Full(c, a[1])
           \/ p.attrs = FALSE /\ b[1] = a[1]
    BY <2>1, LeadsFacts
  <2>3. b[1] = n
    BY <2>1, <2>2, ConfFacts
  <2>4. /\ Range(p.ips) \subseteq Range(c.peers[b[1]].ips)
        /\ Legible(c) /\ "memory" \notin failing =>
              p.ips = SubSeq(c.peers[b[1]].ips, (IF p.attrs THEN 0 ELSE a[2]) + 1, b[2])
    BY <2>1 DEF Leads
  <2>5. /\ b[1] = n
        /\ (n = a[1] + 1 /\ a[2] = Full(c, a[1])) \/ n = a[1]
        /\ n # a[1] => p.attrs = TRUE
        /\ Range(p.ips) \subseteq Range(c.peers[n].ips)
        /\ n # a[1] /\ Legible(c) /\ "memory" \notin failing =>
              p.ips = SubSeq(c.peers[n].ips, 1, b[2])
    <3>1. n # a[1] => p.attrs = TRUE
      BY <2>2, <2>3
    <3>2. 0 + 1 = 1
      OBVIOUS
    <3>3. p.attrs = TRUE => (IF p.attrs THEN 0 ELSE a[2]) + 1 = 0 + 1
      BY Zenon
    <3>4. QED
      BY <2>2, <2>3, <2>4, <3>1, <3>2, <3>3
  <2>6. QED
    BY <2>5 DEF a, b, p
<1>6. L = N
  <2>1. mark[L][1] = N
    BY <1>3
  <2>2. CASE L = 0
    <3>1. mark[L][1] = 0
      BY <1>2, <2>2
    <3>2. QED
      BY <2>1, <2>2, <3>1
  <2>3. CASE L # 0
    <3>1. L \in 1 .. L
      BY <1>1, <2>3
    <3>2. QED
      BY <1>5, <2>1, <3>1
  <2>4. QED
    BY <2>2, <2>3
<1>7. ASSUME NEW n \in 1 .. L
      PROVE  n # mark[n - 1][1] /\ s[n].attrs = TRUE /\ mark[n][2] = Full(c, n)
  <2>1. n - 1 = 0 \/ n - 1 \in 1 .. L
    BY <1>1
  <2>2. mark[n - 1][1] = n - 1
    <3>1. CASE n - 1 = 0
      BY <1>2, <3>1
    <3>2. CASE n - 1 \in 1 .. L
      BY <1>5, <3>2
    <3>3. QED
      BY <2>1, <3>1, <3>2
  <2>3. n # n - 1
    BY <1>1
  <2>4. n # mark[n - 1][1] /\ s[n].attrs = TRUE
    BY <1>5, <2>2, <2>3
  <2>5. CASE n = L
    <3>1. mark[n] = <<n, Full(c, n)>>
      BY <1>3, <1>6, <2>5
    <3>2. QED
      BY <2>4, <3>1
  <2>6. CASE n # L
    <3>1. n + 1 \in 1 .. L /\ n + 1 - 1 = n /\ n + 1 # n
      BY <1>1, <2>6
    <3>2. mark[n][1] = n
      BY <1>5
    <3>a. \/ n + 1 = mark[n + 1 - 1][1] + 1 /\ mark[n + 1 - 1][2] = Full(c, mark[n + 1 - 1][1])
          \/ n + 1 = mark[n + 1 - 1][1]
      <4> DEFINE k == n + 1
      <4>1. k \in 1 .. L
        BY <3>1
      <4> HIDE DEF k
      <4>2. \/ k = mark[k - 1][1] + 1 /\ mark[k - 1][2] = Full(c, mark[k - 1][1])
            \/ k = mark[k - 1][1]
        BY <1>5, <4>1
      <4>3. QED
        BY <4>2 DEF k
    <3>3. \/ n + 1 = mark[n][1] + 1 /\ mark[n][2] = Full(c, mark[n][1])
          \/ n + 1 = mark[n][1]
      BY <3>1, <3>a
    <3>4. QED
      BY <2>4, <3>1, <3>2, <3>3
  <2>7. QED
    BY <2>5, <2>6
<1>8. ASSUME NEW n \in 1 .. L, Legible(c), "memory" \notin failing
      PROVE  s[n].ips = c.peers[n].ips
  <2>2. n \in DOMAIN c.peers
    BY <1>1, <1>6
  <2>3. c.peers[n].ips \in Seq(Addresses \cup {Bad}) /\ Full(c, n) = Len(c.peers[n].ips)
    BY <2>2, ConfFacts
  <2>4. s[n].ips = SubSeq(c.peers[n].ips, 1, Len(c.peers[n].ips))
    <3>1. s[n].ips = SubSeq(c.peers[n].ips, 1, mark[n][2])
      BY <1>5, <1>7, <1>8
    <3>2. mark[n][2] = Len(c.peers[n].ips)
      BY <1>7, <2>3
    <3>3. QED
      BY <3>1, <3>2
  <2>5. QED
    BY <2>3, <2>4, SubSeqFull
<1>9. QED
  BY <1>1, <1>5, <1>6, <1>7, <1>8 DEF L, N
-----------------------------------------------------------------------------
(* The inductive invariant: one lemma for each step.                       *)

\* What the invariant says of the pieces while the call goes on.
LEMMA DumpFacts ==
    ASSUME DumpInv
    PROVE  /\ conf \in Confs /\ dumped \in Confs /\ faults \in Faults
           /\ at \in {<<0, 0>>} \cup Cursors(dumped)
           /\ msg \in Seq(Piece) /\ device.peers \in Seq(Piece) /\ device.attrs \subseteq Attrs \cup {"garbled"}
           /\ device = [attrs |-> device.attrs, peers |-> device.peers]
           /\ peer \in Nat \ {0}
           /\ msg = <<>> => device.peers \o msg = device.peers
<1>1. msg \in Seq(Piece) /\ device \in [attrs : SUBSET (Attrs \cup {"garbled"}), peers : Seq(Piece)]
  BY DEF DumpInv, DumpTypeOK
<1>2. /\ device.peers \in Seq(Piece) /\ device.attrs \subseteq Attrs \cup {"garbled"}
      /\ device = [attrs |-> device.attrs, peers |-> device.peers]
  BY <1>1
<1>3. device.peers \o <<>> = device.peers
  BY <1>2, ConcatEmptySeq
<1>4. QED
  BY <1>1, <1>2, <1>3 DEF DumpInv, DumpTypeOK

LEMMA InitDumpInv == Init => DumpInv
<1> SUFFICES ASSUME Init PROVE DumpInv
  OBVIOUS
<1>1. <<>> \in Seq(Piece) /\ <<>> \o <<>> = <<>>
  BY EmptySeq, ConcatEmptySeq
<1>2. NoDevice \in [attrs : SUBSET (Attrs \cup {"garbled"}), peers : Seq(Piece)] /\ NoDevice.peers = <<>>
  BY <1>1 DEF NoDevice
<1>3. DumpTypeOK
  BY <1>1, <1>2 DEF Init, Supported, DumpTypeOK
<1>4. PhaseInv
  BY DEF Init, PhaseInv, Succeeded
<1>5. CutInv
  <2>1. device.peers \o msg = <<>> /\ at = <<0, 0>>
    BY <1>1, <1>2 DEF Init
  <2>2. QED
    BY <2>1, CutNothing DEF CutInv
<1>6. JoinInv /\ CrashNeedsLostMemory
  BY DEF Init, JoinInv, Succeeded, CrashNeedsLostMemory
<1>7. QED
  BY <1>3, <1>4, <1>5, <1>6 DEF DumpInv

\* Another attempt begins with nothing.
LEMMA TryAgainDumpInv ==
    ASSUME DumpInv, TryAgain PROVE DumpInv'
<1>1. <<>> \in Seq(Piece) /\ <<>> \o <<>> = <<>>
  BY EmptySeq, ConcatEmptySeq
<1>2. NoDevice \in [attrs : SUBSET (Attrs \cup {"garbled"}), peers : Seq(Piece)] /\ NoDevice.peers = <<>>
  BY <1>1 DEF NoDevice
<1>3. DumpTypeOK'
  BY <1>1, <1>2 DEF DumpInv, DumpTypeOK, TryAgain, joins
<1>4. PhaseInv'
  BY DEF TryAgain, PhaseInv, Succeeded
<1>5. CutInv'
  <2>1. device'.peers \o msg' = <<>> /\ at' = <<0, 0>>
    BY <1>1, <1>2 DEF TryAgain
  <2>2. Cut(dumped', faults', device'.peers \o msg', at')
    BY <2>1, CutNothing
  <2>3. QED
    BY <2>2 DEF CutInv
<1>6. JoinInv' /\ CrashNeedsLostMemory'
  BY DEF TryAgain, JoinInv, Succeeded, CrashNeedsLostMemory
<1>7. QED
  BY <1>3, <1>4, <1>5, <1>6 DEF DumpInv

\* A call that has failed promises nothing.
LEMMA FailDumpInv ==
    ASSUME DumpInv, Fail("error") PROVE DumpInv'
<1>1. <<>> \in Seq(Piece)
  BY EmptySeq
<1>2. NoDevice \in [attrs : SUBSET (Attrs \cup {"garbled"}), peers : Seq(Piece)]
  BY <1>1 DEF NoDevice
<1>3. DumpTypeOK'
  BY <1>1, <1>2 DEF DumpInv, DumpTypeOK, Fail, joins, kernel
<1>4. PhaseInv'
  BY DEF Fail, PhaseInv, Succeeded
<1>5. CutInv' /\ JoinInv' /\ CrashNeedsLostMemory'
  BY DEF Fail, CutInv, JoinInv, Succeeded, CrashNeedsLostMemory
<1>6. QED
  BY <1>3, <1>4, <1>5 DEF DumpInv

LEMMA OpenDumpInv ==
    ASSUME DumpInv, open PROVE DumpInv'
<1>1. CASE Fail("error")
  BY <1>1, FailDumpInv
<1>2. CASE pc = "open" /\ pc' = "recv" /\ UNCHANGED <<kernel, msg, device, joins, ret>>
  <2>1. DumpTypeOK'
    BY <1>2 DEF DumpInv, DumpTypeOK, kernel, joins
  <2>2. PhaseInv'
    BY <1>2 DEF DumpInv, PhaseInv, Read, Succeeded, kernel
  <2>3. CutInv'
    BY <1>2 DEF DumpInv, CutInv, kernel
  <2>4. JoinInv' /\ CrashNeedsLostMemory'
    BY <1>2 DEF JoinInv, Succeeded, CrashNeedsLostMemory
  <2>5. QED
    BY <2>1, <2>2, <2>3, <2>4 DEF DumpInv
<1>3. QED
  BY <1>1, <1>2 DEF open

LEMMA ReconfigureDumpInv ==
    ASSUME DumpInv, Reconfigure PROVE DumpInv'
<1>1. pc \notin {"out", "crashed"} /\ conf' \in Confs
      /\ UNCHANGED <<abi, at, faults, pc, msg, device, peer, linked, ret>>
  BY DEF Reconfigure, Supported, joins
<1>2. CASE at # <<0, 0>> /\ dumped' = dumped
  <2>1. DumpTypeOK'
    BY <1>1, <1>2 DEF DumpInv, DumpTypeOK
  <2>2. PhaseInv'
    BY <1>1, <1>2 DEF DumpInv, PhaseInv, Read, Succeeded
  <2>3. CutInv'
    BY <1>1, <1>2 DEF DumpInv, CutInv
  <2>4. JoinInv' /\ CrashNeedsLostMemory'
    BY <1>1, <1>2 DEF DumpInv, JoinInv, Succeeded, CrashNeedsLostMemory
  <2>5. QED
    BY <2>1, <2>2, <2>3, <2>4 DEF DumpInv
<1>3. CASE at = <<0, 0>> /\ dumped' = conf'
  <2>1. device = NoDevice /\ msg = <<>>
    BY <1>3 DEF DumpInv, PhaseInv
  <2>2. DumpTypeOK'
    BY <1>1, <1>3 DEF DumpInv, DumpTypeOK
  <2>3. pc # "coalesce" /\ ~Succeeded
    <3>1. at = End(dumped) => at[1] = Len(dumped.peers) + 1
      BY DEF End
    <3>2. Len(dumped.peers) \in Nat
      BY DumpFacts, ConfFacts
    <3>3. at[1] = 0
      BY <1>3
    <3>4. QED
      BY <3>1, <3>2, <3>3 DEF DumpInv, PhaseInv
  <2>4. PhaseInv'
    BY <1>1, <1>3, <2>1, <2>3 DEF DumpInv, PhaseInv, Read, Succeeded
  <2>5. CutInv'
    <3>1. device'.peers \o msg' = <<>> /\ at' = <<0, 0>>
      <4>1. <<>> \o <<>> = <<>>
        BY ConcatEmptySeq
      <4>2. QED
        BY <1>1, <1>3, <2>1, <4>1 DEF NoDevice
    <3>2. Cut(dumped', faults', device'.peers \o msg', at')
      BY <3>1, CutNothing
    <3>3. QED
      BY <3>2 DEF CutInv
  <2>6. JoinInv' /\ CrashNeedsLostMemory'
    BY <1>1, <2>3 DEF JoinInv, Succeeded, CrashNeedsLostMemory
  <2>7. QED
    BY <2>2, <2>4, <2>5, <2>6 DEF DumpInv
<1>4. QED
  BY <1>2, <1>3 DEF Reconfigure

LEMMA MessageDumpInv ==
    ASSUME DumpInv, read_device_cb PROVE DumpInv'
<1> DEFINE sent == IF at = <<0, 0>> THEN dumped.attrs ELSE {}
<1>0. PICK kept \in SUBSET Read(sent) :
         /\ "memory" \notin faults => kept = Read(sent)
         /\ device' = [device EXCEPT !.attrs = @ \cup kept]
  BY DEF read_device_cb, parse_device
<1>1. pc = "recv" /\ pc' = "parse" /\ msg = <<>> /\ UNCHANGED <<abi, conf, dumped, faults, joins, ret>>
  BY DEF DumpInv, PhaseInv, read_device_cb
<1>2. PICK to \in Cursors(dumped) :
         Earlier(at, to) /\ msg' = Pieces(dumped, at, to) /\ at' = to
  BY DEF read_device_cb
<1>3. /\ dumped \in Confs /\ at \in {<<0, 0>>} \cup Cursors(dumped)
      /\ device.peers \in Seq(Piece) /\ device.attrs \subseteq Attrs \cup {"garbled"}
      /\ device = [attrs |-> device.attrs, peers |-> device.peers]
      /\ device.peers \o msg = device.peers
  BY <1>1, DumpFacts
<1>4. Cut(dumped, faults, device.peers, at)
  BY <1>1, <1>3 DEF DumpInv, CutInv
<1>5. /\ Pieces(dumped, at, to) \in Seq(Piece)
      /\ Cut(dumped, faults, device.peers \o Pieces(dumped, at, to), to)
  BY <1>2, <1>3, <1>4, CutExtend
<1>6. /\ device'.peers = device.peers
      /\ "memory" \notin faults => device'.attrs = Read(dumped.attrs)
      /\ device' \in [attrs : SUBSET (Attrs \cup {"garbled"}), peers : Seq(Piece)]
  <2>1. sent \subseteq Attrs
    BY <1>3, ConfFacts
  <2>2. Read(sent) \subseteq Attrs \cup {"garbled"}
    BY <2>1 DEF Read
  <2> HIDE DEF sent
  <2>3. device'.peers = device.peers /\ device'.attrs = device.attrs \cup kept
        /\ device' \in [attrs : SUBSET (Attrs \cup {"garbled"}), peers : Seq(Piece)]
    BY <1>0, <1>3, <2>2
  <2>4. "memory" \notin faults => device'.attrs = Read(dumped.attrs)
    <3>1. CASE at = <<0, 0>>
      <4>1. device.attrs = {} /\ sent = dumped.attrs
        BY <3>1 DEF DumpInv, PhaseInv, NoDevice, sent
      <4>2. QED
        BY <1>0, <2>3, <4>1
    <3>2. CASE at # <<0, 0>>
      <4>1. "memory" \notin faults => device.attrs = Read(dumped.attrs)
        BY <1>1, <3>2 DEF DumpInv, PhaseInv
      <4>2. Read(sent) = {}
        BY <3>2 DEF sent, Read
      <4>3. QED
        BY <1>0, <2>3, <4>1, <4>2
    <3>3. QED
      BY <3>1, <3>2
  <2>5. QED
    BY <2>3, <2>4
<1>7. to # <<0, 0>>
  <2>1. to[1] \in 1 .. Len(dumped.peers) + 1
    BY <1>3, CursorFacts
  <2>2. to[1] # 0
    BY <2>1
  <2>3. QED
    BY <2>2
<1>8. DumpTypeOK'
  BY <1>1, <1>2, <1>5, <1>6 DEF DumpInv, DumpTypeOK, joins
<1>9. PhaseInv'
  BY <1>1, <1>2, <1>6, <1>7 DEF PhaseInv, Read, Succeeded
<1>10. CutInv'
  BY <1>1, <1>2, <1>5, <1>6 DEF CutInv
<1>11. JoinInv' /\ CrashNeedsLostMemory'
  BY <1>1 DEF JoinInv, Succeeded, CrashNeedsLostMemory
<1>12. QED
  BY <1>8, <1>9, <1>10, <1>11 DEF DumpInv
\* Putting a parsed piece with the others does not move the cut.
LEMMA CutParse ==
    ASSUME NEW c \in Confs, NEW s \in Seq(Piece), NEW t \in Seq(Piece), NEW cursor, t # <<>>,
           Cut(c, faults, s \o t, cursor), NEW kept \in parse_allowedips(Head(t).ips)
    PROVE  /\ Stored(Head(t), kept) \in Piece
           /\ Append(s, Stored(Head(t), kept)) \in Seq(Piece) /\ Tail(t) \in Seq(Piece)
           /\ Cut(c, faults, Append(s, Stored(Head(t), kept)) \o Tail(t), cursor)
<1> DEFINE p == Head(t)
           q == Stored(p, kept)
           old == s \o t
           new == Append(s, q) \o Tail(t)
<1>1. p \in Piece /\ Tail(t) \in Seq(Piece) /\ Len(Tail(t)) = Len(t) - 1 /\ p = t[1]
      /\ \A i \in 1 .. Len(Tail(t)) : Tail(t)[i] = t[i + 1]
  BY HeadTailProperties
<1>2. Len(s) \in Nat /\ Len(t) \in Nat \ {0}
  BY EmptySeq, LenProperties
<1>3. q \in Piece
  <2>1. kept \in Seq(Addresses \cup {Bad})
    BY <1>1, KeptFacts DEF Piece
  <2> HIDE DEF p
  <2>2. QED
    BY <1>1, <2>1 DEF Piece, Stored
<1>4. \A a, b : Leads(c, faults, a, p, b) => Leads(c, faults, a, q, b)
  <2> HIDE DEF p
  <2>1. ASSUME NEW a, NEW b, Leads(c, faults, a, p, b) PROVE Leads(c, faults, a, q, b)
    BY <1>1, <2>1, ParsedLeads DEF p
  <2>2. QED
    BY <2>1
<1> HIDE DEF p, q
<1>5. /\ Append(s, q) \in Seq(Piece) /\ Len(Append(s, q)) = Len(s) + 1
      /\ \A i \in 1 .. Len(s) : Append(s, q)[i] = s[i]
      /\ Append(s, q)[Len(s) + 1] = q
  BY <1>3, AppendProperties
<1>6. /\ Len(old) = Len(s) + Len(t)
      /\ \A i \in 1 .. Len(s) + Len(t) : old[i] = IF i <= Len(s) THEN s[i] ELSE t[i - Len(s)]
  BY ConcatProperties
<1>7. /\ Len(new) = Len(Append(s, q)) + Len(Tail(t))
      /\ \A i \in 1 .. Len(Append(s, q)) + Len(Tail(t)) :
            new[i] = IF i <= Len(Append(s, q)) THEN Append(s, q)[i] ELSE Tail(t)[i - Len(Append(s, q))]
  BY <1>1, <1>5, ConcatProperties
<1> HIDE DEF old, new
<1>8. Len(new) = Len(old)
  BY <1>1, <1>2, <1>5, <1>6, <1>7
<1>9. ASSUME NEW i \in 1 .. Len(old)
      PROVE  new[i] = old[i] \/ (old[i] = p /\ new[i] = q)
  <2>1. i \in 1 .. Len(s) + Len(t) /\ i \in 1 .. Len(Append(s, q)) + Len(Tail(t))
    BY <1>1, <1>2, <1>5, <1>6
  <2>2. CASE i <= Len(s)
    <3>1. i <= Len(Append(s, q)) /\ i \in 1 .. Len(s)
      BY <1>2, <1>5, <2>1, <2>2
    <3>2. QED
      BY <1>5, <1>6, <1>7, <2>1, <2>2, <3>1
  <2>3. CASE i = Len(s) + 1
    <3>1. ~(i <= Len(s)) /\ i <= Len(Append(s, q)) /\ i - Len(s) = 1
      BY <1>2, <1>5, <2>3
    <3>2. QED
      BY <1>1, <1>5, <1>6, <1>7, <2>1, <2>3, <3>1
  <2>4. CASE Len(s) + 1 < i
    <3>1. /\ ~(i <= Len(s)) /\ ~(i <= Len(Append(s, q)))
          /\ i - Len(Append(s, q)) \in 1 .. Len(Tail(t))
          /\ (i - Len(Append(s, q))) + 1 = i - Len(s)
      BY <1>1, <1>2, <1>5, <2>1, <2>4
    <3>2. old[i] = t[i - Len(s)] /\ new[i] = Tail(t)[i - Len(Append(s, q))]
      BY <1>6, <1>7, <2>1, <3>1
    <3>3. Tail(t)[i - Len(Append(s, q))] = t[(i - Len(Append(s, q))) + 1]
      BY <1>1, <3>1
    <3>4. QED
      BY <3>1, <3>2, <3>3
  <2>5. QED
    BY <1>2, <2>1, <2>2, <2>3, <2>4
<1>10. \A i \in 1 .. Len(old), a \in Nat \X Nat, b \in Nat \X Nat :
          Leads(c, faults, a, old[i], b) => Leads(c, faults, a, new[i], b)
  BY <1>4, <1>9
<1>11. Cut(c, faults, old, cursor)
  BY DEF old
<1>12. Cut(c, faults, new, cursor)
  BY <1>8, <1>10, <1>11, CutReplace
<1>13. QED
  BY <1>1, <1>3, <1>5, <1>12 DEF new, p, q

LEMMA ParseDumpInv ==
    ASSUME DumpInv, parse_peers PROVE DumpInv'
<1>1. CASE Fail("error")
  BY <1>1, FailDumpInv
<1>2. CASE /\ \E kept \in parse_allowedips(Head(msg).ips) :
                 device' = [device EXCEPT !.peers = Append(@, Stored(Head(msg), kept))]
           /\ msg' = Tail(msg) /\ UNCHANGED <<kernel, pc, joins, ret>>
  <2>1. PICK kept \in parse_allowedips(Head(msg).ips) :
           device' = [device EXCEPT !.peers = Append(@, Stored(Head(msg), kept))]
    BY <1>2
  <2>2. /\ pc = "parse" /\ msg # <<>> /\ msg' = Tail(msg)
        /\ UNCHANGED <<abi, conf, dumped, at, faults, pc, peer, ret>>
    BY <1>2 DEF parse_peers, kernel, joins
  <2>3. /\ dumped \in Confs /\ msg \in Seq(Piece) /\ device.peers \in Seq(Piece)
        /\ device.attrs \subseteq Attrs \cup {"garbled"}
        /\ device = [attrs |-> device.attrs, peers |-> device.peers]
    BY DumpFacts
  <2> DEFINE q == Stored(Head(msg), kept)
  <2>4. Cut(dumped, faults, device.peers \o msg, at)
    BY <2>2 DEF DumpInv, CutInv
  <2>5. /\ Append(device.peers, q) \in Seq(Piece) /\ Tail(msg) \in Seq(Piece)
        /\ Cut(dumped, faults, Append(device.peers, q) \o Tail(msg), at)
    BY <2>2, <2>3, <2>4, CutParse
  <2> HIDE DEF q
  <2>6. device' = [device EXCEPT !.peers = Append(@, q)]
    BY <2>1 DEF q
  <2>7. device'.peers = Append(device.peers, q) /\ device'.attrs = device.attrs
        /\ device' \in [attrs : SUBSET (Attrs \cup {"garbled"}), peers : Seq(Piece)]
    BY <2>3, <2>5, <2>6
  <2>8. at # <<0, 0>>
    BY <2>2 DEF DumpInv, PhaseInv
  <2>9. DumpTypeOK'
    BY <2>2, <2>5, <2>7 DEF DumpInv, DumpTypeOK
  <2>10. PhaseInv'
    BY <2>2, <2>7, <2>8 DEF DumpInv, PhaseInv, Read, Succeeded
  <2>11. CutInv'
    BY <2>2, <2>5, <2>7 DEF CutInv
  <2>12. JoinInv' /\ CrashNeedsLostMemory'
    BY <2>2 DEF JoinInv, Succeeded, CrashNeedsLostMemory
  <2>13. QED
    BY <2>9, <2>10, <2>11, <2>12 DEF DumpInv
<1>3. QED
  BY <1>1, <1>2 DEF parse_peers

LEMMA ParsedDumpInv ==
    ASSUME DumpInv, message_parsed PROVE DumpInv'
<1>1. /\ pc = "parse" /\ msg = <<>> /\ pc' = "recv"
      /\ UNCHANGED <<abi, conf, dumped, at, faults, msg, device, peer, linked, ret>>
  BY DEF message_parsed, kernel, joins
<1>2. DumpTypeOK'
  BY <1>1 DEF DumpInv, DumpTypeOK
<1>3. PhaseInv'
  BY <1>1 DEF DumpInv, PhaseInv, Read, Succeeded
<1>4. CutInv'
  BY <1>1 DEF DumpInv, CutInv
<1>5. JoinInv' /\ CrashNeedsLostMemory'
  BY <1>1 DEF JoinInv, Succeeded, CrashNeedsLostMemory
<1>6. QED
  BY <1>2, <1>3, <1>4, <1>5 DEF DumpInv

LEMMA StopDumpInv ==
    ASSUME DumpInv, mnlg_cb_stop PROVE DumpInv'
<1>1. /\ pc = "recv" /\ at = End(dumped) /\ pc' = "coalesce" /\ peer' = 1
      /\ linked' = (device.peers # <<>> /\ Head(device.peers).ips # <<>>)
      /\ UNCHANGED <<abi, conf, dumped, at, faults, msg, device, ret>>
  BY DEF mnlg_cb_stop, kernel
<1>2. msg = <<>>
  BY <1>1 DEF DumpInv, PhaseInv
<1>3. dumped \in Confs /\ device.peers \in Seq(Piece) /\ device.peers \o msg = device.peers
  BY <1>2, DumpFacts
<1>4. Cut(dumped, faults, device.peers, at)
  BY <1>1, <1>3 DEF DumpInv, CutInv
<1>5. DumpTypeOK'
  BY <1>1 DEF DumpInv, DumpTypeOK
<1>6. PhaseInv'
  BY <1>1, <1>2 DEF DumpInv, PhaseInv, Read, Succeeded
<1>7. CutInv'
  BY <1>1 DEF DumpInv, CutInv
<1>8. JoinInv'
  <2>1. Len(device.peers) \in Nat /\ DOMAIN device.peers = 1 .. Len(device.peers)
    BY <1>3, LenProperties
  <2>2. device.peers # <<>> => Len(device.peers) \in Nat \ {0} /\ Head(device.peers) = device.peers[1]
    BY <1>3, EmptySeq, HeadTailProperties
  <2>3. device.peers # <<>> => 1 \in DOMAIN dumped.peers /\ device.peers[1].key = dumped.peers[1].key
    BY <1>3, <1>4, FirstPeer
  <2>4. \A n \in DOMAIN device.peers : n <= 1 =>
           n \in DOMAIN dumped.peers /\ device.peers[n].key = dumped.peers[n].key
    <3> SUFFICES ASSUME NEW n \in DOMAIN device.peers, n <= 1
                 PROVE  n \in DOMAIN dumped.peers /\ device.peers[n].key = dumped.peers[n].key
      OBVIOUS
    <3>1. n = 1 /\ Len(device.peers) # 0
      BY <2>1
    <3>2. device.peers # <<>>
      BY <3>1
    <3>3. QED
      BY <2>3, <3>1, <3>2
  <2>5. 1 <= Len(device.peers) \/ device.peers = <<>>
    BY <2>2
  <2>6. device.peers # <<>> => (device.peers[1].ips # <<>> => linked')
    BY <1>1, <2>2
  <2>7. ~Succeeded'
    BY <1>1 DEF Succeeded
  <2>8. QED
    BY <1>1, <2>4, <2>5, <2>6, <2>7 DEF JoinInv
<1>9. CrashNeedsLostMemory'
  BY <1>1 DEF CrashNeedsLostMemory
<1>10. QED
  BY <1>5, <1>6, <1>7, <1>8, <1>9 DEF DumpInv

LEMMA FinishDumpInv ==
    ASSUME DumpInv, finish PROVE DumpInv'
<1>1. CASE TryAgain
  BY <1>1, TryAgainDumpInv
<1>2. CASE ret = "0" /\ pc' = "out" /\ UNCHANGED <<kernel, msg, device, joins, ret>>
  <2>1. /\ pc = "coalesce" /\ peer >= Len(device.peers)
        /\ UNCHANGED <<abi, conf, dumped, at, faults, msg, device, peer, linked, ret>>
    BY <1>2 DEF finish, kernel, joins
  <2>2. DumpTypeOK'
    BY <2>1 DEF DumpInv, DumpTypeOK
  <2>3. PhaseInv'
    BY <1>2, <2>1 DEF DumpInv, PhaseInv, Read, Succeeded
  <2>4. CutInv'
    BY <2>1 DEF DumpInv, CutInv
  <2>5. JoinInv'
    BY <1>2, <2>1 DEF DumpInv, JoinInv, Succeeded
  <2>6. CrashNeedsLostMemory'
    BY <1>2 DEF CrashNeedsLostMemory
  <2>7. QED
    BY <2>2, <2>3, <2>4, <2>5, <2>6 DEF DumpInv
<1>3. QED
  BY <1>1, <1>2 DEF finish
LEMMA CoalesceDumpInv ==
    ASSUME DumpInv, coalesce_peers PROVE DumpInv'
<1> DEFINE s == device.peers
           N == Len(s)
           this == s[peer]
           next == s[peer + 1]
<1>1. /\ pc = "coalesce" /\ peer < N
      /\ linked' = (next.ips # <<>>)
      /\ UNCHANGED <<abi, conf, dumped, at, faults, msg, ret>>
      /\ \/ this.key # next.key /\ peer' = peer + 1 /\ UNCHANGED <<pc, device>>
         \/ /\ this.key = next.key
            /\ device' = [device EXCEPT !.peers = Joined(@, peer)] /\ UNCHANGED <<pc, peer>>
         \/ /\ this.key = next.key /\ this.ips # <<>> /\ ~linked
            /\ pc' = "crashed" /\ UNCHANGED <<peer, device>>
  BY DEF coalesce_peers, kernel
<1>2. msg = <<>> /\ at = End(dumped) /\ ~Succeeded
  BY <1>1 DEF DumpInv, PhaseInv, Succeeded
<1>3. /\ dumped \in Confs /\ s \in Seq(Piece) /\ device.attrs \subseteq Attrs \cup {"garbled"}
      /\ device = [attrs |-> device.attrs, peers |-> s]
      /\ s \o msg = s /\ peer \in Nat \ {0}
  BY <1>2, DumpFacts
<1>4. Cut(dumped, faults, s, at)
  BY <1>1, <1>3 DEF DumpInv, CutInv
<1>5. N \in Nat /\ DOMAIN s = 1 .. N
  BY <1>3, LenProperties
<1>6. /\ \A n \in DOMAIN s : n <= peer => n \in DOMAIN dumped.peers /\ s[n].key = dumped.peers[n].key
      /\ "memory" \notin faults /\ s # <<>> => (this.ips # <<>> => linked)
  BY <1>1 DEF DumpInv, JoinInv
<1>7. s # <<>>
  <2>1. N # 0
    BY <1>1, <1>3, <1>5
  <2>2. QED
    BY <2>1
<1> HIDE DEF s, N, this, next
<1>8. peer \in 1 .. N - 1 /\ peer \in DOMAIN s /\ peer + 1 \in DOMAIN s
  BY <1>1, <1>3, <1>5
<1>9. CASE this.key # next.key /\ peer' = peer + 1 /\ UNCHANGED <<pc, device>>
  <2>1. DumpTypeOK'
    BY <1>1, <1>3, <1>9 DEF DumpInv, DumpTypeOK
  <2>2. PhaseInv' /\ CutInv'
    BY <1>1, <1>9 DEF DumpInv, PhaseInv, Read, CutInv, Succeeded
  <2>3. JoinInv'
    <3>1. peer + 1 \in DOMAIN dumped.peers /\ s[peer + 1].key = dumped.peers[peer + 1].key
      BY <1>3, <1>4, <1>6, <1>8, <1>9, NextPeer DEF this, next, N
    <3>2. \A n \in DOMAIN s : n <= peer + 1 =>
             n \in DOMAIN dumped.peers /\ s[n].key = dumped.peers[n].key
      <4>1. \A n \in DOMAIN s : n <= peer + 1 => n <= peer \/ n = peer + 1
        BY <1>3, <1>5
      <4>2. QED
        BY <1>6, <3>1, <4>1
    <3>3. peer + 1 <= N
      BY <1>1, <1>3, <1>5
    <3>4. s[peer + 1].ips # <<>> => linked'
      BY <1>1 DEF next
    <3>5. device'.peers = s /\ pc' = "coalesce"
      BY <1>1, <1>9 DEF s
    <3>6. QED
      BY <1>1, <1>9, <3>2, <3>3, <3>4, <3>5 DEF JoinInv, Succeeded, N
  <2>4. CrashNeedsLostMemory'
    BY <1>1, <1>9 DEF CrashNeedsLostMemory
  <2>5. QED
    BY <2>1, <2>2, <2>3, <2>4 DEF DumpInv
<1>10. CASE /\ this.key = next.key
            /\ device' = [device EXCEPT !.peers = Joined(@, peer)] /\ UNCHANGED <<pc, peer>>
  <2> DEFINE t == Joined(s, peer)
  <2>1. /\ t \in Seq(Piece) /\ Len(t) = N - 1
        /\ \A k \in 1 .. N - 1 : k < peer => t[k] = s[k]
        /\ t[peer].key = this.key
        /\ Cut(dumped, faults, t, at)
        /\ "memory" \notin faults => next.ips # <<>>
    <3>1. s[peer].key = s[peer + 1].key /\ peer \in 1 .. Len(s) - 1
      BY <1>8, <1>10 DEF this, next, N
    <3>2. /\ t \in Seq(Piece) /\ Len(t) = Len(s) - 1
          /\ \A k \in 1 .. Len(s) - 1 : k < peer => t[k] = s[k]
          /\ t[peer].key = s[peer].key
          /\ Cut(dumped, faults, t, at)
          /\ "memory" \notin faults => s[peer + 1].ips # <<>>
      <4> DEFINE c == dumped
                 f == faults
                 n == peer
                 end == at
      <4>1. /\ c \in Confs /\ Cut(c, f, s, end) /\ n \in 1 .. Len(s) - 1
            /\ s[n].key = s[n + 1].key /\ s \in Seq(Piece)
        BY <1>3, <1>4, <3>1
      <4> HIDE DEF c, f, n, end
      <4>2. /\ Joined(s, n) \in Seq(Piece) /\ Len(Joined(s, n)) = Len(s) - 1
            /\ \A k \in 1 .. Len(s) - 1 : k < n => Joined(s, n)[k] = s[k]
            /\ Joined(s, n)[n].key = s[n].key
            /\ Cut(c, f, Joined(s, n), end)
            /\ "memory" \notin f => s[n + 1].ips # <<>>
        BY <4>1, CutJoin
      <4>3. QED
        BY <4>2 DEF c, f, n, end
    <3>3. QED
      BY <3>2 DEF this, next, N
  <2>2. device' = [device EXCEPT !.peers = t]
    BY <1>10 DEF s
  <2> HIDE DEF t
  <2>3. /\ device'.peers = t /\ device'.attrs = device.attrs
        /\ device' \in [attrs : SUBSET (Attrs \cup {"garbled"}), peers : Seq(Piece)]
    BY <1>3, <2>1, <2>2
  <2>4. t \o msg' = t
    BY <1>1, <1>2, <2>1, ConcatEmptySeq
  <2>5. DumpTypeOK'
    BY <1>1, <1>3, <1>10, <2>3 DEF DumpInv, DumpTypeOK
  <2>6. at # <<0, 0>>
    <3>1. at[1] = Len(dumped.peers) + 1
      BY <1>2 DEF End
    <3>2. Len(dumped.peers) \in Nat
      BY <1>3, ConfFacts
    <3>3. at[1] # 0
      BY <3>1, <3>2
    <3>4. QED
      BY <3>3
  <2>7. PhaseInv'
    BY <1>1, <1>2, <1>10, <2>3, <2>6 DEF DumpInv, PhaseInv, Read, Succeeded
  <2>8. CutInv'
    <3>1. Cut(dumped', faults', device'.peers \o msg', at')
      BY <1>1, <2>1, <2>3, <2>4
    <3>2. QED
      BY <3>1 DEF CutInv
  <2>9. JoinInv'
    <3>1. DOMAIN t = 1 .. N - 1
      BY <2>1, LenProperties
    <3>2. ASSUME NEW n \in DOMAIN t, n <= peer
          PROVE  n \in DOMAIN dumped.peers /\ t[n].key = dumped.peers[n].key
      <4>1. n \in DOMAIN s /\ n \in 1 .. N - 1 /\ (n < peer \/ n = peer)
        BY <1>3, <1>5, <3>1, <3>2
      <4>2. t[n].key = s[n].key
        BY <2>1, <4>1 DEF this
      <4>3. QED
        BY <1>6, <3>2, <4>1, <4>2
    <3>3. peer <= Len(t)
      BY <1>8, <2>1
    <3>4. "memory" \notin faults => linked'
      BY <1>1, <2>1
    <3>5. pc' = "coalesce" /\ peer' = peer /\ faults' = faults /\ dumped' = dumped
      BY <1>1, <1>10
    <3>6. QED
      BY <2>3, <3>2, <3>3, <3>4, <3>5 DEF JoinInv, Succeeded
  <2>10. CrashNeedsLostMemory'
    BY <1>1, <1>10 DEF CrashNeedsLostMemory
  <2>11. QED
    BY <2>5, <2>7, <2>8, <2>9, <2>10 DEF DumpInv
<1>11. CASE /\ this.key = next.key /\ this.ips # <<>> /\ ~linked
            /\ pc' = "crashed" /\ UNCHANGED <<peer, device>>
  <2>1. DumpTypeOK'
    BY <1>1, <1>11 DEF DumpInv, DumpTypeOK
  <2>2. PhaseInv' /\ CutInv'
    BY <1>1, <1>2, <1>11 DEF DumpInv, PhaseInv, Read, CutInv, Succeeded
  <2>3. JoinInv'
    BY <1>11 DEF JoinInv, Succeeded
  <2>4. CrashNeedsLostMemory'
    BY <1>1, <1>6, <1>7, <1>11 DEF CrashNeedsLostMemory
  <2>5. QED
    BY <2>1, <2>2, <2>3, <2>4 DEF DumpInv
<1>12. QED
  BY <1>1, <1>9, <1>10, <1>11

-----------------------------------------------------------------------------
(* The theorems.                                                           *)

\* At every moment of a call the pieces parsed so far cut the configuration the dump
\* began with, without a gap or an overlap, up to where the dump stands; those that
\* coalesce_peers has passed are its first peers.
THEOREM DumpInvariance == Spec => []DumpInv
<1>1. Init => DumpInv
  BY InitDumpInv
<1>2. DumpInv /\ [Next]_vars => DumpInv'
  <2> SUFFICES ASSUME DumpInv, [Next]_vars PROVE DumpInv'
    OBVIOUS
  <2>1. CASE open
    BY <2>1, OpenDumpInv
  <2>2. CASE read_device_cb
    BY <2>2, MessageDumpInv
  <2>3. CASE cb_run_interrupted
    BY <2>3, TryAgainDumpInv DEF cb_run_interrupted
  <2>4. CASE mnlg_cb_stop
    BY <2>4, StopDumpInv
  <2>5. CASE mnlg_cb_error
    BY <2>5, FailDumpInv DEF mnlg_cb_error
  <2>6. CASE parse_peers
    BY <2>6, ParseDumpInv
  <2>7. CASE message_parsed
    BY <2>7, ParsedDumpInv
  <2>8. CASE coalesce_peers
    BY <2>8, CoalesceDumpInv
  <2>9. CASE finish
    BY <2>9, FinishDumpInv
  <2>10. CASE Reconfigure
    BY <2>10, ReconfigureDumpInv
  <2>11. CASE UNCHANGED vars
    BY <2>11 DEF vars, kernel, joins, DumpInv, DumpTypeOK, PhaseInv, Read, CutInv, JoinInv, Succeeded,
       CrashNeedsLostMemory
  <2>12. QED
    BY <2>1, <2>2, <2>3, <2>4, <2>5, <2>6, <2>7, <2>8, <2>9, <2>10, <2>11 DEF Next, Call
<1>3. QED
  BY <1>1, <1>2, PTL DEF Spec

\* Pieces that satisfy KeptIn, one after another, one less, or one more.
LEMMA KeptInNothing ==
    ASSUME NEW c, NEW known PROVE KeptIn(c, <<>>, known)
<1>1. DOMAIN <<>> = {}
  OBVIOUS
<1>2. QED
  BY <1>1 DEF KeptIn

LEMMA KeptInTail ==
    ASSUME NEW c, NEW known, NEW s \in Seq(Piece), s # <<>>, KeptIn(c, s, known)
    PROVE  KeptIn(c, Tail(s), known)
<1>1. /\ Tail(s) \in Seq(Piece) /\ Len(Tail(s)) = Len(s) - 1
      /\ \A i \in 1 .. Len(Tail(s)) : Tail(s)[i] = s[i + 1]
  BY HeadTailProperties
<1>2. Len(s) \in Nat /\ DOMAIN s = 1 .. Len(s) /\ DOMAIN Tail(s) = 1 .. Len(Tail(s))
  BY <1>1, LenProperties
<1>3. ASSUME NEW i \in DOMAIN Tail(s) PROVE i + 1 \in DOMAIN s /\ Tail(s)[i] = s[i + 1]
  BY <1>1, <1>2
<1>4. QED
  BY <1>3 DEF KeptIn

LEMMA KeptInAppend ==
    ASSUME NEW c, NEW known \in BOOLEAN, NEW s \in Seq(Piece), KeptIn(c, s, known),
           NEW p \in Piece, NEW q \in Piece,
           p.keepalive = (p.attrs /\ HasKeepalive(c, p.key)),
           q.key = p.key, q.attrs = p.attrs, q.keepalive = (p.keepalive /\ known)
    PROVE  KeptIn(c, Append(s, q), known)
<1>1. /\ Append(s, q) \in Seq(Piece) /\ Len(Append(s, q)) = Len(s) + 1
      /\ \A i \in 1 .. Len(s) : Append(s, q)[i] = s[i]
      /\ Append(s, q)[Len(s) + 1] = q
  BY AppendProperties
<1>2. Len(s) \in Nat /\ DOMAIN s = 1 .. Len(s) /\ DOMAIN Append(s, q) = 1 .. Len(s) + 1
  BY <1>1, LenProperties
<1>3. q.keepalive = (q.attrs /\ HasKeepalive(c, q.key) /\ known)
  OBVIOUS
<1>4. ASSUME NEW i \in DOMAIN Append(s, q)
      PROVE  (i \in DOMAIN s /\ Append(s, q)[i] = s[i]) \/ Append(s, q)[i] = q
  BY <1>1, <1>2
<1>5. QED
  BY <1>3, <1>4 DEF KeptIn

LEMMA KeptInJoined ==
    ASSUME NEW c, NEW known, NEW s \in Seq(Piece), KeptIn(c, s, known), NEW n \in 1 .. Len(s) - 1
    PROVE  KeptIn(c, Joined(s, n), known)
<1> DEFINE t == Joined(s, n)
<1>1. Len(s) \in Nat /\ DOMAIN s = 1 .. Len(s) /\ \A k \in 1 .. Len(s) : s[k] \in Piece
  BY LenProperties, ElementOfSeq
<1>2. DOMAIN t = 1 .. Len(s) - 1
  BY DEF Joined
<1>3. ASSUME NEW k \in DOMAIN t
      PROVE  \E i \in DOMAIN s : /\ t[k].keepalive = s[i].keepalive
                                 /\ t[k].attrs = s[i].attrs /\ t[k].key = s[i].key
  <2>1. k \in 1 .. Len(s) - 1 /\ k \in DOMAIN s /\ k + 1 \in DOMAIN s
    BY <1>1, <1>2
  <2>2. t[k] = IF k < n THEN s[k]
               ELSE IF k = n THEN [s[k] EXCEPT !.ips = @ \o s[k + 1].ips] ELSE s[k + 1]
    BY <2>1 DEF Joined
  <2>3. CASE k = n
    <3> DEFINE all == s[k].ips \o s[k + 1].ips
    <3>1. t[k] = [s[k] EXCEPT !.ips = all]
      BY <1>1, <2>1, <2>2, <2>3
    <3> HIDE DEF all, t
    <3>2. s[k] \in Piece
      BY <1>1, <2>1
    <3>3. t[k].keepalive = s[k].keepalive /\ t[k].attrs = s[k].attrs /\ t[k].key = s[k].key
      BY <3>1, <3>2 DEF Piece
    <3>4. QED
      BY <2>1, <3>3
  <2>4. CASE k # n
    <3>1. t[k] = s[k] \/ t[k] = s[k + 1]
      BY <2>2, <2>4
    <3>2. QED
      BY <2>1, <3>1
  <2>5. QED
    BY <2>3, <2>4
<1> HIDE DEF t
<1>4. KeptIn(c, t, known)
  BY <1>3 DEF KeptIn
<1>5. QED
  BY <1>4 DEF t

\* Keys are unique, so that a peer is told by its key.
LEMMA KeepaliveOfKey ==
    ASSUME NEW c \in Confs, NEW p \in DOMAIN c.peers
    PROVE  c.peers[p].keepalive = HasKeepalive(c, c.peers[p].key)
<1>1. /\ c.peers[p].keepalive \in BOOLEAN
      /\ \A q \in DOMAIN c.peers : c.peers[q].key = c.peers[p].key => q = p
  BY ConfFacts
<1>2. HasKeepalive(c, c.peers[p].key) <=> c.peers[p].keepalive
  BY <1>1 DEF HasKeepalive
<1>3. HasKeepalive(c, c.peers[p].key) \in BOOLEAN
  BY DEF HasKeepalive
<1>4. QED
  BY <1>1, <1>2, <1>3

\* What the kernel sends of a peer that it starts has the peer's keepalive.
LEMMA PiecesKept ==
    ASSUME NEW c \in Confs, NEW from \in {<<0, 0>>} \cup Cursors(c), NEW to \in Cursors(c)
    PROVE  KeptIn(c, Pieces(c, from, to), TRUE)
<1> DEFINE N == Len(c.peers)
           first == IF from[1] = 0 THEN 1 ELSE from[1]
           last  == IF to[2] = 0 THEN to[1] - 1 ELSE to[1]
           resumed(p) == p = from[1] /\ from[2] # 0
           ips(p) == SubSeq(c.peers[p].ips, IF resumed(p) THEN from[2] ELSE 1,
                            IF p = to[1] THEN to[2] - 1 ELSE Len(c.peers[p].ips))
           Part(p) == [key |-> c.peers[p].key, attrs |-> ~resumed(p),
                       keepalive |-> ~resumed(p) /\ c.peers[p].keepalive, ips |-> ips(p)]
           m == last - first + 1
           t == Pieces(c, from, to)
<1>1. t = [n \in 1 .. m |-> Part(first + n - 1)]
  BY DEF Pieces
<1>2. N \in Nat /\ DOMAIN c.peers = 1 .. N
  BY ConfFacts
<1>3. first \in Nat \ {0}
  <2>1. CASE from = <<0, 0>>
    BY <2>1
  <2>2. CASE from \in Cursors(c)
    <3>1. from[1] \in 1 .. N + 1
      BY <2>2, CursorFacts
    <3>2. QED
      BY <1>2, <3>1
  <2>3. QED
    BY <2>1, <2>2
<1>4. last \in 0 .. N
  <2>1. to[1] \in 1 .. N + 1 /\ (to[1] = N + 1 => to[2] = 0)
    BY CursorFacts
  <2> HIDE DEF N
  <2>2. QED
    BY <1>2, <2>1
<1>5. \A p : Part(p).key = c.peers[p].key /\ Part(p).attrs = ~resumed(p)
             /\ Part(p).keepalive = (~resumed(p) /\ c.peers[p].keepalive)
  OBVIOUS
<1>6. \A p : resumed(p) \in BOOLEAN
  OBVIOUS
<1> HIDE DEF N, Part, resumed, first, last, t
<1>7. ASSUME NEW n \in DOMAIN t
      PROVE  \E p \in DOMAIN c.peers : t[n] = Part(p)
  <2>1. n \in 1 .. m /\ t[n] = Part(first + n - 1)
    BY <1>1
  <2>2. first + n - 1 \in 1 .. N
    BY <1>2, <1>3, <1>4, <2>1
  <2>3. QED
    BY <1>2, <2>1, <2>2
<1>8. ASSUME NEW n \in DOMAIN t
      PROVE  t[n].keepalive = (t[n].attrs /\ HasKeepalive(c, t[n].key) /\ TRUE)
  <2>1. PICK p \in DOMAIN c.peers : t[n] = Part(p)
    BY <1>7
  <2>2. c.peers[p].keepalive = HasKeepalive(c, c.peers[p].key)
    BY KeepaliveOfKey
  <2>3. /\ t[n].key = c.peers[p].key /\ t[n].attrs = ~resumed(p)
        /\ t[n].keepalive = (~resumed(p) /\ c.peers[p].keepalive)
    BY <1>5, <2>1
  <2>4. t[n].keepalive = (t[n].attrs /\ HasKeepalive(c, t[n].key))
    BY <2>2, <2>3
  <2>5. QED
    BY <2>4
<1>9. KeptIn(c, t, TRUE)
  BY <1>8 DEF KeptIn
<1>10. QED
  BY <1>9 DEF t

\* Of a configuration, what is sent and what is stored tell of a keepalive only where the
\* kernel has one, and of all of them unless the ABI is the current one.
LEMMA KeepaliveInvariance == Spec => []KeepaliveInv
<1>1. Init => KeepaliveInv
  <2> SUFFICES ASSUME Init PROVE KeepaliveInv
    OBVIOUS
  <2>1. msg = <<>> /\ device.peers = <<>>
    BY DEF Init, NoDevice
  <2>2. KeptIn(dumped, msg, TRUE) /\ KeptIn(dumped, device.peers, abi = "legacy")
    BY <2>1, KeptInNothing
  <2>3. QED
    BY <2>2 DEF KeepaliveInv
<1>2. DumpInv /\ KeepaliveInv /\ [Next]_vars => KeepaliveInv'
  <2> SUFFICES ASSUME DumpInv, KeepaliveInv, [Next]_vars PROVE KeepaliveInv'
    OBVIOUS
  <2>0. /\ dumped \in Confs /\ at \in {<<0, 0>>} \cup Cursors(dumped)
        /\ msg \in Seq(Piece) /\ device.peers \in Seq(Piece)
        /\ device = [attrs |-> device.attrs, peers |-> device.peers]
    BY DumpFacts
  <2>1. CASE UNCHANGED <<abi, dumped, msg, device>>
    BY <2>1 DEF KeepaliveInv
  <2>2. CASE msg' = <<>> /\ device' = NoDevice
    <3>1. device'.peers = <<>>
      BY <2>2 DEF NoDevice
    <3>2. KeptIn(dumped', msg', TRUE) /\ KeptIn(dumped', device'.peers, abi' = "legacy")
      BY <2>2, <3>1, KeptInNothing
    <3>3. QED
      BY <3>2 DEF KeepaliveInv
  <2>3. CASE read_device_cb
    <3>1. PICK to \in Cursors(dumped) : Earlier(at, to) /\ msg' = Pieces(dumped, at, to)
      BY <2>3 DEF read_device_cb
    <3>2. UNCHANGED <<abi, dumped>> /\ device'.peers = device.peers
      BY <2>0, <2>3 DEF read_device_cb, parse_device
    <3>3. KeptIn(dumped, Pieces(dumped, at, to), TRUE)
      BY <2>0, <3>1, PiecesKept
    <3>4. QED
      BY <3>1, <3>2, <3>3 DEF KeepaliveInv
  <2>4. CASE parse_peers
    <3>1. CASE Fail("error")
      BY <2>2, <3>1 DEF Fail
    <3>2. CASE /\ \E kept \in parse_allowedips(Head(msg).ips) :
                     device' = [device EXCEPT !.peers = Append(@, Stored(Head(msg), kept))]
               /\ msg' = Tail(msg) /\ UNCHANGED <<kernel, pc, joins, ret>>
      <4>1. PICK kept \in parse_allowedips(Head(msg).ips) :
               device' = [device EXCEPT !.peers = Append(@, Stored(Head(msg), kept))]
        BY <3>2
      <4>2. msg # <<>> /\ msg' = Tail(msg) /\ UNCHANGED <<abi, dumped>>
        BY <2>4, <3>2 DEF parse_peers, kernel
      <4> DEFINE p == Head(msg)
                 q == Stored(p, kept)
                 known == abi = "legacy"
      <4>3. p \in Piece /\ p = msg[1] /\ 1 \in DOMAIN msg
        BY <2>0, <4>2, HeadTailProperties, EmptySeq, LenProperties
      <4>4. kept \in Seq(Addresses \cup {Bad})
        <5>1. p.ips \in Seq(Addresses \cup {Bad})
          BY <4>3 DEF Piece
        <5>2. QED
          BY <5>1, KeptFacts
      <4>5. p.keepalive = (p.attrs /\ HasKeepalive(dumped, p.key))
        BY <4>3 DEF KeepaliveInv, KeptIn
      <4> HIDE DEF p
      <4>6. /\ q \in Piece /\ q.key = p.key /\ q.attrs = p.attrs
            /\ q.keepalive = (p.keepalive /\ known)
        BY <4>3, <4>4 DEF Piece, Stored
      <4> HIDE DEF q, known
      <4>7. KeptIn(dumped, device.peers, known) /\ known \in BOOLEAN
        BY DEF KeepaliveInv, known
      <4>8. KeptIn(dumped, Append(device.peers, q), known)
        BY <2>0, <4>3, <4>5, <4>6, <4>7, KeptInAppend
      <4>9. device'.peers = Append(device.peers, q)
        BY <2>0, <4>1 DEF q, p
      <4>10. KeptIn(dumped, Tail(msg), TRUE)
        BY <2>0, <4>2, KeptInTail DEF KeepaliveInv
      <4>11. QED
        BY <4>2, <4>8, <4>9, <4>10 DEF KeepaliveInv, known
    <3>3. QED
      BY <2>4, <3>1, <3>2 DEF parse_peers
  <2>5. CASE coalesce_peers
    <3>1. UNCHANGED <<abi, dumped, msg>> /\ peer < Len(device.peers) /\ peer \in Nat \ {0}
          /\ Len(device.peers) \in Nat
      BY <2>0, <2>5, LenProperties DEF coalesce_peers, kernel, DumpInv, DumpTypeOK
    <3>2. device' = device \/ device' = [device EXCEPT !.peers = Joined(@, peer)]
      BY <2>5 DEF coalesce_peers
    <3>3. CASE device' = [device EXCEPT !.peers = Joined(@, peer)]
      <4>1. device'.peers = Joined(device.peers, peer) /\ peer \in 1 .. Len(device.peers) - 1
        BY <2>0, <3>1, <3>3
      <4> DEFINE known == abi = "legacy"
      <4>2. KeptIn(dumped, device.peers, known)
        BY DEF KeepaliveInv
      <4> HIDE DEF known
      <4>3. KeptIn(dumped, Joined(device.peers, peer), known)
        BY <2>0, <4>1, <4>2, KeptInJoined
      <4>4. QED
        BY <3>1, <4>1, <4>3 DEF KeepaliveInv, known
    <3>4. QED
      BY <2>1, <3>1, <3>2, <3>3
  <2>6. CASE Reconfigure
    <3>1. CASE at = <<0, 0>>
      BY <2>2, <2>6, <3>1 DEF Reconfigure, DumpInv, PhaseInv
    <3>2. CASE at # <<0, 0>>
      BY <2>1, <2>6, <3>2 DEF Reconfigure
    <3>3. QED
      BY <3>1, <3>2
  <2>7. CASE open \/ mnlg_cb_error
    BY <2>1, <2>2, <2>7 DEF open, mnlg_cb_error, Fail, kernel
  <2>8. CASE cb_run_interrupted \/ finish
    BY <2>1, <2>2, <2>8 DEF cb_run_interrupted, finish, TryAgain, kernel
  <2>9. CASE mnlg_cb_stop \/ message_parsed \/ UNCHANGED vars
    BY <2>1, <2>9 DEF mnlg_cb_stop, message_parsed, vars, kernel
  <2>10. QED
    BY <2>3, <2>4, <2>5, <2>6, <2>7, <2>8, <2>9 DEF Next, Call
<1>3. QED
  BY <1>1, <1>2, DumpInvariance, PTL DEF Spec

\* A call that succeeds has every peer, under its key and with its own attributes, and
\* without a loss all AllowedIPs of it.
LEMMA SuccessFacts ==
    ASSUME DumpInv, KeepaliveInv, Succeeded
    PROVE  /\ "memory" \notin faults => device.attrs = Read(dumped.attrs)
           /\ dumped \in Confs /\ device.peers \in Seq(Piece)
           /\ Len(device.peers) = Len(dumped.peers)
           /\ \A n \in DOMAIN device.peers :
                 /\ n \in DOMAIN dumped.peers /\ device.peers[n].key = dumped.peers[n].key
                 /\ device.peers[n].attrs = TRUE
                 /\ device.peers[n].keepalive = (dumped.peers[n].keepalive /\ abi = "legacy")
                 /\ Range(device.peers[n].ips) \subseteq Range(dumped.peers[n].ips)
                 /\ Legible(dumped) /\ "memory" \notin faults =>
                       device.peers[n].ips = dumped.peers[n].ips
<1>1. pc = "out" /\ ret = "0" /\ msg = <<>> /\ at = End(dumped)
  BY DEF Succeeded, DumpInv, PhaseInv
<1>2. dumped \in Confs /\ device.peers \in Seq(Piece) /\ device.peers \o msg = device.peers
      /\ peer \in Nat \ {0}
  BY <1>1, DumpFacts
<1>3. Cut(dumped, faults, device.peers, End(dumped))
  BY <1>1, <1>2 DEF DumpInv, CutInv
<1>4. \A n \in DOMAIN device.peers :
         n \in DOMAIN dumped.peers /\ device.peers[n].key = dumped.peers[n].key
  <2>1. Len(device.peers) \in Nat /\ DOMAIN device.peers = 1 .. Len(device.peers)
    BY <1>2, LenProperties
  <2>2. peer >= Len(device.peers)
    BY DEF DumpInv, JoinInv
  <2>3. \A n \in DOMAIN device.peers : n <= peer
    BY <1>2, <2>1, <2>2
  <2>4. QED
    BY <2>3 DEF DumpInv, JoinInv
<1>5. "memory" \notin faults => device.attrs = Read(dumped.attrs)
  <2>1. at[1] = Len(dumped.peers) + 1
    BY <1>1 DEF End
  <2>2. Len(dumped.peers) \in Nat
    BY <1>2, ConfFacts
  <2>3. at[1] # 0
    BY <2>1, <2>2
  <2>4. at # <<0, 0>>
    BY <2>3
  <2>5. QED
    BY <1>1, <2>4 DEF DumpInv, PhaseInv
<1> DEFINE s == device.peers
           c == dumped
<1>6. /\ c \in Confs /\ s \in Seq(Piece) /\ Cut(c, faults, s, End(c))
      /\ \A n \in DOMAIN s : n \in DOMAIN c.peers /\ s[n].key = c.peers[n].key
  BY <1>2, <1>3, <1>4
<1> HIDE DEF s, c
<1>7. /\ Len(s) = Len(c.peers)
      /\ \A n \in DOMAIN s :
            /\ s[n].attrs = TRUE
            /\ Range(s[n].ips) \subseteq Range(c.peers[n].ips)
            /\ Legible(c) /\ "memory" \notin faults => s[n].ips = c.peers[n].ips
  BY <1>6, WholePeers
<1>8. ASSUME NEW n \in DOMAIN device.peers
      PROVE  device.peers[n].keepalive = (dumped.peers[n].keepalive /\ abi = "legacy")
  <2>1. n \in DOMAIN dumped.peers /\ device.peers[n].key = dumped.peers[n].key
    BY <1>4
  <2>2. device.peers[n].attrs = TRUE
    BY <1>7 DEF s
  <2>3. dumped.peers[n].keepalive = HasKeepalive(dumped, dumped.peers[n].key)
    BY <1>2, <2>1, KeepaliveOfKey
  <2>4. device.peers[n].keepalive =
           (device.peers[n].attrs /\ HasKeepalive(dumped, device.peers[n].key) /\ abi = "legacy")
    BY DEF KeepaliveInv, KeptIn
  <2>5. QED
    BY <2>1, <2>2, <2>3, <2>4
<1>9. QED
  BY <1>5, <1>6, <1>7, <1>8 DEF s, c

\* A call that succeeds without a loss returns what the configuration its dump began
\* with was, whatever the kernel cut it into and whatever was changed meanwhile: all of
\* it on a legacy kernel, on a current one all but the keepalives, the magic headers and
\* the 3.1 parameters.
THEOREM SuccessReturnsSnapshot == Spec => []SuccessIsSnapshot
<1>1. DumpInv /\ KeepaliveInv => SuccessIsSnapshot
  <2> SUFFICES ASSUME DumpInv, KeepaliveInv, Succeeded, Legible(dumped), "memory" \notin faults
               PROVE  /\ device.attrs \ {"garbled"} = dumped.attrs \ Unread
                      /\ "garbled" \in device.attrs <=> abi = "current" /\ "narrow" \in dumped.attrs
                      /\ device.peers = [p \in DOMAIN dumped.peers |->
                             [key |-> dumped.peers[p].key, attrs |-> TRUE,
                              keepalive |-> dumped.peers[p].keepalive /\ abi = "legacy",
                              ips |-> dumped.peers[p].ips]]
    BY DEF SuccessIsSnapshot
  <2> DEFINE s == device.peers
             c == dumped.peers
             kept(n) == c[n].keepalive /\ abi = "legacy"
  <2>1. /\ device.attrs = Read(dumped.attrs) /\ dumped \in Confs
        /\ s \in Seq(Piece) /\ Len(s) = Len(c)
        /\ \A n \in DOMAIN s : /\ s[n].key = c[n].key /\ s[n].attrs = TRUE /\ s[n].ips = c[n].ips
                               /\ s[n].keepalive = kept(n)
    BY SuccessFacts
  <2>2. dumped.attrs \subseteq Attrs /\ DOMAIN c = 1 .. Len(c)
    BY <2>1, ConfFacts
  <2>3. DOMAIN s = 1 .. Len(s) /\ s = [n \in DOMAIN s |-> s[n]] /\ \A n \in DOMAIN s : s[n] \in Piece
    BY <2>1, LenProperties, ElementOfSeq
  <2> HIDE DEF s, c, kept
  <2>4. ASSUME NEW n \in DOMAIN s
        PROVE  s[n] = [key |-> c[n].key, attrs |-> TRUE, keepalive |-> kept(n), ips |-> c[n].ips]
    <3> DEFINE p == s[n]
    <3>1. p \in Piece /\ p.key = c[n].key /\ p.attrs = TRUE /\ p.ips = c[n].ips
          /\ p.keepalive = kept(n)
      BY <2>1, <2>3
    <3> HIDE DEF p
    <3>2. p = [key |-> p.key, attrs |-> p.attrs, keepalive |-> p.keepalive, ips |-> p.ips]
      BY <3>1 DEF Piece
    <3>3. p = [key |-> c[n].key, attrs |-> TRUE, keepalive |-> kept(n), ips |-> c[n].ips]
      BY <3>1, <3>2
    <3>4. QED
      BY <3>3 DEF p
  <2>5. s = [n \in DOMAIN c |->
               [key |-> c[n].key, attrs |-> TRUE, keepalive |-> kept(n), ips |-> c[n].ips]]
    BY <2>1, <2>2, <2>3, <2>4
  <2>6. abi \in {"current", "legacy"}
    BY DEF DumpInv, DumpTypeOK
  <2>7. device.attrs \ {"garbled"} = dumped.attrs \ Unread
    BY <2>1, <2>2, <2>6 DEF Read, Unread, Attrs
  <2>8. "garbled" \in device.attrs <=> abi = "current" /\ "narrow" \in dumped.attrs
    BY <2>1, <2>2, <2>6 DEF Read, Attrs
  <2>9. QED
    BY <2>5, <2>7, <2>8 DEF s, c, kept
<1>2. QED
  BY <1>1, DumpInvariance, KeepaliveInvariance, PTL

\* An AllowedIP that cannot be parsed or stored costs no other peer anything.
THEOREM LossesStayInTheirPeer == Spec => []LossStaysInPeer
<1>1. DumpInv /\ KeepaliveInv => LossStaysInPeer
  <2> SUFFICES ASSUME DumpInv, KeepaliveInv, Succeeded
               PROVE  /\ Len(device.peers) = Len(dumped.peers)
                      /\ \A p \in DOMAIN device.peers :
                            /\ device.peers[p].key = dumped.peers[p].key
                            /\ device.peers[p].attrs
                            /\ device.peers[p].keepalive = (dumped.peers[p].keepalive /\ abi = "legacy")
                            /\ Range(device.peers[p].ips) \subseteq Range(dumped.peers[p].ips)
    BY DEF LossStaysInPeer
  <2>1. QED
    BY SuccessFacts
<1>2. QED
  BY <1>1, DumpInvariance, KeepaliveInvariance, PTL

\* coalesce_peers stores through NULL only if memory ran out while the dump was parsed.
THEOREM CoalescingIsSafe == Spec => []CrashNeedsLostMemory
<1>1. DumpInv => CrashNeedsLostMemory
  BY DEF DumpInv
<1>2. QED
  BY <1>1, DumpInvariance, PTL
=============================================================================
