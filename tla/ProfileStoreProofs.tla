------------------------- MODULE ProfileStoreProofs -------------------------
(***************************************************************************)
(* Proofs about ProfileStore, for any number of peers and any profile.     *)
(***************************************************************************)
EXTENDS ProfileStore, FiniteSetTheorems, SequenceTheorems, TLAPS

-----------------------------------------------------------------------------
(* What the operators do to item 0, the interface's own.                   *)

\* The item of the interface exists however many peers there are.
LEMMA ZeroIsAnItem == 0 \in Items
BY ProfileAssumption DEF Items

\* The savers: the interface's flags and key, next to whatever the peers have.
LEMMA SaveFacts ==
    ASSUME NEW e
    PROVE  LET c == save_interface_to_connection(e) IN
           /\ DOMAIN c = DOMAIN Empty
           /\ c.flags[0] = e.flags
           /\ c.secrets[0] = IF e.flags \in {"notrequired", "notsaved"} THEN None
                             ELSE IF e.private_key # None THEN e.private_key
                             ELSE IF e.private_key_changed THEN None ELSE e.connection.secrets[0]
BY ZeroIsAnItem DEF save_interface_to_connection, PeerItems, Empty

\* What import writes is a connection.
LEMMA ImportFacts ==
    ASSUME NEW peers, NEW rest, NEW own
    PROVE  DOMAIN awg_device_save_to_nm_connection(peers, rest, own) = DOMAIN Empty
BY DEF awg_device_save_to_nm_connection, PeerItems, Empty

\* What nmcli writes is a connection.
LEMMA HandWrittenFacts ==
    ASSUME NEW c \in HandWritten
    PROVE  DOMAIN c = DOMAIN Empty
<1>1. c \in Connection
  BY ProfileAssumption
<1>2. QED
  BY <1>1 DEF Connection, Empty

\* What the editor is handed.
LEMMA WithAgentFacts ==
    ASSUME NEW c, DOMAIN c = DOMAIN Empty
    PROVE  /\ DOMAIN WithAgent(c) = DOMAIN Empty
           /\ WithAgent(c).secrets[0] =
                 IF c.flags[0] = "agent" /\ c.secrets[0] = None THEN agent[0] ELSE c.secrets[0]
BY ZeroIsAnItem DEF WithAgent, Empty

\* NetworkManager: the profile is what it was given, but for the secrets.
LEMMA UpdateFacts ==
    ASSUME NEW c, DOMAIN c = DOMAIN Empty, Update(c)
    PROVE  /\ DOMAIN store' = DOMAIN Empty
           /\ store'.flags[0] = c.flags[0]
           /\ c.flags[0] \in {"agent", "notsaved"} => store'.secrets[0] = None
           /\ c.flags[0] \notin {"agent", "notsaved"} =>
                 \/ store'.secrets[0] = c.secrets[0]
                 \/ ~Carries(c) /\ store # NoProfile /\ store'.secrets[0] = store.secrets[0]
           /\ c.flags[0] = "agent" =>
                 \/ agent'[0] = c.secrets[0]
                 \/ ~Carries(c) /\ store # NoProfile /\ agent' = agent
           /\ Carries(c) => /\ c.flags[0] \notin {"agent", "notsaved"} => store'.secrets[0] = c.secrets[0]
                            /\ c.flags[0] = "agent" => agent'[0] = c.secrets[0]
BY ZeroIsAnItem DEF Update, StoredSecrets, AgentSecrets, Empty

-----------------------------------------------------------------------------
(* The invariant.                                                          *)

\* At first there is neither a profile nor an editor.
LEMMA InitKey == Init => ShapeInv /\ KeyInv
BY DEF Init, ShapeInv, KeyInv

\* What an open editor holds.
EditorFields == {"connection", "device", "rest", "private_key", "flags",
                 "private_key_changed", "edits", "stored", "shown"}

\* A change of the editor keeps its private key and flags, and puts no other key
\* into the connection it works on.
LEMMA ChangedFacts ==
    ASSUME NEW e, DOMAIN e = EditorFields, DOMAIN e.connection = DOMAIN Empty, Changed(e)
    PROVE  /\ DOMAIN editor' = EditorFields
           /\ DOMAIN editor'.connection = DOMAIN Empty
           /\ editor'.private_key = e.private_key /\ editor'.flags = e.flags
           /\ editor'.private_key_changed = e.private_key_changed /\ editor'.shown = e.shown
           /\ \/ editor'.connection = e.connection
              \/ editor'.connection.secrets[0] \in {None, e.private_key}
              \/ editor'.connection.secrets[0] = e.connection.secrets[0]
<1>1. editor' = [e EXCEPT !.edits = @ + 1,
                          !.connection = IF check_validity(e)
                                         THEN save_interface_to_connection(e) ELSE @]
  BY DEF Changed
<1>2. /\ DOMAIN editor' = EditorFields
      /\ editor'.private_key = e.private_key /\ editor'.flags = e.flags
      /\ editor'.private_key_changed = e.private_key_changed /\ editor'.shown = e.shown
      /\ editor'.connection = IF check_validity(e) THEN save_interface_to_connection(e) ELSE e.connection
  BY <1>1 DEF EditorFields
<1>3. QED
  BY <1>2, SaveFacts

\* An edit that leaves the key alone leaves what is known of it alone.
LEMMA EditStep ==
    ASSUME ShapeInv, KeyInv, Edit
    PROVE  ShapeInv' /\ KeyInv'
<1>1. editor # NoEditor /\ UNCHANGED <<store, agent>>
  BY DEF Edit
<1>2. DOMAIN editor = EditorFields /\ DOMAIN editor.connection = DOMAIN Empty
  BY <1>1 DEF ShapeInv, EditorFields
<1>3. ASSUME NEW e, Changed(e), DOMAIN e = EditorFields, e.connection = editor.connection,
             e.shown = editor.shown, e.flags # "notrequired",
             ~e.private_key_changed => ~editor.private_key_changed /\ e.private_key = editor.private_key
      PROVE  ShapeInv' /\ KeyInv'
  <2>1. /\ DOMAIN editor' = EditorFields
        /\ DOMAIN editor'.connection = DOMAIN Empty
        /\ editor'.private_key = e.private_key /\ editor'.flags = e.flags
        /\ editor'.private_key_changed = e.private_key_changed /\ editor'.shown = e.shown
        /\ \/ editor'.connection = e.connection
           \/ editor'.connection.secrets[0] \in {None, e.private_key}
           \/ editor'.connection.secrets[0] = e.connection.secrets[0]
    BY <1>2, <1>3, ChangedFacts
  <2>2. ShapeInv'
    BY <1>1, <2>1 DEF ShapeInv, EditorFields, Empty
  <2>3. (store # NoProfile /\ store.flags[0] \in {"agent", "notsaved"} => store.secrets[0] = None)'
    BY <1>1 DEF KeyInv
  <2>4. editor'.flags # "notrequired"
    BY <2>1, <1>3
  <2>5. ASSUME store' # NoProfile, editor'.shown, ~editor'.private_key_changed
        PROVE  /\ editor'.private_key = WithAgent(store)'.secrets[0]
               /\ editor'.connection.secrets[0] \in {editor'.private_key, None}
    <3>1. /\ editor.private_key = WithAgent(store).secrets[0]
          /\ editor.connection.secrets[0] \in {editor.private_key, None}
          /\ e.private_key = editor.private_key
      BY <1>1, <1>3, <2>1, <2>5 DEF KeyInv
    <3>2. WithAgent(store)' = WithAgent(store)
      BY <1>1 DEF WithAgent
    <3>3. QED
      BY <1>3, <2>1, <3>1, <3>2
  <2>6. QED
    BY <2>2, <2>3, <2>4, <2>5 DEF KeyInv
<1>4. CASE EditInterface
  <2>1. PICK key \in KeyTexts \cup {None}, flags \in Flags \ {"notrequired"},
             rest \in OfferedInterfaces \cup {editor.rest} :
          Changed([editor EXCEPT !.private_key = key, !.flags = flags, !.rest = rest,
                                 !.private_key_changed = @ \/ key # editor.private_key])
    BY <1>4 DEF EditInterface
  <2> DEFINE e == [editor EXCEPT !.private_key = key, !.flags = flags, !.rest = rest,
                                 !.private_key_changed = @ \/ key # editor.private_key]
  <2>2. /\ DOMAIN e = EditorFields /\ e.connection = editor.connection /\ e.shown = editor.shown
        /\ e.flags # "notrequired" /\ e.private_key = key
        /\ e.private_key_changed = (editor.private_key_changed \/ key # editor.private_key)
    BY <1>2 DEF EditorFields
  <2>3. Changed(e)
    BY <2>1
  <2>4. QED
    BY <1>3, <2>2, <2>3
<1>5. ASSUME NEW device, Changed([editor EXCEPT !.device = device]) PROVE ShapeInv' /\ KeyInv'
  <2> DEFINE e == [editor EXCEPT !.device = device]
  <2>1. /\ DOMAIN e = EditorFields /\ e.connection = editor.connection /\ e.shown = editor.shown
        /\ e.flags = editor.flags /\ e.private_key = editor.private_key
        /\ e.private_key_changed = editor.private_key_changed
    BY <1>2 DEF EditorFields
  <2>2. e.flags # "notrequired"
    BY <1>1, <2>1 DEF KeyInv
  <2>3. QED
    BY <1>3, <1>5, <2>1, <2>2
<1>6. CASE peer_dialog_response
  <2>1. PICK p \in Offered :
          \/ Changed([editor EXCEPT !.device = IF awg_device_peer_is_valid(p) THEN Append(@, p) ELSE @])
          \/ \E i \in DOMAIN editor.device : Changed([editor EXCEPT !.device[i] = p])
    BY <1>6 DEF peer_dialog_response
  <2>2. \E device : Changed([editor EXCEPT !.device = device])
    BY <2>1
  <2>3. QED
    BY <1>5, <2>2
<1>7. CASE peer_remove
  <2>1. \E device : Changed([editor EXCEPT !.device = device])
    BY <1>7 DEF peer_remove
  <2>2. QED
    BY <1>5, <2>1
<1>8. QED
  BY <1>4, <1>6, <1>7 DEF Edit

\* Every step keeps the invariant: only the savers, and who opens an editor, touch
\* the private key.
LEMMA KeyStep == ShapeInv /\ KeyInv /\ [Next]_vars => ShapeInv' /\ KeyInv'
<1> SUFFICES ASSUME ShapeInv, KeyInv, [Next]_vars PROVE ShapeInv' /\ KeyInv'
  OBVIOUS
<1>1. CASE UNCHANGED <<store, agent, editor>>
  BY <1>1 DEF ShapeInv, KeyInv, WithAgent
<1>2. CASE editor' = NoEditor /\ \E c : DOMAIN c = DOMAIN Empty /\ Update(c)
  <2>1. PICK c : DOMAIN c = DOMAIN Empty /\ Update(c)
    BY <1>2
  <2>2. DOMAIN store' = DOMAIN Empty /\ (store'.flags[0] \in {"agent", "notsaved"} => store'.secrets[0] = None)
    BY <2>1, UpdateFacts
  <2>3. ShapeInv'
    BY <1>2, <2>2 DEF ShapeInv, Empty
  <2>4. KeyInv'
    BY <1>2, <2>2 DEF KeyInv
  <2>5. QED
    BY <2>3, <2>4
<1>3. CASE Save
  BY <1>2, <1>3, SaveFacts DEF Save
<1>4. CASE Close
  BY <1>4 DEF Close, ShapeInv, KeyInv
<1>5. CASE Edit
  BY <1>5, EditStep
<1>6. CASE init_editor_plugin
  <2>1. PICK shown \in Shown :
        \E c \in {IF store = NoProfile THEN Empty
                  ELSE IF shown THEN WithAgent(store)
                  ELSE [store EXCEPT !.secrets = NoSecrets]} :
           editor' = [connection |-> c, device |-> LoadedPeers(c),
                      rest |-> fill_interface_from_connection(c.rest[0]),
                      private_key |-> c.secrets[0], flags |-> MenuFlags(FlagsOf(c, 0)),
                      private_key_changed |-> FALSE, edits |-> 0,
                      stored |-> store # NoProfile, shown |-> shown]
    BY <1>6 DEF init_editor_plugin
  <2>c. PICK c : /\ c = IF store = NoProfile THEN Empty
                        ELSE IF shown THEN WithAgent(store)
                        ELSE [store EXCEPT !.secrets = NoSecrets]
                 /\ editor' = [connection |-> c, device |-> LoadedPeers(c),
                      rest |-> fill_interface_from_connection(c.rest[0]),
                               private_key |-> c.secrets[0], flags |-> MenuFlags(FlagsOf(c, 0)),
                               private_key_changed |-> FALSE, edits |-> 0,
                               stored |-> store # NoProfile, shown |-> shown]
    BY <2>1
  <2>2. /\ DOMAIN editor' = EditorFields /\ editor'.connection = c /\ editor'.private_key = c.secrets[0]
        /\ editor'.flags = MenuFlags(FlagsOf(c, 0)) /\ editor'.shown = shown
    BY <2>c DEF EditorFields
  <2>3. DOMAIN c = DOMAIN Empty
    BY <2>c, WithAgentFacts DEF ShapeInv
  <2>4. UNCHANGED <<store, agent>> /\ WithAgent(store)' = WithAgent(store)
    BY <1>6 DEF init_editor_plugin, WithAgent
  <2>5. ShapeInv'
    BY <2>2, <2>3, <2>4 DEF ShapeInv, EditorFields, Empty
  <2>6. editor'.flags # "notrequired"
    BY <2>2 DEF MenuFlags
  <2>7. store' # NoProfile /\ editor'.shown =>
           editor'.private_key = WithAgent(store)'.secrets[0] /\ editor'.connection.secrets[0] = editor'.private_key
    BY <2>c, <2>2, <2>4
  <2>8. QED
    BY <2>4, <2>5, <2>6, <2>7 DEF KeyInv
<1>7. CASE \/ Activate \/ NeedSecrets \/ wg_new_secrets \/ Connect \/ Deactivate
  BY <1>1, <1>7 DEF Activate, NeedSecrets, wg_new_secrets, Connect, Deactivate
<1>8. CASE import \/ nmcli
  BY <1>2, <1>8, ImportFacts, HandWrittenFacts DEF import, nmcli
<1>9. QED
  BY <1>1, <1>3, <1>4, <1>5, <1>6, <1>7, <1>8 DEF Next, vars

-----------------------------------------------------------------------------
\* An untouched private key survives the save of an editor that was shown the
\* secrets, with any peers and whatever was done to the other fields.
THEOREM ShownKeyIsKept == Spec => ShownKeySurvives
<1>1. Init => ShapeInv /\ KeyInv
  BY InitKey
<1>2. ShapeInv /\ KeyInv /\ [Next]_vars => (ShapeInv /\ KeyInv)'
  BY KeyStep
<1>3. ShapeInv /\ KeyInv /\ [Next]_vars => [Save /\ KeyUntouched /\ editor.shown => KeyIsKept]_vars
  <2> SUFFICES ASSUME ShapeInv, KeyInv, Save, KeyUntouched, editor.shown
               PROVE  KeyIsKept
    OBVIOUS
  <2> DEFINE c == save_interface_to_connection(editor)
  <2>1. DOMAIN c = DOMAIN Empty /\ Update(c) /\ editor # NoEditor
    BY SaveFacts DEF Save
  <2>2. /\ store # NoProfile /\ ~editor.private_key_changed
        /\ editor.flags = FlagsOf(store, 0) /\ editor.flags # "notrequired"
        /\ editor.private_key = WithAgent(store).secrets[0]
        /\ editor.connection.secrets[0] \in {editor.private_key, None}
    BY <2>1 DEF KeyUntouched, KeyInv
  <2>3. c.flags[0] = editor.flags
    BY SaveFacts
  <2>4. editor.flags # "notsaved" => c.secrets[0] = editor.private_key
    BY <2>2, SaveFacts
  <2>5. store.flags[0] \in {"agent", "notsaved"} => editor.flags = store.flags[0] /\ store.secrets[0] = None
    BY <2>2, ProfileAssumption DEF FlagsOf, Flags, KeyInv
  <2>6. store.flags[0] \notin {"agent", "notsaved"} => editor.flags \notin {"agent", "notsaved"}
    BY <2>2 DEF FlagsOf
  <2>7. WithAgent(store).secrets[0] =
           IF store.flags[0] = "agent" /\ store.secrets[0] = None THEN agent[0] ELSE store.secrets[0]
    BY <2>2, WithAgentFacts DEF ShapeInv
  <2>8. CASE store.flags[0] \in {"agent", "notsaved"}
    <3>1. store'.secrets[0] = None
      BY <2>1, <2>3, <2>5, <2>8, UpdateFacts
    <3>2. store.flags[0] = "agent" => agent'[0] = agent[0]
      BY <2>1, <2>2, <2>3, <2>4, <2>5, <2>7, UpdateFacts
    <3>3. QED
      BY <2>5, <2>8, <3>1, <3>2 DEF KeyIsKept
  <2>9. CASE store.flags[0] \notin {"agent", "notsaved"}
    <3>1. c.secrets[0] = store.secrets[0]
      BY <2>2, <2>4, <2>6, <2>7, <2>9
    <3>2. store'.secrets[0] = store.secrets[0]
      BY <2>1, <2>3, <2>6, <2>9, <3>1, UpdateFacts
    <3>3. QED
      BY <2>9, <3>2 DEF KeyIsKept
  <2>10. QED
    BY <2>8, <2>9
<1>4. QED
  BY <1>1, <1>2, <1>3, PTL DEF Spec, ShownKeySurvives

-----------------------------------------------------------------------------
(* Loading.                                                                *)

\* The cardinality of an interval that starts at 1.
LEMMA IntervalSize ==
    ASSUME NEW n \in Nat
    PROVE  IsFiniteSet(1 .. n) /\ Cardinality(1 .. n) = n
<1>1. 1 \in Int /\ n \in Int /\ (1 > n => n = 0) /\ (~(1 > n) => n - 1 + 1 = n)
  OBVIOUS
<1>2. IsFiniteSet(1 .. n) /\ Cardinality(1 .. n) = IF 1 > n THEN 0 ELSE n - 1 + 1
  BY <1>1, FS_Interval
<1>3. QED
  BY <1>1, <1>2

\* Every number up to its cardinality is the rank of a member of a set of
\* numbers.
LEMMA RankExists ==
    ASSUME NEW n \in Nat, NEW V, V \subseteq 1 .. n, NEW k \in 1 .. Cardinality(V)
    PROVE  Nth(V, k) \in V
<1> DEFINE R == 1 .. Cardinality(V)
           Below(i) == {j \in V : j <= i}
           rank == [i \in V |-> Cardinality(Below(i))]
<1>1. IsFiniteSet(V) /\ Cardinality(V) \in Nat
  <2>1. V \in SUBSET (1 .. n)
    OBVIOUS
  <2>2. IsFiniteSet(V)
    BY <2>1, IntervalSize, FS_Subset
  <2>3. QED
    BY <2>2, FS_CardinalityType
<1>2. ASSUME NEW i \in V
      PROVE  IsFiniteSet(Below(i)) /\ Cardinality(Below(i)) \in R
  <2>1. Below(i) \in SUBSET V /\ Below(i) # {}
    OBVIOUS
  <2>2. IsFiniteSet(Below(i)) /\ Cardinality(Below(i)) <= Cardinality(V)
    BY <1>1, <2>1, FS_Subset
  <2>3. Cardinality(Below(i)) \in Nat /\ Cardinality(Below(i)) # 0
    BY <2>1, <2>2, FS_CardinalityType, FS_EmptySet
  <2>4. QED
    BY <1>1, <2>2, <2>3
<1>3. ASSUME NEW i \in V, NEW h \in V, i < h
      PROVE  Cardinality(Below(i)) # Cardinality(Below(h))
  <2>1. i \in Int /\ h \in Int /\ h <= h /\ ~(h <= i) /\ \A j \in V : j <= i => j <= h
    BY <1>3
  <2>a. Below(i) \in SUBSET Below(h) /\ h \in Below(h) /\ h \notin Below(i)
    BY <2>1
  <2>2. QED
    BY <1>2, <2>a, FS_Subset
<1>4. rank \in Injection(V, R)
  <2>1. rank \in [V -> R]
    BY <1>2
  <2>2. \A i, h \in V : rank[i] = rank[h] => i = h
    <3> SUFFICES ASSUME NEW i \in V, NEW h \in V, i # h PROVE rank[i] # rank[h]
      OBVIOUS
    <3>1. i < h \/ h < i
      OBVIOUS
    <3>2. QED
      BY <1>3, <3>1
  <2>3. QED
    BY <2>1, <2>2 DEF Injection, IsInjective
<1>5. IsFiniteSet(R) /\ Cardinality(R) = Cardinality(V)
  BY <1>1, IntervalSize
<1>6. rank \in Surjection(V, R)
  BY <1>4, <1>5, FS_Injection
<1>7. \E i \in V : Cardinality(Below(i)) = k
  BY <1>6 DEF Surjection
<1>8. QED
  BY <1>7 DEF Nth

\* The members of 1..m have themselves as ranks.
LEMMA RankInPrefix ==
    ASSUME NEW m \in Nat, NEW k \in 1 .. m
    PROVE  Nth(1 .. m, k) = k
<1>1. ASSUME NEW i \in 1 .. m PROVE Cardinality({j \in 1 .. m : j <= i}) = i
  <2>1. {j \in 1 .. m : j <= i} = 1 .. i
    OBVIOUS
  <2>2. i \in Nat
    OBVIOUS
  <2>3. Cardinality(1 .. i) = i
    BY <2>2, IntervalSize
  <2>4. QED
    BY <2>1, <2>3
<1>2. \E i \in 1 .. m : Cardinality({j \in 1 .. m : j <= i}) = k
  BY <1>1
<1>3. QED
  BY <1>1, <1>2 DEF Nth

\* At most MaxPeers slots are read, and every one of them has a public key.
LEMMA ReadSlotsType ==
    ASSUME NEW c
    PROVE  ReadSlots(c) \in Nat /\ ReadSlots(c) <= MaxPeers
<1> DEFINE S == {i \in Slots : i <= MaxPeers /\ \A j \in 1 .. i : c.public_key[j] # None}
<1>1. S \in SUBSET (1 .. MaxPeers)
  BY ProfileAssumption DEF Slots
<1>2. IsFiniteSet(1 .. MaxPeers) /\ Cardinality(1 .. MaxPeers) = MaxPeers
  BY ProfileAssumption, IntervalSize
<1>3. IsFiniteSet(S) /\ Cardinality(S) <= MaxPeers
  BY <1>1, <1>2, FS_Subset
<1>4. QED
  BY <1>3, FS_CardinalityType DEF ReadSlots

\* Where only the first n slots have a public key, as many are read as MaxPeers
\* allows.
LEMMA ReadSlotsOfPrefix ==
    ASSUME NEW c, NEW n \in 0 .. MaxListed,
           \A i \in Slots : (c.public_key[i] # None) <=> i <= n
    PROVE  ReadSlots(c) = IF n > MaxPeers THEN MaxPeers ELSE n
<1> DEFINE S == {i \in Slots : i <= MaxPeers /\ \A j \in 1 .. i : c.public_key[j] # None}
           m == IF n > MaxPeers THEN MaxPeers ELSE n
<1>1. m \in Nat /\ 1 .. m \subseteq Slots
  BY ProfileAssumption DEF Slots
<1>2. S = 1 .. m
  BY <1>1, ProfileAssumption DEF Slots
<1>3. QED
  BY <1>1, <1>2, IntervalSize DEF ReadSlots

\* What is loaded is a list of valid peers, each from its slot.
LEMMA LoadedFacts ==
    ASSUME NEW c
    PROVE  /\ Len(LoadedPeers(c)) \in 0 .. MaxPeers
           /\ DOMAIN LoadedPeers(c) = 1 .. Len(LoadedPeers(c))
           /\ \A k \in DOMAIN LoadedPeers(c) :
                 \E i \in Slots : /\ LoadedPeers(c)[k] = PeerAt(c, i)
                                  /\ awg_device_peer_is_valid(PeerAt(c, i))
<1> DEFINE V == ValidSlots(c)
<1>1. V \subseteq 1 .. ReadSlots(c) /\ V \subseteq Slots
  BY ReadSlotsType, ProfileAssumption DEF ValidSlots, Slots
<1>2. IsFiniteSet(V) /\ Cardinality(V) \in Nat /\ Cardinality(V) <= MaxPeers
  <2>1. IsFiniteSet(1 .. ReadSlots(c)) /\ Cardinality(1 .. ReadSlots(c)) = ReadSlots(c)
    BY ReadSlotsType, IntervalSize
  <2>2. IsFiniteSet(V) /\ Cardinality(V) <= ReadSlots(c)
    BY <1>1, <2>1, FS_Subset
  <2>3. QED
    BY <2>2, ReadSlotsType, ProfileAssumption, FS_CardinalityType
<1>3. LoadedPeers(c) = [k \in 1 .. Cardinality(V) |-> PeerAt(c, Nth(V, k))]
  BY DEF LoadedPeers
<1>4. ASSUME NEW k \in 1 .. Cardinality(V) PROVE Nth(V, k) \in V
  BY <1>1, ReadSlotsType, RankExists
<1>5. \A i \in V : awg_device_peer_is_valid(PeerAt(c, i))
  BY DEF ValidSlots
<1>6. ASSUME NEW k \in 1 .. Cardinality(V)
      PROVE  \E i \in Slots : PeerAt(c, Nth(V, k)) = PeerAt(c, i) /\ awg_device_peer_is_valid(PeerAt(c, i))
  BY <1>1, <1>4, <1>5
<1> HIDE DEF V
<1>7. Len(LoadedPeers(c)) = Cardinality(V) /\ DOMAIN LoadedPeers(c) = 1 .. Cardinality(V)
  BY <1>2, <1>3
<1>8. QED
  BY <1>2, <1>3, <1>6, <1>7

\* Where the first n slots, and only they, have a public key, the valid peers
\* among those up to MaxPeers are loaded.
LEMMA LoadedOfPrefix ==
    ASSUME NEW c, NEW n \in 0 .. MaxListed,
           \A i \in Slots : (c.public_key[i] # None) <=> i <= n
    PROVE  ValidSlots(c) = {i \in 1 .. n : i <= MaxPeers /\ awg_device_peer_is_valid(PeerAt(c, i))}
<1> DEFINE m == IF n > MaxPeers THEN MaxPeers ELSE n
<1>1. ReadSlots(c) = m
  BY ReadSlotsOfPrefix, ProfileAssumption
<1>2. \A i : i \in 1 .. m <=> i \in 1 .. n /\ i <= MaxPeers
  BY ProfileAssumption
<1> HIDE DEF m
<1>3. QED
  BY <1>1, <1>2 DEF ValidSlots

-----------------------------------------------------------------------------
(* Types.                                                                  *)

\* The items of the interface and of the peers.
LEMMA ItemFacts == 0 \in Items /\ Slots \subseteq Items /\ \A i \in Items : i # 0 <=> i \in Slots
BY ProfileAssumption DEF Items, Slots

\* A valid peer of a profile is one the editor can list.
LEMMA PeerAtType ==
    ASSUME NEW c \in Connection, NEW i \in Slots, awg_device_peer_is_valid(PeerAt(c, i))
    PROVE  PeerAt(c, i) \in Peer
<1>1. i \in Items /\ c.flags[i] \in Flags \cup {None} /\ c.rest[i] \in Rests \cup {None}
  BY ItemFacts DEF Connection, RestItems
<1>2. c.secrets[i] \in Psks \cup {None}
  BY DEF Connection, Secrets
<1>3. FlagsOf(c, i) \in Flags
  BY <1>1 DEF FlagsOf, Flags
<1>4. QED
  BY <1>1, <1>2, <1>3 DEF awg_device_peer_is_valid, PeerAt, Peer

\* What a profile loads as is a list the editor can hold.
LEMMA LoadedType ==
    ASSUME NEW c \in Connection
    PROVE  LoadedPeers(c) \in Seq(Peer) /\ Len(LoadedPeers(c)) <= MaxListed
<1> DEFINE n == Len(LoadedPeers(c))
<1>1. n \in Nat /\ n <= MaxListed /\ DOMAIN LoadedPeers(c) = 1 .. n
  BY LoadedFacts, ProfileAssumption
<1>2. \A k \in 1 .. n : LoadedPeers(c)[k] \in Peer
  BY <1>1, LoadedFacts, PeerAtType
<1>3. LoadedPeers(c) = [k \in 1 .. n |-> LoadedPeers(c)[k]]
  BY <1>1 DEF LoadedPeers
<1>4. LoadedPeers(c) \in [1 .. n -> Peer]
  BY <1>2, <1>3
<1>5. QED
  BY <1>1, <1>4, SeqDef

\* The empty connection of a new profile.
LEMMA EmptyType == NoSecrets \in Secrets /\ Empty \in Connection
<1>1. NoSecrets \in Secrets
  BY ItemFacts DEF NoSecrets, Secrets
<1>2. NoParameters \in Interface
  BY DEF NoParameters, Interface
<1>3. Empty.rest \in RestItems
  <2> HIDE DEF NoParameters
  <2>1. QED
    BY <1>2, ItemFacts DEF Empty, RestItems
<1>4. QED
  BY <1>1, <1>3 DEF Empty, Connection

\* The slots of what is written hold the listed peers.
LEMMA ItemsType ==
    ASSUME NEW c \in Connection, NEW peers \in Seq(Peer)
    PROVE  PeerItems(c, peers) \in Connection
<1> DEFINE d == PeerItems(c, peers)
<1>1. \A i \in 1 .. Len(peers) : peers[i] \in Peer
  BY ElementOfSeq
<1>2. \A i \in Slots : i <= Len(peers) => i \in 1 .. Len(peers)
  BY LenProperties DEF Slots
<1>3. d.public_key \in [Slots -> Keys \cup {BadKey, None}]
  BY <1>1, <1>2 DEF PeerItems, Peer
<1>4. c.rest[0] \in Interface /\ c.flags[0] \in Flags \cup {None} /\ c.secrets[0] \in KeyTexts \cup {None}
  BY ItemFacts DEF Connection, Secrets, RestItems
<1>5. d.rest \in RestItems /\ d.flags \in [Items -> Flags \cup {None}]
  <2>1. d.flags \in [Items -> Flags \cup {None}]
    BY <1>1, <1>2, <1>4, ItemFacts DEF PeerItems, Peer
  <2>2. d.rest \in [Items -> Rests \cup Interface \cup {None}] /\ d.rest[0] \in Interface
    BY <1>1, <1>2, <1>4, ItemFacts DEF PeerItems, Peer
  <2>3. ASSUME NEW i \in Slots PROVE d.rest[i] \in Rests \cup {None}
    <3>1. i \in Items /\ i # 0
      BY ItemFacts
    <3>2. d.rest[i] = IF i <= Len(peers) THEN peers[i].rest ELSE None
      BY <3>1 DEF PeerItems
    <3>3. QED
      BY <1>1, <1>2, <3>2 DEF Peer
  <2>4. QED
    BY <2>1, <2>2, <2>3 DEF RestItems
<1>6. d.secrets \in Secrets
  <2>1. d.secrets \in [Items -> Psks \cup KeyTexts \cup {None}] /\ d.secrets[0] \in KeyTexts \cup {None}
    BY <1>1, <1>2, <1>4, ItemFacts DEF PeerItems, Peer
  <2>2. ASSUME NEW i \in Slots PROVE d.secrets[i] \in Psks \cup {None}
    <3>1. i \in Items /\ i # 0
      BY ItemFacts
    <3>2. d.secrets[i] = IF i <= Len(peers) THEN peers[i].psk ELSE None
      BY <3>1 DEF PeerItems
    <3>3. QED
      BY <1>1, <1>2, <3>2 DEF Peer
  <2>3. QED
    BY <2>1, <2>2 DEF Secrets
<1>7. QED
  BY <1>3, <1>5, <1>6 DEF PeerItems, Connection

\* Another key for the interface.
LEMMA SecretsExcept ==
    ASSUME NEW s \in Secrets, NEW key \in KeyTexts \cup {None}
    PROVE  [s EXCEPT ![0] = key] \in Secrets
BY ItemFacts DEF Secrets

\* Other optional parameters.
LEMMA RestExcept ==
    ASSUME NEW s \in RestItems, NEW rest \in Interface
    PROVE  [s EXCEPT ![0] = rest] \in RestItems
BY ItemFacts DEF RestItems

\* What is read from the form are parameters, and all but the number as shown.
LEMMA ReadBack ==
    ASSUME NEW r \in Form
    PROVE  /\ get_widget_text(r) \in Interface
           /\ get_widget_text(r).headers = r.headers /\ get_widget_text(r).i5 = r.i5
           /\ get_widget_text(r).flag = r.flag
           /\ get_widget_text(r).fw_mark = IF r.fw_mark > IntMax THEN Overflow ELSE r.fw_mark
<1> DEFINE n == IF r.fw_mark > IntMax THEN Overflow ELSE r.fw_mark
<1>1. r \in Interface /\ r.fw_mark \in U32
  BY DEF Form
<1>2. n \in -IntMax - 1 .. 2 * IntMax + 1
  BY <1>1, ProfileAssumption DEF U32
<1>3. get_widget_text(r) = [r EXCEPT !.fw_mark = n]
  BY DEF get_widget_text
<1> HIDE DEF n
<1>4. QED
  BY <1>1, <1>2, <1>3 DEF Interface, n

\* What the editor writes is a connection.
LEMMA SaveType ==
    ASSUME NEW e \in Editor
    PROVE  save_interface_to_connection(e) \in Connection
<1> DEFINE c == PeerItems(e.connection, e.device)
           key == IF e.flags \in {"notrequired", "notsaved"} THEN None
                  ELSE IF e.private_key # None THEN e.private_key
                  ELSE IF e.private_key_changed THEN None ELSE c.secrets[0]
<1>1. c \in Connection
  BY ItemsType DEF Editor
<1>2. key \in KeyTexts \cup {None}
  BY <1>1 DEF Editor, Connection, Secrets
<1> HIDE DEF c
<1> HIDE DEF key
<1>b. get_widget_text(e.rest) \in Interface
  BY ReadBack DEF Editor
<1>a. [c.rest EXCEPT ![0] = get_widget_text(e.rest)] \in RestItems
  BY <1>1, <1>b, RestExcept DEF Connection
<1>3. [c.secrets EXCEPT ![0] = key] \in Secrets
  <2> HIDE DEF key
  <2>1. c.secrets \in Secrets
    BY <1>1 DEF Connection
  <2>2. QED
    BY <1>2, <2>1, SecretsExcept
<1>4. save_interface_to_connection(e) =
         [c EXCEPT !.rest = [c.rest EXCEPT ![0] = get_widget_text(e.rest)],
                   !.flags = [c.flags EXCEPT ![0] = e.flags],
                   !.secrets = [c.secrets EXCEPT ![0] = key]]
  BY DEF save_interface_to_connection, c, key
<1> HIDE DEF key
<1>5. [c.flags EXCEPT ![0] = e.flags] \in [Items -> Flags \cup {None}]
  BY <1>1, ItemFacts DEF Editor, Connection
<1>6. QED
  BY <1>1, <1>a, <1>3, <1>4, <1>5 DEF Connection

\* What import writes is a connection.
LEMMA ImportType ==
    ASSUME NEW peers \in Seq(Peer), NEW rest \in Interface, NEW own \in BOOLEAN
    PROVE  awg_device_save_to_nm_connection(peers, rest, own) \in Connection
<1> DEFINE c == [Empty EXCEPT !.rest[0] = rest, !.flags[0] = "none", !.secrets[0] = PrivateKey]
<1>1. c \in Connection
  <2>1. [NoSecrets EXCEPT ![0] = PrivateKey] \in Secrets
    BY EmptyType, SecretsExcept DEF KeyTexts
  <2>2. [Empty.rest EXCEPT ![0] = rest] \in RestItems
    BY EmptyType, RestExcept DEF Connection
  <2>3. c = [Empty EXCEPT !.rest = [Empty.rest EXCEPT ![0] = rest],
                          !.flags = [Empty.flags EXCEPT ![0] = "none"],
                          !.secrets = [NoSecrets EXCEPT ![0] = PrivateKey]]
    BY DEF Empty
  <2>4. [Empty.flags EXCEPT ![0] = "none"] \in [Items -> Flags \cup {None}]
    BY ItemFacts DEF Empty, Flags
  <2>5. QED
    BY <2>1, <2>2, <2>3, <2>4, EmptyType DEF Connection
<1> HIDE DEF c
<1>2. PeerItems(c, peers) \in Connection
  BY <1>1, ItemsType
<1>3. QED
  BY <1>2 DEF awg_device_save_to_nm_connection, Connection, c

\* NetworkManager and the agent keep secrets of the profile's items.
LEMMA UpdateType ==
    ASSUME NEW c \in Connection, store \in Connection \cup {NoProfile}, agent \in Secrets, Update(c)
    PROVE  store' \in Connection /\ agent' \in Secrets
<1>1. ASSUME NEW s \in Secrets
      PROVE  StoredSecrets(c, s) \in Secrets /\ AgentSecrets(c, s) \in Secrets
  BY ItemFacts DEF StoredSecrets, AgentSecrets, Secrets
<1>2. c.secrets \in Secrets /\ (store # NoProfile => store.secrets \in Secrets)
  BY DEF Connection
<1>3. PICK s \in Secrets : store' = [c EXCEPT !.secrets = s]
  BY <1>1, <1>2 DEF Update
<1>4. agent' \in Secrets
  BY <1>1, <1>2 DEF Update
<1>5. QED
  BY <1>3, <1>4 DEF Connection

\* The secrets an activation or an editor works with.
LEMMA GivenType ==
    ASSUME NEW c \in Connection, agent \in Secrets
    PROVE  WithAgent(c) \in Connection /\ WithUser(c) \in Connection
<1>1. c.secrets \in Secrets
  BY DEF Connection
<1>2. \A i \in Slots : Known(c, i) \in Psks \cup {None}
  BY ItemFacts DEF Known, Psks
<1>3. Known(c, 0) \in KeyTexts
  BY DEF Known, KeyTexts
<1>4. [i \in Items |-> IF c.flags[i] = "agent" /\ c.secrets[i] = None
                       THEN agent[i] ELSE c.secrets[i]] \in Secrets
  BY <1>1, ItemFacts DEF Secrets
<1>5. [i \in Items |-> IF c.secrets[i] # None THEN c.secrets[i] ELSE Known(c, i)] \in Secrets
  BY <1>1, <1>2, <1>3, ItemFacts DEF Secrets
<1>6. QED
  BY <1>4, <1>5 DEF WithAgent, WithUser, Connection

-----------------------------------------------------------------------------
(* Steps of the editor.                                                    *)

\* Peers that were in the list before, or that the user has entered.
FromListOr(new, old, S) ==
    \A i \in DOMAIN new : new[i] \in S \/ \E j \in DOMAIN old : new[i] = old[j]

\* A removed peer takes no other with it.
LEMMA RemoveFacts ==
    ASSUME NEW s \in Seq(Peer), NEW i \in DOMAIN s
    PROVE  /\ RemoveAt(s, i) \in Seq(Peer) /\ Len(RemoveAt(s, i)) <= Len(s)
           /\ FromListOr(RemoveAt(s, i), s, {})
<1> DEFINE n == Len(s) - 1
           t == RemoveAt(s, i)
<1>1. Len(s) \in Nat /\ DOMAIN s = 1 .. Len(s) /\ n \in Nat /\ i \in 1 .. Len(s)
  BY LenProperties
<1>2. t = [j \in 1 .. n |-> IF j < i THEN s[j] ELSE s[j + 1]]
  BY DEF RemoveAt
<1>3. \A j \in 1 .. n : j \in 1 .. Len(s) /\ j + 1 \in 1 .. Len(s)
  BY <1>1
<1>4. \A j \in 1 .. n : t[j] \in Peer /\ \E k \in DOMAIN s : t[j] = s[k]
  BY <1>1, <1>2, <1>3, ElementOfSeq
<1>5. t \in [1 .. n -> Peer]
  BY <1>2, <1>4
<1>a. n \in Nat /\ n <= Len(s)
  BY <1>1
<1> HIDE DEF n, t
<1>6. DOMAIN t = 1 .. n /\ t \in Seq(Peer)
  BY <1>a, <1>5, SeqDef
<1>b. Len(t) = n
  BY <1>a, <1>6, LenProperties
<1>c. \A j \in DOMAIN t : \E k \in DOMAIN s : t[j] = s[k]
  BY <1>4, <1>6
<1>7. QED
  BY <1>a, <1>b, <1>6, <1>c DEF FromListOr, t

\* Every edit is a change of fields of the editor; it lists only peers that were
\* listed or offered.
LEMMA EditForm ==
    ASSUME TypeOK, Edit
    PROVE  \E e \in Editor :
              /\ Changed(e)
              /\ e.edits = editor.edits /\ e.edits < MaxEdits
              /\ e.shown = editor.shown /\ e.stored = editor.stored
              /\ Len(e.device) <= MaxListed
              /\ FromListOr(e.device, editor.device, Offered)
<1>1. editor \in Editor /\ Len(editor.device) <= MaxListed /\ editor.edits < MaxEdits
  BY DEF Edit, TypeOK
<1>2. \A i \in DOMAIN editor.device : \E j \in DOMAIN editor.device : editor.device[i] = editor.device[j]
  OBVIOUS
<1>3. CASE EditInterface
  <2>1. PICK key \in KeyTexts \cup {None}, flags \in Flags \ {"notrequired"},
             rest \in OfferedInterfaces \cup {editor.rest} :
          Changed([editor EXCEPT !.private_key = key, !.flags = flags, !.rest = rest,
                                 !.private_key_changed = @ \/ key # editor.private_key])
    BY <1>3 DEF EditInterface
  <2> DEFINE e == [editor EXCEPT !.private_key = key, !.flags = flags, !.rest = rest,
                                 !.private_key_changed = @ \/ key # editor.private_key]
  <2>a. rest \in Form
    BY <1>1, ProfileAssumption DEF Editor
  <2>2. e \in Editor /\ e.device = editor.device /\ e.edits = editor.edits
        /\ e.shown = editor.shown /\ e.stored = editor.stored
    BY <1>1, <2>a DEF Editor
  <2>3. QED
    BY <1>1, <1>2, <2>1, <2>2 DEF FromListOr
<1>4. ASSUME NEW device \in Seq(Peer), Len(device) <= MaxListed,
             FromListOr(device, editor.device, Offered), Changed([editor EXCEPT !.device = device])
      PROVE  \E e \in Editor :
              /\ Changed(e)
              /\ e.edits = editor.edits /\ e.edits < MaxEdits
              /\ e.shown = editor.shown /\ e.stored = editor.stored
              /\ Len(e.device) <= MaxListed
              /\ FromListOr(e.device, editor.device, Offered)
  <2> DEFINE e == [editor EXCEPT !.device = device]
  <2>1. e \in Editor /\ e.device = device /\ e.edits = editor.edits
        /\ e.shown = editor.shown /\ e.stored = editor.stored
    BY <1>1 DEF Editor
  <2>2. QED
    BY <1>1, <1>4, <2>1
<1>5. CASE peer_dialog_response
  <2> DEFINE d == editor.device
  <2>0. d \in Seq(Peer) /\ Len(d) \in Nat /\ DOMAIN d = 1 .. Len(d) /\ MaxListed \in Nat
    BY <1>1, LenProperties, ProfileAssumption DEF Editor
  <2>1. PICK p \in Offered :
          \/ Len(d) < MaxListed /\ Changed([editor EXCEPT !.device =
                                               IF awg_device_peer_is_valid(p) THEN Append(d, p) ELSE d])
          \/ \E i \in DOMAIN d : Changed([editor EXCEPT !.device = [d EXCEPT ![i] = p]])
    BY <1>5 DEF peer_dialog_response
  <2>2. p \in Peer
    BY ProfileAssumption
  <2> HIDE DEF d
  <2>3. CASE Len(d) < MaxListed /\ Changed([editor EXCEPT !.device = Append(d, p)])
    <3>1. Append(d, p) \in Seq(Peer) /\ Len(Append(d, p)) = Len(d) + 1
          /\ DOMAIN Append(d, p) = 1 .. Len(d) + 1
      BY <2>0, <2>2, AppendProperties, LenProperties
    <3>2. \A i \in 1 .. Len(d) + 1 : Append(d, p)[i] = p \/ (i \in 1 .. Len(d) /\ Append(d, p)[i] = d[i])
      BY <2>0, <2>2, AppendProperties
    <3>3. FromListOr(Append(d, p), d, Offered)
      BY <2>0, <3>1, <3>2 DEF FromListOr
    <3>4. Len(Append(d, p)) <= MaxListed
      BY <2>0, <2>3, <3>1
    <3>5. QED
      BY <1>4, <2>3, <3>1, <3>3, <3>4 DEF d
  <2>4. ASSUME NEW i \in DOMAIN d, Changed([editor EXCEPT !.device = [d EXCEPT ![i] = p]])
        PROVE  \E e \in Editor :
                  /\ Changed(e)
                  /\ e.edits = editor.edits /\ e.edits < MaxEdits
                  /\ e.shown = editor.shown /\ e.stored = editor.stored
                  /\ Len(e.device) <= MaxListed
                  /\ FromListOr(e.device, editor.device, Offered)
    <3> DEFINE t == [d EXCEPT ![i] = p]
    <3>1. t \in Seq(Peer) /\ Len(t) = Len(d) /\ DOMAIN t = DOMAIN d
      BY <2>0, <2>2, <2>4, ExceptSeq
    <3>2. \A j \in DOMAIN d : t[j] = p \/ t[j] = d[j]
      BY <2>0
    <3>3. FromListOr(t, d, Offered)
      BY <3>1, <3>2 DEF FromListOr
    <3> HIDE DEF t
    <3>4. Len(t) <= MaxListed
      BY <1>1, <3>1 DEF d
    <3>5. QED
      BY <1>4, <2>4, <3>1, <3>3, <3>4 DEF d, t
  <2>5. CASE Changed([editor EXCEPT !.device = d])
    <3>1. FromListOr(d, editor.device, Offered) /\ Len(d) <= MaxListed
      BY <1>1, <1>2 DEF FromListOr, d
    <3>2. QED
      BY <1>4, <2>0, <2>5, <3>1
  <2>6. QED
    BY <2>1, <2>3, <2>4, <2>5
<1>6. CASE peer_remove
  <2>1. PICK i \in DOMAIN editor.device : Changed([editor EXCEPT !.device = RemoveAt(editor.device, i)])
    BY <1>6 DEF peer_remove
  <2> DEFINE t == RemoveAt(editor.device, i)
  <2>2. editor.device \in Seq(Peer) /\ MaxListed \in Nat
    BY <1>1, ProfileAssumption DEF Editor
  <2>3. t \in Seq(Peer) /\ Len(t) <= Len(editor.device) /\ FromListOr(t, editor.device, {})
    BY <2>2, RemoveFacts
  <2> HIDE DEF t
  <2>4. Len(t) <= MaxListed
    BY <1>1, <2>2, <2>3, LenProperties
  <2>5. FromListOr(t, editor.device, Offered)
    BY <2>3 DEF FromListOr
  <2>6. QED
    BY <1>4, <2>1, <2>3, <2>4, <2>5 DEF t
<1>7. QED
  BY <1>3, <1>5, <1>6 DEF Edit

\* A change leaves all but the connection and the count of the edits alone.
LEMMA ChangedType ==
    ASSUME NEW e \in Editor, e.edits < MaxEdits, Changed(e)
    PROVE  /\ editor' \in Editor /\ editor'.edits > 0
           /\ editor'.device = e.device /\ editor'.shown = e.shown /\ editor'.stored = e.stored
<1> DEFINE c == IF check_validity(e) THEN save_interface_to_connection(e) ELSE e.connection
<1>1. c \in Connection
  BY SaveType DEF Editor
<1>2. editor' = [e EXCEPT !.edits = e.edits + 1, !.connection = c]
  BY DEF Changed
<1>3. e.edits + 1 \in 0 .. MaxEdits /\ e.edits + 1 > 0
  BY ProfileAssumption DEF Editor
<1> HIDE DEF c
<1>4. QED
  BY <1>1, <1>2, <1>3 DEF Editor

\* What the editor shows of the optional parameters is what it can write.
LEMMA ShownInterface ==
    ASSUME NEW r \in Interface
    PROVE  fill_interface_from_connection(r) \in Form
<1> DEFINE h == [i \in 1 .. 4 |-> IF ~r.i5 /\ r.headers[i] = None THEN i ELSE r.headers[i]]
           flag == IF r.flag = "on" THEN "on" ELSE None
           n == IF r.fw_mark \in U32 THEN r.fw_mark ELSE 0
<1>1. h \in [1 .. 4 -> Nat \cup {None}]
  BY DEF Interface
<1>2. flag \in {"on", "true", None} /\ flag # "true" /\ r.i5 \in BOOLEAN
  BY ProfileAssumption DEF Interface
<1>3. n \in U32 /\ n \in (-IntMax - 1 .. 2 * IntMax + 1)
  BY ProfileAssumption DEF U32
<1>4. fill_interface_from_connection(r) =
         [headers |-> h, i5 |-> r.i5, flag |-> flag, fw_mark |-> n]
  BY DEF fill_interface_from_connection
<1> HIDE DEF h, flag, n
<1>5. QED
  BY <1>1, <1>2, <1>3, <1>4 DEF Interface, Form

\* What an editor is opened with.
Opened(c, shown) ==
    [connection |-> c, device |-> LoadedPeers(c),
                      rest |-> fill_interface_from_connection(c.rest[0]),
     private_key |-> c.secrets[0], flags |-> MenuFlags(FlagsOf(c, 0)),
     private_key_changed |-> FALSE, edits |-> 0,
     stored |-> store # NoProfile, shown |-> shown]

LEMMA OpenForm ==
    ASSUME TypeOK, init_editor_plugin
    PROVE  \E shown \in BOOLEAN, c \in Connection :
              /\ c = IF store = NoProfile THEN Empty
                     ELSE IF shown THEN WithAgent(store)
                     ELSE [store EXCEPT !.secrets = NoSecrets]
              /\ editor' = Opened(c, shown)
              /\ editor' \in Editor /\ Len(editor'.device) <= MaxListed
<1>1. PICK shown \in Shown :
        \E c \in {IF store = NoProfile THEN Empty
                  ELSE IF shown THEN WithAgent(store)
                  ELSE [store EXCEPT !.secrets = NoSecrets]} : editor' = Opened(c, shown)
  BY DEF init_editor_plugin, Opened
<1>2. PICK c : /\ c = IF store = NoProfile THEN Empty
                      ELSE IF shown THEN WithAgent(store)
                      ELSE [store EXCEPT !.secrets = NoSecrets]
               /\ editor' = Opened(c, shown)
  BY <1>1
<1>3. c \in Connection
  <2>1. CASE store = NoProfile
    BY <1>2, <2>1, EmptyType
  <2>2. CASE store # NoProfile
    <3>1. store \in Connection
      BY <2>2 DEF TypeOK
    <3>2. WithAgent(store) \in Connection
      BY <3>1, GivenType DEF TypeOK
    <3>3. [store EXCEPT !.secrets = NoSecrets] \in Connection
      BY <3>1, EmptyType DEF Connection
    <3>4. QED
      BY <1>2, <2>2, <3>2, <3>3
  <2>3. QED
    BY <2>1, <2>2
<1>4. LoadedPeers(c) \in Seq(Peer) /\ Len(LoadedPeers(c)) <= MaxListed
  BY <1>3, LoadedType
<1>5. MenuFlags(FlagsOf(c, 0)) \in Flags \ {"notrequired"}
  BY <1>3, ItemFacts DEF MenuFlags, FlagsOf, Flags, Connection
<1>6. c.rest[0] \in Interface /\ c.secrets[0] \in KeyTexts \cup {None}
  BY <1>3, ItemFacts DEF Connection, Secrets, RestItems
<1>a. fill_interface_from_connection(c.rest[0]) \in Form
  BY <1>6, ShownInterface
<1>7. shown \in BOOLEAN /\ 0 \in 0 .. MaxEdits
  BY ProfileAssumption
<1>8. Opened(c, shown) \in Editor /\ Opened(c, shown).device = LoadedPeers(c)
  <2> DEFINE rest == fill_interface_from_connection(c.rest[0])
             device == LoadedPeers(c)
             flags == MenuFlags(FlagsOf(c, 0))
  <2>1. /\ rest \in Form /\ device \in Seq(Peer)
        /\ flags \in Flags \ {"notrequired"}
    BY <1>4, <1>5, <1>a
  <2> HIDE DEF rest, device, flags
  <2>2. Opened(c, shown) = [connection |-> c, device |-> device, rest |-> rest,
                            private_key |-> c.secrets[0], flags |-> flags,
                            private_key_changed |-> FALSE, edits |-> 0,
                            stored |-> store # NoProfile, shown |-> shown]
    BY DEF Opened, rest, device, flags
  <2>3. Opened(c, shown) \in Editor
    BY <1>3, <1>6, <1>7, <2>1, <2>2 DEF Editor
  <2>4. QED
    BY <2>2, <2>3 DEF device
<1>9. QED
  BY <1>2, <1>3, <1>4, <1>7, <1>8

-----------------------------------------------------------------------------
(* Steps of the profile.                                                   *)

\* NetworkManager keeps all of an update but secrets; those that it carries are
\* found again with NetworkManager or the agent, but for the ones asked for.
LEMMA UpdateKeeps ==
    ASSUME TypeOK, NEW c \in Connection, Update(c)
    PROVE  /\ store' \in Connection /\ store' # NoProfile /\ agent' \in Secrets
           /\ store'.public_key = c.public_key /\ store'.rest = c.rest
           /\ store'.flags = c.flags
           /\ KeeperInv'
           /\ Carries(c) \/ store = NoProfile =>
                 /\ \A i \in Items : WithAgent(store)'.secrets[i] =
                        IF c.flags[i] = "notsaved" THEN None ELSE c.secrets[i]
                 /\ store'.secrets = StoredSecrets(c, c.secrets)
                 /\ agent' = AgentSecrets(c, c.secrets)
           /\ ~Carries(c) /\ store # NoProfile =>
                 store'.secrets = StoredSecrets(c, store.secrets) /\ agent' = agent
<1>1. store' \in Connection /\ store' # NoProfile /\ agent' \in Secrets
  BY UpdateType, ProfileAssumption DEF TypeOK
<1>2. PICK s : store' = [c EXCEPT !.secrets = StoredSecrets(c, s)]
  BY DEF Update
<1>3. /\ store'.public_key = c.public_key /\ store'.rest = c.rest /\ store'.flags = c.flags
      /\ store'.secrets = StoredSecrets(c, s)
  BY <1>2 DEF Connection
<1>4. KeeperInv'
  BY <1>1, <1>3 DEF KeeperInv, StoredSecrets
<1>5. ASSUME Carries(c) \/ store = NoProfile
      PROVE  store'.secrets = StoredSecrets(c, c.secrets) /\ agent' = AgentSecrets(c, c.secrets)
  BY <1>5 DEF Update, Connection
<1>6. ASSUME ~Carries(c), store # NoProfile
      PROVE  store'.secrets = StoredSecrets(c, store.secrets) /\ agent' = agent
  BY <1>6 DEF Update, Connection
<1>7. ASSUME Carries(c) \/ store = NoProfile, NEW i \in Items
      PROVE  WithAgent(store)'.secrets[i] = IF c.flags[i] = "notsaved" THEN None ELSE c.secrets[i]
  <2>1. WithAgent(store)'.secrets[i] =
           IF store'.flags[i] = "agent" /\ store'.secrets[i] = None THEN agent'[i] ELSE store'.secrets[i]
    BY <1>1 DEF WithAgent, Connection
  <2>2. /\ store'.secrets[i] = IF c.flags[i] \in {"agent", "notsaved"} THEN None ELSE c.secrets[i]
        /\ agent'[i] = IF c.flags[i] = "agent" THEN c.secrets[i] ELSE None
    BY <1>5, <1>7 DEF StoredSecrets, AgentSecrets
  <2>3. QED
    BY <1>3, <2>1, <2>2
<1>8. QED
  BY <1>1, <1>3, <1>4, <1>5, <1>6, <1>7

\* What the items of a saved editor are.
LEMMA SavedItems ==
    ASSUME NEW e \in Editor
    PROVE  LET c == save_interface_to_connection(e) IN
           /\ c.rest[0] = get_widget_text(e.rest) /\ c.flags[0] = e.flags
           /\ \A i \in Slots :
                 IF i > Len(e.device)
                 THEN /\ c.public_key[i] = None /\ c.rest[i] = None /\ c.flags[i] = None
                      /\ c.secrets[i] = None
                 ELSE LET p == e.device[i] IN
                      /\ p \in Peer
                      /\ c.public_key[i] = p.public_key /\ c.rest[i] = p.rest
                      /\ c.flags[i] = p.flags /\ c.secrets[i] = p.psk
<1>1. \A i \in Slots : i \in Items /\ i # 0 /\ i \in Nat \ {0}
  BY ItemFacts DEF Slots
<1>2. 0 \in Items
  BY ItemFacts
<1>3. Len(e.device) \in Nat /\ \A i \in 1 .. Len(e.device) : e.device[i] \in Peer
  BY ElementOfSeq, LenProperties DEF Editor
<1>4. \A i \in Slots : ~(i > Len(e.device)) => i <= Len(e.device) /\ e.device[i] \in Peer
  BY <1>1, <1>3
<1>5. \A i \in Slots : i > Len(e.device) => ~(i <= Len(e.device))
  BY <1>1, <1>3
<1>6. QED
  BY <1>1, <1>2, <1>4, <1>5 DEF save_interface_to_connection, PeerItems

\* What the items of an import are.
LEMMA ImportedItems ==
    ASSUME NEW peers \in Seq(Peer), NEW rest, NEW own
    PROVE  LET c == awg_device_save_to_nm_connection(peers, rest, own) IN
           /\ c.rest[0] = rest /\ c.flags[0] = "none" /\ c.secrets[0] = PrivateKey
           /\ \A i \in Slots :
                 IF i > Len(peers)
                 THEN c.public_key[i] = None /\ c.rest[i] = None /\ c.flags[i] = None
                 ELSE LET p == peers[i] IN
                      /\ p \in Peer
                      /\ c.public_key[i] = p.public_key /\ c.rest[i] = p.rest
                      /\ c.flags[i] = p.flags /\ c.secrets[i] = p.psk
<1>1. \A i \in Slots : i \in Items /\ i # 0 /\ i \in Nat \ {0}
  BY ItemFacts DEF Slots
<1>2. 0 \in Items
  BY ItemFacts
<1>3. Len(peers) \in Nat /\ \A i \in 1 .. Len(peers) : peers[i] \in Peer
  BY ElementOfSeq, LenProperties
<1>4. \A i \in Slots : ~(i > Len(peers)) => i <= Len(peers) /\ peers[i] \in Peer
  BY <1>1, <1>3
<1>5. \A i \in Slots : i > Len(peers) => ~(i <= Len(peers))
  BY <1>1, <1>3
<1> DEFINE d == [Empty EXCEPT !.rest[0] = rest, !.flags[0] = "none", !.secrets[0] = PrivateKey]
<1>6. d.rest[0] = rest /\ d.flags[0] = "none" /\ d.secrets[0] = PrivateKey
  BY <1>2 DEF Empty, NoSecrets
<1>7. awg_device_save_to_nm_connection(peers, rest, own) = [PeerItems(d, peers) EXCEPT !.own_public_key = own]
  BY DEF awg_device_save_to_nm_connection
<1> HIDE DEF d
<1>8. QED
  BY <1>1, <1>2, <1>4, <1>5, <1>6, <1>7 DEF PeerItems

\* The import: a list of peers that parse, in a profile that was not there before.
LEMMA ImportForm ==
    ASSUME import
    PROVE  \E peers \in Seq(Peer), rest \in {r \in Interface : Writable(r)}, own \in BOOLEAN :
              /\ Len(peers) <= MaxListed
              /\ \A i \in DOMAIN peers : peers[i].flags = "none"
              /\ Update(awg_device_save_to_nm_connection(peers, rest, own))
              /\ written' = [peers |-> peers, rest |-> rest, carried |-> TRUE]
<1>a. PICK n \in 1 .. MaxListed, rest \in ImportedInterfaces, own \in BOOLEAN :
           \E peers \in [1 .. n -> Imported] :
              /\ Update(awg_device_save_to_nm_connection(peers, rest, own))
              /\ written' = [peers |-> peers, rest |-> rest, carried |-> TRUE]
  BY DEF import
<1>1. PICK peers \in [1 .. n -> Imported] :
              /\ Update(awg_device_save_to_nm_connection(peers, rest, own))
              /\ written' = [peers |-> peers, rest |-> rest, carried |-> TRUE]
  BY <1>a
<1>2. n \in Nat /\ n <= MaxListed
  BY ProfileAssumption
<1>3. Imported \subseteq Peer /\ \A p \in Imported : p.flags = "none"
  BY ProfileAssumption
<1>4. peers \in [1 .. n -> Peer] /\ DOMAIN peers = 1 .. n
  BY <1>3
<1>5. peers \in Seq(Peer)
  BY <1>2, <1>4, SeqDef
<1>6. Len(peers) <= MaxListed
  BY <1>2, <1>4, <1>5, LenProperties
<1>7. \A i \in DOMAIN peers : peers[i].flags = "none"
  BY <1>3, <1>4
<1>8. rest \in {r \in Interface : Writable(r)}
  BY ProfileAssumption
<1>9. QED
  BY <1>1, <1>5, <1>6, <1>7, <1>8

-----------------------------------------------------------------------------
(* The inductive invariant.                                                *)

\* At first there is no profile, and the rest holds of nothing.
LEMMA InitProfile == Init => ProfileInv
BY EmptyType, ProfileAssumption
   DEF Init, ProfileInv, TypeOK, KeeperInv, WrittenInv, AskedInv, OpenedInv, ShownPskInv, ActivationInv

\* What is known of the profile, the secrets and the last save depends on nothing
\* else.
LEMMA ProfileUnchanged ==
    ASSUME KeeperInv, WrittenInv, UNCHANGED <<store, agent, written>>
    PROVE  /\ KeeperInv' /\ WrittenInv'
           /\ WithAgent(store)' = WithAgent(store) /\ (PsksBelongToPeers' <=> PsksBelongToPeers)
<1>1. WithAgent(store)' = WithAgent(store)
  BY DEF WithAgent
<1>2. KeeperInv'
  BY DEF KeeperInv
<1>3. WrittenInv'
  BY <1>1 DEF WrittenInv
<1>4. PsksBelongToPeers' <=> PsksBelongToPeers
  BY <1>1 DEF PsksBelongToPeers
<1>5. QED
  BY <1>1, <1>2, <1>3, <1>4

\* Import is done where there is no profile, so no activation works on one.
LEMMA ImportStep ==
    ASSUME ProfileInv, import
    PROVE  ProfileInv'
<1>1. PICK peers \in Seq(Peer), rest \in {r \in Interface : Writable(r)}, own \in BOOLEAN :
              /\ Len(peers) <= MaxListed
              /\ \A i \in DOMAIN peers : peers[i].flags = "none"
              /\ Update(awg_device_save_to_nm_connection(peers, rest, own))
              /\ written' = [peers |-> peers, rest |-> rest, carried |-> TRUE]
  BY ImportForm
<1> DEFINE c == awg_device_save_to_nm_connection(peers, rest, own)
<1>2. c \in Connection /\ TypeOK /\ store = NoProfile
  BY ImportType DEF ProfileInv, import
<1>3. /\ c.rest[0] = rest /\ c.flags[0] = "none"
      /\ \A i \in Slots :
            IF i > Len(peers)
            THEN c.public_key[i] = None /\ c.rest[i] = None /\ c.flags[i] = None
            ELSE LET p == peers[i] IN
                 /\ c.public_key[i] = p.public_key /\ c.rest[i] = p.rest
                 /\ c.flags[i] = p.flags /\ c.secrets[i] = p.psk
  BY ImportedItems
<1>4. Update(c)
  BY <1>1
<1> HIDE DEF c
<1>5. /\ store' \in Connection /\ store' # NoProfile /\ agent' \in Secrets
      /\ store'.public_key = c.public_key /\ store'.rest = c.rest
      /\ store'.flags = c.flags /\ KeeperInv'
      /\ \A i \in Items : WithAgent(store)'.secrets[i] =
             IF c.flags[i] = "notsaved" THEN None ELSE c.secrets[i]
  BY <1>2, <1>4, UpdateKeeps
<1>6. /\ editor = NoEditor /\ editor' = editor /\ activation' = activation
      /\ activation = Idle
  BY <1>2 DEF import, ProfileInv, ActivationInv
<1>7. TypeOK'
  BY <1>1, <1>5, <1>6 DEF TypeOK, Written
<1>8. WrittenInv'
  <2>1. written'.peers = peers /\ written'.rest = rest
    BY <1>1
  <2>2. \A i \in Slots : i \in Items
    BY ItemFacts
  <2>3. QED
    BY <1>3, <1>5, <2>1, <2>2 DEF WrittenInv, Flags
<1>9. AskedInv'
  BY <1>1, <1>6 DEF AskedInv, AskedAreKnown
<1>10. OpenedInv' /\ ShownPskInv' /\ ActivationInv'
  BY <1>6 DEF OpenedInv, ShownPskInv, ActivationInv
<1>11. QED
  BY <1>5, <1>7, <1>8, <1>9, <1>10 DEF ProfileInv

\* A profile written by hand is remembered as no save.
LEMMA NmcliStep ==
    ASSUME ProfileInv, nmcli
    PROVE  ProfileInv'
<1>1. PICK c \in HandWritten : Update(c)
  BY DEF nmcli
<1>2. c \in Connection /\ TypeOK /\ store = NoProfile
  BY ProfileAssumption DEF ProfileInv, nmcli
<1>3. store' \in Connection /\ agent' \in Secrets /\ KeeperInv'
  BY <1>1, <1>2, UpdateKeeps
<1>4. /\ editor = NoEditor /\ editor' = editor /\ activation' = activation
      /\ activation = Idle /\ written' = None
  BY <1>2 DEF nmcli, ProfileInv, ActivationInv
<1>5. TypeOK'
  BY <1>3, <1>4 DEF TypeOK
<1>6. WrittenInv' /\ AskedInv' /\ OpenedInv' /\ ShownPskInv' /\ ActivationInv'
  BY <1>4 DEF WrittenInv, AskedInv, OpenedInv, ShownPskInv, ActivationInv
<1>7. QED
  BY <1>3, <1>5, <1>6 DEF ProfileInv

\* What loads as asked for each time has no preshared key: nobody keeps it.
LEMMA OpenStep ==
    ASSUME ProfileInv, init_editor_plugin
    PROVE  ProfileInv'
<1>1. TypeOK /\ KeeperInv /\ WrittenInv /\ AskedInv
  BY DEF ProfileInv
<1>2. PICK shown \in BOOLEAN, c \in Connection :
              /\ c = IF store = NoProfile THEN Empty
                     ELSE IF shown THEN WithAgent(store)
                     ELSE [store EXCEPT !.secrets = NoSecrets]
              /\ editor' = Opened(c, shown)
              /\ editor' \in Editor /\ Len(editor'.device) <= MaxListed
  BY <1>1, OpenForm
<1>3. activation = Idle /\ UNCHANGED <<store, agent, activation, written>>
  BY DEF init_editor_plugin
<1>4. KeeperInv' /\ WrittenInv' /\ WithAgent(store)' = WithAgent(store)
      /\ (PsksBelongToPeers' <=> PsksBelongToPeers)
  BY <1>1, <1>3, ProfileUnchanged
<1>5. TypeOK'
  BY <1>1, <1>2, <1>3 DEF TypeOK
<1>6. /\ editor'.connection = c /\ editor'.device = LoadedPeers(c)
      /\ editor'.rest = fill_interface_from_connection(c.rest[0])
      /\ editor'.private_key = c.secrets[0] /\ editor'.flags = MenuFlags(FlagsOf(c, 0))
      /\ ~editor'.private_key_changed /\ editor'.stored = (store # NoProfile)
      /\ editor'.shown = shown
  BY <1>2 DEF Opened
<1>7. OpenedInv'
  BY <1>2, <1>3, <1>4, <1>6 DEF OpenedInv
<1>8. \A k \in DOMAIN editor'.device :
         \E i \in Slots : /\ editor'.device[k] = PeerAt(c, i)
                          /\ awg_device_peer_is_valid(PeerAt(c, i))
  BY <1>6, LoadedFacts
<1>9. \A i \in Slots : i \in Items
  BY ItemFacts
<1>10. \A i \in Slots : /\ FlagsOf(c, i) = "notsaved" => c.secrets[i] = None
                        /\ c.secrets[i] # None =>
                              /\ store # NoProfile /\ c.public_key[i] = store.public_key[i]
                              /\ shown => c.secrets[i] = WithAgent(store).secrets[i]
  <2>1. CASE store = NoProfile
    BY <1>2, <1>9, <2>1 DEF Empty, NoSecrets
  <2>2. CASE store # NoProfile /\ shown
    <3>1. store \in Connection
      BY <1>1, <2>2 DEF TypeOK
    <3>2. c.flags = store.flags /\ c.public_key = store.public_key
      BY <1>2, <2>2, <3>1 DEF WithAgent, Connection
    <3>3. \A i \in Items : c.secrets[i] =
             IF store.flags[i] = "agent" /\ store.secrets[i] = None THEN agent[i] ELSE store.secrets[i]
      BY <1>2, <2>2, <3>1 DEF WithAgent, Connection
    <3>4. \A i \in Items : FlagsOf(c, i) = "notsaved" => c.secrets[i] = None
      BY <1>1, <2>2, <3>2, <3>3 DEF KeeperInv, FlagsOf
    <3>5. QED
      BY <1>2, <1>9, <2>2, <3>2, <3>4
  <2>3. CASE store # NoProfile /\ ~shown
    <3>1. c.secrets = NoSecrets
      BY <1>1, <1>2, <2>3 DEF TypeOK, Connection
    <3>2. QED
      BY <1>9, <3>1 DEF NoSecrets
  <2>4. QED
    BY <2>1, <2>2, <2>3
<1>11. AskedInv'
  <2> DEFINE d == editor'.device
  <2>1. ASSUME NEW k \in DOMAIN d, d[k].flags = "notsaved" PROVE d[k].psk = None
    <3>1. PICK i \in Slots : d[k] = PeerAt(c, i)
      BY <1>8
    <3>2. d[k].flags = FlagsOf(c, i) /\ d[k].psk = c.secrets[i]
      BY <3>1 DEF PeerAt
    <3>3. QED
      BY <1>10, <2>1, <3>2
  <2> HIDE DEF d
  <2>2. AskedAreKnown(d)
    BY <2>1 DEF AskedAreKnown
  <2>3. AskedAreKnown(editor'.device)
    BY <2>2 DEF d
  <2>4. QED
    BY <1>1, <1>3, <2>3 DEF AskedInv
<1>12. ShownPskInv'
  <2> SUFFICES ASSUME shown, PsksBelongToPeers, NEW k \in DOMAIN editor'.device
               PROVE  editor'.device[k].psk \in {PskOf[editor'.device[k].public_key], None}
    BY <1>4, <1>6 DEF ShownPskInv
  <2>1. PICK i \in Slots : editor'.device[k] = PeerAt(c, i)
    BY <1>8
  <2>2. CASE c.secrets[i] = None
    BY <2>1, <2>2 DEF PeerAt
  <2>3. CASE c.secrets[i] # None
    <3>1. c.secrets[i] = PskOf[c.public_key[i]]
      BY <1>10, <2>3 DEF PsksBelongToPeers
    <3>2. QED
      BY <2>1, <3>1 DEF PeerAt
  <2>4. QED
    BY <2>2, <2>3
<1>13. ActivationInv'
  BY <1>3 DEF ActivationInv
<1>14. QED
  BY <1>4, <1>5, <1>7, <1>11, <1>12, <1>13 DEF ProfileInv

\* An edited list holds peers it held before and peers the user knows the keys of.
LEMMA EditedStep ==
    ASSUME ProfileInv, Edit
    PROVE  ProfileInv'
<1>1. TypeOK /\ KeeperInv /\ WrittenInv /\ AskedInv /\ OpenedInv /\ ShownPskInv
  BY DEF ProfileInv
<1>2. PICK e \in Editor :
              /\ Changed(e)
              /\ e.edits = editor.edits /\ e.edits < MaxEdits
              /\ e.shown = editor.shown /\ e.stored = editor.stored
              /\ Len(e.device) <= MaxListed
              /\ FromListOr(e.device, editor.device, Offered)
  BY <1>1, EditForm
<1>3. /\ editor' \in Editor /\ editor'.edits > 0
      /\ editor'.device = e.device /\ editor'.shown = e.shown /\ editor'.stored = e.stored
  BY <1>2, ChangedType
<1>4. editor # NoEditor /\ UNCHANGED <<store, agent, activation, written>>
  BY DEF Edit
<1>5. activation = Idle /\ editor.stored = (store # NoProfile)
  BY <1>1, <1>4 DEF OpenedInv
<1>6. KeeperInv' /\ WrittenInv' /\ (PsksBelongToPeers' <=> PsksBelongToPeers)
  BY <1>1, <1>4, ProfileUnchanged
<1>7. TypeOK'
  BY <1>1, <1>2, <1>3, <1>4 DEF TypeOK
<1>8. OpenedInv'
  <2>1. editor'.edits # 0
    BY <1>3 DEF Editor
  <2>2. QED
    BY <1>2, <1>3, <1>4, <1>5, <2>1 DEF OpenedInv
<1>9. \A p \in Offered : p.psk \in {PskOf[p.public_key], None}
  BY ProfileAssumption
<1>10. AskedInv'
  <2>1. AskedAreKnown(editor.device)
    BY <1>1, <1>4 DEF AskedInv
  <2>2. AskedAreKnown(e.device)
    BY <1>2, <1>9, <2>1 DEF FromListOr, AskedAreKnown
  <2>3. QED
    BY <1>1, <1>3, <1>4, <2>2 DEF AskedInv
<1>11. ShownPskInv'
  <2> SUFFICES ASSUME editor.shown, PsksBelongToPeers, NEW i \in DOMAIN e.device
               PROVE  e.device[i].psk \in {PskOf[e.device[i].public_key], None}
    BY <1>2, <1>3, <1>6 DEF ShownPskInv
  <2>1. e.device[i] \in Offered \/ \E j \in DOMAIN editor.device : e.device[i] = editor.device[j]
    BY <1>2 DEF FromListOr
  <2>2. QED
    BY <1>1, <1>4, <1>9, <2>1 DEF ShownPskInv
<1>12. ActivationInv'
  BY <1>4, <1>5 DEF ActivationInv
<1>13. QED
  BY <1>6, <1>7, <1>8, <1>10, <1>11, <1>12 DEF ProfileInv

\* What is saved is the list of the editor.
LEMMA SaveStep ==
    ASSUME ProfileInv, Save
    PROVE  ProfileInv'
<1>1. TypeOK /\ AskedInv /\ OpenedInv
  BY DEF ProfileInv
<1> DEFINE c == save_interface_to_connection(editor)
<1>2. /\ editor # NoEditor /\ editor' = NoEditor /\ activation' = activation
      /\ Update(c)
      /\ written' = [peers |-> editor.device, rest |-> get_widget_text(editor.rest),
                   carried |-> Carries(c)]
  BY DEF Save
<1>3. editor \in Editor /\ Len(editor.device) <= MaxListed /\ activation = Idle
  BY <1>1, <1>2 DEF TypeOK, OpenedInv
<1>b. awg_validate_magic_headers_no_overlap(editor.rest.headers)
  BY DEF Save, check_validity
<1>4. c \in Connection
  BY <1>3, SaveType
<1>5. /\ c.rest[0] = get_widget_text(editor.rest) /\ c.flags[0] = editor.flags
      /\ \A i \in Slots :
            IF i > Len(editor.device)
            THEN c.public_key[i] = None /\ c.rest[i] = None /\ c.flags[i] = None
            ELSE LET p == editor.device[i] IN
                 /\ c.public_key[i] = p.public_key /\ c.rest[i] = p.rest
                 /\ c.flags[i] = p.flags /\ c.secrets[i] = p.psk
  BY <1>3, SavedItems
<1> HIDE DEF c
<1>6. /\ store' \in Connection /\ store' # NoProfile /\ agent' \in Secrets
      /\ store'.public_key = c.public_key /\ store'.rest = c.rest
      /\ store'.flags = c.flags /\ KeeperInv'
      /\ Carries(c) => \A i \in Items : WithAgent(store)'.secrets[i] =
             IF c.flags[i] = "notsaved" THEN None ELSE c.secrets[i]
  BY <1>1, <1>2, <1>4, UpdateKeeps
<1>7. /\ written'.peers = editor.device /\ written'.rest = get_widget_text(editor.rest)
      /\ written'.carried = Carries(c)
  BY <1>2
<1>8. TypeOK'
  <2>1. written' \in Written
    <3>0. editor.rest \in Form /\ editor.rest.flag # "true"
      BY <1>3 DEF Editor, Form
    <3>1. get_widget_text(editor.rest) \in {r \in Interface : Writable(r)}
      BY <1>b, <3>0, ReadBack DEF Writable
    <3>2. QED
      BY <1>2, <1>3, <3>1 DEF Written, Editor, Carries
  <2>2. QED
    BY <1>1, <1>2, <1>3, <1>6, <1>7, <2>1 DEF TypeOK
<1>9. WrittenInv'
  <2>1. \A i \in Slots : i \in Items
    BY ItemFacts
  <2>2. editor.flags \in Flags \ {"notrequired"}
    BY <1>3 DEF Editor
  <2>3. QED
    BY <1>5, <1>6, <1>7, <2>1, <2>2 DEF WrittenInv
<1>10. AskedInv'
  BY <1>1, <1>2, <1>7 DEF AskedInv
<1>11. OpenedInv' /\ ShownPskInv' /\ ActivationInv'
  BY <1>2, <1>3 DEF OpenedInv, ShownPskInv, ActivationInv
<1>12. QED
  BY <1>6, <1>8, <1>9, <1>10, <1>11 DEF ProfileInv

\* A closed editor leaves the profile alone.
LEMMA CloseStep ==
    ASSUME ProfileInv, Close
    PROVE  ProfileInv'
<1>1. editor # NoEditor /\ editor' = NoEditor /\ UNCHANGED <<store, agent, activation, written>>
  BY DEF Close
<1>2. TypeOK /\ KeeperInv /\ WrittenInv /\ AskedInv /\ activation = Idle
  BY <1>1 DEF ProfileInv, OpenedInv
<1>3. KeeperInv' /\ WrittenInv'
  BY <1>1, <1>2, ProfileUnchanged
<1>4. TypeOK' /\ AskedInv' /\ OpenedInv' /\ ShownPskInv' /\ ActivationInv'
  BY <1>1, <1>2 DEF TypeOK, AskedInv, OpenedInv, ShownPskInv, ActivationInv
<1>5. QED
  BY <1>3, <1>4 DEF ProfileInv

\* A step of an activation changes nothing else.
LEMMA QuietStep ==
    ASSUME ProfileInv, UNCHANGED <<store, agent, editor, written>>,
           activation' \in {Idle} \cup [state : States, connection : Connection],
           editor # NoEditor => activation' = Idle, ActivationInv'
    PROVE  ProfileInv'
<1>1. /\ TypeOK /\ KeeperInv /\ WrittenInv /\ AskedInv /\ OpenedInv /\ ShownPskInv
      /\ UNCHANGED <<store, agent, written>> /\ editor' = editor
  BY DEF ProfileInv
<1>2. /\ KeeperInv' /\ WrittenInv' /\ WithAgent(store)' = WithAgent(store)
      /\ (PsksBelongToPeers' <=> PsksBelongToPeers)
  BY <1>1, ProfileUnchanged
<1>3. TypeOK'
  BY <1>1 DEF TypeOK
<1>4. AskedInv' /\ ShownPskInv'
  BY <1>1, <1>2 DEF AskedInv, ShownPskInv
<1>5. OpenedInv'
  BY <1>1, <1>2 DEF OpenedInv
<1>6. QED
  BY <1>2, <1>3, <1>4, <1>5 DEF ProfileInv

\* What the states of an activation are.
LEMMA ActivationFacts ==
    ASSUME TypeOK, activation.state # "idle"
    PROVE  /\ activation # Idle
           /\ activation \in [state : States, connection : Connection]
BY DEF TypeOK, Idle

\* An activation begins with the stored profile.
LEMMA ActivateStep ==
    ASSUME ProfileInv, Activate
    PROVE  ProfileInv'
<1>1. /\ TypeOK /\ store # NoProfile /\ editor = NoEditor
      /\ activation' = [state |-> "stored", connection |-> store]
      /\ UNCHANGED <<store, agent, editor, written>>
  BY DEF ProfileInv, Activate
<1>2. activation' \in [state : States, connection : Connection]
  BY <1>1 DEF TypeOK, States
<1>3. ActivationInv'
  BY <1>1 DEF ActivationInv
<1>4. QED
  BY <1>1, <1>2, <1>3, QuietStep

\* The agent adds its secrets to the stored ones, then the user what is missing.
LEMMA NeedSecretsStep ==
    ASSUME ProfileInv, NeedSecrets
    PROVE  ProfileInv'
<1>1. /\ TypeOK /\ ActivationInv /\ agent \in Secrets
      /\ UNCHANGED <<store, agent, editor, written>>
  BY DEF ProfileInv, TypeOK, NeedSecrets
<1>2. activation.state \in {"stored", "agent"}
  BY DEF NeedSecrets
<1>3. activation # Idle /\ activation.connection \in Connection
  BY <1>1, <1>2, ActivationFacts
<1>4. store # NoProfile /\ editor = NoEditor
  BY <1>1, <1>3 DEF ActivationInv
<1>5. WithAgent(store)' = WithAgent(store)
  BY <1>1 DEF WithAgent
<1>6. CASE /\ activation.state = "stored"
           /\ activation' = [state |-> "agent", connection |-> WithAgent(activation.connection)]
  <2>1. activation.connection = store
    BY <1>1, <1>3, <1>6 DEF ActivationInv
  <2>2. WithAgent(store) \in Connection
    BY <1>1, <1>3, <2>1, GivenType
  <2>3. activation' \in [state : States, connection : Connection]
    BY <1>6, <2>1, <2>2 DEF States
  <2>4. ActivationInv'
    BY <1>1, <1>4, <1>5, <1>6, <2>1 DEF ActivationInv
  <2>5. QED
    BY <1>1, <1>4, <2>3, <2>4, QuietStep
<1>7. CASE /\ activation.state = "agent"
           /\ activation' = [state |-> "user", connection |-> WithUser(activation.connection)]
  <2>1. activation.connection = WithAgent(store)
    BY <1>1, <1>3, <1>7 DEF ActivationInv
  <2>2. WithUser(WithAgent(store)) \in Connection
    BY <1>1, <1>3, <2>1, GivenType
  <2>3. activation' \in [state : States, connection : Connection]
    BY <1>7, <2>1, <2>2 DEF States
  <2>4. activation'.connection = WithUser(WithAgent(store)) /\ activation'.state = "user"
    BY <1>7, <2>1
  <2>5. ActivationInv'
    BY <1>1, <1>4, <1>5, <2>4 DEF ActivationInv
  <2>6. QED
    BY <1>1, <1>4, <2>3, <2>5, QuietStep
<1>8. QED
  BY <1>6, <1>7 DEF NeedSecrets

\* The service looks at the connection it was given and changes nothing in it.
LEMMA ServiceStep ==
    ASSUME ProfileInv, wg_new_secrets \/ Connect \/ Deactivate
    PROVE  ProfileInv'
<1>1. TypeOK /\ ActivationInv /\ UNCHANGED <<store, agent, editor, written>>
  BY DEF ProfileInv, wg_new_secrets, Connect, Deactivate
<1>2. activation.state \in {"stored", "agent", "user", "connected", "refused", "invalid"}
  BY DEF wg_new_secrets, Connect, Deactivate
<1>3. activation # Idle /\ activation \in [state : States, connection : Connection]
  BY <1>1, <1>2, ActivationFacts
<1>4. store # NoProfile /\ editor = NoEditor
  BY <1>1, <1>3 DEF ActivationInv
<1>5. WithAgent(store)' = WithAgent(store)
  BY <1>1 DEF WithAgent
<1>6. ASSUME NEW s \in States, activation' = [activation EXCEPT !.state = s]
      PROVE  /\ activation' \in [state : States, connection : Connection]
             /\ activation'.state = s /\ activation'.connection = activation.connection
  BY <1>3, <1>6
<1>7. CASE wg_new_secrets
  <2>1. /\ activation.state = "user" /\ wg_need_secrets(activation.connection)
        /\ activation' = [activation EXCEPT !.state = "refused"]
    BY <1>7 DEF wg_new_secrets
  <2>2. /\ activation' \in [state : States, connection : Connection]
        /\ activation'.state = "refused" /\ activation'.connection = activation.connection
    BY <1>6, <2>1 DEF States
  <2>3. activation.connection = WithUser(WithAgent(store))
    BY <1>1, <1>3, <2>1 DEF ActivationInv
  <2>4. ActivationInv'
    BY <1>1, <1>4, <1>5, <2>1, <2>2, <2>3 DEF ActivationInv
  <2>5. QED
    BY <1>1, <1>4, <2>2, <2>4, QuietStep
<1>8. CASE Connect
  <2>1. PICK s \in {"connected", "invalid"} :
           /\ activation' = [activation EXCEPT !.state = s]
           /\ s = "invalid" => ~awg_device_is_valid(activation.connection)
    BY <1>8 DEF Connect
  <2>2. /\ activation' \in [state : States, connection : Connection]
        /\ activation'.state = s /\ activation'.connection = activation.connection
    BY <1>6, <2>1 DEF States
  <2>3. /\ ~wg_need_secrets(activation.connection)
        /\ activation.connection \in {store, WithAgent(store), WithUser(WithAgent(store))}
    BY <1>1, <1>3, <1>8 DEF Connect, ActivationInv
  <2>4. ActivationInv'
    BY <1>1, <1>4, <1>5, <2>1, <2>2, <2>3 DEF ActivationInv
  <2>5. QED
    BY <1>1, <1>4, <2>2, <2>4, QuietStep
<1>9. CASE Deactivate
  <2>1. activation' = Idle
    BY <1>9 DEF Deactivate
  <2>2. ActivationInv'
    BY <2>1 DEF ActivationInv
  <2>3. QED
    BY <1>1, <2>1, <2>2, QuietStep
<1>10. QED
  BY <1>7, <1>8, <1>9

\* Every step keeps the invariant.
LEMMA ProfileStep == ProfileInv /\ [Next]_vars => ProfileInv'
<1> SUFFICES ASSUME ProfileInv, [Next]_vars PROVE ProfileInv'
  OBVIOUS
<1>1. CASE UNCHANGED vars
  <2>1. /\ UNCHANGED <<store, agent, editor, written>> /\ activation' = activation
        /\ TypeOK /\ OpenedInv /\ ActivationInv
    BY <1>1 DEF vars, ProfileInv
  <2>2. WithAgent(store)' = WithAgent(store)
    BY <2>1 DEF WithAgent
  <2>3. ActivationInv'
    BY <2>1, <2>2 DEF ActivationInv
  <2>4. /\ activation' \in {Idle} \cup [state : States, connection : Connection]
        /\ editor # NoEditor => activation' = Idle
    BY <2>1 DEF TypeOK, OpenedInv
  <2>5. QED
    BY <2>1, <2>3, <2>4, QuietStep
<1>2. CASE Next
  BY <1>2, ImportStep, NmcliStep, OpenStep, EditedStep, SaveStep, CloseStep,
     ActivateStep, NeedSecretsStep, ServiceStep DEF Next
<1>3. QED
  BY <1>1, <1>2

\* The invariant holds for any peers, any profiles and any number of slots.
THEOREM ProfileInvariance == Spec => []ProfileInv
BY InitProfile, ProfileStep, PTL DEF Spec

\* Every variable has its type, and no list outgrows MaxListed.
THEOREM ProfileTypeCorrect == Spec => []TypeOK
<1>1. ProfileInv => TypeOK
  BY DEF ProfileInv
<1>2. QED
  BY <1>1, ProfileInvariance, PTL

-----------------------------------------------------------------------------
(* What follows for the saved profile.                                     *)

\* A connection with the items of a saved profile loads as the readable peers
\* that were saved, with the secrets the connection has.
LEMMA SavedLoads ==
    ASSUME TypeOK, WrittenInv, written # None, NEW c,
           c.public_key = store.public_key, c.rest = store.rest, c.flags = store.flags
    PROVE  LET slots == Readable(written.peers)
               loaded == LoadedPeers(c) IN
           /\ store \in Connection
           /\ Cardinality(slots) \in Nat /\ (slots # {} => Cardinality(slots) # 0)
           /\ Len(loaded) = Cardinality(slots) /\ DOMAIN loaded = 1 .. Cardinality(slots)
           /\ \A i \in slots : /\ i \in Slots /\ i <= MaxPeers /\ i \in DOMAIN written.peers
                                /\ ~(i > Len(written.peers)) /\ written.peers[i] \in Peer
           /\ \A k \in 1 .. Cardinality(slots) :
                 LET i == Nth(slots, k) IN
                 /\ i \in slots
                 /\ loaded[k].public_key = written.peers[i].public_key /\ loaded[k].psk = c.secrets[i]
                 /\ loaded[k].flags = written.peers[i].flags /\ loaded[k].rest = written.peers[i].rest
<1> DEFINE peers == written.peers
           n == Len(peers)
           slots == Readable(peers)
<1>1. /\ store \in Connection /\ peers \in Seq(Peer) /\ n \in 0 .. MaxListed
      /\ \A i \in 1 .. n : peers[i] \in Peer
      /\ DOMAIN peers = 1 .. n
  BY ElementOfSeq, LenProperties, ProfileAssumption DEF TypeOK, WrittenInv, Written
<1>2. /\ n \in Nat /\ 1 .. n \subseteq Slots
      /\ \A i \in 1 .. n : ~(i > n)
      /\ \A i \in Slots : ~(i > n) => i \in 1 .. n
  BY <1>1, ProfileAssumption DEF Slots
<1> HIDE DEF peers, n
<1>3. \A i \in 1 .. n : /\ store.public_key[i] = peers[i].public_key
                        /\ store.rest[i] = peers[i].rest /\ store.flags[i] = peers[i].flags
  BY <1>2 DEF WrittenInv, peers, n
<1>4. \A i \in Slots : (c.public_key[i] # None) <=> i <= n
  <2>1. \A i \in Slots : i > n => store.public_key[i] = None
    BY DEF WrittenInv, peers, n
  <2>2. \A i \in 1 .. n : store.public_key[i] # None
    BY <1>1, <1>3, ProfileAssumption DEF Peer
  <2>3. \A i \in Slots : i > n <=> ~(i <= n)
    BY <1>1 DEF Slots
  <2>4. QED
    BY <1>2, <2>1, <2>2, <2>3
<1>5. \A i \in 1 .. n : PeerAt(c, i) = [public_key |-> peers[i].public_key, psk |-> c.secrets[i],
                                        flags |-> peers[i].flags, rest |-> peers[i].rest]
  BY <1>1, <1>3, ProfileAssumption DEF PeerAt, FlagsOf, Peer
<1>6. \A i \in 1 .. n : awg_device_peer_is_valid(PeerAt(c, i)) <=> peers[i].rest # None
  BY <1>1, <1>5 DEF awg_device_peer_is_valid, Peer
<1>7. slots = {i \in 1 .. n : i <= MaxPeers /\ peers[i].rest # None}
  BY <1>1 DEF Readable
<1>8. ValidSlots(c) = slots
  BY <1>1, <1>4, <1>6, <1>7, LoadedOfPrefix
<1>9. \A i \in slots : /\ i \in Slots /\ i <= MaxPeers /\ i \in DOMAIN peers
                       /\ ~(i > n) /\ peers[i] \in Peer /\ i \in 1 .. n
  BY <1>1, <1>2, <1>7
<1> HIDE DEF slots
<1>10. IsFiniteSet(slots) /\ Cardinality(slots) \in Nat /\ (slots # {} => Cardinality(slots) # 0)
  <2>1. slots \in SUBSET (1 .. n)
    BY <1>9
  <2>2. IsFiniteSet(slots)
    BY <1>2, <2>1, IntervalSize, FS_Subset
  <2>3. QED
    BY <2>2, FS_CardinalityType, FS_EmptySet
<1>11. LoadedPeers(c) = [k \in 1 .. Cardinality(slots) |-> PeerAt(c, Nth(slots, k))]
  BY <1>8 DEF LoadedPeers
<1>12. Len(LoadedPeers(c)) = Cardinality(slots) /\ DOMAIN LoadedPeers(c) = 1 .. Cardinality(slots)
  BY <1>10, <1>11
<1>13. ASSUME NEW k \in 1 .. Cardinality(slots)
       PROVE  LET i == Nth(slots, k) IN
              /\ i \in slots
              /\ LoadedPeers(c)[k].public_key = peers[i].public_key
              /\ LoadedPeers(c)[k].psk = c.secrets[i]
              /\ LoadedPeers(c)[k].flags = peers[i].flags /\ LoadedPeers(c)[k].rest = peers[i].rest
  <2> DEFINE i == Nth(slots, k)
  <2>1. i \in slots
    <3>1. slots \subseteq 1 .. n
      BY <1>9
    <3>2. QED
      BY <1>2, <3>1, RankExists
  <2>2. LoadedPeers(c)[k] = PeerAt(c, i)
    BY <1>11
  <2> HIDE DEF i
  <2>3. QED
    BY <1>5, <1>9, <2>1, <2>2 DEF i
<1>14. Len(peers) = n
  BY DEF n
<1>15. QED
  BY <1>1, <1>9, <1>10, <1>12, <1>13, <1>14 DEF peers, slots

\* What the agent and the user add are secrets, and nothing else.
LEMMA GivenItems ==
    ASSUME NEW c \in Connection
    PROVE  LET a == WithAgent(c)
               u == WithUser(c) IN
           /\ a.public_key = c.public_key /\ a.rest = c.rest /\ a.flags = c.flags
           /\ u.public_key = c.public_key /\ u.rest = c.rest /\ u.flags = c.flags
           /\ \A i \in Items :
                 /\ a.secrets[i] = IF c.flags[i] = "agent" /\ c.secrets[i] = None
                                   THEN agent[i] ELSE c.secrets[i]
                 /\ u.secrets[i] = IF c.secrets[i] # None THEN c.secrets[i] ELSE Known(c, i)
BY DEF WithAgent, WithUser, Connection

\* A saved profile is loaded as it was saved: any number of peers, any order of
\* edits, whichever profile the items were written over.
THEOREM WhatIsWrittenIsLoaded == Spec => []WrittenIsLoaded
<1>1. ProfileInv => WrittenIsLoaded
  <2> DEFINE c == WithAgent(store)
             slots == Readable(written.peers)
             loaded == LoadedPeers(c)
  <2> SUFFICES ASSUME ProfileInv, written # None
               PROVE  /\ store.rest[0] = written.rest
                      /\ Len(loaded) = Cardinality(slots)
                      /\ \A k \in DOMAIN loaded :
                            LET saved == written.peers[Nth(slots, k)] IN
                            /\ loaded[k].public_key = saved.public_key
                            /\ loaded[k].rest = saved.rest /\ loaded[k].flags = saved.flags
                            /\ written.carried =>
                                  loaded[k].psk = IF saved.flags = "notsaved" THEN None ELSE saved.psk
    BY DEF WrittenIsLoaded
  <2>1. TypeOK /\ WrittenInv /\ store \in Connection
    BY DEF ProfileInv, TypeOK, WrittenInv
  <2>2. c.public_key = store.public_key /\ c.rest = store.rest /\ c.flags = store.flags
    BY <2>1, GivenItems
  <2>3. /\ Len(loaded) = Cardinality(slots) /\ DOMAIN loaded = 1 .. Cardinality(slots)
        /\ \A i \in slots : i \in Slots /\ ~(i > Len(written.peers))
        /\ \A k \in 1 .. Cardinality(slots) :
              LET i == Nth(slots, k) IN
              /\ i \in slots
              /\ loaded[k].public_key = written.peers[i].public_key /\ loaded[k].psk = c.secrets[i]
              /\ loaded[k].flags = written.peers[i].flags /\ loaded[k].rest = written.peers[i].rest
    BY <2>1, <2>2, SavedLoads
  <2> HIDE DEF slots, loaded
  <2>4. \A i \in slots : written.carried =>
           c.secrets[i] = IF written.peers[i].flags = "notsaved" THEN None ELSE written.peers[i].psk
    BY <2>1, <2>3 DEF WrittenInv
  <2>5. store.rest[0] = written.rest
    BY <2>1 DEF WrittenInv
  <2>6. QED
    BY <2>3, <2>4, <2>5
<1>2. QED
  BY <1>1, ProfileInvariance, PTL

\* A tunnel that comes up has every preshared key its peers were saved with.
THEOREM TunnelsHaveTheirPsks == Spec => []TunnelHasItsPsks
<1>1. ProfileInv => TunnelHasItsPsks
  <2> DEFINE c == activation.connection
             slots == Readable(written.peers)
             loaded == LoadedPeers(c)
  <2> SUFFICES ASSUME ProfileInv, activation.state = "connected", written # None, written.carried
               PROVE  /\ Len(loaded) = Cardinality(slots)
                      /\ \A k \in DOMAIN loaded :
                            LET saved == written.peers[Nth(slots, k)] IN
                            saved.psk # None => loaded[k].psk = saved.psk
    BY DEF TunnelHasItsPsks
  <2>1. TypeOK /\ KeeperInv /\ WrittenInv /\ AskedInv /\ ActivationInv /\ store \in Connection
        /\ store # NoProfile /\ agent \in Secrets
    BY DEF ProfileInv, TypeOK, WrittenInv
  <2>2. /\ activation # Idle /\ ~wg_need_secrets(c)
        /\ c \in {store, WithAgent(store), WithUser(WithAgent(store))}
    BY <2>1, ActivationFacts DEF ActivationInv
  <2>3. WithAgent(store) \in Connection
    BY <2>1, GivenType
  <2> DEFINE a == WithAgent(store)
             u == WithUser(a)
  <2>4. /\ a.public_key = store.public_key /\ a.rest = store.rest /\ a.flags = store.flags
        /\ u.public_key = store.public_key /\ u.rest = store.rest /\ u.flags = store.flags
        /\ \A j \in Items :
              /\ a.secrets[j] = IF store.flags[j] = "agent" /\ store.secrets[j] = None
                                THEN agent[j] ELSE store.secrets[j]
              /\ u.secrets[j] = IF a.secrets[j] # None THEN a.secrets[j] ELSE Known(a, j)
    BY <2>1, <2>3, GivenItems
  <2> HIDE DEF a, u
  <2>5. c \in {store, a, u} /\ c.public_key = store.public_key /\ c.rest = store.rest /\ c.flags = store.flags
    BY <2>2, <2>4 DEF a, u
  <2> HIDE DEF c
  <2>6. /\ Len(loaded) = Cardinality(slots) /\ DOMAIN loaded = 1 .. Cardinality(slots)
        /\ \A j \in slots : /\ j \in Slots /\ j <= MaxPeers /\ j \in DOMAIN written.peers
                             /\ ~(j > Len(written.peers)) /\ written.peers[j] \in Peer
        /\ \A k \in 1 .. Cardinality(slots) :
              Nth(slots, k) \in slots /\ loaded[k].psk = c.secrets[Nth(slots, k)]
    BY <2>1, <2>5, SavedLoads
  <2> HIDE DEF slots, loaded
  <2>a. ASSUME NEW i \in slots, written.peers[i].psk # None
        PROVE  c.secrets[i] = written.peers[i].psk
    <3> DEFINE p == written.peers[i]
    <3>7. /\ store.public_key[i] = p.public_key /\ store.flags[i] = p.flags
          /\ a.secrets[i] = IF p.flags = "notsaved" THEN None ELSE p.psk
      BY <2>1, <2>6 DEF WrittenInv, a
    <3>8. i \in Items /\ i # 0 /\ i \in Slots /\ i <= MaxPeers
      BY <2>6, ItemFacts
    <3>9. p.public_key \in Keys /\ p.flags \in Flags /\ p.public_key # None /\ p.flags # None
      BY <2>6, ProfileAssumption DEF Peer
    <3>10. p.flags # "notrequired" => c.secrets[i] # None
      BY <2>2, <2>5, <3>7, <3>8, <3>9 DEF wg_need_secrets, check_peer_need_secrets, c
    <3>11. CASE p.flags = "notsaved"
      <4>1. c.secrets[i] # None /\ store.secrets[i] = None /\ a.secrets[i] = None
        BY <2>1, <3>7, <3>8, <3>10, <3>11 DEF KeeperInv
      <4>2. c.secrets[i] = Known(a, i)
        BY <2>4, <2>5, <3>8, <4>1
      <4>3. Known(a, i) = PskOf[p.public_key]
        BY <2>4, <3>7, <3>8, <3>9 DEF Known
      <4>4. p.psk = PskOf[p.public_key]
        BY <2>1, <2>6, <2>a, <3>11 DEF AskedInv, AskedAreKnown
      <4>5. QED
        BY <4>2, <4>3, <4>4
    <3>12. CASE p.flags # "notsaved"
      <4>1. a.secrets[i] = p.psk /\ a.secrets[i] # None
        BY <2>a, <3>7, <3>12
      <4>2. store.secrets[i] # None => store.secrets[i] = a.secrets[i]
        BY <2>4, <3>8
      <4>3. store.secrets[i] = None => store.flags[i] = "agent"
        BY <2>4, <3>8, <4>1
      <4>4. c.secrets[i] = a.secrets[i]
        BY <2>4, <2>5, <3>7, <3>8, <3>10, <4>1, <4>2, <4>3
      <4>5. QED
        BY <4>1, <4>4
    <3>13. QED
      BY <3>11, <3>12
  <2>13. QED
    BY <2>6, <2>a
<1>2. QED
  BY <1>1, ProfileInvariance, PTL

\* A profile that was saved with a readable peer and a private key of 32 bytes
\* passes the worker's validation.
THEOREM SavedProfilesAreValid == Spec => []SavedProfileIsValid
<1>1. ProfileInv => SavedProfileIsValid
  <2> DEFINE c == activation.connection
             slots == Readable(written.peers)
             a == WithAgent(store)
             u == WithUser(a)
  <2> SUFFICES ASSUME ProfileInv, activation.state = "invalid", written # None, slots # {}
               PROVE  c.secrets[0] \in KeyTexts \ {PrivateKey}
    BY DEF SavedProfileIsValid
  <2>1. TypeOK /\ WrittenInv /\ ActivationInv /\ store \in Connection /\ agent \in Secrets
    BY DEF ProfileInv, TypeOK, WrittenInv
  <2>2. /\ c \in {store, a, u} /\ ~wg_need_secrets(c)
        /\ ~awg_device_is_valid(c) /\ c \in Connection
    BY <2>1, ActivationFacts DEF ActivationInv
  <2>3. a \in Connection
    BY <2>1, GivenType
  <2>4. /\ a.public_key = store.public_key /\ a.rest = store.rest /\ a.flags = store.flags
        /\ u.public_key = store.public_key /\ u.rest = store.rest /\ u.flags = store.flags
    BY <2>1, <2>3, GivenItems
  <2> HIDE DEF a, u
  <2>5. c.public_key = store.public_key /\ c.rest = store.rest /\ c.flags = store.flags
    BY <2>2, <2>4
  <2>6. c.secrets[0] # None /\ c.secrets[0] \in KeyTexts \cup {None}
    BY <2>1, <2>2, <2>5 DEF WrittenInv, wg_need_secrets, Connection, Secrets
  <2> HIDE DEF c
  <2>7. Len(LoadedPeers(c)) = Cardinality(slots) /\ Cardinality(slots) # 0
    BY <2>1, <2>5, SavedLoads
  <2>8. LoadedPeers(c) # <<>>
    BY <2>7
  <2>9. awg_validate_magic_headers_no_overlap(c.rest[0].headers)
    <3>1. c.rest[0] = written.rest
      BY <2>1, <2>5 DEF WrittenInv
    <3>2. written.rest \in {r \in Interface : Writable(r)}
      BY <2>1 DEF TypeOK, Written
    <3>3. QED
      BY <3>1, <3>2 DEF Writable
  <2>10. c.secrets[0] # PrivateKey
    BY <2>2, <2>8, <2>9 DEF awg_device_is_valid
  <2>11. QED
    BY <2>6, <2>10 DEF c
<1>2. QED
  BY <1>1, ProfileInvariance, PTL

\* A user who knows every key is refused only for a peer without a preshared key.
THEOREM RefusalsAreForUnsetPsks == Spec => []RefusedOnlyForUnsetPsk
<1>1. ProfileInv => RefusedOnlyForUnsetPsk
  <2> DEFINE c == activation.connection
             a == WithAgent(store)
  <2> SUFFICES ASSUME ProfileInv, activation.state = "refused"
               PROVE  \E i \in Slots : /\ i <= MaxPeers /\ c.public_key[i] # None
                                       /\ c.flags[i] \in Flags \ {"notrequired"}
                                       /\ c.secrets[i] = None
    BY DEF RefusedOnlyForUnsetPsk
  <2>1. TypeOK /\ ActivationInv /\ agent \in Secrets
    BY DEF ProfileInv, TypeOK
  <2>2. /\ activation # Idle /\ c \in Connection
        /\ c = WithUser(a) /\ wg_need_secrets(c) /\ store # NoProfile
    BY <2>1, ActivationFacts DEF ActivationInv
  <2>3. a \in Connection
    BY <2>1, <2>2, GivenType DEF TypeOK
  <2>4. c.secrets[0] = IF a.secrets[0] # None THEN a.secrets[0] ELSE Known(a, 0)
    BY <2>2, <2>3, GivenItems, ItemFacts
  <2>5. c.secrets[0] # None
    BY <2>4, ProfileAssumption DEF Known, KeyTexts
  <2>6. PICK i \in Slots : i <= MaxPeers /\ check_peer_need_secrets(c, i)
    BY <2>2, <2>5 DEF wg_need_secrets
  <2>7. c.flags[i] \in Flags \cup {None}
    BY <2>2, ItemFacts DEF Connection
  <2>8. QED
    BY <2>6, <2>7 DEF check_peer_need_secrets
<1>2. QED
  BY <1>1, ProfileInvariance, PTL

\* An editor that was shown the secrets keeps each preshared key with its peer,
\* however the list was edited.
THEOREM PsksStayWithTheirPeers == Spec => PskStaysWithItsPeer
<1>1. ProfileInv /\ [Next]_vars =>
        [Save /\ written'.carried /\ editor.shown /\ PsksBelongToPeers => PsksBelongToPeers']_vars
  <2> DEFINE c == save_interface_to_connection(editor)
             d == editor.device
  <2> SUFFICES ASSUME ProfileInv, Save, written'.carried, editor.shown, PsksBelongToPeers
               PROVE  PsksBelongToPeers'
    OBVIOUS
  <2>1. /\ TypeOK /\ ShownPskInv /\ editor \in Editor /\ editor # NoEditor /\ Update(c) /\ Carries(c)
    BY DEF ProfileInv, TypeOK, Save
  <2>2. c \in Connection
    BY <2>1, SaveType
  <2>3. /\ store'.public_key = c.public_key
        /\ \A i \in Items : WithAgent(store)'.secrets[i] =
               IF c.flags[i] = "notsaved" THEN None ELSE c.secrets[i]
    BY <2>1, <2>2, UpdateKeeps
  <2>4. \A i \in Slots :
           IF i > Len(d) THEN c.secrets[i] = None
           ELSE d[i] \in Peer /\ c.public_key[i] = d[i].public_key /\ c.secrets[i] = d[i].psk
    BY <2>1, SavedItems
  <2>5. \A i \in DOMAIN d : d[i].psk \in {PskOf[d[i].public_key], None}
    BY <2>1 DEF ShownPskInv
  <2>6. \A i \in Slots : ~(i > Len(d)) => i \in DOMAIN d
    BY <2>1, LenProperties DEF Slots, Editor
  <2> HIDE DEF c, d
  <2>7. ASSUME NEW i \in Slots, WithAgent(store)'.secrets[i] # None
        PROVE  /\ store'.public_key[i] \in Keys
               /\ WithAgent(store)'.secrets[i] = PskOf[store'.public_key[i]]
    <3>1. WithAgent(store)'.secrets[i] = c.secrets[i] /\ c.secrets[i] # None
      BY <2>3, <2>7, ItemFacts
    <3>2. i \in DOMAIN d /\ d[i] \in Peer /\ c.public_key[i] = d[i].public_key /\ c.secrets[i] = d[i].psk
      BY <2>4, <2>6, <3>1
    <3>3. QED
      BY <2>3, <2>5, <3>1, <3>2 DEF Peer
  <2>8. QED
    BY <2>7 DEF PsksBelongToPeers
<1>2. QED
  BY <1>1, ProfileInvariance, PTL DEF Spec, PskStaysWithItsPeer

\* Opening a profile and saving it again changes no item of it but missing headers,
\* which get their defaults, no secret of the interface or of a peer, nor who keeps
\* them.
THEOREM OpenAndSaveIsHarmless == Spec => OpenAndSaveKeepsProfile
<1> DEFINE Kept ==
      /\ store'.public_key = store.public_key /\ store'.flags = store.flags
      /\ SameButDefaults(store'.rest[0], store.rest[0])
      /\ \A i \in Slots : store'.rest[i] = store.rest[i]
      /\ \A i \in Items : i = 0 \/ store.public_key[i] # None =>
            /\ store'.secrets[i] = store.secrets[i]
            /\ store.flags[i] = "agent" => agent'[i] = agent[i]
<1>1. ASSUME ProfileInv, Save, editor.edits = 0, written # None,
             Readable(written.peers) = DOMAIN written.peers
      PROVE  Kept
  <2> DEFINE c == save_interface_to_connection(editor)
             c0 == editor.connection
             d == editor.device
             n == Len(d)
             a == WithAgent(store)
  <2>1. /\ TypeOK /\ KeeperInv /\ WrittenInv /\ OpenedInv /\ editor \in Editor /\ editor # NoEditor
        /\ store # NoProfile /\ store \in Connection /\ agent \in Secrets /\ Update(c)
    BY <1>1 DEF ProfileInv, TypeOK, WrittenInv, Save
  <2>2. /\ c0 = IF editor.shown THEN a ELSE [store EXCEPT !.secrets = NoSecrets]
        /\ d = LoadedPeers(c0) /\ editor.rest = fill_interface_from_connection(c0.rest[0])
        /\ editor.private_key = c0.secrets[0] /\ editor.flags = MenuFlags(FlagsOf(c0, 0))
        /\ ~editor.private_key_changed
    BY <1>1, <2>1 DEF OpenedInv
  <2>3. /\ a.public_key = store.public_key /\ a.rest = store.rest /\ a.flags = store.flags
        /\ \A i \in Items : a.secrets[i] = IF store.flags[i] = "agent" /\ store.secrets[i] = None
                                           THEN agent[i] ELSE store.secrets[i]
    BY <2>1, GivenItems
  <2>4. /\ c0.public_key = store.public_key /\ c0.rest = store.rest /\ c0.flags = store.flags
        /\ c0.secrets = IF editor.shown THEN a.secrets ELSE NoSecrets
    <3> HIDE DEF c0, a
    <3>1. QED
      BY <2>1, <2>2, <2>3 DEF Connection
  <2>5. c \in Connection
    BY <2>1, SaveType
  <2>6. /\ c.rest[0] = get_widget_text(editor.rest) /\ c.flags[0] = editor.flags
        /\ \A i \in Slots :
              IF i > n
              THEN /\ c.public_key[i] = None /\ c.rest[i] = None /\ c.flags[i] = None
                   /\ c.secrets[i] = None
              ELSE /\ c.public_key[i] = d[i].public_key /\ c.rest[i] = d[i].rest
                   /\ c.flags[i] = d[i].flags /\ c.secrets[i] = d[i].psk
    BY <2>1, SavedItems
  <2>7. c.secrets[0] = IF editor.flags \in {"notrequired", "notsaved"} THEN None
                       ELSE IF editor.private_key # None THEN editor.private_key
                       ELSE IF editor.private_key_changed THEN None ELSE c0.secrets[0]
    BY SaveFacts
  <2>8. /\ n = Len(written.peers)
        /\ \A i \in Slots : ~(i > n) =>
              /\ d[i].public_key = store.public_key[i] /\ d[i].rest = store.rest[i]
              /\ d[i].flags = store.flags[i] /\ d[i].psk = c0.secrets[i]
    <3> DEFINE peers == written.peers
               m == Len(peers)
               loaded == LoadedPeers(c0)
    <3> HIDE DEF c0
    <3>1. peers \in Seq(Peer) /\ m \in Nat /\ DOMAIN peers = 1 .. m /\ Readable(peers) = 1 .. m
      BY <1>1, <2>1, LenProperties DEF TypeOK, Written
    <3>2. Cardinality(1 .. m) = m /\ \A i \in 1 .. m : Nth(1 .. m, i) = i
      BY <3>1, IntervalSize, RankInPrefix
    <3>3. /\ Len(loaded) = Cardinality(Readable(peers))
          /\ \A i \in Readable(peers) : i \in Slots /\ ~(i > Len(written.peers))
          /\ \A k \in 1 .. Cardinality(Readable(peers)) :
                LET i == Nth(Readable(peers), k) IN
                /\ loaded[k].public_key = peers[i].public_key /\ loaded[k].psk = c0.secrets[i]
                /\ loaded[k].flags = peers[i].flags /\ loaded[k].rest = peers[i].rest
      BY <1>1, <2>1, <2>4, SavedLoads
    <3> HIDE DEF loaded
    <3>4. /\ Len(loaded) = m
          /\ \A i \in 1 .. m :
                /\ i \in Slots /\ ~(i > Len(written.peers))
                /\ loaded[i].public_key = peers[i].public_key /\ loaded[i].psk = c0.secrets[i]
                /\ loaded[i].flags = peers[i].flags /\ loaded[i].rest = peers[i].rest
      BY <3>1, <3>2, <3>3
    <3>5. \A i \in 1 .. m : /\ store.public_key[i] = peers[i].public_key
                            /\ store.rest[i] = peers[i].rest /\ store.flags[i] = peers[i].flags
      BY <1>1, <2>1, <3>4 DEF WrittenInv
    <3>6. d = loaded /\ n = m
      BY <2>2, <3>4 DEF loaded
    <3> HIDE DEF d, n, m
    <3>7. \A i \in Slots : ~(i > n) => i \in 1 .. m
      BY <3>1, <3>6 DEF Slots
    <3>8. m = Len(written.peers)
      BY DEF m
    <3>9. QED
      BY <3>4, <3>5, <3>6, <3>7, <3>8
  <2>9. \A i \in Slots : i > n => store.public_key[i] = None /\ store.rest[i] = None /\ store.flags[i] = None
    BY <1>1, <2>1, <2>8 DEF WrittenInv
  <2>10. store.flags[0] \in Flags \ {"notrequired"} /\ store.flags[0] # None
    BY <1>1, <2>1, ProfileAssumption DEF WrittenInv
  <2> HIDE DEF c, c0, d, n, a
  <2>11. /\ editor.flags = store.flags[0]
         /\ editor.rest = fill_interface_from_connection(store.rest[0])
    BY <2>2, <2>4, <2>10 DEF MenuFlags, FlagsOf
  <2>12. /\ c.public_key = store.public_key /\ c.flags = store.flags
         /\ \A i \in Slots : c.rest[i] = store.rest[i]
    <3>1. \A i \in Slots : /\ c.public_key[i] = store.public_key[i] /\ c.rest[i] = store.rest[i]
                           /\ c.flags[i] = store.flags[i]
      BY <2>6, <2>8, <2>9
    <3>2. \A i \in Items : c.flags[i] = store.flags[i]
      BY <2>6, <2>11, <3>1, ItemFacts
    <3>3. QED
      BY <2>1, <2>5, <3>1, <3>2 DEF Connection
  <2>13. /\ store' \in Connection
         /\ store'.public_key = c.public_key /\ store'.rest = c.rest /\ store'.flags = c.flags
         /\ Carries(c) => /\ store'.secrets = StoredSecrets(c, c.secrets)
                          /\ agent' = AgentSecrets(c, c.secrets)
         /\ ~Carries(c) => store'.secrets = StoredSecrets(c, store.secrets) /\ agent' = agent
    BY <2>1, <2>5, UpdateKeeps
  <2>14. /\ store'.public_key = store.public_key /\ store'.flags = store.flags
         /\ SameButDefaults(store'.rest[0], store.rest[0])
         /\ \A i \in Slots : store'.rest[i] = store.rest[i]
    <3> DEFINE old == store.rest[0]
               shown == fill_interface_from_connection(old)
    <3>1. store'.rest[0] = get_widget_text(shown)
      BY <2>6, <2>11, <2>13
    <3>2. old \in Interface /\ old.flag # "true"
      BY <1>1, <2>1 DEF WrittenInv, TypeOK, Written, Writable
    <3>3. /\ shown \in Form /\ shown.i5 = old.i5 /\ shown.flag = old.flag
          /\ \A i \in 1 .. 4 : shown.headers[i] = IF old.headers[i] = None /\ ~old.i5
                                                THEN i ELSE old.headers[i]
          /\ shown.fw_mark = IF old.fw_mark \in U32 THEN old.fw_mark ELSE 0
      BY <3>2, ShownInterface DEF fill_interface_from_connection, Interface
    <3> HIDE DEF shown
    <3>4. /\ old.fw_mark = None => ~(old.fw_mark \in U32)
          /\ old.fw_mark \in 0 .. IntMax => old.fw_mark \in U32 /\ ~(old.fw_mark > IntMax)
          /\ ~(0 > IntMax)
      BY ProfileAssumption DEF U32
    <3>5. SameButDefaults(get_widget_text(shown), old)
      BY <3>3, <3>4, ReadBack DEF SameButDefaults
    <3>6. QED
      BY <2>12, <2>13, <3>1, <3>5
  <2>15. \A i \in Items : store.flags[i] \in {"agent", "notsaved"} => store.secrets[i] = None
    BY <2>1 DEF KeeperInv
  <2>16. CASE ~Carries(c)
    <3>1. \A i \in Items : store'.secrets[i] = store.secrets[i] /\ agent'[i] = agent[i]
      BY <2>12, <2>13, <2>15, <2>16 DEF StoredSecrets
    <3>2. QED
      BY <2>14, <3>1
  <2>17. CASE Carries(c)
    <3>1. editor.shown
      <4> SUFFICES ASSUME ~editor.shown PROVE c.secrets = NoSecrets
        BY <2>17 DEF Carries
      <4>1. \A i \in Items : c0.secrets[i] = None
        BY <2>4 DEF NoSecrets
      <4>2. \A i \in Items : c.secrets[i] = None
        BY <2>2, <2>6, <2>7, <2>8, <4>1, ItemFacts
      <4>3. QED
        BY <2>5, <4>2 DEF NoSecrets, Connection, Secrets
    <3>2. ASSUME NEW i \in Items, i = 0 \/ store.public_key[i] # None
          PROVE  c.secrets[i] = a.secrets[i]
      <4>1. CASE i = 0
        <5>1. store.flags[0] = "notsaved" => a.secrets[0] = None
          BY <2>3, <2>15, <4>1
        <5>2. QED
          BY <2>2, <2>4, <2>7, <2>10, <2>11, <3>1, <4>1, <5>1
      <4>2. CASE i # 0
        <5>1. i \in Slots /\ ~(i > n)
          BY <2>9, <3>2, <4>2, ItemFacts
        <5>2. QED
          BY <2>4, <2>6, <2>8, <3>1, <5>1
      <4>3. QED
        BY <4>1, <4>2
    <3>3. ASSUME NEW i \in Items, i = 0 \/ store.public_key[i] # None
          PROVE  /\ store'.secrets[i] = store.secrets[i]
                 /\ store.flags[i] = "agent" => agent'[i] = agent[i]
      <4>1. /\ store'.secrets[i] = IF store.flags[i] \in {"agent", "notsaved"} THEN None ELSE a.secrets[i]
            /\ store.flags[i] = "agent" => agent'[i] = a.secrets[i]
        BY <2>12, <2>13, <2>17, <3>2, <3>3 DEF StoredSecrets, AgentSecrets
      <4>2. QED
        BY <2>3, <2>15, <4>1
    <3>4. QED
      BY <2>14, <3>3
  <2>18. QED
    BY <2>16, <2>17
<1>2. ProfileInv /\ [Next]_vars =>
        [Save /\ editor.edits = 0 /\ written # None
         /\ Readable(written.peers) = DOMAIN written.peers => Kept]_vars
  BY <1>1
<1>3. QED
  BY <1>2, ProfileInvariance, PTL DEF Spec, OpenAndSaveKeepsProfile

=============================================================================
