---------------------------- MODULE ProfileStore ----------------------------
(***************************************************************************)
(* A connection profile: written by the import plugin, the connection      *)
(* editor or by hand, kept by NetworkManager, and read by the service when *)
(* it is asked for secrets and when it connects.                           *)
(*                                                                         *)
(* A profile is a flat map of items.  Item 0 of each kind belongs to the   *)
(* interface ("local-private-key" and its flags, the optional parameters), *)
(* item i > 0 to "peer-<i-1>".  None stands for a missing item.            *)
(*                                                                         *)
(* External parts: NetworkManager (which keeps the stored secrets when an  *)
(* update carries none, CHANGELOG.md:9), libnm's and libnma's secret flags, *)
(* the secret agent and the user, who knows every key there is.            *)
(***************************************************************************)
EXTENDS Integers, Sequences, FiniteSets

CONSTANTS
    Keys,          \* public keys that parse
    BadKey,        \* a public key that does not
    PskOf,         \* the preshared key each peer was set up with, or None
    PrivateKey,    \* the private key of the interface
    OtherKeys,     \* what else may be typed for it: base64 of another length ...
    NoBase64,      \* ... and no base64
    Rests,         \* endpoint and AllowedIPs of a peer that has both
    Offered,       \* peers a user enters in the dialog
    OfferedInterfaces,   \* optional parameters a user enters
    Imported,      \* peers of configuration files
    ImportedInterfaces,  \* optional parameters of configuration files
    HandWritten,   \* connections written without the plugin
    Shown,         \* whether NetworkManager hands the secrets to the editor
    IntMax,        \* the largest gint
    Overflow,      \* what the build makes of a double that is larger
    MaxPeers,      \* NM_AWG_MAX_PEERS
    MaxListed,     \* bound: peers of a file or in the editor
    MaxEdits,      \* bound: changes while an editor is open
    None, NoProfile, NoEditor

Slots == 1 .. MaxListed
Items == 0 .. MaxListed

\* NMSettingSecretFlags: stored by NetworkManager, by the agent, asked for each
\* time, not needed.
Flags == {"none", "agent", "notsaved", "notrequired"}

Psks == {PskOf[k] : k \in Keys} \ {None}

\* The texts of private keys, of which only PrivateKey decodes to 32 bytes.
KeyTexts == OtherKeys \cup {PrivateKey, NoBase64}

\* The secrets by item: the private key of the interface, the preshared keys.
Secrets == {s \in [Items -> Psks \cup KeyTexts \cup {None}] :
               s[0] \in KeyTexts \cup {None} /\ \A i \in Slots : s[i] \in Psks \cup {None}}

\* The numbers of 32 bits.
U32 == 0 .. 2 * IntMax + 1

\* The optional parameters of the interface: H1 to H4 (single values), whether
\* there is an I5, a flag of AmneziaWG 3.1 by the word it is stored with, and a
\* number of the form, as it is stored.
Interface == [headers : [1 .. 4 -> Nat \cup {None}], i5 : BOOLEAN,
              flag : {"on", "true", None}, fw_mark : (-IntMax - 1 .. 2 * IntMax + 1) \cup {None}]

\* What the form of the editor can show.
Form == {r \in Interface : r.flag # "true" /\ r.fw_mark \in U32}

\* Present headers differ from one another.
awg_validate_magic_headers_no_overlap(h) ==
    \A i, j \in 1 .. 4 : i # j /\ h[i] # None => h[i] # h[j]

\* What import and the editor write: they know no other word for a flag that is
\* set, and accept no headers that overlap.
Writable(r) == r.flag # "true" /\ awg_validate_magic_headers_no_overlap(r.headers)

\* The optional parameters are kept with the items of the peers.
RestItems == {r \in [Items -> Rests \cup Interface \cup {None}] :
                 r[0] \in Interface /\ \A i \in Slots : r[i] \in Rests \cup {None}}

\* own_public_key says whether there is an item for the public key of the
\* interface, which has the name "peer-public-key".
Connection == [own_public_key : BOOLEAN,
               public_key : [Slots -> Keys \cup {BadKey, None}],
               rest : RestItems,
               flags : [Items -> Flags \cup {None}],
               secrets : Secrets]

\* A peer without a rest has no AllowedIPs.
Peer == [public_key : Keys, psk : Psks \cup {None}, flags : Flags, rest : Rests \cup {None}]

ASSUME ProfileAssumption ==
    /\ MaxPeers \in Nat \ {0} /\ MaxListed \in Nat /\ MaxPeers <= MaxListed
    /\ BadKey \notin Keys /\ None \notin Keys \cup Rests \cup Flags \cup KeyTexts \cup {BadKey}
    /\ PrivateKey \notin OtherKeys \cup {NoBase64} /\ NoBase64 \notin OtherKeys
    /\ None \notin Int \cup {"on", "true"}
    /\ IntMax \in Nat \ {0} /\ Overflow \in {IntMax, -IntMax - 1}
    /\ MaxEdits \in Nat
    /\ Offered \subseteq Peer
    /\ Imported \subseteq {p \in Peer : p.flags = "none" /\ p.rest # None}
    /\ OfferedInterfaces \subseteq Form
    /\ ImportedInterfaces \subseteq {r \in Interface : Writable(r)}
    /\ \A p \in Offered \cup Imported : p.psk \in {PskOf[p.public_key], None}
    /\ HandWritten \subseteq Connection
    /\ Shown \subseteq BOOLEAN
    /\ NoProfile \notin Connection

VARIABLES
    store,       \* the profile with the secrets NetworkManager keeps
    agent,       \* the secrets the agent keeps
    editor,      \* the open editor, or NoEditor
    activation,  \* how far an activation is, and the connection it works on
    written      \* history: the device that was saved last, and whether the update
                 \* carried a secret; None for a profile written by hand

vars == <<store, agent, editor, activation, written>>

NoSecrets == [i \in Items |-> None]

NoParameters == [headers |-> [i \in 1 .. 4 |-> None], i5 |-> FALSE, flag |-> None,
                 fw_mark |-> None]

Empty == [own_public_key |-> FALSE, public_key |-> [i \in Slots |-> None],
          rest |-> [i \in Items |-> IF i = 0 THEN NoParameters ELSE None],
          flags |-> [i \in Items |-> None], secrets |-> NoSecrets]

Idle == [state |-> "idle", connection |-> None]

Init ==
    /\ store = NoProfile /\ agent = NoSecrets
    /\ editor = NoEditor /\ activation = Idle /\ written = None

-----------------------------------------------------------------------------
(* Reading a profile.                                                      *)

\* Wrong variant: the flags item is not read.
FlagsOf_Default(c, i) == "none"

\* An absent item of secret flags reads as NM_SETTING_SECRET_FLAG_NONE.
FlagsOf(c, i) == IF c.flags[i] = None THEN "none" ELSE c.flags[i]

PeerAt(c, i) == [public_key |-> c.public_key[i], psk |-> c.secrets[i],
                 flags |-> FlagsOf(c, i), rest |-> c.rest[i]]

\* A key that does not parse is skipped; awg_device_add_peer takes valid peers.
awg_device_peer_is_valid(p) == p.public_key \in Keys /\ p.rest # None

\* Wrong variant: the last slot is never read.
ReadSlots_OffByOne(c) ==
    Cardinality({i \in Slots : i < MaxPeers /\ \A j \in 1 .. i : c.public_key[j] # None})

\* The numbered peers are read up to the first one that is missing.
ReadSlots(c) ==
    Cardinality({i \in Slots : i <= MaxPeers /\ \A j \in 1 .. i : c.public_key[j] # None})

\* The k-th member of a set of numbers, in order.
Nth(S, k) == CHOOSE i \in S : Cardinality({j \in S : j <= i}) = k

\* The peers of awg_device_new_from_nm_connection: those of the slots that were
\* read and have a valid one, in order.
ValidSlots(c) == {i \in 1 .. ReadSlots(c) : awg_device_peer_is_valid(PeerAt(c, i))}

LoadedPeers(c) ==
    [k \in 1 .. Cardinality(ValidSlots(c)) |-> PeerAt(c, Nth(ValidSlots(c), k))]

-----------------------------------------------------------------------------
(* Writing a profile.                                                      *)

\* Every item of every peer, numbered in order.  Those of c are gone, and with
\* them whatever else has a name that starts with "peer-".
PeerItems(c, peers) ==
    LET n == Len(peers) IN
    [own_public_key |-> FALSE,
     public_key |-> [i \in Slots |-> IF i <= n THEN peers[i].public_key ELSE None],
     rest |-> [i \in Items |-> IF i = 0 THEN c.rest[0]
                               ELSE IF i <= n THEN peers[i].rest ELSE None],
     flags |-> [i \in Items |-> IF i = 0 THEN c.flags[0]
                                ELSE IF i <= n THEN peers[i].flags ELSE None],
     secrets |-> [i \in Items |-> IF i = 0 THEN c.secrets[0]
                                  ELSE IF i <= n THEN peers[i].psk ELSE None]]

\* awg_device_save_to_nm_connection puts the device into a new VPN setting.
awg_device_save_to_nm_connection(peers, rest, own_public_key) ==
    [PeerItems([Empty EXCEPT !.rest[0] = rest, !.flags[0] = "none",
                             !.secrets[0] = PrivateKey], peers)
        EXCEPT !.own_public_key = own_public_key]

\* The numbers are read as gint.
get_widget_text(r) == [r EXCEPT !.fw_mark = IF @ > IntMax THEN Overflow ELSE @]

\* Wrong variant: the items of the peers are written over the old ones, which
\* remain where there is no new one.
save_interface_to_connection_KeepItems(e) ==
    LET c == PeerItems(e.connection, e.device)
        kept(new, old) == [i \in DOMAIN new |-> IF new[i] # None THEN new[i] ELSE old[i]] IN
    [own_public_key |-> e.connection.own_public_key,
     public_key |-> kept(c.public_key, e.connection.public_key),
     rest |-> [kept(c.rest, e.connection.rest) EXCEPT ![0] = get_widget_text(e.rest)],
     flags |-> [kept(c.flags, e.connection.flags) EXCEPT ![0] = e.flags],
     secrets |-> [kept(c.secrets, e.connection.secrets) EXCEPT ![0] =
                      IF e.flags \in {"notrequired", "notsaved"} THEN None
                      ELSE IF e.private_key # None THEN e.private_key
                      ELSE IF e.private_key_changed THEN None ELSE @]]

\* Wrong variant: a key is written only where the user has typed one.
save_interface_to_connection_OnlyChangedKey(e) ==
    [PeerItems(e.connection, e.device) EXCEPT
        !.rest[0] = get_widget_text(e.rest),
        !.flags[0] = e.flags,
        !.secrets[0] = IF e.private_key_changed THEN e.private_key ELSE None]

\* The editor rewrites the setting it was opened with: an empty field for an
\* unchanged private key leaves the stored one alone.
save_interface_to_connection(e) ==
    [PeerItems(e.connection, e.device) EXCEPT
        !.rest[0] = get_widget_text(e.rest),
        !.flags[0] = e.flags,
        !.secrets[0] = IF e.flags \in {"notrequired", "notsaved"} THEN None
                       ELSE IF e.private_key # None THEN e.private_key
                       ELSE IF e.private_key_changed THEN None ELSE @]

\* NetworkManager keeps what it has of the secrets if it is given none, and
\* hands the others to whoever their flags name.
Carries(c) == c.secrets # NoSecrets

StoredSecrets(c, secrets) ==
    [i \in Items |-> IF c.flags[i] \in {"agent", "notsaved"} THEN None ELSE secrets[i]]

AgentSecrets(c, secrets) ==
    [i \in Items |-> IF c.flags[i] = "agent" THEN secrets[i] ELSE None]

Update(c) ==
    \/ /\ Carries(c) \/ store = NoProfile
       /\ store' = [c EXCEPT !.secrets = StoredSecrets(c, c.secrets)]
       /\ agent' = AgentSecrets(c, c.secrets)
    \/ /\ ~Carries(c) /\ store # NoProfile
       /\ store' = [c EXCEPT !.secrets = StoredSecrets(c, store.secrets)]
       /\ UNCHANGED agent

-----------------------------------------------------------------------------
(* Import, and profiles written with nmcli.                                *)

import ==
    /\ store = NoProfile /\ editor = NoEditor
    /\ \E n \in 1 .. MaxListed, rest \in ImportedInterfaces, own_public_key \in BOOLEAN :
       \E peers \in [1 .. n -> Imported] :
          /\ Update(awg_device_save_to_nm_connection(peers, rest, own_public_key))
          /\ written' = [peers |-> peers, rest |-> rest, carried |-> TRUE]
    /\ UNCHANGED <<editor, activation>>

nmcli ==
    /\ store = NoProfile /\ editor = NoEditor
    /\ \E c \in HandWritten : Update(c)
    /\ written' = None
    /\ UNCHANGED <<editor, activation>>

-----------------------------------------------------------------------------
(* The editor.                                                             *)

\* The stored secrets and, where their flags name it, those of the agent.
WithAgent(c) ==
    [c EXCEPT !.secrets = [i \in Items |-> IF c.flags[i] = "agent" /\ c.secrets[i] = None
                                           THEN agent[i] ELSE c.secrets[i]]]

\* libnma offers no "not required" for the private key.
MenuFlags(f) == IF f = "notrequired" THEN "none" ELSE f

\* Without an I5, missing headers are shown as the message types of WireGuard;
\* the check box of a flag is set by the word "on"; a number that is missing, or that
\* the form does not have, is shown as 0.
fill_interface_from_connection(r) ==
    [headers |-> [i \in 1 .. 4 |-> IF ~r.i5 /\ r.headers[i] = None THEN i ELSE r.headers[i]],
     i5 |-> r.i5, flag |-> IF r.flag = "on" THEN "on" ELSE None,
     fw_mark |-> IF r.fw_mark \in U32 THEN r.fw_mark ELSE 0]

init_editor_plugin ==
    /\ editor = NoEditor /\ activation = Idle
    /\ \E shown \in Shown :
       \E c \in {IF store = NoProfile THEN Empty
                 ELSE IF shown THEN WithAgent(store)
                 ELSE [store EXCEPT !.secrets = NoSecrets]} :
          editor' = [connection |-> c, device |-> LoadedPeers(c),
                     rest |-> fill_interface_from_connection(c.rest[0]),
                     private_key |-> c.secrets[0], flags |-> MenuFlags(FlagsOf(c, 0)),
                     private_key_changed |-> FALSE, edits |-> 0,
                     stored |-> store # NoProfile, shown |-> shown]
    /\ UNCHANGED <<store, agent, activation, written>>

\* Wrong variant: headers may overlap.
check_validity_AnyHeaders(e) ==
    \/ e.flags \in {"notrequired", "notsaved"}
    \/ e.private_key \in OtherKeys \cup {PrivateKey}
    \/ e.private_key = None /\ e.stored

\* An empty private key is only accepted where one may be stored already or
\* none is needed; one that is typed is only checked for being base64.
check_validity(e) ==
    /\ \/ e.flags \in {"notrequired", "notsaved"}
       \/ e.private_key \in OtherKeys \cup {PrivateKey}
       \/ e.private_key = None /\ e.stored
    /\ awg_validate_magic_headers_no_overlap(e.rest.headers)

\* update_connection: what every change of the editor ends with.
Changed(e) ==
    editor' = [e EXCEPT !.edits = @ + 1,
                        !.connection = IF check_validity(e)
                                       THEN save_interface_to_connection(e) ELSE @]

\* The fields of the interface; libnma's menu sets the flags.
EditInterface ==
    \E key \in KeyTexts \cup {None}, flags \in Flags \ {"notrequired"},
       rest \in OfferedInterfaces \cup {editor.rest} :
       Changed([editor EXCEPT !.private_key = key, !.flags = flags, !.rest = rest,
                              !.private_key_changed = @ \/ key # editor.private_key])

\* The dialog of a peer is left with APPLY: a new peer, which the device only
\* takes if it is valid, or one in place of the peer it was opened for, which it
\* takes as it is.  The dialog accepts AllowedIPs without a subnet; a key that does
\* not decode to 32 bytes leaves the peer with the one it had.
peer_dialog_response ==
    \E p \in Offered :
       \/ /\ Len(editor.device) < MaxListed
          /\ Changed([editor EXCEPT !.device = IF awg_device_peer_is_valid(p)
                                               THEN Append(@, p) ELSE @])
       \/ \E i \in DOMAIN editor.device : Changed([editor EXCEPT !.device[i] = p])

RemoveAt(s, i) == [j \in 1 .. Len(s) - 1 |-> IF j < i THEN s[j] ELSE s[j + 1]]

peer_remove ==
    \E i \in DOMAIN editor.device :
       Changed([editor EXCEPT !.device = RemoveAt(@, i)])

Edit ==
    /\ editor # NoEditor /\ editor.edits < MaxEdits
    /\ EditInterface \/ peer_dialog_response \/ peer_remove
    /\ UNCHANGED <<store, agent, activation, written>>

\* The application validates once more and hands the connection over.
Save ==
    /\ editor # NoEditor /\ check_validity(editor)
    /\ \E c \in {save_interface_to_connection(editor)} :
          /\ Update(c)
          /\ written' = [peers |-> editor.device, rest |-> get_widget_text(editor.rest),
                         carried |-> Carries(c)]
    /\ editor' = NoEditor
    /\ UNCHANGED activation

Close ==
    /\ editor # NoEditor /\ editor' = NoEditor
    /\ UNCHANGED <<store, agent, activation, written>>

-----------------------------------------------------------------------------
(* Activation: NetworkManager asks the service whether secrets are missing *)
(* with the stored ones, then with the agent's, then with the user's.      *)

\* Wrong variant: a preshared key is also asked for where there is no peer.
check_peer_need_secrets_AnySlot(c, i) ==
    c.flags[i] \notin {None, "notrequired"} /\ c.secrets[i] = None

\* Wrong variant: only NetworkManager's own secrets can be missing.
check_peer_need_secrets_SystemOnly(c, i) ==
    c.public_key[i] # None /\ c.flags[i] = "none" /\ c.secrets[i] = None

\* A flags item marks a preshared key as configured.
check_peer_need_secrets(c, i) ==
    /\ c.public_key[i] # None
    /\ c.flags[i] \notin {None, "notrequired"} /\ c.secrets[i] = None

wg_need_secrets(c) ==
    \/ c.secrets[0] = None /\ c.flags[0] # "notrequired"
    \/ \E i \in Slots : i <= MaxPeers /\ check_peer_need_secrets(c, i)

Activate ==
    /\ store # NoProfile /\ editor = NoEditor /\ activation = Idle
    /\ activation' = [state |-> "stored", connection |-> store]
    /\ UNCHANGED <<store, agent, editor, written>>

\* What the user adds, who knows every key there is.
Known(c, i) == IF i = 0 THEN PrivateKey
               ELSE IF c.public_key[i] \in Keys THEN PskOf[c.public_key[i]] ELSE None

WithUser(c) == [c EXCEPT !.secrets = [i \in Items |-> IF @[i] # None THEN @[i]
                                                      ELSE Known(c, i)]]

NeedSecrets ==
    /\ activation.state \in {"stored", "agent"} /\ wg_need_secrets(activation.connection)
    /\ \/ /\ activation.state = "stored"
          /\ activation' = [state |-> "agent",
                            connection |-> WithAgent(activation.connection)]
       \/ /\ activation.state = "agent"
          /\ activation' = [state |-> "user",
                            connection |-> WithUser(activation.connection)]
    /\ UNCHANGED <<store, agent, editor, written>>

\* The user has given everything and something is missing still.
wg_new_secrets ==
    /\ activation.state = "user" /\ wg_need_secrets(activation.connection)
    /\ activation' = [activation EXCEPT !.state = "refused"]
    /\ UNCHANGED <<store, agent, editor, written>>

\* A private key that does not decode to 32 bytes is not loaded.
awg_device_is_valid(c) ==
    /\ c.secrets[0] = PrivateKey /\ LoadedPeers(c) # <<>>
    /\ awg_validate_magic_headers_no_overlap(c.rest[0].headers)

\* connect_worker loads the device and validates it.
Connect ==
    /\ activation.state \in {"stored", "agent", "user"}
    /\ ~wg_need_secrets(activation.connection)
    /\ \/ /\ awg_device_is_valid(activation.connection)
          /\ activation' = [activation EXCEPT !.state = "connected"]
       \/ /\ ~awg_device_is_valid(activation.connection)
          /\ activation' = [activation EXCEPT !.state = "invalid"]
    /\ UNCHANGED <<store, agent, editor, written>>

Deactivate ==
    /\ activation.state \in {"connected", "refused", "invalid"}
    /\ activation' = Idle
    /\ UNCHANGED <<store, agent, editor, written>>

Next ==
    \/ import \/ nmcli
    \/ init_editor_plugin \/ Edit \/ Save \/ Close
    \/ Activate \/ NeedSecrets \/ wg_new_secrets \/ Connect \/ Deactivate

Spec == Init /\ [][Next]_vars

-----------------------------------------------------------------------------
(* What it is for.                                                         *)

\* An open editor, how far an activation can be, and what is remembered of a save.
Editor == [connection : Connection, device : Seq(Peer),
           rest : Form, private_key : KeyTexts \cup {None},
           flags : Flags \ {"notrequired"}, private_key_changed : BOOLEAN, edits : 0 .. MaxEdits,
           stored : BOOLEAN, shown : BOOLEAN]

States == {"stored", "agent", "user", "refused", "invalid", "connected"}

Written == [peers : Seq(Peer), rest : {r \in Interface : Writable(r)}, carried : BOOLEAN]

\* Types: the stored profile, the secrets, the open editor and the activation.
TypeOK ==
    /\ store \in Connection \cup {NoProfile}
    /\ agent \in Secrets
    /\ editor # NoEditor => editor \in Editor /\ Len(editor.device) <= MaxListed
    /\ activation \in {Idle} \cup [state : States, connection : Connection]
    /\ written # None => written \in Written /\ Len(written.peers) <= MaxListed

\* The slots of the peers that a reader of the profile can get: what is beyond
\* MaxPeers, or was left without AllowedIPs, is written but never read.
Readable(peers) == {i \in DOMAIN peers : i <= MaxPeers /\ peers[i].rest # None}

\* What was saved is what a later reader loads, in the order of the list and
\* with the secrets that were handed over: no readable peer is lost, renumbered
\* or brought back, whichever profile the items were written over.
WrittenIsLoaded ==
    written # None =>
        LET slots == Readable(written.peers)
            loaded == LoadedPeers(WithAgent(store)) IN
        /\ store.rest[0] = written.rest
        /\ Len(loaded) = Cardinality(slots)
        /\ \A k \in DOMAIN loaded :
              LET saved == written.peers[Nth(slots, k)] IN
              /\ loaded[k].public_key = saved.public_key
              /\ loaded[k].rest = saved.rest /\ loaded[k].flags = saved.flags
              /\ written.carried =>
                    loaded[k].psk = IF saved.flags = "notsaved" THEN None ELSE saved.psk

\* What opening and saving does to the optional parameters: where there is no I5,
\* missing headers have become the message types of WireGuard, and a missing
\* number has become 0.
SameButDefaults(new, old) ==
    /\ new.i5 = old.i5 /\ new.flag = old.flag
    /\ old.fw_mark = None => new.fw_mark = 0
    /\ old.fw_mark \in 0 .. IntMax => new.fw_mark = old.fw_mark
    /\ \A i \in 1 .. 4 : new.headers[i] = IF old.headers[i] = None /\ ~old.i5
                                           THEN i ELSE old.headers[i]

\* A profile that import or the editor wrote is unchanged when it is opened and
\* saved without a change, and so are the secrets of its items and who keeps
\* them, whether or not the editor is shown the secrets (CHANGELOG.md:9).  Four
\* things are excepted: peers that no reader gets, which loading drops; the
\* interface's own public key, which goes with the items of the peers; missing
\* headers and numbers, which the editor fills in (nm-amneziawg-editor.c:550, 418);
\* and marks beyond the largest gint, which it cannot read back (398).
OpenAndSaveKeepsProfile ==
    [][/\ Save /\ editor.edits = 0 /\ written # None
       /\ Readable(written.peers) = DOMAIN written.peers
       => /\ store'.public_key = store.public_key /\ store'.flags = store.flags
          /\ SameButDefaults(store'.rest[0], store.rest[0])
          /\ \A i \in Slots : store'.rest[i] = store.rest[i]
          /\ \A i \in Items : i = 0 \/ store.public_key[i] # None =>
                /\ store'.secrets[i] = store.secrets[i]
                /\ store.flags[i] = "agent" => agent'[i] = agent[i]]_vars

\* A tunnel that comes up has all readable peers that were saved, with the
\* preshared key of every peer that was saved with one, whoever keeps it: one
\* that is left out is not reported, the handshake of that peer just never
\* succeeds.
TunnelHasItsPsks ==
    activation.state = "connected" /\ written # None /\ written.carried =>
        LET slots == Readable(written.peers)
            loaded == LoadedPeers(activation.connection) IN
        /\ Len(loaded) = Cardinality(slots)
        /\ \A k \in DOMAIN loaded :
              LET saved == written.peers[Nth(slots, k)] IN
              saved.psk # None => loaded[k].psk = saved.psk

\* A profile that import or the editor wrote with a readable peer in it is not
\* refused as invalid once all secrets are there, unless its private key is not
\* of 32 bytes: the editor takes base64 of any length (nm-amneziawg-editor.c:152).
SavedProfileIsValid ==
    activation.state = "invalid" =>
        \/ written = None
        \/ Readable(written.peers) = {}
        \/ activation.connection.secrets[0] \in KeyTexts \ {PrivateKey}

\* When an activation is refused after the user gave every key there is, the
\* connection does have a peer with secret flags and without a preshared key:
\* empty slots and flags items of removed peers never ask (CHANGELOG.md:11).
RefusedOnlyForUnsetPsk ==
    activation.state = "refused" =>
        \E i \in Slots : /\ i <= MaxPeers /\ activation.connection.public_key[i] # None
                         /\ activation.connection.flags[i] \in Flags \ {"notrequired"}
                         /\ activation.connection.secrets[i] = None

\* The user changes neither the private key nor who keeps it.
KeyUntouched ==
    /\ store # NoProfile
    /\ ~editor.private_key_changed /\ editor.flags = FlagsOf(store, 0)

KeyIsKept ==
    /\ store'.secrets[0] = store.secrets[0]
    /\ store.flags[0] = "agent" => agent'[0] = agent[0]

\* An untouched private key survives the save of an editor that was handed the
\* secrets, whatever earlier editors have done to them.
ShownKeySurvives == [][Save /\ KeyUntouched /\ editor.shown => KeyIsKept]_vars

\* An untouched private key survives every save (CHANGELOG.md:9 and the comment
\* in check_validity).
StoredKeySurvives == [][Save /\ KeyUntouched => KeyIsKept]_vars

\* Every preshared key that NetworkManager stores, or the agent keeps for it, is
\* the one of the peer in its slot.
PsksBelongToPeers ==
    store # NoProfile =>
        \A i \in Slots : WithAgent(store).secrets[i] # None =>
            /\ store.public_key[i] \in Keys
            /\ WithAgent(store).secrets[i] = PskOf[store.public_key[i]]

\* A save of an editor that sees the secrets keeps each preshared key with its
\* peer, however the peers were removed and renumbered.
PskStaysWithItsPeer ==
    [][Save /\ written'.carried /\ editor.shown /\ PsksBelongToPeers
       => PsksBelongToPeers']_vars

\* A profile without any preshared key reaches the backend (CHANGELOG.md:11 and
\* the comment in check_peer_need_secrets).
OptionalPskNotAsked ==
    activation.state = "refused" /\ written # None =>
        \E i \in DOMAIN written.peers : written.peers[i].psk # None

-----------------------------------------------------------------------------
(* The inductive invariant behind ShownKeySurvives.                        *)

\* Connections and editors are records, whatever is in them.
ShapeInv ==
    /\ store # NoProfile => DOMAIN store = DOMAIN Empty
    /\ editor # NoEditor =>
          /\ DOMAIN editor = {"connection", "device", "rest", "private_key", "flags",
                              "private_key_changed", "edits", "stored", "shown"}
          /\ DOMAIN editor.connection = DOMAIN Empty

\* NetworkManager stores no key that others keep; as long as the user does not
\* touch it, the editor shows the stored key or the agent's, and the connection
\* it works on has no other.
KeyInv ==
    /\ store # NoProfile /\ store.flags[0] \in {"agent", "notsaved"} => store.secrets[0] = None
    /\ editor # NoEditor => editor.flags # "notrequired"
    /\ editor # NoEditor /\ store # NoProfile /\ editor.shown /\ ~editor.private_key_changed =>
          /\ editor.private_key = WithAgent(store).secrets[0]
          /\ editor.connection.secrets[0] \in {editor.private_key, None}
-----------------------------------------------------------------------------
(* The inductive invariant behind the other properties.                    *)

\* What others keep, NetworkManager does not store.
KeeperInv ==
    store # NoProfile =>
        \A i \in Items : store.flags[i] \in {"agent", "notsaved"} => store.secrets[i] = None

\* The slots of the profile are the peers that were saved, in order; if the update
\* carried secrets, their keys can be had from NetworkManager and the agent.
WrittenInv ==
    written # None =>
        /\ store # NoProfile
        /\ store.rest[0] = written.rest /\ store.flags[0] \in Flags \ {"notrequired"}
        /\ \A i \in Slots :
              IF i > Len(written.peers)
              THEN store.public_key[i] = None /\ store.rest[i] = None /\ store.flags[i] = None
              ELSE LET p == written.peers[i] IN
                   /\ store.public_key[i] = p.public_key
                   /\ store.rest[i] = p.rest /\ store.flags[i] = p.flags
                   /\ written.carried =>
                         WithAgent(store).secrets[i] = IF p.flags = "notsaved" THEN None ELSE p.psk

\* The preshared key a list holds for a peer whose key is asked for each time is
\* the one the user would give.
AskedAreKnown(peers) ==
    \A i \in DOMAIN peers : peers[i].flags = "notsaved" =>
                              peers[i].psk \in {PskOf[peers[i].public_key], None}

AskedInv ==
    /\ editor # NoEditor => AskedAreKnown(editor.device)
    /\ written # None => AskedAreKnown(written.peers)

\* Until something is changed, the editor shows the profile it was opened with,
\* and the profile waits for it.
OpenedInv ==
    editor # NoEditor =>
        /\ activation = Idle /\ editor.stored = (store # NoProfile)
        /\ editor.edits = 0 =>
              LET c == editor.connection IN
              /\ store # NoProfile => c = IF editor.shown THEN WithAgent(store)
                                          ELSE [store EXCEPT !.secrets = NoSecrets]
              /\ editor.device = LoadedPeers(c)
              /\ editor.rest = fill_interface_from_connection(c.rest[0])
              /\ editor.private_key = c.secrets[0] /\ editor.flags = MenuFlags(FlagsOf(c, 0))
              /\ ~editor.private_key_changed

\* An editor that was shown keys that belong to their peers has no others.
ShownPskInv ==
    editor # NoEditor /\ editor.shown /\ PsksBelongToPeers =>
        \A i \in DOMAIN editor.device :
            editor.device[i].psk \in {PskOf[editor.device[i].public_key], None}

\* An activation works on the profile, to which the agent and the user added what
\* they know; it has passed the checks of its state.
ActivationInv ==
    activation # Idle =>
        LET c == activation.connection
            asked == WithUser(WithAgent(store)) IN
        /\ store # NoProfile /\ editor = NoEditor
        /\ activation.state = "stored" => c = store
        /\ activation.state = "agent" => c = WithAgent(store)
        /\ activation.state \in {"user", "refused"} => c = asked
        /\ activation.state = "refused" => wg_need_secrets(c)
        /\ activation.state \in {"connected", "invalid"} =>
              c \in {store, WithAgent(store), asked} /\ ~wg_need_secrets(c)
        /\ activation.state = "invalid" => ~awg_device_is_valid(c)

ProfileInv ==
    /\ TypeOK /\ KeeperInv /\ WrittenInv /\ AskedInv
    /\ OpenedInv /\ ShownPskInv /\ ActivationInv
=============================================================================
