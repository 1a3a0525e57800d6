# NetworkManager-amneziawg: verification project

TLA+ models of the AmneziaWG VPN plugin for NetworkManager, the TLC runs that
check them on small instances, and theorems checked by TLAPS for every value of
the constants. Paths are relative to the repository (`src/` in PROJECT.json is
the repository's root, so the service is `src/src/nm-amneziawg-service.c`).

Contents: [1 The system](#1-the-system) ·
[2 The modules and the code](#2-the-modules-and-the-code) ·
[3 The runs](#3-the-runs) · [4 The proofs](#4-the-proofs) ·
[5 Findings](#5-findings) · [6 Not modelled](#6-not-modelled) ·
[7 Plan](#7-plan) · [8 Running it](#8-running-it)

## 1 The system

NetworkManager starts one service process per activation and drives it over
D-Bus. The service turns the connection profile into an `AWGDevice`, brings an
interface up through one of three backends and announces the resulting IP
configuration. A second program, the connection editor, writes the profile.

    connection editor ──profile (vpn.data, vpn.secrets)──▶ NetworkManager
                                                              │ D-Bus (libnm's
                                                              ▼ NMVpnServicePlugin)
        main loop handlers  ◀── GTask ──▶  connect worker (thread)
               │                               │
               └────────── AWGConnectionManager ┘
                   netlink │ external │ dummy
                           ▼
             wg_set_device, rtnetlink │ awg-quick ──▶ kernel: links, routes

| component | state it keeps | operations | talks to |
|---|---|---|---|
| service, main loop (`nm-amneziawg-service.c`) | `connect_task`, `disconnecting`, `conn_manager`, the two `method_auto` flags, `config_source_id`, `configs` | Connect, ConnectInteractively, NeedSecrets, NewSecrets, Disconnect, `send_config`, `connect_task_completed` | libnm, the worker (through the GTask), the backend |
| connect worker (same file) | `ConnectTaskData` | build and validate the device, pick a backend, connect, add routes | backend; its result is read by `connect_task_completed` only |
| process (`main`) | the loop, the plugin reference | signals, libnm's "quit", shutdown, unref, exit | all of the above |
| libnm's `NMVpnServicePlugin` (external) | the service state, connect/quit timers, the fail-stop idle source | calls the virtuals, emits state, Config and Failure | NetworkManager |
| netlink backend (`awg-connection-manager-netlink.c`) | none between calls | resolve endpoints, connect with rollback, disconnect, one rtnetlink request per address and per AllowedIP | `wg_set_device`, rtnetlink |
| external backend | the interface name, a temporary config file | `awg-quick up`, `awg-quick down` | child process |
| `wg_set_device` (`amneziawg.c`) | the message, the cursor in the device, the ABI guess | write a device in several messages, retry in the old formats | the kernel's netlink family |
| `wg_get_device` (`amneziawg.c`) | the device read so far, `ret` | read a dump of several messages, start over when it was interrupted, join the pieces of a peer | the kernel's netlink family |
| device (`awg-device.c`, `awg-validate.c`) | the interface's fields, a list of peers | setters that accept or refuse a text, judgement of a whole device | everything below and above |
| profile codec (`awg-nm-connection.c`) | none | profile → device, device → profile, the IP settings derived from it | service, editor, import |
| config file codec (`awg-config.c`) | between two lines: the device, the open peer, the first error | parse, write | import and export, external backend |
| import and export (`nm-amneziawg-editor-plugin.c`) | none | file → device → profile, profile → device → file | the two codecs |
| editor (`nm-amneziawg-editor.c`) | widgets, the list of peers | add, edit, remove peers; save | profile |

**What is hard.** The worker runs beside the main loop, so Disconnect, libnm's
timeout and signals meet a connect at any point; the work cannot be cancelled,
only marked as unwanted. What was announced, what exists in the kernel and what
libnm believes are three different states that every return path has to keep
together. Interface names keep eight digits of the UUID and outlive a crash, so
a connect may meet an interface it does not own. The kernel configuration is
cut into messages at arbitrary points, and starts over when a guess about the
kernel's ABI was wrong. Profiles are flat maps of numbered items, rewritten by
two independent savers and read by three readers with their own conditions. Some
rtnetlink requests are not acknowledged, and the routing table they go into has
other users. The fields of a device are listed by hand in a parser, a writer, a
saver and a loader. The hazards, each at its line, are in PROJECT.json.

**What makes each component correct.**

* *Main loop and worker.* Every link belongs to exactly one holder; a stopped
  service holds none; an attempt gets one answer, and only while somebody waits
  for it; an abandoned attempt is undone.
* *Process.* An idle process leaves nothing behind; a link of a dead process is
  neither adopted nor deleted.
* *Backend.* A failed connect leaves no interface and touches no foreign one;
  only the families NetworkManager does not manage get routes, each AllowedIP of
  them gets one unless something else stands in its place, and exactly those
  are removed again.
* *`wg_set_device`.* Success means the whole device was written; nothing the
  kernel accepted is sent again; the interface is only recreated when the ABI
  was a guess; it ends.
* *`wg_get_device`.* What a success returns is of one configuration the kernel really held.
* *Device and codecs.* No device ever holds a value a backend cannot encode; an
  accepted file means what its sections say, one with a mistake is refused and the
  mistake named; what is imported, loaded, exported and imported again is the
  same device.
* *Profile store and editor.* What was saved is what is loaded; nothing of an
  earlier profile survives in a later one; the secrets asked for are the ones
  the connect needs.

## 2 The modules and the code

| module | code | proofs |
|---|---|---|
| `PluginService` | the service process with its backends | `PluginServiceProofs`, `PluginServiceRefinement` |
| `TunnelSession` | what the service promises (abstract) | implemented by `PluginService` |
| `NetlinkTunnel` | a session of the netlink backend, request by request | `NetlinkTunnelProofs`, `NetlinkTunnelRefinement` |
| `TunnelBackend` | what a backend promises the service (abstract) | implemented by `NetlinkTunnel` |
| `SetDevice` | `wg_set_device` | `SetDeviceProofs` |
| `GetDevice` | `wg_get_device` | `GetDeviceProofs` |
| `ProfileStore` | the numbered items of a profile: savers, editor, secrets | `ProfileStoreProofs` |
| `AWGDevice` | device objects and validators, as operators | lemmas in `ImportExportProofs` |
| `ConfigFile`, `ProfileCodec` | the two codecs, as operators over `AWGDevice` | lemmas in `ImportExportProofs` |
| `ImportExport` | import, nmcli, load, export, import again: composes the three | `ImportExportProofs` |

Each state machine has an `MC` module of the same name with its instances.

Two conventions hold everywhere. Operators whose name ends in `_<Word>` after
the name of another one (`wg_disconnect_NoFlag`) are wrong variants: what the
code would be with a plausible mistake in it. They are used by no
specification. Putting one in the place of the operator it varies makes TLC
report the property PROJECT.json names beside it, which is how each property is
known to say something. And `faults` is a variable that is chosen once, in Init:
what may go wrong during this behaviour. One run thus covers an environment that
never fails, on which the liveness and exactness properties depend, and one that
always may. (In `PluginService` it is a constant, because a fault there changes
which properties can be asked at all; see the two runs.)

### PluginService — `src/nm-amneziawg-service.c` with its backends

A handler of the GLib main loop runs to completion, so each handler is one
action. The worker is a thread: one action per operation during which another
thread may act or the process may end. Both share nothing but the GTask:
`worker` and `task_manager` are `ConnectTaskData`, and only
`connect_task_completed` reads them.

| variable | code |
|---|---|
| `service_state`, `fail_stop` | libnm: `NMVpnServiceState`, and the idle source that turns a refused Connect into STOPPED |
| `connect_task`, `disconnecting`, `conn_manager`, `methods`, `config_source_id` | the fields of `NMAmneziaWGPluginPrivate` (`methods` holds the families whose `ip?_method_auto` is set) |
| `worker`, `task_manager` | where the worker is, and `data->conn_manager` |
| `links`, `routes` | the kernel |
| `proc` | `main()`: in the loop, loop told to quit, after shutdown, after unref, exited |
| `orphans`, `answer`, `reply` | history only; nothing in the model reads them as guards |

| action | code |
|---|---|
| `wg_connect` (`connect_common`) | `wg_connect`, `wg_connect_interactive`; libnm only passes them on in INIT and STOPPED |
| `Disconnect` (`wg_disconnect`, `cleanup_connection_manager`) | the virtual, behind D-Bus, the loss of NetworkManager and libnm's connect timer |
| `send_config` | the deferred source armed by `set_config` |
| `connect_task_completed` | its four outcomes: `TaskAbandoned`, `TaskFailed`, `TaskConnected`, `TaskUnconfigurable` |
| `connect_worker`, `netlink_add_device`, `netlink_configure`, `add_routes`, `external_connect` | the worker, in the order of the code |
| `quit_mainloop`, `signal_handler`, `main_shutdown`, `dispose`, `Exit`, `Crash`, `Start` | the process |

A profile is reduced to what the service's decisions depend on: its interface
name, the families with method "auto", whether it has an address, and whether
validation accepts it. `Faults` names what the environment may do: signals,
crashes, a link that cannot be deleted, routes that cannot be added or deleted.
A connect step of the backend may fail in any case. Routes are counted per
address family here, one at a time in `NetlinkTunnel`.

### TunnelSession — what the service promises

The abstract specification: a session is down, connecting, releasing,
announcing or up; it holds no tunnel when it is down and exactly one when it is
announced or up; each request is answered at most once, by its own outcome.
There is no thread, no backend, no libnm and no process in it.
`PluginService!Session` maps the service to it (`SessionPhase`, the owned links,
the answer), and `ImplementsSession` says that the service implements it.

### NetlinkTunnel — one session of `awg-connection-manager-netlink.c`

What `PluginService` has as `netlink_configure` and `add_routes`, in the units in
which the kernel sees it, with the routing table it goes into.

| variable | code |
|---|---|
| `device`, `auto` | what the backend gets of the profile: each peer's AllowedIPs and form of endpoint, the two addresses, whether an MTU and 3.1 parameters are set; the families NetworkManager manages |
| `version` | `awg_get_module_version`, as far as it can be read |
| `link`, `up`, `addresses`, `table` | the kernel: the link, and the routes of the main table |
| `pc`, `todo` | where the session is; the AllowedIPs a loop over the routes has yet to visit |
| `endpoints` | the peers whose endpoint `getaddrinfo` resolved |
| `failed` | the result that `awg_connection_manager_netlink_delete_routes` and the following steps accumulate |
| `refused`, `others`, `announced`, `reply` | history: what the kernel refused unseen, what others changed, what NetworkManager was told |

| action | code |
|---|---|
| `check_awg31_support` … `set_interface_mtu`, `cleanup` | `awg_connection_manager_netlink_connect`, in its order |
| `add_route`, `delete_route` | one iteration of `add_routes_for_allowed_ips`, `delete_routes_for_allowed_ips` with `manage_route` |
| `task_connected`, `task_unconfigurable`, `task_abandoned`, `wg_disconnect` | the service, as far as it calls the backend; `task_connected` with the gateway and the routes of `set_config` |
| `set_interface_down`, `wg_del_device` | `awg_connection_manager_netlink_disconnect` |
| `others_add_route`, `others_delete_route`, `others_delete_link` | any other process with the right to |

External assumptions about the kernel: an addition with `NLM_F_EXCL` collides
with a route of the same destination and metric; the prefix of an IPv4 address is
routed by the kernel with metric 0, where `manage_route`'s routes are, that of
an IPv6 address is not; an IPv4 destination with bits beyond its prefix is
refused, an IPv6 one is masked; a link that goes down or away takes its routes
along. Routes of others lead through other interfaces.

### TunnelBackend — what a connection manager promises the service

The abstract specification between the two levels: phases, whether the link and
any route of the session exist, and the last answer. A connect that fails
deletes the link it made, unless the kernel does not (`deletable`); routes are
added to a connected tunnel only; a Disconnect that reports success has left
neither link nor routes. `netlink_configure`, `add_routes` and
`manager_disconnect` of `PluginService` rest on this; its fault "route_add" stands
for the obstructed AllowedIPs of `NetlinkTunnel` as well as for failed requests.
`NetlinkTunnel!Backend` is the mapping, `ImplementsBackend` the property.

### SetDevice — `wg_set_device` in `shared/amneziawg.c`

One action per thing the function does to its message: open the socket and guess
the ABI, start a message (the label `again`), put a peer, put an AllowedIP, send
and read the answer, recreate the interface, start over. A device is the number
of AllowedIPs of each peer and whatever the two ABIs encode differently (magic
headers, keepalive intervals, 3.1 parameters); its content is the set `Items`.
Sizes are in units of one AllowedIP. The kernel answers with an
acknowledgement, EINVAL or another error; a rejected message may have been
applied in part.

### GetDevice — `wg_get_device`

The kernel has the current or the legacy netlink ABI (`abi`), and the parsers read
the legacy one only: the keepalive of a peer in 16 bits (`amneziawg.c:1525`), the magic
headers as NUL-terminated strings (1654-1685), no 3.1 parameters. `Read` is what
`parse_device` makes of the attributes of a device. Of a packed range it drops what does not
end in a zero byte ("wide") and stores the rest as a garbled string ("narrow": the
upper end is below 2^24); `parse_peers` drops a keepalive of 32 bits. The attributes
of one form in both ABIs are "numbers" and "packets".

The kernel's side is a cursor in the dump, which may stop for the next message
after any peer or AllowedIP, and `Reconfigure`, by which another process changes
the device; a dump that has begun is then marked with `NLM_F_DUMP_INTR`. The
call's side: `open`, one action per message (`read_device_cb`,
`cb_run_interrupted`, `mnlg_cb_stop`, `mnlg_cb_error`), one per peer of a message
(`parse_peers` with `parse_allowedips`), one per peer that `coalesce_peers` joins
with the one before it (`peer` is where it stands, `linked` whether that peer's
`last_allowedip` is not NULL; a store through NULL ends in the state "crashed"),
and `finish` (the label "out", the jump back to `try_again`). `ret` keeps what an
earlier attempt left in it, as the variable of the code does: after an
interruption, an attempt that succeeds is repeated until one fails. No property is about that;
the safety properties would hold of a `wg_get_device` that resets it.

### ProfileStore — the numbered items of a profile, and who writes and reads them

One module for the editor (`properties/nm-amneziawg-editor.c`), the import plugin,
the codec (`shared/awg/awg-nm-connection.c`) and the secrets handlers of the
service, because what can go wrong lies between them. A connection is four maps
from item numbers (0 for the interface, i for `peer-<i-1>`): public key, the
other items of a peer as one value, secret flags, secret. Item 0 of the other items are
those optional parameters of the interface that not every writer treats alike
(`Interface`): H1 to H4 and whether there is an I5, a flag of AmneziaWG 3.1, and a number.

Writers, editor and worker check different things, and the model has each check where
the code has it:
* *The private key.* The worker needs 32 bytes (`awg_key_from_base64`); the editor takes any
  base64 (`nm-amneziawg-editor.c:152`). `OtherKeys` are the texts between.
* *Peers.* The dialog accepts AllowedIPs that are empty or only commas (858-930) and
  puts the peer in the place of another one without looking whether it is valid
  (`awg_device_replace_peer`); a new one is only added if it is. A peer whose `rest` is
  `None` has no AllowedIPs: it is written, and no reader takes it.
* *H1 to H4.* Import, editor and worker refuse headers that overlap. The form shows 1
  to 4 for missing ones where there is no I5 (550-581), so what it checks and
  writes is not what was stored: an imported profile with H1 = 2 alone opens with an
  overlap and cannot be saved until one of the two is changed.
* *Flags of 3.1.* The reader takes "on" and "true"; the form knows "on" (`init_editor_plugin`).
* *Numbers.* A missing one is shown, and written, as 0; the form is read with
  `gtk_spin_button_get_value_as_int` (398), which yields no gint above `IntMax`: `Overflow` is
  what the build makes of it, the lowest gint on x86, and `awg_device_set_fw_mark_from_string`
  refuses its text, so that the mark is lost. The number of the model is the
  fw_mark, the only one with 32 bits; port and MTU behave like a mark below
  `IntMax`. Import and editor check JMin and JMax alike, as the worker does, and
  neither is in the model.

| variable | code |
|---|---|
| `store`, `agent` | external: the profile with the secrets NetworkManager keeps, and those the secret agent keeps |
| `editor` | `AmneziaWGEditorPrivate`: `connection`, `device` (the peers), `private_key_changed`, `stored` (`connection_known_to_nm` or not `new_connection`) and the fields of the private key |
| `activation` | the connection an activation works on, and the round it is in: NeedSecrets with the stored secrets, with the agent's, NewSecrets with the user's, then the worker's validation |
| `written` | history: what was saved last, and whether the save carried a secret |

| action | code |
|---|---|
| `import` | the import plugin with `awg_device_save_to_nm_connection` |
| `nmcli` | a connection written by hand |
| `init_editor_plugin`, `EditInterface`, `peer_dialog_response`, `peer_remove`, `Save`, `Close` | the editor; every change ends with `update_connection` (`Changed`), and so does saving |
| `NeedSecrets`, `wg_new_secrets` | `wg_need_secrets`, `check_peer_need_secrets`, `wg_new_secrets` |
| `Connect` | the first half of `connect_worker`: load and validate |

Three things about other programs are assumed, each because the code relies on
it. NetworkManager keeps the stored secrets when an update carries none and
replaces them when it carries one (CHANGELOG.md:9 rests on the first half;
`Update`). libnm writes a flags item for every call of
`nm_setting_set_secret_flags` and reports flags as present when either the item
or the secret is. NetworkManager may or may not hand the secrets to the editor
(`Shown`; CHANGELOG.md:9 says that it does not). A profile is not edited while it
is activated: an activation works on a copy.

### AWGDevice, ConfigFile, ProfileCodec and ImportExport

`AWGDevice` has every setter of `awg-device.c` as an operator that returns whether
the text was accepted and the object afterwards, with the validators of
`awg-validate.c` behind it. A text is a sequence: empty, one word or number, or
the two ends of a range; lists are the sequence of their entries. What base64,
CPS tags and host names look like is a set of words; numbers, ranges, prefixes
and their limits are themselves, with the width of 16 bits as the constant
`U16Max`. `White` is a text of white space only: `awg_validate_empty` trims before it looks,
so that a magic header or a packet may be white space (`awg-validate.c:350` and 578;
`test-main.c` asserts it), and the setter stores it untrimmed (`awg-device.c:1221`). It
stands for no value: `awg_magic_header_parse` refuses it, so that the current ABI gets no
header, and the legacy one a blank string (`amneziawg.c:499-513`). White space around
a value is not modelled.

`ConfigFile` reads one line into the parser's state (`read_line`: section headers,
the peer under construction, the first error) and writes a device out.
`ProfileCodec` saves a device to a connection and loads it again, with the IP
settings, their methods and never-default. `FlagWords` are the spellings of a flag that the
loader takes for set, "on" and "true" in any case.

`ImportExport` puts them together: a file is read line by line, each stripped (`ReadLine`,
`EndOfFile`, `ReadError`), the device becomes a connection, `SetItem` is
`nmcli connection modify` of an item of the interface or of a peer, which the plugin cannot check, `Export` loads the connection and
writes a file, `Import` reads what is there then. Beside it stands a second
definition of what a file says (`Headers` to `Reported`), by quantifiers over
all lines instead of a pass over them, with which the parser is compared.

Where both definitions filter a sequence they do it with `Nth(P, k)`, the k-th number of a
set, and `Pick(t, P)`, the members of `t` at the places in `P`, in order. These say the same as
`SelectSeq` without a recursion over the sequence, so that the proofs can reason
about them. `FilesAssumption` says that a line holds a text: a sequence of words, not white
space, as lines are stripped; `SpaceAssumption`, that white space is no key, packet or number.
`WordsAssumption` says that the word "off" is neither the word "on" nor a number, on
which it depends that a keepalive interval and a flag are read as they were written;
`SpellingsAssumption` and `ProfileCodecAssumption`, that the word written for a flag that is
set is one of those `awg_parse_bool` and the loader take for it.

## 3 The runs

| run | instance | what it shows |
|---|---|---|
| `service_faults` | `PluginService_faults.cfg`, 4988 states | the safety and action properties under every fault, and that the service implements `TunnelSession` |
| `service_live` | `PluginService_live.cfg`, 440 states | no fault of the environment, `--persist`: attempts are answered, abandoned ones undone, the session settles, teardown succeeds |
| `service_sigterm` | `PluginService_sigterm.cfg` | the counterexample of finding 1 |
| `setdevice` | `SetDevice.cfg`, 19520 states | fragmentation and the ABI retry, without failures and under every failure of the kernel |
| `getdevice` | `GetDevice.cfg`, 675318 states | a dump of either ABI cut anywhere, up to two changes by another process, every failure |
| `netlink` | `NetlinkTunnel.cfg`, 1202325 states | sessions whose AllowedIPs collide with one another, with the own prefix and with others' routes |
| `netlink_endpoint` | `NetlinkTunnel_endpoint.cfg` | the counterexample of finding 5 |
| `profile` | `ProfileStore.cfg`, 1552814 states | imported, edited and hand-written profiles, with and without the secrets shown to the editor |
| `profile_no_psk`, `profile_hidden_key` | `ProfileStore_*.cfg` | the counterexamples of findings 2 and 3 |
| `importexport` | `ImportExport.cfg`, 476980 states | every file one line away from a dual-stack configuration, or two where sections or mistakes meet, through the whole round |
| `importexport_addresses` | `ImportExport_addresses.cfg` | the counterexample of finding 4 |

**PluginService.** `OwnedLinkHasHandle` (every link has exactly the holder the
code thinks it has), `StoppedMeansReleased`, `FlagBelongsToTask`,
`PendingConfigIsCurrent`, `DisconnectOkMeansReleased`, `ForeignLinksUntouched`, `IdleExitLeavesNothing`, `ImplementsSession`;
in `service_live` `CleanDisconnectSucceeds` and the liveness properties
`AttemptAnswered`, `AbandonedAttemptReleased` and `SessionSettles`.
`RoutesOnlyForManualFamilies`, `AnswerOnlyWhileStarting`, `OneAnswer` and
`TunnelMatchesPhase` are proved (section 4) and in no run.

**SetDevice.** `SuccessMeansConfigured`, `NothingSentTwice`, `KnownKernelKeepsLink`;
under fairness `Terminates`, and, on a kernel that does not fail,
`EveryAbiConfigured`.

**GetDevice.** `SuccessIsSnapshot` (one configuration the kernel held, whole and in
order, however it was cut, as far as the parsers know its ABI), `LossStaysInPeer` (an AllowedIP that cannot be parsed
or stored costs only its own peer), `CrashNeedsLostMemory` (`coalesce_peers` stores
through NULL only if memory ran out while the pieces were parsed),
`UndisturbedReturns`. `SuccessIsSnapshot` and
`LossStaysInPeer` name what a current kernel's dump loses: keepalives, magic headers, 3.1
parameters.

**NetlinkTunnel.** `RoutesGoneWithSession` (even if the link cannot be deleted),
`UpMeansComplete` (what is announced is what is configured, up to requests the
kernel refused unseen), `DisconnectErrorHasCause` (in an undisturbed session the
answer is an error exactly if an AllowedIP could not get its route),
`ForeignRoutesStay`, and `ImplementsBackend`.

**ProfileStore.** `WrittenIsLoaded` (the peers saved are those loaded, in
order, whatever the items were written over), `OpenAndSaveKeepsProfile`,
`TunnelHasItsPsks`, `SavedProfileIsValid` (the savers' checks against the
worker's: only the length of the private key is left for the worker to find),
`RefusedOnlyForUnsetPsk`, `ShownKeySurvives` and `PskStaysWithItsPeer`.
`OpenAndSaveKeepsProfile` names what an unchanged save does change: peers no reader
gets and the interface's own public key go, missing headers and numbers are filled in
(`SameButDefaults`), a mark beyond the largest gint is lost. The last two are restricted to editors that are shown the
secrets: finding 3 and the note on finding 3 are what is left without that.

**ImportExport.** `DeviceEncodable` (nothing in a device or its peers that a backend cannot
encode but for white space, whatever a file or nmcli says), `PeersAreTheirSections`,
`FirstRejectionReported` (any rejected line; the first one that sets an error is named),
`ProfileKeepsDevice`, `FileKeepsDevice` and `DefaultRouteAsAllowed`. The two
`KeepsDevice` properties name what is lost: IPv4 name servers where there are IPv6
ones, repeated servers, peers beyond `MaxPeers`; in a file the IPv6 address,
the upper half of fw_mark and texts of white space.

**Bounds.**
* `PluginService`: two interface names and five profiles: two on the same name with
  different methods (the name collision), one with only manual families, one
  without an address (the only way `set_config` fails after a successful
  bring-up) and one that validation rejects. One name would hide foreign links,
  a third adds no case: the service has at most one task and one manager.
* `SetDevice`: up to three peers with up to three AllowedIPs in messages of four
  units, so a message fills up before, at and after the end of a peer and of a
  device; device attributes of one unit and of a whole message.
* `GetDevice`: a peer cut into up to three pieces, a peer without AllowedIPs between
  two others, entries the parser refuses at the beginning and in the middle;
  peers with and without a keepalive, magic headers of both kinds, 3.1 parameters; both
  ABIs; two changes (`MaxChanges`), so that a repeated dump is interrupted as well.
* `NetlinkTunnel`: two families, two prefixes and that of the own address; peers
  that share a prefix, host bits, every form of endpoint; one change by others
  (`MaxOthers`) at any point; each failure alone and those that meet in a teardown.
* `ProfileStore`: two peers, one set up with a preshared key and one without; lists
  of up to three (`MaxListed`) against a reader that takes two (`MaxPeers`, 16
  in the code), so that lists below, at and above the limit occur, and peers are
  removed from the front, the middle and the end; one change while an editor is
  open (`MaxEdits`), an editor may be opened any number of times. The
  hand-written profiles have a gap in their numbers, a key that does not parse,
  an incomplete peer, flags without a peer, and overlapping headers with a flag set to
  "true". A private key that is base64 of another length and one that is no base64;
  a peer whose AllowedIPs were emptied. Optional parameters: none, a header that is the
  default of another one, all headers but one with an I5, a mark beyond `IntMax`. `IntMax` is
  3: what matters is only on which side of it a number is, and 0 to 7 has numbers on
  both, the largest gint and the largest number among them.
* `ImportExport`: each key of the format at a limit and with a value that is
  refused, inserted at every place; every line dropped; section headers and two
  refused lines inserted in pairs, so that sections are interrupted, repeated and
  empty and mistakes meet; two imports (`MaxImports`), one item set by hand
  (`MaxEdits`), to a value that is accepted, one of white space, or one that is
  refused, of the interface or of a peer. `U16Max` is 2047, which keeps 32-bit values within TLC's integers and
  above every other limit (the MTU's 1500); the code compares with it and with
  constants smaller than it only.

**Fairness.** `PluginService!FairSpec` assumes that the worker thread is
scheduled, that the main loop dispatches a source that stays ready
(`connect_task_completed`, `send_config`), and that `main()` goes on once the
loop has returned. It assumes nothing of the user, NetworkManager, signals,
the quit source or libnm's timers; in particular `AttemptAnswered` holds without
libnm's connect timeout. All of it is weak fairness: none of these steps is
disabled and enabled again by others. `SetDevice!FairSpec` and
`GetDevice!FairSpec` are weak fairness of the one thread, with a kernel that
answers each request (the code reads the answer in a blocking call without a
timeout); another process that changes the device owes nothing. The other
modules state safety only and assume no fairness.

`CHECK_DEADLOCK FALSE` is set where there is one call, one session or one round
that ends: SetDevice, GetDevice, NetlinkTunnel and ImportExport. The service is
never stuck, and neither is a profile.

## 4 The proofs

Eight modules; every leaf is checked.

**PluginServiceProofs.** `Invariance: Spec => []IInv` for every set of profiles,
names, families, backends and faults. The safety properties alone are not
inductive: that a completed task's tunnel can become *the* tunnel needs that no
other exists meanwhile, which needs that libnm refuses a Connect unless it is
INIT or STOPPED, which in turn implies that nothing is held. `IInv` adds
* `TaskInv`: a task is live exactly while the worker is, and what it hands over
  is the tunnel of its own profile;
* `StateInv`: libnm is STARTING while a result is wanted and STOPPED once it is
  not; a standing manager excludes a task;
* `ProcInv`: past the loop libnm is never STARTING or STARTED, and nothing of a
  dead process is left in memory.
From it: `TypeCorrectness`, `LinksAccountedFor`, `StoppedIsReleased`,
`FlagIsNeverStale`, `PendingConfigIsNeverStale`, `RoutesAreManual`. `CleanDisconnect`
needs a second invariant, `RoutesComplete`: unless routes fail, the routes there are
contain the ones the teardown will delete, from the moment the worker is ready.

**PluginServiceRefinement.** `Refinement: Spec => ImplementsSession`, in two
layers: a lemma per kind of step says what it does to phase, tunnels and answer;
the session's action follows from that. The action properties
(`ForeignLinksStay`, `AnswersAreAwaited`, `AnswersOnce`, `DisconnectOkIsTrue`,
`IdleExitIsClean`) and `PhaseTellsTunnels` use the same lemmas and a small
additional invariant: an attempt in progress was not answered yet.

**NetlinkTunnelProofs.** Devices with any number of peers and AllowedIPs, any
prefixes, foreign routes and failures, any number of changes by others. The
invariant has three layers, each of which needs the one before and a quieter
environment.
* Always: `TypeOK` and `RouteInv`. Every route of the session belongs to an AllowedIP
  of a manual family, and while they are deleted to one that is still to be
  visited. This gives `RoutesAreGone`; `ForeignRoutesAreKept` follows from the steps.
* As long as nobody interfered: `LinkInv` (how far the configuration has come) and
  `TableInv` (every route of the table is accounted for; what the loop has visited
  has its route or is `Obstructed`). This gives `UpIsComplete`.
* If, besides, nothing but name resolution fails: `TeardownInv`. What is still to be
  visited is going to be found exactly if it is not obstructed, and `failed` says
  whether something visited was. Of two AllowedIPs with one route the later one
  is obstructed, and by the time it is visited the route is gone with the
  earlier one; this is the delicate part. It gives `DisconnectErrorIsCaused`.

**NetlinkTunnelRefinement.** `BackendRefinement: Spec => ImplementsBackend`, a lemma per
group of steps, with `RouteInv` and the fact that nobody is told anything before
the connect is over. Changes by others are steps of the abstract backend too,
so it holds without the restriction of the second and third layer.

**SetDeviceProofs.** `Invariance` for devices with any number of peers and
AllowedIPs and any capacity that holds one peer or a continued peer and one
AllowedIP (`SizesAssumption`, the code's own assumption). The invariant is about
the cursor: what the kernel has accepted and what is in the message are, together
and disjointly, the items before the cursor (`ContentInv`). `SuccessIsComplete`,
`ItemsAreSentOnce` and `NoSecondGuess` follow.

**GetDeviceProofs.** Configurations with any number of peers and AllowedIPs, any
way the kernel cuts them, any number of changes by others, any failures. `DumpInv`
says what the parsed pieces are at every moment: there is a sequence of *marks*
(how many peers have begun, how many AllowedIPs of the last one were sent), from
none to the dump's cursor, such that each piece leads from one mark to the next
(`Leads`, `Cut`). A piece that is appended adds a mark (`CutExtend`, `ParsedLeads`); two
pieces that `coalesce_peers` joins are one that leads over both (`LeadsJoined`, `CutJoin`).
When it has passed all, every piece starts a peer, so the marks are the peers
themselves (`WholePeers`). From it `SuccessReturnsSnapshot`, `LossesStayInTheirPeer` and
`CoalescingIsSafe`: a piece that goes on with a peer goes on after an AllowedIP, so there is
something to link to unless that one was lost. The attributes of the device are what `Read`
makes of those of the dumped configuration from the first message on, less the strings
there was no memory for.

**ProfileStoreProofs.** Any peers, any profiles, lists of any length. `ProfileInv` has
a part for each place a key can be: what NetworkManager may store (`KeeperInv`),
the last save against the slots (`WrittenInv`), the editor against the profile it
was opened with (`OpenedInv`, `ShownPskInv`), an activation against profile, agent and
user (`ActivationInv`). It gives `WhatIsWrittenIsLoaded`, `TunnelsHaveTheirPsks`,
`SavedProfilesAreValid`, `RefusalsAreForUnsetPsks`, and with a look at the single steps
the action properties `PsksStayWithTheirPeers` and `OpenAndSaveIsHarmless`. The reader takes the
slots that are filled, in order; `RankExists` and `LoadedOfPrefix` say that of
slots filled without a gap these are the slots themselves. That a save leaves no gap and no
remnant of a longer list is what `SavedItems` and `ImportedItems` are about.
`ShownKeyIsKept` has an invariant of its own (`KeyInv`), which
follows the private key from the store through the editor back to it.

**ImportExportProofs.** Files with any number of lines, any words and numbers in them, any
items set by hand, any width `U16Max` and limit `MaxPeers`. Its invariants build on one another.
* `Sound`: every field of a device is unset, or of the kind its setter checks, or white
  space where the setter lets it pass. Each setter keeps it, accepting or refusing
  (`ItemSound`, `ReadSound`), and so does loading a profile (`LoadedSound`).
* `ReaderInv`: the parser is in the section of the last header, and, unless a line was rejected,
  holds the peers of the closed complete sections and the fields of the open one (`Holds`).
  The fields of a section are defined by quantifiers over its lines; a line of
  an open section changes one of them (`HoldsNext`), a header closes the section
  (`FlushAdds`, `PeersAppend`). This gives `PeersAreSections`.
* `SavedInv`: until nmcli changes it, the profile is what the import made of the
  device. With it and `Sound`, `DefaultRouteIsAllowed`.
* `TakenInv`: wherever a configuration is (file, reader, device, profile), its lists are
  sequences, and a device has only values its setters accept, and accept unchanged:
  canonical subnets, an MTU that is 0 or at least 68. Each setter keeps this (`ItemTaken`,
  `PeerItemTaken`, `ReadTaken`), loading establishes it whatever the profile says
  (`LoadedTaken`), and what an export writes is a list of such lines again. The peers a device
  holds are valid ones (`PeersTaken`). `Sound` and this give `DevicesAreEncodable`. The writer
  flattens a sequence of lines per peer; `LinesFlat` is proved by induction in the form
  the provers can use (`Induction`: a set of numbers with 0 and every successor is all
  of them, shown by its greatest gap-free beginning).
  From it, field by field, that what is saved loads as it was (`TextStays`, `NumberStays`,
  `FlagsStay`, `AddressesLoad`, `ServersLoad`, `PeersLoad`): `ProfileIsDevice`. It says
  exactly what is lost: IPv4 servers beside IPv6 ones, repeated servers, peers
  beyond `MaxPeers`.
* `RejectionInv`: a rejected line clears `success`, which nothing sets again
  (`FailureStays`, `UnreportedFails`). Until a line is rejected with an error the parser has
  none and one address of each family some line gave; from then on the error
  names the first of them. What
  the parser decides about a line is what the quantifiers say of it (`LineVerdict`,
  `AddressLine` for lists that are refused in part). This gives `FirstRejectionIsReported`.
* `ExportInv`: once a profile was exported, the file is the one written from it; the
  reader is what it became from the lines that were read; and a file that was read to
  its end says the device there is. That a sequence of lines takes the reader from one
  state to another is a relation, `ReadsTo`: there are states in between, one per line.
  It composes over the writer's concatenations (`ReadsCat`, `ReadsFlat`) and has one
  result (`ReadsSame`). The lines of the writer are followed with it: each group of them
  gives a new reader some fields of the device and changes no other (`Gives`:
  `TextGives`, `NumberGives`, `FlagGives`, `AddressGives`, `DnsGives`), together all but
  the peers (`FieldsRead`); the lines of a peer are read as that peer (`PeerReads`), and
  each header puts the one before it into the device (`AtPeerIs`). So every valid device without an
  IPv6 address and with a mark of 16 bits is read back as it is (`DeviceReads`), and any
  valid device as the part of it that is written (`ExportReads`). This gives
  `FileIsDevice`, for profiles that nmcli has set to anything.

**Assumptions.** Each module's `ASSUME` about its constants, which TLC also evaluates
in the runs, and nothing else.

**Only model-checked.** Liveness (`AttemptAnswered`, `AbandonedAttemptReleased`,
`SessionSettles`, `Terminates`, `EveryAbiConfigured`, `UndisturbedReturns`): the
proof system has no support for fairness. Every other property of a passing run is
stated by a theorem.

## 5 Findings

1. *An interface outlives a service that is told to stop during a connect.* On
   SIGTERM, SIGINT, or, without `--persist`, a Disconnect, the main loop ends;
   `nm_vpn_service_plugin_shutdown` makes `wg_disconnect` raise the
   `disconnecting` flag, and `main()` exits without waiting for the worker, so
   `connect_task_completed` never sees it (`src/nm-amneziawg-service.c:1117`). The
   comments at lines 248 and 959 say that the callback will clean up. Run
   `service_sigterm`.
2. *A peer without a preshared key blocks activation.* Both savers write the
   secret flags of every peer, with the default 0 for a key that was never set
   (`awg-nm-connection.c:362`, `nm-amneziawg-editor.c:1704`). The service takes the
   presence of flags for a configured key (comment at
   `nm-amneziawg-service.c:875`), asks for it, and refuses in the end.
   CHANGELOG.md:11 says that such a profile reaches the backend. Run
   `profile_no_psk`.
3. *An empty private key field does not always keep the stored key.* With hidden
   secrets, a save that adds a peer with a preshared key carries that secret
   alone, and NetworkManager replaces all it has. CHANGELOG.md:9 promises
   otherwise. Run `profile_hidden_key`. (The other half of the same behaviour: a
   save that carries no secret keeps all old ones by name, so the preshared key
   of a removed peer is inherited by the next peer of that number, against
   CHANGELOG.md:13.)
4. *An exported dual-stack profile has no IPv6 address.* The writer looks at the
   family of the IPv4 address where it should look at the IPv6 one
   (`awg-config.c:313`); the file handed to `awg-quick` lacks the address too.
   CHANGELOG.md:17 promises otherwise. Run `importexport_addresses`.
5. *A peer with an IPv6 endpoint is configured without one.* The backend takes what
   is before the last colon, brackets included, to `getaddrinfo`
   (`awg-connection-manager-netlink.c:817`); brackets are what the validator
   demands of an IPv6 endpoint, and the service strips them before it announces the same
   address as the gateway. CHANGELOG.md:26. Run `netlink_endpoint`.

Seen while modelling, and kept in the models as the code has them:
* The manual example of the README (lines 139-159) numbers its peer 1 where the
  reader starts at 0, and so has no peer at all.
* `wg_get_device` never resets `ret` before it tries again (line 1797): once interrupted it
  repeats the dump until something else fails.
* An AllowedIP with bits beyond its prefix, one listed twice, and one equal to
  the prefix of the own address get no route; a Disconnect then reports an error,
  though the interface is gone (`DisconnectErrorHasCause`).
* For a family NetworkManager manages, only the first peer's AllowedIPs are
  announced as routes; those of the other peers get none (`ConfigRoutes`), where README.md:295
  speaks of the AllowedIPs without that limit.
* An address the kernel refuses is not noticed: the request is sent without
  asking for an acknowledgement (`refused`).
* `wg_get_device` misreads a current kernel. CHANGELOG.md:62 says that magic headers
  became packed ranges and the keepalive 32 bits wide, and that old and current ABIs
  are supported; `wg_set_device` does, `wg_get_device` has the old parsers alone
  (`amneziawg.c:1525`, 1654-1685), drops or garbles what has the new form, and succeeds
  (`SuccessIsSnapshot` says what is left). The plugin itself does not call it.
* A rejected AdvancedSecurity is not named. CHANGELOG.md:12 and the comment at
  `awg-config.c:74` promise the first rejection as the reason; this branch (239) clears
  `success` without an error, so that the import fails without a reason, or with that
  of a later line (`FirstRejectionReported` excepts it: `Reported` against `Rejected`).
* A magic header or packet of white space passes the validators and is stored
  (`DeviceEncodable` and `FileKeepsDevice` except it); a legacy kernel is sent the blank string.
* The editor accepts a private key that is base64 of another length than 32 bytes; the
  profile it saves is refused by the worker (`SavedProfileIsValid` excepts it).
* The editor shows, and saves, 1 to 4 for missing H1 to H4 and 0 for missing numbers,
  and loses a fw_mark of 2^31 and above (`OpenAndSaveKeepsProfile` excepts all three).
* fw_mark loses its upper 16 bits in a file; IPv4 name servers are lost when a
  profile with IPv6 ones is loaded.
* The item of the interface's own public key is named `peer-public-key`, so
  `remove_peer_items`, which selects by the prefix `peer-`
  (`nm-amneziawg-editor.c:443`), drops it with every save (`own_public_key`;
  `OpenAndSaveKeepsProfile` excepts it).

## 6 Not modelled

* libnm is modelled from the calls the service exchanges with it. Its timers are
  a Disconnect that may come at any time, its D-Bus layer is left out.
* Of the announced configuration only the gateway and the routes: addresses, DNS
  servers and the name are copied from the profile.
* Copying an `AWGDevice` into a `wg_device` field by field (except the endpoint), and
  the encoding of a field as a netlink attribute; `DeviceEncodable` says that the
  values fit.
* The editor's checks of single fields other than the private key, H1 to H4 and a
  peer's AllowedIPs: in its model users enter valid values there; the setters behind those
  checks are in `AWGDevice`. GTK widgets.
* The temporary configuration file of the external backend (its content is
  `awg_device_create_config_string`).
* Spaces, quoting and the spelling of keys in a configuration file, and what
  words for keys, packets and hosts look like: the models work on parsed entries.
* `resolve_host` in `set_config` blocks the main loop; a blocked loop is a loop
  that does not take a step, which safety allows and fairness excludes.
* The device attributes of a message are assumed to fit its buffer, as the code
  assumes (`SizesAssumption`).
* Embedded libmnl, key generation and base64, vendored NetworkManager helpers,
  translations, packaging and tests: no state of the system or pure byte
  manipulation.

## 7 Plan

Done: the service with its refinement, both directions of the kernel
configuration, the netlink session and its abstraction, the profile store, the
codecs with import and export.
What would add most next:

| module | what | why |
|---|---|---|
| an abstract profile | a profile as a set of peers with their keys, implemented by `ProfileStore` as long as every save carries its secrets | would replace four of its properties by one refinement |
| `PluginService` over `TunnelBackend` | the worker's steps and the teardown of `PluginService` as steps of the abstract backend | the other half of the connection between the two levels; the link of a name there has one session after another, so the mapping needs a history of which one is meant |
| `PeerDialog` | the checks of the editor's dialog against the setters of `AWGDevice` | two lists of the same conditions |

## 8 Running it

    tlc -workers 2 -config PluginService_faults.cfg MCPluginService
    tlc -workers 2 -config SetDevice.cfg            MCSetDevice
    tlc -workers 2 -config GetDevice.cfg            MCGetDevice
    tlc -workers 2 -config NetlinkTunnel.cfg        MCNetlinkTunnel
    tlc -workers 2 -config ProfileStore.cfg         MCProfileStore
    tlc -workers 2 -config ImportExport.cfg         MCImportExport
    tlapm PluginServiceProofs.tla
    tlapm PluginServiceRefinement.tla
    tlapm NetlinkTunnelProofs.tla
    tlapm NetlinkTunnelRefinement.tla
    tlapm SetDeviceProofs.tla
    tlapm GetDeviceProofs.tla
    tlapm ProfileStoreProofs.tla
    tlapm ImportExportProofs.tla

The other configurations go with the module of the same prefix. Each run takes
at most about two minutes, the proofs about twenty minutes in all.
