\* Every file one change away from a dual-stack configuration, or two of a kind, imported,
\* exported and imported again, with an item set by nmcli in between, and
\* failures of reading and writing.
CONSTANTS
    k1 = k1
    k2 = k2
    k3 = k3
    e1 = e1
    e2 = e2
    c1 = c1
    junk = junk
    true = true
    On = on
    Off = off
    Space = white
    OnWords = {on, true}
    OffWords = {off}
    Keys = {k1, k2, k3}
    Endpoints = {e1, e2}
    Packets = {c1}
    U16Max = 2047
    MaxPeers = 2
    FlagWords = {on, true}
    Files <- MCFiles
    Edits <- MCEdits
    Faults = {"read", "write"}
    MaxImports = 2
    MaxEdits = 1
SPECIFICATION Spec
CHECK_DEADLOCK FALSE
INVARIANTS
    DeviceEncodable
    PeersAreTheirSections
    FirstRejectionReported
    DefaultRouteAsAllowed
    ProfileKeepsDevice
    FileKeepsDevice
