\* Exported and imported again, a device keeps its addresses.
CONSTANTS
    k1 = k1
    k2 = k2
    k3 = k3
    e1 = e1
    e2 = e2
    c1 = c1
    junk = junk
    true = true
    On = on
    Off = off
    Space = white
    OnWords = {on, true}
    OffWords = {off}
    Keys = {k1, k2, k3}
    Endpoints = {e1, e2}
    Packets = {c1}
    U16Max = 2047
    MaxPeers = 2
    FlagWords = {on, true}
    Files <- OneChange
    Edits <- NoEdits
    Faults <- NoFaults
    MaxImports = 2
    MaxEdits = 0
SPECIFICATION Spec
CHECK_DEADLOCK FALSE
INVARIANTS
    ExportKeepsAddresses
