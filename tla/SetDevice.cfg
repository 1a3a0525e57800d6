\* Messages of four units, without failures and with every failure.
CONSTANTS
    Devices <- MCDevices
    MaxIps <- MCMaxIps
    Capacity = 4
    PeerSize = 1
    AttrsSize = 1
    Faults <- MCFaults
SPECIFICATION FairSpec
CHECK_DEADLOCK FALSE
INVARIANTS
    SuccessMeansConfigured
    NothingSentTwice
    KnownKernelKeepsLink
PROPERTIES
    Terminates
    EveryAbiConfigured
