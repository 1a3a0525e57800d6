\* Up to two changes by another process, without failures and with every failure.
CONSTANTS
    Confs <- MCAllConfs
    Keys = {1, 2, 3}
    Addresses = {"a", "b", "c"}
    MaxChanges = 2
    Faults <- MCFaults
SPECIFICATION FairSpec
CHECK_DEADLOCK FALSE
INVARIANTS
    SuccessIsSnapshot
    LossStaysInPeer
    CrashNeedsLostMemory
PROPERTIES
    UndisturbedReturns
