\* SIGTERM while a connect is in progress.
CONSTANTS
    IfNames <- MCIfNames
    Families <- MCFamilies
    Profiles <- MCProfiles
    Backends <- OnlyNetlink
    Faults <- Signal
    Persist = TRUE
    NoTask = NoTask
    NoManager = NoManager
SPECIFICATION Spec
INVARIANT NoOrphans
