\* Default mode, every fault of the environment.
CONSTANTS
    IfNames <- MCIfNames
    Families <- MCFamilies
    Profiles <- MCProfiles
    Backends <- AllBackends
    Faults <- AllFaults
    Persist = FALSE
    NoTask = NoTask
    NoManager = NoManager
SPECIFICATION Spec
INVARIANTS
    OwnedLinkHasHandle
    StoppedMeansReleased
    FlagBelongsToTask
    PendingConfigIsCurrent
PROPERTIES
    DisconnectOkMeansReleased
    ForeignLinksUntouched
    IdleExitLeavesNothing
    ImplementsSession
