\* --persist, no fault of the environment, fair scheduling.
CONSTANTS
    IfNames <- MCIfNames
    Families <- MCFamilies
    Profiles <- MCProfiles
    Backends <- AllBackends
    Faults <- NoFaults
    Persist = TRUE
    NoTask = NoTask
    NoManager = NoManager
SPECIFICATION FairSpec
INVARIANTS
    CleanDisconnectSucceeds
PROPERTIES
    AttemptAnswered
    AbandonedAttemptReleased
    SessionSettles
