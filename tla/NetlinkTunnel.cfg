\* Devices whose AllowedIPs collide with one another, with the own prefix and with
\* routes of others; one change by another process; single and combined failures.
CONSTANTS
    Devices <- MCDevices
    Nets = {"a", "b", "self"}
    Foreign <- MCForeign
    Faults <- MCFaults
    MaxOthers = 1
SPECIFICATION Spec
CHECK_DEADLOCK FALSE
INVARIANTS
    RoutesGoneWithSession
    DisconnectErrorHasCause
    UpMeansComplete
PROPERTIES
    ForeignRoutesStay
    ImplementsBackend
