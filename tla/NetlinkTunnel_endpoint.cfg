\* Nothing fails, nobody interferes.
CONSTANTS
    Devices <- MCDevices
    Nets = {"a", "b", "self"}
    Foreign <- MCForeign
    Faults <- MCNoFault
    MaxOthers = 0
SPECIFICATION Spec
CHECK_DEADLOCK FALSE
INVARIANTS
    EndpointsReachKernel
