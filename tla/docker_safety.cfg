\* Two jobs that publish the same port, every process mortal.
SPECIFICATION Spec
SYMMETRY Cleaners
CONSTANTS
    a = a
    b = b
    a1 = a1
    a2 = a2
    b1 = b1
    k1 = k1
    k2 = k2
    Job = {a, b}
    Shim = {a1, a2, b1}
    Cleanup = {k1, k2}
    Caller <- CallerOf
    Resource <- ResourceOf
    Name <- OwnNames
    Argv <- Apart
    PortsOf <- SamePorts
    Parallel = FALSE
    Reliable = TRUE
    Mortal <- AnyProcess
INVARIANTS
    DockerTypeOK
    CleanupFindsAll
    OnlyOverlookedPrune
PROPERTIES
    CleanupSparesRunning
    OwnPortsAllowed
CHECK_DEADLOCK FALSE
