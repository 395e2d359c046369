\* Two permits, three jobs, one pair in a session, every failure anywhere, one unit started twice.
SPECIFICATION Spec
CONSTANTS
    a = a
    b = b
    c = c
    s1 = s1
    s2 = s2
    NoSession = NoSession
    NoOne = NoOne
    Job = {a, b, c}
    Weight <- MixedWeight
    Session <- MixedSession
    Collides = {}
    MaxCapacity = 2
    Capacities = {2}
    Restartable = {a}
    MaxStamp = 2
INVARIANTS
    TypeOK
    PermitInv
    TicketInv
    ExclusiveAlone
PROPERTIES
    SupersedesOnlyQueued
    ImplementsFifo
