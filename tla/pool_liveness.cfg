\* One or two permits, a heavy and an exclusive job: nobody waits for ever while the capacity changes.
SPECIFICATION FairSpec
CONSTANTS
    a = a
    b = b
    c = c
    s1 = s1
    s2 = s2
    NoSession = NoSession
    NoOne = NoOne
    Job = {a, b}
    Weight <- PairWeight
    Session <- PairSession
    Collides = {}
    MaxCapacity = 2
    Capacities = {1, 2}
    Restartable = {}
    MaxStamp = 3
INVARIANT
    PermitInv
PROPERTY
    EveryWaiterServed
