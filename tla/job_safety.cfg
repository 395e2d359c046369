\* Two jobs of one session, commands one after the other, anything killed at any step.
SPECIFICATION Spec
CONSTANTS
    a = a
    b = b
    c1 = c1
    c2 = c2
    c3 = c3
    NoSession = NoSession
    NoOne = NoOne
    Job = {a, b}
    Weight <- HeavyAndExclusive
    Session <- OneSession
    Collides = {}
    MaxCapacity = 1
    Capacities = {1}
    Restartable = {a, b}
    MaxStamp = 3
    Client = {c1, c2, c3}
    Ops <- AnyThenCancel
    Mortal = {a, b, c1, c2}
    Serial = TRUE
INVARIANTS
    TypeOK
    FinalMeansStopped
    PassedMeansExitZero
    WorkerSettlesJob
    NoOrphanWaiter
PROPERTIES
    FinalIsFinal
    CancelSettles
    UsesPool
