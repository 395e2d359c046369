\* An executed job is followed while another holds the pool; either is cancelled.
SPECIFICATION StreamFairSpec
CONSTANTS
    a = a
    b = b
    c1 = c1
    c2 = c2
    c3 = c3
    c4 = c4
    NoSession = NoSession
    NoOne = NoOne
    Job = {a, b}
    Weight <- HeavyAndExclusive
    Session <- NoSessionAB
    Restartable = {}
    Client = {c1, c2, c3, c4}
    Ops <- StreamAndCancel
    Mortal = {c2, c4}
    Serial = TRUE
    Collides = {}
    MaxCapacity = 1
    Capacities = {1}
    MaxStamp = 3
    MaxLines <- OneLineAndNone
    Endless = {b}
    Obedient = {a}
    After <- InTurn
PROPERTIES
    CancelHeeded
    FollowerReturns
    OutputArrives
    FinalLogIsWhole
CHECK_DEADLOCK FALSE
