\* start and cancel of one job at the same time.
SPECIFICATION Spec
CONSTANTS
    a = a
    b = b
    c1 = c1
    c2 = c2
    c3 = c3
    NoSession = NoSession
    NoOne = NoOne
    Job = {a}
    Weight <- OneHeavy
    Session <- NoSessionA
    Collides = {}
    MaxCapacity = 1
    Capacities = {1}
    Restartable = {a}
    MaxStamp = 3
    Client = {c1, c2}
    Ops <- StartAndCancel
    Mortal = {}
    Serial = FALSE
PROPERTY
    FinalIsFinal
