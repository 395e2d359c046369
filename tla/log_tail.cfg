\* A job is executed, and its log followed by another command.
SPECIFICATION StreamSpec
CONSTANTS
    a = a
    b = b
    c1 = c1
    c2 = c2
    c3 = c3
    c4 = c4
    NoSession = NoSession
    NoOne = NoOne
    Job = {a}
    Weight <- OneHeavy
    Session <- NoSessionA
    Restartable = {}
    Client = {c1, c2}
    Ops <- ReserveAndExecute
    Mortal = {}
    Serial = FALSE
    Collides = {}
    MaxCapacity = 1
    Capacities = {1}
    MaxStamp = 3
    MaxLines <- OneLine
    Endless = {}
    Obedient = {a}
    After <- FirstThenSecond
INVARIANT
    AllOutputShown
CHECK_DEADLOCK FALSE
