\* Two runs for one job, connections and processes that break at any step.
SPECIFICATION LocalSpec
SYMMETRY Twins
CONSTANTS
    a = a
    r1 = r1
    r2 = r2
    user = user
    NoSession = NoSession
    NoOne = NoOne
    Job = {a}
    Weight <- OneHeavy
    Session <- NoSessionA
    Collides = {}
    MaxCapacity = 1
    Capacities = {1}
    Restartable = {}
    MaxStamp = 1
    Client <- Commands
    Ops <- CommandOps
    Mortal <- AnyProcess
    Serial = FALSE
    Run = {r1, r2}
    TargetJob <- BothForA
    Role = {"primary", "include"}
INVARIANTS
    LocalTypeOK
    OneRunPerJob
    CommandSeesWorktrees
    WithdrawnIsOver
    ZeroMeansSuccess
