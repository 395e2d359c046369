\* Three calls that are not killed, services that may fail their checks.
SPECIFICATION Spec
CONSTANTS
    s1 = s1
    s2 = s2
    b1 = b1
    b2 = b2
    j1 = j1
    j2 = j2
    c1 = c1
    c2 = c2
    c3 = c3
    p1 = p1
    p2 = p2
    None = None
    Slot = {s1, s2}
    Box = {b1, b2}
    Job = {j1, j2}
    Path = {p1, p2}
    Client = {c1, c2, c3}
    Owner <- OneEach
    Granted <- BothSlots
    Request <- Handoffs
    Mortal = {}
    Ends = {}
    Faults = {"bad"}
INVARIANTS
    OnlyRoutedAttached
PROPERTIES
    FailedKeepsSlot
    EveryCallReturns
CHECK_DEADLOCK FALSE
