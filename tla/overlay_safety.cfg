\* Two files of any kind; the developer saves, deletes and untracks files meanwhile.
SPECIFICATION Spec
SYMMETRY Alike
CONSTANTS
    p = p
    q = q
    v = v
    w = w
    Absent = Absent
    Path = {p, q}
    Content = {v, w}
    Rules = {"plain", "excluded", "ignored"}
    During = {"save", "delete", "untrack"}
    MaxEdits = 2
INVARIANTS
    OverlayTypeOK
    NothingStale
    NothingPrivate
CHECK_DEADLOCK FALSE
