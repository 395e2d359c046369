\* A file that has the name of an excluded directory; nobody touches the worktree.
SPECIFICATION Spec
SYMMETRY Alike
CONSTANTS
    p = p
    q = q
    v = v
    w = w
    Absent = Absent
    Path = {p, q}
    Content = {v, w}
    Rules = {"plain", "lookalike"}
    During = {}
    MaxEdits = 0
INVARIANT
    NothingStale
CHECK_DEADLOCK FALSE
