SPECIFICATION Spec
CONSTANTS
    Loops = {l1, l2}
    Checkers = {h1, h2}
    Connections = {k1, k2}
    None = None
INVARIANTS ConnectionIsWatched
CHECK_DEADLOCK FALSE
