CONSTANTS
    Fd = {0, 5}
    Bev = {c1, c2, c3}
    Addr = {a1, a2}
    Listener = listener
    None = none
    Junk = junk
SPECIFICATION Spec
SYMMETRY Alike
INVARIANT
    NeverReadsCleared
CHECK_DEADLOCK FALSE
