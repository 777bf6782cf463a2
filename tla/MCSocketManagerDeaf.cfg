CONSTANTS
    Fd = {5, 6}
    Bev = {c1, c2}
    Addr = {a1, a2}
    Listener = listener
    None = none
    Junk = junk
SPECIFICATION Spec
SYMMETRY Alike
INVARIANT
    PeersListen
CHECK_DEADLOCK FALSE
