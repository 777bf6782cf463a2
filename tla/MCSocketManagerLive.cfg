CONSTANTS
    Fd = {5}
    Bev = {c1, c2}
    Addr = {a1, a2}
    Listener = listener
    None = none
    Junk = junk
SPECIFICATION FairSpec
PROPERTY
    DataIsRead
CHECK_DEADLOCK FALSE
