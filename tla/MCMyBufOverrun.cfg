CONSTANTS
    Base = 2
    Junk = junk
    BufSize = 1
    MaxInt = 7
    MaxInput = 3
SPECIFICATION Spec
INVARIANT
    WritesStayInBlock
CHECK_DEADLOCK FALSE
