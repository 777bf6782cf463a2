CONSTANTS
    Base = 2
    MaxInt = 8
    Junk = junk
    BufSize = 4
    Vfd = {1}
    MaxMsgs = 3
    MaxMsgLen = 2
SPECIFICATION Spec
INVARIANTS
    TypeOK
    BodiesInOrder
CHECK_DEADLOCK FALSE
