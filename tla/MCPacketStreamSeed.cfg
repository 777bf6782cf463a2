CONSTANTS
    Base = 2
    MaxInt = 16
    Junk = junk
    BufSize = 4
    DicSize = 3
    Xor <- BitXor
    Seeds = {1, 6}
    RecvBlock = 5
    MaxMsgs = 2
    MaxMsgLen = 1
SPECIFICATION Spec
INVARIANT
    SeedsAgree
CHECK_DEADLOCK FALSE
