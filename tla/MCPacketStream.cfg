CONSTANTS
    Base = 2
    MaxInt = 16
    Junk = junk
    BufSize = 4
    DicSize = 3
    Xor <- BitXor
    Seeds = {1}
    RecvBlock = 5
    MaxMsgs = 2
    MaxMsgLen = 2
SPECIFICATION FairSpec
INVARIANTS
    TypeOK
    DeliveredPrefix
    InStep
    BufferStaysSmall
PROPERTIES
    AllArrive
    ChannelSpec
CHECK_DEADLOCK FALSE
