CONSTANTS
    Base = 10
    MaxInt = 4999
    Number2Int <- Cast
    NumberText <- Text
    Ids = {1, 9, 10, 99}
    Formats <- AllFormats
    Values <- AllValues
    MaxTableDeep = 3
    Rooms = {4, 12, 200}
SPECIFICATION Spec
INVARIANTS
    TypeOK
    RoundTrip
    CutIsRefused
    StaysInBuffer
CHECK_DEADLOCK FALSE
