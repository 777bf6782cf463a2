CONSTANTS
    Base = 10
    MaxInt = 4999
    Number2Int <- Cast
    NumberText <- Text
    Files <- OneBad
    Addr = {a1, a2, a3}
    None = none
    MaxToNetd = 8
    HasDefault = FALSE
    Started = {"client", "server"}
    Calls <- OneCall
    MaxProtos = 2
    MaxInFlight = 1
SPECIFICATION Spec
SYMMETRY Alike
INVARIANT
    NeverUsesDeleted
CHECK_DEADLOCK FALSE
