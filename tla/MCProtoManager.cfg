CONSTANTS
    Base = 10
    MaxInt = 4999
    Number2Int <- Cast
    NumberText <- Text
    Files <- GoodAndBad
    Addr = {a1, a2, a3}
    None = none
    MaxToNetd = 7
    HasDefault = FALSE
    Started = {"client", "server"}
    Calls <- OneCall
    MaxProtos = 2
    MaxInFlight = 1
SPECIFICATION Spec
SYMMETRY Alike
VIEW Reached
INVARIANTS
    TypeOK
    RegistrySound
    CallsArrive
CHECK_DEADLOCK FALSE
