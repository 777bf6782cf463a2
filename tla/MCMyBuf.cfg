CONSTANTS
    Base = 2
    Junk = junk
    BufSize = 1
    MaxInt = 9
    MaxInput = 2
SPECIFICATION Spec
INVARIANTS
    TypeOK
    PointersInOrder
    ReallocOfBlockStart
PROPERTIES
    NeverShrinks
    QueueSpec
CHECK_DEADLOCK FALSE
