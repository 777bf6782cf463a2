CONSTANTS
    Fd = {0, 5}
    Bev = {c1, c2, c3}
    Addr = {a1, a2}
    Listener = listener
    None = none
    Junk = junk
SPECIFICATION Spec
SYMMETRY Alike
VIEW Looked
INVARIANTS
    TypeOK
    LookupsSucceed
    ErrorsAfterConnects
    MapsAgree
    CallbacksAlternate
    PeersOwnDescriptors
    DataToOwner
    NoCallbackAfterReuse
CHECK_DEADLOCK FALSE
