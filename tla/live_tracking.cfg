SPECIFICATION Spec
CONSTANTS
    Requests = {r1, r2, r3}
    Sockets = {s1}
    Vans = {v1}
    None = None
    MaxPings = 3
    MayFail = TRUE
VIEW View
SYMMETRY Symmetry
INVARIANTS
    TypeOK
    CacheCoversAcks
    StoreIsCurrent
    RowTrailsCache
    SubscribersAreKnown
PROPERTIES
    AckedStaysShown
    ImplementsBoard
