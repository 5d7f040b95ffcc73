SPECIFICATION Spec
CONSTANTS
    Requests = {r1, r2, r3}
    RouteIds = {rt1, rt2}
    Vans = {v1}
    Lists = {a, b}
    Empty = Empty
    Keep = Keep
    None = None
    SerialPerRoute = TRUE
    MayFail = TRUE
SYMMETRY Symmetry
INVARIANTS
    TypeOK
    OneListOfStops
    AnswerShowsStops
PROPERTIES
    AssignsLiveRoute
    ImplementsPlan
