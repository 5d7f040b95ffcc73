SPECIFICATION Spec
CONSTANTS
    Requests = {r1, r2}
    Trips = {t1}
    Vans = {v1}
    Drivers = {d1}
    Students = {s1, s2}
    Keys = {k1}
    None = None
    Offered = {"start", "end", "sos", "resolve", "pickup", "drop", "absent"}
    MaxLogs = 2
    SerialPerTrip = TRUE
    MayFail = TRUE
VIEW View
SYMMETRY Symmetry
INVARIANTS
    MarkIsFinal
    ColumnsAgree
PROPERTIES
    ImplementsContract
