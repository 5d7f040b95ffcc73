SPECIFICATION Spec
CONSTANTS
    Requests = {r1, r2}
    Trips = {t1}
    Vans = {v1}
    Drivers = {d1}
    Students = {s1}
    Keys = {k1}
    None = None
    Offered = {"start", "end", "pickup", "absent", "sos", "resolve"}
    MaxLogs = 2
    SerialPerTrip = FALSE
    MayFail = TRUE
VIEW AttendanceView
SYMMETRY Symmetry
INVARIANTS
    TypeOK
    CompletedHasEnd
    AttendanceAfterStart
    KeyMarksOnce
    MarksOnlyOverlap
PROPERTIES
    AckedMarkIsStored
    EndedLeavesActive
