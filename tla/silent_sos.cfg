SPECIFICATION Spec
CONSTANTS
    Requests = {r1}
    Trips = {t1}
    Vans = {v1}
    Drivers = {d1}
    Students = {}
    Keys = {}
    None = None
    Offered = {"start", "sos"}
    MaxLogs = 0
    SerialPerTrip = TRUE
    MayFail = TRUE
INVARIANTS
    SosIsAlerted
