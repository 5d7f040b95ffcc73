SPECIFICATION Spec
CONSTANTS
    Requests = {r1}
    Trips = {t1}
    Vans = {v1}
    Drivers = {d1}
    Students = {s1}
    Keys = {k1}
    None = None
    Offered = {"start", "pickup"}
    MaxLogs = 2
    SerialPerTrip = TRUE
    MayFail = FALSE
PROPERTIES
    RetryReturnsLog
