SPECIFICATION FairSpec
CONSTANTS
    Requests = {r1, r2}
    Trips = {t1}
    Vans = {v1}
    Drivers = {d1}
    Students = {s1}
    Keys = {k1}
    None = None
    Offered = {"sos", "resolve", "pickup"}
    MaxLogs = 1
    SerialPerTrip = FALSE
    MayFail = FALSE
INVARIANTS
    SosIsAlerted
    AllClearHasAlarm
PROPERTIES
    Answered
    SosAlertFollows
