SPECIFICATION Spec
CONSTANTS
    Requests = {r1, r2}
    Vans = {v1}
    Drivers = {d1}
    Students = {}
    None = None
    Keep = Keep
    Offered = {"assignDriver", "removeDriver"}
    SerialAdmins = FALSE
    SerialRows = FALSE
    MayFail = FALSE
INVARIANTS
    DeletedDriverDrivesNothing
