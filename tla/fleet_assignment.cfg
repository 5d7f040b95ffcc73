SPECIFICATION Spec
CONSTANTS
    Requests = {r1, r2}
    Vans = {v1, v2, v3}
    Drivers = {d1, d2}
    Students = {}
    None = None
    Keep = Keep
    Offered = {"removeVan", "assignDriver", "unassignDriver",
               "createDriver", "updateDriver", "removeDriver"}
    SerialAdmins = FALSE
    SerialRows = TRUE
    MayFail = FALSE
SYMMETRY Symmetry
INVARIANTS
    OneVanPerDriver
    DeletedDriverDrivesNothing
