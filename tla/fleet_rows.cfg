SPECIFICATION Spec
CONSTANTS
    Requests = {r1, r2}
    Vans = {v1, v2}
    Drivers = {d1}
    Students = {s1}
    None = None
    Keep = Keep
    Offered = {"createVan", "updateVan", "removeVan", "assignDriver", "unassignDriver",
               "createDriver", "updateDriver", "removeDriver",
               "createStudent", "updateStudent", "removeStudent"}
    SerialAdmins = FALSE
    SerialRows = TRUE
    MayFail = TRUE
SYMMETRY Symmetry
INVARIANTS
    DeletedIsGone
PROPERTIES
    UpdateUndoesDeletionOnly
