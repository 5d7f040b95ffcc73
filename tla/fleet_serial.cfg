SPECIFICATION Spec
CONSTANTS
    Requests = {r1}
    Vans = {v1, v2}
    Drivers = {d1}
    Students = {s1, s2}
    None = None
    Keep = Keep
    Offered = {"createVan", "updateVan", "removeVan", "assignDriver", "unassignDriver",
               "createDriver", "updateDriver", "removeDriver",
               "createStudent", "updateStudent", "removeStudent"}
    SerialAdmins = TRUE
    SerialRows = FALSE
    MayFail = TRUE
SYMMETRY Symmetry
INVARIANTS
    TypeOK
PROPERTIES
    AssignsInService
