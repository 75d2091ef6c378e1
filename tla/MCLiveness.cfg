SPECIFICATION PatientSpec
CONSTANTS
    Employees = {e1}
    Users = {u1, u2}
    Locations = {l1}
    Requests = {r1, r2}
    NoUser = NoUser
    NoEmployee = NoEmployee
    NoRequest = NoRequest
    NoLocation = NoLocation
    SeedMembership <- MCSeedMembership
    EditLimit = 0
    MaxOffset = 1
    LastMonday = 1
    MaxVersion = 2
PROPERTIES UpsertAnswers ViewCatchesUp
CHECK_DEADLOCK FALSE
