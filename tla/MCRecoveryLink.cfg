SPECIFICATION Spec
CONSTANTS
    Employees = {e1}
    Users = {u1, u2}
    Locations = {l1}
    Requests = {r1, r2}
    NoUser = NoUser
    NoEmployee = NoEmployee
    NoRequest = NoRequest
    NoLocation = NoLocation
    SeedMembership <- MCSeedMembership
    EditLimit = 0
PROPERTY RecoveryLinkIsLive
CHECK_DEADLOCK FALSE
