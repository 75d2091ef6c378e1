SPECIFICATION Spec
CONSTANTS
    Employees = {e1, e2}
    Users = {u1, u2}
    Locations = {l1}
    Requests = {r1, r2}
    NoUser = NoUser
    NoEmployee = NoEmployee
    NoRequest = NoRequest
    NoLocation = NoLocation
    SeedMembership <- MCSeedMembership
    EditLimit = 1
INVARIANTS BindingIsAcceptance OneEmployeePerUser OnePendingPerEmployee BoundHasAccess HeldRowIsStable
PROPERTIES FinalStatesStick ImplementsStaffAccess
SYMMETRY Symmetry
CHECK_DEADLOCK FALSE
