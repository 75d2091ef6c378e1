SPECIFICATION Spec
CONSTANTS
    Employees = {e1, e2, e3}
    Shifts = {s1, s2}
    Requests = {r1, r2}
    Spans <- MCSpans
    Horizon = 1
    EditLimit = 1
    NoEmployee = NoEmployee
    NoShift = NoShift
    NoSpan = NoSpan
INVARIANTS OneActivePerShift HeldShiftIsTheirs ApprovalNeverWaits
PROPERTIES FinalStatesStick ImplementsHandover
SYMMETRY Symmetry
CHECK_DEADLOCK FALSE
