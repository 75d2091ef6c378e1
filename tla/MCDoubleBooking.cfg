SPECIFICATION Spec
CONSTANTS
    Employees = {e1, e2, e3}
    Shifts = {s1, s2}
    Requests = {r1, r2}
    Spans <- MCSpans
    Horizon = 1
    EditLimit = 0
    NoEmployee = NoEmployee
    NoShift = NoShift
    NoSpan = NoSpan
PROPERTY OverlapRechecked
SYMMETRY Symmetry
CHECK_DEADLOCK FALSE
