SPECIFICATION Spec
CONSTANTS
    Days = {d1}
    Rows = {a1, a2}
    Requests = {q1}
    Calls = {c1, c2}
    NoDay = NoDay
    NoRow = NoRow
    NoRequest = NoRequest
    NoCall = NoCall
SYMMETRY Symmetry
INVARIANT OneRowPerDay
CHECK_DEADLOCK FALSE
