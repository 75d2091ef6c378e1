SPECIFICATION Spec
CONSTANTS
    Items = {i1}
    Slots = {s1}
    Staff = {c1, c2}
    NoItem = NoItem
    NoSlot = NoSlot
    Absent = Absent
    Blank = Blank
    MaxStamp = 2
    EditLimit = 0
PROPERTY CompletedIsFrozen
CHECK_DEADLOCK FALSE
