SPECIFICATION Spec
CONSTANTS
    Items = {i1, i2}
    Slots = {s1, s2}
    Staff = {c1, c2}
    NoItem = NoItem
    NoSlot = NoSlot
    Absent = Absent
    Blank = Blank
    MaxStamp = 3
    EditLimit = 2
INVARIANTS DeletedLeavesNoTrace CopyIsWholeSheet
PROPERTIES ImplementsLedger ShownNeverGoesBack
SYMMETRY Symmetry
CHECK_DEADLOCK FALSE
