SPECIFICATION Spec
CONSTANTS
    a = a
    Blank = Blank
    Absent = Absent
    Refused = Refused
    Pending = Pending
    Texts = {a, Blank}
    MaxOld = 3
    MaxNew = 2
    Cuts <- SmallCuts
    Contents <- SmallContents
INVARIANTS
    GivesNew
    CutIsWhole
    StrictApply
CHECK_DEADLOCK FALSE
