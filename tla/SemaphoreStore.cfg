SPECIFICATION Spec
CONSTANTS
    Openings = {o1, o2, o3}
    Names = {n1, n2}
    InitialValues <- Values
    MaxValue = 1
    MaxDup = 1
    MaxLost = 1
INVARIANTS
    TypeOK
    IndexesAgree
    OpenCountTracks
    UnitsConserved
PROPERTIES
    HandlesNotReused
SYMMETRY Same
CHECK_DEADLOCK FALSE
