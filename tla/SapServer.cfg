SPECIFICATION Spec
CONSTANTS
    Names = {"GENESIS", "EXODUS"}
    MaxStarts = 3
    MaxNames = 2
INVARIANTS
    TypeOK
    OneBroadcaster
PROPERTIES
    NameBroadcast
CHECK_DEADLOCK FALSE
