SPECIFICATION Spec
CONSTANTS
    Names = {"GENESIS"}
    MaxStarts = 1
    MaxNames = 0
INVARIANTS
    RegisteredAsFileServer
CHECK_DEADLOCK FALSE
