SPECIFICATION TtsSpec
CONSTANTS
    Stations = {w1, w2}
    MaxTxns = 4
SYMMETRY Symmetry
INVARIANTS
    TtsTypeOK
    
CHECK_DEADLOCK FALSE
