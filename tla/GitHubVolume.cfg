SPECIFICATION Spec
CONSTANTS
    Calls = {k1, k2}
    Ops = {"create", "open", "close", "delete", "rename", "begin", "end", "abort"}
    Paths = {p, q}
    None = None
    MaxOpens = 2
    MaxWrites = 2
    MaxTxns = 1
    MaxMoves = 1
    MaxFaults = 1
    Pipelined = FALSE
SYMMETRY Symmetry
INVARIANTS
    TypeOK
    CommittedSurvives
    AckedNotLost
    IsolatedUntilMerged
    EndCommitsAll
CHECK_DEADLOCK FALSE
