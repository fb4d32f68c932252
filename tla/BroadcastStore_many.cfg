SPECIFICATION Spec
CONSTANTS
    Conns = {1, 2}
    Messages <- Greetings
    MaxTargets = 2
    MaxSends = 2
INVARIANTS
    ReachesAddressed
CHECK_DEADLOCK FALSE
