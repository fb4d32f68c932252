SPECIFICATION Spec
CONSTANTS
    Conns = {1, 2}
    Messages <- Greetings
    MaxTargets = 3
    MaxSends = 3
INVARIANTS
    TypeOK
    ReceivedInOrder
PROPERTIES
    SingleTargetExact
CHECK_DEADLOCK FALSE
