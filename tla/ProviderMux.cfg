SPECIFICATION Spec
CONSTANTS
    first = first
    second = second
    Chain <- TwoProviders
    Calls = {k1, k2}
    Threshold = 2
    Window = 1
    OpenFor = 2
    Probes = 1
    MaxTime = 4
INVARIANTS
    TypeOK
    ProbeOutstanding
PROPERTIES
    HalfOpenResolves
    OpensOnBurst
    ProbesSpaced
CHECK_DEADLOCK FALSE
