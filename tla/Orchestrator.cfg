SPECIFICATION Spec
CONSTANTS
    PeerLists <- OneOrTwo
    Plans <- AllPlans
    Texts <- MergedCode
    Files = {"f", "g", "out"}
    Spaced <- SpacedMarkers
    Clipped = "clipped"
    Output = "out"
    MaxRuns = 2
INVARIANTS
    TypeOK
    WavesExact
    DependenciesSettled
    ReportTrue
PROPERTIES
    RunEnds
CHECK_DEADLOCK FALSE
