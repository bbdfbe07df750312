SPECIFICATION Spec
CONSTANTS
    a1 = a1
    a2 = a2
    a3 = a3
    p1 = p1
    p2 = p2
    p3 = p3
    Actors = {a1, a2, a3}
    Paths = {p1, p2, p3}
    PathOf <- DistinctPaths
    NoActor = NoActor
    LateCreation = FALSE
CHECK_DEADLOCK FALSE
INVARIANT ShutdownStopsAll
