SPECIFICATION FairSpec
CONSTANTS
    a1 = a1
    a2 = a2
    a3 = a3
    p1 = p1
    p2 = p2
    p3 = p3
    Actors = {a1, a2, a3}
    Paths = {p1, p2, p3}
    PathOf <- SharedPath
    NoActor = NoActor
    LateCreation = TRUE
CHECK_DEADLOCK FALSE
INVARIANTS LookupFindsLiveActor RunningActorFound OrderlyShutdown
PROPERTIES ShutdownCompletes CreationReturns
