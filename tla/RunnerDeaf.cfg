SPECIFICATION Spec
CONSTANTS
    Setups <- RetryChild
    MaxRetries = 1
    StopCap = 4
    Stoppers = {s1}
    NoReply = NoReply
    ChildReports = {"Error"}
    MayPanic = FALSE
    MaxMessages = 1
    MaxInner = 1
    MaxReports = 1
    MaxStops = 1
CHECK_DEADLOCK FALSE
INVARIANT RestartedActorListens
