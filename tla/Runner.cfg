SPECIFICATION Spec
CONSTANTS
    Setups <- RetrySetups
    MaxRetries = 1
    StopCap = 2
    Stoppers = {s1, s2}
    NoReply = NoReply
    ChildReports = {"Error", "Fault"}
    MayPanic = TRUE
    MaxMessages = 2
    MaxInner = 2
    MaxReports = 1
    MaxStops = 2
CHECK_DEADLOCK FALSE
SYMMETRY StopperSymmetry
INVARIANTS TypeOK Delivery AskOutcome FailedStartLeavesNothing CleanEnd
PROPERTY StopIsFinal
