SPECIFICATION FairSpec
CONSTANTS
    Setups <- AllSetups
    MaxRetries = 2
    StopCap = 1
    Stoppers = {s1}
    NoReply = NoReply
    ChildReports = {"Error", "Fault"}
    MayPanic = TRUE
    MaxMessages = 1
    MaxInner = 1
    MaxReports = 1
    MaxStops = 2
CHECK_DEADLOCK FALSE
PROPERTIES StartResolved AskResolved StopResolved StopEndsTask
