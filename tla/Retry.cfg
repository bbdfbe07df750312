SPECIFICATION FairSpec
CONSTANTS
    Strategies <- Instances
    MaxAttempts = 3
    MaxRequests = 4
CHECK_DEADLOCK FALSE
INVARIANTS BackoffFollowsStrategy OneReportPerRequest
PROPERTIES EndIsFinal ExhaustionReported
