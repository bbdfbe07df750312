SPECIFICATION FairSpec
CONSTANTS
    Sinks = {s1, s2}
    Capacity = 2
    MaxEvents = 5
    MaxRestarts = 1
CHECK_DEADLOCK FALSE
INVARIANTS PublishedInOrder MissesOnlyOverrun
PROPERTIES SinksDrain ImplementsFeed
