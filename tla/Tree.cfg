SPECIFICATION FairSpec
CONSTANTS
    root = root
    child = child
    Actors = {root, child}
    NoActor = NoActor
    Parent <- Pair
    NameOf <- Names
    Retry = TRUE
    MaxRetries = 1
    FailingHooks = {"pre_start", "pre_restart", "pre_stop"}
    CreatingHooks = {"pre_start", "pre_restart", "handle_message", "on_child_fault", "pre_stop", "post_stop"}
    EmittingHooks = {"pre_start", "pre_restart", "handle_message", "on_child_fault", "pre_stop", "post_stop"}
    MaxText = 4
CHECK_DEADLOCK FALSE
INVARIANTS ChildrenStopFirst OrphansOnlyUnrun PathTextAgrees AncestryAgrees
PROPERTIES StopIsServed 
