SPECIFICATION Spec

CONSTANTS
    Types = {"Light", "Full"}
    Faults = {"first_snapshot", "put_snapshot", "put_event", "get_state", "get_event", "replay", "scan", "purge"}
    MaxKinds = 2
    MaxEvents = 3
    MaxState = 4

INVARIANTS TypeOK KeysContiguous IncreasingState LaterEventsSurvive AckedStored
PROPERTIES NoOverwrite SnapshotNeverShrinks
