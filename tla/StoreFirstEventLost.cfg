SPECIFICATION Spec

CONSTANTS
    Types = {"Full"}
    Faults = {}
    MaxKinds = 2
    MaxEvents = 2
    MaxState = 4

INVARIANT AckedSurvive
