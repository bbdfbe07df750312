SPECIFICATION Spec
CONSTANTS
    o1 = o1
    o2 = o2
    Owners = {o1, o2}
    Setups <- Apart
    Numbers = {0, 3, 4}
    Values = {v1, v2}
    StateValues = {v3}
    NoValue = NoValue
    MaxRows = 3
    Base = 2
    Width = 3
INVARIANTS IterInOrder RangeAgrees PurgeOkLeavesNothing
PROPERTIES ImplementsKeyValue
SYMMETRY ValuesAlike
