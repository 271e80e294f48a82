SPECIFICATION Spec
CONSTANTS
    Values = {v1, v2}
    Typed = {typed}
    Queries <- FormOrBoth
    Nothing = Nothing
    Workers = {w1}
    MaxClicks = 3
    MaxVersion = 4
    MaxOdooVersion = 1
SYMMETRY OfValues
INVARIANTS
    ChildFitsParent
PROPERTIES
    DraftLeavesOnPurpose
CHECK_DEADLOCK FALSE
