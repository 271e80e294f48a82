SPECIFICATION Spec
CONSTANTS
    Values = {v1, v2}
    Typed = {typed}
    Queries <- FormOrBoth
    Nothing = Nothing
    Workers = {w1}
    MaxClicks = 2
    MaxVersion = 4
    MaxOdooVersion = 0
INVARIANTS
    OnlySelectedValues
CHECK_DEADLOCK FALSE
