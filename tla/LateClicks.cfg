SPECIFICATION Spec
CONSTANTS
    Values = {v1, v2}
    Typed = {}
    Queries <- ParentOnly
    Nothing = Nothing
    Workers = {w1}
    MaxClicks = 4
    MaxVersion = 5
    MaxOdooVersion = 0
SYMMETRY OfValues
INVARIANTS
    CardIsAsReviewed
CHECK_DEADLOCK FALSE
