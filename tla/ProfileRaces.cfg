SPECIFICATION Spec
CONSTANTS
    Values = {v1, v2}
    Typed = {}
    Queries <- FormOnly
    Nothing = Nothing
    Workers = {w1, w2}
    MaxClicks = 3
    MaxVersion = 4
    MaxOdooVersion = 0
SYMMETRY Symmetric
INVARIANTS
    RevisionNamesOneForm
CHECK_DEADLOCK FALSE
