SPECIFICATION Spec
CONSTANTS
    Limits = {5, 6, 7, 8, 13, 14, 15, 20}
INVARIANTS
    OnlyShortLimitsCut
    WriteIsReported
    OneActionPerTurn
    CardIsShown
    NoSilentTurn
CHECK_DEADLOCK FALSE
