SPECIFICATION Spec
CONSTANTS
    NumActions = 2
    Turns = {t1, t2, t3}
    NoAction = NoAction
SYMMETRY Symmetric
INVARIANTS
    TypeOK
    CardBacked
    NewQueryDisarmsCard
    CancelAnswerIsTrue
    CompletedIsExecuted
PROPERTIES
    NoLostUpdate
CHECK_DEADLOCK FALSE
