SPECIFICATION Spec
CONSTANTS
    r1 = r1
    r2 = r2
    title = title
    number = number
    Records = {r1, r2}
    Texts = {title, number}
    Typed = Typed
    None = None
    NumberOf <- NumberOfText
    Resolutions <- SomeResolutions
    MatchedBy <- OneMatches
INVARIANTS
    CardShowsItsChanges
    CreateIsComplete
PROPERTIES
    DraftStaysWithRecord
    CancelEnds
CHECK_DEADLOCK FALSE
