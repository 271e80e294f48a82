SPECIFICATION Spec
CONSTANTS
    MaxDate = 3
    Today = 2
    annual = annual
    unpaid = unpaid
    ill = ill
    travel = travel
    r1 = r1
    r2 = r2
    p1 = p1
    LeaveTypes <- Types
    Reasons <- Texts
    Requests <- Own
    Original <- InOdoo
    People <- Mentioned
    None = None
    Spoken <- Said
    Natural <- SpeltOut
INVARIANTS
    CardChangesApply
    CardKeepsAnswers
    CardIsOfLoadedRequest
    AnsweredOnce
