SPECIFICATION ExecSpec
CONSTANTS
    Actions = {a1, a2}
    ProfileActions = {a2}
    Workers = {w1, w2}
    Users = {u1}
    Conversations = {c1}
    NoAction = NoAction
    TTL = 1
    Lease = 1
    MaxTime = 1
SYMMETRY Symmetric
INVARIANTS
    ExecTypeOK
    NothingSentUnconfirmed
    ExecutedIsApplied
    AtMostOneEffect
PROPERTIES
    ImplementsLifecycle
CHECK_DEADLOCK FALSE
