SPECIFICATION Spec
CONSTANTS
    Actions = {a1}
    Workers = {w1, w2, w3}
    Users = {u1, u2}
    Conversations = {c1, c2}
    NoAction = NoAction
    TTL = 1
    Lease = 1
    MaxTime = 2
SYMMETRY Symmetric
INVARIANTS
    TypeOK
    ConfirmedBeforeExpiry
    WithdrawnNeverConfirmed
    FirstLeaseExclusive
PROPERTIES
    TerminalIsFinal
    OnlyOwnerChanges
