CONSTANTS
    Browsers = {1, 2}
    Requests = {r1, r2}
    SessionIds = {1, 2, 3, 4}
    Jtis = {1, 2, 3, 4}
    Kinds = {"login", "refresh", "switch", "password"}
    Grace = 0
    AccessTtl = 2
    Period = 2
    Sliding = FALSE
    Lossy = FALSE
    MaxTime = 3
    NoSession = NoSession
    NoJti = NoJti
    NoRow = NoRow
    NoAccess = NoAccess
    NoTx = NoTx
    Idle = Idle
SPECIFICATION SignedInSpec
SYMMETRY Symmetry
ACTION_CONSTRAINT IdentifiersInOrder
INVARIANTS AbsoluteLifetime
PROPERTY LeftBehindStays
CHECK_DEADLOCK FALSE
