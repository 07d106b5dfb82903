CONSTANTS
    Browsers = {1, 2}
    Requests = {r1, r2}
    SessionIds = {1, 2, 3}
    Jtis = {1, 2, 3, 4}
    Kinds = {"refresh", "password"}
    Grace = 1
    AccessTtl = 2
    Period = 4
    Sliding = TRUE
    Lossy = FALSE
    MaxTime = 2
    NoSession = NoSession
    NoJti = NoJti
    NoRow = NoRow
    NoAccess = NoAccess
    NoTx = NoTx
    Idle = Idle
SPECIFICATION SignedInSpec
SYMMETRY Symmetry
ACTION_CONSTRAINT IdentifiersInOrder
INVARIANT PasswordChangeEndsOthers
CHECK_DEADLOCK FALSE
