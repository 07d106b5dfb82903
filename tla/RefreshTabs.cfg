CONSTANTS
    Browsers = {1}
    Requests = {r1, r2}
    SessionIds = {1}
    Jtis = {1, 2, 3}
    Kinds = {"login", "refresh", "switch", "logout"}
    Grace = 1
    AccessTtl = 2
    Period = 4
    Sliding = TRUE
    Lossy = TRUE
    MaxTime = 4
    NoSession = NoSession
    NoJti = NoJti
    NoRow = NoRow
    NoAccess = NoAccess
    NoTx = NoTx
    Idle = Idle
SPECIFICATION Spec
SYMMETRY Symmetry
ACTION_CONSTRAINT IdentifiersInOrder
INVARIANTS TypeOK OnePairPerToken LateTabAccepted WinnersCookieStays
PROPERTIES EndedStaysEnded ImplementsSignIns
CHECK_DEADLOCK FALSE
