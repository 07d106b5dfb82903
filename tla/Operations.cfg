CONSTANTS
    Users = {u1, u2, u3}
    Members = {u1}
    Nobody = Nobody
    Requests = {a, b}
    MaxTime = 5
    Tenants = {t1}
    Outside = Outside
    OwnRoles = {o1}
    Emails = {a, b}
    SeatTtl = 1
    NoSeat = NoSeat
    Left = Left
    NoJob = NoJob
    Groups = {g1, g2}
    Notes = {n1}
    MaxFounded = 3
    Sqlite = FALSE
    NoGroup = NoGroup
    Dissolved = Dissolved
    NoNote = NoNote
    NoEdit = NoEdit
    Workers = {u1, u2, u3}
    MaxTokens = 2
    MaxUnread = 1
    Purgers = {a, b}
    MaxRows = 4
    MaxDays = 1
    MaxLag = 0
    ChunkSize = 2
    NoPurge = NoPurge
    MaxReleases = 2
    AnswerTtl = 2
    FailureTtl = 1
    MaxFetch = 1
    NoAnswer = NoAnswer
    MaxTokensIssued = 3
    Lifetime = 3
    Margin = 2
    MaxExchange = 1
    NoTokenKept = NoTokenKept
    Watches = {{"LOG_LEVEL", "OIDC_ISSUER"}, {"MAIL_PASSWORD", "REFRESH_TOKEN_EXPIRES_SECONDS"}, {"MAIL_SERVER", "JWT_SECRET_KEY"}, {"LOCAL_LOGIN_ENABLED"}, {"REFRESH_TOKEN_SLIDING_ENABLED"}}
    Absent = Absent
    NoSaving = NoSaving
    Production = TRUE
SPECIFICATION OperationsSpec
SYMMETRY Alike
CHECK_DEADLOCK FALSE
INVARIANTS OperationsTypeOK SuspensionTakesHold SeatsHold RestartsReachAll LogsHold RetentionHolds ReleaseHolds TokensHold
PROPERTIES NotesHold SettingsHold
