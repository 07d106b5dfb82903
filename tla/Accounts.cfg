CONSTANTS
    Users = {u1, u2}
    Nobody = Nobody
    Requests = {q1, q2}
    Tries = {t1, t2, t3}
    MaxTime = 2
    Identifiers = {a, b}
    MaxFailures = 2
    Window = 2
    LockDuration = 2
    NoAttempts = NoAttempts
    Members = {u1}
    Secrets = {s1, s2}
    AccessTtl = 1
    SettingsAge = 1
    NoSecret = NoSecret
    NoAsk = NoAsk
    Challenges = {c1, c2}
    Credentials = {k1}
    MaxCount = 2
    MaxRegistered = 2
    ChallengeTtl = 1
    Unissued = Unissued
    Gone = Gone
    NoKey = NoKey
    NoCeremony = NoCeremony
    Links = {l1, l2}
    ResetTtl = 0
    InvitationTtl = 1
    NoLink = NoLink
    NoReset = NoReset
    NoAccount = NoAccount
    Devices = {d1, d2}
    Apps = {d2}
    Messages = {m1}
    OneWriter = FALSE
    NoAsking = NoAsking
    Logins = {l1, l2}
    Codes = {p1}
    CardTtl = 1
    RecentLimit = 0
    NoEntry = NoEntry
    NoVisit = NoVisit
    Purgers = {p1}
    MaxRows = 3
    ChunkSize = 1
    MaxDays = 1
    MaxLag = 1
    NoPurge = NoPurge
    TenantIds = {t1}
    Whole = Whole
    LogsPerPage = 1
    NoReading = NoReading
    Orders = {"oldest", "newest", "name"}
    DefaultOrder = "oldest"
    AtDefault = "default"
    Offers = {{"oldest", "newest", "name"}, {"oldest", "name"}}
    MaxItems = 3
    MaxStored = 2
    Labels = {1, 2}
    ItemsPerPage = 1
    NoRow = NoRow
    NoSave = NoSave
    NoList = NoList
    DefaultAdmin = u2
    MaxCrashes = 1
    NoRun = NoRun
SPECIFICATION SuiteSpec
CHECK_DEADLOCK FALSE
INVARIANTS AccountsTypeOK SecondFactorHolds LinksHold ContentsHold PowersHold
PROPERTIES ThrottleHolds PasskeysHold
