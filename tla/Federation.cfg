CONSTANTS
    Users = {u1, u2}
    Members = {u1}
    Nobody = Nobody
    Requests = {a, b}
    MaxTime = 3
    Sids = {1, 2}
    Notices = {n1}
    Tickets = {k1}
    AccessTtl = 1
    TicketTtl = 1
    Keep = 2
    Unissued = Unissued
    Gone = Gone
    NoSid = NoSid
    NoNotice = NoNotice
    NoWork = NoWork
    Subjects = {a, b}
    NoUser = NoUser
    NoChange = NoChange
    Trips = {a, b}
    Roles = {editor}
    AllRoles = AllRoles
    NoTrip = NoTrip
    Over = Over
    NoLogin = NoLogin
    Proofs = {p1}
    ProofAge = 1
    ClockAhead = 1
    NoVisit = NoVisit
    Kids = {1, 2}
    RefreshInterval = 2
    JwksTtl = 2
    NoSet = NoSet
    NoLookup = NoLookup
    Operations = {editor}
    MachineTtl = 1
    NoExchange = NoExchange
SPECIFICATION FederationSpec
SYMMETRY Alike
CHECK_DEADLOCK FALSE
INVARIANTS FederationTypeOK SingleLogoutHolds OneProofOneRequest KeysHold MachinePowersFade
PROPERTIES TicketsAreTickets FederatedLinksHold RoundTripsHold
