---------------------------- MODULE SsoSessions ----------------------------
(***************************************************************************)
(* The sign-ins of one person through an identity provider: the ticket a    *)
(* callback leaves for the browser, the access tokens that carry the        *)
(* provider's session, and how the provider ends them -- by a notice, or by *)
(* what it answers to a worker that asks about everybody who is linked.     *)
(*                                                                          *)
(* The service keeps no row for such a sign-in.  A stop is a row of its     *)
(* own, read when a token is issued again; what lives by then runs out.     *)
(***************************************************************************)
EXTENDS Service

CONSTANTS
    Sids,             \* the provider's sessions of this person, as they follow each other
    Notices,          \* the logout tokens it sends, each with its jti
    Tickets,          \* what new_secret() can return
    AccessTtl,        \* access_token_expires_seconds
    TicketTtl,        \* oidc_login_ticket_ttl_seconds
    Keep,             \* how long a stop is kept: the life of a refresh token
    Unissued, Gone,   \* no row yet, no row any more
    NoSid, NoNotice, NoWork

ASSUME SsoAssumption ==
    /\ AccessTtl \in Nat \ {0} /\ TicketTtl \in Nat /\ Keep \in Nat
    /\ AccessTtl + TicketTtl <= Keep     \* minutes against days
    /\ Sids \subseteq Nat /\ NoSid \notin Sids /\ Unissued # Gone

Scope == Sids \cup {NoSid}              \* NoSid: every session of the person

TicketRow == [sid: Sids, started: Time, expires: Nat]
Sso == [sid: Sids, started: Time, until: Nat]
Stop == [jti: Notices \cup Time, scope: Scope, at: Time, until: Nat]
Notice == [scope: Scope, ended: SUBSET Sids, arrived: Time \cup {Never}]
Work == [kind: {"callback"}, sid: Sids]
        \cup [kind: {"redeem"}, ticket: Tickets, row: TicketRow]
        \cup [kind: {"switch"}, token: Sso]
        \cup [kind: {"pass"}, login: Time, blocked: BOOLEAN, ended: SUBSET Sids]

\* What a missing row, notice or request is told by; and a worker makes its jti
\* (of the sign-in it is about) as no provider does.
ASSUME SsoNullsAssumption ==
    /\ Unissued \notin TicketRow /\ Gone \notin TicketRow
    /\ NoNotice \notin Notice /\ NoWork \notin Work
    /\ Notices \cap Time = {}

VARIABLES
    blocked,     \* the provider has blocked the person
    session,     \* their session at the provider, or NoSid
    begun,       \* the provider's sessions that have begun
    notice,      \* Notices -> what was sent, or NoNotice
    tickets,     \* sso_login_tickets: Tickets -> a row, Unissued or Gone
    access,      \* of each sign-in the access token that lives longest
    stops,       \* federated_session_revocations
    lastLogin,   \* federated_identities.last_login_at
    work,        \* Requests -> what the request is at, or NoWork
    \* history, read by the properties and by no action:
    uses,        \* Tickets -> how often it was exchanged
    told,        \* Sids -> when the service was first told of its end, or Never
    crossed      \* the sessions a request was at in that moment, or when a worker asked or wrote

provider == <<blocked, session, begun>>
ssoVars == <<now, provider, notice, tickets, access, stops, lastLogin, work, uses, told, crossed>>

SsoTypeOK ==
    /\ now \in Time /\ blocked \in BOOLEAN /\ session \in Scope /\ begun \subseteq Sids
    /\ notice \in [Notices -> Notice \cup {NoNotice}]
    /\ tickets \in [Tickets -> TicketRow \cup {Unissued, Gone}]
    /\ access \subseteq Sso /\ stops \subseteq Stop /\ lastLogin \in Time \cup {Never}
    /\ work \in [Requests -> Work \cup {NoWork}]
    /\ uses \in [Tickets -> Nat] /\ crossed \subseteq Sids
    /\ told \in [Sids -> Time \cup {Never}]
    /\ \A s, t \in stops : s.jti = t.jti => s = t

SsoInit ==
    /\ now = 0 /\ blocked = FALSE /\ session = NoSid /\ begun = {}
    /\ notice = [n \in Notices |-> NoNotice]
    /\ tickets = [k \in Tickets |-> Unissued]
    /\ access = {} /\ stops = {} /\ lastLogin = Never
    /\ work = [r \in Requests |-> NoWork]
    /\ uses = [k \in Tickets |-> 0] /\ told = [sid \in Sids |-> Never] /\ crossed = {}

-----------------------------------------------------------------------------
(* The provider.  It answers for a session as long as it stands.            *)

ProviderSignIn(sid) ==
    /\ ~blocked /\ begun = 1..(sid - 1)
    /\ session' = sid /\ begun' = begun \cup {sid}
    /\ UNCHANGED <<now, blocked, notice, tickets, access, stops, lastLogin, work, uses, told, crossed>>

\* A session ends, and a notice of it is sent: of that session or of the person.
ProviderEnds(n, scope) ==
    /\ notice[n] = NoNotice /\ session # NoSid
    /\ scope \in {session, NoSid}
    /\ notice' = [notice EXCEPT ![n] = [scope |-> scope, ended |-> {session}, arrived |-> Never]]
    /\ session' = NoSid
    /\ UNCHANGED <<now, blocked, begun, tickets, access, stops, lastLogin, work, uses, told, crossed>>

ProviderBlocks ==
    /\ blocked' = ~blocked /\ session' = NoSid
    /\ UNCHANGED <<now, begun, notice, tickets, access, stops, lastLogin, work, uses, told, crossed>>

-----------------------------------------------------------------------------
(* Signing in, and going on.                                                *)

Revoked(sid, started) == \E s \in stops : s.scope \in {sid, NoSid} /\ s.at >= started

InTable(k) == tickets[k] \notin {Unissued, Gone}

\* Every ticket that is issued sweeps the expired ones.
SweptTickets == [k \in Tickets |-> IF InTable(k) /\ tickets[k].expires < now THEN Gone ELSE tickets[k]]

Issued(sid, started) ==
    {t \in access : t.sid # sid \/ t.started # started}
        \cup {[sid |-> sid, started |-> started, until |-> now + AccessTtl]}

\* The provider takes the code and answers who came back, and with which session.
ExchangeCode(r) ==
    /\ work[r] = NoWork /\ session # NoSid
    /\ work' = [work EXCEPT ![r] = [kind |-> "callback", sid |-> session]]
    /\ UNCHANGED <<now, provider, notice, tickets, access, stops, lastLogin, uses, told, crossed>>

At(r, kind) == work[r] # NoWork /\ work[r].kind = kind

\* The sign-in starts now, whenever the code was exchanged.
CompleteLogin(r, k) ==
    /\ At(r, "callback") /\ tickets[k] = Unissued
    /\ tickets' = [SweptTickets EXCEPT ![k] = [sid |-> work[r].sid, started |-> now, expires |-> now + TicketTtl]]
    /\ lastLogin' = now
    /\ work' = [work EXCEPT ![r] = NoWork]
    /\ UNCHANGED <<now, provider, notice, access, stops, uses, told, crossed>>

\* A renewal exchanges its ticket in the transaction that issues it.
CompleteRenewal(r) ==
    /\ At(r, "callback")
    /\ tickets' = SweptTickets
    /\ access' = Issued(work[r].sid, now)
    /\ lastLogin' = now
    /\ work' = [work EXCEPT ![r] = NoWork]
    /\ UNCHANGED <<now, provider, notice, stops, uses, told, crossed>>

PresentTicket(r, k) ==
    /\ work[r] = NoWork /\ InTable(k)
    /\ work' = [work EXCEPT ![r] = [kind |-> "redeem", ticket |-> k, row |-> tickets[k]]]
    /\ UNCHANGED <<now, provider, notice, tickets, access, stops, lastLogin, uses, told, crossed>>

\* Variant: the row that was read is enough.
RedeemsWhatItRead(x) == now < x.row.expires

\* The DELETE must find the row.
Redeems(x) == InTable(x.ticket) /\ now < x.row.expires

ExchangeTicket(r) ==
    LET x == work[r]
    IN  /\ At(r, "redeem")
        /\ IF Redeems(x)
           THEN /\ tickets' = [tickets EXCEPT ![x.ticket] = Gone]
                /\ uses' = [uses EXCEPT ![x.ticket] = @ + 1]
                /\ access' = Issued(x.row.sid, x.row.started)
           ELSE UNCHANGED <<tickets, uses, access>>
        /\ work' = [work EXCEPT ![r] = NoWork]
        /\ UNCHANGED <<now, provider, notice, stops, lastLogin, told, crossed>>

\* Another role: the one way to a new access token without the provider.
SwitchChecked(r, t) ==
    /\ work[r] = NoWork /\ ~Revoked(t.sid, t.started)
    /\ work' = [work EXCEPT ![r] = [kind |-> "switch", token |-> t]]
    /\ UNCHANGED <<now, provider, notice, tickets, access, stops, lastLogin, uses, told, crossed>>

SwitchWrites(r) ==
    /\ At(r, "switch")
    /\ access' = Issued(work[r].token.sid, work[r].token.started)
    /\ work' = [work EXCEPT ![r] = NoWork]
    /\ UNCHANGED <<now, provider, notice, tickets, stops, lastLogin, uses, told, crossed>>

-----------------------------------------------------------------------------
(* Stopping.                                                                *)

\* The stops that a record leaves after its sweep.
KeptStops == {s \in stops : s.until >= now}

\* Variant: a resend replaces the row.
RecordedAgain(jti, scope) ==
    {s \in KeptStops : s.jti # jti} \cup {[jti |-> jti, scope |-> scope, at |-> now, until |-> now + Keep]}

\* Variant: every notice is a row of its own.
RecordedBeside(jti, scope) == KeptStops \cup {[jti |-> jti, scope |-> scope, at |-> now, until |-> now + Keep]}

\* What was recorded under the same jti stands.
Recorded(jti, scope) ==
    IF \E s \in KeptStops : s.jti = jti THEN KeptStops
    ELSE KeptStops \cup {[jti |-> jti, scope |-> scope, at |-> now, until |-> now + Keep]}

InFlight(sid) == \E r \in Requests : \/ At(r, "callback") /\ work[r].sid = sid
                                     \/ At(r, "switch") /\ work[r].token.sid = sid

ToldOf(ended) == told' = [sid \in Sids |-> IF sid \in ended /\ told[sid] = Never THEN now ELSE told[sid]]

Crosses(sids) == crossed' = crossed \cup {sid \in sids : InFlight(sid)}

\* A notice arrives, late or again; it is not sent any more once its stop is gone.
ReceiveNotice(n) ==
    /\ notice[n] # NoNotice
    /\ LET first == notice[n].arrived = Never
       IN  /\ ~first => now <= notice[n].arrived + Keep
           /\ notice' = IF first THEN [notice EXCEPT ![n].arrived = now] ELSE notice
           /\ IF first THEN /\ ToldOf(notice[n].ended)
                            /\ Crosses({sid \in notice[n].ended : told[sid] = Never})
              ELSE UNCHANGED <<told, crossed>>
    /\ stops' = Recorded(n, notice[n].scope)
    /\ UNCHANGED <<now, provider, tickets, access, lastLogin, work, uses>>

\* A worker has read the link, and the provider has answered.
ReconcileAsks(r) ==
    /\ work[r] = NoWork /\ lastLogin # Never
    /\ work' = [work EXCEPT ![r] = [kind |-> "pass", login |-> lastLogin, blocked |-> blocked,
                                    ended |-> IF blocked THEN begun ELSE {}]]
    /\ IF blocked THEN Crosses(begun) ELSE UNCHANGED crossed
    /\ UNCHANGED <<now, provider, notice, tickets, access, stops, lastLogin, uses, told>>

\* Variant: one stop for a person, whenever they signed in.
JtiOfPerson(x) == 0

\* The jti of a stop is made from the sign-in it is meant for.
JtiOf(x) == x.login

ReconcileWrites(r) ==
    /\ At(r, "pass")
    /\ IF work[r].blocked
       THEN stops' = Recorded(JtiOf(work[r]), NoSid) /\ ToldOf(work[r].ended) /\ Crosses(begun)
       ELSE UNCHANGED <<stops, told, crossed>>
    /\ work' = [work EXCEPT ![r] = NoWork]
    /\ UNCHANGED <<now, provider, notice, tickets, access, lastLogin, uses>>

SsoTick ==
    /\ Tick
    /\ access' = {t \in access : now' < t.until}
    /\ UNCHANGED <<provider, notice, tickets, stops, lastLogin, work, uses, told, crossed>>

SsoNext ==
    \/ SsoTick \/ ProviderBlocks
    \/ \E sid \in Sids : ProviderSignIn(sid)
    \/ \E n \in Notices : ReceiveNotice(n) \/ \E scope \in Scope : ProviderEnds(n, scope)
    \/ \E r \in Requests :
         \/ ExchangeCode(r)
         \/ \E k \in Tickets : CompleteLogin(r, k) \/ PresentTicket(r, k)
         \/ \E t \in access : SwitchChecked(r, t)
         \/ CompleteRenewal(r) \/ ExchangeTicket(r) \/ SwitchWrites(r)
         \/ ReconcileAsks(r) \/ ReconcileWrites(r)

SsoSpec == SsoInit /\ [][SsoNext]_ssoVars
-----------------------------------------------------------------------------
\* A session the provider has ended is over here one ticket and one access token
\* after the service was told, however its tokens are exchanged and switched and
\* whichever stops are swept -- unless a sign-in or a switch of that session was
\* under way in that moment, or when a worker asked about everybody or stopped them
\* (which is left to its next round).
EndedSessionsEnd ==
    \A t \in access :
        told[t.sid] # Never /\ t.sid \notin crossed => now < told[t.sid] + TicketTtl + AccessTtl

\* A notice that comes again stops nothing that began after it first came.
ResendsChangeNothing == \A s \in stops : s.jti \in Notices => s.at = notice[s.jti].arrived

TicketState(k) ==
    CASE tickets[k] = Unissued -> "unissued"
      [] tickets[k] = Gone -> IF uses[k] > 0 THEN "spent" ELSE "dropped"
      [] OTHER -> "issued"

\* The ticket in the address of the screen is good for one sign-in, even when it
\* is sent twice at once, and is forgotten only when it has run out.
LoginTickets == INSTANCE OneTimeTickets WITH ticket <- [k \in Tickets |-> TicketState(k)]
TicketsAreTickets == LoginTickets!Spec

\* A notice of the provider ends what it is about, however often it is sent.
SingleLogoutHolds == EndedSessionsEnd /\ ResendsChangeNothing
=============================================================================
