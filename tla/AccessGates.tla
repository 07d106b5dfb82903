---------------------------- MODULE AccessGates ----------------------------
(***************************************************************************)
(* What the access tokens of one person open, and how new ones are issued   *)
(* from old ones: by renewing a local login, by switching the role, and by  *)
(* changing the password.                                                   *)
(*                                                                          *)
(* A token is believed until it runs out, without a look at the tables; the *)
(* routes that issue tokens look at the rows first.  A request shows its    *)
(* token, is judged by what its transaction reads, and is answered later.   *)
(***************************************************************************)
EXTENDS Service

CONSTANTS
    Logins,         \* sign-ins: the ids of refresh_sessions, and the federated ones
    Codes,          \* permission codes
    CardTtl,        \* access_token_expires_seconds
    RecentLimit,    \* recent_sign_in_seconds
    NoEntry,        \* no such sign-in
    NoVisit         \* no request

\* The claims of an access token (a card), and what is kept of a sign-in: its
\* entrance, its row, and the claims of its refresh token.
Card == [login: Logins, fed: BOOLEAN, auth: Nat, iat: Nat, until: Nat, scope: SUBSET Codes]
Entry == [fed: BOOLEAN, started: Nat, row: BOOLEAN, auth: Nat, iat: Nat]
Visit == [kind: {"renew", "switch", "change"}, login: Logins, auth: Nat, iat: Nat, until: Nat,
          stage: {"shown", "judged"}, carried: BOOLEAN, scope: SUBSET Codes]

ASSUME GatesAssumption ==
    /\ CardTtl \in Nat /\ RecentLimit \in Nat
    /\ NoEntry \notin Entry /\ NoVisit \notin Visit /\ Nobody \notin Requests

VARIABLES
    held,        \* what the person's roles permit
    enabled,     \* users.is_active
    boundary,    \* sessions_valid_from, or Never
    stoppedAt,   \* when the IdP last stopped the person, or Never
    login,       \* Logins -> a sign-in, or NoEntry
    cards,       \* the access tokens that have not run out
    visit,       \* Requests -> the request in flight, or NoVisit
    \* history, read by the properties and by no action:
    entered,     \* Logins -> when a credential was last shown for it
    ended,       \* Logins -> when it was ended, or Never
    offSince,    \* when the person was switched off, or Never
    lastHeld,    \* Codes -> when the roles last permitted it, or Never
    straddled,   \* the sign-ins made by a request whose token ran out under way
    excused,     \* the sign-ins a request, or a token of the same second, slipped past
    lateCodes,   \* permissions taken while a request was at issuing them
    reissued     \* a route that does not look at is_active issued a token since then

gateVars == <<now, held, enabled, boundary, stoppedAt, login, cards, visit,
              entered, ended, offSince, lastHeld, straddled, excused, lateCodes, reissued>>
gateRows == <<held, enabled, boundary, stoppedAt>>
gateHistory == <<entered, ended, offSince, lastHeld, straddled, excused, lateCodes, reissued>>

\* The state has its types; tokens that ran out are no tokens any more.
GatesTypeOK ==
    /\ held \subseteq Codes /\ enabled \in BOOLEAN
    /\ boundary \in Time \cup {Never} /\ stoppedAt \in Time \cup {Never}
    /\ login \in [Logins -> Entry \cup {NoEntry}]
    /\ cards \subseteq Card
    /\ visit \in [Requests -> Visit \cup {NoVisit}]
    /\ entered \in [Logins -> Time \cup {Never}] /\ ended \in [Logins -> Time \cup {Never}]
    /\ offSince \in Time \cup {Never} /\ lastHeld \in [Codes -> Time \cup {Never}]
    /\ straddled \subseteq Logins /\ excused \subseteq Logins /\ lateCodes \subseteq Codes /\ reissued \in BOOLEAN
    /\ \A c \in cards : login[c.login] # NoEntry /\ c.iat <= now /\ now <= c.until /\ c.until <= now + CardTtl

GatesInit ==
    /\ now = 0
    /\ held = Codes /\ enabled = TRUE /\ boundary = Never /\ stoppedAt = Never
    /\ login = [l \in Logins |-> NoEntry] /\ cards = {} /\ visit = [r \in Requests |-> NoVisit]
    /\ entered = [l \in Logins |-> Never] /\ ended = [l \in Logins |-> Never]
    /\ offSince = Never /\ lastHeld = [o \in Codes |-> 0]
    /\ straddled = {} /\ excused = {} /\ lateCodes = {} /\ reissued = FALSE

-----------------------------------------------------------------------------
(* The gates.                                                               *)

\* require_permission: what the token says.
PassesScope(c, o) == o \in c.scope

\* ensure_recent_sign_in: what the token says, too.
PassesRecent(c) == now - c.auth <= RecentLimit

\* Variant: only the provider ends sign-ins.
RevokedAtTheProvider(x) == login[x.login].fed /\ login[x.login].started <= stoppedAt

\* _session_revoked: the person drew a line after it, its row is gone, or the
\* provider stopped it.
Revoked(x) ==
    \/ x.iat < boundary
    \/ ~login[x.login].fed /\ ~login[x.login].row
    \/ login[x.login].fed /\ login[x.login].started <= stoppedAt

\* get_settled_principal: what the rows say.
PassesSettled(c) == ~Revoked(c)

\* Variant: a token gives what the one before it gave.
ScopeAsShown(x) == UNION {c.scope : c \in {d \in cards : d.login = x.login}}

\* The roles are read from the rows with every token that is issued.
ScopeOf(x) == held

\* Variant: what is not an entrance is one.
AuthAnew(x) == now

\* When the person last signed in: carried over, never renewed.
AuthOf(x) == IF x.carried THEN x.auth ELSE now

-----------------------------------------------------------------------------
InFlight(l, r) == \E q \in Requests \ {r} : visit[q] # NoVisit /\ visit[q].login = l

\* The sign-ins L are over now, as far as the properties are concerned.
EndLogins(L, fresh, r) ==
    LET over == {l \in L : login[l] # NoEntry /\ ended[l] = Never}
    IN  /\ ended' = [l \in Logins |-> IF l \in over THEN now ELSE ended[l]]
        /\ excused' = excused \cup {l \in over : InFlight(l, r) \/ l \in fresh}

\* establish_session: a token; for a local login also its row and refresh token.
NewCard(l, fed, auth, scope) ==
    [login |-> l, fed |-> fed, auth |-> auth, iat |-> now, until |-> now + CardTtl, scope |-> scope]

SignsIn(l, fed) ==
    /\ login[l] = NoEntry /\ enabled
    /\ login' = [login EXCEPT ![l] = [fed |-> fed, started |-> now, row |-> ~fed, auth |-> now, iat |-> now]]
    /\ cards' = cards \cup {NewCard(l, fed, now, held)}
    /\ entered' = [entered EXCEPT ![l] = now]
    /\ UNCHANGED <<now, gateRows, visit, ended, offSince, lastHeld, straddled, excused, lateCodes, reissued>>

\* A request shows an access token, which is good at that moment ...
Shows(r, kind, c) ==
    /\ visit[r] = NoVisit /\ c \in cards
    /\ visit' = [visit EXCEPT ![r] = [kind |-> kind, login |-> c.login, auth |-> c.auth, iat |-> c.iat,
                                      until |-> c.until, stage |-> "shown", carried |-> TRUE, scope |-> {}]]
    /\ UNCHANGED <<now, gateRows, login, cards, gateHistory>>

\* ... or the refresh token of a local login.
ShowsPaper(r, l) ==
    /\ visit[r] = NoVisit /\ login[l] # NoEntry /\ ~login[l].fed
    /\ visit' = [visit EXCEPT ![r] = [kind |-> "renew", login |-> l, auth |-> login[l].auth,
                                      iat |-> login[l].iat, until |-> MaxTime + 1,
                                      stage |-> "shown", carried |-> TRUE, scope |-> {}]]
    /\ UNCHANGED <<now, gateRows, login, cards, gateHistory>>

\* The rows are read, and the token is decoded again: one that ran out by now
\* is not compared with them, and nothing is carried over from it.
Judges(r) ==
    /\ visit[r] # NoVisit /\ visit[r].stage = "shown"
    /\ LET v == visit[r]
           good == now < v.until
           passes == /\ good => ~Revoked(v)
                     /\ v.kind = "renew" => enabled
       IN  visit' = [visit EXCEPT ![r] = IF passes
                                         THEN [v EXCEPT !.stage = "judged", !.carried = good, !.scope = ScopeOf(v)]
                                         ELSE NoVisit]
    /\ UNCHANGED <<now, gateRows, login, cards, gateHistory>>

Ready(r, kinds) == visit[r] # NoVisit /\ visit[r].stage = "judged" /\ visit[r].kind \in kinds

\* The same sign-in goes on with a new token.  Its row is taken over, if it is
\* still there; a renewal that comes second leaves the refresh token alone.
CarriesOn(r) ==
    /\ Ready(r, {"renew", "switch"}) /\ visit[r].carried
    /\ LET v == visit[r]
           taken == login[v.login].row
       IN  /\ cards' = cards \cup {NewCard(v.login, login[v.login].fed, AuthOf(v), v.scope)}
           /\ \E wins \in IF v.kind = "renew" THEN BOOLEAN ELSE {TRUE} :
                login' = IF taken /\ wins
                         THEN [login EXCEPT ![v.login].iat = now, ![v.login].auth = AuthOf(v)]
                         ELSE login
           /\ reissued' = (reissued \/ (v.kind = "switch" /\ ~enabled))
    /\ visit' = [visit EXCEPT ![r] = NoVisit]
    /\ UNCHANGED <<now, gateRows, entered, ended, offSince, lastHeld, straddled, excused, lateCodes>>

\* With nothing carried over a switch of roles begins a local login of its own.
BeginsAnother(r, l) ==
    /\ Ready(r, {"switch"}) /\ ~visit[r].carried /\ login[l] = NoEntry
    /\ login' = [login EXCEPT ![l] = [fed |-> FALSE, started |-> now, row |-> TRUE,
                                      auth |-> AuthOf(visit[r]), iat |-> now]]
    /\ cards' = cards \cup {NewCard(l, FALSE, AuthOf(visit[r]), visit[r].scope)}
    /\ entered' = [entered EXCEPT ![l] = entered[visit[r].login]]
    /\ straddled' = straddled \cup {l}
    /\ reissued' = (reissued \/ ~enabled)
    /\ visit' = [visit EXCEPT ![r] = NoVisit]
    /\ UNCHANGED <<now, gateRows, ended, offSince, lastHeld, excused, lateCodes>>

\* change_password: the line is drawn, and the one who drew it gets a token
\* behind it; a local login continues under a row of its own.
ChangesPassword(r, l) ==
    /\ Ready(r, {"change"})
    /\ LET v == visit[r]
           stays == v.carried /\ login[v.login].fed
           fresh == {c.login : c \in {d \in cards : d.iat = now}} \cup
                    {k \in Logins : login[k] # NoEntry /\ ~login[k].fed /\ login[k].iat = now}
       IN  /\ IF stays THEN l = v.login ELSE login[l] = NoEntry
           /\ boundary' = now
           /\ login' = [login EXCEPT ![l] = [fed |-> stays, started |-> IF stays THEN @.started ELSE now,
                                             row |-> ~stays, auth |-> now, iat |-> now]]
           /\ cards' = cards \cup {NewCard(l, stays, now, v.scope)}
           /\ entered' = [entered EXCEPT ![l] = now]
           /\ EndLogins(Logins \ {l}, fresh, r)
    /\ reissued' = (reissued \/ ~enabled)
    /\ visit' = [visit EXCEPT ![r] = NoVisit]
    /\ UNCHANGED <<now, held, enabled, stoppedAt, offSince, lastHeld, straddled, lateCodes>>

\* Logging out, a refresh token that comes twice, the end of its life.
RowEnds(l) ==
    /\ login[l] # NoEntry /\ login[l].row
    /\ login' = [login EXCEPT ![l].row = FALSE]
    /\ EndLogins({l}, {}, Nobody)
    /\ UNCHANGED <<now, gateRows, cards, visit, entered, offSince, lastHeld, straddled, lateCodes, reissued>>

ProviderStops ==
    /\ stoppedAt' = now
    /\ EndLogins({l \in Logins : login[l] # NoEntry /\ login[l].fed}, {}, Nobody)
    /\ UNCHANGED <<now, held, enabled, boundary, login, cards, visit, entered, offSince, lastHeld, straddled, lateCodes, reissued>>

\* An administrator gives or takes roles, switches the person off or on.
SetsRoles(x) ==
    /\ held' = x
    /\ lastHeld' = [o \in Codes |-> IF o \in held \cup x THEN now ELSE lastHeld[o]]
    /\ lateCodes' = lateCodes \cup ((UNION {visit[r].scope : r \in {q \in Requests : visit[q] # NoVisit}}) \ x)
    /\ UNCHANGED <<now, enabled, boundary, stoppedAt, login, cards, visit,
                   entered, ended, offSince, straddled, excused, reissued>>

SetsEnabled ==
    /\ enabled' = ~enabled
    /\ offSince' = IF enabled THEN now ELSE Never
    /\ reissued' = (~enabled' /\ \E r \in Requests : visit[r] # NoVisit)
    /\ UNCHANGED <<now, held, boundary, stoppedAt, login, cards, visit,
                   entered, ended, lastHeld, straddled, excused, lateCodes>>

GatesTick ==
    /\ Tick
    /\ cards' = {c \in cards : now' < c.until}
    /\ lastHeld' = [o \in Codes |-> IF o \in held THEN now' ELSE lastHeld[o]]
    /\ UNCHANGED <<gateRows, login, visit, entered, ended, offSince, straddled, excused, lateCodes, reissued>>

GatesNext ==
    \/ GatesTick \/ ProviderStops \/ SetsEnabled
    \/ \E x \in SUBSET Codes : SetsRoles(x)
    \/ \E l \in Logins : RowEnds(l) \/ \E fed \in BOOLEAN : SignsIn(l, fed)
    \/ \E r \in Requests :
         \/ \E kind \in {"switch", "change"}, c \in cards : Shows(r, kind, c)
         \/ \E l \in Logins : ShowsPaper(r, l) \/ BeginsAnother(r, l) \/ ChangesPassword(r, l)
         \/ Judges(r) \/ CarriesOn(r)

GatesSpec == GatesInit /\ [][GatesNext]_gateVars
-----------------------------------------------------------------------------
\* Who passes the gate for a person who has just signed in has done so: neither
\* renewals nor switches of roles make an old sign-in young -- unless the token
\* of a switch ran out under way.
RecentMeansSignedIn ==
    \A c \in cards : c.login \notin straddled /\ PassesRecent(c) => now - entered[c.login] <= RecentLimit

\* A sign-in that was ended gets no token any more, so that its last one runs
\* out a token's life later and passes no gate that looks at the rows -- unless
\* a request was under way or the token is of the second it ended in.
EndedLoginsStayEnded ==
    \A c \in cards : ended[c.login] # Never /\ c.login \notin excused =>
        c.until <= ended[c.login] + CardTtl /\ ~PassesSettled(c)

\* What the roles no longer permit, no token permits one token's life later,
\* however often the role was switched -- unless a request that had read the
\* roles was answered late.
CodesFade ==
    \A c \in cards : \A o \in Codes \ lateCodes : PassesScope(c, o) => c.until <= lastHeld[o] + CardTtl

\* A person who is switched off has no token one token's life later, unless one
\* is issued by a route that leaves is_active out: those for a role and for a
\* new password.
SwitchedOffMeansOut ==
    offSince # Never /\ ~reissued => \A c \in cards : c.until <= offSince + CardTtl

\* A token never opens more than the sign-in behind it did, and what is taken
\* from a person or a sign-in is gone one token's life later.
GatesHold == RecentMeansSignedIn /\ EndedLoginsStayEnded /\ CodesFade /\ SwitchedOffMeansOut
=============================================================================
