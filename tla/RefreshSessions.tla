-------------------------- MODULE RefreshSessions --------------------------
(***************************************************************************)
(* The sign-ins of one local user: the rows of refresh_sessions, the        *)
(* tokens signed for them, the cookie jars of the browsers, and the         *)
(* requests in flight between the two.                                      *)
(*                                                                          *)
(* A request is not atomic.  The browser attaches its cookies when it sends *)
(* it; the server reads the row and judges the token; later it writes; the  *)
(* response reaches the jar later still, or never, and in any order.  The   *)
(* row a new sign-in begins with is committed after its response is sent.   *)
(*                                                                          *)
(* Time is in seconds, which is what the claims of a token hold.            *)
(***************************************************************************)
EXTENDS Integers, FiniteSets

CONSTANTS
    Browsers,    \* cookie jars; the tabs of a browser share one
    Requests,    \* requests that can be in flight together
    SessionIds,  \* identifiers new_identifier() can return for a row
    Jtis,        \* ... and for a refresh token
    Kinds,       \* the endpoints the browsers of this instance call
    Grace,       \* REUSE_GRACE_SECONDS
    AccessTtl,   \* access_token_expires_seconds
    Period,      \* refresh_token_expires_seconds
    Sliding,     \* refresh_token_sliding_enabled
    Lossy,       \* whether responses can be lost
    MaxTime,     \* bound of the clock
    NoSession, NoJti, NoRow, NoAccess, NoTx, Idle

Endpoints == {"login", "refresh", "switch", "logout", "password"}

ASSUME KindsAssumption == Kinds \subseteq Endpoints
ASSUME TimesAssumption ==
    /\ Grace \in Nat /\ AccessTtl \in Nat /\ Period \in Nat /\ MaxTime \in Nat
    /\ Sliding \in BOOLEAN /\ Lossy \in BOOLEAN
ASSUME NullsAssumption ==
    /\ NoSession \notin SessionIds
    /\ NoJti \notin Jtis

Never == -1      \* a NULL time

Time == 0..MaxTime
Token == [sid: SessionIds \cup {NoSession}, iat: Time, exp: Nat]
Row == [current: Jtis, previous: Jtis \cup {NoJti}, rotated: Time \cup {Never}, expires: Nat]
Access == [sid: SessionIds, iat: Time]
Reply == [access: Access \cup {NoAccess}, refresh: Jtis \cup {NoJti}, clears: BOOLEAN]
\* What a password change read when it was let through, and when that was.
Reading == [at: Time, line: Time \cup {Never}, expires: Nat]
Request == [phase: {"sent", "verified", "replied"}, kind: Endpoints, browser: Browsers,
            jti: Jtis \cup {NoJti}, access: Access \cup {NoAccess}, reply: Reply, read: Reading]
\* boundary: the line it draws, if any; seen: the one it found.
Tx == [sid: SessionIds, row: Row, boundary: Time \cup {Never}, seen: Time \cup {Never}, began: Time]
\* presented: the token it was handed out for; replaced: the one it took over from.
History == [presented: Jtis \cup {NoJti}, replaced: Jtis \cup {NoJti}, by: Endpoints,
            retired: Time \cup {Never}, lost: BOOLEAN]

ASSUME NullRecordsAssumption ==
    NoRow \notin Row /\ NoTx \notin Tx /\ Idle \notin Request /\ NoAccess \notin Access

VARIABLES
    clock,      \* utcnow()
    rows,       \* refresh_sessions: SessionIds -> a committed row, or NoRow
    boundary,   \* users.sessions_valid_from as committed, or Never
    token,      \* Jtis -> the signed claims of that refresh token
    jar,        \* Browsers -> the cookies [access, refresh]
    req,        \* Requests -> the request in flight, or Idle
    tx,         \* Requests -> the transaction its get_db still has open, or NoTx
    \* history, read by the properties and by no action:
    history,    \* Jtis -> where the token came from and what became of it
    signedIn    \* SessionIds -> when the user last gave credentials at an entrance

vars == <<clock, rows, boundary, token, jar, req, tx, history, signedIn>>
ghosts == <<history, signedIn>>

Unsigned == [sid |-> NoSession, iat |-> 0, exp |-> 0]
NoHistory == [presented |-> NoJti, replaced |-> NoJti, by |-> "login",
              retired |-> Never, lost |-> FALSE]
EmptyJar == [access |-> NoAccess, refresh |-> NoJti]
Refused == [access |-> NoAccess, refresh |-> NoJti, clears |-> FALSE]
NothingRead == [at |-> 0, line |-> Never, expires |-> 0]

TypeOK ==
    /\ clock \in Time
    /\ rows \in [SessionIds -> Row \cup {NoRow}]
    /\ boundary \in Time \cup {Never}
    /\ token \in [Jtis -> Token]
    /\ jar \in [Browsers -> [access: Access \cup {NoAccess}, refresh: Jtis \cup {NoJti}]]
    /\ req \in [Requests -> Request \cup {Idle}]
    /\ tx \in [Requests -> Tx \cup {NoTx}]
    /\ history \in [Jtis -> History]
    /\ signedIn \in [SessionIds -> Time]

Init ==
    /\ clock = 0
    /\ rows = [s \in SessionIds |-> NoRow]
    /\ boundary = Never
    /\ token = [j \in Jtis |-> Unsigned]
    /\ jar = [b \in Browsers |-> EmptyJar]
    /\ req = [r \in Requests |-> Idle]
    /\ tx = [r \in Requests |-> NoTx]
    /\ history = [j \in Jtis |-> NoHistory]
    /\ signedIn = [s \in SessionIds |-> 0]

-----------------------------------------------------------------------------
(* Reading a token and a row.                                               *)

Signed(j) == token[j].sid # NoSession
Taken(s) == \E j \in Jtis : token[j].sid = s

Decodes(exp) == clock < exp

HasExpired(row) == row.expires <= clock

Standing(row, j) ==
    IF j = row.current THEN "current"
    ELSE IF /\ j = row.previous
            /\ row.rotated # Never
            /\ clock - row.rotated <= Grace
         THEN "just_rotated"
         ELSE "reused"

\* A sign-in is over when the user drew the line after this token, or its
\* row is gone or past its end.
SessionRevoked(sid, iat) ==
    \/ iat < boundary
    \/ rows[sid] = NoRow
    \/ HasExpired(rows[sid])

\* Variants a bug could leave behind: the end forgotten, or always extended.
LifetimeForgotten(sid) == Never
LifetimeExtended(sid) == clock + Period

\* With no extension the end of the continued sign-in is kept.
LifetimeOf(sid) ==
    IF ~Sliding /\ sid # NoSession /\ rows[sid] # NoRow
    THEN rows[sid].expires
    ELSE clock + Period

-----------------------------------------------------------------------------
(* Writing.                                                                 *)

AccessFor(sid, at) == [sid |-> sid, iat |-> at]

Sign(j, sid, at, exp) == token' = [token EXCEPT ![j] = [sid |-> sid, iat |-> at, exp |-> exp]]

Answer(r, reply) == req' = [req EXCEPT ![r].phase = "replied", ![r].reply = reply]

\* Variant: any token of the row will do, as long as the last rotation settled.
RotationMatchesAnyToken(sid, presented) ==
    /\ rows[sid] # NoRow
    /\ presented # NoJti =>
         rows[sid].rotated = Never \/ rows[sid].rotated < clock - Grace

\* The UPDATE's WHERE clause: the presented token must be the current one, and
\* the last rotation settled.  A role switch presents none.
RotationMatches(sid, presented) ==
    /\ rows[sid] # NoRow
    /\ presented # NoJti =>
         /\ rows[sid].current = presented
         /\ \/ rows[sid].rotated = Never
            \/ rows[sid].rotated < clock - Grace

\* Variant: SET evaluated from left to right with current_jti first.
RotatedInColumnOrder(row, j, expires) ==
    [current |-> j, previous |-> j, rotated |-> clock,
     expires |-> IF Sliding THEN expires ELSE row.expires]

Rotated(row, j, expires) ==
    [current |-> j, previous |-> row.current, rotated |-> clock,
     expires |-> IF Sliding THEN expires ELSE row.expires]

Rotate(r, sid, presented, j) ==
    LET expires == LifetimeOf(sid) IN
    /\ RotationMatches(sid, presented)
    /\ ~Signed(j)
    /\ rows' = [rows EXCEPT ![sid] = Rotated(rows[sid], j, expires)]
    /\ Sign(j, sid, clock, expires)
    /\ Answer(r, [access |-> AccessFor(sid, clock), refresh |-> j, clears |-> FALSE])
    /\ history' = [history EXCEPT
                     ![j] = [NoHistory EXCEPT !.presented = presented, !.by = req[r].kind,
                                              !.replaced = rows[sid].current],
                     ![rows[sid].current].retired = clock]
    /\ UNCHANGED <<clock, boundary, jar, tx, signedIn>>

\* Variant: the loser gets cookies as well.
RotateMissedSetsCookie(r, sid, presented) ==
    /\ ~RotationMatches(sid, presented)
    /\ \E j \in Jtis :
         /\ ~Signed(j) /\ Sign(j, sid, clock, LifetimeOf(sid))
         /\ Answer(r, [access |-> AccessFor(sid, clock), refresh |-> j, clears |-> FALSE])
    /\ UNCHANGED <<clock, rows, boundary, jar, tx, ghosts>>

\* Variant: the row is written back where there is none.
RotateMissedInserts(r, sid, presented) ==
    /\ ~RotationMatches(sid, presented)
    /\ IF rows[sid] = NoRow /\ presented # NoJti
       THEN rows' = [rows EXCEPT ![sid] = [current |-> presented, previous |-> NoJti,
                                           rotated |-> Never, expires |-> clock + Period]]
       ELSE UNCHANGED rows
    /\ Answer(r, [access |-> AccessFor(sid, clock), refresh |-> NoJti, clears |-> FALSE])
    /\ UNCHANGED <<clock, boundary, token, jar, tx, ghosts>>

\* The UPDATE matched no row: the access token goes out, the cookies stay.
RotateMissed(r, sid, presented) ==
    /\ ~RotationMatches(sid, presented)
    /\ Answer(r, [access |-> AccessFor(sid, clock), refresh |-> NoJti, clears |-> FALSE])
    /\ UNCHANGED <<clock, rows, boundary, token, jar, tx, ghosts>>

End(sid) == rows' = [rows EXCEPT ![sid] = NoRow]

\* begin(): a new row and the removal of the expired ones, left to get_db to commit.
\* The tokens are signed, and the expired rows removed, at the time `at`.
Begin(r, sid, j, at, expires, line, seen, kind, since) ==
    /\ ~Taken(sid) /\ ~Signed(j)
    /\ Sign(j, sid, at, expires)
    /\ tx' = [tx EXCEPT ![r] =
                [sid |-> sid, boundary |-> line, seen |-> seen, began |-> at,
                 row |-> [current |-> j, previous |-> NoJti, rotated |-> Never, expires |-> expires]]]
    /\ history' = [history EXCEPT ![j].by = kind]
    /\ signedIn' = [signedIn EXCEPT ![sid] = since]

-----------------------------------------------------------------------------
(* The endpoints.                                                           *)

Free(r) == req[r] = Idle /\ tx[r] = NoTx

Fetched(b, kind, jti, access) ==
    [phase |-> "sent", kind |-> kind, browser |-> b, jti |-> jti, access |-> access,
     reply |-> Refused, read |-> NothingRead]

\* The browser attaches the cookies the endpoint's path lets it attach.
Send(r, b, kind) ==
    /\ Free(r) /\ kind \in Kinds
    /\ \/ /\ kind \in {"refresh", "logout"} /\ jar[b].refresh # NoJti
          /\ req' = [req EXCEPT ![r] = Fetched(b, kind, jar[b].refresh, NoAccess)]
       \/ /\ kind \in {"switch", "password"} /\ jar[b].access # NoAccess
          /\ req' = [req EXCEPT ![r] = Fetched(b, kind, NoJti, jar[b].access)]
    /\ UNCHANGED <<clock, rows, boundary, token, jar, tx, ghosts>>

Refuse(r) ==
    /\ Answer(r, Refused)
    /\ UNCHANGED <<clock, rows, boundary, token, jar, tx, ghosts>>

Accept(r) ==
    /\ req' = [req EXCEPT ![r].phase = "verified"]
    /\ UNCHANGED <<clock, rows, boundary, token, jar, tx, ghosts>>

Arrived(r, kind) == req[r] # Idle /\ req[r].phase = "sent" /\ req[r].kind = kind
Verified(r, kind) == req[r] # Idle /\ req[r].phase = "verified" /\ req[r].kind = kind

\* POST /api/auth/login: the password was right.
Login(r, b) ==
    /\ Free(r) /\ "login" \in Kinds
    /\ \E sid \in SessionIds, j \in Jtis :
         /\ Begin(r, sid, j, clock, LifetimeOf(NoSession), Never, Never, "login", clock)
         /\ req' = [req EXCEPT ![r] =
                      [Fetched(b, "login", NoJti, NoAccess) EXCEPT
                         !.phase = "replied",
                         !.reply = [access |-> AccessFor(sid, clock), refresh |-> j, clears |-> FALSE]]]
    /\ UNCHANGED <<clock, rows, boundary, jar>>

RefreshTokenValid(j) ==
    Decodes(token[j].exp) /\ ~SessionRevoked(token[j].sid, token[j].iat)

\* POST /api/auth/refresh, up to the reading of the row ...
RefreshRefused(r) ==
    /\ Arrived(r, "refresh")
    /\ ~RefreshTokenValid(req[r].jti)
    /\ Refuse(r)

\* ... a token that is neither the current one nor just rotated ends its sign-in ...
RefreshReused(r) ==
    LET j == req[r].jti  sid == token[req[r].jti].sid IN
    /\ Arrived(r, "refresh")
    /\ RefreshTokenValid(j) /\ Standing(rows[sid], j) = "reused"
    /\ End(sid)
    /\ Answer(r, Refused)
    /\ UNCHANGED <<clock, boundary, token, jar, tx, ghosts>>

RefreshVerified(r) ==
    LET j == req[r].jti IN
    /\ Arrived(r, "refresh")
    /\ RefreshTokenValid(j) /\ Standing(rows[token[j].sid], j) # "reused"
    /\ Accept(r)

\* ... and the conditional UPDATE, whose row may have changed since.
RefreshWrites(r) ==
    LET j == req[r].jti  sid == token[req[r].jti].sid IN
    /\ Verified(r, "refresh")
    /\ \/ \E k \in Jtis : Rotate(r, sid, j, k)
       \/ RotateMissed(r, sid, j)

\* Variant: the role switch and the password change trust the signature alone.
AccessSigned(a) == Decodes(a.iat + AccessTtl)

AccessValid(a) == Decodes(a.iat + AccessTtl) /\ ~SessionRevoked(a.sid, a.iat)

\* POST /api/auth/switch-role: the gate of get_current_session ...
SwitchChecked(r) ==
    /\ Arrived(r, "switch")
    /\ \/ AccessValid(req[r].access) /\ Accept(r)
       \/ ~AccessValid(req[r].access) /\ Refuse(r)

\* ... and the same row moved on, whichever token is its current one.
SwitchWrites(r) ==
    LET sid == req[r].access.sid IN
    /\ Verified(r, "switch")
    /\ \/ \E k \in Jtis : Rotate(r, sid, NoJti, k)
       \/ RotateMissed(r, sid, NoJti)

\* POST /api/auth/logout: the logout token carries the refresh token's end and row.
Logout(r) ==
    LET j == req[r].jti IN
    /\ Arrived(r, "logout")
    /\ \/ Decodes(token[j].exp) /\ End(token[j].sid)
       \/ ~Decodes(token[j].exp) /\ UNCHANGED rows
    /\ Answer(r, [Refused EXCEPT !.clears = TRUE])
    /\ UNCHANGED <<clock, boundary, token, jar, tx, ghosts>>

\* POST /api/auth/change-password: the gate of get_current_session ...
PasswordRefused(r) ==
    /\ Arrived(r, "password")
    /\ ~AccessValid(req[r].access)
    /\ Refuse(r)

\* ... let through: the line and the lifetime of this sign-in are read in the
\* snapshot of its transaction.
PasswordJudged(r) ==
    /\ Arrived(r, "password")
    /\ AccessValid(req[r].access)
    /\ req' = [req EXCEPT ![r].phase = "verified",
                          ![r].read = [at |-> clock, line |-> boundary,
                                       expires |-> LifetimeOf(req[r].access.sid)]]
    /\ UNCHANGED <<clock, rows, boundary, token, jar, tx, ghosts>>

\* A change that has drawn its line holds the row of the user until it commits.
UserRowFree == \A q \in Requests : tx[q] # NoTx => tx[q].boundary = Never

\* The line is reckoned, and the tokens of the new sign-in are signed, at some time
\* since; only the flush waits for the row.  It updates the line it had read, later
\* or not, and the new sign-in takes over the lifetime of this one.
PasswordWrites(r) ==
    LET old == req[r].access.sid  read == req[r].read IN
    /\ Verified(r, "password") /\ UserRowFree
    /\ read.line # Never \/ boundary = Never
    /\ \E sid \in SessionIds, j \in Jtis, at \in read.at..clock :
         /\ Begin(r, sid, j, at, IF Sliding THEN at + Period ELSE read.expires,
                  at, read.line, "password", signedIn[old])
         /\ Answer(r, [access |-> AccessFor(sid, at), refresh |-> j, clears |-> FALSE])
    /\ UNCHANGED <<clock, rows, boundary, jar>>

\* The user had no line when it was read, so the flush inserts one; a change that
\* has committed since has put its own there, and this one fails.
PasswordConflicts(r) ==
    /\ Verified(r, "password") /\ UserRowFree
    /\ req[r].read.line = Never /\ boundary # Never
    /\ Refuse(r)

-----------------------------------------------------------------------------
(* get_db, the network and time.                                            *)

Commit(r) ==
    /\ tx[r] # NoTx
    /\ rows' = [s \in SessionIds |->
                  IF s = tx[r].sid THEN tx[r].row
                  ELSE IF rows[s] # NoRow /\ rows[s].expires < tx[r].began THEN NoRow
                  ELSE rows[s]]
    /\ boundary' = IF tx[r].boundary = Never THEN boundary ELSE tx[r].boundary
    /\ tx' = [tx EXCEPT ![r] = NoTx]
    /\ UNCHANGED <<clock, token, jar, req, ghosts>>

Replied(r) == req[r] # Idle /\ req[r].phase = "replied"

WithCookies(cookies, reply) ==
    IF reply.clears THEN EmptyJar
    ELSE [access |-> IF reply.access = NoAccess THEN cookies.access ELSE reply.access,
          refresh |-> IF reply.refresh = NoJti THEN cookies.refresh ELSE reply.refresh]

Deliver(r) ==
    /\ Replied(r)
    /\ jar' = [jar EXCEPT ![req[r].browser] = WithCookies(@, req[r].reply)]
    /\ req' = [req EXCEPT ![r] = Idle]
    /\ UNCHANGED <<clock, rows, boundary, token, tx, ghosts>>

Lose(r) ==
    /\ Lossy /\ Replied(r)
    /\ req' = [req EXCEPT ![r] = Idle]
    /\ history' = IF req[r].reply.refresh = NoJti THEN history
                  ELSE [history EXCEPT ![req[r].reply.refresh].lost = TRUE]
    /\ UNCHANGED <<clock, rows, boundary, token, jar, tx, signedIn>>

Tick ==
    /\ clock < MaxTime
    /\ clock' = clock + 1
    /\ UNCHANGED <<rows, boundary, token, jar, req, tx, ghosts>>

Handle(r) ==
    \/ RefreshRefused(r) \/ RefreshReused(r) \/ RefreshVerified(r) \/ RefreshWrites(r)
    \/ SwitchChecked(r) \/ SwitchWrites(r)
    \/ Logout(r)
    \/ PasswordRefused(r) \/ PasswordJudged(r) \/ PasswordWrites(r) \/ PasswordConflicts(r)

Next ==
    \/ \E r \in Requests, b \in Browsers :
         Login(r, b) \/ \E kind \in Endpoints : Send(r, b, kind)
    \/ \E r \in Requests : Handle(r) \/ Commit(r) \/ Deliver(r) \/ Lose(r)
    \/ Tick

Spec == Init /\ [][Next]_vars

-----------------------------------------------------------------------------
(* What the sign-ins promise.                                               *)

Pending(sid) == \E r \in Requests : tx[r] # NoTx /\ tx[r].sid = sid

\* The sign-in a request was let through for, and whose row it is about to move on.
ServedBy(r) == IF req[r].kind = "refresh" THEN token[req[r].jti].sid ELSE req[r].access.sid
InHand(sid) ==
    \E r \in Requests : /\ req[r] # Idle /\ req[r].phase = "verified"
                        /\ req[r].kind # "password" /\ ServedBy(r) = sid

\* Of the requests that present the same refresh token, however they overlap,
\* at most one is handed a new pair for it (rotate's WHERE clause).
OnePairPerToken ==
    \A j, k \in Jtis :
        history[j].presented # NoJti /\ history[j].presented = history[k].presented => j = k

RecentlyRetired(j) ==
    /\ Signed(j) /\ rows[token[j].sid] # NoRow
    /\ history[j].retired # Never /\ clock - history[j].retired <= Grace

\* A role switch moved the sign-in on once more after j had been replaced.
OvertakenBySwitch(j) ==
    \E k \in Jtis : /\ token[k].sid = token[j].sid
                    /\ history[k].by = "switch" /\ history[k].replaced # j
                    /\ token[k].iat >= history[j].retired

\* A tab that presents a token another tab rotated within the grace period is
\* not taken for a reuse that ends the sign-in, unless a role switch has
\* rotated the row again since (standing_of against rotate's interval).
LateTabAccepted ==
    \A j \in Jtis :
        RecentlyRetired(j) =>
            Standing(rows[token[j].sid], j) # "reused" \/ OvertakenBySwitch(j)

\* What ADR-0092 says without that exception: within the grace period the
\* previous token does not move, so the late tab is always accepted.
LateTabAlwaysAccepted ==
    \A j \in Jtis : RecentlyRetired(j) => Standing(rows[token[j].sid], j) # "reused"

Quiet(b) == \A r \in Requests : req[r] # Idle => req[r].browser # b

ReplacedBySwitch(j) == \E k \in Jtis : history[k].by = "switch" /\ history[k].replaced = j

\* When a browser's requests have all been answered it holds the current refresh
\* token of its sign-in, in whatever order the responses came, unless that
\* token's response was lost or the one it holds was replaced by a role switch,
\* which presents none and can overtake the response that brings it
\* (_record_refresh_session gives a cookie to the winner only).
WinnersCookieStays ==
    \A b \in Browsers :
        LET j == jar[b].refresh  row == rows[token[j].sid] IN
        Quiet(b) /\ j # NoJti /\ rows[token[j].sid] # NoRow =>
            j = row.current \/ history[row.current].lost \/ ReplacedBySwitch(j)

NoRevival ==
    \A sid \in SessionIds :
        Taken(sid) /\ rows[sid] = NoRow /\ ~Pending(sid) => rows'[sid] = NoRow

\* A sign-in that was ended, by a logout, a reuse or the removal of expired rows,
\* never has a row again, whatever requests for it are still in flight.
EndedStaysEnded == [][NoRevival]_vars

\* With no extension, no chain of refreshes, role switches and password changes
\* yields a refresh token that outlives the entrance it started from by more
\* than the configured period (lifetime_for).
AbsoluteLifetime ==
    ~Sliding => \A j \in Jtis :
        Signed(j) => token[j].exp <= signedIn[token[j].sid] + Period

\* Nothing issued since the user drew the line is left of this sign-in.
LeftBehind(sid) ==
    /\ rows[sid] # NoRow /\ token[rows[sid].current].iat < boundary
    /\ ~InHand(sid)
    /\ \A b \in Browsers :
         jar[b].access # NoAccess /\ jar[b].access.sid = sid => jar[b].access.iat < boundary
    /\ \A r \in Requests : req[r] # Idle =>
         \A a \in {req[r].access, req[r].reply.access} :
             a # NoAccess /\ a.sid = sid => a.iat < boundary

\* The commit of a change whose line is earlier than the one it puts back, which
\* another change drew after this one had read its own.
SetsLineBack(r) ==
    /\ tx[r] # NoTx /\ tx'[r] = NoTx
    /\ tx[r].boundary # Never /\ tx[r].boundary < boundary /\ tx[r].seen # boundary

NothingMoreForLeftBehind ==
    \A sid \in SessionIds :
        LeftBehind(sid) =>
            \/ rows'[sid] = NoRow
            \/ /\ rows'[sid] = rows[sid]
               /\ LeftBehind(sid)' \/ \E r \in Requests : SetsLineBack(r)

\* A sign-in left behind by a password change is handed nothing more: its row
\* stays as it is until it is removed (_issued_before_sessions_ended on both
\* the refresh and the role-switch path).  It stays left behind unless two changes
\* overlap and the one that commits last had reckoned the earlier line
\* (end_sessions writes what it computed, whatever is there by then).
LeftBehindStays == [][NothingMoreForLeftBehind]_vars

\* What change_password says: every sign-in begun before the line is over, that
\* is, its row's current refresh token is refused, but for the tokens of the very
\* second of the line, which the code lets through knowingly.
PasswordChangeEndsOthers ==
    \A sid \in SessionIds, j \in Jtis :
        /\ rows[sid] # NoRow /\ token[j].sid = sid
        /\ history[j].by \in {"login", "password"} /\ token[j].iat < boundary
        => token[rows[sid].current].iat <= boundary

-----------------------------------------------------------------------------
(* The sign-ins as SignIns sees them.                                       *)

StateOf(sid) ==
    IF rows[sid] # NoRow THEN "open"
    ELSE IF Taken(sid) /\ ~Pending(sid) THEN "closed" ELSE "none"

Spent(j) == history[j].retired # Never \/ (Signed(j) /\ StateOf(token[j].sid) = "closed")

Abstract == INSTANCE SignIns WITH
    state <- [s \in SessionIds |-> StateOf(s)],
    holder <- [s \in SessionIds |-> IF rows[s] # NoRow THEN rows[s].current ELSE NoJti],
    spent <- {j \in Jtis : Spent(j)}

\* Requests, cookies and the late commit together keep the promise of SignIns:
\* a token that was exchanged or whose sign-in is over is never exchanged again.
ImplementsSignIns == Abstract!Spec
=============================================================================
