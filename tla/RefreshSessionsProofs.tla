----------------------- MODULE RefreshSessionsProofs -----------------------
(* Theorems about RefreshSessions, for every value of its constants.        *)
EXTENDS RefreshSessions, TLAPS

(***************************************************************************)
(* Typing.  TypeOK is not inductive by itself: an access token is signed for *)
(* the sign-in of the cookies a request carries, so those cookies must be of *)
(* tokens that were signed.                                                 *)
(***************************************************************************)
Carries(q) ==
    /\ q.kind \in {"refresh", "logout"} => q.jti \in Jtis /\ Signed(q.jti)
    /\ q.kind \in {"switch", "password"} => q.access \in Access
    /\ q.reply.refresh \in Jtis => Signed(q.reply.refresh)

RequestsOK == \A r \in Requests : req[r] # Idle => Carries(req[r])
JarsOK == \A b \in Browsers : jar[b].refresh \in Jtis => Signed(jar[b].refresh)

TypeInv == TypeOK /\ RequestsOK /\ JarsOK

Store == <<clock, rows, boundary, token, tx, history, signedIn>>

LEMMA InitTypeInv == Init => TypeInv
BY TimesAssumption, NullsAssumption
   DEF Init, TypeInv, TypeOK, RequestsOK, JarsOK, Time, Token, Row, Access, Tx, Request, History,
       Unsigned, NoHistory, EmptyJar, Endpoints, Never

\* A step that leaves token as it is or signs an unsigned one keeps what is signed.
LEMMA SignKeeps ==
    ASSUME TypeOK, NEW j \in Jtis, NEW s \in SessionIds, NEW at, NEW e, ~Signed(j), Sign(j, s, at, e)
    PROVE  /\ Signed(j)' /\ \A k \in Jtis : Signed(k) => Signed(k)'
           /\ token'[j] = [sid |-> s, iat |-> at, exp |-> e]
           /\ \A k \in Jtis \ {j} : token'[k] = token[k]
BY NullsAssumption DEF TypeOK, Signed, Sign, Token

LEMMA NothingReadType == NothingRead \in Reading
BY TimesAssumption DEF NothingRead, Reading, Time, Never

LEMMA AnswerType ==
    ASSUME TypeInv, NEW r \in Requests, req[r] # Idle, NEW reply \in Reply, Answer(r, reply),
           \A k \in Jtis : Signed(k) => Signed(k)',
           reply.refresh \in Jtis => Signed(reply.refresh)'
    PROVE  req' \in [Requests -> Request \cup {Idle}] /\ RequestsOK'
<1>1. req[r] \in Request
  BY DEF TypeInv, TypeOK
<1>2. req'[r] = [req[r] EXCEPT !.phase = "replied", !.reply = reply]
  BY DEF TypeInv, TypeOK, Answer
<1>3. req'[r] \in Request
  BY <1>1, <1>2 DEF Request
<1>4. req' \in [Requests -> Request \cup {Idle}]
  BY <1>3 DEF TypeInv, TypeOK, Answer
<1>5. Carries(req[r])
  BY DEF TypeInv, RequestsOK
<1>6. Carries(req[r])'
  BY <1>1, <1>2, <1>5 DEF Carries, Request
<1>7. ASSUME NEW q \in Requests, q # r, req'[q] # Idle PROVE Carries(req[q])'
  <2>1. req'[q] = req[q] /\ req[q] \in Request
    BY <1>7 DEF TypeInv, TypeOK, Answer
  <2>2. Carries(req[q])
    BY <1>7, <2>1 DEF TypeInv, RequestsOK
  <2> QED BY <2>1, <2>2 DEF Carries, Request, Reply
<1> QED BY <1>4, <1>6, <1>7 DEF RequestsOK

LEMMA AccessForType ==
    ASSUME TypeOK, NEW s \in SessionIds
    PROVE  AccessFor(s, clock) \in Access /\ \A at \in Time : AccessFor(s, at) \in Access
BY DEF TypeOK, AccessFor, Access

LEMMA LifetimeType ==
    ASSUME TypeOK, NEW s \in SessionIds \cup {NoSession}
    PROVE  LifetimeOf(s) \in Nat
BY TimesAssumption DEF TypeOK, LifetimeOf, Row, Time

\* Requests and jars stay well formed when only req changes, towards a well-formed one.
LEMMA JarsKept ==
    ASSUME TypeInv, UNCHANGED jar, \A k \in Jtis : Signed(k) => Signed(k)'
    PROVE  JarsOK'
BY DEF TypeInv, JarsOK

LEMMA RotateType ==
    ASSUME TypeInv, NEW r \in Requests, req[r] # Idle, NEW s \in SessionIds,
           NEW p \in Jtis \cup {NoJti}, NEW k \in Jtis, Rotate(r, s, p, k)
    PROVE  TypeInv'
<1>1. TypeOK /\ ~Signed(k) /\ Sign(k, s, clock, LifetimeOf(s)) /\ rows[s] # NoRow
  BY DEF TypeInv, Rotate, RotationMatches
<1>2. /\ LifetimeOf(s) \in Nat /\ rows[s] \in Row /\ clock \in Time
      /\ req[r] \in Request
  BY <1>1, LifetimeType DEF TypeOK, TypeInv
<1>3. /\ Signed(k)' /\ \A j \in Jtis : Signed(j) => Signed(j)'
      /\ token'[k] = [sid |-> s, iat |-> clock, exp |-> LifetimeOf(s)]
  BY <1>1, SignKeeps
<1>4. token' \in [Jtis -> Token]
  BY <1>1, <1>2 DEF TypeOK, Sign, Token
<1>5. Rotated(rows[s], k, LifetimeOf(s)) \in Row
  BY <1>2 DEF Rotated, Row
<1>6. rows' \in [SessionIds -> Row \cup {NoRow}]
  BY <1>1, <1>5 DEF Rotate, TypeOK
<1>7. history' \in [Jtis -> History]
  <2>1. [NoHistory EXCEPT !.presented = p, !.by = req[r].kind, !.replaced = rows[s].current] \in History
    BY <1>2 DEF NoHistory, History, Request, Row, Never, Endpoints
  <2>2. \A h \in History : [h EXCEPT !.retired = clock] \in History
    BY <1>2 DEF History
  <2> QED BY <1>1, <1>2, <2>1, <2>2 DEF Rotate, TypeOK, Row
<1>8. [access |-> AccessFor(s, clock), refresh |-> k, clears |-> FALSE] \in Reply
  BY <1>1, AccessForType DEF Reply
<1>9. req' \in [Requests -> Request \cup {Idle}] /\ RequestsOK'
  BY <1>3, <1>8, AnswerType DEF Rotate
<1>10. JarsOK'
  BY <1>3, JarsKept DEF Rotate
<1> QED BY <1>1, <1>4, <1>6, <1>7, <1>9, <1>10 DEF Rotate, TypeInv, TypeOK

LEMMA RotateMissedType ==
    ASSUME TypeInv, NEW r \in Requests, req[r] # Idle, NEW s \in SessionIds, NEW p,
           RotateMissed(r, s, p)
    PROVE  TypeInv'
<1>1. [access |-> AccessFor(s, clock), refresh |-> NoJti, clears |-> FALSE] \in Reply
  BY AccessForType DEF Reply, TypeInv
<1>2. \A k \in Jtis : Signed(k) => Signed(k)'
  BY DEF RotateMissed, Signed
<1>3. req' \in [Requests -> Request \cup {Idle}] /\ RequestsOK'
  BY <1>1, <1>2, AnswerType, NullsAssumption DEF RotateMissed
<1>4. JarsOK'
  BY <1>2, JarsKept DEF RotateMissed
<1> QED BY <1>3, <1>4 DEF RotateMissed, TypeInv, TypeOK, ghosts

LEMMA BeginType ==
    ASSUME TypeInv, NEW r \in Requests, NEW s \in SessionIds, NEW j \in Jtis, NEW e \in Nat,
           NEW at \in Time, NEW line \in Time \cup {Never}, NEW seen \in Time \cup {Never},
           NEW kind \in Endpoints, NEW since \in Time,
           Begin(r, s, j, at, e, line, seen, kind, since)
    PROVE  /\ token' \in [Jtis -> Token] /\ tx' \in [Requests -> Tx \cup {NoTx}]
           /\ history' \in [Jtis -> History] /\ signedIn' \in [SessionIds -> Time]
           /\ Signed(j)' /\ \A k \in Jtis : Signed(k) => Signed(k)'
<1>1. TypeOK /\ clock \in Time /\ ~Signed(j) /\ Sign(j, s, at, e)
  BY DEF TypeInv, TypeOK, Begin
<1>2. Signed(j)' /\ \A k \in Jtis : Signed(k) => Signed(k)'
  BY <1>1, SignKeeps
<1>3. token' \in [Jtis -> Token]
  BY <1>1 DEF TypeOK, Sign, Token
<1>4. [current |-> j, previous |-> NoJti, rotated |-> Never, expires |-> e] \in Row
  BY DEF Row
<1>5. tx' \in [Requests -> Tx \cup {NoTx}]
  BY <1>1, <1>4 DEF Begin, TypeOK, Tx
<1>6. \A h \in History : [h EXCEPT !.by = kind] \in History
  BY DEF History
<1>7. history' \in [Jtis -> History] /\ signedIn' \in [SessionIds -> Time]
  BY <1>1, <1>6 DEF Begin, TypeOK
<1> QED BY <1>2, <1>3, <1>5, <1>7

\* What a password change writes: the line it had read, a line and tokens of some
\* time since, and the lifetime it had read.
LEMMA PasswordBegins ==
    ASSUME TypeInv, NEW r \in Requests, PasswordWrites(r)
    PROVE  /\ req[r] # Idle /\ req[r].phase = "verified" /\ req[r].kind = "password"
           /\ req[r].access.sid \in SessionIds /\ req[r].read \in Reading
           /\ UserRowFree /\ UNCHANGED <<clock, rows, boundary, jar>>
           /\ \E s \in SessionIds, j \in Jtis, at \in Time, e \in Nat, since \in Time :
                /\ Begin(r, s, j, at, e, at, req[r].read.line, "password", since)
                /\ Answer(r, [access |-> AccessFor(s, at), refresh |-> j, clears |-> FALSE])
                /\ req[r].read.at <= at /\ at <= clock
                /\ since = signedIn[req[r].access.sid]
                /\ ~Sliding => e = req[r].read.expires
<1>1. /\ req[r] # Idle /\ req[r].phase = "verified" /\ req[r].kind = "password"
      /\ UserRowFree /\ UNCHANGED <<clock, rows, boundary, jar>>
  BY DEF PasswordWrites, Verified
<1>2. req[r].access.sid \in SessionIds /\ req[r].read \in Reading
  BY <1>1 DEF TypeInv, TypeOK, RequestsOK, Carries, Access, Request
<1>3. PICK read, old : read = req[r].read /\ old = req[r].access.sid
  OBVIOUS
<1>4. PICK s \in SessionIds, j \in Jtis, at \in read.at..clock :
        /\ Begin(r, s, j, at, IF Sliding THEN at + Period ELSE read.expires,
                 at, read.line, "password", signedIn[old])
        /\ Answer(r, [access |-> AccessFor(s, at), refresh |-> j, clears |-> FALSE])
  BY <1>3 DEF PasswordWrites
<1>5. PICK e : e = IF Sliding THEN at + Period ELSE read.expires
  OBVIOUS
<1>6. /\ at \in Time /\ read.at <= at /\ at <= clock /\ e \in Nat /\ signedIn[old] \in Time
      /\ ~Sliding => e = read.expires
  <2>1. clock \in Time /\ read \in Reading /\ signedIn[old] \in Time
    BY <1>2, <1>3 DEF TypeInv, TypeOK
  <2>2. at \in Nat /\ at \in Time /\ read.at <= at /\ at <= clock
    BY <2>1, <1>4, TimesAssumption DEF Time, Reading
  <2>3. at + Period \in Nat /\ read.expires \in Nat
    BY <2>1, <2>2, TimesAssumption DEF Reading
  <2> QED BY <1>5, <2>1, <2>2, <2>3
<1> QED BY <1>1, <1>2, <1>3, <1>4, <1>5, <1>6

LEMMA NextTypeInv == TypeInv /\ [Next]_vars => TypeInv'
<1> SUFFICES ASSUME TypeInv, [Next]_vars PROVE TypeInv'
  OBVIOUS
<1>a. TypeOK /\ Refused \in Reply /\ Refused.refresh \notin Jtis
  BY NullsAssumption DEF TypeInv, Refused, Reply
<1>1. ASSUME NEW r \in Requests, req[r] # Idle, NEW reply \in Reply, reply.refresh \notin Jtis,
             Answer(r, reply), UNCHANGED <<clock, boundary, token, jar, tx, ghosts>>,
             rows' \in [SessionIds -> Row \cup {NoRow}]
      PROVE  TypeInv'
  <2>1. \A k \in Jtis : Signed(k) => Signed(k)'
    BY <1>1 DEF Signed
  <2>2. req' \in [Requests -> Request \cup {Idle}] /\ RequestsOK'
    BY <1>1, <2>1, AnswerType
  <2>3. JarsOK'
    BY <1>1, <2>1, JarsKept
  <2> QED BY <1>1, <2>2, <2>3 DEF TypeInv, TypeOK, ghosts
<1>2. ASSUME NEW r \in Requests, req[r] # Idle, Refuse(r) PROVE TypeInv'
  BY <1>a, <1>1, <1>2 DEF Refuse, TypeOK
<1>3. ASSUME NEW r \in Requests, req[r] # Idle, Accept(r) PROVE TypeInv'
  <2>1. req[r] \in Request /\ req'[r] = [req[r] EXCEPT !.phase = "verified"]
    BY <1>3 DEF Accept, TypeInv, TypeOK
  <2>2. req'[r] \in Request /\ Carries(req[r])
    BY <1>3, <2>1 DEF Request, TypeInv, RequestsOK
  <2>3. req' \in [Requests -> Request \cup {Idle}]
    BY <1>3, <2>2 DEF Accept, TypeInv, TypeOK
  <2>4. Carries(req[r])'
    BY <1>3, <2>1, <2>2 DEF Carries, Request, Accept, Signed
  <2>5. ASSUME NEW q \in Requests, q # r, req'[q] # Idle PROVE Carries(req[q])'
    BY <1>3, <2>5 DEF Accept, TypeInv, TypeOK, RequestsOK, Carries, Signed
  <2> QED BY <1>3, <2>3, <2>4, <2>5 DEF Accept, TypeInv, TypeOK, RequestsOK, JarsOK, Signed, ghosts
<1>4. ASSUME NEW r \in Requests, NEW kind, kind \in {"refresh", "logout"}, req[r] # Idle, req[r].kind = kind
      PROVE  /\ req[r] \in Request /\ req[r].jti \in Jtis /\ token[req[r].jti].sid \in SessionIds
             /\ token[req[r].jti] \in Token
  BY <1>4 DEF TypeInv, TypeOK, RequestsOK, Carries, Signed, Token
<1>5. ASSUME NEW r \in Requests, NEW kind, kind \in {"switch", "password"}, req[r] # Idle, req[r].kind = kind
      PROVE  req[r] \in Request /\ req[r].access \in Access /\ req[r].access.sid \in SessionIds
  BY <1>5 DEF TypeInv, TypeOK, RequestsOK, Carries, Access
<1>6. ASSUME NEW r \in Requests, NEW b \in Browsers, Login(r, b) PROVE TypeInv'
  <2>1. PICK s \in SessionIds, j \in Jtis :
          /\ Begin(r, s, j, clock, LifetimeOf(NoSession), Never, Never, "login", clock)
          /\ req' = [req EXCEPT ![r] =
                      [Fetched(b, "login", NoJti, NoAccess) EXCEPT
                         !.phase = "replied",
                         !.reply = [access |-> AccessFor(s, clock), refresh |-> j, clears |-> FALSE]]]
    BY <1>6 DEF Login
  <2>2. LifetimeOf(NoSession) \in Nat /\ clock \in Time /\ "login" \in Endpoints
    BY LifetimeType, <1>a DEF TypeOK, Endpoints
  <2>3. /\ token' \in [Jtis -> Token] /\ tx' \in [Requests -> Tx \cup {NoTx}]
        /\ history' \in [Jtis -> History] /\ signedIn' \in [SessionIds -> Time]
        /\ Signed(j)' /\ \A k \in Jtis : Signed(k) => Signed(k)'
    BY <2>1, <2>2, BeginType
  <2>4. [access |-> AccessFor(s, clock), refresh |-> j, clears |-> FALSE] \in Reply
    BY <1>a, AccessForType DEF Reply
  <2>5. /\ req'[r] \in Request /\ req'[r].kind = "login"
        /\ req'[r].reply = [access |-> AccessFor(s, clock), refresh |-> j, clears |-> FALSE]
        /\ req' \in [Requests -> Request \cup {Idle}]
        /\ \A q \in Requests \ {r} : req'[q] = req[q]
    BY <1>a, <2>1, <2>2, <2>4, NothingReadType DEF Fetched, Request, TypeOK
  <2>6. RequestsOK'
    BY <2>3, <2>5 DEF TypeInv, RequestsOK, Carries
  <2>7. JarsOK'
    BY <1>6, <2>3, JarsKept DEF Login
  <2> QED BY <1>6, <2>3, <2>5, <2>6, <2>7 DEF Login, TypeInv, TypeOK
<1>7. ASSUME NEW r \in Requests, NEW b \in Browsers, NEW kind \in Endpoints, Send(r, b, kind) PROVE TypeInv'
  <2>1. \/ /\ kind \in {"refresh", "logout"} /\ jar[b].refresh \in Jtis
           /\ req' = [req EXCEPT ![r] = Fetched(b, kind, jar[b].refresh, NoAccess)]
        \/ /\ kind \in {"switch", "password"} /\ jar[b].access \in Access
           /\ req' = [req EXCEPT ![r] = Fetched(b, kind, NoJti, jar[b].access)]
    BY <1>7 DEF Send, TypeInv, TypeOK
  <2>2. req' \in [Requests -> Request \cup {Idle}]
    BY <1>a, <2>1, NothingReadType DEF Fetched, Request, TypeOK
  <2>3. RequestsOK'
    <3> SUFFICES ASSUME NEW q \in Requests, req'[q] # Idle PROVE Carries(req[q])'
      BY DEF RequestsOK
    <3>1. \A j \in Jtis : Signed(j)' <=> Signed(j)
      BY <1>7 DEF Send, Signed
    <3>2. CASE q = r
      BY <1>a, <2>1, <3>1, <3>2 DEF Fetched, Carries, TypeInv, TypeOK, JarsOK
    <3>3. CASE q # r
      BY <2>1, <3>1, <3>3 DEF Carries, TypeInv, TypeOK, RequestsOK, Request, Reply
    <3> QED BY <3>2, <3>3
  <2> QED BY <1>7, <2>2, <2>3 DEF Send, TypeInv, TypeOK, JarsOK, Signed, ghosts
<1>8. ASSUME NEW r \in Requests, Handle(r) PROVE TypeInv'
  <2>1. CASE RefreshRefused(r) BY <1>2, <2>1 DEF RefreshRefused, Arrived
  <2>2. CASE RefreshReused(r)
    <3>1. rows' \in [SessionIds -> Row \cup {NoRow}]
      BY <2>2, <1>a DEF RefreshReused, End, TypeOK
    <3> QED BY <1>a, <1>1, <2>2, <3>1 DEF RefreshReused, Arrived
  <2>3. CASE RefreshVerified(r) BY <1>3, <2>3 DEF RefreshVerified, Arrived
  <2>4. CASE RefreshWrites(r)
    <3>1. req[r] # Idle /\ req[r].jti \in Jtis /\ token[req[r].jti].sid \in SessionIds
      BY <1>4, <2>4 DEF RefreshWrites, Verified
    <3> QED BY <2>4, <3>1, RotateType, RotateMissedType DEF RefreshWrites
  <2>5. CASE SwitchChecked(r) BY <1>2, <1>3, <2>5 DEF SwitchChecked, Arrived
  <2>6. CASE SwitchWrites(r)
    <3>1. req[r] # Idle /\ req[r].access.sid \in SessionIds
      BY <1>5, <2>6 DEF SwitchWrites, Verified
    <3> QED BY <2>6, <3>1, RotateType, RotateMissedType DEF SwitchWrites
  <2>7. CASE Logout(r)
    <3>1. rows' \in [SessionIds -> Row \cup {NoRow}]
      BY <2>7, <1>a DEF Logout, End, TypeOK
    <3>2. [Refused EXCEPT !.clears = TRUE] \in Reply /\ [Refused EXCEPT !.clears = TRUE].refresh \notin Jtis
      BY <1>a DEF Refused, Reply
    <3> QED BY <1>1, <2>7, <3>1, <3>2 DEF Logout, Arrived
  <2>8. CASE PasswordRefused(r) BY <1>2, <2>8 DEF PasswordRefused, Arrived
  <2>9. CASE PasswordJudged(r)
    <3>1. PICK read : read = [at |-> clock, line |-> boundary, expires |-> LifetimeOf(req[r].access.sid)]
      OBVIOUS
    <3>2. /\ req[r] # Idle /\ req[r] \in Request /\ Carries(req[r]) /\ req[r].access.sid \in SessionIds
          /\ UNCHANGED <<clock, rows, boundary, token, jar, tx, ghosts>>
      BY <1>5, <2>9 DEF PasswordJudged, Arrived, TypeInv, RequestsOK
    <3>3. read \in Reading
      BY <1>a, <3>1, <3>2, LifetimeType DEF Reading, TypeOK
    <3>4. /\ req'[r] = [req[r] EXCEPT !.phase = "verified", !.read = read]
          /\ \A q \in Requests \ {r} : req'[q] = req[q]
          /\ req' = [req EXCEPT ![r] = [req[r] EXCEPT !.phase = "verified", !.read = read]]
      BY <1>a, <2>9, <3>1 DEF PasswordJudged, TypeOK
    <3>5. [req[r] EXCEPT !.phase = "verified", !.read = read] \in Request
      BY <3>2, <3>3 DEF Request
    <3>6. req' \in [Requests -> Request \cup {Idle}]
      BY <1>a, <3>4, <3>5 DEF TypeOK
    <3>7. Carries(req[r])'
      BY <3>2, <3>4 DEF Carries, Request, Signed
    <3>8. ASSUME NEW q \in Requests, q # r, req'[q] # Idle PROVE Carries(req[q])'
      BY <3>2, <3>4, <3>8 DEF TypeInv, RequestsOK, Carries, Signed
    <3> QED BY <3>2, <3>6, <3>7, <3>8 DEF TypeInv, TypeOK, RequestsOK, JarsOK, Signed, ghosts
  <2>10. CASE PasswordWrites(r)
    <3>1. /\ req[r] # Idle /\ req[r].read.line \in Time \cup {Never}
          /\ UNCHANGED <<clock, rows, boundary, jar>> /\ "password" \in Endpoints
      BY <2>10, PasswordBegins DEF Reading, Endpoints
    <3>2. PICK s \in SessionIds, j \in Jtis, at \in Time, e \in Nat, since \in Time :
            /\ Begin(r, s, j, at, e, at, req[r].read.line, "password", since)
            /\ Answer(r, [access |-> AccessFor(s, at), refresh |-> j, clears |-> FALSE])
      BY <2>10, PasswordBegins
    <3>4. /\ token' \in [Jtis -> Token] /\ tx' \in [Requests -> Tx \cup {NoTx}]
          /\ history' \in [Jtis -> History] /\ signedIn' \in [SessionIds -> Time]
          /\ Signed(j)' /\ \A k \in Jtis : Signed(k) => Signed(k)'
      BY <3>1, <3>2, BeginType
    <3>5. [access |-> AccessFor(s, at), refresh |-> j, clears |-> FALSE] \in Reply
      BY <1>a, AccessForType DEF Reply
    <3>6. req' \in [Requests -> Request \cup {Idle}] /\ RequestsOK'
      BY <3>1, <3>2, <3>4, <3>5, AnswerType
    <3>7. JarsOK'
      BY <3>1, <3>4, JarsKept
    <3> QED BY <3>1, <3>4, <3>6, <3>7 DEF TypeInv, TypeOK
  <2>11. CASE PasswordConflicts(r) BY <1>2, <2>11 DEF PasswordConflicts, Verified
  <2> QED BY <1>8, <2>1, <2>2, <2>3, <2>4, <2>5, <2>6, <2>7, <2>8, <2>9, <2>10, <2>11 DEF Handle
<1>9. ASSUME NEW r \in Requests, Commit(r) PROVE TypeInv'
  <2>1. tx[r] \in Tx
    BY <1>9, <1>a DEF Commit, TypeOK
  <2>2. rows' \in [SessionIds -> Row \cup {NoRow}] /\ boundary' \in Time \cup {Never}
    BY <1>9, <1>a, <2>1 DEF Commit, TypeOK, Tx
  <2>3. tx' \in [Requests -> Tx \cup {NoTx}]
    BY <1>9, <1>a DEF Commit, TypeOK
  <2> QED BY <1>9, <2>2, <2>3 DEF Commit, TypeInv, TypeOK, RequestsOK, JarsOK, Carries, Signed, ghosts
<1>10. ASSUME NEW r \in Requests, Deliver(r) PROVE TypeInv'
  <2>1. req[r] # Idle /\ req[r] \in Request /\ req[r].browser \in Browsers
    BY <1>10, <1>a DEF Deliver, Replied, TypeOK, Request
  <2>2. req[r].reply \in Reply /\ (req[r].reply.refresh \in Jtis => Signed(req[r].reply.refresh))
    BY <2>1 DEF Request, TypeInv, RequestsOK, Carries
  <2> DEFINE cookies == jar[req[r].browser]
  <2>3. /\ cookies \in [access: Access \cup {NoAccess}, refresh: Jtis \cup {NoJti}]
        /\ cookies.refresh \in Jtis => Signed(cookies.refresh)
    BY <1>a, <2>1 DEF TypeOK, TypeInv, JarsOK
  <2>4. /\ WithCookies(cookies, req[r].reply) \in [access: Access \cup {NoAccess}, refresh: Jtis \cup {NoJti}]
        /\ WithCookies(cookies, req[r].reply).refresh \in Jtis
             => Signed(WithCookies(cookies, req[r].reply).refresh)
    <3> HIDE DEF cookies
    <3> QED BY <2>2, <2>3, NullsAssumption DEF WithCookies, EmptyJar, Reply
  <2>5. jar' \in [Browsers -> [access: Access \cup {NoAccess}, refresh: Jtis \cup {NoJti}]]
    BY <1>10, <1>a, <2>4 DEF Deliver, TypeOK
  <2>6. JarsOK'
    <3> SUFFICES ASSUME NEW b \in Browsers, jar'[b].refresh \in Jtis PROVE Signed(jar'[b].refresh)
      BY <1>10 DEF JarsOK, Deliver, Signed
    <3>1. CASE b = req[r].browser
      <4>1. jar'[b] = WithCookies(cookies, req[r].reply)
        BY <1>10, <1>a, <3>1 DEF Deliver, TypeOK
      <4> QED BY <2>4, <4>1
    <3>2. CASE b # req[r].browser
      BY <1>10, <1>a, <3>2 DEF Deliver, TypeOK, TypeInv, JarsOK
    <3> QED BY <3>1, <3>2
  <2>7. req' \in [Requests -> Request \cup {Idle}] /\ RequestsOK'
    BY <1>10, <1>a DEF Deliver, TypeOK, TypeInv, RequestsOK, Carries, Signed
  <2> QED BY <1>10, <2>5, <2>6, <2>7 DEF Deliver, TypeInv, TypeOK, ghosts
<1>11. ASSUME NEW r \in Requests, Lose(r) PROVE TypeInv'
  <2>1. \A h \in History : [h EXCEPT !.lost = TRUE] \in History
    BY DEF History
  <2>2. history' \in [Jtis -> History]
    BY <1>11, <1>a, <2>1 DEF Lose, TypeOK
  <2>3. req' \in [Requests -> Request \cup {Idle}] /\ RequestsOK'
    BY <1>11, <1>a DEF Lose, TypeOK, TypeInv, RequestsOK, Carries, Signed
  <2> QED BY <1>11, <2>2, <2>3 DEF Lose, TypeInv, TypeOK, JarsOK, Signed
<1>12. CASE Tick
  BY <1>12, <1>a, TimesAssumption DEF Tick, TypeInv, TypeOK, Time, RequestsOK, JarsOK, Carries, Signed, ghosts
<1>13. CASE UNCHANGED vars
  BY <1>13 DEF vars, TypeInv, TypeOK, RequestsOK, JarsOK, Carries, Signed
<1> QED BY <1>6, <1>7, <1>8, <1>9, <1>10, <1>11, <1>12, <1>13 DEF Next

\* Every variable of the specification keeps its type, and no cookie, request or
\* response ever names a refresh token the server did not sign.
THEOREM TypeCorrectness == Spec => []TypeOK
<1>1. Spec => []TypeInv
  BY InitTypeInv, NextTypeInv, PTL DEF Spec
<1> QED BY <1>1, PTL DEF TypeInv

(***************************************************************************)
(* The inductive invariant.  The row of a sign-in names its only token that  *)
(* was not replaced; an open transaction is the only place that knows of its *)
(* sign-in; a token some other one was handed out for was replaced; and a    *)
(* replaced token is the previous one, or was replaced longer ago than the   *)
(* grace period, or was overtaken by a role switch.                         *)
(***************************************************************************)
RowsOK ==
    \A s \in SessionIds : rows[s] # NoRow =>
        /\ token[rows[s].current].sid = s
        /\ history[rows[s].current].retired = Never
        /\ rows[s].rotated <= clock

TxOK ==
    \A r \in Requests : tx[r] # NoTx =>
        /\ token[tx[r].row.current].sid = tx[r].sid
        /\ \A j \in Jtis : token[j].sid = tx[r].sid => j = tx[r].row.current
        /\ history[tx[r].row.current].retired = Never
        /\ tx[r].row.rotated = Never
        /\ rows[tx[r].sid] = NoRow
        /\ \A q \in Requests \ {r} : tx[q] # NoTx => tx[q].sid # tx[r].sid

HistoryOK ==
    \A j \in Jtis :
        /\ ~Signed(j) => history[j] = NoHistory
        /\ history[j].retired <= clock
        /\ history[j].presented # NoJti => history[history[j].presented].retired # Never

ChainOK ==
    \A j \in Jtis :
        LET row == rows[token[j].sid] IN
        Signed(j) /\ row # NoRow /\ history[j].retired # Never =>
            \/ j = row.previous /\ history[j].retired = row.rotated
            \/ row.rotated > history[j].retired + Grace
            \/ OvertakenBySwitch(j)

LifetimesOK ==
    ~Sliding =>
        /\ \A j \in Jtis : Signed(j) => token[j].exp <= signedIn[token[j].sid] + Period
        /\ \A s \in SessionIds : rows[s] # NoRow => rows[s].expires <= signedIn[s] + Period
        /\ \A r \in Requests : tx[r] # NoTx => tx[r].row.expires <= signedIn[tx[r].sid] + Period

\* The lifetime a password change has read is one its own sign-in may have.
ReadingsOK ==
    \A r \in Requests :
        req[r] # Idle /\ req[r].phase = "verified" /\ req[r].kind = "password" =>
            /\ Taken(req[r].access.sid)
            /\ ~Sliding => req[r].read.expires <= signedIn[req[r].access.sid] + Period

IInv ==
    /\ TypeInv /\ RowsOK /\ TxOK /\ HistoryOK /\ OnePairPerToken /\ ChainOK /\ LifetimesOK
    /\ ReadingsOK

\* What a step can do to the server's side of the model.
Rotation ==
    \E r \in Requests, s \in SessionIds, p \in Jtis \cup {NoJti}, k \in Jtis :
        /\ req[r] \in Request /\ (p = NoJti => req[r].kind = "switch")
        /\ Rotate(r, s, p, k)
Ending == \E s \in SessionIds : End(s) /\ UNCHANGED <<clock, token, tx, history, signedIn>>
Beginning ==
    \E r \in Requests, s \in SessionIds, j \in Jtis, at \in Time, e \in Nat,
       line \in Time \cup {Never}, seen \in Time \cup {Never}, kind \in Endpoints, since \in Time :
        /\ Begin(r, s, j, at, e, line, seen, kind, since)
        /\ at <= clock
        /\ ~Sliding => e <= since + Period
        /\ UNCHANGED <<clock, rows>>
Losing ==
    /\ UNCHANGED <<clock, rows, token, tx, signedIn>>
    /\ \E j \in Jtis : Signed(j) /\ history' = [history EXCEPT ![j].lost = TRUE]
Passing == clock' = clock + 1 /\ UNCHANGED <<rows, token, tx, history, signedIn>>
Waiting == UNCHANGED <<clock, rows, token, tx, history, signedIn>>

Effect ==
    Rotation \/ Ending \/ Beginning \/ (\E r \in Requests : Commit(r)) \/ Losing \/ Passing \/ Waiting

LEMMA StepEffect ==
    ASSUME TypeInv, LifetimesOK, ReadingsOK, [Next]_vars
    PROVE  Effect
<1>a. TypeOK
  BY DEF TypeInv
<1>1. ASSUME NEW r \in Requests, req[r] # Idle
      PROVE  /\ req[r] \in Request
             /\ req[r].kind \in {"refresh", "logout"} =>
                  req[r].jti \in Jtis /\ token[req[r].jti].sid \in SessionIds
             /\ req[r].kind \in {"switch", "password"} => req[r].access.sid \in SessionIds
             /\ req[r].reply.refresh # NoJti =>
                  req[r].reply.refresh \in Jtis /\ Signed(req[r].reply.refresh)
  BY <1>1 DEF TypeInv, TypeOK, RequestsOK, Carries, Access, Signed, Token, Request, Reply
<1>2. ASSUME NEW r \in Requests, Refuse(r) PROVE Effect
  BY <1>2 DEF Refuse, Effect, Waiting, ghosts
<1>3. ASSUME NEW r \in Requests, Accept(r) PROVE Effect
  BY <1>3 DEF Accept, Effect, Waiting, ghosts
<1>4. ASSUME NEW r \in Requests, NEW b \in Browsers, Login(r, b) PROVE Effect
  <2>1. PICK s \in SessionIds, j \in Jtis : Begin(r, s, j, clock, LifetimeOf(NoSession), Never, Never, "login", clock)
    BY <1>4 DEF Login
  <2>2. /\ LifetimeOf(NoSession) = clock + Period /\ LifetimeOf(NoSession) \in Nat
        /\ clock \in Time /\ "login" \in Endpoints
    BY <1>a, TimesAssumption DEF LifetimeOf, TypeOK, Time, Endpoints
  <2>3. Beginning
    BY <1>4, <2>1, <2>2 DEF Login, Beginning, Time
  <2> QED BY <2>3 DEF Effect
<1>5. ASSUME NEW r \in Requests, PasswordWrites(r) PROVE Effect
  <2>1. /\ req[r] # Idle /\ req[r].phase = "verified" /\ req[r].kind = "password"
        /\ req[r].read.line \in Time \cup {Never} /\ UNCHANGED <<clock, rows>> /\ "password" \in Endpoints
    BY <1>5, PasswordBegins DEF Reading, Endpoints
  <2>2. PICK s \in SessionIds, j \in Jtis, at \in Time, e \in Nat, since \in Time :
          /\ Begin(r, s, j, at, e, at, req[r].read.line, "password", since)
          /\ Answer(r, [access |-> AccessFor(s, at), refresh |-> j, clears |-> FALSE])
          /\ req[r].read.at <= at /\ at <= clock
          /\ since = signedIn[req[r].access.sid]
          /\ ~Sliding => e = req[r].read.expires
    BY <1>5, PasswordBegins
  <2>3. ~Sliding => e <= since + Period
    BY <2>1, <2>2 DEF ReadingsOK
  <2>4. Beginning
    BY <2>1, <2>2, <2>3 DEF Beginning
  <2> QED BY <2>4 DEF Effect
<1>6. ASSUME NEW r \in Requests, NEW s \in SessionIds, NEW p \in Jtis \cup {NoJti},
             req[r] \in Request, p = NoJti => req[r].kind = "switch",
             (\E k \in Jtis : Rotate(r, s, p, k)) \/ RotateMissed(r, s, p)
      PROVE  Effect
  BY <1>6 DEF Effect, Rotation, RotateMissed, Waiting, ghosts
<1>7. ASSUME NEW r \in Requests, Handle(r) PROVE Effect
  <2>1. CASE RefreshRefused(r) BY <1>2, <2>1 DEF RefreshRefused
  <2>2. CASE RefreshReused(r)
    BY <1>1, <2>2 DEF RefreshReused, Arrived, Effect, Ending, ghosts
  <2>3. CASE RefreshVerified(r) BY <1>3, <2>3 DEF RefreshVerified
  <2>4. CASE RefreshWrites(r)
    <3>1. /\ req[r] \in Request /\ req[r].jti \in Jtis /\ token[req[r].jti].sid \in SessionIds
          /\ req[r].jti # NoJti
      BY <1>1, <2>4, NullsAssumption DEF RefreshWrites, Verified
    <3> QED BY <1>6, <2>4, <3>1 DEF RefreshWrites
  <2>5. CASE SwitchChecked(r) BY <1>2, <1>3, <2>5 DEF SwitchChecked
  <2>6. CASE SwitchWrites(r)
    <3>1. req[r] \in Request /\ req[r].access.sid \in SessionIds /\ req[r].kind = "switch"
      BY <1>1, <2>6 DEF SwitchWrites, Verified
    <3> QED BY <1>6, <2>6, <3>1 DEF SwitchWrites
  <2>7. CASE Logout(r)
    <3>1. token[req[r].jti].sid \in SessionIds
      BY <1>1, <2>7 DEF Logout, Arrived
    <3> QED BY <2>7, <3>1 DEF Logout, Effect, Ending, Waiting, ghosts
  <2>8. CASE PasswordRefused(r) BY <1>2, <2>8 DEF PasswordRefused
  <2>9. CASE PasswordJudged(r) BY <2>9 DEF PasswordJudged, Effect, Waiting, ghosts
  <2>10. CASE PasswordWrites(r) BY <1>5, <2>10
  <2>11. CASE PasswordConflicts(r) BY <1>2, <2>11 DEF PasswordConflicts
  <2> QED BY <1>7, <2>1, <2>2, <2>3, <2>4, <2>5, <2>6, <2>7, <2>8, <2>9, <2>10, <2>11 DEF Handle
<1>8. ASSUME NEW r \in Requests, Lose(r) PROVE Effect
  BY <1>1, <1>8 DEF Lose, Replied, Effect, Losing, Waiting
<1>9. ASSUME NEW r \in Requests, Deliver(r) PROVE Effect
  BY <1>9 DEF Deliver, Effect, Waiting, ghosts
<1>10. ASSUME NEW r \in Requests, NEW b \in Browsers, NEW kind \in Endpoints, Send(r, b, kind)
       PROVE  Effect
  BY <1>10 DEF Send, Effect, Waiting, ghosts
<1>11. CASE Tick
  BY <1>11 DEF Tick, Effect, Passing, ghosts
<1>12. CASE UNCHANGED vars
  BY <1>12 DEF vars, Effect, Waiting
<1>13. ASSUME NEW r \in Requests, Commit(r) PROVE Effect
  BY <1>13 DEF Effect
<1> QED BY <1>4, <1>7, <1>8, <1>9, <1>10, <1>11, <1>12, <1>13 DEF Next

\* The values a rotation leaves behind; old is the token it replaces.
RotateValues(r, s, p, k, old) ==
    /\ rows[s] \in Row /\ rows[s] # NoRow /\ ~Signed(k) /\ clock \in Time
    /\ rows[s].current = old /\ old \in Jtis /\ old # k /\ Signed(old)
    /\ LifetimeOf(s) \in Nat
    /\ rows'[s] = Rotated(rows[s], k, LifetimeOf(s))
    /\ \A t \in SessionIds \ {s} : rows'[t] = rows[t]
    /\ Signed(k)' /\ token'[k] = [sid |-> s, iat |-> clock, exp |-> LifetimeOf(s)]
    /\ \A j \in Jtis \ {k} : token'[j] = token[j]
    /\ history'[k] = [NoHistory EXCEPT !.presented = p, !.by = req[r].kind, !.replaced = old]
    /\ history'[old] = [history[old] EXCEPT !.retired = clock]
    /\ \A j \in Jtis \ {k, old} : history'[j] = history[j]
    /\ clock' = clock /\ tx' = tx /\ signedIn' = signedIn
    /\ p # NoJti => p = old
    /\ p # NoJti => rows[s].rotated = Never \/ rows[s].rotated < clock - Grace

LEMMA RotateHasValues ==
    ASSUME IInv, NEW r \in Requests, NEW s \in SessionIds, NEW p \in Jtis \cup {NoJti},
           NEW k \in Jtis, req[r] \in Request, Rotate(r, s, p, k)
    PROVE  RotateValues(r, s, p, k, rows[s].current)
<1>1. /\ TypeOK /\ rows[s] \in Row /\ rows[s] # NoRow /\ ~Signed(k) /\ clock \in Time
      /\ Sign(k, s, clock, LifetimeOf(s)) /\ LifetimeOf(s) \in Nat
  BY LifetimeType DEF IInv, TypeInv, TypeOK, Rotate, RotationMatches
<1>2. rows[s].current \in Jtis /\ token[rows[s].current].sid = s
  BY <1>1 DEF IInv, RowsOK, Row
<1>3. Signed(rows[s].current) /\ rows[s].current # k
  BY <1>1, <1>2, NullsAssumption DEF Signed
<1>4. /\ Signed(k)' /\ token'[k] = [sid |-> s, iat |-> clock, exp |-> LifetimeOf(s)]
      /\ \A j \in Jtis \ {k} : token'[j] = token[j]
  BY <1>1, SignKeeps
<1>5. /\ history'[k] = [NoHistory EXCEPT !.presented = p, !.by = req[r].kind,
                                         !.replaced = rows[s].current]
      /\ history'[rows[s].current] = [history[rows[s].current] EXCEPT !.retired = clock]
      /\ \A j \in Jtis \ {k, rows[s].current} : history'[j] = history[j]
  BY <1>1, <1>2, <1>3 DEF Rotate, TypeOK
<1>6. rows'[s] = Rotated(rows[s], k, LifetimeOf(s)) /\ \A t \in SessionIds \ {s} : rows'[t] = rows[t]
  BY <1>1 DEF Rotate, TypeOK
<1>7. /\ p # NoJti => p = rows[s].current
      /\ p # NoJti => rows[s].rotated = Never \/ rows[s].rotated < clock - Grace
  BY DEF Rotate, RotationMatches
<1>8. clock' = clock /\ tx' = tx /\ signedIn' = signedIn
  BY DEF Rotate
<1> QED BY <1>1, <1>2, <1>3, <1>4, <1>5, <1>6, <1>7, <1>8 DEF RotateValues

DataInv == RowsOK /\ TxOK /\ HistoryOK /\ OnePairPerToken /\ ChainOK /\ LifetimesOK

LEMMA RotationKeeps == IInv /\ Rotation => DataInv'
<1> SUFFICES ASSUME IInv, NEW r \in Requests, NEW s \in SessionIds, NEW p \in Jtis \cup {NoJti},
                    NEW k \in Jtis, req[r] \in Request, p = NoJti => req[r].kind = "switch",
                    Rotate(r, s, p, k)
             PROVE  DataInv'
  BY DEF Rotation
<1> DEFINE old == rows[s].current
<1>0. RotateValues(r, s, p, k, old)
  BY RotateHasValues
<1> HIDE DEF old
<1>1. /\ rows[s] \in Row /\ rows[s] # NoRow /\ ~Signed(k) /\ clock \in Time
      /\ rows[s].current = old /\ old \in Jtis /\ old # k /\ Signed(old)
      /\ LifetimeOf(s) \in Nat
      /\ \A t \in SessionIds \ {s} : rows'[t] = rows[t]
      /\ Signed(k)' /\ token'[k].sid = s /\ token'[k].iat = clock /\ token'[k].exp = LifetimeOf(s)
      /\ \A j \in Jtis \ {k} : token'[j] = token[j]
      /\ \A j \in Jtis \ {k, old} : history'[j] = history[j]
      /\ clock' = clock /\ tx' = tx /\ signedIn' = signedIn
      /\ p # NoJti => p = old
      /\ p # NoJti => rows[s].rotated = Never \/ rows[s].rotated < clock - Grace
  BY <1>0 DEF RotateValues
<1>2. /\ TypeOK /\ RowsOK /\ TxOK /\ HistoryOK /\ OnePairPerToken /\ ChainOK /\ LifetimesOK
      /\ token[old].sid = s /\ history[old].retired = Never /\ history[k] = NoHistory
      /\ \A j \in Jtis : history[j] \in History
  BY <1>1 DEF IInv, TypeInv, TypeOK, RowsOK, HistoryOK
<1>3. /\ rows'[s].current = k /\ rows'[s].previous = old /\ rows'[s].rotated = clock
      /\ rows'[s].expires = IF Sliding THEN LifetimeOf(s) ELSE rows[s].expires
  BY <1>0 DEF Rotated, RotateValues
<1>4. /\ history'[k].presented = p /\ history'[k].by = req[r].kind /\ history'[k].replaced = old
      /\ history'[k].retired = Never
  BY <1>0 DEF NoHistory, RotateValues
<1>5. /\ history'[old].retired = clock /\ history'[old].presented = history[old].presented
      /\ history'[old].by = history[old].by /\ history'[old].replaced = history[old].replaced
  BY <1>0, <1>2 DEF TypeOK, History, RotateValues
<1>6. clock \in Int /\ clock >= 0 /\ clock # Never
  BY <1>1 DEF Time, Never
<1>7. RowsOK'
  <2> SUFFICES ASSUME NEW t \in SessionIds, rows'[t] # NoRow
               PROVE  /\ token'[rows'[t].current].sid = t
                      /\ history'[rows'[t].current].retired = Never
                      /\ rows'[t].rotated <= clock'
    BY DEF RowsOK
  <2>1. CASE t = s
    BY <1>1, <1>3, <1>4, <1>6, <2>1
  <2>2. CASE t # s
    <3>1. rows'[t] = rows[t] /\ rows[t] \in Row /\ rows[t].current \in Jtis
      BY <1>1, <1>2, <2>2 DEF TypeOK, Row
    <3>2. token[rows[t].current].sid = t /\ history[rows[t].current].retired = Never /\ rows[t].rotated <= clock
      BY <1>2, <3>1 DEF RowsOK
    <3>3. rows[t].current # k /\ rows[t].current # old
      BY <1>1, <1>2, <2>2, <3>2, NullsAssumption DEF Signed
    <3> QED BY <1>1, <3>1, <3>2, <3>3
  <2> QED BY <2>1, <2>2
<1>8. TxOK'
  <2> SUFFICES ASSUME NEW q \in Requests, tx[q] # NoTx
               PROVE  /\ token'[tx[q].row.current].sid = tx[q].sid
                      /\ \A j \in Jtis : token'[j].sid = tx[q].sid => j = tx[q].row.current
                      /\ history'[tx[q].row.current].retired = Never
                      /\ tx[q].row.rotated = Never
                      /\ rows'[tx[q].sid] = NoRow
                      /\ \A u \in Requests \ {q} : tx[u] # NoTx => tx[u].sid # tx[q].sid
    BY <1>1 DEF TxOK
  <2>1. /\ tx[q].sid \in SessionIds /\ tx[q].row.current \in Jtis
        /\ token[tx[q].row.current].sid = tx[q].sid
        /\ \A j \in Jtis : token[j].sid = tx[q].sid => j = tx[q].row.current
        /\ history[tx[q].row.current].retired = Never
        /\ tx[q].row.rotated = Never
        /\ rows[tx[q].sid] = NoRow
        /\ \A u \in Requests \ {q} : tx[u] # NoTx => tx[u].sid # tx[q].sid
    BY <1>2 DEF TxOK, TypeOK, Tx, Row
  <2>2. tx[q].sid # s /\ tx[q].row.current # k /\ tx[q].row.current # old
    BY <1>1, <1>2, <2>1, NullsAssumption DEF Signed
  <2> QED BY <1>1, <2>1, <2>2
<1>9. \A j \in Jtis : history'[j].presented # NoJti => history'[j].presented \in Jtis
  BY <1>1, <1>2, <1>4, <1>5 DEF History
<1>10. HistoryOK'
  <2> SUFFICES ASSUME NEW j \in Jtis
               PROVE  /\ ~Signed(j)' => history'[j] = NoHistory
                      /\ history'[j].retired <= clock'
                      /\ history'[j].presented # NoJti => history'[history'[j].presented].retired # Never
    BY DEF HistoryOK
  <2>1. ~Signed(j)' => history'[j] = NoHistory
    BY <1>1, <1>2 DEF HistoryOK, Signed
  <2>2. history'[j].retired <= clock'
    BY <1>1, <1>2, <1>4, <1>5, <1>6 DEF HistoryOK, Never
  <2>3. ASSUME history'[j].presented # NoJti PROVE history'[history'[j].presented].retired # Never
    <3>1. CASE j = k
      BY <1>1, <1>4, <1>5, <1>6, <2>3, <3>1
    <3>2. CASE j # k
      <4>1. history[j].presented = history'[j].presented /\ history[j].presented \in Jtis
        BY <1>1, <1>5, <1>9, <2>3, <3>2
      <4>2. history[history[j].presented].retired # Never
        BY <2>3, <1>2, <4>1 DEF HistoryOK
      <4>3. history[j].presented # k
        BY <1>2, <4>2 DEF NoHistory
      <4> QED BY <1>1, <1>5, <1>6, <4>1, <4>2, <4>3
    <3> QED BY <3>1, <3>2
  <2> QED BY <2>1, <2>2, <2>3
<1>11. OnePairPerToken'
  <2> SUFFICES ASSUME NEW i \in Jtis, NEW j \in Jtis, history'[i].presented # NoJti,
                      history'[i].presented = history'[j].presented, i # j
               PROVE  FALSE
    BY DEF OnePairPerToken
  <2>1. \A l \in Jtis \ {k} : history'[l].presented = history[l].presented
    BY <1>1, <1>5
  <2>2. CASE i # k /\ j # k
    BY <1>2, <2>1, <2>2 DEF OnePairPerToken
  \* Only the current token is exchanged, and nothing was handed out for it yet.
  <2>3. \A l \in Jtis \ {k} : history[l].presented # NoJti => history[l].presented # old
    BY <1>2 DEF HistoryOK
  <2>4. CASE i = k \/ j = k
    BY <1>1, <1>4, <2>1, <2>3, <2>4
  <2> QED BY <2>2, <2>4
<1>12. ChainOK'
  <2> SUFFICES ASSUME NEW j \in Jtis, Signed(j)', rows'[token'[j].sid] # NoRow,
                      history'[j].retired # Never
               PROVE  LET row == rows'[token'[j].sid] IN
                      \/ j = row.previous /\ history'[j].retired = row.rotated
                      \/ row.rotated > history'[j].retired + Grace
                      \/ OvertakenBySwitch(j)'
    BY DEF ChainOK
  <2>1. j # k
    BY <1>4
  <2>2. token'[j] = token[j] /\ Signed(j) /\ token[j].sid \in SessionIds
    BY <1>1, <1>2, <2>1 DEF Signed, TypeOK, Token
  <2>3. CASE j = old
    BY <1>2, <1>3, <1>5, <2>2, <2>3
  <2>4. CASE j # old
    <3>1. history'[j] = history[j] /\ history[j].retired \in Time /\ history[j].retired # Never
      BY <1>1, <1>2, <2>1, <2>4 DEF TypeOK, History
    <3>2. OvertakenBySwitch(j) => OvertakenBySwitch(j)'
      <4> SUFFICES ASSUME NEW l \in Jtis, token[l].sid = token[j].sid, history[l].by = "switch",
                          history[l].replaced # j, token[l].iat >= history[j].retired
                   PROVE  /\ token'[l].sid = token'[j].sid /\ history'[l].by = "switch"
                          /\ history'[l].replaced # j /\ token'[l].iat >= history'[j].retired
        BY DEF OvertakenBySwitch
      <4>1. l # k
        BY <1>1, <2>2 DEF Signed
      <4> QED BY <1>1, <1>5, <2>2, <3>1, <4>1
    <3>3. CASE token[j].sid # s
      <4>1. rows'[token[j].sid] = rows[token[j].sid]
        BY <1>1, <2>2, <3>3
      <4> QED BY <1>2, <2>2, <3>1, <3>2, <4>1 DEF ChainOK
    <3>4. CASE token[j].sid = s
      <4>1. \/ j = rows[s].previous /\ history[j].retired = rows[s].rotated
            \/ rows[s].rotated > history[j].retired + Grace
            \/ OvertakenBySwitch(j)
        BY <1>1, <1>2, <2>2, <3>1, <3>4 DEF ChainOK
      <4>2. CASE history[j].retired = rows[s].rotated /\ p # NoJti
        BY <1>1, <1>3, <1>6, <2>2, <3>1, <3>4, <4>2, TimesAssumption DEF Time, Never
      <4>3. CASE p = NoJti
        <5>1. /\ token'[k].sid = token'[j].sid /\ history'[k].by = "switch"
              /\ history'[k].replaced # j /\ token'[k].iat >= history'[j].retired
          BY <1>1, <1>2, <1>4, <2>2, <2>4, <3>1, <3>4, <4>3 DEF HistoryOK, Time
        <5> QED BY <5>1 DEF OvertakenBySwitch
      <4>4. CASE rows[s].rotated > history[j].retired + Grace
        <5>1. rows[s].rotated <= clock /\ rows[s].rotated \in Int
          BY <1>1, <1>2 DEF RowsOK, Row, Time, Never
        <5> QED BY <1>3, <1>6, <2>2, <3>1, <3>4, <4>4, <5>1, TimesAssumption DEF Time
      <4> QED BY <3>2, <4>1, <4>2, <4>3, <4>4
    <3> QED BY <3>3, <3>4
  <2> QED BY <2>3, <2>4
<1>13. LifetimesOK'
  <2> SUFFICES ASSUME ~Sliding PROVE
        /\ \A j \in Jtis : Signed(j)' => token'[j].exp <= signedIn[token'[j].sid] + Period
        /\ \A t \in SessionIds : rows'[t] # NoRow => rows'[t].expires <= signedIn[t] + Period
        /\ \A q \in Requests : tx[q] # NoTx => tx[q].row.expires <= signedIn[tx[q].sid] + Period
    BY <1>1 DEF LifetimesOK
  <2>1. LifetimeOf(s) = rows[s].expires
    BY <1>1, NullsAssumption DEF LifetimeOf
  <2>2. rows[s].expires <= signedIn[s] + Period
    BY <1>1, <1>2 DEF LifetimesOK
  <2> QED BY <1>1, <1>2, <1>3, <2>1, <2>2 DEF LifetimesOK, Signed
<1> QED BY <1>7, <1>8, <1>10, <1>11, <1>12, <1>13 DEF DataInv

LEMMA EndingKeeps == IInv /\ Ending => DataInv'
<1> SUFFICES ASSUME IInv, NEW s \in SessionIds, End(s),
                    UNCHANGED <<clock, token, tx, history, signedIn>>
             PROVE  DataInv'
  BY DEF Ending
<1>1. \A t \in SessionIds : rows'[t] = NoRow \/ rows'[t] = rows[t]
  BY DEF End, IInv, TypeInv, TypeOK
<1>2. \A t \in SessionIds : rows[t] = NoRow => rows'[t] = NoRow
  BY <1>1
<1>3. /\ TypeOK /\ RowsOK /\ TxOK /\ HistoryOK /\ OnePairPerToken /\ ChainOK /\ LifetimesOK
  BY DEF IInv, TypeInv
<1>4. RowsOK' /\ HistoryOK' /\ OnePairPerToken' /\ LifetimesOK'
  BY <1>1, <1>3 DEF RowsOK, HistoryOK, OnePairPerToken, LifetimesOK, Signed
<1>5. TxOK'
  BY <1>2, <1>3 DEF TxOK, TypeOK, Tx
<1>6. ChainOK'
  BY <1>1, <1>3 DEF ChainOK, OvertakenBySwitch, Signed, TypeOK, Token
<1> QED BY <1>4, <1>5, <1>6 DEF DataInv

LEMMA BeginningKeeps == IInv /\ Beginning => DataInv'
<1> SUFFICES ASSUME IInv, NEW r \in Requests, NEW s \in SessionIds, NEW k \in Jtis,
                    NEW at \in Time, NEW e \in Nat, NEW line \in Time \cup {Never},
                    NEW seen \in Time \cup {Never}, NEW kind \in Endpoints, NEW since \in Time,
                    Begin(r, s, k, at, e, line, seen, kind, since), ~Sliding => e <= since + Period,
                    UNCHANGED <<clock, rows>>
             PROVE  DataInv'
  BY DEF Beginning
<1>1. /\ TypeOK /\ RowsOK /\ TxOK /\ HistoryOK /\ OnePairPerToken /\ ChainOK /\ LifetimesOK
      /\ ~Signed(k) /\ ~Taken(s) /\ Sign(k, s, at, e)
  BY DEF IInv, TypeInv, Begin
<1>a. /\ Signed(k)' /\ token'[k] = [sid |-> s, iat |-> at, exp |-> e]
      /\ \A j \in Jtis \ {k} : token'[j] = token[j]
  BY <1>1, SignKeeps
<1>2. /\ Signed(k)' /\ token'[k].sid = s /\ token'[k].iat = at /\ token'[k].exp = e
      /\ \A j \in Jtis \ {k} : token'[j] = token[j]
  BY <1>a
<1>3. history[k] = NoHistory /\ \A j \in Jtis : history[j] \in History /\ token[j].sid # s
  BY <1>1 DEF HistoryOK, TypeOK, Taken
<1>4. /\ \A j \in Jtis \ {k} : history'[j] = history[j]
      /\ history'[k].presented = NoJti /\ history'[k].retired = Never
  BY <1>1, <1>3 DEF Begin, TypeOK, NoHistory
<1>5. /\ tx'[r].sid = s /\ tx'[r].row.current = k /\ tx'[r].row.rotated = Never /\ tx'[r].row.expires = e
      /\ \A q \in Requests \ {r} : tx'[q] = tx[q]
  BY <1>1 DEF Begin, TypeOK
<1>6. signedIn'[s] = since /\ \A t \in SessionIds \ {s} : signedIn'[t] = signedIn[t]
  BY <1>1 DEF Begin, TypeOK
<1>7. \A t \in SessionIds : rows[t] # NoRow => t # s /\ rows[t].current # k /\ rows[t].current \in Jtis
  BY <1>1, <1>3, NullsAssumption DEF RowsOK, TypeOK, Row, Signed
<1>8. RowsOK'
  BY <1>1, <1>2, <1>4, <1>7 DEF RowsOK
<1>9. \A q \in Requests : tx[q] # NoTx =>
        /\ tx[q].sid # s /\ tx[q].row.current # k /\ tx[q].row.current \in Jtis /\ tx[q].sid \in SessionIds
  BY <1>1, <1>3, NullsAssumption DEF TxOK, TypeOK, Tx, Row, Signed
<1>10. rows[s] = NoRow
  BY <1>7
<1>11. TxOK'
  <2> SUFFICES ASSUME NEW q \in Requests, tx'[q] # NoTx
               PROVE  /\ token'[tx'[q].row.current].sid = tx'[q].sid
                      /\ \A j \in Jtis : token'[j].sid = tx'[q].sid => j = tx'[q].row.current
                      /\ history'[tx'[q].row.current].retired = Never
                      /\ tx'[q].row.rotated = Never
                      /\ rows'[tx'[q].sid] = NoRow
                      /\ \A u \in Requests \ {q} : tx'[u] # NoTx => tx'[u].sid # tx'[q].sid
    BY DEF TxOK
  <2>1. CASE q = r
    BY <1>2, <1>3, <1>4, <1>5, <1>9, <1>10, <2>1
  <2>2. CASE q # r
    <3>1. /\ tx'[q] = tx[q] /\ tx[q].sid # s
          /\ token[tx[q].row.current].sid = tx[q].sid
          /\ \A j \in Jtis : token[j].sid = tx[q].sid => j = tx[q].row.current
          /\ history[tx[q].row.current].retired = Never
          /\ tx[q].row.rotated = Never
          /\ rows[tx[q].sid] = NoRow
          /\ \A u \in Requests \ {q} : tx[u] # NoTx => tx[u].sid # tx[q].sid
      BY <1>1, <1>5, <1>9, <2>2 DEF TxOK
    <3> QED BY <1>2, <1>4, <1>5, <1>9, <2>2, <3>1
  <2> QED BY <2>1, <2>2
<1>12. HistoryOK'
  <2> SUFFICES ASSUME NEW j \in Jtis
               PROVE  /\ ~Signed(j)' => history'[j] = NoHistory
                      /\ history'[j].retired <= clock'
                      /\ history'[j].presented # NoJti => history'[history'[j].presented].retired # Never
    BY DEF HistoryOK
  <2>1. CASE j = k
    BY <1>1, <1>2, <1>4, <2>1 DEF TypeOK, Time, Never
  <2>2. CASE j # k
    <3>1. history'[j] = history[j] /\ Signed(j)' = Signed(j)
      BY <1>2, <1>4, <2>2 DEF Signed
    <3>2. history[j].presented # NoJti =>
            history[j].presented \in Jtis \ {k} /\ history[history[j].presented].retired # Never
      BY <1>1, <1>3 DEF HistoryOK, History, NoHistory
    <3> QED BY <1>1, <1>4, <3>1, <3>2 DEF HistoryOK
  <2> QED BY <2>1, <2>2
<1>13. OnePairPerToken'
  BY <1>1, <1>4 DEF OnePairPerToken
<1>14. ChainOK'
  <2> SUFFICES ASSUME NEW j \in Jtis, Signed(j)', rows'[token'[j].sid] # NoRow,
                      history'[j].retired # Never
               PROVE  LET row == rows'[token'[j].sid] IN
                      \/ j = row.previous /\ history'[j].retired = row.rotated
                      \/ row.rotated > history'[j].retired + Grace
                      \/ OvertakenBySwitch(j)'
    BY DEF ChainOK
  <2>1. j # k /\ token'[j] = token[j] /\ history'[j] = history[j] /\ Signed(j)
    BY <1>2, <1>4 DEF Signed
  <2>2. OvertakenBySwitch(j) => OvertakenBySwitch(j)'
    <3> SUFFICES ASSUME NEW l \in Jtis, token[l].sid = token[j].sid, history[l].by = "switch",
                        history[l].replaced # j, token[l].iat >= history[j].retired
                 PROVE  /\ token'[l].sid = token'[j].sid /\ history'[l].by = "switch"
                        /\ history'[l].replaced # j /\ token'[l].iat >= history'[j].retired
      BY DEF OvertakenBySwitch
    <3>1. l # k
      BY <1>1, <2>1 DEF Signed
    <3> QED BY <1>2, <1>4, <2>1, <3>1
  <2> QED BY <1>1, <2>1, <2>2 DEF ChainOK
<1>15. LifetimesOK'
  <2> SUFFICES ASSUME ~Sliding PROVE
        /\ \A j \in Jtis : Signed(j)' => token'[j].exp <= signedIn'[token'[j].sid] + Period
        /\ \A t \in SessionIds : rows'[t] # NoRow => rows'[t].expires <= signedIn'[t] + Period
        /\ \A q \in Requests : tx'[q] # NoTx => tx'[q].row.expires <= signedIn'[tx'[q].sid] + Period
    BY DEF LifetimesOK
  <2>1. ASSUME NEW j \in Jtis, Signed(j)' PROVE token'[j].exp <= signedIn'[token'[j].sid] + Period
    <3>1. CASE j = k
      BY <1>2, <1>6, <3>1
    <3>2. CASE j # k
      <4>1. token'[j] = token[j] /\ Signed(j) /\ token[j].sid \in SessionIds \ {s}
        BY <1>1, <1>2, <1>3, <2>1, <3>2 DEF Signed, TypeOK, Token
      <4> QED BY <1>1, <1>6, <4>1 DEF LifetimesOK
    <3> QED BY <3>1, <3>2
  <2>2. ASSUME NEW t \in SessionIds, rows'[t] # NoRow PROVE rows'[t].expires <= signedIn'[t] + Period
    BY <1>1, <1>6, <1>7, <2>2 DEF LifetimesOK
  <2>3. ASSUME NEW q \in Requests, tx'[q] # NoTx
        PROVE  tx'[q].row.expires <= signedIn'[tx'[q].sid] + Period
    BY <1>1, <1>5, <1>6, <1>9, <2>3 DEF LifetimesOK
  <2> QED BY <2>1, <2>2, <2>3
<1> QED BY <1>8, <1>11, <1>12, <1>13, <1>14, <1>15 DEF DataInv

LEMMA CommitKeeps == ASSUME IInv, NEW r \in Requests, Commit(r) PROVE DataInv'
<1>1. /\ TypeOK /\ RowsOK /\ TxOK /\ HistoryOK /\ OnePairPerToken /\ ChainOK /\ LifetimesOK
      /\ tx[r] # NoTx /\ tx[r] \in Tx /\ tx[r].sid \in SessionIds /\ tx[r].row \in Row
      /\ tx[r].row.current \in Jtis
  BY DEF IInv, TypeInv, TypeOK, Commit, Tx, Row
<1> DEFINE s == tx[r].sid
<1>2. /\ rows'[s] = tx[r].row
      /\ \A t \in SessionIds \ {s} : rows'[t] = NoRow \/ rows'[t] = rows[t]
      /\ tx'[r] = NoTx /\ \A q \in Requests \ {r} : tx'[q] = tx[q]
      /\ clock' = clock /\ token' = token /\ history' = history /\ signedIn' = signedIn
  BY <1>1 DEF Commit, TypeOK, ghosts
<1>3. /\ token[tx[r].row.current].sid = s
      /\ \A j \in Jtis : token[j].sid = s => j = tx[r].row.current
      /\ history[tx[r].row.current].retired = Never
      /\ tx[r].row.rotated = Never
      /\ \A q \in Requests \ {r} : tx[q] # NoTx => tx[q].sid # s
  BY <1>1 DEF TxOK
<1> HIDE DEF s
<1>4. RowsOK'
  BY <1>1, <1>2, <1>3 DEF RowsOK, TypeOK, Time, Never
<1>5. TxOK'
  <2> SUFFICES ASSUME NEW q \in Requests, tx'[q] # NoTx
               PROVE  /\ token[tx'[q].row.current].sid = tx'[q].sid
                      /\ \A j \in Jtis : token[j].sid = tx'[q].sid => j = tx'[q].row.current
                      /\ history[tx'[q].row.current].retired = Never
                      /\ tx'[q].row.rotated = Never
                      /\ rows'[tx'[q].sid] = NoRow
                      /\ \A u \in Requests \ {q} : tx'[u] # NoTx => tx'[u].sid # tx'[q].sid
    BY <1>2 DEF TxOK
  <2>1. q # r /\ tx'[q] = tx[q] /\ tx[q].sid \in SessionIds \ {s}
    BY <1>1, <1>2, <1>3 DEF TypeOK, Tx
  <2> QED BY <1>1, <1>2, <2>1 DEF TxOK
<1>6. HistoryOK' /\ OnePairPerToken'
  BY <1>1, <1>2 DEF HistoryOK, OnePairPerToken, Signed
<1>7. ChainOK'
  <2> SUFFICES ASSUME NEW j \in Jtis, Signed(j), rows'[token[j].sid] # NoRow,
                      history[j].retired # Never
               PROVE  LET row == rows'[token[j].sid] IN
                      \/ j = row.previous /\ history[j].retired = row.rotated
                      \/ row.rotated > history[j].retired + Grace
                      \/ OvertakenBySwitch(j)
    BY <1>2 DEF ChainOK, OvertakenBySwitch, Signed
  <2>1. token[j].sid \in SessionIds \ {s}
    BY <1>1, <1>3 DEF Signed, TypeOK, Token
  <2>2. rows'[token[j].sid] = rows[token[j].sid]
    BY <1>2, <2>1
  <2> QED BY <1>1, <2>2 DEF ChainOK
<1>8. LifetimesOK'
  <2>1. ~Sliding => tx[r].row.expires <= signedIn[s] + Period
    BY <1>1 DEF LifetimesOK, s
  <2> QED BY <1>1, <1>2, <2>1 DEF LifetimesOK, Signed
<1> QED BY <1>4, <1>5, <1>6, <1>7, <1>8 DEF DataInv

LEMMA LosingKeeps == IInv /\ Losing => DataInv'
<1> SUFFICES ASSUME IInv, NEW l \in Jtis, Signed(l), history' = [history EXCEPT ![l].lost = TRUE],
                    UNCHANGED <<clock, rows, token, tx, signedIn>>
             PROVE  DataInv'
  BY DEF Losing
<1>1. /\ TypeOK /\ RowsOK /\ TxOK /\ HistoryOK /\ OnePairPerToken /\ ChainOK /\ LifetimesOK
      /\ \A j \in Jtis : history[j] \in History
  BY DEF IInv, TypeInv, TypeOK
<1>2. \A j \in Jtis : /\ history'[j].presented = history[j].presented
                      /\ history'[j].retired = history[j].retired
                      /\ history'[j].by = history[j].by
                      /\ history'[j].replaced = history[j].replaced
                      /\ ~Signed(j) => history'[j] = history[j]
  BY <1>1 DEF TypeOK, History
<1>3. RowsOK'
  BY <1>1, <1>2 DEF RowsOK, TypeOK, Row
<1>4. TxOK'
  BY <1>1, <1>2 DEF TxOK, TypeOK, Tx, Row
<1>5. HistoryOK'
  BY <1>1, <1>2 DEF HistoryOK, History, Signed
<1>6. OnePairPerToken'
  BY <1>1, <1>2 DEF OnePairPerToken
<1>7. ChainOK'
  BY <1>1, <1>2 DEF ChainOK, OvertakenBySwitch, Signed
<1>8. LifetimesOK'
  BY <1>1 DEF LifetimesOK, Signed
<1> QED BY <1>3, <1>4, <1>5, <1>6, <1>7, <1>8 DEF DataInv

LEMMA QuietStepKeeps == IInv /\ (Passing \/ Waiting) => DataInv'
<1> SUFFICES ASSUME IInv, clock' = clock + 1 \/ clock' = clock,
                    UNCHANGED <<rows, token, tx, history, signedIn>>
             PROVE  DataInv'
  BY DEF Passing, Waiting
<1>1. /\ TypeOK /\ RowsOK /\ TxOK /\ HistoryOK /\ OnePairPerToken /\ ChainOK /\ LifetimesOK
      /\ clock \in Int /\ clock' \in Int /\ clock <= clock'
  BY DEF IInv, TypeInv, TypeOK, Time
<1>2. RowsOK'
  BY <1>1 DEF RowsOK, TypeOK, Row, Time, Never
<1>3. HistoryOK'
  BY <1>1 DEF HistoryOK, Signed, TypeOK, History, Time, Never
<1>4. TxOK' /\ OnePairPerToken' /\ ChainOK' /\ LifetimesOK'
  BY <1>1 DEF TxOK, OnePairPerToken, ChainOK, OvertakenBySwitch, LifetimesOK, Signed
<1> QED BY <1>2, <1>3, <1>4 DEF DataInv

LEMMA InitIInv == Init => IInv
<1> SUFFICES ASSUME Init PROVE IInv
  OBVIOUS
<1>1. TypeInv
  BY InitTypeInv
<1>2. \A j \in Jtis : ~Signed(j) /\ history[j].presented = NoJti /\ history[j].retired = Never
  BY DEF Init, Signed, Unsigned, NoHistory
<1>3. /\ \A s \in SessionIds : rows[s] = NoRow
      /\ \A r \in Requests : tx[r] = NoTx
      /\ \A j \in Jtis : history[j] = NoHistory
      /\ clock = 0
  BY DEF Init
<1>4. RowsOK /\ TxOK /\ HistoryOK /\ ChainOK /\ LifetimesOK
  BY <1>2, <1>3 DEF RowsOK, TxOK, HistoryOK, ChainOK, LifetimesOK, Never
<1>6. ReadingsOK
  BY DEF Init, ReadingsOK
<1>5. OnePairPerToken
  BY <1>2 DEF OnePairPerToken
<1> QED BY <1>1, <1>4, <1>5, <1>6 DEF IInv

\* Only a change that is let through comes to have read something.
LEMMA OnlyJudged ==
    ASSUME TypeInv, [Next]_vars, NEW r \in Requests,
           req'[r] # Idle, req'[r].phase = "verified", req'[r].kind = "password"
    PROVE  (req[r] # Idle /\ req'[r] = req[r]) \/ PasswordJudged(r)
<1>a. req \in [Requests -> Request \cup {Idle}]
  BY DEF TypeInv, TypeOK
<1>1. ASSUME req'[r] = req[r] PROVE req[r] # Idle /\ req'[r] = req[r]
  BY <1>1
<1>2. ASSUME NEW q \in Requests, NEW x, req' = [req EXCEPT ![q] = x], q # r PROVE req'[r] = req[r]
  BY <1>a, <1>2
<1>3. ASSUME NEW q \in Requests, NEW reply, Answer(q, reply), req[q] # Idle PROVE req'[r] = req[r]
  <2>1. req' = [req EXCEPT ![q] = [req[q] EXCEPT !.phase = "replied", !.reply = reply]]
    BY <1>a, <1>3 DEF Answer
  <2>2. req[q] \in Request /\ [req[q] EXCEPT !.phase = "replied", !.reply = reply].phase = "replied"
    BY <1>a, <1>3 DEF Request
  <2>3. q # r
    BY <1>a, <2>1, <2>2
  <2> QED BY <1>2, <2>1, <2>3
<1>4. ASSUME NEW q \in Requests, Refuse(q), req[q] # Idle PROVE req'[r] = req[r]
  BY <1>3, <1>4 DEF Refuse
<1>5. ASSUME NEW q \in Requests, Accept(q), req[q] # Idle, req[q].kind # "password" PROVE req'[r] = req[r]
  <2>1. req' = [req EXCEPT ![q] = [req[q] EXCEPT !.phase = "verified"]]
    BY <1>a, <1>5 DEF Accept
  <2>2. req[q] \in Request /\ [req[q] EXCEPT !.phase = "verified"].kind = req[q].kind
    BY <1>a, <1>5 DEF Request
  <2>3. q # r
    BY <1>a, <1>5, <2>1, <2>2
  <2> QED BY <1>2, <2>1, <2>3
<1>6. ASSUME NEW q \in Requests, NEW b \in Browsers, Login(q, b) PROVE req'[r] = req[r]
  <2>1. PICK reply :
          req' = [req EXCEPT ![q] = [Fetched(b, "login", NoJti, NoAccess) EXCEPT !.phase = "replied", !.reply = reply]]
    BY <1>6 DEF Login
  <2>2. [Fetched(b, "login", NoJti, NoAccess) EXCEPT !.phase = "replied", !.reply = reply].phase = "replied"
    BY DEF Fetched
  <2>3. q # r
    BY <1>a, <2>1, <2>2
  <2> QED BY <1>2, <2>1, <2>3
<1>7. ASSUME NEW q \in Requests, NEW b \in Browsers, NEW kind \in Endpoints, Send(q, b, kind)
      PROVE  req'[r] = req[r]
  <2>1. PICK j, a : req' = [req EXCEPT ![q] = Fetched(b, kind, j, a)]
    BY <1>7 DEF Send
  <2>2. Fetched(b, kind, j, a).phase = "sent"
    BY DEF Fetched
  <2>3. q # r
    BY <1>a, <2>1, <2>2
  <2> QED BY <1>2, <2>1, <2>3
<1>8. ASSUME NEW q \in Requests, Handle(q), ~PasswordJudged(r) PROVE req'[r] = req[r]
  <2>1. CASE RefreshRefused(q) \/ PasswordRefused(q) \/ PasswordConflicts(q)
    BY <1>4, <2>1 DEF RefreshRefused, PasswordRefused, PasswordConflicts, Arrived, Verified
  <2>2. CASE RefreshReused(q)
    BY <1>3, <2>2 DEF RefreshReused, Arrived
  <2>3. CASE RefreshVerified(q)
    BY <1>5, <2>3 DEF RefreshVerified, Arrived
  <2>4. ASSUME NEW t, NEW p, NEW k, req[q] # Idle, Rotate(q, t, p, k) PROVE req'[r] = req[r]
    BY <1>3, <2>4 DEF Rotate
  <2>5. ASSUME NEW t, NEW p, req[q] # Idle, RotateMissed(q, t, p) PROVE req'[r] = req[r]
    BY <1>3, <2>5 DEF RotateMissed
  <2>6. CASE RefreshWrites(q)
    BY <2>4, <2>5, <2>6 DEF RefreshWrites, Verified
  <2>7. CASE SwitchChecked(q)
    BY <1>4, <1>5, <2>7 DEF SwitchChecked, Arrived
  <2>8. CASE SwitchWrites(q)
    BY <2>4, <2>5, <2>8 DEF SwitchWrites, Verified
  <2>9. CASE Logout(q)
    BY <1>3, <2>9 DEF Logout, Arrived
  <2>10. CASE PasswordJudged(q)
    <3>1. q # r
      BY <1>8, <2>10
    <3>2. PICK x : req' = [req EXCEPT ![q] = x]
      <4>1. PICK read : req' = [req EXCEPT ![q].phase = "verified", ![q].read = read]
        BY <2>10 DEF PasswordJudged
      <4> QED BY <1>a, <4>1
    <3> QED BY <1>2, <3>1, <3>2
  <2>11. CASE PasswordWrites(q)
    <3>1. req[q] # Idle /\ \E reply : Answer(q, reply)
      BY <2>11, PasswordBegins
    <3> QED BY <1>3, <3>1
  <2> QED BY <1>8, <2>1, <2>2, <2>3, <2>6, <2>7, <2>8, <2>9, <2>10, <2>11 DEF Handle
<1>9. ASSUME NEW q \in Requests, Deliver(q) \/ Lose(q) PROVE req'[r] = req[r]
  <2>1. req' = [req EXCEPT ![q] = Idle]
    BY <1>9 DEF Deliver, Lose
  <2> QED BY <1>a, <2>1
<1>10. ASSUME NEW q \in Requests, Commit(q) PROVE req'[r] = req[r]
  BY <1>10 DEF Commit
<1>11. CASE Tick \/ UNCHANGED vars
  BY <1>11 DEF Tick, vars
<1> QED BY <1>1, <1>6, <1>7, <1>8, <1>9, <1>10, <1>11 DEF Next

\* A sign-in that a token was signed for stays taken, with its entrance.
LEMMA TakenStays ==
    ASSUME IInv, Effect, NEW s \in SessionIds, Taken(s)
    PROVE  Taken(s)' /\ signedIn'[s] = signedIn[s]
<1>0. TypeOK
  BY DEF IInv, TypeInv
<1>1. ASSUME UNCHANGED <<token, signedIn>> PROVE Taken(s)' /\ signedIn'[s] = signedIn[s]
  BY <1>1 DEF Taken
<1>2. ASSUME NEW k \in Jtis, NEW t \in SessionIds, NEW at, NEW e, ~Signed(k), Sign(k, t, at, e) PROVE Taken(s)'
  <2>1. PICK j \in Jtis : token[j].sid = s
    BY DEF Taken
  <2>2. j # k
    BY <1>2, <2>1, NullsAssumption DEF Signed
  <2>3. token'[j] = token[j]
    BY <1>0, <1>2, <2>2, SignKeeps
  <2> QED BY <2>1, <2>3 DEF Taken
<1>3. CASE Rotation
  <2>1. PICK k \in Jtis, t \in SessionIds : /\ ~Signed(k) /\ Sign(k, t, clock, LifetimeOf(t))
                                          /\ signedIn' = signedIn
    BY <1>3 DEF Rotation, Rotate
  <2> QED BY <1>2, <2>1
<1>4. CASE Beginning
  <2>1. PICK r \in Requests, t \in SessionIds, k \in Jtis, at \in Time, e \in Nat,
             line \in Time \cup {Never}, seen \in Time \cup {Never}, kind \in Endpoints, since \in Time :
          Begin(r, t, k, at, e, line, seen, kind, since)
    BY <1>4 DEF Beginning
  <2>3. /\ ~Taken(t) /\ ~Signed(k) /\ Sign(k, t, at, e)
        /\ signedIn' = [signedIn EXCEPT ![t] = since]
    BY <2>1 DEF Begin
  <2>2. t # s
    BY <2>3
  <2>4. Taken(s)'
    BY <1>2, <2>3
  <2>5. signedIn'[s] = signedIn[s]
    BY <1>0, <2>2, <2>3 DEF TypeOK
  <2> QED BY <2>4, <2>5
<1>5. ASSUME NEW r \in Requests, Commit(r) PROVE Taken(s)' /\ signedIn'[s] = signedIn[s]
  BY <1>1, <1>5 DEF Commit, ghosts
<1> QED BY <1>1, <1>3, <1>4, <1>5 DEF Effect, Ending, Losing, Passing, Waiting

\* One reading, named apart from the request that holds it.
ReadingOK(sid, expires) == Taken(sid) /\ (~Sliding => expires <= signedIn[sid] + Period)

LEMMA ReadingKept ==
    ASSUME IInv, Effect, NEW s \in SessionIds, NEW e \in Nat, ReadingOK(s, e)
    PROVE  ReadingOK(s, e)'
BY TakenStays DEF ReadingOK

LEMMA ReadingsStep ==
    ASSUME IInv, Effect, [Next]_vars
    PROVE  ReadingsOK'
<1>0. TypeInv /\ TypeOK
  BY DEF IInv, TypeInv
<1>1. ASSUME NEW r \in Requests, req'[r] # Idle, req'[r].phase = "verified", req'[r].kind = "password",
             NEW old, NEW e, old = req'[r].access.sid, e = req'[r].read.expires
      PROVE  ReadingOK(old, e)'
  <2>1. CASE req[r] # Idle /\ req'[r] = req[r]
    <3>1. req[r].phase = "verified" /\ req[r].kind = "password"
          /\ old = req[r].access.sid /\ e = req[r].read.expires
      BY <1>1, <2>1
    <3>2. old \in SessionIds /\ e \in Nat
      BY <1>0, <2>1, <3>1 DEF TypeInv, TypeOK, RequestsOK, Carries, Access, Request, Reading
    <3>3. ReadingOK(old, e)
      BY <2>1, <3>1 DEF IInv, ReadingsOK, ReadingOK
    <3> QED BY <3>2, <3>3, ReadingKept
  <2>2. CASE PasswordJudged(r)
    <3>1. PICK x, l : x = req[r].access.sid /\ l = LifetimeOf(x)
      OBVIOUS
    <3>2. /\ req[r] # Idle /\ req[r] \in Request /\ x \in SessionIds /\ rows[x] # NoRow
          /\ rows[x] \in Row /\ token' = token /\ signedIn' = signedIn
      BY <1>0, <2>2, <3>1 DEF PasswordJudged, Arrived, AccessValid, SessionRevoked, TypeInv, TypeOK,
                              RequestsOK, Carries, Access, ghosts
    <3>3. PICK read : read = [at |-> clock, line |-> boundary, expires |-> l]
      OBVIOUS
    <3>4. req'[r] = [req[r] EXCEPT !.phase = "verified", !.read = read]
      BY <1>0, <2>2, <3>1, <3>3 DEF PasswordJudged, TypeOK
    <3>5. old = x /\ e = l
      BY <1>1, <3>1, <3>2, <3>3, <3>4 DEF Request
    <3>6. ~Sliding => l <= signedIn[x] + Period
      BY <3>1, <3>2, NullsAssumption DEF LifetimeOf, IInv, LifetimesOK
    <3>7. Taken(x)
      BY <3>2 DEF IInv, RowsOK, Row, Taken
    <3> QED BY <3>2, <3>5, <3>6, <3>7 DEF ReadingOK, Taken
  <2> QED BY <1>0, <1>1, <2>1, <2>2, OnlyJudged
<1>2. ASSUME NEW r \in Requests, req'[r] # Idle, req'[r].phase = "verified", req'[r].kind = "password"
      PROVE  /\ Taken(req[r].access.sid)'
             /\ ~Sliding => req'[r].read.expires <= signedIn'[req'[r].access.sid] + Period
  <2>1. PICK old, e : old = req'[r].access.sid /\ e = req'[r].read.expires
    OBVIOUS
  <2>2. ReadingOK(old, e)'
    BY <1>1, <1>2, <2>1
  <2> QED BY <2>1, <2>2 DEF ReadingOK, Taken
<1> QED BY <1>2 DEF ReadingsOK

LEMMA NextIInv == IInv /\ [Next]_vars => IInv'
<1> SUFFICES ASSUME IInv, [Next]_vars PROVE IInv'
  OBVIOUS
<1>1. TypeInv'
  BY NextTypeInv DEF IInv
<1>2. Effect
  BY StepEffect DEF IInv
<1>3. DataInv'
  BY <1>2, RotationKeeps, EndingKeeps, BeginningKeeps, CommitKeeps, LosingKeeps, QuietStepKeeps DEF Effect
<1>4. ReadingsOK'
  BY <1>2, ReadingsStep
<1> QED BY <1>1, <1>3, <1>4 DEF IInv, DataInv

LEMMA Inductive == Spec => []IInv
BY InitIInv, NextIInv, PTL DEF Spec


-----------------------------------------------------------------------------
(***************************************************************************)
(* The browsers' side.  The cookies of a sign-in are in one jar, its         *)
(* browser's, and in that browser's requests; a refresh token is in one      *)
(* response until it is in the jar, and is in no jar or request before; and   *)
(* what a response brings is the row's current token, or a role switch        *)
(* replaced it without presenting it.                                       *)
(***************************************************************************)
Brings(r, j) == req[r] # Idle /\ req[r].reply.refresh = j

OfRequest(q, s) ==
    \/ q.jti # NoJti /\ token[q.jti].sid = s
    \/ \E a \in {q.access, q.reply.access} : a # NoAccess /\ a.sid = s
    \/ q.reply.refresh # NoJti /\ token[q.reply.refresh].sid = s

Holds(b, s) ==
    \/ jar[b].refresh # NoJti /\ token[jar[b].refresh].sid = s
    \/ jar[b].access # NoAccess /\ jar[b].access.sid = s
    \/ \E r \in Requests : req[r] # Idle /\ req[r].browser = b /\ OfRequest(req[r], s)

UnansweredOK ==
    \A r \in Requests : req[r] # Idle =>
        /\ req[r].phase # "replied" => req[r].reply = Refused /\ tx[r] = NoTx
        /\ req[r].jti # NoJti => Signed(req[r].jti)
        /\ req[r].reply.clears => req[r].reply.refresh = NoJti

OwnersOK ==
    \A b \in Browsers, s \in SessionIds : Holds(b, s) =>
        Taken(s) /\ \A c \in Browsers : Holds(c, s) => c = b

OnceOK ==
    \A r \in Requests, j \in Jtis : Brings(r, j) =>
        /\ \A q \in Requests : req[q] # Idle => req[q].jti # j /\ (Brings(q, j) => q = r)
        /\ \A b \in Browsers : jar[b].refresh # j
        /\ rows[token[j].sid] # NoRow => j = rows[token[j].sid].current \/ ReplacedBySwitch(j)

HeldOK ==
    \A b \in Browsers :
        LET j == jar[b].refresh  row == rows[token[j].sid] IN
        j # NoJti /\ rows[token[j].sid] # NoRow =>
            \/ j = row.current \/ history[row.current].lost \/ ReplacedBySwitch(j)
            \/ \E r \in Requests : Brings(r, row.current)

CookiesInv == UnansweredOK /\ OwnersOK /\ OnceOK /\ HeldOK

LEMMA RequestFields ==
    ASSUME TypeInv, NEW r \in Requests, req[r] # Idle
    PROVE  /\ req[r] \in Request /\ req[r].browser \in Browsers /\ req[r].jti \in Jtis \cup {NoJti}
           /\ req[r].access \in Access \cup {NoAccess} /\ req[r].reply \in Reply
           /\ req[r].reply.refresh \in Jtis \cup {NoJti}
           /\ req[r].reply.access \in Access \cup {NoAccess}
           /\ req[r].reply.refresh # NoJti => Signed(req[r].reply.refresh)
<1>1. req[r] \in Request /\ Carries(req[r])
  BY DEF TypeInv, TypeOK, RequestsOK
<1> QED BY <1>1 DEF Request, Reply, Carries

LEMMA JarFields ==
    ASSUME TypeInv, NEW b \in Browsers
    PROVE  /\ jar[b].refresh \in Jtis \cup {NoJti} /\ jar[b].access \in Access \cup {NoAccess}
           /\ jar[b].refresh # NoJti => Signed(jar[b].refresh)
<1>1. jar[b] \in [access: Access \cup {NoAccess}, refresh: Jtis \cup {NoJti}]
  BY DEF TypeInv, TypeOK
<1> QED BY <1>1 DEF TypeInv, JarsOK

LEMMA SignedFields ==
    ASSUME TypeInv, NEW j \in Jtis
    PROVE  /\ Signed(j) => token[j].sid \in SessionIds
           /\ \A s \in SessionIds : token[j].sid = s => Signed(j)
           /\ \A s \in SessionIds : rows[s] # NoRow => rows[s].current \in Jtis
BY NullsAssumption DEF TypeInv, TypeOK, Token, Signed, Row

LEMMA AnswerValues ==
    ASSUME TypeInv, NEW r \in Requests, req[r] # Idle, NEW reply \in Reply, Answer(r, reply)
    PROVE  /\ req'[r] # Idle /\ req'[r].phase = "replied" /\ req'[r].reply = reply
           /\ req'[r].kind = req[r].kind /\ req'[r].browser = req[r].browser
           /\ req'[r].jti = req[r].jti /\ req'[r].access = req[r].access
           /\ \A q \in Requests \ {r} : req'[q] = req[q]
<1>1. req[r] \in Request /\ req \in [Requests -> Request \cup {Idle}]
  BY DEF TypeInv, TypeOK
<1> DEFINE new == [req[r] EXCEPT !.phase = "replied", !.reply = reply]
<1>2. req' = [req EXCEPT ![r] = new]
  BY <1>1 DEF Answer
<1>3. /\ new \in Request /\ new.phase = "replied" /\ new.reply = reply /\ new.kind = req[r].kind
      /\ new.browser = req[r].browser /\ new.jti = req[r].jti /\ new.access = req[r].access
  BY <1>1 DEF Request
<1> HIDE DEF new
<1>4. new # Idle
  BY <1>3, NullRecordsAssumption
<1> QED BY <1>1, <1>2, <1>3, <1>4

\* Where no token is signed, issued or moved to another jar, the cookies stay in order.
LEMMA NothingNew ==
    ASSUME IInv, CookiesInv, UNCHANGED <<token, jar>>,
           \A r \in Requests, j \in Jtis : Brings(r, j)' => Brings(r, j),
           \A r \in Requests, j \in Jtis : Brings(r, j) => Brings(r, j)' \/ history'[j].lost,
           \A r \in Requests : req'[r] # Idle /\ req'[r].jti # NoJti =>
               \/ req[r] # Idle /\ req[r].jti = req'[r].jti
               \/ \E b \in Browsers : jar[b].refresh = req'[r].jti,
           \A b \in Browsers, s \in SessionIds : Holds(b, s)' => Holds(b, s),
           \A s \in SessionIds : rows'[s] # NoRow => rows'[s] = rows[s],
           \A j \in Jtis : /\ history'[j].by = history[j].by /\ history'[j].replaced = history[j].replaced
                           /\ history[j].lost => history'[j].lost
    PROVE  OwnersOK' /\ OnceOK' /\ HeldOK'
<1>1. OwnersOK'
  BY DEF CookiesInv, OwnersOK, Taken
<1>2. \A j \in Jtis : ReplacedBySwitch(j) => ReplacedBySwitch(j)'
  BY DEF ReplacedBySwitch
<1>3. TypeInv
  BY DEF IInv
<1>4. OnceOK'
  <2> SUFFICES ASSUME NEW r \in Requests, NEW j \in Jtis, Brings(r, j)'
               PROVE  /\ \A q \in Requests : req'[q] # Idle => req'[q].jti # j /\ (Brings(q, j)' => q = r)
                      /\ \A b \in Browsers : jar'[b].refresh # j
                      /\ rows'[token'[j].sid] # NoRow =>
                             j = rows'[token'[j].sid].current \/ ReplacedBySwitch(j)'
    BY DEF OnceOK
  <2>1. Brings(r, j)
    OBVIOUS
  <2>2. /\ \A q \in Requests : req[q] # Idle => req[q].jti # j /\ (Brings(q, j) => q = r)
        /\ \A b \in Browsers : jar[b].refresh # j
        /\ rows[token[j].sid] # NoRow => j = rows[token[j].sid].current \/ ReplacedBySwitch(j)
    BY <2>1 DEF CookiesInv, OnceOK
  <2>3. Signed(j) /\ token[j].sid \in SessionIds
    BY <1>3, <2>1, RequestFields, SignedFields, NullsAssumption DEF Brings
  <2>4. \A q \in Requests : req'[q] # Idle => req'[q].jti # j
    BY <2>2, NullsAssumption
  <2>5. \A q \in Requests : Brings(q, j)' => q = r
    BY <2>2 DEF Brings
  <2> QED BY <1>2, <2>2, <2>3, <2>4, <2>5
<1>5. HeldOK'
  <2> SUFFICES ASSUME NEW b \in Browsers, NEW j, j = jar[b].refresh, j # NoJti, rows'[token[j].sid] # NoRow
               PROVE  \/ j = rows'[token[j].sid].current \/ history'[rows'[token[j].sid].current].lost
                      \/ ReplacedBySwitch(j)'
                      \/ \E r \in Requests : Brings(r, rows[token[j].sid].current)'
    BY DEF HeldOK
  <2>1. Signed(j) /\ token[j].sid \in SessionIds /\ j \in Jtis
    BY <1>3, JarFields, SignedFields, NullsAssumption
  <2>0. PICK c : c = rows[token[j].sid].current
    OBVIOUS
  <2>2. rows'[token[j].sid] = rows[token[j].sid] /\ rows[token[j].sid] # NoRow
    BY <2>1
  <2>3. c \in Jtis
    BY <1>3, <2>0, <2>1, <2>2, SignedFields
  <2>4. j = c \/ history[c].lost \/ ReplacedBySwitch(j) \/ \E r \in Requests : Brings(r, c)
    BY <2>0, <2>2 DEF CookiesInv, HeldOK
  <2>5. (\E r \in Requests : Brings(r, c)) => history'[c].lost \/ \E r \in Requests : Brings(r, c)'
    BY <2>3
  <2>6. history[c].lost => history'[c].lost
    BY <2>3
  <2>7. (\E r \in Requests : Brings(r, c)') => \E r \in Requests : Brings(r, rows[token[j].sid].current)'
    BY <2>0, <2>2 DEF Brings
  <2> QED BY <1>2, <2>0, <2>1, <2>2, <2>4, <2>5, <2>6, <2>7
<1> QED BY <1>1, <1>4, <1>5

\* Of what an exchange of a token leaves in order.
LEMMA RotationCookies ==
    ASSUME IInv, CookiesInv, NEW r \in Requests, NEW s \in SessionIds, NEW p \in Jtis \cup {NoJti},
           NEW k \in Jtis, req[r] # Idle, req[r].phase = "verified", OfRequest(req[r], s),
           p # NoJti => p = req[r].jti, p = NoJti => req[r].kind = "switch", Rotate(r, s, p, k)
    PROVE  CookiesInv'
<1> DEFINE reply == [access |-> AccessFor(s, clock), refresh |-> k, clears |-> FALSE]
<1>a. PICK old : old = rows[s].current
  OBVIOUS
<1>0. TypeInv /\ TypeInv' /\ TypeOK /\ req[r] \in Request
  BY RotateType DEF IInv, TypeInv, TypeOK
<1>1. RotateValues(r, s, p, k, old)
  BY <1>0, <1>a, RotateHasValues
<1>2. UnansweredOK /\ OwnersOK /\ OnceOK /\ HeldOK
  BY DEF CookiesInv
<1>3. /\ req'[r] # Idle /\ req'[r].phase = "replied" /\ req'[r].reply = reply
      /\ req'[r].browser = req[r].browser /\ req'[r].jti = req[r].jti /\ req'[r].access = req[r].access
      /\ \A q \in Requests \ {r} : req'[q] = req[q]
  <2>1. reply \in Reply
    BY <1>0, AccessForType DEF Reply
  <2> HIDE DEF reply
  <2> QED BY <1>0, <2>1, AnswerValues DEF Rotate, reply
<1>4. jar' = jar /\ tx' = tx /\ reply.refresh = k /\ reply.access = AccessFor(s, clock) /\ reply.clears = FALSE
  BY DEF Rotate
<1> HIDE DEF reply
<1>5. req[r].reply.refresh = NoJti /\ tx[r] = NoTx
  BY <1>2 DEF UnansweredOK, Refused
<1>6. /\ ~Signed(k) /\ Signed(k)' /\ token'[k].sid = s /\ k # NoJti
      /\ \A j \in Jtis \ {k} : token'[j] = token[j]
  BY <1>1, NullsAssumption DEF RotateValues
<1>7. /\ \A b \in Browsers : jar[b].refresh # k /\ (jar[b].refresh # NoJti => jar[b].refresh \in Jtis)
      /\ \A q \in Requests : req[q] # Idle =>
            /\ req[q].jti # k /\ (req[q].jti # NoJti => req[q].jti \in Jtis)
            /\ req[q].reply.refresh # k /\ (req[q].reply.refresh # NoJti => req[q].reply.refresh \in Jtis)
  BY <1>0, <1>2, <1>6, JarFields, RequestFields DEF UnansweredOK
<1>8. \A t \in SessionIds : Taken(t) => Taken(t)'
  BY <1>6, NullsAssumption DEF Taken, Signed
<1>9. ASSUME NEW b \in Browsers, NEW t \in SessionIds, Holds(b, t)' PROVE Holds(b, t)
  <2>1. CASE jar'[b].refresh # NoJti /\ token'[jar'[b].refresh].sid = t
    BY <2>1, <1>4, <1>6, <1>7 DEF Holds
  <2>2. CASE jar'[b].access # NoAccess /\ jar'[b].access.sid = t
    BY <2>2, <1>4 DEF Holds
  <2>3. CASE \E q \in Requests : req'[q] # Idle /\ req'[q].browser = b /\ OfRequest(req[q], t)'
    <3>1. PICK q \in Requests : req'[q] # Idle /\ req'[q].browser = b /\ OfRequest(req[q], t)'
      BY <2>3
    <3>2. CASE q # r
      <4>1. req[q] # Idle /\ req[q].browser = b /\ OfRequest(req[q], t)
        BY <3>1, <3>2, <1>3, <1>6, <1>7 DEF OfRequest
      <4> QED BY <4>1 DEF Holds
    <3>3. CASE q = r
      <4>1. OfRequest(req[r], t)
        BY <3>1, <3>3, <1>3, <1>4, <1>6, <1>7 DEF OfRequest, AccessFor
      <4> QED BY <4>1, <3>1, <3>3, <1>3 DEF Holds
    <3> QED BY <3>2, <3>3
  <2> QED BY <1>9, <2>1, <2>2, <2>3 DEF Holds
<1>10. OwnersOK'
  BY <1>2, <1>8, <1>9 DEF OwnersOK
<1>11. UnansweredOK'
  BY <1>2, <1>3, <1>4, <1>6, <1>7 DEF UnansweredOK, Signed
<1>12. /\ history'[k].by = req[r].kind /\ history'[k].replaced = old /\ history[k].by = "login"
       /\ \A j \in Jtis \ {k} : /\ history'[j].by = history[j].by /\ history'[j].replaced = history[j].replaced
                                /\ history'[j].lost = history[j].lost
  <2>1. history[k] = NoHistory /\ history[old] \in History
    BY <1>0, <1>1 DEF IInv, HistoryOK, RotateValues, TypeOK
  <2> QED BY <2>1, <1>1 DEF RotateValues, NoHistory, History
<1>13. ASSUME NEW j \in Jtis, ReplacedBySwitch(j) PROVE ReplacedBySwitch(j)'
  BY <1>12, <1>13 DEF ReplacedBySwitch
<1>14. /\ rows'[s].current = k /\ \A t \in SessionIds \ {s} : rows'[t] = rows[t]
       /\ rows[s] # NoRow /\ rows[s].current = old /\ old \in Jtis /\ old # k
  BY <1>1 DEF RotateValues, Rotated
<1>15. p = NoJti => ReplacedBySwitch(old)'
  BY <1>12 DEF ReplacedBySwitch
<1>16. p # NoJti => p = old
  BY <1>1 DEF RotateValues
<1>17. OnceOK'
  <2> SUFFICES ASSUME NEW x \in Requests, NEW j \in Jtis, Brings(x, j)'
               PROVE  /\ \A q \in Requests : req'[q] # Idle => req'[q].jti # j /\ (Brings(q, j)' => q = x)
                      /\ \A b \in Browsers : jar'[b].refresh # j
                      /\ rows'[token'[j].sid] # NoRow =>
                             j = rows'[token'[j].sid].current \/ ReplacedBySwitch(j)'
    BY DEF OnceOK
  <2>1. CASE x = r
    <3>1. j = k
      BY <2>1, <1>3, <1>4 DEF Brings
    <3>2. \A q \in Requests : req'[q] # Idle => req'[q].jti # k /\ (Brings(q, k)' => q = r)
      BY <1>3, <1>7 DEF Brings
    <3> QED BY <2>1, <3>1, <3>2, <1>4, <1>6, <1>7, <1>14
  <2>2. CASE x # r
    <3>1. Brings(x, j) /\ j # k
      BY <2>2, <1>3, <1>7 DEF Brings
    <3>2. /\ \A q \in Requests : req[q] # Idle => req[q].jti # j /\ (Brings(q, j) => q = x)
          /\ \A b \in Browsers : jar[b].refresh # j
          /\ rows[token[j].sid] # NoRow => j = rows[token[j].sid].current \/ ReplacedBySwitch(j)
      BY <3>1, <1>2 DEF OnceOK
    <3>3. \A q \in Requests : req'[q] # Idle => req'[q].jti # j /\ (Brings(q, j)' => q = x)
      BY <3>1, <3>2, <1>3, <1>4 DEF Brings
    <3>4. token[j].sid \in SessionIds /\ token'[j] = token[j]
      BY <3>1, <1>0, <1>6, RequestFields, SignedFields, NullsAssumption DEF Brings
    <3>5. j = old => p = NoJti
      BY <3>2, <1>16
    <3> QED BY <3>2, <3>3, <3>4, <3>5, <1>4, <1>13, <1>14, <1>15
  <2> QED BY <2>1, <2>2
<1>18. HeldOK'
  <2> SUFFICES ASSUME NEW b \in Browsers, NEW j, j = jar[b].refresh, j # NoJti, rows'[token'[j].sid] # NoRow
               PROVE  \/ j = rows'[token'[j].sid].current \/ history'[rows'[token'[j].sid].current].lost
                      \/ ReplacedBySwitch(j)'
                      \/ \E x \in Requests : req'[x] # Idle /\ req'[x].reply.refresh = rows'[token'[j].sid].current
    BY <1>4 DEF HeldOK, Brings
  <2>1. j \in Jtis /\ j # k /\ token'[j] = token[j] /\ token[j].sid \in SessionIds
    BY <1>0, <1>6, <1>7, JarFields, SignedFields, NullsAssumption
  <2>2. CASE token[j].sid = s
    BY <2>1, <2>2, <1>3, <1>4, <1>14
  <2>3. CASE token[j].sid # s
    <3>1. PICK c : c = rows[token[j].sid].current
      OBVIOUS
    <3>2. rows'[token'[j].sid] = rows[token[j].sid] /\ rows[token[j].sid] # NoRow
      BY <2>1, <2>3, <1>14
    <3>3. c \in Jtis /\ Signed(c)
      <4>1. c \in Jtis /\ token[c].sid = token[j].sid
        BY <1>0, <2>1, <3>1, <3>2, SignedFields DEF IInv, RowsOK
      <4> QED BY <1>0, <2>1, <4>1, SignedFields
    <3>4. j = c \/ history[c].lost \/ ReplacedBySwitch(j) \/ \E x \in Requests : Brings(x, c)
      BY <3>1, <3>2, <1>2 DEF HeldOK
    <3>5. (\E x \in Requests : Brings(x, c)) => \E x \in Requests : req'[x] # Idle /\ req'[x].reply.refresh = c
      BY <3>3, <1>3, <1>5, NullsAssumption DEF Brings
    <3>6. history[c].lost => history'[c].lost
      BY <3>3, <1>6, <1>12
    <3> QED BY <2>1, <3>1, <3>2, <3>4, <3>5, <3>6, <1>13
  <2> QED BY <2>2, <2>3
<1> QED BY <1>10, <1>11, <1>17, <1>18 DEF CookiesInv

\* Of what the beginning of a sign-in leaves in order; its row is not there yet.
LEMMA BeginCookies ==
    ASSUME IInv, CookiesInv, NEW r \in Requests, NEW s \in SessionIds, NEW k \in Jtis, NEW at \in Time,
           NEW e \in Nat, NEW line \in Time \cup {Never}, NEW seen \in Time \cup {Never},
           NEW kind \in {"login", "password"}, NEW since \in Time,
           Begin(r, s, k, at, e, line, seen, kind, since), UNCHANGED <<clock, rows, boundary, jar>>,
           req'[r] # Idle, req'[r].phase = "replied",
           req'[r].reply = [access |-> AccessFor(s, at), refresh |-> k, clears |-> FALSE],
           req'[r].jti = NoJti \/ (req[r] # Idle /\ req'[r].jti = req[r].jti),
           \/ req'[r].access = NoAccess
           \/ req[r] # Idle /\ req'[r].access = req[r].access,
           req[r] # Idle => /\ req[r].phase # "replied" /\ req'[r].browser = req[r].browser,
           req'[r].browser \in Browsers,
           \A q \in Requests \ {r} : req'[q] = req[q]
    PROVE  CookiesInv'
<1>0. TypeInv /\ TypeOK
  BY DEF IInv, TypeInv
<1>1. UnansweredOK /\ OwnersOK /\ OnceOK /\ HeldOK
  BY DEF CookiesInv
<1>2. /\ ~Taken(s) /\ ~Signed(k) /\ Signed(k)' /\ token'[k].sid = s /\ k # NoJti
      /\ \A j \in Jtis \ {k} : token'[j] = token[j]
  <2>1. ~Taken(s) /\ ~Signed(k) /\ Sign(k, s, at, e)
    BY DEF Begin
  <2>2. /\ Signed(k)' /\ token'[k] = [sid |-> s, iat |-> at, exp |-> e]
        /\ \A j \in Jtis \ {k} : token'[j] = token[j]
    BY <1>0, <2>1, SignKeeps
  <2> QED BY <2>1, <2>2, NullsAssumption
<1>3. \A q \in Requests \ {r} : tx'[q] = tx[q]
  BY <1>0 DEF Begin, TypeOK
<1>4. \A j \in Jtis : /\ j # k => history'[j].by = history[j].by
                      /\ history'[j].replaced = history[j].replaced /\ history'[j].lost = history[j].lost
  <2>1. \A j \in Jtis : history[j] \in History
    BY <1>0 DEF TypeOK
  <2> QED BY <1>0, <2>1 DEF Begin, History, TypeOK
<1>5. history[k].by = "login"
  <2>1. history[k] = NoHistory
    BY <1>2 DEF IInv, HistoryOK
  <2> QED BY <2>1 DEF NoHistory
<1>6. ASSUME NEW j \in Jtis, ReplacedBySwitch(j) PROVE ReplacedBySwitch(j)'
  BY <1>4, <1>5, <1>6 DEF ReplacedBySwitch
<1>7. /\ \A b \in Browsers : jar[b].refresh # k /\ (jar[b].refresh # NoJti => jar[b].refresh \in Jtis)
      /\ \A q \in Requests : req[q] # Idle =>
            /\ req[q].jti # k /\ (req[q].jti # NoJti => req[q].jti \in Jtis)
            /\ req[q].reply.refresh # k /\ (req[q].reply.refresh # NoJti => req[q].reply.refresh \in Jtis)
  BY <1>0, <1>1, <1>2, JarFields, RequestFields DEF UnansweredOK
<1>8. req'[r].reply.refresh = k /\ req'[r].reply.access = AccessFor(s, at) /\ req'[r].reply.clears = FALSE
  OBVIOUS
<1>9. req[r] # Idle => req[r].reply.refresh = NoJti
  BY <1>1 DEF UnansweredOK, Refused
<1>10. UnansweredOK'
  BY <1>1, <1>2, <1>3, <1>7, <1>8 DEF UnansweredOK, Signed
<1>11. ASSUME NEW b \in Browsers, NEW t \in SessionIds, Holds(b, t)'
       PROVE  Holds(b, t) \/ (t = s /\ b = req'[r].browser)
  <2>1. CASE jar'[b].refresh # NoJti /\ token'[jar'[b].refresh].sid = t
    BY <2>1, <1>2, <1>7 DEF Holds
  <2>2. CASE jar'[b].access # NoAccess /\ jar'[b].access.sid = t
    BY <2>2 DEF Holds
  <2>3. CASE \E q \in Requests : req'[q] # Idle /\ req'[q].browser = b /\ OfRequest(req[q], t)'
    <3>1. PICK q \in Requests : req'[q] # Idle /\ req'[q].browser = b /\ OfRequest(req[q], t)'
      BY <2>3
    <3>2. CASE q # r
      <4>1. req[q] # Idle /\ req[q].browser = b /\ OfRequest(req[q], t)
        BY <3>1, <3>2, <1>2, <1>7 DEF OfRequest
      <4> QED BY <4>1 DEF Holds
    <3>3. CASE q = r
      <4>1. \/ t = s
            \/ req[r] # Idle /\ OfRequest(req[r], t)
        BY <3>1, <3>3, <1>2, <1>7, <1>8 DEF OfRequest, AccessFor
      <4>2. CASE req[r] # Idle /\ OfRequest(req[r], t)
        BY <4>2, <3>1, <3>3 DEF Holds
      <4> QED BY <4>1, <4>2, <3>1, <3>3
    <3> QED BY <3>2, <3>3
  <2> QED BY <1>11, <2>1, <2>2, <2>3 DEF Holds
<1>12. OwnersOK'
  <2>1. \A t \in SessionIds : Taken(t) => Taken(t)'
    BY <1>2, NullsAssumption DEF Taken, Signed
  <2>2. Taken(s)' /\ \A b \in Browsers : ~Holds(b, s)
    BY <1>1, <1>2 DEF Taken, OwnersOK
  <2> QED BY <1>1, <1>11, <2>1, <2>2 DEF OwnersOK
<1>13. rows[s] = NoRow
  <2>1. rows[s] # NoRow => rows[s].current \in Jtis /\ token[rows[s].current].sid = s
    BY <1>0, SignedFields DEF IInv, RowsOK
  <2> QED BY <1>2, <2>1 DEF Taken
<1>14. OnceOK'
  <2> SUFFICES ASSUME NEW x \in Requests, NEW j \in Jtis, Brings(x, j)'
               PROVE  /\ \A q \in Requests : req'[q] # Idle => req'[q].jti # j /\ (Brings(q, j)' => q = x)
                      /\ \A b \in Browsers : jar'[b].refresh # j
                      /\ rows'[token'[j].sid] # NoRow =>
                             j = rows'[token'[j].sid].current \/ ReplacedBySwitch(j)'
    BY DEF OnceOK
  <2>1. CASE x = r
    <3>1. j = k
      BY <2>1, <1>8 DEF Brings
    <3>2. \A q \in Requests : req'[q] # Idle => req'[q].jti # k /\ (Brings(q, k)' => q = r)
      BY <1>2, <1>7 DEF Brings
    <3> QED BY <2>1, <3>1, <3>2, <1>2, <1>7, <1>13
  <2>2. CASE x # r
    <3>1. Brings(x, j) /\ j # k
      BY <2>2, <1>7 DEF Brings
    <3>2. /\ \A q \in Requests : req[q] # Idle => req[q].jti # j /\ (Brings(q, j) => q = x)
          /\ \A b \in Browsers : jar[b].refresh # j
          /\ rows[token[j].sid] # NoRow => j = rows[token[j].sid].current \/ ReplacedBySwitch(j)
      BY <3>1, <1>1 DEF OnceOK
    <3>3. \A q \in Requests : req'[q] # Idle => req'[q].jti # j /\ (Brings(q, j)' => q = x)
      BY <3>1, <3>2, <1>8, NullsAssumption DEF Brings
    <3> QED BY <3>1, <3>2, <3>3, <1>2, <1>6
  <2> QED BY <2>1, <2>2
<1>15. HeldOK'
  <2> SUFFICES ASSUME NEW b \in Browsers, NEW j, j = jar[b].refresh, j # NoJti, rows[token'[j].sid] # NoRow
               PROVE  \/ j = rows[token'[j].sid].current \/ history'[rows[token'[j].sid].current].lost
                      \/ ReplacedBySwitch(j)'
                      \/ \E x \in Requests : req'[x] # Idle /\ req'[x].reply.refresh = rows[token'[j].sid].current
    BY DEF HeldOK, Brings
  <2>1. j \in Jtis /\ j # k /\ token'[j] = token[j] /\ token[j].sid \in SessionIds
    BY <1>0, <1>2, <1>7, JarFields, SignedFields, NullsAssumption
  <2>2. PICK c : c = rows[token[j].sid].current
    OBVIOUS
  <2>3. c \in Jtis
    BY <1>0, <2>1, <2>2, SignedFields
  <2>4. j = c \/ history[c].lost \/ ReplacedBySwitch(j) \/ \E x \in Requests : Brings(x, c)
    BY <2>1, <2>2, <1>1 DEF HeldOK
  <2>5. (\E x \in Requests : Brings(x, c)) => \E x \in Requests : req'[x] # Idle /\ req'[x].reply.refresh = c
    BY <2>3, <1>9, NullsAssumption DEF Brings
  <2> QED BY <2>1, <2>2, <2>3, <2>4, <2>5, <1>4, <1>6
<1> QED BY <1>10, <1>12, <1>14, <1>15 DEF CookiesInv

\* Of what a commit leaves in order: the row it writes has the sign-in's only token.
LEMMA CommitCookies ==
    ASSUME IInv, CookiesInv, NEW r \in Requests, Commit(r)
    PROVE  CookiesInv'
<1>0. TypeInv /\ TypeOK /\ TxOK
  BY DEF IInv, TypeInv
<1>1. UnansweredOK /\ OwnersOK /\ OnceOK /\ HeldOK
  BY DEF CookiesInv
<1>2. /\ tx[r] # NoTx /\ tx[r] \in Tx /\ tx' = [tx EXCEPT ![r] = NoTx]
      /\ UNCHANGED <<clock, token, jar, req, history, signedIn>>
  BY <1>0 DEF Commit, ghosts, TypeOK
<1>3. \A s \in SessionIds : rows'[s] # NoRow =>
         \/ rows'[s] = rows[s]
         \/ s = tx[r].sid /\ rows'[s].current = tx[r].row.current
  BY <1>0 DEF Commit, TypeOK
<1>4. \A j \in Jtis : token[j].sid = tx[r].sid => j = tx[r].row.current
  BY <1>0, <1>2 DEF TxOK
<1>5. UnansweredOK'
  BY <1>0, <1>1, <1>2 DEF UnansweredOK, TypeOK, Signed
<1>6. OwnersOK'
  BY <1>1, <1>2 DEF OwnersOK, Holds, OfRequest, Taken
<1>7. ASSUME NEW j \in Jtis, Signed(j), rows'[token[j].sid] # NoRow
      PROVE  j = rows'[token[j].sid].current \/ rows'[token[j].sid] = rows[token[j].sid]
  BY <1>0, <1>3, <1>4, <1>7, SignedFields
<1>8. OnceOK'
  <2> SUFFICES ASSUME NEW x \in Requests, NEW j \in Jtis, Brings(x, j)
               PROVE  /\ \A q \in Requests : req[q] # Idle => req[q].jti # j /\ (Brings(q, j) => q = x)
                      /\ \A b \in Browsers : jar[b].refresh # j
                      /\ rows'[token[j].sid] # NoRow =>
                             j = rows'[token[j].sid].current \/ ReplacedBySwitch(j)
    BY <1>2 DEF OnceOK, Brings, ReplacedBySwitch
  <2>1. Signed(j)
    BY <1>0, RequestFields, NullsAssumption DEF Brings
  <2> QED BY <1>1, <1>7, <2>1 DEF OnceOK
<1>9. HeldOK'
  <2> SUFFICES ASSUME NEW b \in Browsers, NEW j, j = jar[b].refresh, j # NoJti, rows'[token[j].sid] # NoRow
               PROVE  \/ j = rows'[token[j].sid].current \/ history[rows'[token[j].sid].current].lost
                      \/ ReplacedBySwitch(j)
                      \/ \E x \in Requests : Brings(x, rows'[token[j].sid].current)
    BY <1>2 DEF HeldOK, Brings, ReplacedBySwitch
  <2>1. j \in Jtis /\ Signed(j)
    BY <1>0, JarFields
  <2>2. j = rows'[token[j].sid].current \/ rows'[token[j].sid] = rows[token[j].sid]
    BY <1>7, <2>1
  <2> QED BY <1>1, <2>2 DEF HeldOK
<1> QED BY <1>5, <1>6, <1>8, <1>9 DEF CookiesInv

\* Of what a delivery leaves in order: the token it brings takes the place of the
\* one in the jar of the sign-in's own browser.
LEMMA DeliverCookies ==
    ASSUME IInv, CookiesInv, NEW r \in Requests, Deliver(r)
    PROVE  CookiesInv'
<1>0. TypeInv /\ TypeOK /\ req[r] # Idle
  BY DEF IInv, TypeInv, Deliver, Replied
<1>1. UnansweredOK /\ OwnersOK /\ OnceOK /\ HeldOK
  BY DEF CookiesInv
<1>2. PICK b, t, clears : b = req[r].browser /\ t = req[r].reply.refresh /\ clears = req[r].reply.clears
  OBVIOUS
<1>3. /\ b \in Browsers /\ t \in Jtis \cup {NoJti} /\ (t # NoJti => Signed(t))
      /\ req[r].reply.access \in Access \cup {NoAccess} /\ (clears => t = NoJti)
  BY <1>0, <1>1, <1>2, RequestFields DEF UnansweredOK
<1>4. /\ UNCHANGED <<clock, rows, boundary, token, tx, history, signedIn>>
      /\ \A c \in Browsers \ {b} : jar'[c] = jar[c]
      /\ jar'[b] = WithCookies(jar[b], req[r].reply)
  BY <1>0, <1>2, <1>3 DEF Deliver, ghosts, TypeOK
<1>5. req'[r] = Idle /\ \A q \in Requests \ {r} : req'[q] = req[q]
  BY <1>0 DEF Deliver, TypeOK
<1>6. /\ jar'[b].refresh = IF clears THEN NoJti ELSE IF t = NoJti THEN jar[b].refresh ELSE t
      /\ jar'[b].access \in {NoAccess, jar[b].access, req[r].reply.access}
  BY <1>2, <1>4 DEF WithCookies, EmptyJar
<1>7. UnansweredOK'
  BY <1>1, <1>4, <1>5 DEF UnansweredOK, Signed
<1>8. ASSUME NEW c \in Browsers, NEW s \in SessionIds, Holds(c, s)' PROVE Holds(c, s)
  <2>1. CASE jar'[c].refresh # NoJti /\ token'[jar'[c].refresh].sid = s
    <3>1. CASE jar'[c].refresh = jar[c].refresh
      BY <2>1, <3>1, <1>4 DEF Holds
    <3>2. CASE jar'[c].refresh # jar[c].refresh
      <4>1. c = b /\ jar'[c].refresh = t
        BY <2>1, <3>2, <1>4, <1>6
      <4> QED BY <4>1, <2>1, <1>0, <1>2, <1>4 DEF Holds, OfRequest
    <3> QED BY <3>1, <3>2
  <2>2. CASE jar'[c].access # NoAccess /\ jar'[c].access.sid = s
    <3>1. CASE jar'[c].access = jar[c].access
      BY <2>2, <3>1 DEF Holds
    <3>2. CASE jar'[c].access # jar[c].access
      <4>1. c = b /\ jar'[c].access = req[r].reply.access
        BY <2>2, <3>2, <1>4, <1>6
      <4> QED BY <4>1, <2>2, <1>0, <1>2 DEF Holds, OfRequest
    <3> QED BY <3>1, <3>2
  <2>3. CASE \E q \in Requests : req'[q] # Idle /\ req'[q].browser = c /\ OfRequest(req[q], s)'
    <3>1. PICK q \in Requests : req'[q] # Idle /\ req'[q].browser = c /\ OfRequest(req[q], s)'
      BY <2>3
    <3>2. q # r /\ req[q] # Idle /\ req[q].browser = c /\ OfRequest(req[q], s)
      BY <3>1, <1>4, <1>5 DEF OfRequest
    <3> QED BY <3>2 DEF Holds
  <2> QED BY <1>8, <2>1, <2>2, <2>3 DEF Holds
<1>9. OwnersOK'
  BY <1>1, <1>4, <1>8 DEF OwnersOK, Taken
<1>10. \A x \in Requests, j \in Jtis : Brings(x, j)' => x # r /\ Brings(x, j)
  BY <1>5 DEF Brings
<1>11. OnceOK'
  <2> SUFFICES ASSUME NEW x \in Requests, NEW j \in Jtis, Brings(x, j)'
               PROVE  /\ \A q \in Requests : req'[q] # Idle => req'[q].jti # j /\ (Brings(q, j)' => q = x)
                      /\ \A c \in Browsers : jar'[c].refresh # j
                      /\ rows[token[j].sid] # NoRow => j = rows[token[j].sid].current \/ ReplacedBySwitch(j)
    BY <1>4 DEF OnceOK, ReplacedBySwitch
  <2>1. x # r /\ Brings(x, j)
    BY <1>10
  <2>2. /\ \A q \in Requests : req[q] # Idle => req[q].jti # j /\ (Brings(q, j) => q = x)
        /\ \A c \in Browsers : jar[c].refresh # j
        /\ rows[token[j].sid] # NoRow => j = rows[token[j].sid].current \/ ReplacedBySwitch(j)
    BY <2>1, <1>1 DEF OnceOK
  <2>3. t # j
    BY <2>1, <2>2, <1>0, <1>2 DEF Brings
  <2>4. \A c \in Browsers : jar'[c].refresh # j
    BY <2>2, <2>3, <1>4, <1>6, NullsAssumption
  <2>5. \A q \in Requests : req'[q] # Idle => req'[q].jti # j
    BY <2>2, <1>5
  <2>6. \A q \in Requests : Brings(q, j)' => q = x
    BY <2>2, <1>10 DEF Brings
  <2> QED BY <2>2, <2>4, <2>5, <2>6
<1>12. HeldOK'
  <2> SUFFICES ASSUME NEW d \in Browsers, NEW j, j = jar'[d].refresh, j # NoJti, rows[token[j].sid] # NoRow
               PROVE  \/ j = rows[token[j].sid].current \/ history[rows[token[j].sid].current].lost
                      \/ ReplacedBySwitch(j)
                      \/ \E x \in Requests : req'[x] # Idle /\ req'[x].reply.refresh = rows[token[j].sid].current
    BY <1>4 DEF HeldOK, Brings, ReplacedBySwitch
  <2>1. CASE d = b /\ j = t
    BY <2>1, <1>0, <1>1, <1>2, <1>3 DEF OnceOK, Brings
  <2>2. CASE ~(d = b /\ j = t)
    <3>1. j = jar[d].refresh /\ (d = b => t = NoJti)
      BY <2>2, <1>4, <1>6
    <3>2. PICK c : c = rows[token[j].sid].current
      OBVIOUS
    <3>3. j = c \/ history[c].lost \/ ReplacedBySwitch(j) \/ \E x \in Requests : Brings(x, c)
      BY <3>1, <3>2, <1>1 DEF HeldOK
    <3>4. ASSUME NEW x \in Requests, Brings(x, c) PROVE req'[x] # Idle /\ req'[x].reply.refresh = c
      <4>1. j \in Jtis /\ token[j].sid \in SessionIds /\ c \in Jtis /\ token[c].sid = token[j].sid
        BY <3>1, <3>2, <1>0, JarFields, SignedFields DEF IInv, RowsOK
      <4>2. Holds(d, token[j].sid)
        BY <3>1 DEF Holds
      <4>3. x # r
        <5> SUFFICES ASSUME x = r PROVE FALSE
          OBVIOUS
        <5>1. t = c
          BY <3>4, <1>2 DEF Brings
        <5>2. Holds(b, token[j].sid)
          BY <5>1, <4>1, <1>0, <1>2, NullsAssumption DEF Holds, OfRequest
        <5>3. d = b
          BY <4>1, <4>2, <5>2, <1>1, <1>3 DEF OwnersOK
        <5> QED BY <5>1, <5>3, <3>1, <4>1, NullsAssumption
      <4> QED BY <3>4, <4>3, <1>5 DEF Brings
    <3> QED BY <3>2, <3>3, <3>4
  <2> QED BY <2>1, <2>2
<1> QED BY <1>7, <1>9, <1>11, <1>12 DEF CookiesInv

\* Answers that hand out no refresh token.
LEMMA AnswerCookies ==
    ASSUME IInv, CookiesInv, NEW r \in Requests, NEW reply \in Reply, req[r] # Idle,
           req[r].phase # "replied", Answer(r, reply), UNCHANGED <<token, jar, tx, history>>,
           reply.refresh = NoJti,
           reply.access # NoAccess => OfRequest(req[r], reply.access.sid),
           \A s \in SessionIds : rows'[s] # NoRow => rows'[s] = rows[s]
    PROVE  CookiesInv'
<1>0. TypeInv /\ TypeOK
  BY DEF IInv, TypeInv
<1>1. UnansweredOK
  BY DEF CookiesInv
<1>2. /\ req'[r] # Idle /\ req'[r].phase = "replied" /\ req'[r].reply = reply
      /\ req'[r].browser = req[r].browser /\ req'[r].jti = req[r].jti /\ req'[r].access = req[r].access
      /\ \A q \in Requests \ {r} : req'[q] = req[q]
  BY <1>0, AnswerValues
<1>3. UnansweredOK'
  BY <1>1, <1>2 DEF UnansweredOK, Signed
<1>4. req[r].reply.refresh = NoJti
  BY <1>1 DEF UnansweredOK, Refused
<1>5. \A q \in Requests, j \in Jtis : Brings(q, j)' <=> Brings(q, j)
  BY <1>2, <1>4, NullsAssumption DEF Brings
<1>6. ASSUME NEW b \in Browsers, NEW s \in SessionIds, Holds(b, s)' PROVE Holds(b, s)
  <2>1. CASE jar[b].refresh # NoJti /\ token[jar[b].refresh].sid = s
    BY <2>1 DEF Holds
  <2>2. CASE jar[b].access # NoAccess /\ jar[b].access.sid = s
    BY <2>2 DEF Holds
  <2>3. CASE \E q \in Requests : req'[q] # Idle /\ req'[q].browser = b /\ OfRequest(req[q], s)'
    <3>1. PICK q \in Requests : req'[q] # Idle /\ req'[q].browser = b /\ OfRequest(req[q], s)'
      BY <2>3
    <3>2. CASE q # r
      BY <3>1, <3>2, <1>2 DEF Holds, OfRequest
    <3>3. CASE q = r
      <4>1. OfRequest(req[r], s)
        BY <3>1, <3>3, <1>2 DEF OfRequest
      <4> QED BY <4>1, <3>1, <3>3, <1>2 DEF Holds
    <3> QED BY <3>2, <3>3
  <2> QED BY <1>6, <2>1, <2>2, <2>3 DEF Holds
<1>7. OwnersOK' /\ OnceOK' /\ HeldOK'
  BY <1>2, <1>5, <1>6, NothingNew
<1> QED BY <1>3, <1>7 DEF CookiesInv

\* Of what a request leaves in order when it is sent, let through or lost.
LEMMA SendCookies ==
    ASSUME IInv, CookiesInv, NEW r \in Requests, NEW b \in Browsers, NEW kind \in Endpoints,
           Send(r, b, kind)
    PROVE  CookiesInv'
<1>0. TypeInv /\ TypeOK /\ UnansweredOK /\ req[r] = Idle /\ tx[r] = NoTx
  BY DEF IInv, TypeInv, CookiesInv, Send, Free
<1>1. UNCHANGED <<clock, rows, boundary, token, jar, tx, history, signedIn>>
  BY DEF Send, ghosts
<1>2. PICK j, a : /\ req' = [req EXCEPT ![r] = Fetched(b, kind, j, a)]
                  /\ j # NoJti => j = jar[b].refresh
                  /\ a # NoAccess => a = jar[b].access
  BY DEF Send
<1>3. /\ req'[r] = Fetched(b, kind, j, a)
      /\ \A q \in Requests \ {r} : req'[q] = req[q]
  BY <1>0, <1>2 DEF TypeOK
<1>4. /\ req'[r].browser = b /\ req'[r].jti = j /\ req'[r].access = a /\ req'[r].reply = Refused
      /\ req'[r].reply.access = NoAccess /\ req'[r].reply.refresh = NoJti /\ req'[r].reply.clears = FALSE
  BY <1>3 DEF Fetched, Refused
<1>5. j # NoJti => Signed(j)
  BY <1>0, <1>2, JarFields
<1>6. UnansweredOK'
  BY <1>0, <1>1, <1>3, <1>4, <1>5 DEF UnansweredOK, Signed
<1>7. \A q \in Requests, i \in Jtis : Brings(q, i)' <=> Brings(q, i)
  BY <1>0, <1>3, <1>4, NullsAssumption DEF Brings
<1>8. ASSUME NEW c \in Browsers, NEW s \in SessionIds, Holds(c, s)' PROVE Holds(c, s)
  <2>1. CASE jar[c].refresh # NoJti /\ token[jar[c].refresh].sid = s
    BY <2>1 DEF Holds
  <2>2. CASE jar[c].access # NoAccess /\ jar[c].access.sid = s
    BY <2>2 DEF Holds
  <2>3. CASE \E q \in Requests : req'[q] # Idle /\ req'[q].browser = c /\ OfRequest(req[q], s)'
    <3>1. PICK q \in Requests : req'[q] # Idle /\ req'[q].browser = c /\ OfRequest(req[q], s)'
      BY <2>3
    <3>2. CASE q # r
      BY <3>1, <3>2, <1>1, <1>3 DEF Holds, OfRequest
    <3>3. CASE q = r
      <4>1. c = b
        BY <3>1, <3>3, <1>4
      <4>2. (j # NoJti /\ token[j].sid = s) \/ (a # NoAccess /\ a.sid = s)
        <5>1. OfRequest(req[r], s)'
          BY <3>1, <3>3
        <5>2. token' = token /\ req'[r].jti = j /\ req'[r].access = a /\ req'[r].reply.access = NoAccess
              /\ req'[r].reply.refresh = NoJti
          BY <1>1, <1>4
        <5>3. \/ req'[r].jti # NoJti /\ token'[req'[r].jti].sid = s
              \/ \E v \in {req'[r].access, req'[r].reply.access} : v # NoAccess /\ v.sid = s
              \/ req'[r].reply.refresh # NoJti /\ token'[req'[r].reply.refresh].sid = s
          BY <5>1 DEF OfRequest
        <5> QED BY <5>2, <5>3
      <4> QED BY <4>1, <4>2, <1>2 DEF Holds
    <3> QED BY <3>2, <3>3
  <2> QED BY <1>1, <1>8, <2>1, <2>2, <2>3 DEF Holds
<1>9. ASSUME NEW q \in Requests, req'[q] # Idle, req'[q].jti # NoJti
      PROVE  \/ req[q] # Idle /\ req[q].jti = req'[q].jti
             \/ \E c \in Browsers : jar[c].refresh = req'[q].jti
  BY <1>2, <1>3, <1>4, <1>9
<1>10. OwnersOK' /\ OnceOK' /\ HeldOK'
  BY <1>1, <1>7, <1>8, <1>9, NothingNew
<1> QED BY <1>6, <1>10 DEF CookiesInv

LEMMA LetThroughCookies ==
    ASSUME IInv, CookiesInv, NEW r \in Requests, req[r] # Idle, req[r].phase # "replied",
           NEW x \in Request, req' = [req EXCEPT ![r] = x], x.browser = req[r].browser,
           x.jti = req[r].jti, x.access = req[r].access, x.reply = req[r].reply,
           UNCHANGED <<clock, rows, boundary, token, jar, tx, ghosts>>
    PROVE  CookiesInv'
<1>0. TypeInv /\ TypeOK /\ UnansweredOK /\ req[r] \in Request
  BY DEF IInv, TypeInv, TypeOK, CookiesInv
<1>1. UNCHANGED <<clock, rows, boundary, token, jar, tx, history, signedIn>>
  BY DEF ghosts
<1>2. req'[r] = x /\ \A q \in Requests \ {r} : req'[q] = req[q]
  BY <1>0 DEF TypeOK
<1>3. /\ req'[r].browser = req[r].browser /\ req'[r].jti = req[r].jti
      /\ req'[r].access = req[r].access /\ req'[r].reply = req[r].reply
  BY <1>0, <1>2 DEF Request
<1>a. \A q \in Requests \ {r} : req'[q] = req[q]
  BY <1>2
<1>4. UnansweredOK'
  BY <1>0, <1>1, <1>3, <1>a DEF UnansweredOK, Signed
<1>5. \A q \in Requests : req'[q] # Idle => req[q] # Idle
  BY <1>2
<1>6. req'[r] # Idle
  BY <1>2, NullRecordsAssumption
<1>7. \A q \in Requests, i \in Jtis : Brings(q, i)' <=> Brings(q, i)
  BY <1>2, <1>3, <1>6 DEF Brings
<1>8. ASSUME NEW q \in Requests, NEW s \in SessionIds, OfRequest(req[q], s)' PROVE OfRequest(req[q], s)
  <2>1. CASE q = r
    BY <1>1, <1>3, <1>8, <2>1 DEF OfRequest
  <2>2. CASE q # r
    BY <1>1, <1>a, <1>8, <2>2 DEF OfRequest
  <2> QED BY <2>1, <2>2
<1>9. ASSUME NEW c \in Browsers, NEW s \in SessionIds, Holds(c, s)' PROVE Holds(c, s)
  BY <1>1, <1>2, <1>3, <1>5, <1>8, <1>9 DEF Holds
<1>10. \A q \in Requests : req'[q] # Idle => req[q] # Idle /\ req[q].jti = req'[q].jti
  BY <1>2, <1>3
<1>11. OwnersOK' /\ OnceOK' /\ HeldOK'
  BY <1>1, <1>7, <1>9, <1>10, NothingNew
<1> QED BY <1>4, <1>11 DEF CookiesInv

LEMMA AcceptCookies ==
    ASSUME IInv, CookiesInv, NEW r \in Requests, req[r] # Idle, req[r].phase # "replied", Accept(r)
    PROVE  CookiesInv'
<1>1. PICK x : x = [req[r] EXCEPT !.phase = "verified"]
  OBVIOUS
<1>2. req[r] \in Request /\ req \in [Requests -> Request \cup {Idle}]
  BY DEF IInv, TypeInv, TypeOK
<1>3. /\ x \in Request /\ x.browser = req[r].browser /\ x.jti = req[r].jti
      /\ x.access = req[r].access /\ x.reply = req[r].reply
  BY <1>1, <1>2 DEF Request
<1>4. req' = [req EXCEPT ![r] = x] /\ UNCHANGED <<clock, rows, boundary, token, jar, tx, ghosts>>
  BY <1>1, <1>2 DEF Accept
<1> QED BY <1>3, <1>4, LetThroughCookies

LEMMA JudgedCookies ==
    ASSUME IInv, CookiesInv, NEW r \in Requests, PasswordJudged(r)
    PROVE  CookiesInv'
<1>1. PICK read : read = [at |-> clock, line |-> boundary, expires |-> LifetimeOf(req[r].access.sid)]
  OBVIOUS
<1>2. PICK x : x = [req[r] EXCEPT !.phase = "verified", !.read = read]
  OBVIOUS
<1>3. /\ req[r] # Idle /\ req[r].phase = "sent" /\ req[r] \in Request
      /\ req \in [Requests -> Request \cup {Idle}] /\ req[r].access.sid \in SessionIds
  BY DEF PasswordJudged, Arrived, IInv, TypeInv, TypeOK, RequestsOK, Carries, Access
<1>4. read \in Reading
  BY <1>1, <1>3, LifetimeType DEF Reading, IInv, TypeInv, TypeOK
<1>5. /\ x \in Request /\ x.browser = req[r].browser /\ x.jti = req[r].jti
      /\ x.access = req[r].access /\ x.reply = req[r].reply
  BY <1>2, <1>3, <1>4 DEF Request
<1>6. req' = [req EXCEPT ![r] = x] /\ UNCHANGED <<clock, rows, boundary, token, jar, tx, ghosts>>
  BY <1>1, <1>2, <1>3 DEF PasswordJudged
<1> QED BY <1>3, <1>5, <1>6, LetThroughCookies

LEMMA LoseCookies ==
    ASSUME IInv, CookiesInv, NEW r \in Requests, Lose(r)
    PROVE  CookiesInv'
<1>0. TypeInv /\ TypeOK /\ UnansweredOK /\ req[r] # Idle
  BY DEF IInv, TypeInv, CookiesInv, Lose, Replied
<1>1. UNCHANGED <<clock, rows, boundary, token, jar, tx, signedIn>>
  BY DEF Lose
<1>2. req'[r] = Idle /\ \A q \in Requests \ {r} : req'[q] = req[q]
  BY <1>0 DEF Lose, TypeOK
<1>3. UnansweredOK'
  BY <1>0, <1>1, <1>2 DEF UnansweredOK, Signed
<1>4. PICK t : t = req[r].reply.refresh
  OBVIOUS
<1>5. history' = IF t = NoJti THEN history ELSE [history EXCEPT ![t].lost = TRUE]
  BY <1>4 DEF Lose
<1>6. ASSUME NEW j \in Jtis
      PROVE  /\ history'[j].by = history[j].by /\ history'[j].replaced = history[j].replaced
             /\ history[j].lost => history'[j].lost
             /\ j = t => history'[j].lost
  <2>1. history[j] \in History /\ history \in [Jtis -> History]
    BY <1>0 DEF TypeOK
  <2>2. PICK h : h = history[j]
    OBVIOUS
  <2>3. history'[j] = h \/ history'[j] = [h EXCEPT !.lost = TRUE]
    BY <1>5, <2>1, <2>2
  <2>4. j = t => history'[j] = [h EXCEPT !.lost = TRUE]
    BY <1>5, <2>1, <2>2, NullsAssumption
  <2> QED BY <2>1, <2>2, <2>3, <2>4 DEF History
<1>7. \A q \in Requests, j \in Jtis : Brings(q, j)' => Brings(q, j)
  BY <1>2 DEF Brings
<1>8. \A q \in Requests, j \in Jtis : Brings(q, j) => Brings(q, j)' \/ history'[j].lost
  BY <1>2, <1>4, <1>6 DEF Brings
<1>9. ASSUME NEW c \in Browsers, NEW s \in SessionIds, Holds(c, s)' PROVE Holds(c, s)
  <2>1. \A q \in Requests : req'[q] # Idle => req'[q] = req[q]
    BY <1>2
  <2> QED BY <1>1, <1>9, <2>1 DEF Holds, OfRequest
<1>10. \A q \in Requests : req'[q] # Idle => req[q] # Idle /\ req[q].jti = req'[q].jti
  BY <1>2
<1>11. OwnersOK' /\ OnceOK' /\ HeldOK'
  BY <1>1, <1>6, <1>7, <1>8, <1>9, <1>10, NothingNew
<1> QED BY <1>3, <1>11 DEF CookiesInv

LEMMA CookiesInit == Init => CookiesInv
<1> SUFFICES ASSUME Init PROVE CookiesInv
  OBVIOUS
<1>1. \A b \in Browsers : jar[b].refresh = NoJti /\ jar[b].access = NoAccess
  BY DEF Init, EmptyJar
<1>2. \A r \in Requests : req[r] = Idle
  BY DEF Init
<1> QED BY <1>1, <1>2 DEF CookiesInv, UnansweredOK, OwnersOK, OnceOK, HeldOK, Holds, Brings

LEMMA CookiesStep == IInv /\ CookiesInv /\ [Next]_vars => CookiesInv'
<1> SUFFICES ASSUME IInv, CookiesInv, [Next]_vars PROVE CookiesInv'
  OBVIOUS
<1>a. TypeInv /\ TypeOK /\ UnansweredOK /\ Refused \in Reply /\ Refused.refresh = NoJti /\ Refused.access = NoAccess
  BY NullsAssumption DEF IInv, TypeInv, CookiesInv, Refused, Reply
<1>1. ASSUME UNCHANGED <<rows, token, jar, req, tx, history>> PROVE CookiesInv'
  BY <1>1 DEF CookiesInv, UnansweredOK, OwnersOK, OnceOK, HeldOK, Holds, Brings, OfRequest, Taken,
              Signed, ReplacedBySwitch
<1>2. ASSUME NEW r \in Requests, req[r] # Idle, req[r].phase # "replied", Refuse(r) PROVE CookiesInv'
  BY <1>2, <1>a, AnswerCookies DEF Refuse, ghosts
<1>3. ASSUME NEW r \in Requests, NEW s \in SessionIds, NEW p \in Jtis \cup {NoJti}, req[r] # Idle,
             req[r].phase = "verified", OfRequest(req[r], s), RotateMissed(r, s, p)
      PROVE  CookiesInv'
  <2>1. PICK reply : reply = [access |-> AccessFor(s, clock), refresh |-> NoJti, clears |-> FALSE]
    OBVIOUS
  <2>2. reply \in Reply /\ reply.refresh = NoJti /\ reply.access.sid = s
    BY <1>a, <2>1, AccessForType DEF Reply, AccessFor
  <2>3. Answer(r, reply) /\ UNCHANGED <<token, jar, tx, history, rows>>
    BY <1>3, <2>1 DEF RotateMissed, ghosts
  <2> QED BY <1>3, <2>2, <2>3, AnswerCookies
<1>4. ASSUME NEW s \in SessionIds, End(s) PROVE \A t \in SessionIds : rows'[t] # NoRow => rows'[t] = rows[t]
  BY <1>4, <1>a DEF End, TypeOK
<1>5. ASSUME NEW r \in Requests, req[r] # Idle, req[r].kind \in {"refresh", "logout"}
      PROVE  req[r].jti \in Jtis /\ req[r].jti # NoJti /\ token[req[r].jti].sid \in SessionIds
  BY <1>5, <1>a, NullsAssumption DEF TypeInv, TypeOK, RequestsOK, Carries, Signed, Token
<1>6. ASSUME NEW r \in Requests, req[r] # Idle, req[r].kind \in {"switch", "password"}
      PROVE  req[r].access \in Access /\ req[r].access # NoAccess /\ req[r].access.sid \in SessionIds
  BY <1>6, <1>a, NullRecordsAssumption DEF TypeInv, RequestsOK, Carries, Access
<1>7. ASSUME NEW r \in Requests, NEW b \in Browsers, Login(r, b) PROVE CookiesInv'
  <2>1. PICK s \in SessionIds, j \in Jtis :
          /\ Begin(r, s, j, clock, LifetimeOf(NoSession), Never, Never, "login", clock)
          /\ req' = [req EXCEPT ![r] =
                      [Fetched(b, "login", NoJti, NoAccess) EXCEPT
                         !.phase = "replied",
                         !.reply = [access |-> AccessFor(s, clock), refresh |-> j, clears |-> FALSE]]]
    BY <1>7 DEF Login
  <2>2. LifetimeOf(NoSession) \in Nat /\ clock \in Time /\ req[r] = Idle
    BY <1>7, <1>a, LifetimeType DEF TypeOK, Login, Free
  <2>3. PICK reply : reply = [access |-> AccessFor(s, clock), refresh |-> j, clears |-> FALSE]
    OBVIOUS
  <2>0. reply \in Reply
    BY <1>a, <2>3, AccessForType DEF Reply
  <2>4. /\ req'[r] = [Fetched(b, "login", NoJti, NoAccess) EXCEPT !.phase = "replied", !.reply = reply]
        /\ \A q \in Requests \ {r} : req'[q] = req[q]
    BY <1>a, <2>1, <2>3 DEF TypeOK
  <2>5. /\ req'[r] \in Request /\ req'[r].phase = "replied" /\ req'[r].reply = reply
        /\ req'[r].jti = NoJti /\ req'[r].access = NoAccess /\ req'[r].browser = b
    BY <2>0, <2>4, NothingReadType DEF Fetched, Request, Endpoints
  <2>6. req'[r] # Idle
    BY <2>5, NullRecordsAssumption
  <2>7. UNCHANGED <<clock, rows, boundary, jar>>
    BY <1>7 DEF Login
  <2> QED BY <2>1, <2>2, <2>3, <2>4, <2>5, <2>6, <2>7, BeginCookies
<1>8. ASSUME NEW r \in Requests, PasswordWrites(r) PROVE CookiesInv'
  <2>1. PICK s \in SessionIds, j \in Jtis, at \in Time, e \in Nat, since \in Time :
          /\ Begin(r, s, j, at, e, at, req[r].read.line, "password", since)
          /\ Answer(r, [access |-> AccessFor(s, at), refresh |-> j, clears |-> FALSE])
    BY <1>a, <1>8, PasswordBegins DEF CookiesInv, IInv
  <2>2. /\ req[r] # Idle /\ req[r].phase = "verified" /\ req[r].kind = "password"
        /\ req[r].read.line \in Time \cup {Never} /\ UNCHANGED <<clock, rows, boundary, jar>>
    BY <1>a, <1>8, PasswordBegins DEF Reading
  <2>4. PICK reply : reply = [access |-> AccessFor(s, at), refresh |-> j, clears |-> FALSE]
    OBVIOUS
  <2>0. reply \in Reply
    BY <1>a, <2>4, AccessForType DEF Reply
  <2>5. /\ req'[r] # Idle /\ req'[r].phase = "replied" /\ req'[r].reply = reply
        /\ req'[r].browser = req[r].browser /\ req'[r].jti = req[r].jti /\ req'[r].access = req[r].access
        /\ \A q \in Requests \ {r} : req'[q] = req[q]
    BY <1>a, <2>0, <2>1, <2>2, <2>4, AnswerValues
  <2>6. req[r].browser \in Browsers
    BY <1>a, <2>2, RequestFields
  <2>7. PICK seen \in Time \cup {Never} : seen = req[r].read.line
    BY <2>2
  <2> QED BY <2>1, <2>2, <2>4, <2>5, <2>6, <2>7, BeginCookies
<1>9. ASSUME NEW r \in Requests, Handle(r) PROVE CookiesInv'
  <2>1. CASE RefreshRefused(r) \/ PasswordRefused(r) \/ PasswordConflicts(r)
    BY <2>1, <1>2 DEF RefreshRefused, PasswordRefused, PasswordConflicts, Arrived, Verified
  <2>2. CASE RefreshReused(r)
    <3>1. PICK s : s = token[req[r].jti].sid
      OBVIOUS
    <3>2. req[r] # Idle /\ req[r].phase = "sent" /\ End(s) /\ Answer(r, Refused)
          /\ UNCHANGED <<token, jar, tx, history>> /\ s \in SessionIds
      BY <2>2, <1>5, <3>1 DEF RefreshReused, Arrived, ghosts
    <3>3. \A t \in SessionIds : rows'[t] # NoRow => rows'[t] = rows[t]
      BY <1>4, <3>2
    <3> QED BY <1>a, <3>2, <3>3, AnswerCookies
  <2>3. CASE RefreshVerified(r)
    BY <2>3, AcceptCookies DEF RefreshVerified, Arrived
  <2>4. CASE RefreshWrites(r)
    <3>1. PICK j, s : j = req[r].jti /\ s = token[j].sid
      OBVIOUS
    <3>2. /\ req[r] # Idle /\ req[r].phase = "verified" /\ s \in SessionIds /\ j \in Jtis /\ j # NoJti
          /\ (\E k \in Jtis : Rotate(r, s, j, k)) \/ RotateMissed(r, s, j)
      BY <2>4, <1>5, <3>1 DEF RefreshWrites, Verified
    <3>3. OfRequest(req[r], s)
      BY <3>1, <3>2 DEF OfRequest
    <3> QED BY <1>3, <3>1, <3>2, <3>3, RotationCookies
  <2>5. CASE SwitchChecked(r)
    BY <2>5, <1>2, AcceptCookies DEF SwitchChecked, Arrived
  <2>6. CASE SwitchWrites(r)
    <3>1. PICK s : s = req[r].access.sid
      OBVIOUS
    <3>2. /\ req[r] # Idle /\ req[r].phase = "verified" /\ req[r].kind = "switch" /\ s \in SessionIds
          /\ (\E k \in Jtis : Rotate(r, s, NoJti, k)) \/ RotateMissed(r, s, NoJti)
          /\ req[r].access # NoAccess
      BY <2>6, <1>6, <3>1 DEF SwitchWrites, Verified
    <3>3. OfRequest(req[r], s)
      BY <3>1, <3>2 DEF OfRequest
    <3> QED BY <1>3, <3>2, <3>3, RotationCookies
  <2>7. CASE Logout(r)
    <3>1. PICK s, reply : s = token[req[r].jti].sid /\ reply = [Refused EXCEPT !.clears = TRUE]
      OBVIOUS
    <3>2. reply \in Reply /\ reply.refresh = NoJti /\ reply.access = NoAccess
      BY <1>a, <3>1 DEF Reply, Refused
    <3>3. /\ req[r] # Idle /\ req[r].phase = "sent" /\ s \in SessionIds /\ Answer(r, reply)
          /\ (End(s) \/ rows' = rows) /\ UNCHANGED <<token, jar, tx, history>>
      BY <2>7, <1>5, <3>1 DEF Logout, Arrived, ghosts
    <3>4. \A t \in SessionIds : rows'[t] # NoRow => rows'[t] = rows[t]
      BY <1>4, <3>3
    <3> QED BY <3>2, <3>3, <3>4, AnswerCookies
  <2>8. CASE PasswordWrites(r)
    BY <2>8, <1>8
  <2>9. CASE PasswordJudged(r)
    BY <2>9, JudgedCookies
  <2> QED BY <1>9, <2>1, <2>2, <2>3, <2>4, <2>5, <2>6, <2>7, <2>8, <2>9 DEF Handle
<1>10. CASE UNCHANGED vars
  BY <1>1, <1>10 DEF vars
<1>11. CASE Tick
  BY <1>1, <1>11 DEF Tick, ghosts
<1>12. ASSUME NEW r \in Requests, NEW b \in Browsers, NEW kind \in Endpoints, Send(r, b, kind) PROVE CookiesInv'
  BY <1>12, SendCookies
<1>13. ASSUME NEW r \in Requests, Commit(r) \/ Deliver(r) \/ Lose(r) PROVE CookiesInv'
  BY <1>13, CommitCookies, DeliverCookies, LoseCookies
<1> QED BY <1>7, <1>9, <1>10, <1>11, <1>12, <1>13 DEF Next

LEMMA CookiesInductive == Spec => []CookiesInv
<1>1. Init => CookiesInv
  BY CookiesInit
<1>2. IInv /\ CookiesInv /\ [Next]_vars => CookiesInv'
  BY CookiesStep
<1> QED BY <1>1, <1>2, Inductive, PTL DEF Spec

-----------------------------------------------------------------------------
(***************************************************************************)
(* The refinement of SignIns.  A sign-in is open when its row is committed,  *)
(* and closed when the row is gone again; a step of the requests either      *)
(* changes nothing of that or is one of the three steps of SignIns.         *)
(***************************************************************************)
States == [s \in SessionIds |-> StateOf(s)]
Holders == [s \in SessionIds |-> IF rows[s] # NoRow THEN rows[s].current ELSE NoJti]
SpentOnes == {j \in Jtis : Spent(j)}
Stutters == UNCHANGED <<States, Holders, SpentOnes>>

\* An open transaction stays as it is until it is committed.
LEMMA TransactionsStay ==
    ASSUME TypeInv, UnansweredOK, [Next]_vars, NEW q \in Requests, tx[q] # NoTx
    PROVE  tx'[q] = tx[q] \/ Commit(q)
<1>1. tx \in [Requests -> Tx \cup {NoTx}]
  BY DEF TypeInv, TypeOK
<1>2. ASSUME NEW r \in Requests, NEW s, NEW j, NEW at, NEW e, NEW line, NEW seen, NEW kind, NEW since,
             Begin(r, s, j, at, e, line, seen, kind, since), r # q
      PROVE  tx'[q] = tx[q]
  BY <1>1, <1>2 DEF Begin
<1>3. ASSUME NEW r \in Requests, NEW b \in Browsers, Login(r, b) PROVE tx'[q] = tx[q]
  BY <1>2, <1>3 DEF Login, Free
<1>4. ASSUME NEW r \in Requests, PasswordWrites(r) PROVE tx'[q] = tx[q]
  <2>1. req[r] # Idle /\ req[r].phase = "verified"
        /\ \E s, j, at, e, since : Begin(r, s, j, at, e, at, req[r].read.line, "password", since)
    BY <1>4, PasswordBegins
  <2>2. r # q
    BY <2>1 DEF UnansweredOK
  <2> QED BY <1>2, <2>1, <2>2
<1>5. ASSUME NEW r \in Requests, Commit(r) PROVE tx'[q] = tx[q] \/ Commit(q)
  BY <1>1, <1>5 DEF Commit
<1>6. ASSUME NEW r \in Requests, Handle(r), ~PasswordWrites(r) PROVE tx'[q] = tx[q]
  BY <1>6 DEF Handle, RefreshRefused, RefreshReused, RefreshVerified, RefreshWrites, SwitchChecked,
              SwitchWrites, Logout, PasswordRefused, PasswordJudged, PasswordConflicts, Refuse, Accept, Rotate, RotateMissed
<1> QED BY <1>3, <1>4, <1>5, <1>6 DEF Next, Send, Deliver, Lose, Tick, vars

LEMMA InitAbstract == Init => Abstract!Init
<1> SUFFICES ASSUME Init PROVE Abstract!Init
  OBVIOUS
<1>1. \A j \in Jtis : token[j].sid = NoSession /\ history[j].retired = Never
  BY DEF Init, Unsigned, NoHistory
<1>2. \A s \in SessionIds : rows[s] = NoRow /\ ~Taken(s)
  BY <1>1, NullsAssumption DEF Init, Taken
<1>3. \A j \in Jtis : ~Spent(j)
  BY <1>1 DEF Spent, Signed
<1> QED BY <1>2, <1>3 DEF Abstract!Init, StateOf

\* The sign-ins and their tokens are as they were when these are.
LEMMA SameAbstract ==
    ASSUME \A s \in SessionIds : StateOf(s)' = StateOf(s),
           \A s \in SessionIds : \/ rows'[s] = NoRow /\ rows[s] = NoRow
                                 \/ rows'[s] # NoRow /\ rows[s] # NoRow /\ rows'[s].current = rows[s].current,
           \A j \in Jtis : Spent(j)' <=> Spent(j)
    PROVE  Stutters
BY DEF Stutters, States, Holders, SpentOnes

LEMMA QuietAbstract == IInv /\ (Waiting \/ Passing \/ Losing) => Stutters
<1> SUFFICES ASSUME IInv, Waiting \/ Passing \/ Losing PROVE Stutters
  OBVIOUS
<1>1. UNCHANGED <<rows, token, tx>>
  BY DEF Waiting, Passing, Losing
<1>2. \A j \in Jtis : history'[j].retired = history[j].retired
  <2>1. CASE Waiting \/ Passing
    BY <2>1 DEF Waiting, Passing
  <2>2. CASE Losing
    <3>1. \A j \in Jtis : history[j] \in History
      BY DEF IInv, TypeInv, TypeOK
    <3>2. \A h \in History : [h EXCEPT !.lost = TRUE].retired = h.retired
      BY DEF History
    <3> QED BY <2>2, <3>1, <3>2 DEF Losing, IInv, TypeInv, TypeOK
  <2> QED BY <2>1, <2>2
<1>3. \A s \in SessionIds : StateOf(s)' = StateOf(s)
  BY <1>1 DEF StateOf, Taken, Pending
<1>4. ASSUME NEW j \in Jtis PROVE Spent(j)' <=> Spent(j)
  BY <1>1, <1>2 DEF Spent, Signed, StateOf, Taken, Pending
<1> QED BY <1>1, <1>3, <1>4, SameAbstract

LEMMA BeginningAbstract == IInv /\ UnansweredOK /\ [Next]_vars /\ Beginning => Stutters
<1> SUFFICES ASSUME IInv, UnansweredOK, [Next]_vars,
                    NEW r \in Requests, NEW s \in SessionIds, NEW k \in Jtis,
                    NEW at \in Time, NEW e \in Nat, NEW seen \in Time \cup {Never},
                    NEW line \in Time \cup {Never}, NEW kind \in Endpoints, NEW since \in Time,
                    Begin(r, s, k, at, e, line, seen, kind, since), UNCHANGED <<clock, rows>>
             PROVE  Stutters
  BY DEF Beginning
<1>0. TypeInv /\ TypeOK /\ TypeInv'
  BY NextTypeInv DEF IInv, TypeInv
<1>1. /\ ~Taken(s) /\ ~Signed(k) /\ Signed(k)' /\ token'[k].sid = s
      /\ \A j \in Jtis \ {k} : token'[j] = token[j]
  <2>1. ~Taken(s) /\ ~Signed(k) /\ Sign(k, s, at, e)
    BY DEF Begin
  <2>2. /\ Signed(k)' /\ token'[k] = [sid |-> s, iat |-> at, exp |-> e]
        /\ \A j \in Jtis \ {k} : token'[j] = token[j]
    BY <1>0, <2>1, SignKeeps
  <2> QED BY <2>1, <2>2
<1>2. tx'[r] \in Tx /\ tx'[r].sid = s /\ \A q \in Requests \ {r} : tx'[q] = tx[q]
  <2>1. tx'[r].sid = s /\ \A q \in Requests \ {r} : tx'[q] = tx[q]
    BY <1>0 DEF Begin, TypeOK
  <2>2. tx'[r] = [sid |-> s, boundary |-> line, seen |-> seen, began |-> at,
                  row |-> [current |-> k, previous |-> NoJti, rotated |-> Never, expires |-> e]]
    BY <1>0 DEF Begin, TypeOK
  <2>3. [current |-> k, previous |-> NoJti, rotated |-> Never, expires |-> e] \in Row
    BY DEF Row
  <2> QED BY <1>0, <2>1, <2>2, <2>3 DEF Tx, TypeOK
<1>3. tx'[r] # NoTx
  BY <1>2, NullRecordsAssumption
<1>4. tx[r] = NoTx
  <2> SUFFICES ASSUME tx[r] # NoTx PROVE FALSE
    OBVIOUS
  <2>1. tx'[r] = tx[r] \/ Commit(r)
    BY <1>0, TransactionsStay
  <2>2. ~Commit(r)
    BY <1>1 DEF Commit, Signed
  <2>3. tx[r] \in Tx /\ token[tx[r].row.current].sid = tx[r].sid
    BY <1>0 DEF TypeOK, IInv, TxOK
  <2> QED BY <1>1, <1>2, <2>1, <2>2, <2>3 DEF Taken, Tx, Row
<1>5. rows[s] = NoRow
  <2>1. rows[s] # NoRow => rows[s].current \in Jtis /\ token[rows[s].current].sid = s
    BY <1>0, SignedFields DEF IInv, RowsOK
  <2> QED BY <1>1, <2>1 DEF Taken
<1>6. StateOf(s) = "none" /\ StateOf(s)' = "none"
  BY <1>1, <1>2, <1>3, <1>5 DEF StateOf, Pending
<1>7. ASSUME NEW t \in SessionIds, t # s PROVE StateOf(t)' = StateOf(t)
  <2>1. Taken(t)' <=> Taken(t)
    BY <1>1, <1>7, NullsAssumption DEF Taken, Signed
  <2>2. Pending(t)' <=> Pending(t)
    BY <1>2, <1>3, <1>4, <1>7 DEF Pending
  <2> QED BY <2>1, <2>2 DEF StateOf
<1>8. \A t \in SessionIds : StateOf(t)' = StateOf(t)
  BY <1>6, <1>7
<1>9. history[k].retired = Never /\ \A j \in Jtis : history'[j].retired = history[j].retired
  <2>1. \A j \in Jtis : history[j] \in History /\ (~Signed(j) => history[j] = NoHistory)
    BY <1>0 DEF TypeOK, IInv, HistoryOK
  <2>2. history[k].retired = Never
    BY <1>1, <2>1 DEF NoHistory
  <2>3. \A h \in History : [h EXCEPT !.by = kind].retired = h.retired
    BY DEF History
  <2> QED BY <1>0, <2>1, <2>2, <2>3 DEF Begin, TypeOK
<1>10. ASSUME NEW j \in Jtis PROVE Spent(j)' <=> Spent(j)
  <2>1. CASE j = k
    BY <1>1, <1>6, <1>9, <2>1 DEF Spent
  <2>2. CASE j # k
    <3>1. token'[j] = token[j] /\ history'[j].retired = history[j].retired /\ (Signed(j)' <=> Signed(j))
      BY <1>1, <1>9, <2>2 DEF Signed
    <3>2. PICK t : t = token[j].sid
      OBVIOUS
    <3>3. Signed(j) => StateOf(t)' = StateOf(t)
      BY <1>0, <1>8, <3>2, SignedFields
    <3>4. Signed(j) => (StateOf(token[j].sid)' = "closed" <=> StateOf(token[j].sid) = "closed")
      BY <3>1, <3>2, <3>3 DEF StateOf, Taken, Pending
    <3> QED BY <3>1, <3>4 DEF Spent
  <2> QED BY <2>1, <2>2
<1> QED BY <1>8, <1>10, SameAbstract

\* The token of a sign-in tells which one, before a step and after it.
LEMMA SpentOf ==
    ASSUME NEW j \in Jtis, NEW s, token[j].sid = s, Signed(j)
    PROVE  Spent(j) <=> history[j].retired # Never \/ StateOf(s) = "closed"
BY DEF Spent

LEMMA RowFields ==
    ASSUME TypeInv, RowsOK, NEW s \in SessionIds, rows[s] # NoRow
    PROVE  rows[s].current \in Jtis /\ token[rows[s].current].sid = s /\ Signed(rows[s].current)
<1>1. rows[s] \in Row
  BY DEF TypeInv, TypeOK
<1> QED BY <1>1, NullsAssumption DEF Row, RowsOK, Signed

LEMMA EndingAbstract ==
    ASSUME IInv, TypeInv', Ending
    PROVE  Stutters \/ \E s \in SessionIds : Abstract!Close({s})
<1>1. PICK s \in SessionIds : End(s) /\ UNCHANGED <<clock, token, tx, history, signedIn>>
  BY DEF Ending
<1>0. TypeInv /\ TypeOK /\ RowsOK /\ TxOK
  BY DEF IInv, TypeInv
<1>2. rows'[s] = NoRow /\ \A t \in SessionIds \ {s} : rows'[t] = rows[t]
  BY <1>0, <1>1 DEF End, TypeOK
<1>3. \A t \in SessionIds : (Taken(t)' <=> Taken(t)) /\ (Pending(t)' <=> Pending(t))
  BY <1>1 DEF Taken, Pending
<1>4. \A t \in SessionIds \ {s} : StateOf(t)' = StateOf(t)
  BY <1>2, <1>3 DEF StateOf
<1>5. CASE rows[s] = NoRow
  <2>1. \A t \in SessionIds : rows'[t] = rows[t]
    BY <1>2, <1>5
  <2>2. \A t \in SessionIds : StateOf(t)' = StateOf(t)
    BY <2>1, <1>3 DEF StateOf
  <2>3. \A j \in Jtis : Signed(j) => StateOf(token[j].sid)' = StateOf(token[j].sid)
    BY <2>1, <1>0, <1>1, SignedFields DEF StateOf, Taken, Pending
  <2>4. \A j \in Jtis : Spent(j)' <=> Spent(j)
    BY <2>3, <1>1 DEF Spent, Signed
  <2> QED BY <2>1, <2>2, <2>4, SameAbstract
<1>6. CASE rows[s] # NoRow
  <2>1. PICK c : c = rows[s].current
    OBVIOUS
  <2>2. c \in Jtis /\ token[c].sid = s /\ Signed(c)
    BY <2>1, <1>0, <1>6, RowFields
  <2>3. Taken(s) /\ ~Pending(s)
    BY <2>2, <1>0, <1>6 DEF Taken, Pending, TxOK
  <2>4. StateOf(s) = "open" /\ StateOf(s)' = "closed"
    BY <2>3, <1>2, <1>3, <1>6 DEF StateOf
  <2>5. ASSUME NEW j \in Jtis, Spent(j) PROVE Spent(j)'
    <3>1. PICK t : t = token[j].sid
      OBVIOUS
    <3>2. (Signed(j)' <=> Signed(j)) /\ (history[j].retired # Never => Spent(j)')
      BY <1>1 DEF Signed, Spent
    <3>3. ASSUME Signed(j), StateOf(t) = "closed" PROVE StateOf(t)' = "closed"
      BY <3>1, <3>3, <2>4, <1>0, <1>4, SignedFields
    <3>4. CASE Signed(j) /\ StateOf(t) = "closed"
      BY <3>1, <3>2, <3>3, <3>4, <1>1 DEF Spent, StateOf, Taken, Pending
    <3> QED BY <2>5, <3>1, <3>2, <3>4 DEF Spent
  <2>6. Spent(c)'
    <3>1. token'[c].sid = s /\ Signed(c)'
      BY <2>2, <1>1 DEF Signed
    <3> QED BY <3>1, <2>4 DEF Spent, StateOf, Taken, Pending
  <2>7. /\ States[s] = "open" /\ Holders[s] = c
        /\ States' = [t \in SessionIds |-> IF t \in {} THEN "open" ELSE IF t \in {s} THEN "closed" ELSE States[t]]
        /\ Holders' = [t \in SessionIds |-> IF t \in {} THEN NoJti ELSE IF t \in {s} THEN NoJti ELSE Holders[t]]
    BY <2>1, <2>4, <1>2, <1>4, <1>6 DEF States, Holders
  <2>8. SpentOnes \subseteq SpentOnes' /\ SpentOnes' \subseteq Jtis /\ c \in SpentOnes'
    BY <2>2, <2>5, <2>6 DEF SpentOnes
  <2>9. Abstract!Close({s})
    BY <2>7, <2>8 DEF Abstract!Close, Abstract!CloseAll, States, Holders, SpentOnes
  <2> QED BY <2>9
<1> QED BY <1>5, <1>6

LEMMA CommitAbstract ==
    ASSUME IInv, TypeInv', NEW r \in Requests, Commit(r)
    PROVE  \E s \in SessionIds, j \in Jtis, gone \in SUBSET SessionIds : Abstract!Open(s, j, gone)
<1>0. TypeInv /\ TypeOK /\ RowsOK /\ TxOK
  BY DEF IInv, TypeInv
<1>1. PICK s, j : s = tx[r].sid /\ j = tx[r].row.current
  OBVIOUS
<1>2. /\ tx[r] \in Tx /\ s \in SessionIds /\ j \in Jtis /\ tx[r].row \in Row /\ tx[r] # NoTx
      /\ token[j].sid = s /\ history[j].retired = Never /\ rows[s] = NoRow
      /\ \A q \in Requests \ {r} : tx[q] # NoTx => tx[q].sid # s
  BY <1>0, <1>1 DEF Commit, TypeOK, TxOK, Tx, Row
<1>3. /\ UNCHANGED <<token, history>> /\ tx' = [tx EXCEPT ![r] = NoTx]
      /\ \A t \in SessionIds : rows'[t] = IF t = s THEN tx[r].row
                                          ELSE IF rows[t] # NoRow /\ rows[t].expires < tx[r].began THEN NoRow
                                          ELSE rows[t]
  BY <1>1 DEF Commit, ghosts
<1>4. /\ rows'[s] # NoRow /\ rows'[s].current = j
      /\ \A t \in SessionIds \ {s} : rows'[t] = rows[t] \/ rows'[t] = NoRow
  BY <1>1, <1>2, <1>3, NullRecordsAssumption
<1>5. \A t \in SessionIds : (Taken(t)' <=> Taken(t)) /\ (t # s => (Pending(t)' <=> Pending(t)))
  BY <1>0, <1>1, <1>3 DEF Taken, Pending, TypeOK
<1>6. Pending(s)
  BY <1>1, <1>2 DEF Pending
<1>7. StateOf(s) = "none" /\ StateOf(s)' = "open"
  BY <1>2, <1>4, <1>6 DEF StateOf
<1>8. PICK gone : gone = {t \in SessionIds \ {s} : rows[t] # NoRow /\ rows'[t] = NoRow}
  OBVIOUS
<1>9. ASSUME NEW t \in gone
      PROVE  /\ StateOf(t) = "open" /\ StateOf(t)' = "closed" /\ rows[t].current \in Jtis
             /\ token[rows[t].current].sid = t
  <2>1. t \in SessionIds /\ t # s /\ rows[t] # NoRow /\ rows'[t] = NoRow
    BY <1>8
  <2>2. rows[t].current \in Jtis /\ token[rows[t].current].sid = t
    BY <2>1, <1>0, RowFields
  <2>3. Taken(t) /\ ~Pending(t)
    BY <2>1, <2>2, <1>0 DEF Taken, Pending, TxOK
  <2> QED BY <2>1, <2>2, <2>3, <1>5 DEF StateOf
<1>10. ASSUME NEW t \in SessionIds, t # s, t \notin gone
       PROVE  StateOf(t)' = StateOf(t) /\ rows'[t] = rows[t]
  BY <1>4, <1>5, <1>8, <1>10 DEF StateOf
<1>11. \A t \in SessionIds : StateOf(t) = "closed" => StateOf(t)' = "closed"
  BY <1>7, <1>9, <1>10
<1>12. ASSUME NEW i \in Jtis, NEW t \in SessionIds, token[i].sid = t
       PROVE  (Spent(i) <=> history[i].retired # Never \/ StateOf(t) = "closed")
              /\ (Spent(i)' <=> history[i].retired # Never \/ StateOf(t)' = "closed")
  <2>1. Signed(i) /\ Signed(i)' /\ token' = token /\ history' = history
    BY <1>3, <1>12, <1>0, SignedFields DEF Signed
  <2> QED BY <2>1, <1>12 DEF Spent, StateOf, Taken, Pending
<1>13. ASSUME NEW i \in Jtis, Spent(i) PROVE Spent(i)'
  <2>1. CASE Signed(i)
    BY <2>1, <1>0, <1>11, <1>12, <1>13, SignedFields
  <2>2. CASE ~Signed(i)
    BY <2>2, <1>3, <1>13 DEF Spent, Signed
  <2> QED BY <2>1, <2>2
<1>14. ~Spent(j) /\ ~Spent(j)'
  BY <1>2, <1>7, <1>12
<1>15. \A t \in SessionIds : Holders[t] # j
  BY <1>0, <1>2, NullsAssumption DEF Holders, RowsOK
<1>16. \A t \in gone : States[t] = "open" /\ Holders[t] \in SpentOnes'
  <2> SUFFICES ASSUME NEW t \in gone PROVE States[t] = "open" /\ Holders[t] \in SpentOnes'
    OBVIOUS
  <2>1. t \in SessionIds /\ rows[t] # NoRow
    BY <1>8
  <2>2. PICK c : c = rows[t].current
    OBVIOUS
  <2>3. c \in Jtis /\ token[c].sid = t /\ StateOf(t) = "open" /\ StateOf(t)' = "closed"
    BY <2>2, <1>9
  <2>4. Spent(c)'
    BY <2>1, <2>3, <1>12
  <2>5. Holders[t] = c
    BY <2>1, <2>2 DEF Holders
  <2> QED BY <2>1, <2>3, <2>4, <2>5 DEF States, SpentOnes
<1>17. States' = [t \in SessionIds |-> IF t \in {s} THEN "open" ELSE IF t \in gone THEN "closed" ELSE States[t]]
  BY <1>7, <1>9, <1>10 DEF States
<1>18. Holders' = [t \in SessionIds |-> IF t \in {s} THEN j ELSE IF t \in gone THEN NoJti ELSE Holders[t]]
  BY <1>4, <1>8, <1>10 DEF Holders
<1>19. SpentOnes \subseteq SpentOnes' /\ SpentOnes' \subseteq Jtis /\ j \notin SpentOnes /\ j \notin SpentOnes'
  BY <1>13, <1>14 DEF SpentOnes
<1>20. States[s] = "none"
  BY <1>2, <1>7 DEF States
<1>21. Abstract!Open(s, j, gone)
  BY <1>15, <1>16, <1>17, <1>18, <1>19, <1>20
     DEF Abstract!Open, Abstract!New, Abstract!CloseAll, States, Holders, SpentOnes
<1>22. gone \in SUBSET SessionIds
  BY <1>8
<1> QED BY <1>2, <1>21, <1>22

LEMMA RotationAbstract ==
    ASSUME IInv, TypeInv', Rotation
    PROVE  \E s \in SessionIds, k \in Jtis : Abstract!Exchange(s, k)
<1>1. PICK r \in Requests, s \in SessionIds, p \in Jtis \cup {NoJti}, k \in Jtis :
        req[r] \in Request /\ Rotate(r, s, p, k)
  BY DEF Rotation
<1>2. PICK old : old = rows[s].current
  OBVIOUS
<1>3. RotateValues(r, s, p, k, old)
  BY <1>1, <1>2, RotateHasValues
<1>0. TypeInv /\ TypeOK /\ RowsOK
  BY DEF IInv, TypeInv
<1>4. /\ rows[s] # NoRow /\ rows[s].current = old /\ old \in Jtis /\ old # k /\ ~Signed(k)
      /\ Signed(k)' /\ token'[k].sid = s /\ tx' = tx
      /\ \A t \in SessionIds \ {s} : rows'[t] = rows[t]
      /\ \A j \in Jtis \ {k} : token'[j] = token[j]
  BY <1>3 DEF RotateValues
<1>5. rows'[s] # NoRow /\ rows'[s].current = k
  <2>1. rows'[s] = Rotated(rows[s], k, LifetimeOf(s)) /\ rows[s] \in Row /\ LifetimeOf(s) \in Nat /\ clock \in Time
    BY <1>3 DEF RotateValues
  <2>2. Rotated(rows[s], k, LifetimeOf(s)) \in Row
    BY <2>1 DEF Rotated, Row
  <2>3. rows'[s] # NoRow
    BY <2>1, <2>2, NullRecordsAssumption
  <2>4. rows'[s].current = k
    BY <2>1 DEF Rotated
  <2> QED BY <2>3, <2>4
<1>6. /\ history[k].retired = Never /\ history'[k].retired = Never /\ history'[old].retired # Never
      /\ \A j \in Jtis \ {k, old} : history'[j].retired = history[j].retired
  <2>1. history[k] = NoHistory /\ history[old] \in History /\ clock \in Time
    BY <1>0, <1>4 DEF IInv, HistoryOK, TypeOK
  <2>2. history'[k].retired = Never
    BY <1>3 DEF RotateValues, NoHistory
  <2>3. history'[old].retired = clock
    BY <1>3, <2>1 DEF RotateValues, History
  <2>4. clock # Never
    BY <2>1, TimesAssumption DEF Time, Never
  <2> QED BY <1>3, <2>1, <2>2, <2>3, <2>4 DEF RotateValues, NoHistory
<1>7. token[old].sid = s /\ Signed(old)
  BY <1>0, <1>4, RowFields
<1>8. ASSUME NEW t \in SessionIds PROVE StateOf(t)' = StateOf(t)
  <2>1. CASE t = s
    BY <2>1, <1>4, <1>5 DEF StateOf
  <2>2. CASE t # s
    <3>1. Taken(t)' <=> Taken(t)
      BY <2>2, <1>4, NullsAssumption DEF Taken, Signed
    <3> QED BY <2>2, <3>1, <1>4 DEF StateOf, Pending
  <2> QED BY <2>1, <2>2
<1>9. StateOf(s) = "open" /\ StateOf(s)' = "open"
  BY <1>4, <1>5 DEF StateOf
<1>10. ~Spent(k) /\ ~Spent(k)'
  <2>1. ~Spent(k)
    BY <1>4, <1>6 DEF Spent
  <2>2. token'[k].sid = s /\ history'[k].retired = Never
    BY <1>4, <1>6
  <2> QED BY <2>1, <2>2, <1>9 DEF Spent, StateOf, Taken, Pending
<1>11. Spent(old)'
  BY <1>6 DEF Spent
<1>12. ASSUME NEW j \in Jtis, j # k, j # old PROVE Spent(j)' <=> Spent(j)
  <2>1. token'[j] = token[j] /\ history'[j].retired = history[j].retired /\ (Signed(j)' <=> Signed(j))
    BY <1>4, <1>6, <1>12 DEF Signed
  <2>2. PICK t : t = token[j].sid
    OBVIOUS
  <2>3. Signed(j) => StateOf(t)' = StateOf(t)
    BY <1>0, <1>8, <2>2, SignedFields
  <2>4. Signed(j) => (StateOf(token[j].sid)' = "closed" <=> StateOf(token[j].sid) = "closed")
    BY <2>1, <2>2, <2>3 DEF StateOf, Taken, Pending
  <2> QED BY <2>1, <2>4 DEF Spent
<1>13. /\ States[s] = "open" /\ Holders[s] = old /\ States' = States
       /\ Holders' = [Holders EXCEPT ![s] = k]
  BY <1>4, <1>5, <1>8, <1>9 DEF States, Holders
<1>14. SpentOnes' = SpentOnes \cup {old} /\ k \notin SpentOnes
  BY <1>4, <1>10, <1>11, <1>12 DEF SpentOnes
<1>15. \A t \in SessionIds : Holders[t] # k
  BY <1>0, <1>4, RowFields, NullsAssumption DEF Holders
<1>16. Abstract!Exchange(s, k)
  BY <1>13, <1>14, <1>15 DEF Abstract!Exchange, Abstract!New, States, Holders, SpentOnes
<1> QED BY <1>16

LEMMA StepAbstract ==
    ASSUME IInv, CookiesInv, [Next]_vars
    PROVE  Stutters \/ Abstract!Next
<1>1. TypeInv /\ TypeInv' /\ UnansweredOK /\ LifetimesOK /\ ReadingsOK
  BY NextTypeInv DEF IInv, CookiesInv
<1>2. Effect
  BY <1>1, StepEffect
<1>3. CASE Waiting \/ Passing \/ Losing
  BY <1>3, QuietAbstract
<1>4. CASE Beginning
  BY <1>1, <1>4, BeginningAbstract
<1>5. CASE Ending
  <2>1. Stutters \/ \E s \in SessionIds : Abstract!Close({s})
    BY <1>1, <1>5, EndingAbstract
  <2>2. ASSUME NEW s \in SessionIds, Abstract!Close({s}) PROVE Abstract!Next
    BY <2>2 DEF Abstract!Next
  <2> QED BY <2>1, <2>2
<1>6. ASSUME NEW r \in Requests, Commit(r) PROVE Abstract!Next
  BY <1>1, <1>6, CommitAbstract DEF Abstract!Next
<1>7. CASE Rotation
  BY <1>1, <1>7, RotationAbstract DEF Abstract!Next
<1> QED BY <1>2, <1>3, <1>4, <1>5, <1>6, <1>7 DEF Effect

\* Overlapping requests, cookies that come late and rows that are committed late
\* keep the promise of SignIns: a token that was exchanged, or whose sign-in is
\* over, is never exchanged again, and a sign-in that is closed is never reopened.
THEOREM Refinement == Spec => ImplementsSignIns
<1>1. Init => Abstract!Init
  BY InitAbstract
<1>2. IInv /\ CookiesInv /\ [Next]_vars => Stutters \/ Abstract!Next
  BY StepAbstract
<1>3. Stutters =>
        UNCHANGED <<[s \in SessionIds |-> StateOf(s)],
                    [s \in SessionIds |-> IF rows[s] # NoRow THEN rows[s].current ELSE NoJti],
                    {j \in Jtis : Spent(j)}>>
  BY DEF Stutters, States, Holders, SpentOnes
<1> QED BY <1>1, <1>2, <1>3, Inductive, CookiesInductive, PTL DEF Spec, ImplementsSignIns, Abstract!Spec

-----------------------------------------------------------------------------
(***************************************************************************)
(* The line a password change draws is no earlier than the one it had read,  *)
(* so it moves back only where another change has drawn it since; and no     *)
(* token of a sign-in is younger than the current one, so that a token the   *)
(* line does not refuse shows that the current one is not left behind.      *)
(***************************************************************************)
BoundaryOK ==
    /\ boundary <= clock
    /\ \A r \in Requests : tx[r] # NoTx /\ tx[r].boundary # Never =>
         tx[r].seen <= tx[r].boundary /\ tx[r].boundary <= clock
    /\ \A r \in Requests : req[r] # Idle /\ req[r].phase = "verified" /\ req[r].kind = "password" =>
         req[r].read.line <= req[r].read.at

LatestOK ==
    \A j \in Jtis : Signed(j) =>
        /\ token[j].iat <= clock
        /\ rows[token[j].sid] # NoRow => token[j].iat <= token[rows[token[j].sid].current].iat

LinesInv == BoundaryOK /\ LatestOK

LEMMA TokenFields ==
    ASSUME TypeInv, NEW j \in Jtis
    PROVE  token[j] \in Token /\ token[j].iat \in Nat /\ clock \in Nat /\ boundary \in Nat \cup {Never}
BY TimesAssumption DEF TypeInv, TypeOK, Token, Time

LEMMA LatestStep == IInv /\ LatestOK /\ [Next]_vars => LatestOK'
<1> SUFFICES ASSUME IInv, LatestOK, [Next]_vars PROVE LatestOK'
  OBVIOUS
<1>0. TypeInv /\ TypeOK /\ RowsOK /\ TxOK /\ Effect
  BY StepEffect DEF IInv, TypeInv
<1>1. CASE Rotation
  <2>1. PICK r \in Requests, s \in SessionIds, p \in Jtis \cup {NoJti}, k \in Jtis :
          req[r] \in Request /\ Rotate(r, s, p, k)
    BY <1>1 DEF Rotation
  <2>2. PICK old : old = rows[s].current
    OBVIOUS
  <2>3. RotateValues(r, s, p, k, old)
    BY <2>1, <2>2, RotateHasValues
  <2>4. /\ token'[k].sid = s /\ token'[k].iat = clock /\ rows'[s].current = k /\ clock' = clock
        /\ \A t \in SessionIds \ {s} : rows'[t] = rows[t]
        /\ \A j \in Jtis \ {k} : token'[j] = token[j]
        /\ ~Signed(k)
    BY <2>3 DEF RotateValues, Rotated
  <2> SUFFICES ASSUME NEW j \in Jtis, Signed(j)'
               PROVE  /\ token'[j].iat <= clock'
                      /\ rows'[token'[j].sid] # NoRow => token'[j].iat <= token'[rows'[token'[j].sid].current].iat
    BY DEF LatestOK
  <2>5. CASE j = k
    BY <2>4, <2>5, <1>0, TokenFields
  <2>6. CASE j # k
    <3>1. Signed(j) /\ token'[j] = token[j] /\ token[j].iat <= clock
      BY <2>4, <2>6 DEF Signed, LatestOK
    <3>2. token[j].sid \in SessionIds
      BY <3>1, <1>0, SignedFields
    <3>3. CASE token[j].sid = s
      BY <2>4, <3>1, <3>3
    <3>4. CASE token[j].sid # s
      <4>1. rows'[token[j].sid] = rows[token[j].sid]
        BY <2>4, <3>2, <3>4
      <4>2. rows[token[j].sid] # NoRow => /\ rows[token[j].sid].current \in Jtis \ {k}
                                          /\ token[j].iat <= token[rows[token[j].sid].current].iat
        BY <2>4, <3>1, <3>2, <1>0, RowFields DEF LatestOK
      <4> QED BY <2>4, <3>1, <4>1, <4>2
    <3> QED BY <3>3, <3>4
  <2> QED BY <2>5, <2>6
<1>2. CASE Beginning
  <2>1. PICK r \in Requests, s \in SessionIds, k \in Jtis, at \in Time, e \in Nat,
             line \in Time \cup {Never}, seen \in Time \cup {Never}, kind \in Endpoints, since \in Time :
          Begin(r, s, k, at, e, line, seen, kind, since) /\ at <= clock /\ UNCHANGED <<clock, rows>>
    BY <1>2 DEF Beginning
  <2>2. ~Taken(s) /\ ~Signed(k) /\ Sign(k, s, at, e)
    BY <2>1 DEF Begin
  <2>3. /\ token'[k] = [sid |-> s, iat |-> at, exp |-> e]
        /\ \A j \in Jtis \ {k} : token'[j] = token[j]
    BY <1>0, <2>2, SignKeeps
  <2>4. rows[s] = NoRow
    BY <1>0, <2>2, RowFields DEF Taken
  <2> SUFFICES ASSUME NEW j \in Jtis, Signed(j)'
               PROVE  /\ token'[j].iat <= clock
                      /\ rows[token'[j].sid] # NoRow => token'[j].iat <= token'[rows[token'[j].sid].current].iat
    BY <2>1 DEF LatestOK
  <2>5. CASE j = k
    <3>1. token'[j].sid = s /\ token'[j].iat = at
      BY <2>3, <2>5
    <3> QED BY <2>1, <2>4, <3>1, <1>0, TokenFields
  <2>6. CASE j # k
    <3>1. Signed(j) /\ token'[j] = token[j] /\ token[j].iat <= clock
      BY <2>3, <2>6 DEF Signed, LatestOK
    <3>2. token[j].sid \in SessionIds
      BY <3>1, <1>0, SignedFields
    <3>3. rows[token[j].sid] # NoRow => /\ rows[token[j].sid].current \in Jtis \ {k}
                                        /\ token[j].iat <= token[rows[token[j].sid].current].iat
      BY <2>2, <3>1, <3>2, <1>0, RowFields DEF LatestOK
    <3> QED BY <2>3, <3>1, <3>3
  <2> QED BY <2>5, <2>6
<1>3. ASSUME NEW r \in Requests, Commit(r) PROVE LatestOK'
  <2>1. PICK s, c : s = tx[r].sid /\ c = tx[r].row.current
    OBVIOUS
  <2>2. /\ s \in SessionIds /\ c \in Jtis /\ \A j \in Jtis : token[j].sid = s => j = c
    BY <1>0, <1>3, <2>1 DEF Commit, TypeOK, TxOK, Tx, Row
  <2>3. /\ token' = token /\ clock' = clock
        /\ \A t \in SessionIds : rows'[t] # NoRow => rows'[t] = rows[t] \/ (t = s /\ rows'[t].current = c)
    BY <1>3, <2>1 DEF Commit
  <2> SUFFICES ASSUME NEW j \in Jtis, Signed(j)
               PROVE  /\ token[j].iat <= clock
                      /\ rows'[token[j].sid] # NoRow => token[j].iat <= token[rows'[token[j].sid].current].iat
    BY <2>3 DEF LatestOK, Signed
  <2>4. token[j].sid \in SessionIds /\ token[j].iat \in Nat
    BY <1>0, SignedFields, TokenFields
  <2>5. token[j].sid = s /\ rows'[token[j].sid] # NoRow =>
          rows'[token[j].sid] = rows[token[j].sid] \/ rows'[token[j].sid].current = j
    BY <2>2, <2>3
  <2> QED BY <2>3, <2>4, <2>5 DEF LatestOK
<1>4. CASE Ending
  <2>1. \A t \in SessionIds : rows'[t] # NoRow => rows'[t] = rows[t]
    BY <1>0, <1>4 DEF Ending, End, TypeOK
  <2> QED BY <1>0, <1>4, <2>1, SignedFields DEF Ending, LatestOK, Signed
<1>5. CASE Losing \/ Waiting
  BY <1>5 DEF Losing, Waiting, LatestOK, Signed
<1>6. CASE Passing
  BY <1>0, <1>6, TokenFields DEF Passing, LatestOK, Signed
<1> QED BY <1>0, <1>1, <1>2, <1>3, <1>4, <1>5, <1>6 DEF Effect

\* What a transaction that draws a line holds to.
LineOf(t) == t # NoTx /\ t.boundary # Never => t.seen <= t.boundary /\ t.boundary <= clock
LinesOK == boundary <= clock /\ \A r \in Requests : LineOf(tx[r])
Forward == boundary <= boundary' \/ \E r \in Requests : SetsLineBack(r)

LEMMA LinesStep == TypeInv /\ UnansweredOK /\ BoundaryOK /\ [Next]_vars => LinesOK' /\ Forward
<1> SUFFICES ASSUME TypeInv, UnansweredOK, BoundaryOK, [Next]_vars PROVE LinesOK' /\ Forward
  OBVIOUS
<1>0. /\ clock \in Nat /\ boundary \in Nat \cup {Never} /\ tx \in [Requests -> Tx \cup {NoTx}]
      /\ \A r \in Requests : tx[r] # NoTx => /\ tx[r].boundary \in Nat \cup {Never}
                                            /\ tx[r].seen \in Nat \cup {Never}
      /\ boundary <= clock /\ Never = -1 /\ \A r \in Requests : LineOf(tx[r])
  BY DEF TypeInv, TypeOK, Time, Tx, BoundaryOK, LineOf, Never
<1>1. ASSUME UNCHANGED <<boundary, tx>>, clock' \in {clock, clock + 1} PROVE LinesOK' /\ Forward
  <2>1. clock' \in Nat /\ clock <= clock'
    BY <1>0, <1>1
  <2>2. ASSUME NEW r \in Requests PROVE LineOf(tx[r])'
    BY <1>0, <1>1, <2>1 DEF LineOf
  <2> QED BY <1>0, <1>1, <2>1, <2>2 DEF LinesOK, Forward
<1>2. ASSUME NEW r \in Requests, Commit(r) PROVE LinesOK' /\ Forward
  <2>1. /\ clock' = clock /\ tx'[r] = NoTx /\ (\A q \in Requests \ {r} : tx'[q] = tx[q]) /\ tx[r] # NoTx
        /\ boundary' = IF tx[r].boundary = Never THEN boundary ELSE tx[r].boundary
    BY <1>0, <1>2 DEF Commit
  <2>2. \A q \in Requests : LineOf(tx[q])'
    BY <1>0, <2>1 DEF LineOf
  <2>3. CASE tx[r].boundary = Never
    BY <1>0, <2>1, <2>2, <2>3 DEF LinesOK, Forward
  <2>4. CASE tx[r].boundary # Never
    <3>1. tx[r].seen <= tx[r].boundary /\ tx[r].boundary <= clock /\ boundary' = tx[r].boundary
      BY <1>0, <2>1, <2>4 DEF LineOf
    <3>2. boundary <= boundary' \/ SetsLineBack(r)
      BY <1>0, <2>1, <2>4, <3>1 DEF SetsLineBack
    <3> QED BY <1>0, <2>1, <2>2, <3>1, <3>2 DEF LinesOK, Forward
  <2> QED BY <2>3, <2>4
<1>3. ASSUME NEW r \in Requests, NEW s, NEW j, NEW at, NEW e, NEW line, NEW seen, NEW kind, NEW since,
             Begin(r, s, j, at, e, line, seen, kind, since), UNCHANGED <<clock, boundary>>,
             line = Never \/ (seen <= line /\ line <= clock)
      PROVE  LinesOK' /\ Forward
  <2>1. (\A q \in Requests \ {r} : tx'[q] = tx[q]) /\ tx'[r].boundary = line /\ tx'[r].seen = seen
    BY <1>0, <1>3 DEF Begin
  <2>2. \A q \in Requests : LineOf(tx[q])'
    BY <1>0, <1>3, <2>1 DEF LineOf
  <2> QED BY <1>0, <1>3, <2>2 DEF LinesOK, Forward
<1>4. ASSUME NEW r \in Requests, NEW b \in Browsers, Login(r, b) PROVE LinesOK' /\ Forward
  <2>1. UNCHANGED <<clock, boundary>>
        /\ \E s, j : Begin(r, s, j, clock, LifetimeOf(NoSession), Never, Never, "login", clock)
    BY <1>4 DEF Login
  <2> QED BY <1>3, <2>1
<1>5. ASSUME NEW r \in Requests, PasswordWrites(r) PROVE LinesOK' /\ Forward
  <2>1. /\ req[r] # Idle /\ req[r].phase = "verified" /\ req[r].kind = "password"
        /\ req[r].read \in Reading /\ UNCHANGED <<clock, boundary>>
    BY <1>5, PasswordBegins
  <2>2. PICK s \in SessionIds, j \in Jtis, at \in Time, e \in Nat, since \in Time :
          /\ Begin(r, s, j, at, e, at, req[r].read.line, "password", since)
          /\ req[r].read.at <= at /\ at <= clock
    BY <1>5, PasswordBegins
  <2>3. req[r].read.line <= req[r].read.at
    BY <2>1 DEF BoundaryOK
  <2>4. req[r].read.line <= at
    BY <2>1, <2>2, <2>3, TimesAssumption DEF Reading, Time, Never
  <2> QED BY <1>3, <2>1, <2>2, <2>4
<1>6. ASSUME NEW r \in Requests, Handle(r), ~PasswordWrites(r) PROVE UNCHANGED <<boundary, tx, clock>>
  BY <1>6 DEF Handle, RefreshRefused, RefreshReused, RefreshVerified, RefreshWrites, SwitchChecked,
              SwitchWrites, Logout, PasswordRefused, PasswordJudged, PasswordConflicts, Refuse, Accept,
              Rotate, RotateMissed
<1>7. CASE Tick \/ UNCHANGED vars
  BY <1>1, <1>7 DEF Tick, vars
<1>8. ASSUME NEW r \in Requests, NEW b \in Browsers, NEW kind \in Endpoints,
             Send(r, b, kind)
      PROVE  UNCHANGED <<boundary, tx, clock>>
  BY <1>8 DEF Send
<1>9. ASSUME UNCHANGED <<boundary, tx, clock>> PROVE LinesOK' /\ Forward
  BY <1>1, <1>9
<1>10. ASSUME NEW r \in Requests, Deliver(r) \/ Lose(r) PROVE UNCHANGED <<boundary, tx, clock>>
  BY <1>10 DEF Deliver, Lose
<1> QED BY <1>2, <1>4, <1>5, <1>6, <1>7, <1>8, <1>9, <1>10 DEF Next

LEMMA BoundaryStep == TypeInv /\ UnansweredOK /\ BoundaryOK /\ [Next]_vars => BoundaryOK' /\ Forward
<1> SUFFICES ASSUME TypeInv, UnansweredOK, BoundaryOK, [Next]_vars PROVE BoundaryOK' /\ Forward
  OBVIOUS
<1>1. LinesOK' /\ Forward
  BY LinesStep
<1>2. ASSUME NEW r \in Requests, req'[r] # Idle, req'[r].phase = "verified", req'[r].kind = "password"
      PROVE  req'[r].read.line <= req'[r].read.at
  <2>1. CASE req[r] # Idle /\ req'[r] = req[r]
    BY <1>2, <2>1 DEF BoundaryOK
  <2>2. CASE PasswordJudged(r)
    <3>1. req[r] # Idle /\ req[r] \in Request /\ req \in [Requests -> Request \cup {Idle}]
      BY <2>2 DEF PasswordJudged, Arrived, TypeInv, TypeOK
    <3>2. PICK read : read = [at |-> clock, line |-> boundary, expires |-> LifetimeOf(req[r].access.sid)]
      OBVIOUS
    <3>3. req'[r] = [req[r] EXCEPT !.phase = "verified", !.read = read]
      BY <2>2, <3>1, <3>2 DEF PasswordJudged
    <3>4. req'[r].read = read
      BY <3>1, <3>3 DEF Request
    <3>5. read.line = boundary /\ read.at = clock
      BY <3>2
    <3> QED BY <3>4, <3>5 DEF BoundaryOK
  <2> QED BY <1>2, <2>1, <2>2, OnlyJudged
<1>3. /\ boundary' <= clock'
      /\ \A r \in Requests : tx'[r] # NoTx /\ tx'[r].boundary # Never =>
           tx'[r].seen <= tx'[r].boundary /\ tx'[r].boundary <= clock'
  BY <1>1 DEF LinesOK, LineOf
<1> QED BY <1>1, <1>2, <1>3 DEF BoundaryOK

\* What becomes of a sign-in that is left behind.
Fate(s) == rows'[s] = NoRow \/ (rows'[s] = rows[s] /\ LeftBehind(s)')

LEMMA FateOf ==
    ASSUME TypeInv, TypeInv', RowsOK, NEW s \in SessionIds, LeftBehind(s),
           rows'[s] = NoRow \/ rows'[s] = rows[s], boundary <= boundary',
           \A j \in Jtis : Signed(j) => token'[j] = token[j],
           NEW r \in Requests, \A q \in Requests \ {r} : req'[q] = req[q],
           req'[r] # Idle => /\ req'[r].phase = "verified" /\ req'[r].kind # "password" => ServedBy(r)' # s
                             /\ req'[r].access # NoAccess /\ req'[r].access.sid = s => req'[r].access.iat < boundary
                             /\ req'[r].reply.access # NoAccess /\ req'[r].reply.access.sid = s =>
                                    req'[r].reply.access.iat < boundary,
           \A b \in Browsers : jar'[b].access # NoAccess /\ jar'[b].access.sid = s => jar'[b].access.iat < boundary
    PROVE  Fate(s)
<1> SUFFICES ASSUME rows'[s] = rows[s] PROVE LeftBehind(s)'
  BY DEF Fate
<1>0. /\ boundary \in Nat \cup {Never} /\ boundary' \in Nat \cup {Never} /\ Never = -1
      /\ \A a \in Access : a.iat \in Nat
  BY DEF TypeInv, TypeOK, Time, Access, Never
<1>1. PICK c : c = rows[s].current
  OBVIOUS
<1>2. rows[s] # NoRow /\ token[c].iat < boundary /\ c \in Jtis /\ token'[c] = token[c] /\ token[c].iat \in Nat
  BY <1>1, RowFields, TokenFields DEF LeftBehind
<1>3. rows'[s] # NoRow /\ rows'[s].current = c /\ token'[c].iat < boundary'
  BY <1>0, <1>1, <1>2
<1>4. ASSUME NEW q \in Requests, q # r, req'[q] # Idle
      PROVE  /\ req'[q].phase = "verified" /\ req'[q].kind # "password" => ServedBy(q)' # s
             /\ req'[q].access # NoAccess /\ req'[q].access.sid = s => req'[q].access.iat < boundary
             /\ req'[q].reply.access # NoAccess /\ req'[q].reply.access.sid = s =>
                    req'[q].reply.access.iat < boundary
  <2>1. req'[q] = req[q] /\ req[q] # Idle /\ Carries(req[q])
    BY <1>4 DEF TypeInv, RequestsOK
  <2>2. ServedBy(q)' = ServedBy(q)
    BY <2>1 DEF ServedBy, Carries
  <2>3. req[q].phase = "verified" /\ req[q].kind # "password" => ServedBy(q) # s
    BY <2>1 DEF LeftBehind, InHand
  <2>4. /\ req[q].access # NoAccess /\ req[q].access.sid = s => req[q].access.iat < boundary
        /\ req[q].reply.access # NoAccess /\ req[q].reply.access.sid = s => req[q].reply.access.iat < boundary
    BY <2>1 DEF LeftBehind
  <2> QED BY <2>1, <2>2, <2>3, <2>4
<1>5. ~InHand(s)'
  BY <1>4 DEF InHand
<1>6. ASSUME NEW b \in Browsers, jar'[b].access # NoAccess, jar'[b].access.sid = s
      PROVE  jar'[b].access.iat < boundary'
  <2>1. PICK a : a = jar'[b].access
    OBVIOUS
  <2>2. a \in Access /\ a.iat < boundary
    BY <1>6, <2>1, JarFields DEF TypeInv, TypeOK
  <2>3. a.iat < boundary'
    BY <1>0, <2>2
  <2> QED BY <2>1, <2>3
<1>7. ASSUME NEW q \in Requests, req'[q] # Idle, NEW a \in {req'[q].access, req'[q].reply.access},
             a # NoAccess, a.sid = s
      PROVE  a.iat < boundary'
  <2>1. a \in Access
    BY <1>7 DEF TypeInv, TypeOK, Request, Reply
  <2>2. a.iat < boundary
    <3>1. CASE q = r
      BY <1>7, <3>1
    <3>2. CASE q # r
      BY <1>4, <1>7, <3>2
    <3> QED BY <3>1, <3>2
  <2> QED BY <1>0, <2>1, <2>2
<1> QED BY <1>3, <1>5, <1>6, <1>7 DEF LeftBehind

\* An answer that brings it no access token changes nothing for it.
LEMMA FateOfAnswer ==
    ASSUME TypeInv, TypeInv', RowsOK, NEW s \in SessionIds, LeftBehind(s),
           rows'[s] = NoRow \/ rows'[s] = rows[s], UNCHANGED <<boundary, jar>>,
           \A j \in Jtis : Signed(j) => token'[j] = token[j],
           NEW r \in Requests, req[r] # Idle, NEW reply \in Reply, Answer(r, reply),
           reply.access # NoAccess => reply.access.sid # s
    PROVE  Fate(s)
<1>1. /\ req'[r].phase = "replied" /\ req'[r].reply = reply /\ req'[r].access = req[r].access
      /\ \A q \in Requests \ {r} : req'[q] = req[q]
  BY AnswerValues
<1>2. /\ req[r].access # NoAccess /\ req[r].access.sid = s => req[r].access.iat < boundary
      /\ \A b \in Browsers : jar[b].access # NoAccess /\ jar[b].access.sid = s => jar[b].access.iat < boundary
  BY DEF LeftBehind
<1>3. boundary <= boundary'
  BY DEF TypeInv, TypeOK, Time, Never
<1>4. \A b \in Browsers : jar'[b].access # NoAccess /\ jar'[b].access.sid = s => jar'[b].access.iat < boundary
  BY <1>2
<1> QED BY <1>1, <1>2, <1>3, <1>4, FateOf

LEMMA LeftBehindGoesOn ==
    ASSUME IInv, CookiesInv, LinesInv, [Next]_vars, NEW s \in SessionIds, LeftBehind(s),
           boundary <= boundary'
    PROVE  Fate(s)
<1>0. TypeInv /\ TypeInv' /\ TypeOK /\ RowsOK /\ TxOK /\ UnansweredOK /\ boundary <= boundary'
  BY NextTypeInv DEF IInv, TypeInv, CookiesInv, LinesInv
<1>1. PICK c : c = rows[s].current
  OBVIOUS
<1>2. /\ rows[s] # NoRow /\ c \in Jtis /\ token[c].sid = s /\ Signed(c) /\ Taken(s)
      /\ token[c].iat < boundary /\ token[c].iat \in Nat /\ boundary \in Nat \cup {Never} /\ Never = -1
  BY <1>0, <1>1, RowFields, TokenFields DEF LeftBehind, Taken, Never
<1>3. \A r \in Requests : req[r] # Idle =>
        /\ req[r].phase = "verified" /\ req[r].kind # "password" => ServedBy(r) # s
        /\ req[r].access # NoAccess /\ req[r].access.sid = s => req[r].access.iat < boundary
        /\ req[r].reply.access # NoAccess /\ req[r].reply.access.sid = s => req[r].reply.access.iat < boundary
  BY DEF LeftBehind, InHand
<1>4. \A b \in Browsers : jar[b].access # NoAccess /\ jar[b].access.sid = s => jar[b].access.iat < boundary
  BY DEF LeftBehind
<1>5. ASSUME NEW r \in Requests, req[r] # Idle, NEW reply \in Reply, Answer(r, reply), reply.access = NoAccess,
             UNCHANGED <<boundary, token, jar>>, rows'[s] = NoRow \/ rows'[s] = rows[s]
      PROVE  Fate(s)
  BY <1>0, <1>5, FateOfAnswer
<1>6. /\ Refused \in Reply /\ Refused.access = NoAccess /\ [Refused EXCEPT !.clears = TRUE] \in Reply
      /\ [Refused EXCEPT !.clears = TRUE].access = NoAccess
  BY DEF Refused, Reply
<1>7. ASSUME NEW r \in Requests, req[r] # Idle, Refuse(r) PROVE Fate(s)
  BY <1>5, <1>6, <1>7 DEF Refuse
<1>8. ASSUME NEW t, End(t) PROVE rows'[s] = NoRow \/ rows'[s] = rows[s]
  BY <1>0, <1>8 DEF End, TypeOK
<1>9. ASSUME NEW r \in Requests, req[r] # Idle, ServedBy(r) # s, Accept(r) PROVE Fate(s)
  <2>1. UNCHANGED <<rows, boundary, token, jar>>
    BY <1>9 DEF Accept
  <2>2. /\ req[r] \in Request /\ req'[r] = [req[r] EXCEPT !.phase = "verified"]
        /\ \A q \in Requests \ {r} : req'[q] = req[q]
    BY <1>0, <1>9 DEF Accept, TypeOK
  <2>3. req'[r].kind = req[r].kind /\ req'[r].jti = req[r].jti /\ req'[r].access = req[r].access
        /\ req'[r].reply = req[r].reply
    BY <2>2 DEF Request
  <2>4. ServedBy(r)' # s
    BY <1>9, <2>1, <2>3 DEF ServedBy
  <2>5. \A q \in Requests \ {r} : req'[q] = req[q]
    BY <2>2
  <2> QED BY <1>0, <1>3, <1>4, <1>9, <2>1, <2>3, <2>4, <2>5, FateOf
<1>10. ASSUME NEW r \in Requests, req[r] # Idle, NEW t \in SessionIds, t # s, NEW p \in Jtis \cup {NoJti},
              (\E k \in Jtis : Rotate(r, t, p, k)) \/ RotateMissed(r, t, p)
       PROVE  Fate(s)
  <2>1. CASE RotateMissed(r, t, p)
    <3>1. PICK reply : reply = [access |-> AccessFor(t, clock), refresh |-> NoJti, clears |-> FALSE]
      OBVIOUS
    <3>2. reply \in Reply /\ reply.access.sid # s
      BY <1>0, <1>10, <3>1, AccessForType DEF Reply, AccessFor
    <3>3. Answer(r, reply) /\ UNCHANGED <<rows, boundary, token, jar>>
      BY <2>1, <3>1 DEF RotateMissed
    <3> QED BY <1>0, <1>10, <3>2, <3>3, FateOfAnswer
  <2>2. ASSUME NEW k \in Jtis, Rotate(r, t, p, k) PROVE Fate(s)
    <3>1. PICK reply : reply = [access |-> AccessFor(t, clock), refresh |-> k, clears |-> FALSE]
      OBVIOUS
    <3>2. reply \in Reply /\ reply.access.sid # s
      BY <1>0, <1>10, <3>1, AccessForType DEF Reply, AccessFor
    <3>3. Answer(r, reply) /\ UNCHANGED <<boundary, jar>> /\ ~Signed(k) /\ Sign(k, t, clock, LifetimeOf(t))
          /\ rows' = [rows EXCEPT ![t] = Rotated(rows[t], k, LifetimeOf(t))]
      BY <2>2, <3>1 DEF Rotate
    <3>4. rows'[s] = rows[s]
      BY <1>0, <1>10, <3>3 DEF TypeOK
    <3>5. \A j \in Jtis : Signed(j) => token'[j] = token[j]
      BY <1>0, <3>3, SignKeeps
    <3> QED BY <1>0, <1>10, <3>2, <3>3, <3>4, <3>5, FateOfAnswer
  <2> QED BY <1>10, <2>1, <2>2
<1>11. ASSUME NEW r \in Requests, NEW t \in SessionIds, NEW j \in Jtis, NEW at, NEW e, NEW line,
              NEW seen, NEW kind, NEW since,
              Begin(r, t, j, at, e, line, seen, kind, since), UNCHANGED <<boundary, rows, jar>>,
              \A q \in Requests \ {r} : req'[q] = req[q],
              req'[r].phase = "replied",
              req'[r].reply = [access |-> AccessFor(t, at), refresh |-> j, clears |-> FALSE],
              \/ req'[r].access = NoAccess
              \/ req[r] # Idle /\ req'[r].access = req[r].access
       PROVE  Fate(s)
  <2>1. t # s /\ ~Signed(j) /\ Sign(j, t, at, e)
    BY <1>2, <1>11 DEF Begin
  <2>2. \A i \in Jtis : Signed(i) => token'[i] = token[i]
    BY <1>0, <2>1, SignKeeps
  <2>3. req'[r].reply.access.sid # s
    BY <1>11, <2>1 DEF AccessFor
  <2>4. req'[r].access # NoAccess /\ req'[r].access.sid = s => req'[r].access.iat < boundary
    BY <1>3, <1>11
  <2>5. rows'[s] = rows[s] /\ \A b \in Browsers : jar'[b] = jar[b]
    BY <1>11
  <2>6. \A b \in Browsers : jar'[b].access # NoAccess /\ jar'[b].access.sid = s => jar'[b].access.iat < boundary
    BY <1>4, <2>5
  <2> QED BY <1>0, <1>11, <2>2, <2>3, <2>4, <2>5, <2>6, FateOf
<1>12. ASSUME NEW r \in Requests, NEW b \in Browsers, Login(r, b) PROVE Fate(s)
  <2>1. PICK t \in SessionIds, j \in Jtis :
          /\ Begin(r, t, j, clock, LifetimeOf(NoSession), Never, Never, "login", clock)
          /\ req' = [req EXCEPT ![r] =
                      [Fetched(b, "login", NoJti, NoAccess) EXCEPT
                         !.phase = "replied",
                         !.reply = [access |-> AccessFor(t, clock), refresh |-> j, clears |-> FALSE]]]
    BY <1>12 DEF Login
  <2>2. PICK reply : reply = [access |-> AccessFor(t, clock), refresh |-> j, clears |-> FALSE]
    OBVIOUS
  <2>3. /\ req'[r] = [Fetched(b, "login", NoJti, NoAccess) EXCEPT !.phase = "replied", !.reply = reply]
        /\ \A q \in Requests \ {r} : req'[q] = req[q]
    BY <1>0, <2>1, <2>2 DEF TypeOK
  <2>4. req'[r].phase = "replied" /\ req'[r].reply = reply /\ req'[r].access = NoAccess
    BY <2>3 DEF Fetched
  <2>5. UNCHANGED <<boundary, rows, jar>>
    BY <1>12 DEF Login
  <2> QED BY <1>11, <2>1, <2>2, <2>3, <2>4, <2>5
<1>13. ASSUME NEW r \in Requests, PasswordWrites(r) PROVE Fate(s)
  <2>1. PICK t \in SessionIds, j \in Jtis, at \in Time, e \in Nat, since \in Time :
          /\ Begin(r, t, j, at, e, at, req[r].read.line, "password", since)
          /\ Answer(r, [access |-> AccessFor(t, at), refresh |-> j, clears |-> FALSE])
    BY <1>0, <1>13, PasswordBegins
  <2>2. req[r] # Idle /\ UNCHANGED <<boundary, rows, jar>>
    BY <1>0, <1>13, PasswordBegins
  <2>3. PICK reply : reply = [access |-> AccessFor(t, at), refresh |-> j, clears |-> FALSE]
    OBVIOUS
  <2>4. reply \in Reply
    BY <1>0, <2>3, AccessForType DEF Reply
  <2>5. /\ req'[r].phase = "replied" /\ req'[r].reply = reply /\ req'[r].access = req[r].access
        /\ \A q \in Requests \ {r} : req'[q] = req[q]
    BY <1>0, <2>1, <2>2, <2>3, <2>4, AnswerValues
  <2> QED BY <1>11, <2>1, <2>2, <2>3, <2>5
<1>20. ASSUME NEW r \in Requests, PasswordJudged(r) PROVE Fate(s)
  <2>1. req[r] # Idle /\ req[r] \in Request /\ UNCHANGED <<rows, boundary, token, jar>>
    BY <1>0, <1>20 DEF PasswordJudged, Arrived, TypeOK
  <2>2. PICK read : read = [at |-> clock, line |-> boundary, expires |-> LifetimeOf(req[r].access.sid)]
    OBVIOUS
  <2>3. /\ req'[r] = [req[r] EXCEPT !.phase = "verified", !.read = read]
        /\ \A q \in Requests \ {r} : req'[q] = req[q]
    BY <1>0, <1>20, <2>2 DEF PasswordJudged, TypeOK
  <2>8. req[r].kind = "password"
    BY <1>20 DEF PasswordJudged, Arrived
  <2>4. req'[r].kind = "password" /\ req'[r].access = req[r].access /\ req'[r].reply = req[r].reply
    BY <2>1, <2>3, <2>8 DEF Request
  <2>5. /\ req'[r].access # NoAccess /\ req'[r].access.sid = s => req'[r].access.iat < boundary
        /\ req'[r].reply.access # NoAccess /\ req'[r].reply.access.sid = s => req'[r].reply.access.iat < boundary
    BY <1>3, <2>1, <2>4
  <2>6. /\ rows'[s] = rows[s] /\ boundary' = boundary /\ jar' = jar
        /\ \A j \in Jtis : Signed(j) => token'[j] = token[j]
    BY <2>1
  <2>7. \A b \in Browsers : jar'[b].access # NoAccess /\ jar'[b].access.sid = s => jar'[b].access.iat < boundary
    BY <1>4, <2>6
  <2> QED BY <1>0, <2>3, <2>4, <2>5, <2>6, <2>7, FateOf
<1>14. ASSUME NEW r \in Requests, Handle(r) PROVE Fate(s)
  <2>1. CASE RefreshRefused(r) \/ PasswordRefused(r) \/ PasswordConflicts(r)
    BY <2>1, <1>7 DEF RefreshRefused, PasswordRefused, PasswordConflicts, Arrived, Verified
  <2>2. CASE RefreshReused(r)
    <3>1. req[r] # Idle /\ End(token[req[r].jti].sid) /\ Answer(r, Refused) /\ UNCHANGED <<boundary, token, jar>>
      BY <2>2 DEF RefreshReused, Arrived
    <3> QED BY <1>5, <1>6, <1>8, <3>1
  <2>3. CASE RefreshVerified(r)
    <3>1. PICK j : j = req[r].jti
      OBVIOUS
    <3>2. /\ req[r] # Idle /\ req[r].kind = "refresh" /\ RefreshTokenValid(j) /\ Accept(r)
          /\ j \in Jtis /\ Signed(j)
      BY <2>3, <3>1, <1>0 DEF RefreshVerified, Arrived, TypeInv, RequestsOK, Carries
    <3>3. ASSUME token[j].sid = s PROVE FALSE
      <4>1. ~(token[j].iat < boundary)
        BY <3>2, <3>3 DEF RefreshTokenValid, SessionRevoked
      <4>2. token[j].iat <= token[c].iat /\ token[j].iat \in Nat
        BY <3>2, <3>3, <1>0, <1>1, <1>2, TokenFields DEF LinesInv, LatestOK
      <4> QED BY <4>1, <4>2, <1>2
    <3>4. ServedBy(r) # s
      BY <3>1, <3>2, <3>3 DEF ServedBy
    <3> QED BY <1>9, <3>2, <3>4
  <2>4. CASE RefreshWrites(r)
    <3>1. PICK j, t : j = req[r].jti /\ t = token[j].sid
      OBVIOUS
    <3>2. /\ req[r] # Idle /\ req[r].phase = "verified" /\ req[r].kind = "refresh"
          /\ (\E k \in Jtis : Rotate(r, t, j, k)) \/ RotateMissed(r, t, j)
          /\ j \in Jtis /\ Signed(j)
      BY <2>4, <3>1, <1>0 DEF RefreshWrites, Verified, TypeInv, RequestsOK, Carries
    <3>3. t \in SessionIds
      BY <3>1, <3>2, <1>0, SignedFields
    <3>4. t # s
      BY <3>1, <3>2, <1>3 DEF ServedBy
    <3> QED BY <1>10, <3>2, <3>3, <3>4
  <2>5. CASE SwitchChecked(r)
    <3>1. req[r] # Idle /\ req[r].kind = "switch" /\ req[r].access \in Access /\ req[r].access # NoAccess
      BY <2>5, <1>0, NullRecordsAssumption DEF SwitchChecked, Arrived, TypeInv, RequestsOK, Carries
    <3>2. CASE Refuse(r)
      BY <1>7, <3>1, <3>2
    <3>3. CASE AccessValid(req[r].access) /\ Accept(r)
      <4>1. ServedBy(r) = req[r].access.sid
        BY <3>1 DEF ServedBy
      <4>2. req[r].access.sid # s
        BY <3>1, <3>3, <1>3 DEF AccessValid, SessionRevoked
      <4> QED BY <1>9, <3>1, <3>3, <4>1, <4>2
    <3> QED BY <2>5, <3>2, <3>3 DEF SwitchChecked
  <2>6. CASE SwitchWrites(r)
    <3>1. PICK t : t = req[r].access.sid
      OBVIOUS
    <3>2. /\ req[r] # Idle /\ req[r].phase = "verified" /\ req[r].kind = "switch"
          /\ (\E k \in Jtis : Rotate(r, t, NoJti, k)) \/ RotateMissed(r, t, NoJti)
          /\ t \in SessionIds
      BY <2>6, <3>1, <1>0 DEF SwitchWrites, Verified, TypeInv, RequestsOK, Carries, Access
    <3>3. t # s
      BY <3>1, <3>2, <1>3 DEF ServedBy
    <3> QED BY <1>10, <3>2, <3>3
  <2>7. CASE Logout(r)
    <3>1. /\ req[r] # Idle /\ Answer(r, [Refused EXCEPT !.clears = TRUE]) /\ UNCHANGED <<boundary, token, jar>>
          /\ End(token[req[r].jti].sid) \/ rows' = rows
      BY <2>7 DEF Logout, Arrived
    <3>2. rows'[s] = NoRow \/ rows'[s] = rows[s]
      BY <1>8, <3>1
    <3> QED BY <1>5, <1>6, <3>1, <3>2
  <2>8. CASE PasswordWrites(r) \/ PasswordJudged(r)
    BY <2>8, <1>13, <1>20
  <2> QED BY <1>14, <2>1, <2>2, <2>3, <2>4, <2>5, <2>6, <2>7, <2>8 DEF Handle
<1>15. ASSUME UNCHANGED <<rows, boundary, token, jar, req>> PROVE Fate(s)
  BY <1>15 DEF Fate, LeftBehind, InHand, ServedBy
<1>16. ASSUME NEW r \in Requests, NEW b \in Browsers, NEW kind \in Endpoints, Send(r, b, kind) PROVE Fate(s)
  <2>1. UNCHANGED <<rows, boundary, token, jar>>
    BY <1>16 DEF Send
  <2>2. PICK j, a : /\ req' = [req EXCEPT ![r] = Fetched(b, kind, j, a)]
                    /\ a # NoAccess => a = jar[b].access
    BY <1>16 DEF Send
  <2>3. /\ req'[r] = Fetched(b, kind, j, a) /\ \A q \in Requests \ {r} : req'[q] = req[q]
    BY <1>0, <2>2 DEF TypeOK
  <2>4. req'[r].phase = "sent" /\ req'[r].access = a /\ req'[r].reply.access = NoAccess
    BY <2>3 DEF Fetched, Refused
  <2>5. a # NoAccess /\ a.sid = s => a.iat < boundary
    BY <1>4, <2>2
  <2> QED BY <1>0, <1>4, <2>1, <2>3, <2>4, <2>5, FateOf
<1>17. ASSUME NEW r \in Requests, Commit(r) PROVE Fate(s)
  <2>1. UNCHANGED <<token, jar, req>>
    BY <1>17 DEF Commit
  <2>2. tx[r] # NoTx /\ tx[r].sid # s
    BY <1>0, <1>2, <1>17 DEF Commit, TxOK
  <2>3. rows'[s] = NoRow \/ rows'[s] = rows[s]
    BY <1>17, <2>2 DEF Commit
  <2>4. req[r] # Idle => req[r].phase = "replied"
    BY <1>0, <2>2 DEF UnansweredOK
  <2> QED BY <1>0, <1>3, <1>4, <2>1, <2>3, <2>4, FateOf
<1>18. ASSUME NEW r \in Requests, Deliver(r) PROVE Fate(s)
  <2>1. UNCHANGED <<rows, boundary, token>> /\ req[r] # Idle
    BY <1>18 DEF Deliver, Replied
  <2>2. req'[r] = Idle /\ \A q \in Requests \ {r} : req'[q] = req[q]
    BY <1>0, <1>18 DEF Deliver, TypeOK
  <2>3. \A b \in Browsers : jar'[b].access \in {NoAccess, jar[b].access, req[r].reply.access}
    BY <1>0, <1>18 DEF Deliver, TypeOK, WithCookies, EmptyJar
  <2>4. \A b \in Browsers : jar'[b].access # NoAccess /\ jar'[b].access.sid = s => jar'[b].access.iat < boundary
    BY <1>3, <1>4, <2>1, <2>3
  <2> QED BY <1>0, <2>1, <2>2, <2>4, FateOf
<1>19. ASSUME NEW r \in Requests, Lose(r) PROVE Fate(s)
  <2>1. UNCHANGED <<rows, boundary, token, jar>>
    BY <1>19 DEF Lose
  <2>2. req'[r] = Idle /\ \A q \in Requests \ {r} : req'[q] = req[q]
    BY <1>0, <1>19 DEF Lose, TypeOK
  <2> QED BY <1>0, <1>4, <2>1, <2>2, FateOf
<1> QED BY <1>12, <1>14, <1>15, <1>16, <1>17, <1>18, <1>19 DEF Next, Tick, vars

\* ... and when the line is set back, the row at least stays as it is.
LEMMA LeftBehindStep ==
    ASSUME IInv, CookiesInv, LinesInv, [Next]_vars, NEW s \in SessionIds, LeftBehind(s)
    PROVE  \/ rows'[s] = NoRow
           \/ rows'[s] = rows[s] /\ (LeftBehind(s)' \/ \E r \in Requests : SetsLineBack(r))
<1>0. TypeInv /\ TypeOK /\ RowsOK /\ TxOK /\ UnansweredOK /\ BoundaryOK
  BY DEF IInv, TypeInv, CookiesInv, LinesInv
<1>1. CASE boundary <= boundary'
  BY <1>1, LeftBehindGoesOn DEF Fate
<1>2. ASSUME NEW r \in Requests, SetsLineBack(r) PROVE rows'[s] = NoRow \/ rows'[s] = rows[s]
  <2>1. Commit(r)
    BY <1>0, <1>2, TransactionsStay DEF SetsLineBack
  <2>2. tx[r] # NoTx /\ rows[tx[r].sid] = NoRow
    BY <1>0, <2>1 DEF Commit, TxOK
  <2>3. tx[r].sid # s
    BY <2>2 DEF LeftBehind
  <2> QED BY <2>1, <2>3 DEF Commit
<1>3. Forward
  BY <1>0, BoundaryStep
<1> QED BY <1>1, <1>2, <1>3 DEF Forward

LEMMA LinesInductive == Spec => []LinesInv
<1>1. Init => LinesInv
  BY DEF Init, LinesInv, BoundaryOK, LatestOK, Unsigned, Signed, Never
<1>2. IInv /\ CookiesInv /\ LinesInv /\ [Next]_vars => LinesInv'
  BY LatestStep, BoundaryStep DEF LinesInv, CookiesInv, IInv
<1> QED BY <1>1, <1>2, Inductive, CookiesInductive, PTL DEF Spec

\* A sign-in left behind by a password change keeps its row as it is until the row
\* is removed, whichever of the other requests and sign-ins of the user go on; it stays
\* left behind but for a change that another one overtook and that sets the line back.
THEOREM LeftBehindTheorem == Spec => LeftBehindStays
<1>1. IInv /\ CookiesInv /\ LinesInv /\ [Next]_vars => [NothingMoreForLeftBehind]_vars
  BY LeftBehindStep DEF NothingMoreForLeftBehind
<1> QED BY <1>1, Inductive, CookiesInductive, LinesInductive, PTL DEF Spec, LeftBehindStays
-----------------------------------------------------------------------------
(* What follows from it.                                                    *)

\* Whatever requests overlap, a refresh token is exchanged for at most one new pair.
THEOREM ExchangedOnce == Spec => []OnePairPerToken
<1>1. IInv => OnePairPerToken
  BY DEF IInv
<1> QED BY <1>1, Inductive, PTL

\* A tab that comes within the grace period after another one rotated its token
\* is accepted, unless a role switch rotated the row once more.
THEOREM LateTabTheorem == Spec => []LateTabAccepted
<1>1. IInv => LateTabAccepted
  <2> SUFFICES ASSUME IInv, NEW j \in Jtis, RecentlyRetired(j), ~OvertakenBySwitch(j)
               PROVE  Standing(rows[token[j].sid], j) # "reused"
    BY DEF LateTabAccepted
  <2> DEFINE row == rows[token[j].sid]
  <2>1. /\ Signed(j) /\ row # NoRow /\ history[j].retired # Never
        /\ clock - history[j].retired <= Grace /\ history[j].retired \in Time
        /\ token[j].sid \in SessionIds /\ row \in Row /\ clock \in Time
    BY DEF RecentlyRetired, IInv, TypeInv, TypeOK, History, Signed, Token
  <2>2. row.rotated <= clock
    BY <2>1 DEF IInv, RowsOK
  <2>3. \/ j = row.previous /\ history[j].retired = row.rotated
        \/ row.rotated > history[j].retired + Grace
    BY <2>1 DEF IInv, ChainOK
  <2>4. j = row.previous /\ row.rotated # Never /\ clock - row.rotated <= Grace
    BY <2>1, <2>2, <2>3, TimesAssumption DEF Time, Row, Never
  <2> QED BY <2>4 DEF Standing
<1> QED BY <1>1, Inductive, PTL

\* Without extension every refresh token ends within Period of the entrance its
\* chain of refreshes, role switches and password changes started from.
THEOREM AbsoluteLifetimeTheorem == Spec => []AbsoluteLifetime
<1>1. IInv => AbsoluteLifetime
  BY DEF IInv, LifetimesOK, AbsoluteLifetime
<1> QED BY <1>1, Inductive, PTL

\* The row of a sign-in that is over never comes back.
THEOREM EndedTheorem == Spec => EndedStaysEnded
<1>1. IInv /\ [Next]_vars => [NoRevival]_vars
  <2> SUFFICES ASSUME IInv, [Next]_vars, NEW s \in SessionIds, rows[s] = NoRow, ~Pending(s)
               PROVE  rows'[s] = NoRow
    BY DEF NoRevival
  <2>1. TypeOK /\ Effect
    BY StepEffect DEF IInv, TypeInv
  <2>2. ASSUME Rotation PROVE rows'[s] = NoRow
    BY <2>1, <2>2 DEF Rotation, Rotate, RotationMatches, TypeOK
  <2>3. ASSUME NEW r \in Requests, Commit(r) PROVE rows'[s] = NoRow
    BY <2>1, <2>3 DEF Commit, Pending, TypeOK
  <2>4. ASSUME Ending PROVE rows'[s] = NoRow
    BY <2>1, <2>4 DEF Ending, End, TypeOK
  <2> QED BY <2>1, <2>2, <2>3, <2>4 DEF Effect, Beginning, Losing, Passing, Waiting
<1> QED BY <1>1, Inductive, PTL DEF Spec, EndedStaysEnded

\* A browser whose requests were all answered has the current token of its sign-in,
\* in whatever order the answers came, but for a lost answer and for a role switch
\* that replaced its token: what brings the current one can only be its own request.
THEOREM WinnersCookieTheorem == Spec => []WinnersCookieStays
<1>1. IInv /\ CookiesInv => WinnersCookieStays
  <2> SUFFICES ASSUME IInv, CookiesInv, NEW b \in Browsers, NEW j, j = jar[b].refresh, Quiet(b),
                      j # NoJti, rows[token[j].sid] # NoRow
               PROVE  \/ j = rows[token[j].sid].current \/ history[rows[token[j].sid].current].lost
                      \/ ReplacedBySwitch(j)
    BY DEF WinnersCookieStays
  <2>1. PICK s, c : s = token[j].sid /\ c = rows[s].current
    OBVIOUS
  <2>2. j \in Jtis /\ s \in SessionIds /\ c \in Jtis /\ token[c].sid = s
    BY <2>1, JarFields, SignedFields DEF IInv, RowsOK
  <2>3. ASSUME NEW r \in Requests, Brings(r, c) PROVE FALSE
    <3>1. Holds(b, s)
      BY <2>1 DEF Holds
    <3>2. req[r] # Idle /\ OfRequest(req[r], s)
      BY <2>2, <2>3, NullsAssumption DEF Brings, OfRequest
    <3>3. req[r].browser \in Browsers /\ Holds(req[r].browser, s)
      BY <3>2, RequestFields DEF Holds, IInv
    <3>4. req[r].browser = b
      BY <2>2, <3>1, <3>3 DEF CookiesInv, OwnersOK
    <3> QED BY <3>2, <3>4 DEF Quiet
  <2> QED BY <2>1, <2>3 DEF CookiesInv, HeldOK
<1> QED BY <1>1, Inductive, CookiesInductive, PTL

=============================================================================
