----------------------------- MODULE RoundTrips -----------------------------
(***************************************************************************)
(* One browser and its round trips to the identity provider: to sign in, to *)
(* link an account to whoever is signed in, and to go on with a session     *)
(* that runs out (in a hidden frame).                                       *)
(*                                                                          *)
(* All tabs share the cookies: the session's, and one for the trip under    *)
(* way, which every later trip overwrites and every return takes away.  A   *)
(* return is handled with the cookies that were sent along with it.         *)
(***************************************************************************)
EXTENDS Service

CONSTANTS
    Trips,         \* the states new_secret() can return
    Roles,         \* roles one can switch to
    AllRoles,      \* no active role
    NoTrip, Over,  \* no trip, or no cookie of one; a trip that has landed
    NoLogin        \* no session cookie

Persons == Users      \* at the provider; everybody has an account there

Login == [user: Users, role: Roles \cup {AllRoles}, since: Time, sso: BOOLEAN, live: BOOLEAN]

Transaction == [purpose: {"login", "link", "renew"}, user: Users \cup {Nobody},
                role: Roles \cup {AllRoles}, since: Time \cup {Never}]

Landing == [trip: Trips, tx: Trips \cup {NoTrip}, viewer: Users \cup {Nobody}]

ASSUME RoundTripsAssumption ==
    /\ {NoTrip, Over} \cap (Transaction \cup Trips \cup Landing) = {} /\ NoTrip # Over
    /\ NoLogin \notin Login
    /\ "sent" \notin Persons \cup {Nobody}

VARIABLES
    login,         \* the access token cookie, which outlives its token
    cookie,        \* sso_tx: the trip it was written for, or NoTrip
    trip,          \* Trips -> what was signed into the cookie, NoTrip or Over
    answer,        \* Trips -> whom the provider's code stands for, Nobody, or "sent"
    atProvider,    \* who is signed in there in this browser
    holds,         \* Users -> their roles
    landing,       \* the return being handled, with its cookies, or NoTrip
    handoffs,      \* for whom there are tickets in the addresses of tabs
    joined,        \* the link just made: for whom, and who had set out to make it
    \* history, read by the properties and by no action:
    entered,       \* Users -> when they last came in through an entrance
    disturbed      \* the trips during which the session was changed otherwise

browser == <<login, cookie, trip, answer, atProvider, landing, handoffs>>
tripVars == <<now, login, cookie, trip, answer, atProvider, holds, landing, handoffs, joined, entered, disturbed>>

UnderWay(t) == trip[t] \notin {NoTrip, Over}

RoundTripsTypeOK ==
    /\ login \in Login \cup {NoLogin}
    /\ cookie \in Trips \cup {NoTrip}
    /\ trip \in [Trips -> Transaction \cup {NoTrip, Over}]
    /\ answer \in [Trips -> Persons \cup {Nobody, "sent"}]
    /\ atProvider \in Persons \cup {Nobody}
    /\ holds \in [Users -> SUBSET Roles]
    /\ landing \in Landing \cup {NoTrip}
    /\ handoffs \subseteq Users
    /\ joined \in [user: Users, starter: Users] \cup {NoTrip}
    /\ entered \in [Users -> Time \cup {Never}] /\ disturbed \subseteq Trips
    /\ cookie # NoTrip => UnderWay(cookie)
    /\ login # NoLogin => login.since <= now

RoundTripsInit ==
    /\ now = 0 /\ login = NoLogin /\ cookie = NoTrip /\ atProvider = Nobody
    /\ trip = [t \in Trips |-> NoTrip] /\ answer = [t \in Trips |-> "sent"]
    /\ holds = [u \in Users |-> Roles]
    /\ landing = NoTrip /\ handoffs = {} /\ joined = NoTrip
    /\ entered = [u \in Users |-> Never] /\ disturbed = {}

-----------------------------------------------------------------------------
(* The session of the browser.                                              *)

Viewer == IF login # NoLogin /\ login.live THEN login.user ELSE Nobody

\* A session is written over whatever the browser held.
Establish(x) ==
    /\ login' = x
    /\ disturbed' = {t \in Trips : UnderWay(t)}

Fresh(u, sso) == [user |-> u, role |-> AllRoles, since |-> now, sso |-> sso, live |-> TRUE]

EntersLocally(u) ==
    /\ Establish(Fresh(u, FALSE))
    /\ entered' = [entered EXCEPT ![u] = now]
    /\ UNCHANGED <<now, cookie, trip, answer, atProvider, holds, landing, handoffs, joined>>

\* The cookie of a trip is left where it is.
SignsOut ==
    /\ login # NoLogin
    /\ Establish(NoLogin)
    /\ UNCHANGED <<now, cookie, trip, answer, atProvider, holds, landing, handoffs, joined, entered>>

SwitchesRole(role) ==
    /\ Viewer # Nobody /\ role \in holds[Viewer] \cup {AllRoles}
    /\ Establish([login EXCEPT !.role = role])
    /\ UNCHANGED <<now, cookie, trip, answer, atProvider, holds, landing, handoffs, joined, entered>>

\* The token runs out.  If the provider let it in the cookie stays for a long time,
\* so that a renewal can read it; otherwise it goes with its token.
TokenExpires ==
    /\ Viewer # Nobody
    /\ login' = IF login.sso THEN [login EXCEPT !.live = FALSE] ELSE NoLogin
    /\ UNCHANGED <<now, cookie, trip, answer, atProvider, holds, landing, handoffs, joined, entered, disturbed>>

CookieExpires ==
    /\ login # NoLogin /\ ~login.live
    /\ login' = NoLogin
    /\ UNCHANGED <<now, cookie, trip, answer, atProvider, holds, landing, handoffs, joined, entered, disturbed>>

LosesRole(u, role) ==
    /\ role \in holds[u]
    /\ holds' = [holds EXCEPT ![u] = @ \ {role}]
    /\ UNCHANGED <<now, browser, joined, entered, disturbed>>

-----------------------------------------------------------------------------
(* Setting out.                                                             *)

SetsOut(t, x) ==
    /\ trip[t] = NoTrip
    /\ trip' = [trip EXCEPT ![t] = x]
    /\ cookie' = t
    /\ UNCHANGED <<now, login, answer, atProvider, holds, landing, handoffs, joined, entered, disturbed>>

TransactionOfLogin == [purpose |-> "login", user |-> Nobody, role |-> AllRoles, since |-> Never]

StartLogin(t) == SetsOut(t, TransactionOfLogin)

\* It remembers who asked.
TransactionOfLink(u) == [purpose |-> "link", user |-> u, role |-> AllRoles, since |-> Never]

StartLink(t) == Viewer # Nobody /\ SetsOut(t, TransactionOfLink(Viewer))

\* What the cookie's token says, run out or not: only of those the provider let in.
Continued == IF login # NoLogin /\ login.sso THEN login ELSE NoLogin

TransactionOfRenewal(x) ==
    IF x = NoLogin THEN [TransactionOfLogin EXCEPT !.purpose = "renew"]
    ELSE [purpose |-> "renew", user |-> x.user, role |-> x.role, since |-> x.since]

StartRenewal(t) == SetsOut(t, TransactionOfRenewal(Continued))

-----------------------------------------------------------------------------
(* At the provider.                                                         *)

\* Whoever is at the keyboard signs in there, or out.
ChangesPerson(p) ==
    /\ atProvider # p
    /\ atProvider' = p
    /\ UNCHANGED <<now, login, cookie, trip, answer, holds, landing, handoffs, joined, entered, disturbed>>

\* A code for whoever is signed in there; an error if nobody is.
ProviderAnswers(t) ==
    /\ UnderWay(t) /\ answer[t] = "sent"
    /\ answer' = [answer EXCEPT ![t] = atProvider]
    /\ UNCHANGED <<now, login, cookie, trip, atProvider, holds, landing, handoffs, joined, entered, disturbed>>

-----------------------------------------------------------------------------
(* Coming back.                                                             *)

\* One return at a time: of two, the later one finds the cookie gone or not its own.
CallbackArrives(t) ==
    /\ landing = NoTrip /\ UnderWay(t) /\ answer[t] # "sent"
    /\ landing' = [trip |-> t, tx |-> cookie, viewer |-> Viewer]
    /\ UNCHANGED <<now, login, cookie, trip, answer, atProvider, holds, handoffs, joined, entered, disturbed>>

\* The state that came back is the one in the cookie, and the code is good.
Matches(x) == x.tx = x.trip /\ answer[x.trip] \in Persons

\* Variant: a return leaves the cookie.
LandsWithCookie ==
    /\ landing' = NoTrip /\ UNCHANGED <<cookie, answer>>
    /\ trip' = [t \in Trips |-> IF t \in {landing.trip, landing.tx, cookie} THEN Over ELSE trip[t]]

\* However it ends, the cookie is dropped: of this trip or of a later one.  A code
\* without its cookie is worth nothing.
Lands ==
    /\ cookie' = NoTrip /\ landing' = NoTrip
    /\ trip' = [t \in Trips |-> IF t \in {landing.trip, landing.tx, cookie} THEN Over ELSE trip[t]]
    /\ answer' = [t \in Trips |-> IF trip'[t] = Over THEN "sent" ELSE answer[t]]

Purpose(x) == IF x.tx = NoTrip THEN "login" ELSE trip[x.tx].purpose

CallbackFails ==
    LET x == landing
    IN  /\ x # NoTrip
        /\ \/ ~Matches(x)
           \/ Purpose(x) = "link" /\ x.viewer # trip[x.tx].user
        /\ Lands /\ joined' = NoTrip
        /\ UNCHANGED <<now, login, atProvider, holds, handoffs, entered, disturbed>>

\* A ticket for the screen, which exchanges it in a request of its own.
CompletesLogin ==
    LET x == landing
    IN  /\ x # NoTrip /\ Matches(x) /\ Purpose(x) = "login"
        /\ handoffs' = handoffs \cup {answer[x.trip]}
        /\ Lands /\ joined' = NoTrip
        /\ UNCHANGED <<now, login, atProvider, holds, entered, disturbed>>

ExchangesHandoff(u) ==
    /\ u \in handoffs
    /\ Establish(Fresh(u, TRUE))
    /\ entered' = [entered EXCEPT ![u] = now]
    /\ handoffs' = handoffs \ {u}
    /\ UNCHANGED <<now, cookie, trip, answer, atProvider, holds, landing, joined>>

\* Variant: it is linked to whoever is signed in when the person comes back.
BelongsToViewer(x) == x.viewer # Nobody

\* Whoever set out must still be signed in.
BelongsTo(x) == x.viewer # Nobody /\ trip[x.tx].user = x.viewer

CompletesLink ==
    LET x == landing
    IN  /\ x # NoTrip /\ Matches(x) /\ Purpose(x) = "link" /\ BelongsTo(x)
        /\ joined' = [user |-> x.viewer, starter |-> trip[x.tx].user]
        /\ Lands
        /\ UNCHANGED <<now, login, atProvider, holds, handoffs, entered, disturbed>>

\* Variant: the session of whoever comes back.
SamePersonOrAnybody(tx, p) == TRUE

\* Another person has signed in at the provider: the screen is not theirs.
SamePerson(tx, p) == tx.user \in {Nobody, p}

\* Variants: going on is signing in; the role is forgotten, as at a sign-in.
CarryOfFresh(tx, p) == Fresh(p, TRUE)
CarryOfTheTime(tx, p) == [Fresh(p, TRUE) EXCEPT !.since = IF tx.since = Never THEN now ELSE tx.since]

\* The role, if it is still held, and when the person really signed in.
CarryOf(tx, p) ==
    [Fresh(p, TRUE) EXCEPT !.role = IF tx.role \in holds[p] THEN tx.role ELSE AllRoles,
                           !.since = IF tx.since = Never THEN now ELSE tx.since]

CompletesRenewal ==
    LET x == landing
        p == answer[x.trip]
    IN  /\ x # NoTrip /\ Matches(x) /\ Purpose(x) = "renew"
        /\ IF SamePerson(trip[x.tx], p)
           THEN /\ Establish(CarryOf(trip[x.tx], p))
                /\ entered' = IF trip[x.tx].user = Nobody THEN [entered EXCEPT ![p] = now] ELSE entered
           ELSE UNCHANGED <<login, entered, disturbed>>
        /\ Lands /\ joined' = NoTrip
        /\ UNCHANGED <<now, atProvider, holds, handoffs>>

RoundTripsTick ==
    /\ Tick
    /\ UNCHANGED <<browser, holds, joined, entered, disturbed>>

RoundTripsNext ==
    \/ RoundTripsTick \/ SignsOut \/ TokenExpires \/ CookieExpires
    \/ CallbackFails \/ CompletesLogin \/ CompletesLink \/ CompletesRenewal
    \/ \E u \in Users : EntersLocally(u) \/ ExchangesHandoff(u) \/ \E role \in Roles : LosesRole(u, role)
    \/ \E role \in Roles \cup {AllRoles} : SwitchesRole(role)
    \/ \E p \in Persons \cup {Nobody} : ChangesPerson(p)
    \/ \E t \in Trips : StartLogin(t) \/ StartLink(t) \/ StartRenewal(t) \/ ProviderAnswers(t) \/ CallbackArrives(t)

RoundTripsSpec == RoundTripsInit /\ [][RoundTripsNext]_tripVars
-----------------------------------------------------------------------------
\* An account of the provider is linked only to the user who set out to link one,
\* whatever trips, sign-ins and sign-outs of other tabs came between.
LinksAreMeant == joined # NoTrip => joined.starter = joined.user

\* A renewal during which nobody signed in or out or switched (nor another one
\* went through) leaves the person, their role -- unless they lost it -- and the
\* time they signed in, whoever is signed in at the provider by then.
RenewalsChangeNothing ==
    [][LET x == landing
       IN  CompletesRenewal /\ x.trip \notin disturbed /\ login # NoLogin /\ login.sso =>
               /\ login'.user = login.user /\ login'.since = login.since
               /\ login'.role \in {login.role} \cup (IF login.role \in holds[login.user] THEN {} ELSE {AllRoles})]_tripVars

\* However often a session is continued, it never looks younger than the last
\* time its person came in.
ContinuingIsNotSigningIn == login # NoLogin => login.since <= entered[login.user]

\* A trip to the provider does what its sender meant: it links the one who asked,
\* and lets a session go on as it was.
RoundTripsHold == []LinksAreMeant /\ []ContinuingIsNotSigningIn /\ RenewalsChangeNothing
=============================================================================
