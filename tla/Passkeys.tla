------------------------------ MODULE Passkeys ------------------------------
(***************************************************************************)
(* Passkeys: the challenges that are issued for them, the credentials that  *)
(* are registered, and the sign-ins they give.                              *)
(*                                                                          *)
(* A request reads the challenge and the credential in one snapshot.  It    *)
(* takes the challenge by deleting its row, and only the request that       *)
(* deleted it goes on; whatever fails afterwards rolls the deletion back.   *)
(***************************************************************************)
EXTENDS Service

CONSTANTS
    Challenges,      \* what uuid4() can return
    Credentials,     \* credential ids; each lives in one authenticator
    MaxCount,        \* bound of an authenticator's signature counter
    MaxRegistered,   \* bound of the registrations of one credential
    ChallengeTtl,    \* webauthn_challenge_ttl_seconds
    Unissued, Gone,  \* no row yet, no row any more
    NoKey, NoCeremony

ASSUME PasskeysAssumption ==
    /\ MaxCount \in Nat /\ MaxRegistered \in Nat /\ ChallengeTtl \in Nat
    /\ Unissued # Gone

ChallengeRow == [purpose: {"registration", "authentication"}, owner: Users \cup {Nobody}, expires: Nat]
\* born tells two rows of one credential id apart: their primary keys differ.
KeyRow == [owner: Users, count: Nat, born: Nat]
Response == [challenge: Challenges, credential: Credentials, count: Nat]
Ceremony == [response: Response, by: Users \cup {Nobody},
             challenge: ChallengeRow, key: KeyRow \cup {NoKey}]

ASSUME PasskeysNullsAssumption ==
    /\ Unissued \notin ChallengeRow /\ Gone \notin ChallengeRow
    /\ NoKey \notin KeyRow /\ NoCeremony \notin Ceremony

VARIABLES
    challenges,    \* webauthn_challenges: Challenges -> a row, Unissued or Gone
    passkeys,      \* passkey_credentials: Credentials -> a row, or NoKey
    counter,       \* Credentials -> the authenticator's signature counter
    responses,     \* what authenticators have signed; anyone may send it, again too
    ceremony,      \* Requests -> what the request presents and has read, or NoCeremony
    \* history, read by the properties and by no action:
    registered,    \* Credentials -> how many rows it has had
    accepted,      \* Challenges -> how many ceremonies it completed
    ofRemoved      \* the credentials that gave a sign-in when no longer registered

passkeyVars == <<now, challenges, passkeys, counter, responses, ceremony,
                 registered, accepted, ofRemoved>>

\* The state has its types; every challenge runs out.
PasskeysTypeOK ==
    /\ now \in Time
    /\ challenges \in [Challenges -> ChallengeRow \cup {Unissued, Gone}]
    /\ passkeys \in [Credentials -> KeyRow \cup {NoKey}]
    /\ counter \in [Credentials -> 0..MaxCount]
    /\ responses \subseteq Response
    /\ ceremony \in [Requests -> Ceremony \cup {NoCeremony}]
    /\ registered \in [Credentials -> 0..MaxRegistered] /\ accepted \in [Challenges -> Nat]
    /\ ofRemoved \subseteq Credentials

PasskeysInit ==
    /\ now = 0
    /\ challenges = [c \in Challenges |-> Unissued]
    /\ passkeys = [k \in Credentials |-> NoKey]
    /\ counter = [k \in Credentials |-> 0]
    /\ responses = {}
    /\ ceremony = [r \in Requests |-> NoCeremony]
    /\ registered = [k \in Credentials |-> 0]
    /\ accepted = [c \in Challenges |-> 0]
    /\ ofRemoved = {}

-----------------------------------------------------------------------------
InTable(c) == challenges[c] \notin {Unissued, Gone}
ChallengeExpired(row) == now >= row.expires

\* Variant: a challenge has no end.
IssueChallengeForEver(c, purpose, owner) ==
    /\ challenges[c] = Unissued
    /\ challenges' = [challenges EXCEPT ![c] = [purpose |-> purpose, owner |-> owner, expires |-> Never]]
    /\ UNCHANGED <<now, passkeys, counter, responses, ceremony, registered, accepted, ofRemoved>>

\* Issuing sweeps the challenges that ran out before.
IssueChallenge(c, purpose, owner) ==
    /\ challenges[c] = Unissued
    /\ challenges' = [d \in Challenges |->
           IF d = c THEN [purpose |-> purpose, owner |-> owner, expires |-> now + ChallengeTtl]
           ELSE IF InTable(d) /\ challenges[d].expires < now THEN Gone
           ELSE challenges[d]]
    /\ UNCHANGED <<now, passkeys, counter, responses, ceremony, registered, accepted, ofRemoved>>

StartAuthentication(c) == IssueChallenge(c, "authentication", Nobody)
StartRegistration(c, u) == IssueChallenge(c, "registration", u)

\* The authenticator signs the challenge, counting its assertions.
SignChallenge(c, k) ==
    /\ InTable(c)
    /\ counter[k] < MaxCount
    /\ counter' = [counter EXCEPT ![k] = @ + 1]
    /\ responses' = responses \cup {[challenge |-> c, credential |-> k, count |-> counter[k] + 1]}
    /\ UNCHANGED <<now, challenges, passkeys, ceremony, registered, accepted, ofRemoved>>

\* A response arrives; u is who is signed in, Nobody at the login's endpoint.
PresentResponse(r, response, u) ==
    /\ ceremony[r] = NoCeremony
    /\ InTable(response.challenge)
    /\ challenges[response.challenge].purpose = IF u = Nobody THEN "authentication" ELSE "registration"
    /\ ceremony' = [ceremony EXCEPT ![r] =
           [response |-> response, by |-> u, challenge |-> challenges[response.challenge],
            key |-> passkeys[response.credential]]]
    /\ UNCHANGED <<now, challenges, passkeys, counter, responses, registered, accepted, ofRemoved>>

-----------------------------------------------------------------------------
(* Taking the challenge, and what follows in the same transaction.          *)

\* Variant: the row the request has read is enough.
ConsumesWhatItRead(x) == ~ChallengeExpired(x.challenge)

Consumes(x) == InTable(x.response.challenge) /\ ~ChallengeExpired(x.challenge)

\* The UPDATE or the DELETE of the row with that primary key finds it.
StillThere(x) ==
    LET row == passkeys[x.response.credential]
    IN  row # NoKey /\ x.key # NoKey /\ row.born = x.key.born

\* Variant: the usage is not recorded, so nothing notices that the row is gone.
VerifiedByTheReadRow(x) == x.key # NoKey /\ x.response.count > x.key.count

Verified(x) == StillThere(x) /\ x.response.count > x.key.count

\* Variant: what another user registered in the meantime is taken over.
AddsOverAnything(x) == TRUE

\* Its own row is overwritten, another user's is refused; the unique index
\* refuses a row that came in since.
Adds(x) ==
    \/ x.key = NoKey /\ passkeys[x.response.credential] = NoKey
    \/ StillThere(x) /\ x.key.owner = x.by

CeremonyEnds(r, x) ==
    /\ ceremony[r] = x /\ x # NoCeremony
    /\ ceremony' = [ceremony EXCEPT ![r] = NoCeremony]
    /\ UNCHANGED <<now, counter, responses>>

ChallengeTaken(x) ==
    /\ challenges' = [challenges EXCEPT ![x.response.challenge] = Gone]
    /\ accepted' = [accepted EXCEPT ![x.response.challenge] = @ + 1]

LoginWithPasskey(r) ==
    LET x == ceremony[r] k == x.response.credential
    IN  /\ CeremonyEnds(r, x) /\ x.by = Nobody
        /\ Consumes(x) /\ Verified(x)
        /\ ChallengeTaken(x)
        /\ passkeys' = IF StillThere(x)
                       THEN [passkeys EXCEPT ![k].count = x.response.count] ELSE passkeys
        /\ ofRemoved' = IF StillThere(x) THEN ofRemoved ELSE ofRemoved \cup {k}
        /\ UNCHANGED registered

CompleteRegistration(r) ==
    LET x == ceremony[r] k == x.response.credential
        born == IF x.key = NoKey THEN registered[k] + 1 ELSE x.key.born
    IN  /\ CeremonyEnds(r, x) /\ x.by # Nobody
        /\ Consumes(x) /\ x.challenge.owner = x.by /\ Adds(x)
        /\ born <= MaxRegistered
        /\ ChallengeTaken(x)
        /\ passkeys' = [passkeys EXCEPT ![k] = [owner |-> x.by, count |-> x.response.count, born |-> born]]
        /\ registered' = [registered EXCEPT ![k] = born]
        /\ UNCHANGED ofRemoved

\* Whatever does not go through is rolled back, the deletion included.
CeremonyRefused(r) ==
    LET x == ceremony[r]
    IN  /\ CeremonyEnds(r, x)
        /\ IF x.by = Nobody THEN ~(Consumes(x) /\ Verified(x))
           ELSE ~(Consumes(x) /\ x.challenge.owner = x.by /\ Adds(x))
        /\ UNCHANGED <<challenges, passkeys, registered, accepted, ofRemoved>>

DeletePasskey(u, k) ==
    /\ passkeys[k] # NoKey /\ passkeys[k].owner = u
    /\ passkeys' = [passkeys EXCEPT ![k] = NoKey]
    /\ UNCHANGED <<now, challenges, counter, responses, ceremony, registered, accepted, ofRemoved>>

PasskeysTick ==
    /\ Tick
    /\ UNCHANGED <<challenges, passkeys, counter, responses, ceremony, registered, accepted, ofRemoved>>

PasskeysNext ==
    \/ PasskeysTick
    \/ \E c \in Challenges : \/ StartAuthentication(c)
                             \/ \E u \in Users : StartRegistration(c, u)
                             \/ \E k \in Credentials : SignChallenge(c, k)
    \/ \E r \in Requests : \/ \E response \in responses, u \in Users \cup {Nobody} : PresentResponse(r, response, u)
                           \/ LoginWithPasskey(r) \/ CompleteRegistration(r) \/ CeremonyRefused(r)
    \/ \E u \in Users, k \in Credentials : DeletePasskey(u, k)

PasskeysSpec == PasskeysInit /\ [][PasskeysNext]_passkeyVars
-----------------------------------------------------------------------------
\* A passkey that its owner removed signs nobody in from then on, not even the
\* login that had already read it when it was removed.
RemovedPasskeysAreDead == ofRemoved = {}

\* A credential id stays with the user who registered it for as long as its row
\* stands, even when two users register the same one at once.
OwnerStays ==
    [][\A k \in Credentials :
         passkeys[k] # NoKey /\ passkeys'[k] # NoKey => passkeys'[k].owner = passkeys[k].owner]_passkeyVars

ChallengeState(c) ==
    CASE challenges[c] = Unissued -> "unissued"
      [] challenges[c] = Gone -> IF accepted[c] > 0 THEN "spent" ELSE "dropped"
      [] OTHER -> "issued"

\* Challenges are tickets that can be used once: of all the requests that send
\* the same response, at the same time or one after another, one goes through,
\* and a response that is refused leaves the challenge to its rightful user.
ChallengeTickets == INSTANCE OneTimeTickets WITH Tickets <- Challenges, uses <- accepted,
                                                 ticket <- [c \in Challenges |-> ChallengeState(c)]
ChallengesAreTickets == ChallengeTickets!Spec

\* A passkey opens the account of the one who registered it, as long as it is
\* there, and a challenge is answered once.
PasskeysHold == []RemovedPasskeysAreDead /\ OwnerStays /\ ChallengesAreTickets
=============================================================================
