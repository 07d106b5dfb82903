-------------------------- MODULE RememberedTokens --------------------------
(***************************************************************************)
(* The access tokens the service gets for itself, from Google for pushing    *)
(* (time of life counted from before the exchange) and from the provider for *)
(* its roster (counted from after it), remembered in the process, with a     *)
(* margin, and dropped when one is refused.                                  *)
(***************************************************************************)
EXTENDS Service

CONSTANTS
    MaxTokensIssued,   \* bound of the tokens that are issued
    Lifetime, Margin,  \* of a token; by how much earlier another is fetched
    MaxExchange,       \* the longest an exchange, or a request, takes (its timeout)
    NoTokenKept

ASSUME RememberedTokensAssumption ==
    /\ MaxTokensIssued \in Nat /\ Lifetime \in Nat /\ MaxExchange \in Nat
    /\ Margin \in Nat /\ 2 * MaxExchange <= Margin /\ Margin < Lifetime

IssuedTokens == 1..MaxTokensIssued
Kept == [token: IssuedTokens, until: Nat]
Caller == [state: {"idle", "waiting", "exchanging", "sending", "told"}, since: Time, token: 0..MaxTokensIssued]

VARIABLES
    for,        \* whom the tokens are for: "pushing" or "roster"
    kept,       \* the token in the process, or NoTokenKept
    caller,     \* Requests -> where the request is, and the token it has
    deadline,   \* tokens issued so far -> the end of their life
    revoked,    \* tokens the other side takes no more
    \* history, read by the properties and by no action:
    refusedBy   \* tokens whose refusal has been dealt with

tokenVars == <<now, for, kept, caller, deadline, revoked, refusedBy>>

Resting == [state |-> "idle", since |-> 0, token |-> 0]
Exchanges(r) == caller[r].state = "exchanging"
LastToken == Cardinality(DOMAIN deadline)

\* The state has its types, and one exchange at most is under way.
TokensTypeOK ==
    /\ for \in {"pushing", "roster"}
    /\ kept \in Kept \cup {NoTokenKept} /\ caller \in [Requests -> Caller]
    /\ LastToken \in 0..MaxTokensIssued /\ deadline \in [1..LastToken -> Nat]
    /\ revoked \subseteq DOMAIN deadline /\ refusedBy \subseteq revoked
    /\ \A r, s \in Requests : Exchanges(r) /\ Exchanges(s) => r = s
    /\ kept # NoTokenKept => kept.token \in DOMAIN deadline

TokensInit ==
    /\ now = 0 /\ for \in {"pushing", "roster"}
    /\ kept = NoTokenKept /\ caller = [r \in Requests |-> Resting]
    /\ deadline = [t \in {} |-> 0] /\ revoked = {} /\ refusedBy = {}

NeedsToken(r) ==
    /\ caller[r].state = "idle"
    /\ caller' = [caller EXCEPT ![r].state = "waiting"]
    /\ UNCHANGED <<now, for, kept, deadline, revoked, refusedBy>>

\* Variant: another exchange is not waited for.
AnyTime == TRUE

\* with self._lock: held from the look at what is kept to the end of an exchange.
TokenLockIsFree == \A r \in Requests : ~Exchanges(r)

\* get and token: what is kept, or an exchange.
LooksAtKept(r) ==
    /\ caller[r].state = "waiting" /\ TokenLockIsFree
    /\ caller' = [caller EXCEPT ![r] =
         IF kept # NoTokenKept /\ now < kept.until THEN [state |-> "sending", since |-> now, token |-> kept.token]
         ELSE [state |-> "exchanging", since |-> now, token |-> 0]]
    /\ UNCHANGED <<now, for, kept, deadline, revoked, refusedBy>>

\* Variant: the margin is forgotten.
WithoutMargin(since) == (IF for = "pushing" THEN since ELSE now) + Lifetime

\* Until when a token is kept that was asked for at a time and is here now.
KeptUntil(since) == (IF for = "pushing" THEN since ELSE now) + Lifetime - Margin

\* The token was issued some time between; it is kept and goes with the request.
TokenArrives(r, issuedAt) ==
    LET t == LastToken + 1 IN
    /\ Exchanges(r) /\ t \in IssuedTokens
    /\ deadline' = [x \in 1..t |-> IF x = t THEN issuedAt + Lifetime ELSE deadline[x]]
    /\ kept' = [token |-> t, until |-> KeptUntil(caller[r].since)]
    /\ caller' = [caller EXCEPT ![r] = [state |-> "sending", since |-> now, token |-> t]]
    /\ UNCHANGED <<now, for, revoked, refusedBy>>

\* No token: the request fails, and what was kept is still there.
ExchangeFails(r) ==
    /\ Exchanges(r)
    /\ caller' = [caller EXCEPT ![r] = Resting]
    /\ UNCHANGED <<now, for, kept, deadline, revoked, refusedBy>>

\* The key is taken away, or the client is stopped, at the other side.
Revokes ==
    /\ revoked # DOMAIN deadline
    /\ revoked' = DOMAIN deadline
    /\ UNCHANGED <<now, for, kept, caller, deadline, refusedBy>>

\* The request is answered: 401 if its token is taken no more.
IsAnswered(r) ==
    /\ caller[r].state = "sending"
    /\ caller' = [caller EXCEPT ![r] = IF @.token \in revoked THEN [@ EXCEPT !.state = "told"] ELSE Resting]
    /\ UNCHANGED <<now, for, kept, deadline, revoked, refusedBy>>

\* Variant: it is kept for the requests that are still to come.
ForgetsNothing == kept

\* forget and invalidate: whatever is kept is dropped.
Forgets == NoTokenKept

DropsToken(r) ==
    /\ caller[r].state = "told" /\ TokenLockIsFree
    /\ kept' = Forgets
    /\ refusedBy' = refusedBy \cup {caller[r].token}
    /\ caller' = [caller EXCEPT ![r] = Resting]
    /\ UNCHANGED <<now, for, deadline, revoked>>

TokensTick ==
    /\ Tick /\ \A r \in Requests : caller[r].state \in {"exchanging", "sending"} => now - caller[r].since < MaxExchange
    /\ UNCHANGED <<for, kept, caller, deadline, revoked, refusedBy>>

TokensNext ==
    \/ Revokes \/ TokensTick
    \/ \E r \in Requests :
         \/ NeedsToken(r) \/ LooksAtKept(r) \/ ExchangeFails(r) \/ IsAnswered(r) \/ DropsToken(r)
         \/ \E t \in caller[r].since..now : TokenArrives(r, t)

TokensSpec == TokensInit /\ [][TokensNext]_tokenVars
-----------------------------------------------------------------------------
\* No request is under way with a token that has come to the end of its life:
\* the margin is longer than an exchange, or the sending of a request, takes.
TokensOutliveTheirUse == \A r \in Requests : caller[r].state = "sending" => now < deadline[caller[r].token]

\* A token whose refusal has been dealt with does not come back into use.
RefusedStaysDropped == kept # NoTokenKept => kept.token \notin refusedBy

\* A token is used while it lasts, and not again once it was refused.
TokensHold == TokensOutliveTheirUse /\ RefusedStaysDropped
=============================================================================
