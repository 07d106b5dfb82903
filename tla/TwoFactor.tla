----------------------------- MODULE TwoFactor -----------------------------
(***************************************************************************)
(* The TOTP secret of a user, and what a sign-in without one may do when    *)
(* the service requires a second factor of its local users.                 *)
(*                                                                          *)
(* A request judges the row its transaction reads and writes later: the     *)
(* write meets the row as it is by then, and sets only the columns the      *)
(* request changed.  The requirement is decided again with every token, by  *)
(* what the worker that signs it believes: each has a cache of the settings  *)
(* (SettingsCache), and a save empties the one of its own worker first, so   *)
(* that a request beside it may find the default instead.                   *)
(***************************************************************************)
EXTENDS Service

CONSTANTS
    Secrets,      \* what generate_secret() can return
    AccessTtl,    \* access_token_expires_seconds
    SettingsAge,  \* bound on the seconds a request goes by settings that are not the
                  \* committed ones: _TTL_SECONDS and a load, while they can be read
    NoSecret,     \* no row
    NoAsk         \* no request

\* With a lifetime of 0 no token would ever let anybody in.
ASSUME TwoFactorAssumption ==
    AccessTtl \in Nat \ {0} /\ SettingsAge \in Nat /\ NoSecret \notin Secrets

Entrances == {"password", "passkey", "federated"}

TotpRow == [secret: Secrets, confirmed: BOOLEAN]
Ask == [kind: {"enrol", "confirm", "remove"}, user: Members,
        seen: TotpRow \cup {NoSecret}, secret: Secrets \cup {NoSecret}]
AccessToken == [user: Members, via: Entrances, until: Nat, open: BOOLEAN]

ASSUME TwoFactorNullsAssumption == NoSecret \notin TotpRow /\ NoAsk \notin Ask

VARIABLES
    totp,        \* totp_secrets: Members -> a row, or NoSecret
    asks,        \* Requests -> the request in flight, or NoAsk
    required,    \* local_two_factor_required as the committed settings have it
    saved,       \* when settings were last saved, of any key, or Never: how far the
                 \* caches of the workers may lag behind
    issued,      \* the access tokens that have not expired
    \* history, read by the properties and by no action:
    proven,      \* Members -> the secrets a code was shown for
    overtaken    \* the users one of whose requests wrote over a row it had not read, or
                 \* removed one that every worker had come to require

twoFactorVars == <<now, totp, asks, required, saved, issued, proven, overtaken>>

\* The state has its types; a row always has a secret.
TwoFactorTypeOK ==
    /\ now \in Time
    /\ totp \in [Members -> TotpRow \cup {NoSecret}]
    /\ asks \in [Requests -> Ask \cup {NoAsk}]
    /\ required \in BOOLEAN /\ saved \in Time \cup {Never}
    /\ issued \subseteq AccessToken
    /\ proven \in [Members -> SUBSET Secrets]
    /\ overtaken \subseteq Members

TwoFactorInit ==
    /\ now = 0
    /\ totp = [u \in Members |-> NoSecret]
    /\ asks = [r \in Requests |-> NoAsk]
    /\ required = FALSE /\ saved = Never
    /\ issued = {}
    /\ proven = [u \in Members |-> {}]
    /\ overtaken = {}

-----------------------------------------------------------------------------
Confirmed(u) == totp[u] # NoSecret /\ totp[u].confirmed

\* No secret is generated twice.
Generated(s) == \/ \E u \in Members : s \in proven[u] \/ (totp[u] # NoSecret /\ totp[u].secret = s)
                \/ \E r \in Requests : asks[r] # NoAsk /\ asks[r].secret = s

\* What settings.local_two_factor_required can answer a request.
MayRead(value) == value = required \/ (saved # Never /\ now <= saved + SettingsAge)

\* Variant: every local sign-in is let through once the user has begun to enrol.
NeedsSetupUntilEnrolling(u, via, answer) == answer /\ via = "password" /\ totp[u] = NoSecret

NeedsTwoFactorSetup(u, via, answer) == answer /\ via = "password" /\ ~Confirmed(u)

-----------------------------------------------------------------------------
(* The requests: judged here ...                                            *)

Asked(r, kind, u, secret) ==
    /\ asks[r] = NoAsk
    /\ asks' = [asks EXCEPT ![r] = [kind |-> kind, user |-> u, seen |-> totp[u], secret |-> secret]]
    /\ UNCHANGED <<now, totp, required, saved, issued, overtaken>>

\* An enrolment not yet confirmed can be begun again, with another secret.
StartTotpEnrollment(r, u, s) ==
    /\ ~Confirmed(u) /\ ~Generated(s)
    /\ Asked(r, "enrol", u, s)
    /\ UNCHANGED proven

\* Variant: the code is not looked at.
ConfirmWithAnyCode(r, u) ==
    /\ totp[u] # NoSecret /\ ~Confirmed(u)
    /\ Asked(r, "confirm", u, NoSecret)
    /\ UNCHANGED proven

ConfirmTotpEnrollment(r, u) ==
    /\ totp[u] # NoSecret /\ ~Confirmed(u)
    /\ Asked(r, "confirm", u, NoSecret)
    /\ proven' = [proven EXCEPT ![u] = @ \cup {totp[u].secret}]

\* Only a confirmed secret asks for its code; nothing goes while it is required, as
\* far as the worker knows.
DisableTotp(r, u) ==
    /\ MayRead(FALSE)
    /\ totp[u] # NoSecret
    /\ Asked(r, "remove", u, NoSecret)
    /\ proven' = IF Confirmed(u) THEN [proven EXCEPT ![u] = @ \cup {totp[u].secret}] ELSE proven

\* Variant: each request writes the whole row as it would have it.
WrittenWhole(ask) ==
    IF ask.kind = "remove" THEN NoSecret ELSE [secret |-> ask.secret, confirmed |-> ask.kind = "confirm"]

\* ... and written here.  A row that came or went in between fails the request.
Written(ask) ==
    LET row == totp[ask.user]
    IN  CASE ask.kind = "enrol" /\ ask.seen = NoSecret /\ row = NoSecret ->
                 [secret |-> ask.secret, confirmed |-> FALSE]
          [] ask.kind = "enrol" /\ ask.seen # NoSecret /\ row # NoSecret ->
                 [row EXCEPT !.secret = ask.secret]
          [] ask.kind = "confirm" /\ row # NoSecret -> [row EXCEPT !.confirmed = TRUE]
          [] ask.kind = "remove" -> NoSecret
          [] OTHER -> row

TotpWritten(r) ==
    /\ asks[r] # NoAsk
    /\ LET u == asks[r].user
           late == asks[r].seen # totp[u] \/ (asks[r].kind = "remove" /\ ~MayRead(FALSE))
       IN  /\ totp' = [totp EXCEPT ![u] = Written(asks[r])]
           /\ overtaken' = IF late THEN overtaken \cup {u} ELSE overtaken
    /\ asks' = [asks EXCEPT ![r] = NoAsk]
    /\ UNCHANGED <<now, required, saved, issued, proven>>

\* A sign-in, or its renewal.  With a confirmed secret it took the code.
IssueAccess(u, via) ==
    /\ \E answer \in BOOLEAN :
         /\ MayRead(answer)
         /\ issued' = issued \cup {[user |-> u, via |-> via, until |-> now + AccessTtl,
                                    open |-> ~NeedsTwoFactorSetup(u, via, answer)]}
    /\ UNCHANGED <<now, totp, asks, required, saved, proven, overtaken>>

\* PUT /api/admin/config, committed or rolled back: the requirement is switched, or
\* something else is saved.
SaveSettings ==
    /\ required' \in BOOLEAN
    /\ saved' = now
    /\ UNCHANGED <<now, totp, asks, issued, proven, overtaken>>

TwoFactorTick ==
    /\ Tick
    /\ issued' = {t \in issued : now' < t.until}
    /\ UNCHANGED <<totp, asks, required, saved, proven, overtaken>>

TwoFactorNext ==
    \/ TwoFactorTick \/ SaveSettings
    \/ \E u \in Members :
         \/ \E via \in Entrances : IssueAccess(u, via)
         \/ \E r \in Requests : \/ \E s \in Secrets : StartTotpEnrollment(r, u, s)
                                \/ ConfirmTotpEnrollment(r, u)
                                \/ DisableTotp(r, u)
    \/ \E r \in Requests : TotpWritten(r)

TwoFactorSpec == TwoFactorInit /\ [][TwoFactorNext]_twoFactorVars
-----------------------------------------------------------------------------
\* A second factor in force is a secret the user has shown a code for, so that
\* an enrolment that was broken off, begun again or removed half-way never
\* locks its user out -- unless two requests of the user overlapped and one
\* wrote over a row it had not read.
ConfirmedWasProven ==
    \A u \in Members \ overtaken : Confirmed(u) => totp[u].secret \in proven[u]

\* One access token's lifetime and the settings' age after the last save, of the
\* requirement or of anything else, every sign-in by password that can do more than
\* enrol belongs to a user with a confirmed secret, whatever was enrolled and removed
\* before and after.
RequirementTakesHold ==
    required /\ now - saved >= AccessTtl + SettingsAge =>
        \A t \in issued : t.via = "password" /\ t.open /\ t.user \notin overtaken => Confirmed(t.user)

\* A second factor is never asked for without being there, nor left out where
\* the service requires it.
SecondFactorHolds == ConfirmedWasProven /\ RequirementTakesHold
=============================================================================
