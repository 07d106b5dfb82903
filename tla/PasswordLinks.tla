--------------------------- MODULE PasswordLinks ---------------------------
(***************************************************************************)
(* The links that let somebody choose a password: asked for by a user who   *)
(* has forgotten it, or sent to a person an administrator invites.          *)
(*                                                                          *)
(* Opening a link judges what the transaction reads: the row, the user.     *)
(* The password, the line drawn under the sign-ins and the mark on the row  *)
(* are written together, later.  A worker deletes rows of no more use.      *)
(***************************************************************************)
EXTENDS Service

CONSTANTS
    Links,           \* what token_urlsafe() can return
    ResetTtl,        \* password_reset_token_ttl_seconds
    InvitationTtl,   \* INVITATION_TTL
    NoLink,          \* no row
    NoReset,         \* no request
    NoAccount        \* no row of users

ASSUME LinksAssumption == ResetTtl \in Nat /\ InvitationTtl \in Nat

Link == [user: Members, purpose: {"reset", "invitation"}, expires: Nat, used: BOOLEAN]
Account == [password: BOOLEAN, active: BOOLEAN]

ASSUME LinksNullsAssumption == NoLink \notin Link /\ NoReset \notin Links /\ NoAccount \notin Account

VARIABLES
    account,     \* Members -> whether the row has a password and is active, or NoAccount
    links,       \* password_reset_tokens: Links -> a row, or NoLink
    resets,      \* Requests -> the link whose reset is in flight, or NoReset
    \* history, read by the properties and by no action:
    mailed,      \* Links -> the row the link was mailed with, or NoLink
    spent,       \* Links -> how often it set a password
    together     \* the links two requests opened at once

linkVars == <<now, account, links, resets, mailed, spent, together>>

\* The state has its types; every link runs out.
LinksTypeOK ==
    /\ now \in Time
    /\ account \in [Members -> Account \cup {NoAccount}]
    /\ links \in [Links -> Link \cup {NoLink}]
    /\ resets \in [Requests -> Links \cup {NoReset}]
    /\ mailed \in [Links -> Link \cup {NoLink}]
    /\ spent \in [Links -> Nat] /\ together \subseteq Links

LinksInit ==
    /\ now = 0
    /\ account = [u \in Members |-> NoAccount]
    /\ links = [l \in Links |-> NoLink]
    /\ resets = [r \in Requests |-> NoReset]
    /\ mailed = [l \in Links |-> NoLink]
    /\ spent = [l \in Links |-> 0] /\ together = {}

-----------------------------------------------------------------------------
Exists(u) == account[u] # NoAccount
Active(u) == Exists(u) /\ account[u].active
HasLocalPassword(u) == Exists(u) /\ account[u].password

\* Variant: a link has no end.
LinkForEver(l, u, purpose, ttl) ==
    /\ mailed[l] = NoLink
    /\ links' = [links EXCEPT ![l] = [user |-> u, purpose |-> purpose, expires |-> Never, used |-> FALSE]]
    /\ mailed' = [mailed EXCEPT ![l] = links'[l]]
    /\ UNCHANGED <<now, resets, spent, together>>

LinkOf(l, u, purpose, ttl) ==
    /\ mailed[l] = NoLink
    /\ links' = [links EXCEPT ![l] = [user |-> u, purpose |-> purpose, expires |-> now + ttl, used |-> FALSE]]
    /\ mailed' = [mailed EXCEPT ![l] = links'[l]]
    /\ UNCHANGED <<now, resets, spent, together>>

\* Members come with a password from an administrator, or without one from SSO.
CreateAccount(u, password) ==
    /\ ~Exists(u)
    /\ account' = [account EXCEPT ![u] = [password |-> password, active |-> TRUE]]
    /\ UNCHANGED <<now, links, resets, mailed, spent, together>>

\* A person is created without a password, and mailed a link to choose one.
InvitePerson(u, l) ==
    /\ ~Exists(u)
    /\ account' = [account EXCEPT ![u] = [password |-> FALSE, active |-> TRUE]]
    /\ LinkOf(l, u, "invitation", InvitationTtl)

\* Variant: whoever asks gets a link.
RequestResetForAnyone(u, l) ==
    /\ Active(u)
    /\ LinkOf(l, u, "reset", ResetTtl)
    /\ UNCHANGED account

\* Whoever has no password is not given one this way.
RequestReset(u, l) ==
    /\ Active(u) /\ HasLocalPassword(u)
    /\ LinkOf(l, u, "reset", ResetTtl)
    /\ UNCHANGED account

\* Variant: a used link is not told from a new one.
UsableUntilExpired(l) ==
    LET row == links[l]
    IN  /\ row # NoLink /\ row.expires >= now
        /\ Active(row.user)
        /\ HasLocalPassword(row.user) \/ row.purpose = "invitation"

Usable(l) ==
    LET row == links[l]
    IN  /\ row # NoLink /\ ~row.used /\ row.expires >= now
        /\ Active(row.user)
        /\ HasLocalPassword(row.user) \/ row.purpose = "invitation"

OpenLink(r, l) ==
    /\ resets[r] = NoReset
    /\ Usable(l)
    /\ resets' = [resets EXCEPT ![r] = l]
    /\ together' = IF \E q \in Requests : resets[q] = l THEN together \cup {l} ELSE together
    /\ UNCHANGED <<now, account, links, mailed, spent>>

\* The row is marked, if it is still there; else the request fails.
SetPassword(r) ==
    LET l == resets[r]
    IN  /\ l # NoReset
        /\ IF links[l] # NoLink
           THEN /\ account' = [account EXCEPT ![links[l].user].password = TRUE]
                /\ links' = [links EXCEPT ![l].used = TRUE]
                /\ spent' = [spent EXCEPT ![l] = @ + 1]
           ELSE UNCHANGED <<account, links, spent>>
        /\ resets' = [resets EXCEPT ![r] = NoReset]
        /\ UNCHANGED <<now, mailed, together>>

\* An administrator gives a password, or switches the account on or off.
UpdateAccount(u) ==
    /\ Exists(u)
    /\ \E new \in {[account[u] EXCEPT !.password = TRUE], [account[u] EXCEPT !.active = ~@]} :
         account' = [account EXCEPT ![u] = new]
    /\ UNCHANGED <<now, links, resets, mailed, spent, together>>

\* The foreign key of a link, used or not, keeps its user from being deleted.
DeleteAccount(u) ==
    /\ Exists(u)
    /\ \A l \in Links : links[l] # NoLink => links[l].user # u
    /\ account' = [account EXCEPT ![u] = NoAccount]
    /\ UNCHANGED <<now, links, resets, mailed, spent, together>>

\* Variant: links go in the second they expire in.
SpentLinksInclusive == {l \in Links : links[l] # NoLink /\ (links[l].used \/ links[l].expires <= now)}

SpentLinks == {l \in Links : links[l] # NoLink /\ (links[l].used \/ links[l].expires < now)}

PurgeLinks ==
    /\ SpentLinks # {}
    /\ links' = [l \in Links |-> IF l \in SpentLinks THEN NoLink ELSE links[l]]
    /\ UNCHANGED <<now, account, resets, mailed, spent, together>>

LinksTick == Tick /\ UNCHANGED <<account, links, resets, mailed, spent, together>>

LinksNext ==
    \/ LinksTick \/ PurgeLinks
    \/ \E u \in Members : \/ \E password \in BOOLEAN : CreateAccount(u, password)
                        \/ \E l \in Links : InvitePerson(u, l) \/ RequestReset(u, l)
                        \/ UpdateAccount(u) \/ DeleteAccount(u)
    \/ \E r \in Requests : \/ \E l \in Links : OpenLink(r, l)
                           \/ SetPassword(r)

LinksSpec == LinksInit /\ [][LinksNext]_linkVars
-----------------------------------------------------------------------------
\* A link sets one password: whoever finds it later, in a mailbox or in a log,
\* cannot use it again -- unless two requests opened it before either wrote.
SpentOnce == \A l \in Links \ together : spent[l] <= 1

\* A link that was mailed works until it is used or runs out: neither the worker
\* that purges spent links nor the deletion of an account takes it away.
MailedLinksStand ==
    \A l \in Links : mailed[l] # NoLink /\ spent[l] = 0 /\ now <= mailed[l].expires => links[l] = mailed[l]

\* Nobody comes to a password by asking for a reset: a reset link in the table
\* belongs to an account that has one.
ResetsReplaceAPassword ==
    \A l \in Links : links[l] # NoLink /\ links[l].purpose = "reset" => HasLocalPassword(links[l].user)

\* A link sets one password, works until it has, and replaces a password only.
LinksHold == SpentOnce /\ MailedLinksStand /\ ResetsReplaceAPassword
=============================================================================
