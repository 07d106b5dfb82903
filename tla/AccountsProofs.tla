--------------------------- MODULE AccountsProofs ---------------------------
(***************************************************************************)
(* Proofs about what guards a person's account -- links to choose a         *)
(* password, second factors, passkeys, the throttle, what tokens open and   *)
(* what an upgrade leaves of a person's powers -- for any number of people, *)
(* requests, links, secrets, passkeys and sign-ins and for any times.       *)
(***************************************************************************)
EXTENDS PasswordLinks, TwoFactor, Passkeys, LoginThrottle, AccessGates, Upgrades, FiniteSetTheorems, TLAPS

USE ServiceAssumption

-----------------------------------------------------------------------------
(* Links to choose a password.                                              *)

\* A link nobody was mailed has no row, set no password and is in no request.
UnmailedLinksAreUnknown ==
    \A l \in Links : mailed[l] = NoLink =>
        links[l] = NoLink /\ spent[l] = 0 /\ \A r \in Requests : resets[r] # l

\* A row is as it was mailed until it is marked, and it is marked by its use.
RowsTellTheirUse ==
    \A l \in Links :
        /\ mailed[l] # NoLink => ~mailed[l].used
        /\ links[l] # NoLink /\ spent[l] = 0 => links[l] = mailed[l]
        /\ links[l] # NoLink /\ spent[l] # 0 => links[l].used

\* Who holds a link that nobody else opened can be sure that it set no password.
HoldersAreAlone ==
    \A l \in Links \ together : \A r \in Requests :
        resets[r] = l => spent[l] = 0 /\ \A q \in Requests : resets[q] = l => q = r

\* A row belongs to a user who is there.
LinksHaveUsers == \A l \in Links : links[l] # NoLink => Exists(links[l].user)

LinksInv ==
    /\ LinksTypeOK /\ UnmailedLinksAreUnknown /\ RowsTellTheirUse /\ HoldersAreAlone
    /\ LinksHaveUsers /\ LinksHold

LEMMA LinksInitInv == LinksInit => LinksInv
<1> SUFFICES ASSUME LinksInit PROVE LinksInv
  OBVIOUS
<1>1. /\ \A l \in Links : links[l] = NoLink /\ mailed[l] = NoLink /\ spent[l] = 0
      /\ \A r \in Requests : resets[r] = NoReset
  BY DEF LinksInit
<1>2. now \in Time
  BY DEF LinksInit, Time
<1>3. LinksTypeOK
  BY <1>2 DEF LinksInit, LinksTypeOK
<1>4. UnmailedLinksAreUnknown /\ RowsTellTheirUse /\ HoldersAreAlone /\ LinksHaveUsers
  BY <1>1, LinksNullsAssumption
     DEF UnmailedLinksAreUnknown, RowsTellTheirUse, HoldersAreAlone, LinksHaveUsers
<1>5. SpentOnce /\ MailedLinksStand /\ ResetsReplaceAPassword
  BY <1>1 DEF SpentOnce, MailedLinksStand, ResetsReplaceAPassword
<1> QED BY <1>3, <1>4, <1>5 DEF LinksInv, LinksHold

\* A link that is mailed to somebody who is there, and has a password if they asked
\* for a reset, joins the others.
LEMMA LinkOfStep ==
    ASSUME LinksInv, NEW l \in Links, NEW u \in Members, NEW purpose \in {"reset", "invitation"},
           NEW ttl \in Nat, LinkOf(l, u, purpose, ttl), account' \in [Members -> Account \cup {NoAccount}],
           \A m \in Members : (Exists(m) => Exists(m)') /\ (HasLocalPassword(m) => HasLocalPassword(m)'),
           Exists(u)', purpose = "reset" => HasLocalPassword(u)'
    PROVE  LinksInv'
<1> DEFINE end == now + ttl
           row == [user |-> u, purpose |-> purpose, expires |-> end, used |-> FALSE]
<1> USE DEF LinksInv, LinksTypeOK
<1>1. end \in Nat
  BY DEF Time
<1> HIDE DEF end
<1>2. row \in Link
  BY <1>1 DEF Link
<1>3. row # NoLink /\ row.user = u /\ row.purpose = purpose /\ row.used = FALSE
  BY <1>2, LinksNullsAssumption
<1> HIDE DEF row
<1>4. /\ links' = [links EXCEPT ![l] = row] /\ mailed' = [mailed EXCEPT ![l] = row]
      /\ mailed[l] = NoLink /\ UNCHANGED <<now, resets, spent, together>>
  BY DEF LinkOf, row, end
<1>5. links[l] = NoLink /\ spent[l] = 0
  BY <1>4 DEF UnmailedLinksAreUnknown
<1>6. LinksTypeOK'
  BY <1>2, <1>4
<1>7. UnmailedLinksAreUnknown' /\ HoldersAreAlone'
  BY <1>2, <1>4 DEF UnmailedLinksAreUnknown, HoldersAreAlone
<1>8. RowsTellTheirUse'
  BY <1>2, <1>3, <1>4, <1>5 DEF RowsTellTheirUse
<1>9. LinksHaveUsers'
  BY <1>3, <1>4 DEF LinksHaveUsers, Link
<1>10. SpentOnce'
  BY <1>4 DEF LinksHold, SpentOnce
<1>11. MailedLinksStand'
  BY <1>4 DEF LinksHold, MailedLinksStand
<1>12. ResetsReplaceAPassword'
  BY <1>3, <1>4 DEF LinksHold, ResetsReplaceAPassword, Link
<1> QED BY <1>6, <1>7, <1>8, <1>9, <1>10, <1>11, <1>12 DEF LinksHold

\* What happens to the accounts does not touch the links.
LEMMA AccountStep ==
    ASSUME LinksInv, account' \in [Members -> Account \cup {NoAccount}],
           UNCHANGED <<now, links, resets, mailed, spent, together>>,
           \A l \in Links : links[l] # NoLink =>
               Exists(links[l].user)' /\ (HasLocalPassword(links[l].user) => HasLocalPassword(links[l].user)')
    PROVE  LinksInv'
<1> USE DEF LinksInv, LinksTypeOK
<1>1. LinksTypeOK' /\ UnmailedLinksAreUnknown' /\ HoldersAreAlone'
  BY DEF UnmailedLinksAreUnknown, HoldersAreAlone
<1>2. RowsTellTheirUse' /\ LinksHaveUsers'
  BY DEF RowsTellTheirUse, LinksHaveUsers
<1>3. SpentOnce' /\ MailedLinksStand'
  BY DEF LinksHold, SpentOnce, MailedLinksStand
<1>4. ResetsReplaceAPassword'
  BY DEF LinksHold, ResetsReplaceAPassword
<1> QED BY <1>1, <1>2, <1>3, <1>4 DEF LinksHold

LEMMA OpenLinkStep ==
    ASSUME LinksInv, NEW r \in Requests, NEW l \in Links, OpenLink(r, l)
    PROVE  LinksInv'
<1> USE DEF LinksInv, LinksTypeOK
<1>1. /\ links[l] # NoLink /\ ~links[l].used
      /\ resets[r] = NoReset /\ resets' = [resets EXCEPT ![r] = l]
      /\ together' = IF \E q \in Requests : resets[q] = l THEN together \cup {l} ELSE together
      /\ UNCHANGED <<now, account, links, mailed, spent>>
  BY DEF OpenLink, Usable
<1>2. spent[l] = 0 /\ mailed[l] # NoLink
  BY <1>1 DEF RowsTellTheirUse, UnmailedLinksAreUnknown
<1>3. LinksTypeOK'
  BY <1>1
<1>4. UnmailedLinksAreUnknown'
  BY <1>1, <1>2 DEF UnmailedLinksAreUnknown
<1>5. HoldersAreAlone'
  BY <1>1, <1>2, LinksNullsAssumption DEF HoldersAreAlone
<1>6. RowsTellTheirUse' /\ LinksHaveUsers' /\ ResetsReplaceAPassword'
  BY <1>1 DEF RowsTellTheirUse, LinksHaveUsers, LinksHold, ResetsReplaceAPassword, Exists, HasLocalPassword
<1>7. SpentOnce' /\ MailedLinksStand'
  BY <1>1 DEF LinksHold, SpentOnce, MailedLinksStand
<1> QED BY <1>3, <1>4, <1>5, <1>6, <1>7 DEF LinksHold

LEMMA SetPasswordStep ==
    ASSUME LinksInv, NEW r \in Requests, SetPassword(r)
    PROVE  LinksInv'
<1> USE DEF LinksInv, LinksTypeOK
<1> DEFINE l == resets[r]
           u == links[l].user
<1>1. l \in Links /\ resets' = [resets EXCEPT ![r] = NoReset] /\ UNCHANGED <<now, mailed, together>>
  BY DEF SetPassword
<1>2. ASSUME links[l] = NoLink
      PROVE  LinksInv'
  <2>1. UNCHANGED <<account, links, spent>>
    BY <1>2 DEF SetPassword
  <2>2. LinksTypeOK' /\ UnmailedLinksAreUnknown' /\ HoldersAreAlone'
    BY <1>1, <2>1, LinksNullsAssumption DEF UnmailedLinksAreUnknown, HoldersAreAlone
  <2>3. RowsTellTheirUse' /\ LinksHaveUsers' /\ ResetsReplaceAPassword'
    BY <1>1, <2>1 DEF RowsTellTheirUse, LinksHaveUsers, LinksHold, ResetsReplaceAPassword, Exists,
                      HasLocalPassword
  <2>4. SpentOnce' /\ MailedLinksStand'
    BY <1>1, <2>1 DEF LinksHold, SpentOnce, MailedLinksStand
  <2> QED BY <2>2, <2>3, <2>4 DEF LinksHold
<1>3. ASSUME links[l] # NoLink
      PROVE  LinksInv'
  <2>1. /\ account' = [account EXCEPT ![u].password = TRUE]
        /\ links' = [links EXCEPT ![l].used = TRUE]
        /\ spent' = [spent EXCEPT ![l] = @ + 1]
    BY <1>3 DEF SetPassword
  <2>2. links[l] \in Link /\ u \in Members /\ Exists(u) /\ account[u] \in Account
    BY <1>1, <1>3 DEF Link, LinksHaveUsers, Exists
  <2>3. /\ [links[l] EXCEPT !.used = TRUE] \in Link
        /\ [links[l] EXCEPT !.used = TRUE].used = TRUE
        /\ [links[l] EXCEPT !.used = TRUE].user = u
        /\ [links[l] EXCEPT !.used = TRUE].purpose = links[l].purpose
    BY <2>2 DEF Link
  <2>4. [account[u] EXCEPT !.password = TRUE] \in Account /\ [account[u] EXCEPT !.password = TRUE].password = TRUE
    BY <2>2 DEF Account
  <2>5. /\ \A k \in Links \ {l} : links'[k] = links[k] /\ spent'[k] = spent[k]
        /\ links'[l] = [links[l] EXCEPT !.used = TRUE] /\ spent'[l] = spent[l] + 1
    BY <1>1, <2>1
  <2>6. \A n \in Nat : n + 1 \in Nat /\ n + 1 # 0
    OBVIOUS
  <2>7. spent'[l] \in Nat /\ spent'[l] # 0
    BY <1>1, <2>5, <2>6
  <2>8. links' \in [Links -> Link \cup {NoLink}] /\ spent' \in [Links -> Nat]
    <3>1. links' \in [Links -> Link \cup {NoLink}]
      BY <2>1, <2>3
    <3>2. spent' \in [Links -> Nat]
      BY <2>1, <2>6
    <3> QED BY <3>1, <3>2
  <2>9. account' \in [Members -> Account \cup {NoAccount}]
    BY <2>1, <2>4
  <2>10. LinksTypeOK'
    BY <1>1, <2>8, <2>9
  <2>11. \A m \in Members : (Exists(m) => Exists(m)') /\ (HasLocalPassword(m) => HasLocalPassword(m)')
    BY <2>1, <2>2, <2>4, LinksNullsAssumption DEF Exists, HasLocalPassword
  <2>12. UnmailedLinksAreUnknown'
    <3>1. ASSUME NEW k \in Links, mailed[k] = NoLink
          PROVE  links'[k] = NoLink /\ spent'[k] = 0 /\ \A q \in Requests : resets'[q] # k
      <4>1. k # l /\ links[k] = NoLink /\ spent[k] = 0 /\ \A q \in Requests : resets[q] # k
        BY <1>1, <1>3, <3>1 DEF UnmailedLinksAreUnknown
      <4>2. \A q \in Requests : resets'[q] # k
        BY <1>1, <4>1, LinksNullsAssumption
      <4> QED BY <2>5, <4>1, <4>2
    <3> QED BY <1>1, <3>1 DEF UnmailedLinksAreUnknown
  <2>13. RowsTellTheirUse'
    BY <1>1, <2>3, <2>5, <2>7 DEF RowsTellTheirUse
  <2>14. HoldersAreAlone'
    BY <1>1, <2>5, LinksNullsAssumption DEF HoldersAreAlone
  <2>15. LinksHaveUsers' /\ ResetsReplaceAPassword'
    <3>1. ASSUME NEW k \in Links, links'[k] # NoLink
          PROVE  links[k] # NoLink /\ links'[k].user = links[k].user /\ links'[k].purpose = links[k].purpose
                 /\ links[k].user \in Members
      BY <1>1, <1>3, <2>3, <2>5, <3>1 DEF Link
    <3> QED BY <2>11, <3>1 DEF LinksHaveUsers, LinksHold, ResetsReplaceAPassword
  <2>16. SpentOnce'
    <3>1. ASSUME NEW k \in Links \ together PROVE spent'[k] <= 1
      <4>1. CASE k = l
        <5>1. spent[l] = 0
          BY <4>1 DEF HoldersAreAlone
        <5>2. spent'[l] = 1
          BY <2>5, <5>1
        <5> QED BY <4>1, <5>2
      <4>2. CASE k # l
        BY <2>5, <4>2 DEF LinksHold, SpentOnce
      <4> QED BY <4>1, <4>2
    <3> QED BY <1>1, <3>1 DEF SpentOnce
  <2>17. MailedLinksStand'
    <3>1. ASSUME NEW k \in Links, mailed[k] # NoLink, spent'[k] = 0, now <= mailed[k].expires
            PROVE  links'[k] = mailed[k]
      <4>1. k # l /\ spent[k] = 0 /\ links'[k] = links[k]
        BY <2>5, <2>7, <3>1
      <4>2. links[k] = mailed[k]
        BY <3>1, <4>1 DEF LinksHold, MailedLinksStand
      <4> QED BY <4>1, <4>2
    <3> QED BY <1>1, <3>1 DEF MailedLinksStand
  <2> QED BY <2>10, <2>12, <2>13, <2>14, <2>15, <2>16, <2>17 DEF LinksHold
<1> QED BY <1>2, <1>3

LEMMA PurgeLinksStep == ASSUME LinksInv, PurgeLinks PROVE LinksInv'
<1> USE DEF LinksInv, LinksTypeOK
<1>1. /\ \A l \in Links : links'[l] = IF l \in SpentLinks THEN NoLink ELSE links[l]
      /\ links' \in [Links -> Link \cup {NoLink}]
      /\ UNCHANGED <<now, account, resets, mailed, spent, together>>
  BY DEF PurgeLinks
<1>2. LinksTypeOK' /\ UnmailedLinksAreUnknown' /\ HoldersAreAlone'
  BY <1>1 DEF UnmailedLinksAreUnknown, HoldersAreAlone
<1>3. RowsTellTheirUse' /\ LinksHaveUsers' /\ ResetsReplaceAPassword'
  BY <1>1 DEF RowsTellTheirUse, LinksHaveUsers, LinksHold, ResetsReplaceAPassword, Exists, HasLocalPassword
<1>4. SpentOnce'
  BY <1>1 DEF LinksHold, SpentOnce
<1>5. MailedLinksStand'
  <2>1. ASSUME NEW l \in Links, mailed[l] # NoLink, spent[l] = 0, now <= mailed[l].expires
        PROVE  l \notin SpentLinks
    <3>1. links[l] = mailed[l] /\ ~mailed[l].used
      BY <2>1 DEF LinksHold, MailedLinksStand, RowsTellTheirUse
    <3>2. mailed[l].expires \in Nat /\ now \in Nat
      BY <2>1 DEF Link, Time
    <3>3. ~(mailed[l].expires < now)
      BY <2>1, <3>2
    <3> QED BY <3>1, <3>3 DEF SpentLinks
  <2> QED BY <1>1, <2>1 DEF LinksHold, MailedLinksStand
<1> QED BY <1>2, <1>3, <1>4, <1>5 DEF LinksHold

LEMMA LinksStep == ASSUME LinksInv, [LinksNext]_linkVars PROVE LinksInv'
<1> USE DEF LinksInv, LinksTypeOK
<1>1. CASE UNCHANGED linkVars
  BY <1>1 DEF linkVars, UnmailedLinksAreUnknown, RowsTellTheirUse, HoldersAreAlone, LinksHaveUsers,
              LinksHold, SpentOnce, MailedLinksStand, ResetsReplaceAPassword, Exists, HasLocalPassword
<1>2. CASE LinksTick
  <2>1. /\ now' = now + 1 /\ now \in Nat /\ now' \in Time
        /\ UNCHANGED <<account, links, resets, mailed, spent, together>>
    BY <1>2 DEF LinksTick, Tick, Time
  <2>2. LinksTypeOK' /\ UnmailedLinksAreUnknown' /\ HoldersAreAlone'
    BY <2>1 DEF UnmailedLinksAreUnknown, HoldersAreAlone
  <2>3. RowsTellTheirUse' /\ LinksHaveUsers' /\ ResetsReplaceAPassword'
    BY <2>1 DEF RowsTellTheirUse, LinksHaveUsers, LinksHold, ResetsReplaceAPassword, Exists, HasLocalPassword
  <2>4. SpentOnce'
    BY <2>1 DEF LinksHold, SpentOnce
  <2>5. MailedLinksStand'
    <3>1. ASSUME NEW l \in Links, mailed[l] # NoLink, spent[l] = 0, now' <= mailed[l].expires
          PROVE  links[l] = mailed[l]
      <4>1. mailed[l].expires \in Nat
        BY <3>1 DEF Link
      <4>2. now <= mailed[l].expires
        BY <2>1, <3>1, <4>1
      <4> QED BY <3>1, <4>2 DEF LinksHold, MailedLinksStand
    <3> QED BY <2>1, <3>1 DEF MailedLinksStand
  <2> QED BY <2>2, <2>3, <2>4, <2>5 DEF LinksHold
<1>3. ASSUME NEW u \in Members, NEW password \in BOOLEAN, CreateAccount(u, password)
      PROVE  LinksInv'
  <2>1. [password |-> password, active |-> TRUE] \in Account
    BY DEF Account
  <2>2. /\ account' \in [Members -> Account \cup {NoAccount}]
        /\ \A m \in Members \ {u} : account'[m] = account[m]
        /\ UNCHANGED <<now, links, resets, mailed, spent, together>>
    BY <1>3, <2>1 DEF CreateAccount
  <2>3. \A l \in Links : links[l] # NoLink => links[l].user \in Members \ {u}
    BY <1>3 DEF CreateAccount, LinksHaveUsers, Link
  <2> QED BY <2>2, <2>3, AccountStep DEF LinksHaveUsers, Exists, HasLocalPassword
<1>4. ASSUME NEW u \in Members, NEW l \in Links, InvitePerson(u, l)
      PROVE  LinksInv'
  <2>1. [password |-> FALSE, active |-> TRUE] \in Account
    BY DEF Account
  <2>2. /\ account' = [account EXCEPT ![u] = [password |-> FALSE, active |-> TRUE]]
        /\ account[u] = NoAccount /\ LinkOf(l, u, "invitation", InvitationTtl)
    BY <1>4 DEF InvitePerson, Exists
  <2>3. account' \in [Members -> Account \cup {NoAccount}]
    BY <2>1, <2>2
  <2>4. /\ \A m \in Members : (Exists(m) => Exists(m)') /\ (HasLocalPassword(m) => HasLocalPassword(m)')
        /\ Exists(u)'
    BY <2>1, <2>2, LinksNullsAssumption DEF Exists, HasLocalPassword
  <2> QED BY <2>2, <2>3, <2>4, LinkOfStep, LinksAssumption
<1>5. ASSUME NEW u \in Members, NEW l \in Links, RequestReset(u, l)
      PROVE  LinksInv'
  <2>1. /\ account' = account /\ Exists(u) /\ HasLocalPassword(u) /\ LinkOf(l, u, "reset", ResetTtl)
    BY <1>5 DEF RequestReset, Active
  <2>2. \A m \in Members : (Exists(m) = Exists(m)') /\ (HasLocalPassword(m) = HasLocalPassword(m)')
    BY <2>1 DEF Exists, HasLocalPassword
  <2> QED BY <2>1, <2>2, LinkOfStep, LinksAssumption
<1>6. ASSUME NEW u \in Members, UpdateAccount(u)
      PROVE  LinksInv'
  <2>1. account[u] \in Account /\ Exists(u)
    BY <1>6 DEF UpdateAccount, Exists
  <2>2. PICK new \in {[account[u] EXCEPT !.password = TRUE], [account[u] EXCEPT !.active = ~@]} :
              account' = [account EXCEPT ![u] = new]
    BY <1>6 DEF UpdateAccount
  <2>3. new \in Account /\ (account[u].password => new.password)
    BY <2>1, <2>2 DEF Account
  <2>4. /\ account' \in [Members -> Account \cup {NoAccount}]
        /\ UNCHANGED <<now, links, resets, mailed, spent, together>>
    BY <1>6, <2>2, <2>3 DEF UpdateAccount
  <2>5. \A m \in Members : (Exists(m) => Exists(m)') /\ (HasLocalPassword(m) => HasLocalPassword(m)')
    BY <2>1, <2>2, <2>3, LinksNullsAssumption DEF Exists, HasLocalPassword
  <2>6. \A l \in Links : links[l] # NoLink => links[l].user \in Members
    BY DEF Link
  <2> QED BY <2>4, <2>5, <2>6, AccountStep DEF LinksHaveUsers
<1>7. ASSUME NEW u \in Members, DeleteAccount(u)
      PROVE  LinksInv'
  <2>1. /\ account' \in [Members -> Account \cup {NoAccount}]
        /\ \A m \in Members \ {u} : account'[m] = account[m]
        /\ UNCHANGED <<now, links, resets, mailed, spent, together>>
    BY <1>7 DEF DeleteAccount
  <2>2. \A l \in Links : links[l] # NoLink => links[l].user \in Members \ {u}
    BY <1>7 DEF DeleteAccount, Link
  <2> QED BY <2>1, <2>2, AccountStep DEF LinksHaveUsers, Exists, HasLocalPassword
<1> QED BY <1>1, <1>2, <1>3, <1>4, <1>5, <1>6, <1>7, OpenLinkStep, SetPasswordStep, PurgeLinksStep
        DEF LinksNext

\* A link sets one password, works until it has or runs out, and gives none to an
\* account that never had one: PasswordResetService.confirm and the purge job.
THEOREM LinksAreOnePassword == LinksSpec => []LinksHold
<1>1. LinksInv => LinksHold
  BY DEF LinksInv
<1> QED BY LinksInitInv, LinksStep, <1>1, PTL DEF LinksSpec

-----------------------------------------------------------------------------
(* The second factor.                                                       *)

\* A request goes by what it read: it begins an enrolment of one who has none in
\* force, and confirms a secret its user has shown a code for.
AsksAreJudged ==
    \A r \in Requests : asks[r] # NoAsk =>
        /\ asks[r].kind = "enrol" => asks[r].seen = NoSecret \/ ~asks[r].seen.confirmed
        /\ asks[r].kind = "enrol" => asks[r].secret \in Secrets
        /\ asks[r].kind = "confirm" => asks[r].seen # NoSecret /\ asks[r].seen.secret \in proven[asks[r].user]

\* An open sign-in by password that the requirement did not judge is older than the
\* time by which every worker knows of it.
OpenOnesAreOlder ==
    required => \A t \in issued :
        t.via = "password" /\ t.open /\ t.user \notin overtaken =>
            Confirmed(t.user) \/ t.until <= saved + SettingsAge + AccessTtl

\* No token in the list has run out, and none lives longer than tokens do.
IssuedAreAlive ==
    /\ required => saved \in Time
    /\ \A t \in issued : t.until \in Nat /\ now < t.until /\ t.until <= now + AccessTtl

TwoFactorInv ==
    TwoFactorTypeOK /\ AsksAreJudged /\ ConfirmedWasProven /\ IssuedAreAlive /\ OpenOnesAreOlder

LEMMA TwoFactorInitInv == TwoFactorInit => TwoFactorInv
<1> SUFFICES ASSUME TwoFactorInit PROVE TwoFactorInv
  OBVIOUS
<1>1. now \in Time /\ saved \in Time \cup {Never}
  BY DEF TwoFactorInit, Time
<1>2. TwoFactorTypeOK
  BY <1>1 DEF TwoFactorInit, TwoFactorTypeOK
<1>3. AsksAreJudged /\ ConfirmedWasProven
  BY DEF TwoFactorInit, AsksAreJudged, ConfirmedWasProven, Confirmed
<1>4. IssuedAreAlive /\ OpenOnesAreOlder
  BY DEF TwoFactorInit, IssuedAreAlive, OpenOnesAreOlder
<1> QED BY <1>2, <1>3, <1>4 DEF TwoFactorInv

\* What only adds to the proofs and to the requests changes no row and no token.
LEMMA AskedStep ==
    ASSUME TwoFactorInv, NEW r \in Requests, NEW kind \in {"enrol", "confirm", "remove"}, NEW u \in Members,
           NEW s \in Secrets \cup {NoSecret}, Asked(r, kind, u, s),
           proven' \in [Members -> SUBSET Secrets], \A m \in Members : proven[m] \subseteq proven'[m],
           kind = "enrol" => ~Confirmed(u) /\ s \in Secrets,
           kind = "confirm" => totp[u] # NoSecret /\ totp[u].secret \in proven'[u]
    PROVE  TwoFactorInv'
<1> USE DEF TwoFactorInv, TwoFactorTypeOK
<1> DEFINE ask == [kind |-> kind, user |-> u, seen |-> totp[u], secret |-> s]
<1>1. ask \in Ask
  BY DEF Ask
<1>2. /\ ask # NoAsk /\ ask.kind = kind /\ ask.user = u /\ ask.seen = totp[u] /\ ask.secret = s
  BY <1>1, TwoFactorNullsAssumption
<1> HIDE DEF ask
<1>3. asks' = [asks EXCEPT ![r] = ask] /\ UNCHANGED <<now, totp, required, saved, issued, overtaken>>
  BY DEF Asked, ask
<1>4. TwoFactorTypeOK'
  BY <1>1, <1>3
<1>5. AsksAreJudged'
  <2>1. ASSUME NEW q \in Requests, q # r, asks[q] # NoAsk
        PROVE  asks'[q] = asks[q] /\ asks[q].user \in Members
    BY <1>3, <2>1 DEF Ask
  <2>2. asks'[r] = ask
    BY <1>3
  <2> QED BY <1>2, <1>3, <2>1, <2>2 DEF AsksAreJudged, Confirmed
<1>6. ConfirmedWasProven'
  BY <1>3 DEF ConfirmedWasProven, Confirmed
<1>7. IssuedAreAlive' /\ OpenOnesAreOlder'
  <2>1. IssuedAreAlive'
    BY <1>3 DEF IssuedAreAlive
  <2>2. \A m \in Members : Confirmed(m)' = Confirmed(m)
    BY <1>3 DEF Confirmed
  <2>3. \A t \in issued : t.user \in Members
    BY DEF AccessToken
  <2> QED BY <1>3, <2>1, <2>2, <2>3 DEF OpenOnesAreOlder
<1> QED BY <1>4, <1>5, <1>6, <1>7

\* A write that nothing overtook puts no secret in force that was not proven, and
\* takes none out of force that the requirement asks for.
LEMMA TotpWrittenStep ==
    ASSUME TwoFactorInv, NEW r \in Requests, TotpWritten(r)
    PROVE  TwoFactorInv'
<1> USE DEF TwoFactorInv, TwoFactorTypeOK
<1>0. asks[r] \in Ask /\ asks[r] # NoAsk /\ asks[r].user \in Members
  BY DEF TotpWritten, Ask
<1> SUFFICES ASSUME NEW u \in Members, u = asks[r].user PROVE TwoFactorInv'
  BY <1>0
<1> DEFINE ask == asks[r]
           row == totp[u]
           late == asks[r].seen # totp[u] \/ (asks[r].kind = "remove" /\ ~MayRead(FALSE))
<1>1. /\ ask \in Ask /\ ask # NoAsk /\ ask.user = u /\ row \in TotpRow \cup {NoSecret}
      /\ totp' = [totp EXCEPT ![u] = Written(ask)]
      /\ asks' = [asks EXCEPT ![r] = NoAsk]
      /\ overtaken' = IF late THEN overtaken \cup {u} ELSE overtaken
      /\ UNCHANGED <<now, required, saved, issued, proven>>
  BY <1>0 DEF TotpWritten
<1>2. ask.kind = "enrol" => ask.secret \in Secrets
  BY <1>1 DEF AsksAreJudged
<1>3. Written(ask) \in TotpRow \cup {NoSecret}
  <2>1. ASSUME NEW s \in Secrets PROVE [secret |-> s, confirmed |-> FALSE] \in TotpRow
    BY DEF TotpRow
  <2>2. ASSUME NEW s \in Secrets, row \in TotpRow PROVE [row EXCEPT !.secret = s] \in TotpRow
    BY <2>2 DEF TotpRow
  <2>3. ASSUME row \in TotpRow PROVE [row EXCEPT !.confirmed = TRUE] \in TotpRow
    BY <2>3 DEF TotpRow
  <2>4. ask.kind \in {"enrol", "confirm", "remove"}
    BY <1>1 DEF Ask
  <2>5. CASE ask.kind = "enrol"
    BY <1>1, <1>2, <2>1, <2>2, <2>5 DEF Written
  <2>6. CASE ask.kind = "confirm"
    BY <1>1, <2>3, <2>6 DEF Written
  <2>7. CASE ask.kind = "remove"
    BY <2>7 DEF Written
  <2> QED BY <2>4, <2>5, <2>6, <2>7
<1>4. TwoFactorTypeOK'
  BY <1>1, <1>3
<1>5. AsksAreJudged'
  BY <1>1 DEF AsksAreJudged
<1>6. \A m \in Members : m # u => Confirmed(m)' = Confirmed(m) /\ totp'[m] = totp[m]
  BY <1>1 DEF Confirmed
<1>7. ConfirmedWasProven'
  <2>1. ASSUME u \notin overtaken', Confirmed(u)'
        PROVE  totp'[u].secret \in proven'[u]
    <3>1. ~late /\ u \notin overtaken /\ row = ask.seen /\ totp'[u] = Written(ask)
      BY <1>1, <2>1
    <3>2. totp'[u] # NoSecret /\ totp'[u].confirmed
      BY <2>1 DEF Confirmed
    <3>3. CASE ask.kind = "enrol"
      <4>1. row = NoSecret \/ ~row.confirmed
        BY <1>1, <3>1, <3>3 DEF AsksAreJudged
      <4>2. ASSUME row = NoSecret PROVE FALSE
        BY <3>1, <3>2, <3>3, <4>2 DEF Written
      <4>3. ASSUME row # NoSecret PROVE FALSE
        <5>1. totp'[u] = [row EXCEPT !.secret = ask.secret] /\ row \in TotpRow
          BY <1>1, <3>1, <3>3, <4>3 DEF Written
        <5>2. totp'[u].confirmed = row.confirmed
          BY <5>1 DEF TotpRow
        <5> QED BY <3>2, <4>1, <4>3, <5>2
      <4> QED BY <4>2, <4>3
    <3>4. CASE ask.kind = "confirm"
      <4>1. row # NoSecret /\ row.secret \in proven[u]
        BY <1>1, <3>1, <3>4 DEF AsksAreJudged
      <4>2. totp'[u] = [row EXCEPT !.confirmed = TRUE] /\ row \in TotpRow
        BY <1>1, <3>1, <3>4, <4>1 DEF Written
      <4>3. totp'[u].secret = row.secret
        BY <4>2 DEF TotpRow
      <4> QED BY <1>1, <4>1, <4>3
    <3>5. CASE ask.kind = "remove"
      BY <3>1, <3>2, <3>5 DEF Written
    <3> QED BY <1>1, <3>3, <3>4, <3>5 DEF Ask
  <2> QED BY <1>1, <1>6, <2>1 DEF ConfirmedWasProven
<1>8. IssuedAreAlive'
  BY <1>1 DEF IssuedAreAlive
<1>9. OpenOnesAreOlder'
  <2>1. ASSUME required, u \notin overtaken', Confirmed(u), ~MayRead(FALSE)
        PROVE  Confirmed(u)'
    <3>1. ~late /\ row = ask.seen /\ totp'[u] = Written(ask) /\ row # NoSecret /\ row.confirmed /\ row \in TotpRow
      BY <1>1, <2>1 DEF Confirmed
    <3>2. ask.kind = "confirm"
      BY <1>1, <2>1, <3>1 DEF AsksAreJudged, Ask
    <3>3. totp'[u] = [row EXCEPT !.confirmed = TRUE]
      BY <3>1, <3>2 DEF Written
    <3>4. [row EXCEPT !.confirmed = TRUE] \in TotpRow /\ [row EXCEPT !.confirmed = TRUE].confirmed
      BY <3>1 DEF TotpRow
    <3> QED BY <3>3, <3>4, TwoFactorNullsAssumption DEF Confirmed
  <2>2. \A t \in issued : t.user \in Members
    BY DEF AccessToken
  \* while a worker may not know of it, no token outlives that time by more than its life
  <2>3. ASSUME required, MayRead(FALSE), NEW t \in issued PROVE t.until <= saved + SettingsAge + AccessTtl
    <3>1. saved \in Nat /\ now \in Nat /\ now <= saved + SettingsAge /\ t.until \in Nat /\ t.until <= now + AccessTtl
      BY <2>3 DEF MayRead, IssuedAreAlive, Time
    <3> QED BY <3>1, TwoFactorAssumption
  <2>4. UNCHANGED <<required, issued, saved>> /\ overtaken \subseteq overtaken'
    BY <1>1
  <2>5. CASE MayRead(FALSE)
    BY <2>3, <2>4, <2>5 DEF OpenOnesAreOlder
  <2>6. CASE ~MayRead(FALSE)
    BY <1>6, <2>1, <2>2, <2>4, <2>6 DEF OpenOnesAreOlder
  <2> QED BY <2>5, <2>6
<1> QED BY <1>4, <1>5, <1>7, <1>8, <1>9

LEMMA IssueAccessStep ==
    ASSUME TwoFactorInv, NEW u \in Members, NEW via \in Entrances, IssueAccess(u, via)
    PROVE  TwoFactorInv'
<1> USE DEF TwoFactorInv, TwoFactorTypeOK
<1> SUFFICES ASSUME NEW answer \in BOOLEAN, MayRead(answer),
                    issued' = issued \cup {[user |-> u, via |-> via, until |-> now + AccessTtl,
                                            open |-> ~NeedsTwoFactorSetup(u, via, answer)]}
             PROVE  TwoFactorInv'
  BY DEF IssueAccess
<1> DEFINE end == now + AccessTtl
           new == [user |-> u, via |-> via, until |-> end, open |-> ~NeedsTwoFactorSetup(u, via, answer)]
<1>1. end \in Nat /\ now < end
  BY TwoFactorAssumption DEF Time
<1>2. /\ issued' = issued \cup {new} /\ UNCHANGED <<now, totp, asks, required, saved, proven, overtaken>>
  BY DEF IssueAccess
<1>3. IssuedAreAlive'
  <2>1. new.until = end
    OBVIOUS
  <2> HIDE DEF new
  <2>2. end <= now + AccessTtl
    BY <1>1
  <2> QED BY <1>1, <1>2, <2>1, <2>2 DEF IssuedAreAlive
<1> HIDE DEF end
<1>4. (~NeedsTwoFactorSetup(u, via, answer)) \in BOOLEAN
  BY DEF NeedsTwoFactorSetup
<1>5. new \in AccessToken
  BY <1>1, <1>4 DEF AccessToken
<1>6. TwoFactorTypeOK'
  BY <1>2, <1>5
<1>7. AsksAreJudged' /\ ConfirmedWasProven'
  BY <1>2 DEF AsksAreJudged, ConfirmedWasProven, Confirmed
<1>8. OpenOnesAreOlder'
  <2>1. answer /\ new.via = "password" /\ new.open => Confirmed(new.user)
    BY DEF NeedsTwoFactorSetup
  <2>4. new.until = end
    OBVIOUS
  <2> HIDE DEF new
  <2>5. ASSUME required, ~answer PROVE new.until <= saved + SettingsAge + AccessTtl
    <3>1. saved # Never /\ now <= saved + SettingsAge
      BY <2>5, Zenon DEF MayRead
    <3>2. saved \in Nat /\ now \in Nat /\ now <= saved + SettingsAge
      BY <3>1 DEF Time
    <3> QED BY <2>4, <3>2, TwoFactorAssumption DEF end
  <2>2. \A m \in Members : Confirmed(m)' = Confirmed(m)
    BY <1>2 DEF Confirmed
  <2>3. \A t \in issued \cup {new} : t.user \in Members
    BY <1>5 DEF AccessToken
  <2>6. required /\ new.via = "password" /\ new.open =>
          Confirmed(new.user) \/ new.until <= saved + SettingsAge + AccessTtl
    BY <2>1, <2>5
  <2> QED BY <1>2, <2>2, <2>3, <2>6 DEF OpenOnesAreOlder
<1> QED BY <1>3, <1>6, <1>7, <1>8

LEMMA TwoFactorStep == ASSUME TwoFactorInv, [TwoFactorNext]_twoFactorVars PROVE TwoFactorInv'
<1> USE DEF TwoFactorInv, TwoFactorTypeOK
<1>1. CASE UNCHANGED twoFactorVars
  BY <1>1 DEF twoFactorVars, AsksAreJudged, ConfirmedWasProven, IssuedAreAlive, OpenOnesAreOlder, Confirmed
<1>2. CASE TwoFactorTick
  <2>1. /\ now \in Nat /\ now' = now + 1 /\ now' \in Time /\ issued' = {t \in issued : now' < t.until}
        /\ UNCHANGED <<totp, asks, required, saved, proven, overtaken>>
    BY <1>2 DEF TwoFactorTick, Tick, Time
  <2>2. TwoFactorTypeOK'
    BY <2>1
  <2>3. AsksAreJudged' /\ ConfirmedWasProven'
    BY <2>1 DEF AsksAreJudged, ConfirmedWasProven, Confirmed
  <2>4. IssuedAreAlive'
    <3>1. \A t \in issued' : t.until \in Nat /\ now' < t.until /\ t.until <= now + AccessTtl
      BY <2>1 DEF IssuedAreAlive
    <3>2. \A n \in Nat : n <= now + AccessTtl => n <= now' + AccessTtl
      BY <2>1, TwoFactorAssumption
    <3>3. required' => saved' \in Time
      BY <2>1 DEF IssuedAreAlive
    <3> QED BY <3>1, <3>2, <3>3 DEF IssuedAreAlive
  <2>5. OpenOnesAreOlder'
    BY <2>1 DEF OpenOnesAreOlder, Confirmed
  <2> QED BY <2>2, <2>3, <2>4, <2>5
<1>3. CASE SaveSettings
  <2>1. /\ required' \in BOOLEAN /\ saved' = now
        /\ UNCHANGED <<now, totp, asks, issued, proven, overtaken>>
    BY <1>3 DEF SaveSettings
  <2>2. TwoFactorTypeOK'
    BY <2>1
  <2>3. AsksAreJudged' /\ ConfirmedWasProven'
    BY <2>1 DEF AsksAreJudged, ConfirmedWasProven, Confirmed
  <2>4. IssuedAreAlive'
    BY <2>1 DEF IssuedAreAlive
  <2>5. \A t \in issued' : t.until <= saved' + SettingsAge + AccessTtl
    <3>1. ASSUME NEW t \in issued PROVE t.until <= now + SettingsAge + AccessTtl
      <4>1. t.until \in Nat /\ now \in Nat /\ t.until <= now + AccessTtl
        BY DEF IssuedAreAlive, Time
      <4> QED BY <4>1, TwoFactorAssumption
    <3> QED BY <2>1, <3>1
  <2>6. OpenOnesAreOlder'
    BY <2>5 DEF OpenOnesAreOlder
  <2> QED BY <2>2, <2>3, <2>4, <2>6
<1>4. ASSUME NEW u \in Members, NEW r \in Requests, NEW s \in Secrets, StartTotpEnrollment(r, u, s)
      PROVE  TwoFactorInv'
  BY <1>4, AskedStep DEF StartTotpEnrollment
<1>5. ASSUME NEW u \in Members, NEW r \in Requests, ConfirmTotpEnrollment(r, u)
      PROVE  TwoFactorInv'
  <2>1. /\ totp[u] # NoSecret /\ Asked(r, "confirm", u, NoSecret)
        /\ proven' = [proven EXCEPT ![u] = @ \cup {totp[u].secret}]
    BY <1>5 DEF ConfirmTotpEnrollment
  <2>2. totp[u].secret \in Secrets
    BY <2>1 DEF TotpRow
  <2> QED BY <2>1, <2>2, AskedStep
<1>6. ASSUME NEW u \in Members, NEW r \in Requests, DisableTotp(r, u)
      PROVE  TwoFactorInv'
  <2>1. /\ totp[u] # NoSecret /\ Asked(r, "remove", u, NoSecret)
        /\ proven' = IF Confirmed(u) THEN [proven EXCEPT ![u] = @ \cup {totp[u].secret}] ELSE proven
    BY <1>6 DEF DisableTotp
  <2>2. totp[u].secret \in Secrets
    BY <2>1 DEF TotpRow
  <2>3. proven' \in [Members -> SUBSET Secrets] /\ \A m \in Members : proven[m] \subseteq proven'[m]
    BY <2>1, <2>2
  <2> QED BY <2>1, <2>3, AskedStep
<1> QED BY <1>1, <1>2, <1>3, <1>4, <1>5, <1>6, TotpWrittenStep, IssueAccessStep DEF TwoFactorNext

\* A secret in force was proven by its user, and one token life and the settings' age
\* after settings were last saved whoever does more than enrol has one, where the
\* service requires it: TotpService and needs_two_factor_setup, decided again with
\* every token.
THEOREM SecondFactorsAreProven == TwoFactorSpec => []SecondFactorHolds
<1>1. TwoFactorInv => SecondFactorHolds
  <2> SUFFICES ASSUME TwoFactorInv PROVE RequirementTakesHold
    BY DEF TwoFactorInv, SecondFactorHolds
  <2>1. ASSUME required, now - saved >= AccessTtl + SettingsAge, NEW t \in issued
        PROVE  ~(t.until <= saved + SettingsAge + AccessTtl)
    BY <2>1, TwoFactorAssumption DEF TwoFactorInv, TwoFactorTypeOK, IssuedAreAlive, Time
  <2> QED BY <2>1 DEF RequirementTakesHold, TwoFactorInv, OpenOnesAreOlder
<1> QED BY TwoFactorInitInv, TwoFactorStep, <1>1, PTL DEF TwoFactorSpec

-----------------------------------------------------------------------------
(* Passkeys.                                                                *)

\* A row of a credential is its latest; what a ceremony has read of a row is that
\* row or an older one, and a row has one owner for its time.
RowsAreTheLatest ==
    /\ \A k \in Credentials : passkeys[k] # NoKey => passkeys[k].born = registered[k]
    /\ \A r \in Requests : ceremony[r] # NoCeremony /\ ceremony[r].key # NoKey =>
          LET k == ceremony[r].response.credential
          IN  /\ ceremony[r].key.born <= registered[k]
              /\ passkeys[k] # NoKey /\ ceremony[r].key.born = passkeys[k].born =>
                     ceremony[r].key.owner = passkeys[k].owner

\* A challenge that was not taken let nobody in.
ChallengesAreUnspent == \A c \in Challenges : challenges[c] # Gone => accepted[c] = 0

PasskeysInv == PasskeysTypeOK /\ RowsAreTheLatest /\ ChallengesAreUnspent /\ RemovedPasskeysAreDead

LEMMA PasskeysInitInv == PasskeysInit => PasskeysInv
<1> SUFFICES ASSUME PasskeysInit PROVE PasskeysInv
  OBVIOUS
<1>1. now \in Time /\ 0 \in 0..MaxCount /\ 0 \in 0..MaxRegistered
  BY PasskeysAssumption DEF PasskeysInit, Time
<1>2. PasskeysTypeOK
  BY <1>1 DEF PasskeysInit, PasskeysTypeOK
<1>3. RowsAreTheLatest /\ ChallengesAreUnspent /\ RemovedPasskeysAreDead
  BY DEF PasskeysInit, RowsAreTheLatest, ChallengesAreUnspent, RemovedPasskeysAreDead
<1> QED BY <1>2, <1>3 DEF PasskeysInv

\* What a step may do with owners: none of them changes while a row stands.
OwnersStay == \A k \in Credentials : passkeys[k] # NoKey /\ passkeys'[k] # NoKey => passkeys'[k].owner = passkeys[k].owner

\* What the steps do with challenges, in the words of OneTimeTickets.
TicketStep == [ChallengeTickets!Next]_<<[c \in Challenges |-> ChallengeState(c)], accepted>>

LEMMA ChallengeStatesKept ==
    ASSUME UNCHANGED <<challenges, accepted>>
    PROVE  TicketStep
BY DEF TicketStep, ChallengeState

LEMMA IssueChallengeStep ==
    ASSUME PasskeysInv, NEW c \in Challenges, NEW purpose \in {"registration", "authentication"},
           NEW owner \in Users \cup {Nobody}, IssueChallenge(c, purpose, owner)
    PROVE  PasskeysInv' /\ OwnersStay /\ TicketStep
<1> USE DEF PasskeysInv, PasskeysTypeOK
<1> DEFINE end == now + ChallengeTtl
           row == [purpose |-> purpose, owner |-> owner, expires |-> end]
           swept == {d \in Challenges \ {c} : InTable(d) /\ challenges[d].expires < now}
<1>1. end \in Nat
  BY PasskeysAssumption DEF Time
<1>2. /\ challenges[c] = Unissued
      /\ challenges' = [d \in Challenges |-> IF d = c THEN row ELSE IF d \in swept THEN Gone ELSE challenges[d]]
      /\ UNCHANGED <<now, passkeys, counter, responses, ceremony, registered, accepted, ofRemoved>>
  BY DEF IssueChallenge
<1> HIDE DEF end
<1>3. row \in ChallengeRow /\ row \notin {Unissued, Gone}
  BY <1>1, PasskeysNullsAssumption DEF ChallengeRow
<1> HIDE DEF row
<1>4. PasskeysTypeOK'
  BY <1>2, <1>3
<1>5. RowsAreTheLatest' /\ RemovedPasskeysAreDead'
  BY <1>2 DEF RowsAreTheLatest, RemovedPasskeysAreDead
<1>6. Unissued # Gone
  BY PasskeysAssumption
<1>7. ChallengesAreUnspent'
  BY <1>2, <1>6 DEF ChallengesAreUnspent
<1>8. OwnersStay
  BY <1>2 DEF OwnersStay
<1>9. TicketStep
  <2>1. /\ \A d \in swept : ChallengeState(d) = "issued" /\ ChallengeState(d)' = "dropped"
        /\ ChallengeState(c) = "unissued" /\ ChallengeState(c)' = "issued"
        /\ \A d \in Challenges \ (swept \cup {c}) : ChallengeState(d)' = ChallengeState(d)
    <3>1. ASSUME NEW d \in swept PROVE ChallengeState(d) = "issued" /\ ChallengeState(d)' = "dropped"
      <4>1. challenges[d] \notin {Unissued, Gone} /\ accepted[d] = 0
        BY DEF InTable, ChallengesAreUnspent
      <4>2. challenges'[d] = Gone /\ ~(accepted'[d] > 0) /\ Gone # Unissued
        BY <1>2, <1>6, <4>1
      <4> QED BY <4>1, <4>2 DEF ChallengeState
    <3>2. ChallengeState(c) = "unissued" /\ ChallengeState(c)' = "issued"
      <4>1. challenges[c] = Unissued /\ challenges'[c] \notin {Unissued, Gone}
        BY <1>2, <1>3
      <4> QED BY <1>6, <4>1 DEF ChallengeState
    <3>3. ASSUME NEW d \in Challenges \ (swept \cup {c}) PROVE ChallengeState(d)' = ChallengeState(d)
      BY <1>2 DEF ChallengeState
    <3> QED BY <3>1, <3>2, <3>3
  <2> HIDE DEF swept
  <2>2. swept \subseteq Challenges
    BY DEF swept
  <2>3. ChallengeTickets!Sweep(swept, {c})
    BY <1>2, <2>1, <2>2 DEF ChallengeTickets!Sweep
  <2> QED BY <2>2, <2>3 DEF TicketStep, ChallengeTickets!Next
<1> QED BY <1>4, <1>5, <1>7, <1>8, <1>9

LEMMA ChallengeTakenStep ==
    ASSUME PasskeysInv, NEW x, x.response.challenge \in Challenges, InTable(x.response.challenge),
           ChallengeTaken(x)
    PROVE  TicketStep /\ ChallengesAreUnspent' /\ accepted' \in [Challenges -> Nat]
           /\ challenges' \in [Challenges -> ChallengeRow \cup {Unissued, Gone}]
<1> USE DEF PasskeysInv, PasskeysTypeOK
<1> SUFFICES ASSUME NEW c \in Challenges, c = x.response.challenge
             PROVE  TicketStep /\ ChallengesAreUnspent' /\ accepted' \in [Challenges -> Nat]
                    /\ challenges' \in [Challenges -> ChallengeRow \cup {Unissued, Gone}]
  OBVIOUS
<1>1. /\ challenges[c] \notin {Unissued, Gone} /\ accepted[c] = 0
      /\ challenges' = [challenges EXCEPT ![c] = Gone]
      /\ accepted' = [accepted EXCEPT ![c] = @ + 1]
  BY DEF ChallengeTaken, InTable, ChallengesAreUnspent
<1>2. accepted' = [accepted EXCEPT ![c] = 1]
  BY <1>1
<1>3. ChallengesAreUnspent' /\ accepted' \in [Challenges -> Nat]
      /\ challenges' \in [Challenges -> ChallengeRow \cup {Unissued, Gone}]
  BY <1>1, <1>2 DEF ChallengesAreUnspent
<1>4. ChallengeState(c) = "issued" /\ ChallengeState(c)' = "spent"
  <2>1. challenges'[c] = Gone /\ accepted'[c] > 0
    BY <1>1, <1>2
  <2>2. Gone # Unissued
    BY PasskeysAssumption
  <2> QED BY <1>1, <2>1, <2>2 DEF ChallengeState
<1>5. \A d \in Challenges \ {c} : ChallengeState(d)' = ChallengeState(d)
  BY <1>1, <1>2 DEF ChallengeState
<1>6. ChallengeTickets!Redeem(c)
  BY <1>2, <1>4, <1>5 DEF ChallengeTickets!Redeem
<1> QED BY <1>3, <1>6 DEF TicketStep, ChallengeTickets!Next

LEMMA PresentResponseStep ==
    ASSUME PasskeysInv, NEW r \in Requests, NEW response \in responses, NEW u \in Users \cup {Nobody},
           PresentResponse(r, response, u)
    PROVE  PasskeysInv'
<1> USE DEF PasskeysInv, PasskeysTypeOK
<1> DEFINE c == response.challenge
           k == response.credential
           x == [response |-> response, by |-> u, challenge |-> challenges[c], key |-> passkeys[k]]
<1>1. /\ response \in Response /\ c \in Challenges /\ k \in Credentials
      /\ challenges[c] \in ChallengeRow /\ passkeys[k] \in KeyRow \cup {NoKey}
  BY DEF Response, PresentResponse, InTable
<1>2. x \in Ceremony
  BY <1>1 DEF Ceremony
<1>3. x # NoCeremony /\ x.response = response /\ x.key = passkeys[k]
  BY <1>2, PasskeysNullsAssumption
<1>4. /\ ceremony' = [ceremony EXCEPT ![r] = x]
      /\ UNCHANGED <<now, challenges, passkeys, counter, responses, registered, accepted, ofRemoved>>
  BY DEF PresentResponse
<1> HIDE DEF x
<1>5. PasskeysTypeOK'
  BY <1>2, <1>4
<1>6. RowsAreTheLatest'
  <2>1. passkeys[k] # NoKey => passkeys[k].born = registered[k] /\ registered[k] \in Nat
    BY <1>1 DEF RowsAreTheLatest
  <2>2. ASSUME x.key # NoKey
        PROVE  /\ x.key.born <= registered[x.response.credential]
               /\ passkeys[x.response.credential] # NoKey /\ x.key.born = passkeys[x.response.credential].born =>
                      x.key.owner = passkeys[x.response.credential].owner
    BY <1>3, <2>1, <2>2
  <2>3. \A q \in Requests : q # r => ceremony'[q] = ceremony[q]
    BY <1>4
  <2>4. ceremony'[r] = x
    BY <1>4
  <2> QED BY <1>4, <2>2, <2>3, <2>4 DEF RowsAreTheLatest
<1>7. ChallengesAreUnspent' /\ RemovedPasskeysAreDead'
  BY <1>4 DEF ChallengesAreUnspent, RemovedPasskeysAreDead
<1> QED BY <1>5, <1>6, <1>7

\* The end of a ceremony that changed the row of its credential, or none.
LEMMA CeremonyEndsType ==
    ASSUME PasskeysInv, NEW r \in Requests, NEW x, CeremonyEnds(r, x)
    PROVE  /\ x \in Ceremony /\ x = ceremony[r] /\ x.response.challenge \in Challenges
           /\ x.response.credential \in Credentials /\ x.response.count \in Nat
           /\ x.key \in KeyRow \cup {NoKey} /\ x.by \in Users \cup {Nobody}
           /\ ceremony' \in [Requests -> Ceremony \cup {NoCeremony}]
           /\ \A q \in Requests : ceremony'[q] # NoCeremony => ceremony'[q] = ceremony[q]
           /\ UNCHANGED <<now, counter, responses>>
BY DEF PasskeysInv, PasskeysTypeOK, CeremonyEnds, Ceremony, Response

LEMMA LoginWithPasskeyStep ==
    ASSUME PasskeysInv, NEW r \in Requests, LoginWithPasskey(r)
    PROVE  PasskeysInv' /\ OwnersStay /\ TicketStep
<1> USE DEF PasskeysInv, PasskeysTypeOK
<1> DEFINE x == ceremony[r]
<1>1. CeremonyEnds(r, x) /\ InTable(x.response.challenge) /\ ChallengeTaken(x) /\ StillThere(x) /\ UNCHANGED registered
  BY DEF LoginWithPasskey, Consumes, Verified
<1> SUFFICES ASSUME NEW k \in Credentials, k = x.response.credential, NEW count \in Nat, count = x.response.count
             PROVE  PasskeysInv' /\ OwnersStay /\ TicketStep
  BY <1>1, CeremonyEndsType
<1>2. passkeys' = [passkeys EXCEPT ![k].count = count] /\ ofRemoved' = ofRemoved
  BY <1>1 DEF LoginWithPasskey
<1>3. passkeys[k] \in KeyRow /\ passkeys[k] # NoKey
  BY <1>1 DEF StillThere
<1>4. /\ [passkeys[k] EXCEPT !.count = count] \in KeyRow
      /\ [passkeys[k] EXCEPT !.count = count].owner = passkeys[k].owner
      /\ [passkeys[k] EXCEPT !.count = count].born = passkeys[k].born
  BY <1>3 DEF KeyRow
<1>5. /\ passkeys' \in [Credentials -> KeyRow \cup {NoKey}]
      /\ \A l \in Credentials : passkeys'[l] # NoKey =>
             passkeys[l] # NoKey /\ passkeys'[l].owner = passkeys[l].owner /\ passkeys'[l].born = passkeys[l].born
  BY <1>2, <1>3, <1>4
<1>6. TicketStep /\ ChallengesAreUnspent' /\ accepted' \in [Challenges -> Nat]
      /\ challenges' \in [Challenges -> ChallengeRow \cup {Unissued, Gone}]
  BY <1>1, CeremonyEndsType, ChallengeTakenStep
<1>7. PasskeysTypeOK'
  BY <1>1, <1>2, <1>5, <1>6, CeremonyEndsType
<1>8. RowsAreTheLatest'
  <2>1. \A l \in Credentials : passkeys'[l] # NoKey => passkeys'[l].born = registered'[l]
    BY <1>1, <1>5 DEF RowsAreTheLatest
  <2>2. ASSUME NEW q \in Requests, ceremony'[q] # NoCeremony, ceremony'[q].key # NoKey, NEW l,
               l = ceremony'[q].response.credential
        PROVE  /\ ceremony'[q].key.born <= registered'[l]
               /\ passkeys'[l] # NoKey /\ ceremony'[q].key.born = passkeys'[l].born =>
                      ceremony'[q].key.owner = passkeys'[l].owner
    <3>1. ceremony'[q] = ceremony[q] /\ ceremony[q] \in Ceremony /\ l \in Credentials
      BY <1>1, <2>2, CeremonyEndsType DEF Ceremony, Response
    <3> QED BY <1>1, <1>5, <2>2, <3>1 DEF RowsAreTheLatest
  <2> QED BY <2>1, <2>2 DEF RowsAreTheLatest
<1>9. OwnersStay
  BY <1>5 DEF OwnersStay
<1>10. RemovedPasskeysAreDead'
  BY <1>2 DEF RemovedPasskeysAreDead
<1> QED BY <1>6, <1>7, <1>8, <1>9, <1>10

LEMMA CompleteRegistrationStep ==
    ASSUME PasskeysInv, NEW r \in Requests, CompleteRegistration(r)
    PROVE  PasskeysInv' /\ OwnersStay /\ TicketStep
<1> USE DEF PasskeysInv, PasskeysTypeOK
<1> DEFINE x == ceremony[r]
<1>1. CeremonyEnds(r, x) /\ InTable(x.response.challenge) /\ ChallengeTaken(x) /\ Adds(x)
      /\ x.by \in Users /\ UNCHANGED ofRemoved
  BY CeremonyEndsType DEF CompleteRegistration, Consumes
<1> SUFFICES ASSUME NEW k \in Credentials, k = x.response.credential, NEW count \in Nat, count = x.response.count,
                    NEW by \in Users, by = x.by,
                    NEW born, born = IF x.key = NoKey THEN registered[k] + 1 ELSE x.key.born
             PROVE  PasskeysInv' /\ OwnersStay /\ TicketStep
  BY <1>1, CeremonyEndsType
<1>2. /\ born <= MaxRegistered
      /\ passkeys' = [passkeys EXCEPT ![k] = [owner |-> by, count |-> count, born |-> born]]
      /\ registered' = [registered EXCEPT ![k] = born]
  BY <1>1 DEF CompleteRegistration
\* Either there was no row, and the new one is later than all that was read, or it
\* is the row that was read, and of the same owner.
<1>3. \/ passkeys[k] = NoKey /\ born = registered[k] + 1
      \/ passkeys[k] # NoKey /\ born = registered[k] /\ born = passkeys[k].born /\ by = passkeys[k].owner
  <2>1. CASE x.key = NoKey /\ passkeys[k] = NoKey
    BY <2>1
  <2>2. CASE StillThere(x) /\ x.key.owner = x.by
    <3>1. passkeys[k] # NoKey /\ x.key # NoKey /\ passkeys[k].born = x.key.born /\ x # NoCeremony
      BY <1>1, <2>2 DEF StillThere, CeremonyEnds
    <3>2. x.key.owner = passkeys[k].owner /\ passkeys[k].born = registered[k]
      BY <3>1 DEF RowsAreTheLatest
    <3> QED BY <2>2, <3>1, <3>2
  <2> QED BY <1>1, <2>1, <2>2 DEF Adds
<1>4. registered[k] \in Nat /\ registered[k] + 1 \in Nat /\ ~(registered[k] + 1 <= registered[k])
      /\ \A n \in Nat : n <= registered[k] => n <= registered[k] + 1
  OBVIOUS
<1>5. born \in 0..MaxRegistered /\ born \in Nat
  BY <1>2, <1>3, <1>4
<1>6. [owner |-> by, count |-> count, born |-> born] \in KeyRow
  BY <1>5 DEF KeyRow
<1>7. TicketStep /\ ChallengesAreUnspent' /\ accepted' \in [Challenges -> Nat]
      /\ challenges' \in [Challenges -> ChallengeRow \cup {Unissued, Gone}]
  BY <1>1, CeremonyEndsType, ChallengeTakenStep
<1>8. PasskeysTypeOK'
  <2>1. passkeys' \in [Credentials -> KeyRow \cup {NoKey}] /\ registered' \in [Credentials -> 0..MaxRegistered]
    BY <1>2, <1>5, <1>6
  <2> QED BY <1>1, <1>7, <2>1, CeremonyEndsType
<1>9. /\ passkeys'[k].owner = by /\ passkeys'[k].born = born /\ registered'[k] = born
      /\ \A l \in Credentials \ {k} : passkeys'[l] = passkeys[l] /\ registered'[l] = registered[l]
  BY <1>2
<1>10. OwnersStay
  BY <1>3, <1>9 DEF OwnersStay
<1>11. RowsAreTheLatest'
  <2>1. \A l \in Credentials : passkeys'[l] # NoKey => passkeys'[l].born = registered'[l]
    BY <1>9 DEF RowsAreTheLatest
  <2>2. ASSUME NEW q \in Requests, ceremony'[q] # NoCeremony, ceremony'[q].key # NoKey, NEW l,
               l = ceremony'[q].response.credential
        PROVE  /\ ceremony'[q].key.born <= registered'[l]
               /\ passkeys'[l] # NoKey /\ ceremony'[q].key.born = passkeys'[l].born =>
                      ceremony'[q].key.owner = passkeys'[l].owner
    <3>1. ceremony'[q] = ceremony[q] /\ ceremony[q] \in Ceremony /\ l \in Credentials /\ ceremony[q].key \in KeyRow
      BY <1>1, <2>2, CeremonyEndsType DEF Ceremony, Response
    <3>2. /\ ceremony[q].key.born <= registered[l] /\ ceremony[q].key.born \in Nat
          /\ passkeys[l] # NoKey /\ ceremony[q].key.born = passkeys[l].born => ceremony[q].key.owner = passkeys[l].owner
      BY <2>2, <3>1 DEF RowsAreTheLatest, KeyRow
    <3>3. CASE l # k
      BY <1>9, <3>1, <3>2, <3>3
    <3>4. CASE l = k /\ born = registered[k]
      BY <1>3, <1>4, <1>9, <3>1, <3>2, <3>4
    <3>5. CASE l = k /\ born = registered[k] + 1
      <4>1. ceremony[q].key.born <= born /\ ceremony[q].key.born # born
        BY <1>4, <3>2, <3>5
      <4> QED BY <1>9, <3>1, <3>5, <4>1
    <3> QED BY <1>3, <3>3, <3>4, <3>5
  <2> QED BY <2>1, <2>2 DEF RowsAreTheLatest
<1>12. RemovedPasskeysAreDead'
  BY <1>1 DEF RemovedPasskeysAreDead
<1> QED BY <1>7, <1>8, <1>10, <1>11, <1>12

LEMMA PasskeysStep ==
    ASSUME PasskeysInv, [PasskeysNext]_passkeyVars
    PROVE  PasskeysInv' /\ OwnersStay /\ TicketStep
<1> USE DEF PasskeysInv, PasskeysTypeOK
<1>1. CASE UNCHANGED passkeyVars
  <2>1. PasskeysInv' /\ OwnersStay
    BY <1>1 DEF passkeyVars, RowsAreTheLatest, ChallengesAreUnspent, RemovedPasskeysAreDead, OwnersStay
  <2> QED BY <1>1, <2>1, ChallengeStatesKept DEF passkeyVars
<1>2. CASE PasskeysTick
  <2>1. now' \in Time /\ UNCHANGED <<challenges, passkeys, counter, responses, ceremony, registered, accepted, ofRemoved>>
    BY <1>2 DEF PasskeysTick, Tick, Time
  <2>2. PasskeysInv' /\ OwnersStay
    BY <2>1 DEF RowsAreTheLatest, ChallengesAreUnspent, RemovedPasskeysAreDead, OwnersStay
  <2> QED BY <2>1, <2>2, ChallengeStatesKept
<1>3. ASSUME NEW c \in Challenges, NEW k \in Credentials, SignChallenge(c, k)
      PROVE  PasskeysInv' /\ OwnersStay /\ TicketStep
  <2>1. /\ counter[k] + 1 \in 0..MaxCount /\ counter[k] + 1 \in Nat
        /\ UNCHANGED <<now, challenges, passkeys, ceremony, registered, accepted, ofRemoved>>
    BY <1>3, PasskeysAssumption DEF SignChallenge
  <2>2. counter' \in [Credentials -> 0..MaxCount]
    BY <1>3, <2>1 DEF SignChallenge
  <2>3. responses' \subseteq Response
    <3>1. [challenge |-> c, credential |-> k, count |-> counter[k] + 1] \in Response
      BY <2>1 DEF Response
    <3> QED BY <1>3, <3>1 DEF SignChallenge
  <2>4. PasskeysTypeOK'
    BY <2>1, <2>2, <2>3
  <2>5. RowsAreTheLatest' /\ ChallengesAreUnspent' /\ RemovedPasskeysAreDead' /\ OwnersStay
    BY <2>1 DEF RowsAreTheLatest, ChallengesAreUnspent, RemovedPasskeysAreDead, OwnersStay
  <2> QED BY <2>1, <2>4, <2>5, ChallengeStatesKept
<1>4. ASSUME NEW r \in Requests, NEW response \in responses, NEW u \in Users \cup {Nobody},
             PresentResponse(r, response, u)
      PROVE  PasskeysInv' /\ OwnersStay /\ TicketStep
  <2>1. UNCHANGED <<challenges, passkeys, accepted>>
    BY <1>4 DEF PresentResponse
  <2> QED BY <1>4, <2>1, PresentResponseStep, ChallengeStatesKept DEF OwnersStay
<1>5. ASSUME NEW r \in Requests, CeremonyRefused(r)
      PROVE  PasskeysInv' /\ OwnersStay /\ TicketStep
  <2>1. CeremonyEnds(r, ceremony[r]) /\ UNCHANGED <<challenges, passkeys, registered, accepted, ofRemoved>>
    BY <1>5 DEF CeremonyRefused
  <2>2. PasskeysTypeOK' /\ ChallengesAreUnspent' /\ RemovedPasskeysAreDead' /\ OwnersStay
    BY <2>1, CeremonyEndsType DEF ChallengesAreUnspent, RemovedPasskeysAreDead, OwnersStay
  <2>3. RowsAreTheLatest'
    BY <2>1, CeremonyEndsType DEF RowsAreTheLatest
  <2> QED BY <2>1, <2>2, <2>3, ChallengeStatesKept
<1>6. ASSUME NEW u \in Users, NEW k \in Credentials, DeletePasskey(u, k)
      PROVE  PasskeysInv' /\ OwnersStay /\ TicketStep
  <2>1. /\ passkeys' = [passkeys EXCEPT ![k] = NoKey]
        /\ UNCHANGED <<now, challenges, counter, responses, ceremony, registered, accepted, ofRemoved>>
    BY <1>6 DEF DeletePasskey
  <2>2. /\ PasskeysTypeOK' /\ ChallengesAreUnspent' /\ RemovedPasskeysAreDead' /\ OwnersStay
        /\ \A l \in Credentials : passkeys'[l] # NoKey => passkeys'[l] = passkeys[l]
    BY <2>1 DEF ChallengesAreUnspent, RemovedPasskeysAreDead, OwnersStay
  <2>3. RowsAreTheLatest'
    <3>1. \A r \in Requests : ceremony[r] # NoCeremony => ceremony[r].response.credential \in Credentials
      BY DEF Ceremony, Response
    <3> QED BY <2>1, <2>2, <3>1 DEF RowsAreTheLatest
  <2> QED BY <2>1, <2>2, <2>3, ChallengeStatesKept
<1> QED BY <1>1, <1>2, <1>3, <1>4, <1>5, <1>6, IssueChallengeStep, LoginWithPasskeyStep, CompleteRegistrationStep
        DEF PasskeysNext, StartAuthentication, StartRegistration

\* A removed passkey opens nothing, a credential id stays with its owner, and a
\* challenge is a ticket that is used once: consume's DELETE and the primary keys.
THEOREM PasskeysAreTheirOwners == PasskeysSpec => PasskeysHold
<1>1. PasskeysInit => ChallengeTickets!Init
  <2> SUFFICES ASSUME PasskeysInit PROVE ChallengeTickets!Init
    OBVIOUS
  <2>1. Unissued # Gone
    BY PasskeysAssumption
  <2>2. \A c \in Challenges : ChallengeState(c) = "unissued"
    BY <2>1 DEF PasskeysInit, ChallengeState
  <2> QED BY <2>2 DEF PasskeysInit, ChallengeTickets!Init
<1>2. PasskeysInv /\ [PasskeysNext]_passkeyVars =>
          [ChallengeTickets!Next]_<<[c \in Challenges |-> ChallengeState(c)], accepted>>
  BY PasskeysStep DEF TicketStep
<1>3. PasskeysInv /\ [PasskeysNext]_passkeyVars =>
          [\A k \in Credentials : passkeys[k] # NoKey /\ passkeys'[k] # NoKey =>
               passkeys'[k].owner = passkeys[k].owner]_passkeyVars
  BY PasskeysStep DEF OwnersStay
<1>4. PasskeysInv => RemovedPasskeysAreDead
  BY DEF PasskeysInv
<1>5. PasskeysSpec => []PasskeysInv
  BY PasskeysInitInv, PasskeysStep, PTL DEF PasskeysSpec
<1>6. PasskeysSpec => ChallengesAreTickets
  BY <1>1, <1>2, <1>5, PTL DEF PasskeysSpec, ChallengesAreTickets, ChallengeTickets!Spec
<1>7. PasskeysSpec => OwnerStays
  BY <1>3, <1>5, PTL DEF PasskeysSpec, OwnerStays
<1> QED BY <1>4, <1>5, <1>6, <1>7, PTL DEF PasskeysHold

-----------------------------------------------------------------------------
(* The throttle.                                                            *)

Due == [from: Time, count: Nat]
Open(d, t) == d.count > 0 /\ t - d.from < Window

\* A row and the count that is due say the same at a time, and what they count.
Agree(row, d, t) ==
    /\ Open(d, t) <=> WindowOpen(row, t)
    /\ Open(d, t) => row.started = d.from /\ row.failures = d.count
    /\ Open(d, t) /\ d.count >= MaxFailures => row.locked # Never

\* They go on to agree as time passes ...
LEMMA AgreeLater ==
    ASSUME NEW row \in Attempts \cup {NoAttempts}, NEW d \in Due, NEW t \in Time, t + 1 \in Time, Agree(row, d, t)
    PROVE  Agree(row, d, t + 1)
<1> USE PolicyAssumption DEF Agree, Open, WindowOpen, Due, Time, Attempts
<1>1. CASE row = NoAttempts
  BY <1>1
<1>2. CASE row # NoAttempts
  BY <1>2
<1> QED BY <1>1, <1>2

LEMMA AfterFailureType ==
    ASSUME NEW row \in Attempts \cup {NoAttempts}, NEW t \in Time
    PROVE  /\ AfterFailure(row, t) \in Attempts /\ AfterFailure(row, t) # NoAttempts
           /\ WindowOpen(row, t) => /\ AfterFailure(row, t).failures = row.failures + 1
                                    /\ AfterFailure(row, t).started = row.started
           /\ ~WindowOpen(row, t) => /\ AfterFailure(row, t).failures = 1
                                     /\ AfterFailure(row, t).started = t
           /\ AfterFailure(row, t).locked # Never => AfterFailure(row, t).failures >= MaxFailures
                                                     /\ AfterFailure(row, t).locked = t + LockDuration
           /\ AfterFailure(row, t).failures >= MaxFailures => AfterFailure(row, t).locked # Never
<1> DEFINE n == IF WindowOpen(row, t) THEN row.failures + 1 ELSE 1
           s == IF WindowOpen(row, t) THEN row.started ELSE t
           k == IF n >= MaxFailures THEN t + LockDuration ELSE Never
<1>1. n \in Nat \ {0} /\ s \in Time
  BY DEF WindowOpen, Attempts
<1>2. /\ k \in Int /\ (k # Never => n >= MaxFailures /\ k = t + LockDuration)
      /\ (n >= MaxFailures => k # Never)
  BY <1>1, PolicyAssumption DEF Never, Time
<1>3. AfterFailure(row, t) = [failures |-> n, started |-> s, locked |-> k]
  BY DEF AfterFailure
<1>4. [failures |-> n, started |-> s, locked |-> k] \in Attempts
  BY <1>1, <1>2 DEF Attempts
<1>5. (WindowOpen(row, t) => n = row.failures + 1 /\ s = row.started) /\ (~WindowOpen(row, t) => n = 1 /\ s = t)
  OBVIOUS
<1> HIDE DEF n, s, k
<1> QED BY <1>2, <1>3, <1>4, <1>5, NoAttemptsAssumption

\* ... when one more failure is counted on both ...
LEMMA AgreeCounted ==
    ASSUME NEW row \in Attempts \cup {NoAttempts}, NEW d \in Due, NEW t \in Time, Agree(row, d, t)
    PROVE  Agree(AfterFailure(row, t),
                 IF Open(d, t) THEN [from |-> d.from, count |-> d.count + 1] ELSE [from |-> t, count |-> 1], t)
<1> DEFINE new == AfterFailure(row, t)
           e == IF Open(d, t) THEN [from |-> d.from, count |-> d.count + 1] ELSE [from |-> t, count |-> 1]
<1>1. /\ d.from \in Time /\ d.count \in Nat /\ t \in Nat /\ Window \in Nat \ {0}
      /\ new \in Attempts /\ new # NoAttempts
  BY AfterFailureType, PolicyAssumption DEF Due, Time
<1>2. CASE Open(d, t)
  <2>1. e.from = d.from /\ e.count = d.count + 1 /\ d.count > 0 /\ t - d.from < Window
    BY <1>2 DEF Open, Due
  <2>2. new.started = d.from /\ new.failures = d.count + 1
    BY <1>2, AfterFailureType DEF Agree
  <2>3. Open(e, t) /\ WindowOpen(new, t)
    BY <1>1, <2>1, <2>2 DEF Open, WindowOpen
  <2> HIDE DEF e, new
  <2>4. new.failures >= MaxFailures => new.locked # Never
    BY AfterFailureType DEF new
  <2> QED BY <2>1, <2>2, <2>3, <2>4 DEF Agree, e, new
<1>3. CASE ~Open(d, t)
  <2>1. e.from = t /\ e.count = 1
    BY <1>3
  <2>2. new.started = t /\ new.failures = 1
    BY <1>3, AfterFailureType DEF Agree
  <2>3. Open(e, t) /\ WindowOpen(new, t)
    BY <1>1, <2>1, <2>2 DEF Open, WindowOpen
  <2> HIDE DEF e, new
  <2>4. new.failures >= MaxFailures => new.locked # Never
    BY AfterFailureType DEF new
  <2> QED BY <2>1, <2>2, <2>3, <2>4 DEF Agree, e, new
<1> QED BY <1>2, <1>3

\* ... when a row is swept that was of no more use before, and with a success.
LEMMA StaleLater ==
    ASSUME NEW row \in Attempts \cup {NoAttempts}, NEW s \in Time, NEW t \in Time, s <= t, IsStale(row, s)
    PROVE  ~WindowOpen(row, t) /\ ~Refuses(row, t)
BY PolicyAssumption DEF IsStale, WindowOpen, Refuses, Attempts, Time, Never

LEMMA AgreeSwept ==
    ASSUME NEW row \in Attempts \cup {NoAttempts}, NEW d \in Due, NEW s \in Time, NEW t \in Time, s <= t,
           IsStale(row, s), Agree(row, d, t)
    PROVE  Agree(NoAttempts, d, t)
BY StaleLater DEF Agree, WindowOpen

LEMMA AgreeSucceeded ==
    ASSUME NEW d \in Due, NEW t \in Time
    PROVE  [d EXCEPT !.count = 0] \in Due /\ Agree(NoAttempts, [d EXCEPT !.count = 0], t)
<1>1. [d EXCEPT !.count = 0] \in Due /\ [d EXCEPT !.count = 0].count = 0
  BY DEF Due
<1>2. ~Open([d EXCEPT !.count = 0], t)
  BY <1>1 DEF Open
<1> QED BY <1>1, <1>2 DEF Agree, WindowOpen

\* What a row says was counted is among these failures.
Claimed(row, F) ==
    row # NoAttempts =>
        /\ row.failures <= Cardinality({f \in F : f[1] >= row.started})
        /\ row.locked # Never => row.failures >= MaxFailures /\ \E f \in F : row.locked = f[1] + LockDuration

LEMMA ClaimedOfMore ==
    ASSUME NEW row \in Attempts \cup {NoAttempts}, NEW F, NEW G, F \subseteq G, IsFiniteSet(G), Claimed(row, F)
    PROVE  Claimed(row, G)
<1> SUFFICES ASSUME row # NoAttempts PROVE Claimed(row, G)
  BY DEF Claimed
<1> DEFINE inF == {f \in F : f[1] >= row.started}
           inG == {f \in G : f[1] >= row.started}
<1>1. inF \subseteq inG /\ inG \subseteq G
  OBVIOUS
<1> HIDE DEF inF, inG
<1>2. IsFiniteSet(inG)
  BY <1>1, FS_Subset
<1>3. /\ IsFiniteSet(inF) /\ Cardinality(inF) <= Cardinality(inG)
      /\ Cardinality(inF) \in Nat /\ Cardinality(inG) \in Nat
  BY <1>1, <1>2, FS_Subset, FS_CardinalityType
<1>4. row.failures <= Cardinality(inF) /\ row.failures \in Nat
  BY DEF Claimed, inF, Attempts
<1>5. row.failures <= Cardinality(inG)
  BY <1>3, <1>4
<1> QED BY <1>5 DEF Claimed, inG

\* One more failure is one more to claim.
LEMMA ClaimedCounted ==
    ASSUME NEW row \in Attempts \cup {NoAttempts}, NEW F \in SUBSET (Time \X Tries), IsFiniteSet(F),
           NEW t \in Time, NEW r \in Tries, <<t, r>> \notin F,
           Claimed(row, F), row # NoAttempts => row.started <= t
    PROVE  /\ Claimed(AfterFailure(row, t), F \cup {<<t, r>>})
           /\ AfterFailure(row, t).started <= t
<1> DEFINE new == AfterFailure(row, t)
           G == F \cup {<<t, r>>}
           inG == {f \in G : f[1] >= new.started}
<1>1. /\ new \in Attempts /\ new # NoAttempts
      /\ new.locked # Never => new.failures >= MaxFailures /\ new.locked = t + LockDuration
  BY AfterFailureType
<1>2. IsFiniteSet(G)
  BY FS_AddElement
<1>3. inG \subseteq G
  OBVIOUS
<1>4. IsFiniteSet(inG) /\ Cardinality(inG) \in Nat
  BY <1>2, <1>3, FS_Subset, FS_CardinalityType
<1>5. new.started <= t /\ <<t, r>> \in inG
  <2>1. new.started <= t
    <3>1. CASE WindowOpen(row, t)
      BY <3>1, AfterFailureType DEF WindowOpen
    <3>2. CASE ~WindowOpen(row, t)
      BY <3>2, AfterFailureType DEF Time
    <3> QED BY <3>1, <3>2
  <2>2. new.started \in Nat /\ t \in Nat
    BY <1>1 DEF Attempts, Time
  <2>3. t >= new.started
    BY <2>1, <2>2
  <2> QED BY <2>1, <2>3
<1>6. new.failures <= Cardinality(inG)
  <2>1. CASE WindowOpen(row, t)
    <3> DEFINE inF == {f \in F : f[1] >= row.started}
    <3>1. row # NoAttempts /\ new.failures = row.failures + 1 /\ new.started = row.started
      BY <2>1, AfterFailureType DEF WindowOpen
    <3>2. row.failures <= Cardinality(inF) /\ row.failures \in Nat
      BY <3>1 DEF Claimed, Attempts
    <3>3. inG = inF \cup {<<t, r>>}
      BY <1>5, <3>1
    <3>4. inF \subseteq F /\ <<t, r>> \notin inF
      OBVIOUS
    <3> HIDE DEF inF, inG, new, G
    <3>5. IsFiniteSet(inF)
      BY <3>4, FS_Subset
    <3>6. Cardinality(inG) = Cardinality(inF) + 1 /\ Cardinality(inF) \in Nat
      BY <3>3, <3>4, <3>5, FS_AddElement, FS_CardinalityType
    <3> QED BY <3>1, <3>2, <3>6
  <2>2. CASE ~WindowOpen(row, t)
    <3>1. new.failures = 1
      BY <2>2, AfterFailureType
    <3> HIDE DEF inG, new, G
    <3>2. Cardinality(inG) # 0
      BY <1>4, <1>5, FS_EmptySet
    <3> QED BY <1>4, <3>1, <3>2
  <2> QED BY <2>1, <2>2
<1>7. new.locked # Never => \E f \in G : new.locked = f[1] + LockDuration
  <2>1. <<t, r>> \in G /\ <<t, r>>[1] = t
    OBVIOUS
  <2> HIDE DEF new, G
  <2> QED BY <1>1, <2>1
<1> HIDE DEF new
<1> QED BY <1>1, <1>5, <1>6, <1>7 DEF Claimed, new

\* The rows and the readings of the attempts claim failures that there were; an
\* attempt fails once.
FailuresAreReal ==
    /\ \A c \in Counters : IsFiniteSet(failed[c]) /\ Claimed(attempts[c], failed[c])
    /\ \A c \in Counters : attempts[c] # NoAttempts => attempts[c].started <= now
    /\ \A c \in Counters : \A f \in failed[c] : try[f[2]].pc \notin {"new", "allowed"}
    /\ \A r \in Tries : try[r].pc = "counting" =>
          LET c == try[r].key
              mine == <<try[r].at, r>>
          IN  /\ mine \in failed[c] /\ try[r].at <= now /\ Claimed(try[r].seen, failed[c] \ {mine})
              /\ try[r].seen # NoAttempts => try[r].seen.started <= try[r].at

\* Of attempts that came one after another one at most is under way; before it
\* counts the row is what is due, afterwards what it will save.
OneInTurn ==
    \A c \in Counters : ~raced[c] =>
        /\ \A q, r \in Tries : try[q].key = c /\ Underway(q) /\ try[r].key = c /\ Underway(r) => q = r
        /\ (\A r \in Tries : try[r].key = c => try[r].pc # "counting") => Agree(attempts[c], due[c], now)
        /\ \A r \in Tries : try[r].key = c /\ try[r].pc = "counting" =>
               Agree(AfterFailure(try[r].seen, try[r].at), due[c], now)

ThrottleInv == ThrottleTypeOK /\ FailuresAreReal /\ OneInTurn

LEMMA ThrottleInitInv == ThrottleInit => ThrottleInv
<1> SUFFICES ASSUME ThrottleInit PROVE ThrottleInv
  OBVIOUS
<1>1. now \in Time /\ 0 \in Time
  BY ServiceAssumption DEF ThrottleInit, Time
<1>2. ThrottleTypeOK
  <2>1. \A c \in Counters : [pc |-> "new", key |-> c, seen |-> NoAttempts, at |-> 0] \in Try
    BY <1>1 DEF Try, Steps
  <2>2. [from |-> 0, count |-> 0] \in [from: Time, count: Nat]
    BY <1>1
  <2> QED BY <1>1, <2>1, <2>2 DEF ThrottleInit, ThrottleTypeOK
<1>3. \A r \in Tries : try[r].pc = "new"
  BY DEF ThrottleInit
<1>4. FailuresAreReal
  <2>1. \A c \in Counters : failed[c] = {} /\ attempts[c] = NoAttempts
    BY DEF ThrottleInit
  <2> QED BY <1>3, <2>1, FS_EmptySet DEF FailuresAreReal, Claimed
<1>5. OneInTurn
  <2>1. \A c \in Counters : Agree(attempts[c], due[c], now)
    <3>1. \A c \in Counters : attempts[c] = NoAttempts /\ due[c] = [from |-> 0, count |-> 0]
      BY DEF ThrottleInit
    <3>2. ~Open([from |-> 0, count |-> 0], now)
      BY DEF Open
    <3> QED BY <3>1, <3>2 DEF Agree, WindowOpen
  <2> QED BY <1>3, <2>1 DEF OneInTurn, Underway
<1> QED BY <1>2, <1>4, <1>5 DEF ThrottleInv

\* An attempt that takes its next step keeps its counter and what it has read.
LEMMA TryMoves ==
    ASSUME ThrottleTypeOK, NEW r \in Tries, NEW pc \in Steps, try' = [try EXCEPT ![r].pc = pc]
    PROVE  /\ try' \in [Tries -> Try]
           /\ \A q \in Tries : q # r => try'[q] = try[q]
           /\ try'[r].pc = pc /\ try'[r].key = try[r].key /\ try'[r].seen = try[r].seen /\ try'[r].at = try[r].at
<1>1. try[r] \in Try /\ try'[r] = [try[r] EXCEPT !.pc = pc]
  BY DEF ThrottleTypeOK
<1>2. [try[r] EXCEPT !.pc = pc] \in Try
  BY <1>1 DEF Try
<1> QED BY <1>1, <1>2 DEF ThrottleTypeOK, Try

LEMMA RequireAllowedStep == ASSUME ThrottleInv, NEW r \in Tries, RequireAllowed(r) PROVE ThrottleInv'
<1> DEFINE c == try[r].key
           pc == IF Refuses(attempts[c], now) THEN "refused" ELSE "allowed"
<1>1. /\ pc \in Steps /\ try' = [try EXCEPT ![r].pc = pc] /\ try[r].pc = "new"
      /\ now' = now /\ attempts' = attempts /\ failed' = failed /\ due' = due
  BY DEF RequireAllowed, Steps
<1>2. /\ try' \in [Tries -> Try]
      /\ \A q \in Tries : q # r => try'[q] = try[q]
      /\ try'[r].pc = pc /\ try'[r].key = c /\ try'[r].seen = try[r].seen /\ try'[r].at = try[r].at
  BY <1>1, TryMoves DEF ThrottleInv
<1>3. c \in Counters
  BY DEF ThrottleInv, ThrottleTypeOK, Try
<1>4. raced' \in [Counters -> BOOLEAN] /\ \A d \in Counters : d # c => raced'[d] = raced[d]
  BY <1>3 DEF RequireAllowed, ThrottleInv, ThrottleTypeOK
<1>5. ~raced'[c] => ~raced[c] /\ (pc = "allowed" => \A q \in Tries : try[q].key = c => ~Underway(q))
  BY <1>3 DEF RequireAllowed, ThrottleInv, ThrottleTypeOK
<1>6. pc \in {"allowed", "refused"}
  OBVIOUS
<1> HIDE DEF pc
<1>7. ThrottleTypeOK'
  BY <1>1, <1>2, <1>4 DEF ThrottleInv, ThrottleTypeOK
<1>8. FailuresAreReal'
  <2>1. \A d \in Counters : \A f \in failed[d] : f[2] \in Tries
    BY DEF ThrottleInv, ThrottleTypeOK
  <2>2. (\A d \in Counters : \A f \in failed[d] : try[f[2]].pc \notin {"new", "allowed"})'
    BY <1>1, <1>2, <2>1 DEF ThrottleInv, FailuresAreReal
  <2> QED BY <1>1, <1>2, <1>6, <2>2 DEF ThrottleInv, FailuresAreReal, Claimed
<1>9. OneInTurn'
  <2> SUFFICES ASSUME NEW d \in Counters, ~raced'[d]
               PROVE  /\ \A p, q \in Tries : try'[p].key = d /\ try'[p].pc \in {"allowed", "counting"}
                                             /\ try'[q].key = d /\ try'[q].pc \in {"allowed", "counting"} => p = q
                      /\ (\A q \in Tries : try'[q].key = d => try'[q].pc # "counting") => Agree(attempts[d], due[d], now)
                      /\ \A q \in Tries : try'[q].key = d /\ try'[q].pc = "counting" =>
                            Agree(AfterFailure(try'[q].seen, try'[q].at), due[d], now)
    BY <1>1 DEF OneInTurn, Underway, Agree, Open, WindowOpen, AfterFailure
  <2>1. ~raced[d]
    BY <1>4, <1>5
  <2>2. /\ \A p, q \in Tries : try[p].key = d /\ Underway(p) /\ try[q].key = d /\ Underway(q) => p = q
        /\ (\A q \in Tries : try[q].key = d => try[q].pc # "counting") => Agree(attempts[d], due[d], now)
        /\ \A q \in Tries : try[q].key = d /\ try[q].pc = "counting" =>
               Agree(AfterFailure(try[q].seen, try[q].at), due[d], now)
    BY <2>1 DEF ThrottleInv, OneInTurn
  <2>3. \A q \in Tries : try'[q].key = try[q].key /\ try'[q].seen = try[q].seen /\ try'[q].at = try[q].at
                         /\ (try'[q].pc = "counting" <=> try[q].pc = "counting")
    BY <1>1, <1>2, <1>6
  <2>4. \A p, q \in Tries : try'[p].key = d /\ try'[p].pc \in {"allowed", "counting"}
                            /\ try'[q].key = d /\ try'[q].pc \in {"allowed", "counting"} => p = q
    BY <1>1, <1>2, <1>5, <1>6, <2>2 DEF Underway
  <2> QED BY <2>2, <2>3, <2>4
<1> QED BY <1>7, <1>8, <1>9 DEF ThrottleInv

LEMMA CountFailureStep == ASSUME ThrottleInv, NEW r \in Tries, CountFailure(r) PROVE ThrottleInv'
<1> DEFINE c == try[r].key
           mine == <<now, r>>
           counted == IF Open(due[c], now) THEN [from |-> due[c].from, count |-> due[c].count + 1] ELSE [from |-> now, count |-> 1]
<1>1. /\ now' = now /\ attempts' = attempts /\ raced' = raced /\ try[r].pc = "allowed"
      /\ try' = [try EXCEPT ![r].pc = "counting", ![r].seen = attempts[c], ![r].at = now]
      /\ failed' = [failed EXCEPT ![c] = @ \cup {mine}]
  BY DEF CountFailure
<1>d. due' = [due EXCEPT ![c] = counted]
  BY DEF CountFailure, Open
<1>2. /\ c \in Counters /\ try[r] \in Try /\ now \in Time /\ attempts[c] \in Attempts \cup {NoAttempts}
      /\ failed[c] \in SUBSET (Time \X Tries) /\ due[c] \in Due /\ try \in [Tries -> Try]
      /\ failed \in [Counters -> SUBSET (Time \X Tries)] /\ due \in [Counters -> Due]
  BY DEF ThrottleInv, ThrottleTypeOK, Try, Due
<1>3. /\ try' \in [Tries -> Try]
      /\ \A q \in Tries : q # r => try'[q] = try[q]
      /\ try'[r].pc = "counting" /\ try'[r].key = c /\ try'[r].seen = attempts[c] /\ try'[r].at = now
  <2>1. [try[r] EXCEPT !.pc = "counting", !.seen = attempts[c], !.at = now] \in Try
    BY <1>2 DEF Try, Steps
  <2>2. try'[r] = [try[r] EXCEPT !.pc = "counting", !.seen = attempts[c], !.at = now]
    BY <1>1, <1>2
  <2> QED BY <1>1, <1>2, <2>1, <2>2 DEF Try
<1>4. counted \in Due
  BY <1>2 DEF Due
<1>5. /\ failed' \in [Counters -> SUBSET (Time \X Tries)] /\ due' \in [Counters -> Due]
      /\ failed'[c] = failed[c] \cup {mine} /\ due'[c] = counted
      /\ \A d \in Counters : d # c => failed'[d] = failed[d] /\ due'[d] = due[d]
  <2> HIDE DEF counted
  <2>1. mine \in Time \X Tries
    BY <1>2
  <2> QED BY <1>1, <1>d, <1>2, <1>4, <2>1
<1>6. ThrottleTypeOK'
  BY <1>1, <1>3, <1>5 DEF ThrottleInv, ThrottleTypeOK, Due
<1>7. /\ \A d \in Counters : IsFiniteSet(failed[d]) /\ Claimed(attempts[d], failed[d])
      /\ \A d \in Counters : attempts[d] # NoAttempts => attempts[d].started <= now
      /\ \A d \in Counters : \A f \in failed[d] : try[f[2]].pc \notin {"new", "allowed"}
  BY DEF ThrottleInv, FailuresAreReal
<1>8. \A d \in Counters : mine \notin failed[d]
  BY <1>1, <1>7
<1>9. FailuresAreReal'
  <2>1. ASSUME NEW d \in Counters PROVE IsFiniteSet(failed'[d]) /\ Claimed(attempts[d], failed'[d])
    <3>1. CASE d = c
      <4>1. IsFiniteSet(failed'[c])
        <5>1. IsFiniteSet(failed[c])
          BY <1>2, <1>7
        <5>2. IsFiniteSet(failed[c] \cup {mine})
          BY <5>1, FS_AddElement
        <5> QED BY <1>5, <5>2
      <4>2. Claimed(attempts[c], failed'[c])
        BY <1>2, <1>5, <1>7, <4>1, ClaimedOfMore
      <4> QED BY <3>1, <4>1, <4>2
    <3>2. CASE d # c
      BY <1>5, <1>7, <3>2
    <3> QED BY <3>1, <3>2
  <2>2. ASSUME NEW d \in Counters, NEW f \in failed'[d] PROVE try'[f[2]].pc \notin {"new", "allowed"}
    <3>1. CASE f = mine
      BY <1>3, <3>1
    <3>2. CASE f # mine
      <4>1. f \in failed[d] /\ f[2] \in Tries
        BY <1>2, <1>5, <3>2
      <4> QED BY <1>1, <1>3, <1>7, <4>1
    <3> QED BY <3>1, <3>2
  <2>3. ASSUME NEW q \in Tries, try'[q].pc = "counting"
        PROVE  /\ <<try'[q].at, q>> \in failed'[try'[q].key] /\ try'[q].at <= now
               /\ Claimed(try'[q].seen, failed'[try'[q].key] \ {<<try'[q].at, q>>})
               /\ try'[q].seen # NoAttempts => try'[q].seen.started <= try'[q].at
    <3>1. CASE q = r
      <4>1. failed'[c] \ {mine} = failed[c]
        BY <1>2, <1>5, <1>8
      <4>2. now <= now
        BY <1>2 DEF Time
      <4>3. Claimed(attempts[c], failed[c]) /\ (attempts[c] # NoAttempts => attempts[c].started <= now)
        BY <1>2, <1>7
      <4>4. mine \in failed'[c]
        BY <1>5
      <4> QED BY <1>3, <3>1, <4>1, <4>2, <4>3, <4>4
    <3>2. CASE q # r
      <4> DEFINE k == try[q].key
                 own == <<try[q].at, q>>
      <4>1. /\ own \in failed[k] /\ try[q].at <= now /\ Claimed(try[q].seen, failed[k] \ {own})
            /\ try[q].seen # NoAttempts => try[q].seen.started <= try[q].at
        BY <1>3, <2>3, <3>2 DEF ThrottleInv, FailuresAreReal
      <4>2. k \in Counters /\ try[q].seen \in Attempts \cup {NoAttempts}
        BY <1>2 DEF Try
      <4>3. failed[k] \ {own} \subseteq failed'[k] \ {own} /\ own \in failed'[k]
        BY <1>2, <1>5, <4>1, <4>2
      <4>4. IsFiniteSet(failed'[k] \ {own})
        BY <2>1, <4>2, FS_Subset
      <4>5. Claimed(try[q].seen, failed'[k] \ {own})
        BY <4>1, <4>2, <4>3, <4>4, ClaimedOfMore
      <4> QED BY <1>3, <3>2, <4>1, <4>3, <4>5
    <3> QED BY <3>1, <3>2
  <2>4. (\A d \in Counters : IsFiniteSet(failed[d]) /\ Claimed(attempts[d], failed[d]))'
    BY <1>1, <2>1 DEF Claimed
  <2>5. (\A q \in Tries : try[q].pc = "counting" =>
           LET k == try[q].key
               own == <<try[q].at, q>>
           IN  /\ own \in failed[k] /\ try[q].at <= now /\ Claimed(try[q].seen, failed[k] \ {own})
               /\ try[q].seen # NoAttempts => try[q].seen.started <= try[q].at)'
    BY <1>1, <2>3 DEF Claimed
  <2> QED BY <1>1, <1>7, <2>2, <2>4, <2>5 DEF FailuresAreReal
<1>10. OneInTurn'
  <2> SUFFICES ASSUME NEW d \in Counters, ~raced[d]
               PROVE  /\ \A p, q \in Tries : try'[p].key = d /\ try'[p].pc \in {"allowed", "counting"}
                                             /\ try'[q].key = d /\ try'[q].pc \in {"allowed", "counting"} => p = q
                      /\ (\A q \in Tries : try'[q].key = d => try'[q].pc # "counting") => Agree(attempts[d], due'[d], now)
                      /\ \A q \in Tries : try'[q].key = d /\ try'[q].pc = "counting" =>
                            Agree(AfterFailure(try'[q].seen, try'[q].at), due'[d], now)
    BY <1>1 DEF OneInTurn, Underway
  <2>1. /\ \A p, q \in Tries : try[p].key = d /\ Underway(p) /\ try[q].key = d /\ Underway(q) => p = q
        /\ (\A q \in Tries : try[q].key = d => try[q].pc # "counting") => Agree(attempts[d], due[d], now)
        /\ \A q \in Tries : try[q].key = d /\ try[q].pc = "counting" =>
               Agree(AfterFailure(try[q].seen, try[q].at), due[d], now)
    BY DEF ThrottleInv, OneInTurn
  <2>2. \A p, q \in Tries : try'[p].key = d /\ try'[p].pc \in {"allowed", "counting"}
                            /\ try'[q].key = d /\ try'[q].pc \in {"allowed", "counting"} => p = q
    BY <1>1, <1>3, <2>1 DEF Underway
  <2>3. CASE d = c
    <3>1. \A q \in Tries : try[q].key = c /\ Underway(q) => q = r
      BY <1>1, <2>1, <2>3 DEF Underway
    <3>2. \A q \in Tries : try[q].key = c => try[q].pc # "counting"
      BY <1>1, <3>1 DEF Underway
    <3>3. Agree(attempts[c], due[c], now)
      BY <2>1, <2>3, <3>2
    <3>4. Agree(AfterFailure(attempts[c], now), counted, now)
      BY <1>2, <3>3, AgreeCounted
    <3>5. Agree(AfterFailure(attempts[c], now), due'[c], now)
      BY <1>5, <3>4
    <3> QED BY <1>3, <2>2, <2>3, <3>2, <3>5
  <2>4. CASE d # c
    <3>1. due'[d] = due[d]
      BY <1>5, <2>4
    <3>2. \A q \in Tries : try'[q].key = d => try'[q] = try[q]
      BY <1>3, <2>4
    <3>3. \A q \in Tries : try[q].key = d => try'[q] = try[q]
      BY <1>3, <2>4
    <3> QED BY <2>1, <2>2, <3>1, <3>2, <3>3
  <2> QED BY <2>3, <2>4
<1> QED BY <1>6, <1>9, <1>10 DEF ThrottleInv

\* A row that a save leaves: its own attempt's, swept, or as it was.
LEMMA SavedRows ==
    ASSUME ThrottleInv, NEW r \in Tries, SaveFailure(r)
    PROVE  LET new == AfterFailure(try[r].seen, try[r].at)
           IN  /\ try[r].key \in Counters /\ try[r].pc = "counting" /\ try[r].at \in Time /\ try[r].at <= now
               /\ new \in Attempts /\ new.started <= try[r].at /\ Claimed(new, failed[try[r].key])
               /\ attempts' \in [Counters -> Attempts \cup {NoAttempts}]
               /\ attempts'[try[r].key] = new
               /\ \A c \in Counters \ {try[r].key} :
                     \/ attempts'[c] = attempts[c]
                     \/ attempts'[c] = NoAttempts /\ IsStale(attempts[c], try[r].at)
<1> DEFINE k == try[r].key
           t == try[r].at
           new == AfterFailure(try[r].seen, t)
           mine == <<t, r>>
<1>1. /\ k \in Counters /\ t \in Time /\ try[r].seen \in Attempts \cup {NoAttempts} /\ try[r].pc = "counting"
      /\ attempts \in [Counters -> Attempts \cup {NoAttempts}] /\ failed[k] \in SUBSET (Time \X Tries)
  BY DEF ThrottleInv, ThrottleTypeOK, Try, SaveFailure
<1>2. attempts' = [Swept(t) EXCEPT ![k] = new]
  BY DEF SaveFailure
<1>3. new \in Attempts
  BY <1>1, AfterFailureType
<1>4. Swept(t) \in [Counters -> Attempts \cup {NoAttempts}]
  BY <1>1 DEF Swept
<1>5. /\ IsFiniteSet(failed[k]) /\ mine \in failed[k] /\ t <= now
      /\ Claimed(try[r].seen, failed[k] \ {mine}) /\ (try[r].seen # NoAttempts => try[r].seen.started <= t)
  BY <1>1 DEF ThrottleInv, FailuresAreReal
<1>6. Claimed(new, failed[k]) /\ new.started <= t
  <2> DEFINE F == failed[k] \ {mine}
  <2>1. F \in SUBSET (Time \X Tries) /\ mine \notin F
    BY <1>1
  <2>2. IsFiniteSet(F)
    BY <1>5, FS_Subset
  <2>3. F \cup {mine} = failed[k]
    BY <1>5
  <2> HIDE DEF F
  <2>4. Claimed(new, F \cup {mine}) /\ new.started <= t
    BY <1>1, <1>5, <2>1, <2>2, ClaimedCounted DEF F
  <2> QED BY <2>3, <2>4
<1>7. \A c \in Counters \ {k} : attempts'[c] = Swept(t)[c]
  <2> HIDE DEF new
  <2> QED BY <1>2, <1>4
<1>8. \A c \in Counters : Swept(t)[c] = attempts[c] \/ (Swept(t)[c] = NoAttempts /\ IsStale(attempts[c], t))
  BY DEF Swept
<1>9. attempts' \in [Counters -> Attempts \cup {NoAttempts}] /\ attempts'[k] = new
  <2> HIDE DEF new
  <2> QED BY <1>1, <1>2, <1>3, <1>4
<1> HIDE DEF new
<1> QED BY <1>1, <1>3, <1>5, <1>6, <1>7, <1>8, <1>9 DEF new

LEMMA SaveFailureStep == ASSUME ThrottleInv, NEW r \in Tries, SaveFailure(r) PROVE ThrottleInv'
<1> DEFINE k == try[r].key
           t == try[r].at
<1>1. /\ now' = now /\ failed' = failed /\ due' = due /\ raced' = raced
      /\ try' = [try EXCEPT ![r].pc = "counted"]
  BY DEF SaveFailure
<1>2. /\ try' \in [Tries -> Try]
      /\ \A q \in Tries : q # r => try'[q] = try[q]
      /\ try'[r].pc = "counted" /\ try'[r].key = k /\ try'[r].seen = try[r].seen /\ try'[r].at = t
  BY <1>1, TryMoves DEF ThrottleInv, Steps
<1>3. /\ k \in Counters /\ try[r].pc = "counting" /\ t \in Time /\ t <= now
      /\ AfterFailure(try[r].seen, t) \in Attempts
      /\ AfterFailure(try[r].seen, t).started <= t /\ Claimed(AfterFailure(try[r].seen, t), failed[k])
      /\ attempts' \in [Counters -> Attempts \cup {NoAttempts}]
      /\ attempts'[k] = AfterFailure(try[r].seen, t)
      /\ \A c \in Counters \ {k} :
            \/ attempts'[c] = attempts[c]
            \/ attempts'[c] = NoAttempts /\ IsStale(attempts[c], t)
  BY SavedRows
<1>4. ThrottleTypeOK'
  BY <1>1, <1>2, <1>3 DEF ThrottleInv, ThrottleTypeOK
<1>5. FailuresAreReal'
  <2>1. \A c \in Counters : Claimed(attempts'[c], failed[c])
    BY <1>3 DEF ThrottleInv, FailuresAreReal, Claimed
  <2>2. AfterFailure(try[r].seen, t).started <= now
    <3> DEFINE s == AfterFailure(try[r].seen, t).started
    <3>1. s \in Nat /\ t \in Nat /\ now \in Nat /\ s <= t
      BY <1>3 DEF Attempts, Time, ThrottleInv, ThrottleTypeOK
    <3> HIDE DEF s
    <3>2. s <= now
      BY <1>3, <3>1
    <3> QED BY <3>2 DEF s
  <2>3. \A c \in Counters : attempts'[c] # NoAttempts => attempts'[c].started <= now
    BY <1>3, <2>2 DEF ThrottleInv, FailuresAreReal
  <2>4. \A c \in Counters : \A f \in failed[c] : f[2] \in Tries
    BY DEF ThrottleInv, ThrottleTypeOK
  <2>5. \A c \in Counters : \A f \in failed[c] : try'[f[2]].pc \notin {"new", "allowed"}
    BY <1>2, <2>4 DEF ThrottleInv, FailuresAreReal
  <2>6. \A q \in Tries : try'[q].pc = "counting" => q # r /\ try'[q] = try[q]
    BY <1>2
  <2>7. (\A q \in Tries : try[q].pc = "counting" =>
           LET c == try[q].key
               own == <<try[q].at, q>>
           IN  /\ own \in failed[c] /\ try[q].at <= now /\ Claimed(try[q].seen, failed[c] \ {own})
               /\ try[q].seen # NoAttempts => try[q].seen.started <= try[q].at)'
    <3>1. ASSUME NEW q \in Tries, try'[q].pc = "counting"
          PROVE  /\ <<try'[q].at, q>> \in failed'[try'[q].key] /\ try'[q].at <= now'
                 /\ Claimed(try'[q].seen, failed'[try'[q].key] \ {<<try'[q].at, q>>})
                 /\ try'[q].seen # NoAttempts => try'[q].seen.started <= try'[q].at
      <4>1. try'[q] = try[q] /\ failed' = failed /\ now' = now
        BY <1>1, <2>6, <3>1
      <4>2. /\ <<try[q].at, q>> \in failed[try[q].key] /\ try[q].at <= now
            /\ Claimed(try[q].seen, failed[try[q].key] \ {<<try[q].at, q>>})
            /\ try[q].seen # NoAttempts => try[q].seen.started <= try[q].at
        BY <3>1, <4>1 DEF ThrottleInv, FailuresAreReal
      <4> QED BY <4>1, <4>2
    <3> QED BY <3>1 DEF Claimed
  <2>8. (\A c \in Counters : IsFiniteSet(failed[c]) /\ Claimed(attempts[c], failed[c]))'
    BY <1>1, <2>1 DEF ThrottleInv, FailuresAreReal, Claimed
  <2> QED BY <1>1, <2>3, <2>5, <2>7, <2>8 DEF FailuresAreReal
<1>6. OneInTurn'
  <2> SUFFICES ASSUME NEW d \in Counters, ~raced[d]
               PROVE  /\ \A p, q \in Tries : try'[p].key = d /\ try'[p].pc \in {"allowed", "counting"}
                                             /\ try'[q].key = d /\ try'[q].pc \in {"allowed", "counting"} => p = q
                      /\ (\A q \in Tries : try'[q].key = d => try'[q].pc # "counting") => Agree(attempts'[d], due[d], now)
                      /\ \A q \in Tries : try'[q].key = d /\ try'[q].pc = "counting" =>
                            Agree(AfterFailure(try'[q].seen, try'[q].at), due[d], now)
    BY <1>1 DEF OneInTurn, Underway
  <2>1. /\ \A p, q \in Tries : try[p].key = d /\ Underway(p) /\ try[q].key = d /\ Underway(q) => p = q
        /\ (\A q \in Tries : try[q].key = d => try[q].pc # "counting") => Agree(attempts[d], due[d], now)
        /\ \A q \in Tries : try[q].key = d /\ try[q].pc = "counting" =>
               Agree(AfterFailure(try[q].seen, try[q].at), due[d], now)
    BY DEF ThrottleInv, OneInTurn
  <2>2. \A p, q \in Tries : try'[p].key = d /\ try'[p].pc \in {"allowed", "counting"}
                            /\ try'[q].key = d /\ try'[q].pc \in {"allowed", "counting"} => p = q
    BY <1>2, <2>1 DEF Underway
  <2>3. \A q \in Tries : try'[q].pc = "counting" => q # r /\ try'[q] = try[q]
    BY <1>2
  <2>4. CASE d = k
    <3>1. Agree(attempts'[k], due[k], now)
      BY <1>3, <2>1, <2>4
    <3> QED BY <2>1, <2>2, <2>3, <2>4, <3>1
  <2>5. CASE d # k
    <3>1. (\A q \in Tries : try'[q].key = d => try'[q].pc # "counting")
            => \A q \in Tries : try[q].key = d => try[q].pc # "counting"
      BY <1>2, <2>5
    <3>2. Agree(attempts[d], due[d], now) => Agree(attempts'[d], due[d], now)
      <4>1. attempts[d] \in Attempts \cup {NoAttempts} /\ due[d] \in Due /\ now \in Time
        BY DEF ThrottleInv, ThrottleTypeOK, Due
      <4>2. CASE attempts'[d] = attempts[d]
        BY <4>2
      <4>3. CASE attempts'[d] = NoAttempts /\ IsStale(attempts[d], t)
        <5>1. Agree(attempts[d], due[d], now) => Agree(NoAttempts, due[d], now)
          BY <1>3, <4>1, <4>3, AgreeSwept
        <5> QED BY <4>3, <5>1
      <4> QED BY <1>3, <2>5, <4>2, <4>3
    <3> QED BY <2>1, <2>2, <2>3, <3>1, <3>2
  <2> QED BY <2>4, <2>5
<1> QED BY <1>4, <1>5, <1>6 DEF ThrottleInv

\* What an attempt that ends without a save leaves of the failures: nothing
\* changes but the row of its counter, which is gone if it changes.
LEMMA EndedWithoutSave ==
    ASSUME ThrottleInv, NEW r \in Tries, NEW pc \in {"lost", "passed"}, now' = now, failed' = failed,
           try' = [try EXCEPT ![r].pc = pc],
           attempts' = attempts \/ attempts' = [attempts EXCEPT ![try[r].key] = NoAttempts]
    PROVE  FailuresAreReal'
<1>1. /\ \A q \in Tries : q # r => try'[q] = try[q]
      /\ try'[r].pc = pc
  BY TryMoves DEF ThrottleInv, Steps
<1>2. \A c \in Counters : attempts'[c] = attempts[c] \/ attempts'[c] = NoAttempts
  BY DEF ThrottleInv, ThrottleTypeOK
<1>3. \A c \in Counters : Claimed(attempts'[c], failed[c])
  BY <1>2 DEF ThrottleInv, FailuresAreReal, Claimed
<1>4. \A c \in Counters : attempts'[c] # NoAttempts => attempts'[c].started <= now
  BY <1>2 DEF ThrottleInv, FailuresAreReal
<1>5. \A c \in Counters : \A f \in failed[c] : f[2] \in Tries
  BY DEF ThrottleInv, ThrottleTypeOK
<1>6. \A c \in Counters : \A f \in failed[c] : try'[f[2]].pc \notin {"new", "allowed"}
  BY <1>1, <1>5 DEF ThrottleInv, FailuresAreReal
<1>7. \A q \in Tries : try'[q].pc = "counting" => q # r /\ try'[q] = try[q]
  BY <1>1
<1>8. (\A q \in Tries : try[q].pc = "counting" =>
         LET c == try[q].key
             own == <<try[q].at, q>>
         IN  /\ own \in failed[c] /\ try[q].at <= now /\ Claimed(try[q].seen, failed[c] \ {own})
             /\ try[q].seen # NoAttempts => try[q].seen.started <= try[q].at)'
  BY <1>7 DEF ThrottleInv, FailuresAreReal, Claimed
<1>9. (\A c \in Counters : IsFiniteSet(failed[c]) /\ Claimed(attempts[c], failed[c]))'
  BY <1>3 DEF ThrottleInv, FailuresAreReal, Claimed
<1> QED BY <1>4, <1>6, <1>8, <1>9 DEF FailuresAreReal

LEMMA SaveLostStep == ASSUME ThrottleInv, NEW r \in Tries, SaveLost(r) PROVE ThrottleInv'
<1> DEFINE k == try[r].key
<1>1. /\ now' = now /\ attempts' = attempts /\ failed' = failed /\ due' = due
      /\ try' = [try EXCEPT ![r].pc = "lost"]
  BY DEF SaveLost
<1>2. /\ try' \in [Tries -> Try]
      /\ \A q \in Tries : q # r => try'[q] = try[q]
      /\ try'[r].pc = "lost" /\ try'[r].key = k
  BY <1>1, TryMoves DEF ThrottleInv, Steps
<1>3. k \in Counters /\ try[r].pc = "counting"
  BY DEF ThrottleInv, ThrottleTypeOK, Try, SaveLost
<1>4. raced' \in [Counters -> BOOLEAN] /\ \A d \in Counters : ~raced'[d] => d # k /\ ~raced[d]
  BY <1>3 DEF SaveLost, ThrottleInv, ThrottleTypeOK
<1>5. ThrottleTypeOK'
  BY <1>1, <1>2, <1>4 DEF ThrottleInv, ThrottleTypeOK
<1>6. FailuresAreReal'
  BY <1>1, EndedWithoutSave
<1>7. OneInTurn'
  <2> SUFFICES ASSUME NEW d \in Counters, ~raced'[d]
               PROVE  /\ \A p, q \in Tries : try'[p].key = d /\ try'[p].pc \in {"allowed", "counting"}
                                             /\ try'[q].key = d /\ try'[q].pc \in {"allowed", "counting"} => p = q
                      /\ (\A q \in Tries : try'[q].key = d => try'[q].pc # "counting") => Agree(attempts[d], due[d], now)
                      /\ \A q \in Tries : try'[q].key = d /\ try'[q].pc = "counting" =>
                            Agree(AfterFailure(try'[q].seen, try'[q].at), due[d], now)
    BY <1>1 DEF OneInTurn, Underway
  <2>1. /\ \A p, q \in Tries : try[p].key = d /\ Underway(p) /\ try[q].key = d /\ Underway(q) => p = q
        /\ (\A q \in Tries : try[q].key = d => try[q].pc # "counting") => Agree(attempts[d], due[d], now)
        /\ \A q \in Tries : try[q].key = d /\ try[q].pc = "counting" =>
               Agree(AfterFailure(try[q].seen, try[q].at), due[d], now)
    BY <1>4 DEF ThrottleInv, OneInTurn
  <2>2. \A q \in Tries : (try'[q].key = d \/ try[q].key = d) => try'[q] = try[q]
    BY <1>2, <1>4
  <2> QED BY <2>1, <2>2 DEF Underway
<1> QED BY <1>5, <1>6, <1>7 DEF ThrottleInv

LEMMA RecordSuccessStep == ASSUME ThrottleInv, NEW r \in Tries, RecordSuccess(r) PROVE ThrottleInv'
<1> DEFINE k == try[r].key
           cleared == [due[k] EXCEPT !.count = 0]
<1>1. /\ now' = now /\ failed' = failed /\ raced' = raced /\ try[r].pc = "allowed"
      /\ try' = [try EXCEPT ![r].pc = "passed"]
      /\ attempts' = [attempts EXCEPT ![k] = NoAttempts]
      /\ due' = [due EXCEPT ![k].count = 0]
  BY DEF RecordSuccess
<1>2. /\ try' \in [Tries -> Try]
      /\ \A q \in Tries : q # r => try'[q] = try[q]
      /\ try'[r].pc = "passed" /\ try'[r].key = k
  BY <1>1, TryMoves DEF ThrottleInv, Steps
<1>3. k \in Counters /\ now \in Time /\ attempts \in [Counters -> Attempts \cup {NoAttempts}] /\ due \in [Counters -> Due]
  BY DEF ThrottleInv, ThrottleTypeOK, Try, Due
<1>4. cleared \in Due /\ Agree(NoAttempts, cleared, now)
  BY <1>3, AgreeSucceeded
<1>5. /\ due' \in [Counters -> Due] /\ due'[k] = cleared
      /\ \A d \in Counters \ {k} : due'[d] = due[d] /\ attempts'[d] = attempts[d]
      /\ attempts' \in [Counters -> Attempts \cup {NoAttempts}] /\ attempts'[k] = NoAttempts
  BY <1>1, <1>3, <1>4
<1>6. ThrottleTypeOK'
  BY <1>1, <1>2, <1>5 DEF ThrottleInv, ThrottleTypeOK, Due
<1>7. FailuresAreReal'
  BY <1>1, EndedWithoutSave
<1>8. OneInTurn'
  <2> SUFFICES ASSUME NEW d \in Counters, ~raced[d]
               PROVE  /\ \A p, q \in Tries : try'[p].key = d /\ try'[p].pc \in {"allowed", "counting"}
                                             /\ try'[q].key = d /\ try'[q].pc \in {"allowed", "counting"} => p = q
                      /\ (\A q \in Tries : try'[q].key = d => try'[q].pc # "counting") => Agree(attempts'[d], due'[d], now)
                      /\ \A q \in Tries : try'[q].key = d /\ try'[q].pc = "counting" =>
                            Agree(AfterFailure(try'[q].seen, try'[q].at), due'[d], now)
    BY <1>1 DEF OneInTurn, Underway
  <2>1. /\ \A p, q \in Tries : try[p].key = d /\ Underway(p) /\ try[q].key = d /\ Underway(q) => p = q
        /\ (\A q \in Tries : try[q].key = d => try[q].pc # "counting") => Agree(attempts[d], due[d], now)
        /\ \A q \in Tries : try[q].key = d /\ try[q].pc = "counting" =>
               Agree(AfterFailure(try[q].seen, try[q].at), due[d], now)
    BY DEF ThrottleInv, OneInTurn
  <2>2. CASE d = k
    <3>1. \A q \in Tries : try'[q].key = k => try'[q].pc \notin {"allowed", "counting"}
      BY <1>1, <1>2, <2>1, <2>2 DEF Underway
    <3> HIDE DEF cleared
    <3> QED BY <1>4, <1>5, <2>2, <3>1
  <2>3. CASE d # k
    <3>1. \A q \in Tries : (try'[q].key = d \/ try[q].key = d) => try'[q] = try[q]
      BY <1>2, <2>3
    <3> QED BY <1>5, <2>1, <2>3, <3>1 DEF Underway
  <2> QED BY <2>2, <2>3
<1> QED BY <1>6, <1>7, <1>8 DEF ThrottleInv

LEMMA ThrottleTickStep == ASSUME ThrottleInv, ThrottleTick PROVE ThrottleInv'
<1>1. attempts' = attempts /\ try' = try /\ failed' = failed /\ due' = due /\ raced' = raced
  BY DEF ThrottleTick
<1>2. now' = now + 1 /\ now \in Time /\ now + 1 \in Time
  BY ServiceAssumption DEF ThrottleTick, Tick, Time, ThrottleInv, ThrottleTypeOK
<1>3. /\ try \in [Tries -> Try] /\ attempts \in [Counters -> Attempts \cup {NoAttempts}] /\ due \in [Counters -> Due]
  BY DEF ThrottleInv, ThrottleTypeOK, Due
<1>4. ThrottleTypeOK'
  BY <1>1, <1>2 DEF ThrottleInv, ThrottleTypeOK
<1>5. FailuresAreReal'
  <2>1. \A c \in Counters : attempts[c] # NoAttempts => attempts[c].started <= now + 1
    BY <1>2, <1>3 DEF ThrottleInv, FailuresAreReal, Attempts, Time
  <2>2. ASSUME NEW r \in Tries, try[r].pc = "counting" PROVE try[r].at <= now'
    <3>1. try[r].at <= now /\ try[r].at \in Time
      BY <1>3, <2>2 DEF ThrottleInv, FailuresAreReal, Try
    <3> QED BY <1>2, <3>1 DEF Time
  <2>3. (\A r \in Tries : try[r].pc = "counting" =>
           LET c == try[r].key
               mine == <<try[r].at, r>>
           IN  /\ mine \in failed[c] /\ try[r].at <= now /\ Claimed(try[r].seen, failed[c] \ {mine})
               /\ try[r].seen # NoAttempts => try[r].seen.started <= try[r].at)'
    BY <1>1, <2>2 DEF ThrottleInv, FailuresAreReal, Claimed
  <2>4. (\A c \in Counters : IsFiniteSet(failed[c]) /\ Claimed(attempts[c], failed[c]))'
    BY <1>1 DEF ThrottleInv, FailuresAreReal, Claimed
  <2>5. (\A c \in Counters : \A f \in failed[c] : try[f[2]].pc \notin {"new", "allowed"})'
    BY <1>1 DEF ThrottleInv, FailuresAreReal
  <2> QED BY <1>1, <1>2, <2>1, <2>3, <2>4, <2>5 DEF FailuresAreReal
<1>6. OneInTurn'
  <2> SUFFICES ASSUME NEW d \in Counters, ~raced[d]
               PROVE  /\ \A p, q \in Tries : try[p].key = d /\ Underway(p) /\ try[q].key = d /\ Underway(q) => p = q
                      /\ (\A q \in Tries : try[q].key = d => try[q].pc # "counting") => Agree(attempts[d], due[d], now')
                      /\ \A q \in Tries : try[q].key = d /\ try[q].pc = "counting" =>
                            Agree(AfterFailure(try[q].seen, try[q].at), due[d], now')
    BY <1>1 DEF OneInTurn, Underway
  <2>1. /\ \A p, q \in Tries : try[p].key = d /\ Underway(p) /\ try[q].key = d /\ Underway(q) => p = q
        /\ (\A q \in Tries : try[q].key = d => try[q].pc # "counting") => Agree(attempts[d], due[d], now)
        /\ \A q \in Tries : try[q].key = d /\ try[q].pc = "counting" =>
               Agree(AfterFailure(try[q].seen, try[q].at), due[d], now)
    BY DEF ThrottleInv, OneInTurn
  <2>2. ASSUME NEW row \in Attempts \cup {NoAttempts}, Agree(row, due[d], now) PROVE Agree(row, due[d], now')
    <3>1. due[d] \in Due
      BY <1>3
    <3> QED BY <1>2, <2>2, <3>1, AgreeLater
  <2>3. attempts[d] \in Attempts \cup {NoAttempts}
    BY <1>3
  <2>4. \A q \in Tries : AfterFailure(try[q].seen, try[q].at) \in Attempts
    BY <1>3, AfterFailureType DEF Try
  <2> QED BY <2>1, <2>2, <2>3, <2>4
<1> QED BY <1>4, <1>5, <1>6 DEF ThrottleInv

LEMMA ThrottleStep == ASSUME ThrottleInv, [ThrottleNext]_throttleVars PROVE ThrottleInv'
<1>1. CASE ThrottleTick
  BY <1>1, ThrottleTickStep
<1>2. ASSUME NEW r \in Tries,
             RequireAllowed(r) \/ CountFailure(r) \/ SaveFailure(r) \/ SaveLost(r) \/ RecordSuccess(r)
      PROVE  ThrottleInv'
  BY <1>2, RequireAllowedStep, CountFailureStep, SaveFailureStep, SaveLostStep, RecordSuccessStep
<1>3. CASE UNCHANGED throttleVars
  <2>1. ThrottleTypeOK'
    BY <1>3 DEF throttleVars, ThrottleInv, ThrottleTypeOK
  <2>2. FailuresAreReal'
    BY <1>3 DEF throttleVars, ThrottleInv, FailuresAreReal, Claimed
  <2>3. OneInTurn'
    BY <1>3 DEF throttleVars, ThrottleInv, OneInTurn, Underway
  <2> QED BY <2>1, <2>2, <2>3 DEF ThrottleInv
<1> QED BY <1>1, <1>2, <1>3 DEF ThrottleNext

LEMMA CountsOfInv == ThrottleInv => LockedOnlyForFailures /\ CountsInTurn
<1> SUFFICES ASSUME ThrottleInv PROVE LockedOnlyForFailures /\ CountsInTurn
  OBVIOUS
<1>1. LockedOnlyForFailures
  <2>1. \A c \in Counters : Claimed(attempts[c], failed[c])
    BY DEF ThrottleInv, FailuresAreReal
  <2> QED BY <2>1 DEF LockedOnlyForFailures, Claimed
<1>2. CountsInTurn
  <2>1. ASSUME NEW c \in Counters, ~raced[c], \A r \in Tries : try[r].key = c => ~Underway(r)
        PROVE  /\ Open(due[c], now) <=> WindowOpen(attempts[c], now)
               /\ Open(due[c], now) => attempts[c].failures = due[c].count
               /\ Open(due[c], now) /\ due[c].count >= MaxFailures => attempts[c].locked # Never
    <3>1. \A r \in Tries : try[r].key = c => try[r].pc # "counting"
      BY <2>1 DEF Underway
    <3>2. Agree(attempts[c], due[c], now)
      BY <2>1, <3>1 DEF ThrottleInv, OneInTurn
    <3> QED BY <3>2 DEF Agree
  <2> QED BY <2>1 DEF CountsInTurn, Open, WindowOpen
<1> QED BY <1>1, <1>2

LEMMA SweptLater ==
    ASSUME NEW row \in Attempts \cup {NoAttempts}, NEW s \in Time, NEW t \in Time, s <= t, IsStale(row, s)
    PROVE  Refuses(NoAttempts, t) = Refuses(row, t) /\ AfterFailure(NoAttempts, t) = AfterFailure(row, t)
<1>1. ~WindowOpen(row, t) /\ ~Refuses(row, t)
  BY StaleLater
<1>2. ~WindowOpen(NoAttempts, t) /\ ~Refuses(NoAttempts, t)
  BY DEF WindowOpen, Refuses
<1>3. AfterFailure(NoAttempts, t) = AfterFailure(row, t)
  BY <1>1, <1>2 DEF AfterFailure
<1>4. Refuses(NoAttempts, t) = Refuses(row, t)
  BY <1>1, <1>2 DEF Refuses
<1> QED BY <1>3, <1>4

LEMMA SweepStep ==
    ASSUME ThrottleInv, NEW r \in Tries, SaveFailure(r), NEW c \in Counters \ {try[r].key}, NEW t \in now..MaxTime
    PROVE  /\ Refuses(attempts'[c], t) = Refuses(attempts[c], t)
           /\ AfterFailure(attempts'[c], t) = AfterFailure(attempts[c], t)
<1> DEFINE s == try[r].at
<1>1. /\ s \in Time /\ s <= now
      /\ \/ attempts'[c] = attempts[c]
         \/ attempts'[c] = NoAttempts /\ IsStale(attempts[c], s)
  <2>1. /\ s \in Time /\ s <= now
        /\ \A d \in Counters \ {try[r].key} :
              \/ attempts'[d] = attempts[d]
              \/ attempts'[d] = NoAttempts /\ IsStale(attempts[d], s)
    BY SavedRows
  <2> QED BY <2>1
<1>2. now \in Time /\ attempts[c] \in Attempts \cup {NoAttempts}
  BY DEF ThrottleInv, ThrottleTypeOK
<1> HIDE DEF s
<1>3. t \in Time /\ s <= t
  BY <1>1, <1>2, ServiceAssumption DEF Time
<1>4. CASE attempts'[c] = attempts[c]
  BY <1>4
<1>5. CASE attempts'[c] = NoAttempts /\ IsStale(attempts[c], s)
  <2>1. /\ Refuses(NoAttempts, t) = Refuses(attempts[c], t)
        /\ AfterFailure(NoAttempts, t) = AfterFailure(attempts[c], t)
    BY <1>1, <1>2, <1>3, <1>5, SweptLater
  <2> QED BY <1>5, <2>1
<1> QED BY <1>1, <1>4, <1>5

\* A row of the throttle never claims a failure there was not, misses none that
\* came in turn, and loses none to the sweep: record_attempt and require_allowed,
\* with any number of attempts, identifiers and failures allowed.
THEOREM ThrottleCountsFailures == ThrottleSpec => ThrottleHolds
<1>1. ThrottleSpec => []ThrottleInv
  BY ThrottleInitInv, ThrottleStep, PTL DEF ThrottleSpec
<1>2. ThrottleInv => LockedOnlyForFailures /\ CountsInTurn
  BY CountsOfInv
<1>3. ThrottleInv /\ [ThrottleNext]_throttleVars
        => [\A r \in Tries : SaveFailure(r) =>
              \A c \in Counters \ {try[r].key}, t \in now..MaxTime :
                 /\ Refuses(attempts'[c], t) = Refuses(attempts[c], t)
                 /\ AfterFailure(attempts'[c], t) = AfterFailure(attempts[c], t)]_throttleVars
  BY SweepStep
<1>4. ThrottleSpec => SweepForgetsNothing
  BY <1>1, <1>3, PTL DEF ThrottleSpec, SweepForgetsNothing
<1> QED BY <1>1, <1>2, <1>4, PTL DEF ThrottleHolds


-----------------------------------------------------------------------------
(* AccessGates.                                                             *)

GatesShape == GatesTypeOK /\ now \in Time

\* Nothing is of a time to come, a request is about a sign-in that there is, and
\* only local sign-ins have rows.
RangesFit ==
    /\ boundary <= now /\ stoppedAt <= now /\ offSince <= now
    /\ \A l \in Logins : entered[l] <= now /\ (login[l] # NoEntry => login[l].iat <= now /\ login[l].started <= now)
    /\ \A o \in Codes : lastHeld[o] <= now
VisitsFit == \A r \in Requests : visit[r] # NoVisit => login[visit[r].login] # NoEntry
RowsAreLocal == \A l \in Logins : login[l] # NoEntry /\ login[l].row => ~login[l].fed

\* A token of a sign-in is issued, and what is kept of the sign-in is e from now on.
Issues(l, e, k) ==
    /\ cards' = cards \cup {k} /\ login' = [login EXCEPT ![l] = e]
    /\ k.login = l /\ k.iat = now /\ k.until = now + CardTtl

LEMMA GatesNulls == (\A e \in Entry : e # NoEntry) /\ (\A v \in Visit : v # NoVisit)
BY GatesAssumption

LEMMA NewCardIs ==
    ASSUME now \in Time, NEW l \in Logins, NEW fed \in BOOLEAN, NEW auth \in Nat, NEW scope \in SUBSET Codes
    PROVE  LET k == NewCard(l, fed, auth, scope)
           IN  k \in Card /\ k.login = l /\ k.iat = now /\ k.until = now + CardTtl /\ k.auth = auth /\ k.scope = scope
<1>1. PICK n \in Nat : n = now + CardTtl
  BY GatesAssumption DEF Time
<1>2. now \in Nat
  BY DEF Time
<1>3. NewCard(l, fed, auth, scope) = [login |-> l, fed |-> fed, auth |-> auth, iat |-> now, until |-> n, scope |-> scope]
  BY <1>1 DEF NewCard
<1> QED BY <1>1, <1>2, <1>3 DEF Card

LEMMA VisitIs ==
    ASSUME GatesShape, NEW r \in Requests, visit[r] # NoVisit
    PROVE  /\ visit[r] \in Visit /\ visit[r].login \in Logins /\ visit[r].auth \in Nat /\ visit[r].iat \in Nat
           /\ visit[r].scope \in SUBSET Codes
<1>1. visit[r] \in Visit
  BY DEF GatesShape, GatesTypeOK
<1> QED BY <1>1 DEF Visit

LEMMA EntryIs ==
    ASSUME GatesShape, NEW l \in Logins, login[l] # NoEntry
    PROVE  /\ login[l] \in Entry /\ login[l].fed \in BOOLEAN /\ login[l].row \in BOOLEAN
           /\ login[l].auth \in Nat /\ login[l].iat \in Nat /\ login[l].started \in Nat
<1>1. login[l] \in Entry
  BY DEF GatesShape, GatesTypeOK
<1> QED BY <1>1 DEF Entry

\* Who signs in: a new sign-in.
LEMMA SignsInIs ==
    ASSUME GatesShape, NEW l \in Logins, NEW fed \in BOOLEAN, SignsIn(l, fed)
    PROVE  \E e \in Entry, k \in Card :
             /\ Issues(l, e, k) /\ e.started = now /\ e.iat = now /\ e.auth = now /\ k.auth = now /\ k.scope = held
             /\ (e.row => ~e.fed)
<1>1. now \in Nat /\ held \in SUBSET Codes
  BY DEF GatesShape, GatesTypeOK, Time
<1>2. PICK e : e = [fed |-> fed, started |-> now, row |-> ~fed, auth |-> now, iat |-> now]
  OBVIOUS
<1>3. PICK k : k = NewCard(l, fed, now, held)
  OBVIOUS
<1>4. e \in Entry /\ e.started = now /\ e.iat = now /\ e.auth = now /\ (e.row => ~e.fed)
  BY <1>1, <1>2 DEF Entry
<1>5. k \in Card /\ k.login = l /\ k.iat = now /\ k.until = now + CardTtl /\ k.auth = now /\ k.scope = held
  BY <1>1, <1>3, NewCardIs DEF GatesShape
<1>6. Issues(l, e, k)
  BY <1>2, <1>3, <1>5 DEF SignsIn, Issues
<1> QED BY <1>4, <1>5, <1>6

\* Who goes on: the same sign-in, with a row that is taken over or not.
LEMMA CarriesOnIs ==
    ASSUME GatesShape, VisitsFit, NEW r \in Requests, CarriesOn(r)
    PROVE  \E e \in Entry, k \in Card :
             LET l == visit[r].login
             IN  /\ Issues(l, e, k) /\ e.started = login[l].started /\ e.iat \in {login[l].iat, now}
                 /\ e.auth \in {login[l].auth, visit[r].auth} /\ e.fed = login[l].fed /\ e.row = login[l].row
                 /\ k.auth = visit[r].auth /\ k.scope = visit[r].scope
<1>1. PICK v \in Visit : v = visit[r] /\ v.login \in Logins /\ v.auth \in Nat /\ v.scope \in SUBSET Codes /\ v # NoVisit
  BY VisitIs DEF CarriesOn, Ready
<1>2. PICK l \in Logins : l = v.login
  BY <1>1
<1>3. PICK x \in Entry : x = login[l] /\ x.fed \in BOOLEAN
  BY <1>1, <1>2, EntryIs DEF VisitsFit
<1>4. AuthOf(v) = v.auth
  BY <1>1 DEF AuthOf, CarriesOn
<1>5. PICK k : k = NewCard(l, x.fed, v.auth, v.scope)
  OBVIOUS
<1>6. k \in Card /\ k.login = l /\ k.iat = now /\ k.until = now + CardTtl /\ k.auth = v.auth /\ k.scope = v.scope
  BY <1>1, <1>3, <1>5, NewCardIs DEF GatesShape
<1>7. cards' = cards \cup {k}
  BY <1>1, <1>2, <1>3, <1>4, <1>5 DEF CarriesOn
<1>8. login' = login \/ login' = [login EXCEPT ![l].iat = now, ![l].auth = v.auth]
  BY <1>1, <1>2, <1>4 DEF CarriesOn
<1>9. login \in [Logins -> Entry \cup {NoEntry}] /\ now \in Nat
  BY DEF GatesShape, GatesTypeOK, Time
<1>10. CASE login' = login
  <2>1. login' = [login EXCEPT ![l] = x]
    BY <1>3, <1>9, <1>10
  <2>2. Issues(l, x, k)
    BY <1>6, <1>7, <2>1 DEF Issues
  <2> QED BY <1>1, <1>2, <1>3, <1>6, <2>2
<1>11. CASE login' = [login EXCEPT ![l].iat = now, ![l].auth = v.auth]
  <2>1. PICK e : e = [x EXCEPT !.iat = now, !.auth = v.auth]
    OBVIOUS
  <2>2. e \in Entry /\ e.started = x.started /\ e.iat = now /\ e.auth = v.auth /\ e.fed = x.fed /\ e.row = x.row
    BY <1>1, <1>9, <2>1 DEF Entry
  <2>3. login' = [login EXCEPT ![l] = e]
    BY <1>3, <1>9, <1>11, <2>1
  <2>4. Issues(l, e, k)
    BY <1>6, <1>7, <2>3 DEF Issues
  <2> QED BY <1>1, <1>2, <1>3, <1>6, <2>2, <2>4
<1> QED BY <1>8, <1>10, <1>11

\* A switch with a token that has run out: a sign-in of its own.
LEMMA BeginsAnotherIs ==
    ASSUME GatesShape, NEW r \in Requests, NEW l \in Logins, BeginsAnother(r, l)
    PROVE  \E e \in Entry, k \in Card :
             /\ Issues(l, e, k) /\ e.started = now /\ e.iat = now /\ (e.row => ~e.fed) /\ k.scope = visit[r].scope
<1>1. PICK v \in Visit : v = visit[r] /\ v.scope \in SUBSET Codes
  BY VisitIs DEF BeginsAnother, Ready
<1>2. AuthOf(v) = now
  BY <1>1 DEF AuthOf, BeginsAnother
<1>3. now \in Nat
  BY DEF GatesShape, Time
<1>4. PICK e : e = [fed |-> FALSE, started |-> now, row |-> TRUE, auth |-> now, iat |-> now]
  OBVIOUS
<1>5. PICK fed \in BOOLEAN : fed = FALSE
  OBVIOUS
<1>0. PICK k : k = NewCard(l, fed, now, v.scope)
  OBVIOUS
<1>6. e \in Entry /\ e.started = now /\ e.iat = now /\ (e.row => ~e.fed)
  BY <1>3, <1>4 DEF Entry
<1>7. k \in Card /\ k.login = l /\ k.iat = now /\ k.until = now + CardTtl /\ k.scope = v.scope
  BY <1>0, <1>1, <1>3, NewCardIs DEF GatesShape
<1>8. Issues(l, e, k)
  BY <1>0, <1>1, <1>2, <1>4, <1>5, <1>7 DEF BeginsAnother, Issues
<1> QED BY <1>1, <1>6, <1>7, <1>8

\* A new password: a federated sign-in goes on, or a local one begins.
LEMMA ChangesPasswordIs ==
    ASSUME GatesShape, VisitsFit, NEW r \in Requests, NEW l \in Logins, ChangesPassword(r, l)
    PROVE  \E e \in Entry, k \in Card :
             /\ Issues(l, e, k) /\ e.iat = now /\ e.auth = now /\ (e.row => ~e.fed) /\ k.auth = now
             /\ k.scope = visit[r].scope
             /\ \/ e.started = now /\ login[l] = NoEntry
                \/ /\ l = visit[r].login /\ visit[r].carried /\ login[l] # NoEntry
                   /\ e.started = login[l].started /\ e.fed = login[l].fed /\ (e.row => login[l].row)
<1>1. PICK v \in Visit : /\ v = visit[r] /\ v.login \in Logins /\ v.scope \in SUBSET Codes /\ v.carried \in BOOLEAN
                         /\ v # NoVisit
  BY VisitIs DEF ChangesPassword, Ready, Visit
<1>2. login[v.login] # NoEntry
  BY <1>1 DEF VisitsFit
<1>3. PICK stays \in BOOLEAN : stays = (v.carried /\ login[v.login].fed)
  BY <1>1, <1>2, EntryIs
<1>4. now \in Nat
  BY DEF GatesShape, Time
<1>5. IF stays THEN l = v.login ELSE login[l] = NoEntry
  BY <1>1, <1>3 DEF ChangesPassword
<1>6. PICK begun \in Nat : begun = IF stays THEN login[l].started ELSE now
  BY <1>1, <1>2, <1>4, <1>5, EntryIs
<1>7. PICK e : e = [fed |-> stays, started |-> begun, row |-> ~stays, auth |-> now, iat |-> now]
  OBVIOUS
<1>8. PICK k : k = NewCard(l, stays, now, v.scope)
  OBVIOUS
<1>9. e \in Entry /\ e.started = begun /\ e.iat = now /\ e.auth = now /\ e.fed = stays /\ (e.row => ~e.fed)
  BY <1>4, <1>7 DEF Entry
<1>10. k \in Card /\ k.login = l /\ k.iat = now /\ k.until = now + CardTtl /\ k.auth = now /\ k.scope = v.scope
  BY <1>1, <1>4, <1>8, NewCardIs DEF GatesShape
<1>11. cards' = cards \cup {k}
  BY <1>1, <1>3, <1>8 DEF ChangesPassword
<1>12. login' = [login EXCEPT ![l] = e]
  <2>1. login \in [Logins -> Entry \cup {NoEntry}]
    BY DEF GatesShape, GatesTypeOK
  <2>2. login' = [login EXCEPT ![l] = [fed |-> stays, started |-> IF stays THEN login[l].started ELSE now,
                                       row |-> ~stays, auth |-> now, iat |-> now]]
    BY <1>1, <1>3, <2>1 DEF ChangesPassword
  <2> QED BY <1>6, <1>7, <2>2
<1>13. Issues(l, e, k)
  BY <1>10, <1>11, <1>12 DEF Issues
<1>14. \/ e.started = now /\ login[l] = NoEntry
       \/ /\ l = v.login /\ v.carried /\ login[l] # NoEntry
          /\ e.started = login[l].started /\ e.fed = login[l].fed /\ (e.row => login[l].row)
  <2>1. CASE stays
    <3>1. e.row = FALSE /\ login[l].fed = TRUE /\ v.carried
      BY <1>1, <1>2, <1>3, <1>5, <1>7, <2>1, EntryIs
    <3> QED BY <1>2, <1>5, <1>6, <1>9, <2>1, <3>1
  <2>2. CASE ~stays
    BY <1>5, <1>6, <1>9, <2>2
  <2> QED BY <2>1, <2>2
<1> QED BY <1>1, <1>9, <1>10, <1>13, <1>14

GatesFit == GatesShape /\ RangesFit /\ VisitsFit /\ RowsAreLocal

\* What the state's types say without the person's account and the last flag.
TablesFit ==
    /\ held \subseteq Codes /\ boundary \in Time \cup {Never} /\ stoppedAt \in Time \cup {Never}
    /\ login \in [Logins -> Entry \cup {NoEntry}] /\ cards \subseteq Card
    /\ visit \in [Requests -> Visit \cup {NoVisit}]
    /\ entered \in [Logins -> Time \cup {Never}] /\ ended \in [Logins -> Time \cup {Never}]
    /\ offSince \in Time \cup {Never} /\ lastHeld \in [Codes -> Time \cup {Never}]
    /\ straddled \subseteq Logins /\ excused \subseteq Logins /\ lateCodes \subseteq Codes
CardsFit == \A c \in cards : login[c.login] # NoEntry /\ c.iat <= now /\ now <= c.until /\ c.until <= now + CardTtl

LEMMA GatesTypeIs == GatesTypeOK <=> TablesFit /\ CardsFit /\ enabled \in BOOLEAN /\ reissued \in BOOLEAN
<1>1. GatesTypeOK => TablesFit
  BY DEF GatesTypeOK, TablesFit
<1>2. GatesTypeOK => CardsFit /\ enabled \in BOOLEAN /\ reissued \in BOOLEAN
  BY DEF GatesTypeOK, CardsFit
<1>3. TablesFit /\ CardsFit /\ enabled \in BOOLEAN /\ reissued \in BOOLEAN => GatesTypeOK
  BY DEF GatesTypeOK, TablesFit, CardsFit
<1> QED BY <1>1, <1>2, <1>3

LEMMA CardIs ==
    ASSUME GatesFit, NEW c \in cards
    PROVE  /\ c \in Card /\ c.login \in Logins /\ c.iat \in Nat /\ c.until \in Nat /\ c.auth \in Nat /\ c.scope \in SUBSET Codes
           /\ c.iat <= now /\ now <= c.until /\ c.until <= now + CardTtl /\ login[c.login] # NoEntry
<1>1. c \in Card
  BY DEF GatesFit, GatesShape, GatesTypeOK
<1>2. c.iat <= now /\ now <= c.until /\ c.until <= now + CardTtl /\ login[c.login] # NoEntry
  BY DEF GatesFit, GatesShape, GatesTypeOK
<1> QED BY <1>1, <1>2 DEF Card

LEMMA TimesAre ==
    ASSUME GatesFit
    PROVE  /\ now \in Nat /\ now \in Int /\ boundary \in Int /\ stoppedAt \in Int /\ offSince \in Int
           /\ CardTtl \in Nat /\ now <= now
           /\ \A l \in Logins : entered[l] \in Int /\ ended[l] \in Int
           /\ \A o \in Codes : lastHeld[o] \in Int
<1>1. now \in Time
  BY DEF GatesFit, GatesShape
<1>2. /\ boundary \in Time \cup {Never} /\ stoppedAt \in Time \cup {Never} /\ offSince \in Time \cup {Never}
      /\ \A l \in Logins : entered[l] \in Time \cup {Never} /\ ended[l] \in Time \cup {Never}
      /\ \A o \in Codes : lastHeld[o] \in Time \cup {Never}
  BY GatesTypeIs DEF GatesFit, GatesShape, TablesFit
<1> QED BY <1>1, <1>2, GatesAssumption DEF Time, Never

\* A token more: the tables it touches.
LEMMA IssuesFit ==
    ASSUME GatesFit, NEW l \in Logins, NEW e \in Entry, NEW k \in Card, Issues(l, e, k), now' = now
    PROVE  /\ login' \in [Logins -> Entry \cup {NoEntry}] /\ cards' \subseteq Card /\ CardsFit'
           /\ \A m \in Logins : login'[m] = IF m = l THEN e ELSE login[m]
<1>1. /\ login' \in [Logins -> Entry \cup {NoEntry}]
      /\ \A m \in Logins : login'[m] = IF m = l THEN e ELSE login[m]
  BY GatesTypeIs DEF GatesFit, GatesShape, TablesFit, Issues
<1>2. cards' \subseteq Card
  BY GatesTypeIs DEF GatesFit, GatesShape, TablesFit, Issues
<1>3. CardsFit'
  <2> SUFFICES ASSUME NEW c \in cards'
               PROVE  login'[c.login] # NoEntry /\ c.iat <= now /\ now <= c.until /\ c.until <= now + CardTtl
    BY DEF CardsFit
  <2>1. CASE c = k
    <3>1. login'[l] # NoEntry
      BY <1>1, GatesNulls
    <3> QED BY <2>1, <3>1, TimesAre DEF Issues
  <2>2. CASE c \in cards
    <3>1. /\ c.iat <= now /\ now <= c.until /\ c.until <= now + CardTtl
          /\ login[c.login] # NoEntry /\ c.login \in Logins
      BY <2>2, CardIs
    <3>2. login'[c.login] # NoEntry
      BY <1>1, <3>1, GatesNulls
    <3> QED BY <3>1, <3>2
  <2> QED BY <2>1, <2>2 DEF Issues
<1> QED BY <1>1, <1>2, <1>3

LEMMA AnswersFit ==
    ASSUME GatesFit, NEW r \in Requests, visit' = [visit EXCEPT ![r] = NoVisit]
    PROVE  /\ visit' \in [Requests -> Visit \cup {NoVisit}] /\ visit'[r] = NoVisit
           /\ \A q \in Requests : visit'[q] \in {visit[q], NoVisit}
BY GatesTypeIs DEF GatesFit, GatesShape, TablesFit

LEMMA EndsFit ==
    ASSUME GatesFit, NEW L \in SUBSET Logins, NEW fresh, NEW r, EndLogins(L, fresh, r)
    PROVE  /\ ended' \in [Logins -> Time \cup {Never}] /\ excused' \subseteq Logins /\ excused \subseteq excused'
           /\ \A l \in Logins : ended'[l] = IF l \in L /\ login[l] # NoEntry /\ ended[l] = Never THEN now ELSE ended[l]
           /\ \A l \in L : login[l] # NoEntry /\ ended[l] = Never /\ l \notin excused' => ~InFlight(l, r) /\ l \notin fresh
<1>1. now \in Time /\ ended \in [Logins -> Time \cup {Never}] /\ excused \subseteq Logins
  BY GatesTypeIs DEF GatesFit, GatesShape, TablesFit
<1> QED BY <1>1 DEF EndLogins

\* The sign-ins, the tokens and what else there is after a token was issued.
LEMMA AfterIssues ==
    ASSUME GatesFit, NEW l \in Logins, NEW e \in Entry, NEW k \in Card, Issues(l, e, k),
           e.started <= now, e.iat <= now, e.row => ~e.fed,
           UNCHANGED <<now, held, stoppedAt, offSince, lastHeld, lateCodes>>,
           boundary' \in {boundary, now}, entered' \in [Logins -> Time \cup {Never}],
           \A m \in Logins : entered'[m] <= now,
           ended' \in [Logins -> Time \cup {Never}], excused' \subseteq Logins, straddled' \subseteq Logins,
           enabled' \in BOOLEAN, reissued' \in BOOLEAN,
           visit' \in [Requests -> Visit \cup {NoVisit}], \A q \in Requests : visit'[q] \in {visit[q], NoVisit}
    PROVE  GatesFit'
<1>1. /\ login' \in [Logins -> Entry \cup {NoEntry}] /\ cards' \subseteq Card /\ CardsFit'
      /\ \A m \in Logins : login'[m] = IF m = l THEN e ELSE login[m]
  BY IssuesFit
<1>2. now \in Time /\ TablesFit
  BY GatesTypeIs DEF GatesFit, GatesShape
<1>3. TablesFit'
  BY <1>1, <1>2 DEF TablesFit
<1>4. GatesTypeOK' /\ now' \in Time
  <2>1. now' \in Time
    BY <1>2
  <2>2. enabled' \in BOOLEAN
    OBVIOUS
  <2>3. reissued' \in BOOLEAN
    OBVIOUS
  <2>4. GatesTypeOK'
    BY <1>1, <1>3, <2>2, <2>3 DEF GatesTypeOK, TablesFit, CardsFit
  <2> QED BY <2>1, <2>4
<1>5. \A m \in Logins : login'[m] # NoEntry => login'[m].iat <= now /\ login'[m].started <= now
  BY <1>1 DEF GatesFit, RangesFit
<1>6. boundary' <= now
  BY TimesAre DEF GatesFit, RangesFit
<1>7. RangesFit'
  BY <1>5, <1>6 DEF GatesFit, RangesFit
<1>8. VisitsFit'
  <2> SUFFICES ASSUME NEW q \in Requests, visit'[q] # NoVisit PROVE login'[visit'[q].login] # NoEntry
    BY DEF VisitsFit
  <2>1. visit'[q] = visit[q] /\ login[visit[q].login] # NoEntry /\ visit[q].login \in Logins
    BY VisitIs DEF GatesFit, VisitsFit
  <2> QED BY <1>1, <2>1, GatesNulls
<1>9. RowsAreLocal'
  BY <1>1 DEF GatesFit, RowsAreLocal
<1> QED BY <1>4, <1>7, <1>8, <1>9 DEF GatesFit, GatesShape

LEMMA FitLater ==
    ASSUME TablesFit', CardsFit', enabled' \in BOOLEAN, reissued' \in BOOLEAN, now' \in Time,
           RangesFit', VisitsFit', RowsAreLocal'
    PROVE  GatesFit'
<1>1. GatesTypeOK'
  BY DEF GatesTypeOK, TablesFit, CardsFit
<1> QED BY <1>1 DEF GatesFit, GatesShape

LEMMA GatesInitFit == GatesInit => GatesFit
<1> SUFFICES ASSUME GatesInit PROVE GatesFit
  OBVIOUS
<1>1. now = 0 /\ 0 \in Time /\ Never \notin Time /\ Never < 0
  BY DEF GatesInit, Time, Never
<1>2. TablesFit
  BY <1>1 DEF TablesFit, GatesInit
<1>3. CardsFit /\ VisitsFit /\ RowsAreLocal
  BY DEF CardsFit, VisitsFit, RowsAreLocal, GatesInit
<1>4. enabled \in BOOLEAN
  BY DEF GatesInit
<1>5. reissued \in BOOLEAN
  BY DEF GatesInit
<1>6. RangesFit
  <2>1. boundary = Never /\ stoppedAt = Never /\ offSince = Never
    BY DEF GatesInit
  <2>2. \A l \in Logins : entered[l] = Never /\ login[l] = NoEntry
    BY DEF GatesInit
  <2>3. \A o \in Codes : lastHeld[o] = 0
    BY DEF GatesInit
  <2> QED BY <1>1, <2>1, <2>2, <2>3 DEF RangesFit, Never
<1>7. GatesTypeOK
  BY <1>2, <1>3, <1>4, <1>5 DEF GatesTypeOK, TablesFit, CardsFit
<1> QED BY <1>1, <1>3, <1>6, <1>7 DEF GatesFit, GatesShape

LEMMA FlagsAre == ASSUME GatesFit PROVE enabled \in BOOLEAN /\ reissued \in BOOLEAN
BY GatesTypeIs DEF GatesFit, GatesShape

LEMMA SignsInFits == ASSUME GatesFit, NEW l \in Logins, NEW fed \in BOOLEAN, SignsIn(l, fed) PROVE GatesFit'
<1>1. PICK e \in Entry, k \in Card : Issues(l, e, k) /\ e.started = now /\ e.iat = now /\ (e.row => ~e.fed)
  BY SignsInIs DEF GatesFit
<1>2. e.started <= now /\ e.iat <= now /\ now \in Time
  BY <1>1, TimesAre DEF GatesFit, GatesShape
<1>3. entered' = [entered EXCEPT ![l] = now]
  BY DEF SignsIn
<1>4. entered' \in [Logins -> Time \cup {Never}] /\ \A m \in Logins : entered'[m] <= now
  BY <1>2, <1>3, GatesTypeIs, TimesAre DEF GatesFit, GatesShape, TablesFit, RangesFit
<1>5. enabled' \in BOOLEAN
  BY FlagsAre DEF SignsIn, gateRows
<1>6. reissued' \in BOOLEAN
  BY FlagsAre DEF SignsIn
<1>7. TablesFit
  BY GatesTypeIs DEF GatesFit, GatesShape
<1>8. /\ UNCHANGED <<now, held, stoppedAt, offSince, lastHeld, lateCodes>> /\ boundary' \in {boundary, now}
      /\ ended' = ended /\ excused' = excused /\ straddled' = straddled /\ visit' = visit
  BY DEF SignsIn, gateRows
<1>9. /\ ended' \in [Logins -> Time \cup {Never}] /\ excused' \subseteq Logins /\ straddled' \subseteq Logins
      /\ visit' \in [Requests -> Visit \cup {NoVisit}] /\ \A q \in Requests : visit'[q] \in {visit[q], NoVisit}
  BY <1>7, <1>8 DEF TablesFit
<1> QED BY <1>1, <1>2, <1>4, <1>5, <1>6, <1>8, <1>9, AfterIssues

\* A request is where it was not, or gone.
LEMMA VisitFits ==
    ASSUME GatesFit, NEW r \in Requests, NEW v \in Visit \cup {NoVisit}, v # NoVisit => login[v.login] # NoEntry,
           visit' = [visit EXCEPT ![r] = v], UNCHANGED <<now, gateRows, login, cards, gateHistory>>
    PROVE  GatesFit'
<1>1. TablesFit' /\ CardsFit' /\ now' \in Time
  BY GatesTypeIs DEF GatesFit, GatesShape, TablesFit, CardsFit, gateRows, gateHistory
<1>2. enabled' \in BOOLEAN
  BY FlagsAre DEF gateRows
<1>3. reissued' \in BOOLEAN
  BY FlagsAre DEF gateHistory
<1>4. RangesFit' /\ RowsAreLocal'
  BY DEF GatesFit, RangesFit, RowsAreLocal, gateRows, gateHistory
<1>5. VisitsFit'
  BY GatesTypeIs DEF GatesFit, GatesShape, TablesFit, VisitsFit
<1> QED BY <1>1, <1>2, <1>3, <1>4, <1>5, FitLater

LEMMA ShowsIs ==
    ASSUME GatesFit, NEW r \in Requests, NEW kind \in {"switch", "change"}, NEW c \in cards, Shows(r, kind, c)
    PROVE  \E v \in Visit :
             /\ visit' = [visit EXCEPT ![r] = v] /\ v.kind = kind /\ v.login = c.login /\ v.auth = c.auth /\ v.iat = c.iat
             /\ v.until = c.until /\ v.stage = "shown" /\ v.scope = {}
<1>1. PICK v : v = [kind |-> kind, login |-> c.login, auth |-> c.auth, iat |-> c.iat, until |-> c.until,
                    stage |-> "shown", carried |-> TRUE, scope |-> {}]
  OBVIOUS
<1>2. v \in Visit
  BY <1>1, CardIs DEF Visit
<1> QED BY <1>1, <1>2 DEF Shows

LEMMA ShowsFits ==
    ASSUME GatesFit, NEW r \in Requests, NEW kind \in {"switch", "change"}, NEW c \in cards, Shows(r, kind, c)
    PROVE  GatesFit'
<1>1. PICK v \in Visit : visit' = [visit EXCEPT ![r] = v] /\ v.login = c.login
  BY ShowsIs
<1> QED BY <1>1, CardIs, VisitFits DEF Shows

LEMMA ShowsPaperIs ==
    ASSUME GatesFit, NEW r \in Requests, NEW l \in Logins, ShowsPaper(r, l)
    PROVE  \E v \in Visit :
             /\ visit' = [visit EXCEPT ![r] = v] /\ v.kind = "renew" /\ v.login = l /\ v.auth = login[l].auth
             /\ v.iat = login[l].iat /\ v.stage = "shown" /\ v.scope = {} /\ login[l] # NoEntry /\ ~login[l].fed
<1>1. PICK v : v = [kind |-> "renew", login |-> l, auth |-> login[l].auth, iat |-> login[l].iat, until |-> MaxTime + 1,
                    stage |-> "shown", carried |-> TRUE, scope |-> {}]
  OBVIOUS
<1>2. MaxTime + 1 \in Nat /\ login[l].auth \in Nat /\ login[l].iat \in Nat
  BY EntryIs DEF ShowsPaper, GatesFit
<1>3. v \in Visit
  BY <1>1, <1>2 DEF Visit
<1> QED BY <1>1, <1>3 DEF ShowsPaper

LEMMA ShowsPaperFits ==
    ASSUME GatesFit, NEW r \in Requests, NEW l \in Logins, ShowsPaper(r, l)
    PROVE  GatesFit'
<1>1. PICK v \in Visit : visit' = [visit EXCEPT ![r] = v] /\ v.login = l /\ login[l] # NoEntry
  BY ShowsPaperIs
<1> QED BY <1>1, VisitFits DEF ShowsPaper

\* Who is judged goes on with what the rows say, or is turned away.
LEMMA JudgesIs ==
    ASSUME GatesFit, NEW r \in Requests, Judges(r)
    PROVE  \E v \in Visit \cup {NoVisit} :
             /\ visit' = [visit EXCEPT ![r] = v] /\ visit[r].stage = "shown" /\ visit[r] # NoVisit
             /\ v # NoVisit =>
                  /\ v.kind = visit[r].kind /\ v.login = visit[r].login /\ v.auth = visit[r].auth /\ v.iat = visit[r].iat
                  /\ v.stage = "judged" /\ v.scope = held
                  /\ v.carried => ~Revoked(visit[r])
                  /\ v.kind = "renew" => enabled
<1>1. PICK w \in Visit : w = visit[r] /\ w # NoVisit /\ w.stage = "shown"
  BY VisitIs DEF Judges, GatesFit
<1>2. PICK good \in BOOLEAN : good = (now < w.until)
  <2>1. (now < w.until) \in BOOLEAN
    BY <1>1, TimesAre DEF Visit
  <2> QED BY <2>1
<1>3. held \in SUBSET Codes
  BY GatesTypeIs DEF GatesFit, GatesShape, TablesFit
<1>4. PICK v : v = [w EXCEPT !.stage = "judged", !.carried = good, !.scope = held]
  OBVIOUS
<1>5. v \in Visit
  BY <1>1, <1>3, <1>4 DEF Visit
<1>6. /\ v.kind = w.kind /\ v.login = w.login /\ v.auth = w.auth /\ v.iat = w.iat
      /\ v.stage = "judged" /\ v.scope = held /\ v.carried = good
  BY <1>1, <1>4 DEF Visit
<1>7. CASE (good => ~Revoked(w)) /\ (w.kind = "renew" => enabled)
  <2>1. visit' = [visit EXCEPT ![r] = v]
    BY <1>1, <1>2, <1>4, <1>7 DEF Judges, ScopeOf
  <2> QED BY <1>1, <1>5, <1>6, <1>7, <2>1
<1>8. CASE ~((good => ~Revoked(w)) /\ (w.kind = "renew" => enabled))
  <2>1. visit' = [visit EXCEPT ![r] = NoVisit]
    BY <1>1, <1>2, <1>8 DEF Judges
  <2> QED BY <1>1, <2>1
<1> QED BY <1>7, <1>8

LEMMA JudgesFits == ASSUME GatesFit, NEW r \in Requests, Judges(r) PROVE GatesFit'
<1>1. PICK v \in Visit \cup {NoVisit} :
        visit' = [visit EXCEPT ![r] = v] /\ visit[r] # NoVisit /\ (v # NoVisit => v.login = visit[r].login)
  BY JudgesIs
<1>2. v # NoVisit => login[v.login] # NoEntry
  BY <1>1 DEF GatesFit, VisitsFit
<1> QED BY <1>1, <1>2, VisitFits DEF Judges

LEMMA CarriesOnFits == ASSUME GatesFit, NEW r \in Requests, CarriesOn(r) PROVE GatesFit'
<1>1. PICK l \in Logins : l = visit[r].login /\ login[l] # NoEntry
  BY VisitIs DEF CarriesOn, Ready, GatesFit, VisitsFit
<1>2. PICK e \in Entry, k \in Card :
        /\ Issues(l, e, k) /\ e.started = login[l].started /\ e.iat \in {login[l].iat, now}
        /\ e.fed = login[l].fed /\ e.row = login[l].row
  BY <1>1, CarriesOnIs DEF GatesFit
<1>3. e.row => ~e.fed
  BY <1>1, <1>2 DEF GatesFit, RowsAreLocal
<1>4. login[l].iat <= now /\ login[l].started <= now
  BY <1>1 DEF GatesFit, RangesFit
<1>5. e.started <= now /\ e.iat <= now
  BY <1>2, <1>4, TimesAre
<1>6. enabled' \in BOOLEAN
  BY FlagsAre DEF CarriesOn, gateRows
<1>7. reissued' \in BOOLEAN
  BY DEF CarriesOn
<1>8. TablesFit /\ RangesFit
  BY GatesTypeIs DEF GatesFit, GatesShape
<1>9. /\ UNCHANGED <<now, held, stoppedAt, offSince, lastHeld, lateCodes, boundary, entered, ended, excused, straddled>>
      /\ visit' = [visit EXCEPT ![r] = NoVisit]
  BY DEF CarriesOn, gateRows
<1>10. /\ boundary' \in {boundary, now} /\ entered' \in [Logins -> Time \cup {Never}]
       /\ \A m \in Logins : entered'[m] <= now
       /\ ended' \in [Logins -> Time \cup {Never}] /\ excused' \subseteq Logins /\ straddled' \subseteq Logins
  BY <1>8, <1>9 DEF TablesFit, RangesFit
<1> QED BY <1>2, <1>3, <1>5, <1>6, <1>7, <1>9, <1>10, AnswersFit, AfterIssues

LEMMA BeginsAnotherFits ==
    ASSUME GatesFit, NEW r \in Requests, NEW l \in Logins, BeginsAnother(r, l) PROVE GatesFit'
<1>1. visit[r].login \in Logins
  BY VisitIs DEF BeginsAnother, Ready, GatesFit
<1>2. PICK e \in Entry, k \in Card : Issues(l, e, k) /\ e.started = now /\ e.iat = now /\ (e.row => ~e.fed)
  BY BeginsAnotherIs DEF GatesFit
<1>5. e.started <= now /\ e.iat <= now
  BY <1>2, TimesAre
<1>6. enabled' \in BOOLEAN
  BY FlagsAre DEF BeginsAnother, gateRows
<1>7. reissued' \in BOOLEAN
  BY DEF BeginsAnother
<1>8. TablesFit /\ RangesFit
  BY GatesTypeIs DEF GatesFit, GatesShape
<1>9. /\ UNCHANGED <<now, held, stoppedAt, offSince, lastHeld, lateCodes, boundary, ended, excused>>
      /\ visit' = [visit EXCEPT ![r] = NoVisit] /\ straddled' = straddled \cup {l}
      /\ entered' = [entered EXCEPT ![l] = entered[visit[r].login]]
  BY DEF BeginsAnother, gateRows
<1>10. /\ boundary' \in {boundary, now} /\ entered' \in [Logins -> Time \cup {Never}]
       /\ \A m \in Logins : entered'[m] <= now
       /\ ended' \in [Logins -> Time \cup {Never}] /\ excused' \subseteq Logins /\ straddled' \subseteq Logins
  BY <1>1, <1>8, <1>9 DEF TablesFit, RangesFit
<1> QED BY <1>2, <1>5, <1>6, <1>7, <1>9, <1>10, AnswersFit, AfterIssues

\* What a change of the password ends.
LEMMA ChangesPasswordEnds ==
    ASSUME GatesFit, NEW r \in Requests, NEW l \in Logins, ChangesPassword(r, l)
    PROVE  LET fresh == {c.login : c \in {d \in cards : d.iat = now}} \cup
                        {k \in Logins : login[k] # NoEntry /\ ~login[k].fed /\ login[k].iat = now}
           IN  EndLogins(Logins \ {l}, fresh, r)
BY DEF ChangesPassword

LEMMA ChangesPasswordFits ==
    ASSUME GatesFit, NEW r \in Requests, NEW l \in Logins, ChangesPassword(r, l) PROVE GatesFit'
<1>1. PICK e \in Entry, k \in Card :
        /\ Issues(l, e, k) /\ e.iat = now /\ (e.row => ~e.fed)
        /\ (e.started = now \/ (login[l] # NoEntry /\ e.started = login[l].started))
  BY ChangesPasswordIs DEF GatesFit
<1>2. login[l] # NoEntry => login[l].started <= now
  BY DEF GatesFit, RangesFit
<1>3. e.started <= now /\ e.iat <= now
  BY <1>1, <1>2, TimesAre
<1>4. ended' \in [Logins -> Time \cup {Never}] /\ excused' \subseteq Logins
  <2>1. PICK fresh : EndLogins(Logins \ {l}, fresh, r)
    BY ChangesPasswordEnds
  <2>2. PICK L \in SUBSET Logins : L = Logins \ {l}
    OBVIOUS
  <2> QED BY <2>1, <2>2, EndsFit
<1>6. enabled' \in BOOLEAN
  BY FlagsAre DEF ChangesPassword
<1>7. reissued' \in BOOLEAN
  BY DEF ChangesPassword
<1>8. TablesFit /\ RangesFit /\ now \in Time
  BY GatesTypeIs DEF GatesFit, GatesShape
<1>9. /\ UNCHANGED <<now, held, stoppedAt, offSince, lastHeld, lateCodes, straddled>>
      /\ boundary' = now /\ visit' = [visit EXCEPT ![r] = NoVisit] /\ entered' = [entered EXCEPT ![l] = now]
  BY DEF ChangesPassword
<1>10. /\ boundary' \in {boundary, now} /\ entered' \in [Logins -> Time \cup {Never}]
       /\ \A m \in Logins : entered'[m] <= now
       /\ straddled' \subseteq Logins
  BY <1>8, <1>9, TimesAre DEF TablesFit, RangesFit
<1> QED BY <1>1, <1>3, <1>4, <1>6, <1>7, <1>9, <1>10, AnswersFit, AfterIssues

\* The row of a local sign-in is gone.
LEMMA RowEndsIs ==
    ASSUME GatesFit, NEW l \in Logins, RowEnds(l)
    PROVE  /\ login[l] # NoEntry /\ login[l].row /\ ~login[l].fed
           /\ \E e \in Entry : /\ login' = [login EXCEPT ![l] = e] /\ ~e.row /\ ~e.fed
                               /\ e.iat = login[l].iat /\ e.auth = login[l].auth /\ e.started = login[l].started
<1>1. PICK x \in Entry : x = login[l]
  BY EntryIs DEF RowEnds, GatesFit
<1>2. x.row /\ ~x.fed /\ login[l] # NoEntry
  BY <1>1 DEF RowEnds, GatesFit, RowsAreLocal
<1>3. PICK e : e = [x EXCEPT !.row = FALSE]
  OBVIOUS
<1>4. e \in Entry /\ ~e.row /\ e.fed = x.fed /\ e.iat = x.iat /\ e.auth = x.auth /\ e.started = x.started
  BY <1>3 DEF Entry
<1>5. login' = [login EXCEPT ![l] = e]
  BY <1>1, <1>3, GatesTypeIs DEF RowEnds, GatesFit, GatesShape, TablesFit
<1> QED BY <1>1, <1>2, <1>4, <1>5

LEMMA RowEndsFits == ASSUME GatesFit, NEW l \in Logins, RowEnds(l) PROVE GatesFit'
<1>1. PICK e \in Entry : /\ login' = [login EXCEPT ![l] = e] /\ ~e.row /\ login[l] # NoEntry
                         /\ e.iat = login[l].iat /\ e.started = login[l].started
  BY RowEndsIs
<1>2. TablesFit /\ CardsFit /\ now \in Time
  BY GatesTypeIs DEF GatesFit, GatesShape
<1>3. \A m \in Logins : login'[m] = IF m = l THEN e ELSE login[m]
  BY <1>1, <1>2 DEF TablesFit
<1>4. ended' \in [Logins -> Time \cup {Never}] /\ excused' \subseteq Logins
  <2>1. EndLogins({l}, {}, Nobody)
    BY DEF RowEnds
  <2> QED BY <2>1, EndsFit
<1>5. UNCHANGED <<now, gateRows, cards, visit, entered, offSince, lastHeld, straddled, lateCodes, reissued>>
  BY DEF RowEnds
<1>6. TablesFit'
  BY <1>1, <1>2, <1>4, <1>5 DEF TablesFit, gateRows
<1>7. CardsFit'
  <2>1. \A c \in cards : c.login \in Logins /\ login[c.login] # NoEntry
    BY CardIs
  <2>2. \A c \in cards : login'[c.login] # NoEntry
    BY <1>3, <2>1, GatesNulls
  <2> QED BY <1>2, <1>5, <2>2 DEF CardsFit
<1>8. enabled' \in BOOLEAN
  BY <1>5, FlagsAre DEF gateRows
<1>9. reissued' \in BOOLEAN
  BY <1>5, FlagsAre
<1>10. RangesFit'
  BY <1>1, <1>3, <1>5 DEF GatesFit, RangesFit, gateRows
<1>11. VisitsFit'
  <2>1. \A r \in Requests : visit[r] # NoVisit => visit[r].login \in Logins /\ login[visit[r].login] # NoEntry
    BY VisitIs DEF GatesFit, VisitsFit
  <2> QED BY <1>3, <1>5, <2>1, GatesNulls DEF VisitsFit
<1>12. RowsAreLocal'
  BY <1>1, <1>3 DEF GatesFit, RowsAreLocal
<1> QED BY <1>2, <1>5, <1>6, <1>7, <1>8, <1>9, <1>10, <1>11, <1>12, FitLater

LEMMA ProviderStopsFits == ASSUME GatesFit, ProviderStops PROVE GatesFit'
<1>1. ended' \in [Logins -> Time \cup {Never}] /\ excused' \subseteq Logins
  <2>1. PICK L \in SUBSET Logins : EndLogins(L, {}, Nobody)
    BY DEF ProviderStops
  <2> QED BY <2>1, EndsFit
<1>2. TablesFit /\ CardsFit /\ now \in Time
  BY GatesTypeIs DEF GatesFit, GatesShape
<1>3. /\ stoppedAt' = now
      /\ UNCHANGED <<now, held, enabled, boundary, login, cards, visit, entered, offSince, lastHeld, straddled, lateCodes, reissued>>
  BY DEF ProviderStops
<1>4. TablesFit' /\ CardsFit'
  BY <1>1, <1>2, <1>3 DEF TablesFit, CardsFit
<1>5. enabled' \in BOOLEAN
  BY <1>3, FlagsAre
<1>6. reissued' \in BOOLEAN
  BY <1>3, FlagsAre
<1>7. RangesFit' /\ VisitsFit' /\ RowsAreLocal'
  BY <1>3, TimesAre DEF GatesFit, RangesFit, VisitsFit, RowsAreLocal
<1> QED BY <1>2, <1>3, <1>4, <1>5, <1>6, <1>7, FitLater

LEMMA SetsRolesFits == ASSUME GatesFit, NEW x \in SUBSET Codes, SetsRoles(x) PROVE GatesFit'
<1>2. TablesFit /\ CardsFit /\ now \in Time
  BY GatesTypeIs DEF GatesFit, GatesShape
<1>3. /\ held' = x /\ lastHeld' = [o \in Codes |-> IF o \in held \cup x THEN now ELSE lastHeld[o]]
      /\ lateCodes' = lateCodes \cup ((UNION {visit[r].scope : r \in {q \in Requests : visit[q] # NoVisit}}) \ x)
      /\ UNCHANGED <<now, enabled, boundary, stoppedAt, login, cards, visit, entered, ended, offSince, straddled,
                     excused, reissued>>
  BY DEF SetsRoles
<1>4. lateCodes' \subseteq Codes
  <2>1. \A r \in Requests : visit[r] # NoVisit => visit[r].scope \subseteq Codes
    BY VisitIs DEF GatesFit
  <2> QED BY <1>2, <1>3, <2>1 DEF TablesFit
<1>5. lastHeld' \in [Codes -> Time \cup {Never}]
  BY <1>2, <1>3 DEF TablesFit
<1>6. TablesFit' /\ CardsFit'
  BY <1>2, <1>3, <1>4, <1>5 DEF TablesFit, CardsFit
<1>7. enabled' \in BOOLEAN
  BY <1>3, FlagsAre
<1>8. reissued' \in BOOLEAN
  BY <1>3, FlagsAre
<1>9. VisitsFit' /\ RowsAreLocal'
  BY <1>3 DEF GatesFit, VisitsFit, RowsAreLocal
<1>10. RangesFit'
  <2>1. \A o \in Codes : lastHeld'[o] <= now
    BY <1>3, TimesAre DEF GatesFit, RangesFit
  <2> QED BY <1>3, <2>1 DEF GatesFit, RangesFit
<1> QED BY <1>2, <1>3, <1>6, <1>7, <1>8, <1>9, <1>10, FitLater

LEMMA SetsEnabledFits == ASSUME GatesFit, SetsEnabled PROVE GatesFit'
<1>2. TablesFit /\ CardsFit /\ now \in Time
  BY GatesTypeIs DEF GatesFit, GatesShape
<1>3. UNCHANGED <<now, held, boundary, stoppedAt, login, cards, visit, entered, ended, lastHeld, straddled, excused, lateCodes>>
  BY DEF SetsEnabled
<1>4. offSince' \in {now, Never}
  BY DEF SetsEnabled
<1>5. enabled' \in BOOLEAN
  BY DEF SetsEnabled
<1>6. reissued' \in BOOLEAN
  BY DEF SetsEnabled
<1>7. TablesFit' /\ CardsFit' /\ VisitsFit' /\ RowsAreLocal'
  BY <1>2, <1>3, <1>4 DEF TablesFit, CardsFit, GatesFit, VisitsFit, RowsAreLocal
<1>8. RangesFit'
  BY <1>3, <1>4, TimesAre DEF GatesFit, RangesFit, Never
<1> QED BY <1>2, <1>3, <1>5, <1>6, <1>7, <1>8, FitLater

LEMMA GatesTickFits == ASSUME GatesFit, GatesTick PROVE GatesFit'
<1>1. now \in Nat /\ now' = now + 1 /\ now' \in Time
  BY DEF GatesTick, Tick, GatesFit, GatesShape, Time
<1>2. TablesFit /\ CardsFit
  BY GatesTypeIs DEF GatesFit, GatesShape
<1>3. /\ cards' = {c \in cards : now' < c.until} /\ lastHeld' = [o \in Codes |-> IF o \in held THEN now' ELSE lastHeld[o]]
      /\ UNCHANGED <<held, boundary, stoppedAt, login, visit, entered, ended, offSince, straddled, excused, lateCodes>>
  BY DEF GatesTick, gateRows
<1>4. TablesFit'
  BY <1>1, <1>2, <1>3 DEF TablesFit
<1>5. CardsFit'
  <2> SUFFICES ASSUME NEW c \in cards'
               PROVE  login[c.login] # NoEntry /\ c.iat <= now' /\ now' <= c.until /\ c.until <= now' + CardTtl
    BY <1>3 DEF CardsFit
  <2>1. /\ c.iat \in Nat /\ c.until \in Nat /\ login[c.login] # NoEntry
        /\ c.iat <= now /\ c.until <= now + CardTtl
    BY <1>3, CardIs
  <2>2. now' < c.until
    BY <1>3
  <2> QED BY <1>1, <2>1, <2>2, TimesAre
<1>6. enabled' \in BOOLEAN
  BY FlagsAre DEF GatesTick, gateRows
<1>7. reissued' \in BOOLEAN
  BY FlagsAre DEF GatesTick
<1>8. VisitsFit' /\ RowsAreLocal'
  BY <1>3 DEF GatesFit, VisitsFit, RowsAreLocal
<1>9. RangesFit'
  <2>1. \A o \in Codes : lastHeld'[o] <= now'
    BY <1>1, <1>3, TimesAre DEF GatesFit, RangesFit
  <2>2. boundary <= now' /\ stoppedAt <= now' /\ offSince <= now'
    BY <1>1, TimesAre DEF GatesFit, RangesFit
  <2>3. \A l \in Logins : entered[l] <= now'
    BY <1>1, TimesAre DEF GatesFit, RangesFit
  <2>4. \A l \in Logins : login[l] # NoEntry => login[l].iat <= now' /\ login[l].started <= now'
    BY <1>1, EntryIs DEF GatesFit, RangesFit
  <2> QED BY <1>3, <2>1, <2>2, <2>3, <2>4 DEF RangesFit
<1> QED BY <1>1, <1>4, <1>5, <1>6, <1>7, <1>8, <1>9, FitLater

LEMMA GatesNextFits == ASSUME GatesFit, [GatesNext]_gateVars PROVE GatesFit'
<1>1. CASE UNCHANGED gateVars
  <2>1. UNCHANGED <<now, held, boundary, stoppedAt, login, cards, visit, entered, ended, offSince, lastHeld,
                    straddled, excused, lateCodes>>
    BY <1>1 DEF gateVars
  <2>2. enabled' \in BOOLEAN
    BY <1>1, FlagsAre DEF gateVars
  <2>3. reissued' \in BOOLEAN
    BY <1>1, FlagsAre DEF gateVars
  <2>4. TablesFit' /\ CardsFit' /\ now' \in Time
    BY <2>1, GatesTypeIs DEF GatesFit, GatesShape, TablesFit, CardsFit
  <2>5. RangesFit' /\ VisitsFit' /\ RowsAreLocal'
    BY <2>1 DEF GatesFit, RangesFit, VisitsFit, RowsAreLocal
  <2> QED BY <2>2, <2>3, <2>4, <2>5, FitLater
<1>2. CASE GatesNext
  BY <1>2, GatesTickFits, ProviderStopsFits, SetsEnabledFits, SetsRolesFits, RowEndsFits, SignsInFits, ShowsFits,
     ShowsPaperFits, BeginsAnotherFits, ChangesPasswordFits, JudgesFits, CarriesOnFits DEF GatesNext
<1> QED BY <1>1, <1>2

\* Whoever has a token, a paper or a request that says when a credential was shown
\* has shown one since.
AuthHolds ==
    /\ \A l \in Logins \ straddled : login[l] # NoEntry => login[l].auth <= entered[l]
    /\ \A c \in cards : c.login \notin straddled => c.auth <= entered[c.login]
    /\ \A r \in Requests :
         visit[r] # NoVisit /\ visit[r].login \notin straddled => visit[r].auth <= entered[visit[r].login]

\* No entrance and no token more, and what is shown is not touched.
LEMMA AuthKept ==
    ASSUME GatesFit, AuthHolds, UNCHANGED <<entered, straddled, visit>>, cards' \subseteq cards,
           \A l \in Logins : login'[l] # NoEntry => login[l] # NoEntry /\ login'[l].auth = login[l].auth
    PROVE  AuthHolds'
BY DEF AuthHolds

\* A request comes, with what a token or a paper says, or goes.
LEMMA AuthOfVisits ==
    ASSUME GatesFit, AuthHolds, NEW r \in Requests, NEW v, visit' = [visit EXCEPT ![r] = v],
           v # NoVisit /\ v.login \notin straddled => v.auth <= entered[v.login],
           UNCHANGED <<entered, straddled, cards, login>>
    PROVE  AuthHolds'
<1>1. \A q \in Requests : visit'[q] = IF q = r THEN v ELSE visit[q]
  BY GatesTypeIs DEF GatesFit, GatesShape, TablesFit
<1>2. \A q \in Requests :
         visit'[q] # NoVisit /\ visit'[q].login \notin straddled => visit'[q].auth <= entered[visit'[q].login]
  <2> SUFFICES ASSUME NEW q \in Requests, visit'[q] # NoVisit, visit'[q].login \notin straddled
               PROVE  visit'[q].auth <= entered[visit'[q].login]
    OBVIOUS
  <2>1. CASE q = r
    <3>1. visit'[q] = v
      BY <1>1, <2>1
    <3> QED BY <3>1
  <2>2. CASE q # r
    <3>1. visit'[q] = visit[q]
      BY <1>1, <2>2
    <3> QED BY <3>1 DEF AuthHolds
  <2> QED BY <2>1, <2>2
<1> QED BY <1>2 DEF AuthHolds

\* A token is issued.
LEMMA AuthAfterIssues ==
    ASSUME GatesFit, AuthHolds, NEW l \in Logins, NEW e \in Entry, NEW k \in Card, Issues(l, e, k), NEW t \in Int,
           entered' = [entered EXCEPT ![l] = t], straddled \subseteq straddled', login[l] # NoEntry => entered[l] <= t,
           l \notin straddled' => e.auth <= t /\ k.auth <= t,
           \A q \in Requests : visit'[q] \in {visit[q], NoVisit}
    PROVE  AuthHolds'
<1>1. \A m \in Logins : entered'[m] = IF m = l THEN t ELSE entered[m]
  BY GatesTypeIs DEF GatesFit, GatesShape, TablesFit
<1>2. \A m \in Logins : login'[m] = IF m = l THEN e ELSE login[m]
  BY GatesTypeIs DEF GatesFit, GatesShape, TablesFit, Issues
<1>3. \A m \in Logins \ straddled' : login'[m] # NoEntry => login'[m].auth <= entered'[m]
  BY <1>1, <1>2 DEF AuthHolds
<1>4. \A m \in Logins : login[m] # NoEntry => \A a \in Nat : a <= entered[m] => a <= entered'[m]
  <2> SUFFICES ASSUME NEW m \in Logins, login[m] # NoEntry, NEW a \in Nat, a <= entered[m] PROVE a <= entered'[m]
    OBVIOUS
  <2>1. entered[m] \in Int
    BY TimesAre
  <2>2. CASE m = l
    <3>1. entered'[m] = t /\ entered[m] <= t
      BY <1>1, <2>2
    <3> QED BY <2>1, <3>1
  <2>3. CASE m # l
    BY <1>1, <2>3
  <2> QED BY <2>2, <2>3
<1>5. \A c \in cards' : c.login \notin straddled' => c.auth <= entered'[c.login]
  <2> SUFFICES ASSUME NEW c \in cards', c.login \notin straddled' PROVE c.auth <= entered'[c.login]
    OBVIOUS
  <2>1. CASE c = k
    <3>1. c.login = l
      BY <2>1 DEF Issues
    <3> QED BY <1>1, <2>1, <3>1
  <2>2. CASE c \in cards
    <3>1. c.login \in Logins /\ login[c.login] # NoEntry /\ c.auth \in Nat /\ c.auth <= entered[c.login]
      BY <2>2, CardIs DEF AuthHolds
    <3> QED BY <1>4, <3>1
  <2> QED BY <2>1, <2>2 DEF Issues
<1>6. \A r \in Requests :
        visit'[r] # NoVisit /\ visit'[r].login \notin straddled' => visit'[r].auth <= entered'[visit'[r].login]
  <2> SUFFICES ASSUME NEW r \in Requests, visit'[r] # NoVisit, visit'[r].login \notin straddled'
               PROVE  visit'[r].auth <= entered'[visit'[r].login]
    OBVIOUS
  <2>1. visit'[r] = visit[r]
    OBVIOUS
  <2>2. PICK v : v = visit[r] /\ v # NoVisit
    BY <2>1
  <2>3. v.login \in Logins /\ v.auth \in Nat /\ login[v.login] # NoEntry
    BY <2>2, VisitIs DEF GatesFit, VisitsFit
  <2>4. v.auth <= entered[v.login]
    BY <2>1, <2>2 DEF AuthHolds
  <2>5. v.auth <= entered'[v.login]
    BY <1>4, <2>3, <2>4
  <2> QED BY <2>1, <2>2, <2>5
<1> QED BY <1>3, <1>5, <1>6 DEF AuthHolds

LEMMA GatesSteps ==
    ASSUME GatesNext
    PROVE  \/ GatesTick \/ ProviderStops \/ SetsEnabled
           \/ \E x \in SUBSET Codes : SetsRoles(x)
           \/ \E l \in Logins : RowEnds(l)
           \/ \E l \in Logins, fed \in BOOLEAN : SignsIn(l, fed)
           \/ \E r \in Requests, kind \in {"switch", "change"}, c \in cards : Shows(r, kind, c)
           \/ \E r \in Requests, l \in Logins : ShowsPaper(r, l)
           \/ \E r \in Requests, l \in Logins : BeginsAnother(r, l)
           \/ \E r \in Requests, l \in Logins : ChangesPassword(r, l)
           \/ \E r \in Requests : Judges(r)
           \/ \E r \in Requests : CarriesOn(r)
BY DEF GatesNext

LEMMA AuthKeeps == ASSUME GatesFit, AuthHolds, GatesNext PROVE AuthHolds'
<1>1. CASE GatesTick
  BY <1>1, AuthKept DEF GatesTick
<1>2. CASE ProviderStops
  BY <1>2, AuthKept DEF ProviderStops
<1>3. CASE SetsEnabled
  BY <1>3, AuthKept DEF SetsEnabled
<1>4. CASE \E x \in SUBSET Codes : SetsRoles(x)
  BY <1>4, AuthKept DEF SetsRoles
<1>5. ASSUME NEW l \in Logins, RowEnds(l) PROVE AuthHolds'
  <2>1. PICK e \in Entry : login' = [login EXCEPT ![l] = e] /\ e.auth = login[l].auth /\ login[l] # NoEntry
    BY <1>5, RowEndsIs
  <2>2. \A m \in Logins : login'[m] = IF m = l THEN e ELSE login[m]
    BY <2>1, GatesTypeIs DEF GatesFit, GatesShape, TablesFit
  <2>3. \A m \in Logins : login'[m] # NoEntry => login[m] # NoEntry /\ login'[m].auth = login[m].auth
    BY <2>1, <2>2
  <2> QED BY <1>5, <2>3, AuthKept DEF RowEnds
<1>6. ASSUME NEW l \in Logins, NEW fed \in BOOLEAN, SignsIn(l, fed) PROVE AuthHolds'
  <2>1. PICK e \in Entry, k \in Card : Issues(l, e, k) /\ e.auth = now /\ k.auth = now
    BY <1>6, SignsInIs DEF GatesFit
  <2>2. entered' = [entered EXCEPT ![l] = now] /\ straddled' = straddled /\ visit' = visit /\ login[l] = NoEntry
    BY <1>6 DEF SignsIn
  <2> QED BY <2>1, <2>2, TimesAre, AuthAfterIssues
<1>7. ASSUME NEW r \in Requests, NEW kind \in {"switch", "change"}, NEW c \in cards, Shows(r, kind, c) PROVE AuthHolds'
  <2>1. PICK v \in Visit : visit' = [visit EXCEPT ![r] = v] /\ v.login = c.login /\ v.auth = c.auth
    BY <1>7, ShowsIs
  <2>2. UNCHANGED <<entered, straddled, cards, login>>
    BY <1>7 DEF Shows, gateHistory
  <2>3. v.login \notin straddled => v.auth <= entered[v.login]
    BY <2>1 DEF AuthHolds
  <2> QED BY <2>1, <2>2, <2>3, AuthOfVisits
<1>8. ASSUME NEW r \in Requests, NEW l \in Logins, ShowsPaper(r, l) PROVE AuthHolds'
  <2>1. PICK v \in Visit : /\ visit' = [visit EXCEPT ![r] = v] /\ v.login = l /\ v.auth = login[l].auth
                           /\ login[l] # NoEntry
    BY <1>8, ShowsPaperIs
  <2>2. UNCHANGED <<entered, straddled, cards, login>>
    BY <1>8 DEF ShowsPaper, gateHistory
  <2>3. v.login \notin straddled => v.auth <= entered[v.login]
    BY <2>1 DEF AuthHolds
  <2> QED BY <2>1, <2>2, <2>3, AuthOfVisits
<1>9. ASSUME NEW r \in Requests, Judges(r) PROVE AuthHolds'
  <2>1. PICK v \in Visit \cup {NoVisit} :
          /\ visit' = [visit EXCEPT ![r] = v] /\ visit[r] # NoVisit
          /\ v # NoVisit => v.login = visit[r].login /\ v.auth = visit[r].auth
    BY <1>9, JudgesIs
  <2>2. UNCHANGED <<entered, straddled, cards, login>>
    BY <1>9 DEF Judges, gateHistory
  <2>3. v # NoVisit /\ v.login \notin straddled => v.auth <= entered[v.login]
    BY <2>1 DEF AuthHolds
  <2> QED BY <2>1, <2>2, <2>3, AuthOfVisits
<1>10. ASSUME NEW r \in Requests, CarriesOn(r) PROVE AuthHolds'
  <2>1. PICK l \in Logins : l = visit[r].login /\ login[l] # NoEntry
    BY <1>10, VisitIs DEF CarriesOn, Ready, GatesFit, VisitsFit
  <2>2. PICK e \in Entry, k \in Card :
          Issues(l, e, k) /\ e.auth \in {login[l].auth, visit[r].auth} /\ k.auth = visit[r].auth
    BY <1>10, <2>1, CarriesOnIs DEF GatesFit
  <2>3. entered' = entered /\ straddled' = straddled /\ visit' = [visit EXCEPT ![r] = NoVisit] /\ visit[r] # NoVisit
    BY <1>10 DEF CarriesOn, Ready
  <2>4. PICK t \in Int : t = entered[l]
    BY TimesAre
  <2>5. entered' = [entered EXCEPT ![l] = t] /\ entered[l] <= t
    BY <2>3, <2>4, GatesTypeIs DEF GatesFit, GatesShape, TablesFit
  <2>6. l \notin straddled' => e.auth <= t /\ k.auth <= t
    BY <2>1, <2>2, <2>3, <2>4 DEF AuthHolds
  <2> QED BY <2>2, <2>3, <2>5, <2>6, AnswersFit, AuthAfterIssues
<1>11. ASSUME NEW r \in Requests, NEW l \in Logins, BeginsAnother(r, l) PROVE AuthHolds'
  <2>1. PICK e \in Entry, k \in Card : Issues(l, e, k)
    BY <1>11, BeginsAnotherIs DEF GatesFit
  <2>2. /\ entered' = [entered EXCEPT ![l] = entered[visit[r].login]] /\ straddled' = straddled \cup {l}
        /\ visit' = [visit EXCEPT ![r] = NoVisit] /\ visit[r] # NoVisit /\ login[l] = NoEntry
    BY <1>11 DEF BeginsAnother, Ready
  <2>3. PICK t \in Int : t = entered[visit[r].login]
    BY <2>2, VisitIs, TimesAre DEF GatesFit
  <2> QED BY <2>1, <2>2, <2>3, AnswersFit, AuthAfterIssues
<1>12. ASSUME NEW r \in Requests, NEW l \in Logins, ChangesPassword(r, l) PROVE AuthHolds'
  <2>1. PICK e \in Entry, k \in Card : Issues(l, e, k) /\ e.auth = now /\ k.auth = now
    BY <1>12, ChangesPasswordIs DEF GatesFit
  <2>2. entered' = [entered EXCEPT ![l] = now] /\ straddled' = straddled /\ visit' = [visit EXCEPT ![r] = NoVisit]
    BY <1>12 DEF ChangesPassword
  <2>3. PICK t \in Int : t = now /\ entered[l] <= t
    BY TimesAre DEF GatesFit, RangesFit
  <2>4. entered' = [entered EXCEPT ![l] = t] /\ e.auth <= t /\ k.auth <= t
    BY <2>1, <2>2, <2>3, TimesAre
  <2>5. \A q \in Requests : visit'[q] \in {visit[q], NoVisit}
    BY <2>2, AnswersFit
  <2> QED BY <2>1, <2>2, <2>3, <2>4, <2>5, AuthAfterIssues
<1> QED BY <1>1, <1>2, <1>3, <1>4, <1>5, <1>6, <1>7, <1>8, <1>9, <1>10, <1>11, <1>12, GatesSteps

\* What the roles permit they permit now, and a request knows of nothing else but
\* what was taken while it was under way.
ScopeHolds ==
    /\ \A o \in held : lastHeld[o] = now
    /\ \A r \in Requests : visit[r] # NoVisit => visit[r].scope \subseteq held \cup lateCodes
    /\ CodesFade

\* The roles are as they were, and no token is issued.
LEMMA ScopeKept ==
    ASSUME GatesFit, ScopeHolds, UNCHANGED <<now, held, lastHeld, lateCodes>>, cards' \subseteq cards,
           \A q \in Requests : visit'[q] # NoVisit => visit'[q].scope \subseteq held \cup lateCodes
    PROVE  ScopeHolds'
<1>1. CodesFade'
  BY DEF ScopeHolds, CodesFade, PassesScope
<1> QED BY <1>1 DEF ScopeHolds

LEMMA ScopeOfVisits ==
    ASSUME GatesFit, ScopeHolds, UNCHANGED <<now, held, lastHeld, lateCodes>>, cards' = cards, NEW r \in Requests, NEW v,
           visit' = [visit EXCEPT ![r] = v], v # NoVisit => v.scope \subseteq held
    PROVE  ScopeHolds'
<1>1. \A q \in Requests : visit'[q] = IF q = r THEN v ELSE visit[q]
  BY GatesTypeIs DEF GatesFit, GatesShape, TablesFit
<1>2. \A q \in Requests : visit'[q] # NoVisit => visit'[q].scope \subseteq held \cup lateCodes
  <2> SUFFICES ASSUME NEW q \in Requests, visit'[q] # NoVisit PROVE visit'[q].scope \subseteq held \cup lateCodes
    OBVIOUS
  <2>1. CASE q = r
    <3>1. visit'[q] = v
      BY <1>1, <2>1
    <3> QED BY <3>1
  <2>2. CASE q # r
    <3>1. visit'[q] = visit[q]
      BY <1>1, <2>2
    <3> QED BY <3>1 DEF ScopeHolds
  <2> QED BY <2>1, <2>2
<1> QED BY <1>2, ScopeKept

\* A token is issued, for what the roles permit or did when the request came.
LEMMA ScopeAfterIssues ==
    ASSUME GatesFit, ScopeHolds, NEW l \in Logins, NEW e \in Entry, NEW k \in Card, Issues(l, e, k),
           UNCHANGED <<now, held, lastHeld, lateCodes>>, k.scope \subseteq held \cup lateCodes,
           \A q \in Requests : visit'[q] \in {visit[q], NoVisit}
    PROVE  ScopeHolds'
<1>1. CodesFade'
  <2> SUFFICES ASSUME NEW c \in cards', NEW o \in Codes \ lateCodes, o \in c.scope
               PROVE  c.until <= lastHeld[o] + CardTtl
    BY DEF CodesFade, PassesScope
  <2>1. CASE c = k
    <3>1. o \in held
      BY <2>1
    <3>2. lastHeld[o] = now /\ k.until = now + CardTtl
      BY <3>1 DEF ScopeHolds, Issues
    <3>3. k.until <= k.until
      BY DEF Card
    <3> QED BY <2>1, <3>2, <3>3
  <2>2. CASE c \in cards
    BY <2>2 DEF ScopeHolds, CodesFade, PassesScope
  <2> QED BY <2>1, <2>2 DEF Issues
<1>2. \A r \in Requests : visit'[r] # NoVisit => visit'[r].scope \subseteq held \cup lateCodes
  <2> SUFFICES ASSUME NEW r \in Requests, visit'[r] # NoVisit PROVE visit'[r].scope \subseteq held \cup lateCodes
    OBVIOUS
  <2>1. visit'[r] = visit[r]
    OBVIOUS
  <2> QED BY <2>1 DEF ScopeHolds
<1> QED BY <1>1, <1>2 DEF ScopeHolds

\* What the roles permitted last is later, never earlier.
LEMMA ScopeLater ==
    ASSUME GatesFit, ScopeHolds, \A o \in Codes : lastHeld'[o] \in Int /\ lastHeld[o] <= lastHeld'[o],
           cards' \subseteq cards, lateCodes \subseteq lateCodes'
    PROVE  CodesFade'
<1> SUFFICES ASSUME NEW c \in cards', NEW o \in Codes \ lateCodes', o \in c.scope
             PROVE  c.until <= lastHeld'[o] + CardTtl
  BY DEF CodesFade, PassesScope
<1>1. c.until <= lastHeld[o] + CardTtl
  BY DEF ScopeHolds, CodesFade, PassesScope
<1>2. c.until \in Nat
  BY CardIs
<1> QED BY <1>1, <1>2, TimesAre

LEMMA ScopeKeeps == ASSUME GatesFit, ScopeHolds, GatesNext PROVE ScopeHolds'
<1>1. CASE GatesTick
  <2>1. now \in Nat /\ now' = now + 1
    BY <1>1, TimesAre DEF GatesTick, Tick
  <2>2. /\ lastHeld' = [o \in Codes |-> IF o \in held THEN now' ELSE lastHeld[o]] /\ cards' \subseteq cards
        /\ UNCHANGED <<held, visit, lateCodes>>
    BY <1>1 DEF GatesTick, gateRows
  <2>3. \A o \in Codes : lastHeld'[o] \in Int /\ lastHeld[o] <= lastHeld'[o]
    BY <2>1, <2>2, TimesAre DEF GatesFit, RangesFit
  <2>4. CodesFade'
    BY <2>2, <2>3, ScopeLater
  <2>5. \A o \in held : lastHeld'[o] = now'
    BY <2>2, GatesTypeIs DEF GatesFit, GatesShape, TablesFit
  <2> QED BY <2>2, <2>4, <2>5 DEF ScopeHolds
<1>2. CASE ProviderStops
  BY <1>2, ScopeKept DEF ProviderStops, ScopeHolds
<1>3. CASE SetsEnabled
  BY <1>3, ScopeKept DEF SetsEnabled, ScopeHolds
<1>4. ASSUME NEW x \in SUBSET Codes, SetsRoles(x) PROVE ScopeHolds'
  <2>1. /\ held' = x /\ lastHeld' = [o \in Codes |-> IF o \in held \cup x THEN now ELSE lastHeld[o]]
        /\ lateCodes' = lateCodes \cup ((UNION {visit[r].scope : r \in {q \in Requests : visit[q] # NoVisit}}) \ x)
        /\ UNCHANGED <<now, cards, visit>>
    BY <1>4 DEF SetsRoles
  <2>2. \A o \in Codes : lastHeld'[o] \in Int /\ lastHeld[o] <= lastHeld'[o]
    BY <2>1, TimesAre DEF GatesFit, RangesFit
  <2>3. CodesFade'
    BY <2>1, <2>2, ScopeLater
  <2>4. \A o \in x : lastHeld'[o] = now
    BY <2>1
  <2>5. \A r \in Requests : visit[r] # NoVisit => visit[r].scope \subseteq x \cup lateCodes'
    BY <2>1
  <2> QED BY <2>1, <2>3, <2>4, <2>5 DEF ScopeHolds
<1>5. ASSUME NEW l \in Logins, RowEnds(l) PROVE ScopeHolds'
  BY <1>5, ScopeKept DEF RowEnds, ScopeHolds, gateRows
<1>6. ASSUME NEW l \in Logins, NEW fed \in BOOLEAN, SignsIn(l, fed) PROVE ScopeHolds'
  <2>1. PICK e \in Entry, k \in Card : Issues(l, e, k) /\ k.scope = held
    BY <1>6, SignsInIs DEF GatesFit
  <2>2. UNCHANGED <<now, held, lastHeld, lateCodes>> /\ visit' = visit
    BY <1>6 DEF SignsIn, gateRows
  <2> QED BY <2>1, <2>2, ScopeAfterIssues
<1>7. ASSUME NEW r \in Requests, NEW kind \in {"switch", "change"}, NEW c \in cards, Shows(r, kind, c) PROVE ScopeHolds'
  <2>1. PICK v \in Visit : visit' = [visit EXCEPT ![r] = v] /\ v.scope = {}
    BY <1>7, ShowsIs
  <2>2. UNCHANGED <<now, held, lastHeld, lateCodes, cards>>
    BY <1>7 DEF Shows, gateHistory, gateRows
  <2> QED BY <2>1, <2>2, ScopeOfVisits
<1>8. ASSUME NEW r \in Requests, NEW l \in Logins, ShowsPaper(r, l) PROVE ScopeHolds'
  <2>1. PICK v \in Visit : visit' = [visit EXCEPT ![r] = v] /\ v.scope = {}
    BY <1>8, ShowsPaperIs
  <2>2. UNCHANGED <<now, held, lastHeld, lateCodes, cards>>
    BY <1>8 DEF ShowsPaper, gateHistory, gateRows
  <2> QED BY <2>1, <2>2, ScopeOfVisits
<1>9. ASSUME NEW r \in Requests, Judges(r) PROVE ScopeHolds'
  <2>1. PICK v \in Visit \cup {NoVisit} : visit' = [visit EXCEPT ![r] = v] /\ (v # NoVisit => v.scope = held)
    BY <1>9, JudgesIs
  <2>2. UNCHANGED <<now, held, lastHeld, lateCodes, cards>>
    BY <1>9 DEF Judges, gateHistory, gateRows
  <2> QED BY <2>1, <2>2, ScopeOfVisits
<1>10. ASSUME NEW r \in Requests, CarriesOn(r) PROVE ScopeHolds'
  <2>1. visit[r] # NoVisit /\ visit[r].login \in Logins
    BY <1>10, VisitIs DEF CarriesOn, Ready, GatesFit
  <2>2. PICK l \in Logins, e \in Entry, k \in Card : Issues(l, e, k) /\ k.scope = visit[r].scope
    BY <1>10, <2>1, CarriesOnIs DEF GatesFit
  <2>3. UNCHANGED <<now, held, lastHeld, lateCodes>> /\ visit' = [visit EXCEPT ![r] = NoVisit]
    BY <1>10 DEF CarriesOn, gateRows
  <2>4. k.scope \subseteq held \cup lateCodes
    BY <2>1, <2>2 DEF ScopeHolds
  <2> QED BY <2>2, <2>3, <2>4, AnswersFit, ScopeAfterIssues
<1>11. ASSUME NEW r \in Requests, NEW l \in Logins, BeginsAnother(r, l) PROVE ScopeHolds'
  <2>1. visit[r] # NoVisit
    BY <1>11 DEF BeginsAnother, Ready
  <2>2. PICK e \in Entry, k \in Card : Issues(l, e, k) /\ k.scope = visit[r].scope
    BY <1>11, BeginsAnotherIs DEF GatesFit
  <2>3. UNCHANGED <<now, held, lastHeld, lateCodes>> /\ visit' = [visit EXCEPT ![r] = NoVisit]
    BY <1>11 DEF BeginsAnother, gateRows
  <2>4. k.scope \subseteq held \cup lateCodes
    BY <2>1, <2>2 DEF ScopeHolds
  <2> QED BY <2>2, <2>3, <2>4, AnswersFit, ScopeAfterIssues
<1>12. ASSUME NEW r \in Requests, NEW l \in Logins, ChangesPassword(r, l) PROVE ScopeHolds'
  <2>1. visit[r] # NoVisit
    BY <1>12 DEF ChangesPassword, Ready
  <2>2. PICK e \in Entry, k \in Card : Issues(l, e, k) /\ k.scope = visit[r].scope
    BY <1>12, ChangesPasswordIs DEF GatesFit
  <2>3. UNCHANGED <<now, held, lastHeld, lateCodes>> /\ visit' = [visit EXCEPT ![r] = NoVisit]
    BY <1>12 DEF ChangesPassword
  <2>4. k.scope \subseteq held \cup lateCodes
    BY <2>1, <2>2 DEF ScopeHolds
  <2> QED BY <2>2, <2>3, <2>4, AnswersFit, ScopeAfterIssues
<1> QED BY <1>1, <1>2, <1>3, <1>4, <1>5, <1>6, <1>7, <1>8, <1>9, <1>10, <1>11, <1>12, GatesSteps

\* Who is switched off is so since a time that is noted, and as long as nothing was
\* issued in between no renewal has been judged.
OffIsNoted == enabled <=> offSince = Never
NoRenewalJudged ==
    offSince # Never /\ ~reissued =>
        \A r \in Requests : visit[r] # NoVisit /\ visit[r].kind = "renew" => visit[r].stage = "shown"
OffHolds == OffIsNoted /\ NoRenewalJudged /\ SwitchedOffMeansOut

\* No token is issued, and no request moves.
LEMMA OffKept ==
    ASSUME OffHolds, UNCHANGED <<enabled, offSince, reissued, visit>>, cards' \subseteq cards
    PROVE  OffHolds'
<1>1. OffIsNoted'
  BY DEF OffHolds, OffIsNoted
<1>2. NoRenewalJudged'
  BY DEF OffHolds, NoRenewalJudged
<1>3. SwitchedOffMeansOut'
  BY DEF OffHolds, SwitchedOffMeansOut
<1> QED BY <1>1, <1>2, <1>3 DEF OffHolds

LEMMA OffOfVisits ==
    ASSUME GatesFit, OffHolds, UNCHANGED <<enabled, offSince, reissued, cards>>, NEW r \in Requests, NEW v,
           visit' = [visit EXCEPT ![r] = v],
           v # NoVisit /\ v.kind = "renew" /\ offSince # Never => v.stage = "shown"
    PROVE  OffHolds'
<1>1. \A q \in Requests : visit'[q] = IF q = r THEN v ELSE visit[q]
  BY GatesTypeIs DEF GatesFit, GatesShape, TablesFit
<1>2. OffIsNoted'
  BY DEF OffHolds, OffIsNoted
<1>3. NoRenewalJudged'
  BY <1>1 DEF OffHolds, NoRenewalJudged
<1>4. SwitchedOffMeansOut'
  BY DEF OffHolds, SwitchedOffMeansOut
<1> QED BY <1>2, <1>3, <1>4 DEF OffHolds

\* A token is issued: to a person who is on, or by a route that leaves its mark.
LEMMA OffAfterIssues ==
    ASSUME OffHolds, UNCHANGED <<enabled, offSince>>, ~enabled => reissued', enabled \in BOOLEAN
    PROVE  OffHolds'
<1>1. OffIsNoted'
  BY DEF OffHolds, OffIsNoted
<1>2. offSince' # Never => reissued'
  BY DEF OffHolds, OffIsNoted
<1>3. NoRenewalJudged'
  BY <1>2 DEF NoRenewalJudged
<1>4. SwitchedOffMeansOut'
  BY <1>2 DEF SwitchedOffMeansOut
<1> QED BY <1>1, <1>3, <1>4 DEF OffHolds

LEMMA SwitchingHolds == ASSUME GatesFit, OffHolds, SetsEnabled PROVE OffHolds'
<1>1. /\ enabled' = ~enabled /\ offSince' = IF enabled THEN now ELSE Never
      /\ UNCHANGED <<visit, cards, now>> /\ enabled \in BOOLEAN
  BY FlagsAre DEF SetsEnabled
<1>2. now # Never /\ Never = Never
  BY TimesAre DEF Never
<1>3. CASE enabled
  <2>1. ~enabled' /\ offSince' = now
    BY <1>1, <1>3
  <2>2. ~reissued' => \A r \in Requests : visit[r] = NoVisit
    BY <1>3 DEF SetsEnabled
  <2>3. OffIsNoted'
    BY <1>2, <2>1 DEF OffIsNoted
  <2>4. NoRenewalJudged'
    BY <1>1, <2>2 DEF NoRenewalJudged
  <2>5. \A c \in cards : c.until <= now + CardTtl
    BY CardIs
  <2>6. SwitchedOffMeansOut'
    BY <1>1, <2>1, <2>5 DEF SwitchedOffMeansOut
  <2> QED BY <2>3, <2>4, <2>6 DEF OffHolds
<1>4. CASE ~enabled
  <2>1. enabled' /\ offSince' = Never
    BY <1>1, <1>4
  <2> QED BY <2>1 DEF OffHolds, OffIsNoted, NoRenewalJudged, SwitchedOffMeansOut
<1> QED BY <1>3, <1>4

LEMMA OffKeeps == ASSUME GatesFit, OffHolds, GatesNext PROVE OffHolds'
<1>1. CASE GatesTick
  BY <1>1, OffKept DEF GatesTick, gateRows
<1>2. CASE ProviderStops
  BY <1>2, OffKept DEF ProviderStops
<1>3. CASE SetsEnabled
  BY <1>3, SwitchingHolds
<1>4. ASSUME NEW x \in SUBSET Codes, SetsRoles(x) PROVE OffHolds'
  BY <1>4, OffKept DEF SetsRoles
<1>5. ASSUME NEW l \in Logins, RowEnds(l) PROVE OffHolds'
  BY <1>5, OffKept DEF RowEnds, gateRows
<1>6. ASSUME NEW l \in Logins, NEW fed \in BOOLEAN, SignsIn(l, fed) PROVE OffHolds'
  <2>1. enabled /\ UNCHANGED <<enabled, offSince>>
    BY <1>6 DEF SignsIn, gateRows
  <2> QED BY <2>1, FlagsAre, OffAfterIssues
<1>7. ASSUME NEW r \in Requests, NEW kind \in {"switch", "change"}, NEW c \in cards, Shows(r, kind, c) PROVE OffHolds'
  <2>1. PICK v \in Visit : visit' = [visit EXCEPT ![r] = v] /\ v.stage = "shown"
    BY <1>7, ShowsIs
  <2>2. UNCHANGED <<enabled, offSince, reissued, cards>>
    BY <1>7 DEF Shows, gateHistory, gateRows
  <2> QED BY <2>1, <2>2, OffOfVisits
<1>8. ASSUME NEW r \in Requests, NEW l \in Logins, ShowsPaper(r, l) PROVE OffHolds'
  <2>1. PICK v \in Visit : visit' = [visit EXCEPT ![r] = v] /\ v.stage = "shown"
    BY <1>8, ShowsPaperIs
  <2>2. UNCHANGED <<enabled, offSince, reissued, cards>>
    BY <1>8 DEF ShowsPaper, gateHistory, gateRows
  <2> QED BY <2>1, <2>2, OffOfVisits
<1>9. ASSUME NEW r \in Requests, Judges(r) PROVE OffHolds'
  <2>1. PICK v \in Visit \cup {NoVisit} :
          visit' = [visit EXCEPT ![r] = v] /\ (v # NoVisit /\ v.kind = "renew" => enabled)
    BY <1>9, JudgesIs
  <2>2. UNCHANGED <<enabled, offSince, reissued, cards>>
    BY <1>9 DEF Judges, gateHistory, gateRows
  <2>3. enabled <=> offSince = Never
    BY DEF OffHolds, OffIsNoted
  <2> QED BY <2>1, <2>2, <2>3, OffOfVisits
<1>10. ASSUME NEW r \in Requests, CarriesOn(r) PROVE OffHolds'
  <2>1. UNCHANGED <<enabled, offSince>> /\ visit[r] # NoVisit /\ visit[r].stage = "judged"
    BY <1>10 DEF CarriesOn, gateRows, Ready
  <2>2. visit[r].kind \in {"renew", "switch"} /\ reissued' = (reissued \/ (visit[r].kind = "switch" /\ ~enabled))
    BY <1>10 DEF CarriesOn, Ready
  <2>3. enabled <=> offSince = Never
    BY DEF OffHolds, OffIsNoted
  <2>4. CASE visit[r].kind = "switch"
    BY <2>1, <2>2, <2>4, FlagsAre, OffAfterIssues
  <2>5. CASE visit[r].kind = "renew"
    <3>1. offSince # Never => reissued
      BY <2>1, <2>5 DEF OffHolds, NoRenewalJudged
    <3>2. ~enabled => reissued'
      BY <2>2, <2>3, <3>1
    <3> QED BY <2>1, <3>2, FlagsAre, OffAfterIssues
  <2> QED BY <2>2, <2>4, <2>5
<1>11. ASSUME NEW r \in Requests, NEW l \in Logins, BeginsAnother(r, l) PROVE OffHolds'
  <2>1. UNCHANGED <<enabled, offSince>> /\ reissued' = (reissued \/ ~enabled)
    BY <1>11 DEF BeginsAnother, gateRows
  <2> QED BY <2>1, FlagsAre, OffAfterIssues
<1>12. ASSUME NEW r \in Requests, NEW l \in Logins, ChangesPassword(r, l) PROVE OffHolds'
  <2>1. UNCHANGED <<enabled, offSince>> /\ reissued' = (reissued \/ ~enabled)
    BY <1>12 DEF ChangesPassword
  <2> QED BY <2>1, FlagsAre, OffAfterIssues
<1> QED BY <1>1, <1>2, <1>3, <1>4, <1>5, <1>6, <1>7, <1>8, <1>9, <1>10, <1>11, <1>12, GatesSteps

\* The rows, as they are, turn away what was issued for l at that time.
Barred(l, iat) ==
    \/ iat < boundary
    \/ ~login[l].fed /\ ~login[l].row
    \/ login[l].fed /\ login[l].started <= stoppedAt

\* A sign-in that is over: its tokens are of before and turned away, and so is what
\* it can still show.
CardsAreOver(l) == \A c \in cards : c.login = l => c.until <= ended[l] + CardTtl /\ Barred(l, c.iat)
PaperIsOver(l) == login[l].fed \/ Barred(l, login[l].iat)
VisitsAreOver(l) ==
    \A r \in Requests : visit[r] # NoVisit /\ visit[r].login = l =>
        Barred(l, visit[r].iat) /\ (visit[r].stage = "judged" => ~visit[r].carried)
IsOver(l) == CardsAreOver(l) /\ PaperIsOver(l) /\ VisitsAreOver(l)
EndHolds == \A l \in Logins : ended[l] # Never => login[l] # NoEntry /\ (l \notin excused => IsOver(l))

LEMMA RevokedIsBarred == ASSUME NEW x PROVE Revoked(x) <=> Barred(x.login, x.iat)
BY DEF Revoked, Barred

\* The same sign-in, with lines that are drawn later if at all.
LoginStays(l) ==
    /\ login'[l] # NoEntry /\ login'[l].fed = login[l].fed /\ login'[l].started = login[l].started
    /\ login'[l].row => login[l].row
LinesAdvance == boundary' \in {boundary, now} /\ stoppedAt' \in {stoppedAt, now}

LEMMA BarredStays ==
    ASSUME GatesFit, NEW l \in Logins, NEW iat \in Nat, login[l] # NoEntry, LoginStays(l), LinesAdvance, Barred(l, iat)
    PROVE  Barred(l, iat)'
<1>1. boundary <= boundary' /\ stoppedAt <= stoppedAt' /\ boundary' \in Int /\ stoppedAt' \in Int
  BY TimesAre DEF LinesAdvance, GatesFit, RangesFit
<1>2. CASE iat < boundary
  <2>1. iat < boundary'
    BY <1>1, <1>2, TimesAre
  <2> QED BY <2>1 DEF Barred
<1>3. CASE ~login[l].fed /\ ~login[l].row
  <2>1. ~login'[l].fed
    BY <1>3 DEF LoginStays
  <2>2. ~login'[l].row
    BY <1>3 DEF LoginStays
  <2> QED BY <2>1, <2>2 DEF Barred
<1>4. CASE login[l].fed /\ login[l].started <= stoppedAt
  <2>1. login'[l].fed
    BY <1>4 DEF LoginStays
  <2>2. login'[l].started = login[l].started
    BY DEF LoginStays
  <2>3. login[l].started \in Nat
    BY EntryIs DEF GatesFit
  <2>4. login[l].started <= stoppedAt
    BY <1>4
  <2>5. login'[l].started <= stoppedAt'
    BY <1>1, <2>2, <2>3, <2>4, TimesAre
  <2> QED BY <2>1, <2>5 DEF Barred
<1> QED BY <1>2, <1>3, <1>4 DEF Barred

\* What is over stays over.
LEMMA OverStays ==
    ASSUME GatesFit, NEW l \in Logins, login[l] # NoEntry, IsOver(l), LoginStays(l), LinesAdvance,
           ended'[l] = ended[l], login'[l].iat = login[l].iat,
           \A c \in cards' : c.login = l => c \in cards,
           \A r \in Requests : visit'[r] # NoVisit /\ visit'[r].login = l =>
               \/ visit'[r] = visit[r]
               \/ /\ visit'[r].iat \in Nat /\ Barred(l, visit'[r].iat)
                  /\ visit'[r].stage = "judged" => ~visit'[r].carried
    PROVE  IsOver(l)'
<1>1. \A i \in Nat : Barred(l, i) => Barred(l, i)'
  BY BarredStays
<1>2. CardsAreOver(l)'
  <2> SUFFICES ASSUME NEW c \in cards', c.login = l PROVE c.until <= ended[l] + CardTtl /\ Barred(l, c.iat)'
    BY DEF CardsAreOver
  <2>1. c \in cards
    OBVIOUS
  <2>2. c.until <= ended[l] + CardTtl /\ Barred(l, c.iat)
    BY <2>1 DEF IsOver, CardsAreOver
  <2>3. PICK i \in Nat : i = c.iat
    BY <2>1, CardIs
  <2>4. Barred(l, i)'
    BY <1>1, <2>2, <2>3
  <2> QED BY <2>2, <2>3, <2>4
<1>3. PaperIsOver(l)'
  <2>1. CASE login[l].fed
    <3>1. login'[l].fed
      BY <2>1 DEF LoginStays
    <3> QED BY <3>1 DEF PaperIsOver
  <2>2. CASE Barred(l, login[l].iat)
    <3>1. PICK i \in Nat : i = login[l].iat
      BY EntryIs DEF GatesFit
    <3>2. Barred(l, i)'
      BY <1>1, <2>2, <3>1
    <3>3. login'[l].iat = i
      BY <3>1
    <3>4. Barred(l, login[l].iat)'
      BY <3>2, <3>3 DEF Barred
    <3> QED BY <3>4 DEF PaperIsOver
  <2> QED BY <2>1, <2>2 DEF IsOver, PaperIsOver
<1>4. VisitsAreOver(l)'
  <2> SUFFICES ASSUME NEW r \in Requests, visit'[r] # NoVisit, visit'[r].login = l
               PROVE  Barred(l, visit[r].iat)' /\ (visit'[r].stage = "judged" => ~visit'[r].carried)
    BY DEF VisitsAreOver
  <2>1. PICK v : v = visit'[r]
    OBVIOUS
  <2>2. CASE v = visit[r]
    <3>1. Barred(l, v.iat) /\ (v.stage = "judged" => ~v.carried) /\ v.iat \in Nat
      BY <2>1, <2>2, VisitIs DEF IsOver, VisitsAreOver, GatesFit
    <3>2. Barred(l, v.iat)'
      BY <1>1, <3>1
    <3> QED BY <2>1, <3>1, <3>2 DEF Barred
  <2>3. CASE v # visit[r]
    <3>1. v.iat \in Nat /\ Barred(l, v.iat)' /\ (v.stage = "judged" => ~v.carried)
      <4>1. v.iat \in Nat /\ Barred(l, v.iat) /\ (v.stage = "judged" => ~v.carried)
        BY <2>1, <2>3
      <4> QED BY <1>1, <4>1
    <3> QED BY <2>1, <3>1 DEF Barred
  <2> QED BY <2>2, <2>3
<1> QED BY <1>2, <1>3, <1>4 DEF IsOver

\* Nothing is issued for l, and a request that comes for it finds it closed.
Undisturbed(l) ==
    /\ LoginStays(l) /\ login'[l].iat = login[l].iat
    /\ \A c \in cards' : c.login = l => c \in cards
    /\ \A r \in Requests : visit'[r] # NoVisit /\ visit'[r].login = l =>
           \/ visit'[r] = visit[r]
           \/ /\ visit'[r].iat \in Nat /\ Barred(l, visit'[r].iat)
              /\ visit'[r].stage = "judged" => ~visit'[r].carried

LEMMA EndStays ==
    ASSUME GatesFit, EndHolds, LinesAdvance,
           \A l \in Logins : ended'[l] # Never => login'[l] # NoEntry,
           \A l \in Logins : ended'[l] # Never /\ l \notin excused' =>
               \/ ended'[l] = ended[l] /\ l \notin excused /\ (IsOver(l) => Undisturbed(l))
               \/ IsOver(l)'
    PROVE  EndHolds'
<1> SUFFICES ASSUME NEW l \in Logins, ended'[l] # Never, l \notin excused' PROVE IsOver(l)'
  BY DEF EndHolds
<1>1. CASE ended'[l] = ended[l] /\ l \notin excused /\ (IsOver(l) => Undisturbed(l))
  <2>1. login[l] # NoEntry /\ IsOver(l) /\ Undisturbed(l)
    BY <1>1 DEF EndHolds
  <2> QED BY <1>1, <2>1, OverStays DEF Undisturbed
<1> QED BY <1>1

LEMMA QuietLogins ==
    ASSUME GatesFit, NEW l \in Logins, login[l] # NoEntry, login'[l] = login[l], visit' = visit,
           \A c \in cards' : c.login = l => c \in cards
    PROVE  Undisturbed(l)
BY DEF Undisturbed, LoginStays

\* No sign-in is begun, ended or taken over.
LEMMA EndKept ==
    ASSUME GatesFit, EndHolds, UNCHANGED <<ended, excused, login, visit, boundary, stoppedAt>>, cards' \subseteq cards
    PROVE  EndHolds'
<1>1. LinesAdvance
  BY DEF LinesAdvance
<1>2. \A l \in Logins : ended[l] # Never => login[l] # NoEntry
  BY DEF EndHolds
<1>3. \A l \in Logins : ended[l] # Never => Undisturbed(l)
  BY <1>2, QuietLogins
<1> QED BY <1>1, <1>2, <1>3, EndStays

LEMMA EndOfVisits ==
    ASSUME GatesFit, EndHolds, UNCHANGED <<ended, excused, login, cards, boundary, stoppedAt>>, NEW r \in Requests,
           NEW v \in Visit \cup {NoVisit}, visit' = [visit EXCEPT ![r] = v],
           v # NoVisit /\ IsOver(v.login) => Barred(v.login, v.iat) /\ (v.stage = "judged" => ~v.carried)
    PROVE  EndHolds'
<1>1. LinesAdvance
  BY DEF LinesAdvance
<1>2. \A l \in Logins : ended[l] # Never => login[l] # NoEntry
  BY DEF EndHolds
<1>3. \A q \in Requests : visit'[q] = IF q = r THEN v ELSE visit[q]
  BY GatesTypeIs DEF GatesFit, GatesShape, TablesFit
<1>4. ASSUME NEW l \in Logins, ended[l] # Never, IsOver(l) PROVE Undisturbed(l)
  <2>1. LoginStays(l)
    BY <1>2, <1>4 DEF LoginStays
  <2>2. ASSUME NEW q \in Requests, visit'[q] # NoVisit, visit'[q].login = l, visit'[q] # visit[q]
        PROVE  visit'[q].iat \in Nat /\ Barred(l, visit'[q].iat) /\ (visit'[q].stage = "judged" => ~visit'[q].carried)
    <3>1. visit'[q] = v
      BY <1>3, <2>2
    <3>2. v.iat \in Nat /\ v.login = l /\ v # NoVisit
      BY <2>2, <3>1 DEF Visit
    <3>3. Barred(l, v.iat) /\ (v.stage = "judged" => ~v.carried)
      BY <1>4, <3>2
    <3> QED BY <3>1, <3>2, <3>3
  <2> QED BY <2>1, <2>2 DEF Undisturbed
<1> QED BY <1>1, <1>2, <1>4, EndStays

\* A token is issued for another.
LEMMA OthersAreUndisturbed ==
    ASSUME GatesFit, NEW m \in Logins, NEW e \in Entry, NEW k \in Card, Issues(m, e, k),
           NEW l \in Logins, l # m, login[l] # NoEntry, \A q \in Requests : visit'[q] \in {visit[q], NoVisit}
    PROVE  Undisturbed(l)
<1>1. login'[l] = login[l]
  BY GatesTypeIs DEF GatesFit, GatesShape, TablesFit, Issues
<1>2. \A c \in cards' : c.login = l => c \in cards
  BY DEF Issues
<1> QED BY <1>1, <1>2 DEF Undisturbed, LoginStays

\* A token is issued, and nothing is ended.
LEMMA EndAfterIssues ==
    ASSUME GatesFit, EndHolds, NEW m \in Logins, NEW e \in Entry, NEW k \in Card, Issues(m, e, k),
           UNCHANGED <<ended, excused, boundary, stoppedAt>>, ended[m] = Never \/ m \in excused,
           \A q \in Requests : visit'[q] \in {visit[q], NoVisit}
    PROVE  EndHolds'
<1>1. LinesAdvance
  BY DEF LinesAdvance
<1>2. \A l \in Logins : login'[l] = IF l = m THEN e ELSE login[l]
  BY GatesTypeIs DEF GatesFit, GatesShape, TablesFit, Issues
<1>3. \A l \in Logins : ended[l] # Never => login'[l] # NoEntry
  BY <1>2, GatesNulls DEF EndHolds
<1>4. \A l \in Logins : ended[l] # Never /\ l \notin excused => Undisturbed(l)
  BY OthersAreUndisturbed DEF EndHolds
<1> QED BY <1>1, <1>3, <1>4, EndStays

\* Whoever carries on a sign-in that is over is excused.
LEMMA CarriedIsNotOver ==
    ASSUME GatesFit, EndHolds, NEW r \in Requests, visit[r] # NoVisit, visit[r].stage = "judged", visit[r].carried
    PROVE  ended[visit[r].login] = Never \/ visit[r].login \in excused
<1>1. visit[r].login \in Logins
  BY VisitIs DEF GatesFit
<1> QED BY <1>1 DEF EndHolds, IsOver, VisitsAreOver

LEMMA NewLoginsAreOpen == ASSUME EndHolds, NEW l \in Logins, login[l] = NoEntry PROVE ended[l] = Never
BY DEF EndHolds

LEMMA EndedByTheProvider == ASSUME GatesFit, EndHolds, ProviderStops PROVE EndHolds'
<1>1. PICK L \in SUBSET Logins : L = {l \in Logins : login[l] # NoEntry /\ login[l].fed}
  OBVIOUS
<1>2. EndLogins(L, {}, Nobody)
  BY <1>1 DEF ProviderStops
<1>3. stoppedAt' = now /\ UNCHANGED <<now, boundary, login, cards, visit>>
  BY DEF ProviderStops
<1>4. /\ excused \subseteq excused'
      /\ \A l \in Logins : ended'[l] = IF l \in L /\ login[l] # NoEntry /\ ended[l] = Never THEN now ELSE ended[l]
      /\ \A l \in L : login[l] # NoEntry /\ ended[l] = Never /\ l \notin excused' => ~InFlight(l, Nobody)
  BY <1>2, EndsFit
<1>5. LinesAdvance
  BY <1>3 DEF LinesAdvance
<1>6. \A l \in Logins : ended'[l] # Never => login'[l] # NoEntry
  BY <1>3, <1>4 DEF EndHolds
<1>7. ASSUME NEW l \in Logins, ended'[l] # Never, l \notin excused'
      PROVE  (ended'[l] = ended[l] /\ l \notin excused /\ (IsOver(l) => Undisturbed(l))) \/ IsOver(l)'
  <2>1. CASE l \in L /\ login[l] # NoEntry /\ ended[l] = Never
    <3>1. ended'[l] = now /\ ~InFlight(l, Nobody) /\ login[l].fed /\ login[l].started <= now
      BY <1>1, <1>4, <1>7, <2>1 DEF GatesFit, RangesFit
    <3>2. \A iat : Barred(l, iat)'
      BY <1>3, <3>1 DEF Barred
    <3>3. CardsAreOver(l)'
      BY <1>3, <3>1, <3>2, CardIs DEF CardsAreOver, Barred
    <3>4. PaperIsOver(l)'
      BY <1>3, <3>1 DEF PaperIsOver
    <3>5. \A r \in Requests : ~(visit[r] # NoVisit /\ visit[r].login = l)
      BY <3>1, GatesAssumption DEF InFlight
    <3>6. VisitsAreOver(l)'
      BY <1>3, <3>5 DEF VisitsAreOver
    <3> QED BY <3>3, <3>4, <3>6 DEF IsOver
  <2>2. CASE ~(l \in L /\ login[l] # NoEntry /\ ended[l] = Never)
    <3>1. ended'[l] = ended[l] /\ l \notin excused /\ login[l] # NoEntry
      BY <1>3, <1>4, <1>6, <1>7, <2>2
    <3> QED BY <1>3, <3>1, QuietLogins
  <2> QED BY <2>1, <2>2
<1> QED BY <1>5, <1>6, <1>7, EndStays

LEMMA EndedByItsRow == ASSUME GatesFit, EndHolds, NEW m \in Logins, RowEnds(m) PROVE EndHolds'
<1>1. PICK L \in SUBSET Logins : L = {m}
  OBVIOUS
<1>2. EndLogins(L, {}, Nobody)
  BY <1>1 DEF RowEnds
<1>3. UNCHANGED <<now, boundary, stoppedAt, cards, visit>>
  BY DEF RowEnds, gateRows
<1>4. /\ excused \subseteq excused'
      /\ \A l \in Logins : ended'[l] = IF l \in L /\ login[l] # NoEntry /\ ended[l] = Never THEN now ELSE ended[l]
      /\ \A l \in L : login[l] # NoEntry /\ ended[l] = Never /\ l \notin excused' => ~InFlight(l, Nobody)
  BY <1>2, EndsFit
<1>5. LinesAdvance
  BY <1>3 DEF LinesAdvance
<1>6. PICK e \in Entry :
        /\ login' = [login EXCEPT ![m] = e] /\ ~e.row /\ ~e.fed
        /\ e.iat = login[m].iat /\ e.started = login[m].started /\ ~login[m].fed /\ login[m] # NoEntry
  BY RowEndsIs
<1>7. \A l \in Logins : login'[l] = IF l = m THEN e ELSE login[l]
  BY <1>6, GatesTypeIs DEF GatesFit, GatesShape, TablesFit
<1>8. \A l \in Logins : ended'[l] # Never => login'[l] # NoEntry
  BY <1>1, <1>4, <1>7, GatesNulls DEF EndHolds
<1>9. ASSUME NEW l \in Logins, login[l] # NoEntry PROVE Undisturbed(l)
  <2>1. CASE l = m
    <3>1. e # NoEntry /\ e.fed = login[m].fed
      BY <1>6, GatesNulls, EntryIs DEF Entry, GatesFit
    <3>2. LoginStays(l)
      BY <1>6, <1>7, <2>1, <3>1 DEF LoginStays
    <3>3. login'[l].iat = login[l].iat
      BY <1>6, <1>7, <2>1
    <3> QED BY <1>3, <3>2, <3>3 DEF Undisturbed
  <2>2. CASE l # m
    BY <1>3, <1>7, <1>9, <2>2, QuietLogins
  <2> QED BY <2>1, <2>2
<1>10. ASSUME NEW l \in Logins, ended'[l] # Never, l \notin excused'
       PROVE  (ended'[l] = ended[l] /\ l \notin excused /\ (IsOver(l) => Undisturbed(l))) \/ IsOver(l)'
  <2>1. CASE l \in L /\ login[l] # NoEntry /\ ended[l] = Never
    <3>1. ended'[l] = now /\ ~InFlight(l, Nobody) /\ l = m
      BY <1>1, <1>4, <1>10, <2>1
    <3>2. \A iat : Barred(l, iat)'
      BY <1>6, <1>7, <3>1 DEF Barred
    <3>3. CardsAreOver(l)'
      BY <1>3, <3>1, <3>2, CardIs DEF CardsAreOver, Barred
    <3>4. PaperIsOver(l)'
      BY <3>2 DEF PaperIsOver, Barred
    <3>5. \A r \in Requests : ~(visit[r] # NoVisit /\ visit[r].login = l)
      BY <3>1, GatesAssumption DEF InFlight
    <3>6. VisitsAreOver(l)'
      BY <1>3, <3>5 DEF VisitsAreOver
    <3> QED BY <3>3, <3>4, <3>6 DEF IsOver
  <2>2. CASE ~(l \in L /\ login[l] # NoEntry /\ ended[l] = Never)
    <3>1. ended'[l] = ended[l] /\ l \notin excused
      BY <1>4, <1>10, <2>2
    <3>2. login[l] # NoEntry
      BY <1>10, <3>1 DEF EndHolds
    <3> QED BY <1>9, <3>1, <3>2
  <2> QED BY <2>1, <2>2
<1> QED BY <1>5, <1>8, <1>10, EndStays

\* What an end through a new password leaves to a sign-in that nobody is at and
\* that has nothing of this second.
LEMMA EndedByALine ==
    ASSUME GatesFit, NEW l \in Logins, login[l] # NoEntry, login'[l] = login[l], now' = now, boundary' = now,
           ended'[l] = now, \A c \in cards' : c.login = l => c \in cards /\ c.iat # now,
           login[l].fed \/ login[l].iat # now,
           \A r \in Requests : ~(visit'[r] # NoVisit /\ visit'[r].login = l)
    PROVE  IsOver(l)'
<1>1. \A i \in Nat : i < now => Barred(l, i)'
  BY DEF Barred
<1>2. CardsAreOver(l)'
  <2> SUFFICES ASSUME NEW c \in cards', c.login = l PROVE c.until <= now + CardTtl /\ Barred(l, c.iat)'
    BY DEF CardsAreOver
  <2>1. c \in cards /\ c.iat # now
    OBVIOUS
  <2>2. c.iat \in Nat /\ c.iat <= now /\ c.until <= now + CardTtl
    BY <2>1, CardIs
  <2>3. PICK i \in Nat : i = c.iat
    BY <2>2
  <2>4. i < now
    BY <2>1, <2>2, <2>3, TimesAre
  <2> QED BY <1>1, <2>2, <2>3, <2>4
<1>3. PaperIsOver(l)'
  <2>1. CASE login[l].fed
    <3>1. login'[l].fed
      BY <2>1
    <3> QED BY <3>1 DEF PaperIsOver
  <2>2. CASE login[l].iat # now
    <3>1. PICK i \in Nat : i = login[l].iat /\ i <= now
      BY EntryIs DEF GatesFit, RangesFit
    <3>2. i < now
      BY <2>2, <3>1, TimesAre
    <3>3. Barred(l, i)'
      BY <1>1, <3>2
    <3>4. login'[l].iat = i
      BY <3>1
    <3>5. Barred(l, login[l].iat)'
      BY <3>3, <3>4 DEF Barred
    <3> QED BY <3>5 DEF PaperIsOver
  <2> QED BY <2>1, <2>2
<1>4. VisitsAreOver(l)'
  BY DEF VisitsAreOver
<1> QED BY <1>2, <1>3, <1>4 DEF IsOver

LEMMA EndedByAPassword ==
    ASSUME GatesFit, EndHolds, NEW q \in Requests, NEW m \in Logins, ChangesPassword(q, m) PROVE EndHolds'
<1>1. PICK L \in SUBSET Logins : L = Logins \ {m}
  OBVIOUS
<1>2. PICK fresh : fresh = {c.login : c \in {d \in cards : d.iat = now}} \cup
                           {l \in Logins : login[l] # NoEntry /\ ~login[l].fed /\ login[l].iat = now}
  OBVIOUS
<1>3. EndLogins(L, fresh, q)
  BY <1>1, <1>2, ChangesPasswordEnds
<1>4. /\ excused \subseteq excused'
      /\ \A l \in Logins : ended'[l] = IF l \in L /\ login[l] # NoEntry /\ ended[l] = Never THEN now ELSE ended[l]
      /\ \A l \in L : login[l] # NoEntry /\ ended[l] = Never /\ l \notin excused' => ~InFlight(l, q) /\ l \notin fresh
  BY <1>3, EndsFit
<1>5. boundary' = now /\ now' = now /\ stoppedAt' = stoppedAt /\ visit' = [visit EXCEPT ![q] = NoVisit]
  BY DEF ChangesPassword
<1>6. visit[q] # NoVisit /\ visit[q].stage = "judged"
  BY DEF ChangesPassword, Ready
<1>7. LinesAdvance
  BY <1>5 DEF LinesAdvance
<1>8. PICK e \in Entry, k \in Card :
        /\ Issues(m, e, k)
        /\ login[m] = NoEntry \/ (m = visit[q].login /\ visit[q].carried)
  BY ChangesPasswordIs DEF GatesFit
<1>9. \A l \in Logins : login'[l] = IF l = m THEN e ELSE login[l]
  BY <1>8, GatesTypeIs DEF GatesFit, GatesShape, TablesFit, Issues
<1>10. /\ \A r \in Requests : visit'[r] \in {visit[r], NoVisit}
       /\ visit'[q] = NoVisit
  BY <1>5, AnswersFit
<1>11. \A l \in Logins : ended'[l] # Never => login'[l] # NoEntry
  BY <1>4, <1>9, GatesNulls DEF EndHolds
<1>12. ended[m] = Never \/ m \in excused
  BY <1>6, <1>8, CarriedIsNotOver, NewLoginsAreOpen
<1>13. ASSUME NEW l \in Logins, ended'[l] # Never, l \notin excused'
       PROVE  (ended'[l] = ended[l] /\ l \notin excused /\ (IsOver(l) => Undisturbed(l))) \/ IsOver(l)'
  <2>1. CASE l \in L /\ login[l] # NoEntry /\ ended[l] = Never
    <3>1. ended'[l] = now /\ ~InFlight(l, q) /\ l \notin fresh /\ l # m
      BY <1>1, <1>4, <1>13, <2>1
    <3>2. login'[l] = login[l]
      BY <1>9, <3>1
    <3>3. \A c \in cards' : c.login = l => c \in cards /\ c.iat # now
      BY <1>2, <1>8, <3>1 DEF Issues
    <3>4. login[l].fed \/ login[l].iat # now
      BY <1>2, <2>1, <3>1
    <3>5. \A r \in Requests : ~(visit'[r] # NoVisit /\ visit'[r].login = l)
      BY <1>10, <3>1 DEF InFlight
    <3> QED BY <1>5, <2>1, <3>1, <3>2, <3>3, <3>4, <3>5, EndedByALine
  <2>2. CASE ~(l \in L /\ login[l] # NoEntry /\ ended[l] = Never)
    <3>1. ended'[l] = ended[l] /\ l \notin excused
      BY <1>4, <1>13, <2>2
    <3>2. login[l] # NoEntry /\ l # m
      BY <1>12, <1>13, <3>1 DEF EndHolds
    <3> QED BY <1>8, <1>10, <3>1, <3>2, OthersAreUndisturbed
  <2> QED BY <2>1, <2>2
<1> QED BY <1>7, <1>11, <1>13, EndStays

LEMMA EndKeeps == ASSUME GatesFit, EndHolds, GatesNext PROVE EndHolds'
<1>1. CASE GatesTick
  BY <1>1, EndKept DEF GatesTick, gateRows
<1>2. CASE ProviderStops
  BY <1>2, EndedByTheProvider
<1>3. CASE SetsEnabled
  BY <1>3, EndKept DEF SetsEnabled
<1>4. ASSUME NEW x \in SUBSET Codes, SetsRoles(x) PROVE EndHolds'
  BY <1>4, EndKept DEF SetsRoles
<1>5. ASSUME NEW l \in Logins, RowEnds(l) PROVE EndHolds'
  BY <1>5, EndedByItsRow
<1>6. ASSUME NEW l \in Logins, NEW fed \in BOOLEAN, SignsIn(l, fed) PROVE EndHolds'
  <2>1. PICK e \in Entry, k \in Card : Issues(l, e, k)
    BY <1>6, SignsInIs DEF GatesFit
  <2>2. UNCHANGED <<ended, excused, boundary, stoppedAt, visit>> /\ login[l] = NoEntry
    BY <1>6 DEF SignsIn, gateRows
  <2> QED BY <2>1, <2>2, NewLoginsAreOpen, EndAfterIssues
<1>7. ASSUME NEW r \in Requests, NEW kind \in {"switch", "change"}, NEW c \in cards, Shows(r, kind, c) PROVE EndHolds'
  <2>1. PICK v \in Visit : visit' = [visit EXCEPT ![r] = v] /\ v.login = c.login /\ v.iat = c.iat /\ v.stage = "shown"
    BY <1>7, ShowsIs
  <2>2. UNCHANGED <<ended, excused, login, cards, boundary, stoppedAt>>
    BY <1>7 DEF Shows, gateHistory, gateRows
  <2>3. IsOver(v.login) => Barred(v.login, v.iat)
    BY <2>1 DEF IsOver, CardsAreOver
  <2> QED BY <2>1, <2>2, <2>3, EndOfVisits
<1>8. ASSUME NEW r \in Requests, NEW l \in Logins, ShowsPaper(r, l) PROVE EndHolds'
  <2>1. PICK v \in Visit : /\ visit' = [visit EXCEPT ![r] = v] /\ v.login = l /\ v.iat = login[l].iat /\ v.stage = "shown"
                           /\ ~login[l].fed
    BY <1>8, ShowsPaperIs
  <2>2. UNCHANGED <<ended, excused, login, cards, boundary, stoppedAt>>
    BY <1>8 DEF ShowsPaper, gateHistory, gateRows
  <2>3. IsOver(v.login) => Barred(v.login, v.iat)
    BY <2>1 DEF IsOver, PaperIsOver
  <2> QED BY <2>1, <2>2, <2>3, EndOfVisits
<1>9. ASSUME NEW r \in Requests, Judges(r) PROVE EndHolds'
  <2>1. PICK v \in Visit \cup {NoVisit} :
          /\ visit' = [visit EXCEPT ![r] = v] /\ visit[r] # NoVisit
          /\ v # NoVisit => v.login = visit[r].login /\ v.iat = visit[r].iat /\ (v.carried => ~Revoked(visit[r]))
    BY <1>9, JudgesIs
  <2>2. UNCHANGED <<ended, excused, login, cards, boundary, stoppedAt>>
    BY <1>9 DEF Judges, gateHistory, gateRows
  <2>3. v # NoVisit /\ IsOver(v.login) => Barred(v.login, v.iat)
    BY <2>1 DEF IsOver, VisitsAreOver
  <2>4. v # NoVisit /\ Barred(v.login, v.iat) => ~v.carried
    <3>1. PICK w : w = visit[r]
      OBVIOUS
    <3>2. Revoked(w) <=> Barred(w.login, w.iat)
      BY RevokedIsBarred
    <3> QED BY <2>1, <3>1, <3>2
  <2> QED BY <2>1, <2>2, <2>3, <2>4, EndOfVisits
<1>10. ASSUME NEW r \in Requests, CarriesOn(r) PROVE EndHolds'
  <2>1. visit[r] # NoVisit /\ visit[r].stage = "judged" /\ visit[r].carried /\ visit[r].login \in Logins
    BY <1>10, VisitIs DEF CarriesOn, Ready, GatesFit
  <2>2. PICK l \in Logins : l = visit[r].login
    BY <2>1
  <2>3. PICK e \in Entry, k \in Card : Issues(l, e, k)
    BY <1>10, <2>2, CarriesOnIs DEF GatesFit
  <2>4. UNCHANGED <<ended, excused, boundary, stoppedAt>> /\ visit' = [visit EXCEPT ![r] = NoVisit]
    BY <1>10 DEF CarriesOn, gateRows
  <2>5. ended[l] = Never \/ l \in excused
    BY <2>1, <2>2, CarriedIsNotOver
  <2> QED BY <2>3, <2>4, <2>5, AnswersFit, EndAfterIssues
<1>11. ASSUME NEW r \in Requests, NEW l \in Logins, BeginsAnother(r, l) PROVE EndHolds'
  <2>1. PICK e \in Entry, k \in Card : Issues(l, e, k)
    BY <1>11, BeginsAnotherIs DEF GatesFit
  <2>2. /\ UNCHANGED <<ended, excused, boundary, stoppedAt>> /\ login[l] = NoEntry
        /\ visit' = [visit EXCEPT ![r] = NoVisit]
    BY <1>11 DEF BeginsAnother, gateRows
  <2> QED BY <2>1, <2>2, NewLoginsAreOpen, AnswersFit, EndAfterIssues
<1>12. ASSUME NEW r \in Requests, NEW l \in Logins, ChangesPassword(r, l) PROVE EndHolds'
  BY <1>12, EndedByAPassword
<1> QED BY <1>1, <1>2, <1>3, <1>4, <1>5, <1>6, <1>7, <1>8, <1>9, <1>10, <1>11, <1>12, GatesSteps

GatesInv == GatesFit /\ AuthHolds /\ ScopeHolds /\ OffHolds /\ EndHolds

LEMMA GatesInitInv == GatesInit => GatesInv
<1> SUFFICES ASSUME GatesInit PROVE GatesInv
  OBVIOUS
<1>1. GatesFit
  BY GatesInitFit
<1>2. AuthHolds
  BY DEF GatesInit, AuthHolds
<1>3. ScopeHolds
  BY DEF GatesInit, ScopeHolds, CodesFade
<1>4. OffHolds
  BY DEF GatesInit, OffHolds, OffIsNoted, NoRenewalJudged, SwitchedOffMeansOut
<1>5. EndHolds
  BY DEF GatesInit, EndHolds
<1> QED BY <1>1, <1>2, <1>3, <1>4, <1>5 DEF GatesInv

LEMMA GatesNextInv == GatesInv /\ [GatesNext]_gateVars => GatesInv'
<1> SUFFICES ASSUME GatesInv, [GatesNext]_gateVars PROVE GatesInv'
  OBVIOUS
<1>1. GatesFit'
  BY GatesNextFits DEF GatesInv
<1>2. CASE GatesNext
  BY <1>1, <1>2, AuthKeeps, ScopeKeeps, OffKeeps, EndKeeps DEF GatesInv
<1>3. CASE UNCHANGED gateVars
  <2>1. UNCHANGED <<entered, straddled, visit, cards, login, now, held, lastHeld, lateCodes>>
    BY <1>3 DEF gateVars
  <2>2. UNCHANGED <<enabled, offSince, reissued, visit, cards, ended, excused, login, boundary, stoppedAt>>
    BY <1>3 DEF gateVars
  <2>3. AuthHolds'
    BY <2>1, AuthKept DEF GatesInv
  <2>4. ScopeHolds'
    BY <2>1, ScopeKept DEF GatesInv, ScopeHolds
  <2>5. OffHolds'
    BY <2>2, OffKept DEF GatesInv
  <2>6. EndHolds'
    BY <2>2, EndKept DEF GatesInv
  <2> QED BY <1>1, <2>3, <2>4, <2>5, <2>6 DEF GatesInv
<1> QED BY <1>2, <1>3

LEMMA GatesInvHolds == GatesInv => GatesHold
<1> SUFFICES ASSUME GatesInv PROVE GatesHold
  OBVIOUS
<1>1. GatesFit /\ AuthHolds /\ CodesFade /\ SwitchedOffMeansOut /\ EndHolds
  BY DEF GatesInv, ScopeHolds, OffHolds
<1>2. RecentMeansSignedIn
  <2> SUFFICES ASSUME NEW c \in cards, c.login \notin straddled, now - c.auth <= RecentLimit
               PROVE  now - entered[c.login] <= RecentLimit
    BY DEF RecentMeansSignedIn, PassesRecent
  <2>1. c.auth <= entered[c.login] /\ c.auth \in Nat /\ c.login \in Logins
    BY <1>1, CardIs DEF AuthHolds
  <2>2. entered[c.login] \in Int /\ now \in Int
    BY <1>1, <2>1, TimesAre
  <2> QED BY <2>1, <2>2, GatesAssumption
<1>3. EndedLoginsStayEnded
  <2> SUFFICES ASSUME NEW c \in cards, ended[c.login] # Never, c.login \notin excused
               PROVE  c.until <= ended[c.login] + CardTtl /\ Revoked(c)
    BY DEF EndedLoginsStayEnded, PassesSettled
  <2>1. c.login \in Logins
    BY <1>1, CardIs
  <2>2. c.until <= ended[c.login] + CardTtl /\ Barred(c.login, c.iat)
    BY <1>1, <2>1 DEF EndHolds, IsOver, CardsAreOver
  <2> QED BY <2>2, RevokedIsBarred
<1> QED BY <1>1, <1>2, <1>3 DEF GatesHold

\* A token never opens more than the sign-in behind it did, and what is taken from a
\* person or a sign-in is gone one token's life later: for any sign-ins, requests,
\* permissions and lifetimes, whatever is renewed, switched, stopped and changed
\* meanwhile, up to the exceptions GatesHold names.
THEOREM PowersEndInTime == GatesSpec => []GatesHold
<1>1. GatesSpec => []GatesInv
  BY GatesInitInv, GatesNextInv, PTL DEF GatesSpec
<1> QED BY <1>1, GatesInvHolds, PTL

-----------------------------------------------------------------------------
(* Upgrades.                                                                *)

\* What somebody can do but for system-admin, what they can do by a template they hold,
\* and what it is called now.
Apart(d, u) == UNION {d.roles[r] : r \in d.holds[u] \ {"system-admin"}}
ByTemplates(d, u) == UNION {RolePermissions[r] : r \in d.holds[u] \cap {"owner", "auditor"}}
CalledThen(S) == {CalledNow(c) : c \in S \ {"permission:manage"}}

\* A database is a record of functions, the roles of each kind have codes of their kind,
\* and nobody supports the service.
Shaped(d) ==
    /\ d = [roles |-> d.roles, holds |-> d.holds, seated |-> d.seated, handed |-> d.handed]
    /\ d.roles = [r \in DOMAIN d.roles |-> d.roles[r]] /\ d.holds = [u \in People(d) |-> d.holds[u]]
    /\ DOMAIN d.roles \subseteq RoleNames /\ People(d) \subseteq Users /\ d.seated \subseteq People(d)
    /\ \A r \in DOMAIN d.roles : d.roles[r] \subseteq PermissionCodes
    /\ \A u \in People(d) : d.holds[u] \subseteq DOMAIN d.roles \cap {"owner", "admin", "auditor", "reviewer", "system-admin"}

\* The codes of the tenants' roles and of system-admin are of these.
CodesAre(d, tenants, systems) ==
    /\ \A r \in DOMAIN d.roles \ SystemRoles : d.roles[r] \subseteq tenants
    /\ "system-admin" \in DOMAIN d.roles => d.roles["system-admin"] \subseteq systems

\* Whoever was there is, and can do what is meant and more only by the templates they hold.
Between(d, u, meant) == u \in People(d) /\ meant \subseteq Apart(d, u) /\ Apart(d, u) \subseteq meant \cup ByTemplates(d, u)

SystemKept(b, d, meant) ==
    "system-admin" \in DOMAIN b.roles => "system-admin" \in DOMAIN d.roles /\ meant \subseteq d.roles["system-admin"]

ReviewerKept(b, d) == "reviewer" \in DOMAIN b.roles => "reviewer" \in DOMAIN d.roles

\* Until the authority over the system is split off, everything is as it was.
AsItWas(b, d) ==
    /\ Shaped(d) /\ d.handed = {} /\ ReviewerKept(b, d) /\ SystemKept(b, d, b.roles["system-admin"])
    /\ CodesAre(d, TenantThen \cup SystemThen \cup TenantPermissions, SystemThen \cup SystemPermissions \cup {"audit:view"})
    /\ \A u \in People(b) :
           /\ Between(d, u, Apart(b, u))
           /\ "system-admin" \in d.holds[u] <=> "system-admin" \in b.holds[u]
           /\ d.holds[u] = {"system-admin"} <=> b.holds[u] = {"system-admin"}

\* Then system-admin is only who was nothing else, and they are in no tenant.
Handed(b, d) ==
    /\ ReviewerKept(b, d) /\ DOMAIN b.roles \cap {"reviewer"} \subseteq d.handed
    /\ d.handed \cap {"owner", "admin", "auditor", "system-admin"} = {} /\ d.handed \subseteq DOMAIN d.roles

SeatsApart(d, except) ==
    \A u \in People(d) :
        IF u \in d.seated THEN u \in except \/ "system-admin" \notin d.holds[u] ELSE d.holds[u] = {"system-admin"}

OnlyWhoWasOnly(b, d) ==
    \A u \in People(b) : u \in People(d) /\
        /\ "system-admin" \in d.holds[u] <=> b.holds[u] = {"system-admin"}
        /\ d.holds[u] = {"system-admin"} <=> b.holds[u] = {"system-admin"}

AsSplit(b, d) ==
    /\ Shaped(d) /\ Handed(b, d) /\ SeatsApart(d, {}) /\ OnlyWhoWasOnly(b, d) /\ SystemKept(b, d, b.roles["system-admin"])
    /\ CodesAre(d, TenantThen \cup TenantPermissions, SystemThen \cup SystemPermissions \cup {"audit:view"})
    /\ \A u \in People(b) : Between(d, u, Apart(b, u) \ SystemThen)

AsItIs(b, d, except) ==
    /\ Shaped(d) /\ Handed(b, d) /\ SeatsApart(d, except) /\ OnlyWhoWasOnly(b, d)
    /\ SystemKept(b, d, CalledThen(b.roles["system-admin"]))
    /\ CodesAre(d, TenantPermissions, RolePermissions["system-admin"])
    /\ \A u \in People(b) : Between(d, u, CalledThen(Apart(b, u) \ SystemThen))

\* What is committed with a number of revisions.
Sound(b, d, v, except) ==
    /\ v < 7 => AsItWas(b, d)
    /\ v = 6 => d.seated = People(d)
    /\ v \in {7, 8} => AsSplit(b, d)
    /\ v = 9 => AsItIs(b, d, except)

\* Those whom the script has brought back into the tenant.
Returned == IF recovered THEN {DefaultAdmin} ELSE {}

\* A table that is there was made by a revision that is done, or that runs or was killed.
TablesAreMade ==
    /\ \A n \in 1..Newest : n > version + 1 => Chain[n] \notin made
    /\ version < Newest /\ Revision \in made => run # NoRun \/ crashes > 0

UpgradesInv ==
    /\ version \in 0..Newest /\ before.version \in 0..version /\ crashes \in Nat
    /\ stuck \in BOOLEAN /\ served \in BOOLEAN /\ recovered \in BOOLEAN
    /\ run # NoRun => version < Newest /\ run = WrittenBy(Revision, db)
    /\ served => version = Newest /\ run = NoRun
    /\ recovered => version = Newest
    /\ before.version = 0 => People(before.db) = {}
    /\ \A u \in People(before.db) : before.db.holds[u] \subseteq DOMAIN before.db.roles
    /\ TablesAreMade /\ Sound(before.db, db, version, Returned)
    /\ stuck => crashes > 0 /\ ~served
    /\ RemovedStaysRemoved

LEMMA ChainIs ==
    /\ Newest = 9
    /\ Chain[1] = "seed_master_data" /\ Chain[2] = "seed_audit_permission" /\ Chain[3] = "groups_and_notifications"
    /\ Chain[4] = "seed_role_templates" /\ Chain[5] = "rename_admin_role_to_owner" /\ Chain[6] = "tenants"
    /\ Chain[7] = "split_system_authority" /\ Chain[8] = "notes" /\ Chain[9] = "actors_and_roles"
BY DEF Chain, Newest

LEMMA SinceIs ==
    /\ Since("seed_master_data") = 1 /\ Since("seed_role_templates") = 4 /\ Since("rename_admin_role_to_owner") = 5
    /\ Since("tenants") = 6 /\ Since("split_system_authority") = 7 /\ Since("notes") = 8
<1>1. \A n \in 1..9 : n = 1 \/ n = 2 \/ n = 3 \/ n = 4 \/ n = 5 \/ n = 6 \/ n = 7 \/ n = 8 \/ n = 9
  OBVIOUS
<1>2. ASSUME NEW k \in 1..9 PROVE Since(Chain[k]) = k
  <2>1. \A n \in 1..9 : Chain[n] = Chain[k] <=> n = k
    BY <1>1, ChainIs
  <2> QED BY <2>1, ChainIs DEF Since
<1>3. 1 \in 1..9 /\ 4 \in 1..9 /\ 5 \in 1..9 /\ 6 \in 1..9 /\ 7 \in 1..9 /\ 8 \in 1..9
  OBVIOUS
<1> QED BY <1>2, <1>3, ChainIs

LEMMA TemplatesAre ==
    /\ RolePermissions["owner"] = TenantPermissions
    /\ RolePermissions["auditor"] = {"audit:view", "content-settings:view"}
    /\ RolePermissions["system-admin"] = SystemPermissions \cup {"audit:view"}
    /\ RolePermissions["system-support"] = {"system:view"}
    /\ \A r \in Templates : RolePermissions[r] \subseteq PermissionCodes
<1>1. /\ RolePermissions["owner"] = TenantPermissions
      /\ RolePermissions["auditor"] = {"audit:view", "content-settings:view"}
      /\ RolePermissions["system-admin"] = SystemPermissions \cup {"audit:view"}
      /\ RolePermissions["system-support"] = {"system:view"}
  BY DEF RolePermissions, Templates, SystemRoles
<1>2. "audit:view" \in PermissionCodes /\ "content-settings:view" \in PermissionCodes /\ "system:view" \in PermissionCodes
  BY DEF PermissionCodes, TenantPermissions, SystemPermissions
<1>3. TenantPermissions \subseteq PermissionCodes /\ SystemPermissions \subseteq PermissionCodes
  BY DEF PermissionCodes
<1> QED BY <1>1, <1>2, <1>3 DEF Templates, SystemRoles

LEMMA ApartHas ==
    ASSUME NEW d, NEW u, NEW c
    PROVE  c \in Apart(d, u) <=> \E r \in d.holds[u] : r # "system-admin" /\ c \in d.roles[r]
BY DEF Apart

LEMMA ByTemplatesHas ==
    ASSUME NEW d, NEW u, NEW c
    PROVE  c \in ByTemplates(d, u) <=> \E r \in d.holds[u] : r \in {"owner", "auditor"} /\ c \in RolePermissions[r]
BY DEF ByTemplates

LEMMA CalledThenHas ==
    ASSUME NEW S, NEW c
    PROVE  c \in CalledThen(S) <=> \E o \in S : o # "permission:manage" /\ c = CalledNow(o)
BY DEF CalledThen

\* What a seeding makes of a database.
LEMMA SeededIs ==
    ASSUME NEW d, Shaped(d), NEW e, e = Seeded(d)
    PROVE  /\ e.holds = d.holds /\ e.seated = d.seated /\ e.handed = d.handed /\ People(e) = People(d)
           /\ DOMAIN e.roles = DOMAIN d.roles \cup Templates
           /\ \A r \in DOMAIN d.roles : e.roles[r] = d.roles[r] \cup (IF r \in Templates THEN RolePermissions[r] ELSE {})
           /\ \A r \in Templates \ DOMAIN d.roles : e.roles[r] = RolePermissions[r]
           /\ Shaped(e)
<1>1. PICK f : f = [r \in DOMAIN d.roles \cup Templates |->
           (IF r \in DOMAIN d.roles THEN d.roles[r] ELSE {}) \cup (IF r \in Templates THEN RolePermissions[r] ELSE {})]
  OBVIOUS
<1>2. e = [d EXCEPT !.roles = f]
  BY <1>1 DEF Seeded
<1>3. d = [roles |-> d.roles, holds |-> d.holds, seated |-> d.seated, handed |-> d.handed]
  BY DEF Shaped
<1>4. e = [roles |-> f, holds |-> d.holds, seated |-> d.seated, handed |-> d.handed]
  BY <1>2, <1>3
<1>5. e.roles = f /\ e.holds = d.holds /\ e.seated = d.seated /\ e.handed = d.handed /\ People(e) = People(d)
  BY <1>4 DEF People
<1>6. /\ DOMAIN f = DOMAIN d.roles \cup Templates /\ f = [r \in DOMAIN f |-> f[r]]
      /\ \A r \in DOMAIN d.roles : f[r] = d.roles[r] \cup (IF r \in Templates THEN RolePermissions[r] ELSE {})
      /\ \A r \in Templates \ DOMAIN d.roles : f[r] = RolePermissions[r]
  BY <1>1
<1>7. Shaped(e)
  <2>1. e = [roles |-> e.roles, holds |-> e.holds, seated |-> e.seated, handed |-> e.handed]
    BY <1>4, <1>5
  <2>2. e.roles = [r \in DOMAIN e.roles |-> e.roles[r]]
    BY <1>5, <1>6
  <2>3. DOMAIN e.roles \subseteq RoleNames /\ DOMAIN d.roles \subseteq DOMAIN e.roles
    BY <1>5, <1>6 DEF Shaped, RoleNames
  <2>4. e.holds = [u \in People(e) |-> e.holds[u]] /\ People(e) \subseteq Users /\ e.seated \subseteq People(e)
    BY <1>5 DEF Shaped
  <2>5. \A u \in People(e) : e.holds[u] \subseteq DOMAIN e.roles \cap {"owner", "admin", "auditor", "reviewer", "system-admin"}
    BY <1>5, <2>3 DEF Shaped
  <2>6. ASSUME NEW r \in DOMAIN e.roles PROVE e.roles[r] \subseteq PermissionCodes
    <3>1. CASE r \in DOMAIN d.roles
      BY <1>5, <1>6, <3>1, TemplatesAre DEF Shaped
    <3>2. CASE r \in Templates \ DOMAIN d.roles
      BY <1>5, <1>6, <3>2, TemplatesAre
    <3> QED BY <1>5, <1>6, <3>1, <3>2
  <2> QED BY <2>1, <2>2, <2>3, <2>4, <2>5, <2>6 DEF Shaped
<1> QED BY <1>5, <1>6, <1>7

\* What roles whose codes have only grown by templates let people do.
LEMMA SeededKeepsBetween ==
    ASSUME NEW d, Shaped(d), NEW e, e = Seeded(d), NEW u, NEW meant, Between(d, u, meant)
    PROVE  Between(e, u, meant)
<1>1. /\ e.holds = d.holds /\ People(e) = People(d) /\ u \in People(d)
      /\ \A r \in DOMAIN d.roles : e.roles[r] = d.roles[r] \cup (IF r \in Templates THEN RolePermissions[r] ELSE {})
  BY SeededIs DEF Between
<1>2. d.holds[u] \subseteq DOMAIN d.roles /\ d.holds[u] \subseteq {"owner", "admin", "auditor", "reviewer", "system-admin"}
  BY <1>1 DEF Shaped
<1>3. ASSUME NEW c \in Apart(d, u) PROVE c \in Apart(e, u)
  <2>1. PICK r \in d.holds[u] : r # "system-admin" /\ c \in d.roles[r]
    BY ApartHas
  <2>2. c \in e.roles[r] /\ r \in e.holds[u]
    BY <1>1, <1>2, <2>1
  <2> QED BY <2>1, <2>2, ApartHas
<1>4. ASSUME NEW c \in Apart(e, u) PROVE c \in Apart(d, u) \cup ByTemplates(d, u)
  <2>1. PICK r \in e.holds[u] : r # "system-admin" /\ c \in e.roles[r]
    BY ApartHas
  <2>2. r \in d.holds[u] /\ r \in DOMAIN d.roles /\ r \in {"owner", "admin", "auditor", "reviewer"}
    BY <1>1, <1>2, <2>1
  <2>3. CASE c \in d.roles[r]
    BY <2>1, <2>2, <2>3, ApartHas
  <2>4. CASE c \notin d.roles[r]
    <3>1. r \in Templates /\ c \in RolePermissions[r]
      BY <1>1, <2>1, <2>2, <2>4
    <3>2. r \in {"owner", "auditor"}
      BY <2>2, <3>1 DEF Templates, SystemRoles
    <3> QED BY <2>2, <3>1, <3>2, ByTemplatesHas
  <2> QED BY <2>3, <2>4
<1>5. ByTemplates(e, u) = ByTemplates(d, u)
  BY <1>1 DEF ByTemplates
<1> QED BY <1>1, <1>3, <1>4, <1>5 DEF Between

\* A seeding leaves the codes of each kind of role of its kind.
LEMMA SeededKeepsCodes ==
    ASSUME NEW d, Shaped(d), NEW e, e = Seeded(d), NEW tenants, NEW systems, CodesAre(d, tenants, systems),
           TenantPermissions \subseteq tenants, RolePermissions["system-admin"] \subseteq systems
    PROVE  CodesAre(e, tenants, systems)
<1>1. /\ DOMAIN e.roles = DOMAIN d.roles \cup Templates
      /\ \A r \in DOMAIN d.roles : e.roles[r] = d.roles[r] \cup (IF r \in Templates THEN RolePermissions[r] ELSE {})
      /\ \A r \in Templates \ DOMAIN d.roles : e.roles[r] = RolePermissions[r]
  BY SeededIs
<1>2. \A r \in Templates \ SystemRoles : RolePermissions[r] \subseteq tenants
  <2>1. RolePermissions["owner"] \subseteq tenants /\ RolePermissions["auditor"] \subseteq tenants
    BY TemplatesAre DEF TenantPermissions
  <2> QED BY <2>1 DEF Templates
<1>3. ASSUME NEW r \in DOMAIN e.roles \ SystemRoles PROVE e.roles[r] \subseteq tenants
  BY <1>1, <1>2, <1>3 DEF CodesAre
<1>4. e.roles["system-admin"] \subseteq systems
  <2>1. "system-admin" \in Templates
    BY DEF Templates, SystemRoles
  <2> QED BY <1>1, <2>1 DEF CodesAre
<1> QED BY <1>3, <1>4 DEF CodesAre

LEMMA SeededKeepsKept ==
    ASSUME NEW d, Shaped(d), NEW e, e = Seeded(d), NEW b, NEW meant
    PROVE  /\ SystemKept(b, d, meant) => SystemKept(b, e, meant)
           /\ ReviewerKept(b, d) => ReviewerKept(b, e)
           /\ Handed(b, d) => Handed(b, e)
<1>1. /\ DOMAIN e.roles = DOMAIN d.roles \cup Templates /\ e.handed = d.handed
      /\ \A r \in DOMAIN d.roles : d.roles[r] \subseteq e.roles[r]
  BY SeededIs
<1> QED BY <1>1 DEF SystemKept, ReviewerKept, Handed

LEMMA SeededKeepsAsItWas ==
    ASSUME NEW b, NEW d, AsItWas(b, d), NEW e, e = Seeded(d)
    PROVE  AsItWas(b, e)
<1>1. Shaped(d) /\ Shaped(e) /\ e.holds = d.holds /\ e.handed = d.handed
  BY SeededIs DEF AsItWas
<1>2. CodesAre(e, TenantThen \cup SystemThen \cup TenantPermissions, SystemThen \cup SystemPermissions \cup {"audit:view"})
  <2>1. PICK tenants : tenants = TenantThen \cup SystemThen \cup TenantPermissions
    OBVIOUS
  <2>2. PICK systems : systems = SystemThen \cup SystemPermissions \cup {"audit:view"}
    OBVIOUS
  <2>3. TenantPermissions \subseteq tenants /\ RolePermissions["system-admin"] \subseteq systems
    BY <2>1, <2>2, TemplatesAre
  <2>4. CodesAre(d, tenants, systems)
    BY <2>1, <2>2 DEF AsItWas
  <2> QED BY <1>1, <2>1, <2>2, <2>3, <2>4, SeededKeepsCodes
<1>3. ReviewerKept(b, e) /\ SystemKept(b, e, b.roles["system-admin"])
  BY <1>1, SeededKeepsKept DEF AsItWas
<1>4. \A u \in People(b) : Between(e, u, Apart(b, u))
  BY <1>1, SeededKeepsBetween DEF AsItWas
<1> QED BY <1>1, <1>2, <1>3, <1>4 DEF AsItWas

LEMMA SeededKeepsAsSplit ==
    ASSUME NEW b, NEW d, AsSplit(b, d), NEW e, e = Seeded(d)
    PROVE  AsSplit(b, e)
<1>1. Shaped(d) /\ Shaped(e) /\ e.holds = d.holds /\ e.seated = d.seated /\ People(e) = People(d)
  BY SeededIs DEF AsSplit
<1>2. CodesAre(e, TenantThen \cup TenantPermissions, SystemThen \cup SystemPermissions \cup {"audit:view"})
  <2>1. PICK tenants : tenants = TenantThen \cup TenantPermissions
    OBVIOUS
  <2>2. PICK systems : systems = SystemThen \cup SystemPermissions \cup {"audit:view"}
    OBVIOUS
  <2>3. TenantPermissions \subseteq tenants /\ RolePermissions["system-admin"] \subseteq systems
    BY <2>1, <2>2, TemplatesAre
  <2>4. CodesAre(d, tenants, systems)
    BY <2>1, <2>2 DEF AsSplit
  <2> QED BY <1>1, <2>1, <2>2, <2>3, <2>4, SeededKeepsCodes
<1>3. Handed(b, e) /\ SystemKept(b, e, b.roles["system-admin"])
  BY <1>1, SeededKeepsKept DEF AsSplit
<1>4. \A u \in People(b) : Between(e, u, Apart(b, u) \ SystemThen)
  <2> SUFFICES ASSUME NEW u \in People(b) PROVE Between(e, u, Apart(b, u) \ SystemThen)
    OBVIOUS
  <2>1. PICK meant : meant = Apart(b, u) \ SystemThen
    OBVIOUS
  <2>2. Between(d, u, meant)
    BY <2>1 DEF AsSplit
  <2> QED BY <1>1, <2>1, <2>2, SeededKeepsBetween
<1>5. SeatsApart(e, {}) /\ OnlyWhoWasOnly(b, e)
  BY <1>1 DEF AsSplit, SeatsApart, OnlyWhoWasOnly
<1> QED BY <1>1, <1>2, <1>3, <1>4, <1>5 DEF AsSplit

LEMMA SeededKeepsAsItIs ==
    ASSUME NEW b, NEW d, NEW except, AsItIs(b, d, except), NEW e, e = Seeded(d)
    PROVE  AsItIs(b, e, except)
<1>1. Shaped(d) /\ Shaped(e) /\ e.holds = d.holds /\ e.seated = d.seated /\ People(e) = People(d)
  BY SeededIs DEF AsItIs
<1>2. CodesAre(e, TenantPermissions, RolePermissions["system-admin"])
  <2>1. PICK tenants : tenants = TenantPermissions
    OBVIOUS
  <2>2. PICK systems : systems = RolePermissions["system-admin"]
    OBVIOUS
  <2>3. CodesAre(d, tenants, systems)
    BY <2>1, <2>2 DEF AsItIs
  <2> QED BY <1>1, <2>1, <2>2, <2>3, SeededKeepsCodes
<1>3. Handed(b, e) /\ SystemKept(b, e, CalledThen(b.roles["system-admin"]))
  <2>1. PICK meant : meant = CalledThen(b.roles["system-admin"])
    OBVIOUS
  <2> QED BY <1>1, <2>1, SeededKeepsKept DEF AsItIs
<1>4. \A u \in People(b) : Between(e, u, CalledThen(Apart(b, u) \ SystemThen))
  <2> SUFFICES ASSUME NEW u \in People(b) PROVE Between(e, u, CalledThen(Apart(b, u) \ SystemThen))
    OBVIOUS
  <2>1. PICK meant : meant = CalledThen(Apart(b, u) \ SystemThen)
    OBVIOUS
  <2>2. Between(d, u, meant)
    BY <2>1 DEF AsItIs
  <2> QED BY <1>1, <2>1, <2>2, SeededKeepsBetween
<1>5. SeatsApart(e, except) /\ OnlyWhoWasOnly(b, e)
  BY <1>1 DEF AsItIs, SeatsApart, OnlyWhoWasOnly
<1> QED BY <1>1, <1>2, <1>3, <1>4, <1>5 DEF AsItIs

\* What the same roles let somebody do who holds the same.
LEMMA SamePowers ==
    ASSUME NEW d, NEW e, e.roles = d.roles, NEW u \in People(e), e.holds[u] = d.holds[u], NEW meant, Between(d, u, meant)
    PROVE  Between(e, u, meant)
BY DEF Between, Apart, ByTemplates

LEMMA AdminEnsuredIs ==
    ASSUME NEW d, Shaped(d), "owner" \in DOMAIN d.roles, NEW e, e = AdminEnsured(d)
    PROVE  /\ e.roles = d.roles /\ e.seated = d.seated /\ e.handed = d.handed
           /\ People(e) = People(d) \cup {DefaultAdmin}
           /\ \A u \in People(d) : e.holds[u] = d.holds[u]
           /\ Shaped(e)
<1>1. CASE DefaultAdmin \in People(d)
  BY <1>1 DEF AdminEnsured
<1>2. CASE DefaultAdmin \notin People(d)
  <2>1. PICK f : f = [u \in People(d) \cup {DefaultAdmin} |-> IF u = DefaultAdmin THEN {"owner"} ELSE d.holds[u]]
    OBVIOUS
  <2>2. e = [d EXCEPT !.holds = f]
    BY <1>2, <2>1 DEF AdminEnsured
  <2>3. d = [roles |-> d.roles, holds |-> d.holds, seated |-> d.seated, handed |-> d.handed]
    BY DEF Shaped
  <2>4. e = [roles |-> d.roles, holds |-> f, seated |-> d.seated, handed |-> d.handed]
    BY <2>2, <2>3
  <2>5. e.roles = d.roles /\ e.seated = d.seated /\ e.handed = d.handed /\ e.holds = f
    BY <2>4
  <2>6. /\ DOMAIN f = People(d) \cup {DefaultAdmin} /\ f = [u \in DOMAIN f |-> f[u]]
        /\ \A u \in People(d) : f[u] = d.holds[u]
        /\ f[DefaultAdmin] = {"owner"}
    BY <1>2, <2>1
  <2>7. People(e) = People(d) \cup {DefaultAdmin}
    BY <2>5, <2>6 DEF People
  <2>8. Shaped(e)
    <3>1. e = [roles |-> e.roles, holds |-> e.holds, seated |-> e.seated, handed |-> e.handed]
      BY <2>4, <2>5
    <3>2. e.holds = [u \in People(e) |-> e.holds[u]]
      BY <2>5, <2>6, <2>7
    <3>3. \A u \in People(e) : e.holds[u] \subseteq DOMAIN e.roles \cap {"owner", "admin", "auditor", "reviewer", "system-admin"}
      BY <2>5, <2>6, <2>7 DEF Shaped
    <3>4. People(e) \subseteq Users
      BY <2>7, UpgradesAssumption DEF Shaped
    <3> QED BY <3>1, <3>2, <3>3, <3>4, <2>5, <2>7 DEF Shaped
  <2> QED BY <2>5, <2>6, <2>7, <2>8
<1> QED BY <1>1, <1>2

\* An administrator is made where nobody was.
LEMMA AdminKeepsAsItWas ==
    ASSUME NEW b, People(b) = {}, NEW d, AsItWas(b, d), "owner" \in DOMAIN d.roles, NEW e, e = AdminEnsured(d)
    PROVE  AsItWas(b, e)
<1>1. Shaped(d)
  BY DEF AsItWas
<1>2. e.roles = d.roles /\ e.handed = d.handed /\ Shaped(e)
  BY <1>1, AdminEnsuredIs
<1> QED BY <1>2 DEF AsItWas, ReviewerKept, SystemKept, CodesAre

LEMMA OwnerNamedKeepsAsItWas ==
    ASSUME NEW b, NEW d, AsItWas(b, d), NEW e, e = OwnerNamed(d)
    PROVE  AsItWas(b, e) /\ People(e) = People(d)
<1>1. CASE "owner" \in DOMAIN d.roles \/ "admin" \notin DOMAIN d.roles
  BY <1>1 DEF OwnerNamed
<1>2. CASE "owner" \notin DOMAIN d.roles /\ "admin" \in DOMAIN d.roles
  <2>1. PICK f : f = [r \in {IF s = "admin" THEN "owner" ELSE s : s \in DOMAIN d.roles} |->
                         d.roles[IF r = "owner" THEN "admin" ELSE r]]
    OBVIOUS
  <2>2. PICK g : g = [u \in People(d) |-> {IF r = "admin" THEN "owner" ELSE r : r \in d.holds[u]}]
    OBVIOUS
  <2>3. e = [d EXCEPT !.roles = f, !.holds = g]
    BY <1>2, <2>1, <2>2 DEF OwnerNamed
  <2>4. d = [roles |-> d.roles, holds |-> d.holds, seated |-> d.seated, handed |-> d.handed]
    BY DEF AsItWas, Shaped
  <2>5. e = [roles |-> f, holds |-> g, seated |-> d.seated, handed |-> d.handed]
    BY <2>3, <2>4
  <2>6. e.roles = f /\ e.holds = g /\ e.seated = d.seated /\ e.handed = d.handed
    BY <2>5
  <2>7. DOMAIN f = (DOMAIN d.roles \ {"admin"}) \cup {"owner"}
    BY <1>2, <2>1
  <2>8. /\ f = [r \in DOMAIN f |-> f[r]] /\ f["owner"] = d.roles["admin"]
        /\ \A r \in DOMAIN d.roles \ {"admin"} : f[r] = d.roles[r]
    <3>1. f = [r \in DOMAIN f |-> f[r]]
      BY <2>1
    <3>2. f["owner"] = d.roles["admin"]
      BY <2>1, <2>7
    <3>3. ASSUME NEW r \in DOMAIN d.roles \ {"admin"} PROVE f[r] = d.roles[r]
      BY <1>2, <2>1, <2>7
    <3> QED BY <3>1, <3>2, <3>3
  <2>9. /\ DOMAIN g = People(d) /\ g = [u \in DOMAIN g |-> g[u]] /\ People(e) = People(d)
        /\ \A u \in People(d) : \A r : r \in g[u] <=> (r # "admin" /\ r \in d.holds[u]) \/ (r = "owner" /\ "admin" \in d.holds[u])
    <3>1. DOMAIN g = People(d) /\ g = [u \in DOMAIN g |-> g[u]]
      BY <2>2
    <3>2. ASSUME NEW u \in People(d), NEW r
          PROVE  r \in g[u] <=> (r # "admin" /\ r \in d.holds[u]) \/ (r = "owner" /\ "admin" \in d.holds[u])
      <4>1. g[u] = {IF s = "admin" THEN "owner" ELSE s : s \in d.holds[u]}
        BY <2>2
      <4> QED BY <4>1
    <3>3. People(e) = People(d)
      BY <2>6, <3>1 DEF People
    <3> QED BY <3>1, <3>2, <3>3
  <2>10. \A u \in People(d) : d.holds[u] \subseteq DOMAIN d.roles /\ "owner" \notin d.holds[u]
    BY <1>2 DEF AsItWas, Shaped
  <2>11. Shaped(e)
    <3>1. e = [roles |-> e.roles, holds |-> e.holds, seated |-> e.seated, handed |-> e.handed]
      BY <2>5, <2>6
    <3>2. e.roles = [r \in DOMAIN e.roles |-> e.roles[r]] /\ e.holds = [u \in People(e) |-> e.holds[u]]
      BY <2>6, <2>8, <2>9
    <3>3. DOMAIN e.roles \subseteq RoleNames
      BY <2>6, <2>7 DEF AsItWas, Shaped, RoleNames, Templates
    <3>4. People(e) \subseteq Users /\ e.seated \subseteq People(e)
      BY <2>6, <2>9 DEF AsItWas, Shaped
    <3>5. ASSUME NEW u \in People(e), NEW r \in e.holds[u]
          PROVE  r \in DOMAIN e.roles \cap {"owner", "admin", "auditor", "reviewer", "system-admin"}
      <4>1. u \in People(d) /\ ((r # "admin" /\ r \in d.holds[u]) \/ r = "owner")
        BY <2>6, <2>9
      <4>2. CASE r # "admin" /\ r \in d.holds[u]
        BY <4>1, <4>2, <2>6, <2>7 DEF AsItWas, Shaped
      <4>3. CASE r = "owner"
        BY <4>3, <2>6, <2>7
      <4> QED BY <4>1, <4>2, <4>3
    <3>6. \A r \in DOMAIN e.roles : e.roles[r] \subseteq PermissionCodes
      BY <1>2, <2>6, <2>7, <2>8 DEF AsItWas, Shaped
    <3> QED BY <3>1, <3>2, <3>3, <3>4, <3>5, <3>6 DEF Shaped
  <2>12. ReviewerKept(b, e) /\ SystemKept(b, e, b.roles["system-admin"])
    BY <2>6, <2>7, <2>8 DEF AsItWas, ReviewerKept, SystemKept
  <2>13. CodesAre(e, TenantThen \cup SystemThen \cup TenantPermissions, SystemThen \cup SystemPermissions \cup {"audit:view"})
    <3>1. PICK tenants : tenants = TenantThen \cup SystemThen \cup TenantPermissions
      OBVIOUS
    <3>2. PICK systems : systems = SystemThen \cup SystemPermissions \cup {"audit:view"}
      OBVIOUS
    <3>3. CodesAre(d, tenants, systems)
      BY <3>1, <3>2 DEF AsItWas
    <3>4. ASSUME NEW r \in DOMAIN e.roles \ SystemRoles PROVE e.roles[r] \subseteq tenants
      <4>1. CASE r = "owner"
        BY <1>2, <2>6, <2>8, <3>3, <4>1 DEF CodesAre, SystemRoles
      <4>2. CASE r # "owner"
        BY <2>6, <2>7, <2>8, <3>3, <4>2 DEF CodesAre
      <4> QED BY <4>1, <4>2
    <3>5. "system-admin" \in DOMAIN e.roles => e.roles["system-admin"] \subseteq systems
      BY <2>6, <2>7, <2>8, <3>3 DEF CodesAre
    <3> QED BY <3>1, <3>2, <3>4, <3>5 DEF CodesAre
  <2>14. ASSUME NEW u \in People(d) PROVE Apart(e, u) = Apart(d, u) /\ ByTemplates(d, u) \subseteq ByTemplates(e, u)
    <3>1. ASSUME NEW c \in Apart(d, u) PROVE c \in Apart(e, u)
      <4>1. PICK r \in d.holds[u] : r # "system-admin" /\ c \in d.roles[r]
        BY ApartHas
      <4>2. CASE r = "admin"
        <5>1. "owner" \in e.holds[u] /\ c \in e.roles["owner"]
          BY <2>6, <2>8, <2>9, <4>1, <4>2
        <5> QED BY <5>1, ApartHas
      <4>3. CASE r # "admin"
        <5>1. r \in e.holds[u] /\ c \in e.roles[r]
          BY <2>6, <2>8, <2>9, <2>10, <4>1, <4>3
        <5> QED BY <5>1, <4>1, ApartHas
      <4> QED BY <4>2, <4>3
    <3>2. ASSUME NEW c \in Apart(e, u) PROVE c \in Apart(d, u)
      <4>1. PICK r \in e.holds[u] : r # "system-admin" /\ c \in e.roles[r]
        BY ApartHas
      <4>2. CASE r = "owner"
        <5>1. "admin" \in d.holds[u] /\ c \in d.roles["admin"]
          BY <2>6, <2>8, <2>9, <2>10, <4>1, <4>2
        <5> QED BY <5>1, ApartHas
      <4>3. CASE r # "owner"
        <5>1. r \in d.holds[u] /\ r # "admin"
          BY <2>6, <2>9, <4>1, <4>3
        <5>2. c \in d.roles[r]
          BY <2>6, <2>8, <2>10, <4>1, <5>1
        <5> QED BY <5>1, <5>2, <4>1, ApartHas
      <4> QED BY <4>2, <4>3
    <3>3. ASSUME NEW c \in ByTemplates(d, u) PROVE c \in ByTemplates(e, u)
      <4>1. PICK r \in d.holds[u] : r \in {"owner", "auditor"} /\ c \in RolePermissions[r]
        BY ByTemplatesHas
      <4>2. r \in e.holds[u]
        BY <2>6, <2>9, <4>1
      <4> QED BY <4>1, <4>2, ByTemplatesHas
    <3> QED BY <3>1, <3>2, <3>3
  <2>15. \A u \in People(b) : u \in People(d) /\ Between(d, u, Apart(b, u))
    BY DEF AsItWas, Between
  <2>16. ASSUME NEW u \in People(b) PROVE Between(e, u, Apart(b, u))
    BY <2>9, <2>14, <2>15 DEF Between
  <2>17. ASSUME NEW u \in People(b)
         PROVE  /\ "system-admin" \in e.holds[u] <=> "system-admin" \in b.holds[u]
                /\ e.holds[u] = {"system-admin"} <=> b.holds[u] = {"system-admin"}
    <3>1. /\ "system-admin" \in d.holds[u] <=> "system-admin" \in b.holds[u]
          /\ d.holds[u] = {"system-admin"} <=> b.holds[u] = {"system-admin"}
      BY DEF AsItWas
    <3>2. "system-admin" \in e.holds[u] <=> "system-admin" \in d.holds[u]
      BY <2>6, <2>9, <2>15
    <3>3. e.holds[u] = {"system-admin"} <=> d.holds[u] = {"system-admin"}
      <4>1. \A r : r \in e.holds[u] <=> (r # "admin" /\ r \in d.holds[u]) \/ (r = "owner" /\ "admin" \in d.holds[u])
        BY <2>6, <2>9, <2>15
      <4>2. ASSUME e.holds[u] = {"system-admin"} PROVE d.holds[u] = {"system-admin"}
        <5>1. "owner" \notin e.holds[u]
          BY <4>2
        <5>2. "admin" \notin d.holds[u]
          BY <5>1, <4>1
        <5> QED BY <5>2, <4>1, <4>2
      <4>3. ASSUME d.holds[u] = {"system-admin"} PROVE e.holds[u] = {"system-admin"}
        <5>1. "admin" \notin d.holds[u]
          BY <4>3
        <5> QED BY <5>1, <4>1, <4>3
      <4> QED BY <4>2, <4>3
    <3> QED BY <3>1, <3>2, <3>3
  <2>18. e.handed = {}
    BY <2>6 DEF AsItWas
  <2> QED BY <2>9, <2>11, <2>12, <2>13, <2>16, <2>17, <2>18 DEF AsItWas
<1> QED BY <1>1, <1>2

LEMMA SeatedIs ==
    ASSUME NEW d, Shaped(d), NEW seats, seats \subseteq People(d), NEW e, e = [d EXCEPT !.seated = seats]
    PROVE  /\ e.roles = d.roles /\ e.holds = d.holds /\ e.seated = seats /\ e.handed = d.handed
           /\ People(e) = People(d) /\ Shaped(e)
<1>1. d = [roles |-> d.roles, holds |-> d.holds, seated |-> d.seated, handed |-> d.handed]
  BY DEF Shaped
<1>2. e = [roles |-> d.roles, holds |-> d.holds, seated |-> seats, handed |-> d.handed]
  BY <1>1
<1>3. e.roles = d.roles /\ e.holds = d.holds /\ e.seated = seats /\ e.handed = d.handed
  BY <1>2
<1>4. People(e) = People(d)
  BY <1>3 DEF People
<1> QED BY <1>2, <1>3, <1>4 DEF Shaped

LEMMA EverybodySeatedKeepsAsItWas ==
    ASSUME NEW b, NEW d, AsItWas(b, d), NEW e, e = EverybodySeated(d)
    PROVE  AsItWas(b, e) /\ People(e) = People(d) /\ e.seated = People(e) /\ EverybodySeated(e) = e
<1>1. Shaped(d)
  BY DEF AsItWas
<1>2. PICK seats : seats = People(d)
  OBVIOUS
<1>3. e = [d EXCEPT !.seated = seats]
  BY <1>2 DEF EverybodySeated
<1>4. e.roles = d.roles /\ e.holds = d.holds /\ e.seated = seats /\ e.handed = d.handed /\ People(e) = People(d) /\ Shaped(e)
  BY <1>1, <1>2, <1>3, SeatedIs
<1>5. AsItWas(b, e)
  BY <1>4 DEF AsItWas, ReviewerKept, SystemKept, CodesAre, Between, Apart, ByTemplates
<1>6. EverybodySeated(e) = e
  <2>1. e = [roles |-> e.roles, holds |-> e.holds, seated |-> e.seated, handed |-> e.handed]
    BY <1>4 DEF Shaped
  <2>2. EverybodySeated(e) = [e EXCEPT !.seated = e.seated]
    BY <1>2, <1>4 DEF EverybodySeated
  <2> QED BY <2>1, <2>2
<1> QED BY <1>2, <1>4, <1>5, <1>6

\* The authority over the system is split off.
LEMMA StrippedIs ==
    ASSUME NEW d, Shaped(d), NEW e, e = Stripped(d)
    PROVE  /\ e.holds = d.holds /\ e.seated = d.seated /\ e.handed = d.handed /\ People(e) = People(d)
           /\ DOMAIN e.roles = DOMAIN d.roles
           /\ \A r \in DOMAIN d.roles : e.roles[r] = IF r = "system-admin" THEN d.roles[r] ELSE d.roles[r] \ SystemThen
           /\ Shaped(e)
<1>1. PICK f : f = [r \in DOMAIN d.roles |-> IF r = "system-admin" THEN d.roles[r] ELSE d.roles[r] \ SystemThen]
  OBVIOUS
<1>2. e = [d EXCEPT !.roles = f]
  BY <1>1 DEF Stripped
<1>3. d = [roles |-> d.roles, holds |-> d.holds, seated |-> d.seated, handed |-> d.handed]
  BY DEF Shaped
<1>4. e = [roles |-> f, holds |-> d.holds, seated |-> d.seated, handed |-> d.handed]
  BY <1>2, <1>3
<1>5. e.roles = f /\ e.holds = d.holds /\ e.seated = d.seated /\ e.handed = d.handed /\ People(e) = People(d)
  BY <1>4 DEF People
<1>6. /\ DOMAIN f = DOMAIN d.roles /\ f = [r \in DOMAIN f |-> f[r]]
      /\ \A r \in DOMAIN d.roles : f[r] = IF r = "system-admin" THEN d.roles[r] ELSE d.roles[r] \ SystemThen
  BY <1>1
<1>7. Shaped(e)
  <2>1. e = [roles |-> e.roles, holds |-> e.holds, seated |-> e.seated, handed |-> e.handed]
    BY <1>4, <1>5
  <2>2. \A r \in DOMAIN e.roles : e.roles[r] \subseteq PermissionCodes
    BY <1>5, <1>6 DEF Shaped
  <2> QED BY <1>5, <1>6, <2>1, <2>2 DEF Shaped
<1> QED BY <1>5, <1>6, <1>7

LEMMA CustomHandedIs ==
    ASSUME NEW d, Shaped(d), NEW e, e = CustomHanded(d)
    PROVE  /\ e.roles = d.roles /\ e.holds = d.holds /\ e.seated = d.seated /\ People(e) = People(d)
           /\ e.handed = DOMAIN d.roles \ {"owner", "admin", "auditor", "system-admin"} /\ Shaped(e)
<1>1. PICK own : own = DOMAIN d.roles \ {"owner", "admin", "auditor", "system-admin"}
  OBVIOUS
<1>2. e = [d EXCEPT !.handed = own]
  BY <1>1 DEF CustomHanded
<1>3. d = [roles |-> d.roles, holds |-> d.holds, seated |-> d.seated, handed |-> d.handed]
  BY DEF Shaped
<1>4. e = [roles |-> d.roles, holds |-> d.holds, seated |-> d.seated, handed |-> own]
  BY <1>2, <1>3
<1>5. e.roles = d.roles /\ e.holds = d.holds /\ e.seated = d.seated /\ e.handed = own /\ People(e) = People(d)
  BY <1>4 DEF People
<1> QED BY <1>1, <1>4, <1>5 DEF Shaped

LEMMA ReseatedIs ==
    ASSUME NEW d, Shaped(d), d.seated = People(d), NEW e, e = Reseated(d)
    PROVE  /\ e.roles = d.roles /\ e.handed = d.handed /\ People(e) = People(d)
           /\ \A u \in People(d) :
                  /\ u \in e.seated <=> d.holds[u] # {"system-admin"}
                  /\ d.holds[u] = {"system-admin"} => e.holds[u] = {"system-admin"}
                  /\ d.holds[u] # {"system-admin"} => e.holds[u] = d.holds[u] \ {"system-admin"}
           /\ Shaped(e)
<1>1. PICK holders : holders = {u \in d.seated : "system-admin" \in d.holds[u]}
  OBVIOUS
<1>2. PICK alone : alone = {u \in holders : d.holds[u] = {"system-admin"}}
  OBVIOUS
<1>3. PICK f : f = [u \in People(d) |-> IF u \in holders \ alone THEN d.holds[u] \ {"system-admin"} ELSE d.holds[u]]
  OBVIOUS
<1>4. e = [d EXCEPT !.seated = d.seated \ alone, !.holds = f]
  BY <1>1, <1>2, <1>3 DEF Reseated
<1>5. d = [roles |-> d.roles, holds |-> d.holds, seated |-> d.seated, handed |-> d.handed]
  BY DEF Shaped
<1>6. e = [roles |-> d.roles, holds |-> f, seated |-> d.seated \ alone, handed |-> d.handed]
  BY <1>4, <1>5
<1>7. e.roles = d.roles /\ e.holds = f /\ e.seated = d.seated \ alone /\ e.handed = d.handed
  BY <1>6
<1>8. DOMAIN f = People(d) /\ f = [u \in DOMAIN f |-> f[u]]
  BY <1>3
<1>9. People(e) = People(d)
  BY <1>7, <1>8 DEF People
<1>10. ASSUME NEW u \in People(d)
       PROVE  /\ u \in e.seated <=> d.holds[u] # {"system-admin"}
              /\ d.holds[u] = {"system-admin"} => e.holds[u] = {"system-admin"}
              /\ d.holds[u] # {"system-admin"} => e.holds[u] = d.holds[u] \ {"system-admin"}
  <2>1. u \in holders <=> "system-admin" \in d.holds[u]
    BY <1>1
  <2>2. u \in alone <=> d.holds[u] = {"system-admin"}
    BY <1>2, <2>1
  <2>3. e.holds[u] = IF u \in holders \ alone THEN d.holds[u] \ {"system-admin"} ELSE d.holds[u]
    BY <1>3, <1>7
  <2>4. u \in e.seated <=> d.holds[u] # {"system-admin"}
    BY <1>7, <2>2
  <2> QED BY <2>1, <2>2, <2>3, <2>4
<1>11. Shaped(e)
  <2>1. e = [roles |-> e.roles, holds |-> e.holds, seated |-> e.seated, handed |-> e.handed]
    BY <1>6, <1>7
  <2>2. e.holds = [u \in People(e) |-> e.holds[u]] /\ e.seated \subseteq People(e) /\ People(e) \subseteq Users
    BY <1>7, <1>8, <1>9 DEF Shaped
  <2>3. \A u \in People(e) : e.holds[u] \subseteq DOMAIN e.roles \cap {"owner", "admin", "auditor", "reviewer", "system-admin"}
    BY <1>7, <1>9, <1>10 DEF Shaped
  <2> QED BY <1>7, <2>1, <2>2, <2>3 DEF Shaped
<1> QED BY <1>7, <1>9, <1>10, <1>11

LEMMA SplitMakesAsSplit ==
    ASSUME NEW b, NEW d, AsItWas(b, d), d.seated = People(d), NEW e, e = SplitSystemAuthority(d)
    PROVE  AsSplit(b, e) /\ People(e) = People(d)
<1>1. PICK d1 : d1 = CustomHanded(d)
  OBVIOUS
<1>2. PICK d2 : d2 = Seeded(d1)
  OBVIOUS
<1>3. PICK d3 : d3 = Stripped(d2)
  OBVIOUS
<1>4. e = Reseated(d3)
  BY <1>1, <1>2, <1>3 DEF SplitSystemAuthority
<1>5. /\ d1.roles = d.roles /\ d1.holds = d.holds /\ d1.seated = d.seated /\ People(d1) = People(d) /\ Shaped(d1)
      /\ d1.handed = DOMAIN d.roles \ {"owner", "admin", "auditor", "system-admin"}
  BY <1>1, CustomHandedIs DEF AsItWas
<1>6. /\ d2.holds = d1.holds /\ d2.seated = d1.seated /\ d2.handed = d1.handed /\ People(d2) = People(d1) /\ Shaped(d2)
      /\ DOMAIN d1.roles \subseteq DOMAIN d2.roles
  BY <1>2, <1>5, SeededIs
<1>7. /\ d3.holds = d2.holds /\ d3.seated = d2.seated /\ d3.handed = d2.handed /\ People(d3) = People(d2) /\ Shaped(d3)
      /\ DOMAIN d3.roles = DOMAIN d2.roles
      /\ \A r \in DOMAIN d2.roles : d3.roles[r] = IF r = "system-admin" THEN d2.roles[r] ELSE d2.roles[r] \ SystemThen
  <2>1. Shaped(d2) /\ d3 = Stripped(d2)
    BY <1>3, <1>6
  <2> QED BY <2>1, StrippedIs
<1>8. d3.seated = People(d3)
  BY <1>5, <1>6, <1>7
<1>9. /\ e.roles = d3.roles /\ e.handed = d3.handed /\ People(e) = People(d3) /\ Shaped(e)
      /\ \A u \in People(d3) :
             /\ u \in e.seated <=> d3.holds[u] # {"system-admin"}
             /\ d3.holds[u] = {"system-admin"} => e.holds[u] = {"system-admin"}
             /\ d3.holds[u] # {"system-admin"} => e.holds[u] = d3.holds[u] \ {"system-admin"}
  BY <1>4, <1>7, <1>8, ReseatedIs
<1>10. d3.holds = d.holds /\ People(d3) = People(d) /\ People(e) = People(d)
  BY <1>5, <1>6, <1>7, <1>9
<1>11. Handed(b, e)
  <2>1. ReviewerKept(b, d)
    BY DEF AsItWas
  <2>2. e.handed = DOMAIN d.roles \ {"owner", "admin", "auditor", "system-admin"} /\ DOMAIN d.roles \subseteq DOMAIN e.roles
    BY <1>5, <1>6, <1>7, <1>9
  <2> QED BY <2>1, <2>2 DEF Handed, ReviewerKept
<1>12. SeatsApart(e, {})
  BY <1>9 DEF SeatsApart
<1>13. OnlyWhoWasOnly(b, e)
  <2> SUFFICES ASSUME NEW u \in People(b)
               PROVE  /\ u \in People(e)
                      /\ "system-admin" \in e.holds[u] <=> b.holds[u] = {"system-admin"}
                      /\ e.holds[u] = {"system-admin"} <=> b.holds[u] = {"system-admin"}
    BY DEF OnlyWhoWasOnly
  <2>1. u \in People(d) /\ (d.holds[u] = {"system-admin"} <=> b.holds[u] = {"system-admin"})
    BY DEF AsItWas, Between
  <2> QED BY <1>9, <1>10, <2>1
<1>14. SystemKept(b, e, b.roles["system-admin"])
  <2>1. PICK meant : meant = b.roles["system-admin"]
    OBVIOUS
  <2>2. SystemKept(b, d1, meant)
    BY <1>5, <2>1 DEF AsItWas, SystemKept
  <2>3. SystemKept(b, d2, meant)
    BY <1>2, <1>5, <2>2, SeededKeepsKept
  <2> QED BY <1>7, <1>9, <2>1, <2>3 DEF SystemKept
<1>15. CodesAre(e, TenantThen \cup TenantPermissions, SystemThen \cup SystemPermissions \cup {"audit:view"})
  <2>1. PICK tenants : tenants = TenantThen \cup SystemThen \cup TenantPermissions
    OBVIOUS
  <2>2. PICK systems : systems = SystemThen \cup SystemPermissions \cup {"audit:view"}
    OBVIOUS
  <2>3. TenantPermissions \subseteq tenants /\ RolePermissions["system-admin"] \subseteq systems
    BY <2>1, <2>2, TemplatesAre
  <2>4. CodesAre(d1, tenants, systems)
    BY <1>5, <2>1, <2>2 DEF AsItWas, CodesAre
  <2>5. CodesAre(d2, tenants, systems)
    BY <1>2, <1>5, <2>3, <2>4, SeededKeepsCodes
  <2>6. ASSUME NEW r \in DOMAIN e.roles \ SystemRoles PROVE e.roles[r] \subseteq TenantThen \cup TenantPermissions
    <3>1. r \in DOMAIN d2.roles /\ d2.roles[r] \subseteq tenants /\ r # "system-admin"
      BY <1>7, <1>9, <2>5 DEF CodesAre, SystemRoles
    <3>2. e.roles[r] = d2.roles[r] \ SystemThen
      BY <1>7, <1>9, <3>1
    <3> QED BY <2>1, <3>1, <3>2
  <2>7. "system-admin" \in DOMAIN e.roles => e.roles["system-admin"] \subseteq systems
    BY <1>7, <1>9, <2>5 DEF CodesAre
  <2> QED BY <2>2, <2>6, <2>7 DEF CodesAre
<1>16. ASSUME NEW u \in People(b) PROVE Between(e, u, Apart(b, u) \ SystemThen)
  <2>1. PICK meant : meant = Apart(b, u)
    OBVIOUS
  <2>2. u \in People(d) /\ Between(d, u, meant)
    BY <2>1 DEF AsItWas, Between
  <2>3. Between(d1, u, meant)
    BY <1>5, <2>2, SamePowers
  <2>4. Between(d2, u, meant)
    BY <1>2, <1>5, <2>3, SeededKeepsBetween
  <2>5. d2.holds[u] \subseteq DOMAIN d2.roles
    BY <1>5, <1>6, <2>2 DEF Shaped
  <2>6. \A r : r # "system-admin" => (r \in e.holds[u] <=> r \in d2.holds[u])
    BY <1>7, <1>9, <1>10, <2>2
  <2>7. \A r \in d2.holds[u] : r # "system-admin" => e.roles[r] = d2.roles[r] \ SystemThen
    BY <1>7, <1>9, <2>5
  <2>8. ASSUME NEW c PROVE c \in Apart(e, u) <=> c \in Apart(d2, u) /\ c \notin SystemThen
    BY <2>6, <2>7, ApartHas
  <2>9. ASSUME NEW c PROVE c \in ByTemplates(e, u) <=> c \in ByTemplates(d2, u)
    BY <2>6, ByTemplatesHas
  <2> QED BY <1>10, <2>1, <2>2, <2>4, <2>8, <2>9 DEF Between
<1> QED BY <1>9, <1>10, <1>11, <1>12, <1>13, <1>14, <1>15, <1>16 DEF AsSplit

\* The codes of this build.
LEMMA RecodedIs ==
    ASSUME NEW d, Shaped(d), NEW f, f = [r \in DOMAIN d.roles |-> f[r]],
           \A r \in DOMAIN d.roles : f[r] \subseteq PermissionCodes, NEW e, e = [d EXCEPT !.roles = f]
    PROVE  /\ e.roles = f /\ e.holds = d.holds /\ e.seated = d.seated /\ e.handed = d.handed
           /\ People(e) = People(d) /\ DOMAIN e.roles = DOMAIN d.roles /\ Shaped(e)
<1>1. d = [roles |-> d.roles, holds |-> d.holds, seated |-> d.seated, handed |-> d.handed]
  BY DEF Shaped
<1>2. e = [roles |-> f, holds |-> d.holds, seated |-> d.seated, handed |-> d.handed]
  BY <1>1
<1>3. e.roles = f /\ e.holds = d.holds /\ e.seated = d.seated /\ e.handed = d.handed /\ People(e) = People(d)
  BY <1>2 DEF People
<1>4. DOMAIN f = DOMAIN d.roles
  OBVIOUS
<1>5. Shaped(e)
  <2>1. e = [roles |-> e.roles, holds |-> e.holds, seated |-> e.seated, handed |-> e.handed]
    BY <1>2, <1>3
  <2>2. e.roles = [r \in DOMAIN e.roles |-> e.roles[r]]
    BY <1>3, <1>4
  <2> QED BY <1>3, <1>4, <2>1, <2>2 DEF Shaped
<1> QED BY <1>3, <1>4, <1>5

LEMMA RenamedIs ==
    ASSUME NEW d, Shaped(d), NEW old, NEW new, new \in PermissionCodes, NEW e, e = Renamed(d, old, new)
    PROVE  /\ e.holds = d.holds /\ e.seated = d.seated /\ e.handed = d.handed /\ People(e) = People(d)
           /\ DOMAIN e.roles = DOMAIN d.roles /\ Shaped(e)
           /\ \A r \in DOMAIN d.roles : \A c :
                  c \in e.roles[r] <=> (c \in d.roles[r] /\ c # old) \/ (c = new /\ old \in d.roles[r])
<1>1. PICK f : f = [r \in DOMAIN d.roles |-> IF old \in d.roles[r] THEN (d.roles[r] \ {old}) \cup {new} ELSE d.roles[r]]
  OBVIOUS
<1>2. e = [d EXCEPT !.roles = f] /\ f = [r \in DOMAIN d.roles |-> f[r]]
  BY <1>1 DEF Renamed
<1>0. \A r \in DOMAIN d.roles : f[r] \subseteq PermissionCodes
  BY <1>1 DEF Shaped
<1>3. /\ e.roles = f /\ e.holds = d.holds /\ e.seated = d.seated /\ e.handed = d.handed
      /\ People(e) = People(d) /\ DOMAIN e.roles = DOMAIN d.roles /\ Shaped(e)
  BY <1>0, <1>2, RecodedIs
<1>4. ASSUME NEW r \in DOMAIN d.roles, NEW c
      PROVE  c \in e.roles[r] <=> (c \in d.roles[r] /\ c # old) \/ (c = new /\ old \in d.roles[r])
  <2>1. e.roles[r] = IF old \in d.roles[r] THEN (d.roles[r] \ {old}) \cup {new} ELSE d.roles[r]
    BY <1>1, <1>3
  <2> QED BY <2>1
<1> QED BY <1>3, <1>4

LEMMA ViewsGivenIs ==
    ASSUME NEW d, Shaped(d), NEW e, e = ViewsGiven(d)
    PROVE  /\ e.holds = d.holds /\ e.seated = d.seated /\ e.handed = d.handed /\ People(e) = People(d)
           /\ DOMAIN e.roles = DOMAIN d.roles /\ Shaped(e)
           /\ \A r \in DOMAIN d.roles : \A c :
                  c \in e.roles[r] <=> \/ c \in d.roles[r]
                                       \/ c = "system-settings:view" /\ "system-settings:write" \in d.roles[r]
                                       \/ c = "system:view" /\ "system:manage" \in d.roles[r]
<1>1. PICK f : f = [r \in DOMAIN d.roles |-> d.roles[r] \cup {ViewOf[c] : c \in d.roles[r] \cap DOMAIN ViewOf}]
  OBVIOUS
<1>2. e = [d EXCEPT !.roles = f] /\ f = [r \in DOMAIN d.roles |-> f[r]]
  BY <1>1 DEF ViewsGiven
<1>3. /\ DOMAIN ViewOf = {"system-settings:write", "system:manage"}
      /\ ViewOf["system-settings:write"] = "system-settings:view" /\ ViewOf["system:manage"] = "system:view"
  BY DEF ViewOf
<1>4. \A r \in DOMAIN d.roles : f[r] \subseteq PermissionCodes
  <2> SUFFICES ASSUME NEW r \in DOMAIN d.roles, NEW c \in f[r] PROVE c \in PermissionCodes
    OBVIOUS
  <2>1. c \in d.roles[r] \/ c = "system-settings:view" \/ c = "system:view"
    BY <1>1, <1>3
  <2> QED BY <2>1 DEF Shaped, PermissionCodes, SystemPermissions
<1>5. /\ e.roles = f /\ e.holds = d.holds /\ e.seated = d.seated /\ e.handed = d.handed
      /\ People(e) = People(d) /\ DOMAIN e.roles = DOMAIN d.roles /\ Shaped(e)
  BY <1>2, <1>4, RecodedIs
<1>6. ASSUME NEW r \in DOMAIN d.roles, NEW c
      PROVE  c \in e.roles[r] <=> \/ c \in d.roles[r]
                                  \/ c = "system-settings:view" /\ "system-settings:write" \in d.roles[r]
                                  \/ c = "system:view" /\ "system:manage" \in d.roles[r]
  <2>1. e.roles[r] = d.roles[r] \cup {ViewOf[o] : o \in d.roles[r] \cap DOMAIN ViewOf}
    BY <1>1, <1>5
  <2>2. c \in e.roles[r] <=> c \in d.roles[r] \/ \E o \in d.roles[r] \cap DOMAIN ViewOf : c = ViewOf[o]
    BY <2>1
  <2> QED BY <1>3, <2>2
<1> QED BY <1>5, <1>6

LEMMA WithoutIs ==
    ASSUME NEW d, Shaped(d), NEW code, NEW e, e = Without(d, code)
    PROVE  /\ e.holds = d.holds /\ e.seated = d.seated /\ e.handed = d.handed /\ People(e) = People(d)
           /\ DOMAIN e.roles = DOMAIN d.roles /\ Shaped(e)
           /\ \A r \in DOMAIN d.roles : e.roles[r] = d.roles[r] \ {code}
<1>1. PICK f : f = [r \in DOMAIN d.roles |-> d.roles[r] \ {code}]
  OBVIOUS
<1>2. e = [d EXCEPT !.roles = f] /\ f = [r \in DOMAIN d.roles |-> f[r]]
  BY <1>1 DEF Without
<1>0. \A r \in DOMAIN d.roles : f[r] \subseteq PermissionCodes
  BY <1>1 DEF Shaped
<1>3. /\ e.roles = f /\ e.holds = d.holds /\ e.seated = d.seated /\ e.handed = d.handed
      /\ People(e) = People(d) /\ DOMAIN e.roles = DOMAIN d.roles /\ Shaped(e)
  BY <1>0, <1>2, RecodedIs
<1> QED BY <1>1, <1>3

\* Both renamings call every code what it is called now.
LEMMA RenamedTwice ==
    ASSUME NEW d, Shaped(d), NEW e,
           e = Renamed(Renamed(d, "admin:system-settings", "system-settings:write"), "item:manage", "item:write")
    PROVE  /\ e.holds = d.holds /\ e.seated = d.seated /\ e.handed = d.handed /\ People(e) = People(d)
           /\ DOMAIN e.roles = DOMAIN d.roles /\ Shaped(e)
           /\ \A r \in DOMAIN d.roles : \A c : c \in e.roles[r] <=> \E o \in d.roles[r] : c = CalledNow(o)
<1>1. PICK o1 : o1 = "admin:system-settings"
  OBVIOUS
<1>2. PICK n1 : n1 = "system-settings:write"
  OBVIOUS
<1>3. PICK o2 : o2 = "item:manage"
  OBVIOUS
<1>4. PICK n2 : n2 = "item:write"
  OBVIOUS
<1>5. PICK d1 : d1 = Renamed(d, o1, n1)
  OBVIOUS
<1>0. n1 \in PermissionCodes /\ n2 \in PermissionCodes
  BY <1>2, <1>4 DEF PermissionCodes, SystemPermissions, TenantPermissions
<1>6. e = Renamed(d1, o2, n2)
  BY <1>1, <1>2, <1>3, <1>4, <1>5
<1>7. /\ d1.holds = d.holds /\ d1.seated = d.seated /\ d1.handed = d.handed /\ People(d1) = People(d)
      /\ DOMAIN d1.roles = DOMAIN d.roles /\ Shaped(d1)
      /\ \A r \in DOMAIN d.roles : \A c :
             c \in d1.roles[r] <=> (c \in d.roles[r] /\ c # o1) \/ (c = n1 /\ o1 \in d.roles[r])
  BY <1>0, <1>5, RenamedIs
<1>8. /\ e.holds = d1.holds /\ e.seated = d1.seated /\ e.handed = d1.handed /\ People(e) = People(d1)
      /\ DOMAIN e.roles = DOMAIN d1.roles /\ Shaped(e)
      /\ \A r \in DOMAIN d1.roles : \A c :
             c \in e.roles[r] <=> (c \in d1.roles[r] /\ c # o2) \/ (c = n2 /\ o2 \in d1.roles[r])
  <2>1. Shaped(d1)
    BY <1>7
  <2> QED BY <1>0, <1>6, <2>1, RenamedIs
<1>9. ASSUME NEW r \in DOMAIN d.roles, NEW c
      PROVE  c \in e.roles[r] <=> \E o \in d.roles[r] : c = CalledNow(o)
  <2>1. c \in e.roles[r] <=> \/ c \in d.roles[r] /\ c # o1 /\ c # o2
                             \/ c = n1 /\ o1 \in d.roles[r]
                             \/ c = n2 /\ o2 \in d.roles[r]
    <3>1. c \in e.roles[r] <=> (c \in d1.roles[r] /\ c # o2) \/ (c = n2 /\ o2 \in d1.roles[r])
      BY <1>7, <1>8
    <3>2. c \in d1.roles[r] <=> (c \in d.roles[r] /\ c # o1) \/ (c = n1 /\ o1 \in d.roles[r])
      BY <1>7
    <3>3. o2 \in d1.roles[r] <=> o2 \in d.roles[r]
      BY <1>1, <1>2, <1>3, <1>7
    <3>4. n1 # o2
      BY <1>2, <1>3
    <3> QED BY <3>1, <3>2, <3>3, <3>4
  <2>2. CalledNow(o1) = n1 /\ CalledNow(o2) = n2 /\ \A o : o # o1 /\ o # o2 => CalledNow(o) = o
    BY <1>1, <1>2, <1>3, <1>4 DEF CalledNow
  <2> QED BY <2>1, <2>2
<1> QED BY <1>7, <1>8, <1>9

\* What codes are called now.
LEMMA CalledNowIs ==
    /\ \A o : CalledNow(o) = "permission:manage" <=> o = "permission:manage"
    /\ \A o \in TenantThen \cup TenantPermissions : CalledNow(o) \in TenantPermissions \cup {"permission:manage"}
    /\ \A o \in SystemThen \cup SystemPermissions \cup {"audit:view"} : CalledNow(o) \in RolePermissions["system-admin"]
    /\ \A o \in TenantPermissions : CalledNow(o) = o
<1>1. \A o : CalledNow(o) = "permission:manage" <=> o = "permission:manage"
  BY DEF CalledNow
<1>2. ASSUME NEW o \in TenantThen \cup TenantPermissions PROVE CalledNow(o) \in TenantPermissions \cup {"permission:manage"}
  BY DEF CalledNow, TenantThen, TenantPermissions
<1>3. ASSUME NEW o \in SystemThen \cup SystemPermissions \cup {"audit:view"} PROVE CalledNow(o) \in RolePermissions["system-admin"]
  <2>1. RolePermissions["system-admin"] = SystemPermissions \cup {"audit:view"}
    BY TemplatesAre
  <2> QED BY <2>1 DEF CalledNow, SystemThen, SystemPermissions
<1>4. \A o \in TenantPermissions : CalledNow(o) = o
  BY DEF CalledNow, TenantPermissions
<1> QED BY <1>1, <1>2, <1>3, <1>4

LEMMA ActorsMakeAsItIs ==
    ASSUME NEW b, NEW d, AsSplit(b, d), NEW e, e = ActorsAndRoles(d)
    PROVE  AsItIs(b, e, {}) /\ People(e) = People(d)
<1>1. PICK d1 : d1 = Renamed(Renamed(d, "admin:system-settings", "system-settings:write"), "item:manage", "item:write")
  OBVIOUS
<1>2. PICK d2 : d2 = Seeded(d1)
  OBVIOUS
<1>3. PICK d3 : d3 = ViewsGiven(d2)
  OBVIOUS
<1>4. PICK code : code = "permission:manage"
  OBVIOUS
<1>5. e = Without(d3, code)
  BY <1>1, <1>2, <1>3, <1>4 DEF ActorsAndRoles
<1>6. Shaped(d)
  BY DEF AsSplit
<1>7. /\ d1.holds = d.holds /\ d1.seated = d.seated /\ d1.handed = d.handed /\ People(d1) = People(d)
      /\ DOMAIN d1.roles = DOMAIN d.roles /\ Shaped(d1)
      /\ \A r \in DOMAIN d.roles : \A c : c \in d1.roles[r] <=> \E o \in d.roles[r] : c = CalledNow(o)
  BY <1>1, <1>6, RenamedTwice
<1>8. /\ d2.holds = d1.holds /\ d2.seated = d1.seated /\ d2.handed = d1.handed /\ People(d2) = People(d1)
      /\ Shaped(d2) /\ DOMAIN d1.roles \subseteq DOMAIN d2.roles
  <2>1. Shaped(d1)
    BY <1>7
  <2> QED BY <1>2, <2>1, SeededIs
<1>9. /\ d3.holds = d2.holds /\ d3.seated = d2.seated /\ d3.handed = d2.handed /\ People(d3) = People(d2)
      /\ DOMAIN d3.roles = DOMAIN d2.roles /\ Shaped(d3)
      /\ \A r \in DOMAIN d2.roles : \A c :
             c \in d3.roles[r] <=> \/ c \in d2.roles[r]
                                   \/ c = "system-settings:view" /\ "system-settings:write" \in d2.roles[r]
                                   \/ c = "system:view" /\ "system:manage" \in d2.roles[r]
  <2>1. Shaped(d2)
    BY <1>8
  <2> QED BY <1>3, <2>1, ViewsGivenIs
<1>10. /\ e.holds = d3.holds /\ e.seated = d3.seated /\ e.handed = d3.handed /\ People(e) = People(d3)
       /\ DOMAIN e.roles = DOMAIN d3.roles /\ Shaped(e)
       /\ \A r \in DOMAIN d3.roles : e.roles[r] = d3.roles[r] \ {code}
  <2>1. Shaped(d3)
    BY <1>9
  <2> QED BY <1>5, <2>1, WithoutIs
<1>11. /\ e.holds = d.holds /\ e.seated = d.seated /\ e.handed = d.handed /\ People(e) = People(d)
       /\ DOMAIN e.roles = DOMAIN d2.roles /\ DOMAIN d.roles \subseteq DOMAIN e.roles
  BY <1>7, <1>8, <1>9, <1>10
<1>12. PICK tenants : tenants = TenantPermissions \cup {"permission:manage"}
  OBVIOUS
<1>13. PICK systems : systems = RolePermissions["system-admin"]
  OBVIOUS
<1>14. CodesAre(d2, tenants, systems)
  <2>1. CodesAre(d1, tenants, systems)
    <3>1. ASSUME NEW r \in DOMAIN d1.roles \ SystemRoles PROVE d1.roles[r] \subseteq tenants
      <4>1. d.roles[r] \subseteq TenantThen \cup TenantPermissions /\ r \in DOMAIN d.roles
        BY <1>7 DEF AsSplit, CodesAre
      <4>2. ASSUME NEW c \in d1.roles[r] PROVE c \in tenants
        <5>1. PICK o \in d.roles[r] : c = CalledNow(o)
          BY <1>7, <4>1
        <5>2. o \in TenantThen \cup TenantPermissions
          BY <4>1
        <5> QED BY <1>12, <5>1, <5>2, CalledNowIs
      <4> QED BY <4>2
    <3>2. ASSUME "system-admin" \in DOMAIN d1.roles PROVE d1.roles["system-admin"] \subseteq systems
      <4>1. /\ d.roles["system-admin"] \subseteq SystemThen \cup SystemPermissions \cup {"audit:view"}
            /\ "system-admin" \in DOMAIN d.roles
        BY <1>7, <3>2 DEF AsSplit, CodesAre
      <4>2. ASSUME NEW c \in d1.roles["system-admin"] PROVE c \in systems
        <5>1. PICK o \in d.roles["system-admin"] : c = CalledNow(o)
          BY <1>7, <4>1
        <5>2. o \in SystemThen \cup SystemPermissions \cup {"audit:view"}
          BY <4>1
        <5> QED BY <1>13, <5>1, <5>2, CalledNowIs
      <4> QED BY <4>2
    <3> QED BY <3>1, <3>2 DEF CodesAre
  <2>2. TenantPermissions \subseteq tenants /\ RolePermissions["system-admin"] \subseteq systems
    BY <1>12, <1>13
  <2>3. Shaped(d1)
    BY <1>7
  <2> QED BY <1>2, <2>1, <2>2, <2>3, SeededKeepsCodes
<1>15. \A r \in DOMAIN d2.roles \ SystemRoles : d3.roles[r] = d2.roles[r]
  <2> SUFFICES ASSUME NEW r \in DOMAIN d2.roles \ SystemRoles, NEW c PROVE c \in d3.roles[r] <=> c \in d2.roles[r]
    <3>1. \A r \in DOMAIN d2.roles \ SystemRoles : d3.roles[r] \subseteq tenants \cup {"system-settings:view", "system:view"}
      <4> SUFFICES ASSUME NEW r \in DOMAIN d2.roles \ SystemRoles, NEW c \in d3.roles[r]
                   PROVE  c \in tenants \cup {"system-settings:view", "system:view"}
        OBVIOUS
      <4>1. d2.roles[r] \subseteq tenants
        BY <1>14 DEF CodesAre
      <4> QED BY <1>9, <4>1
    <3> QED OBVIOUS
  <2>1. "system-settings:write" \notin tenants /\ "system:manage" \notin tenants
    BY <1>12 DEF TenantPermissions
  <2>2. d2.roles[r] \subseteq tenants
    BY <1>14 DEF CodesAre
  <2> QED BY <1>9, <2>1, <2>2
<1>16. CodesAre(e, TenantPermissions, RolePermissions["system-admin"])
  <2>1. ASSUME NEW r \in DOMAIN e.roles \ SystemRoles PROVE e.roles[r] \subseteq TenantPermissions
    <3>1. d2.roles[r] \subseteq tenants /\ e.roles[r] = d2.roles[r] \ {code}
      BY <1>9, <1>10, <1>11, <1>14, <1>15 DEF CodesAre
    <3> QED BY <1>4, <1>12, <3>1
  <2>2. ASSUME "system-admin" \in DOMAIN e.roles PROVE e.roles["system-admin"] \subseteq RolePermissions["system-admin"]
    <3>1. d2.roles["system-admin"] \subseteq systems /\ e.roles["system-admin"] \subseteq d3.roles["system-admin"]
      BY <1>10, <1>11, <1>9, <1>14, <2>2 DEF CodesAre
    <3>2. "system-settings:view" \in systems /\ "system:view" \in systems
      BY <1>13, TemplatesAre DEF SystemPermissions
    <3> QED BY <1>9, <1>11, <1>13, <2>2, <3>1, <3>2
  <2> QED BY <2>1, <2>2 DEF CodesAre
<1>17. SystemKept(b, e, CalledThen(b.roles["system-admin"]))
  <2> SUFFICES ASSUME "system-admin" \in DOMAIN b.roles
               PROVE  "system-admin" \in DOMAIN e.roles /\ CalledThen(b.roles["system-admin"]) \subseteq e.roles["system-admin"]
    BY DEF SystemKept
  <2>1. "system-admin" \in DOMAIN d.roles /\ b.roles["system-admin"] \subseteq d.roles["system-admin"]
    BY DEF AsSplit, SystemKept
  <2>2. "system-admin" \in DOMAIN e.roles /\ "system-admin" \in DOMAIN d2.roles /\ "system-admin" \in DOMAIN d1.roles
    BY <1>7, <1>11, <2>1
  <2>3. d1.roles["system-admin"] \subseteq d2.roles["system-admin"]
    <3>1. Shaped(d1)
      BY <1>7
    <3>2. d2.roles["system-admin"] = d1.roles["system-admin"] \cup (IF "system-admin" \in Templates THEN RolePermissions["system-admin"] ELSE {})
      BY <1>2, <2>2, <3>1, SeededIs
    <3> QED BY <3>2
  <2>4. ASSUME NEW c \in CalledThen(b.roles["system-admin"]) PROVE c \in e.roles["system-admin"]
    <3>1. PICK o \in b.roles["system-admin"] : o # "permission:manage" /\ c = CalledNow(o)
      BY CalledThenHas
    <3>2. c \in d1.roles["system-admin"]
      BY <1>7, <2>1, <3>1
    <3>3. c \in d3.roles["system-admin"] /\ "system-admin" \in DOMAIN d3.roles
      BY <1>9, <2>2, <2>3, <3>2
    <3>4. c # code
      BY <1>4, <3>1, CalledNowIs
    <3> QED BY <1>10, <3>3, <3>4
  <2> QED BY <2>2, <2>4
<1>18. ASSUME NEW u \in People(b) PROVE Between(e, u, CalledThen(Apart(b, u) \ SystemThen))
  <2>1. PICK S : S = Apart(b, u) \ SystemThen
    OBVIOUS
  <2>2. u \in People(d) /\ S \subseteq Apart(d, u) /\ Apart(d, u) \subseteq S \cup ByTemplates(d, u)
    BY <2>1 DEF AsSplit, Between
  <2>3. PICK meant : meant = {CalledNow(o) : o \in S}
    OBVIOUS
  <2>4. \A c : c \in Apart(d1, u) <=> \E o \in Apart(d, u) : c = CalledNow(o)
    <3>1. d.holds[u] \subseteq DOMAIN d.roles
      BY <1>6, <2>2 DEF Shaped
    <3>2. ASSUME NEW c, c \in Apart(d1, u) PROVE \E o \in Apart(d, u) : c = CalledNow(o)
      <4>1. PICK r \in d.holds[u] : r # "system-admin" /\ c \in d1.roles[r]
        BY <1>7, <3>2, ApartHas
      <4>2. PICK o \in d.roles[r] : c = CalledNow(o)
        BY <1>7, <3>1, <4>1
      <4> QED BY <4>1, <4>2, ApartHas
    <3>3. ASSUME NEW c, NEW o \in Apart(d, u), c = CalledNow(o) PROVE c \in Apart(d1, u)
      <4>1. PICK r \in d.holds[u] : r # "system-admin" /\ o \in d.roles[r]
        BY ApartHas
      <4>2. c \in d1.roles[r] /\ r \in d1.holds[u]
        BY <1>7, <3>1, <3>3, <4>1
      <4> QED BY <4>1, <4>2, ApartHas
    <3> QED BY <3>2, <3>3
  <2>5. \A c \in ByTemplates(d, u) : c \in TenantPermissions /\ CalledNow(c) = c
    <3> SUFFICES ASSUME NEW c \in ByTemplates(d, u) PROVE c \in TenantPermissions
      BY CalledNowIs
    <3>1. PICK r \in d.holds[u] : r \in {"owner", "auditor"} /\ c \in RolePermissions[r]
      BY ByTemplatesHas
    <3> QED BY <3>1, TemplatesAre DEF TenantPermissions
  <2>6. Between(d1, u, meant)
    <3>1. ByTemplates(d1, u) = ByTemplates(d, u) /\ u \in People(d1)
      BY <1>7, <2>2 DEF ByTemplates
    <3>2. meant \subseteq Apart(d1, u)
      BY <2>2, <2>3, <2>4
    <3>3. ASSUME NEW c \in Apart(d1, u) PROVE c \in meant \cup ByTemplates(d, u)
      <4>1. PICK o \in Apart(d, u) : c = CalledNow(o)
        BY <2>4
      <4>2. CASE o \in S
        BY <2>3, <4>1, <4>2
      <4>3. CASE o \in ByTemplates(d, u)
        BY <2>5, <4>1, <4>3
      <4> QED BY <2>2, <4>2, <4>3
    <3> QED BY <3>1, <3>2, <3>3 DEF Between
  <2>7. Between(d2, u, meant)
    <3>1. Shaped(d1)
      BY <1>7
    <3> QED BY <1>2, <2>6, <3>1, SeededKeepsBetween
  <2>8. d2.holds[u] \subseteq DOMAIN d2.roles /\ "system-support" \notin d2.holds[u] /\ u \in People(d2) /\ e.holds[u] = d2.holds[u]
    BY <1>7, <1>8, <1>9, <1>10, <2>2 DEF Shaped
  <2>9. \A r \in d2.holds[u] : r # "system-admin" => e.roles[r] = d2.roles[r] \ {code}
    <3> SUFFICES ASSUME NEW r \in d2.holds[u], r # "system-admin" PROVE e.roles[r] = d2.roles[r] \ {code}
      OBVIOUS
    <3>1. r \in DOMAIN d2.roles \ SystemRoles
      BY <2>8 DEF SystemRoles
    <3> QED BY <1>9, <1>10, <1>15, <3>1
  <2>10. \A c : c \in Apart(e, u) <=> c \in Apart(d2, u) /\ c # code
    <3> SUFFICES ASSUME NEW c PROVE c \in Apart(e, u) <=> c \in Apart(d2, u) /\ c # code
      OBVIOUS
    <3> QED BY <2>8, <2>9, ApartHas
  <2>11. ByTemplates(e, u) = ByTemplates(d2, u) /\ ByTemplates(d2, u) = ByTemplates(d, u)
    BY <1>7, <1>8, <2>8 DEF ByTemplates
  <2>12. \A c : c \in CalledThen(S) <=> c \in meant /\ c # code
    <3> SUFFICES ASSUME NEW c PROVE c \in CalledThen(S) <=> c \in meant /\ c # code
      OBVIOUS
    <3>1. c \in CalledThen(S) <=> \E o \in S : o # code /\ c = CalledNow(o)
      BY <1>4, CalledThenHas
    <3>2. \A o : CalledNow(o) = code <=> o = code
      BY <1>4, CalledNowIs
    <3> QED BY <2>3, <3>1, <3>2
  <2>13. Between(e, u, CalledThen(S))
    <3>1. CalledThen(S) \subseteq Apart(e, u)
      BY <2>7, <2>10, <2>12 DEF Between
    <3>2. Apart(e, u) \subseteq CalledThen(S) \cup ByTemplates(e, u)
      BY <2>7, <2>10, <2>11, <2>12 DEF Between
    <3>3. u \in People(e)
      BY <1>11, <2>2
    <3> QED BY <3>1, <3>2, <3>3 DEF Between
  <2> QED BY <2>1, <2>13
<1>19. Handed(b, e)
  BY <1>11 DEF AsSplit, Handed, ReviewerKept
<1>20. SeatsApart(e, {}) /\ OnlyWhoWasOnly(b, e)
  BY <1>11 DEF AsSplit, SeatsApart, OnlyWhoWasOnly
<1> QED BY <1>10, <1>11, <1>16, <1>17, <1>18, <1>19, <1>20 DEF AsItIs

\* What each revision writes is what the database is meant to be when it is done.
LEMMA ChainDiffers == \A n, k \in 1..Newest : Chain[n] = Chain[k] => n = k
<1>1. \A n \in 1..9 : n = 1 \/ n = 2 \/ n = 3 \/ n = 4 \/ n = 5 \/ n = 6 \/ n = 7 \/ n = 8 \/ n = 9
  OBVIOUS
<1>2. ASSUME NEW n \in 1..9, NEW k \in 1..9, Chain[n] = Chain[k] PROVE n = k
  BY <1>1, <1>2, ChainIs
<1> QED BY <1>2, ChainIs

LEMMA WrittenIs ==
    ASSUME NEW d
    PROVE  /\ WrittenBy("seed_master_data", d) = AdminEnsured(Seeded(d))
           /\ WrittenBy("seed_audit_permission", d) = Seeded(d)
           /\ WrittenBy("groups_and_notifications", d) = Seeded(d)
           /\ WrittenBy("seed_role_templates", d) = Seeded(d)
           /\ WrittenBy("rename_admin_role_to_owner", d) = Seeded(OwnerNamed(d))
           /\ WrittenBy("tenants", d) = EverybodySeated(d)
           /\ WrittenBy("split_system_authority", d) = SplitSystemAuthority(d)
           /\ WrittenBy("notes", d) = Seeded(d)
           /\ WrittenBy("actors_and_roles", d) = ActorsAndRoles(d)
<1>1. WrittenBy("seed_master_data", d) = AdminEnsured(Seeded(d))
  BY DEF WrittenBy, SeedMasterData
<1>2. WrittenBy("rename_admin_role_to_owner", d) = Seeded(OwnerNamed(d))
  BY DEF WrittenBy, RenameAdminRoleToOwner
<1> QED BY <1>1, <1>2 DEF WrittenBy

LEMMA RevisionIsSound ==
    ASSUME NEW b, NEW v \in 0..8, v = 0 => People(b) = {}, NEW d, Sound(b, d, v, {}),
           NEW n, n = v + 1, NEW e, e = WrittenBy(Chain[n], d)
    PROVE  Sound(b, e, n, {}) /\ (v # 0 => People(e) = People(d))
<1>1. CASE v = 0
  <2>1. PICK f : f = Seeded(d)
    OBVIOUS
  <2>2. AsItWas(b, d)
    BY <1>1 DEF Sound
  <2>3. AsItWas(b, f)
    BY <2>1, <2>2, SeededKeepsAsItWas
  <2>4. "owner" \in DOMAIN f.roles
    <3>1. Shaped(d)
      BY <2>2 DEF AsItWas
    <3>2. DOMAIN f.roles = DOMAIN d.roles \cup Templates
      BY <2>1, <3>1, SeededIs
    <3> QED BY <3>2 DEF Templates
  <2>5. e = AdminEnsured(f)
    BY <1>1, <2>1, ChainIs, WrittenIs
  <2>6. AsItWas(b, e)
    BY <1>1, <2>3, <2>4, <2>5, AdminKeepsAsItWas
  <2> QED BY <1>1, <2>6 DEF Sound
<1>2. CASE v \in {1, 2, 3}
  <2>1. e = Seeded(d)
    BY <1>2, ChainIs, WrittenIs
  <2>2. AsItWas(b, d)
    BY <1>2 DEF Sound
  <2>3. AsItWas(b, e) /\ People(e) = People(d)
    <3>1. Shaped(d)
      BY <2>2 DEF AsItWas
    <3> QED BY <2>1, <2>2, <3>1, SeededIs, SeededKeepsAsItWas
  <2> QED BY <1>2, <2>3 DEF Sound
<1>3. CASE v = 4
  <2>1. PICK f : f = OwnerNamed(d)
    OBVIOUS
  <2>2. AsItWas(b, d)
    BY <1>3 DEF Sound
  <2>3. AsItWas(b, f) /\ People(f) = People(d)
    BY <2>1, <2>2, OwnerNamedKeepsAsItWas
  <2>4. e = Seeded(f)
    BY <1>3, <2>1, ChainIs, WrittenIs
  <2>5. AsItWas(b, e) /\ People(e) = People(f)
    <3>1. Shaped(f)
      BY <2>3 DEF AsItWas
    <3> QED BY <2>3, <2>4, <3>1, SeededIs, SeededKeepsAsItWas
  <2> QED BY <1>3, <2>3, <2>5 DEF Sound
<1>4. CASE v = 5
  <2>1. e = EverybodySeated(d)
    BY <1>4, ChainIs, WrittenIs
  <2>2. AsItWas(b, d)
    BY <1>4 DEF Sound
  <2>3. AsItWas(b, e) /\ e.seated = People(e) /\ People(e) = People(d)
    BY <2>1, <2>2, EverybodySeatedKeepsAsItWas
  <2> QED BY <1>4, <2>3 DEF Sound
<1>5. CASE v = 6
  <2>1. e = SplitSystemAuthority(d)
    BY <1>5, ChainIs, WrittenIs
  <2>2. AsItWas(b, d) /\ d.seated = People(d)
    BY <1>5 DEF Sound
  <2>3. AsSplit(b, e) /\ People(e) = People(d)
    BY <2>1, <2>2, SplitMakesAsSplit
  <2> QED BY <1>5, <2>3 DEF Sound
<1>6. CASE v = 7
  <2>1. e = Seeded(d)
    BY <1>6, ChainIs, WrittenIs
  <2>2. AsSplit(b, d)
    BY <1>6 DEF Sound
  <2>3. AsSplit(b, e) /\ People(e) = People(d)
    <3>1. Shaped(d)
      BY <2>2 DEF AsSplit
    <3> QED BY <2>1, <2>2, <3>1, SeededIs, SeededKeepsAsSplit
  <2> QED BY <1>6, <2>3 DEF Sound
<1>7. CASE v = 8
  <2>1. e = ActorsAndRoles(d)
    BY <1>7, ChainIs, WrittenIs
  <2>2. AsSplit(b, d)
    BY <1>7 DEF Sound
  <2>3. AsItIs(b, e, {}) /\ People(e) = People(d)
    BY <2>1, <2>2, ActorsMakeAsItIs
  <2> QED BY <1>7, <2>3 DEF Sound
<1> QED BY <1>1, <1>2, <1>3, <1>4, <1>5, <1>6, <1>7

\* What is sound is a database, so it is not the absence of a run.
LEMMA SoundIsDatabase ==
    ASSUME NEW b, NEW d, NEW v \in 0..9, NEW except, Sound(b, d, v, except)
    PROVE  Shaped(d) /\ d.handed \subseteq DOMAIN d.roles /\ d # NoRun
<1>1. AsItWas(b, d) \/ AsSplit(b, d) \/ AsItIs(b, d, except)
  BY DEF Sound
<1>2. Shaped(d) /\ d.handed \subseteq DOMAIN d.roles
  BY <1>1 DEF AsItWas, AsSplit, AsItIs, Handed
<1>3. d \in Databases
  <2>1. d.roles \in UNION {[R -> SUBSET PermissionCodes] : R \in SUBSET RoleNames}
    <3>1. d.roles \in [DOMAIN d.roles -> SUBSET PermissionCodes] /\ DOMAIN d.roles \in SUBSET RoleNames
      BY <1>2 DEF Shaped
    <3> QED BY <3>1
  <2>2. d.holds \in UNION {[P -> SUBSET RoleNames] : P \in SUBSET Users}
    <3>1. d.holds \in [People(d) -> SUBSET RoleNames] /\ People(d) \in SUBSET Users
      BY <1>2 DEF Shaped
    <3> QED BY <3>1
  <2>3. d.seated \in SUBSET Users /\ d.handed \in SUBSET RoleNames
    BY <1>2 DEF Shaped
  <2>4. d = [roles |-> d.roles, holds |-> d.holds, seated |-> d.seated, handed |-> d.handed]
    BY <1>2 DEF Shaped
  <2> QED BY <2>1, <2>2, <2>3, <2>4 DEF Databases
<1> QED BY <1>2, <1>3, UpgradesAssumption

\* The script that brings the default administrator back.
LEMMA RecoveredIs ==
    ASSUME NEW b, NEW d, NEW except, except \subseteq {DefaultAdmin}, AsItIs(b, d, except),
           NEW e, e = DefaultAdminSeated(AdminEnsured(Seeded(d)))
    PROVE  AsItIs(b, e, {DefaultAdmin})
<1>1. PICK d1 : d1 = Seeded(d)
  OBVIOUS
<1>2. PICK d2 : d2 = AdminEnsured(d1)
  OBVIOUS
<1>3. PICK seats : seats = d2.seated \cup {DefaultAdmin}
  OBVIOUS
<1>4. e = [d2 EXCEPT !.seated = seats]
  BY <1>1, <1>2, <1>3 DEF DefaultAdminSeated
<1>5. AsItIs(b, d1, except) /\ Shaped(d1) /\ "owner" \in DOMAIN d1.roles
  <2>1. AsItIs(b, d1, except)
    BY <1>1, SeededKeepsAsItIs
  <2>2. Shaped(d)
    BY DEF AsItIs
  <2>3. DOMAIN d1.roles = DOMAIN d.roles \cup Templates
    BY <1>1, <2>2, SeededIs
  <2> QED BY <2>1, <2>3 DEF AsItIs, Templates
<1>6. /\ d2.roles = d1.roles /\ d2.seated = d1.seated /\ d2.handed = d1.handed /\ Shaped(d2)
      /\ People(d2) = People(d1) \cup {DefaultAdmin} /\ \A u \in People(d1) : d2.holds[u] = d1.holds[u]
  BY <1>2, <1>5, AdminEnsuredIs
<1>7. /\ e.roles = d2.roles /\ e.holds = d2.holds /\ e.seated = seats /\ e.handed = d2.handed
      /\ People(e) = People(d2) /\ Shaped(e)
  <2>1. seats \subseteq People(d2)
    BY <1>3, <1>6 DEF Shaped
  <2>2. Shaped(d2)
    BY <1>6
  <2> QED BY <1>4, <2>1, <2>2, SeatedIs
<1>8. Handed(b, e) /\ CodesAre(e, TenantPermissions, RolePermissions["system-admin"])
  BY <1>5, <1>6, <1>7 DEF AsItIs, Handed, ReviewerKept, CodesAre
<1>9. SystemKept(b, e, CalledThen(b.roles["system-admin"]))
  BY <1>5, <1>6, <1>7 DEF AsItIs, SystemKept
<1>10. SeatsApart(e, {DefaultAdmin})
  <2> SUFFICES ASSUME NEW u \in People(e)
               PROVE  IF u \in e.seated THEN u \in {DefaultAdmin} \/ "system-admin" \notin e.holds[u] ELSE e.holds[u] = {"system-admin"}
    BY DEF SeatsApart
  <2>1. CASE u = DefaultAdmin
    BY <1>3, <1>7, <2>1
  <2>2. CASE u # DefaultAdmin
    <3>1. u \in People(d1) /\ e.holds[u] = d1.holds[u] /\ (u \in e.seated <=> u \in d1.seated)
      BY <1>3, <1>6, <1>7, <2>2
    <3>2. IF u \in d1.seated THEN u \in except \/ "system-admin" \notin d1.holds[u] ELSE d1.holds[u] = {"system-admin"}
      BY <1>5, <3>1 DEF AsItIs, SeatsApart
    <3> QED BY <2>2, <3>1, <3>2
  <2> QED BY <2>1, <2>2
<1>11. \A u \in People(b) : u \in People(d1) /\ u \in People(e) /\ e.holds[u] = d1.holds[u]
  BY <1>5, <1>6, <1>7 DEF AsItIs, OnlyWhoWasOnly
<1>12. OnlyWhoWasOnly(b, e)
  BY <1>5, <1>11 DEF AsItIs, OnlyWhoWasOnly
<1>13. ASSUME NEW u \in People(b) PROVE Between(e, u, CalledThen(Apart(b, u) \ SystemThen))
  <2>1. PICK meant : meant = CalledThen(Apart(b, u) \ SystemThen)
    OBVIOUS
  <2>2. Between(d1, u, meant)
    BY <1>5, <2>1 DEF AsItIs
  <2>3. e.roles = d1.roles /\ u \in People(e) /\ e.holds[u] = d1.holds[u]
    BY <1>6, <1>7, <1>11
  <2>4. Between(e, u, meant)
    BY <2>2, <2>3, SamePowers
  <2> QED BY <2>1, <2>4
<1> QED BY <1>7, <1>8, <1>9, <1>10, <1>12, <1>13 DEF AsItIs

\* Only the first revision makes somebody.
LEMMA RevisionKeepsPeople ==
    ASSUME NEW b, NEW v \in 1..8, NEW d, Sound(b, d, v, {}), NEW n, n = v + 1, NEW e, e = WrittenBy(Chain[n], d)
    PROVE  People(e) = People(d)
<1>1. v \in 0..8 /\ v # 0
  OBVIOUS
<1>2. Sound(b, e, n, {}) /\ (v # 0 => People(e) = People(d))
  BY <1>1, RevisionIsSound
<1> QED BY <1>1, <1>2

\* What older builds have left behind.
LEMMA LeftBehindIs ==
    ASSUME NEW v \in 0..9, NEW roles \in RolesThen(v), v # 0
    PROVE  \E all \in {TenantThen, TenantThen \cup SystemThen} :
               /\ v >= 7 => all = TenantThen
               /\ DOMAIN roles \subseteq {"owner", "admin", "system-admin", "auditor", "reviewer"}
               /\ roles = [r \in DOMAIN roles |-> roles[r]]
               /\ \A r \in DOMAIN roles \ {"system-admin"} : roles[r] \subseteq all
               /\ "system-admin" \in DOMAIN roles => roles["system-admin"] = SystemThen \cup {"audit:view"}
<1>1. PICK all : all = IF v >= 7 THEN TenantThen ELSE TenantThen \cup SystemThen
  OBVIOUS
<1>2. PICK whole : whole = IF v >= 5 THEN "owner" ELSE "admin"
  OBVIOUS
<1>3. PICK grown : grown = IF v >= 4 THEN {"system-admin", "auditor"} ELSE {}
  OBVIOUS
<1>4. PICK first : first = [r \in {whole} \cup grown |-> CASE r = whole -> all
                                                          [] r = "system-admin" -> SystemThen \cup {"audit:view"}
                                                          [] r = "auditor" -> {"audit:view"} \cup (all \cap {"log:view"})]
  OBVIOUS
<1>5. \/ roles = first
      \/ \E own \in SUBSET all : roles = [r \in {whole, "reviewer"} \cup grown |->
             IF r = "reviewer" THEN own
             ELSE CASE r = whole -> all
                    [] r = "system-admin" -> SystemThen \cup {"audit:view"}
                    [] r = "auditor" -> {"audit:view"} \cup (all \cap {"log:view"})]
  <2>1. /\ v >= Since("split_system_authority") <=> v >= 7
        /\ v >= Since("rename_admin_role_to_owner") <=> v >= 5
        /\ v >= Since("seed_role_templates") <=> v >= 4
    BY SinceIs
  <2> QED BY <1>1, <1>2, <1>3, <1>4, <2>1 DEF RolesThen
<1>6. whole \in {"owner", "admin"} /\ grown \subseteq {"system-admin", "auditor"}
  BY <1>2, <1>3
<1>7. "audit:view" \in all
  BY <1>1 DEF TenantThen
<1>8. PICK own \in SUBSET all : roles = first \/ roles = [r \in {whole, "reviewer"} \cup grown |->
             IF r = "reviewer" THEN own
             ELSE CASE r = whole -> all
                    [] r = "system-admin" -> SystemThen \cup {"audit:view"}
                    [] r = "auditor" -> {"audit:view"} \cup (all \cap {"log:view"})]
  BY <1>5
<1>9. /\ DOMAIN roles \subseteq {whole, "reviewer"} \cup grown /\ roles = [r \in DOMAIN roles |-> roles[r]]
      /\ \A r \in DOMAIN roles : r = "reviewer" => roles[r] = own
      /\ \A r \in DOMAIN roles : r = whole => roles[r] = all
      /\ \A r \in DOMAIN roles : r = "system-admin" => roles[r] = SystemThen \cup {"audit:view"}
      /\ \A r \in DOMAIN roles : r = "auditor" => roles[r] = {"audit:view"} \cup (all \cap {"log:view"})
  <2>1. CASE roles = first
    BY <1>4, <1>6, <2>1
  <2>2. CASE roles # first
    BY <1>6, <1>8, <2>2
  <2> QED BY <2>1, <2>2
<1>10. ASSUME NEW r \in DOMAIN roles \ {"system-admin"} PROVE roles[r] \subseteq all
  <2>1. r = "reviewer" \/ r = whole \/ r = "auditor"
    BY <1>6, <1>9
  <2> QED BY <1>7, <1>9, <2>1
<1>11. DOMAIN roles \subseteq {"owner", "admin", "system-admin", "auditor", "reviewer"}
  BY <1>6, <1>9
<1>12. all \in {TenantThen, TenantThen \cup SystemThen} /\ (v >= 7 => all = TenantThen)
  BY <1>1
<1> QED BY <1>9, <1>10, <1>11, <1>12

LEMMA NothingBefore ==
    ASSUME NEW roles \in RolesThen(0)
    PROVE  roles = [r \in {} |-> {}]
BY DEF RolesThen

\* What somebody can do at the start is what they could do.
LEMMA StartIsSound ==
    ASSUME NEW v \in {0, 1, 4, 5, 8}, NEW roles \in RolesThen(v), NEW people \in SUBSET Users,
           v = 0 => people = {}, NEW holds \in [people -> SUBSET DOMAIN roles], NEW d,
           d = [roles |-> roles, holds |-> holds,
                seated |-> IF v < 6 THEN {} ELSE {u \in people : "system-admin" \notin holds[u]},
                handed |-> IF v < 6 THEN {} ELSE DOMAIN roles \cap {"reviewer"}],
           v >= 6 => \A u \in People(d) : "system-admin" \in d.holds[u] => d.holds[u] = {"system-admin"}
    PROVE  Sound(d, d, v, {})
<1>1. d.roles = roles /\ d.holds = holds /\ People(d) = people
  BY DEF People
<1>2. \E all \in {TenantThen, TenantThen \cup SystemThen} :
         /\ v >= 7 => all = TenantThen
         /\ DOMAIN roles \subseteq {"owner", "admin", "system-admin", "auditor", "reviewer"}
         /\ roles = [r \in DOMAIN roles |-> roles[r]]
         /\ \A r \in DOMAIN roles \ {"system-admin"} : roles[r] \subseteq all
         /\ "system-admin" \in DOMAIN roles => roles["system-admin"] = SystemThen \cup {"audit:view"}
  <2>1. CASE v = 0
    <3>1. DOMAIN roles = {} /\ roles = [r \in DOMAIN roles |-> roles[r]]
      BY <2>1, NothingBefore
    <3> QED BY <2>1, <3>1
  <2>2. CASE v # 0
    BY <2>2, LeftBehindIs
  <2> QED BY <2>1, <2>2
<1>3. PICK all \in {TenantThen, TenantThen \cup SystemThen} :
         /\ v >= 7 => all = TenantThen
         /\ DOMAIN roles \subseteq {"owner", "admin", "system-admin", "auditor", "reviewer"}
         /\ roles = [r \in DOMAIN roles |-> roles[r]]
         /\ \A r \in DOMAIN roles \ {"system-admin"} : roles[r] \subseteq all
         /\ "system-admin" \in DOMAIN roles => roles["system-admin"] = SystemThen \cup {"audit:view"}
  BY <1>2
<1>4. \A r \in DOMAIN roles : roles[r] \subseteq PermissionCodes
  <2>1. TenantThen \subseteq PermissionCodes /\ SystemThen \subseteq PermissionCodes /\ "audit:view" \in PermissionCodes
    BY DEF PermissionCodes, TenantThen
  <2> SUFFICES ASSUME NEW r \in DOMAIN roles PROVE roles[r] \subseteq PermissionCodes
    OBVIOUS
  <2>2. CASE r = "system-admin"
    BY <1>3, <2>1, <2>2
  <2>3. CASE r # "system-admin"
    BY <1>3, <2>1, <2>3
  <2> QED BY <2>2, <2>3
<1>5. \A u \in people : holds[u] \subseteq DOMAIN roles
  OBVIOUS
<1>6. Shaped(d)
  <2>1. d = [roles |-> d.roles, holds |-> d.holds, seated |-> d.seated, handed |-> d.handed]
    OBVIOUS
  <2>2. d.holds = [u \in People(d) |-> d.holds[u]]
    BY <1>1
  <2>3. d.seated \subseteq People(d)
    BY <1>1
  <2>4. DOMAIN d.roles \subseteq RoleNames
    BY <1>1, <1>3 DEF RoleNames, Templates, SystemRoles
  <2>5. \A u \in People(d) : d.holds[u] \subseteq DOMAIN d.roles \cap {"owner", "admin", "auditor", "reviewer", "system-admin"}
    BY <1>1, <1>3, <1>5
  <2>6. d.roles = [r \in DOMAIN d.roles |-> d.roles[r]]
    BY <1>1, <1>3
  <2>7. \A r \in DOMAIN d.roles : d.roles[r] \subseteq PermissionCodes
    BY <1>1, <1>4
  <2>8. People(d) \subseteq Users
    BY <1>1
  <2> QED BY <2>1, <2>2, <2>3, <2>4, <2>5, <2>6, <2>7, <2>8 DEF Shaped
<1>7. ReviewerKept(d, d) /\ SystemKept(d, d, d.roles["system-admin"])
  BY DEF ReviewerKept, SystemKept
<1>8. CodesAre(d, all, SystemThen \cup SystemPermissions \cup {"audit:view"})
  BY <1>1, <1>3 DEF CodesAre, SystemRoles
<1>9. CASE v # 8
  <2>1. d.handed = {} /\ v < 6
    BY <1>9
  <2>2. CodesAre(d, TenantThen \cup SystemThen \cup TenantPermissions, SystemThen \cup SystemPermissions \cup {"audit:view"})
    BY <1>3, <1>8 DEF CodesAre
  <2>3. \A u \in People(d) : Between(d, u, Apart(d, u))
    BY DEF Between
  <2>4. AsItWas(d, d)
    BY <1>6, <1>7, <2>1, <2>2, <2>3 DEF AsItWas
  <2> QED BY <2>1, <2>4 DEF Sound
<1>10. CASE v = 8
  <2>1. all = TenantThen
    BY <1>3, <1>10
  <2>2. d.handed = DOMAIN roles \cap {"reviewer"} /\ d.seated = {u \in people : "system-admin" \notin holds[u]}
    BY <1>10
  <2>3. \A u \in People(d) : "system-admin" \in d.holds[u] => d.holds[u] = {"system-admin"}
    BY <1>10
  <2>4. Handed(d, d)
    BY <1>1, <1>7, <2>2 DEF Handed
  <2>5. SeatsApart(d, {}) /\ OnlyWhoWasOnly(d, d)
    <3>1. \A u \in People(d) : u \in d.seated <=> "system-admin" \notin d.holds[u]
      BY <1>1, <2>2
    <3> QED BY <2>3, <3>1 DEF SeatsApart, OnlyWhoWasOnly
  <2>6. CodesAre(d, TenantThen \cup TenantPermissions, SystemThen \cup SystemPermissions \cup {"audit:view"})
    BY <1>8, <2>1 DEF CodesAre
  <2>7. ASSUME NEW u \in People(d) PROVE Between(d, u, Apart(d, u) \ SystemThen)
    <3>1. TenantThen \cap SystemThen = {}
      BY DEF TenantThen, SystemThen
    <3>2. ASSUME NEW c \in Apart(d, u) PROVE c \notin SystemThen
      <4>1. PICK r \in d.holds[u] : r # "system-admin" /\ c \in d.roles[r]
        BY ApartHas
      <4>2. c \in TenantThen
        BY <1>1, <1>3, <1>5, <2>1, <4>1
      <4> QED BY <3>1, <4>2
    <3> QED BY <3>2 DEF Between
  <2>8. AsSplit(d, d)
    BY <1>6, <1>7, <2>4, <2>5, <2>6, <2>7 DEF AsSplit
  <2> QED BY <1>10, <2>8 DEF Sound
<1> QED BY <1>9, <1>10

LEMMA UpgradesStart == ASSUME UpgradesInit PROVE UpgradesInv
<1> USE DEF UpgradesInit
<1>1. version \in {0, 1, 4, 5, 8} /\ (version < Since("tenants") <=> version < 6)
  BY SinceIs DEF Stages
<1>2. PICK roles \in RolesThen(version) : \E people \in IF version = 0 THEN {{}} ELSE SUBSET Users :
          \E holds \in [people -> SUBSET DOMAIN roles] :
              db = [roles |-> roles, holds |-> holds,
                    seated |-> IF version < Since("tenants") THEN {} ELSE {u \in people : "system-admin" \notin holds[u]},
                    handed |-> IF version < Since("tenants") THEN {} ELSE DOMAIN roles \cap {"reviewer"}]
  OBVIOUS
<1>3. PICK people \in IF version = 0 THEN {{}} ELSE SUBSET Users :
          \E holds \in [people -> SUBSET DOMAIN roles] :
              db = [roles |-> roles, holds |-> holds,
                    seated |-> IF version < Since("tenants") THEN {} ELSE {u \in people : "system-admin" \notin holds[u]},
                    handed |-> IF version < Since("tenants") THEN {} ELSE DOMAIN roles \cap {"reviewer"}]
  BY <1>2
<1>4. PICK holds \in [people -> SUBSET DOMAIN roles] :
              db = [roles |-> roles, holds |-> holds,
                    seated |-> IF version < Since("tenants") THEN {} ELSE {u \in people : "system-admin" \notin holds[u]},
                    handed |-> IF version < Since("tenants") THEN {} ELSE DOMAIN roles \cap {"reviewer"}]
  BY <1>3
<1>5. people \in SUBSET Users /\ (version = 0 => people = {})
  BY <1>3
<1>6. version >= 6 => \A u \in People(db) : "system-admin" \in db.holds[u] => db.holds[u] = {"system-admin"}
  BY SinceIs
<1>7. Sound(db, db, version, {})
  <2>1. PICK v : v = version
    OBVIOUS
  <2>2. PICK d : d = db
    OBVIOUS
  <2>3. d = [roles |-> roles, holds |-> holds,
             seated |-> IF v < 6 THEN {} ELSE {u \in people : "system-admin" \notin holds[u]},
             handed |-> IF v < 6 THEN {} ELSE DOMAIN roles \cap {"reviewer"}]
    BY <1>1, <1>4, <2>1, <2>2
  <2>4. /\ v \in {0, 1, 4, 5, 8} /\ roles \in RolesThen(v) /\ (v = 0 => people = {})
        /\ v >= 6 => \A u \in People(d) : "system-admin" \in d.holds[u] => d.holds[u] = {"system-admin"}
    BY <1>1, <1>5, <1>6, <2>1, <2>2
  <2> QED BY <1>4, <1>5, <2>1, <2>2, <2>3, <2>4, StartIsSound
<1>8. People(db) = people
  BY <1>4 DEF People
<1>9. TablesAreMade
  <2>1. ASSUME NEW n \in 1..Newest, n > version PROVE Chain[n] \notin made
    <3>1. \A k \in 1..version : k \in 1..Newest /\ k # n
      BY <1>1, <2>1, ChainIs
    <3> QED BY <3>1, ChainDiffers
  <2>2. \A n \in 1..Newest : n > version + 1 => Chain[n] \notin made
    BY <1>1, <2>1, ChainIs
  <2>3. version < Newest => Revision \notin made
    BY <1>1, <2>1, ChainIs DEF Revision
  <2> QED BY <2>2, <2>3 DEF TablesAreMade
<1>10. /\ version \in 0..Newest /\ before.version \in 0..version /\ crashes \in Nat
       /\ stuck \in BOOLEAN /\ served \in BOOLEAN /\ recovered \in BOOLEAN
  <2>1. version \in 0..Newest
    BY <1>1, ChainIs
  <2>2. before.version = version /\ version \in 0..version
    BY <1>1
  <2>3. crashes \in Nat
    OBVIOUS
  <2>4. stuck = FALSE /\ served = FALSE /\ recovered = FALSE
    OBVIOUS
  <2> HIDE DEF UpgradesInit
  <2> QED BY <2>1, <2>2, <2>3, <2>4
<1>11. ~served /\ ~recovered /\ ~stuck /\ run = NoRun /\ Returned = {} /\ before.db = db /\ before.version = version
  BY DEF Returned
<1>12. RemovedStaysRemoved
  BY <1>11 DEF RemovedStaysRemoved
<1>13. \A u \in People(before.db) : before.db.holds[u] \subseteq DOMAIN before.db.roles
  <2>1. before.db = db
    OBVIOUS
  <2>2. db.holds = holds /\ db.roles = roles
    BY <1>4
  <2> HIDE DEF UpgradesInit
  <2>3. \A u \in people : holds[u] \subseteq DOMAIN roles
    BY <1>4
  <2> QED BY <1>8, <2>1, <2>2, <2>3
<1> HIDE DEF UpgradesInit
<1> QED BY <1>5, <1>13, <1>7, <1>8, <1>9, <1>10, <1>11, <1>12 DEF UpgradesInv

LEMMA UpgradesStep == ASSUME UpgradesInv, [UpgradesNext]_upgradeVars PROVE UpgradesInv'
<1>1. /\ version \in 0..9 /\ before.version \in 0..version /\ crashes \in Nat /\ Newest = 9
      /\ \A n \in 1..Newest : n > version + 1 => Chain[n] \notin made
  BY ChainIs DEF UpgradesInv, TablesAreMade
<1>2. /\ version < Newest /\ Revision \in made => run # NoRun \/ crashes > 0
      /\ stuck \in BOOLEAN /\ served \in BOOLEAN /\ recovered \in BOOLEAN
      /\ (stuck => crashes > 0 /\ ~served) /\ (served => version = Newest /\ run = NoRun)
      /\ (recovered => version = Newest) /\ (run # NoRun => version < Newest /\ run = WrittenBy(Revision, db))
  BY DEF UpgradesInv, TablesAreMade
<1>3. /\ Sound(before.db, db, version, Returned) /\ (before.version = 0 => People(before.db) = {}) /\ RemovedStaysRemoved
      /\ \A u \in People(before.db) : before.db.holds[u] \subseteq DOMAIN before.db.roles
  BY DEF UpgradesInv
<1>4. version + 1 \in 1..9 \/ version = 9
  BY <1>1
<1>5. ASSUME run # NoRun
      PROVE  /\ version \in 0..8 /\ Sound(before.db, run, version + 1, {}) /\ ~recovered /\ ~served
             /\ version # 0 => People(run) = People(db)
             /\ version = 5 => run = WrittenBy(Revision, run) /\ AsItWas(before.db, run)
  <2>1. version \in 0..8
    BY <1>1, <1>2, <1>5
  <2>2. version # Newest
    BY <1>1, <2>1
  <2>3. ~recovered /\ ~served /\ run = WrittenBy(Revision, db)
    BY <1>2, <1>5, <2>2
  <2>4. PICK b : b = before.db
    OBVIOUS
  <2>5. PICK d : d = db
    OBVIOUS
  <2>6. PICK v \in 0..8 : v = version
    BY <2>1
  <2>7. PICK n : n = v + 1
    OBVIOUS
  <2>8. PICK e : e = run
    OBVIOUS
  <2>9. v = 0 => People(b) = {}
    BY <1>1, <1>3, <2>4, <2>6
  <2>10. Returned = {}
    BY <2>3 DEF Returned
  <2>11. Sound(b, d, v, {})
    BY <1>3, <2>4, <2>5, <2>6, <2>10
  <2>12. e = WrittenBy(Chain[n], d)
    BY <2>3, <2>5, <2>6, <2>7, <2>8 DEF Revision
  <2>13. Sound(b, e, n, {}) /\ (v # 0 => People(e) = People(d))
    <3>1. Sound(b, e, n, {})
      BY <2>7, <2>9, <2>11, <2>12, RevisionIsSound
    <3>2. ASSUME v # 0 PROVE People(e) = People(d)
      <4>1. v \in 1..8
        BY <3>2
      <4> QED BY <2>7, <2>11, <2>12, <4>1, RevisionKeepsPeople
    <3> QED BY <3>1, <3>2
  <2>14. ASSUME v = 5 PROVE e = WrittenBy(Chain[n], e) /\ AsItWas(b, e)
    <3>1. n = 6 /\ e = EverybodySeated(d)
      BY <2>7, <2>12, <2>14, ChainIs, WrittenIs
    <3>2. AsItWas(b, d)
      BY <2>11, <2>14 DEF Sound
    <3>3. AsItWas(b, e) /\ EverybodySeated(e) = e
      BY <3>1, <3>2, EverybodySeatedKeepsAsItWas
    <3> QED BY <3>1, <3>3, ChainIs, WrittenIs
  <2> QED BY <2>1, <2>3, <2>4, <2>5, <2>6, <2>7, <2>8, <2>13, <2>14 DEF Revision
<1>6. CASE BeginRevision
  <2> USE DEF BeginRevision
  <2>1. /\ ~served /\ ~stuck /\ run = NoRun /\ version < Newest /\ version' = version /\ db' = db /\ served' = served
        /\ crashes' = crashes /\ before' = before /\ recovered' = recovered
        /\ made' = made \cup ({Revision} \cap MakeTables)
    BY <1>6
  <2>2. stuck' = (Revision \in made) /\ run' = IF Revision \in made THEN NoRun ELSE WrittenBy(Revision, db)
    BY <1>6
  <2> HIDE DEF BeginRevision
  <2>3. Returned' = Returned /\ Revision' = Revision /\ People(db)' = People(db)
    BY <2>1 DEF Returned, Revision
  <2>4. Sound(before.db, db, version, Returned)' /\ RemovedStaysRemoved'
    BY <1>3, <2>1, <2>3 DEF RemovedStaysRemoved
  <2>5. run' # NoRun => version < Newest /\ run' = WrittenBy(Revision, db)
    BY <2>1, <2>2
  <2>6. Revision \in made => crashes > 0
    BY <1>2, <2>1
  <2>7. Revision \notin made => run' # NoRun
    <3>1. Sound(before.db, WrittenBy(Revision, db), version + 1, {})
      <4>1. PICK b : b = before.db
        OBVIOUS
      <4>2. PICK d : d = db
        OBVIOUS
      <4>3. PICK v \in 0..8 : v = version
        BY <1>1, <2>1
      <4>4. PICK n : n = v + 1
        OBVIOUS
      <4>5. PICK e : e = WrittenBy(Chain[n], d)
        OBVIOUS
      <4>6. ~recovered
        BY <1>1, <1>2, <2>1
      <4>7. Sound(b, d, v, {})
        BY <1>3, <4>1, <4>2, <4>3, <4>6 DEF Returned
      <4>8. v = 0 => People(b) = {}
        BY <1>1, <1>3, <4>1, <4>3
      <4>9. Sound(b, e, n, {})
        BY <4>4, <4>5, <4>7, <4>8, RevisionIsSound
      <4> QED BY <4>1, <4>2, <4>3, <4>4, <4>5, <4>9 DEF Revision
    <3>2. version + 1 \in 0..9
      BY <1>1, <2>1
    <3>3. WrittenBy(Revision, db) # NoRun
      <4>1. PICK b : b = before.db
        OBVIOUS
      <4>2. PICK n \in 0..9 : n = version + 1
        BY <3>2
      <4>3. PICK e : e = WrittenBy(Revision, db)
        OBVIOUS
      <4>4. PICK except : except = {}
        OBVIOUS
      <4>5. Sound(b, e, n, except)
        BY <3>1, <4>1, <4>2, <4>3, <4>4
      <4>6. e # NoRun
        BY <4>5, SoundIsDatabase
      <4> QED BY <4>3, <4>6
    <3> QED BY <2>2, <3>3
  <2>8. TablesAreMade'
    <3>1. ASSUME NEW n \in 1..Newest, n > version + 1 PROVE Chain[n] \notin made'
      <4>1. version + 1 \in 1..Newest
        BY <1>1, <2>1
      <4>2. Chain[n] # Revision
        BY <3>1, <4>1, ChainDiffers DEF Revision
      <4> QED BY <1>1, <2>1, <3>1, <4>2
    <3>2. run' # NoRun \/ crashes > 0
      BY <2>6, <2>7
    <3> QED BY <2>1, <3>1, <3>2 DEF TablesAreMade
  <2>9. stuck' => crashes > 0 /\ ~served
    BY <2>1, <2>2, <2>6
  <2>10. stuck' \in BOOLEAN
    BY <2>2
  <2> QED BY <1>1, <1>2, <1>3, <2>1, <2>3, <2>4, <2>5, <2>8, <2>9, <2>10 DEF UpgradesInv
<1>7. CASE AlterContents
  <2>1. /\ run # NoRun /\ Revision = "tenants" /\ db' = run /\ version' = version /\ run' = run /\ made' = made
        /\ stuck' = stuck /\ served' = served /\ crashes' = crashes /\ before' = before /\ recovered' = recovered
    BY <1>7 DEF AlterContents
  <2>2. version = 5
    <3>1. version + 1 \in 1..Newest /\ Chain[version + 1] = Chain[6] /\ 6 \in 1..Newest
      BY <1>1, <1>5, <2>1, ChainIs DEF Revision
    <3>2. version + 1 = 6
      BY <3>1, ChainDiffers
    <3> QED BY <1>1, <3>2
  <2>3. AsItWas(before.db, run) /\ run = WrittenBy(Revision, run) /\ People(run) = People(db)
    BY <1>5, <2>1, <2>2
  <2>4. Sound(before.db, db, version, Returned)'
    BY <2>1, <2>2, <2>3 DEF Sound
  <2>5. Revision' = Revision /\ People(db)' = People(db)
    BY <2>1, <2>3 DEF Revision
  <2>6. run' = WrittenBy(Revision, db)'
    BY <2>1, <2>3, <2>5
  <2>7. RemovedStaysRemoved'
    BY <1>3, <2>1, <2>5 DEF RemovedStaysRemoved
  <2>8. TablesAreMade'
    BY <2>1 DEF TablesAreMade, UpgradesInv, Revision
  <2> QED BY <1>1, <1>2, <1>3, <2>1, <2>4, <2>6, <2>7, <2>8 DEF UpgradesInv
<1>8. CASE EndRevision
  <2>1. /\ run # NoRun /\ db' = run /\ version' = version + 1 /\ run' = NoRun /\ made' = made
        /\ stuck' = stuck /\ served' = served /\ crashes' = crashes /\ before' = before /\ recovered' = recovered
    BY <1>8 DEF EndRevision
  <2>2. Returned' = {}
    BY <1>5, <2>1 DEF Returned
  <2>3. Sound(before.db, db, version, Returned)'
    BY <1>5, <2>1, <2>2
  <2>4. RemovedStaysRemoved'
    <3>1. CASE version = 0
      <4>1. before.version = 0
        BY <1>1, <3>1
      <4> QED BY <2>1, <4>1 DEF RemovedStaysRemoved
    <3>2. CASE version # 0
      <4>1. People(db)' = People(db)
        BY <1>5, <2>1, <3>2
      <4> QED BY <1>3, <2>1, <4>1 DEF RemovedStaysRemoved
    <3> QED BY <3>1, <3>2
  <2>5. version' \in 0..Newest /\ before'.version \in 0..version'
    BY <1>1, <1>5, <2>1
  <2>6. TablesAreMade'
    <3>1. \A n \in 1..Newest : n > version' + 1 => Chain[n] \notin made'
      BY <1>1, <2>1
    <3>2. ASSUME version' < Newest PROVE Revision' \notin made'
      <4>1. version' + 1 \in 1..Newest /\ version' + 1 > version + 1
        BY <1>1, <1>5, <2>1, <3>2
      <4> QED BY <1>1, <2>1, <4>1 DEF Revision
    <3> QED BY <3>1, <3>2 DEF TablesAreMade
  <2>7. ~served' /\ ~recovered' /\ stuck' = stuck /\ crashes' = crashes
    BY <1>5, <2>1
  <2> QED BY <1>1, <1>2, <1>3, <2>1, <2>3, <2>4, <2>5, <2>6, <2>7 DEF UpgradesInv
<1>9. CASE Killed
  <2>1. /\ run # NoRun /\ run' = NoRun /\ crashes' = crashes + 1 /\ version' = version /\ db' = db /\ made' = made
        /\ stuck' = stuck /\ served' = served /\ before' = before /\ recovered' = recovered
    BY <1>9 DEF Killed
  <2>2. Returned' = Returned /\ People(db)' = People(db)
    BY <2>1 DEF Returned
  <2>3. Sound(before.db, db, version, Returned)' /\ RemovedStaysRemoved'
    BY <1>3, <2>1, <2>2 DEF RemovedStaysRemoved
  <2>4. crashes' \in Nat /\ crashes' > 0
    BY <1>1, <2>1
  <2>5. TablesAreMade'
    BY <1>1, <2>1, <2>4 DEF TablesAreMade
  <2>6. stuck' => crashes' > 0 /\ ~served'
    BY <1>2, <2>1, <2>4
  <2> QED BY <1>1, <1>2, <1>3, <2>1, <2>3, <2>4, <2>5, <2>6 DEF UpgradesInv
<1>10. CASE Serve
  <2>1. /\ ~stuck /\ run = NoRun /\ version = Newest /\ served' /\ served' \in BOOLEAN /\ version' = version /\ db' = db
        /\ made' = made /\ run' = run /\ stuck' = stuck /\ crashes' = crashes /\ before' = before /\ recovered' = recovered
    BY <1>10 DEF Serve
  <2>2. Returned' = Returned /\ People(db)' = People(db)
    BY <2>1 DEF Returned
  <2>3. Sound(before.db, db, version, Returned)' /\ RemovedStaysRemoved'
    BY <1>3, <2>1, <2>2 DEF RemovedStaysRemoved
  <2>4. TablesAreMade'
    BY <1>1, <2>1 DEF TablesAreMade
  <2> QED BY <1>1, <1>2, <1>3, <2>1, <2>3, <2>4 DEF UpgradesInv
<1>11. CASE Recover
  <2>1. /\ served /\ db' = DefaultAdminSeated(AdminEnsured(Seeded(db))) /\ recovered' /\ recovered' \in BOOLEAN
        /\ version' = version /\ made' = made /\ run' = run /\ stuck' = stuck /\ served' = served /\ crashes' = crashes
        /\ before' = before
    BY <1>11 DEF Recover
  <2>2. version = 9 /\ version = Newest /\ run = NoRun
    BY <1>1, <1>2, <2>1
  <2>3. AsItIs(before.db, db', {DefaultAdmin})
    <3>1. PICK b : b = before.db
      OBVIOUS
    <3>2. PICK d : d = db
      OBVIOUS
    <3>3. PICK except : except = Returned
      OBVIOUS
    <3>4. PICK e : e = DefaultAdminSeated(AdminEnsured(Seeded(d)))
      OBVIOUS
    <3>5. AsItIs(b, d, except) /\ except \subseteq {DefaultAdmin}
      BY <1>3, <2>2, <3>1, <3>2, <3>3 DEF Sound, Returned
    <3>6. AsItIs(b, e, {DefaultAdmin})
      BY <3>4, <3>5, RecoveredIs
    <3> QED BY <2>1, <3>1, <3>2, <3>4, <3>6
  <2>4. Returned' = {DefaultAdmin}
    BY <2>1 DEF Returned
  <2>5. Sound(before.db, db, version, Returned)'
    BY <2>1, <2>2, <2>3, <2>4 DEF Sound
  <2>6. RemovedStaysRemoved'
    BY <2>1 DEF RemovedStaysRemoved
  <2>7. TablesAreMade'
    BY <1>1, <2>1, <2>2 DEF TablesAreMade
  <2> QED BY <1>1, <1>2, <1>3, <2>1, <2>2, <2>5, <2>6, <2>7 DEF UpgradesInv
<1>12. CASE UNCHANGED upgradeVars
  <2>1. /\ version' = version /\ db' = db /\ made' = made /\ run' = run /\ stuck' = stuck /\ served' = served
        /\ crashes' = crashes /\ before' = before /\ recovered' = recovered
    BY <1>12 DEF upgradeVars
  <2>2. Returned' = Returned /\ Revision' = Revision /\ People(db)' = People(db)
    BY <2>1 DEF Returned, Revision
  <2>3. Sound(before.db, db, version, Returned)' /\ RemovedStaysRemoved' /\ TablesAreMade'
    BY <1>3, <2>1, <2>2 DEF RemovedStaysRemoved, TablesAreMade, UpgradesInv
  <2>4. run' # NoRun => version' < Newest /\ run' = WrittenBy(Revision, db)'
    BY <1>2, <2>1, <2>2
  <2> QED BY <1>1, <1>2, <1>3, <2>1, <2>3, <2>4 DEF UpgradesInv
<1> QED BY <1>6, <1>7, <1>8, <1>9, <1>10, <1>11, <1>12 DEF UpgradesNext

\* What somebody can do, with system-admin if they hold it.
LEMMA PowersAre ==
    ASSUME NEW d, NEW u
    PROVE  Powers(d, u) = Apart(d, u) \cup (IF "system-admin" \in d.holds[u] THEN d.roles["system-admin"] ELSE {})
BY DEF Powers, Apart

LEMMA UpgradesDo == ASSUME UpgradesInv PROVE UpgradesHold
<1>1. version \in 0..9 /\ Newest = 9 /\ Sound(before.db, db, version, Returned) /\ RemovedStaysRemoved
  BY ChainIs DEF UpgradesInv
<1>2. RecordedIsDone
  <2>1. version = Since("tenants") => db.seated = People(db)
    BY <1>1, SinceIs DEF Sound
  <2>2. version >= Since("split_system_authority") =>
            /\ DOMAIN before.db.roles \cap {"reviewer"} \subseteq db.handed
            /\ db.handed \cap {"owner", "admin", "auditor", "system-admin"} = {}
    <3> SUFFICES ASSUME version >= 7
                 PROVE  /\ DOMAIN before.db.roles \cap {"reviewer"} \subseteq db.handed
                        /\ db.handed \cap {"owner", "admin", "auditor", "system-admin"} = {}
      BY SinceIs
    <3>1. Handed(before.db, db)
      <4>1. version \in {7, 8} \/ version = 9
        BY <1>1
      <4> QED BY <1>1, <4>1 DEF Sound, AsSplit, AsItIs
    <3> QED BY <3>1 DEF Handed
  <2>3. stuck => crashes > 0 /\ ~served
    BY DEF UpgradesInv
  <2> QED BY <2>1, <2>2, <2>3 DEF RecordedIsDone
<1>3. NobodyIsBoth
  <2> SUFFICES ASSUME version >= 7, NEW u \in People(db)
               PROVE  IF u \in db.seated
                      THEN (recovered /\ u = DefaultAdmin) \/ Powers(db, u) \cap (SystemPermissions \cup SystemThen) = {}
                      ELSE db.holds[u] = {"system-admin"}
    BY SinceIs DEF NobodyIsBoth
  <2>1. version \in {7, 8} \/ version = 9
    BY <1>1
  <2>2. SeatsApart(db, Returned) /\ Shaped(db)
    BY <1>1, <2>1 DEF Sound, AsSplit, AsItIs, SeatsApart
  <2>3. CodesAre(db, TenantThen \cup TenantPermissions, SystemThen \cup SystemPermissions \cup {"audit:view"})
    <3>1. TenantPermissions \subseteq TenantThen \cup TenantPermissions
      OBVIOUS
    <3>2. RolePermissions["system-admin"] \subseteq SystemThen \cup SystemPermissions \cup {"audit:view"}
      BY TemplatesAre
    <3> QED BY <1>1, <2>1, <3>1, <3>2 DEF Sound, AsSplit, AsItIs, CodesAre
  <2>4. CASE u \notin db.seated
    BY <2>2, <2>4 DEF SeatsApart
  <2>5. CASE u \in Returned
    BY <2>4, <2>5 DEF Returned
  <2>6. CASE u \in db.seated /\ u \notin Returned
    <3>1. "system-admin" \notin db.holds[u]
      BY <2>2, <2>6 DEF SeatsApart
    <3>2. ASSUME NEW c \in Powers(db, u) PROVE c \in TenantThen \cup TenantPermissions
      <4>1. c \in Apart(db, u)
        BY <3>1, PowersAre
      <4>2. PICK r \in db.holds[u] : r # "system-admin" /\ c \in db.roles[r]
        BY <4>1, ApartHas
      <4>3. r \in DOMAIN db.roles \ SystemRoles
        BY <2>2, <4>2 DEF Shaped, SystemRoles
      <4> QED BY <2>3, <4>2, <4>3 DEF CodesAre
    <3>3. (TenantThen \cup TenantPermissions) \cap (SystemPermissions \cup SystemThen) = {}
      BY DEF TenantThen, TenantPermissions, SystemPermissions, SystemThen
    <3> QED BY <2>6, <3>2, <3>3
  <2> QED BY <2>4, <2>5, <2>6
<1>4. PowersOutlast
  <2> SUFFICES ASSUME version = Newest, NEW u \in People(before.db)
               PROVE  /\ MeantToKeep(u) \subseteq Powers(db, u)
                      /\ Powers(db, u) \subseteq MeantToKeep(u) \cup UNION {RolePermissions[r] : r \in db.holds[u] \cap Templates}
    BY DEF PowersOutlast
  <2>1. PICK b : b = before.db
    OBVIOUS
  <2>2. AsItIs(b, db, Returned)
    BY <1>1, <2>1 DEF Sound
  <2>3. /\ u \in People(b) /\ (db.holds[u] = {"system-admin"} <=> b.holds[u] = {"system-admin"})
        /\ "system-admin" \in db.holds[u] <=> b.holds[u] = {"system-admin"}
    BY <2>1, <2>2 DEF AsItIs, OnlyWhoWasOnly
  <2>4. PICK templates : templates = UNION {RolePermissions[r] : r \in db.holds[u] \cap Templates}
    OBVIOUS
  <2>5. \A c : c \in templates <=> \E r \in db.holds[u] \cap Templates : c \in RolePermissions[r]
    BY <2>4
  <2>6. CASE b.holds[u] = {"system-admin"}
    <3>1. MeantToKeep(u) = CalledThen(b.roles["system-admin"])
      <4>1. MeantToKeep(u) = CalledThen(UNION {IF r = "system-admin" THEN b.roles[r] ELSE b.roles[r] \ SystemThen : r \in {"system-admin"}})
        BY <2>1, <2>6 DEF MeantToKeep, CalledThen
      <4>2. UNION {IF r = "system-admin" THEN b.roles[r] ELSE b.roles[r] \ SystemThen : r \in {"system-admin"}}
                = b.roles["system-admin"]
        OBVIOUS
      <4> QED BY <4>1, <4>2
    <3>2. db.holds[u] = {"system-admin"}
      BY <2>3, <2>6
    <3>3. Powers(db, u) = db.roles["system-admin"]
      BY <3>2 DEF Powers
    <3>4. u \in People(db) /\ "system-admin" \in DOMAIN db.roles
      BY <2>2, <2>3, <3>2 DEF AsItIs, Shaped, Between
    <3>5. CalledThen(b.roles["system-admin"]) \subseteq db.roles["system-admin"]
      <4>1. SystemKept(b, db, CalledThen(b.roles["system-admin"]))
        BY <2>2 DEF AsItIs
      <4>2. "system-admin" \in DOMAIN b.roles
        BY <2>1, <2>3, <2>6 DEF UpgradesInv
      <4> QED BY <4>1, <4>2 DEF SystemKept
    <3>6. db.roles["system-admin"] \subseteq templates
      <4>1. db.roles["system-admin"] \subseteq RolePermissions["system-admin"]
        BY <2>2, <3>4 DEF AsItIs, CodesAre
      <4>2. "system-admin" \in db.holds[u] \cap Templates
        BY <3>2 DEF Templates, SystemRoles
      <4> QED BY <2>5, <4>1, <4>2
    <3> QED BY <2>4, <3>1, <3>3, <3>5, <3>6
  <2>7. CASE b.holds[u] # {"system-admin"}
    <3>1. MeantToKeep(u) = CalledThen(Apart(b, u) \ SystemThen)
      <4>1. MeantToKeep(u) =
            CalledThen(UNION {IF r = "system-admin" THEN b.roles[r] ELSE b.roles[r] \ SystemThen : r \in b.holds[u] \ {"system-admin"}})
        BY <2>1, <2>7 DEF MeantToKeep, CalledThen
      <4>2. UNION {IF r = "system-admin" THEN b.roles[r] ELSE b.roles[r] \ SystemThen : r \in b.holds[u] \ {"system-admin"}}
                = Apart(b, u) \ SystemThen
        BY DEF Apart
      <4> QED BY <4>1, <4>2
    <3>2. Powers(db, u) = Apart(db, u)
      BY <2>3, <2>7, PowersAre
    <3>3. PICK meant : meant = CalledThen(Apart(b, u) \ SystemThen)
      OBVIOUS
    <3>4. Between(db, u, meant)
      BY <2>2, <2>3, <3>3 DEF AsItIs
    <3>5. ASSUME NEW c \in ByTemplates(db, u) PROVE c \in templates
      <4>1. PICK r \in db.holds[u] : r \in {"owner", "auditor"} /\ c \in RolePermissions[r]
        BY ByTemplatesHas
      <4>2. r \in Templates
        BY <4>1 DEF Templates
      <4> QED BY <2>5, <4>1, <4>2
    <3> QED BY <2>4, <3>1, <3>2, <3>3, <3>4, <3>5 DEF Between
  <2> QED BY <2>6, <2>7
<1> QED BY <1>1, <1>2, <1>3, <1>4 DEF UpgradesHold

\* From whichever build a database comes, and wherever containers were killed, people keep
\* what they could do and get no more than by the templates they hold, nobody runs the
\* service from within a tenant, and what is recorded as done is done (migrations/versions).
THEOREM UpgradesKeepPowers == UpgradesSpec => []UpgradesHold
<1>1. UpgradesInit => UpgradesInv
  BY UpgradesStart
<1>2. UpgradesInv /\ [UpgradesNext]_upgradeVars => UpgradesInv'
  BY UpgradesStep
<1>3. UpgradesInv => UpgradesHold
  BY UpgradesDo
<1> QED BY <1>1, <1>2, <1>3, PTL DEF UpgradesSpec

=============================================================================
