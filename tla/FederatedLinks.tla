--------------------------- MODULE FederatedLinks ---------------------------
(***************************************************************************)
(* Which account of the identity provider belongs to which user, and the    *)
(* other ways in that a user has.                                           *)
(*                                                                          *)
(* A request decides on what its transaction has read and writes later.     *)
(* The key of a link is the provider's account: a second row of it fails.   *)
(* Nothing in the database keeps a user from having two links, or none.     *)
(***************************************************************************)
EXTENDS Service

CONSTANTS
    Subjects,      \* the provider's accounts
    NoUser,        \* no row of users
    NoChange       \* no request

\* One user, or Nobody, per subject; what else lets a user in.
Links == [Subjects -> Users \cup {Nobody}]
Way == [password: BOOLEAN, passkey: BOOLEAN]
Ways == [Users -> Way \cup {NoUser}]

Change == [kind: {"attach", "link"}, user: Users, subject: Subjects]
          \cup [kind: {"provision"}, user: Users, subject: Subjects]
          \cup [kind: {"unlink", "password", "add_key", "drop_key"}, user: Users, subject: Subjects \cup {Nobody}]
          \cup [kind: {"pass"}, read: SUBSET Subjects, unknown: SUBSET Subjects]

ASSUME FederatedLinksAssumption == NoUser \notin Way /\ NoChange \notin Change

VARIABLES
    identity,      \* federated_identities
    way,           \* Users -> the entrances of the row, or NoUser
    address,       \* Subjects -> whose e-mail address the provider gives for it
    linkByEmail,   \* oidc_link_by_email
    change,        \* Requests -> what the request has read and will write, or NoChange
    \* history, read by the properties and by no action:
    met            \* the users two requests were changing at once

linksVars == <<now, identity, way, address, linkByEmail, change, met>>

\* The state has its types; a link belongs to a user who exists.
FederatedLinksTypeOK ==
    /\ identity \in Links /\ way \in Ways
    /\ address \in [Subjects -> Users] /\ linkByEmail \in BOOLEAN
    /\ change \in [Requests -> Change \cup {NoChange}]
    /\ met \subseteq Users
    /\ \A s \in Subjects : identity[s] # Nobody => way[identity[s]] # NoUser

FederatedLinksInit ==
    /\ now = 0
    /\ identity = [s \in Subjects |-> Nobody]
    /\ way = [u \in Users |-> NoUser]
    /\ address \in [Subjects -> Users] /\ linkByEmail \in BOOLEAN
    /\ change = [r \in Requests |-> NoChange]
    /\ met = {}

-----------------------------------------------------------------------------
Exists(u) == way[u] # NoUser
LinksOf(u) == {s \in Subjects : identity[s] = u}

\* A second factor is none.
HasOtherEntrance(u) == way[u].password \/ way[u].passkey

\* A seat that was given to somebody who has no way in yet.
AwaitingOwner(u) == Exists(u) /\ ~HasOtherEntrance(u) /\ LinksOf(u) = {}

Reads(r, c) ==
    /\ change[r] = NoChange
    /\ change' = [change EXCEPT ![r] = c]
    /\ met' = met \cup {u \in Users : /\ c.kind # "pass" /\ c.user = u
                                      /\ \E q \in Requests \ {r} : change[q] # NoChange /\ change[q].kind # "pass"
                                                                    /\ change[q].user = u}
    /\ UNCHANGED <<now, identity, way, address, linkByEmail>>

-----------------------------------------------------------------------------
(* Deciding.                                                                *)

\* Variant: any account with that address is taken for a seat.
MayAttachToAnybody(u, verified) == verified

MayAttach(u, verified) == verified /\ (linkByEmail \/ AwaitingOwner(u))

\* Somebody comes back from the provider who is not known yet: to the user with
\* their address, or to a new one.
ResolveUnknown(r, s) ==
    /\ identity[s] = Nobody
    /\ LET u == address[s]
       IN  IF Exists(u) THEN \E verified \in BOOLEAN :
                               /\ MayAttach(u, verified)
                               /\ Reads(r, [kind |-> "attach", user |-> u, subject |-> s])
           ELSE Reads(r, [kind |-> "provision", user |-> u, subject |-> s])

\* Variant: a user who is linked already links another account.
EnsureFreeSubject(u, s) == identity[s] \in {Nobody, u}

EnsureFree(u, s) == identity[s] \in {Nobody, u} /\ LinksOf(u) \subseteq {s}

\* Somebody who is signed in comes back from a round trip to link an account.
CompleteLink(r, u, s) ==
    /\ Exists(u) /\ EnsureFree(u, s)
    /\ Reads(r, [kind |-> "link", user |-> u, subject |-> s])

\* Variant: whoever is linked may leave.
UnlinkAnyway(r, u) ==
    /\ LinksOf(u) # {}
    /\ \E s \in LinksOf(u) : Reads(r, [kind |-> "unlink", user |-> u, subject |-> s])

Unlink(r, u) ==
    /\ LinksOf(u) # {} /\ HasOtherEntrance(u)
    /\ \E s \in LinksOf(u) : Reads(r, [kind |-> "unlink", user |-> u, subject |-> s])

\* A password is given; a passkey is registered, or removed with no question asked.
ChangeEntrance(r, u, kind) ==
    /\ Exists(u)
    /\ kind = "drop_key" => way[u].passkey
    /\ Reads(r, [kind |-> kind, user |-> u, subject |-> Nobody])

\* Of several, nobody is known: taken for a mistake, and nobody is unlinked.
EveryoneIsUnknown(x) == Cardinality(x.read) > 1 /\ x.unknown = x.read

\* The worker reads all links, and the provider answers whom it does not know.
ReconcileReads(r) ==
    LET linked == {s \in Subjects : identity[s] # Nobody}
    IN  /\ linked # {}
        /\ \E unknown \in SUBSET linked : Reads(r, [kind |-> "pass", read |-> linked, unknown |-> unknown])

-----------------------------------------------------------------------------
(* Writing.                                                                 *)

Done(r) == change' = [change EXCEPT ![r] = NoChange] /\ UNCHANGED <<now, address, linkByEmail, met>>
Doing(r, kind) == change[r] # NoChange /\ change[r].kind = kind

\* Variant: a link that is there is written over.
LinkOver(c) == TRUE

\* The key of the link.
CanLink(c) == identity[c.subject] = Nobody

LinkWrites(r) ==
    LET c == change[r]
    IN  /\ Doing(r, "attach") \/ Doing(r, "link")
        /\ identity' = IF CanLink(c) THEN [identity EXCEPT ![c.subject] = c.user] ELSE identity
        /\ Done(r) /\ UNCHANGED way

\* A user of that address who came in since gets no second row (in this tenant
\* nothing but the key of the link says so).
ProvisionWrites(r) ==
    LET c == change[r]
    IN  /\ Doing(r, "provision")
        /\ IF identity[c.subject] = Nobody /\ ~Exists(c.user)
           THEN /\ way' = [way EXCEPT ![c.user] = [password |-> FALSE, passkey |-> FALSE]]
                /\ identity' = [identity EXCEPT ![c.subject] = c.user]
           ELSE UNCHANGED <<way, identity>>
        /\ Done(r)

UnlinkWrites(r) ==
    /\ Doing(r, "unlink")
    /\ identity' = [identity EXCEPT ![change[r].subject] = Nobody]
    /\ Done(r) /\ UNCHANGED way

EntranceWrites(r) ==
    LET c == change[r]
    IN  /\ Doing(r, "password") \/ Doing(r, "add_key") \/ Doing(r, "drop_key")
        /\ way' = CASE c.kind = "password" -> [way EXCEPT ![c.user].password = TRUE]
                  [] c.kind = "add_key" -> [way EXCEPT ![c.user].passkey = TRUE]
                  [] OTHER -> [way EXCEPT ![c.user].passkey = FALSE]
        /\ Done(r) /\ UNCHANGED identity

ReconcileUnlinks(r) ==
    LET x == change[r]
    IN  /\ Doing(r, "pass")
        /\ identity' = [s \in Subjects |-> IF s \in x.unknown /\ ~EveryoneIsUnknown(x) THEN Nobody ELSE identity[s]]
        /\ Done(r) /\ UNCHANGED way

\* An administrator names somebody who shall come in through the provider.
CreateSeat(u) ==
    /\ ~Exists(u)
    /\ way' = [way EXCEPT ![u] = [password |-> FALSE, passkey |-> FALSE]]
    /\ UNCHANGED <<now, identity, address, linkByEmail, change, met>>

\* Variant: the links stay.
DeleteUserAlone(u) ==
    /\ Exists(u)
    /\ way' = [way EXCEPT ![u] = NoUser]
    /\ UNCHANGED <<now, identity, address, linkByEmail, change, met>>

\* The links of a user go with the row; what was to be written into it fails.
DeleteUser(u) ==
    /\ Exists(u)
    /\ way' = [way EXCEPT ![u] = NoUser]
    /\ identity' = [s \in Subjects |-> IF identity[s] = u THEN Nobody ELSE identity[s]]
    /\ change' = [r \in Requests |-> IF change[r] # NoChange /\ change[r].kind \notin {"pass", "provision"}
                                         /\ change[r].user = u
                                      THEN NoChange ELSE change[r]]
    /\ UNCHANGED <<now, address, linkByEmail, met>>

FederatedLinksNext ==
    \/ \E u \in Users : CreateSeat(u) \/ DeleteUser(u)
    \/ \E r \in Requests :
         \/ \E s \in Subjects : ResolveUnknown(r, s) \/ \E u \in Users : CompleteLink(r, u, s)
         \/ \E u \in Users : \/ Unlink(r, u)
                             \/ \E kind \in {"password", "add_key", "drop_key"} : ChangeEntrance(r, u, kind)
         \/ ReconcileReads(r)
         \/ LinkWrites(r) \/ ProvisionWrites(r) \/ UnlinkWrites(r) \/ EntranceWrites(r) \/ ReconcileUnlinks(r)

FederatedLinksSpec == FederatedLinksInit /\ [][FederatedLinksNext]_linksVars
-----------------------------------------------------------------------------
\* An account of the provider never changes hands: between one user and another
\* the link is gone, whichever requests link, claim and provision at once.
NoHandover ==
    [][\A s \in Subjects : identity[s] # Nobody /\ identity'[s] # Nobody => identity'[s] = identity[s]]_linksVars

\* Unless addresses are enough to link, an account of the provider that is not
\* known yet gets into a user's account only while nobody else has a way into
\* it -- two requests on the same user overlapping aside.
SeatsAreClaimedEmpty ==
    [][\A r \in Requests :
         Doing(r, "attach") /\ LinkWrites(r) /\ ~linkByEmail /\ identity' # identity /\ change[r].user \notin met =>
             AwaitingOwner(change[r].user)]_linksVars

\* Unless addresses are enough to link, nobody has two links that a removal or
\* an answer of the provider would have to find both -- overlaps aside.
OneLinkEach == ~linkByEmail => \A u \in Users \ met : Cardinality(LinksOf(u)) <= 1

\* Whoever unlinks can still come in, unless a passkey was removed meanwhile.
UnlinkKeepsAWayIn ==
    [][\A r \in Requests : UnlinkWrites(r) /\ change[r].user \notin met =>
         HasOtherEntrance(change[r].user)]_linksVars

\* A link joins one person and one subject, comes from nobody else, and does not
\* go when it is the last way in.
FederatedLinksHold == []OneLinkEach /\ NoHandover /\ SeatsAreClaimedEmpty /\ UnlinkKeepsAWayIn
=============================================================================
