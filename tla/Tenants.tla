------------------------------ MODULE Tenants ------------------------------
(***************************************************************************)
(* The ledger of tenants: who belongs to which, who runs the service from   *)
(* outside all of them, and the roles a tenant has made for itself.         *)
(*                                                                          *)
(* A request judges what its transaction has read and writes later; foreign *)
(* keys are judged against the tables.  A member is let in as long as the   *)
(* tenant is open, and an access token then stands on its own.              *)
(***************************************************************************)
EXTENDS Service

CONSTANTS
    Tenants,       \* ids of tenants; one that is gone does not come back
    Outside,       \* no row of user_tenants: a system administrator
    OwnRoles,      \* roles that tenants can make
    Emails,        \* addresses people are invited by
    SeatTtl,       \* access_token_expires_seconds
    NoSeat, Left,  \* no row yet, no row any more
    NoJob

ASSUME TenantsAssumption == Outside \notin Tenants /\ SeatTtl \in Nat

Places == Tenants \cup {Outside}
Seat == [place: Places, operator: BOOLEAN, email: Emails]
Badge == [user: Users, place: Places, operator: BOOLEAN, until: Nat]

Job == [kind: {"enter"}, user: Users, seat: Seat]
       \cup [kind: {"seat"}, user: Users, seat: Seat, founds: BOOLEAN]
       \cup [kind: {"unseat"}, user: Users, remaining: SUBSET Users]
       \cup [kind: {"role"}, role: OwnRoles, tenant: Tenants]
       \cup [kind: {"dissolve"}, tenant: Tenants, people: SUBSET Users, roles: SUBSET OwnRoles]

ASSUME TenantsNullsAssumption ==
    /\ Tenants \cap {"everybody", "nobody"} = {}
    /\ NoSeat \notin Seat /\ Left \notin Seat /\ NoSeat # Left /\ NoJob \notin Job

VARIABLES
    standing,    \* Tenants -> "planned" (no row yet), "active", "suspended", "gone"
    seats,       \* Users -> the row and its place, NoSeat or Left
    ownerOf,     \* OwnRoles -> its tenant, "everybody" (a template), or "nobody" (no row)
    badges,      \* of each user the access token that lives longest
    job,         \* Requests -> what the request has read and will write, or NoJob
    \* history, read by the properties and by no action:
    closedAt,    \* Tenants -> when it was last suspended, or Never
    slipped,     \* users an entry of whom was under way then
    overlapped   \* what two requests were at together: "operators", "emails", a role, a tenant

tenantVars == <<now, standing, seats, ownerOf, badges, job, closedAt, slipped, overlapped>>

Doing(r, kind) == job[r] # NoJob /\ job[r].kind = kind
Seated(u) == seats[u] \notin {NoSeat, Left}
InPlace(u, p) == Seated(u) /\ seats[u].place = p
PeopleOf(p) == {u \in Users : InPlace(u, p)}
RolesOf(t) == {o \in OwnRoles : ownerOf[o] = t}
StandingOf(p) == IF p = Outside THEN "active" ELSE standing[p]
Operators == {u \in PeopleOf(Outside) : seats[u].operator}

\* The state has its types; people and roles belong to tenants that are there.
TenantsTypeOK ==
    /\ now \in Time
    /\ standing \in [Tenants -> {"planned", "active", "suspended", "gone"}]
    /\ seats \in [Users -> Seat \cup {NoSeat, Left}]
    /\ ownerOf \in [OwnRoles -> Tenants \cup {"everybody", "nobody"}]
    /\ badges \subseteq Badge /\ job \in [Requests -> Job \cup {NoJob}]
    /\ closedAt \in [Tenants -> Time \cup {Never}]
    /\ slipped \subseteq Users /\ overlapped \subseteq {"operators", "emails"} \cup OwnRoles \cup Tenants
    /\ \A t \in Tenants : standing[t] \in {"planned", "gone"} => PeopleOf(t) = {} /\ RolesOf(t) = {}

TenantsInit ==
    /\ now = 0
    /\ standing = [t \in Tenants |-> "planned"]
    /\ \E first \in Users, e \in Emails :
         seats = [u \in Users |-> IF u = first THEN [place |-> Outside, operator |-> TRUE, email |-> e] ELSE NoSeat]
    /\ ownerOf = [o \in OwnRoles |-> "nobody"]
    /\ badges = {} /\ job = [r \in Requests |-> NoJob]
    /\ closedAt = [t \in Tenants |-> Never] /\ slipped = {} /\ overlapped = {}

-----------------------------------------------------------------------------
(* What a request reads.                                                    *)

Reads(r, x) ==
    /\ job[r] = NoJob
    /\ job' = [job EXCEPT ![r] = x]
    /\ UNCHANGED <<now, standing, seats, ownerOf, badges, closedAt, slipped>>

Beside(r, kind) == \E q \in Requests \ {r} : Doing(q, kind)

\* Variant: a member is let in as long as their row is there.
AdmitsAnybody(u) == Seated(u)

\* Whoever is outside all tenants is not stopped by any.
Admits(u) == Seated(u) /\ StandingOf(seats[u].place) = "active"

\* A password, a passkey, a refresh, a switch of roles: all ask for the tenant.
AsksToEnter(r, u) ==
    /\ Admits(u)
    /\ Reads(r, [kind |-> "enter", user |-> u, seat |-> seats[u]]) /\ UNCHANGED overlapped

\* The permission is in the token, and is not looked up.
MayOperate(u) == \E b \in badges : b.user = u /\ b.operator

\* Variant: looks among the people outside the tenants, wherever the seat is.
EmailTakenOutside(seat) == \E u \in PeopleOf(Outside) : seats[u].email = seat.email

EmailTaken(seat) == \E u \in PeopleOf(seat.place) : seats[u].email = seat.email

\* An operator names somebody: the first administrator of a tenant that is founded
\* with it, another one, or one of their own.
Designates(r, by, u, seat) ==
    /\ MayOperate(by) /\ seats[u] = NoSeat /\ ~\E q \in Requests : Doing(q, "seat") /\ job[q].user = u
    /\ StandingOf(seat.place) # "gone" /\ (seat.operator => seat.place = Outside)
    /\ ~EmailTaken(seat)
    /\ Reads(r, [kind |-> "seat", user |-> u, seat |-> seat, founds |-> StandingOf(seat.place) = "planned"])
    /\ overlapped' = IF Beside(r, "seat") THEN overlapped \cup {"emails"} ELSE overlapped

\* Variant: support staff count.
CountedWithSupport(u) == PeopleOf(Outside) \ {u}

\* Who is counted when somebody goes: operators in the snapshot of the request.
Counted(u) == Operators \ {u}

RemovesAdministrator(r, by, u) ==
    /\ MayOperate(by) /\ by # u /\ InPlace(u, Outside)
    /\ Reads(r, [kind |-> "unseat", user |-> u, remaining |-> Counted(u)])
    /\ overlapped' = IF Beside(r, "unseat") THEN overlapped \cup {"operators"} ELSE overlapped

\* A member who administers the tenant makes a role.
MakesRole(r, t, o) ==
    /\ \E b \in badges : b.place = t
    /\ ownerOf[o] = "nobody" /\ ~\E q \in Requests : Doing(q, "role") /\ job[q].role = o
    /\ Reads(r, [kind |-> "role", role |-> o, tenant |-> t])
    /\ overlapped' = IF Beside(r, "dissolve") THEN overlapped \cup {o} ELSE overlapped

\* Variant: the roles are looked up by the rows that were just deleted.
OwnRolesLate(t) == {}

OwnRolesRead(t) == RolesOf(t)

\* A tenant that is suspended is read with its people and its roles.
DissolvesTenant(r, by, t) ==
    /\ MayOperate(by) /\ standing[t] = "suspended"
    /\ Reads(r, [kind |-> "dissolve", tenant |-> t, people |-> PeopleOf(t), roles |-> OwnRolesRead(t)])
    /\ overlapped' = overlapped \cup {o \in OwnRoles : \E q \in Requests : Doing(q, "role") /\ job[q].role = o}

-----------------------------------------------------------------------------
(* What it writes.                                                          *)

Done(r) == job' = [job EXCEPT ![r] = NoJob] /\ UNCHANGED <<now, closedAt, slipped, overlapped>>

\* From the row that was read.
Enters(r) ==
    LET x == job[r]
    IN  /\ Doing(r, "enter")
        /\ badges' = {b \in badges : b.user # x.user}
                     \cup {[user |-> x.user, place |-> x.seat.place, operator |-> x.seat.operator,
                            until |-> now + SeatTtl]}
        /\ Done(r) /\ UNCHANGED <<standing, seats, ownerOf>>

\* The keys of tenants and user_tenants: the request fails when another one has
\* founded the tenant, or removed it.
TakesSeat(r) ==
    LET x == job[r]
        p == x.seat.place
    IN  /\ Doing(r, "seat")
        /\ IF IF x.founds THEN standing[p] = "planned" ELSE StandingOf(p) # "gone"
           THEN /\ seats' = [seats EXCEPT ![x.user] = x.seat]
                /\ standing' = IF x.founds THEN [standing EXCEPT ![p] = "active"] ELSE standing
           ELSE UNCHANGED <<seats, standing>>
        /\ Done(r) /\ UNCHANGED <<ownerOf, badges>>

\* With everything of theirs; the badge in their hand lives on.
LeavesSeat(r) ==
    /\ Doing(r, "unseat")
    /\ seats' = IF job[r].remaining = {} THEN seats ELSE [seats EXCEPT ![job[r].user] = Left]
    /\ Done(r) /\ UNCHANGED <<standing, ownerOf, badges>>

WritesRole(r) ==
    /\ Doing(r, "role")
    /\ LET t == job[r].tenant
       IN  ownerOf' = IF standing[t] = "gone" THEN ownerOf ELSE [ownerOf EXCEPT ![job[r].role] = t]
    /\ Done(r) /\ UNCHANGED <<standing, seats, badges>>

\* Variant: no row of a tenant stands in the way of its removal.
KeysHoldAlways(x) == TRUE

\* The keys of user_tenants: somebody who came in after the reading is still there.
KeysHold(x) == PeopleOf(x.tenant) \subseteq x.people

\* Rows that name the tenant go by its id, people and roles by what was read: a
\* role that came later stays, without an owner.
WritesDissolution(r) ==
    LET x == job[r]
        t == x.tenant
    IN  /\ Doing(r, "dissolve")
        /\ IF standing[t] # "gone" /\ KeysHold(x)
           THEN /\ standing' = [standing EXCEPT ![t] = "gone"]
                /\ seats' = [u \in Users |-> IF u \in x.people THEN Left ELSE seats[u]]
                /\ ownerOf' = [o \in OwnRoles |-> IF o \in x.roles THEN "nobody"
                                                   ELSE IF ownerOf[o] = t THEN "everybody" ELSE ownerOf[o]]
           ELSE UNCHANGED <<standing, seats, ownerOf>>
        /\ Done(r) /\ UNCHANGED badges

\* An operator suspends a tenant, or opens it again.
SetsStatus(by, t, status) ==
    /\ MayOperate(by) /\ standing[t] \in {"active", "suspended"} \ {status}
    /\ standing' = [standing EXCEPT ![t] = status]
    /\ closedAt' = [closedAt EXCEPT ![t] = IF status = "suspended" THEN now ELSE Never]
    /\ slipped' = IF status = "suspended"
                  THEN slipped \cup {u \in PeopleOf(t) : \E r \in Requests : Doing(r, "enter") /\ job[r].user = u}
                  ELSE slipped
    /\ overlapped' = IF \E r \in Requests : Doing(r, "dissolve") /\ job[r].tenant = t
                     THEN overlapped \cup {t} ELSE overlapped
    /\ UNCHANGED <<now, seats, ownerOf, badges, job>>

TenantsTick ==
    /\ Tick
    /\ badges' = {b \in badges : now' < b.until}
    /\ UNCHANGED <<standing, seats, ownerOf, job, closedAt, slipped, overlapped>>

TenantsNext ==
    \/ TenantsTick
    \/ \E by \in Users, t \in Tenants, status \in {"active", "suspended"} : SetsStatus(by, t, status)
    \/ \E r \in Requests :
         \/ \E u \in Users : \/ AsksToEnter(r, u)
                             \/ \E by \in Users : \/ RemovesAdministrator(r, by, u)
                                                  \/ \E seat \in Seat : Designates(r, by, u, seat)
         \/ \E t \in Tenants : \/ \E o \in OwnRoles : MakesRole(r, t, o)
                               \/ \E by \in Users : DissolvesTenant(r, by, t)
         \/ Enters(r) \/ TakesSeat(r) \/ LeavesSeat(r) \/ WritesRole(r) \/ WritesDissolution(r)

TenantsSpec == TenantsInit /\ [][TenantsNext]_tenantVars
-----------------------------------------------------------------------------
\* A tenant that is stopped is shut one token life later, whatever its people
\* refresh and switch meanwhile, and also when it is removed -- unless an entry
\* was under way in the moment it was stopped, or it was removed while it was
\* opened again.
SuspensionTakesHold ==
    \A b \in badges : StandingOf(b.place) # "active" /\ b.user \notin slipped /\ b.place \notin overlapped =>
        b.until <= closedAt[b.place] + SeatTtl

\* Somebody is left who can run the service, whoever removes whom with which old
\* token -- unless two removals overlapped, each of which counts for itself.
OperatorsRemain == "operators" \notin overlapped => Operators # {}

\* In one tenant, and outside all of them, an address names one person -- unless
\* two were invited at once.
AddressesNameOne ==
    "emails" \notin overlapped =>
        \A p \in Places : \A u, v \in PeopleOf(p) : seats[u].email = seats[v].email => u = v

\* A role a tenant has made for itself never becomes one of everybody's, not even
\* when the tenant goes -- unless it was made while that happened.
OwnRolesStayOwn == \A o \in OwnRoles \ overlapped : ownerOf[o] # "everybody"

\* Somebody is left to run the service, an address names one person where it is
\* used, and a tenant's own roles go with it.
SeatsHold == OperatorsRemain /\ AddressesNameOne /\ OwnRolesStayOwn
=============================================================================
