--------------------------- MODULE TenantsProofs ---------------------------
(***************************************************************************)
(* Proofs about what people share: the ledger of tenants, the notes, the     *)
(* contents and their lists, the notifications that are pushed to them, and  *)
(* the logs that are read in pages and purged.                              *)
(***************************************************************************)
EXTENDS Tenants, SharedNotes, Contents, Notifications, LogPages, FiniteSetTheorems, WellFoundedInduction, TLAPS

(***************************************************************************)
(* The ledger of tenants.                                                   *)
(*                                                                          *)
(* What a request writes goes back to what it has read.  The parts of the   *)
(* invariant say how far the tables can have moved meanwhile: a seat is     *)
(* taken once and left once, a tenant that is there stays until it is       *)
(* removed, and what moved otherwise has left its mark in the history.      *)
(***************************************************************************)

\* What a request has read of tenants and seats still fits the tables.
Fits(x) ==
    /\ x.kind = "enter" =>
         /\ StandingOf(x.seat.place) # "planned"
         /\ StandingOf(x.seat.place) = "active" \/ x.user \in slipped \/ x.seat.place \in overlapped
         /\ x.seat.place \in Tenants => seats[x.user] = x.seat \/ standing[x.seat.place] = "gone"
    /\ x.kind = "seat" =>
         /\ seats[x.user] = NoSeat
         /\ IF x.founds THEN x.seat.place # Outside ELSE StandingOf(x.seat.place) # "planned"
    /\ x.kind = "unseat" => seats[x.user] = Left \/ InPlace(x.user, Outside)
    /\ x.kind = "role" => standing[x.tenant] # "planned"
    /\ x.kind = "dissolve" =>
         /\ standing[x.tenant] # "planned"
         /\ standing[x.tenant] # "active" \/ x.tenant \in overlapped
         /\ \A u \in x.people : seats[u] = Left \/ InPlace(u, x.tenant)

ReadingsFit ==
    /\ \A r \in Requests : job[r] # NoJob => Fits(job[r])
    /\ \A q, r \in Requests : Doing(q, "seat") /\ Doing(r, "seat") /\ job[q].user = job[r].user => q = r

\* A token was made no later than now, for a tenant that is or was there.
BadgesAreMade ==
    \A b \in badges : StandingOf(b.place) # "planned" /\ b.until <= now + SeatTtl

\* One removal at a time leaves those it has counted.
RemovalsCount ==
    "operators" \notin overlapped =>
        /\ Operators # {}
        /\ \A r \in Requests : Doing(r, "unseat") => job[r].remaining \subseteq Operators \ {job[r].user}
        /\ \A q, r \in Requests : Doing(q, "unseat") /\ Doing(r, "unseat") => q = r

\* One invitation at a time has an address nobody in the place has.
InvitationsAreNew ==
    "emails" \notin overlapped =>
        /\ \A p \in Places : \A u, v \in PeopleOf(p) : seats[u].email = seats[v].email => u = v
        /\ \A r \in Requests : Doing(r, "seat") => ~EmailTaken(job[r].seat)
        /\ \A q, r \in Requests : Doing(q, "seat") /\ Doing(r, "seat") => q = r

\* A removal of a tenant has read all its roles that were not made meanwhile.
RemovalsKnowRoles ==
    \A o \in OwnRoles \ overlapped :
        /\ ownerOf[o] # "everybody"
        /\ \A r \in Requests : Doing(r, "dissolve") =>
              /\ ownerOf[o] = job[r].tenant => o \in job[r].roles
              /\ \A q \in Requests : ~(Doing(q, "role") /\ job[q].role = o)

TenantsInv ==
    /\ TenantsTypeOK /\ ReadingsFit /\ BadgesAreMade /\ SuspensionTakesHold
    /\ RemovalsCount /\ InvitationsAreNew /\ RemovalsKnowRoles

LEMMA TenantsInitInv == TenantsInit => TenantsInv
<1> SUFFICES ASSUME TenantsInit PROVE TenantsInv
  OBVIOUS
<1>1. PICK first \in Users, e \in Emails :
        seats = [u \in Users |-> IF u = first THEN [place |-> Outside, operator |-> TRUE, email |-> e] ELSE NoSeat]
  BY DEF TenantsInit
<1> DEFINE theirs == [place |-> Outside, operator |-> TRUE, email |-> e]
<1>2. theirs \in Seat /\ theirs # NoSeat /\ theirs # Left /\ theirs.place = Outside /\ theirs.operator /\ Outside \notin Tenants
  <2>1. theirs \in Seat
    BY DEF Seat, Places
  <2>2. theirs.operator
    BY Zenon
  <2> QED BY <2>1, <2>2, TenantsNullsAssumption, TenantsAssumption
<1>3. seats[first] = theirs /\ \A u \in Users : u # first => seats[u] = NoSeat
  BY <1>1
<1>4. seats \in [Users -> Seat \cup {NoSeat, Left}]
  <2> HIDE DEF theirs
  <2> QED BY <1>1, <1>2 DEF theirs
<1> HIDE DEF theirs
<1>5. \A t \in Tenants : PeopleOf(t) = {}
  BY <1>2, <1>3 DEF PeopleOf, InPlace, Seated
<1>6. \A r \in Requests : job[r] = NoJob
  BY DEF TenantsInit
<1>7. TenantsTypeOK
  <2>1. \A t \in Tenants : RolesOf(t) = {}
    BY TenantsNullsAssumption DEF RolesOf, TenantsInit
  <2>2. 0 \in Time
    BY ServiceAssumption DEF Time
  <2> QED BY <1>4, <1>5, <2>1, <2>2 DEF TenantsInit, TenantsTypeOK
<1>8. RemovalsCount
  <2>1. first \in Operators
    BY <1>2, <1>3 DEF Operators, PeopleOf, InPlace, Seated
  <2> QED BY <1>6, <2>1 DEF RemovalsCount, Doing
<1>9. InvitationsAreNew
  <2>1. \A u \in Users : Seated(u) => u = first
    BY <1>3 DEF Seated
  <2> QED BY <1>6, <2>1 DEF InvitationsAreNew, Doing, PeopleOf, InPlace
<1>10. RemovalsKnowRoles
  BY <1>6 DEF RemovalsKnowRoles, Doing, TenantsInit
<1>11. badges = {}
  BY DEF TenantsInit
<1> QED BY <1>6, <1>7, <1>8, <1>9, <1>10, <1>11 DEF TenantsInv, ReadingsFit, Doing, BadgesAreMade, SuspensionTakesHold

-----------------------------------------------------------------------------
(* A request that reads.                                                    *)

LEMMA JobFields ==
    ASSUME NEW x \in Job
    PROVE  /\ x # NoJob
           /\ x.kind \in {"enter", "seat", "unseat", "role", "dissolve"}
           /\ x.kind = "enter" => x.user \in Users /\ x.seat \in Seat
           /\ x.kind = "seat" => x.user \in Users /\ x.seat \in Seat /\ x.founds \in BOOLEAN
           /\ x.kind = "unseat" => x.user \in Users /\ x.remaining \subseteq Users
           /\ x.kind = "role" => x.role \in OwnRoles /\ x.tenant \in Tenants
           /\ x.kind = "dissolve" => x.tenant \in Tenants /\ x.people \subseteq Users /\ x.roles \subseteq OwnRoles
BY TenantsNullsAssumption DEF Job

LEMMA JobRead ==
    ASSUME TenantsTypeOK, NEW r \in Requests, NEW x \in Job, Reads(r, x)
    PROVE  /\ job[r] = NoJob /\ job' \in [Requests -> Job \cup {NoJob}] /\ job'[r] = x /\ x # NoJob
           /\ \A q \in Requests : q # r => job'[q] = job[q]
           /\ now' = now /\ standing' = standing /\ seats' = seats /\ ownerOf' = ownerOf
           /\ badges' = badges /\ closedAt' = closedAt /\ slipped' = slipped
BY JobFields DEF Reads, TenantsTypeOK

\* A reading that fits the tables breaks nothing but what its own kind counts.
LEMMA ReadStep ==
    ASSUME TenantsInv, NEW r \in Requests, NEW x \in Job, Reads(r, x), Fits(x),
           x.kind = "seat" => \A q \in Requests : Doing(q, "seat") => job[q].user # x.user,
           overlapped \subseteq overlapped',
           overlapped' \subseteq {"operators", "emails"} \cup OwnRoles \cup Tenants
    PROVE  /\ TenantsTypeOK' /\ ReadingsFit' /\ BadgesAreMade' /\ SuspensionTakesHold'
           /\ x.kind # "unseat" => RemovalsCount'
           /\ x.kind # "seat" => InvitationsAreNew'
           /\ x.kind \notin {"role", "dissolve"} => RemovalsKnowRoles'
<1>1. /\ job[r] = NoJob /\ job' \in [Requests -> Job \cup {NoJob}] /\ job'[r] = x /\ x # NoJob
      /\ \A q \in Requests : q # r => job'[q] = job[q]
      /\ now' = now /\ standing' = standing /\ seats' = seats /\ ownerOf' = ownerOf
      /\ badges' = badges /\ closedAt' = closedAt /\ slipped' = slipped
  BY JobRead DEF TenantsInv
<1>2. TenantsTypeOK'
  BY <1>1 DEF TenantsInv, TenantsTypeOK, PeopleOf, InPlace, Seated, RolesOf
<1>3. ASSUME NEW y, Fits(y) PROVE Fits(y)'
  BY <1>1, <1>3 DEF Fits, StandingOf, InPlace, Seated
<1>4. ReadingsFit'
  <2>1. ASSUME NEW q \in Requests, NEW y, y = job'[q], y # NoJob PROVE Fits(y)'
    <3>1. Fits(y)
      BY <1>1, <2>1 DEF TenantsInv, ReadingsFit
    <3> QED BY <1>3, <3>1
  <2>2. (\A q \in Requests : job[q] # NoJob => Fits(job[q]))'
    BY <2>1 DEF Fits, StandingOf, InPlace, Seated
  <2>3. (\A p, q \in Requests : Doing(p, "seat") /\ Doing(q, "seat") /\ job[p].user = job[q].user => p = q)'
    BY <1>1 DEF TenantsInv, ReadingsFit, Doing
  <2> QED BY <2>2, <2>3 DEF ReadingsFit
<1>5. BadgesAreMade' /\ SuspensionTakesHold'
  BY <1>1 DEF TenantsInv, BadgesAreMade, SuspensionTakesHold, StandingOf
<1>6. x.kind # "unseat" => RemovalsCount'
  BY <1>1 DEF TenantsInv, RemovalsCount, Doing, Operators, PeopleOf, InPlace, Seated
<1>7. x.kind # "seat" => InvitationsAreNew'
  BY <1>1 DEF TenantsInv, InvitationsAreNew, Doing, EmailTaken, PeopleOf, InPlace, Seated
<1>8. ASSUME x.kind \notin {"role", "dissolve"} PROVE RemovalsKnowRoles'
  <2>1. \A q \in Requests : job'[q] # NoJob /\ job'[q].kind \in {"role", "dissolve"} => job'[q] = job[q]
    BY <1>1, <1>8
  <2> SUFFICES ASSUME NEW o \in OwnRoles, o \notin overlapped'
               PROVE  /\ ownerOf[o] # "everybody"
                      /\ \A d \in Requests : job'[d] # NoJob /\ job'[d].kind = "dissolve" =>
                            /\ ownerOf[o] = job'[d].tenant => o \in job'[d].roles
                            /\ \A q \in Requests : ~(job'[q] # NoJob /\ job'[q].kind = "role" /\ job'[q].role = o)
    BY <1>1 DEF RemovalsKnowRoles, Doing
  <2>2. /\ ownerOf[o] # "everybody"
        /\ \A d \in Requests : job[d] # NoJob /\ job[d].kind = "dissolve" =>
              /\ ownerOf[o] = job[d].tenant => o \in job[d].roles
              /\ \A q \in Requests : ~(job[q] # NoJob /\ job[q].kind = "role" /\ job[q].role = o)
    BY DEF TenantsInv, RemovalsKnowRoles, Doing
  <2> QED BY <2>1, <2>2
<1> QED BY <1>2, <1>4, <1>5, <1>6, <1>7, <1>8

LEMMA AsksToEnterStep == ASSUME TenantsInv, NEW r \in Requests, NEW u \in Users, AsksToEnter(r, u) PROVE TenantsInv'
<1> DEFINE x == [kind |-> "enter", user |-> u, seat |-> seats[u]]
<1>1. Reads(r, x) /\ overlapped' = overlapped /\ Seated(u) /\ StandingOf(seats[u].place) = "active"
  BY DEF AsksToEnter, Admits
<1>2. seats[u] \in Seat /\ overlapped \subseteq {"operators", "emails"} \cup OwnRoles \cup Tenants
  BY <1>1 DEF TenantsInv, TenantsTypeOK, Seated
<1>3. x \in Job
  BY <1>2 DEF Job
<1>4. x.kind = "enter" /\ Fits(x)
  BY <1>1 DEF Fits
<1> HIDE DEF x
<1> QED BY <1>1, <1>2, <1>3, <1>4, ReadStep DEF TenantsInv

LEMMA DesignatesStep ==
    ASSUME TenantsInv, NEW r \in Requests, NEW by \in Users, NEW u \in Users, NEW theirs \in Seat, Designates(r, by, u, theirs)
    PROVE  TenantsInv'
<1> DEFINE x == [kind |-> "seat", user |-> u, seat |-> theirs, founds |-> StandingOf(theirs.place) = "planned"]
<1>1. /\ Reads(r, x) /\ seats[u] = NoSeat /\ ~EmailTaken(theirs)
      /\ \A q \in Requests : ~(Doing(q, "seat") /\ job[q].user = u)
      /\ overlapped' = IF Beside(r, "seat") THEN overlapped \cup {"emails"} ELSE overlapped
  BY DEF Designates
<1>2. overlapped \subseteq {"operators", "emails"} \cup OwnRoles \cup Tenants
  BY DEF TenantsInv, TenantsTypeOK
<1>3. x \in Job
  BY DEF Job
<1>4. x.kind = "seat" /\ x.user = u /\ x.seat = theirs /\ (x.founds <=> StandingOf(theirs.place) = "planned")
  OBVIOUS
<1> HIDE DEF x
<1>5. Fits(x)
  BY <1>1, <1>4, TenantsAssumption DEF Fits, StandingOf
<1>6. /\ TenantsTypeOK' /\ ReadingsFit' /\ BadgesAreMade' /\ SuspensionTakesHold'
      /\ RemovalsCount' /\ RemovalsKnowRoles'
  BY <1>1, <1>2, <1>3, <1>4, <1>5, ReadStep
<1>7. InvitationsAreNew'
  <2>1. /\ job' \in [Requests -> Job \cup {NoJob}] /\ job'[r] = x /\ seats' = seats
        /\ \A q \in Requests : q # r => job'[q] = job[q]
    BY <1>1, <1>3, JobRead DEF TenantsInv
  <2> SUFFICES ASSUME "emails" \notin overlapped'
               PROVE  /\ \A p \in Places : \A v, w \in PeopleOf(p) : seats[v].email = seats[w].email => v = w
                      /\ \A q \in Requests : job'[q] # NoJob /\ job'[q].kind = "seat" => ~EmailTaken(job'[q].seat)
                      /\ \A p, q \in Requests : (job'[p] # NoJob /\ job'[p].kind = "seat")
                                                /\ (job'[q] # NoJob /\ job'[q].kind = "seat") => p = q
    BY <2>1 DEF InvitationsAreNew, Doing, EmailTaken, PeopleOf, InPlace, Seated
  <2>2. "emails" \notin overlapped /\ ~Beside(r, "seat")
    BY <1>1
  <2>3. \A q \in Requests : q # r => ~(job[q] # NoJob /\ job[q].kind = "seat")
    BY <2>2 DEF Beside, Doing
  <2>4. \A p \in Places : \A v, w \in PeopleOf(p) : seats[v].email = seats[w].email => v = w
    BY <2>2 DEF TenantsInv, InvitationsAreNew
  <2>5. \A q \in Requests : job'[q] # NoJob /\ job'[q].kind = "seat" => q = r
    BY <2>1, <2>3
  <2> QED BY <1>1, <1>4, <2>1, <2>4, <2>5
<1> QED BY <1>6, <1>7 DEF TenantsInv

LEMMA RemovesAdministratorStep ==
    ASSUME TenantsInv, NEW r \in Requests, NEW by \in Users, NEW u \in Users, RemovesAdministrator(r, by, u)
    PROVE  TenantsInv'
<1> DEFINE x == [kind |-> "unseat", user |-> u, remaining |-> Counted(u)]
<1>1. /\ Reads(r, x) /\ InPlace(u, Outside)
      /\ overlapped' = IF Beside(r, "unseat") THEN overlapped \cup {"operators"} ELSE overlapped
  BY DEF RemovesAdministrator
<1>2. overlapped \subseteq {"operators", "emails"} \cup OwnRoles \cup Tenants
  BY DEF TenantsInv, TenantsTypeOK
<1>3. x \in Job
  BY DEF Job, Counted, Operators, PeopleOf
<1>4. x.kind = "unseat" /\ x.user = u /\ x.remaining = Operators \ {u}
  BY DEF Counted
<1> HIDE DEF x
<1>5. Fits(x)
  BY <1>1, <1>4 DEF Fits
<1>6. /\ TenantsTypeOK' /\ ReadingsFit' /\ BadgesAreMade' /\ SuspensionTakesHold'
      /\ InvitationsAreNew' /\ RemovalsKnowRoles'
  BY <1>1, <1>2, <1>3, <1>4, <1>5, ReadStep
<1>7. RemovalsCount'
  <2>1. /\ job' \in [Requests -> Job \cup {NoJob}] /\ job'[r] = x /\ seats' = seats
        /\ \A q \in Requests : q # r => job'[q] = job[q]
    BY <1>1, <1>3, JobRead DEF TenantsInv
  <2> SUFFICES ASSUME "operators" \notin overlapped'
               PROVE  /\ Operators # {}
                      /\ \A q \in Requests : job'[q] # NoJob /\ job'[q].kind = "unseat" =>
                            job'[q].remaining \subseteq Operators \ {job'[q].user}
                      /\ \A p, q \in Requests : (job'[p] # NoJob /\ job'[p].kind = "unseat")
                                                /\ (job'[q] # NoJob /\ job'[q].kind = "unseat") => p = q
    BY <2>1 DEF RemovalsCount, Doing, Operators, PeopleOf, InPlace, Seated
  <2>2. "operators" \notin overlapped /\ ~Beside(r, "unseat")
    BY <1>1
  <2>3. \A q \in Requests : q # r => ~(job[q] # NoJob /\ job[q].kind = "unseat")
    BY <2>2 DEF Beside, Doing
  <2>4. Operators # {}
    BY <2>2 DEF TenantsInv, RemovalsCount
  <2>5. \A q \in Requests : job'[q] # NoJob /\ job'[q].kind = "unseat" => q = r
    BY <2>1, <2>3
  <2> QED BY <1>4, <2>1, <2>4, <2>5
<1> QED BY <1>6, <1>7 DEF TenantsInv

\* Removals of tenants and roles under way, in the next state.
LEMMA RolesOfNext ==
    ASSUME ownerOf' = ownerOf,
           \A o \in OwnRoles : o \notin overlapped' =>
              /\ ownerOf[o] # "everybody"
              /\ \A d \in Requests : job'[d] # NoJob /\ job'[d].kind = "dissolve" =>
                    /\ ownerOf[o] = job'[d].tenant => o \in job'[d].roles
                    /\ \A q \in Requests : ~(job'[q] # NoJob /\ job'[q].kind = "role" /\ job'[q].role = o)
    PROVE  RemovalsKnowRoles'
BY DEF RemovalsKnowRoles, Doing

LEMMA MakesRoleStep ==
    ASSUME TenantsInv, NEW r \in Requests, NEW t \in Tenants, NEW o \in OwnRoles, MakesRole(r, t, o)
    PROVE  TenantsInv'
<1> DEFINE x == [kind |-> "role", role |-> o, tenant |-> t]
<1>1. /\ Reads(r, x) /\ \E b \in badges : b.place = t
      /\ overlapped' = IF Beside(r, "dissolve") THEN overlapped \cup {o} ELSE overlapped
  BY DEF MakesRole
<1>2. overlapped \subseteq {"operators", "emails"} \cup OwnRoles \cup Tenants
  BY DEF TenantsInv, TenantsTypeOK
<1>3. x \in Job /\ x.kind = "role" /\ x.role = o /\ x.tenant = t
  BY DEF Job
<1> HIDE DEF x
<1>4. Fits(x)
  <2>1. standing[t] # "planned"
    BY <1>1, TenantsAssumption DEF TenantsInv, BadgesAreMade, StandingOf
  <2> QED BY <1>3, <2>1 DEF Fits
<1>5. /\ TenantsTypeOK' /\ ReadingsFit' /\ BadgesAreMade' /\ SuspensionTakesHold'
      /\ RemovalsCount' /\ InvitationsAreNew'
  BY <1>1, <1>2, <1>3, <1>4, ReadStep
<1>6. RemovalsKnowRoles'
  <2>1. /\ job' \in [Requests -> Job \cup {NoJob}] /\ job'[r] = x /\ ownerOf' = ownerOf
        /\ \A q \in Requests : q # r => job'[q] = job[q]
    BY <1>1, <1>3, JobRead DEF TenantsInv
  <2>2. ASSUME NEW p \in OwnRoles, p \notin overlapped'
        PROVE  /\ ownerOf[p] # "everybody"
               /\ \A d \in Requests : job'[d] # NoJob /\ job'[d].kind = "dissolve" =>
                     /\ ownerOf[p] = job'[d].tenant => p \in job'[d].roles
                     /\ \A q \in Requests : ~(job'[q] # NoJob /\ job'[q].kind = "role" /\ job'[q].role = p)
    <3>1. p \notin overlapped
      BY <1>1, <2>2
    <3>2. /\ ownerOf[p] # "everybody"
          /\ \A d \in Requests : job[d] # NoJob /\ job[d].kind = "dissolve" =>
                /\ ownerOf[p] = job[d].tenant => p \in job[d].roles
                /\ \A q \in Requests : ~(job[q] # NoJob /\ job[q].kind = "role" /\ job[q].role = p)
      BY <3>1 DEF TenantsInv, RemovalsKnowRoles, Doing
    <3>3. \A d \in Requests : job'[d] # NoJob /\ job'[d].kind = "dissolve" => d # r /\ job'[d] = job[d]
      BY <1>3, <2>1
    <3>4. (\E d \in Requests : job'[d] # NoJob /\ job'[d].kind = "dissolve") => p # o
      BY <1>1, <2>2, <3>3 DEF Beside, Doing
    <3> QED BY <1>3, <2>1, <3>2, <3>3, <3>4
  <2> QED BY <2>1, <2>2, RolesOfNext
<1> QED BY <1>5, <1>6 DEF TenantsInv

LEMMA DissolvesTenantStep ==
    ASSUME TenantsInv, NEW r \in Requests, NEW by \in Users, NEW t \in Tenants, DissolvesTenant(r, by, t)
    PROVE  TenantsInv'
<1> DEFINE x == [kind |-> "dissolve", tenant |-> t, people |-> PeopleOf(t), roles |-> OwnRolesRead(t)]
<1>1. /\ Reads(r, x) /\ standing[t] = "suspended"
      /\ overlapped' = overlapped \cup {o \in OwnRoles : \E q \in Requests : Doing(q, "role") /\ job[q].role = o}
  BY DEF DissolvesTenant
<1>2. overlapped \subseteq {"operators", "emails"} \cup OwnRoles \cup Tenants
  BY DEF TenantsInv, TenantsTypeOK
<1>3. /\ x \in Job /\ x.kind = "dissolve" /\ x.tenant = t /\ x.people = PeopleOf(t)
      /\ x.roles = {o \in OwnRoles : ownerOf[o] = t}
  BY DEF Job, PeopleOf, OwnRolesRead, RolesOf
<1> HIDE DEF x
<1>4. Fits(x)
  BY <1>1, <1>3 DEF Fits, PeopleOf
<1>5. /\ TenantsTypeOK' /\ ReadingsFit' /\ BadgesAreMade' /\ SuspensionTakesHold'
      /\ RemovalsCount' /\ InvitationsAreNew'
  BY <1>1, <1>2, <1>3, <1>4, ReadStep
<1>6. RemovalsKnowRoles'
  <2>1. /\ job' \in [Requests -> Job \cup {NoJob}] /\ job'[r] = x /\ ownerOf' = ownerOf
        /\ \A q \in Requests : q # r => job'[q] = job[q]
    BY <1>1, <1>3, JobRead DEF TenantsInv
  <2>2. ASSUME NEW p \in OwnRoles, p \notin overlapped'
        PROVE  /\ ownerOf[p] # "everybody"
               /\ \A d \in Requests : job'[d] # NoJob /\ job'[d].kind = "dissolve" =>
                     /\ ownerOf[p] = job'[d].tenant => p \in job'[d].roles
                     /\ \A q \in Requests : ~(job'[q] # NoJob /\ job'[q].kind = "role" /\ job'[q].role = p)
    <3>1. p \notin overlapped /\ \A q \in Requests : ~(job[q] # NoJob /\ job[q].kind = "role" /\ job[q].role = p)
      BY <1>1, <2>2 DEF Doing
    <3>2. /\ ownerOf[p] # "everybody"
          /\ \A d \in Requests : job[d] # NoJob /\ job[d].kind = "dissolve" =>
                (ownerOf[p] = job[d].tenant => p \in job[d].roles)
      BY <3>1 DEF TenantsInv, RemovalsKnowRoles, Doing
    <3> QED BY <1>3, <2>1, <3>1, <3>2
  <2> QED BY <2>1, <2>2, RolesOfNext
<1> QED BY <1>5, <1>6 DEF TenantsInv

-----------------------------------------------------------------------------
(* A request that writes.                                                   *)

LEMMA JobDone ==
    ASSUME TenantsTypeOK, NEW r \in Requests, Done(r)
    PROVE  /\ job' \in [Requests -> Job \cup {NoJob}]
           /\ \A q \in Requests : job'[q] # NoJob => q # r /\ job'[q] = job[q]
           /\ now' = now /\ closedAt' = closedAt /\ slipped' = slipped /\ overlapped' = overlapped
BY DEF Done, TenantsTypeOK

\* What a request writes breaks no reading of another that still fits.
LEMMA WriteStep ==
    ASSUME TenantsInv, NEW r \in Requests, Done(r),
           \A q \in Requests : \A y : q # r /\ y = job[q] /\ y # NoJob => Fits(y)'
    PROVE  ReadingsFit'
<1>1. /\ \A q \in Requests : job'[q] # NoJob => q # r /\ job'[q] = job[q]
  BY JobDone DEF TenantsInv
<1>2. (\A q \in Requests : job[q] # NoJob => Fits(job[q]))'
  <2>1. ASSUME NEW q \in Requests, NEW y, y = job'[q], y # NoJob PROVE Fits(y)'
    BY <1>1, <2>1
  <2> QED BY <2>1 DEF Fits, StandingOf, InPlace, Seated
<1>3. (\A p, q \in Requests : Doing(p, "seat") /\ Doing(q, "seat") /\ job[p].user = job[q].user => p = q)'
  BY <1>1 DEF TenantsInv, ReadingsFit, Doing
<1> QED BY <1>2, <1>3 DEF ReadingsFit

\* The other parts hold as long as what they speak of does not change, or only
\* by people who leave.
LEMMA WriteKeeps ==
    ASSUME TenantsInv, NEW r \in Requests, Done(r)
    PROVE  /\ badges' = badges /\ standing' = standing => BadgesAreMade' /\ SuspensionTakesHold'
           /\ seats' = seats => RemovalsCount'
           /\ (\A u \in Users : seats'[u] \in {seats[u], Left}) => InvitationsAreNew'
           /\ ownerOf' = ownerOf => RemovalsKnowRoles'
<1>1. /\ \A q \in Requests : job'[q] # NoJob => job'[q] = job[q]
      /\ now' = now /\ closedAt' = closedAt /\ slipped' = slipped /\ overlapped' = overlapped
  BY JobDone DEF TenantsInv
<1>2. badges' = badges /\ standing' = standing => BadgesAreMade' /\ SuspensionTakesHold'
  BY <1>1 DEF TenantsInv, BadgesAreMade, SuspensionTakesHold, StandingOf
<1>3. seats' = seats => RemovalsCount'
  BY <1>1 DEF TenantsInv, RemovalsCount, Doing, Operators, PeopleOf, InPlace, Seated
<1>4. ASSUME \A u \in Users : seats'[u] \in {seats[u], Left} PROVE InvitationsAreNew'
  BY <1>1, <1>4 DEF TenantsInv, InvitationsAreNew, Doing, EmailTaken, PeopleOf, InPlace, Seated
<1>5. ASSUME ownerOf' = ownerOf PROVE RemovalsKnowRoles'
  <2>1. \A o \in OwnRoles : o \notin overlapped' =>
          /\ ownerOf[o] # "everybody"
          /\ \A d \in Requests : job'[d] # NoJob /\ job'[d].kind = "dissolve" =>
                /\ ownerOf[o] = job'[d].tenant => o \in job'[d].roles
                /\ \A q \in Requests : ~(job'[q] # NoJob /\ job'[q].kind = "role" /\ job'[q].role = o)
    BY <1>1 DEF TenantsInv, RemovalsKnowRoles, Doing
  <2> QED BY <1>5, <2>1, RolesOfNext
<1> QED BY <1>2, <1>3, <1>4, <1>5

LEMMA EntersStep == ASSUME TenantsInv, NEW r \in Requests, Enters(r) PROVE TenantsInv'
<1> DEFINE x == job[r]
           new == [user |-> x.user, place |-> x.seat.place, operator |-> x.seat.operator, until |-> now + SeatTtl]
<1>1. /\ x # NoJob /\ x.kind = "enter" /\ Done(r)
      /\ standing' = standing /\ seats' = seats /\ ownerOf' = ownerOf
      /\ badges' = {b \in badges : b.user # x.user} \cup {new}
  BY DEF Enters, Doing
<1>2. x \in Job /\ Fits(x)
  BY <1>1 DEF TenantsInv, TenantsTypeOK, ReadingsFit
<1>3. /\ job' \in [Requests -> Job \cup {NoJob}]
      /\ now' = now /\ closedAt' = closedAt /\ slipped' = slipped /\ overlapped' = overlapped
  BY <1>1, JobDone DEF TenantsInv
<1>4. now + SeatTtl \in Nat
  BY TenantsAssumption DEF TenantsInv, TenantsTypeOK, Time
<1>5. new \in Badge
  BY <1>1, <1>2, <1>4, JobFields DEF Badge, Seat
<1>6. TenantsTypeOK'
  BY <1>1, <1>3, <1>5 DEF TenantsInv, TenantsTypeOK, PeopleOf, InPlace, Seated, RolesOf
<1>7. ReadingsFit'
  <2>1. ASSUME NEW y, Fits(y) PROVE Fits(y)'
    BY <1>1, <1>3, <2>1 DEF Fits, StandingOf, InPlace, Seated
  <2> QED BY <1>1, <2>1, WriteStep DEF TenantsInv, ReadingsFit
<1> HIDE DEF new
<1>8. /\ new.place = x.seat.place /\ new.user = x.user /\ new.until = now + SeatTtl
      /\ \A b \in badges' : b \in badges \/ b = new
  BY <1>1 DEF new
<1>9. BadgesAreMade'
  <2>1. new.until <= now + SeatTtl
    BY <1>4, <1>8
  <2>2. StandingOf(new.place) # "planned"
    BY <1>1, <1>2, <1>8 DEF Fits
  <2>3. \A b \in badges' : StandingOf(b.place) # "planned" /\ b.until <= now + SeatTtl
    BY <1>8, <2>1, <2>2 DEF TenantsInv, BadgesAreMade
  <2> QED BY <1>1, <1>3, <2>3 DEF BadgesAreMade, StandingOf
<1>10. SuspensionTakesHold'
  <2>1. ~(StandingOf(new.place) # "active" /\ new.user \notin slipped /\ new.place \notin overlapped)
    BY <1>1, <1>2, <1>8 DEF Fits
  <2>2. \A b \in badges' : StandingOf(b.place) # "active" /\ b.user \notin slipped /\ b.place \notin overlapped =>
           b.until <= closedAt[b.place] + SeatTtl
    BY <1>8, <2>1 DEF TenantsInv, SuspensionTakesHold
  <2> QED BY <1>1, <1>3, <2>2 DEF SuspensionTakesHold, StandingOf
<1>11. RemovalsCount' /\ InvitationsAreNew' /\ RemovalsKnowRoles'
  BY <1>1, WriteKeeps
<1> QED BY <1>6, <1>7, <1>9, <1>10, <1>11 DEF TenantsInv

LEMMA TakesSeatStep == ASSUME TenantsInv, NEW r \in Requests, TakesSeat(r) PROVE TenantsInv'
<1> DEFINE x == job[r]
           u == x.user
           p == x.seat.place
<1>1. x # NoJob /\ x.kind = "seat" /\ Done(r) /\ ownerOf' = ownerOf /\ badges' = badges
  BY DEF TakesSeat, Doing
<1>2. x \in Job /\ Fits(x)
  BY <1>1 DEF TenantsInv, TenantsTypeOK, ReadingsFit
<1>3. /\ job' \in [Requests -> Job \cup {NoJob}]
      /\ \A q \in Requests : job'[q] # NoJob => q # r /\ job'[q] = job[q]
      /\ now' = now /\ closedAt' = closedAt /\ slipped' = slipped /\ overlapped' = overlapped
  BY <1>1, JobDone DEF TenantsInv
<1>4. u \in Users /\ x.seat \in Seat /\ p \in Places /\ seats[u] = NoSeat
  BY <1>1, <1>2, JobFields DEF Fits, Seat
<1>5. CASE seats' = seats /\ standing' = standing
  <2>1. TenantsTypeOK'
    BY <1>1, <1>3, <1>5 DEF TenantsInv, TenantsTypeOK, PeopleOf, InPlace, Seated, RolesOf
  <2>2. ASSUME NEW y, Fits(y) PROVE Fits(y)'
    BY <1>1, <1>3, <1>5, <2>2 DEF Fits, StandingOf, InPlace, Seated
  <2>3. ReadingsFit'
    BY <1>1, <2>2, WriteStep DEF TenantsInv, ReadingsFit
  <2> QED BY <1>1, <1>5, <2>1, <2>3, WriteKeeps DEF TenantsInv
<1>6. CASE /\ seats' = [seats EXCEPT ![u] = x.seat]
           /\ \/ p \in Tenants /\ standing[p] = "planned" /\ standing' = [standing EXCEPT ![p] = "active"]
              \/ StandingOf(p) \notin {"planned", "gone"} /\ standing' = standing
  <2>1. /\ seats' \in [Users -> Seat \cup {NoSeat, Left}] /\ seats'[u] = x.seat
        /\ \A v \in Users : v # u => seats'[v] = seats[v]
    BY <1>4, <1>6 DEF TenantsInv, TenantsTypeOK
  <2>2. /\ standing' \in [Tenants -> {"planned", "active", "suspended", "gone"}]
        /\ \A t \in Tenants : standing'[t] = standing[t] \/ (t = p /\ standing[t] = "planned" /\ standing'[t] = "active")
        /\ p \in Tenants => standing'[p] \notin {"planned", "gone"}
    BY <1>6, TenantsAssumption DEF TenantsInv, TenantsTypeOK, StandingOf
  <2>3. TenantsTypeOK'
    <3>1. ASSUME NEW t \in Tenants, standing'[t] \in {"planned", "gone"} PROVE PeopleOf(t)' = {} /\ RolesOf(t)' = {}
      <4>1. standing[t] = standing'[t] /\ t # p
        BY <2>2, <3>1
      <4>2. PeopleOf(t) = {} /\ RolesOf(t) = {}
        BY <3>1, <4>1 DEF TenantsInv, TenantsTypeOK
      <4> QED BY <1>1, <2>1, <4>1, <4>2 DEF PeopleOf, RolesOf, InPlace, Seated
    <3> QED BY <1>1, <1>3, <2>1, <2>2, <3>1 DEF TenantsInv, TenantsTypeOK
  <2>4. ASSUME NEW q \in Requests, NEW y, q # r, y = job[q], y # NoJob PROVE Fits(y)'
    <3>1. y \in Job /\ Fits(y) /\ (y.kind = "seat" => y.user # u)
      BY <1>1, <2>4 DEF TenantsInv, TenantsTypeOK, ReadingsFit, Doing
    <3>2. \A z : StandingOf(z) # "planned" /\ (z = Outside \/ z \in Tenants) =>
             (StandingOf(z))' = StandingOf(z)
      BY <2>2 DEF StandingOf
    <3>3. \A v \in Users : v # u \/ seats[v] # NoSeat => seats'[v] = seats[v]
      BY <1>4, <2>1
    <3>4. CASE y.kind = "enter"
      <4>1. /\ y.user \in Users /\ y.seat \in Seat /\ (y.seat.place = Outside \/ y.seat.place \in Tenants)
            /\ y.seat # NoSeat
        BY <3>1, <3>4, JobFields, TenantsNullsAssumption DEF Seat, Places
      <4>2. (StandingOf(y.seat.place))' = StandingOf(y.seat.place)
        BY <3>1, <3>2, <3>4, <4>1 DEF Fits
      <4>3. y.seat.place \in Tenants => seats'[y.user] = y.seat \/ standing'[y.seat.place] = "gone"
        BY <2>2, <3>1, <3>3, <3>4, <4>1 DEF Fits
      <4> QED BY <1>3, <3>1, <3>4, <4>2, <4>3 DEF Fits
    <3>5. CASE y.kind = "seat"
      <4>1. y.user \in Users /\ y.seat \in Seat /\ (y.seat.place = Outside \/ y.seat.place \in Tenants)
        BY <3>1, <3>5, JobFields DEF Seat, Places
      <4>2. seats'[y.user] = NoSeat
        BY <2>1, <3>1, <3>5, <4>1 DEF Fits
      <4>3. IF y.founds THEN y.seat.place # Outside ELSE (StandingOf(y.seat.place))' # "planned"
        BY <3>1, <3>2, <3>5, <4>1 DEF Fits
      <4> QED BY <3>5, <4>2, <4>3 DEF Fits
    <3>6. CASE y.kind = "unseat"
      <4>1. y.user \in Users /\ seats[y.user] # NoSeat
        BY <3>1, <3>6, JobFields, TenantsNullsAssumption DEF Fits, InPlace, Seated
      <4> QED BY <3>1, <3>3, <3>6, <4>1 DEF Fits, InPlace, Seated
    <3>7. CASE y.kind = "role"
      BY <2>2, <3>1, <3>7, JobFields DEF Fits
    <3>8. CASE y.kind = "dissolve"
      <4>1. \A v \in y.people : v \in Users /\ seats[v] # NoSeat
        BY <3>1, <3>8, JobFields, TenantsNullsAssumption DEF Fits, InPlace, Seated
      <4>2. y.tenant \in Tenants /\ standing'[y.tenant] = standing[y.tenant]
        BY <2>2, <3>1, <3>8, JobFields DEF Fits
      <4> QED BY <1>3, <3>1, <3>3, <3>8, <4>1, <4>2 DEF Fits, InPlace, Seated
    <3> QED BY <3>1, <3>4, <3>5, <3>6, <3>7, <3>8, JobFields
  <2>5. ReadingsFit'
    BY <1>1, <2>4, WriteStep
  <2>6. BadgesAreMade' /\ SuspensionTakesHold'
    <3>1. \A b \in badges : StandingOf(b.place) # "planned" /\ (b.place = Outside \/ b.place \in Tenants)
      BY DEF TenantsInv, TenantsTypeOK, BadgesAreMade, Badge, Places
    <3>2. \A b \in badges : (StandingOf(b.place))' = StandingOf(b.place)
      BY <2>2, <3>1 DEF StandingOf
    <3> QED BY <1>1, <1>3, <3>2 DEF TenantsInv, BadgesAreMade, SuspensionTakesHold
  <2>7. RemovalsCount'
    <3>1. Operators \subseteq Operators'
      BY <1>4, <2>1 DEF Operators, PeopleOf, InPlace, Seated
    <3>2. SUFFICES ASSUME "operators" \notin overlapped
                   PROVE  /\ Operators' # {}
                          /\ \A q \in Requests : job'[q] # NoJob /\ job'[q].kind = "unseat" =>
                                job'[q].remaining \subseteq Operators' \ {job'[q].user}
                          /\ \A q, w \in Requests : (job'[q] # NoJob /\ job'[q].kind = "unseat")
                                                    /\ (job'[w] # NoJob /\ job'[w].kind = "unseat") => q = w
      BY <1>3 DEF RemovalsCount, Doing
    <3>3. /\ Operators # {}
          /\ \A q \in Requests : job[q] # NoJob /\ job[q].kind = "unseat" =>
                job[q].remaining \subseteq Operators \ {job[q].user}
          /\ \A q, w \in Requests : (job[q] # NoJob /\ job[q].kind = "unseat")
                                    /\ (job[w] # NoJob /\ job[w].kind = "unseat") => q = w
      BY <3>2 DEF TenantsInv, RemovalsCount, Doing
    <3> QED BY <1>3, <3>1, <3>3
  <2>8. InvitationsAreNew'
    <3> SUFFICES ASSUME "emails" \notin overlapped
                 PROVE  /\ \A t \in Places : \A v, w \in (PeopleOf(t))' : seats'[v].email = seats'[w].email => v = w
                        /\ \A q \in Requests : ~(job'[q] # NoJob /\ job'[q].kind = "seat")
      BY <1>3 DEF InvitationsAreNew, Doing
    <3>1. /\ \A t \in Places : \A v, w \in PeopleOf(t) : seats[v].email = seats[w].email => v = w
          /\ ~EmailTaken(x.seat)
          /\ \A q \in Requests : job[q] # NoJob /\ job[q].kind = "seat" => q = r
      BY <1>1 DEF TenantsInv, InvitationsAreNew, Doing
    <3>2. \A t \in Places : \A v \in (PeopleOf(t))' :
             \/ v # u /\ v \in PeopleOf(t) /\ seats'[v] = seats[v]
             \/ v = u /\ t = p /\ seats'[v] = x.seat
      BY <1>4, <2>1 DEF PeopleOf, InPlace, Seated
    <3>3. \A v \in PeopleOf(p) : seats[v].email # x.seat.email
      BY <3>1 DEF EmailTaken
    <3> QED BY <1>3, <3>1, <3>2, <3>3
  <2> QED BY <1>1, <2>3, <2>5, <2>6, <2>7, <2>8, WriteKeeps DEF TenantsInv
<1>7. (seats' = seats /\ standing' = standing)
      \/ /\ seats' = [seats EXCEPT ![u] = x.seat]
         /\ \/ p \in Tenants /\ standing[p] = "planned" /\ standing' = [standing EXCEPT ![p] = "active"]
            \/ StandingOf(p) \notin {"planned", "gone"} /\ standing' = standing
  <2>1. CASE x.founds
    <3>1. p \in Tenants
      BY <1>1, <1>2, <1>4, <2>1 DEF Fits, Places
    <3> QED BY <2>1, <3>1 DEF TakesSeat
  <2>2. CASE ~x.founds
    <3>1. StandingOf(p) # "planned"
      BY <1>1, <1>2, <2>2 DEF Fits
    <3> QED BY <2>2, <3>1 DEF TakesSeat
  <2> QED BY <2>1, <2>2
<1> QED BY <1>5, <1>6, <1>7

LEMMA LeavesSeatStep == ASSUME TenantsInv, NEW r \in Requests, LeavesSeat(r) PROVE TenantsInv'
<1> DEFINE x == job[r]
           u == x.user
<1>1. /\ x # NoJob /\ x.kind = "unseat" /\ Done(r)
      /\ standing' = standing /\ ownerOf' = ownerOf /\ badges' = badges
      /\ seats' = IF x.remaining = {} THEN seats ELSE [seats EXCEPT ![u] = Left]
  BY DEF LeavesSeat, Doing
<1>2. x \in Job /\ Fits(x)
  BY <1>1 DEF TenantsInv, TenantsTypeOK, ReadingsFit
<1>3. /\ job' \in [Requests -> Job \cup {NoJob}]
      /\ \A q \in Requests : job'[q] # NoJob => q # r /\ job'[q] = job[q]
      /\ now' = now /\ closedAt' = closedAt /\ slipped' = slipped /\ overlapped' = overlapped
  BY <1>1, JobDone DEF TenantsInv
<1>4. u \in Users /\ (seats[u] = Left \/ InPlace(u, Outside))
  BY <1>1, <1>2, JobFields DEF Fits
<1>5. /\ seats' \in [Users -> Seat \cup {NoSeat, Left}]
      /\ \A v \in Users : v # u => seats'[v] = seats[v]
      /\ seats'[u] \in {seats[u], Left}
  BY <1>1, <1>4 DEF TenantsInv, TenantsTypeOK
<1>6. TenantsTypeOK'
  BY <1>1, <1>3, <1>5 DEF TenantsInv, TenantsTypeOK, PeopleOf, InPlace, Seated, RolesOf
<1>7. ASSUME NEW q \in Requests, NEW y, q # r, y = job[q], y # NoJob PROVE Fits(y)'
  <2>1. y \in Job /\ Fits(y)
    BY <1>7 DEF TenantsInv, TenantsTypeOK, ReadingsFit
  <2>2. CASE y.kind = "enter"
    <3>1. y.user \in Users /\ y.seat \in Seat
      BY <2>1, <2>2, JobFields
    <3>2. y.seat.place \in Tenants => seats'[y.user] = y.seat \/ standing[y.seat.place] = "gone"
      BY <1>4, <1>5, <2>1, <2>2, <3>1, TenantsAssumption, TenantsNullsAssumption DEF Fits, InPlace, Seated
    <3> QED BY <1>1, <1>3, <2>1, <2>2, <3>2 DEF Fits, StandingOf
  <2>3. CASE y.kind = "seat"
    <3>1. y.user \in Users /\ y.user # u /\ seats[y.user] = NoSeat
      BY <1>4, <2>1, <2>3, JobFields, TenantsNullsAssumption DEF Fits, InPlace, Seated
    <3> QED BY <1>1, <1>5, <2>1, <2>3, <3>1 DEF Fits, StandingOf
  <2>4. CASE y.kind = "unseat"
    <3>1. y.user \in Users
      BY <2>1, <2>4, JobFields
    <3> QED BY <1>5, <2>1, <2>4, <3>1 DEF Fits, InPlace, Seated
  <2>5. CASE y.kind = "role"
    BY <1>1, <2>1, <2>5 DEF Fits
  <2>6. CASE y.kind = "dissolve"
    <3>1. y.people \subseteq Users
      BY <2>1, <2>6, JobFields
    <3> QED BY <1>1, <1>3, <1>5, <2>1, <2>6, <3>1 DEF Fits, InPlace, Seated
  <2> QED BY <2>1, <2>2, <2>3, <2>4, <2>5, <2>6, JobFields
<1>8. ReadingsFit'
  BY <1>1, <1>7, WriteStep
<1>9. RemovalsCount'
  <2> SUFFICES ASSUME "operators" \notin overlapped
               PROVE  Operators' # {} /\ \A q \in Requests : ~(job'[q] # NoJob /\ job'[q].kind = "unseat")
    BY <1>3 DEF RemovalsCount, Doing
  <2>1. /\ Operators # {} /\ x.remaining \subseteq Operators \ {u}
        /\ \A q \in Requests : job[q] # NoJob /\ job[q].kind = "unseat" => q = r
    BY <1>1 DEF TenantsInv, RemovalsCount, Doing
  <2>2. Operators \ {u} \subseteq Operators'
    BY <1>5 DEF Operators, PeopleOf, InPlace, Seated
  <2>3. CASE x.remaining = {}
    <3>1. seats' = seats
      BY <1>1, <2>3
    <3>2. Operators' = Operators
      BY <3>1 DEF Operators, PeopleOf, InPlace, Seated
    <3> QED BY <1>3, <2>1, <3>2
  <2>4. CASE x.remaining # {}
    BY <1>3, <2>1, <2>2, <2>4
  <2> QED BY <2>3, <2>4
<1> QED BY <1>1, <1>5, <1>6, <1>8, <1>9, WriteKeeps DEF TenantsInv

LEMMA WritesRoleStep == ASSUME TenantsInv, NEW r \in Requests, WritesRole(r) PROVE TenantsInv'
<1> DEFINE x == job[r]
<1>1. /\ x # NoJob /\ x.kind = "role" /\ Done(r)
      /\ standing' = standing /\ seats' = seats /\ badges' = badges
      /\ ownerOf' = IF standing[x.tenant] = "gone" THEN ownerOf ELSE [ownerOf EXCEPT ![x.role] = x.tenant]
  BY DEF WritesRole, Doing
<1>2. x \in Job /\ Fits(x)
  BY <1>1 DEF TenantsInv, TenantsTypeOK, ReadingsFit
<1>3. /\ job' \in [Requests -> Job \cup {NoJob}]
      /\ \A q \in Requests : job'[q] # NoJob => q # r /\ job'[q] = job[q]
      /\ now' = now /\ closedAt' = closedAt /\ slipped' = slipped /\ overlapped' = overlapped
  BY <1>1, JobDone DEF TenantsInv
<1>4. /\ x.tenant \in Tenants /\ x.role \in OwnRoles /\ standing[x.tenant] # "planned"
  BY <1>1, <1>2, JobFields DEF Fits
<1>5. /\ ownerOf' \in [OwnRoles -> Tenants \cup {"everybody", "nobody"}]
      /\ \A o \in OwnRoles : \/ ownerOf'[o] = ownerOf[o]
                             \/ o = x.role /\ ownerOf'[o] = x.tenant /\ standing[x.tenant] \notin {"planned", "gone"}
  BY <1>1, <1>4 DEF TenantsInv, TenantsTypeOK
<1>6. TenantsTypeOK'
  <2>1. \A t \in Tenants : standing[t] \in {"planned", "gone"} => RolesOf(t)' = {}
    BY <1>5 DEF TenantsInv, TenantsTypeOK, RolesOf
  <2> QED BY <1>1, <1>3, <1>5, <2>1 DEF TenantsInv, TenantsTypeOK, PeopleOf, InPlace, Seated
<1>7. ReadingsFit'
  <2>1. ASSUME NEW y, Fits(y) PROVE Fits(y)'
    BY <1>1, <1>3, <2>1 DEF Fits, StandingOf, InPlace, Seated
  <2> QED BY <1>1, <2>1, WriteStep DEF TenantsInv, ReadingsFit
<1>8. RemovalsKnowRoles'
  <2> SUFFICES ASSUME NEW o \in OwnRoles, o \notin overlapped
               PROVE  /\ ownerOf'[o] # "everybody"
                      /\ \A d \in Requests : job'[d] # NoJob /\ job'[d].kind = "dissolve" =>
                            /\ ownerOf'[o] = job'[d].tenant => o \in job'[d].roles
                            /\ \A q \in Requests : ~(job'[q] # NoJob /\ job'[q].kind = "role" /\ job'[q].role = o)
    BY <1>3 DEF RemovalsKnowRoles, Doing
  <2>1. /\ ownerOf[o] # "everybody"
        /\ \A d \in Requests : job[d] # NoJob /\ job[d].kind = "dissolve" =>
              /\ ownerOf[o] = job[d].tenant => o \in job[d].roles
              /\ \A q \in Requests : ~(job[q] # NoJob /\ job[q].kind = "role" /\ job[q].role = o)
    BY DEF TenantsInv, RemovalsKnowRoles, Doing
  <2>2. CASE o = x.role
    <3>1. \A d \in Requests : ~(job'[d] # NoJob /\ job'[d].kind = "dissolve")
      BY <1>1, <1>3, <2>1, <2>2
    <3>2. ownerOf'[o] # "everybody"
      BY <1>4, <1>5, <2>1, TenantsNullsAssumption
    <3> QED BY <3>1, <3>2
  <2>3. CASE o # x.role
    BY <1>3, <1>5, <2>1, <2>3
  <2> QED BY <2>2, <2>3
<1> QED BY <1>1, <1>6, <1>7, <1>8, WriteKeeps DEF TenantsInv

LEMMA WritesDissolutionStep == ASSUME TenantsInv, NEW r \in Requests, WritesDissolution(r) PROVE TenantsInv'
<1> DEFINE x == job[r]
           t == x.tenant
<1>1. x # NoJob /\ x.kind = "dissolve" /\ Done(r) /\ badges' = badges
  BY DEF WritesDissolution, Doing
<1>2. x \in Job /\ Fits(x)
  BY <1>1 DEF TenantsInv, TenantsTypeOK, ReadingsFit
<1>3. /\ job' \in [Requests -> Job \cup {NoJob}]
      /\ \A q \in Requests : job'[q] # NoJob => q # r /\ job'[q] = job[q]
      /\ now' = now /\ closedAt' = closedAt /\ slipped' = slipped /\ overlapped' = overlapped
  BY <1>1, JobDone DEF TenantsInv
<1>4. CASE ~(standing[t] # "gone" /\ KeysHold(x))
  <2>1. seats' = seats /\ standing' = standing /\ ownerOf' = ownerOf
    BY <1>4 DEF WritesDissolution
  <2>2. TenantsTypeOK'
    BY <1>1, <1>3, <2>1 DEF TenantsInv, TenantsTypeOK, PeopleOf, InPlace, Seated, RolesOf
  <2>3. ASSUME NEW y, Fits(y) PROVE Fits(y)'
    BY <1>1, <1>3, <2>1, <2>3 DEF Fits, StandingOf, InPlace, Seated
  <2>4. ReadingsFit'
    BY <1>1, <2>3, WriteStep DEF TenantsInv, ReadingsFit
  <2> QED BY <1>1, <2>1, <2>2, <2>4, WriteKeeps DEF TenantsInv
<1>5. CASE standing[t] # "gone" /\ KeysHold(x)
  <2>1. /\ standing' = [standing EXCEPT ![t] = "gone"]
        /\ seats' = [u \in Users |-> IF u \in x.people THEN Left ELSE seats[u]]
        /\ ownerOf' = [o \in OwnRoles |-> IF o \in x.roles THEN "nobody"
                                          ELSE IF ownerOf[o] = t THEN "everybody" ELSE ownerOf[o]]
    BY <1>5 DEF WritesDissolution
  <2>2. /\ t \in Tenants /\ x.people \subseteq Users /\ x.roles \subseteq OwnRoles
        /\ \A u \in x.people : seats[u] = Left \/ InPlace(u, t)
        /\ PeopleOf(t) \subseteq x.people
        /\ standing[t] # "planned" /\ (standing[t] = "active" => t \in overlapped)
    BY <1>1, <1>2, <1>5, JobFields DEF Fits, KeysHold
  <2>3. /\ standing' \in [Tenants -> {"planned", "active", "suspended", "gone"}] /\ standing'[t] = "gone"
        /\ \A s \in Tenants : s # t => standing'[s] = standing[s]
    BY <2>1, <2>2 DEF TenantsInv, TenantsTypeOK
  <2>4. /\ seats' \in [Users -> Seat \cup {NoSeat, Left}]
        /\ \A u \in Users : seats'[u] = seats[u] \/ (seats'[u] = Left /\ InPlace(u, t))
        /\ \A u \in Users : InPlace(u, t) => seats'[u] = Left
    <3>1. \A u \in Users : InPlace(u, t) => u \in x.people
      BY <2>2 DEF PeopleOf
    <3> QED BY <2>1, <2>2, <3>1 DEF TenantsInv, TenantsTypeOK
  <2>5. /\ ownerOf' \in [OwnRoles -> Tenants \cup {"everybody", "nobody"}]
        /\ \A o \in OwnRoles : \/ ownerOf'[o] = ownerOf[o] /\ ownerOf[o] # t
                               \/ ownerOf'[o] = "nobody" /\ o \in x.roles
                               \/ ownerOf'[o] = "everybody" /\ ownerOf[o] = t /\ o \notin x.roles
    BY <2>1, <2>2 DEF TenantsInv, TenantsTypeOK
  <2>6. TenantsTypeOK'
    <3>1. ASSUME NEW s \in Tenants, standing'[s] \in {"planned", "gone"} PROVE PeopleOf(s)' = {} /\ RolesOf(s)' = {}
      <4>1. CASE s = t
        <5>1. \A u \in Users : ~(seats'[u] \notin {NoSeat, Left} /\ seats'[u].place = t)
          BY <2>4 DEF InPlace, Seated
        <5>2. \A o \in OwnRoles : ownerOf'[o] # t
          BY <2>2, <2>5, TenantsNullsAssumption
        <5> QED BY <4>1, <5>1, <5>2 DEF PeopleOf, RolesOf, InPlace, Seated
      <4>2. CASE s # t
        <5>1. PeopleOf(s) = {} /\ RolesOf(s) = {}
          BY <2>3, <3>1, <4>2 DEF TenantsInv, TenantsTypeOK
        <5>2. \A u \in Users : ~(seats'[u] \notin {NoSeat, Left} /\ seats'[u].place = s)
          BY <2>4, <5>1 DEF PeopleOf, InPlace, Seated
        <5>3. \A o \in OwnRoles : ownerOf'[o] # s
          BY <2>5, <5>1, TenantsNullsAssumption DEF RolesOf
        <5> QED BY <5>2, <5>3 DEF PeopleOf, RolesOf, InPlace, Seated
      <4> QED BY <4>1, <4>2
    <3> QED BY <1>1, <1>3, <2>3, <2>4, <2>5, <3>1 DEF TenantsInv, TenantsTypeOK
  <2>7. ASSUME NEW q \in Requests, NEW y, q # r, y = job[q], y # NoJob PROVE Fits(y)'
    <3>1. y \in Job /\ Fits(y)
      BY <2>7 DEF TenantsInv, TenantsTypeOK, ReadingsFit
    <3>2. \A z : (z = Outside \/ z \in Tenants) => \/ (StandingOf(z))' = StandingOf(z)
                                                   \/ z = t /\ (StandingOf(z))' = "gone"
      BY <2>3 DEF StandingOf
    <3>3. \A v \in Users : (seats[v] = Left \/ seats[v] = NoSeat) => seats'[v] = seats[v]
      BY <2>4 DEF InPlace, Seated
    <3>4. CASE y.kind = "enter"
      <4>1. /\ y.user \in Users /\ y.seat \in Seat /\ (y.seat.place = Outside \/ y.seat.place \in Tenants)
        BY <3>1, <3>4, JobFields DEF Seat, Places
      <4>2. (StandingOf(y.seat.place))' # "planned"
        BY <3>1, <3>2, <3>4, <4>1 DEF Fits
      <4>3. (StandingOf(y.seat.place))' = "active" \/ y.user \in slipped \/ y.seat.place \in overlapped
        <5>1. StandingOf(t) = standing[t]
          BY <2>2, TenantsAssumption DEF StandingOf
        <5> QED BY <2>2, <3>1, <3>2, <3>4, <4>1, <5>1 DEF Fits
      <4>4. y.seat.place \in Tenants => seats'[y.user] = y.seat \/ standing'[y.seat.place] = "gone"
        <5>1. CASE y.seat.place = t
          BY <2>3, <5>1
        <5>2. CASE y.seat.place # t
          BY <2>3, <2>4, <3>1, <3>4, <4>1, <5>2 DEF Fits, InPlace
        <5> QED BY <5>1, <5>2
      <4> QED BY <1>3, <3>4, <4>2, <4>3, <4>4 DEF Fits
    <3>5. CASE y.kind = "seat"
      <4>1. y.user \in Users /\ y.seat \in Seat /\ (y.seat.place = Outside \/ y.seat.place \in Tenants)
        BY <3>1, <3>5, JobFields DEF Seat, Places
      <4>2. seats'[y.user] = NoSeat
        BY <3>1, <3>3, <3>5, <4>1 DEF Fits
      <4>3. IF y.founds THEN y.seat.place # Outside ELSE (StandingOf(y.seat.place))' # "planned"
        BY <3>1, <3>2, <3>5, <4>1 DEF Fits
      <4> QED BY <3>5, <4>2, <4>3 DEF Fits
    <3>6. CASE y.kind = "unseat"
      <4>1. y.user \in Users /\ (seats[y.user] = Left \/ InPlace(y.user, Outside))
        BY <3>1, <3>6, JobFields DEF Fits
      <4>2. seats'[y.user] = seats[y.user] \/ seats'[y.user] = Left
        BY <2>4, <4>1
      <4> QED BY <3>6, <4>1, <4>2 DEF Fits, InPlace, Seated
    <3>7. CASE y.kind = "role"
      BY <2>3, <3>1, <3>7, JobFields DEF Fits
    <3>8. CASE y.kind = "dissolve"
      <4>1. \A v \in y.people : v \in Users /\ (seats'[v] = seats[v] \/ seats'[v] = Left)
        BY <2>4, <3>1, <3>8, JobFields
      <4>2. y.tenant \in Tenants /\ standing'[y.tenant] \in {standing[y.tenant], "gone"}
        BY <2>3, <3>1, <3>8, JobFields
      <4> QED BY <1>3, <3>1, <3>8, <4>1, <4>2 DEF Fits, InPlace, Seated
    <3> QED BY <3>1, <3>4, <3>5, <3>6, <3>7, <3>8, JobFields
  <2>8. ReadingsFit'
    BY <1>1, <2>7, WriteStep
  <2>9. BadgesAreMade' /\ SuspensionTakesHold'
    <3>1. \A b \in badges : b.place = Outside \/ b.place \in Tenants
      BY DEF TenantsInv, TenantsTypeOK, Badge, Places
    <3>2. ASSUME NEW b \in badges
          PROVE  /\ (StandingOf(b.place))' # "planned"
                 /\ (StandingOf(b.place))' # "active" /\ b.place \notin overlapped => StandingOf(b.place) # "active"
      <4>1. StandingOf(b.place) # "planned"
        BY DEF TenantsInv, BadgesAreMade
      <4>2. CASE b.place = t
        <5>1. b.place # Outside
          BY <2>2, <4>2, TenantsAssumption
        <5>2. (StandingOf(b.place))' = standing'[b.place] /\ StandingOf(b.place) = standing[b.place]
          BY <5>1 DEF StandingOf
        <5> QED BY <2>2, <2>3, <4>2, <5>2
      <4>3. CASE b.place # t
        BY <2>3, <3>1, <4>1, <4>3 DEF StandingOf
      <4> QED BY <4>2, <4>3
    <3>3. BadgesAreMade'
      BY <1>1, <1>3, <3>2 DEF TenantsInv, BadgesAreMade
    <3>4. SuspensionTakesHold'
      BY <1>1, <1>3, <3>2 DEF TenantsInv, SuspensionTakesHold
    <3> QED BY <3>3, <3>4
  <2>10. RemovalsCount'
    <3>1. t # Outside
      BY <2>2, TenantsAssumption
    <3>2. Operators' = Operators
      BY <2>4, <3>1 DEF Operators, PeopleOf, InPlace, Seated
    <3> QED BY <1>3, <3>2 DEF TenantsInv, RemovalsCount, Doing
  <2>11. RemovalsKnowRoles'
    <3> SUFFICES ASSUME NEW o \in OwnRoles, o \notin overlapped
                 PROVE  /\ ownerOf'[o] # "everybody"
                        /\ \A d \in Requests : job'[d] # NoJob /\ job'[d].kind = "dissolve" =>
                              /\ ownerOf'[o] = job'[d].tenant => o \in job'[d].roles
                              /\ \A q \in Requests : ~(job'[q] # NoJob /\ job'[q].kind = "role" /\ job'[q].role = o)
      BY <1>3 DEF RemovalsKnowRoles, Doing
    <3>1. /\ ownerOf[o] # "everybody"
          /\ \A d \in Requests : job[d] # NoJob /\ job[d].kind = "dissolve" =>
                /\ ownerOf[o] = job[d].tenant => o \in job[d].roles
                /\ \A q \in Requests : ~(job[q] # NoJob /\ job[q].kind = "role" /\ job[q].role = o)
      BY DEF TenantsInv, RemovalsKnowRoles, Doing
    <3>2. ownerOf'[o] = ownerOf[o] \/ ownerOf'[o] = "nobody"
      BY <1>1, <2>5, <3>1
    <3>3. \A d \in Requests : job'[d] # NoJob /\ job'[d].kind = "dissolve" => job'[d].tenant \in Tenants
      BY <1>3, JobFields
    <3> QED BY <1>3, <3>1, <3>2, <3>3, TenantsNullsAssumption
  <2>12. InvitationsAreNew'
    BY <1>1, <2>4, WriteKeeps
  <2> QED BY <2>6, <2>8, <2>9, <2>10, <2>11, <2>12 DEF TenantsInv
<1> QED BY <1>4, <1>5

-----------------------------------------------------------------------------
(* An operator stops a tenant, time passes.                                 *)

LEMMA SetsStatusStep ==
    ASSUME TenantsInv, NEW by \in Users, NEW t \in Tenants, NEW status \in {"active", "suspended"},
           SetsStatus(by, t, status)
    PROVE  TenantsInv'
<1>1. /\ standing[t] \in {"active", "suspended"} /\ standing' = [standing EXCEPT ![t] = status]
      /\ closedAt' = [closedAt EXCEPT ![t] = IF status = "suspended" THEN now ELSE Never]
      /\ now' = now /\ seats' = seats /\ ownerOf' = ownerOf /\ badges' = badges /\ job' = job
  BY DEF SetsStatus
<1>2. /\ slipped \subseteq slipped' /\ slipped' \subseteq slipped \cup PeopleOf(t)
      /\ status = "suspended" => {u \in PeopleOf(t) : \E r \in Requests : Doing(r, "enter") /\ job[r].user = u} \subseteq slipped'
  BY DEF SetsStatus
<1>3. /\ overlapped \subseteq overlapped' /\ overlapped' \subseteq overlapped \cup {t}
      /\ (\E r \in Requests : Doing(r, "dissolve") /\ job[r].tenant = t) => t \in overlapped'
  BY DEF SetsStatus
<1>4. /\ standing' \in [Tenants -> {"planned", "active", "suspended", "gone"}] /\ standing'[t] = status
      /\ \A s \in Tenants : s # t => standing'[s] = standing[s]
      /\ closedAt' \in [Tenants -> Time \cup {Never}]
      /\ status = "suspended" => closedAt'[t] = now
      /\ \A s \in Tenants : s # t => closedAt'[s] = closedAt[s]
  BY <1>1 DEF TenantsInv, TenantsTypeOK
<1>5. TenantsTypeOK'
  <2>1. PeopleOf(t) \subseteq Users
    BY DEF PeopleOf
  <2>2. \A s \in Tenants : standing'[s] \in {"planned", "gone"} => standing[s] \in {"planned", "gone"}
    BY <1>4
  <2> QED BY <1>1, <1>2, <1>3, <1>4, <2>1, <2>2 DEF TenantsInv, TenantsTypeOK, PeopleOf, InPlace, Seated, RolesOf
<1>6. \A z : (z = Outside \/ z \in Tenants) => \/ (StandingOf(z))' = StandingOf(z)
                                               \/ z = t /\ (StandingOf(z))' = status
  BY <1>4 DEF StandingOf
<1>7. ASSUME NEW q \in Requests, NEW y, y = job[q], y # NoJob PROVE Fits(y)'
  <2>1. y \in Job /\ Fits(y)
    BY <1>7 DEF TenantsInv, TenantsTypeOK, ReadingsFit
  <2>2. CASE y.kind = "enter"
    <3>1. /\ y.user \in Users /\ y.seat \in Seat /\ (y.seat.place = Outside \/ y.seat.place \in Tenants)
      BY <2>1, <2>2, JobFields DEF Seat, Places
    <3>2. (StandingOf(y.seat.place))' # "planned"
      BY <1>6, <2>1, <2>2, <3>1 DEF Fits
    <3>3. y.seat.place \in Tenants => seats[y.user] = y.seat \/ standing'[y.seat.place] = "gone"
      BY <1>1, <1>4, <2>1, <2>2 DEF Fits
    <3>4. (StandingOf(y.seat.place))' = "active" \/ y.user \in slipped' \/ y.seat.place \in overlapped'
      <4>1. CASE y.seat.place = t /\ status = "suspended"
        <5>1. seats[y.user] = y.seat
          BY <1>1, <2>1, <2>2, <4>1 DEF Fits
        <5>2. y.user \in PeopleOf(t)
          BY <3>1, <4>1, <5>1, TenantsNullsAssumption DEF PeopleOf, InPlace, Seated
        <5> QED BY <1>2, <1>7, <2>2, <4>1, <5>2 DEF Doing
      <4>2. CASE ~(y.seat.place = t /\ status = "suspended")
        BY <1>2, <1>3, <1>6, <2>1, <2>2, <3>1, <4>2 DEF Fits
      <4> QED BY <4>1, <4>2
    <3> QED BY <1>1, <2>2, <3>2, <3>3, <3>4 DEF Fits
  <2>3. CASE y.kind = "seat"
    <3>1. y.user \in Users /\ y.seat \in Seat /\ (y.seat.place = Outside \/ y.seat.place \in Tenants)
      BY <2>1, <2>3, JobFields DEF Seat, Places
    <3>2. IF y.founds THEN y.seat.place # Outside ELSE (StandingOf(y.seat.place))' # "planned"
      BY <1>6, <2>1, <2>3, <3>1 DEF Fits
    <3> QED BY <1>1, <2>1, <2>3, <3>2 DEF Fits
  <2>4. CASE y.kind = "unseat"
    BY <1>1, <2>1, <2>4 DEF Fits, InPlace, Seated
  <2>5. CASE y.kind = "role"
    BY <1>4, <2>1, <2>5, JobFields DEF Fits
  <2>6. CASE y.kind = "dissolve"
    <3>1. y.tenant = t => t \in overlapped'
      BY <1>3, <1>7, <2>6 DEF Doing
    <3> QED BY <1>1, <1>3, <1>4, <2>1, <2>6, <3>1, JobFields DEF Fits, InPlace, Seated
  <2> QED BY <2>1, <2>2, <2>3, <2>4, <2>5, <2>6, JobFields
<1>8. ReadingsFit'
  <2>1. (\A q \in Requests : job[q] # NoJob => Fits(job[q]))'
    <3>1. ASSUME NEW q \in Requests, NEW y, y = job'[q], y # NoJob PROVE Fits(y)'
      BY <1>1, <1>7, <3>1
    <3> QED BY <3>1 DEF Fits, StandingOf, InPlace, Seated
  <2> QED BY <1>1, <2>1 DEF TenantsInv, ReadingsFit, Doing
<1>9. \A b \in badges : b.place = Outside \/ b.place \in Tenants
  BY DEF TenantsInv, TenantsTypeOK, Badge, Places
<1>10. BadgesAreMade'
  BY <1>1, <1>6, <1>9 DEF TenantsInv, BadgesAreMade
<1>11. SuspensionTakesHold'
  <2> SUFFICES ASSUME NEW b \in badges, (StandingOf(b.place))' # "active", b.user \notin slipped', b.place \notin overlapped'
               PROVE  b.until <= closedAt'[b.place] + SeatTtl
    BY <1>1 DEF SuspensionTakesHold
  <2>1. b.place \in Tenants
    BY <1>9 DEF StandingOf
  <2>2. CASE b.place = t
    <3>1. status = "suspended"
      BY <1>4, <2>1, <2>2 DEF StandingOf
    <3>2. closedAt'[b.place] = now
      BY <1>4, <2>2, <3>1
    <3> QED BY <3>2 DEF TenantsInv, BadgesAreMade
  <2>3. CASE b.place # t
    <3>1. closedAt'[b.place] = closedAt[b.place] /\ StandingOf(b.place) # "active"
      BY <1>4, <1>6, <2>1, <2>3
    <3> QED BY <1>2, <1>3, <3>1 DEF TenantsInv, SuspensionTakesHold
  <2> QED BY <2>2, <2>3
<1>12. RemovalsCount'
  BY <1>1, <1>3 DEF TenantsInv, RemovalsCount, Doing, Operators, PeopleOf, InPlace, Seated
<1>13. InvitationsAreNew'
  BY <1>1, <1>3 DEF TenantsInv, InvitationsAreNew, Doing, EmailTaken, PeopleOf, InPlace, Seated
<1>14. RemovalsKnowRoles'
  <2>1. \A o \in OwnRoles : o \notin overlapped' =>
          /\ ownerOf[o] # "everybody"
          /\ \A d \in Requests : job[d] # NoJob /\ job[d].kind = "dissolve" =>
                /\ ownerOf[o] = job[d].tenant => o \in job[d].roles
                /\ \A q \in Requests : ~(job[q] # NoJob /\ job[q].kind = "role" /\ job[q].role = o)
    BY <1>3 DEF TenantsInv, RemovalsKnowRoles, Doing
  <2> QED BY <1>1, <2>1, RolesOfNext
<1> QED BY <1>5, <1>8, <1>10, <1>11, <1>12, <1>13, <1>14 DEF TenantsInv

LEMMA TenantsTickStep == ASSUME TenantsInv, TenantsTick PROVE TenantsInv'
<1>1. /\ standing' = standing /\ seats' = seats /\ ownerOf' = ownerOf /\ job' = job
      /\ closedAt' = closedAt /\ slipped' = slipped /\ overlapped' = overlapped /\ badges' \subseteq badges
  BY DEF TenantsTick
<1>2. now' = now + 1 /\ now \in Nat /\ now' \in Time
  BY ServiceAssumption DEF TenantsTick, Tick, TenantsInv, TenantsTypeOK, Time
<1>3. TenantsTypeOK'
  BY <1>1, <1>2 DEF TenantsInv, TenantsTypeOK, PeopleOf, InPlace, Seated, RolesOf
<1>4. ReadingsFit'
  BY <1>1 DEF TenantsInv, ReadingsFit, Fits, StandingOf, InPlace, Seated, Doing
<1>5. BadgesAreMade'
  <2>1. \A b \in badges : StandingOf(b.place) # "planned" /\ b.until <= now + SeatTtl /\ b.until \in Nat
    BY DEF TenantsInv, TenantsTypeOK, BadgesAreMade, Badge
  <2>2. \A b \in badges : b.until <= now' + SeatTtl
    BY <1>2, <2>1, TenantsAssumption
  <2> QED BY <1>1, <2>1, <2>2 DEF BadgesAreMade, StandingOf
<1>6. SuspensionTakesHold'
  BY <1>1 DEF TenantsInv, SuspensionTakesHold, StandingOf
<1>7. RemovalsCount' /\ InvitationsAreNew' /\ RemovalsKnowRoles'
  BY <1>1 DEF TenantsInv, RemovalsCount, InvitationsAreNew, RemovalsKnowRoles, Doing, Operators, EmailTaken,
              PeopleOf, InPlace, Seated
<1> QED BY <1>3, <1>4, <1>5, <1>6, <1>7 DEF TenantsInv

LEMMA TenantsStep == ASSUME TenantsInv, [TenantsNext]_tenantVars PROVE TenantsInv'
<1>1. CASE TenantsTick
  BY <1>1, TenantsTickStep
<1>2. ASSUME NEW by \in Users, NEW t \in Tenants, NEW status \in {"active", "suspended"}, SetsStatus(by, t, status)
      PROVE  TenantsInv'
  BY <1>2, SetsStatusStep
<1>3. ASSUME NEW r \in Requests, NEW u \in Users,
             \/ AsksToEnter(r, u)
             \/ \E by \in Users : RemovesAdministrator(r, by, u) \/ \E theirs \in Seat : Designates(r, by, u, theirs)
      PROVE  TenantsInv'
  BY <1>3, AsksToEnterStep, RemovesAdministratorStep, DesignatesStep
<1>4. ASSUME NEW r \in Requests, NEW t \in Tenants,
             (\E o \in OwnRoles : MakesRole(r, t, o)) \/ (\E by \in Users : DissolvesTenant(r, by, t))
      PROVE  TenantsInv'
  BY <1>4, MakesRoleStep, DissolvesTenantStep
<1>5. ASSUME NEW r \in Requests, Enters(r) \/ TakesSeat(r) \/ LeavesSeat(r) \/ WritesRole(r) \/ WritesDissolution(r)
      PROVE  TenantsInv'
  BY <1>5, EntersStep, TakesSeatStep, LeavesSeatStep, WritesRoleStep, WritesDissolutionStep
<1>6. CASE UNCHANGED tenantVars
  <2>1. /\ now' = now /\ standing' = standing /\ seats' = seats /\ ownerOf' = ownerOf /\ badges' = badges /\ job' = job
        /\ closedAt' = closedAt /\ slipped' = slipped /\ overlapped' = overlapped
    BY <1>6 DEF tenantVars
  <2>2. TenantsTypeOK' /\ BadgesAreMade' /\ SuspensionTakesHold'
    BY <2>1 DEF TenantsInv, TenantsTypeOK, BadgesAreMade, SuspensionTakesHold, PeopleOf, InPlace, Seated, RolesOf,
                StandingOf
  <2>3. ReadingsFit'
    BY <2>1 DEF TenantsInv, ReadingsFit, Fits, StandingOf, InPlace, Seated, Doing
  <2>4. RemovalsCount' /\ InvitationsAreNew' /\ RemovalsKnowRoles'
    BY <2>1 DEF TenantsInv, RemovalsCount, InvitationsAreNew, RemovalsKnowRoles, Doing, Operators, EmailTaken,
                PeopleOf, InPlace, Seated
  <2> QED BY <2>2, <2>3, <2>4 DEF TenantsInv
<1> QED BY <1>1, <1>2, <1>3, <1>4, <1>5, <1>6 DEF TenantsNext

\* However many tenants, people and requests there are, a tenant that is stopped
\* is shut one token life later: the check of the tenant's standing on every way
\* in, and nothing else, sees to it.
THEOREM StoppedTenantsAreShut == TenantsSpec => []SuspensionTakesHold
<1>1. TenantsInv => SuspensionTakesHold
  BY DEF TenantsInv
<1> QED BY <1>1, TenantsInitInv, TenantsStep, PTL DEF TenantsSpec

\* The last operator, the address that is taken and the roles a tenant has made
\* are safe from any number of requests that do not overlap.
THEOREM SeatsAreSafe == TenantsSpec => []SeatsHold
<1>1. TenantsInv => SeatsHold
  BY DEF TenantsInv, SeatsHold, OperatorsRemain, AddressesNameOne, OwnRolesStayOwn,
         RemovalsCount, InvitationsAreNew, RemovalsKnowRoles
<1> QED BY <1>1, TenantsInitInv, TenantsStep, PTL DEF TenantsSpec

-----------------------------------------------------------------------------
(***************************************************************************)
(* Notes and the groups they are shared with, on a database that keeps its  *)
(* foreign keys.  A group that is dissolved takes the shares with it and    *)
(* its id does not come back, so a share and what was meant by it stay in   *)
(* step; what an update under way has chosen is a group that was there.     *)
(***************************************************************************)

LatestIsThere == \E k \in 0..MaxFounded : /\ \A g \in Groups : nth[g] <= k
                                          /\ k = 0 \/ \E g \in Groups : nth[g] = k

EditsChoose ==
    \A r \in Requests : edit[r] # NoEdit /\ edit[r].share # edit[r].was /\ edit[r].share # NoGroup =>
        group[edit[r].share] # NoGroup /\ edit[r].chosen = nth[edit[r].share]

SharesMatch == \A n \in Notes : note[n] # NoNote /\ note[n].share # NoGroup => meant[n] = nth[note[n].share]

NotesInv == NotesTypeOK /\ LatestIsThere /\ EditsChoose /\ SharesMatch

LEMMA NotesInitInv == NotesInit => NotesInv
<1> SUFFICES ASSUME NotesInit PROVE NotesInv
  OBVIOUS
<1>1. 0 \in 0..MaxFounded
  BY NotesAssumption
<1>2. NotesTypeOK
  BY <1>1 DEF NotesInit, NotesTypeOK
<1>3. LatestIsThere
  <2>1. \A g \in Groups : nth[g] <= 0
    BY DEF NotesInit
  <2> QED BY <1>1, <2>1 DEF LatestIsThere
<1> QED BY <1>2, <1>3 DEF NotesInv, EditsChoose, SharesMatch, NotesInit

LEMMA LatestType ==
    ASSUME LatestIsThere
    PROVE  Latest \in 0..MaxFounded /\ \A g \in Groups : nth[g] <= Latest
BY DEF LatestIsThere, Latest

LEMMA CreateGroupStep ==
    ASSUME ~Sqlite, NotesInv, NEW g \in Groups, NEW members \in SUBSET Users, CreateGroup(g, members)
    PROVE  NotesInv'
<1>1. /\ group[g] = NoGroup /\ Latest < MaxFounded
      /\ group' = [group EXCEPT ![g] = members] /\ nth' = [nth EXCEPT ![g] = Latest + 1]
      /\ note' = note /\ edit' = edit /\ meant' = meant
  BY DEF CreateGroup
<1>2. Latest + 1 \in 0..MaxFounded /\ \A h \in Groups : nth[h] <= Latest + 1
  <2>1. Latest \in 0..MaxFounded /\ \A h \in Groups : nth[h] <= Latest
    BY LatestType DEF NotesInv
  <2> QED BY <1>1, <2>1, NotesAssumption DEF NotesInv, NotesTypeOK
<1>3. /\ group' \in [Groups -> (SUBSET Users) \cup {NoGroup, Dissolved}] /\ group'[g] = members
      /\ \A h \in Groups : h # g => group'[h] = group[h]
  BY <1>1 DEF NotesInv, NotesTypeOK
<1>4. /\ nth' \in [Groups -> 0..MaxFounded] /\ nth'[g] = Latest + 1
      /\ \A h \in Groups : h # g => nth'[h] = nth[h]
  BY <1>1, <1>2 DEF NotesInv, NotesTypeOK
<1>5. NotesTypeOK'
  <2>1. \A n \in Notes : note[n] # NoNote /\ note[n].share # NoGroup => group'[note[n].share] \notin {NoGroup, Dissolved}
    BY <1>1, <1>3, NotesNullsAssumption DEF NotesInv, NotesTypeOK, Stands, Share, Note
  <2> QED BY <1>1, <1>3, <1>4, <2>1 DEF NotesInv, NotesTypeOK, Stands
<1>6. LatestIsThere'
  <2>1. \A h \in Groups : nth'[h] <= Latest + 1
    BY <1>2, <1>4
  <2> QED BY <1>2, <1>4, <2>1 DEF LatestIsThere
<1>7. EditsChoose'
  <2>1. \A r \in Requests : edit[r] # NoEdit => edit[r].share \in Share
    BY DEF NotesInv, NotesTypeOK, Edit
  <2> QED BY <1>1, <1>3, <1>4, <2>1, NotesNullsAssumption DEF NotesInv, EditsChoose, Share
<1>8. SharesMatch'
  <2>1. \A n \in Notes : note[n] # NoNote /\ note[n].share # NoGroup => note[n].share \in Groups /\ note[n].share # g
    BY <1>1 DEF NotesInv, NotesTypeOK, Stands, Share, Note
  <2> QED BY <1>1, <1>4, <2>1 DEF NotesInv, SharesMatch
<1> QED BY <1>5, <1>6, <1>7, <1>8 DEF NotesInv

LEMMA SetMembersStep ==
    ASSUME NotesInv, NEW g \in Groups, NEW members \in SUBSET Users, SetMembers(g, members)
    PROVE  NotesInv'
<1>1. /\ group' = [group EXCEPT ![g] = members] /\ nth' = nth /\ note' = note /\ edit' = edit /\ meant' = meant
  BY DEF SetMembers
<1>2. /\ group' \in [Groups -> (SUBSET Users) \cup {NoGroup, Dissolved}]
      /\ \A h \in Groups : group'[h] = group[h] \/ group'[h] \notin {NoGroup, Dissolved}
  BY <1>1, NotesNullsAssumption DEF NotesInv, NotesTypeOK
<1>3. NotesTypeOK'
  BY <1>1, <1>2 DEF NotesInv, NotesTypeOK, Stands, Share, Note
<1>4. EditsChoose'
  <2>1. \A r \in Requests : edit[r] # NoEdit => edit[r].share \in Share
    BY DEF NotesInv, NotesTypeOK, Edit
  <2> QED BY <1>1, <1>2, <2>1 DEF NotesInv, EditsChoose, Share
<1> QED BY <1>1, <1>3, <1>4 DEF NotesInv, LatestIsThere, SharesMatch

LEMMA DeleteGroupStep == ASSUME ~Sqlite, NotesInv, NEW g \in Groups, DeleteGroup(g) PROVE NotesInv'
<1>1. /\ group' = [group EXCEPT ![g] = Dissolved] /\ note' = Unshared(g)
      /\ nth' = nth /\ edit' = edit /\ meant' = meant
  BY DEF DeleteGroup
<1>2. /\ group' \in [Groups -> (SUBSET Users) \cup {NoGroup, Dissolved}]
      /\ \A h \in Groups : group'[h] = group[h] \/ (h = g /\ group'[h] = Dissolved)
  BY <1>1 DEF NotesInv, NotesTypeOK
<1>3. \A n \in Notes : \/ note'[n] = note[n] /\ (note[n] = NoNote \/ note[n].share # g)
                       \/ note[n] # NoNote /\ note'[n] = [note[n] EXCEPT !.share = NoGroup]
  BY <1>1 DEF Unshared
<1>4. ASSUME NEW n \in Notes
      PROVE  /\ note'[n] \in Note \cup {NoNote}
             /\ note'[n] # NoNote /\ note'[n].share # NoGroup => note'[n] = note[n] /\ note[n].share # g
  <2>1. note[n] \in Note \cup {NoNote}
    BY DEF NotesInv, NotesTypeOK
  <2>2. CASE note[n] # NoNote /\ note'[n] = [note[n] EXCEPT !.share = NoGroup]
    BY <2>1, <2>2 DEF Note, Share
  <2> QED BY <1>3, <2>1, <2>2
<1>5. NotesTypeOK'
  <2>1. note' \in [Notes -> Note \cup {NoNote}]
    BY <1>1, <1>4 DEF Unshared
  <2>2. \A n \in Notes : note'[n] # NoNote /\ note'[n].share # NoGroup => group'[note'[n].share] \notin {NoGroup, Dissolved}
    BY <1>2, <1>4 DEF NotesInv, NotesTypeOK, Stands, Share, Note
  <2> QED BY <1>1, <1>2, <2>1, <2>2 DEF NotesInv, NotesTypeOK, Stands
<1>6. EditsChoose'
  <2>1. \A r \in Requests : edit[r] # NoEdit => edit[r].share \in Share
    BY DEF NotesInv, NotesTypeOK, Edit
  <2> QED BY <1>1, <1>2, <2>1, NotesNullsAssumption DEF NotesInv, EditsChoose, Share
<1>7. SharesMatch'
  BY <1>1, <1>4 DEF NotesInv, SharesMatch
<1> QED BY <1>1, <1>5, <1>6, <1>7 DEF NotesInv, LatestIsThere

\* What may be chosen is in a group the owner is in, or no group.
LEMMA MayChoose ==
    ASSUME NotesTypeOK, NEW u \in Users, NEW was, NEW g \in Share, ContentFor(u, was, g), g # was, g # NoGroup
    PROVE  g \in Groups /\ group[g] # NoGroup /\ Chosen(u, g) = nth[g]
BY DEF ContentFor, CanShareWith, MembersOf, Stands, Chosen, Share

LEMMA CreateNoteStep ==
    ASSUME ~Sqlite, NotesInv, NEW n \in Notes, NEW u \in Users, NEW g \in Share, CreateNote(n, u, g)
    PROVE  NotesInv'
<1> DEFINE new == [owner |-> u, share |-> g]
<1>1. /\ note[n] = NoNote /\ ContentFor(u, NoGroup, g) /\ note' = [note EXCEPT ![n] = new]
      /\ meant' = [meant EXCEPT ![n] = Chosen(u, g)] /\ group' = group /\ nth' = nth /\ edit' = edit
  BY DEF CreateNote
<1>2. new \in Note /\ new.share = g
  BY DEF Note
<1>3. Chosen(u, g) \in 0..MaxFounded
  BY NotesAssumption DEF Chosen, MembersOf, Stands, NotesInv, NotesTypeOK, Share
<1>4. g # NoGroup => Stands(g) /\ Chosen(u, g) = nth[g]
  <2>1. g # NoGroup => Stands(g)
    BY <1>1 DEF ContentFor, CanShareWith, MembersOf
  <2> QED BY <1>1, <2>1, MayChoose DEF NotesInv
<1> HIDE DEF new
<1>5. /\ note' \in [Notes -> Note \cup {NoNote}] /\ note'[n] = new /\ \A m \in Notes : m # n => note'[m] = note[m]
      /\ meant' \in [Notes -> 0..MaxFounded] /\ meant'[n] = Chosen(u, g) /\ \A m \in Notes : m # n => meant'[m] = meant[m]
  BY <1>1, <1>2, <1>3 DEF NotesInv, NotesTypeOK
<1>6. NotesTypeOK'
  <2>1. \A m \in Notes : note'[m] # NoNote /\ note'[m].share # NoGroup => Stands(note'[m].share)
    BY <1>2, <1>4, <1>5 DEF NotesInv, NotesTypeOK
  <2> QED BY <1>1, <1>5, <2>1 DEF NotesInv, NotesTypeOK, Stands
<1>7. SharesMatch'
  BY <1>1, <1>2, <1>4, <1>5 DEF NotesInv, SharesMatch
<1> QED BY <1>1, <1>6, <1>7 DEF NotesInv, LatestIsThere, EditsChoose

LEMMA OpenNoteStep ==
    ASSUME NotesInv, NEW r \in Requests, NEW n \in Notes, NEW g \in Share, OpenNote(r, n, g)
    PROVE  NotesInv'
<1> DEFINE new == [note |-> n, was |-> note[n].share, share |-> g, chosen |-> Chosen(note[n].owner, g)]
<1>1. /\ note[n] # NoNote /\ ContentFor(note[n].owner, note[n].share, g)
      /\ edit' = [edit EXCEPT ![r] = new] /\ group' = group /\ nth' = nth /\ note' = note /\ meant' = meant
  BY DEF OpenNote
<1>2. note[n].owner \in Users /\ note[n].share \in Share
  BY <1>1 DEF NotesInv, NotesTypeOK, Note
<1>3. Chosen(note[n].owner, g) \in 0..MaxFounded
  BY NotesAssumption DEF Chosen, MembersOf, Stands, NotesInv, NotesTypeOK, Share
<1>4. new \in Edit
  BY <1>2, <1>3 DEF Edit
<1>5. new.share = g /\ new.was = note[n].share /\ new.chosen = Chosen(note[n].owner, g)
  OBVIOUS
<1> HIDE DEF new
<1>6. /\ edit' \in [Requests -> Edit \cup {NoEdit}] /\ edit'[r] = new
      /\ \A q \in Requests : q # r => edit'[q] = edit[q]
  BY <1>1, <1>4 DEF NotesInv, NotesTypeOK
<1>7. NotesTypeOK'
  BY <1>1, <1>6 DEF NotesInv, NotesTypeOK, Stands
<1>8. EditsChoose'
  <2>1. g # note[n].share /\ g # NoGroup => group[g] # NoGroup /\ Chosen(note[n].owner, g) = nth[g]
    BY <1>1, <1>2, MayChoose DEF NotesInv
  <2> QED BY <1>1, <1>5, <1>6, <2>1 DEF NotesInv, EditsChoose
<1> QED BY <1>1, <1>7, <1>8 DEF NotesInv, LatestIsThere, SharesMatch

LEMMA UpdateNoteStep == ASSUME ~Sqlite, NotesInv, NEW r \in Requests, UpdateNote(r) PROVE NotesInv'
<1> DEFINE x == edit[r]
           n == x.note
<1>1. /\ x # NoEdit /\ edit' = [edit EXCEPT ![r] = NoEdit] /\ group' = group /\ nth' = nth
  BY DEF UpdateNote
<1>2. /\ x \in Edit /\ n \in Notes /\ x.share \in Share /\ x.chosen \in 0..MaxFounded
  BY <1>1 DEF NotesInv, NotesTypeOK, Edit
<1>3. /\ edit' \in [Requests -> Edit \cup {NoEdit}]
      /\ \A q \in Requests : edit'[q] # NoEdit => edit'[q] = edit[q]
  BY <1>1 DEF NotesInv, NotesTypeOK
<1>4. EditsChoose'
  BY <1>1, <1>3 DEF NotesInv, EditsChoose
<1>5. CASE note' = note /\ meant' = meant
  <2>1. NotesTypeOK'
    BY <1>1, <1>3, <1>5 DEF NotesInv, NotesTypeOK, Stands
  <2> QED BY <1>1, <1>4, <1>5, <2>1 DEF NotesInv, LatestIsThere, SharesMatch
<1>6. CASE /\ note[n] # NoNote /\ (Columns(x) = NoGroup \/ Stands(Columns(x)))
           /\ note' = [note EXCEPT ![n].share = Columns(x)]
           /\ meant' = IF x.share = x.was THEN meant ELSE [meant EXCEPT ![n] = x.chosen]
  <2>1. note[n] \in Note /\ Columns(x) \in Share
    BY <1>2, <1>6 DEF NotesInv, NotesTypeOK, Columns, Note
  <2>2. [note[n] EXCEPT !.share = Columns(x)] \in Note /\ [note[n] EXCEPT !.share = Columns(x)].share = Columns(x)
    BY <2>1 DEF Note
  <2>3. /\ note' \in [Notes -> Note \cup {NoNote}] /\ note'[n].share = Columns(x)
        /\ \A m \in Notes : m # n => note'[m] = note[m]
    <3>1. note'[n] = [note[n] EXCEPT !.share = Columns(x)]
      BY <1>2, <1>6 DEF NotesInv, NotesTypeOK
    <3> QED BY <1>2, <1>6, <2>2, <3>1 DEF NotesInv, NotesTypeOK
  <2>4. /\ meant' \in [Notes -> 0..MaxFounded] /\ \A m \in Notes : m # n => meant'[m] = meant[m]
        /\ meant'[n] = IF x.share = x.was THEN meant[n] ELSE x.chosen
    BY <1>2, <1>6 DEF NotesInv, NotesTypeOK
  <2>5. NotesTypeOK'
    <3>1. \A m \in Notes : note'[m] # NoNote /\ note'[m].share # NoGroup => Stands(note'[m].share)
      BY <1>6, <2>3 DEF NotesInv, NotesTypeOK
    <3> QED BY <1>1, <1>3, <2>3, <2>4, <3>1 DEF NotesInv, NotesTypeOK, Stands
  <2>6. Columns(x) # NoGroup => meant'[n] = nth[Columns(x)]
    <3>1. CASE x.share = x.was
      BY <1>2, <1>6, <2>4, <3>1 DEF NotesInv, SharesMatch, Columns
    <3>2. CASE x.share # x.was
      BY <1>1, <2>4, <3>2 DEF NotesInv, EditsChoose, Columns
    <3> QED BY <3>1, <3>2
  <2>7. SharesMatch'
    BY <1>1, <1>2, <2>3, <2>4, <2>6 DEF NotesInv, SharesMatch
  <2> QED BY <1>1, <1>4, <2>5, <2>7 DEF NotesInv, LatestIsThere
<1> QED BY <1>5, <1>6 DEF UpdateNote

LEMMA RemoveNoteStep == ASSUME NotesInv, NEW n \in Notes, RemoveNote(n) PROVE NotesInv'
<1>1. /\ note' = [note EXCEPT ![n] = NoNote] /\ meant' = [meant EXCEPT ![n] = 0] /\ group' = group /\ nth' = nth
      /\ edit' = [r \in Requests |-> IF edit[r] # NoEdit /\ edit[r].note = n THEN NoEdit ELSE edit[r]]
  BY DEF RemoveNote
<1>2. /\ note' \in [Notes -> Note \cup {NoNote}] /\ meant' \in [Notes -> 0..MaxFounded]
      /\ \A m \in Notes : note'[m] # NoNote => note'[m] = note[m] /\ meant'[m] = meant[m]
  BY <1>1, NotesAssumption DEF NotesInv, NotesTypeOK
<1>3. /\ edit' \in [Requests -> Edit \cup {NoEdit}]
      /\ \A r \in Requests : edit'[r] # NoEdit => edit'[r] = edit[r]
  BY <1>1 DEF NotesInv, NotesTypeOK
<1>4. NotesTypeOK'
  BY <1>1, <1>2, <1>3 DEF NotesInv, NotesTypeOK, Stands
<1>5. SharesMatch'
  BY <1>1, <1>2 DEF NotesInv, SharesMatch
<1> QED BY <1>1, <1>3, <1>4, <1>5 DEF NotesInv, LatestIsThere, EditsChoose

LEMMA NotesStep == ASSUME ~Sqlite, NotesInv, [NotesNext]_noteVars PROVE NotesInv'
<1>1. CASE NotesNext
  BY <1>1, CreateGroupStep, SetMembersStep, DeleteGroupStep, CreateNoteStep, OpenNoteStep, UpdateNoteStep,
     RemoveNoteStep DEF NotesNext
<1>2. CASE UNCHANGED noteVars
  BY <1>2 DEF noteVars, NotesInv, NotesTypeOK, LatestIsThere, EditsChoose, SharesMatch, Stands
<1> QED BY <1>1, <1>2

LEMMA UpdateKeepsShare ==
    ASSUME NotesInv, NEW r \in Requests, UpdateNote(r), edit[r].share = edit[r].was
    PROVE  note'[edit[r].note] = note[edit[r].note]
<1> DEFINE n == edit[r].note
<1>1. n \in Notes /\ note[n] \in Note \cup {NoNote}
  BY DEF UpdateNote, NotesInv, NotesTypeOK, Edit
<1>2. \/ note' = note
      \/ note[n] # NoNote /\ note' = [note EXCEPT ![n].share = note[n].share]
  BY DEF UpdateNote, Columns
<1>3. CASE note[n] # NoNote /\ note' = [note EXCEPT ![n].share = note[n].share]
  <2>1. note'[n] = [note[n] EXCEPT !.share = note[n].share]
    BY <1>1, <1>3 DEF NotesInv, NotesTypeOK
  <2>2. [note[n] EXCEPT !.share = note[n].share] = note[n]
    BY <1>1, <1>3 DEF Note
  <2> QED BY <2>1, <2>2
<1> QED BY <1>2, <1>3

\* On a database with foreign keys a note is read by the people of the group its
\* owner chose, whichever updates, removals and new groups come in between, and an
\* update of its text brings no withdrawn share back.
THEOREM NotesAreReadAsMeant == ~Sqlite => (NotesSpec => NotesHold)
<1> SUFFICES ASSUME ~Sqlite PROVE NotesSpec => NotesHold
  OBVIOUS
<1>1. NotesInv => SharesAreMeant
  BY NotesNullsAssumption DEF NotesInv, NotesTypeOK, SharesMatch, SharesAreMeant, ReadableBy, MembersOf, Stands, Note
<1>2. NotesInv /\ [NotesNext]_noteVars
        => [\A r \in Requests : UpdateNote(r) /\ edit[r].share = edit[r].was =>
              note'[edit[r].note] = note[edit[r].note]]_noteVars
  BY UpdateKeepsShare
<1>3. NotesInv /\ [NotesNext]_noteVars => NotesInv'
  BY NotesStep
<1>4. NotesSpec => []NotesInv
  BY <1>3, NotesInitInv, PTL DEF NotesSpec
<1>5. NotesSpec => KeptSharesAreNotRevived
  BY <1>2, <1>4, PTL DEF NotesSpec, KeptSharesAreNotRevived
<1> QED BY <1>1, <1>4, <1>5, PTL DEF NotesHold

-----------------------------------------------------------------------------
(* Contents: the setting.                                                   *)

SavesTypeOK ==
    /\ setting \in StoredSetting \cup {NoRow} /\ lastStored \in 0..MaxStored
    /\ choices \in Offers
    /\ save \in [Requests -> Save \cup {NoSave}]
    /\ meanwhile \in [Requests -> SUBSET (Orders \cup {AtDefault})]

\* What a row says, and what none says.
Said(row) == IF row = NoRow THEN AtDefault ELSE row.value

\* What is stored is what a request under way has read, or was saved since.
SavesKnowWhatIsStored ==
    \A r \in Requests : save[r] # NoSave => Said(setting) \in {Said(save[r].base)} \cup meanwhile[r]

SavesInv == SavesTypeOK /\ SavesTakeHold /\ SavesKnowWhatIsStored

LEMMA SavesInitInv == ContentsInit => SavesInv
<1> SUFFICES ASSUME ContentsInit PROVE SavesInv
  OBVIOUS
<1>1. SavesTypeOK
  BY ContentsAssumption DEF ContentsInit, SavesTypeOK
<1> QED BY <1>1 DEF ContentsInit, SavesInv, SavesTakeHold, SavesKnowWhatIsStored, Said

LEMMA SaveIs ==
    ASSUME SavesTypeOK, NEW r \in Requests, save[r] # NoSave
    PROVE  /\ save[r] \in Save /\ save[r].value \in Orders \cup {AtDefault}
           /\ save[r].base \in StoredSetting \cup {NoRow}
<1>1. save[r] \in Save
  BY DEF SavesTypeOK
<1> QED BY <1>1 DEF Save

LEMMA BeginsSaveKeeps ==
    ASSUME SavesInv, NEW r \in Requests, NEW v \in Orders \cup {AtDefault}, BeginsSave(r, v) PROVE SavesInv'
<1>1. PICK x : x = [value |-> v, base |-> setting]
  OBVIOUS
<1>2. x \in Save /\ x.base = setting
  BY <1>1 DEF SavesInv, SavesTypeOK, Save
<1>3. /\ save' = [save EXCEPT ![r] = x] /\ meanwhile' = [meanwhile EXCEPT ![r] = {}]
      /\ UNCHANGED <<setting, lastStored, choices, mayBe>>
  BY <1>1 DEF BeginsSave
<1>4. SavesTypeOK'
  BY <1>2, <1>3 DEF SavesInv, SavesTypeOK
<1>5. SavesKnowWhatIsStored'
  <2> SUFFICES ASSUME NEW q \in Requests, save'[q] # NoSave
               PROVE  Said(setting)' \in {Said(save'[q].base)} \cup meanwhile'[q]
    BY <1>3 DEF SavesKnowWhatIsStored, Said
  <2>1. CASE q = r
    <3>1. save'[q] = x
      BY <1>3, <2>1 DEF SavesInv, SavesTypeOK
    <3> QED BY <1>2, <1>3, <3>1 DEF Said
  <2>2. CASE q # r
    <3>1. save'[q] = save[q] /\ meanwhile'[q] = meanwhile[q]
      BY <1>3, <2>2 DEF SavesInv, SavesTypeOK
    <3> QED BY <1>3, <3>1 DEF SavesInv, SavesKnowWhatIsStored, Said
  <2> QED BY <2>1, <2>2
<1>6. SavesTakeHold'
  BY <1>3 DEF SavesInv, SavesTakeHold
<1> QED BY <1>4, <1>5, <1>6 DEF SavesInv

\* What is stored after a save is what it asked for, or was stored all the time.
LEMMA StoredIs ==
    ASSUME SavesTypeOK, NEW r \in Requests, save[r] # NoSave, MayWrite(save[r]), NEW row, row = Stored(save[r]),
           row # NoRow /\ row.id > lastStored => row.id <= MaxStored
    PROVE  /\ row \in StoredSetting \cup {NoRow}
           /\ Said(row) = save[r].value \/ (row = setting /\ Said(save[r].base) = save[r].value)
<1>1. PICK x \in Save : x = save[r] /\ x.value \in Orders \cup {AtDefault} /\ x.base \in StoredSetting \cup {NoRow}
  BY SaveIs
<1>2. setting \in StoredSetting \cup {NoRow} /\ lastStored \in 0..MaxStored
  BY DEF SavesTypeOK
<1>3. CASE x.value = AtDefault
  BY <1>1, <1>3 DEF Stored, Said
<1>4. CASE x.value # AtDefault /\ WritesNothing(x)
  <2>1. row = setting /\ x.base # NoRow /\ x.base.value = x.value
    BY <1>1, <1>4 DEF Stored, WritesNothing
  <2> QED BY <1>1, <1>2, <2>1 DEF Said
<1>5. CASE x.value # AtDefault /\ ~WritesNothing(x) /\ setting = NoRow
  <2>1. row = [id |-> lastStored + 1, value |-> x.value] /\ x.value \in Orders
    BY <1>1, <1>5 DEF Stored
  <2>2. row.id = lastStored + 1 /\ row.value = x.value
    BY <2>1
  <2>3. CASE row = NoRow
    <3>1. FALSE
      <4>1. lastStored + 1 \in Nat
        BY <1>2
      <4> QED BY <2>1, <2>3, <4>1, ContentsAssumption
    <3> QED BY <3>1
  <2>4. CASE row # NoRow
    <3>1. lastStored + 1 \in 1..MaxStored
      <4>1. lastStored + 1 > lastStored
        BY <1>2
      <4>2. lastStored + 1 <= MaxStored
        BY <2>2, <2>4, <4>1
      <4> QED BY <1>2, <4>2
    <3>2. row \in StoredSetting
      BY <2>1, <3>1 DEF StoredSetting
    <3> QED BY <1>1, <2>2, <2>4, <3>2 DEF Said
  <2> QED BY <2>3, <2>4
<1>6. CASE x.value # AtDefault /\ ~WritesNothing(x) /\ setting # NoRow
  <2>1. row = [setting EXCEPT !.value = x.value] /\ x.value \in Orders /\ setting \in StoredSetting
    BY <1>1, <1>2, <1>6 DEF Stored
  <2>2. row \in StoredSetting /\ row.value = x.value
    BY <2>1 DEF StoredSetting
  <2>3. row # NoRow
    BY <2>2, ContentsAssumption DEF StoredSetting
  <2> QED BY <1>1, <2>2, <2>3 DEF Said
<1> QED BY <1>3, <1>4, <1>5, <1>6

LEMMA SavesKeeps == ASSUME SavesInv, NEW r \in Requests, Saves(r) PROVE SavesInv'
<1>1. PICK x \in Save : x = save[r] /\ x # NoSave /\ x.value \in Orders \cup {AtDefault}
  BY SaveIs DEF Saves, SavesInv
<1>2. /\ MayWrite(x) /\ setting' = Stored(x)
      /\ lastStored' = IF setting' # NoRow /\ setting'.id > lastStored THEN setting'.id ELSE lastStored
      /\ lastStored' <= MaxStored
      /\ save' = [save EXCEPT ![r] = NoSave] /\ mayBe' = {x.value} \cup meanwhile[r] /\ choices' = choices
      /\ meanwhile' = [q \in Requests |->
                          IF q = r \/ save[q] = NoSave THEN {} ELSE meanwhile[q] \cup {x.value}]
  BY <1>1 DEF Saves
<1>3. setting' # NoRow /\ setting'.id > lastStored => setting'.id <= MaxStored
  BY <1>2
<1>4. PICK row : row = setting'
  OBVIOUS
<1>5. /\ row \in StoredSetting \cup {NoRow}
      /\ Said(row) = x.value \/ (row = setting /\ Said(x.base) = x.value)
  BY <1>1, <1>2, <1>3, <1>4, StoredIs DEF SavesInv
<1>6. lastStored' \in 0..MaxStored
  <2>1. row # NoRow => row.id \in 1..MaxStored
    BY <1>5 DEF StoredSetting
  <2> QED BY <1>2, <1>4, <2>1 DEF SavesInv, SavesTypeOK
<1>7. SavesTypeOK'
  <2>1. save' \in [Requests -> Save \cup {NoSave}]
    BY <1>2 DEF SavesInv, SavesTypeOK
  <2>2. meanwhile' \in [Requests -> SUBSET (Orders \cup {AtDefault})]
    BY <1>1, <1>2 DEF SavesInv, SavesTypeOK
  <2> QED BY <1>2, <1>4, <1>5, <1>6, <2>1, <2>2 DEF SavesInv, SavesTypeOK
<1>8. Said(setting) \in {Said(x.base)} \cup meanwhile[r]
  BY <1>1 DEF SavesInv, SavesKnowWhatIsStored
<1>9. Said(row) \in {x.value} \cup meanwhile[r]
  BY <1>5, <1>8
<1>10. Said(row) \in {Said(setting), x.value}
  BY <1>5
<1>11. SavesTakeHold'
  BY <1>2, <1>4, <1>9 DEF SavesTakeHold, Said
<1>12. SavesKnowWhatIsStored'
  <2> SUFFICES ASSUME NEW q \in Requests, save'[q] # NoSave
               PROVE  Said(row) \in {Said(save'[q].base)} \cup meanwhile'[q]
    BY <1>4 DEF SavesKnowWhatIsStored, Said
  <2>1. q # r /\ save'[q] = save[q] /\ save[q] # NoSave
    BY <1>2 DEF SavesInv, SavesTypeOK
  <2>2. meanwhile'[q] = meanwhile[q] \cup {x.value}
    BY <1>2, <2>1
  <2>3. Said(setting) \in {Said(save[q].base)} \cup meanwhile[q]
    BY <2>1 DEF SavesInv, SavesKnowWhatIsStored
  <2> QED BY <1>10, <2>1, <2>2, <2>3
<1> QED BY <1>7, <1>11, <1>12 DEF SavesInv

LEMMA SaveFailsKeeps == ASSUME SavesInv, NEW r \in Requests, SaveFails(r) PROVE SavesInv'
<1>1. /\ save' = [save EXCEPT ![r] = NoSave] /\ meanwhile' = [meanwhile EXCEPT ![r] = {}]
      /\ UNCHANGED <<setting, lastStored, choices, mayBe>>
  BY DEF SaveFails
<1>2. SavesTypeOK'
  BY <1>1 DEF SavesInv, SavesTypeOK
<1>3. SavesKnowWhatIsStored'
  <2> SUFFICES ASSUME NEW q \in Requests, save'[q] # NoSave
               PROVE  Said(setting) \in {Said(save'[q].base)} \cup meanwhile'[q]
    BY <1>1 DEF SavesKnowWhatIsStored, Said
  <2>1. save'[q] = save[q] /\ meanwhile'[q] = meanwhile[q]
    BY <1>1 DEF SavesInv, SavesTypeOK
  <2> QED BY <2>1 DEF SavesInv, SavesKnowWhatIsStored
<1>4. SavesTakeHold'
  BY <1>1 DEF SavesInv, SavesTakeHold
<1> QED BY <1>2, <1>3, <1>4 DEF SavesInv

LEMMA SavesStep == ASSUME SavesInv, [ContentsNext]_contentVars PROVE SavesInv'
<1>1. CASE UNCHANGED savingVars
  BY <1>1 DEF savingVars, SavesInv, SavesTypeOK, SavesTakeHold, SavesKnowWhatIsStored, Said
<1>2. ASSUME NEW C \in Offers, Deploys(C) PROVE SavesInv'
  <2>1. /\ choices' = C /\ save' = [r \in Requests |-> NoSave] /\ meanwhile' = [r \in Requests |-> {}]
        /\ UNCHANGED <<setting, lastStored, mayBe>>
    BY <1>2 DEF Deploys
  <2> QED BY <2>1 DEF SavesInv, SavesTypeOK, SavesTakeHold, SavesKnowWhatIsStored
<1>3. CASE UNCHANGED contentVars
  BY <1>1, <1>3 DEF contentVars
<1>4. CASE OpensList \/ TurnsToNext \/ ClosesList
  BY <1>1, <1>4 DEF OpensList, TurnsToNext, ClosesList
<1>5. ASSUME NEW n \in Labels, AddsItem(n) \/ \E i \in ItemIds : RenamesItem(i, n) PROVE SavesInv'
  BY <1>1, <1>5 DEF AddsItem, RenamesItem
<1>6. ASSUME NEW i \in ItemIds, RemovesItem(i) PROVE SavesInv'
  BY <1>1, <1>6 DEF RemovesItem
<1> QED BY <1>2, <1>3, <1>4, <1>5, <1>6, BeginsSaveKeeps, SavesKeeps, SaveFailsKeeps DEF ContentsNext

\* An answered save is never undone by one that was over before it began: for any
\* values, builds and requests that overlap.
THEOREM AnsweredSavesStand == ContentsSpec => []SavesTakeHold
<1>1. ContentsSpec => []SavesInv
  BY SavesInitInv, SavesStep, PTL DEF ContentsSpec
<1> QED BY <1>1, PTL DEF SavesInv

-----------------------------------------------------------------------------
(* Contents: the pages of the list.                                         *)

\* The order of items f gives names, and the place of an item in it.
StandsIn(order, f, i, j) ==
    \/ order = "oldest" /\ i <= j
    \/ order = "newest" /\ i >= j
    \/ order = "name" /\ (f[i] < f[j] \/ (f[i] = f[j] /\ i <= j))
InFrontOf(order, f, i) == {j \in DOMAIN f : StandsIn(order, f, j, i)}
PlaceIn(order, f, i) == Cardinality(InFrontOf(order, f, i))

Named(f) == IsFiniteSet(DOMAIN f) /\ DOMAIN f \subseteq Nat /\ \A i \in DOMAIN f : f[i] \in Nat

LEMMA StandsIsTotal ==
    ASSUME NEW f, Named(f), NEW order \in Orders, NEW i \in DOMAIN f, NEW j \in DOMAIN f
    PROVE  /\ StandsIn(order, f, i, i)
           /\ StandsIn(order, f, i, j) \/ StandsIn(order, f, j, i)
           /\ StandsIn(order, f, i, j) /\ StandsIn(order, f, j, i) => i = j
<1>1. i \in Nat /\ j \in Nat /\ f[i] \in Nat /\ f[j] \in Nat
  BY DEF Named
<1>2. order \in {"oldest", "newest", "name"}
  BY ContentsAssumption
<1>3. CASE order = "oldest"
  BY <1>1, <1>3 DEF StandsIn
<1>4. CASE order = "newest"
  BY <1>1, <1>4 DEF StandsIn
<1>5. CASE order = "name"
  BY <1>1, <1>5 DEF StandsIn
<1> QED BY <1>2, <1>3, <1>4, <1>5

LEMMA StandsIsTransitive ==
    ASSUME NEW f, Named(f), NEW order \in Orders, NEW i \in DOMAIN f, NEW j \in DOMAIN f, NEW k \in DOMAIN f,
           StandsIn(order, f, i, j), StandsIn(order, f, j, k)
    PROVE  StandsIn(order, f, i, k)
<1>1. /\ i \in Nat /\ j \in Nat /\ k \in Nat /\ f[i] \in Nat /\ f[j] \in Nat /\ f[k] \in Nat
  BY DEF Named
<1>2. order \in {"oldest", "newest", "name"}
  BY ContentsAssumption
<1>3. CASE order = "oldest"
  BY <1>1, <1>3 DEF StandsIn
<1>4. CASE order = "newest"
  BY <1>1, <1>4 DEF StandsIn
<1>5. CASE order = "name"
  BY <1>1, <1>5 DEF StandsIn
<1> QED BY <1>2, <1>3, <1>4, <1>5

LEMMA InFrontIs ==
    ASSUME NEW f, Named(f), NEW order, NEW i
    PROVE  /\ IsFiniteSet(InFrontOf(order, f, i)) /\ PlaceIn(order, f, i) \in Nat
           /\ PlaceIn(order, f, i) <= Cardinality(DOMAIN f)
<1>1. PICK D : D = DOMAIN f /\ IsFiniteSet(D)
  BY DEF Named
<1>2. PICK T \in SUBSET D : T = InFrontOf(order, f, i)
  BY <1>1 DEF InFrontOf
<1>3. IsFiniteSet(T) /\ Cardinality(T) <= Cardinality(D)
  BY <1>1, FS_Subset
<1>4. Cardinality(T) \in Nat
  BY <1>3, FS_CardinalityType
<1> QED BY <1>1, <1>2, <1>3, <1>4 DEF PlaceIn

LEMMA PlacesBeginWithOne ==
    ASSUME NEW f, Named(f), NEW order \in Orders, NEW i \in DOMAIN f
    PROVE  PlaceIn(order, f, i) \in Nat \ {0}
<1>1. PICK T : T = InFrontOf(order, f, i) /\ IsFiniteSet(T) /\ Cardinality(T) = PlaceIn(order, f, i)
  BY InFrontIs DEF PlaceIn
<1>2. i \in T
  BY <1>1, StandsIsTotal DEF InFrontOf
<1>3. Cardinality(T) # 0
  BY <1>1, <1>2, FS_EmptySet
<1> QED BY <1>1, <1>3, InFrontIs

\* No two items have one place.
LEMMA PlacesDiffer ==
    ASSUME NEW f, Named(f), NEW order \in Orders, NEW i \in DOMAIN f, NEW j \in DOMAIN f,
           PlaceIn(order, f, i) = PlaceIn(order, f, j)
    PROVE  i = j
<1>1. ASSUME NEW a \in DOMAIN f, NEW b \in DOMAIN f, StandsIn(order, f, a, b),
             PlaceIn(order, f, a) = PlaceIn(order, f, b)
      PROVE  a = b
  <2>1. PICK B : B = InFrontOf(order, f, b) /\ IsFiniteSet(B) /\ Cardinality(B) = PlaceIn(order, f, b)
    BY InFrontIs DEF PlaceIn
  <2>2. PICK A : A = InFrontOf(order, f, a) /\ Cardinality(A) = PlaceIn(order, f, a)
    BY DEF PlaceIn
  <2>3. A \in SUBSET B
    BY <1>1, <2>1, <2>2, StandsIsTransitive DEF InFrontOf
  <2>4. Cardinality(B) = Cardinality(A)
    BY <1>1, <2>1, <2>2
  <2>5. B = A
    BY <2>1, <2>3, <2>4, FS_Subset
  <2>6. b \in B
    BY <2>1, StandsIsTotal DEF InFrontOf
  <2>7. StandsIn(order, f, b, a)
    BY <2>2, <2>5, <2>6 DEF InFrontOf
  <2> QED BY <1>1, <2>7, StandsIsTotal
<1>2. StandsIn(order, f, i, j) \/ StandsIn(order, f, j, i)
  BY StandsIsTotal
<1> QED BY <1>1, <1>2

\* More items: nobody moves to the front.
LEMMA PlacesAfterAdding ==
    ASSUME NEW f, Named(f), NEW g, Named(g), NEW order, DOMAIN f \subseteq DOMAIN g, NEW i \in DOMAIN f,
           \A j \in DOMAIN f : g[j] = f[j]
    PROVE  PlaceIn(order, f, i) <= PlaceIn(order, g, i)
<1>1. PICK B : B = InFrontOf(order, g, i) /\ IsFiniteSet(B) /\ Cardinality(B) = PlaceIn(order, g, i)
  BY InFrontIs DEF PlaceIn
<1>2. PICK A : A = InFrontOf(order, f, i) /\ Cardinality(A) = PlaceIn(order, f, i)
  BY DEF PlaceIn
<1>3. A \in SUBSET B
  BY <1>1, <1>2 DEF InFrontOf, StandsIn
<1> QED BY <1>1, <1>2, <1>3, FS_Subset

\* One item moves or goes: the others move one place to the front at most, and if so
\* it does not stand in front of them any more.
LEMMA PlacesAfterOneMove ==
    ASSUME NEW f, Named(f), NEW g, Named(g), NEW order, NEW d, DOMAIN g \subseteq DOMAIN f,
           DOMAIN f \subseteq DOMAIN g \cup {d},
           \A j \in DOMAIN g : j # d => g[j] = f[j], NEW i \in DOMAIN g, i # d
    PROVE  /\ PlaceIn(order, f, i) <= PlaceIn(order, g, i) + 1
           /\ d \in InFrontOf(order, g, i) => PlaceIn(order, f, i) <= PlaceIn(order, g, i)
<1>1. PICK B : B = InFrontOf(order, g, i) /\ IsFiniteSet(B) /\ Cardinality(B) = PlaceIn(order, g, i)
  BY InFrontIs DEF PlaceIn
<1>2. PICK A : A = InFrontOf(order, f, i) /\ Cardinality(A) = PlaceIn(order, f, i)
  BY DEF PlaceIn
<1>3. A \subseteq B \cup {d}
  BY <1>1, <1>2 DEF InFrontOf, StandsIn
<1>4. PICK C : C = B \cup {d} /\ IsFiniteSet(C) /\ Cardinality(C) = IF d \in B THEN Cardinality(B) ELSE Cardinality(B) + 1
  BY <1>1, FS_AddElement
<1>5. Cardinality(A) <= Cardinality(C)
  <2>1. A \in SUBSET C
    BY <1>3, <1>4
  <2> QED BY <1>4, <2>1, FS_Subset
<1>6. Cardinality(B) \in Nat /\ Cardinality(A) \in Nat
  BY <1>1, <1>2, InFrontIs
<1> QED BY <1>1, <1>2, <1>4, <1>5, <1>6

\* The pages that are open.
OpenList == [page: Nat, total: Nat, order: Orders, began: SUBSET Nat, seen: SUBSET Nat]
ListTypeOK ==
    /\ Named(items) /\ lastItem \in Nat /\ There \subseteq 1..lastItem
    /\ moved \in Nat
    /\ list \in OpenList \cup {NoList} /\ (list # NoList => list.began \subseteq 1..lastItem)

\* What was and is there and has not been shown, and what of it stands where the
\* pages have been turned already.
Missing == (list.began \cap There) \ list.seen
MissedInFront == {i \in Missing : PlaceIn(list.order, items, i) <= Offset(list.page + 1)}
FrontIsShown == list # NoList /\ ~reordered => Cardinality(MissedInFront) <= moved

PagesInv == ListTypeOK /\ FrontIsShown /\ ListsMissOnlyWhatMoved

LEMMA ListIs ==
    ASSUME ListTypeOK, list # NoList
    PROVE  /\ list \in OpenList /\ list.page \in Nat /\ list.total \in Nat /\ list.order \in Orders
           /\ list.began \subseteq 1..lastItem
<1>1. list \in OpenList
  BY DEF ListTypeOK
<1> QED BY <1>1 DEF ListTypeOK, OpenList

LEMMA OffsetIs ==
    ASSUME NEW p \in Nat
    PROVE  /\ Offset(p) \in Nat /\ Offset(p + 1) = Offset(p) + ItemsPerPage /\ Offset(0) = 0
           /\ Offset(p + 1) = (p + 1) * ItemsPerPage
<1>1. PICK n \in Nat : n = ItemsPerPage
  BY ContentsAssumption
<1>2. p * n \in Nat /\ (p + 1) * n = p * n + n /\ 0 * n = 0
  OBVIOUS
<1> QED BY <1>1, <1>2 DEF Offset

LEMMA MissingIsFinite == ASSUME ListTypeOK PROVE IsFiniteSet(Missing) /\ IsFiniteSet(MissedInFront)
<1>1. PICK D : D = There /\ IsFiniteSet(D)
  BY DEF ListTypeOK, Named, There
<1>2. PICK M \in SUBSET D : M = Missing
  BY <1>1 DEF Missing
<1>3. PICK T \in SUBSET M : T = MissedInFront
  BY <1>2 DEF MissedInFront
<1>4. IsFiniteSet(M)
  BY <1>1, FS_Subset
<1>5. IsFiniteSet(T)
  BY <1>4, FS_Subset
<1> QED BY <1>2, <1>3, <1>4, <1>5

LEMMA FewerAreNoMore ==
    ASSUME NEW A, IsFiniteSet(A), NEW B \in SUBSET A, NEW n \in Nat, Cardinality(A) <= n
    PROVE  Cardinality(B) <= n
<1>1. Cardinality(A) \in Nat /\ IsFiniteSet(B) /\ Cardinality(B) <= Cardinality(A)
  BY FS_Subset, FS_CardinalityType
<1>2. Cardinality(B) \in Nat
  BY <1>1, FS_CardinalityType
<1> QED BY <1>1, <1>2

LEMMA OneMoreIsOneMore ==
    ASSUME NEW A, IsFiniteSet(A), NEW B, NEW n \in Nat, Cardinality(A) <= n,
           \A x \in B \ A : \A y \in B \ A : x = y
    PROVE  Cardinality(B) <= n + 1
<1>1. PICK x : B \subseteq A \cup {x}
  <2>1. CASE B \subseteq A
    BY <2>1
  <2>2. CASE ~(B \subseteq A)
    BY <2>2
  <2> QED BY <2>1, <2>2
<1>2. PICK C : C = A \cup {x} /\ IsFiniteSet(C) /\ Cardinality(C) = IF x \in A THEN Cardinality(A) ELSE Cardinality(A) + 1
  BY FS_AddElement
<1>3. Cardinality(A) \in Nat
  BY FS_CardinalityType
<1>4. Cardinality(C) <= n + 1
  BY <1>2, <1>3
<1>5. B \in SUBSET C
  BY <1>1, <1>2
<1> QED BY <1>2, <1>4, <1>5, FewerAreNoMore

LEMMA PagesInitInv == ContentsInit => PagesInv
<1> SUFFICES ASSUME ContentsInit PROVE PagesInv
  OBVIOUS
<1>1. DOMAIN items = {} /\ lastItem = 0 /\ list = NoList /\ moved = 0
  BY DEF ContentsInit
<1>2. Named(items)
  BY <1>1, FS_EmptySet DEF Named
<1> QED BY <1>1, <1>2 DEF PagesInv, ListTypeOK, FrontIsShown, ListsMissOnlyWhatMoved, There

\* The list and the items are as they were.
LEMMA PagesKept == ASSUME PagesInv, UNCHANGED <<items, lastItem, list, moved, reordered>> PROVE PagesInv'
<1>1. ListTypeOK'
  BY DEF PagesInv, ListTypeOK, There
<1>2. FrontIsShown'
  BY DEF PagesInv, FrontIsShown, MissedInFront, Missing, There
<1>3. ListsMissOnlyWhatMoved'
  BY DEF PagesInv, ListsMissOnlyWhatMoved, There, HasNext
<1> QED BY <1>1, <1>2, <1>3 DEF PagesInv

\* The items change under the list: what is missed is no more, or one more has moved.
LEMMA ItemsChange ==
    ASSUME PagesInv, ListTypeOK', UNCHANGED <<list, reordered>>, moved <= moved',
           list # NoList => Missing' \subseteq Missing,
           list # NoList => \/ MissedInFront' \subseteq MissedInFront
                            \/ /\ moved' = moved + 1
                               /\ \A x \in MissedInFront' \ MissedInFront : \A y \in MissedInFront' \ MissedInFront : x = y
    PROVE  PagesInv'
<1>1. moved \in Nat /\ moved' \in Nat /\ IsFiniteSet(Missing) /\ IsFiniteSet(MissedInFront)
  BY MissingIsFinite DEF PagesInv, ListTypeOK
<1>2. FrontIsShown'
  <2> SUFFICES ASSUME list # NoList, ~reordered PROVE Cardinality(MissedInFront') <= moved'
    BY DEF FrontIsShown
  <2>1. PICK A, B : A = MissedInFront /\ B = MissedInFront'
    OBVIOUS
  <2>2. IsFiniteSet(A) /\ Cardinality(A) <= moved
    BY <1>1, <2>1 DEF PagesInv, FrontIsShown
  <2>3. CASE B \subseteq A
    <3>1. Cardinality(B) <= moved
      BY <1>1, <2>2, <2>3, FewerAreNoMore
    <3>2. Cardinality(B) \in Nat
      <4>1. B \in SUBSET A
        BY <2>3
      <4> QED BY <2>2, <4>1, FS_Subset, FS_CardinalityType
    <3> QED BY <1>1, <2>1, <3>1, <3>2
  <2>4. CASE moved' = moved + 1 /\ \A x \in B \ A : \A y \in B \ A : x = y
    BY <1>1, <2>1, <2>2, <2>4, OneMoreIsOneMore
  <2> QED BY <2>1, <2>3, <2>4
<1>3. ListsMissOnlyWhatMoved'
  <2> SUFFICES ASSUME list # NoList, ~HasNext(list), ~reordered PROVE Cardinality(Missing') <= moved'
    BY DEF ListsMissOnlyWhatMoved, Missing, HasNext
  <2>1. PICK A, B : A = Missing /\ B = Missing'
    OBVIOUS
  <2>2. IsFiniteSet(A) /\ Cardinality(A) <= moved /\ B \in SUBSET A
    BY <1>1, <2>1 DEF PagesInv, ListsMissOnlyWhatMoved, Missing
  <2>3. Cardinality(B) <= moved
    BY <1>1, <2>2, FewerAreNoMore
  <2>4. Cardinality(B) \in Nat
    BY <2>2, FS_Subset, FS_CardinalityType
  <2> QED BY <1>1, <2>1, <2>3, <2>4
<1> QED BY <1>2, <1>3 DEF PagesInv

LEMMA AddsItemKeeps == ASSUME PagesInv, NEW n \in Labels, AddsItem(n) PROVE PagesInv'
<1>1. PICK new \in Nat : new = lastItem + 1 /\ new \notin 1..lastItem
  BY DEF PagesInv, ListTypeOK
<1>2. /\ items' = [i \in There \cup {new} |-> IF i = new THEN n ELSE items[i]] /\ lastItem' = new
      /\ UNCHANGED <<list, moved, reordered>>
  BY <1>1 DEF AddsItem, listVars
<1>3. Named(items) /\ lastItem \in Nat /\ There \subseteq 1..lastItem /\ n \in Nat
  BY ContentsAssumption DEF PagesInv, ListTypeOK
<1>4. DOMAIN items' = There \cup {new} /\ (\A i \in There : items'[i] = items[i]) /\ items'[new] = n
  BY <1>1, <1>2, <1>3
<1>5. Named(items')
  <2>1. IsFiniteSet(DOMAIN items')
    <3>1. PICK D : D = There /\ IsFiniteSet(D)
      BY <1>3 DEF Named, There
    <3> QED BY <1>4, <3>1, FS_AddElement
  <2> QED BY <1>1, <1>3, <1>4, <2>1 DEF Named, There
<1>6. 1..lastItem \subseteq 1..lastItem'
  BY <1>1, <1>2, <1>3
<1>7. There' \subseteq 1..lastItem'
  <2>1. new \in 1..lastItem'
    BY <1>1, <1>2, <1>3
  <2> QED BY <1>3, <1>4, <1>6, <2>1 DEF There
<1>8. ListTypeOK'
  BY <1>1, <1>2, <1>5, <1>6, <1>7 DEF PagesInv, ListTypeOK
<1>9. list # NoList => Missing' = Missing
  <2> HAVE list # NoList
  <2>1. new \notin list.began
    BY <1>1, ListIs DEF PagesInv
  <2> QED BY <1>2, <1>4, <2>1 DEF Missing, There
<1>10. list # NoList => MissedInFront' \subseteq MissedInFront
  <2> SUFFICES ASSUME list # NoList, NEW i \in MissedInFront' PROVE i \in MissedInFront
    OBVIOUS
  <2>1. i \in Missing /\ PlaceIn(list.order, items', i) <= Offset(list.page + 1)
    BY <1>2, <1>9 DEF MissedInFront
  <2>2. i \in DOMAIN items
    BY <2>1 DEF Missing, There
  <2>3. PlaceIn(list.order, items, i) <= PlaceIn(list.order, items', i)
    BY <1>3, <1>4, <1>5, <2>2, PlacesAfterAdding DEF There
  <2>4. PlaceIn(list.order, items, i) \in Nat /\ PlaceIn(list.order, items', i) \in Nat
    BY <1>3, <1>5, InFrontIs
  <2>5. Offset(list.page + 1) \in Nat
    BY ListIs, OffsetIs DEF PagesInv
  <2> QED BY <2>1, <2>3, <2>4, <2>5 DEF MissedInFront
<1>11. moved <= moved'
  BY <1>2 DEF PagesInv, ListTypeOK
<1> QED BY <1>2, <1>8, <1>9, <1>10, <1>11, ItemsChange

\* An item is taken away or renamed: at most one other comes to the front.
LEMMA OneMoves ==
    ASSUME PagesInv, NEW d, Named(items'), DOMAIN items' \subseteq DOMAIN items, DOMAIN items \subseteq DOMAIN items' \cup {d},
           \A j \in DOMAIN items' : j # d => items'[j] = items[j], list' = list, list # NoList,
           NEW x \in MissedInFront' \ MissedInFront, NEW y \in MissedInFront' \ MissedInFront
    PROVE  x = y
<1>1. PICK o \in Orders, k \in Nat : o = list.order /\ k = Offset(list.page + 1)
  BY ListIs, OffsetIs DEF PagesInv
<1>2. ASSUME NEW a \in MissedInFront' \ MissedInFront
      PROVE  a \in DOMAIN items' /\ PlaceIn(o, items', a) <= k /\ ~(PlaceIn(o, items, a) <= k)
  <2>1. a \in Missing' /\ PlaceIn(o, items', a) <= k
    BY <1>1 DEF MissedInFront
  <2>2. a \in DOMAIN items' /\ a \in Missing
    BY <2>1 DEF Missing, There
  <2> QED BY <1>1, <2>1, <2>2 DEF MissedInFront
<1>3. Named(items)
  BY DEF PagesInv, ListTypeOK
<1>4. ASSUME NEW a \in MissedInFront' \ MissedInFront, a # d
      PROVE  PlaceIn(o, items, a) = k + 1 /\ PlaceIn(o, items', a) = k /\ d \notin InFrontOf(o, items', a)
  <2>1. PlaceIn(o, items, a) \in Nat /\ PlaceIn(o, items', a) \in Nat
    BY <1>3, InFrontIs
  <2>2. PlaceIn(o, items, a) <= PlaceIn(o, items', a) + 1
    BY <1>2, <1>3, <1>4, PlacesAfterOneMove
  <2>3. d \in InFrontOf(o, items', a) => PlaceIn(o, items, a) <= PlaceIn(o, items', a)
    BY <1>2, <1>3, <1>4, PlacesAfterOneMove
  <2> QED BY <1>2, <2>1, <2>2, <2>3
<1>5. ASSUME NEW a \in MissedInFront' \ MissedInFront, a # d, d \in MissedInFront' \ MissedInFront PROVE FALSE
  <2>1. PlaceIn(o, items', a) = k /\ d \notin InFrontOf(o, items', a) /\ a \in DOMAIN items' /\ d \in DOMAIN items'
    BY <1>2, <1>4, <1>5
  <2>2. StandsIn(o, items', a, d)
    BY <2>1, StandsIsTotal DEF InFrontOf
  <2>3. PlaceIn(o, items', d) <= k
    BY <1>2, <1>5
  <2>4. PICK B : B = InFrontOf(o, items', d) /\ IsFiniteSet(B) /\ Cardinality(B) = PlaceIn(o, items', d)
    BY InFrontIs DEF PlaceIn
  <2>5. PICK A : A = InFrontOf(o, items', a) /\ Cardinality(A) = k
    BY <2>1 DEF PlaceIn
  <2>6. A \in SUBSET B
    BY <2>1, <2>2, <2>4, <2>5, StandsIsTransitive DEF InFrontOf
  <2>7. Cardinality(A) <= Cardinality(B) /\ (Cardinality(B) = Cardinality(A) => B = A)
    BY <2>4, <2>6, FS_Subset
  <2>8. Cardinality(B) \in Nat
    BY <2>4, FS_CardinalityType
  <2>9. B = A
    BY <2>3, <2>4, <2>5, <2>7, <2>8
  <2>10. d \in B
    BY <2>1, <2>4, StandsIsTotal DEF InFrontOf
  <2> QED BY <2>1, <2>5, <2>9, <2>10
<1>6. CASE x = d \/ y = d
  BY <1>5, <1>6
<1>7. CASE x # d /\ y # d
  <2>1. PlaceIn(o, items, x) = PlaceIn(o, items, y)
    BY <1>4, <1>7
  <2>2. x \in DOMAIN items /\ y \in DOMAIN items
    BY <1>2
  <2> QED BY <1>3, <2>1, <2>2, PlacesDiffer
<1> QED BY <1>6, <1>7

LEMMA RemovesItemKeeps == ASSUME PagesInv, NEW d \in ItemIds, RemovesItem(d) PROVE PagesInv'
<1>1. /\ items' = [j \in There \ {d} |-> items[j]] /\ UNCHANGED <<lastItem, list, reordered>>
      /\ moved' = IF list # NoList THEN moved + 1 ELSE moved
  BY DEF RemovesItem
<1>2. Named(items) /\ moved \in Nat
  BY DEF PagesInv, ListTypeOK
<1>3. DOMAIN items' = There \ {d} /\ \A j \in DOMAIN items' : items'[j] = items[j]
  BY <1>1
<1>4. Named(items')
  <2>1. PICK D : D = There /\ IsFiniteSet(D)
    BY <1>2 DEF Named, There
  <2>2. IsFiniteSet(D \ {d})
    BY <2>1, FS_RemoveElement
  <2> QED BY <1>2, <1>3, <2>1, <2>2 DEF Named, There
<1>5. moved' \in Nat /\ moved <= moved'
  BY <1>1, <1>2
<1>6. ListTypeOK'
  BY <1>1, <1>3, <1>4, <1>5 DEF PagesInv, ListTypeOK, There
<1>7. Missing' \subseteq Missing
  BY <1>1, <1>3 DEF Missing, There
<1>8. list # NoList => /\ moved' = moved + 1
                       /\ \A x \in MissedInFront' \ MissedInFront : \A y \in MissedInFront' \ MissedInFront : x = y
  BY <1>1, <1>3, <1>4, OneMoves DEF There
<1> QED BY <1>1, <1>5, <1>6, <1>7, <1>8, ItemsChange

LEMMA RenamesItemKeeps ==
    ASSUME PagesInv, NEW d \in ItemIds, NEW n \in Labels, RenamesItem(d, n) PROVE PagesInv'
<1>1. /\ items' = [items EXCEPT ![d] = n] /\ UNCHANGED <<lastItem, list, reordered>> /\ d \in There
      /\ moved' = IF list # NoList /\ list.order = "name" THEN moved + 1 ELSE moved
  BY DEF RenamesItem
<1>2. Named(items) /\ moved \in Nat /\ n \in Nat
  BY ContentsAssumption DEF PagesInv, ListTypeOK
<1>3. /\ DOMAIN items' = DOMAIN items /\ items'[d] = n
      /\ \A j \in DOMAIN items' : j # d => items'[j] = items[j]
  BY <1>1 DEF There
<1>4. Named(items')
  BY <1>2, <1>3 DEF Named
<1>5. moved' \in Nat /\ moved <= moved'
  BY <1>1, <1>2
<1>6. ListTypeOK'
  BY <1>1, <1>3, <1>4, <1>5 DEF PagesInv, ListTypeOK, There
<1>7. Missing' = Missing
  BY <1>1, <1>3 DEF Missing, There
<1>8. CASE list # NoList => list.order = "name"
  <2>1. list # NoList => /\ moved' = moved + 1
                         /\ \A x \in MissedInFront' \ MissedInFront : \A y \in MissedInFront' \ MissedInFront : x = y
    BY <1>1, <1>3, <1>4, <1>8, OneMoves
  <2> QED BY <1>1, <1>5, <1>6, <1>7, <2>1, ItemsChange
<1>9. CASE list # NoList /\ list.order # "name"
  <2>1. \A i : InFrontOf(list.order, items', i) = InFrontOf(list.order, items, i)
    BY <1>3, <1>9 DEF InFrontOf, StandsIn
  <2>2. MissedInFront' = MissedInFront
    BY <1>1, <1>7, <2>1 DEF MissedInFront, PlaceIn
  <2> QED BY <1>1, <1>5, <1>6, <1>7, <2>2, ItemsChange
<1> QED BY <1>8, <1>9

\* What a page shows.
LEMMA PageIs ==
    ASSUME ListTypeOK, NEW o \in Orders, NEW p \in Nat, NEW i \in There
    PROVE  i \in Page(o, p) <=> Offset(p) < PlaceIn(o, items, i) /\ PlaceIn(o, items, i) <= Offset(p + 1)
<1>1. Place(o, i) = PlaceIn(o, items, i)
  BY DEF Place, PlaceIn, InFrontOf, StandsIn, ComesFirst, There
<1>2. PICK q \in Nat : q = PlaceIn(o, items, i)
  BY InFrontIs DEF ListTypeOK
<1>3. Offset(p) \in Nat /\ Offset(p + 1) = Offset(p) + ItemsPerPage /\ ItemsPerPage \in Nat
  BY OffsetIs, ContentsAssumption
<1>4. i \in Page(o, p) <=> q \in (Offset(p) + 1)..(Offset(p) + ItemsPerPage)
  BY <1>1, <1>2 DEF Page
<1> QED BY <1>2, <1>3, <1>4

LEMMA OrderIs == ASSUME SavesInv PROVE OrderInForce \in Orders
<1>1. choices \in Offers /\ setting \in StoredSetting \cup {NoRow}
  BY DEF SavesInv, SavesTypeOK
<1>2. DefaultOrder \in Orders
  BY <1>1, ContentsAssumption
<1>3. IsStored => setting.value \in Orders
  BY <1>1 DEF IsStored, StoredSetting
<1> QED BY <1>2, <1>3 DEF OrderInForce

LEMMA OpensListKeeps == ASSUME SavesInv, PagesInv, OpensList PROVE PagesInv'
<1>1. PICK o \in Orders : o = OrderInForce
  BY OrderIs
<1>2. PICK t \in Nat : t = Cardinality(There)
  BY FS_CardinalityType DEF PagesInv, ListTypeOK, Named, There
<1>3. PICK l : l = [page |-> 0, total |-> t, order |-> o, began |-> There, seen |-> Page(o, 0)]
  OBVIOUS
<1>4. list' = l /\ moved' = 0 /\ UNCHANGED <<items, lastItem>>
  BY <1>1, <1>2, <1>3 DEF OpensList, itemVars
<1>5. ListTypeOK /\ There \subseteq Nat /\ Page(o, 0) \subseteq There
  BY DEF PagesInv, ListTypeOK, Named, There, Page
<1>6. l \in OpenList
  BY <1>3, <1>5 DEF OpenList
<1>7. l.page = 0 /\ l.total = t /\ l.order = o /\ l.began = There /\ l.seen = Page(o, 0)
  BY <1>3
<1>8. ListTypeOK'
  BY <1>4, <1>5, <1>6, <1>7 DEF ListTypeOK, There
<1>9. Missing' = There \ Page(o, 0)
  BY <1>4, <1>7 DEF Missing, There
<1>10. \A i \in There : PlaceIn(o, items, i) \in Nat \ {0} /\ PlaceIn(o, items, i) <= t
  BY <1>2, <1>5, PlacesBeginWithOne, InFrontIs DEF ListTypeOK, There
<1>11. Offset(0) = 0 /\ Offset(0 + 1) \in Nat /\ Offset(0 + 1) = (0 + 1) * ItemsPerPage
  BY OffsetIs
<1>12. \A i \in There \ Page(o, 0) : ~(PlaceIn(o, items, i) <= Offset(0 + 1))
  BY <1>5, <1>10, <1>11, PageIs
<1>13. MissedInFront' = {}
  BY <1>4, <1>7, <1>9, <1>12 DEF MissedInFront
<1>14. FrontIsShown'
  BY <1>4, <1>13, FS_EmptySet DEF FrontIsShown
<1>15. ASSUME ~HasNext(l) PROVE Missing' = {}
  <2>1. ~((0 + 1) * ItemsPerPage < t)
    BY <1>7, <1>15 DEF HasNext
  <2> QED BY <1>2, <1>9, <1>10, <1>11, <1>12, <2>1
<1>16. ListsMissOnlyWhatMoved'
  <2>1. ASSUME ~HasNext(l) PROVE Cardinality(Missing') <= moved'
    <3>1. Missing' = {}
      BY <1>15, <2>1
    <3> QED BY <1>4, <3>1, FS_EmptySet
  <2>2. HasNext(list)' = HasNext(l)
    BY <1>4 DEF HasNext
  <2> QED BY <2>1, <2>2 DEF ListsMissOnlyWhatMoved, Missing
<1> QED BY <1>8, <1>14, <1>16 DEF PagesInv

LEMMA TurnsToNextKeeps == ASSUME SavesInv, PagesInv, TurnsToNext PROVE PagesInv'
<1>1. PICK o \in Orders : o = OrderInForce
  BY OrderIs
<1>2. PICK t \in Nat : t = Cardinality(There)
  BY FS_CardinalityType DEF PagesInv, ListTypeOK, Named, There
<1>3. PICK l \in OpenList : l = list /\ l.page \in Nat /\ l.order \in Orders /\ list # NoList
  BY ListIs DEF TurnsToNext, PagesInv
<1>4. PICK p \in Nat : p = l.page + 1
  BY <1>3
<1>5. PICK s : s = l.seen \cup Page(o, p)
  OBVIOUS
<1>6. PICK m : m = [l EXCEPT !.page = p, !.total = t, !.seen = s]
  OBVIOUS
<1>7. /\ list' = m /\ UNCHANGED <<items, lastItem, moved>> /\ reordered' = (reordered \/ o # l.order)
  BY <1>1, <1>2, <1>3, <1>4, <1>5, <1>6 DEF TurnsToNext, itemVars
<1>8. ListTypeOK /\ There \subseteq Nat /\ Page(o, p) \subseteq There /\ l.began \subseteq 1..lastItem
  BY <1>3 DEF PagesInv, ListTypeOK, Named, There, Page
<1>9. s \in SUBSET Nat
  BY <1>3, <1>5, <1>8 DEF OpenList
<1>10. m \in OpenList
  BY <1>3, <1>6, <1>9 DEF OpenList
<1>11. m.page = p /\ m.total = t /\ m.order = l.order /\ m.began = l.began /\ m.seen = s
  BY <1>3, <1>6 DEF OpenList
<1>12. ListTypeOK'
  BY <1>7, <1>8, <1>10, <1>11 DEF ListTypeOK, There
<1>13. Missing' = Missing \ Page(o, p) /\ Missing \subseteq There
  BY <1>3, <1>5, <1>7, <1>11 DEF Missing, There
<1>14. Offset(p) \in Nat /\ Offset(p + 1) \in Nat /\ Offset(p + 1) = (p + 1) * ItemsPerPage
  <2>1. ItemsPerPage \in Nat
    BY ContentsAssumption
  <2>2. Offset(p) \in Nat /\ Offset(p + 1) = Offset(p) + ItemsPerPage
    BY OffsetIs
  <2>3. Offset(p + 1) = (p + 1) * ItemsPerPage
    BY OffsetIs
  <2> QED BY <2>1, <2>2, <2>3
<1>15. moved \in Nat /\ IsFiniteSet(MissedInFront)
  BY MissingIsFinite DEF PagesInv, ListTypeOK
<1>16. ~reordered' => Cardinality(MissedInFront) <= moved /\ o = l.order
  BY <1>3, <1>7 DEF PagesInv, FrontIsShown
<1>17. ASSUME o = l.order, NEW i \in Missing', PlaceIn(o, items, i) <= Offset(p + 1) PROVE i \in MissedInFront
  <2>1. i \in There /\ i \in Missing /\ i \notin Page(o, p)
    BY <1>13, <1>17
  <2>2. ~(Offset(p) < PlaceIn(o, items, i))
    BY <1>8, <1>17, <2>1, PageIs
  <2>3. PlaceIn(o, items, i) \in Nat
    BY <1>8, InFrontIs DEF ListTypeOK
  <2>4. PlaceIn(o, items, i) <= Offset(l.page + 1)
    BY <1>4, <1>14, <2>2, <2>3
  <2> QED BY <1>3, <1>17, <2>1, <2>4 DEF MissedInFront
<1>18. FrontIsShown'
  <2> SUFFICES ASSUME ~reordered' PROVE Cardinality(MissedInFront') <= moved
    BY <1>7 DEF FrontIsShown
  <2>1. PICK A, B : A = MissedInFront /\ B = MissedInFront'
    OBVIOUS
  <2>2. B \in SUBSET A
    BY <1>7, <1>11, <1>16, <1>17, <2>1 DEF MissedInFront
  <2> QED BY <1>15, <1>16, <2>1, <2>2, FewerAreNoMore
<1>19. ListsMissOnlyWhatMoved'
  <2> SUFFICES ASSUME ~HasNext(m), ~reordered' PROVE Cardinality(Missing') <= moved
    BY <1>7 DEF ListsMissOnlyWhatMoved, Missing, HasNext
  <2>1. ~((p + 1) * ItemsPerPage < t)
    BY <1>11 DEF HasNext
  <2>2. \A i \in There : PlaceIn(o, items, i) \in Nat /\ PlaceIn(o, items, i) <= t
    BY <1>2, <1>8, InFrontIs DEF ListTypeOK, There
  <2>3. \A i \in Missing' : PlaceIn(o, items, i) <= Offset(p + 1)
    BY <1>2, <1>13, <1>14, <2>1, <2>2
  <2>4. PICK A, B : A = MissedInFront /\ B = Missing'
    OBVIOUS
  <2>5. B \in SUBSET A
    BY <1>16, <1>17, <2>3, <2>4
  <2> QED BY <1>15, <1>16, <2>4, <2>5, FewerAreNoMore
<1> QED BY <1>12, <1>18, <1>19 DEF PagesInv

LEMMA PagesStep == ASSUME SavesInv, PagesInv, [ContentsNext]_contentVars PROVE PagesInv'
<1>1. CASE UNCHANGED <<items, lastItem, list, moved, reordered>>
  BY <1>1, PagesKept
<1>2. CASE UNCHANGED contentVars
  BY <1>1, <1>2 DEF contentVars, itemVars, listVars
<1>3. CASE ClosesList
  <2>1. ListTypeOK' /\ list' = NoList
    BY <1>3 DEF ClosesList, itemVars, PagesInv, ListTypeOK, There
  <2> QED BY <2>1 DEF PagesInv, FrontIsShown, ListsMissOnlyWhatMoved
<1>4. ASSUME NEW r \in Requests, Saves(r) \/ SaveFails(r) \/ \E v \in Orders \cup {AtDefault} : BeginsSave(r, v)
      PROVE  PagesInv'
  BY <1>1, <1>4 DEF Saves, SaveFails, BeginsSave, itemVars, listVars
<1>5. ASSUME NEW C \in Offers, Deploys(C) PROVE PagesInv'
  BY <1>1, <1>5 DEF Deploys, itemVars, listVars
<1> QED BY <1>2, <1>3, <1>4, <1>5, OpensListKeeps, TurnsToNextKeeps, AddsItemKeeps, RenamesItemKeeps, RemovesItemKeeps
        DEF ContentsNext

\* Whoever turns the pages to the last, all in one order, misses no more of the items
\* that were and are there than were removed or (by name) moved meanwhile: for any
\* items, names, page lengths, and whatever is added, renamed and removed meanwhile.
THEOREM ListsAreWhole == ContentsSpec => []ListsMissOnlyWhatMoved
<1>1. ContentsInit => SavesInv /\ PagesInv
  BY SavesInitInv, PagesInitInv
<1>2. SavesInv /\ PagesInv /\ [ContentsNext]_contentVars => (SavesInv /\ PagesInv)'
  BY SavesStep, PagesStep
<1>3. PagesInv => ListsMissOnlyWhatMoved
  BY DEF PagesInv
<1> QED BY <1>1, <1>2, <1>3, PTL DEF ContentsSpec

-----------------------------------------------------------------------------
(* Notifications.                                                           *)

\* Whoever has a device, or is about to, is not among those who are not there.
PresentAreNotAbsent ==
    /\ \A d \in Devices : holder[d] \in Users =>
           <<holder[d], d>> \notin left /\ \A m \in Messages : <<holder[d], d>> \notin absent[m]
    /\ \A r \in Requests : asking[r] # NoAsking =>
           \A m \in Messages : <<asking[r].user, asking[r].device>> \notin absent[m]

\* A job lists devices of people who are there, has called none before it was sent, and
\* is over when the sending request ends.
ListsArePresent ==
    /\ \A m \in Messages : \A x \in sending[m].list : <<x.to, x.device>> \notin absent[m]
    /\ \A m \in Messages : message[m] = "unsent" => sending[m] = Unsent
    /\ \A m \in Messages : Pushing(m) => message[m] = "open"
    /\ \A h \in heard : message[h.message] # "unsent"

\* Whoever had a device all the time is one the notification is for, and its device is
\* called, or listed, or of the kind that is still to come.
Reached(m, d) == \E h \in heard : h.message = m /\ h.device = d
ToBeReached(m, d) == Reached(m, d) \/ \E x \in sending[m].list : x.device = d

SteadyAreReached ==
    \A m \in Messages : message[m] # "unsent" => \A d \in steady[m] :
        /\ d \in Devices /\ holder[d] \in sending[m].to
        /\ sending[m].state = "browsers" /\ sending[m].listed /\ d \notin Apps => ToBeReached(m, d)
        /\ sending[m].state = "apps" /\ d \notin Apps => Reached(m, d)
        /\ sending[m].state = "apps" /\ sending[m].listed /\ d \in Apps => ToBeReached(m, d)
        /\ sending[m].state = "pushed" => Reached(m, d)

NotificationsInv ==
    NotificationsTypeOK /\ PresentAreNotAbsent /\ ListsArePresent /\ SteadyAreReached /\ SignedOutHearNothing

LEMMA NotificationsInitInv == NotificationsInit => NotificationsInv
<1> SUFFICES ASSUME NotificationsInit PROVE NotificationsInv
  OBVIOUS
<1>1. /\ holder = [d \in Devices |-> Nobody] /\ asking = [r \in Requests |-> NoAsking]
      /\ sending = [m \in Messages |-> Unsent] /\ message = [m \in Messages |-> "unsent"]
      /\ delivery = [m \in Messages |-> [u \in Users |-> "none"]]
      /\ heard = {} /\ left = Users \X Devices /\ steady = [m \in Messages |-> {}] /\ absent = [m \in Messages |-> {}]
  BY DEF NotificationsInit
<1>2. Unsent \in Sending /\ Unsent.gone = {} /\ Unsent.list = {}
  BY DEF Unsent, Sending
<1>3. NotificationsTypeOK
  <2>1. /\ holder \in [Devices -> Users \cup {Nobody}] /\ asking \in [Requests -> Registering \cup {NoAsking}]
        /\ sending \in [Messages -> Sending] /\ heard \subseteq Hearing
    BY <1>1, <1>2
  <2>2. /\ message \in [Messages -> {"unsent", "open", "stored", "lost"}]
        /\ delivery \in [Messages -> [Users -> {"none", "unread", "read", "dismissed"}]]
    BY <1>1
  <2>3. /\ steady \in [Messages -> SUBSET Devices]
        /\ left \subseteq Users \X Devices /\ absent \in [Messages -> SUBSET (Users \X Devices)]
    BY <1>1
  <2>4. \A m \in Messages, u \in Users : delivery[m][u] = "none"
    BY <1>1
  <2>5. \A m \in Messages : sending[m].gone = {}
    BY <1>1, <1>2
  <2> QED BY <2>1, <2>2, <2>3, <2>4, <2>5 DEF NotificationsTypeOK
<1>4. PresentAreNotAbsent
  BY <1>1, ServiceAssumption DEF PresentAreNotAbsent
<1>5. ListsArePresent
  BY <1>1, <1>2 DEF ListsArePresent, Pushing, Unsent
<1>6. SteadyAreReached /\ SignedOutHearNothing
  BY <1>1 DEF SteadyAreReached, SignedOutHearNothing
<1> QED BY <1>3, <1>4, <1>5, <1>6 DEF NotificationsInv

\* A notification that was not sent has no job.
LEMMA UnsentHasNoJob ==
    ASSUME NotificationsInv, NEW m \in Messages, Pushing(m) \/ sending[m].state \in {"pushed", "quiet", "crashed"}
    PROVE  message[m] # "unsent"
BY DEF NotificationsInv, ListsArePresent, Pushing, Unsent

\* What the rows of the devices and the requests to register say when rows are deleted.
LEMMA DeletedRowsAreLost ==
    ASSUME NotificationsInv, NEW D, RowsDeleted(D)
    PROVE  /\ asking' \in [Requests -> Registering \cup {NoAsking}]
           /\ \A r \in Requests : asking'[r] # NoAsking =>
                 asking[r] # NoAsking /\ asking'[r].user = asking[r].user /\ asking'[r].device = asking[r].device
<1>1. asking \in [Requests -> Registering \cup {NoAsking}]
  BY DEF NotificationsInv, NotificationsTypeOK
<1>2. asking' = [r \in Requests |-> IF asking[r] # NoAsking /\ asking[r].device \in D /\ asking[r].saw = "row"
                                  THEN [asking[r] EXCEPT !.saw = "lost row"] ELSE asking[r]]
  BY DEF RowsDeleted
<1>3. ASSUME NEW r \in Requests
      PROVE  /\ asking'[r] \in Registering \cup {NoAsking}
             /\ asking'[r] # NoAsking =>
                 asking[r] # NoAsking /\ asking'[r].user = asking[r].user /\ asking'[r].device = asking[r].device
  <2>1. CASE asking[r] = NoAsking
    BY <1>2, <2>1
  <2>2. CASE asking[r] # NoAsking
    <3>1. asking[r] \in Registering
      BY <1>1, <2>2
    <3>2. CASE asking'[r] = asking[r]
      BY <2>2, <3>1, <3>2
    <3>3. CASE asking'[r] = [asking[r] EXCEPT !.saw = "lost row"]
      <4>1. asking'[r] \in Registering /\ asking'[r].user = asking[r].user /\ asking'[r].device = asking[r].device
        BY <3>1, <3>3 DEF Registering
      <4> QED BY <2>2, <4>1
    <3> QED BY <1>2, <3>2, <3>3
  <2> QED BY <2>1, <2>2
<1> QED BY <1>2, <1>3

\* Rows of devices change hands, or go: with them goes who has had them all the time.
LEMMA HoldersChangeKeeps ==
    ASSUME NotificationsInv, UNCHANGED <<message, delivery, heard>>,
           holder' \in [Devices -> Users \cup {Nobody}],
           asking' \in [Requests -> Registering \cup {NoAsking}],
           sending' \in [Messages -> Sending],
           \A m \in Messages : sending'[m].list = sending[m].list /\ sending'[m].to = sending[m].to,
           \A m \in Messages : message[m] = "unsent" => sending'[m] = sending[m],
           \A m \in Messages : sending'[m].gone # {} => sending'[m] = sending[m],
           steady' \in [Messages -> SUBSET Devices], \A m \in Messages : steady'[m] \subseteq steady[m],
           \A m \in Messages, d \in Devices : d \in steady'[m] => holder'[d] = holder[d],
           left' \subseteq Users \X Devices,
           absent' \in [Messages -> SUBSET (Users \X Devices)], \A m \in Messages : absent'[m] \subseteq absent[m],
           \A r \in Requests : asking'[r] # NoAsking =>
               \A m \in Messages : <<asking'[r].user, asking'[r].device>> \notin absent'[m],
           \A d \in Devices : holder'[d] \in Users =>
               <<holder'[d], d>> \notin left' /\ \A m \in Messages : <<holder'[d], d>> \notin absent'[m],
           \A m \in Messages : \/ sending'[m].state = sending[m].state /\ sending'[m].listed = sending[m].listed
                               \/ sending'[m].state = "pushed" /\ \A d \in steady[m] : Reached(m, d)
    PROVE  NotificationsInv'
<1>1. NotificationsTypeOK'
  <2>1. \A m \in Messages, u \in Users : delivery[m][u] # "none" => message[m] = "stored" /\ u \in sending[m].to
    BY DEF NotificationsInv, NotificationsTypeOK
  <2>2. \A m \in Messages : sending[m].gone # {} => Pushing(m) /\ message[m] = "open"
    BY DEF NotificationsInv, NotificationsTypeOK
  <2>3. \A m \in Messages : sending'[m].gone # {} => Pushing(m)' /\ message'[m] = "open"
    BY <2>2 DEF Pushing
  <2>4. /\ message' \in [Messages -> {"unsent", "open", "stored", "lost"}] /\ heard' \subseteq Hearing
        /\ delivery' \in [Messages -> [Users -> {"none", "unread", "read", "dismissed"}]]
    BY DEF NotificationsInv, NotificationsTypeOK
  <2> QED BY <2>1, <2>3, <2>4 DEF NotificationsTypeOK
<1>2. PresentAreNotAbsent'
  BY DEF PresentAreNotAbsent
<1>3. ListsArePresent'
  <2>1. \A m \in Messages : \A x \in sending'[m].list : <<x.to, x.device>> \notin absent'[m]
    BY DEF NotificationsInv, ListsArePresent
  <2>2. \A m \in Messages : message'[m] = "unsent" => sending'[m] = Unsent
    BY DEF NotificationsInv, ListsArePresent
  <2>3. \A h \in heard' : message'[h.message] # "unsent"
    BY DEF NotificationsInv, ListsArePresent
  <2>4. \A m \in Messages : Pushing(m)' => message'[m] = "open"
    BY DEF NotificationsInv, ListsArePresent, Pushing
  <2> QED BY <2>1, <2>2, <2>3, <2>4 DEF ListsArePresent
<1>4. SignedOutHearNothing'
  <2>1. \A h \in heard : h.message \in Messages
    BY DEF NotificationsInv, NotificationsTypeOK, Hearing
  <2> QED BY <2>1 DEF NotificationsInv, SignedOutHearNothing
<1>5. SteadyAreReached'
  <2> SUFFICES ASSUME NEW m \in Messages, message[m] # "unsent", NEW d \in steady'[m]
               PROVE  /\ d \in Devices /\ holder'[d] \in sending'[m].to
                      /\ sending'[m].state = "browsers" /\ sending'[m].listed /\ d \notin Apps => ToBeReached(m, d)'
                      /\ sending'[m].state = "apps" /\ d \notin Apps => Reached(m, d)'
                      /\ sending'[m].state = "apps" /\ sending'[m].listed /\ d \in Apps => ToBeReached(m, d)'
                      /\ sending'[m].state = "pushed" => Reached(m, d)'
    BY DEF SteadyAreReached
  <2>1. d \in steady[m] /\ d \in Devices
    OBVIOUS
  <2>2. /\ holder[d] \in sending[m].to
        /\ sending[m].state = "browsers" /\ sending[m].listed /\ d \notin Apps => ToBeReached(m, d)
        /\ sending[m].state = "apps" /\ d \notin Apps => Reached(m, d)
        /\ sending[m].state = "apps" /\ sending[m].listed /\ d \in Apps => ToBeReached(m, d)
        /\ sending[m].state = "pushed" => Reached(m, d)
    BY <2>1 DEF NotificationsInv, SteadyAreReached
  <2>3. Reached(m, d)' = Reached(m, d) /\ ToBeReached(m, d)' = ToBeReached(m, d)
    BY DEF Reached, ToBeReached
  <2>4. holder'[d] \in sending'[m].to
    BY <2>1, <2>2
  <2>5. CASE sending'[m].state = sending[m].state /\ sending'[m].listed = sending[m].listed
    BY <2>1, <2>2, <2>3, <2>4, <2>5
  <2>6. CASE sending'[m].state = "pushed" /\ \A e \in steady[m] : Reached(m, e)
    BY <2>1, <2>3, <2>4, <2>6
  <2> QED BY <2>5, <2>6
<1> QED BY <1>1, <1>2, <1>3, <1>4, <1>5 DEF NotificationsInv

LEMMA AsksToRegisterKeeps ==
    ASSUME NotificationsInv, NEW r \in Requests, NEW u \in Users, NEW d \in Devices, AsksToRegister(r, u, d)
    PROVE  NotificationsInv'
<1>1. UNCHANGED <<holder, sending, message, delivery, heard, steady>>
  BY DEF AsksToRegister
<1>2. PICK a : a = [user |-> u, device |-> d, saw |-> IF holder[d] = Nobody THEN "none" ELSE "row"]
  OBVIOUS
<1>3. a \in Registering /\ a.user = u /\ a.device = d
  BY <1>2 DEF Registering
<1>4. /\ asking' = [asking EXCEPT ![r] = a] /\ left' = left \ {<<u, d>>}
      /\ absent' = [m \in Messages |-> absent[m] \ {<<u, d>>}]
  BY <1>2 DEF AsksToRegister
<1>5. NotificationsTypeOK /\ PresentAreNotAbsent
  BY DEF NotificationsInv
<1>6. /\ holder' \in [Devices -> Users \cup {Nobody}] /\ asking' \in [Requests -> Registering \cup {NoAsking}]
      /\ sending' \in [Messages -> Sending] /\ steady' \in [Messages -> SUBSET Devices]
      /\ left' \subseteq Users \X Devices /\ absent' \in [Messages -> SUBSET (Users \X Devices)]
      /\ \A m \in Messages : absent'[m] \subseteq absent[m]
  BY <1>1, <1>3, <1>4, <1>5 DEF NotificationsTypeOK
<1>7. \A q \in Requests : asking'[q] # NoAsking => \A m \in Messages : <<asking'[q].user, asking'[q].device>> \notin absent'[m]
  <2> SUFFICES ASSUME NEW q \in Requests, asking'[q] # NoAsking, NEW m \in Messages
               PROVE  <<asking'[q].user, asking'[q].device>> \notin absent'[m]
    OBVIOUS
  <2>1. CASE q = r
    <3>1. asking'[q] = a
      BY <1>4, <1>5, <2>1 DEF NotificationsTypeOK
    <3> QED BY <1>3, <1>4, <3>1
  <2>2. CASE q # r
    <3>1. asking'[q] = asking[q]
      BY <1>4, <1>5, <2>2 DEF NotificationsTypeOK
    <3> QED BY <1>5, <1>6, <3>1 DEF PresentAreNotAbsent
  <2> QED BY <2>1, <2>2
<1>8. \A e \in Devices : holder'[e] \in Users =>
          <<holder'[e], e>> \notin left' /\ \A m \in Messages : <<holder'[e], e>> \notin absent'[m]
  BY <1>1, <1>4, <1>5, <1>6 DEF PresentAreNotAbsent
<1> QED BY <1>1, <1>6, <1>7, <1>8, HoldersChangeKeeps

LEMMA RegistersKeeps ==
    ASSUME NotificationsInv, NEW r \in Requests, Registers(r)
    PROVE  NotificationsInv'
<1>1. PICK a : a = asking[r]
  OBVIOUS
<1>2. PICK d : d = a.device
  OBVIOUS
<1>3. /\ a # NoAsking /\ UNCHANGED <<sending, message, delivery, heard, absent>>
      /\ asking' = [asking EXCEPT ![r] = NoAsking]
  BY <1>1 DEF Registers
<1>4. NotificationsTypeOK /\ PresentAreNotAbsent
  BY DEF NotificationsInv
<1>5. a \in Registering /\ a.user \in Users /\ d \in Devices
  <2>1. asking \in [Requests -> Registering \cup {NoAsking}]
    BY <1>4 DEF NotificationsTypeOK
  <2>2. a \in Registering
    BY <1>1, <1>3, <2>1
  <2> QED BY <1>2, <2>2 DEF Registering
<1>6. /\ asking' \in [Requests -> Registering \cup {NoAsking}] /\ sending' \in [Messages -> Sending]
      /\ absent' \in [Messages -> SUBSET (Users \X Devices)]
  BY <1>3, <1>4 DEF NotificationsTypeOK
<1>7. \A q \in Requests : asking'[q] # NoAsking => asking[q] # NoAsking /\ asking'[q] = asking[q]
  BY <1>3, <1>4 DEF NotificationsTypeOK
<1>8. \A q \in Requests : asking'[q] # NoAsking => \A m \in Messages : <<asking'[q].user, asking'[q].device>> \notin absent'[m]
  BY <1>3, <1>4, <1>7 DEF PresentAreNotAbsent
<1>9. \A m \in Messages : <<a.user, d>> \notin absent[m]
  BY <1>1, <1>2, <1>3, <1>4 DEF PresentAreNotAbsent
<1>10. \/ /\ holder' = [holder EXCEPT ![d] = a.user]
          /\ left' = (left \cup Users \X {d}) \ {<<a.user, d>>}
          /\ IF holder[d] = a.user THEN UNCHANGED steady ELSE Moves({d})
       \/ /\ left' = left \cup ({<<a.user, d>>} \ {<<holder[d], d>>})
          /\ UNCHANGED <<holder, steady>>
  BY <1>1, <1>2 DEF Registers, Owner
<1>11. /\ holder' \in [Devices -> Users \cup {Nobody}] /\ left' \subseteq Users \X Devices
       /\ steady' \in [Messages -> SUBSET Devices] /\ \A m \in Messages : steady'[m] \subseteq steady[m]
       /\ \A m \in Messages, e \in Devices : e \in steady'[m] => holder'[e] = holder[e]
       /\ \A e \in Devices : holder'[e] \in Users =>
              <<holder'[e], e>> \notin left' /\ \A m \in Messages : <<holder'[e], e>> \notin absent'[m]
  <2>0. /\ holder \in [Devices -> Users \cup {Nobody}] /\ left \subseteq Users \X Devices
        /\ steady \in [Messages -> SUBSET Devices]
        /\ \A e \in Devices : holder[e] \in Users =>
               <<holder[e], e>> \notin left /\ \A m \in Messages : <<holder[e], e>> \notin absent[m]
    BY <1>4 DEF NotificationsTypeOK, PresentAreNotAbsent
  <2>1. CASE /\ holder' = [holder EXCEPT ![d] = a.user]
             /\ left' = (left \cup Users \X {d}) \ {<<a.user, d>>}
             /\ IF holder[d] = a.user THEN UNCHANGED steady ELSE Moves({d})
    <3>1. holder' \in [Devices -> Users \cup {Nobody}] /\ left' \subseteq Users \X Devices
      BY <1>5, <2>0, <2>1
    <3>2. holder'[d] = a.user /\ \A e \in Devices : e # d => holder'[e] = holder[e]
      BY <1>5, <2>0, <2>1
    <3>3. /\ steady' \in [Messages -> SUBSET Devices] /\ \A m \in Messages : steady'[m] \subseteq steady[m]
          /\ holder[d] = a.user \/ \A m \in Messages : d \notin steady'[m]
      BY <2>0, <2>1 DEF Moves
    <3>4. \A m \in Messages, e \in Devices : e \in steady'[m] => holder'[e] = holder[e]
      BY <3>2, <3>3
    <3>5. \A e \in Devices : holder'[e] \in Users =>
              <<holder'[e], e>> \notin left' /\ \A m \in Messages : <<holder'[e], e>> \notin absent'[m]
      <4> SUFFICES ASSUME NEW e \in Devices, holder'[e] \in Users
                   PROVE  <<holder'[e], e>> \notin left' /\ \A m \in Messages : <<holder'[e], e>> \notin absent'[m]
        OBVIOUS
      <4>1. CASE e = d
        BY <1>3, <1>9, <2>1, <3>2, <4>1
      <4>2. CASE e # d
        BY <1>3, <2>0, <2>1, <3>2, <4>2
      <4> QED BY <4>1, <4>2
    <3> QED BY <3>1, <3>3, <3>4, <3>5
  <2>2. CASE left' = left \cup ({<<a.user, d>>} \ {<<holder[d], d>>}) /\ UNCHANGED <<holder, steady>>
    <3>1. \A e \in Devices : holder'[e] \in Users =>
              <<holder'[e], e>> \notin left' /\ \A m \in Messages : <<holder'[e], e>> \notin absent'[m]
      <4> SUFFICES ASSUME NEW e \in Devices, holder[e] \in Users
                   PROVE  <<holder[e], e>> \notin left' /\ \A m \in Messages : <<holder[e], e>> \notin absent[m]
        BY <1>3, <2>2
      <4> QED BY <2>0, <2>2
    <3>2. left' \subseteq Users \X Devices
      BY <1>5, <2>0, <2>2
    <3> QED BY <2>0, <2>2, <3>1, <3>2
  <2> QED BY <1>10, <2>1, <2>2
<1> QED BY <1>3, <1>6, <1>8, <1>11, HoldersChangeKeeps

LEMMA UnregistersKeeps ==
    ASSUME NotificationsInv, NEW u \in Users, NEW d \in Devices, Unregisters(u, d)
    PROVE  NotificationsInv'
<1>1. /\ UNCHANGED <<sending, message, delivery, heard, absent>> /\ left' = left \cup {<<u, d>>}
      /\ IF holder[d] = u THEN Moves({d}) ELSE UNCHANGED steady
      /\ IF holder[d] = u THEN holder' = [holder EXCEPT ![d] = Nobody] /\ RowsDeleted({d}) ELSE UNCHANGED <<holder, asking>>
  BY DEF Unregisters, RowOf
<1>2. /\ holder \in [Devices -> Users \cup {Nobody}] /\ left \subseteq Users \X Devices
      /\ steady \in [Messages -> SUBSET Devices] /\ asking \in [Requests -> Registering \cup {NoAsking}]
      /\ sending' \in [Messages -> Sending] /\ absent' \in [Messages -> SUBSET (Users \X Devices)]
      /\ \A e \in Devices : holder[e] \in Users =>
             <<holder[e], e>> \notin left /\ \A m \in Messages : <<holder[e], e>> \notin absent[m]
      /\ \A q \in Requests : asking[q] # NoAsking => \A m \in Messages : <<asking[q].user, asking[q].device>> \notin absent[m]
  BY <1>1 DEF NotificationsInv, NotificationsTypeOK, PresentAreNotAbsent
<1>3. PICK D : D = {d}
  OBVIOUS
<1>4. /\ asking' \in [Requests -> Registering \cup {NoAsking}]
      /\ \A q \in Requests : asking'[q] # NoAsking =>
            asking[q] # NoAsking /\ asking'[q].user = asking[q].user /\ asking'[q].device = asking[q].device
  <2>1. CASE holder[d] = u
    <3>1. RowsDeleted(D)
      BY <1>1, <1>3, <2>1
    <3> QED BY <3>1, DeletedRowsAreLost
  <2>2. CASE holder[d] # u
    BY <1>1, <1>2, <2>2
  <2> QED BY <2>1, <2>2
<1>5. \A q \in Requests : asking'[q] # NoAsking => \A m \in Messages : <<asking'[q].user, asking'[q].device>> \notin absent'[m]
  BY <1>1, <1>2, <1>4
<1>6. /\ holder' \in [Devices -> Users \cup {Nobody}] /\ left' \subseteq Users \X Devices
      /\ \A e \in Devices : holder'[e] = IF e = d /\ holder[d] = u THEN Nobody ELSE holder[e]
  BY <1>1, <1>2
<1>7. /\ steady' \in [Messages -> SUBSET Devices] /\ \A m \in Messages : steady'[m] \subseteq steady[m]
      /\ holder[d] # u \/ \A m \in Messages : d \notin steady'[m]
  BY <1>1, <1>2 DEF Moves
<1>8. \A m \in Messages, e \in Devices : e \in steady'[m] => holder'[e] = holder[e]
  BY <1>6, <1>7
<1>9. \A e \in Devices : holder'[e] \in Users =>
          <<holder'[e], e>> \notin left' /\ \A m \in Messages : <<holder'[e], e>> \notin absent'[m]
  BY <1>1, <1>2, <1>6, ServiceAssumption
<1> QED BY <1>1, <1>2, <1>4, <1>5, <1>6, <1>7, <1>8, <1>9, HoldersChangeKeeps

\* A step of a job that lists, calls or goes on, and moves nobody.
LEMMA JobStepKeeps ==
    ASSUME NotificationsInv, UNCHANGED <<holder, asking, message, delivery, steady, absent, left>>,
           NEW m \in Messages, Pushing(m), NEW s \in Sending, sending' = [sending EXCEPT ![m] = s],
           s.to = sending[m].to, s.gone # {} => s.state \in {"browsers", "apps"},
           heard \subseteq heard',
           \A h \in heard' \ heard : h \in Hearing /\ h.message = m /\ <<h.to, h.device>> \notin absent[m],
           \A x \in s.list : <<x.to, x.device>> \notin absent[m],
           \A d \in steady[m] :
               /\ s.state = "browsers" /\ s.listed /\ d \notin Apps => Reached(m, d)' \/ \E x \in s.list : x.device = d
               /\ s.state = "apps" /\ d \notin Apps => Reached(m, d)'
               /\ s.state = "apps" /\ s.listed /\ d \in Apps => Reached(m, d)' \/ \E x \in s.list : x.device = d,
           s.state # "pushed"
    PROVE  NotificationsInv'
<1>1. NotificationsTypeOK /\ ListsArePresent /\ SteadyAreReached /\ SignedOutHearNothing
  BY DEF NotificationsInv
<1>2. sending'[m] = s /\ \A n \in Messages : n # m => sending'[n] = sending[n]
  BY <1>1 DEF NotificationsTypeOK
<1>3. message[m] = "open"
  BY <1>1 DEF ListsArePresent
<1>4. NotificationsTypeOK'
  <2>1. sending' \in [Messages -> Sending] /\ heard' \subseteq Hearing
    BY <1>1 DEF NotificationsTypeOK
  <2>2. \A n \in Messages, u \in Users : delivery[n][u] # "none" => message[n] = "stored" /\ u \in sending'[n].to
    BY <1>1, <1>2 DEF NotificationsTypeOK
  <2>3. \A n \in Messages : sending'[n].gone # {} => Pushing(n)' /\ message[n] = "open"
    BY <1>1, <1>2, <1>3 DEF NotificationsTypeOK, Pushing
  <2> QED BY <1>1, <2>1, <2>2, <2>3 DEF NotificationsTypeOK
<1>5. PresentAreNotAbsent'
  BY DEF NotificationsInv, PresentAreNotAbsent
<1>6. ListsArePresent'
  <2>1. \A n \in Messages : \A x \in sending'[n].list : <<x.to, x.device>> \notin absent[n]
    BY <1>1, <1>2 DEF ListsArePresent
  <2>2. \A n \in Messages : message[n] = "unsent" => sending'[n] = Unsent
    BY <1>1, <1>2, <1>3 DEF ListsArePresent
  <2>3. \A n \in Messages : Pushing(n)' => message[n] = "open"
    BY <1>1, <1>2, <1>3 DEF ListsArePresent, Pushing
  <2>4. \A h \in heard' : message[h.message] # "unsent"
    BY <1>1, <1>3 DEF ListsArePresent
  <2> QED BY <2>1, <2>2, <2>3, <2>4 DEF ListsArePresent
<1>7. SignedOutHearNothing'
  BY <1>1 DEF SignedOutHearNothing
<1>8. SteadyAreReached'
  <2> SUFFICES ASSUME NEW n \in Messages, message[n] # "unsent", NEW d \in steady[n]
               PROVE  /\ d \in Devices /\ holder[d] \in sending'[n].to
                      /\ sending'[n].state = "browsers" /\ sending'[n].listed /\ d \notin Apps => ToBeReached(n, d)'
                      /\ sending'[n].state = "apps" /\ d \notin Apps => Reached(n, d)'
                      /\ sending'[n].state = "apps" /\ sending'[n].listed /\ d \in Apps => ToBeReached(n, d)'
                      /\ sending'[n].state = "pushed" => Reached(n, d)'
    BY DEF SteadyAreReached
  <2>1. /\ d \in Devices /\ holder[d] \in sending[n].to
        /\ sending[n].state = "browsers" /\ sending[n].listed /\ d \notin Apps => ToBeReached(n, d)
        /\ sending[n].state = "apps" /\ d \notin Apps => Reached(n, d)
        /\ sending[n].state = "apps" /\ sending[n].listed /\ d \in Apps => ToBeReached(n, d)
        /\ sending[n].state = "pushed" => Reached(n, d)
    BY <1>1 DEF SteadyAreReached
  <2>2. CASE n = m
    BY <1>2, <2>1, <2>2 DEF ToBeReached
  <2>3. CASE n # m
    <3>1. Reached(n, d) => Reached(n, d)'
      BY DEF Reached
    <3>2. sending'[n] = sending[n]
      BY <1>2, <2>3
    <3>3. ToBeReached(n, d) => ToBeReached(n, d)'
      BY <3>1, <3>2 DEF ToBeReached
    <3> QED BY <2>1, <3>1, <3>2, <3>3
  <2> QED BY <2>2, <2>3
<1> QED BY <1>4, <1>5, <1>6, <1>7, <1>8 DEF NotificationsInv

LEMMA JobFailsKeeps == ASSUME NotificationsInv, NEW m \in Messages, JobFails(m) PROVE NotificationsInv'
<1>1. PICK s : s = [sending[m] EXCEPT !.state = "crashed", !.list = {}, !.gone = {}]
  OBVIOUS
<1>2. sending \in [Messages -> Sending]
  BY DEF NotificationsInv, NotificationsTypeOK
<1>3. sending[m] \in Sending
  BY <1>2
<1>4. s \in Sending /\ s.to = sending[m].to /\ s.gone = {} /\ s.list = {} /\ s.state = "crashed"
  BY <1>1, <1>3 DEF Sending
<1>5. sending' = [sending EXCEPT ![m] = s]
  BY <1>1 DEF JobFails
<1>6. UNCHANGED <<holder, asking, message, delivery, heard, steady, absent, left>> /\ Pushing(m)
  BY DEF JobFails
<1> QED BY <1>4, <1>5, <1>6, JobStepKeeps

LEMMA ListsDevicesKeeps == ASSUME NotificationsInv, NEW m \in Messages, ListsDevices(m) PROVE NotificationsInv'
<1>1. PICK l : l = ForUsers(m)
  OBVIOUS
<1>2. PICK s : s = [sending[m] EXCEPT !.listed = TRUE, !.list = l]
  OBVIOUS
<1>3. NotificationsTypeOK /\ PresentAreNotAbsent /\ SteadyAreReached /\ ListsArePresent
  BY DEF NotificationsInv
<1>4. sending[m] \in Sending
  BY <1>3 DEF NotificationsTypeOK
<1>5. Pushing(m) /\ UNCHANGED <<holder, asking, message, delivery, heard, steady, absent, left>>
  BY DEF ListsDevices
<1>6. Kind(m) \subseteq Devices
  BY NotificationsAssumption DEF Kind
<1>7. \A x \in l : x.device \in Kind(m) /\ x.to \in sending[m].to /\ holder[x.device] = x.to
  BY <1>1 DEF ForUsers
<1>8. l \subseteq Addressee
  BY <1>1, <1>4, <1>6 DEF ForUsers, Addressee, Sending
<1>9. /\ s \in Sending /\ s.to = sending[m].to /\ s.list = l /\ s.state = sending[m].state /\ s.gone = sending[m].gone
  BY <1>2, <1>4, <1>8 DEF Sending
<1>10. sending' = [sending EXCEPT ![m] = s]
  BY <1>1, <1>2 DEF ListsDevices
<1>11. s.state \in {"browsers", "apps"}
  BY <1>5, <1>9 DEF Pushing
<1>12. ASSUME NEW x \in l PROVE <<x.to, x.device>> \notin absent[m]
  <2>1. x.device \in Devices /\ holder[x.device] = x.to /\ x.to \in Users
    BY <1>4, <1>6, <1>7 DEF Sending
  <2> QED BY <1>3, <2>1 DEF PresentAreNotAbsent
<1>13. ASSUME NEW d \in steady[m], d \in Kind(m) PROVE \E x \in l : x.device = d
  <2>1. holder[d] \in sending[m].to
    BY <1>3, <1>5 DEF SteadyAreReached, ListsArePresent
  <2>2. [device |-> d, to |-> holder[d]] \in l
    BY <1>1, <1>13, <2>1 DEF ForUsers
  <2> QED BY <2>2
<1>14. \A d \in steady[m] : d \in Devices
  BY <1>3 DEF NotificationsTypeOK
<1>15. \A d \in steady[m] :
          /\ s.state = "browsers" /\ d \notin Apps => \E x \in l : x.device = d
          /\ s.state = "apps" /\ d \in Apps => \E x \in l : x.device = d
  BY <1>9, <1>13, <1>14 DEF Kind
<1>16. \A d \in steady[m] : s.state = "apps" /\ d \notin Apps => Reached(m, d)'
  <2>1. message[m] # "unsent"
    BY <1>3, <1>5 DEF ListsArePresent
  <2>2. \A d : Reached(m, d)' = Reached(m, d)
    BY <1>5 DEF Reached
  <2> QED BY <1>3, <1>9, <2>1, <2>2 DEF SteadyAreReached
<1> QED BY <1>5, <1>9, <1>10, <1>11, <1>12, <1>15, <1>16, JobStepKeeps

LEMMA CallsKeeps ==
    ASSUME NotificationsInv, NEW m \in Messages, NEW x \in Addressee, NEW gone \in BOOLEAN, Calls(m, x, gone)
    PROVE  NotificationsInv'
<1>1. PICK d : d = x.device
  OBVIOUS
<1>2. NotificationsTypeOK /\ ListsArePresent /\ SteadyAreReached
  BY DEF NotificationsInv
<1>3. /\ Pushing(m) /\ x \in sending[m].list /\ d \in Devices /\ x.to \in Users
      /\ UNCHANGED <<holder, asking, message, delivery, steady, absent, left>>
  BY <1>1 DEF Calls, Addressee
<1>4. PICK c : c = [message |-> m, device |-> d, to |-> x.to]
  OBVIOUS
<1>5. heard' = heard \cup {c} /\ c.message = m /\ c.device = d /\ c.to = x.to /\ c \in Hearing
  BY <1>1, <1>3, <1>4 DEF Calls, Hearing
<1>6. sending[m] \in Sending /\ sending[m].state \in {"browsers", "apps"}
  BY <1>2, <1>3 DEF NotificationsTypeOK, Pushing
<1>7. PICK s : /\ sending' = [sending EXCEPT ![m] = s]
               /\ \/ s = [sending[m] EXCEPT !.state = "crashed", !.list = {}, !.gone = {}]
                  \/ s = [sending[m] EXCEPT !.list = sending[m].list \ {x}, !.gone = sending[m].gone \cup {d}]
                  \/ s = [sending[m] EXCEPT !.list = sending[m].list \ {x}]
  <2>1. CASE gone /\ OneWriter
    BY <2>1 DEF Calls
  <2>2. CASE gone /\ ~OneWriter
    BY <1>1, <2>2 DEF Calls
  <2>3. CASE ~gone
    BY <2>3 DEF Calls
  <2> QED BY <2>1, <2>2, <2>3
<1>8. /\ s \in Sending /\ s.to = sending[m].to /\ s.listed = sending[m].listed
      /\ \/ s.state = "crashed" /\ s.list = {} /\ s.gone = {}
         \/ s.state = sending[m].state /\ s.list = sending[m].list \ {x}
  <2>0. PICK t \in Sending : t = sending[m]
    BY <1>6
  <2>1. CASE s = [t EXCEPT !.state = "crashed", !.list = {}, !.gone = {}]
    <3>1. s \in Sending /\ s.to = t.to /\ s.listed = t.listed /\ s.state = "crashed" /\ s.list = {} /\ s.gone = {}
      BY <2>1 DEF Sending
    <3> QED BY <2>0, <3>1
  <2>2. CASE s = [t EXCEPT !.list = t.list \ {x}, !.gone = t.gone \cup {d}]
    <3>1. s \in Sending /\ s.to = t.to /\ s.listed = t.listed /\ s.state = t.state /\ s.list = t.list \ {x}
      BY <1>3, <2>2 DEF Sending
    <3> QED BY <2>0, <3>1
  <2>3. CASE s = [t EXCEPT !.list = t.list \ {x}]
    <3>1. s \in Sending /\ s.to = t.to /\ s.listed = t.listed /\ s.state = t.state /\ s.list = t.list \ {x}
      BY <2>3 DEF Sending
    <3> QED BY <2>0, <3>1
  <2> QED BY <1>7, <2>0, <2>1, <2>2, <2>3
<1>9. s.state # "pushed" /\ (s.gone # {} => s.state \in {"browsers", "apps"})
  BY <1>6, <1>8
<1>10. <<x.to, d>> \notin absent[m]
  BY <1>1, <1>2, <1>3 DEF ListsArePresent
<1>11. \A y \in s.list : <<y.to, y.device>> \notin absent[m]
  BY <1>2, <1>8 DEF ListsArePresent
<1>12. ASSUME NEW e, Reached(m, e) PROVE Reached(m, e)'
  BY <1>5, <1>12 DEF Reached
<1>13. ASSUME NEW e, ToBeReached(m, e), s.list = sending[m].list \ {x} PROVE Reached(m, e)' \/ \E y \in s.list : y.device = e
  <2>1. CASE Reached(m, e)
    BY <1>12, <2>1
  <2>2. CASE e = d
    BY <1>5, <2>2 DEF Reached
  <2>3. CASE ~Reached(m, e) /\ e # d
    BY <1>1, <1>13, <2>3 DEF ToBeReached
  <2> QED BY <2>1, <2>2, <2>3
<1>14. message[m] # "unsent"
  BY <1>2, <1>3 DEF ListsArePresent
<1>15. ASSUME NEW e \in steady[m]
       PROVE  /\ s.state = "browsers" /\ s.listed /\ e \notin Apps => Reached(m, e)' \/ \E y \in s.list : y.device = e
              /\ s.state = "apps" /\ e \notin Apps => Reached(m, e)'
              /\ s.state = "apps" /\ s.listed /\ e \in Apps => Reached(m, e)' \/ \E y \in s.list : y.device = e
  <2>1. /\ sending[m].state = "browsers" /\ sending[m].listed /\ e \notin Apps => ToBeReached(m, e)
        /\ sending[m].state = "apps" /\ e \notin Apps => Reached(m, e)
        /\ sending[m].state = "apps" /\ sending[m].listed /\ e \in Apps => ToBeReached(m, e)
    BY <1>2, <1>14, <1>15 DEF SteadyAreReached
  <2>2. CASE s.state = "crashed"
    BY <2>2
  <2>3. CASE s.state = sending[m].state /\ s.list = sending[m].list \ {x}
    BY <1>8, <1>12, <1>13, <2>1, <2>3
  <2> QED BY <1>8, <2>2, <2>3
<1>16. /\ heard \subseteq heard'
       /\ \A h \in heard' \ heard : h \in Hearing /\ h.message = m /\ <<h.to, h.device>> \notin absent[m]
  BY <1>5, <1>10
<1>17. s \in Sending /\ s.to = sending[m].to /\ sending' = [sending EXCEPT ![m] = s]
  BY <1>7, <1>8
<1> QED BY <1>3, <1>9, <1>11, <1>15, <1>16, <1>17, JobStepKeeps

LEMMA GoesOnKeeps == ASSUME NotificationsInv, NEW m \in Messages, GoesOn(m) PROVE NotificationsInv'
<1>1. NotificationsTypeOK /\ ListsArePresent /\ SteadyAreReached /\ PresentAreNotAbsent
  BY DEF NotificationsInv
<1>2. PICK D : D = sending[m].gone
  OBVIOUS
<1>3. /\ Pushing(m) /\ sending[m].listed /\ sending[m].list = {}
      /\ UNCHANGED <<message, delivery, heard, absent>>
  BY DEF GoesOn
<1>4. sending[m] \in Sending /\ message[m] # "unsent"
  BY <1>1, <1>3 DEF NotificationsTypeOK, ListsArePresent
<1>5. PICK s : s = [sending[m] EXCEPT !.state = After(m), !.listed = FALSE,
                                      !.gone = IF After(m) = "pushed" THEN {} ELSE D]
  OBVIOUS
<1>6. sending' = [sending EXCEPT ![m] = s]
  BY <1>2, <1>5 DEF GoesOn
<1>7. \A d : ToBeReached(m, d) => Reached(m, d)
  BY <1>3 DEF ToBeReached
<1>8. CASE sending[m].state = "browsers"
  <2>1. After(m) = "apps" /\ UNCHANGED <<holder, asking, steady, left>>
    BY <1>8 DEF GoesOn, After
  <2>2. /\ s \in Sending /\ s.state = "apps" /\ s.to = sending[m].to /\ s.list = {} /\ ~s.listed
    BY <1>2, <1>3, <1>4, <1>5, <2>1 DEF Sending
  <2>3. \A d \in steady[m] : d \notin Apps => Reached(m, d)
    BY <1>1, <1>3, <1>4, <1>7, <1>8 DEF SteadyAreReached
  <2>4. \A d : Reached(m, d)' = Reached(m, d)
    BY <1>3 DEF Reached
  <2>5. UNCHANGED <<holder, asking, message, delivery, steady, absent, left, heard>>
    BY <1>3, <2>1
  <2> QED BY <1>3, <1>6, <2>2, <2>3, <2>4, <2>5, JobStepKeeps
<1>9. CASE sending[m].state = "apps"
  <2>1. /\ After(m) = "pushed"
        /\ holder' = [d \in Devices |-> IF d \in D THEN Nobody ELSE holder[d]]
        /\ RowsDeleted(D) /\ Moves(D)
        /\ left' = left \cup {x \in Users \X D : ~ComesBack(x[1], x[2])}
    BY <1>2, <1>9 DEF GoesOn, After
  <2>2. s \in Sending /\ s.state = "pushed" /\ s.to = sending[m].to /\ s.list = {} /\ s.gone = {}
    BY <1>3, <1>4, <1>5, <2>1 DEF Sending
  <2>3. \A d \in steady[m] : Reached(m, d)
    <3> SUFFICES ASSUME NEW d \in steady[m] PROVE Reached(m, d)
      OBVIOUS
    <3>1. /\ d \notin Apps => Reached(m, d)
          /\ d \in Apps => ToBeReached(m, d)
      BY <1>1, <1>3, <1>4, <1>9 DEF SteadyAreReached
    <3> QED BY <1>7, <3>1
  <2>4. /\ holder \in [Devices -> Users \cup {Nobody}] /\ left \subseteq Users \X Devices
        /\ steady \in [Messages -> SUBSET Devices] /\ sending \in [Messages -> Sending]
        /\ absent \in [Messages -> SUBSET (Users \X Devices)] /\ D \subseteq Devices
    BY <1>1, <1>2, <1>4 DEF NotificationsTypeOK, Sending
  <2>5. sending'[m] = s /\ \A n \in Messages : n # m => sending'[n] = sending[n]
    BY <1>6, <2>4
  <2>6. /\ \A n \in Messages : sending'[n].list = sending[n].list /\ sending'[n].to = sending[n].to
        /\ \A n \in Messages : message[n] = "unsent" => sending'[n] = sending[n]
        /\ \A n \in Messages : sending'[n].gone # {} => sending'[n] = sending[n]
    BY <1>3, <1>4, <2>2, <2>5
  <2>7. sending' \in [Messages -> Sending]
    BY <1>6, <2>2, <2>4
  <2>8. /\ asking' \in [Requests -> Registering \cup {NoAsking}]
        /\ \A q \in Requests : asking'[q] # NoAsking =>
              asking[q] # NoAsking /\ asking'[q].user = asking[q].user /\ asking'[q].device = asking[q].device
    BY <2>1, DeletedRowsAreLost
  <2>9. \A q \in Requests : asking'[q] # NoAsking => \A n \in Messages : <<asking'[q].user, asking'[q].device>> \notin absent'[n]
    BY <1>1, <1>3, <2>8 DEF PresentAreNotAbsent
  <2>10. /\ steady' \in [Messages -> SUBSET Devices] /\ \A n \in Messages : steady'[n] = steady[n] \ D
    BY <2>1, <2>4 DEF Moves
  <2>11. /\ holder' \in [Devices -> Users \cup {Nobody}]
         /\ \A d \in Devices : holder'[d] = IF d \in D THEN Nobody ELSE holder[d]
    BY <2>1, <2>4
  <2>12. \A n \in Messages, d \in Devices : d \in steady'[n] => holder'[d] = holder[d]
    BY <2>10, <2>11
  <2>13. left' \subseteq Users \X Devices /\ \A d \in Devices \ D : \A u : <<u, d>> \in left' => <<u, d>> \in left
    BY <2>1, <2>4
  <2>14. \A d \in Devices : holder'[d] \in Users =>
             <<holder'[d], d>> \notin left' /\ \A n \in Messages : <<holder'[d], d>> \notin absent'[n]
    <3> SUFFICES ASSUME NEW d \in Devices, holder'[d] \in Users
                 PROVE  <<holder'[d], d>> \notin left' /\ \A n \in Messages : <<holder'[d], d>> \notin absent'[n]
      OBVIOUS
    <3>1. d \notin D /\ holder'[d] = holder[d]
      BY <2>11, ServiceAssumption
    <3> QED BY <1>1, <1>3, <2>13, <3>1 DEF PresentAreNotAbsent
  <2>15. \A n \in Messages : \/ sending'[n].state = sending[n].state /\ sending'[n].listed = sending[n].listed
                             \/ sending'[n].state = "pushed" /\ \A d \in steady[n] : Reached(n, d)
    BY <2>2, <2>3, <2>5
  <2>16. \A n \in Messages : steady'[n] \subseteq steady[n] /\ absent'[n] \subseteq absent[n]
    BY <1>3, <2>10
  <2>17. UNCHANGED <<message, delivery, heard>> /\ absent' \in [Messages -> SUBSET (Users \X Devices)]
    BY <1>3, <2>4
  <2> QED BY <2>6, <2>7, <2>8, <2>9, <2>10, <2>11, <2>12, <2>13, <2>14, <2>15, <2>16, <2>17, HoldersChangeKeeps
<1> QED BY <1>3, <1>8, <1>9 DEF Pushing

LEMMA SendNotificationKeeps ==
    ASSUME NotificationsInv, NEW m \in Messages, NEW to \in SUBSET Users, NEW push \in BOOLEAN, SendNotification(m, to, push)
    PROVE  NotificationsInv'
<1>1. NotificationsTypeOK /\ ListsArePresent /\ SteadyAreReached /\ PresentAreNotAbsent /\ SignedOutHearNothing
  BY DEF NotificationsInv
<1>2. PICK s : s = [Unsent EXCEPT !.state = IF push THEN "browsers" ELSE "quiet", !.to = to]
  OBVIOUS
<1>3. /\ s \in Sending /\ s.list = {} /\ s.gone = {} /\ s.to = to /\ ~s.listed
      /\ s.state \in {"browsers", "quiet"}
  BY <1>2 DEF Unsent, Sending
<1>4. PICK G : G = {x \in (to \X Devices) \cap left : ~ComesBack(x[1], x[2])}
  OBVIOUS
<1>5. PICK S : S = {d \in Devices : holder[d] \in to}
  OBVIOUS
<1>6. /\ message[m] = "unsent" /\ message' = [message EXCEPT ![m] = "open"]
      /\ sending' = [sending EXCEPT ![m] = s] /\ steady' = [steady EXCEPT ![m] = S] /\ absent' = [absent EXCEPT ![m] = G]
      /\ UNCHANGED <<holder, asking, delivery, heard, left>>
  BY <1>2, <1>4, <1>5 DEF SendNotification
<1>7. /\ message'[m] = "open" /\ sending'[m] = s /\ steady'[m] = S /\ absent'[m] = G
      /\ \A n \in Messages : n # m => /\ message'[n] = message[n] /\ sending'[n] = sending[n]
                                      /\ steady'[n] = steady[n] /\ absent'[n] = absent[n]
  BY <1>1, <1>6 DEF NotificationsTypeOK
<1>8. G \subseteq Users \X Devices /\ G \subseteq left /\ S \subseteq Devices
  BY <1>4, <1>5
<1>9. \A h \in heard : h.message # m
  BY <1>1, <1>6 DEF ListsArePresent
<1>10. NotificationsTypeOK'
  <2>1. /\ message' \in [Messages -> {"unsent", "open", "stored", "lost"}] /\ sending' \in [Messages -> Sending]
        /\ steady' \in [Messages -> SUBSET Devices] /\ absent' \in [Messages -> SUBSET (Users \X Devices)]
    BY <1>1, <1>3, <1>6, <1>8 DEF NotificationsTypeOK
  <2>2. ASSUME NEW n \in Messages, NEW u \in Users, delivery[n][u] # "none" PROVE message'[n] = "stored" /\ u \in sending'[n].to
    <3>1. n # m
      BY <1>1, <1>6, <2>2 DEF NotificationsTypeOK
    <3> QED BY <1>1, <1>7, <2>2, <3>1 DEF NotificationsTypeOK
  <2>3. \A n \in Messages : sending'[n].gone # {} => Pushing(n)' /\ message'[n] = "open"
    BY <1>1, <1>3, <1>7 DEF NotificationsTypeOK, Pushing
  <2> QED BY <1>1, <1>6, <2>1, <2>2, <2>3 DEF NotificationsTypeOK
<1>11. PresentAreNotAbsent'
  <2>1. \A d \in Devices : holder[d] \in Users => <<holder[d], d>> \notin left /\ \A n \in Messages : <<holder[d], d>> \notin absent'[n]
    <3> SUFFICES ASSUME NEW d \in Devices, holder[d] \in Users, NEW n \in Messages
                 PROVE  <<holder[d], d>> \notin left /\ <<holder[d], d>> \notin absent'[n]
      BY <1>1 DEF PresentAreNotAbsent
    <3> QED BY <1>1, <1>7, <1>8 DEF PresentAreNotAbsent
  <2>2. ASSUME NEW r \in Requests, asking[r] # NoAsking, NEW n \in Messages
        PROVE  <<asking[r].user, asking[r].device>> \notin absent'[n]
    <3>1. CASE n = m
      <4>1. ComesBack(asking[r].user, asking[r].device)
        BY <2>2 DEF ComesBack
      <4>2. PICK u, d : u = asking[r].user /\ d = asking[r].device
        OBVIOUS
      <4>3. \A x \in G : ~ComesBack(x[1], x[2])
        BY <1>4
      <4>4. ASSUME <<u, d>> \in G PROVE FALSE
        <5>1. ~ComesBack(<<u, d>>[1], <<u, d>>[2])
          BY <4>3, <4>4
        <5>2. <<u, d>>[1] = u /\ <<u, d>>[2] = d
          OBVIOUS
        <5> QED BY <4>1, <4>2, <5>1, <5>2
      <4> QED BY <1>7, <3>1, <4>2, <4>4
    <3>2. CASE n # m
      BY <1>1, <1>7, <2>2, <3>2 DEF PresentAreNotAbsent
    <3> QED BY <3>1, <3>2
  <2> QED BY <1>6, <2>1, <2>2 DEF PresentAreNotAbsent
<1>12. ListsArePresent'
  <2>1. \A n \in Messages : \A x \in sending'[n].list : <<x.to, x.device>> \notin absent'[n]
    BY <1>1, <1>3, <1>7 DEF ListsArePresent
  <2>2. \A n \in Messages : message'[n] = "unsent" => sending'[n] = Unsent
    BY <1>1, <1>7 DEF ListsArePresent
  <2>3. \A n \in Messages : Pushing(n)' => message'[n] = "open"
    BY <1>1, <1>7 DEF ListsArePresent, Pushing
  <2>4. ASSUME NEW h \in heard PROVE message'[h.message] # "unsent"
    <3>1. h.message \in Messages /\ h.message # m /\ message[h.message] # "unsent"
      BY <1>1, <1>9 DEF ListsArePresent, NotificationsTypeOK, Hearing
    <3> QED BY <1>7, <3>1
  <2> QED BY <1>6, <2>1, <2>2, <2>3, <2>4 DEF ListsArePresent
<1>13. SignedOutHearNothing'
  <2>1. \A h \in heard : h.message \in Messages
    BY <1>1 DEF NotificationsTypeOK, Hearing
  <2> QED BY <1>1, <1>6, <1>7, <1>9, <2>1 DEF SignedOutHearNothing
<1>14. SteadyAreReached'
  <2> SUFFICES ASSUME NEW n \in Messages, message'[n] # "unsent", NEW d \in steady'[n]
               PROVE  /\ d \in Devices /\ holder[d] \in sending'[n].to
                      /\ sending'[n].state = "browsers" /\ sending'[n].listed /\ d \notin Apps => ToBeReached(n, d)'
                      /\ sending'[n].state = "apps" /\ d \notin Apps => Reached(n, d)'
                      /\ sending'[n].state = "apps" /\ sending'[n].listed /\ d \in Apps => ToBeReached(n, d)'
                      /\ sending'[n].state = "pushed" => Reached(n, d)'
    BY <1>6 DEF SteadyAreReached
  <2>1. CASE n = m
    <3>1. d \in S /\ sending'[n] = s
      BY <1>7, <2>1
    <3> QED BY <1>3, <1>5, <3>1
  <2>2. CASE n # m
    <3>1. message[n] # "unsent" /\ sending'[n] = sending[n] /\ d \in steady[n]
      BY <1>7, <2>2
    <3>2. Reached(n, d)' = Reached(n, d) /\ ToBeReached(n, d)' = ToBeReached(n, d)
      BY <1>6, <3>1 DEF Reached, ToBeReached
    <3> QED BY <1>1, <3>1, <3>2 DEF SteadyAreReached
  <2> QED BY <2>1, <2>2
<1> QED BY <1>10, <1>11, <1>12, <1>13, <1>14 DEF NotificationsInv

\* What only concerns inboxes.
LEMMA InboxKeeps ==
    ASSUME NotificationsInv, UNCHANGED <<holder, asking, sending, heard, steady, absent, left>>,
           delivery' \in [Messages -> [Users -> {"none", "unread", "read", "dismissed"}]],
           message' \in [Messages -> {"unsent", "open", "stored", "lost"}],
           \A n \in Messages : message'[n] # message[n] =>
               message[n] # "unsent" /\ message'[n] # "unsent" /\ ~Pushing(n),
           \A n \in Messages, u \in Users : delivery'[n][u] # "none" => message'[n] = "stored" /\ u \in sending[n].to
    PROVE  NotificationsInv'
<1>1. NotificationsTypeOK /\ ListsArePresent /\ SteadyAreReached /\ PresentAreNotAbsent /\ SignedOutHearNothing
  BY DEF NotificationsInv
<1>2. NotificationsTypeOK'
  <2>1. \A n \in Messages : sending[n].gone # {} => Pushing(n)' /\ message'[n] = "open"
    BY <1>1 DEF NotificationsTypeOK, Pushing
  <2> QED BY <1>1, <2>1 DEF NotificationsTypeOK
<1>3. PresentAreNotAbsent' /\ SignedOutHearNothing'
  BY <1>1 DEF PresentAreNotAbsent, SignedOutHearNothing
<1>4. ListsArePresent'
  <2>1. \A h \in heard : h.message \in Messages
    BY <1>1 DEF NotificationsTypeOK, Hearing
  <2> QED BY <1>1, <2>1 DEF ListsArePresent, Pushing
<1>5. SteadyAreReached'
  <2>1. \A n, d : Reached(n, d)' = Reached(n, d) /\ ToBeReached(n, d)' = ToBeReached(n, d)
    BY DEF Reached, ToBeReached
  <2>2. \A n \in Messages : message'[n] # "unsent" => message[n] # "unsent"
    OBVIOUS
  <2> QED BY <1>1, <2>1, <2>2 DEF SteadyAreReached
<1> QED BY <1>2, <1>3, <1>4, <1>5 DEF NotificationsInv

LEMMA SendingEndsKeeps ==
    ASSUME NotificationsInv, NEW m \in Messages, NEW committed \in BOOLEAN, SendingEnds(m, committed)
    PROVE  NotificationsInv'
<1>1. NotificationsTypeOK
  BY DEF NotificationsInv
<1>2. PICK f : f = [u \in Users |-> IF Delivers(m, u, committed) THEN "unread" ELSE "none"]
  OBVIOUS
<1>3. /\ message[m] = "open" /\ sending[m].state \in {"pushed", "quiet", "crashed"}
      /\ message' = [message EXCEPT ![m] = IF committed THEN "stored" ELSE "lost"]
      /\ delivery' = [delivery EXCEPT ![m] = f]
      /\ UNCHANGED <<holder, asking, sending, heard, steady, absent, left>>
  BY <1>2 DEF SendingEnds
<1>4. f \in [Users -> {"none", "unread", "read", "dismissed"}]
  BY <1>2
<1>5. /\ delivery' \in [Messages -> [Users -> {"none", "unread", "read", "dismissed"}]]
      /\ message' \in [Messages -> {"unsent", "open", "stored", "lost"}]
  BY <1>1, <1>3, <1>4 DEF NotificationsTypeOK
<1>6. /\ message'[m] = IF committed THEN "stored" ELSE "lost"
      /\ delivery'[m] = f
      /\ \A n \in Messages : n # m => message'[n] = message[n] /\ delivery'[n] = delivery[n]
  BY <1>1, <1>3 DEF NotificationsTypeOK
<1>7. \A n \in Messages : message'[n] # message[n] => message[n] # "unsent" /\ message'[n] # "unsent" /\ ~Pushing(n)
  BY <1>3, <1>6 DEF Pushing
<1>8. ASSUME NEW n \in Messages, NEW u \in Users, delivery'[n][u] # "none" PROVE message'[n] = "stored" /\ u \in sending[n].to
  <2>1. CASE n = m
    BY <1>2, <1>6, <1>8, <2>1 DEF Delivers
  <2>2. CASE n # m
    BY <1>1, <1>6, <1>8, <2>2 DEF NotificationsTypeOK
  <2> QED BY <2>1, <2>2
<1> QED BY <1>3, <1>5, <1>7, <1>8, InboxKeeps

LEMMA ReadAsKeeps ==
    ASSUME NotificationsInv, NEW m \in Messages, NEW u \in Users, MarkRead(m, u) \/ Dismiss(m, u)
    PROVE  NotificationsInv'
<1>1. NotificationsTypeOK
  BY DEF NotificationsInv
<1>2. PICK how \in {"read", "dismissed"} : delivery' = [delivery EXCEPT ![m][u] = how]
  BY DEF MarkRead, Dismiss, ReadAs
<1>3. UNCHANGED <<holder, asking, sending, message, heard, steady, absent, left>> /\ delivery[m][u] # "none"
  BY DEF MarkRead, Dismiss, ReadAs, Delivered
<1>4. delivery \in [Messages -> [Users -> {"none", "unread", "read", "dismissed"}]]
  BY <1>1 DEF NotificationsTypeOK
<1>5. delivery' \in [Messages -> [Users -> {"none", "unread", "read", "dismissed"}]]
  BY <1>2, <1>4
<1>6. \A n \in Messages, v \in Users : delivery'[n][v] # "none" => delivery[n][v] # "none"
  BY <1>2, <1>3, <1>4
<1>7. \A n \in Messages, v \in Users : delivery'[n][v] # "none" => message'[n] = "stored" /\ v \in sending[n].to
  BY <1>1, <1>3, <1>6 DEF NotificationsTypeOK
<1> QED BY <1>1, <1>3, <1>5, <1>7, InboxKeeps DEF NotificationsTypeOK

LEMMA MarkAllReadKeeps == ASSUME NotificationsInv, NEW u \in Users, MarkAllRead(u) PROVE NotificationsInv'
<1>1. NotificationsTypeOK
  BY DEF NotificationsInv
<1>2. /\ delivery' = [m \in Messages |-> [delivery[m] EXCEPT ![u] = IF @ = "unread" THEN "read" ELSE @]]
      /\ UNCHANGED <<holder, asking, sending, message, heard, steady, absent, left>>
  BY DEF MarkAllRead
<1>3. delivery \in [Messages -> [Users -> {"none", "unread", "read", "dismissed"}]]
  BY <1>1 DEF NotificationsTypeOK
<1>4. delivery' \in [Messages -> [Users -> {"none", "unread", "read", "dismissed"}]]
  BY <1>2, <1>3
<1>5. \A n \in Messages, v \in Users : delivery'[n][v] # "none" => delivery[n][v] # "none"
  BY <1>2, <1>3
<1>6. \A n \in Messages, v \in Users : delivery'[n][v] # "none" => message'[n] = "stored" /\ v \in sending[n].to
  BY <1>1, <1>2, <1>5 DEF NotificationsTypeOK
<1> QED BY <1>1, <1>2, <1>4, <1>6, InboxKeeps DEF NotificationsTypeOK

LEMMA NotificationsStep == NotificationsInv /\ [NotificationsNext]_notificationVars => NotificationsInv'
<1> SUFFICES ASSUME NotificationsInv, [NotificationsNext]_notificationVars PROVE NotificationsInv'
  OBVIOUS
<1>1. CASE UNCHANGED notificationVars
  <2>1. UNCHANGED <<holder, asking, sending, message, delivery, heard, steady, absent, left>>
    BY <1>1 DEF notificationVars
  <2> QED BY <2>1, InboxKeeps DEF NotificationsInv, NotificationsTypeOK
<1> QED BY <1>1, AsksToRegisterKeeps, RegistersKeeps, UnregistersKeeps, MarkAllReadKeeps, SendNotificationKeeps,
           ListsDevicesKeeps, GoesOnKeeps, JobFailsKeeps, SendingEndsKeeps, CallsKeeps, ReadAsKeeps DEF NotificationsNext

\* A push is not heard where its person had left before it was sent, and a job that comes
\* to its end has called every device whose person was there all the time, for any number
\* of devices, people and notifications, and whether or not one transaction writes at a time.
THEOREM PushesFindTheirPeople == NotificationsSpec => []PushesReachTheirOwn
<1>1. NotificationsInv => PushesReachTheirOwn
  <2> SUFFICES ASSUME NotificationsInv PROVE EveryDeviceIsCalled
    BY DEF NotificationsInv, PushesReachTheirOwn
  <2>1. \A m \in Messages : sending[m].state = "pushed" => \A d \in steady[m] : Reached(m, d)
    BY UnsentHasNoJob DEF NotificationsInv, SteadyAreReached
  <2> QED BY <2>1 DEF EveryDeviceIsCalled, Reached
<1> QED BY NotificationsInitInv, NotificationsStep, <1>1, PTL DEF NotificationsSpec

-----------------------------------------------------------------------------
(* Purges.                                                                  *)

USE ServiceAssumption

\* A set of ids has a first one.
LEMMA FirstId ==
    ASSUME NEW Ids \in SUBSET Nat, Ids # {}
    PROVE  \E i \in Ids : \A j \in Ids : i <= j
<1>1. Ids \subseteq Nat /\ Ids # {}
  OBVIOUS
<1>2. \E x \in Ids : \A y \in Ids : ~(<<y, x>> \in OpToRel(<, Nat))
  <2> DEFINE R == OpToRel(<, Nat)
  <2>1. IsWellFoundedOn(R, Nat)
    BY NatLessThanWellFounded, Zenon
  <2> HIDE DEF R
  <2>2. \E x \in Ids : \A y \in Ids : ~(<<y, x>> \in R)
    BY <1>1, <2>1, WFMin
  <2> QED BY <2>2, Zenon DEF R
<1>3. PICK i \in Ids : \A j \in Ids : ~(<<j, i>> \in OpToRel(<, Nat))
  BY <1>2, Zenon
<1>4. \A j \in Ids : ~(j < i)
  BY <1>1, <1>3 DEF OpToRel
<1> QED BY <1>1, <1>4

\* A chunk is of ids there are, no more of them than it may have, and one that is
\* less than full has them all.
LEMMA ChunkFacts ==
    ASSUME NEW E \in SUBSET Rows
    PROVE  /\ Chunk(E) \subseteq E
           /\ IsFiniteSet(Chunk(E))
           /\ Cardinality(Chunk(E)) <= ChunkSize
           /\ Cardinality(Chunk(E)) < ChunkSize => Chunk(E) = E
<1> USE LogRetentionAssumption
<1> DEFINE UpTo(i) == {j \in E : j <= i}
           C == {i \in E : Cardinality(UpTo(i)) <= ChunkSize}
<1>1. Chunk(E) = C
  BY DEF Chunk
<1>2. Rows \subseteq Nat /\ IsFiniteSet(Rows) /\ E \subseteq Nat
  BY FS_Interval DEF Rows
<1>3. IsFiniteSet(E)
  BY <1>2, FS_Subset
<1>4. ASSUME NEW S \in SUBSET E PROVE IsFiniteSet(S) /\ Cardinality(S) \in Nat
  <2>1. IsFiniteSet(S)
    BY <1>3, FS_Subset
  <2> QED BY <2>1, FS_CardinalityType
<1>5. Cardinality(C) <= ChunkSize
  <2>1. CASE C = {}
    <3>1. Cardinality(C) = 0
      BY <2>1, FS_EmptySet
    <3> HIDE DEF C
    <3> QED BY <3>1
  <2>2. CASE C # {}
    <3> DEFINE B == {MaxRows - i : i \in C}
    <3>1. C \subseteq Rows /\ \A i \in Rows : i \in Int /\ MaxRows - i \in Nat
      <4>1. C \subseteq E
        OBVIOUS
      <4> HIDE DEF C
      <4> QED BY <4>1 DEF Rows
    <3>0. B \in SUBSET Nat /\ B # {}
      <4> HIDE DEF C
      <4> QED BY <2>2, <3>1
    <3> HIDE DEF B
    <3>2. PICK b \in B : \A c \in B : b <= c
      BY <3>0, FirstId
    <3>3. PICK m \in C : b = MaxRows - m
      BY <3>2 DEF B
    <3>4. \A i \in C : MaxRows - m <= MaxRows - i
      BY <3>2, <3>3 DEF B
    <3>5. C \subseteq UpTo(m)
      <4> SUFFICES ASSUME NEW i \in C PROVE i \in E /\ i <= m
        OBVIOUS
      <4>1. i \in E /\ i \in Int /\ m \in Int /\ MaxRows - m <= MaxRows - i
        BY <3>1, <3>3, <3>4
      <4> HIDE DEF C
      <4> QED BY <4>1
    <3>6. IsFiniteSet(UpTo(m)) /\ Cardinality(UpTo(m)) <= ChunkSize /\ Cardinality(UpTo(m)) \in Nat
      BY <3>3, <1>4
    <3>7. Cardinality(C) <= Cardinality(UpTo(m))
      <4> HIDE DEF UpTo, C
      <4> QED BY <3>5, <3>6, FS_Subset
    <3>8. Cardinality(C) \in Nat
      BY <1>4
    <3> HIDE DEF UpTo, C
    <3> QED BY <3>6, <3>7, <3>8
  <2> QED BY <2>1, <2>2
<1>6. ASSUME C # E PROVE ChunkSize <= Cardinality(C)
  <2> DEFINE Rest == E \ C
  <2>1. Rest \in SUBSET Nat /\ Rest # {}
    BY <1>6, <1>2
  <2> HIDE DEF Rest
  <2>2. PICK i \in Rest : \A j \in Rest : i <= j
    BY <2>1, FirstId
  <2>3. i \in E /\ ~(Cardinality(UpTo(i)) <= ChunkSize)
    BY <2>2 DEF Rest
  <2> DEFINE Below == {j \in E : j < i}
  <2>4. Below \subseteq C
    <3> SUFFICES ASSUME NEW j \in Below, j \notin C PROVE FALSE
      OBVIOUS
    <3>1. j \in Rest /\ j < i
      BY DEF Rest
    <3> QED BY <3>1, <2>2, <1>2, <2>3
  <2>5. UpTo(i) = Below \cup {i} /\ i \notin Below
    <3>1. i \in Int /\ \A j \in E : j \in Int /\ (j <= i <=> j < i \/ j = i)
      BY <2>3, <1>2
    <3>2. i \in UpTo(i) /\ i \notin Below
      BY <2>3, <3>1
    <3>3. \A j : j \in UpTo(i) <=> j \in E /\ j <= i
      OBVIOUS
    <3>4. \A j : j \in Below <=> j \in E /\ j < i
      OBVIOUS
    <3> HIDE DEF UpTo, Below
    <3> QED BY <3>1, <3>2, <3>3, <3>4
  <2>6. Below \in SUBSET E /\ C \in SUBSET E /\ UpTo(i) \in SUBSET E
    OBVIOUS
  <2>7. /\ IsFiniteSet(Below) /\ Cardinality(Below) \in Nat
        /\ IsFiniteSet(C) /\ Cardinality(C) \in Nat
    BY <2>6, <1>4
  <2> HIDE DEF UpTo, C, Below
  <2>8. Cardinality(UpTo(i)) = Cardinality(Below) + 1
    BY <2>5, <2>7, FS_AddElement
  <2>9. Cardinality(Below) <= Cardinality(C)
    BY <2>4, <2>7, FS_Subset
  <2> QED BY <2>3, <2>7, <2>8, <2>9
<1>7. C \subseteq E /\ IsFiniteSet(C) /\ Cardinality(C) \in Nat
  BY <1>4
<1> HIDE DEF C
<1> QED BY <1>1, <1>5, <1>6, <1>7

\* What a job has looked for stays true while it runs: rows that come later are
\* not as old as what it looks for, so that, once less than a full chunk is
\* selected, what it selected is all there is.
PurgesLookBack ==
    \A p \in Purgers : purge[p] # NoPurge =>
        /\ purge[p].cutoff < now
        /\ Purges(p, "delete") /\ Cardinality(purge[p].ids) < ChunkSize
               => Expired(purge[p].cutoff) \subseteq purge[p].ids
        /\ Purges(p, "finished") => purge[p].deleted = 0

RetentionInv ==
    /\ now \in Time /\ LogRetentionTypeOK
    /\ PurgesLookBack /\ PurgeLeavesNothingOld /\ CountsAreReal

\* The rows that one has deleted can be counted.
LEMMA GoneIsFinite ==
    ASSUME LogRetentionTypeOK, NEW by
    PROVE  /\ IsFiniteSet(OnAccountOf(by)) /\ Cardinality(OnAccountOf(by)) \in 0..MaxRows
           /\ OnAccountOf(by) \subseteq 1..written
<1>1. written \in 0..MaxRows /\ OnAccountOf(by) \subseteq 1..written
  BY DEF LogRetentionTypeOK, OnAccountOf
<1>2. /\ IsFiniteSet(1..written) /\ Cardinality(1..written) = written
  BY <1>1, LogRetentionAssumption, FS_Interval
<1>3. IsFiniteSet(OnAccountOf(by)) /\ Cardinality(OnAccountOf(by)) <= written /\ Cardinality(OnAccountOf(by)) \in Nat
  BY <1>1, <1>2, FS_Subset, FS_CardinalityType
<1> QED BY <1>1, <1>3, LogRetentionAssumption

\* Rows of one kind and of another are counted together by adding.
LEMMA CountedApart ==
    ASSUME NEW S, NEW T, IsFiniteSet(S), IsFiniteSet(T), S \cap T = {}
    PROVE  Cardinality(S \cup T) = Cardinality(S) + Cardinality(T)
<1>1. Cardinality(S) \in Nat /\ Cardinality(T) \in Nat /\ Cardinality(S \cap T) = 0
  BY FS_CardinalityType, FS_EmptySet
<1>2. Cardinality(S \cup T) = Cardinality(S) + Cardinality(T) - Cardinality(S \cap T)
  BY FS_Union
<1> QED BY <1>1, <1>2

LEMMA RetentionInitInv == LogRetentionInit => RetentionInv
<1> SUFFICES ASSUME LogRetentionInit PROVE RetentionInv
  OBVIOUS
<1> USE LogRetentionAssumption
<1>1. /\ now = 0 /\ rows = {} /\ written = 0 /\ days \in 0..MaxDays
      /\ reported = 0 /\ unreported = 0 /\ 1..0 = {}
      /\ createdAt = [i \in 1..0 |-> 0] /\ goneBy = [i \in 1..0 |-> "nobody"]
      /\ purge = [p \in Purgers |-> NoPurge]
  BY DEF LogRetentionInit
<1>2. \A p \in Purgers : purge[p] = NoPurge
  BY <1>1
<1>3. now \in Time /\ LogRetentionTypeOK
  BY <1>1, <1>2, ServiceAssumption DEF LogRetentionTypeOK, Time
<1>4. PurgesLookBack /\ PurgeLeavesNothingOld
  BY <1>2 DEF PurgesLookBack, PurgeLeavesNothingOld, Purges
<1>5. \A by : OnAccountOf(by) = {}
  BY <1>1 DEF OnAccountOf
<1>6. CountsAreReal
  BY <1>1, <1>2, <1>5, FS_EmptySet DEF CountsAreReal
<1> QED BY <1>3, <1>4, <1>6 DEF RetentionInv

LEMMA RetentionStep ==
    ASSUME RetentionInv, [LogRetentionNext]_retentionVars
    PROVE  RetentionInv'
<1> USE LogRetentionAssumption
<1> SUFFICES /\ now' \in Time /\ LogRetentionTypeOK' /\ PurgesLookBack'
             /\ PurgeLeavesNothingOld' /\ CountsAreReal'
  BY DEF RetentionInv
<1>0. /\ now \in Time /\ written \in 0..MaxRows /\ rows \subseteq 1..written
      /\ createdAt \in [1..written -> Time] /\ days \in 0..MaxDays
      /\ purge \in [Purgers -> Purge \cup {NoPurge}]
      /\ reported \in 0..MaxRows /\ unreported \in 0..MaxRows
      /\ goneBy \in [1..written -> Purgers \cup {"nobody", "reported", "unreported"}]
  BY DEF RetentionInv, LogRetentionTypeOK
<1>a. /\ Time \subseteq Nat /\ now \in Nat /\ \A i \in rows : createdAt[i] \in Time
  BY <1>0, ServiceAssumption DEF Time
<1>b. \A p \in Purgers : purge[p] # NoPurge => purge[p] \in Purge /\ Cardinality(purge[p].ids) <= ChunkSize
  BY <1>0 DEF RetentionInv, LogRetentionTypeOK
<1>c. \A by : IsFiniteSet(OnAccountOf(by)) /\ Cardinality(OnAccountOf(by)) \in 0..MaxRows /\ OnAccountOf(by) \subseteq 1..written
  BY GoneIsFinite DEF RetentionInv
<1>d. /\ rows = OnAccountOf("nobody")
      /\ \A p \in Purgers : Cardinality(OnAccountOf(p)) = IF purge[p] = NoPurge THEN 0 ELSE purge[p].deleted
      /\ reported = Cardinality(OnAccountOf("reported")) /\ unreported = Cardinality(OnAccountOf("unreported"))
  BY DEF RetentionInv, CountsAreReal
<1>1. CASE UNCHANGED retentionVars
  <2>1. /\ UNCHANGED <<now, rows, createdAt, written, days, purge, reported, unreported, goneBy>>
    BY <1>1 DEF retentionVars
  <2>2. LogRetentionTypeOK' /\ now' \in Time
    BY <2>1, <1>0 DEF RetentionInv, LogRetentionTypeOK
  <2>3. PurgesLookBack' /\ PurgeLeavesNothingOld' /\ CountsAreReal'
    BY <2>1 DEF RetentionInv, PurgesLookBack, PurgeLeavesNothingOld, CountsAreReal, Purges, Expired, OnAccountOf
  <2> QED BY <2>2, <2>3
<1>2. CASE RetentionTick
  <2>1. /\ now < MaxTime /\ now' = now + 1
        /\ UNCHANGED <<rows, createdAt, written, days, purge, reported, unreported, goneBy>>
    BY <1>2 DEF RetentionTick, Tick
  <2>2. LogRetentionTypeOK'
    BY <2>1 DEF RetentionInv, LogRetentionTypeOK
  <2>3. now' \in Time
    BY <2>1, <1>0, ServiceAssumption DEF Time
  <2>4. PurgeLeavesNothingOld' /\ CountsAreReal'
    BY <2>1 DEF RetentionInv, PurgeLeavesNothingOld, CountsAreReal, Purges, Expired, OnAccountOf
  <2>5. PurgesLookBack'
    <3> SUFFICES ASSUME NEW p \in Purgers, purge[p] # NoPurge
                 PROVE  /\ purge[p].cutoff < now'
                        /\ Purges(p, "delete") /\ Cardinality(purge[p].ids) < ChunkSize
                               => Expired(purge[p].cutoff) \subseteq purge[p].ids
                        /\ Purges(p, "finished") => purge[p].deleted = 0
      BY <2>1 DEF PurgesLookBack, Purges, Expired
    <3>1. purge[p].cutoff \in Int
      BY <1>b DEF Purge
    <3> QED BY <3>1, <2>1, <1>a DEF RetentionInv, PurgesLookBack
  <2> QED BY <2>2, <2>3, <2>4, <2>5
<1>3. ASSUME NEW d \in 0..MaxDays, SetsDays(d) PROVE RetentionInv'
  <2>1. /\ days' = d /\ UNCHANGED <<now, rows, createdAt, written, purge, reported, unreported, goneBy>>
    BY <1>3 DEF SetsDays
  <2>2. LogRetentionTypeOK' /\ now' \in Time
    BY <2>1, <1>0 DEF RetentionInv, LogRetentionTypeOK
  <2>3. PurgesLookBack' /\ PurgeLeavesNothingOld' /\ CountsAreReal'
    BY <2>1 DEF RetentionInv, PurgesLookBack, PurgeLeavesNothingOld, CountsAreReal, Purges, Expired, OnAccountOf
  <2> QED BY <2>2, <2>3 DEF RetentionInv
<1>4. ASSUME NEW at \in Time, WritesRow(at) PROVE RetentionInv'
  <2> DEFINE new == written + 1
  <2>1. /\ written < MaxRows /\ at \in (now - MaxLag)..now
        /\ written' = new /\ rows' = rows \cup {new}
        /\ createdAt' = [i \in 1..new |-> IF i = new THEN at ELSE createdAt[i]]
        /\ goneBy' = [i \in 1..new |-> IF i = new THEN "nobody" ELSE goneBy[i]]
        /\ UNCHANGED <<now, days, purge, reported, unreported>>
    BY <1>4 DEF WritesRow
  <2>2. /\ new \in 0..MaxRows /\ new \notin 1..written /\ 1..new = (1..written) \cup {new} /\ 0 <= new
        /\ now - 1 <= at
    BY <2>1, <1>0, <1>a
  <2> HIDE DEF new
  <2>3. createdAt' \in [1..new -> Time]
    BY <2>1, <2>2, <1>0
  <2>4. goneBy' \in [1..new -> Purgers \cup {"nobody", "reported", "unreported"}]
    BY <2>1, <2>2, <1>0
  <2>5. LogRetentionTypeOK' /\ now' \in Time
    BY <2>1, <2>2, <2>3, <2>4, <1>0, <1>b DEF LogRetentionTypeOK
  <2>6. ASSUME NEW p \in Purgers, purge[p] # NoPurge
        PROVE  Expired(purge[p].cutoff)' = Expired(purge[p].cutoff) /\ purge[p].cutoff < now
    <3> DEFINE c == purge[p].cutoff
    <3>1. c \in Int /\ c < now /\ purge'[p] = purge[p]
      BY <2>1, <2>6, <1>b DEF Purge, RetentionInv, PurgesLookBack
    <3>2. \A i \in rows : i # new /\ createdAt'[i] = createdAt[i]
      BY <2>1, <2>2, <1>0
    <3>3. createdAt'[new] = at /\ at \in Int
      BY <2>1, <2>2, <1>a
    <3>4. ~(createdAt'[new] < c)
      BY <3>1, <3>3, <2>2, <1>a
    <3>5. {i \in rows' : createdAt'[i] < c} = {i \in rows : createdAt[i] < c}
      BY <3>2, <3>4, <2>1
    <3> QED BY <3>1, <3>5 DEF Expired
  <2>7. PurgesLookBack' /\ PurgeLeavesNothingOld'
    BY <2>1, <2>6 DEF RetentionInv, PurgesLookBack, PurgeLeavesNothingOld, Purges
  <2>8. OnAccountOf("nobody")' = OnAccountOf("nobody") \cup {new}
    BY <2>1, <2>2 DEF OnAccountOf
  <2>9. \A by \in Purgers \cup {"reported", "unreported"} : OnAccountOf(by)' = OnAccountOf(by)
    BY <2>1, <2>2 DEF OnAccountOf
  <2>10. CountsAreReal'
    BY <2>1, <2>8, <2>9, <1>d DEF CountsAreReal
  <2> QED BY <2>5, <2>7, <2>10 DEF RetentionInv
<1>5. ASSUME NEW p \in Purgers, StartsPurge(p) PROVE RetentionInv'
  <2> DEFINE new == [cutoff |-> now - days, stage |-> "select", ids |-> {}, deleted |-> 0]
  <2>1. /\ purge[p] = NoPurge \/ Purges(p, "finished")
        /\ days > 0 /\ purge' = [purge EXCEPT ![p] = new]
        /\ UNCHANGED <<now, rows, createdAt, written, days, reported, unreported, goneBy>>
    BY <1>5 DEF StartsPurge
  <2>2. new \in Purge
    BY <1>0, ServiceAssumption DEF Purge, Time
  <2>3. new # NoPurge /\ new.cutoff < now /\ new.stage = "select" /\ new.deleted = 0 /\ new.ids = {}
    <3>1. new # NoPurge
      <4> HIDE DEF new
      <4> QED BY <2>2, NoPurgeAssumption
    <3>2. now - days < now
      BY <2>1, <1>0, <1>a
    <3> QED BY <3>1, <3>2
  <2> HIDE DEF new
  <2>4. /\ purge'[p] = new /\ \A q \in Purgers : q # p => purge'[q] = purge[q]
        /\ purge' \in [Purgers -> Purge \cup {NoPurge}]
    BY <2>1, <2>2, <1>0
  <2>5. Cardinality(new.ids) <= ChunkSize
    BY <2>3, FS_EmptySet
  <2>6. LogRetentionTypeOK' /\ now' \in Time
    BY <2>1, <2>4, <2>5, <1>0, <1>b DEF LogRetentionTypeOK
  <2>7. PurgesLookBack' /\ PurgeLeavesNothingOld'
    BY <2>1, <2>3, <2>4 DEF RetentionInv, PurgesLookBack, PurgeLeavesNothingOld, Purges, Expired
  <2>8. Cardinality(OnAccountOf(p)) = 0
    BY <2>1, <1>d DEF RetentionInv, PurgesLookBack, Purges
  <2>9. CountsAreReal'
    BY <2>1, <2>3, <2>4, <2>8, <1>d DEF CountsAreReal, OnAccountOf
  <2> QED BY <2>6, <2>7, <2>9 DEF RetentionInv
<1>6. ASSUME NEW p \in Purgers, SelectsIds(p) PROVE RetentionInv'
  <2> DEFINE E == Expired(purge[p].cutoff)
             new == [purge[p] EXCEPT !.stage = "delete", !.ids = Chunk(E)]
  <2>1. /\ purge[p] # NoPurge /\ purge[p].stage = "select"
        /\ purge' = [purge EXCEPT ![p].stage = "delete", ![p].ids = Chunk(E)]
        /\ UNCHANGED <<now, rows, createdAt, written, days, reported, unreported, goneBy>>
    BY <1>6 DEF SelectsIds, Purges
  <2>2. E \in SUBSET Rows
    <3>1. 1..written \subseteq Rows
      BY <1>0 DEF Rows
    <3> QED BY <3>1, <1>0 DEF Expired
  <2>3. /\ Chunk(E) \subseteq E /\ Cardinality(Chunk(E)) <= ChunkSize
        /\ Cardinality(Chunk(E)) < ChunkSize => Chunk(E) = E
    BY <2>2, ChunkFacts
  <2> HIDE DEF E
  <2>4. purge[p] \in Purge
    BY <2>1, <1>b
  <2>5. /\ new \in Purge /\ new.ids = Chunk(E) /\ new.stage = "delete"
        /\ new.cutoff = purge[p].cutoff /\ new.deleted = purge[p].deleted
    BY <2>2, <2>3, <2>4 DEF Purge
  <2>6. purge' = [purge EXCEPT ![p] = new]
    BY <2>1, <1>0
  <2> HIDE DEF new
  <2>7. /\ purge'[p] = new /\ \A q \in Purgers : q # p => purge'[q] = purge[q]
        /\ purge' \in [Purgers -> Purge \cup {NoPurge}]
    BY <2>6, <2>5, <1>0
  <2>8. LogRetentionTypeOK' /\ now' \in Time
    BY <2>1, <2>3, <2>5, <2>7, <1>0, <1>b DEF LogRetentionTypeOK
  <2>9. PurgesLookBack' /\ PurgeLeavesNothingOld'
    <3>0. \A q \in Purgers : purge'[q].cutoff = purge[q].cutoff /\ (purge'[q] # NoPurge => purge[q] # NoPurge)
      BY <2>1, <2>5, <2>7
    <3>1. \A q \in Purgers : Expired(purge[q].cutoff)' = Expired(purge[q].cutoff)
      BY <3>0, <2>1 DEF Expired
    <3>2. Cardinality(new.ids) < ChunkSize => E \subseteq new.ids
      BY <2>3, <2>5
    <3>3. PurgeLeavesNothingOld'
      BY <3>0, <3>1, <2>5, <2>7 DEF RetentionInv, PurgeLeavesNothingOld, Purges
    <3>4. PurgesLookBack'
      BY <3>0, <3>1, <3>2, <2>1, <2>5, <2>7 DEF RetentionInv, PurgesLookBack, Purges, E
    <3> QED BY <3>3, <3>4
  <2>10. new # NoPurge
    BY <2>5, NoPurgeAssumption
  <2>11. \A by : OnAccountOf(by)' = OnAccountOf(by)
    BY <2>1 DEF OnAccountOf
  <2>12. CountsAreReal'
    <3>1. ASSUME NEW q \in Purgers
          PROVE  (IF purge'[q] = NoPurge THEN 0 ELSE purge'[q].deleted) = (IF purge[q] = NoPurge THEN 0 ELSE purge[q].deleted)
      BY <2>1, <2>5, <2>7, <2>10
    <3> QED BY <3>1, <2>1, <2>11, <1>d DEF CountsAreReal
  <2> QED BY <2>8, <2>9, <2>12 DEF RetentionInv
<1>7. ASSUME NEW p \in Purgers, DeletesIds(p) PROVE RetentionInv'
  <2> DEFINE count == purge[p].deleted + Deleted(p)
             D == purge[p].ids \cap rows
             With(stage, deleted) == [purge[p] EXCEPT !.stage = stage, !.ids = {}, !.deleted = deleted]
             new == With(IF IsLast(p) THEN "finished" ELSE "select", IF IsLast(p) THEN 0 ELSE count)
  <2>1. /\ purge[p] # NoPurge /\ purge[p].stage = "delete" /\ purge[p] \in Purge
        /\ rows' = rows \ purge[p].ids
        /\ reported' = IF IsLast(p) THEN reported + count ELSE reported
        /\ goneBy' = [i \in 1..written |-> IF goneBy[i] = p \/ i \in D
                                           THEN IF IsLast(p) THEN "reported" ELSE p
                                           ELSE goneBy[i]]
        /\ UNCHANGED <<now, createdAt, written, days, unreported>>
    BY <1>7, <1>b DEF DeletesIds, Purges
  <2>2. purge' = [purge EXCEPT ![p].stage = IF IsLast(p) THEN "finished" ELSE "select",
                              ![p].ids = {}, ![p].deleted = IF IsLast(p) THEN 0 ELSE count]
    BY <1>7 DEF DeletesIds
  <2> HIDE DEF count, D
  <2>3. purge' = [purge EXCEPT ![p] = new]
    BY <2>2, <1>0
  <2>f. ASSUME NEW stage, NEW deleted
        PROVE  /\ With(stage, deleted).stage = stage /\ With(stage, deleted).deleted = deleted
               /\ With(stage, deleted).ids = {} /\ With(stage, deleted).cutoff = purge[p].cutoff
               /\ stage \in {"select", "finished"} /\ deleted \in 0..MaxRows => With(stage, deleted) \in Purge
    BY <2>1 DEF Purge
  <2> HIDE DEF With
  <2>4. /\ D \subseteq OnAccountOf("nobody") /\ D \subseteq 1..written /\ IsFiniteSet(D)
        /\ OnAccountOf(p) \cap D = {} /\ p \notin {"nobody", "reported", "unreported"}
    <3>1. D \subseteq OnAccountOf("nobody") /\ D \subseteq 1..written
      BY <1>0, <1>d DEF D
    <3>2. p \notin {"nobody", "reported", "unreported"}
      OBVIOUS
    <3>3. IsFiniteSet(D)
      BY <3>1, <1>c, FS_Subset
    <3> QED BY <3>1, <3>2, <3>3 DEF OnAccountOf
  <2>5. /\ Cardinality(OnAccountOf(p)) = purge[p].deleted /\ Deleted(p) = Cardinality(D)
        /\ IsFiniteSet(OnAccountOf(p) \cup D)
        /\ Cardinality(OnAccountOf(p) \cup D) = count
    <3>1. Cardinality(OnAccountOf(p)) = purge[p].deleted /\ Deleted(p) = Cardinality(D)
      BY <1>d, <2>1 DEF Deleted, D
    <3>2. Cardinality(OnAccountOf(p) \cup D) = Cardinality(OnAccountOf(p)) + Cardinality(D)
      BY <2>4, <1>c, CountedApart
    <3>3. IsFiniteSet(OnAccountOf(p) \cup D)
      BY <2>4, <1>c, FS_Union
    <3> QED BY <3>1, <3>2, <3>3 DEF count
  <2>6. \A q \in Purgers \cup {"unreported"} : q # p => OnAccountOf(q)' = OnAccountOf(q)
    BY <2>1, <2>4 DEF OnAccountOf
  <2>7. OnAccountOf("nobody")' = OnAccountOf("nobody") \ D
    BY <2>1, <2>4 DEF OnAccountOf
  <2>8. rows' = OnAccountOf("nobody")'
    BY <2>1, <2>7, <1>d DEF D
  <2>9. /\ Cardinality(OnAccountOf(p)') = new.deleted /\ reported' = Cardinality(OnAccountOf("reported")')
        /\ new.stage \in {"select", "finished"} /\ (new.stage = "finished" => IsLast(p) /\ new.deleted = 0)
        /\ new.ids = {} /\ new.cutoff = purge[p].cutoff
    <3>1. CASE IsLast(p)
      <4>1. OnAccountOf(p)' = {} /\ OnAccountOf("reported")' = OnAccountOf("reported") \cup (OnAccountOf(p) \cup D)
        BY <2>1, <2>4, <3>1 DEF OnAccountOf
      <4>2. OnAccountOf("reported") \cap (OnAccountOf(p) \cup D) = {}
        BY <2>4 DEF OnAccountOf
      <4>3. Cardinality(OnAccountOf("reported")') = reported + count
        BY <4>1, <4>2, <2>5, <1>c, <1>d, CountedApart
      <4>4. new.deleted = 0 /\ new.stage = "finished" /\ reported' = reported + count
        BY <2>1, <2>f, <3>1
      <4>5. Cardinality(OnAccountOf(p)') = 0
        BY <4>1, FS_EmptySet
      <4>6. new.ids = {} /\ new.cutoff = purge[p].cutoff
        BY <2>f
      <4> QED BY <4>3, <4>4, <4>5, <4>6, <3>1
    <3>2. CASE ~IsLast(p)
      <4>1. OnAccountOf(p)' = OnAccountOf(p) \cup D /\ OnAccountOf("reported")' = OnAccountOf("reported")
        BY <2>1, <2>4, <3>2 DEF OnAccountOf
      <4>2. new.deleted = count /\ new.stage = "select" /\ reported' = reported
        BY <2>1, <2>f, <3>2
      <4>3. new.ids = {} /\ new.cutoff = purge[p].cutoff
        BY <2>f
      <4> QED BY <4>1, <4>2, <4>3, <2>5, <1>d
    <3> QED BY <3>1, <3>2
  <2>10. IsFiniteSet(OnAccountOf(p)') /\ OnAccountOf(p)' \subseteq 1..written
    <3>1. OnAccountOf(p)' \subseteq OnAccountOf(p) \cup D
      BY <2>1, <2>4 DEF OnAccountOf
    <3> QED BY <3>1, <2>4, <2>5, <1>c, FS_Subset
  <2>11. new.deleted \in 0..MaxRows /\ reported' \in 0..MaxRows
    <3>1. OnAccountOf("reported")' \subseteq 1..written
      BY <2>1 DEF OnAccountOf
    <3>2. IsFiniteSet(1..written) /\ Cardinality(1..written) = written
      BY <1>0, FS_Interval
    <3>3. ASSUME NEW I \in SUBSET (1..written) PROVE Cardinality(I) \in 0..MaxRows
      <4>1. IsFiniteSet(I) /\ Cardinality(I) <= Cardinality(1..written)
        BY <3>2, FS_Subset
      <4>2. Cardinality(I) \in Nat
        BY <4>1, FS_CardinalityType
      <4> QED BY <4>1, <4>2, <3>2, <1>0
    <3> QED BY <3>1, <3>3, <2>9, <2>10
  <2>12. new \in Purge /\ new # NoPurge
    <3>1. new \in Purge
      <4>1. PICK stage, deleted : new = With(stage, deleted)
        OBVIOUS
      <4> HIDE DEF new
      <4> QED BY <4>1, <2>f, <2>9, <2>11
    <3> HIDE DEF new
    <3> QED BY <3>1, NoPurgeAssumption
  <2> HIDE DEF new
  <2>13. /\ purge'[p] = new /\ \A q \in Purgers : q # p => purge'[q] = purge[q]
         /\ purge' \in [Purgers -> Purge \cup {NoPurge}]
    BY <2>3, <2>12, <1>0
  <2>14. LogRetentionTypeOK' /\ now' \in Time
    <3>1. goneBy' \in [1..written -> Purgers \cup {"nobody", "reported", "unreported"}]
      BY <2>1, <1>0
    <3>2. Cardinality(new.ids) <= ChunkSize
      BY <2>9, FS_EmptySet
    <3> QED BY <3>1, <3>2, <2>1, <2>11, <2>13, <1>0, <1>b DEF LogRetentionTypeOK
  <2>15. CountsAreReal'
    <3>1. ASSUME NEW q \in Purgers
          PROVE  Cardinality(OnAccountOf(q)') = IF purge'[q] = NoPurge THEN 0 ELSE purge'[q].deleted
      BY <2>6, <2>9, <2>12, <2>13, <1>d
    <3>2. unreported' = Cardinality(OnAccountOf("unreported")')
      BY <2>1, <2>4, <2>6, <1>d
    <3> QED BY <3>1, <3>2, <2>8, <2>9 DEF CountsAreReal
  <2>16. \A c : Expired(c)' = Expired(c) \ purge[p].ids
    BY <2>1 DEF Expired
  <2>17. IsLast(p) => Expired(purge[p].cutoff) \subseteq purge[p].ids
    BY <2>1 DEF RetentionInv, PurgesLookBack, Purges, IsLast
  <2>18. PurgesLookBack' /\ PurgeLeavesNothingOld'
    <3> SUFFICES ASSUME NEW q \in Purgers, purge'[q] # NoPurge
                 PROVE  /\ purge'[q].cutoff < now'
                        /\ purge'[q].stage = "delete" /\ Cardinality(purge'[q].ids) < ChunkSize
                               => Expired(purge[q].cutoff)' \subseteq purge'[q].ids
                        /\ purge'[q].stage = "finished" => purge'[q].deleted = 0
                        /\ purge'[q].stage = "finished" => Expired(purge[q].cutoff)' = {}
      BY DEF PurgesLookBack, PurgeLeavesNothingOld, Purges
    <3>1. CASE q = p
      <4>1. Expired(purge[q].cutoff)' = Expired(purge[p].cutoff) \ purge[p].ids
        BY <3>1, <2>9, <2>13, <2>16
      <4> QED BY <4>1, <3>1, <2>1, <2>9, <2>13, <2>17 DEF RetentionInv, PurgesLookBack
    <3>2. CASE q # p
      <4>1. Expired(purge[q].cutoff)' = Expired(purge[q].cutoff) \ purge[p].ids
        BY <3>2, <2>13, <2>16
      <4> QED BY <4>1, <3>2, <2>1, <2>13 DEF RetentionInv, PurgesLookBack, PurgeLeavesNothingOld, Purges
    <3> QED BY <3>1, <3>2
  <2> QED BY <2>14, <2>15, <2>18 DEF RetentionInv
<1>8. ASSUME NEW p \in Purgers, PurgeFails(p) PROVE RetentionInv'
  <2>1. /\ purge[p] # NoPurge /\ purge[p] \in Purge
        /\ purge' = [purge EXCEPT ![p] = NoPurge]
        /\ unreported' = unreported + purge[p].deleted
        /\ goneBy' = [i \in 1..written |-> IF goneBy[i] = p THEN "unreported" ELSE goneBy[i]]
        /\ UNCHANGED <<now, rows, createdAt, written, days, reported>>
    BY <1>8, <1>b DEF PurgeFails, Purges
  <2>2. /\ purge'[p] = NoPurge /\ \A q \in Purgers : q # p => purge'[q] = purge[q]
        /\ purge' \in [Purgers -> Purge \cup {NoPurge}]
        /\ p \notin {"nobody", "reported", "unreported"}
    BY <2>1, <1>0
  <2>3. \A q \in Purgers \cup {"nobody", "reported"} : q # p => OnAccountOf(q)' = OnAccountOf(q)
    BY <2>1, <2>2 DEF OnAccountOf
  <2>4. OnAccountOf(p)' = {} /\ OnAccountOf("unreported")' = OnAccountOf("unreported") \cup OnAccountOf(p)
    BY <2>1, <2>2 DEF OnAccountOf
  <2>5. Cardinality(OnAccountOf("unreported")') = unreported + purge[p].deleted
    <3>1. OnAccountOf("unreported") \cap OnAccountOf(p) = {}
      BY <2>2 DEF OnAccountOf
    <3> QED BY <3>1, <2>1, <2>4, <1>c, <1>d, CountedApart
  <2>6. unreported' \in 0..MaxRows
    <3>1. OnAccountOf("unreported")' \subseteq 1..written
      BY <2>1 DEF OnAccountOf
    <3>2. IsFiniteSet(1..written) /\ Cardinality(1..written) = written
      BY <1>0, FS_Interval
    <3>3. Cardinality(OnAccountOf("unreported")') <= written /\ Cardinality(OnAccountOf("unreported")') \in Nat
      BY <3>1, <3>2, FS_Subset, FS_CardinalityType
    <3> QED BY <3>3, <2>1, <2>5, <1>0
  <2>7. LogRetentionTypeOK' /\ now' \in Time
    <3>1. goneBy' \in [1..written -> Purgers \cup {"nobody", "reported", "unreported"}]
      BY <2>1, <1>0
    <3> QED BY <3>1, <2>1, <2>2, <2>6, <1>0, <1>b DEF LogRetentionTypeOK
  <2>8. CountsAreReal'
    <3>1. Cardinality(OnAccountOf(p)') = 0
      BY <2>4, FS_EmptySet
    <3>2. ASSUME NEW q \in Purgers
          PROVE  Cardinality(OnAccountOf(q)') = IF purge'[q] = NoPurge THEN 0 ELSE purge'[q].deleted
      BY <3>1, <2>2, <2>3, <1>d
    <3>3. rows' = OnAccountOf("nobody")' /\ reported' = Cardinality(OnAccountOf("reported")')
      BY <2>1, <2>2, <2>3, <1>d
    <3> QED BY <3>2, <3>3, <2>1, <2>5 DEF CountsAreReal
  <2>9. PurgesLookBack' /\ PurgeLeavesNothingOld'
    BY <2>1, <2>2 DEF RetentionInv, PurgesLookBack, PurgeLeavesNothingOld, Purges, Expired
  <2> QED BY <2>7, <2>8, <2>9 DEF RetentionInv
<1> QED BY <1>1, <1>2, <1>3, <1>4, <1>5, <1>6, <1>7, <1>8 DEF LogRetentionNext, RetentionInv

\* A purge leaves nothing that was too old when it began and counts the rows it
\* deletes and no others, however many workers purge at once.
THEOREM PurgesDoWhatTheyReport == LogRetentionSpec => []RetentionHolds
<1>1. RetentionInv => RetentionHolds
  BY DEF RetentionInv, RetentionHolds
<1> QED BY RetentionInitInv, RetentionStep, <1>1, PTL DEF LogRetentionSpec

-----------------------------------------------------------------------------
(* LogPages.                                                                *)

\* A set of times of which some were before MaxTime has a last.
LEMMA MaxIsLast ==
    ASSUME NEW Times \in SUBSET ((-MaxDays)..MaxTime), Times # {}
    PROVE  Max(Times) \in Times /\ \A t \in Times : t <= Max(Times)
<1> DEFINE B == {MaxTime - t : t \in Times}
<1>1. Times \subseteq Int /\ \A t \in Times : MaxTime - t \in Nat
  BY ServiceAssumption, LogRetentionAssumption
<1>2. B \in SUBSET Nat /\ B # {}
  BY <1>1
<1> HIDE DEF B
<1>3. PICK b \in B : \A c \in B : b <= c
  BY <1>2, FirstId
<1>4. PICK m \in Times : b = MaxTime - m
  BY <1>3 DEF B
<1>5. \A t \in Times : MaxTime - m <= MaxTime - t
  BY <1>3, <1>4 DEF B
<1>6. \A t \in Times : m >= t
  BY <1>1, <1>5, ServiceAssumption
<1>7. Max(Times) \in Times /\ \A t \in Times : Max(Times) >= t
  BY <1>6 DEF Max
<1> QED BY <1>1, <1>7

\* How far a row is from the first, at given times of the rows.
Ahead(c, i, j) == c[i] > c[j] \/ (c[i] = c[j] /\ i >= j)
InFront(c, i, R) == {j \in R : Ahead(c, j, i)}

LEMMA RankIs ==
    ASSUME NEW i, NEW R
    PROVE  Rank(i, R) = Cardinality(InFront(createdAt, i, R))
BY DEF Rank, Before, InFront, Ahead

LEMMA FrontIsCounted ==
    ASSUME NEW c, NEW n \in Nat, c \in [1..n -> Int], NEW R, R \subseteq 1..n, NEW i \in R
    PROVE  /\ IsFiniteSet(R) /\ Cardinality(R) \in Nat
           /\ IsFiniteSet(InFront(c, i, R)) /\ Cardinality(InFront(c, i, R)) \in Nat
           /\ 1 <= Cardinality(InFront(c, i, R)) /\ Cardinality(InFront(c, i, R)) <= Cardinality(R)
<1> DEFINE F == InFront(c, i, R)
<1>1. F \subseteq R /\ i \in F
  BY DEF InFront, Ahead
<1> HIDE DEF F
<1>2. IsFiniteSet(R) /\ Cardinality(R) \in Nat
  <2>1. IsFiniteSet(1..n)
    BY FS_Interval
  <2> QED BY <2>1, FS_Subset, FS_CardinalityType
<1>3. IsFiniteSet(F) /\ Cardinality(F) \in Nat /\ Cardinality(F) <= Cardinality(R)
  BY <1>1, <1>2, FS_Subset, FS_CardinalityType
<1>4. Cardinality(F) # 0
  BY <1>1, <1>3, FS_EmptySet
<1>5. 1 <= Cardinality(F)
  BY <1>3, <1>4
<1> QED BY <1>2, <1>3, <1>5 DEF F

\* What is asked for has a time before that of which the reader knows; what they have
\* not seen of what was there is gone or behind the pages they have turned, or as old.
ReadingKnowsCutoffs ==
    /\ oldest \in (-MaxDays)..MaxTime
    /\ \A p \in Purgers : purge[p] # NoPurge =>
           \A i \in purge[p].ids : i \in 1..written /\ createdAt[i] < purge[p].cutoff /\ purge[p].stage = "delete"
    /\ reading # NoReading =>
           \A p \in Purgers : purge[p] # NoPurge /\ purge[p].stage # "finished" => purge[p].cutoff <= oldest

Unseen == reading.began \ reading.seen

UnseenIsBehind ==
    reading # NoReading =>
        /\ reading.page \in Nat
        /\ reading.began \subseteq 1..written /\ \A i \in reading.began : tenantOfRow[i] = reading.tenant
        /\ \A i \in Unseen : i \notin rows => createdAt[i] < oldest
        /\ \A i \in Unseen \cap rows :
               Rank(i, OfTenant(reading.tenant)) <= (reading.page + 1) * LogsPerPage => createdAt[i] < oldest

LogPagesInv == RetentionInv /\ ReadingKnowsCutoffs /\ UnseenIsBehind /\ PagesMissNothing

LEMMA LogPagesInitInv == LogPagesInit => LogPagesInv
<1> SUFFICES ASSUME LogPagesInit PROVE LogPagesInv
  OBVIOUS
<1>1. RetentionInv
  BY RetentionInitInv DEF LogPagesInit
<1>2. reading = NoReading /\ oldest = -MaxDays
  BY DEF LogPagesInit
<1>3. oldest \in (-MaxDays)..MaxTime
  BY <1>2, ServiceAssumption, LogRetentionAssumption
<1>4. \A p \in Purgers : purge[p] = NoPurge
  BY DEF LogPagesInit, LogRetentionInit
<1>5. ReadingKnowsCutoffs
  BY <1>2, <1>3, <1>4 DEF ReadingKnowsCutoffs
<1> QED BY <1>1, <1>2, <1>5 DEF LogPagesInv, UnseenIsBehind, PagesMissNothing

LEMMA RetentionGoesOn == [LogPagesNext]_pageVars => [LogRetentionNext]_retentionVars
BY DEF LogPagesNext, pageVars, LogRetentionNext, retentionVars, OpensLog, TurnsPage, ClosesLog, PurgeRuns,
       PagesMeanwhile, LosesSeat, WritesEvent

\* What the state says of the rows.
LEMMA RowsAre ==
    ASSUME RetentionInv
    PROVE  /\ written \in Nat /\ rows \subseteq 1..written /\ createdAt \in [1..written -> Int]
           /\ \A p \in Purgers : purge[p] # NoPurge => purge[p] \in Purge
           /\ purge \in [Purgers -> Purge \cup {NoPurge}]
BY ServiceAssumption, LogRetentionAssumption DEF RetentionInv, LogRetentionTypeOK, Time

\* The moments before which rows are being removed.
CutoffsOf(f) == {f[p].cutoff : p \in {x \in Purgers : f[x] # NoPurge /\ f[x].stage # "finished"}}

LEMMA CutoffsAre ==
    ASSUME NEW f, f \in [Purgers -> Purge \cup {NoPurge}], NEW t \in (-MaxDays)..MaxTime
    PROVE  /\ Max(CutoffsOf(f) \cup {t}) \in (-MaxDays)..MaxTime /\ t <= Max(CutoffsOf(f) \cup {t})
           /\ \A p \in Purgers : f[p] # NoPurge /\ f[p].stage # "finished" => f[p].cutoff <= Max(CutoffsOf(f) \cup {t})
<1>1. CutoffsOf(f) \subseteq (-MaxDays)..MaxTime
  BY DEF CutoffsOf, Purge
<1>2. PICK Times : Times = CutoffsOf(f) \cup {t}
  OBVIOUS
<1>3. Times \in SUBSET ((-MaxDays)..MaxTime) /\ Times # {} /\ t \in Times
  BY <1>1, <1>2
<1>4. Max(Times) \in Times /\ \A s \in Times : s <= Max(Times)
  BY <1>3, MaxIsLast
<1>5. \A p \in Purgers : f[p] # NoPurge /\ f[p].stage # "finished" => f[p].cutoff \in Times
  BY <1>2 DEF CutoffsOf
<1>6. Max(Times) \in (-MaxDays)..MaxTime /\ t <= Max(Times)
  BY <1>3, <1>4
<1>7. \A p \in Purgers : f[p] # NoPurge /\ f[p].stage # "finished" => f[p].cutoff <= Max(Times)
  BY <1>4, <1>5
<1> QED BY <1>2, <1>6, <1>7

\* Rows that come and go at times that are known leave those that were not seen behind
\* the pages, if what goes is as old as the reader is told.
LEMMA ComingAndGoingKeeps ==
    ASSUME RetentionInv, RetentionInv', ReadingKnowsCutoffs, UnseenIsBehind, PagesMissNothing,
           reading' = reading, oldest' \in Int, reading # NoReading => oldest <= oldest',
           written <= written', \A i \in 1..written : createdAt'[i] = createdAt[i] /\ tenantOfRow'[i] = tenantOfRow[i],
           rows' \cap (1..written) \subseteq rows,
           reading # NoReading => \A i \in rows \ rows' : createdAt[i] < oldest'
    PROVE  UnseenIsBehind' /\ PagesMissNothing'
<1> SUFFICES ASSUME reading # NoReading
             PROVE  /\ reading.page \in Nat
                    /\ reading.began \subseteq 1..written' /\ \A i \in reading.began : tenantOfRow'[i] = reading.tenant
                    /\ \A i \in Unseen : i \notin rows' => createdAt'[i] < oldest'
                    /\ \A i \in Unseen \cap rows' :
                           Rank(i, OfTenant(reading.tenant))' <= (reading.page + 1) * LogsPerPage => createdAt'[i] < oldest'
                    /\ ~HasNextPage(reading) => \A i \in Unseen : createdAt'[i] < oldest'
  BY DEF UnseenIsBehind, PagesMissNothing, Unseen, HasNextPage
<1>1. /\ written \in Nat /\ written' \in Nat /\ rows \subseteq 1..written /\ rows' \subseteq 1..written'
      /\ createdAt \in [1..written -> Int] /\ createdAt' \in [1..written' -> Int] /\ oldest \in Int
  <2>1. /\ written \in Nat /\ rows \subseteq 1..written /\ createdAt \in [1..written -> Int]
    BY RowsAre
  <2>2. /\ written' \in Nat /\ rows' \subseteq 1..written' /\ createdAt' \in [1..written' -> Time]
    BY LogRetentionAssumption DEF RetentionInv, LogRetentionTypeOK
  <2>3. Time \subseteq Int
    BY DEF Time
  <2>4. oldest \in Int
    BY DEF ReadingKnowsCutoffs
  <2> QED BY <2>1, <2>2, <2>3, <2>4
<1>2. /\ reading.page \in Nat /\ reading.began \subseteq 1..written
      /\ \A i \in reading.began : tenantOfRow[i] = reading.tenant
      /\ \A i \in Unseen : i \notin rows => createdAt[i] < oldest
      /\ \A i \in Unseen \cap rows :
               Rank(i, OfTenant(reading.tenant)) <= (reading.page + 1) * LogsPerPage => createdAt[i] < oldest
      /\ ~HasNextPage(reading) => \A i \in Unseen : createdAt[i] < oldest
  BY DEF UnseenIsBehind, PagesMissNothing, Unseen
<1>3. Unseen \subseteq 1..written /\ 1..written \subseteq 1..written'
  BY <1>1, <1>2 DEF Unseen
<1>4. \A i \in Unseen : createdAt'[i] = createdAt[i] /\ createdAt[i] \in Int
  BY <1>1, <1>3
<1>5. \A i \in Unseen : createdAt[i] < oldest => createdAt'[i] < oldest'
  BY <1>1, <1>4
<1>6. ASSUME NEW i \in Unseen, i \notin rows' PROVE createdAt'[i] < oldest'
  <2>1. CASE i \in rows
    BY <1>4, <1>6, <2>1
  <2>2. CASE i \notin rows
    BY <1>2, <1>5, <2>2
  <2> QED BY <2>1, <2>2
<1>7. PICK t : t = reading.tenant
  OBVIOUS
<1>8. PICK c : c = createdAt
  OBVIOUS
<1>9. PICK d : d = createdAt'
  OBVIOUS
<1>10. PICK R : R = OfTenant(t)
  OBVIOUS
<1>11. PICK S : S = OfTenant(t)'
  OBVIOUS
<1>12. R \subseteq 1..written /\ S \subseteq 1..written'
  BY <1>1, <1>10, <1>11 DEF OfTenant
<1>13. \A i \in S : i \in 1..written => i \in R
  BY <1>1, <1>10, <1>11 DEF OfTenant
<1>14. \A j \in R : j \notin S => createdAt[j] < oldest' /\ createdAt[j] \in Int
  <2>1. \A j \in R : j \in rows /\ j \in 1..written /\ tenantOfRow[j] = t
    BY <1>1, <1>10 DEF OfTenant
  <2>2. \A j \in R : j \notin S => j \notin rows'
    BY <2>1, <1>11 DEF OfTenant
  <2> QED BY <1>1, <2>1, <2>2
<1>15. ASSUME NEW i \in Unseen, i \in rows', Rank(i, S)' <= (reading.page + 1) * LogsPerPage PROVE createdAt'[i] < oldest'
  <2>1. i \in 1..written /\ i \in reading.began /\ i \in rows /\ createdAt'[i] = createdAt[i] /\ createdAt[i] \in Int
    BY <1>1, <1>3, <1>4, <1>15 DEF Unseen
  <2>2. tenantOfRow[i] = t /\ tenantOfRow'[i] = t
    BY <1>2, <1>7, <2>1
  <2>3. i \in R /\ i \in S
    BY <1>10, <1>11, <1>15, <2>1, <2>2 DEF OfTenant
  <2>4. Rank(i, R) = Cardinality(InFront(c, i, R)) /\ Rank(i, S)' = Cardinality(InFront(d, i, S))
    BY <1>8, <1>9 DEF Rank, Before, InFront, Ahead
  <2>5. CASE \E j \in InFront(c, i, R) : j \notin S
    <3>1. PICK j \in InFront(c, i, R) : j \notin S
      BY <2>5
    <3>2. j \in R /\ createdAt[i] <= createdAt[j]
      <4>1. j \in R /\ (c[j] > c[i] \/ c[j] = c[i])
        BY <3>1 DEF InFront, Ahead
      <4>2. createdAt[j] \in Int
        BY <1>1, <1>12, <4>1
      <4> QED BY <1>8, <2>1, <4>1, <4>2
    <3>3. createdAt[j] < oldest' /\ createdAt[j] \in Int
      BY <1>14, <3>1, <3>2
    <3> QED BY <2>1, <3>2, <3>3
  <2>6. CASE \A j \in InFront(c, i, R) : j \in S
    <3>1. InFront(c, i, R) \subseteq InFront(d, i, S)
      <4> SUFFICES ASSUME NEW j \in InFront(c, i, R) PROVE j \in InFront(d, i, S)
        OBVIOUS
      <4>1. j \in R /\ j \in S /\ Ahead(c, j, i)
        BY <2>6 DEF InFront
      <4>2. c[j] = d[j] /\ c[i] = d[i]
        BY <1>8, <1>9, <1>12, <2>1, <4>1
      <4> QED BY <4>1, <4>2 DEF InFront, Ahead
    <3>2. IsFiniteSet(InFront(d, i, S)) /\ Cardinality(InFront(d, i, S)) \in Nat
      BY <1>1, <1>9, <1>12, <2>3, FrontIsCounted
    <3>3. Cardinality(InFront(c, i, R)) <= Cardinality(InFront(d, i, S)) /\ Cardinality(InFront(c, i, R)) \in Nat
      BY <3>1, <3>2, FS_Subset, FS_CardinalityType
    <3>4. (reading.page + 1) * LogsPerPage \in Nat
      BY <1>2, LogPagesAssumption
    <3>5. Rank(i, R) <= (reading.page + 1) * LogsPerPage
      BY <1>15, <2>4, <3>2, <3>3, <3>4
    <3>6. createdAt[i] < oldest
      BY <1>2, <1>7, <1>10, <1>15, <2>1, <3>5
    <3> QED BY <1>5, <1>15, <3>6
  <2> QED BY <2>5, <2>6
<1>16. ASSUME NEW i \in Unseen \cap rows', Rank(i, OfTenant(reading.tenant))' <= (reading.page + 1) * LogsPerPage
       PROVE  createdAt'[i] < oldest'
  <2>1. OfTenant(reading.tenant)' = S
    BY <1>7, <1>11
  <2>2. Rank(i, OfTenant(reading.tenant))' = Rank(i, S)'
    BY <2>1 DEF Rank, Before
  <2> QED BY <1>15, <1>16, <2>2
<1>17. \A i \in reading.began : tenantOfRow'[i] = reading.tenant
  BY <1>2
<1>18. reading.began \subseteq 1..written'
  BY <1>2, <1>3
<1>19. ~HasNextPage(reading) => \A i \in Unseen : createdAt'[i] < oldest'
  BY <1>2, <1>5
<1> QED BY <1>2, <1>6, <1>16, <1>17, <1>18, <1>19

LEMMA WritesEventKeeps ==
    ASSUME LogPagesInv, RetentionInv', NEW e \in Event, NEW at \in Time, WritesEvent(e, at)
    PROVE  LogPagesInv'
<1>1. /\ reading' = reading /\ oldest' = oldest /\ purge' = purge
      /\ written' = written + 1 /\ rows' = rows \cup {written + 1}
      /\ createdAt' = [i \in 1..(written + 1) |-> IF i = written + 1 THEN at ELSE createdAt[i]]
  BY DEF WritesEvent, WritesRow
<1>2. tenantOfRow' = [i \in 1..(written + 1) |-> IF i = written + 1 THEN TenantOfEvent(e) ELSE tenantOfRow[i]]
  BY DEF WritesEvent
<1>3. written \in Nat /\ oldest \in Int
  BY RowsAre DEF LogPagesInv, ReadingKnowsCutoffs
<1>4. \A i \in 1..written : i \in 1..(written + 1) /\ i # written + 1
  BY <1>3
<1>5. \A i \in 1..written : createdAt'[i] = createdAt[i] /\ tenantOfRow'[i] = tenantOfRow[i]
  BY <1>1, <1>2, <1>4
<1>6. written <= written' /\ rows' \cap (1..written) \subseteq rows /\ rows \ rows' = {}
  BY <1>1, <1>3, <1>4
<1>7. UnseenIsBehind' /\ PagesMissNothing'
  BY <1>1, <1>3, <1>5, <1>6, ComingAndGoingKeeps DEF LogPagesInv
<1>8. ReadingKnowsCutoffs'
  BY <1>1, <1>4, <1>5 DEF LogPagesInv, ReadingKnowsCutoffs
<1> QED BY <1>7, <1>8 DEF LogPagesInv

LEMMA RowsStayKeeps ==
    ASSUME LogPagesInv, RetentionInv', UNCHANGED <<rows, createdAt, written, purge, tenantOfRow, reading, oldest>>
    PROVE  LogPagesInv'
BY DEF LogPagesInv, ReadingKnowsCutoffs, UnseenIsBehind, PagesMissNothing, Unseen, HasNextPage, Rank, Before, OfTenant

\* A page that was fetched shows the rows that were before it and could be missed.
LEMMA FetchedPageIsWhole ==
    ASSUME RetentionInv, NEW t, NEW page \in Nat, NEW i \in OfTenant(t),
           i \notin Slice(OfTenant(t), PageOffset(page)), Rank(i, OfTenant(t)) <= (page + 1) * LogsPerPage
    PROVE  Rank(i, OfTenant(t)) <= page * LogsPerPage /\ 1 <= Rank(i, OfTenant(t))
<1>1. PICK R : R = OfTenant(t)
  OBVIOUS
<1>2. written \in Nat /\ R \subseteq 1..written /\ createdAt \in [1..written -> Int]
  BY <1>1, RowsAre DEF OfTenant
<1>3. Rank(i, R) \in Nat /\ 1 <= Rank(i, R)
  BY <1>1, <1>2, RankIs, FrontIsCounted
<1>4. ~(Rank(i, R) \in (PageOffset(page) + 1)..(PageOffset(page) + LogsPerPage))
  BY <1>1 DEF Slice
<1>5. PICK n \in Nat : n = LogsPerPage
  BY LogPagesAssumption
<1>6. page * n \in Nat /\ (page + 1) * n = page * n + n
  BY <1>5
<1>7. PageOffset(page) = page * n
  BY <1>5 DEF PageOffset
<1>8. Rank(i, R) <= page * n + n
  BY <1>1, <1>5, <1>6
<1>9. Rank(i, R) <= page * n
  BY <1>3, <1>4, <1>5, <1>6, <1>7, <1>8
<1> QED BY <1>1, <1>3, <1>5, <1>9

\* Of a last page there is nothing left that comes after.
LEMMA NothingIsBehindTheLast ==
    ASSUME RetentionInv, NEW t, NEW i \in OfTenant(t)
    PROVE  Rank(i, OfTenant(t)) \in Nat /\ Rank(i, OfTenant(t)) <= Cardinality(OfTenant(t)) /\ Cardinality(OfTenant(t)) \in Nat
<1>1. PICK R : R = OfTenant(t)
  OBVIOUS
<1>2. written \in Nat /\ R \subseteq 1..written /\ createdAt \in [1..written -> Int]
  BY <1>1, RowsAre DEF OfTenant
<1>3. Rank(i, R) \in Nat /\ Rank(i, R) <= Cardinality(R) /\ Cardinality(R) \in Nat
  BY <1>1, <1>2, RankIs, FrontIsCounted
<1> QED BY <1>1, <1>3

\* A page that follows on what was read, or that is the first.
LEMMA FetchKeeps ==
    ASSUME LogPagesInv, RetentionInv', UNCHANGED <<rows, createdAt, written, purge, tenantOfRow>>,
           NEW t, NEW page \in Nat, NEW began, NEW shown, began \subseteq 1..written,
           \A i \in began : tenantOfRow[i] = t,
           reading' = [tenant |-> t, page |-> page, total |-> Cardinality(OfTenant(t)), began |-> began, seen |-> shown],
           Slice(OfTenant(t), PageOffset(page)) \subseteq shown,
           \A i \in began \ shown : i \notin rows => createdAt[i] < oldest',
           \A i \in (began \ shown) \cap rows : Rank(i, OfTenant(t)) <= page * LogsPerPage => ~(1 <= Rank(i, OfTenant(t))) \/ createdAt[i] < oldest'
    PROVE  UnseenIsBehind' /\ PagesMissNothing'
<1>1. /\ reading'.tenant = t /\ reading'.page = page /\ reading'.total = Cardinality(OfTenant(t))
      /\ reading'.began = began /\ reading'.seen = shown
  OBVIOUS
<1>2. Unseen' = began \ shown /\ OfTenant(t)' = OfTenant(t)
  BY <1>1 DEF Unseen, OfTenant
<1>3. \A i : Rank(i, OfTenant(t))' = Rank(i, OfTenant(t))
  BY <1>2 DEF Rank, Before
<1>4. ASSUME NEW i \in (began \ shown) \cap rows, Rank(i, OfTenant(t)) <= (page + 1) * LogsPerPage PROVE createdAt[i] < oldest'
  <2>1. i \in OfTenant(t)
    BY <1>4 DEF OfTenant
  <2>2. i \notin Slice(OfTenant(t), PageOffset(page))
    BY <1>4
  <2>3. Rank(i, OfTenant(t)) <= page * LogsPerPage /\ 1 <= Rank(i, OfTenant(t))
    BY <1>4, <2>1, <2>2, FetchedPageIsWhole DEF LogPagesInv
  <2> QED BY <1>4, <2>3
<1>5. ASSUME ~HasNextPage(reading'), NEW i \in began \ shown PROVE createdAt[i] < oldest'
  <2>1. CASE i \notin rows
    BY <1>5, <2>1
  <2>2. CASE i \in rows
    <3>1. i \in OfTenant(t)
      BY <1>5, <2>2 DEF OfTenant
    <3>2. Rank(i, OfTenant(t)) \in Nat /\ Rank(i, OfTenant(t)) <= Cardinality(OfTenant(t)) /\ Cardinality(OfTenant(t)) \in Nat
      BY <3>1, NothingIsBehindTheLast DEF LogPagesInv
    <3>3. (page + 1) * LogsPerPage \in Nat /\ ~((page + 1) * LogsPerPage < Cardinality(OfTenant(t)))
      BY <1>1, <1>5, LogPagesAssumption DEF HasNextPage
    <3>4. Rank(i, OfTenant(t)) <= (page + 1) * LogsPerPage
      BY <3>2, <3>3
    <3> QED BY <1>4, <1>5, <2>2, <3>4
  <2> QED BY <2>1, <2>2
<1>6. UnseenIsBehind'
  <2>1. \A i \in Unseen' \cap rows' :
          Rank(i, OfTenant(reading.tenant))' <= (reading'.page + 1) * LogsPerPage => createdAt'[i] < oldest'
    <3> SUFFICES ASSUME NEW i \in (began \ shown) \cap rows, Rank(i, OfTenant(reading.tenant))' <= (page + 1) * LogsPerPage
                 PROVE  createdAt[i] < oldest'
      BY <1>1, <1>2
    <3>1. Rank(i, OfTenant(reading.tenant))' = Rank(i, OfTenant(t))
      BY <1>1, <1>2, <1>3 DEF Rank, Before, OfTenant
    <3> QED BY <1>4, <3>1
  <2>2. \A i \in Unseen' : i \notin rows' => createdAt'[i] < oldest'
    BY <1>2
  <2>3. reading'.began \subseteq 1..written' /\ \A i \in reading'.began : tenantOfRow'[i] = reading'.tenant
    BY <1>1
  <2> QED BY <1>1, <2>1, <2>2, <2>3 DEF UnseenIsBehind
<1>7. PagesMissNothing'
  <2>1. HasNextPage(reading)' = HasNextPage(reading')
    BY DEF HasNextPage
  <2> QED BY <1>1, <1>5, <2>1 DEF PagesMissNothing
<1> QED BY <1>6, <1>7

LEMMA OpensLogKeeps ==
    ASSUME LogPagesInv, RetentionInv', NEW t, OpensLog(t)
    PROVE  LogPagesInv'
<1>1. /\ UNCHANGED <<rows, createdAt, written, purge, tenantOfRow>> /\ reading = NoReading
      /\ oldest' = Max(Cutoffs \cup {-MaxDays})
  BY DEF OpensLog, retentionVars
<1>2. PICK began : began = OfTenant(t)
  OBVIOUS
<1>3. PICK shown : shown = Slice(OfTenant(t), PageOffset(0)) \cup {}
  OBVIOUS
<1>4. reading' = [tenant |-> t, page |-> 0, total |-> Cardinality(OfTenant(t)), began |-> began, seen |-> shown]
  BY <1>2, <1>3 DEF OpensLog, Fetches
<1>5. rows \subseteq 1..written /\ purge \in [Purgers -> Purge \cup {NoPurge}]
  BY RowsAre DEF LogPagesInv
<1>6. began \subseteq rows /\ \A i \in began : tenantOfRow[i] = t
  BY <1>2 DEF OfTenant
<1>7. -MaxDays \in (-MaxDays)..MaxTime
  BY ServiceAssumption, LogRetentionAssumption
<1>8. PICK first : first = -MaxDays
  OBVIOUS
<1>9. /\ oldest' \in (-MaxDays)..MaxTime
      /\ \A p \in Purgers : purge[p] # NoPurge /\ purge[p].stage # "finished" => purge[p].cutoff <= oldest'
  <2>1. Cutoffs = CutoffsOf(purge) /\ first \in (-MaxDays)..MaxTime
    BY <1>7, <1>8 DEF Cutoffs, CutoffsOf
  <2>2. oldest' = Max(CutoffsOf(purge) \cup {first})
    BY <1>1, <1>8, <2>1
  <2> QED BY <1>5, <2>1, <2>2, CutoffsAre
<1>10. ReadingKnowsCutoffs'
  BY <1>1, <1>9 DEF LogPagesInv, ReadingKnowsCutoffs
<1>11. ASSUME NEW i \in (began \ shown) \cap rows, Rank(i, OfTenant(t)) <= 0 * LogsPerPage PROVE ~(1 <= Rank(i, OfTenant(t)))
  <2>1. 0 * LogsPerPage = 0
    BY LogPagesAssumption
  <2>2. Rank(i, OfTenant(t)) \in Nat
    BY <1>2, <1>11, NothingIsBehindTheLast DEF LogPagesInv
  <2> QED BY <1>11, <2>1, <2>2
<1>12. began \subseteq 1..written /\ Slice(OfTenant(t), PageOffset(0)) \subseteq shown /\ 0 \in Nat
  BY <1>3, <1>5, <1>6
<1>13. \A i \in began \ shown : i \notin rows => createdAt[i] < oldest'
  BY <1>6
<1>14. UnseenIsBehind' /\ PagesMissNothing'
  <2>1. PICK page \in Nat : page = 0
    OBVIOUS
  <2> QED BY <1>1, <1>4, <1>6, <1>11, <1>12, <1>13, <2>1, FetchKeeps
<1> QED BY <1>10, <1>14 DEF LogPagesInv

LEMMA TurnsPageKeeps ==
    ASSUME LogPagesInv, RetentionInv', TurnsPage
    PROVE  LogPagesInv'
<1>1. /\ UNCHANGED <<rows, createdAt, written, purge, tenantOfRow, oldest>> /\ reading # NoReading
      /\ reading' = Fetches(reading.tenant, reading.page + 1)
  BY DEF TurnsPage, retentionVars
<1>2. PICK t : t = reading.tenant
  OBVIOUS
<1>3. /\ reading.page \in Nat /\ reading.began \subseteq 1..written
      /\ \A i \in reading.began : tenantOfRow[i] = t
      /\ \A i \in Unseen : i \notin rows => createdAt[i] < oldest
      /\ \A i \in Unseen \cap rows : Rank(i, OfTenant(t)) <= (reading.page + 1) * LogsPerPage => createdAt[i] < oldest
  BY <1>1, <1>2 DEF LogPagesInv, UnseenIsBehind
<1>4. PICK page \in Nat : page = reading.page + 1
  BY <1>3
<1>5. PICK began : began = reading.began
  OBVIOUS
<1>6. PICK shown : shown = Slice(OfTenant(t), PageOffset(page)) \cup reading.seen
  OBVIOUS
<1>7. page # 0
  BY <1>3, <1>4
<1>8. reading' = [tenant |-> t, page |-> page, total |-> Cardinality(OfTenant(t)), began |-> began, seen |-> shown]
  BY <1>1, <1>2, <1>4, <1>5, <1>6, <1>7 DEF Fetches
<1>9. began \ shown \subseteq Unseen
  BY <1>5, <1>6 DEF Unseen
<1>10. \A i \in began \ shown : i \notin rows => createdAt[i] < oldest'
  BY <1>1, <1>3, <1>9
<1>11. \A i \in (began \ shown) \cap rows : Rank(i, OfTenant(t)) <= page * LogsPerPage => ~(1 <= Rank(i, OfTenant(t))) \/ createdAt[i] < oldest'
  BY <1>1, <1>3, <1>4, <1>9
<1>12. began \subseteq 1..written /\ (\A i \in began : tenantOfRow[i] = t) /\ Slice(OfTenant(t), PageOffset(page)) \subseteq shown
  BY <1>3, <1>5, <1>6
<1>13. UnseenIsBehind' /\ PagesMissNothing'
  BY <1>1, <1>8, <1>10, <1>11, <1>12, FetchKeeps
<1>14. ReadingKnowsCutoffs'
  BY <1>1 DEF LogPagesInv, ReadingKnowsCutoffs
<1> QED BY <1>13, <1>14 DEF LogPagesInv

LEMMA ClosesLogKeeps ==
    ASSUME LogPagesInv, RetentionInv', ClosesLog
    PROVE  LogPagesInv'
<1>1. /\ UNCHANGED <<rows, createdAt, written, purge, tenantOfRow>> /\ reading' = NoReading /\ oldest' = -MaxDays
  BY DEF ClosesLog, retentionVars
<1>2. oldest' \in (-MaxDays)..MaxTime
  BY <1>1, ServiceAssumption, LogRetentionAssumption
<1>3. ReadingKnowsCutoffs'
  BY <1>1, <1>2 DEF LogPagesInv, ReadingKnowsCutoffs
<1> QED BY <1>1, <1>3 DEF LogPagesInv, UnseenIsBehind, PagesMissNothing

\* What a purge selects and deletes is as old as it says.
LEMMA PurgesTakeWhatIsOld ==
    ASSUME LogPagesInv, NEW p \in Purgers, StartsPurge(p) \/ SelectsIds(p) \/ DeletesIds(p) \/ PurgeFails(p)
    PROVE  /\ UNCHANGED <<createdAt, written>> /\ rows' \subseteq rows
           /\ reading # NoReading => \A i \in rows \ rows' : createdAt[i] < oldest
           /\ \A q \in Purgers : purge'[q] # NoPurge =>
                 \A i \in purge'[q].ids : i \in 1..written /\ createdAt[i] < purge'[q].cutoff /\ purge'[q].stage = "delete"
<1>1. /\ rows \subseteq 1..written /\ purge \in [Purgers -> Purge \cup {NoPurge}] /\ written \in Nat
      /\ purge[p] # NoPurge => purge[p] \in Purge
      /\ createdAt \in [1..written -> Int] /\ oldest \in Int
  BY RowsAre DEF LogPagesInv, ReadingKnowsCutoffs
<1>2. \A q \in Purgers : purge[q] # NoPurge =>
          \A i \in purge[q].ids : i \in 1..written /\ createdAt[i] < purge[q].cutoff /\ purge[q].stage = "delete"
  BY DEF LogPagesInv, ReadingKnowsCutoffs
<1>3. CASE StartsPurge(p)
  <2>1. purge' = [purge EXCEPT ![p] = [cutoff |-> now - days, stage |-> "select", ids |-> {}, deleted |-> 0]]
    BY <1>3 DEF StartsPurge
  <2>2. UNCHANGED <<rows, createdAt, written>>
    BY <1>3 DEF StartsPurge
  <2>3. purge'[p].ids = {} /\ \A q \in Purgers : q # p => purge'[q] = purge[q]
    BY <1>1, <2>1
  <2> QED BY <1>2, <2>2, <2>3
<1>4. CASE SelectsIds(p)
  <2>1. PICK E : E = Expired(purge[p].cutoff)
    OBVIOUS
  <2>2. purge' = [purge EXCEPT ![p].stage = "delete", ![p].ids = Chunk(E)]
    BY <1>4, <2>1 DEF SelectsIds
  <2>3. UNCHANGED <<rows, createdAt, written>> /\ purge[p] # NoPurge
    BY <1>4 DEF SelectsIds, Purges
  <2>4. purge'[p].ids = Chunk(E) /\ purge'[p].cutoff = purge[p].cutoff /\ purge'[p].stage = "delete"
    BY <1>1, <2>2, <2>3 DEF Purge
  <2>5. \A q \in Purgers : q # p => purge'[q] = purge[q]
    BY <1>1, <2>2
  <2>6. \A i \in E : i \in 1..written /\ createdAt[i] < purge[p].cutoff
    BY <1>1, <2>1 DEF Expired
  <2>7. Chunk(E) \subseteq E
    BY DEF Chunk
  <2> QED BY <1>2, <2>3, <2>4, <2>5, <2>6, <2>7
<1>5. CASE DeletesIds(p)
  <2>1. rows' = rows \ purge[p].ids /\ UNCHANGED <<createdAt, written>> /\ purge[p] # NoPurge /\ purge[p].stage = "delete"
    BY <1>5 DEF DeletesIds, Purges
  <2>2. PICK stage, deleted : purge' = [purge EXCEPT ![p].stage = stage, ![p].ids = {}, ![p].deleted = deleted]
    BY <1>5 DEF DeletesIds
  <2>3. purge'[p].ids = {} /\ \A q \in Purgers : q # p => purge'[q] = purge[q]
    BY <1>1, <2>1, <2>2 DEF Purge
  <2>4. reading # NoReading => purge[p].cutoff <= oldest
    BY <2>1 DEF LogPagesInv, ReadingKnowsCutoffs
  <2>5. purge[p].cutoff \in Int
    BY <1>1, <2>1 DEF Purge
  <2>6. \A i \in purge[p].ids : i \in 1..written /\ createdAt[i] \in Int /\ createdAt[i] < purge[p].cutoff
    BY <1>1, <1>2, <2>1
  <2>7. reading # NoReading => \A i \in purge[p].ids : createdAt[i] < oldest
    BY <1>1, <2>4, <2>5, <2>6
  <2>8. rows' \subseteq rows /\ rows \ rows' \subseteq purge[p].ids
    BY <2>1
  <2> QED BY <1>2, <2>1, <2>3, <2>7, <2>8
<1>6. CASE PurgeFails(p)
  <2>1. purge' = [purge EXCEPT ![p] = NoPurge] /\ UNCHANGED <<rows, createdAt, written>>
    BY <1>6 DEF PurgeFails
  <2>2. purge'[p] = NoPurge /\ \A q \in Purgers : q # p => purge'[q] = purge[q]
    BY <1>1, <2>1
  <2> QED BY <1>2, <2>1, <2>2
<1> QED BY <1>3, <1>4, <1>5, <1>6

LEMMA PurgeRunsKeeps ==
    ASSUME LogPagesInv, RetentionInv', NEW p \in Purgers, PurgeRuns(p)
    PROVE  LogPagesInv'
<1>1. StartsPurge(p) \/ SelectsIds(p) \/ DeletesIds(p) \/ PurgeFails(p)
  BY DEF PurgeRuns
<1>2. /\ UNCHANGED <<createdAt, written>> /\ rows' \subseteq rows
      /\ reading # NoReading => \A i \in rows \ rows' : createdAt[i] < oldest
      /\ \A q \in Purgers : purge'[q] # NoPurge =>
            \A i \in purge'[q].ids : i \in 1..written /\ createdAt[i] < purge'[q].cutoff /\ purge'[q].stage = "delete"
  BY <1>1, PurgesTakeWhatIsOld
<1>3. reading' = reading /\ tenantOfRow' = tenantOfRow /\ (reading = NoReading => oldest' = oldest)
  BY DEF PurgeRuns
<1>4. oldest \in (-MaxDays)..MaxTime /\ written \in Nat /\ rows \subseteq 1..written /\ createdAt \in [1..written -> Int]
  BY RowsAre DEF LogPagesInv, ReadingKnowsCutoffs
<1>5. PICK f : f = purge'
  OBVIOUS
<1>6. f \in [Purgers -> Purge \cup {NoPurge}]
  BY <1>5 DEF RetentionInv, LogRetentionTypeOK
<1>7. PICK t \in (-MaxDays)..MaxTime : t = oldest
  BY <1>4
<1>8. reading # NoReading =>
          /\ oldest' \in (-MaxDays)..MaxTime /\ oldest <= oldest'
          /\ \A q \in Purgers : f[q] # NoPurge /\ f[q].stage # "finished" => f[q].cutoff <= oldest'
  <2>1. Cutoffs' = CutoffsOf(f)
    BY <1>5 DEF Cutoffs, CutoffsOf
  <2>2. reading # NoReading => oldest' = Max(CutoffsOf(f) \cup {t})
    BY <1>7, <2>1 DEF PurgeRuns
  <2>3. /\ Max(CutoffsOf(f) \cup {t}) \in (-MaxDays)..MaxTime /\ t <= Max(CutoffsOf(f) \cup {t})
        /\ \A q \in Purgers : f[q] # NoPurge /\ f[q].stage # "finished" => f[q].cutoff <= Max(CutoffsOf(f) \cup {t})
    BY <1>6, CutoffsAre
  <2> QED BY <1>7, <2>2, <2>3
<1>9. oldest' \in (-MaxDays)..MaxTime
  BY <1>3, <1>4, <1>8
<1>10. ReadingKnowsCutoffs'
  BY <1>2, <1>3, <1>5, <1>8, <1>9 DEF ReadingKnowsCutoffs
<1>11. oldest \in Int /\ oldest' \in Int
  BY <1>4, <1>9
<1>12. reading # NoReading => \A i \in rows \ rows' : createdAt[i] < oldest'
  <2>1. \A i \in rows : createdAt[i] \in Int
    BY <1>4
  <2> QED BY <1>2, <1>8, <1>11, <2>1
<1>13. UnseenIsBehind' /\ PagesMissNothing'
  <2>1. rows' \cap (1..written) \subseteq rows /\ written <= written' /\ (reading # NoReading => oldest <= oldest')
    BY <1>2, <1>4, <1>8
  <2> QED BY <1>2, <1>3, <1>11, <1>12, <2>1, ComingAndGoingKeeps DEF LogPagesInv
<1> QED BY <1>10, <1>13 DEF LogPagesInv

LEMMA LogPagesStep ==
    ASSUME LogPagesInv, [LogPagesNext]_pageVars
    PROVE  LogPagesInv'
<1>1. RetentionInv'
  BY RetentionGoesOn, RetentionStep DEF LogPagesInv
<1>2. CASE UNCHANGED pageVars
  BY <1>1, <1>2, RowsStayKeeps DEF pageVars, retentionVars
<1>3. CASE PagesMeanwhile
  BY <1>1, <1>3, RowsStayKeeps DEF PagesMeanwhile, RetentionTick, SetsDays
<1>4. ASSUME NEW u \in Users, LosesSeat(u) PROVE LogPagesInv'
  BY <1>1, <1>4, RowsStayKeeps DEF LosesSeat, retentionVars
<1> QED BY <1>1, <1>2, <1>3, <1>4, OpensLogKeeps, TurnsPageKeeps, ClosesLogKeeps, WritesEventKeeps, PurgeRunsKeeps
        DEF LogPagesNext

\* Whoever turns the pages of a log to the last has been shown every row that was there
\* when they began, but for those that a purge was after meanwhile, for any number of
\* rows, of purges and of rows to a page.
THEOREM LogPagesAreWhole == LogPagesSpec => []PagesMissNothing
<1>1. LogPagesInv => PagesMissNothing
  BY DEF LogPagesInv
<1> QED BY LogPagesInitInv, LogPagesStep, <1>1, PTL DEF LogPagesSpec

=============================================================================
