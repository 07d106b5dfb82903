------------------------ MODULE AdministratorsProofs ------------------------
(***************************************************************************)
(* Proofs about Administrators, for any users, roles and permissions and    *)
(* any number of requests in flight.                                        *)
(*                                                                          *)
(* Every endpoint ends in a change left to commit, so what the endpoints     *)
(* have in common is stated once, in Judged, and proved endpoint by          *)
(* endpoint; the rest of the argument is about changes and commits.          *)
(***************************************************************************)
EXTENDS Administrators, TLAPS

USE PermsAssumption, OperatorsAssumption, FirstDbAssumption, NullsAssumption

\* A change names only identifiers that were handed out.
Identified(c, handed) ==
    /\ c.plus.people \subseteq handed.users
    /\ c.plus.defined \subseteq handed.roles

TxIdentified == \A r \in Requests : tx[r] # NoTx => Identified(tx[r].change, ids)

TypeInv == TypeOK /\ TxIdentified

\* A request that is alone still sees what is committed.
AloneSeesAdministrators ==
    \A r \in Requests :
        tx[r] # NoTx /\ tx[r].alone /\ ~overlapped => Administrators(Apply(db, tx[r].change)) # {}

\* What AtFirst does not hold is out of reach: of the people who have a token or
\* whose password is known, and of the changes on their way.
Within(u) == PermsOf(db, u) \subseteq AtFirst

WithinChange(c) ==
    /\ \A u \in c.plus.reach : Within(u)
    /\ \A u \in Users, role \in Roles :
         <<u, role>> \in c.plus.holds => PermissionsOf(db, {role}) \subseteq AtFirst
    /\ \A role \in Roles, p \in Perms : <<role, p>> \in c.plus.grants => p \in AtFirst

AllWithin ==
    /\ \A u \in Users : token[u] # NoToken => token[u].scope \subseteq AtFirst /\ Within(u)
    /\ \A u \in db.reach : Within(u)
    /\ \A r \in Requests : tx[r] # NoTx => WithinChange(tx[r].change)

-----------------------------------------------------------------------------
(* Changes.                                                                 *)

LEMMA NoneType == None \in Database
BY DEF None, Database

LEMMA ApplyType ==
    ASSUME NEW d \in Database, NEW c \in Change
    PROVE  Apply(d, c) \in Database
BY DEF Database, Change, Apply

\* Adding rows takes the core from nobody.
LEMMA AddingKeepsAdministrators ==
    ASSUME NEW d \in Database, NEW c \in Change, c.minus = None
    PROVE  Administrators(d) \subseteq Administrators(Apply(d, c))
<1>1. /\ d.active \subseteq Apply(d, c).active
      /\ d.holds \subseteq Apply(d, c).holds
      /\ d.grants \subseteq Apply(d, c).grants
  BY DEF Apply, None, Database, Change
<1>2. \A u \in Users : PermsOf(d, u) \subseteq PermsOf(Apply(d, c), u)
  BY <1>1 DEF PermsOf, PermissionsOf, RolesOf
<1> QED
  BY <1>1, <1>2 DEF Administrators, Database

-----------------------------------------------------------------------------
(* The endpoints.                                                           *)

\* What every endpoint leaves behind once it has let a request through.
Judged(r, a, c) ==
    /\ c \in Change
    /\ tx' = [tx EXCEPT ![r] = [actor |-> a, change |-> c, alone |-> TRUE]]
    /\ UNCHANGED <<db, token, overlapped>>
    /\ served' \in Nat
    /\ ids' \in [users: SUBSET Users, roles: SUBSET Roles]
    /\ ids.users \subseteq ids'.users /\ ids.roles \subseteq ids'.roles
    /\ Identified(c, ids')
    /\ Administrators(db) # {} => Administrators(Apply(db, c)) # {}
    /\ AllWithin => WithinChange(c)

LEMMA UpdateUserJudged ==
    ASSUME TypeInv, NEW r \in Requests, NEW a \in Users, NEW u \in Users,
           NEW roles \in SUBSET Roles, NEW on \in BOOLEAN, NEW resets \in BOOLEAN,
           UpdateUser(r, a, u, roles, on, resets)
    PROVE  \E c : Judged(r, a, c)
<1> DEFINE before == RolesOf(db, u)
           c == [plus |-> [None EXCEPT !.holds = {u} \X (roles \ before),
                                       !.active = IF on THEN {u} \ db.active ELSE {},
                                       !.reach = IF resets THEN {u} ELSE {}],
                 minus |-> [None EXCEPT !.holds = {u} \X (before \ roles),
                                        !.active = IF on THEN {} ELSE {u} \cap db.active]]
<1>1. before \in SUBSET Roles
  BY DEF RolesOf
<1>2. c \in Change
  <2> DEFINE started == IF on THEN {u} \ db.active ELSE {}
             stopped == IF on THEN {} ELSE {u} \cap db.active
             reached == IF resets THEN {u} ELSE {}
  <2>1. started \in SUBSET Users /\ stopped \in SUBSET Users /\ reached \in SUBSET Users
    OBVIOUS
  <2>2. {u} \X (roles \ before) \in SUBSET (Users \X Roles)
    OBVIOUS
  <2>3. {u} \X (before \ roles) \in SUBSET (Users \X Roles)
    BY <1>1
  <2> HIDE DEF before, started, stopped, reached
  <2>4. c.plus \in Database
    BY <2>1, <2>2 DEF Database, None
  <2>5. c.minus \in Database
    BY <2>1, <2>3 DEF Database, None
  <2> QED
    BY <2>4, <2>5 DEF Change
<1>3. /\ c.plus.people = {} /\ c.plus.defined = {} /\ c.plus.grants = {}
      /\ c.plus.reach \subseteq {u}
      /\ c.plus.holds = {u} \X (roles \ before)
  BY DEF None
<1>4. /\ Open(r, a, c) /\ UNCHANGED <<db, ids, token, overlapped>>
      /\ EnsureAnAdministratorRemains(c)
      /\ MayTouch(a, u) /\ Can(a, UserManage)
      /\ roles # before => u # a
      /\ EnsureWithinAuthority(a, Changed(PermsOf(db, u), PermissionsOf(db, roles)))
  BY DEF UpdateUser
<1>5. AllWithin => WithinChange(c)
  <2> SUFFICES ASSUME AllWithin PROVE WithinChange(c)
    OBVIOUS
  <2>1. token[a] # NoToken /\ token[a].scope \subseteq AtFirst /\ Within(a)
    BY <1>4 DEF AllWithin, Can
  <2>2. Within(u)
    BY <1>4, <2>1 DEF MayTouch, EnsureWithinAuthority, Within
  <2>3. ASSUME roles # before PROVE PermissionsOf(db, roles) \subseteq AtFirst
    <3>1. Changed(PermsOf(db, u), PermissionsOf(db, roles)) \subseteq AtFirst
      BY <1>4, <2>1 DEF EnsureWithinAuthority
    <3> QED
      BY <2>2, <3>1 DEF Changed, Within
  <2>4. ASSUME NEW v \in Users, NEW role \in Roles, <<v, role>> \in c.plus.holds
        PROVE  PermissionsOf(db, {role}) \subseteq AtFirst
    <3>1. role \in roles \ before
      BY <1>3, <2>4
    <3>2. PermissionsOf(db, {role}) \subseteq PermissionsOf(db, roles)
      BY <3>1 DEF PermissionsOf
    <3> QED
      BY <2>3, <3>1, <3>2
  <2> QED
    BY <1>3, <2>2, <2>4 DEF WithinChange
<1> HIDE DEF c
<1>6. Judged(r, a, c)
  BY <1>2, <1>3, <1>4, <1>5
     DEF Judged, Open, TypeInv, TypeOK, Identified, EnsureAnAdministratorRemains
<1> QED
  BY <1>6

LEMMA CreateUserJudged ==
    ASSUME TypeInv, NEW r \in Requests, NEW a \in Users, NEW u \in Users,
           NEW roles \in SUBSET Roles, CreateUser(r, a, u, roles)
    PROVE  \E c : Judged(r, a, c)
<1> DEFINE c == [minus |-> None,
                 plus |-> [None EXCEPT !.people = {u}, !.active = {u}, !.reach = {u},
                                       !.holds = {u} \X roles]]
<1>1. c \in Change
  BY NoneType DEF Change, Database, None
<1>2. /\ c.plus.people = {u} /\ c.plus.defined = {} /\ c.plus.grants = {}
      /\ c.plus.reach = {u} /\ c.plus.holds = {u} \X roles /\ c.minus = None
  BY DEF None
<1>3. /\ Open(r, a, c) /\ UNCHANGED <<db, token, overlapped>>
      /\ ids' = [ids EXCEPT !.users = @ \cup {u}]
      /\ u \notin ids.users /\ Can(a, UserManage)
      /\ EnsureWithinAuthority(a, PermissionsOf(db, roles))
  BY DEF CreateUser
<1>4. AllWithin => WithinChange(c)
  <2> SUFFICES ASSUME AllWithin PROVE WithinChange(c)
    OBVIOUS
  <2>1. PermissionsOf(db, roles) \subseteq AtFirst
    BY <1>3 DEF AllWithin, Can, EnsureWithinAuthority
  <2>2. Within(u)
    <3>1. RolesOf(db, u) = {}
      BY <1>3 DEF TypeInv, TypeOK, Consistent, RolesOf
    <3> QED
      BY <3>1 DEF Within, PermsOf, PermissionsOf
  <2>3. ASSUME NEW v \in Users, NEW role \in Roles, <<v, role>> \in c.plus.holds
        PROVE  PermissionsOf(db, {role}) \subseteq AtFirst
    <3>1. role \in roles
      BY <1>2, <2>3
    <3> QED
      BY <2>1, <3>1 DEF PermissionsOf
  <2> QED
    BY <1>2, <2>2, <2>3 DEF WithinChange
<1> HIDE DEF c
<1>5. Administrators(db) # {} => Administrators(Apply(db, c)) # {}
  BY <1>1, <1>2, AddingKeepsAdministrators DEF TypeInv, TypeOK
<1>6. Judged(r, a, c)
  BY <1>1, <1>2, <1>3, <1>4, <1>5 DEF Judged, Open, TypeInv, TypeOK, Identified
<1> QED
  BY <1>6

LEMMA DeleteUserJudged ==
    ASSUME TypeInv, NEW r \in Requests, NEW a \in Users, NEW u \in Users, DeleteUser(r, a, u)
    PROVE  \E c : Judged(r, a, c)
<1> DEFINE c == [plus |-> None,
                 minus |-> [None EXCEPT !.people = {u}, !.active = {u}, !.reach = {u},
                                        !.holds = {u} \X RolesOf(db, u)]]
<1>1. c \in Change
  BY NoneType DEF Change, Database, None, RolesOf
<1>2. c.plus = None
  OBVIOUS
<1>3. /\ Open(r, a, c) /\ UNCHANGED <<db, ids, token, overlapped>>
      /\ EnsureAnAdministratorRemains(c)
  BY DEF DeleteUser
<1> HIDE DEF c
<1>4. WithinChange(c)
  BY <1>2 DEF WithinChange, None
<1>5. Judged(r, a, c)
  BY <1>1, <1>2, <1>3, <1>4
     DEF Judged, Open, TypeInv, TypeOK, Identified, None, EnsureAnAdministratorRemains
<1> QED
  BY <1>5

LEMMA CreateRoleJudged ==
    ASSUME TypeInv, NEW r \in Requests, NEW a \in Users, NEW role \in Roles,
           NEW perms \in SUBSET Perms, CreateRole(r, a, role, perms)
    PROVE  \E c : Judged(r, a, c)
<1> DEFINE c == [minus |-> None,
                 plus |-> [None EXCEPT !.defined = {role}, !.grants = {role} \X perms]]
<1>1. c \in Change
  BY NoneType DEF Change, Database, None
<1>2. /\ c.plus.people = {} /\ c.plus.defined = {role} /\ c.plus.grants = {role} \X perms
      /\ c.plus.reach = {} /\ c.plus.holds = {} /\ c.minus = None
  BY DEF None
<1>3. /\ Open(r, a, c) /\ UNCHANGED <<db, token, overlapped>>
      /\ ids' = [ids EXCEPT !.roles = @ \cup {role}]
      /\ Can(a, RoleManage) /\ EnsureWithinAuthority(a, perms)
  BY DEF CreateRole
<1>4. AllWithin => WithinChange(c)
  BY <1>2, <1>3 DEF AllWithin, Can, EnsureWithinAuthority, WithinChange
<1> HIDE DEF c
<1>5. Administrators(db) # {} => Administrators(Apply(db, c)) # {}
  BY <1>1, <1>2, AddingKeepsAdministrators DEF TypeInv, TypeOK
<1>6. Judged(r, a, c)
  BY <1>1, <1>2, <1>3, <1>4, <1>5 DEF Judged, Open, TypeInv, TypeOK, Identified
<1> QED
  BY <1>6

LEMMA UpdateRoleJudged ==
    ASSUME TypeInv, NEW r \in Requests, NEW a \in Users, NEW role \in Roles,
           NEW perms \in SUBSET Perms, UpdateRole(r, a, role, perms)
    PROVE  \E c : Judged(r, a, c)
<1> DEFINE before == PermissionsOf(db, {role})
           c == [plus |-> [None EXCEPT !.grants = {role} \X (perms \ before)],
                 minus |-> [None EXCEPT !.grants = {role} \X (before \ perms)]]
<1>1. c \in Change
  BY NoneType DEF Change, Database, None, PermissionsOf
<1>2. /\ c.plus.people = {} /\ c.plus.defined = {} /\ c.plus.reach = {} /\ c.plus.holds = {}
      /\ c.plus.grants = {role} \X (perms \ before)
  BY DEF None
<1>3. /\ Open(r, a, c) /\ UNCHANGED <<db, ids, token, overlapped>>
      /\ Can(a, RoleManage) /\ EnsureWithinAuthority(a, Changed(before, perms))
      /\ EnsureAnAdministratorRemains(c)
  BY DEF UpdateRole
<1>4. AllWithin => WithinChange(c)
  BY <1>2, <1>3 DEF AllWithin, Can, EnsureWithinAuthority, Changed, WithinChange
<1> HIDE DEF c
<1>5. Judged(r, a, c)
  BY <1>1, <1>2, <1>3, <1>4
     DEF Judged, Open, TypeInv, TypeOK, Identified, EnsureAnAdministratorRemains
<1> QED
  BY <1>5

LEMMA DeleteRoleJudged ==
    ASSUME TypeInv, NEW r \in Requests, NEW a \in Users, NEW role \in Roles, DeleteRole(r, a, role)
    PROVE  \E c : Judged(r, a, c)
<1> DEFINE c == [plus |-> None,
                 minus |-> [None EXCEPT !.defined = {role},
                                        !.grants = {role} \X PermissionsOf(db, {role})]]
<1>1. c \in Change
  BY NoneType DEF Change, Database, None, PermissionsOf
<1>2. c.plus = None
  OBVIOUS
<1>3. /\ Open(r, a, c) /\ UNCHANGED <<db, ids, token, overlapped>>
      /\ EnsureAnAdministratorRemains(c)
  BY DEF DeleteRole
<1> HIDE DEF c
<1>4. WithinChange(c)
  BY <1>2 DEF WithinChange, None
<1>5. Judged(r, a, c)
  BY <1>1, <1>2, <1>3, <1>4
     DEF Judged, Open, TypeInv, TypeOK, Identified, None, EnsureAnAdministratorRemains
<1> QED
  BY <1>5

LEMMA HandleJudged ==
    ASSUME TypeInv, NEW r \in Requests, NEW a \in Users, Handle(r, a)
    PROVE  \E c : Judged(r, a, c)
BY UpdateUserJudged, CreateUserJudged, DeleteUserJudged,
   CreateRoleJudged, UpdateRoleJudged, DeleteRoleJudged DEF Handle

-----------------------------------------------------------------------------
(* The invariants.                                                          *)

LEMMA InitTypeInv == Init => TypeInv
<1> SUFFICES ASSUME Init PROVE TypeInv
  OBVIOUS
<1>1. db \in Database /\ Consistent(db)
  BY DEF Init
<1>2. /\ ids \in [users: SUBSET Users, roles: SUBSET Roles]
      /\ db.people \subseteq ids.users /\ db.defined \subseteq ids.roles
  BY DEF Init, Database
<1> QED
  BY <1>1, <1>2 DEF Init, TypeInv, TypeOK, TxIdentified

LEMMA NextTypeInv == TypeInv /\ [Next]_vars => TypeInv'
<1> SUFFICES ASSUME TypeInv, [Next]_vars PROVE TypeInv'
  OBVIOUS
<1>1. ASSUME NEW r \in Requests, NEW a \in Users, Handle(r, a) PROVE TypeInv'
  <2>1. PICK c : Judged(r, a, c)
    BY <1>1, HandleJudged
  <2>2. [actor |-> a, change |-> c, alone |-> TRUE] \in Tx
    BY <2>1 DEF Judged, Tx
  <2>3. TypeOK'
    BY <2>1, <2>2 DEF Judged, TypeInv, TypeOK
  <2>4. TxIdentified'
    <3> SUFFICES ASSUME NEW q \in Requests, (tx[q] # NoTx)'
                 PROVE  Identified(tx'[q].change, ids')
      BY DEF TxIdentified
    <3>1. CASE q = r
      BY <2>1, <3>1 DEF Judged, TypeInv, TypeOK
    <3>2. CASE q # r
      BY <2>1, <3>2 DEF Judged, TypeInv, TypeOK, TxIdentified, Identified
    <3> QED
      BY <3>1, <3>2
  <2> QED
    BY <2>3, <2>4 DEF TypeInv
<1>2. ASSUME NEW r \in Requests, Commit(r) PROVE TypeInv'
  <2>1. tx[r] \in Tx /\ tx[r].change \in Change /\ Identified(tx[r].change, ids)
    BY <1>2 DEF Commit, TypeInv, TypeOK, TxIdentified, Tx
  <2>2. db' \in Database /\ Consistent(db')
    BY <1>2, <2>1, ApplyType DEF Commit, TypeInv, TypeOK
  <2>3. db'.people \subseteq ids'.users /\ db'.defined \subseteq ids'.roles
    BY <1>2, <2>1 DEF Commit, Apply, Identified, TypeInv, TypeOK
  <2>4. \A q \in Requests :
          tx'[q] = NoTx \/ (tx[q] # NoTx /\ tx'[q] = [tx[q] EXCEPT !.alone = FALSE])
    BY <1>2 DEF Commit
  <2>5. tx' \in [Requests -> Tx \cup {NoTx}]
    <3>1. \A q \in Requests : tx[q] # NoTx => [tx[q] EXCEPT !.alone = FALSE] \in Tx
      BY DEF TypeInv, TypeOK, Tx
    <3> QED
      BY <1>2, <3>1 DEF Commit
  <2>6. TxIdentified'
    BY <1>2, <2>4 DEF Commit, TypeInv, TypeOK, TxIdentified, Tx, Identified
  <2>7. overlapped' \in BOOLEAN
    BY <1>2 DEF Commit
  <2> QED
    BY <1>2, <2>2, <2>3, <2>5, <2>6, <2>7 DEF Commit, TypeInv, TypeOK
<1>3. ASSUME NEW r \in Requests, Rollback(r) PROVE TypeInv'
  BY <1>3 DEF Rollback, TypeInv, TypeOK, TxIdentified
<1>4. ASSUME NEW u \in Users, NEW chosen \in SUBSET Roles, HandToken(u, chosen) PROVE TypeInv'
  BY <1>4 DEF HandToken, TypeInv, TypeOK, TxIdentified, Token, PermissionsOf
<1>5. ASSUME NEW u \in Users, Expire(u) PROVE TypeInv'
  BY <1>5 DEF Expire, TypeInv, TypeOK, TxIdentified
<1>6. ASSUME UNCHANGED vars PROVE TypeInv'
  BY <1>6 DEF vars, TypeInv, TypeOK, TxIdentified
<1> QED
  BY <1>1, <1>2, <1>3, <1>4, <1>5, <1>6 DEF Next, SignIn, SwitchRole

\* Every reachable state is well-typed, and its rows keep the foreign keys.
THEOREM AdministratorsType == Spec => []TypeOK
<1>1. Spec => []TypeInv
  BY InitTypeInv, NextTypeInv, PTL DEF Spec
<1>2. TypeInv => TypeOK
  BY DEF TypeInv
<1> QED
  BY <1>1, <1>2, PTL

-----------------------------------------------------------------------------

AdministratorsInv == LostOnlyByOverlap /\ AloneSeesAdministrators

LEMMA InitAdministrators == Init => AdministratorsInv
BY DEF Init, AdministratorsInv, LostOnlyByOverlap, AnAdministratorRemains, AloneSeesAdministrators

LEMMA NextAdministrators ==
    TypeInv /\ AdministratorsInv /\ [Next]_vars => AdministratorsInv'
<1> SUFFICES ASSUME TypeInv, AdministratorsInv, [Next]_vars PROVE AdministratorsInv'
  OBVIOUS
<1>1. ASSUME NEW r \in Requests, NEW a \in Users, Handle(r, a) PROVE AdministratorsInv'
  <2>1. PICK c : Judged(r, a, c)
    BY <1>1, HandleJudged
  <2>2. LostOnlyByOverlap'
    BY <2>1 DEF Judged, AdministratorsInv, LostOnlyByOverlap, AnAdministratorRemains
  <2>3. AloneSeesAdministrators'
    <3> SUFFICES ASSUME NEW q \in Requests, tx'[q] # NoTx, tx'[q].alone, ~overlapped'
                 PROVE  Administrators(Apply(db', tx'[q].change)) # {}
      BY DEF AloneSeesAdministrators
    <3>1. db' = db /\ ~overlapped
      BY <2>1 DEF Judged
    <3>2. CASE q = r
      <4>1. Administrators(db) # {}
        BY <3>1 DEF AdministratorsInv, LostOnlyByOverlap, AnAdministratorRemains
      <4>2. tx'[q].change = c
        BY <2>1, <3>2 DEF Judged, TypeInv, TypeOK
      <4> QED
        BY <2>1, <3>1, <4>1, <4>2 DEF Judged
    <3>3. CASE q # r
      <4>1. tx'[q] = tx[q]
        BY <2>1, <3>3 DEF Judged, TypeInv, TypeOK
      <4> QED
        BY <3>1, <4>1 DEF AdministratorsInv, AloneSeesAdministrators
    <3> QED
      BY <3>2, <3>3
  <2> QED
    BY <2>2, <2>3 DEF AdministratorsInv
<1>2. ASSUME NEW r \in Requests, Commit(r) PROVE AdministratorsInv'
  <2>1. overlapped' \/ Administrators(db') # {}
    BY <1>2 DEF Commit, AdministratorsInv, AloneSeesAdministrators
  <2>2. LostOnlyByOverlap'
    BY <2>1 DEF LostOnlyByOverlap, AnAdministratorRemains
  <2>3. \A q \in Requests : tx'[q] # NoTx => ~tx'[q].alone
    BY <1>2 DEF Commit, TypeInv, TypeOK, Tx
  <2>4. AloneSeesAdministrators'
    BY <2>3 DEF AloneSeesAdministrators
  <2> QED
    BY <2>2, <2>4 DEF AdministratorsInv
<1>3. ASSUME UNCHANGED <<db, overlapped>>,
             \A q \in Requests : tx'[q] = tx[q] \/ tx'[q] = NoTx
      PROVE  AdministratorsInv'
  BY <1>3 DEF AdministratorsInv, LostOnlyByOverlap, AnAdministratorRemains, AloneSeesAdministrators
<1>4. ASSUME NEW r \in Requests, Rollback(r) PROVE AdministratorsInv'
  BY <1>3, <1>4 DEF Rollback, TypeInv, TypeOK
<1>5. ASSUME NEW u \in Users, NEW chosen \in SUBSET Roles, HandToken(u, chosen)
      PROVE  AdministratorsInv'
  BY <1>3, <1>5 DEF HandToken
<1>6. ASSUME NEW u \in Users, Expire(u) PROVE AdministratorsInv'
  BY <1>3, <1>6 DEF Expire
<1>7. ASSUME UNCHANGED vars PROVE AdministratorsInv'
  BY <1>3, <1>7 DEF vars
<1> QED
  BY <1>1, <1>2, <1>4, <1>5, <1>6, <1>7 DEF Next, SignIn, SwitchRole

\* The last administrator is lost only to requests that judged the same database:
\* one at a time, no request takes the core from everybody, whatever its token.
THEOREM AdministratorRemainsTheorem == Spec => []LostOnlyByOverlap
<1>1. Spec => [](TypeInv /\ AdministratorsInv)
  BY InitTypeInv, NextTypeInv, InitAdministrators, NextAdministrators, PTL DEF Spec
<1>2. AdministratorsInv => LostOnlyByOverlap
  BY DEF AdministratorsInv
<1> QED
  BY <1>1, <1>2, PTL

-----------------------------------------------------------------------------

LEMMA InitAllWithin == Init => AllWithin
<1> SUFFICES ASSUME Init PROVE AllWithin
  OBVIOUS
<1>1. \A u \in db.reach : Within(u)
  BY DEF Init, Within, AtFirst
<1> QED
  BY <1>1 DEF Init, AllWithin

LEMMA NextAllWithin == TypeInv /\ AllWithin /\ [Next]_vars => AllWithin'
<1> SUFFICES ASSUME TypeInv, AllWithin, [Next]_vars PROVE AllWithin'
  OBVIOUS
<1>1. ASSUME NEW r \in Requests, NEW a \in Users, Handle(r, a) PROVE AllWithin'
  <2>1. PICK c : Judged(r, a, c)
    BY <1>1, HandleJudged
  <2>2. db' = db /\ token' = token /\ WithinChange(c)
    BY <2>1 DEF Judged
  <2>3. \A q \in Requests : tx'[q] # NoTx => WithinChange(tx'[q].change)
    BY <2>1, <2>2 DEF Judged, AllWithin, TypeInv, TypeOK
  <2> QED
    BY <2>2, <2>3 DEF AllWithin, WithinChange, Within
<1>2. ASSUME NEW r \in Requests, Commit(r) PROVE AllWithin'
  <2> DEFINE c == tx[r].change
  <2>1. c \in Change /\ WithinChange(c) /\ db' = Apply(db, c)
    BY <1>2 DEF Commit, AllWithin, TypeInv, TypeOK, Tx
  <2>2. ASSUME NEW role \in Roles, PermissionsOf(db, {role}) \subseteq AtFirst
        PROVE  PermissionsOf(db', {role}) \subseteq AtFirst
    BY <2>1, <2>2 DEF Apply, WithinChange, PermissionsOf
  <2>3. ASSUME NEW u \in Users, Within(u) PROVE Within(u)'
    <3> SUFFICES ASSUME NEW role \in Roles, NEW p \in Perms,
                        <<u, role>> \in db'.holds, <<role, p>> \in db'.grants
                 PROVE  p \in AtFirst
      BY DEF Within, PermsOf, PermissionsOf, RolesOf, AtFirst
    <3>1. PermissionsOf(db, {role}) \subseteq AtFirst
      <4>1. CASE <<u, role>> \in db.holds
        BY <2>3, <4>1 DEF Within, PermsOf, PermissionsOf, RolesOf
      <4>2. CASE <<u, role>> \in c.plus.holds
        BY <2>1, <4>2 DEF WithinChange
      <4> QED
        BY <2>1, <4>1, <4>2 DEF Apply
    <3> QED
      BY <2>2, <3>1 DEF PermissionsOf
  <2>4. \A u \in db'.reach : Within(u)'
    <3> SUFFICES ASSUME NEW u \in db'.reach PROVE Within(u)'
      OBVIOUS
    <3>1. u \in Users
      BY <2>1, ApplyType DEF TypeInv, TypeOK, Database
    <3>2. Within(u)
      BY <2>1 DEF Apply, AllWithin, WithinChange
    <3> QED
      BY <2>3, <3>1, <3>2
  <2>5. \A u \in Users :
          token'[u] # NoToken => token'[u].scope \subseteq AtFirst /\ Within(u)'
    BY <1>2, <2>3 DEF Commit, AllWithin
  <2>6. ASSUME NEW q \in Requests, tx'[q] # NoTx PROVE WithinChange(tx[q].change)'
    <3>1. tx[q] # NoTx /\ tx[q] \in Tx /\ tx'[q].change = tx[q].change
      BY <1>2, <2>6 DEF Commit, TypeInv, TypeOK, Tx
    <3>2. WithinChange(tx[q].change) /\ tx[q].change \in Change
      BY <3>1 DEF AllWithin, Tx
    <3>3. \A u \in tx[q].change.plus.reach : u \in Users /\ Within(u)'
      BY <2>3, <3>2 DEF WithinChange, Change, Database
    <3>4. \A u \in Users, role \in Roles : <<u, role>> \in tx[q].change.plus.holds =>
            PermissionsOf(db', {role}) \subseteq AtFirst
      BY <2>2, <3>2 DEF WithinChange
    <3> QED
      BY <3>1, <3>2, <3>3, <3>4 DEF WithinChange
  <2> QED
    BY <2>4, <2>5, <2>6 DEF AllWithin
<1>3. ASSUME NEW r \in Requests, Rollback(r) PROVE AllWithin'
  <2>1. \A q \in Requests : tx'[q] = tx[q] \/ tx'[q] = NoTx
    BY <1>3 DEF Rollback, TypeInv, TypeOK
  <2> QED
    BY <1>3, <2>1 DEF Rollback, AllWithin, WithinChange, Within
<1>4. ASSUME NEW u \in Users, NEW chosen \in SUBSET Roles, SignIn(u, chosen) \/ SwitchRole(u, chosen)
      PROVE  AllWithin'
  <2>0. HandToken(u, chosen)
    BY <1>4 DEF SignIn, SwitchRole
  \* whoever may sign in, and whoever holds a token, has nothing out of reach
  <2>1. Within(u) /\ UNCHANGED <<db, tx>>
    <3>1. CASE SignIn(u, chosen)
      BY <3>1, <2>0 DEF SignIn, HandToken, AllWithin
    <3>2. CASE SwitchRole(u, chosen)
      BY <3>2, <2>0 DEF SwitchRole, HandToken, AllWithin
    <3> QED
      BY <1>4, <3>1, <3>2
  <2>2. token'[u].scope \subseteq AtFirst
    BY <2>0, <2>1 DEF HandToken, TypeInv, TypeOK, Within, PermsOf, PermissionsOf
  <2>3. \A v \in Users : v # u => token'[v] = token[v]
    BY <2>0 DEF HandToken, TypeInv, TypeOK
  <2> QED
    BY <2>1, <2>2, <2>3 DEF AllWithin, WithinChange, Within
<1>5. ASSUME NEW u \in Users, Expire(u) PROVE AllWithin'
  <2>1. \A v \in Users : token'[v] = token[v] \/ token'[v] = NoToken
    BY <1>5 DEF Expire, TypeInv, TypeOK
  <2> QED
    BY <1>5, <2>1 DEF Expire, AllWithin, WithinChange, Within
<1>6. ASSUME UNCHANGED vars PROVE AllWithin'
  BY <1>6 DEF vars, AllWithin, WithinChange, Within
<1> QED
  BY <1>1, <1>2, <1>3, <1>4, <1>5, <1>6 DEF Next

\* Operators never come to a permission none of them had, however many requests
\* overlap and however stale their tokens are.
THEOREM NoPermissionFromNowhereTheorem == Spec => []NoPermissionFromNowhere
<1>1. Spec => [](TypeInv /\ AllWithin)
  BY InitTypeInv, NextTypeInv, InitAllWithin, NextAllWithin, PTL DEF Spec
<1>2. TypeInv /\ AllWithin => NoPermissionFromNowhere
  BY DEF AllWithin, Within, NoPermissionFromNowhere, InHands, Holders, TypeInv, TypeOK, Database
<1> QED
  BY <1>1, <1>2, PTL
=============================================================================
