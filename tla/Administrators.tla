--------------------------- MODULE Administrators ---------------------------
(***************************************************************************)
(* Moving permissions inside one tenant: the admin endpoints for users and  *)
(* roles, behind the gates of authority_guard.                              *)
(*                                                                          *)
(* A request judges what it sees: the permissions in its access token, which *)
(* nobody takes back before it expires, and the snapshot its transaction     *)
(* reads (MariaDB's default, REPEATABLE READ).  Its own writes it sees       *)
(* flushed; those of the requests beside it, never.  get_db commits later.  *)
(*                                                                          *)
(* Operators are the people who act here; the others hold roles and stay     *)
(* away.  An operator who sets somebody's password can sign in as them.     *)
(***************************************************************************)
EXTENDS Naturals

CONSTANTS
    Users, Roles, Perms,
    Shared,                  \* the roles that are templates of every tenant
    UserManage, RoleManage,  \* the permissions the endpoints ask for
    Operators,
    FirstDb,                 \* the database the operators find
    Requests,                \* requests that can be in flight together
    MaxRequests,             \* bound on the requests that get through the gates
    NoToken, NoTx

\* ADMINISTRATION_CORE
Core == {UserManage, RoleManage}

\* Rows, table by table; reach is the accounts whose password_hash an operator knows.
Database == [people: SUBSET Users, active: SUBSET Users, reach: SUBSET Users,
             defined: SUBSET Roles, holds: SUBSET (Users \X Roles),
             grants: SUBSET (Roles \X Perms)]

RolesOf(d, u) == {role \in Roles : <<u, role>> \in d.holds}
PermissionsOf(d, roles) == {p \in Perms : \E role \in roles : <<role, p>> \in d.grants}
PermsOf(d, u) == PermissionsOf(d, RolesOf(d, u))

\* The foreign keys of user_roles and role_permissions.
Consistent(d) ==
    /\ d.active \subseteq d.people /\ d.reach \subseteq d.people
    /\ d.holds \subseteq d.people \X d.defined
    /\ d.grants \subseteq d.defined \X Perms

\* Variant: those who were stopped are counted as well.
AdministratorsAtAll(d) == {u \in d.people : Core \subseteq PermsOf(d, u)}

\* count_active_administrators counts these.
Administrators(d) == {u \in d.active : Core \subseteq PermsOf(d, u)}

None == [people |-> {}, active |-> {}, reach |-> {}, defined |-> {}, holds |-> {}, grants |-> {}]

Change == [plus: Database, minus: Database]
Token == [scope: SUBSET Perms]
Tx == [actor: Users, change: Change, alone: BOOLEAN]

ASSUME PermsAssumption == Core \subseteq Perms /\ Shared \subseteq Roles /\ MaxRequests \in Nat
ASSUME OperatorsAssumption == Operators \subseteq Users
ASSUME NullsAssumption == NoToken \notin Token /\ NoTx \notin Tx
ASSUME FirstDbAssumption ==
    /\ FirstDb \in Database /\ Consistent(FirstDb)
    /\ FirstDb.reach = Operators
    /\ Administrators(FirstDb) # {}

VARIABLES
    db,         \* what is committed
    ids,        \* the identifiers of users and roles ever handed out
    token,      \* Users -> the access token they have, or NoToken
    tx,         \* Requests -> the change judged and flushed but not committed, or NoTx
    served,     \* the requests that got through the gates, bounded
    overlapped  \* history: some request judged a database that was not the one it changed

vars == <<db, ids, token, tx, served, overlapped>>

TypeOK ==
    /\ db \in Database /\ Consistent(db)
    /\ ids \in [users: SUBSET Users, roles: SUBSET Roles]
    /\ db.people \subseteq ids.users /\ db.defined \subseteq ids.roles
    /\ token \in [Users -> Token \cup {NoToken}]
    /\ tx \in [Requests -> Tx \cup {NoTx}]
    /\ served \in Nat
    /\ overlapped \in BOOLEAN

Init ==
    /\ db = FirstDb
    /\ ids = [users |-> FirstDb.people, roles |-> FirstDb.defined]
    /\ token = [u \in Users |-> NoToken]
    /\ tx = [r \in Requests |-> NoTx]
    /\ served = 0
    /\ overlapped = FALSE

-----------------------------------------------------------------------------
(* The gates.                                                               *)

Apply(d, c) ==
    [people |-> (d.people \ c.minus.people) \cup c.plus.people,
     active |-> (d.active \ c.minus.active) \cup c.plus.active,
     reach |-> (d.reach \ c.minus.reach) \cup c.plus.reach,
     defined |-> (d.defined \ c.minus.defined) \cup c.plus.defined,
     holds |-> (d.holds \ c.minus.holds) \cup c.plus.holds,
     grants |-> (d.grants \ c.minus.grants) \cup c.plus.grants]

Can(a, p) == token[a] # NoToken /\ p \in token[a].scope

EnsureWithinAuthority(a, required) == required \subseteq token[a].scope

Changed(before, after) == (before \ after) \cup (after \ before)

\* Variant: whoever may manage users may write to any of them.
MayTouchAnyone(a, u) == TRUE

\* Somebody with more permissions is out of reach; oneself is not.
MayTouch(a, u) == u # a => EnsureWithinAuthority(a, PermsOf(db, u))

\* Variant: the count leaves is_active out.
EnsureSomebodyHoldsTheCore(c) == AdministratorsAtAll(Apply(db, c)) # {}

EnsureAnAdministratorRemains(c) == Administrators(Apply(db, c)) # {}

Open(r, a, c) ==
    /\ served < MaxRequests /\ served' = served + 1
    /\ tx' = [tx EXCEPT ![r] = [actor |-> a, change |-> c, alone |-> TRUE]]

-----------------------------------------------------------------------------
(* The endpoints, up to the end of the handler: read, judge, flush, count.  *)

\* PUT /api/admin/users/{user_id}: roles, is_active and password in one body; what
\* the body leaves out keeps its value.
UpdateUser(r, a, u, roles, on, resets) ==
    LET before == RolesOf(db, u)
        c == [plus |-> [None EXCEPT !.holds = {u} \X (roles \ before),
                                    !.active = IF on THEN {u} \ db.active ELSE {},
                                    !.reach = IF resets THEN {u} ELSE {}],
              minus |-> [None EXCEPT !.holds = {u} \X (before \ roles),
                                     !.active = IF on THEN {} ELSE {u} \cap db.active]]
    IN
    /\ Can(a, UserManage)
    /\ u \in db.people /\ roles \subseteq db.defined
    /\ MayTouch(a, u)
    /\ c.minus.active # {} => u # a
    /\ roles # before => u # a
    /\ EnsureWithinAuthority(a, Changed(PermsOf(db, u), PermissionsOf(db, roles)))
    /\ EnsureAnAdministratorRemains(c)
    /\ Open(r, a, c)
    /\ UNCHANGED <<db, ids, token, overlapped>>

\* POST /api/admin/users
CreateUser(r, a, u, roles) ==
    /\ Can(a, UserManage)
    /\ u \notin ids.users /\ roles \subseteq db.defined
    /\ EnsureWithinAuthority(a, PermissionsOf(db, roles))
    /\ ids' = [ids EXCEPT !.users = @ \cup {u}]
    /\ Open(r, a, [minus |-> None,
                   plus |-> [None EXCEPT !.people = {u}, !.active = {u}, !.reach = {u},
                                         !.holds = {u} \X roles]])
    /\ UNCHANGED <<db, token, overlapped>>

\* DELETE /api/admin/users/{user_id}
DeleteUser(r, a, u) ==
    LET c == [plus |-> None,
              minus |-> [None EXCEPT !.people = {u}, !.active = {u}, !.reach = {u},
                                     !.holds = {u} \X RolesOf(db, u)]]
    IN
    /\ Can(a, UserManage)
    /\ u \in db.people /\ u # a
    /\ EnsureWithinAuthority(a, PermsOf(db, u))
    /\ EnsureAnAdministratorRemains(c)
    /\ Open(r, a, c)
    /\ UNCHANGED <<db, ids, token, overlapped>>

\* POST /api/admin/roles
CreateRole(r, a, role, perms) ==
    /\ Can(a, RoleManage)
    /\ role \notin ids.roles \cup Shared
    /\ EnsureWithinAuthority(a, perms)
    /\ ids' = [ids EXCEPT !.roles = @ \cup {role}]
    /\ Open(r, a, [minus |-> None,
                   plus |-> [None EXCEPT !.defined = {role}, !.grants = {role} \X perms]])
    /\ UNCHANGED <<db, token, overlapped>>

\* PUT /api/admin/roles/{role_id}
UpdateRole(r, a, role, perms) ==
    LET before == PermissionsOf(db, {role})
        c == [plus |-> [None EXCEPT !.grants = {role} \X (perms \ before)],
              minus |-> [None EXCEPT !.grants = {role} \X (before \ perms)]]
    IN
    /\ Can(a, RoleManage)
    /\ role \in db.defined \ Shared
    /\ EnsureWithinAuthority(a, Changed(before, perms))
    /\ EnsureAnAdministratorRemains(c)
    /\ Open(r, a, c)
    /\ UNCHANGED <<db, ids, token, overlapped>>

\* DELETE /api/admin/roles/{role_id}
DeleteRole(r, a, role) ==
    LET before == PermissionsOf(db, {role})
        c == [plus |-> None,
              minus |-> [None EXCEPT !.defined = {role}, !.grants = {role} \X before]]
    IN
    /\ Can(a, RoleManage)
    /\ role \in db.defined \ Shared
    /\ EnsureWithinAuthority(a, before)
    /\ EnsureAnAdministratorRemains(c)
    /\ Open(r, a, c)
    /\ UNCHANGED <<db, ids, token, overlapped>>

Handle(r, a) ==
    \/ \E u \in Users :
         \/ \E roles \in SUBSET Roles :
              \/ \E on, resets \in BOOLEAN : UpdateUser(r, a, u, roles, on, resets)
              \/ CreateUser(r, a, u, roles)
         \/ DeleteUser(r, a, u)
    \/ \E role \in Roles :
         \/ \E perms \in SUBSET Perms : CreateRole(r, a, role, perms) \/ UpdateRole(r, a, role, perms)
         \/ DeleteRole(r, a, role)

-----------------------------------------------------------------------------
(* get_db and the tokens.                                                   *)

\* Variant: no foreign keys, as in SQLite.
CommitUnchecked(r) ==
    /\ tx[r] # NoTx
    /\ db' = Apply(db, tx[r].change)
    /\ tx' = [q \in Requests |->
                IF q = r \/ tx[q] = NoTx THEN NoTx ELSE [tx[q] EXCEPT !.alone = FALSE]]
    /\ overlapped' = (overlapped \/ ~tx[r].alone)
    /\ UNCHANGED <<ids, token, served>>

Commit(r) ==
    /\ tx[r] # NoTx
    /\ Consistent(Apply(db, tx[r].change))
    /\ db' = Apply(db, tx[r].change)
    /\ tx' = [q \in Requests |->
                IF q = r \/ tx[q] = NoTx THEN NoTx ELSE [tx[q] EXCEPT !.alone = FALSE]]
    /\ overlapped' = (overlapped \/ ~tx[r].alone)
    /\ UNCHANGED <<ids, token, served>>

\* A foreign key, a deadlock or a lost connection: nothing of the change stays.
Rollback(r) ==
    /\ tx[r] # NoTx
    /\ tx' = [tx EXCEPT ![r] = NoTx]
    /\ UNCHANGED <<db, ids, token, served, overlapped>>

\* With an active role its permissions only, and none at all if it was taken away meanwhile.
HandToken(u, chosen) ==
    /\ token' = [token EXCEPT ![u] = [scope |-> PermissionsOf(db, RolesOf(db, u) \cap chosen)]]
    /\ UNCHANGED <<db, ids, tx, served, overlapped>>

\* A login or a refresh: somebody active, with a password the operators know.
SignIn(u, chosen) ==
    /\ u \in db.active /\ u \in db.reach
    /\ HandToken(u, chosen)

\* POST /api/auth/switch-role, to a role of one's own or back to all of them.  The
\* token is enough: whether its holder was stopped is not asked.  The end of the
\* sign-in, by a logout or a new password, is in RefreshSessions; here it may be open.
SwitchRole(u, chosen) ==
    /\ token[u] # NoToken /\ u \in db.people
    /\ chosen = Roles \/ chosen \subseteq RolesOf(db, u)
    /\ HandToken(u, chosen)

Expire(u) ==
    /\ token[u] # NoToken
    /\ token' = [token EXCEPT ![u] = NoToken]
    /\ UNCHANGED <<db, ids, tx, served, overlapped>>

Next ==
    \/ \E r \in Requests, a \in Users : tx[r] = NoTx /\ Handle(r, a)
    \/ \E r \in Requests : Commit(r) \/ Rollback(r)
    \/ \E u \in Users :
         \/ \E chosen \in {Roles} \cup {{role} : role \in Roles} :
              SignIn(u, chosen) \/ SwitchRole(u, chosen)
         \/ Expire(u)

Spec == Init /\ [][Next]_vars

-----------------------------------------------------------------------------
(* What the gates promise.                                                  *)

\* Somebody active can always hand out every other permission again
\* (authority_guard: a change that leaves nobody with the core is refused).
AnAdministratorRemains == Administrators(db) # {}

\* ... and whatever the requests, however stale their tokens, as long as no two
\* of them judged the same database (ensure_an_administrator_remains).
LostOnlyByOverlap == overlapped \/ AnAdministratorRemains

\* What their tokens say, and what a new token would: at a login of somebody
\* active, or at a role switch of whoever still holds a token.
Holders == {u \in Users : token[u] # NoToken}
InHands ==
    UNION ({token[u].scope : u \in Holders}
           \cup {PermsOf(db, u) : u \in (db.active \cap db.reach) \cup Holders})

AtFirst == UNION {PermsOf(FirstDb, u) : u \in Operators}

\* Operators who work together, with the roles, users and passwords they may
\* write, with stale tokens and in any interleaving, never come to a permission
\* that none of them had (ensure_within_authority at every endpoint).
NoPermissionFromNowhere == InHands \subseteq AtFirst

\* A request leaves the roles and the standing of the one who sent it alone
\* (ensure_not_yourself: one's own roles, standing and existence cannot be
\* changed from the admin screens).
OwnStandingKept ==
    \A r \in Requests :
        LET a == tx[r].actor IN
        tx[r] # NoTx /\ tx'[r] = NoTx =>
            /\ a \in db'.active <=> a \in db.active
            /\ RolesOf(db', a) = RolesOf(db, a)

NobodyChangesThemselves == [][OwnStandingKept]_vars
=============================================================================
