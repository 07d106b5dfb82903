------------------------------ MODULE Upgrades ------------------------------
(***************************************************************************)
(* What the migrations make of the people and their roles, when a container *)
(* of this build starts on a database that an older build has left behind,  *)
(* or on an empty one.                                                      *)
(*                                                                          *)
(* MariaDB commits with every CREATE or ALTER; what a migration writes after *)
(* the last of them is committed together with its revision.  A migration   *)
(* that ends in between is not taken up again: its tables are there already. *)
(***************************************************************************)
EXTENDS Service, Sequences

CONSTANTS
    DefaultAdmin,   \* the person DEFAULT_ADMIN_EMAIL names
    MaxCrashes,     \* bound of the containers that are killed while they migrate
    NoRun           \* no migration under way

\* The revisions that write rows, in their order; the others only make tables.
Chain == <<"seed_master_data", "seed_audit_permission", "groups_and_notifications",
           "seed_role_templates", "rename_admin_role_to_owner", "tenants",
           "split_system_authority", "notes", "actors_and_roles">>
Newest == Len(Chain)

\* How much of Chain is done once the revision is.
Since(revision) == CHOOSE n \in 1..Newest : Chain[n] = revision

\* Those that make a table first.
MakeTables == {"groups_and_notifications", "tenants", "split_system_authority", "notes"}

\* One code stands for those that are treated alike; "reviewer" is a role of a tenant's own.
SystemPermissions == {"system-settings:view", "system-settings:write", "system:view", "system:manage", "log:view"}
TenantPermissions == {"content-settings:view", "item:write", "audit:view"}
SystemThen == {"admin:system-settings", "system:manage", "log:view"}
TenantThen == {"item:manage", "audit:view", "permission:manage"}
PermissionCodes == SystemPermissions \cup TenantPermissions \cup SystemThen \cup TenantThen

SystemRoles == {"system-admin", "system-support"}
Templates == {"owner", "auditor"} \cup SystemRoles
RoleNames == Templates \cup {"admin", "reviewer"}

RolePermissions == [r \in Templates |->
    CASE r = "owner" -> TenantPermissions
      [] r = "auditor" -> {"audit:view", "content-settings:view"}
      [] r = "system-admin" -> SystemPermissions \cup {"audit:view"}
      [] r = "system-support" -> {"system:view"}]

\* Roles and their permissions, who holds them, who is in a tenant, whose roles are.
Databases == [roles : UNION {[R -> SUBSET PermissionCodes] : R \in SUBSET RoleNames},
              holds : UNION {[P -> SUBSET RoleNames] : P \in SUBSET Users},
              seated : SUBSET Users, handed : SUBSET RoleNames]

ASSUME UpgradesAssumption == DefaultAdmin \in Users /\ MaxCrashes \in Nat /\ NoRun \notin Databases

VARIABLES
    version,    \* alembic_version: how much of Chain is done
    db,         \* what is committed, one of Databases
    made,       \* the revisions whose tables are there
    run,        \* what the migration under way has written, or NoRun
    stuck,      \* a table was there already: every later start fails as well
    served,     \* the server has started
    crashes,
    \* history, read by the properties and by no action:
    before,     \* what the first container found
    recovered   \* whether scripts/seed_master_data.py was run

upgradeVars == <<now, version, db, made, run, stuck, served, crashes, before, recovered>>

People(d) == DOMAIN d.holds

\* The foreign keys hold, in what is committed and in what is being written.
Consistent(d) ==
    /\ DOMAIN d.roles \subseteq RoleNames
    /\ \A r \in DOMAIN d.roles : d.roles[r] \subseteq PermissionCodes
    /\ \A u \in People(d) : d.holds[u] \subseteq DOMAIN d.roles
    /\ d.seated \subseteq People(d) /\ People(d) \subseteq Users
    /\ d.handed \subseteq DOMAIN d.roles

UpgradesTypeOK ==
    /\ version \in 0..Newest
    /\ Consistent(db) /\ (run # NoRun => Consistent(run))
    /\ made \subseteq MakeTables /\ {stuck, served, recovered} \subseteq BOOLEAN
    /\ crashes \in 0..MaxCrashes

-----------------------------------------------------------------------------
(* What the revisions write.                                                *)

\* What is missing is added, nothing is taken away and nobody is made.
Seeded(d) == [d EXCEPT !.roles = [r \in DOMAIN d.roles \cup Templates |->
    (IF r \in DOMAIN d.roles THEN d.roles[r] ELSE {}) \cup (IF r \in Templates THEN RolePermissions[r] ELSE {})]]

AdminEnsured(d) ==
    IF DefaultAdmin \in People(d) THEN d
    ELSE [d EXCEPT !.holds = [u \in People(d) \cup {DefaultAdmin} |->
                                 IF u = DefaultAdmin THEN {"owner"} ELSE d.holds[u]]]

\* Unless somebody has made an owner already -- or a seeding of this build has.
OwnerNamed(d) ==
    IF "owner" \in DOMAIN d.roles \/ "admin" \notin DOMAIN d.roles THEN d
    ELSE LET named(r) == IF r = "admin" THEN "owner" ELSE r
         IN  [d EXCEPT !.roles = [r \in {named(s) : s \in DOMAIN d.roles} |->
                                     d.roles[IF r = "owner" THEN "admin" ELSE r]],
                       !.holds = [u \in People(d) |-> {named(r) : r \in d.holds[u]}]]

EverybodySeated(d) == [d EXCEPT !.seated = People(d)]

\* Judged by the names that were templates then: a later template, which a seeding of
\* this build has made before, is taken for a role of the tenant's own.
CustomHanded(d) == [d EXCEPT !.handed = DOMAIN d.roles \ {"owner", "admin", "auditor", "system-admin"}]

Stripped(d) == [d EXCEPT !.roles = [r \in DOMAIN d.roles |->
                    IF r = "system-admin" THEN d.roles[r] ELSE d.roles[r] \ SystemThen]]

\* Who has nothing but system-admin leaves the tenant; who has more loses it.
Reseated(d) ==
    LET holders == {u \in d.seated : "system-admin" \in d.holds[u]}
        alone == {u \in holders : d.holds[u] = {"system-admin"}}
    IN  [d EXCEPT !.seated = @ \ alone,
                  !.holds = [u \in People(d) |->
                                IF u \in holders \ alone THEN d.holds[u] \ {"system-admin"} ELSE d.holds[u]]]

\* Whoever had the old code has the new one, whether or not that was there already.
\* The variant, which finds it there, only drops the old one.
DroppedOnly(d, old, new) == [d EXCEPT !.roles = [r \in DOMAIN d.roles |-> d.roles[r] \ {old}]]
Renamed(d, old, new) == [d EXCEPT !.roles = [r \in DOMAIN d.roles |->
    IF old \in d.roles[r] THEN (d.roles[r] \ {old}) \cup {new} ELSE d.roles[r]]]

ViewOf == [c \in {"system-settings:write", "system:manage"} |->
              IF c = "system-settings:write" THEN "system-settings:view" ELSE "system:view"]
ViewsGiven(d) == [d EXCEPT !.roles = [r \in DOMAIN d.roles |->
    d.roles[r] \cup {ViewOf[c] : c \in d.roles[r] \cap DOMAIN ViewOf}]]

Without(d, code) == [d EXCEPT !.roles = [r \in DOMAIN d.roles |-> d.roles[r] \ {code}]]

SeedMasterData(d) == AdminEnsured(Seeded(d))
RenameAdminRoleToOwner(d) == Seeded(OwnerNamed(d))
SplitSystemAuthority(d) == Reseated(Stripped(Seeded(CustomHanded(d))))
ActorsAndRoles(d) ==
    LET renamed == Renamed(Renamed(d, "admin:system-settings", "system-settings:write"), "item:manage", "item:write")
    IN  Without(ViewsGiven(Seeded(renamed)), "permission:manage")

WrittenBy(revision, d) ==
    CASE revision = "seed_master_data" -> SeedMasterData(d)
      [] revision = "rename_admin_role_to_owner" -> RenameAdminRoleToOwner(d)
      [] revision = "tenants" -> EverybodySeated(d)
      [] revision = "split_system_authority" -> SplitSystemAuthority(d)
      [] revision = "actors_and_roles" -> ActorsAndRoles(d)
      [] OTHER -> Seeded(d)
-----------------------------------------------------------------------------
(* What older builds have left behind.                                      *)

Stages == {0, Since("seed_master_data"), Since("seed_role_templates"), Since("rename_admin_role_to_owner"), Since("notes")}

\* The roles those builds gave, with what they gave them; a tenant's own role has anything
\* it could be given.
RolesThen(v) ==
    LET split == v >= Since("split_system_authority")
        all == IF split THEN TenantThen ELSE TenantThen \cup SystemThen
        whole == IF v >= Since("rename_admin_role_to_owner") THEN "owner" ELSE "admin"
        grown == IF v >= Since("seed_role_templates") THEN {"system-admin", "auditor"} ELSE {}
        of(r) == CASE r = whole -> all
                   [] r = "system-admin" -> SystemThen \cup {"audit:view"}
                   [] r = "auditor" -> {"audit:view"} \cup (all \cap {"log:view"})
    IN  IF v = 0 THEN {[r \in {} |-> {}]}
        ELSE {[r \in {whole} \cup grown |-> of(r)]}
             \cup {[r \in {whole, "reviewer"} \cup grown |-> IF r = "reviewer" THEN own ELSE of(r)] : own \in SUBSET all}

UpgradesInit ==
    /\ now = 0
    /\ version \in Stages
    /\ \E roles \in RolesThen(version), people \in IF version = 0 THEN {{}} ELSE SUBSET Users :
           \E holds \in [people -> SUBSET DOMAIN roles] :
               db = [roles |-> roles, holds |-> holds,
                     seated |-> IF version < Since("tenants") THEN {}
                                ELSE {u \in people : "system-admin" \notin holds[u]},
                     handed |-> IF version < Since("tenants") THEN {} ELSE DOMAIN roles \cap {"reviewer"}]
    /\ version >= Since("tenants") =>
           \A u \in People(db) : "system-admin" \in db.holds[u] => db.holds[u] = {"system-admin"}
    /\ made = {Chain[n] : n \in 1..version} \cap MakeTables
    /\ run = NoRun /\ stuck = FALSE /\ served = FALSE /\ crashes = 0
    /\ before = [version |-> version, db |-> db] /\ recovered = FALSE

-----------------------------------------------------------------------------
(* A container starts: the migrations, then the server.                     *)

\* The one whose turn it is.
Revision == Chain[version + 1]

\* CREATE TABLE fails if an earlier run has come this far, and the container with it.
BeginRevision ==
    /\ ~served /\ ~stuck /\ run = NoRun /\ version < Newest
    /\ stuck' = (Revision \in made)
    /\ made' = made \cup ({Revision} \cap MakeTables)
    /\ run' = IF Revision \in made THEN NoRun ELSE WrittenBy(Revision, db)
    /\ UNCHANGED <<now, version, db, served, crashes, before, recovered>>

\* The tables of the contents are altered after everybody has got a seat, which
\* commits the seats.
AlterContents ==
    /\ run # NoRun /\ Revision = "tenants" /\ db # run
    /\ db' = run
    /\ UNCHANGED <<now, version, made, run, stuck, served, crashes, before, recovered>>

EndRevision ==
    /\ run # NoRun /\ (Revision = "tenants" => db = run)
    /\ db' = run /\ version' = version + 1 /\ run' = NoRun
    /\ UNCHANGED <<now, made, stuck, served, crashes, before, recovered>>

\* The container is killed; what was not committed is gone.
Killed ==
    /\ run # NoRun /\ crashes < MaxCrashes
    /\ run' = NoRun /\ crashes' = crashes + 1
    /\ UNCHANGED <<now, version, db, made, stuck, served, before, recovered>>

Serve ==
    /\ ~served /\ ~stuck /\ run = NoRun /\ version = Newest
    /\ served' = TRUE
    /\ UNCHANGED <<now, version, db, made, run, stuck, crashes, before, recovered>>

\* scripts/seed_master_data.py: the default administrator is wanted back, and is put
\* into the default tenant if they are in none, whatever they hold.
DefaultAdminSeated(d) == [d EXCEPT !.seated = @ \cup {DefaultAdmin}]

Recover ==
    /\ served
    /\ db' = DefaultAdminSeated(AdminEnsured(Seeded(db)))
    /\ recovered' = TRUE
    /\ UNCHANGED <<now, version, made, run, stuck, served, crashes, before>>

UpgradesNext == BeginRevision \/ AlterContents \/ EndRevision \/ Killed \/ Serve \/ Recover

UpgradesSpec == UpgradesInit /\ [][UpgradesNext]_upgradeVars
-----------------------------------------------------------------------------
(* What the upgrade promises.                                               *)

Powers(d, u) == UNION {d.roles[r] : r \in d.holds[u]}

CalledNow(c) ==
    CASE c = "admin:system-settings" -> "system-settings:write"
      [] c = "item:manage" -> "item:write"
      [] OTHER -> c

\* What somebody had that they are meant to keep: what is system-wide only as
\* system-admin, and that only if they were nothing else.
MeantToKeep(u) ==
    LET was == before.db.holds[u]
        kept == IF was = {"system-admin"} THEN was ELSE was \ {"system-admin"}
    IN  {CalledNow(c) : c \in (UNION {IF r = "system-admin" THEN before.db.roles[r]
                                      ELSE before.db.roles[r] \ SystemThen : r \in kept})
                              \ {"permission:manage"}}

\* From whichever build somebody comes, and wherever containers were killed, they can
\* do afterwards what they could do before, and more only by the templates they hold.
PowersOutlast ==
    version = Newest => \A u \in People(before.db) :
        /\ MeantToKeep(u) \subseteq Powers(db, u)
        /\ Powers(db, u) \subseteq MeantToKeep(u) \cup UNION {RolePermissions[r] : r \in db.holds[u] \cap Templates}

\* Nobody runs the service from within a tenant, and whoever is in none runs it --
\* unless the script that brings the default administrator back has put them there.
NobodyIsBoth ==
    version >= Since("split_system_authority") =>
        \A u \in People(db) :
            IF u \in db.seated
            THEN \/ recovered /\ u = DefaultAdmin
                 \/ Powers(db, u) \cap (SystemPermissions \cup SystemThen) = {}
            ELSE db.holds[u] = {"system-admin"}

\* A revision that is recorded has done all it does, whatever was killed: with the
\* tenants everybody has a seat, and then the roles they made are the default tenant's.
RecordedIsDone ==
    /\ version = Since("tenants") => db.seated = People(db)
    /\ version >= Since("split_system_authority") =>
           /\ DOMAIN before.db.roles \cap {"reviewer"} \subseteq db.handed
           /\ db.handed \cap {"owner", "admin", "auditor", "system-admin"} = {}
    /\ stuck => crashes > 0 /\ ~served

\* A default administrator who was removed stays away, whatever is seeded again.
RemovedStaysRemoved ==
    DefaultAdmin \in People(db) =>
        DefaultAdmin \in People(before.db) \/ before.version = 0 \/ recovered

UpgradesHold == PowersOutlast /\ NobodyIsBoth /\ RecordedIsDone /\ RemovedStaysRemoved
=============================================================================
