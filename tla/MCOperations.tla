---------------------------- MODULE MCOperations ----------------------------
(* Small instances of the components around the tenants of the service.  They *)
(* share no state but the clock, so an invariant of one holds in their        *)
(* interleavings exactly if it holds in its own behaviours: the run chooses a *)
(* scene and plays it.                                                        *)
EXTENDS Tenants, SharedNotes, Restarts, LogWrites, LogRetention,
        LatestRelease, RememberedTokens, SettingValues, TLC

VARIABLE scene

\* Of the values of a sort none is special; some sorts share their values, which
\* only makes the group smaller.
Alike == Permutations(Users) \cup Permutations(Requests)

tenantsOnly == <<standing, seats, ownerOf, badges, job, closedAt, slipped, overlapped>>
notesOnly == <<group, nth, note, edit, meant>>
restartsOnly == <<token, worker, parent, restarts, unread, readAt, seen, between>>
logWritesOnly == <<phase, writing, aside, events, logged, audited, emitted, happened, refused>>
retentionOnly == <<rows, createdAt, written, days, purge, reported, unreported, goneBy>>
releaseOnly == <<published, remembered, query, replaced, answers, readings>>
tokensOnly == <<for, kept, caller, deadline, revoked, refusedBy>>
settingsOnly == <<watched, record, env, up, running, saving, told, crossed>>

operationsVars == <<now, tenantsOnly, notesOnly, restartsOnly, logWritesOnly,
                    retentionOnly, releaseOnly, tokensOnly, settingsOnly, scene>>

Scenes == {"tenants", "notes", "restarts", "log writes", "retention", "release", "tokens",
           "settings"}

OperationsInit ==
    /\ TenantsInit /\ NotesInit /\ RestartsInit /\ LogWritesInit
    /\ LogRetentionInit /\ ReleaseInit /\ TokensInit /\ SettingsInit
    /\ scene \in Scenes
    /\ scene # "retention" => days = 0
    /\ scene # "tokens" => for = "pushing"
    /\ scene # "settings" => /\ watched = CHOOSE D \in Watches : TRUE
                             /\ \A k \in Names : record[k] = Absent /\ env[k] \in {Absent, "long"}
                             /\ up
    /\ scene # "tenants" => \A u \in Users : seats[u] = NoSeat \/ seats[u].email = CHOOSE e \in Emails : TRUE

\* Who has a note or is in a group.
Sharing == UNION {MembersOf(g) : g \in Groups} \cup {note[n].owner : n \in {k \in Notes : note[k] # NoNote}}

TenantsScene ==
    /\ scene = "tenants" /\ TenantsNext /\ now' <= 1
    /\ UNCHANGED <<notesOnly, restartsOnly, logWritesOnly, retentionOnly, releaseOnly, tokensOnly,
                   settingsOnly, scene>>

NotesScene ==
    /\ scene = "notes" /\ NotesNext /\ Cardinality(Sharing') <= 2
    /\ UNCHANGED <<tenantsOnly, restartsOnly, logWritesOnly, retentionOnly, releaseOnly, tokensOnly,
                   settingsOnly, scene>>

RestartsScene ==
    /\ scene = "restarts" /\ RestartsNext
    /\ UNCHANGED <<tenantsOnly, notesOnly, logWritesOnly, retentionOnly, releaseOnly, tokensOnly,
                   settingsOnly, scene>>

LogWritesScene ==
    /\ scene = "log writes" /\ LogWritesNext
    /\ UNCHANGED <<tenantsOnly, notesOnly, restartsOnly, retentionOnly, releaseOnly, tokensOnly,
                   settingsOnly, scene>>

RetentionScene ==
    /\ scene = "retention" /\ LogRetentionNext /\ now' <= 2
    /\ UNCHANGED <<tenantsOnly, notesOnly, restartsOnly, logWritesOnly, releaseOnly, tokensOnly,
                   settingsOnly, scene>>

ReleaseScene ==
    /\ scene = "release" /\ ReleaseNext
    /\ UNCHANGED <<tenantsOnly, notesOnly, restartsOnly, logWritesOnly, retentionOnly, tokensOnly,
                   settingsOnly, scene>>

TokensScene ==
    /\ scene = "tokens" /\ TokensNext
    /\ UNCHANGED <<tenantsOnly, notesOnly, restartsOnly, logWritesOnly, retentionOnly, releaseOnly,
                   settingsOnly, scene>>

\* Two saves under way overlap in every way when each has one setting.
OneEach == \A q, r \in Requests :
    q # r /\ saving[q] # NoSaving /\ saving[r] # NoSaving => Cardinality(DOMAIN saving[q].form) = 1

SettingsScene ==
    /\ scene = "settings" /\ SettingsNext /\ OneEach'
    /\ UNCHANGED <<tenantsOnly, notesOnly, restartsOnly, logWritesOnly, retentionOnly, releaseOnly,
                   tokensOnly, scene>>

OperationsNext ==
    \/ TenantsScene \/ NotesScene \/ RestartsScene \/ LogWritesScene
    \/ RetentionScene \/ ReleaseScene \/ TokensScene \/ SettingsScene

OperationsSpec == OperationsInit /\ [][OperationsNext]_operationsVars
-----------------------------------------------------------------------------
\* The rows, requests and workers of every component have their types.
OperationsTypeOK ==
    /\ TenantsTypeOK /\ NotesTypeOK /\ RestartsTypeOK /\ LogWritesTypeOK
    /\ LogRetentionTypeOK /\ ReleaseTypeOK /\ TokensTypeOK /\ SettingsTypeOK
=============================================================================
