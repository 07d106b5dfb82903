---------------------------- MODULE SettingValues ----------------------------
(***************************************************************************)
(* What the settings are worth: the record the admin screen saves, the       *)
(* environment the process was given, the defaults, and what the getters     *)
(* make of them.                                                            *)
(*                                                                          *)
(* A save rewrites the whole record from the one it has read; the script     *)
(* unset_setting.py does the same from a shell.  Some settings are read only *)
(* at the start: saving those answers that a restart is wanted.  How long a  *)
(* worker remembers the record is the subject of SettingsCache.              *)
(***************************************************************************)
EXTENDS Service

CONSTANTS
    Watches,    \* sets of settings, one of which is touched in a behaviour
    Absent,     \* no value: not in the record or the environment, null in a form
    NoSaving,   \* nothing under way
    Production  \* APP_ENV=production

-----------------------------------------------------------------------------
(* One setting of each sort stands for its sort.                            *)

Switches == {"LOCAL_LOGIN_ENABLED", "REFRESH_TOKEN_SLIDING_ENABLED"}
SecretKeys == {"MAIL_PASSWORD"}
AtStart == {"LOG_LEVEL"}
Fields == Switches \cup SecretKeys \cup AtStart \cup {"REFRESH_TOKEN_EXPIRES_SECONDS", "MAIL_SERVER", "OIDC_ISSUER"}
EnvOnly == {"OIDC_ISSUER"}
Names == Fields \cup {"JWT_SECRET_KEY"}   \* the last is not on the screen

Mask == "********"

\* What may be written for a setting: usable values first, then those that are not.
Sayings(k) ==
    CASE k \in Switches -> {"on", "off", "odd"}
      [] k \in SecretKeys -> {"word", "empty", Mask}
      [] k = "LOG_LEVEL" -> {"info", "debug"}
      [] k = "REFRESH_TOKEN_EXPIRES_SECONDS" -> {"day", "ages"}
      [] k = "MAIL_SERVER" -> {"outside", "inside"}
      [] k = "OIDC_ISSUER" -> {"here"}
      [] OTHER -> {"long", "short"}

\* An empty variable counts as none, and nobody deploys the mask.
Deployable(k) == (Sayings(k) \ {"empty", Mask}) \cup {Absent}

Default(k) ==
    CASE k \in Switches -> "on"
      [] k \in SecretKeys \cup {"OIDC_ISSUER"} -> "empty"
      [] k = "LOG_LEVEL" -> "info"
      [] k = "REFRESH_TOKEN_EXPIRES_SECONDS" -> "fortnight"
      [] k = "MAIL_SERVER" -> "outside"
      [] OTHER -> "well_known"

\* A record has values, or none; a save under way has a form, or what the script
\* unsets, and the record it has read.
Values == (UNION {Sayings(k) : k \in Names}) \cup {Absent}
Record == [Names -> Values]
Saving == [form: UNION {[D -> Values] : D \in SUBSET Names}, read: Record, script: BOOLEAN]

ASSUME SettingsAssumption ==
    /\ Production \in BOOLEAN /\ Watches \subseteq SUBSET Names
    /\ Absent \notin UNION {Sayings(k) \cup {Default(k)} : k \in Names}
    /\ NoSaving \notin Saving

\* Values, or none, for the settings of D.
Given(D) == {f \in [D -> (UNION {Sayings(k) : k \in D}) \cup {Absent}] : \A k \in D : f[k] \in Sayings(k) \cup {Absent}}
Saved(f) == [k \in Names |-> IF k \in DOMAIN f THEN f[k] ELSE Absent]
Deployed(f) == [Saved(f) EXCEPT !["JWT_SECRET_KEY"] = IF "JWT_SECRET_KEY" \in DOMAIN f THEN @ ELSE "long"]

VARIABLES
    watched,   \* the settings that are touched
    record,    \* the committed app.config
    env,       \* what the process was started with
    up,        \* the process has started
    running,   \* AtStart -> what was read at the start
    saving,    \* Requests -> what is under way, and the record it has read
    \* history, read by the properties and by no action:
    told,      \* settings of which somebody was told that a restart is wanted
    crossed    \* those of AtStart put back by a save that overlapped the one that changed them

settingVars == <<now, watched, record, env, up, running, saving, told, crossed>>

\* _get: the record is stronger than the environment, except where it is not read.
Resolve(k) ==
    IF k \notin EnvOnly /\ record[k] # Absent THEN record[k]
    ELSE IF env[k] # Absent THEN env[k] ELSE Default(k)

\* Variant: the lifetime is taken as it is; what is saved has been checked.
InForceAsSaved(k) == IF k \in Switches THEN (IF Resolve(k) = "on" THEN "on" ELSE "off") ELSE Resolve(k)

\* get_bool, and the lifetime that goes back to its default when it is unusable.
InForce(k) ==
    CASE k \in Switches -> IF Resolve(k) = "on" THEN "on" ELSE "off"
      [] k = "REFRESH_TOKEN_EXPIRES_SECONDS" -> IF Resolve(k) = "ages" THEN Default(k) ELSE Resolve(k)
      [] OTHER -> Resolve(k)

\* The key tokens are signed with is neither the published default nor short.
FitToStart == Production => InForce("JWT_SECRET_KEY") = "long"

\* The state has its types; a lifetime in force is one the dates can bear.
SettingsTypeOK ==
    /\ watched \in Watches /\ record \in Record /\ env \in Record /\ up \in BOOLEAN
    /\ \A k \in AtStart : running[k] \in Sayings(k)
    /\ \A r \in Requests : saving[r] # NoSaving => saving[r].read \in Record /\ DOMAIN saving[r].form \subseteq watched
    /\ told \subseteq AtStart /\ crossed \subseteq AtStart
    /\ InForce("REFRESH_TOKEN_EXPIRES_SECONDS") \in {"day", "fortnight"}
    /\ \A r \in Requests : saving[r] # NoSaving => up \/ saving[r].script

\* An older version may have saved what would now be refused or is no longer read.
SettingsInit ==
    /\ now = 0 /\ crossed = {} /\ told = {}
    /\ watched \in Watches
    /\ \E f \in Given(watched) : record = Saved(f)
    /\ \E f \in Given(watched) : env = Deployed(f)
    /\ \A k \in Names : record[k] # Mask /\ env[k] \in Deployable(k)
    /\ record["JWT_SECRET_KEY"] = Absent
    /\ up = FitToStart
    /\ running = [k \in AtStart |-> Resolve(k)]
    /\ saving = [r \in Requests |-> NoSaving]

-----------------------------------------------------------------------------
(* The screen.                                                              *)

\* Variant: a text that is not empty is shown as a switch that is on.
ShownAsTruth(k) ==
    IF k \in SecretKeys /\ InForce(k) # "empty" THEN Mask
    ELSE IF k \in Switches THEN "on" ELSE Resolve(k)

\* effective_config.
Shown(k) ==
    IF k \in SecretKeys /\ InForce(k) # "empty" THEN Mask
    ELSE IF k \in Switches THEN InForce(k) ELSE Resolve(k)

\* _ensure_acceptable.
Acceptable(k, v) ==
    /\ k \notin EnvOnly
    /\ k = "MAIL_SERVER" => v # "inside"
    /\ k = "REFRESH_TOKEN_EXPIRES_SECONDS" => v # "ages"
    /\ k = "REFRESH_TOKEN_SLIDING_ENABLED" => v # "odd"

\* SystemSettingService.save, up to its flush.  The form has some settings, each
\* with a new value or, to go back, none.
SavesSettings(r, form) ==
    /\ up /\ saving[r] = NoSaving
    /\ \A k \in DOMAIN form : Acceptable(k, form[k])
    /\ saving' = [saving EXCEPT ![r] = [form |-> form, read |-> record, script |-> FALSE]]
    /\ UNCHANGED <<now, watched, record, env, up, running, told, crossed>>

\* unset_setting.py: one setting that is in the record.
Unsets(r, k) ==
    /\ saving[r] = NoSaving /\ record[k] # Absent
    /\ saving' = [saving EXCEPT ![r] = [form |-> [x \in {k} |-> Absent], read |-> record, script |-> TRUE]]
    /\ UNCHANGED <<now, watched, record, env, up, running, told, crossed>>

\* Variants: the mask is saved; what the screen does not have is saved as well.
TakenWithMasks(f) == DOMAIN f \cap Fields
TakenWithStrangers(f) == {k \in DOMAIN f : ~(k \in SecretKeys /\ f[k] = Mask)}

\* What is taken over of a form: unknown settings are dropped, and so is the
\* mask of a secret that comes back.
Taken(f) == {k \in DOMAIN f \cap Fields : ~(k \in SecretKeys /\ f[k] = Mask)}

\* What the script takes: its one setting, on the screen or not.
TakenBy(s) == IF s.script THEN DOMAIN s.form ELSE Taken(s.form)

Merged(s) == [k \in Names |-> IF k \in TakenBy(s) THEN s.form[k] ELSE s.read[k]]

\* Variant: a setting that is put back to its default needs no restart.
NewValuesNeedRestart(s) == {k \in TakenBy(s) \cap AtStart : s.form[k] # Absent}

\* restart_requirement of what was changed; the script says so of everything.
RestartRequirement(s) == TakenBy(s) \cap AtStart

\* get_db commits.  The first save of all inserts the row.
Commits(r) ==
    LET s == saving[r] IN
    /\ s # NoSaving
    /\ record' = Merged(s)
    /\ told' = told \cup RestartRequirement(s)
    /\ crossed' = (crossed \ TakenBy(s)) \cup {k \in AtStart \ TakenBy(s) : s.read[k] # record[k]}
    /\ saving' = [saving EXCEPT ![r] = NoSaving]
    /\ UNCHANGED <<now, watched, env, up, running>>

RollsBack(r) ==
    /\ saving[r] # NoSaving
    /\ saving' = [saving EXCEPT ![r] = NoSaving]
    /\ UNCHANGED <<now, watched, record, env, up, running, told, crossed>>

\* The container starts anew, with what the operator gives it now; in production it does
\* not start with a key that anybody knows.
StartsAnew(k, given) ==
    /\ env' = [env EXCEPT ![k] = given] /\ UNCHANGED <<now, watched, record>>
    /\ up' = FitToStart'
    /\ running' = [x \in AtStart |-> Resolve(x)']
    /\ saving' = [r \in Requests |-> IF saving[r] = NoSaving \/ saving[r].script THEN saving[r] ELSE NoSaving]
    /\ told' = {} /\ crossed' = {}

SettingsNext ==
    \/ \E r \in Requests : Commits(r) \/ RollsBack(r)
    \/ \E r \in Requests : \E D \in (SUBSET watched) \ {{}} : \E form \in Given(D) : SavesSettings(r, form)
    \/ \E k \in watched : \E given \in Deployable(k) : StartsAnew(k, given)
    \/ \E k \in watched, r \in Requests : Unsets(r, k)

SettingsSpec == SettingsInit /\ [][SettingsNext]_settingVars

-----------------------------------------------------------------------------
(* Properties.                                                              *)

\* The mask the screen shows instead of a secret never becomes the secret,
\* however the page is sent back.
MasksAreNotSecrets == \A k \in SecretKeys : record[k] # Mask

\* A process whose settings have changed under it is one somebody was told to
\* restart, unless two saves overlapped and one put the other's change back.
RestartsAreAskedFor == \A k \in AtStart \ crossed : up /\ running[k] # Resolve(k) => k \in told

\* What runs in production signs with a key that is fit, whatever is saved
\* after the start: the guard looks once.
KeysStayFit == up => FitToStart

\* Sending a page back as it was shown, when nothing changed in between, leaves
\* every setting in force as it was.
PagesAreTrue ==
    [][\A r \in Requests :
          /\ saving[r] # NoSaving /\ saving'[r] = NoSaving /\ record' # record
          /\ ~saving[r].script /\ saving[r].read = record
          /\ \A k \in DOMAIN saving[r].form : saving[r].form[k] = Shown(k)
          => \A k \in Names : InForce(k)' = InForce(k)]_settingVars

\* What is saved is what the administrator wrote, and the pages tell what is in
\* force and what waits for a restart.
SettingsHold == []MasksAreNotSecrets /\ []RestartsAreAskedFor /\ []KeysStayFit /\ PagesAreTrue
=============================================================================
