# Specifications of fastapitemplate

TLA+ modules for the parts of this application whose correctness depends on
order: requests that overlap, responses that arrive late, transactions that
commit after their response, threads that share a cache, workers that share a
database, containers that are killed. TLC checks small instances, TLAPS proves
the most important properties for every value of the constants. Paths below are
relative to `src/`.

## The system

A FastAPI application on MariaDB (or SQLite) with a React SPA and a mobile app.
Every HTTP request has one database session (`shared/kernel/database/session.py`,
`get_db`): it is committed *after* the handler has returned and the answer has gone
out, or rolled back when it raised. No isolation level is set, so transactions run
under MariaDB's REPEATABLE READ: a request judges a snapshot, an `UPDATE` or
`DELETE` sees what is committed. Several worker processes of several threads serve
requests; they share the database only.

| Component | State | Operations | Interacts with | Hard |
|---|---|---|---|---|
| Sign-ins: `presentation/fastapi/services/refresh_sessions.py`, `token_service.py`, `session_cookies.py`, `routers/auth.py`, `dependencies/auth.py` | `refresh_sessions` (one row per sign-in), `user_session_boundaries`, the signed tokens, the browser's cookies | login, refresh, switch-role, logout, change-password; gates; a purge at each login | the SPA (many tabs, one cookie jar), settings, SSO | two tabs with one token, late tabs, lost or reordered responses, a token verified before and written after somebody else's change, tokens that outlive what they were given |
| Administration: `routers/admin/users.py`, `roles.py`, `authority_guard.py`, `shared/domain/auth/authority.py`, `shared/infrastructure/administrator_census.py` | users, roles, `user_roles`, `role_permissions`; permissions in tokens | create, update, delete | sign-ins | check-then-act in two snapshots, permissions in old tokens, chains of legal requests |
| Settings: `shared/kernel/settings/settings.py`, `services/system_setting_service.py`, `scripts/unset_setting.py` | the record `app.config`, the environment; per worker `_payload`, `_expires_at`, `_unreadable`, `_lock` | get, save, invalidate, unset | everything reads it | an unlocked invalidate, invalidate before commit, masks sent back, settings that are read once |
| Login throttle: `bounded_contexts/account_security/.../throttle_login.py`, `sql_login_attempt_repository.py` | `login_attempts` | require_allowed, record_attempt, record_success, sweep | login, password reset | read, compute and save in three transactions |
| Passkeys and TOTP: `bounded_contexts/account_security` | challenges, credentials, secrets | issue, register, authenticate, delete; start, confirm, disable | login | single use decided by a `DELETE`'s row count and given back by a rollback; columns written over a newer row |
| Password reset and invitation: `services/password_reset_service.py` | `password_reset_tokens` | request, invite, reset, purge | sign-ins | `used_at` read and later set |
| Identity federation: `bounded_contexts/identity_federation` | transactions and tickets, links, `federated_session_revocations`, DPoP `jti`s, cached keys | begin, callback, redeem, back-channel logout, hourly reconciliation, linking, renewal in a frame, machine exchange | sign-ins, the identity provider | a logout during a sign-in, a roster that is stale when applied, trips of several tabs with one cookie, replays |
| Restarts: `shared/kernel/restart` | a request token per scope, each watcher's baseline | request, poll, terminate | the process manager | a baseline that could not be read |
| Audit and logs: `bounded_contexts/audit`, `bounded_contexts/log_viewer`, `shared/kernel/logging`, `middleware/` | records held per request, log tables | hold, drain, purge in batches, page | every request | what is written when a request fails; a write that waits for its own request |
| Tenants and system administrators: `routers/system` | tenants, seats, own roles | create, suspend, resume, delete, designate | administration, sign-ins | the last system administrator, tokens of a suspended tenant |
| Notes and groups | notes, groups, memberships | share, edit, dissolve | | a group's id that is given again |
| Notifications | inboxes, device registrations | send, push, register, sign out | requests' transactions | a push job before the commit, devices that change hands |
| Content settings and items | the content setting's row, items | save, list | | first saves, pages that move |
| App release, e-mail, remembered tokens | caches in a process | ask, fetch, drop | storage, Google, the provider | failures that are remembered, tokens that run out under way |
| Upgrades: `migrations/`, the container's start | every table about people and roles, `alembic_version` | upgrade, seed, recover | administration, tenants | a build of today that runs the steps of yesterday, a container killed between two of them |

Every hazard, at its line and with the properties that cover it, is listed in
`PROJECT.json`.

## Modules

`Service` has what the components share: the users, the requests in flight and the
clock `now`. A module of a component extends it and adds its tables.

| Module | What it is | Code |
|---|---|---|
| `RefreshSessions` | the sign-ins of one local user: rows, tokens, cookie jars, requests in flight, the open transaction of a new sign-in | sign-ins |
| `SignIns` | what they promise, without requests, cookies or time | the promise |
| `AccessGates` | what the access tokens of one person open until they run out, and how new ones are issued from old ones | `dependencies/auth.py`, `token_service.py`, `routers/auth.py` |
| `Administrators` | users, roles and permissions of a tenant, the admin endpoints as transactions on a snapshot, stale tokens | administration |
| `SettingsCache` | the record, the cache of each worker and the threads that read, refresh, save and invalidate | `settings.py` |
| `SettingValues` | what wins of record, environment and default; what a save takes from its form; what waits for a restart | `settings.py`, `system_setting_service.py`, the definitions of the settings |
| `LoginThrottle` | attempts counted for an identifier and a purpose, in three transactions each | `throttle_login.py` |
| `TwoFactor` | one TOTP secret per user, between overlapping requests, and the requirement of one | `manage_totp.py`, `enforce_second_factor` |
| `Passkeys` | challenges, credentials, ceremonies | `manage_passkeys.py`, the two repositories |
| `OneTimeTickets` | what is promised of everything that may be used once | the promise |
| `PasswordLinks` | reset and invitation links | `password_reset_service.py` |
| `SsoSessions` | the sign-ins of a person through the provider: tickets, tokens, stops, the worker's rounds | `sign_in.py`, notices, reconciliation |
| `FederatedLinks` | whose account of the provider is whose, and the other ways in | linking, provisioning, `sign_in_directory.py` |
| `RoundTrips` | a browser's trips to the provider, with its cookies | `router.py`, `session_cookies.py` |
| `DpopProofs` | proofs of possession, noted in the request's transaction | the DPoP checks |
| `SigningKeys` | the provider's keys as one process knows them | `oidc_metadata.py` |
| `MachineTokens` | machines that act as users | the token exchange |
| `Tenants` | who belongs to which tenant, who runs the service from outside | `routers/system`, `tenant_registry.py` |
| `SharedNotes` | notes shared with groups | notes, groups |
| `Notifications` | inboxes, devices, push jobs | notifications |
| `Contents` | the content setting and the pages of the items | content settings, items |
| `Restarts` | request tokens, watchers, the parent process | `shared/kernel/restart` |
| `LogWrites` | rows put aside during a request and written after it | the middleware |
| `LogRetention` | the purge in chunks, by every worker | `sql_expired_log_remover.py` |
| `LogPages` | a log read page by page while rows come and go | log viewer |
| `LatestRelease` | the app's release, remembered | `latest_app_release.py` |
| `RememberedTokens` | access tokens the service gets for itself | FCM, the provider's admin API |
| `Upgrades` | what the migrations make of people and roles, with crashes | `migrations/`, `scripts/seed_master_data.py` |
| `MCRefreshSessions`, `MCAdministrators`, `MCSettingsCache` | instances of one module | |
| `MCAccounts`, `MCFederation`, `MCOperations` | suites: instances of several modules, a scene for each | |
| `RefreshSessionsProofs`, `AdministratorsProofs`, `SettingsCacheProofs`, `AccountsProofs`, `FederationProofs`, `TenantsProofs`, `OperationsProofs`, `MCAccountsProofs` | theorems | |

Operators that a comment calls a *variant* are plausible bugs; no action uses
them. Each property of a passing run has one that TLC finds (`mutants` in
`PROJECT.json`). Variables called history are read by the properties only.

### RefreshSessions

`rows`, `boundary` and `token` are the tables and the claims; `jar` is a browser's
cookies; `req` the request a browser is waiting for; `tx` the transaction that
`get_db` has still to commit. A handler is cut where it reads and later writes:

| Code | Actions |
|---|---|
| `login` | `Login` (row left in `tx`), `Commit` |
| `refresh`, `verify_refresh_token` | `RefreshRefused`, `RefreshReused` (deletes the row and commits at once), `RefreshVerified` |
| `refresh`, `establish_session`, `rotate` | `RefreshWrites` = `Rotate` or `RotateMissed` (commits at once) |
| `switch_role` | `SwitchChecked`, `SwitchWrites` |
| `logout` | `Logout` |
| `change_password` | `PasswordRefused`, `PasswordJudged` (reads the line and the lifetime), `PasswordWrites` (boundary and new row left in `tx`) or `PasswordConflicts` (its insert meets another's), `Commit` |
| `begin`'s purge | part of `Commit` |
| browser and network | `Send`, `Deliver`, `Lose` |

The clock is in whole seconds, like `iat` and `exp`. The refresh and the logout
cookie are set and cleared together and carry the same row and end: one field
`refresh`. Of two changes of the password that overlap, both are judged; the second
one waits at its flush for the row of the user (`UserRowFree`) and then writes the line
it has reckoned, at any time from its judging on, whatever is there by then. In a
reuse, judging and deleting are one action, because a token that
is neither current nor previous never becomes either again. `history` and
`signedIn` are read by the properties only.

Not modelled: the SSO branch, the checks of the tenant and of `is_active`, the
403 of a role the user does not have, waits for row locks other than that of the
user, a failing commit, the sliding setting changing at run time, the mailed reset
(`reset` draws the line as `change_password` does, without a new sign-in).

### Administrators

`db` is what is committed; a request judges it (its snapshot) and leaves its `change` in
`tx`; `Commit` applies it, or `Rollback` drops it. The `Apply` inside
`EnsureAnAdministratorRemains` is the flush before the count: a request counts its own
change and nobody else's. `Commit` requires the foreign keys to hold, which MariaDB checks
on committed rows: deleting a role somebody holds fails (the relation has no cascade).
Unique identifiers are never reused (`ids`). `token` is the access token a user has, with
the permissions of the moment it was issued; it is a gate's only source until it expires.
`db.reach` are the accounts an operator has the password of, by creating them or by setting
it: `SignIn` then gives them a token, as long as they are active. `SwitchRole` renews a
token for who has one, with all roles or one of theirs, and does not ask whether they are
active: neither do `switch_role` and `get_current_session`. `overlapped` is history: some
request committed after another one had committed within its lifetime.

Not modelled: several tenants (every query is scoped to one), seats of the
system, e-mail uniqueness, two-factor state, machine principals, and the ends of
sessions, which bound how long a token can be renewed and can only take
permissions away earlier: here a token that has not expired can always be renewed.

### SettingsCache

Each statement that another thread can come between is an action: `Get` (the test
outside the lock), `TakeLock` (and the test inside), `Load`, `Keep` (the
payload), `Note` (`_unreadable`, and the log line whose handler asks for a
setting), `Finish` (the expiry, lock released), `Serve`; `Save` (reads the record),
`Flush` (takes the row's lock if the record changes), `ClearPayload`,
`ClearExpiry`, `Commit`, `Rollback`. A payload is the set of keys it overrides. The
record's row exists (an insert that meets another fails, as `Rollback`). `LoadTime`
bounds the seconds a refresh holds the lock.

What a value is worth, and what a save takes from its form, is the subject of
`SettingValues`.

### The other modules

They are cut in the same way: a handler is one action up to the point where it has
read what it decides on (its snapshot is kept in the request's record), one for what
it writes, and one for the commit where anything can come between the two. What is
deliberately left out, by module:

- `AccessGates`: the signature and the audience of a token; one person. The role in
  a token is a set of codes.
- `SettingValues`: one setting of each kind stands for its kind (plain, secret, read
  at the start, checked in production, numeric, boolean); the formatting of values.
- `LoginThrottle`: the password check itself.
- `TwoFactor`, `Passkeys`: the codes and signatures; a code is right or wrong. Of the
  workers' settings caches (`SettingsCache` has them step by step), what a request may
  read: the requirement as it is, or either answer within `SettingsAge`, a TTL and a
  load, of the last save of any setting (`MayRead`). A save empties its worker's payload
  before it commits, so that a request beside it may even read the default; a worker
  that cannot read its settings is left out, as in `StaleForOneTtl`.
- `PasswordLinks`: the mail's delivery; a link is mailed or not.
- `SsoSessions`, `RoundTrips`, `FederatedLinks`, `SigningKeys`: the provider is an
  actor that may answer what its protocol allows; its tokens are valid or not.
- `DpopProofs`: the thumbprint; a proof is signed for the key or is not sent.
- `Tenants`, `SharedNotes`, `Contents`: names and texts. An address is given with the
  seat and stays: the edits of one's own profile (`PUT /api/auth/me`) and what a
  provider says at a sign-in (`refresh_profile`) are left out.
- `RememberedTokens`: an answer without `expires_in`, which is taken for a token of
  `_FALLBACK_LIFETIME_SECONDS`, and one whose life is no longer than the margin, which
  `assay_admin_token.py` keeps for a second all the same (`max(..., 1.0)`).
- `Notifications`: a push succeeds, fails or finds the device gone.
- `Restarts`: gunicorn's arbiter, as the end of a worker and of its parent.
- `LogWrites`: what a line says; SQLite's wait for its one writer is a write that
  fails when another request holds the lock.
- `Upgrades`: one code stands for each group of codes that are treated alike; DDL
  commits of its own, the rest of a revision commits with it.

## Runs

| Run | Instance | Checks |
|---|---|---|
| `RefreshTabs` | one browser, two requests at a time, one sign-in, 3 tokens; login, refresh, switch, logout; grace 1 s, access 2 s, period 4 s, clock to 4; responses lost | `TypeOK`, `OnePairPerToken`, `LateTabAccepted`, `WinnersCookieStays`, `EndedStaysEnded`, `ImplementsSignIns` |
| `RefreshPasswords` | two browsers, signed in at 0, with a line drawn before or not, two requests, 4 sign-ins, 4 tokens; login, refresh, switch, password; grace 0, period 2 s, no extension, clock to 3 | `AbsoluteLifetime`, `LeftBehindStays` |
| `Administrators` | 3 users, one operator (owner), 3 roles (one a shared template), 3 permissions, two requests at a time, 3 in all | `TypeOK`, `LostOnlyByOverlap`, `NoPermissionFromNowhere` |
| `Settings` | two threads of one worker, both may save, one key, TTL 2, load 1, clock to 4 | `TypeOK`, `StaleForOneTtl`, `NoNeedlessLoad`, `EveryGetReturns` |
| `accounts` | `MCAccounts`, nine scenes (945,656 states) | `AccountsTypeOK`, `SecondFactorHolds`, `LinksHold`, `ContentsHold`, `PowersHold`, `ThrottleHolds`, `PasskeysHold` |
| `federation` | `MCFederation`, eight scenes (1,351,048 states) | `FederationTypeOK`, `SingleLogoutHolds`, `OneProofOneRequest`, `KeysHold`, `MachinePowersFade`, `TicketsAreTickets`, `FederatedLinksHold`, `RoundTripsHold` |
| `operations` | `MCOperations`, eight scenes (832,787 states) | `OperationsTypeOK`, `SuspensionTakesHold`, `SeatsHold`, `RestartsReachAll`, `LogsHold`, `RetentionHolds`, `ReleaseHolds`, `TokensHold`, `NotesHold`, `SettingsHold` |
| `RefreshGrace` | as `RefreshTabs`, nothing lost | `LateTabAlwaysAccepted` is violated |
| `RefreshLeftAlive` | as `RefreshPasswords`, with extension | `PasswordChangeEndsOthers` is violated |
| `AdministratorsLast` | two owners, both operators | `AnAdministratorRemains` is violated |
| `AdministratorsSelf` | the same | `NobodyChangesThemselves` is violated |
| `SettingsAtOnce` | as `Settings`, clock to 2 | `SavedTakesEffectAtOnce` is violated |

### Suites and their scenes

A suite checks several components in one run. It starts by choosing a *scene*, and
then one component takes all the steps. The components of a suite share no state but
the clock, and each of its properties speaks of one component: a behaviour of all of
them together, looked at through one component's variables, is a behaviour of that
component (with stutters and ticks), so nothing is lost. Where components do share
state in the code, one module has them both: `AccessGates` has logins, roles and
switched-off people, `Tenants` seats and suspension, `FederatedLinks` links and the
other ways in. Properties named `…Hold` are conjunctions of the named parts below.

| Scene | Instance | Smaller than the module, and why that is enough |
|---|---|---|
| throttle | 2 identifiers, 3 attempts in flight, 2 failures to a lock, window and lock 2 s, clock to 2 | a third attempt is what comes after two that overlapped |
| two_factor | 1 user who enrols, 2 secrets, 2 requests, access token 1 s, settings up to 1 s late | users never meet; the clock reaches the end of both seconds |
| passkeys | 2 users, 2 challenges, 1 credential id, 2 requests | two users with one id are the worst case for `OwnerStays` |
| links | 1 user, 2 links, reset 0 s, invitation 1 s | a link replaced by a second one |
| notifications | 2 users, a browser and an app, 1 message | one registration at a time, none once the message is settled: a registration is one transaction, judged by the row it meets |
| gates | 1 person, 2 sign-ins, 1 code, token 1 s, clock to 1 | of the things that go wrong for a sign-in one at a time, one request at a time is answered |
| pages | 3 rows, page of 1, kept 1 day, written up to 1 day late | the third row is the one that moves over the edge of a page |
| contents | 3 items, 3 orders, 2 builds, page of 1 | the setting is saved before there are items, in every order; later only another build changes the order |
| upgrades | 2 users, one of them the default administrator, every older revision, one crash | a tenant's own role has no permission, one or all; the default administrator one role at most. The same without these restrictions (1,221,346 states) was clean as well |
| notices, answers | 1 person, 2 provider sessions, 1 notice, 1 ticket, token and ticket 1 s | the person's sign-ins with what the provider sends, and with what it answers; `Keep` is longer than both lives together, as in the code |
| links | 2 users, 2 provider accounts, 2 requests, addresses alike or not | two requests make every overlap |
| trips to link, trips to go on | 2 users, 2 trips, one browser | a trip and the one that overwrites its cookie |
| proofs | 1 proof sent twice, age 1 s, clock ahead 1 s | a proof meets only itself |
| keys | 2 keys, interval 2, TTL 2, 2 lookups | the key that is there and the one that comes |
| machines | 1 machine, 1 operation, 2 exchanges, token 1 s | operations never meet |
| tenants | 3 users, 1 tenant, 1 own role, 2 addresses, 2 requests, token 1 s, clock to 1 | the tick after a suspension is the end of a token's life |
| notes | 3 users, 2 groups, 3 foundings, 1 note, 2 edits | two of the users at most are in groups or have notes |
| restarts | 3 workers, 2 requests, 1 unreadable row | the request that falls between a worker's settings and its watch, and the next one; the third worker watches while the first two differ |
| log writes | 2 requests | one holds the lock, one waits |
| retention | 2 purgers, 4 rows, chunk of 2, 1 day | two full chunks, deleted from under each other |
| release | 2 requests, 2 releases, 2 s and 1 s remembered, reading 1 s | the release that is replaced while it is read |
| tokens | 2 requests, 3 tokens, life 3, margin 2, exchange 1 | the token after the one that was refused |
| settings | 2 saves, two settings of a kind at a time | two saves under way have one setting each |

Users, requests and the like that a suite treats alike are symmetric (`Alike`),
where no operator picks one of them by `CHOOSE` except to leave others out in the
initial state of other scenes. `CHECK_DEADLOCK FALSE` is set in every run whose
bounds really stop the model: identifiers, rows, served requests and the clock run
out. The settings cache's runs check for deadlock.

### Why the other bounds are enough

- Tabs: a race over a token needs two requests; a third token is needed for a
  rotation after a rotation, which is where a late tab's token falls out of
  `previous_jti`. The clock passes the grace period, the end of an access token
  and the end of a row. One sign-in: rows of different sign-ins meet only in the
  purge and in the password change, which `RefreshPasswords` has.
- Passwords: two browsers, so that one is left behind; a third and a fourth sign-in
  for those that two changes begin, which overlap or follow each other, over a line that
  was there before or not; the clock reaches one second past the period.
- Administrators: two requests make every overlap; three in all let a role be
  widened, handed out and used, or a password be set and used. The same run with
  four requests (964,000 states) was clean as well. The theorems need no bound.
- Settings: one thread refreshes while the other saves, or both do either. A
  second worker differs only in never being invalidated, which a load before the
  commit also brings about. The theorem needs no bound.

### The properties in words

Sign-ins:

- `OnePairPerToken`: of the requests that present the same refresh token, however
  they overlap, one at most gets a new pair.
- `LateTabAccepted`: a token replaced at most a grace period ago is not a reuse,
  unless a role switch has rotated the row since.
- `WinnersCookieStays`: when everything has been answered the browser holds its
  sign-in's current token, whatever the order of the responses, unless that
  token's response was lost or the one it holds was replaced by a role switch. The
  exception is real: a switch presents no token, so it can replace the one a late
  response brings, and that response may be the last to arrive.
- `EndedStaysEnded`: no late request brings an ended sign-in back.
- `ImplementsSignIns`: all of it together behaves like `SignIns`.
- `AbsoluteLifetime`: without extension, no chain of requests outlives the
  entrance by more than the period.
- `LeftBehindStays`: once nothing issued after the line is left of a sign-in, it is handed
  nothing more, and it stays left behind unless the commit of a change sets the line back,
  over one that another change has drawn since it read its own. It is what remains of "a
  password change ends the other sign-ins" (`PasswordChangeEndsOthers`), which the code does
  not keep.
- `PowersHold`, `GatesHold`: who passes the gate for a recent sign-in has signed in
  recently (`RecentMeansSignedIn`); an ended sign-in gets no token any more
  (`EndedLoginsStayEnded`); what the roles no longer permit, no token permits one
  token's life later (`CodesFade`); a person who is switched off has none by then
  (`SwitchedOffMeansOut`). `UpgradesHold`: people can do after an upgrade what they
  could before and what their templates add (`PowersOutlast`), nobody runs the
  service from within a tenant (`NobodyIsBoth`), a recorded revision is done
  (`RecordedIsDone`), and a default administrator who was removed stays away
  (`RemovedStaysRemoved`).

Administration and tenants:

- `NoPermissionFromNowhere`: operators who work together, with roles, new users,
  set passwords, stale tokens and tokens renewed by people who were stopped, never hold
  a permission none of them had, nor would their next tokens.
- `LostOnlyByOverlap`: without requests that judge the same database, an active
  administrator always remains.
- `SuspensionTakesHold`: a tenant that is stopped is shut one token life later.
- `SeatsHold`: somebody is left who can run the service (`OperatorsRemain`), an
  address names one person in a tenant (`AddressesNameOne`), a tenant's own role
  never becomes everybody's (`OwnRolesStayOwn`) -- overlaps aside.

Settings:

- `StaleForOneTtl`, `NoNeedlessLoad`, `EveryGetReturns`: see `SettingsCache`.
- `SettingsHold`: the mask never becomes the secret (`MasksAreNotSecrets`); a process
  whose settings changed is one somebody was told to restart (`RestartsAreAskedFor`);
  production signs with a fit key (`KeysStayFit`); a page sent back as it was shown
  changes nothing in force (`PagesAreTrue`).

Accounts:

- `ThrottleHolds`: nobody is locked but for failures of that identifier in that
  window (`LockedOnlyForFailures`); attempts that come in turn are all counted
  (`CountsInTurn`); the sweep is not noticed (`SweepForgetsNothing`).
- `SecondFactorHolds`: a confirmed secret was proven by a code (`ConfirmedWasProven`);
  one token life and the age of the workers' settings after the last save, sign-ins by
  password without it can enrol only (`RequirementTakesHold`).
- `PasskeysHold`: a removed passkey opens nothing (`RemovedPasskeysAreDead`), an id
  stays with its owner (`OwnerStays`), and challenges refine `OneTimeTickets`
  (`ChallengesAreTickets`).
- `LinksHold`: a link sets one password (`SpentOnce`), stands until it is used or runs
  out (`MailedLinksStand`), and replaces a password only (`ResetsReplaceAPassword`).
- `ContentsHold`: pushes come to the people they are for and to all of their devices
  (`PushesReachTheirOwn` = `SignedOutHearNothing`, `EveryDeviceIsCalled`); pages of a
  log miss nothing (`PagesMissNothing`), lists only what moved
  (`ListsMissOnlyWhatMoved`); an answered save is not undone (`SavesTakeHold`).

Federation:

- `SingleLogoutHolds`: a session ended at the provider is over here one ticket and one
  token life after the service was told (`EndedSessionsEnd`), unless a sign-in or a
  switch of it was under way as it was told, or as a worker asked or stopped everything;
  a notice that comes again stops nothing new (`ResendsChangeNothing`).
- `TicketsAreTickets`: tickets refine `OneTimeTickets`, sent twice or swept.
- `FederatedLinksHold`: a user has one link (`OneLinkEach`), an account never changes
  hands (`NoHandover`), gets into a user's account only while nobody has a way in
  (`SeatsAreClaimedEmpty`), and the last way in is not unlinked
  (`UnlinkKeepsAWayIn`).
- `RoundTripsHold`: only who set out to link is linked (`LinksAreMeant`); continuing
  never makes a session look younger (`ContinuingIsNotSigningIn`) nor changes whose
  it is (`RenewalsChangeNothing`).
- `OneProofOneRequest`: a proof serves one request.
- `KeysHold`: unknown keys send a process to the provider once in an interval
  (`RefreshesAreSpaced`), and a key that is out for an interval is found
  (`NewKeysAreFound`).
- `MachinePowersFade`: what register or roles take from a machine is gone one token
  life later.

Running the service:

- `RestartsReachAll`: no worker goes on with settings from before a request it has
  seen (`NobodyIsLeftBehind`), and a request costs one restart (`OneRestartPerRequest`).
- `LogsHold`: what a request recorded leaves a trace (`EventsLeaveATrace`), and no
  request waits for its own lock (`NothingIsLostToItself`).
- `RetentionHolds`: a finished purge leaves nothing old (`PurgeLeavesNothingOld`) and
  reports what it deleted (`CountsAreReal`).
- `ReleaseHolds`: an answer was the latest release at most a TTL ago
  (`AnswersAreRecent`), a failing storage is left alone (`FailuresAreSpaced`).
- `TokensHold`: no request is under way with a token that ended
  (`TokensOutliveTheirUse`), a refused one does not come back (`RefusedStaysDropped`).
- `NotesHold`: a note is read by the group its owner meant (`SharesAreMeant`), and an
  edit that keeps the share revives none (`KeptSharesAreNotRevived`).

Exceptions that a property makes ("unless two requests overlapped", by a history
variable like `overtaken`, `together`, `met`, `crossed`, `straddled`, `excused`,
`lingered`, `crowded`, `disturbed`, `overlapped`, `reordered`, `between`) are things the code
really lets happen: without the exception TLC finds a counterexample. They are
listed below. Where a hazard is such an overlap itself (two resets with one link, a
sign-in across a notice or a round of a worker, a request between a worker's settings
and its baseline, two operators who remove each other, an entry across a suspension), the
property says what holds around it, not that it cannot happen; the `note` of the
hazard in `PROJECT.json` says which.

### What the violated properties show

1. `LateTabAlwaysAccepted`: ADR-0092 says the previous token does not move within
   the grace period. A role switch rotates unconditionally; a late tab's refresh is
   then a reuse and ends the sign-in of every tab.
2. `PasswordChangeEndsOthers`: a refresh verified before the change commits and
   written in a later second has an `iat` after the line; that sign-in lives on.
3. `AnAdministratorRemains`: two administrators demote each other; each count is
   made in a snapshot in which the other one is still there.
   `routers/system/administrators.py` counts the same way.
4. `NobodyChangesThemselves`: the gate looks at `is_active` only when it is false;
   a stopped administrator makes themselves active again while their token lives.
5. `SavedTakesEffectAtOnce`: the cache is invalidated before the commit and
   without the lock; a get in between keeps the old record for a TTL.

### Further disagreements between words and code, met while modelling

None of these has a run; the models do what the code does.

- Upgrades: revision 0002 seeds with the master data of *this* build, so `system-support`
  and `content-admin` exist before revision 0016, whose `_TEMPLATE_ROLES` (line 37)
  does not name them: a fresh installation hands both to the default tenant, against
  0016's docstring (line 5), `master_data.py:105` and ADR-0079. `tenant_scope._roles`
  (87-94) then lists `system-support` among that tenant's roles and hides
  `content-admin` from the others. The same for databases that pass 0005 to 0012 with
  this build.
- 0012's docstring renames `admin` to `owner` before seeding; revisions before it
  already seed `owner`, so a database from before 0011 keeps its `admin`s.
- `scripts/seed_master_data.py` seats a default administrator who runs the service in
  the default tenant, although `master_data.py:105` excludes being both.
- A tenant's own role that is named like a later template gets the template's grants.
- `switch_role` and `change_password` decode the token twice; when it runs out in
  between, nothing is carried over: a federated session becomes a local one and counts
  as a fresh sign-in, against `session_carry_over.py:3-6` (`straddled`). A switch under
  way across a password change or logout still gets its token (`excused`); both routes,
  and the gate for settled requests (`dependencies/auth.py:322-326`), leave `is_active`
  out (`reissued`).
- `settings.py:7`, `:34`, `:667-669` and `system_settings_defaults.py:1` say the environment
  wins over the database; `_get` makes the database win, as `unset_setting.py` says.
  Two overlapping saves of different settings: the later one puts the other's change
  back (`crossed`); two first saves: one fails on its insert.
- `oidc_metadata.py:213` says redirects are followed; the client follows none. A failed
  fetch empties the key cache; a lookup that finds the turn taken refuses a new key
  (`crowded`).
- A notice with `sid` only has no subject, so its row matches no login by subject.
  Reconciliation keeps its rows for `refresh_token_expires_seconds` alone, notices for the
  larger of two lives. A sign-in whose code was exchanged before a notice and that ends
  after it is not stopped (`crossed`). A second block of a person who only uses the app is
  not recorded again.
- With linking by address a user can get two links. `users.email` is not unique
  (`sign_in_directory.py:35`). Deleting a passkey does not ask for another entrance.
- A renewal in flight when the user signs out brings the session back; a role switched
  during it is overwritten (`disturbed`). A silent `prompt=none` sign-in counts as a fresh
  one. Any return clears the cookie of a later trip. The SPA's `continueSession` looks at
  `signedOutHere()` before it waits for its lock, and a late `/me` shows a user who has
  signed out.
- The throttle's counter belongs to the address alone; a slow save revives a counter a
  success has deleted. `end_sessions` sets the line back when two changes overlap and the
  one that commits last had reckoned its line first (`SetsLineBack`): the sign-ins between the
  two lines are served again. A passkey's
  counter falls back on overlap or when it is registered again. Two resets with one link
  both go through (`together`). A secret confirmed while its removal is under way is
  removed without a code (`overtaken`). The comment at line 72 of the challenge repository
  leaves out the rollback.
- `get_current_session` says (`dependencies/auth.py:322-326`) that without its check people
  who were stopped could be handed new tokens for ever by switching roles. It asks for the
  line, the row of the sign-in and the provider's stop, never for `is_active`, and switching
  a user off (`users.py:196-197`) ends no session: with a live token they renew it until the
  row of their sign-in ends, or, with extension, without end.
- `two_factor_requirement.py:3-4` says the requirement takes hold within 5 minutes (a token's
  life). `settings.local_two_factor_required` is read through each worker's cache
  (`settings.py:49`, `:60-85`), so a worker signs tokens that do more than enrol, and lets a
  secret be removed (`account_security/presentation/router.py:136`), for up to a TTL and a load
  longer. Any save of any setting empties the payload of its worker first (`:56-58`): a
  request beside it that has passed the look at the expiry reads the default, not required.
- `update_me` (`routers/auth.py:248-259`) counts on a unique key to turn away an address that
  somebody else takes at the same time; the key is gone (`sign_in_directory.py`), so two edits
  of a profile that overlap give one address to two people of a tenant.
- A proof judged in its last moment and noted after a step of the clock could be noted
  twice (`lingered`).
- `notifications/.../dependencies.py:89` has `get_db` left before the background tasks; FastAPI
  runs them first, so a pushed message may not be in the inbox yet. The removal of a
  registration that is gone removes whoever holds that token now. `mark_read` may write
  over a concurrent `mark_all_read`.
- Two operators who remove each other at once leave none (`administrators.py`'s docstring
  excludes it); `delete_tenant` may remove a tenant that is being resumed; a role made while
  its tenant is removed becomes a template (`tenant_registry.py:46`); designating a member
  who is being removed fails or leaves an orphan (`overlapped`).
- An unreadable row when a watcher starts costs one needless restart. A worker takes its
  baseline when it starts to watch, not when it reads its settings: it goes on with the
  old ones if the request came in between (`between`), until the next request.
- An audit event says success although the commit after it may fail. Its tenant is decided
  when it is written (`sql_audit_log_repository.py:84-97`).
- `forget` and `invalidate` may drop a token another thread has just got.
- The content setting: two first saves give a unique error, an update of a row that was
  removed a `StaleDataError`, and a save of the value it read sends no `UPDATE`. Lists turned
  under different orders may miss items (`reordered`).
- `delete_user` fails while a row of `password_reset_tokens` is left. On SQLite a page's count
  and rows are two snapshots, and `ON DELETE` actions are not enforced.

### Fairness

The safety runs assume none. `EveryGetReturns` needs `Fairness` of
`SettingsCache`: weak fairness of each step of a get that has begun (the operating
system schedules every thread, and a read of the database ends, with a row or an
exception), and strong fairness of `TakeLock` (a `threading.Lock` that keeps coming
free is some time handed to a thread that waits for it). Nothing is assumed of
savers, of commits or of the beginning of a get.

## Proofs

All from the named assumptions on the constants only: times are naturals, null
values are not identifiers, and the operators' database at the start is
consistent and has an administrator.

- `RefreshSessionsProofs`: `TypeCorrectness`, `ExchangedOnce`, `LateTabTheorem`,
  `AbsoluteLifetimeTheorem`, `EndedTheorem`, `WinnersCookieTheorem`, `LeftBehindTheorem`,
  `Refinement`. Three inductive invariants, each on top of the one before.
  - `IInv`, the server's side. The row of a sign-in names its only token that was not
    replaced (`RowsOK`); an open transaction is the only place that knows of its sign-in
    (`TxOK`); a token some other one was handed out for was replaced (`HistoryOK`, from
    which `OnePairPerToken` is preserved by `rotate`'s condition); a replaced token is the
    previous one, or was replaced longer ago than the grace period, or was overtaken by a
    role switch (`ChainOK`, for the late tab); and without extension every token and row
    ends within the entrance's period (`LifetimesOK`).
  - `CookiesInv`, the browsers' side. A sign-in is known to one browser, in its jar and in
    its requests (`OwnersOK`); a new refresh token is in one response, and in no jar and
    no request, until that response arrives, and is the row's current one unless a role
    switch replaced it (`OnceOK`); a jar has the current token, or a response that brings
    it is under way, or was lost, or a switch replaced the jar's (`HeldOK`); and a request
    that is not answered holds no transaction (`UnansweredOK`). `WinnersCookieStays` is
    `HeldOK` when nothing is under way: what would bring the current token is, by
    `OwnersOK`, a request of the same browser.
  - `LinesInv`, the line of a password change. A change draws it no earlier than the line it
    has read, so it moves back only where another change has drawn one since (`BoundaryOK`);
    and no token of a sign-in is younger than the current one (`LatestOK`). So a refresh
    token that passes the line shows that the current one is not left behind
    (`LeftBehindStays`).

  `Refinement` is `Spec => Abstract!Spec`: the steps of the requests are sorted by what
  they do to rows, tokens and transactions (`Effect`); a sign-in that begins, an access
  token, a cookie and time are stutters of `SignIns`, an end is `Close`, a commit is `Open`
  together with the rows its purge removes, and a rotation is `Exchange`.
- `AdministratorsProofs`: `AdministratorsType`, `AdministratorRemainsTheorem`,
  `NoPermissionFromNowhereTheorem`. Every pending change that is still alone was judged on
  the database it will change, so its count still holds at the commit; and the permissions
  of operators' tokens, of accounts in reach and of what pending changes grant stay within
  those at the start, since each gate compares with such a token, and the tokens of people
  who were stopped are among those counted (`Holders`), as a role switch may renew them. For
  the second, a pending change may only grant what its sender's token held, whatever has
  been committed since.
- `SettingsCacheProofs`: `SettingsType`, `StaleTheorem`, `NeedlessTheorem`. `StaleInv` says
  what a thread inside a refresh knows: its worker's cache has expired, it has had the lock
  for at most `LoadTime`, and what it read or kept is obsolete only if somebody saved after
  it took the lock; and that no payload lives longer than a TTL, nor an obsolete one longer
  than a load and a TTL after the last save. A thread that begins to load has the lock and
  has just seen that the cache expired.
- `FederationProofs`: `MachinesLoseTheirPowers`, `ProofsServeOnce`, `LinksStayWithTheirOwners`,
  `TripsDoWhatTheirSenderMeant`. For the first
  (`MachineInv`), what an exchange has read of register and roles is what they are now,
  or the operation is among those an exchange was overtaken for, and what is given now
  was given until now. For the second (`DpopInv`), a request that was let through and has not
  lingered has left a row that stands until no proof of that age is taken, and while
  an insert of a proof is uncommitted no second one comes through. For the links
  (`LinksInv`), a request that was alone with its user still finds them as it read them
  (`ReadingsStand`: nobody has a way in, the link is the only one, another entrance is
  there), since whatever could change that is a request on the same user, or a removal
  of the row, which takes the request's ground with it (`RowsAreThere`). For the trips
  (`TripsInv`), a renewal under way carries nobody, or somebody with a time they did come
  in by (`RenewalsAreOfOld`), and as long as nothing came between it carries the session
  the browser holds (`RenewalsKnowTheSession`).
  Of the sign-ins and keys: `EndedSessionsAreOver`, `TicketsLetInOnce`, `KeysAreFoundInTime`.
  `LogoutInv` speaks of what is in circulation (`Calling`, `Rows`, `Switching`, `Asked`).
  What is left of a session after the service was told has a stop that outlasts it
  (`ToldAreStopped`), which is why a swept stop lets nothing back in. A worker's stop
  stands when the next one says the same, with the time of the first; so what began
  before it must run out soon after it (`WorkersStopsAreFinal`), and what a worker was
  told is over began before the sign-in it names (`AskedAreOlder`). The proof showed that
  `crossed` has to include what is under way as a worker stops everything: a switch that
  began before the stop and ended as the stop was about to be swept would start a life
  that no later round of the same sign-in ends in time. The tickets are refined step by
  step, a sweep beside the one it issues. For the keys (`KeysInv`), a key that was
  published while nobody looked up, and since which no two did at once, is in whatever
  is answered since, and after a turn taken since it is known, being fetched, or nothing
  is kept (`IsFresh`).
  `FederationTypes` is about the suite (`FederationInv`): in its scene a component has its
  inductive invariant, in the others its types; outside their own scenes there are no
  machine tokens (`machineTokens`) and the browser has no access token cookie (`login`).
- `OperationsProofs`: `RestartsReachEveryWorker`, `ReleaseIsRecent`, `LogsLeaveTheirTrace`,
  `TokensAreFit`. A worker's baseline is the request its settings are from, or none, and
  while the parent lives a worker that would end it has a request to do so for
  (`RestartsInv`); a remembered release was the latest when its time of life began, the
  one reading under way began when `readings` says and the answer of a failure is
  remembered for as long as the next reading must wait (`ReleaseInv`); a request has left
  its transaction before its layers write, and what happened is put aside, written or
  its failure put aside (`LogInv`); what is kept ends `MaxExchange` before its token does,
  and a request goes out with a token that outlasts the request (`TokensInv`, from
  `RememberedTokensAssumption`: twice the longest exchange fits into the margin; the
  code's margins are 60 and 300 s, its timeouts 10 s).
  `SettingsAreAsWritten` (`SettingsInv`): the record, and the record every save under way
  has read, hold no mask for a secret and nothing for the key, which only the environment
  gives (`Sane`); a form takes nothing of the kind over, and the script only unsets.
  `OperationsTypes` is about the suite (`OperationsInv`): in its scene a component has its
  inductive invariant, in the others its state stands still. Three parts need more than
  the arguments above hold: what may be written for a setting (`Wellformed`: the record,
  the environment, and each form and record a save has read, so that the lifetime in
  force is one the dates can bear), the one writer of the logs (`LogEdges`), and the
  notes of a database that lets a dangling reference be (`NotesTypesKeep`).
- `AccountsProofs`: `LinksAreOnePassword`, `SecondFactorsAreProven`, `PasskeysAreTheirOwners`,
  `ThrottleCountsFailures`. A mailed link's row is as it was mailed until its use marks it,
  and of two resets with one link only those that read it unmarked can both go through
  (`LinksInv`). A confirmation has seen the secret its user showed a code for, and a
  token that does more than enrol was signed by what a worker could believe: it is of a
  user with a confirmed secret, or ends a token's life and `SettingsAge` after the last
  save (`TwoFactorInv`, `OpenOnesAreOlder`). What a
  ceremony has read of a credential is its row or an older one, so an owner who left
  cannot come back through it (`PasskeysInv`; the refinement of `OneTimeTickets` is proved
  step by step). A throttle row and the count that is due say the same at every time to
  come, as long as attempts come in turn (`ThrottleInv`; `Agree` is the relation of both).
  `PowersEndInTime` (`GatesInv`, one part for each part of `GatesHold`: `AuthHolds`,
  `ScopeHolds`, `OffHolds`, `EndHolds`): a sign-in that is over (`IsOver`) has only tokens
  of before, the rows turn all of them away (`Barred`), and no request that was judged
  since carries one. `UpgradesKeepPowers` (`UpgradesInv`): with each number of revisions
  done the database is as it was (`AsItWas`), as the authority over the system was split
  off (`AsSplit`), or as it is now (`AsItIs`), relative to what the first container found:
  what somebody can do but for `system-admin` is what is meant and what their templates
  give (`Between`). What a run has written is what its revision makes of the database, and
  a table that is there was made by a revision that is done, runs, or was killed
  (`TablesAreMade`). The lemmas follow the revisions' helpers one by one (`SeededIs`,
  `StrippedIs`, `ReseatedIs`, `RecodedIs`, `RenamedIs`, ...).
- `TenantsProofs`: `StoppedTenantsAreShut`, `SeatsAreSafe`, `NotesAreReadAsMeant`. What a
  request has read of seats and tenants still fits the tables, or has left its mark in
  the history (`ReadingsFit`), and a badge of a stopped tenant was made before it was
  stopped (`BadgesAreMade`). For the notes, a share and what was meant by it name the same
  founding of a group; this needs foreign keys, so the theorem has the hypothesis
  `~Sqlite`, as the property has. `AnsweredSavesStand` (`SavesInv`): what is stored is what
  a save under way has read, or was saved since (`SavesKnowWhatIsStored`). `ListsAreWhole`
  (`PagesInv`): of what was missed so far no more stands in front of the next page than
  was moved (`FrontIsShown`), since an item added only pushes others back, and one that is
  moved or removed counts and brings at most one other forward. `PushesFindTheirPeople`
  (`NotificationsInv`): who has a device, or registers it, is not among those who left
  (`PresentAreNotAbsent`), a job's list has only such (`ListsArePresent`), and every device
  that stayed is on it or was called (`SteadyAreReached`).
  `PurgesDoWhatTheyReport` (`RetentionInv`): a purge that counts has deleted what the ids
  it selected had left, each row by one purge (`CountsAreReal`), and what it has not yet
  selected, or has selected and not deleted, is all that can be old (`PurgesLookBack`);
  that a chunk has the lowest ids is what lets a purge that is overtaken stop.
  `LogPagesAreWhole` (`LogPagesInv`, on top of `RetentionInv`): no purge is after rows of
  which the reader does not know (`ReadingKnowsCutoffs`), and what of the rows that were
  there has not been shown is gone, as old as those, or behind the pages turned
  (`UnseenIsBehind`): new rows come in front, so that a row only moves towards the end.
- `MCAccountsProofs`: `NobodyGetsMore`, `PeopleSeeWhatIsTheirs`. What `PowersHold` and
  `ContentsHold` join, of the suite itself: a step is one of the scene's component and
  leaves the state of the others alone (`SceneStays`), so each keeps its inductive
  invariant in its scene and what it promises in all (`PowersInv`, `ShownInv`).
  `AccountsTypes` (`AccountsInv`) adds what the types say beside those invariants: the
  number of a page stays below that of the rows counted (`PagesAreFewer`), a setting's id
  was given out, and the tables made are those the revisions make.

The assumptions beyond times and null values: `AccessTtl` is not zero (`TwoFactor`,
`SsoSessions`: a token of no life admits nobody), the provider has a first key
(`SigningKeys`), the jti a worker makes is none of the provider's (`SsoSessions`: it is a
hash), the orders of items are among the enumeration's three (`Contents`), and null values
(`NoRow`, `NoSave`, `NoList`, `NoRun`, `Absent` and their like) are no members of the sets
they stand beside.

Only model-checked: `EveryGetReturns`, since liveness under fairness is out of the
prover's reach, as are `ENABLED`, induction over recursive definitions, and modules with
`RECURSIVE` operators (none of these modules has one). And the five disagreements, each a
counterexample of a run.

## Not modelled

- The screens beyond their cookies and trips, the look of mails, the contents of the
  OpenAPI, translations: nothing of theirs interacts.
- The provider, Google, the object storage, the mail server, gunicorn: outside, as
  actors that may answer or fail.
- Downgrades, SQLite's DDL, two containers that upgrade at once (the deployment
  replaces one container by another), and repairing by hand a container killed within
  a revision that makes tables.
- A failing commit, except where a module says so; deadlocks that MariaDB resolves by
  failing a transaction (it is rolled back, as any that raised).
- `presentation/fastapi/admin` pages' rendering, seeds of demonstration data, the test
  client, the CLI.

## Plan

Done: sign-ins, administration, settings, throttle, second factors, links, federation,
restarts, logs, tenants, notes, notifications, contents, releases, upgrades. Left, in
this order:

1. Runs of their own for the disagreements about upgrades and renewals.
2. SQLite: one writer for all modules, where `Notifications`, `SharedNotes` and
   `LogWrites` have it already.
3. Liveness: that a worker's round, a purge and a push job come to their end, once the
   scheduler's fairness is written down for them.
