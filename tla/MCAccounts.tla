----------------------------- MODULE MCAccounts -----------------------------
(* Small instances of the components around a person's account.  They share*)
(* no state, so an invariant of one holds in their interleavings exactly if  *)
(* it holds in its own behaviours: the run chooses a scene and plays it.     *)
EXTENDS LoginThrottle, TwoFactor, Passkeys, PasswordLinks, Notifications, AccessGates,
        LogPages, Contents, Upgrades

VARIABLE scene

suiteVars == <<throttleVars, twoFactorVars, passkeyVars, linkVars, notificationVars, gateVars,
               pageVars, contentVars, upgradeVars, scene>>

\* What a tenant's own role is given before an upgrade: nothing, one permission or all;
\* the default administrator holds one of the roles at most.
OneMoreOrAll ==
    /\ "reviewer" \in DOMAIN db.roles =>
           Cardinality(db.roles["reviewer"]) <= 1 \/ \E r \in {"owner", "admin"} \cap DOMAIN db.roles :
                                                       db.roles["reviewer"] = db.roles[r]
    /\ DefaultAdmin \in People(db) => Cardinality(db.holds[DefaultAdmin]) <= 1

SuiteInit ==
    /\ scene \in {"throttle", "two_factor", "passkeys", "links", "notifications", "gates", "pages",
                 "contents", "upgrades"}
    /\ UpgradesInit /\ OneMoreOrAll /\ (scene # "upgrades" => version = 0)
    /\ ThrottleInit /\ (scene # "throttle" => \A r \in Tries : try[r].key = CHOOSE c \in Counters : TRUE)
    /\ LogPagesInit /\ (scene # "pages" => days = 0)
    /\ seat = [u \in Users |-> IF u \in Members THEN CHOOSE t \in TenantIds : TRUE ELSE Whole]
    /\ ContentsInit /\ (scene # "contents" => choices = Orders)
    /\ TwoFactorInit /\ PasskeysInit /\ LinksInit /\ NotificationsInit /\ GatesInit

throttleOnly == <<attempts, try, failed, due, raced>>
twoFactorOnly == <<totp, asks, required, saved, issued, proven, overtaken>>
passkeysOnly == <<challenges, passkeys, counter, responses, ceremony, registered, accepted, ofRemoved>>
linksOnly == <<account, links, resets, mailed, spent, together>>
notificationsOnly == <<holder, asking, sending, message, delivery, heard, steady, absent, left>>
gatesOnly == <<held, enabled, boundary, stoppedAt, login, cards, visit,
               entered, ended, offSince, lastHeld, straddled, excused, lateCodes, reissued>>
pagesOnly == <<rows, createdAt, written, days, purge, reported, unreported, goneBy, seat, tenantOfRow, reading, oldest>>
contentsOnly == <<savingVars, itemVars, listVars>>
upgradesOnly == <<version, db, made, run, stuck, served, crashes, before, recovered>>

ThrottleScene == scene = "throttle" /\ ThrottleNext /\ UNCHANGED <<twoFactorOnly, passkeysOnly, linksOnly, notificationsOnly, gatesOnly, pagesOnly, contentsOnly, upgradesOnly, scene>>
TwoFactorScene == scene = "two_factor" /\ TwoFactorNext /\ UNCHANGED <<throttleOnly, passkeysOnly, linksOnly, notificationsOnly, gatesOnly, pagesOnly, contentsOnly, upgradesOnly, scene>>
PasskeysScene == scene = "passkeys" /\ PasskeysNext /\ UNCHANGED <<throttleOnly, twoFactorOnly, linksOnly, notificationsOnly, gatesOnly, pagesOnly, contentsOnly, upgradesOnly, scene>>
LinksScene == scene = "links" /\ LinksNext /\ UNCHANGED <<throttleOnly, twoFactorOnly, passkeysOnly, notificationsOnly, gatesOnly, pagesOnly, contentsOnly, upgradesOnly, scene>>

\* One registration at a time, and none once the notification is settled.
NotificationsScene ==
    /\ scene = "notifications" /\ NotificationsNext
    /\ \A r \in Requests : asking'[r] = NoAsking \/ r = CHOOSE q \in Requests : TRUE
    /\ (\E m \in Messages : message[m] \in {"stored", "lost"}) => UNCHANGED <<holder, asking>>
    /\ UNCHANGED <<throttleOnly, twoFactorOnly, passkeysOnly, linksOnly, gatesOnly, pagesOnly, contentsOnly, upgradesOnly, scene>>

\* Of the things that go wrong for a sign-in one has happened and not been undone,
\* while one request at a time is answered.
Troubles == {"roles" : x \in {held} \ {Codes}} \cup {"off" : x \in {enabled} \ {TRUE}}
            \cup {"line" : x \in {boundary} \ {Never}} \cup {"stop" : x \in {stoppedAt} \ {Never}}
            \cup {"row" : l \in {k \in Logins : login[k] # NoEntry /\ ~login[k].fed /\ ~login[k].row}}

GatesScene ==
    /\ scene = "gates" /\ GatesNext /\ now' <= 1 /\ Cardinality(Troubles') <= 1
    /\ \A r \in Requests : visit'[r] = NoVisit \/ r = CHOOSE q \in Requests : TRUE
    /\ UNCHANGED <<throttleOnly, twoFactorOnly, passkeysOnly, linksOnly, notificationsOnly, pagesOnly, contentsOnly, upgradesOnly, scene>>

PagesScene ==
    /\ scene = "pages" /\ LogPagesNext
    /\ UNCHANGED <<throttleOnly, twoFactorOnly, passkeysOnly, linksOnly, notificationsOnly, gatesOnly, contentsOnly, upgradesOnly, scene>>

\* The setting is saved before there are items, in every order; from then on it is
\* another build that changes their order.  Two items move under a reader's eyes.
ContentsScene ==
    /\ scene = "contents" /\ ContentsNext
    /\ lastItem' > 0 => /\ lastStored' <= 1 /\ moved' <= 2 /\ Cardinality(mayBe') = 1
                        /\ \A r \in Requests : save'[r] = NoSave
    /\ UNCHANGED <<throttleOnly, twoFactorOnly, passkeysOnly, linksOnly, notificationsOnly, gatesOnly, pagesOnly, upgradesOnly, scene>>

UpgradesScene ==
    /\ scene = "upgrades" /\ UpgradesNext
    /\ UNCHANGED <<throttleOnly, twoFactorOnly, passkeysOnly, linksOnly, notificationsOnly, gatesOnly, pagesOnly, contentsOnly, scene>>

SuiteNext ==
    \/ GatesScene \/ ThrottleScene \/ TwoFactorScene \/ PasskeysScene
    \/ LinksScene \/ NotificationsScene \/ PagesScene \/ ContentsScene \/ UpgradesScene

SuiteSpec == SuiteInit /\ [][SuiteNext]_suiteVars
-----------------------------------------------------------------------------
\* The rows and requests of every component have their types.
AccountsTypeOK ==
    /\ ThrottleTypeOK /\ TwoFactorTypeOK /\ PasskeysTypeOK
    /\ LinksTypeOK /\ NotificationsTypeOK /\ GatesTypeOK
    /\ LogPagesTypeOK /\ ContentsTypeOK /\ UpgradesTypeOK

\* What people are shown is theirs, complete and in force: a push is heard by the
\* person it is for, the pages of a log or of the items miss nothing that stayed in
\* its place, and an answered save of the contents' setting is not undone.
ContentsHold == PushesReachTheirOwn /\ PagesMissNothing /\ ListsMissOnlyWhatMoved /\ SavesTakeHold

\* Nobody can do more than they may: a token opens only what it was given and the
\* tables still bear out, and an upgrade leaves people the powers they had.
PowersHold == GatesHold /\ UpgradesHold
=============================================================================
