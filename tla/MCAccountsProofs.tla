-------------------------- MODULE MCAccountsProofs --------------------------
(* What the components of the suite promise, of the suite itself: a scene     *)
(* plays its component and leaves the state of the others alone, so that each *)
(* keeps its inductive invariant in its own scene and what it promises in all. *)
EXTENDS MCAccounts, AccountsProofs, TenantsProofs

\* A step of the suite is a step of one scene, or none; the scene stays.
LEMMA SceneStays ==
    ASSUME [SuiteNext]_suiteVars
    PROVE  /\ scene' = scene
           /\ scene = "gates" => [GatesNext]_gateVars
           /\ scene = "notifications" => [NotificationsNext]_notificationVars
           /\ scene = "pages" => [LogPagesNext]_pageVars
           /\ scene = "contents" => [ContentsNext]_contentVars
           /\ scene = "upgrades" => [UpgradesNext]_upgradeVars
           /\ scene # "gates" => UNCHANGED gatesOnly
           /\ scene # "notifications" => UNCHANGED notificationsOnly
           /\ scene # "pages" => UNCHANGED pagesOnly
           /\ scene # "contents" => UNCHANGED contentsOnly
           /\ scene # "upgrades" => UNCHANGED upgradesOnly
<1>1. CASE UNCHANGED suiteVars
  <2>1. scene' = scene /\ UNCHANGED <<gateVars, notificationVars, pageVars, contentVars, upgradeVars>>
    BY <1>1 DEF suiteVars
  <2>2. UNCHANGED gatesOnly
    BY <2>1 DEF gateVars, gatesOnly
  <2>3. UNCHANGED notificationsOnly
    BY <2>1 DEF notificationVars, notificationsOnly
  <2>4. UNCHANGED pagesOnly
    BY <2>1 DEF pageVars, retentionVars, pagesOnly
  <2>5. UNCHANGED contentsOnly
    BY <2>1 DEF contentVars, contentsOnly
  <2>6. UNCHANGED upgradesOnly
    BY <2>1 DEF upgradeVars, upgradesOnly
  <2> QED BY <2>1, <2>2, <2>3, <2>4, <2>5, <2>6
<1>2. CASE ThrottleScene
  BY <1>2 DEF ThrottleScene
<1>3. CASE TwoFactorScene
  BY <1>3 DEF TwoFactorScene
<1>4. CASE PasskeysScene
  BY <1>4 DEF PasskeysScene
<1>5. CASE LinksScene
  BY <1>5 DEF LinksScene
<1>6. CASE NotificationsScene
  BY <1>6 DEF NotificationsScene
<1>7. CASE GatesScene
  BY <1>7 DEF GatesScene
<1>8. CASE PagesScene
  BY <1>8 DEF PagesScene
<1>9. CASE ContentsScene
  BY <1>9 DEF ContentsScene
<1>10. CASE UpgradesScene
  BY <1>10 DEF UpgradesScene
<1> QED BY <1>1, <1>2, <1>3, <1>4, <1>5, <1>6, <1>7, <1>8, <1>9, <1>10 DEF SuiteNext

-----------------------------------------------------------------------------
(* Powers.                                                                  *)

PowersInv ==
    /\ scene = "gates" => GatesInv
    /\ scene # "gates" => cards = {}
    /\ scene = "upgrades" => UpgradesInv
    /\ UpgradesHold

LEMMA PowersBegin == SuiteInit => PowersInv
<1> SUFFICES ASSUME SuiteInit PROVE PowersInv
  OBVIOUS
<1>1. GatesInit /\ UpgradesInit
  BY DEF SuiteInit
<1>2. GatesInv /\ UpgradesInv
  BY <1>1, GatesInitInv, UpgradesStart
<1>3. UpgradesHold
  BY <1>2, UpgradesDo
<1>4. cards = {}
  BY <1>1 DEF GatesInit
<1> QED BY <1>2, <1>3, <1>4 DEF PowersInv

LEMMA PowersKeep == PowersInv /\ [SuiteNext]_suiteVars => PowersInv'
<1> SUFFICES ASSUME PowersInv, [SuiteNext]_suiteVars PROVE PowersInv'
  OBVIOUS
<1>1. scene' = scene
  BY SceneStays
<1>2. scene = "gates" => GatesInv'
  <2>1. scene = "gates" => GatesInv /\ [GatesNext]_gateVars
    BY SceneStays DEF PowersInv
  <2> QED BY <2>1, GatesNextInv
<1>3. scene # "gates" => cards' = {}
  <2> SUFFICES ASSUME scene # "gates" PROVE cards' = {}
    OBVIOUS
  <2>1. cards = {} /\ UNCHANGED gatesOnly
    BY SceneStays DEF PowersInv
  <2> QED BY <2>1 DEF gatesOnly
<1>4. scene = "upgrades" => UpgradesInv' /\ UpgradesHold'
  <2>1. scene = "upgrades" => UpgradesInv /\ [UpgradesNext]_upgradeVars
    BY SceneStays DEF PowersInv
  <2>2. scene = "upgrades" => UpgradesInv'
    BY <2>1, UpgradesStep
  <2>3. UpgradesInv' => UpgradesHold'
    BY UpgradesDo, PTL
  <2> QED BY <2>2, <2>3
<1>5. scene # "upgrades" => UpgradesHold'
  <2> SUFFICES ASSUME scene # "upgrades" PROVE UpgradesHold'
    OBVIOUS
  <2>1. UpgradesHold /\ UNCHANGED upgradesOnly
    BY SceneStays DEF PowersInv
  <2>2. version' = version /\ db' = db /\ before' = before /\ recovered' = recovered
        /\ stuck' = stuck /\ crashes' = crashes /\ served' = served
    BY <2>1 DEF upgradesOnly
  <2>3. \A u : MeantToKeep(u)' = MeantToKeep(u)
    BY <2>2 DEF MeantToKeep
  <2>4. PowersOutlast'
    BY <2>1, <2>2, <2>3 DEF UpgradesHold, PowersOutlast
  <2>5. NobodyIsBoth'
    BY <2>1, <2>2 DEF UpgradesHold, NobodyIsBoth
  <2>6. RecordedIsDone'
    <3>1. RecordedIsDone
      BY <2>1 DEF UpgradesHold
    <3> QED BY <3>1, <2>2 DEF RecordedIsDone
  <2>7. RemovedStaysRemoved'
    BY <2>1, <2>2 DEF UpgradesHold, RemovedStaysRemoved
  <2> QED BY <2>4, <2>5, <2>6, <2>7 DEF UpgradesHold
<1> QED BY <1>1, <1>2, <1>3, <1>4, <1>5 DEF PowersInv

\* Nobody can do more than they may, whichever of the components is played: what a
\* renewal and a withdrawal leave of a sign-in's tokens (presentation/fastapi/routers,
\* GatesHold), and what the revisions and the recovery script leave of people's roles
\* (migrations/versions, scripts/migrate_with_recovery.py, UpgradesHold).
THEOREM NobodyGetsMore == SuiteSpec => []PowersHold
<1>1. PowersInv => PowersHold
  <2> SUFFICES ASSUME PowersInv PROVE GatesHold
    BY DEF PowersInv, PowersHold
  <2>1. CASE scene = "gates"
    BY <2>1, GatesInvHolds DEF PowersInv
  <2>2. CASE scene # "gates"
    <3>1. cards = {}
      BY <2>2 DEF PowersInv
    <3> QED BY <3>1 DEF GatesHold, RecentMeansSignedIn, EndedLoginsStayEnded, CodesFade, SwitchedOffMeansOut
  <2> QED BY <2>1, <2>2
<1> QED BY PowersBegin, PowersKeep, <1>1, PTL DEF SuiteSpec

-----------------------------------------------------------------------------
(* What people are shown.                                                   *)

ShownInv ==
    /\ scene = "notifications" => NotificationsInv
    /\ scene = "pages" => LogPagesInv
    /\ scene = "contents" => SavesInv /\ PagesInv
    /\ ContentsHold

\* A push is heard by whom it is for, whoever has the devices.
LEMMA PushesPromise == ASSUME NotificationsInv PROVE PushesReachTheirOwn
<1>1. \A m \in Messages : sending[m].state = "pushed" => \A d \in steady[m] : Reached(m, d)
  BY UnsentHasNoJob DEF NotificationsInv, SteadyAreReached
<1> QED BY <1>1 DEF NotificationsInv, PushesReachTheirOwn, EveryDeviceIsCalled, Reached

LEMMA ShownBegins == SuiteInit => ShownInv
<1> SUFFICES ASSUME SuiteInit PROVE ShownInv
  OBVIOUS
<1>1. NotificationsInit /\ LogPagesInit /\ ContentsInit
  BY DEF SuiteInit
<1>2. NotificationsInv /\ LogPagesInv /\ SavesInv /\ PagesInv
  BY <1>1, NotificationsInitInv, LogPagesInitInv, SavesInitInv, PagesInitInv
<1>3. ContentsHold
  BY <1>2, PushesPromise DEF ContentsHold, LogPagesInv, SavesInv, PagesInv
<1> QED BY <1>2, <1>3 DEF ShownInv

LEMMA PushesKeep == ASSUME ShownInv, [SuiteNext]_suiteVars
                    PROVE  (scene = "notifications" => NotificationsInv') /\ PushesReachTheirOwn'
<1>1. CASE scene = "notifications"
  <2>1. NotificationsInv /\ [NotificationsNext]_notificationVars
    BY <1>1, SceneStays DEF ShownInv
  <2>2. NotificationsInv'
    BY <2>1, NotificationsStep
  <2>3. NotificationsInv' => PushesReachTheirOwn'
    BY PushesPromise, PTL
  <2> QED BY <2>2, <2>3
<1>2. CASE scene # "notifications"
  <2>1. UNCHANGED notificationsOnly
    BY <1>2, SceneStays
  <2>2. PushesReachTheirOwn
    BY DEF ShownInv, ContentsHold
  <2>3. PushesReachTheirOwn'
    BY <2>1, <2>2 DEF notificationsOnly, PushesReachTheirOwn, SignedOutHearNothing, EveryDeviceIsCalled
  <2> QED BY <1>2, <2>3
<1> QED BY <1>1, <1>2

LEMMA LogPagesKeep == ASSUME ShownInv, [SuiteNext]_suiteVars
                      PROVE  (scene = "pages" => LogPagesInv') /\ PagesMissNothing'
<1>1. CASE scene = "pages"
  <2>1. LogPagesInv /\ [LogPagesNext]_pageVars
    BY <1>1, SceneStays DEF ShownInv
  <2>2. LogPagesInv'
    BY <2>1, LogPagesStep
  <2> QED BY <2>2 DEF LogPagesInv
<1>2. CASE scene # "pages"
  <2>1. UNCHANGED pagesOnly
    BY <1>2, SceneStays
  <2>2. PagesMissNothing
    BY DEF ShownInv, ContentsHold
  <2>3. PagesMissNothing'
    BY <2>1, <2>2 DEF pagesOnly, PagesMissNothing
  <2> QED BY <1>2, <2>3
<1> QED BY <1>1, <1>2

LEMMA ContentsKeep == ASSUME ShownInv, [SuiteNext]_suiteVars
                      PROVE  /\ scene = "contents" => SavesInv' /\ PagesInv'
                             /\ ListsMissOnlyWhatMoved' /\ SavesTakeHold'
<1>1. CASE scene = "contents"
  <2>1. SavesInv /\ PagesInv /\ [ContentsNext]_contentVars
    BY <1>1, SceneStays DEF ShownInv
  <2>2. SavesInv' /\ PagesInv'
    BY <2>1, SavesStep, PagesStep
  <2> QED BY <2>2 DEF SavesInv, PagesInv
<1>2. CASE scene # "contents"
  <2>1. UNCHANGED <<savingVars, itemVars, listVars>>
    BY <1>2, SceneStays DEF contentsOnly
  <2>2. ListsMissOnlyWhatMoved /\ SavesTakeHold
    BY DEF ShownInv, ContentsHold
  <2>3. SavesTakeHold'
    BY <2>1, <2>2 DEF savingVars, SavesTakeHold
  <2>4. ListsMissOnlyWhatMoved'
    BY <2>1, <2>2 DEF itemVars, listVars, ListsMissOnlyWhatMoved, There
  <2> QED BY <1>2, <2>3, <2>4
<1> QED BY <1>1, <1>2

LEMMA ShownKeeps == ShownInv /\ [SuiteNext]_suiteVars => ShownInv'
<1> SUFFICES ASSUME ShownInv, [SuiteNext]_suiteVars PROVE ShownInv'
  OBVIOUS
<1>1. scene' = scene
  BY SceneStays
<1>2. ContentsHold'
  BY PushesKeep, LogPagesKeep, ContentsKeep DEF ContentsHold
<1> QED BY <1>1, <1>2, PushesKeep, LogPagesKeep, ContentsKeep DEF ShownInv

\* What people are shown is theirs, complete and in force, whichever of the components
\* is played: pushes (notifications), the pages of a log (audit, logs) and of the items,
\* and the answered saves of the contents' setting.
THEOREM PeopleSeeWhatIsTheirs == SuiteSpec => []ContentsHold
<1>1. ShownInv => ContentsHold
  BY DEF ShownInv
<1> QED BY ShownBegins, ShownKeeps, <1>1, PTL DEF SuiteSpec

-----------------------------------------------------------------------------
(* The types of the suite.                                                  *)

\* A page that begins before the last of so many is numbered no higher than they.
LEMMA PagesAreFewer ==
    ASSUME NEW p \in Nat, NEW l \in Nat \ {0}, NEW total \in Nat, p * l < total
    PROVE  p <= total
<1>1. p * l = p + p * (l - 1)
  OBVIOUS
<1>2. p * (l - 1) >= 0
  OBVIOUS
<1>3. p * l \in Int /\ p * (l - 1) \in Int
  OBVIOUS
<1> QED BY <1>1, <1>2, <1>3

LEMMA CountedTo ==
    ASSUME NEW n \in Nat, NEW S, S \subseteq 1..n
    PROVE  Cardinality(S) \in 0..n
<1>1. IsFiniteSet(1..n) /\ Cardinality(1..n) = n
  BY FS_Interval
<1>2. Cardinality(S) \in Nat /\ Cardinality(S) <= Cardinality(1..n)
  BY <1>1, FS_Subset, FS_CardinalityType
<1> QED BY <1>1, <1>2

LEMMA FetchesIs ==
    ASSUME LogPagesTypeOK, NEW t \in TenantIds \cup {Whole}, NEW p \in 0..MaxRows, p # 0 => reading \in Reading
    PROVE  Fetches(t, p) \in Reading
<1>1. written \in 0..MaxRows /\ rows \subseteq 1..written /\ MaxRows \in Nat
  BY LogRetentionAssumption DEF LogPagesTypeOK, LogRetentionTypeOK
<1>2. PICK R \in SUBSET (1..MaxRows) : R = OfTenant(t)
  <2>1. OfTenant(t) \subseteq 1..written
    BY <1>1 DEF OfTenant
  <2>2. 1..written \subseteq 1..MaxRows
    BY <1>1
  <2> QED BY <2>1, <2>2
<1>3. Cardinality(R) \in 0..MaxRows
  BY <1>1, <1>2, CountedTo
<1>4. PICK shown \in SUBSET R : shown = Slice(R, PageOffset(p))
  BY DEF Slice
<1>5. CASE p = 0
  BY <1>2, <1>3, <1>4, <1>5 DEF Fetches, Reading, Rows
<1>6. CASE p # 0
  <2>1. reading.began \in SUBSET Rows /\ reading.seen \in SUBSET Rows
    BY <1>6 DEF Reading
  <2> QED BY <1>2, <1>3, <1>4, <1>6, <2>1 DEF Fetches, Reading, Rows
<1> QED BY <1>5, <1>6

LEMMA LogPagesTypesKeep ==
    ASSUME LogPagesInv, LogPagesTypeOK, [LogPagesNext]_pageVars, LogPagesInv'
    PROVE  LogPagesTypeOK'
<1>1. LogRetentionTypeOK' /\ oldest' \in -MaxDays..MaxTime
  BY DEF LogPagesInv, RetentionInv, ReadingKnowsCutoffs
<1>2. CASE UNCHANGED pageVars
  BY <1>1, <1>2 DEF pageVars, retentionVars, LogPagesTypeOK
<1>3. ASSUME NEW t \in TenantIds \cup {Whole}, OpensLog(t) PROVE LogPagesTypeOK'
  <2>1. 0 \in 0..MaxRows
    BY LogRetentionAssumption
  <2>2. reading' \in Reading
    BY <1>3, <2>1, FetchesIs DEF OpensLog
  <2>3. UNCHANGED <<seat, tenantOfRow, written>>
    BY <1>3 DEF OpensLog, retentionVars
  <2> QED BY <1>1, <2>2, <2>3 DEF LogPagesTypeOK
<1>4. CASE TurnsPage
  <2>1. reading \in Reading /\ HasNextPage(reading)
    BY <1>4 DEF TurnsPage, LogPagesTypeOK
  <2>2. PICK p \in Nat : p = reading.page + 1
    BY <2>1 DEF Reading
  <2>3. PICK total \in 0..MaxRows : total = reading.total
    BY <2>1 DEF Reading
  <2>4. p * LogsPerPage < total
    BY <2>1, <2>2, <2>3 DEF HasNextPage
  <2>5. LogsPerPage \in Nat \ {0} /\ MaxRows \in Nat /\ total \in Nat
    BY LogPagesAssumption, LogRetentionAssumption
  <2>6. p <= total
    BY <2>4, <2>5, PagesAreFewer
  <2>7. p \in 0..MaxRows
    BY <2>5, <2>6
  <2>8. PICK t \in TenantIds \cup {Whole} : t = reading.tenant
    BY <2>1 DEF Reading
  <2>9. Fetches(t, p) \in Reading
    BY <2>1, <2>7, FetchesIs
  <2>10. reading' = Fetches(t, p) /\ UNCHANGED <<seat, tenantOfRow, written>>
    BY <1>4, <2>2, <2>8 DEF TurnsPage, retentionVars
  <2> QED BY <1>1, <2>9, <2>10 DEF LogPagesTypeOK
<1>5. CASE ClosesLog
  <2>1. reading' = NoReading /\ UNCHANGED <<seat, tenantOfRow, written>>
    BY <1>5 DEF ClosesLog, retentionVars
  <2> QED BY <1>1, <2>1 DEF LogPagesTypeOK
<1>6. CASE PagesMeanwhile
  <2>1. UNCHANGED <<seat, tenantOfRow, reading, written>>
    BY <1>6 DEF PagesMeanwhile, RetentionTick, SetsDays
  <2> QED BY <1>1, <2>1 DEF LogPagesTypeOK
<1>7. ASSUME NEW u \in Users, LosesSeat(u) PROVE LogPagesTypeOK'
  <2>1. seat' = [seat EXCEPT ![u] = Whole] /\ UNCHANGED <<tenantOfRow, reading, written>>
    BY <1>7 DEF LosesSeat, retentionVars
  <2> QED BY <1>1, <2>1 DEF LogPagesTypeOK
<1>8. ASSUME NEW e \in Event, NEW at \in Time, WritesEvent(e, at) PROVE LogPagesTypeOK'
  <2>1. written' = written + 1 /\ UNCHANGED <<seat, reading>>
    BY <1>8 DEF WritesEvent, WritesRow
  <2>2. TenantOfEvent(e) \in TenantIds \cup {Whole}
    <3>1. e.actor \in Users \cup {Nobody} /\ e.target \in Users \cup {Nobody}
      BY DEF Event
    <3>2. seat \in [Users -> TenantIds \cup {Whole}]
      BY DEF LogPagesTypeOK
    <3> QED BY <3>1, <3>2 DEF TenantOfEvent
  <2>3. written \in Nat /\ tenantOfRow \in [1..written -> TenantIds \cup {Whole}]
    BY DEF LogPagesTypeOK, LogRetentionTypeOK
  <2>4. tenantOfRow' \in [1..(written + 1) -> TenantIds \cup {Whole}]
    BY <1>8, <2>2, <2>3 DEF WritesEvent
  <2> QED BY <1>1, <2>1, <2>4 DEF LogPagesTypeOK
<1>9. ASSUME NEW p \in Purgers, PurgeRuns(p) PROVE LogPagesTypeOK'
  <2>1. UNCHANGED <<seat, tenantOfRow, reading, written>>
    BY <1>9 DEF PurgeRuns, StartsPurge, SelectsIds, DeletesIds, PurgeFails
  <2> QED BY <1>1, <2>1 DEF LogPagesTypeOK
<1> QED BY <1>2, <1>3, <1>4, <1>5, <1>6, <1>7, <1>8, <1>9 DEF LogPagesNext

LEMMA NewRowIs ==
    ASSUME ContentsTypeOK, NEW r \in Requests, Saves(r), SavesTypeOK'
    PROVE  setting' # NoRow => setting'.id <= lastStored'
<1>1. save[r] \in Save /\ setting \in StoredSetting \cup {NoRow} /\ lastStored \in Nat
  BY ContentsAssumption DEF ContentsTypeOK, Saves
<1>2. setting' \in StoredSetting \cup {NoRow}
  BY DEF SavesTypeOK
<1>3. setting' # NoRow => setting'.id \in Nat
  BY <1>2 DEF StoredSetting
<1>4. lastStored' = IF setting' # NoRow /\ setting'.id > lastStored THEN setting'.id ELSE lastStored
  BY DEF Saves
<1> QED BY <1>1, <1>3, <1>4

LEMMA ContentsTypesKeep ==
    ASSUME SavesInv, PagesInv, ContentsTypeOK, [ContentsNext]_contentVars, SavesInv', PagesInv'
    PROVE  ContentsTypeOK'
<1>1. SavesTypeOK' /\ (There \subseteq 1..lastItem)' /\ moved' \in Nat
  BY DEF SavesInv, PagesInv, ListTypeOK
<1>2. CASE UNCHANGED contentVars
  BY <1>2 DEF contentVars, savingVars, itemVars, listVars, ContentsTypeOK, There
<1>3. /\ mayBe \subseteq Orders \cup {AtDefault} /\ reordered \in BOOLEAN /\ lastItem \in 0..MaxItems
      /\ items \in [There -> Labels] /\ list \in List \cup {NoList} /\ (setting # NoRow => setting.id <= lastStored)
  BY ContentsAssumption DEF ContentsTypeOK, ItemIds
\* What of the types the steps have to keep beside what the invariants say.
<1>4. SUFFICES ASSUME ContentsNext
      PROVE  /\ mayBe' \subseteq Orders \cup {AtDefault} /\ reordered' \in BOOLEAN /\ lastItem' \in 0..MaxItems
             /\ items' \in [DOMAIN items' -> Labels] /\ list' \in List \cup {NoList}
             /\ setting' # NoRow => setting'.id <= lastStored'
  BY <1>1, <1>2, ContentsAssumption DEF ContentsTypeOK, SavesTypeOK, There, ItemIds
<1>5. DOMAIN items = There /\ There \subseteq 1..lastItem /\ lastItem \in Nat
  BY <1>3, ContentsAssumption DEF There, ContentsTypeOK
<1>6. ASSUME NEW r \in Requests, Saves(r)
      PROVE  /\ mayBe' \subseteq Orders \cup {AtDefault} /\ reordered' \in BOOLEAN /\ lastItem' \in 0..MaxItems
             /\ items' \in [DOMAIN items' -> Labels] /\ list' \in List \cup {NoList}
             /\ setting' # NoRow => setting'.id <= lastStored'
  <2>1. setting' # NoRow => setting'.id <= lastStored'
    BY <1>1, <1>6, NewRowIs
  <2>2. save[r] \in Save /\ meanwhile[r] \subseteq Orders \cup {AtDefault}
    BY <1>6 DEF ContentsTypeOK, Saves
  <2>3. mayBe' \subseteq Orders \cup {AtDefault}
    BY <1>6, <2>2 DEF Saves, Save
  <2>4. UNCHANGED <<items, lastItem, list, reordered>>
    BY <1>6 DEF Saves, itemVars, listVars
  <2> QED BY <1>3, <1>5, <2>1, <2>3, <2>4
<1>7. ASSUME \/ \E r \in Requests : SaveFails(r) \/ \E v \in Orders \cup {AtDefault} : BeginsSave(r, v)
             \/ \E C \in Offers : Deploys(C)
      PROVE  UNCHANGED <<mayBe, reordered, lastItem, items, list, setting, lastStored>>
  BY <1>7 DEF SaveFails, Deploys, BeginsSave, itemVars, listVars
<1>8. ASSUME NEW n \in Labels, AddsItem(n)
      PROVE  /\ lastItem' \in 0..MaxItems /\ items' \in [DOMAIN items' -> Labels]
             /\ UNCHANGED <<mayBe, reordered, list, setting, lastStored>>
  <2>1. /\ lastItem < MaxItems /\ lastItem' = lastItem + 1
        /\ items' = [i \in There \cup {lastItem + 1} |-> IF i = lastItem + 1 THEN n ELSE items[i]]
        /\ UNCHANGED <<mayBe, reordered, list, setting, lastStored>>
    BY <1>8 DEF AddsItem, savingVars, listVars
  <2>2. lastItem' \in 0..MaxItems
    BY <1>3, <2>1, ContentsAssumption
  <2>3. items' \in [DOMAIN items' -> Labels]
    BY <1>3, <2>1
  <2> QED BY <2>1, <2>2, <2>3
<1>9. ASSUME NEW n \in Labels, NEW i \in ItemIds, RenamesItem(i, n)
      PROVE  items' \in [DOMAIN items' -> Labels] /\ UNCHANGED <<lastItem, mayBe, reordered, list, setting, lastStored>>
  BY <1>3, <1>5, <1>9 DEF RenamesItem, savingVars
<1>10. ASSUME NEW i \in ItemIds, RemovesItem(i)
       PROVE  items' \in [DOMAIN items' -> Labels] /\ UNCHANGED <<lastItem, mayBe, reordered, list, setting, lastStored>>
  BY <1>3, <1>5, <1>10 DEF RemovesItem, savingVars
<1>11. ASSUME NEW p \in 0..MaxItems
       PROVE  Page(OrderInForce, p) \in SUBSET ItemIds /\ There \in SUBSET ItemIds /\ Cardinality(There) \in 0..MaxItems
  <2>1. There \subseteq 1..MaxItems
    BY <1>3, <1>5, ContentsAssumption
  <2>2. Cardinality(There) \in 0..MaxItems
    BY <2>1, ContentsAssumption, CountedTo
  <2>3. Page(OrderInForce, p) \subseteq There
    BY DEF Page
  <2> QED BY <2>1, <2>2, <2>3 DEF ItemIds
<1>12. OrderInForce \in Orders /\ MaxItems \in Nat /\ ItemsPerPage \in Nat \ {0}
  BY OrderIs, ContentsAssumption
<1>13. CASE OpensList
  <2>1. 0 \in 0..MaxItems
    BY <1>12
  <2>2. list' \in List
    BY <1>11, <1>12, <1>13, <2>1 DEF OpensList, List
  <2>3. UNCHANGED <<mayBe, lastItem, items, setting, lastStored>> /\ reordered' = FALSE
    BY <1>13 DEF OpensList, savingVars, itemVars
  <2> QED BY <1>3, <1>5, <2>2, <2>3
<1>14. CASE TurnsToNext
  <2>1. list \in List /\ HasNext(list)
    BY <1>3, <1>14 DEF TurnsToNext
  <2>2. PICK p \in Nat : p = list.page + 1
    BY <2>1 DEF List
  <2>3. PICK total \in 0..MaxItems : total = list.total
    BY <2>1 DEF List
  <2>4. p * ItemsPerPage < total
    BY <2>1, <2>2, <2>3 DEF HasNext
  <2>5. p <= total
    <3>1. total \in Nat
      BY <1>12
    <3> QED BY <1>12, <2>4, <3>1, PagesAreFewer
  <2>6. p \in 0..MaxItems
    BY <1>12, <2>5
  <2>7. PICK page \in SUBSET ItemIds : page = Page(OrderInForce, p)
    BY <1>11, <2>6
  <2>8. PICK count \in 0..MaxItems : count = Cardinality(There)
    BY <1>11, <2>6
  <2>9. list' = [list EXCEPT !.page = p, !.total = count, !.seen = list.seen \cup page]
    BY <1>14, <2>2, <2>7, <2>8 DEF TurnsToNext
  <2>10. list' \in List
    BY <2>1, <2>6, <2>9 DEF List
  <2>11. UNCHANGED <<mayBe, lastItem, items, setting, lastStored>>
    BY <1>14 DEF TurnsToNext, savingVars, itemVars
  <2>12. reordered' \in BOOLEAN
    BY <1>14 DEF TurnsToNext
  <2> QED BY <1>3, <1>5, <2>10, <2>11, <2>12
<1>15. CASE ClosesList
  BY <1>3, <1>5, <1>15 DEF ClosesList, savingVars, itemVars
<1> QED BY <1>3, <1>4, <1>5, <1>6, <1>7, <1>8, <1>9, <1>10, <1>13, <1>14, <1>15 DEF ContentsNext

\* What the invariant says of a database, but for what bounds the containers killed.
LEMMA UpgradesTyped ==
    ASSUME UpgradesInv, crashes \in 0..MaxCrashes, made \subseteq MakeTables
    PROVE  UpgradesTypeOK
<1>1. /\ version \in 0..9 /\ Newest = 9 /\ Sound(before.db, db, version, Returned) /\ (before.version = 0 => People(before.db) = {})
      /\ before.version \in 0..version
  BY ChainIs DEF UpgradesInv
<1>2. /\ (run # NoRun => version < Newest /\ run = WrittenBy(Revision, db)) /\ (recovered => version = Newest)
      /\ stuck \in BOOLEAN /\ served \in BOOLEAN /\ recovered \in BOOLEAN
  BY DEF UpgradesInv
<1>3. ASSUME NEW d, Shaped(d), d.handed \subseteq DOMAIN d.roles PROVE Consistent(d)
  BY <1>3 DEF Shaped, Consistent
<1>4. PICK b : b = before.db
  OBVIOUS
<1>5. PICK d : d = db
  OBVIOUS
<1>6. PICK v \in 0..9 : v = version
  BY <1>1
<1>7. PICK R : R = Returned
  OBVIOUS
<1>8. Sound(b, d, v, R)
  BY <1>1, <1>4, <1>5, <1>6, <1>7
<1>9. Consistent(d)
  BY <1>3, <1>8, SoundIsDatabase
<1>10. ASSUME run # NoRun PROVE Consistent(run)
  <2>1. v # 9 /\ v # Newest
    BY <1>1, <1>2, <1>6, <1>10
  <2>2. v \in 0..8
    BY <1>6, <2>1
  <2>3. R = {}
    BY <1>2, <1>6, <1>7, <2>1 DEF Returned
  <2>4. PICK n \in 0..9 : n = v + 1
    BY <2>2
  <2>5. PICK e : e = WrittenBy(Chain[n], d)
    OBVIOUS
  <2>6. v = 0 => People(b) = {}
    BY <1>1, <1>4, <1>6
  <2>7. Sound(b, d, v, {})
    BY <1>8, <2>3
  <2>8. Sound(b, e, n, {})
    BY <2>2, <2>4, <2>5, <2>6, <2>7, RevisionIsSound
  <2>9. PICK S : S = {}
    OBVIOUS
  <2>10. Sound(b, e, n, S)
    BY <2>8, <2>9
  <2>11. Consistent(e)
    BY <1>3, <2>10, SoundIsDatabase
  <2>12. run = e
    BY <1>2, <1>5, <1>6, <1>10, <2>4, <2>5 DEF Revision
  <2> QED BY <2>11, <2>12
<1> QED BY <1>1, <1>2, <1>5, <1>9, <1>10 DEF UpgradesTypeOK

LEMMA UpgradesTypesKeep ==
    ASSUME UpgradesInv, UpgradesTypeOK, [UpgradesNext]_upgradeVars, UpgradesInv'
    PROVE  UpgradesTypeOK' /\ now' = now
<1>1. crashes \in 0..MaxCrashes /\ made \subseteq MakeTables /\ MaxCrashes \in Nat
  BY UpgradesAssumption DEF UpgradesTypeOK
<1>2. crashes' \in 0..MaxCrashes /\ made' \subseteq MakeTables /\ now' = now
  <2>1. CASE BeginRevision
    <3>1. crashes' = crashes /\ made' = made \cup ({Revision} \cap MakeTables) /\ now' = now
      BY <2>1 DEF BeginRevision
    <3> QED BY <1>1, <3>1
  <2>2. CASE AlterContents \/ EndRevision \/ Serve \/ Recover
    <3>1. crashes' = crashes /\ made' = made /\ now' = now
      BY <2>2 DEF AlterContents, EndRevision, Serve, Recover
    <3> QED BY <1>1, <3>1
  <2>3. CASE Killed
    <3>1. crashes < MaxCrashes /\ crashes' = crashes + 1 /\ made' = made /\ now' = now
      BY <2>3 DEF Killed
    <3> QED BY <1>1, <3>1
  <2>4. CASE UNCHANGED upgradeVars
    <3>1. crashes' = crashes /\ made' = made /\ now' = now
      BY <2>4 DEF upgradeVars
    <3> QED BY <1>1, <3>1
  <2> QED BY <2>1, <2>2, <2>3, <2>4 DEF UpgradesNext
<1>3. UpgradesInv' /\ (crashes \in 0..MaxCrashes)' /\ (made \subseteq MakeTables)' => UpgradesTypeOK'
  BY UpgradesTyped, PTL
<1> QED BY <1>2, <1>3

\* The components begin with their types.
LEMMA TypesBegin == SuiteInit => AccountsTypeOK
<1> SUFFICES ASSUME SuiteInit PROVE AccountsTypeOK
  OBVIOUS
<1>1. ThrottleTypeOK /\ TwoFactorTypeOK /\ PasskeysTypeOK /\ LinksTypeOK
  <2>1. ThrottleInit /\ TwoFactorInit /\ PasskeysInit /\ LinksInit
    BY DEF SuiteInit
  <2> QED BY <2>1, ThrottleInitInv, TwoFactorInitInv, PasskeysInitInv, LinksInitInv
          DEF ThrottleInv, TwoFactorInv, PasskeysInv, LinksInv
<1>2. NotificationsTypeOK /\ GatesTypeOK
  <2>1. NotificationsInit /\ GatesInit
    BY DEF SuiteInit
  <2> QED BY <2>1, NotificationsInitInv, GatesInitInv DEF NotificationsInv, GatesInv, GatesFit, GatesShape
<1>3. LogPagesTypeOK
  <2>1. LogPagesInit
    BY DEF SuiteInit
  <2>2. LogRetentionTypeOK /\ oldest \in -MaxDays..MaxTime
    BY <2>1, LogPagesInitInv DEF LogPagesInv, RetentionInv, ReadingKnowsCutoffs
  <2>3. seat \in [Users -> TenantIds \cup {Whole}] /\ reading = NoReading
    BY <2>1 DEF LogPagesInit
  <2>4. tenantOfRow \in [1..written -> TenantIds \cup {Whole}]
    <3>1. written = 0 /\ tenantOfRow = [i \in {} |-> Whole] /\ 1..0 = {}
      BY <2>1 DEF LogPagesInit, LogRetentionInit
    <3> QED BY <3>1
  <2> QED BY <2>2, <2>3, <2>4 DEF LogPagesTypeOK
<1>4. ContentsTypeOK
  <2>1. ContentsInit
    BY DEF SuiteInit
  <2>2. SavesTypeOK /\ moved \in Nat
    BY <2>1, SavesInitInv, PagesInitInv DEF SavesInv, PagesInv, ListTypeOK
  <2>3. /\ setting = NoRow /\ items = [i \in {} |-> 0] /\ lastItem = 0 /\ list = NoList
        /\ mayBe = {AtDefault} /\ reordered = FALSE
    BY <2>1 DEF ContentsInit
  <2>4. items \in [There -> Labels] /\ There \subseteq 1..lastItem
    BY <2>3 DEF There
  <2> QED BY <2>2, <2>3, <2>4 DEF ContentsTypeOK, SavesTypeOK
<1>5. UpgradesTypeOK
  <2>1. UpgradesInit
    BY DEF SuiteInit
  <2>2. crashes \in 0..MaxCrashes /\ made \subseteq MakeTables
    BY <2>1, UpgradesAssumption DEF UpgradesInit
  <2> QED BY <2>1, <2>2, UpgradesStart, UpgradesTyped
<1> QED BY <1>1, <1>2, <1>3, <1>4, <1>5 DEF AccountsTypeOK

LEMMA SignInScenesStay ==
    ASSUME [SuiteNext]_suiteVars
    PROVE  /\ scene = "throttle" => [ThrottleNext]_throttleVars
           /\ scene = "two_factor" => [TwoFactorNext]_twoFactorVars
           /\ scene = "passkeys" => [PasskeysNext]_passkeyVars
           /\ scene = "links" => [LinksNext]_linkVars
           /\ scene # "throttle" => UNCHANGED throttleOnly
           /\ scene # "two_factor" => UNCHANGED twoFactorOnly
           /\ scene # "passkeys" => UNCHANGED passkeysOnly
           /\ scene # "links" => UNCHANGED linksOnly
<1>1. CASE UNCHANGED suiteVars
  <2>1. UNCHANGED <<throttleVars, twoFactorVars, passkeyVars, linkVars>>
    BY <1>1 DEF suiteVars
  <2>2. UNCHANGED throttleOnly
    BY <2>1 DEF throttleVars, throttleOnly
  <2>3. UNCHANGED twoFactorOnly
    BY <2>1 DEF twoFactorVars, twoFactorOnly
  <2>4. UNCHANGED passkeysOnly
    BY <2>1 DEF passkeyVars, passkeysOnly
  <2>5. UNCHANGED linksOnly
    BY <2>1 DEF linkVars, linksOnly
  <2> QED BY <2>1, <2>2, <2>3, <2>4, <2>5
<1>2. CASE ThrottleScene
  BY <1>2 DEF ThrottleScene
<1>3. CASE TwoFactorScene
  BY <1>3 DEF TwoFactorScene
<1>4. CASE PasskeysScene
  BY <1>4 DEF PasskeysScene
<1>5. CASE LinksScene
  BY <1>5 DEF LinksScene
<1>6. CASE NotificationsScene
  BY <1>6 DEF NotificationsScene
<1>7. CASE GatesScene
  BY <1>7 DEF GatesScene
<1>8. CASE PagesScene
  BY <1>8 DEF PagesScene
<1>9. CASE ContentsScene
  BY <1>9 DEF ContentsScene
<1>10. CASE UpgradesScene
  BY <1>10 DEF UpgradesScene
<1> QED BY <1>1, <1>2, <1>3, <1>4, <1>5, <1>6, <1>7, <1>8, <1>9, <1>10 DEF SuiteNext

\* In its scene a component has its own inductive invariant, in the others its types.
AccountsInv ==
    /\ scene \in {"throttle", "two_factor", "passkeys", "links", "notifications", "gates", "pages", "contents", "upgrades"}
    /\ scene = "throttle" => ThrottleInv
    /\ scene = "two_factor" => TwoFactorInv
    /\ scene = "passkeys" => PasskeysInv
    /\ scene = "links" => LinksInv
    /\ scene = "notifications" => NotificationsInv
    /\ scene = "gates" => GatesInv
    /\ scene # "gates" => cards = {}
    /\ scene = "pages" => LogPagesInv
    /\ scene = "contents" => SavesInv /\ PagesInv
    /\ scene = "upgrades" => UpgradesInv
    /\ now \in Time /\ AccountsTypeOK

LEMMA AccountsBegin == SuiteInit => AccountsInv
<1> SUFFICES ASSUME SuiteInit PROVE AccountsInv
  OBVIOUS
<1>1. /\ ThrottleInit /\ TwoFactorInit /\ PasskeysInit /\ LinksInit /\ NotificationsInit
      /\ GatesInit /\ LogPagesInit /\ ContentsInit /\ UpgradesInit
      /\ scene \in {"throttle", "two_factor", "passkeys", "links", "notifications", "gates", "pages", "contents", "upgrades"}
  BY DEF SuiteInit
<1>2. ThrottleInv /\ TwoFactorInv /\ PasskeysInv /\ LinksInv
  BY <1>1, ThrottleInitInv, TwoFactorInitInv, PasskeysInitInv, LinksInitInv
<1>3. NotificationsInv /\ GatesInv /\ LogPagesInv /\ SavesInv /\ PagesInv /\ UpgradesInv
  BY <1>1, NotificationsInitInv, GatesInitInv, LogPagesInitInv, SavesInitInv, PagesInitInv, UpgradesStart
<1>4. cards = {}
  BY <1>1 DEF GatesInit
<1>5. now \in Time
  BY <1>2 DEF ThrottleInv, ThrottleTypeOK
<1>6. AccountsTypeOK
  BY TypesBegin
<1> QED BY <1>1, <1>2, <1>3, <1>4, <1>5, <1>6 DEF AccountsInv

\* The sign-ins.
LEMMA SignInTypesKeep ==
    ASSUME AccountsInv, [SuiteNext]_suiteVars
    PROVE  /\ scene = "throttle" => ThrottleInv' /\ now' \in Time
           /\ scene = "two_factor" => TwoFactorInv' /\ now' \in Time
           /\ scene = "passkeys" => PasskeysInv' /\ now' \in Time
           /\ scene = "links" => LinksInv' /\ now' \in Time
           /\ now' \in Time => ThrottleTypeOK' /\ TwoFactorTypeOK' /\ PasskeysTypeOK' /\ LinksTypeOK'
<1>1. scene = "throttle" => ThrottleInv'
  <2>1. scene = "throttle" => ThrottleInv /\ [ThrottleNext]_throttleVars
    BY SignInScenesStay DEF AccountsInv
  <2> QED BY <2>1, ThrottleStep
<1>2. scene = "two_factor" => TwoFactorInv'
  <2>1. scene = "two_factor" => TwoFactorInv /\ [TwoFactorNext]_twoFactorVars
    BY SignInScenesStay DEF AccountsInv
  <2> QED BY <2>1, TwoFactorStep
<1>3. scene = "passkeys" => PasskeysInv'
  <2>1. scene = "passkeys" => PasskeysInv /\ [PasskeysNext]_passkeyVars
    BY SignInScenesStay DEF AccountsInv
  <2> QED BY <2>1, PasskeysStep
<1>4. scene = "links" => LinksInv'
  <2>1. scene = "links" => LinksInv /\ [LinksNext]_linkVars
    BY SignInScenesStay DEF AccountsInv
  <2> QED BY <2>1, LinksStep
<1>5. ThrottleTypeOK /\ TwoFactorTypeOK /\ PasskeysTypeOK /\ LinksTypeOK
  BY DEF AccountsInv, AccountsTypeOK
<1>6. scene = "throttle" => ThrottleTypeOK'
  BY <1>1 DEF ThrottleInv
<1>7. scene = "two_factor" => TwoFactorTypeOK'
  BY <1>2 DEF TwoFactorInv
<1>8. scene = "passkeys" => PasskeysTypeOK'
  BY <1>3 DEF PasskeysInv
<1>9. scene = "links" => LinksTypeOK'
  BY <1>4 DEF LinksInv
<1>10. scene # "throttle" /\ now' \in Time => ThrottleTypeOK'
  BY <1>5, SignInScenesStay DEF throttleOnly, ThrottleTypeOK
<1>11. scene # "two_factor" /\ now' \in Time => TwoFactorTypeOK'
  BY <1>5, SignInScenesStay DEF twoFactorOnly, TwoFactorTypeOK
<1>12. scene # "passkeys" /\ now' \in Time => PasskeysTypeOK'
  BY <1>5, SignInScenesStay DEF passkeysOnly, PasskeysTypeOK
<1>13. scene # "links" /\ now' \in Time => LinksTypeOK'
  BY <1>5, SignInScenesStay DEF linksOnly, LinksTypeOK
<1>14. (ThrottleTypeOK' \/ TwoFactorTypeOK' \/ PasskeysTypeOK' \/ LinksTypeOK') => now' \in Time
  BY DEF ThrottleTypeOK, TwoFactorTypeOK, PasskeysTypeOK, LinksTypeOK
<1> QED BY <1>1, <1>2, <1>3, <1>4, <1>6, <1>7, <1>8, <1>9, <1>10, <1>11, <1>12, <1>13, <1>14

\* What people are shown, and what they may do.
LEMMA ScenesTypesKeep ==
    ASSUME AccountsInv, [SuiteNext]_suiteVars
    PROVE  /\ scene = "notifications" => NotificationsInv' /\ now' = now
           /\ scene = "gates" => GatesInv' /\ now' \in Time
           /\ scene # "gates" => cards' = {}
           /\ scene = "pages" => LogPagesInv' /\ now' \in Time
           /\ scene = "contents" => SavesInv' /\ PagesInv' /\ now' = now
           /\ scene = "upgrades" => UpgradesInv' /\ now' = now
           /\ NotificationsTypeOK' /\ GatesTypeOK' /\ LogPagesTypeOK' /\ ContentsTypeOK' /\ UpgradesTypeOK'
<1>1. NotificationsTypeOK /\ GatesTypeOK /\ LogPagesTypeOK /\ ContentsTypeOK /\ UpgradesTypeOK
  BY DEF AccountsInv, AccountsTypeOK
<1>2. (scene = "notifications" => NotificationsInv' /\ now' = now) /\ NotificationsTypeOK'
  <2>1. CASE scene = "notifications"
    <3>1. NotificationsInv /\ [NotificationsNext]_notificationVars
      BY <2>1, SceneStays DEF AccountsInv
    <3>2. now' = now
      <4>1. ASSUME NEW r \in Requests, Registers(r) \/ \E u \in Users, d \in Devices : AsksToRegister(r, u, d)
            PROVE  now' = now
        BY <4>1 DEF Registers, AsksToRegister
      <4>2. ASSUME NEW u \in Users, MarkAllRead(u) \/ \E d \in Devices : Unregisters(u, d) PROVE now' = now
        BY <4>2 DEF MarkAllRead, Unregisters
      <4>3. ASSUME NEW m \in Messages,
                   \/ \E to \in SUBSET Users, push \in BOOLEAN : SendNotification(m, to, push)
                   \/ ListsDevices(m) \/ GoesOn(m) \/ JobFails(m)
                   \/ \E u \in Users : MarkRead(m, u) \/ Dismiss(m, u)
            PROVE  now' = now
        BY <4>3 DEF SendNotification, ListsDevices, GoesOn, JobFails, MarkRead, Dismiss, ReadAs
      <4>4. ASSUME NEW m \in Messages, NEW yes \in BOOLEAN, SendingEnds(m, yes) \/ \E x \in Addressee : Calls(m, x, yes)
            PROVE  now' = now
        BY <4>4 DEF SendingEnds, Calls
      <4>5. UNCHANGED notificationVars => now' = now
        BY DEF notificationVars
      <4> QED BY <3>1, <4>1, <4>2, <4>3, <4>4, <4>5 DEF NotificationsNext
    <3>3. NotificationsInv'
      BY <3>1, NotificationsStep
    <3> QED BY <3>2, <3>3 DEF NotificationsInv
  <2>2. CASE scene # "notifications"
    <3>1. UNCHANGED notificationsOnly
      BY <2>2, SceneStays
    <3> QED BY <1>1, <2>2, <3>1 DEF notificationsOnly, NotificationsTypeOK, Pushing
  <2> QED BY <2>1, <2>2
<1>3. (scene = "gates" => GatesInv' /\ now' \in Time) /\ (scene # "gates" => cards' = {}) /\ GatesTypeOK'
  <2>1. CASE scene = "gates"
    <3>1. GatesInv /\ [GatesNext]_gateVars
      BY <2>1, SceneStays DEF AccountsInv
    <3>2. GatesInv'
      BY <3>1, GatesNextInv
    <3> QED BY <2>1, <3>2 DEF GatesInv, GatesFit, GatesShape
  <2>2. CASE scene # "gates"
    <3>1. cards = {} /\ UNCHANGED gatesOnly
      BY <2>2, SceneStays DEF AccountsInv
    <3>2. cards' = {}
      BY <3>1 DEF gatesOnly
    <3> QED BY <1>1, <2>2, <3>1, <3>2 DEF gatesOnly, GatesTypeOK
  <2> QED BY <2>1, <2>2
<1>4. (scene = "pages" => LogPagesInv' /\ now' \in Time) /\ LogPagesTypeOK'
  <2>1. CASE scene = "pages"
    <3>1. LogPagesInv /\ [LogPagesNext]_pageVars
      BY <2>1, SceneStays DEF AccountsInv
    <3>2. LogPagesInv'
      BY <3>1, LogPagesStep
    <3>3. LogPagesTypeOK'
      BY <1>1, <3>1, <3>2, LogPagesTypesKeep
    <3> QED BY <3>2, <3>3 DEF LogPagesInv, RetentionInv
  <2>2. CASE scene # "pages"
    <3>1. UNCHANGED pagesOnly
      BY <2>2, SceneStays
    <3> QED BY <1>1, <2>2, <3>1 DEF pagesOnly, LogPagesTypeOK, LogRetentionTypeOK
  <2> QED BY <2>1, <2>2
<1>5. (scene = "contents" => SavesInv' /\ PagesInv' /\ now' = now) /\ ContentsTypeOK'
  <2>1. CASE scene = "contents"
    <3>1. SavesInv /\ PagesInv /\ [ContentsNext]_contentVars
      BY <2>1, SceneStays DEF AccountsInv
    <3>2. SavesInv' /\ PagesInv'
      BY <3>1, SavesStep, PagesStep
    <3>3. ContentsTypeOK'
      BY <1>1, <3>1, <3>2, ContentsTypesKeep
    <3>4. now' = now
      BY <3>1 DEF ContentsNext, contentVars, OpensList, TurnsToNext, ClosesList, Saves, SaveFails, BeginsSave, Deploys,
                  AddsItem, RenamesItem, RemovesItem
    <3> QED BY <3>2, <3>3, <3>4
  <2>2. CASE scene # "contents"
    <3>1. UNCHANGED <<savingVars, itemVars, listVars>>
      BY <2>2, SceneStays DEF contentsOnly
    <3> QED BY <1>1, <2>2, <3>1 DEF savingVars, itemVars, listVars, ContentsTypeOK, There
  <2> QED BY <2>1, <2>2
<1>6. (scene = "upgrades" => UpgradesInv' /\ now' = now) /\ UpgradesTypeOK'
  <2>1. CASE scene = "upgrades"
    <3>1. UpgradesInv /\ [UpgradesNext]_upgradeVars
      BY <2>1, SceneStays DEF AccountsInv
    <3>2. UpgradesInv'
      BY <3>1, UpgradesStep
    <3> QED BY <1>1, <3>1, <3>2, UpgradesTypesKeep
  <2>2. CASE scene # "upgrades"
    <3>1. UNCHANGED upgradesOnly
      BY <2>2, SceneStays
    <3>2. /\ version' = version /\ db' = db /\ run' = run /\ made' = made /\ stuck' = stuck /\ served' = served
          /\ recovered' = recovered /\ crashes' = crashes
      BY <3>1 DEF upgradesOnly
    <3> QED BY <1>1, <2>2, <3>2 DEF UpgradesTypeOK
  <2> QED BY <2>1, <2>2
<1> QED BY <1>2, <1>3, <1>4, <1>5, <1>6

LEMMA AccountsKeep == AccountsInv /\ [SuiteNext]_suiteVars => AccountsInv'
<1> SUFFICES ASSUME AccountsInv, [SuiteNext]_suiteVars PROVE AccountsInv'
  OBVIOUS
<1>1. /\ now \in Time /\ scene' = scene
      /\ scene \in {"throttle", "two_factor", "passkeys", "links", "notifications", "gates", "pages", "contents", "upgrades"}
  BY SceneStays DEF AccountsInv
<1>2. now' \in Time
  BY <1>1, SignInTypesKeep, ScenesTypesKeep
<1>3. AccountsTypeOK'
  BY <1>2, SignInTypesKeep, ScenesTypesKeep DEF AccountsTypeOK
<1> QED BY <1>1, <1>2, <1>3, SignInTypesKeep, ScenesTypesKeep DEF AccountsInv

\* The rows and requests around a person's account have their types, whichever of the
\* components is played: a throttle's counters, second factors, passkeys, links, pushes,
\* tokens, logs, the contents' setting and the databases an upgrade passes through.
THEOREM AccountsTypes == SuiteSpec => []AccountsTypeOK
<1>1. AccountsInv => AccountsTypeOK
  BY DEF AccountsInv
<1> QED BY AccountsBegin, AccountsKeep, <1>1, PTL DEF SuiteSpec

=============================================================================
