-------------------------- MODULE OperationsProofs --------------------------
(***************************************************************************)
(* Proofs about running the service: restarts, the remembered release, the  *)
(* tokens the service gets for itself, the settings that are saved and the   *)
(* rows a request leaves in the logs, for any number of workers, requests    *)
(* and tokens and for any times; and about the suite they are played in,     *)
(* with what people share.                                                  *)
(***************************************************************************)
EXTENDS MCOperations, TenantsProofs

USE ServiceAssumption

-----------------------------------------------------------------------------
(* Restarts.                                                                *)

\* A worker that serves compares with the request its settings are from, with one
\* that came just after, or with none; and none has read or seen a request to come.
BaselinesAreReadings ==
    \A w \in Workers :
        /\ readAt[w] <= token /\ seen[w] <= token
        /\ worker[w].state = "booting" => seen[w] = readAt[w]
        /\ worker[w].state = "up" => worker[w].baseline \in {NoToken, readAt[w], between[w]}

\* While the parent lives, a worker that would end it has a request for that.
EndingIsDue ==
    ~Ending => \A w \in Workers :
        Watching(w) /\ ShouldRestart(w) => restarts + 1 <= token + unread

RestartsInv ==
    RestartsTypeOK /\ BaselinesAreReadings /\ EndingIsDue /\ NobodyIsLeftBehind /\ OneRestartPerRequest

LEMMA RestartsInitInv == RestartsInit => RestartsInv
<1> SUFFICES ASSUME RestartsInit PROVE RestartsInv
  OBVIOUS
<1>1. \A w \in Workers : worker[w] = Down /\ readAt[w] = 0 /\ seen[w] = 0 /\ between[w] = 0
  BY DEF RestartsInit, NoToken
<1>2. Down \in Worker /\ 0 \in Tokens /\ Down.state = "down"
  BY RestartsAssumption DEF Down, Worker, Tokens, NoToken
<1>3. RestartsTypeOK
  <2>1. /\ token \in Tokens /\ worker \in [Workers -> Worker] /\ parent \in {"running", "ending"}
        /\ restarts \in Nat /\ unread \in 0..MaxUnread
    BY <1>2, RestartsAssumption DEF RestartsInit, NoToken
  <2>2. readAt \in [Workers -> Tokens] /\ seen \in [Workers -> Tokens] /\ between \in [Workers -> Tokens]
    BY <1>2 DEF RestartsInit, NoToken
  <2>3. \A w \in Workers : worker[w].state # "told"
    BY <1>1, <1>2
  <2> QED BY <2>1, <2>2, <2>3 DEF RestartsTypeOK
<1>4. BaselinesAreReadings /\ EndingIsDue /\ NobodyIsLeftBehind
  BY <1>1, <1>2 DEF RestartsInit, BaselinesAreReadings, EndingIsDue, NobodyIsLeftBehind, Watching, NoToken
<1>5. OneRestartPerRequest
  BY DEF RestartsInit, OneRestartPerRequest, NoToken, Ending
<1> QED BY <1>3, <1>4, <1>5 DEF RestartsInv

LEMMA RestartsStep ==
    ASSUME RestartsInv, [RestartsNext]_restartVars
    PROVE  RestartsInv'
<1> USE RestartsAssumption DEF RestartsInv, RestartsTypeOK, Tokens, Worker, NoToken, Ending
<1> SUFFICES /\ RestartsTypeOK' /\ BaselinesAreReadings' /\ EndingIsDue'
             /\ NobodyIsLeftBehind' /\ OneRestartPerRequest'
  OBVIOUS
<1>1. CASE UNCHANGED restartVars
  BY <1>1 DEF restartVars, BaselinesAreReadings, EndingIsDue, NobodyIsLeftBehind,
              OneRestartPerRequest, Watching, ShouldRestart
<1>2. CASE RequestRestart
  <2>1. /\ token' = token + 1 /\ token + 1 \in Tokens
        /\ UNCHANGED <<worker, parent, restarts, unread, readAt, seen, between>>
    BY <1>2 DEF RequestRestart
  <2>2. RestartsTypeOK'
    BY <2>1
  <2>3. BaselinesAreReadings' /\ NobodyIsLeftBehind' /\ OneRestartPerRequest'
    BY <2>1 DEF BaselinesAreReadings, NobodyIsLeftBehind, OneRestartPerRequest, Watching
  <2>4. EndingIsDue'
    BY <2>1 DEF EndingIsDue, OneRestartPerRequest
  <2> QED BY <2>2, <2>3, <2>4
<1>3. CASE ContainerRestarts
  <2>1. /\ Ending /\ parent' = "running" /\ restarts' = restarts + 1
        /\ UNCHANGED <<token, unread, readAt, seen, between>>
        /\ worker' = [w \in Workers |-> Down]
    BY <1>3 DEF ContainerRestarts
  <2>2. Down \in Worker /\ \A w \in Workers : worker'[w].state = "down"
    BY <2>1 DEF Down
  <2>3. RestartsTypeOK'
    BY <2>1, <2>2
  <2>4. BaselinesAreReadings' /\ EndingIsDue' /\ NobodyIsLeftBehind'
    BY <2>1, <2>2 DEF BaselinesAreReadings, EndingIsDue, NobodyIsLeftBehind, Watching
  <2>5. OneRestartPerRequest'
    BY <2>1 DEF OneRestartPerRequest
  <2> QED BY <2>3, <2>4, <2>5
<1>4. ASSUME NEW w \in Workers, Boots(w)
      PROVE  RestartsInv'
  BY <1>4 DEF Boots, Down, BaselinesAreReadings, EndingIsDue, NobodyIsLeftBehind,
              OneRestartPerRequest, Watching, ShouldRestart
<1>5. ASSUME NEW w \in Workers, NEW base \in {NoToken, token}, NEW more \in {0, 1},
             worker[w].state = "booting",
             between' = [between EXCEPT ![w] = IF base = readAt[w] THEN NoToken ELSE base],
             worker' = [worker EXCEPT ![w] = [state |-> "up", baseline |-> base]],
             unread + more <= MaxUnread, unread' = unread + more,
             base # token => more = 1,
             UNCHANGED <<token, parent, restarts, readAt, seen>>
      PROVE  RestartsInv'
  <2>1. seen[w] = readAt[w]
    BY <1>5 DEF BaselinesAreReadings
  <2>2. /\ restarts \in Int /\ token \in Int /\ unread \in Int
        /\ unread' = unread + more /\ restarts' = restarts /\ token' = token /\ parent' = parent
    BY <1>5
  <2>3. RestartsTypeOK'
    BY <1>5, <2>1
  <2>4. BaselinesAreReadings'
    BY <1>5, <2>1 DEF BaselinesAreReadings
  <2>5. EndingIsDue'
    <3> SUFFICES ASSUME ~Ending, NEW v \in Workers, Watching(v)', ShouldRestart(v)'
                 PROVE  restarts + 1 <= token + unread'
      BY <1>5 DEF EndingIsDue
    <3>1. CASE v = w
      <4>1. base # token
        BY <1>5, <3>1 DEF ShouldRestart
      <4>2. restarts <= token + unread
        BY DEF OneRestartPerRequest
      <4>3. unread' = unread + 1
        BY <1>5, <4>1
      <4> QED BY <2>2, <4>2, <4>3
    <3>2. CASE v # w
      <4>1. Watching(v) /\ ShouldRestart(v)
        BY <1>5, <3>2 DEF Watching, ShouldRestart
      <4>2. restarts + 1 <= token + unread
        BY <4>1 DEF EndingIsDue
      <4> QED BY <2>2, <4>2
    <3> QED BY <3>1, <3>2
  <2>6. NobodyIsLeftBehind'
    BY <1>5, <2>1 DEF NobodyIsLeftBehind, Watching
  <2>7. OneRestartPerRequest'
    BY <2>2 DEF OneRestartPerRequest
  <2> QED BY <2>3, <2>4, <2>5, <2>6, <2>7
<1>6. ASSUME NEW w \in Workers, NEW known \in BOOLEAN, StartsWatching(w, known)
      PROVE  RestartsInv'
  <2>1. /\ worker[w].state = "booting"
        /\ worker' = [worker EXCEPT ![w] = [state |-> "up", baseline |-> Baseline(known)]]
        /\ UNCHANGED <<token, parent, restarts, readAt, seen>>
    BY <1>6 DEF StartsWatching
  <2>2. Baseline(known) \in {NoToken, token}
    BY DEF Baseline
  <2>3. CASE known
    <3>1. unread' = unread + 0 /\ unread + 0 <= MaxUnread /\ Baseline(known) = token
      BY <1>6, <2>3 DEF StartsWatching, Baseline
    <3>2. between' = [between EXCEPT ![w] = IF token = readAt[w] THEN NoToken ELSE token]
      <4>1. between' = [between EXCEPT ![w] = IF known /\ readAt[w] # token THEN token ELSE NoToken]
        BY <1>6 DEF StartsWatching
      <4> QED BY <2>3, <4>1
    <3> QED BY <1>5, <2>1, <2>2, <3>1, <3>2
  <2>4. CASE ~known
    <3>1. /\ unread' = unread + 1 /\ unread + 1 <= MaxUnread /\ Baseline(known) = NoToken
          /\ between' = [between EXCEPT ![w] = NoToken]
      BY <1>6, <2>4 DEF StartsWatching, Baseline
    <3> QED BY <1>5, <2>1, <2>2, <3>1
  <2> QED BY <2>3, <2>4
<1>7. ASSUME NEW w \in Workers, Polls(w)
      PROVE  RestartsInv'
  <2>1. /\ worker[w].state = "up" /\ seen' = [seen EXCEPT ![w] = token]
        /\ UNCHANGED <<token, restarts, unread, readAt, between>>
    BY <1>7 DEF Polls, Watching
  <2>2. CASE ShouldRestart(w)
    <3>1. worker' = [worker EXCEPT ![w] = Told(w)] /\ parent' = "ending" /\ token \in 1..token
      BY <1>7, <2>2 DEF Polls, ShouldRestart
    <3>2. RestartsTypeOK'
      BY <2>1, <3>1 DEF Told
    <3>3. BaselinesAreReadings'
      BY <2>1, <3>1 DEF BaselinesAreReadings, Told
    <3>4. OneRestartPerRequest'
      BY <2>1, <2>2, <3>1 DEF OneRestartPerRequest, EndingIsDue, Watching
    <3>5. EndingIsDue' /\ NobodyIsLeftBehind'
      BY <3>1 DEF EndingIsDue, NobodyIsLeftBehind
    <3> QED BY <3>2, <3>3, <3>4, <3>5
  <2>3. CASE ~ShouldRestart(w)
    <3>1. UNCHANGED <<worker, parent>>
      BY <1>7, <2>3 DEF Polls
    <3>2. readAt[w] >= token \/ between[w] = token
      BY <2>1, <2>3 DEF ShouldRestart, BaselinesAreReadings
    <3>3. BaselinesAreReadings' /\ NobodyIsLeftBehind'
      BY <2>1, <3>1, <3>2 DEF BaselinesAreReadings, NobodyIsLeftBehind, Watching
    <3>4. EndingIsDue' /\ OneRestartPerRequest' /\ RestartsTypeOK'
      BY <2>1, <3>1 DEF EndingIsDue, OneRestartPerRequest, Watching, ShouldRestart
    <3> QED BY <3>3, <3>4
  <2> QED BY <2>2, <2>3
<1>8. ASSUME NEW w \in Workers, Crashes(w)
      PROVE  RestartsInv'
  BY <1>8 DEF Crashes, Down, BaselinesAreReadings, EndingIsDue, NobodyIsLeftBehind,
              OneRestartPerRequest, Watching, ShouldRestart
<1> QED BY <1>1, <1>2, <1>3, <1>4, <1>6, <1>7, <1>8 DEF RestartsNext

\* The restarts an administrator asks for reach every worker that has looked
\* since, and cost one restart each, for any number of workers and requests.
THEOREM RestartsReachEveryWorker == RestartsSpec => []RestartsReachAll
<1>1. RestartsInv => RestartsReachAll
  BY DEF RestartsInv, RestartsReachAll
<1> QED BY RestartsInitInv, RestartsStep, <1>1, PTL DEF RestartsSpec

-----------------------------------------------------------------------------
(* LatestRelease.                                                           *)

\* The release that is named has not been replaced, and one that is remembered was
\* not when its time of life began, which is not to come.
RememberedWasLatest ==
    /\ \A v \in Releases : v >= published => replaced[v] = Never
    /\ remembered # NoAnswer => remembered.until <= now + AnswerTtl
    /\ remembered # NoAnswer /\ remembered.outcome = "told" =>
           \/ replaced[remembered.release] = Never
           \/ remembered.until <= replaced[remembered.release] + AnswerTtl

ReleaseTimes ==
    /\ now \in Time
    /\ \A r \in Requests : HoldsLock(r) => readings.at = query[r].since /\ query[r].since <= now
    /\ \A r \in Requests : answers[r] # NoAnswer => answers[r].at <= now

\* A failure is remembered for its time from the reading on.
FailureIsRemembered ==
    LockIsFree /\ readings.outcome = "failed" =>
        remembered # NoAnswer /\ remembered.until >= readings.at + FailureTtl

ReleaseInv ==
    /\ ReleaseTypeOK /\ RememberedWasLatest /\ ReleaseTimes
    /\ FailureIsRemembered /\ AnswersAreRecent /\ FailuresAreSpaced

LEMMA ReleaseInitInv == ReleaseInit => ReleaseInv
<1> SUFFICES ASSUME ReleaseInit PROVE ReleaseInv
  OBVIOUS
<1> USE LatestReleaseAssumption DEF ReleaseInit
<1>1. ReleaseTypeOK
  BY DEF ReleaseTypeOK, Releases, Query, Idle, Time, Never, HoldsLock, Outcomes
<1>2. RememberedWasLatest /\ AnswersAreRecent
  BY DEF RememberedWasLatest, AnswersAreRecent
<1>3. ReleaseTimes
  BY DEF ReleaseTimes, Idle, HoldsLock, Time
<1>4. FailureIsRemembered /\ FailuresAreSpaced
  BY DEF FailureIsRemembered, FailuresAreSpaced
<1> QED BY <1>1, <1>2, <1>3, <1>4 DEF ReleaseInv

LEMMA PublishesStep ==
    ASSUME ReleaseInv, Publishes
    PROVE  ReleaseInv'
<1> USE LatestReleaseAssumption DEF ReleaseInv, ReleaseTypeOK, Releases, Time, Never
<1>1. /\ published' = published + 1 /\ published + 1 \in Releases
      /\ replaced' = [replaced EXCEPT ![published] = now] /\ now \in Time
      /\ UNCHANGED <<now, remembered, query, answers, readings>>
  BY DEF Publishes, ReleaseTimes
<1>2. ReleaseTypeOK'
  BY <1>1 DEF HoldsLock
<1>3. RememberedWasLatest'
  <2>1. \A v \in Releases : v >= published' => replaced'[v] = Never
    BY <1>1 DEF RememberedWasLatest
  <2>2. ASSUME remembered # NoAnswer, remembered.outcome = "told"
        PROVE  \/ replaced'[remembered.release] = Never
               \/ remembered.until <= replaced'[remembered.release] + AnswerTtl
    <3>1. CASE remembered.release = published
      BY <1>1, <2>2, <3>1 DEF RememberedWasLatest, Remembered
    <3>2. CASE remembered.release # published
      BY <1>1, <2>2, <3>2 DEF RememberedWasLatest, Remembered
    <3> QED BY <3>1, <3>2
  <2> QED BY <1>1, <2>1, <2>2 DEF RememberedWasLatest
<1>4. AnswersAreRecent'
  <2> SUFFICES ASSUME NEW r \in Requests, answers[r] # NoAnswer, answers[r].outcome = "told",
                      replaced'[answers[r].release] # Never
               PROVE  answers[r].at - replaced'[answers[r].release] <= AnswerTtl
    BY <1>1 DEF AnswersAreRecent
  <2>1. answers[r].at <= now /\ answers[r].at \in Nat /\ answers[r].release \in Releases
    BY DEF ReleaseTimes
  <2>2. CASE answers[r].release = published
    BY <1>1, <2>1, <2>2
  <2>3. CASE answers[r].release # published
    BY <1>1, <2>1, <2>3 DEF AnswersAreRecent
  <2> QED BY <2>2, <2>3
<1>5. ReleaseTimes' /\ FailureIsRemembered' /\ FailuresAreSpaced'
  BY <1>1 DEF ReleaseTimes, FailureIsRemembered, FailuresAreSpaced, HoldsLock, LockIsFree
<1> QED BY <1>2, <1>3, <1>4, <1>5

LEMMA TakesLockStep ==
    ASSUME ReleaseInv, NEW r \in Requests, TakesLock(r)
    PROVE  ReleaseInv'
<1> USE LatestReleaseAssumption DEF ReleaseInv, ReleaseTypeOK, Releases, Time, Never
<1>1. /\ LockIsFree /\ now \in Time /\ UNCHANGED <<now, published, remembered, replaced>>
  BY DEF TakesLock, MayEnter, ReleaseTimes
<1>2. CASE Fresh
  <2>1. /\ remembered # NoAnswer /\ now < remembered.until /\ remembered \in Remembered
        /\ query' = [query EXCEPT ![r] = Idle] /\ readings' = readings
        /\ answers' = [answers EXCEPT ![r] =
             [release |-> remembered.release, at |-> now, outcome |-> remembered.outcome]]
    BY <1>2 DEF TakesLock, Fresh
  <2>2. Idle \in Query /\ Idle.state = "idle"
    BY DEF Idle, Query
  <2>3. [release |-> remembered.release, at |-> now, outcome |-> remembered.outcome]
          \in [release: Releases, at: Time, outcome: Outcomes]
    BY <1>1, <2>1 DEF Remembered
  <2>4. \A s \in Requests : ~HoldsLock(s)'
    BY <1>1, <2>1, <2>2 DEF HoldsLock, LockIsFree
  <2>5. ReleaseTypeOK'
    BY <1>1, <2>1, <2>2, <2>3, <2>4
  <2>6. RememberedWasLatest'
    BY <1>1 DEF RememberedWasLatest
  <2>7. ReleaseTimes'
    BY <1>1, <2>1, <2>4 DEF ReleaseTimes
  <2>8. FailureIsRemembered' /\ FailuresAreSpaced'
    BY <1>1, <2>1 DEF FailureIsRemembered, FailuresAreSpaced
  <2>9. AnswersAreRecent'
    <3> SUFFICES ASSUME NEW s \in Requests, answers'[s] # NoAnswer, answers'[s].outcome = "told",
                        replaced[answers'[s].release] # Never
                 PROVE  answers'[s].at - replaced[answers'[s].release] <= AnswerTtl
      BY <1>1 DEF AnswersAreRecent
    <3>1. CASE s = r
      <4>1. answers'[s].release = remembered.release /\ answers'[s].at = now /\ remembered.outcome = "told"
        BY <2>1, <3>1
      <4>2. remembered.until <= replaced[remembered.release] + AnswerTtl
        BY <2>1, <4>1 DEF RememberedWasLatest
      <4> QED BY <1>1, <2>1, <4>1, <4>2 DEF Remembered
    <3>2. CASE s # r
      BY <2>1, <3>2 DEF AnswersAreRecent
    <3> QED BY <3>1, <3>2
  <2> QED BY <2>5, <2>6, <2>7, <2>8, <2>9
<1>3. CASE ~Fresh
  <2>1. /\ query' = [query EXCEPT ![r] = [state |-> "reading", since |-> now]]
        /\ readings' = [readings EXCEPT !.at = now,
             !.spacing = IF readings.outcome = "failed" /\ now - readings.at < FailureTtl THEN "broken" ELSE @]
        /\ answers' = answers
    BY <1>3 DEF TakesLock
  <2>2. ~(readings.outcome = "failed" /\ now - readings.at < FailureTtl)
    BY <1>1, <1>3 DEF Fresh, FailureIsRemembered, Remembered
  <2>3. readings' = [readings EXCEPT !.at = now]
    BY <2>1, <2>2
  <2>4. \A s \in Requests : HoldsLock(s)' <=> s = r
    BY <1>1, <2>1 DEF HoldsLock, LockIsFree
  <2>5. ReleaseTypeOK'
    BY <1>1, <2>1, <2>3, <2>4 DEF Query
  <2>6. RememberedWasLatest' /\ AnswersAreRecent'
    BY <1>1, <2>1 DEF RememberedWasLatest, AnswersAreRecent
  <2>7. ReleaseTimes'
    BY <1>1, <2>1, <2>3, <2>4 DEF ReleaseTimes
  <2>8. FailureIsRemembered' /\ FailuresAreSpaced'
    BY <2>3, <2>4 DEF FailureIsRemembered, FailuresAreSpaced, LockIsFree
  <2> QED BY <2>5, <2>6, <2>7, <2>8
<1> QED BY <1>2, <1>3

LEMMA ReadsStorageStep ==
    ASSUME ReleaseInv, NEW r \in Requests, NEW outcome \in Outcomes, ReadsStorage(r, outcome)
    PROVE  ReleaseInv'
<1> USE LatestReleaseAssumption DEF ReleaseInv, ReleaseTypeOK, Releases, Time, Never
<1> DEFINE release == IF outcome = "failed" THEN 0 ELSE published
           since == query[r].since
<1>1. /\ HoldsLock(r) /\ now \in Time /\ since \in Time /\ since <= now /\ readings.at = since
      /\ UNCHANGED <<now, published, replaced>>
  BY DEF ReadsStorage, ReleaseTimes, Query
<1>2. /\ remembered' = Remember(release, outcome, since)
      /\ answers' = [answers EXCEPT ![r] = [release |-> release, at |-> now, outcome |-> outcome]]
      /\ readings' = [readings EXCEPT !.outcome = outcome]
      /\ query' = [query EXCEPT ![r] = Idle]
  BY DEF ReadsStorage
<1>3. release \in Releases /\ (outcome = "told" => release = published)
  BY DEF Outcomes
<1> HIDE DEF release, since
<1>4. /\ remembered' \in Remembered /\ remembered' # NoAnswer
      /\ remembered'.release = release /\ remembered'.outcome = outcome
      /\ remembered'.until <= since + AnswerTtl /\ remembered'.until >= since + FailureTtl
  BY <1>1, <1>2, <1>3, NoAnswerAssumption DEF Remember, Remembered
<1>5. \A s \in Requests : ~HoldsLock(s)'
  <2>1. Idle.state = "idle"
    BY DEF Idle
  <2> QED BY <1>1, <1>2, <2>1 DEF HoldsLock
<1>6. ReleaseTypeOK'
  <2>1. Idle \in Query
    BY DEF Idle, Query
  <2> QED BY <1>1, <1>2, <1>3, <1>4, <1>5, <2>1
<1>7. RememberedWasLatest'
  <2>1. \A v \in Releases : v >= published => replaced[v] = Never
    BY DEF RememberedWasLatest
  <2>2. since + AnswerTtl <= now + AnswerTtl
    BY <1>1
  <2>3. /\ remembered'.until \in Nat /\ remembered'.release \in Releases
        /\ since + AnswerTtl \in Nat /\ now + AnswerTtl \in Nat
    BY <1>1, <1>4 DEF Remembered
  <2>4. remembered'.until <= now + AnswerTtl
    BY <2>2, <2>3, <1>4
  <2>5. outcome = "told" => replaced[release] = Never
    BY <2>1, <1>3
  <2> QED BY <1>1, <1>4, <2>1, <2>4, <2>5 DEF RememberedWasLatest
<1>8. ReleaseTimes'
  BY <1>1, <1>2, <1>5 DEF ReleaseTimes
<1>9. FailureIsRemembered' /\ FailuresAreSpaced'
  BY <1>1, <1>2, <1>4 DEF FailureIsRemembered, FailuresAreSpaced
<1>10. AnswersAreRecent'
  BY <1>1, <1>2, <1>3 DEF AnswersAreRecent, RememberedWasLatest
<1> QED BY <1>6, <1>7, <1>8, <1>9, <1>10

LEMMA ReleaseStep ==
    ASSUME ReleaseInv, [ReleaseNext]_releaseVars
    PROVE  ReleaseInv'
<1> USE LatestReleaseAssumption DEF ReleaseInv, ReleaseTypeOK, Releases, Time, Never
<1>1. CASE UNCHANGED releaseVars
  BY <1>1 DEF releaseVars, RememberedWasLatest, ReleaseTimes, FailureIsRemembered, AnswersAreRecent,
              FailuresAreSpaced, HoldsLock, LockIsFree
<1>2. CASE ReleaseTick
  <2>1. /\ now' = now + 1 /\ now \in Time /\ now + 1 \in Time
        /\ UNCHANGED <<published, remembered, query, replaced, answers, readings>>
    BY <1>2 DEF ReleaseTick, Tick, ReleaseTimes
  <2>2. ReleaseTypeOK' /\ AnswersAreRecent' /\ FailuresAreSpaced' /\ FailureIsRemembered'
    BY <2>1 DEF AnswersAreRecent, FailuresAreSpaced, FailureIsRemembered, HoldsLock, LockIsFree
  <2>3. RememberedWasLatest'
    BY <2>1 DEF RememberedWasLatest, Remembered
  <2>4. ReleaseTimes'
    BY <2>1 DEF ReleaseTimes, HoldsLock, Query
  <2> QED BY <2>2, <2>3, <2>4
<1>3. ASSUME NEW r \in Requests, AsksForRelease(r)
      PROVE  ReleaseInv'
  <2>1. /\ query' = [query EXCEPT ![r].state = "waiting"]
        /\ UNCHANGED <<now, published, remembered, replaced, answers, readings>>
        /\ query[r].state = "idle" /\ query[r] \in Query
    BY <1>3 DEF AsksForRelease
  <2>2. \A s \in Requests : HoldsLock(s)' => HoldsLock(s) /\ query'[s].since = query[s].since
    BY <2>1 DEF HoldsLock
  <2>3. LockIsFree' => LockIsFree
    BY <2>1 DEF HoldsLock, LockIsFree
  <2>4. ReleaseTypeOK'
    BY <2>1, <2>2 DEF Query
  <2>5. ReleaseTimes'
    BY <2>1, <2>2 DEF ReleaseTimes
  <2>6. RememberedWasLatest' /\ AnswersAreRecent' /\ FailuresAreSpaced' /\ FailureIsRemembered'
    BY <2>1, <2>3 DEF RememberedWasLatest, AnswersAreRecent, FailuresAreSpaced, FailureIsRemembered
  <2> QED BY <2>4, <2>5, <2>6
<1> QED BY <1>1, <1>2, <1>3, PublishesStep, TakesLockStep, ReadsStorageStep DEF ReleaseNext

\* However long readings take, whichever fail and however many requests ask at once,
\* no device is told of a release that was replaced longer ago than an answer may
\* be remembered, and the storage is left alone for a while after a failure.
THEOREM ReleaseIsRecent == ReleaseSpec => []ReleaseHolds
<1>1. ReleaseInv => ReleaseHolds
  BY DEF ReleaseInv, ReleaseHolds
<1> QED BY ReleaseInitInv, ReleaseStep, <1>1, PTL DEF ReleaseSpec

-----------------------------------------------------------------------------
(* LogWrites.                                                               *)

LogShapes ==
    /\ phase \in [Requests -> {"idle", "running", "answered", "closed", "audited", "over"}]
    /\ aside \in [Requests -> SUBSET Lines] /\ logged \in [Requests -> SUBSET Lines]
    /\ events \in [Requests -> BOOLEAN] /\ audited \in [Requests -> BOOLEAN]
    /\ happened \in [Requests -> BOOLEAN]
    /\ refused \in [Requests -> SUBSET {"itself", "others", "database"}]

\* A transaction is over before the layers write; until they do, an event that
\* happened is put aside, and then it is written or its failure is put aside.
NothingIsMislaid ==
    \A r \in Requests :
        /\ r \in writing => InApplication(r)
        /\ ~Over(r) => logged[r] = {}
        /\ phase[r] \notin {"audited", "over"} /\ happened[r] => events[r]
        /\ phase[r] = "audited" /\ happened[r] => audited[r] \/ "audit_failed" \in aside[r]

LogInv == LogShapes /\ NothingIsMislaid /\ EventsLeaveATrace /\ NothingIsLostToItself

LEMMA LogInitInv == LogWritesInit => LogInv
BY DEF LogWritesInit, LogInv, LogShapes, NothingIsMislaid, EventsLeaveATrace, NothingIsLostToItself, Over

LEMMA LogStep ==
    ASSUME LogInv, [LogWritesNext]_logWriteVars
    PROVE  LogInv'
<1> USE DEF LogInv, LogShapes, InApplication, Over
<1>1. CASE UNCHANGED logWriteVars
  BY <1>1 DEF logWriteVars, NothingIsMislaid, EventsLeaveATrace, NothingIsLostToItself
<1>2. ASSUME NEW r \in Requests, Begins(r) \/ Writes(r) PROVE LogInv'
  BY <1>2 DEF Begins, Writes, NothingIsMislaid, EventsLeaveATrace, NothingIsLostToItself
<1>3. ASSUME NEW r \in Requests, Emits(r) \/ RecordsEvent(r) \/ Answers(r) PROVE LogInv'
  <2>1. LogShapes'
    <3>1. CASE Emits(r)
      BY <3>1 DEF Emits, Emitting, Lines
    <3>2. CASE RecordsEvent(r)
      BY <3>2 DEF RecordsEvent
    <3>3. CASE Answers(r)
      <4>1. aside' = [aside EXCEPT ![r] = @ \cup {"http_request"}] /\ aside' \in [Requests -> SUBSET Lines]
        BY <3>3 DEF Answers, Emitting, Lines
      <4>2. phase' = [phase EXCEPT ![r] = "answered"] /\ UNCHANGED <<events, logged, audited, happened, refused>>
        BY <3>3 DEF Answers
      <4> QED BY <4>1, <4>2
    <3> QED BY <1>3, <3>1, <3>2, <3>3
  <2>2. NothingIsMislaid'
    BY <1>3 DEF Emits, RecordsEvent, Answers, Emitting, NothingIsMislaid
  <2>3. EventsLeaveATrace' /\ NothingIsLostToItself'
    BY <1>3 DEF Emits, RecordsEvent, Answers, Emitting, EventsLeaveATrace, NothingIsLostToItself
  <2> QED BY <2>1, <2>2, <2>3
<1>4. ASSUME NEW r \in Requests, NEW error \in BOOLEAN, Closes(r, error) PROVE LogInv'
  <2>1. LogShapes'
    <3>1. aside' \in [Requests -> SUBSET Lines]
      <4>1. CASE error
        BY <1>4, <4>1 DEF Closes, Emitting, Lines
      <4>2. CASE ~error
        BY <1>4, <4>2 DEF Closes
      <4> QED BY <4>1, <4>2
    <3>2. phase' = [phase EXCEPT ![r] = "closed"] /\ UNCHANGED <<events, logged, audited, happened, refused>>
      BY <1>4 DEF Closes
    <3> QED BY <3>1, <3>2
  <2>2. NothingIsMislaid'
    BY <1>4 DEF Closes, Emitting, NothingIsMislaid
  <2>3. EventsLeaveATrace' /\ NothingIsLostToItself'
    BY <1>4 DEF Closes, EventsLeaveATrace, NothingIsLostToItself
  <2> QED BY <2>1, <2>2, <2>3
<1>5. ASSUME NEW r \in Requests, NEW works \in BOOLEAN, WritesAudit(r, works) PROVE LogInv'
  <2>1. r \notin writing /\ Fails(r, works) \subseteq {"others", "database"}
    BY <1>5 DEF WritesAudit, MayAudit, Fails, NothingIsMislaid
  <2> HIDE DEF Fails
  <2>2. LogShapes'
    <3>1. CASE ~events[r]
      BY <1>5, <3>1 DEF WritesAudit, EventsLeft
    <3>2. CASE events[r] /\ Fails(r, works) = {}
      BY <1>5, <3>2 DEF WritesAudit, EventsLeft
    <3>3. CASE events[r] /\ Fails(r, works) # {}
      <4>1. aside' = [aside EXCEPT ![r] = @ \cup {"audit_failed"}] /\ aside' \in [Requests -> SUBSET Lines]
        BY <1>5, <3>3 DEF WritesAudit, Emitting, Lines
      <4>2. refused' \in [Requests -> SUBSET {"itself", "others", "database"}]
        BY <1>5, <2>1, <3>3 DEF WritesAudit
      <4> QED BY <1>5, <3>3, <4>1, <4>2 DEF WritesAudit, EventsLeft
    <3> QED BY <3>1, <3>2, <3>3
  <2>3. NothingIsMislaid'
    BY <1>5 DEF WritesAudit, MayAudit, EventsLeft, Emitting, NothingIsMislaid
  <2>4. EventsLeaveATrace' /\ NothingIsLostToItself'
    BY <1>5, <2>1 DEF WritesAudit, MayAudit, Emitting, EventsLeaveATrace, NothingIsLostToItself
  <2> QED BY <2>2, <2>3, <2>4
<1>6. ASSUME NEW r \in Requests, NEW works \in BOOLEAN, WritesLogs(r, works) PROVE LogInv'
  <2>1. r \notin writing /\ Fails(r, works) \subseteq {"others", "database"}
    BY <1>6 DEF WritesLogs, MayLog, Fails, NothingIsMislaid
  <2>2. LogShapes'
    BY <1>6, <2>1 DEF WritesLogs, MayLog
  <2>3. NothingIsMislaid'
    BY <1>6 DEF WritesLogs, MayLog, NothingIsMislaid
  <2>4. EventsLeaveATrace'
    BY <1>6, <2>1 DEF WritesLogs, MayLog, EventsLeaveATrace, NothingIsMislaid
  <2>5. NothingIsLostToItself'
    BY <1>6, <2>1 DEF WritesLogs, MayLog, NothingIsLostToItself
  <2> QED BY <2>2, <2>3, <2>4, <2>5
<1> QED BY <1>1, <1>2, <1>3, <1>4, <1>5, <1>6 DEF LogWritesNext

\* However many requests there are and however they wait for one another, what
\* happened in one leaves its trace, and no request waits for itself.
THEOREM LogsLeaveTheirTrace == LogWritesSpec => []LogsHold
<1>1. LogInv => LogsHold
  BY DEF LogInv, LogsHold
<1> QED BY LogInitInv, LogStep, <1>1, PTL DEF LogWritesSpec

-----------------------------------------------------------------------------
(* RememberedTokens.                                                        *)

\* What is kept is not used in the last moments of its token, as long as a request
\* may take, and so a token that goes with a request outlasts the request.
KeptIsFit == kept # NoTokenKept => kept.until + MaxExchange <= deadline[kept.token]

CallersAreInTime ==
    \A r \in Requests :
        /\ caller[r].state \in {"exchanging", "sending"} =>
             caller[r].since <= now /\ now <= caller[r].since + MaxExchange
        /\ caller[r].state \in {"sending", "told"} => caller[r].token \in DOMAIN deadline
        /\ caller[r].state = "sending" => caller[r].since + MaxExchange < deadline[caller[r].token]

RefusedWereSent == \A r \in Requests : caller[r].state = "told" => caller[r].token \in revoked

TokensInv ==
    TokensTypeOK /\ now \in Time /\ KeptIsFit /\ CallersAreInTime /\ RefusedWereSent /\ RefusedStaysDropped

\* The tokens issued so far are numbered from 1 on.
LEMMA TokensAreNumbered ==
    ASSUME TokensTypeOK
    PROVE  DOMAIN deadline = 1..LastToken /\ LastToken \in Nat
BY RememberedTokensAssumption DEF TokensTypeOK

LEMMA TokensInitInv == TokensInit => TokensInv
<1> SUFFICES ASSUME TokensInit PROVE TokensInv
  OBVIOUS
<1> USE ServiceAssumption, RememberedTokensAssumption DEF TokensInit
<1>1. DOMAIN deadline = {} /\ LastToken = 0
  BY FS_EmptySet DEF LastToken
<1>2. deadline \in [1..0 -> Nat]
  BY <1>1
<1>3. caller \in [Requests -> Caller] /\ \A r \in Requests : caller[r].state = "idle"
  BY DEF Resting, Caller, Time
<1> QED BY <1>1, <1>2, <1>3 DEF TokensInv, TokensTypeOK, KeptIsFit, CallersAreInTime, RefusedWereSent,
                                RefusedStaysDropped, Exchanges, Time

LEMMA LooksAtKeptStep ==
    ASSUME TokensInv, NEW r \in Requests, LooksAtKept(r)
    PROVE  TokensInv'
<1> USE RememberedTokensAssumption, TokensAreNumbered DEF TokensInv, TokensTypeOK, Time
<1>1. /\ UNCHANGED <<now, for, kept, deadline, revoked, refusedBy>>
      /\ \A s \in Requests : ~Exchanges(s)
  BY DEF LooksAtKept, TokenLockIsFree
<1>2. LastToken' = LastToken
  BY <1>1 DEF LastToken
<1>3. CASE kept # NoTokenKept /\ now < kept.until
  <2>1. caller' = [caller EXCEPT ![r] = [state |-> "sending", since |-> now, token |-> kept.token]]
    BY <1>3 DEF LooksAtKept
  <2>2. kept.token \in DOMAIN deadline /\ kept.until \in Nat /\ deadline[kept.token] \in Nat
    BY <1>3 DEF Kept
  <2>3. now + MaxExchange < deadline[kept.token]
    BY <1>3, <2>2, ServiceAssumption DEF KeptIsFit
  <2>4. caller' \in [Requests -> Caller] /\ \A s \in Requests : ~Exchanges(s)'
    BY <1>1, <2>1, <2>2, ServiceAssumption DEF Caller, Exchanges
  <2>5. CallersAreInTime'
    BY <1>1, <2>1, <2>2, <2>3, ServiceAssumption DEF CallersAreInTime
  <2> QED BY <1>1, <1>2, <2>1, <2>4, <2>5 DEF KeptIsFit, RefusedWereSent, RefusedStaysDropped
<1>4. CASE ~(kept # NoTokenKept /\ now < kept.until)
  <2>1. caller' = [caller EXCEPT ![r] = [state |-> "exchanging", since |-> now, token |-> 0]]
    BY <1>4 DEF LooksAtKept
  <2>2. caller' \in [Requests -> Caller] /\ \A s \in Requests : Exchanges(s)' <=> s = r
    BY <1>1, <2>1, ServiceAssumption DEF Caller, Exchanges
  <2>3. CallersAreInTime'
    BY <1>1, <2>1, ServiceAssumption DEF CallersAreInTime
  <2> QED BY <1>1, <1>2, <2>1, <2>2, <2>3 DEF KeptIsFit, RefusedWereSent, RefusedStaysDropped
<1> QED BY <1>3, <1>4

\* Whichever end the time of life is counted from, an exchange and a request after
\* it fit into the margin.
LEMMA TokenArrivesStep ==
    ASSUME TokensInv, NEW r \in Requests, NEW issuedAt \in caller[r].since..now, TokenArrives(r, issuedAt)
    PROVE  TokensInv'
<1> USE RememberedTokensAssumption, ServiceAssumption DEF TokensInv, TokensTypeOK, Time
<1> DEFINE t == LastToken + 1
           since == caller[r].since
           until == KeptUntil(since)
<1>1. /\ t \in IssuedTokens /\ Exchanges(r)
      /\ deadline' = [x \in 1..t |-> IF x = t THEN issuedAt + Lifetime ELSE deadline[x]]
      /\ kept' = [token |-> t, until |-> until]
      /\ caller' = [caller EXCEPT ![r] = [state |-> "sending", since |-> now, token |-> t]]
      /\ UNCHANGED <<now, for, revoked, refusedBy>>
  BY DEF TokenArrives
<1>2. DOMAIN deadline = 1..LastToken /\ LastToken \in Nat /\ t \notin DOMAIN deadline
  BY TokensAreNumbered
<1>3. since \in Nat /\ since <= now /\ now <= since + MaxExchange /\ issuedAt \in since..now /\ now \in Nat
  BY <1>1 DEF CallersAreInTime, Exchanges, Caller
<1>4. /\ until \in Nat /\ until + MaxExchange <= issuedAt + Lifetime
      /\ now + MaxExchange < issuedAt + Lifetime /\ issuedAt + Lifetime \in Nat
  BY <1>3 DEF KeptUntil
<1>5. LastToken' = t /\ t \in 0..MaxTokensIssued /\ t \in Nat
  <2>1. DOMAIN deadline' = 1..t
    BY <1>1
  <2>2. t \in Nat /\ t >= 1 /\ t <= MaxTokensIssued
    BY <1>1, <1>2 DEF IssuedTokens
  <2>3. Cardinality(1..t) = t
    BY <2>2, FS_Interval
  <2> QED BY <2>1, <2>2, <2>3 DEF LastToken
<1> HIDE DEF t, until, since
<1>6. deadline' \in [1..t -> Nat] /\ deadline'[t] = issuedAt + Lifetime
  BY <1>1, <1>2, <1>4, <1>5 DEF t
<1>7. \A x \in DOMAIN deadline : x \in DOMAIN deadline' /\ deadline'[x] = deadline[x] /\ x # t
  BY <1>1, <1>2, <1>5 DEF t
<1>8. caller' \in [Requests -> Caller] /\ \A s \in Requests : ~Exchanges(s)'
  <2>1. [state |-> "sending", since |-> now, token |-> t] \in Caller
    BY <1>5 DEF Caller
  <2> QED BY <1>1, <2>1 DEF Exchanges
<1>9. TokensTypeOK'
  <2>1. kept' \in Kept /\ kept'.token \in DOMAIN deadline'
    <3>1. t \in 1..t /\ t \in IssuedTokens
      BY <1>1, <1>2, <1>5 DEF t
    <3>2. kept'.token = t /\ kept' \in Kept
      BY <1>1, <1>4, <3>1 DEF Kept
    <3> QED BY <1>6, <3>1, <3>2
  <2>2. revoked' \subseteq DOMAIN deadline' /\ refusedBy' \subseteq revoked'
    BY <1>1, <1>7
  <2> QED BY <1>1, <1>5, <1>6, <1>8, <2>1, <2>2
<1>10. KeptIsFit'
  BY <1>1, <1>4, <1>6 DEF KeptIsFit
<1>11. CallersAreInTime'
  <2> SUFFICES ASSUME NEW s \in Requests
               PROVE  /\ caller'[s].state \in {"exchanging", "sending"} =>
                           caller'[s].since <= now' /\ now' <= caller'[s].since + MaxExchange
                      /\ caller'[s].state \in {"sending", "told"} => caller'[s].token \in DOMAIN deadline'
                      /\ caller'[s].state = "sending" =>
                           caller'[s].since + MaxExchange < deadline'[caller'[s].token]
    BY DEF CallersAreInTime
  <2>1. CASE s = r
    <3>1. caller'[s] = [state |-> "sending", since |-> now, token |-> t]
      BY <1>1, <2>1
    <3>2. t \in DOMAIN deadline' /\ now <= now + MaxExchange
      BY <1>2, <1>3, <1>6 DEF t
    <3> QED BY <1>1, <1>4, <1>6, <3>1, <3>2
  <2>2. CASE s # r
    <3>1. caller'[s] = caller[s]
      BY <1>1, <2>2
    <3> QED BY <1>1, <1>7, <3>1 DEF CallersAreInTime
  <2> QED BY <2>1, <2>2
<1>12. RefusedWereSent' /\ RefusedStaysDropped'
  BY <1>1, <1>2 DEF RefusedWereSent, RefusedStaysDropped
<1> QED BY <1>1, <1>9, <1>10, <1>11, <1>12

LEMMA TokensStep ==
    ASSUME TokensInv, [TokensNext]_tokenVars
    PROVE  TokensInv'
<1> USE RememberedTokensAssumption, ServiceAssumption DEF TokensInv, TokensTypeOK, Time
<1>1. CASE UNCHANGED tokenVars
  BY <1>1 DEF tokenVars, LastToken, Exchanges, KeptIsFit, CallersAreInTime, RefusedWereSent, RefusedStaysDropped
<1>2. CASE Revokes
  <2>1. /\ revoked' = DOMAIN deadline /\ UNCHANGED <<now, for, kept, caller, deadline, refusedBy>>
    BY <1>2 DEF Revokes
  <2> QED BY <2>1 DEF LastToken, Exchanges, KeptIsFit, CallersAreInTime, RefusedWereSent, RefusedStaysDropped
<1>3. CASE TokensTick
  <2>1. /\ now' = now + 1 /\ now' \in Time
        /\ UNCHANGED <<for, kept, caller, deadline, revoked, refusedBy>>
        /\ \A r \in Requests : caller[r].state \in {"exchanging", "sending"} => now - caller[r].since < MaxExchange
    BY <1>3 DEF TokensTick, Tick
  <2>2. CallersAreInTime'
    BY <2>1 DEF CallersAreInTime, Caller
  <2> QED BY <2>1, <2>2 DEF LastToken, Exchanges, KeptIsFit, RefusedWereSent, RefusedStaysDropped
<1>4. ASSUME NEW r \in Requests, NeedsToken(r) \/ ExchangeFails(r) \/ IsAnswered(r)
      PROVE  TokensInv'
  <2>1. /\ UNCHANGED <<now, for, kept, deadline, revoked, refusedBy>>
        /\ \A s \in Requests \ {r} : caller'[s] = caller[s]
        /\ caller' \in [Requests -> Caller]
    <3>1. caller[r] \in Caller /\ Resting \in Caller
      BY DEF Resting, Caller
    <3>2. [caller[r] EXCEPT !.state = "waiting"] \in Caller /\ [caller[r] EXCEPT !.state = "told"] \in Caller
      BY <3>1 DEF Caller
    <3>3. CASE NeedsToken(r)
      BY <3>2, <3>3 DEF NeedsToken
    <3>4. CASE ExchangeFails(r)
      BY <3>1, <3>4 DEF ExchangeFails
    <3>5. CASE IsAnswered(r)
      BY <3>1, <3>2, <3>5 DEF IsAnswered
    <3> QED BY <1>4, <3>3, <3>4, <3>5
  <2>2. \/ caller'[r].state \in {"idle", "waiting"}
        \/ /\ caller'[r].state = "told" /\ caller[r].state = "sending"
           /\ caller'[r].token = caller[r].token /\ caller[r].token \in revoked
    BY <1>4 DEF NeedsToken, ExchangeFails, IsAnswered, Resting, Caller
  <2>3. ~Exchanges(r)'
    BY <2>2 DEF Exchanges
  <2>4. TokensTypeOK'
    BY <2>1, <2>3 DEF Exchanges, LastToken
  <2>5. CallersAreInTime' /\ RefusedWereSent'
    BY <2>1, <2>2 DEF CallersAreInTime, RefusedWereSent
  <2> QED BY <2>1, <2>4, <2>5 DEF KeptIsFit, RefusedStaysDropped
<1>5. ASSUME NEW r \in Requests, DropsToken(r)
      PROVE  TokensInv'
  <2>1. /\ kept' = NoTokenKept /\ refusedBy' = refusedBy \cup {caller[r].token}
        /\ caller[r].state = "told" /\ caller' = [caller EXCEPT ![r] = Resting]
        /\ UNCHANGED <<now, for, deadline, revoked>>
    BY <1>5 DEF DropsToken, Forgets
  <2>2. caller' \in [Requests -> Caller] /\ Resting.state = "idle" /\ refusedBy' \subseteq revoked
    <3>1. Resting \in Caller /\ Resting.state = "idle"
      BY DEF Resting, Caller
    <3> QED BY <2>1, <3>1 DEF RefusedWereSent
  <2>3. TokensTypeOK'
    BY <2>1, <2>2 DEF Exchanges, LastToken
  <2>4. CallersAreInTime' /\ RefusedWereSent'
    BY <2>1, <2>2 DEF CallersAreInTime, RefusedWereSent
  <2> QED BY <2>1, <2>3, <2>4 DEF KeptIsFit, RefusedStaysDropped
<1> QED BY <1>1, <1>2, <1>3, <1>4, <1>5, LooksAtKeptStep, TokenArrivesStep DEF TokensNext

\* Whichever side a token is for, however many requests ask for one, and whenever
\* the other side takes it no more: a request that goes out with a token is
\* through before the token ends, and a token that was refused is not used again.
THEOREM TokensAreFit == TokensSpec => []TokensHold
<1>1. TokensInv => TokensHold
  <2> SUFFICES ASSUME TokensInv, NEW r \in Requests, caller[r].state = "sending"
               PROVE  now < deadline[caller[r].token]
    BY DEF TokensInv, TokensHold, TokensOutliveTheirUse
  <2>1. /\ now \in Nat /\ caller[r].since \in Nat /\ deadline[caller[r].token] \in Nat
        /\ now <= caller[r].since + MaxExchange /\ caller[r].since + MaxExchange < deadline[caller[r].token]
    BY ServiceAssumption DEF TokensInv, TokensTypeOK, CallersAreInTime, Caller, Time
  <2> QED BY <2>1, RememberedTokensAssumption
<1> QED BY TokensInitInv, TokensStep, <1>1, PTL DEF TokensSpec

-----------------------------------------------------------------------------
(* SettingValues.                                                           *)

\* No mask is kept, and nothing for what the screen does not have.
Sane(x) == (\A k \in SecretKeys : x[k] # Mask) /\ x["JWT_SECRET_KEY"] = Absent

SaneSave(s) ==
    /\ Sane(s.read)
    /\ s.script => \A k \in DOMAIN s.form : s.form[k] = Absent
    /\ ~s.script => DOMAIN s.form \cap EnvOnly = {}

SettingsInv ==
    /\ record \in Record /\ Sane(record) /\ watched \subseteq Names
    /\ saving \in [Requests -> Saving \cup {NoSaving}]
    /\ \A r \in Requests : saving[r] # NoSaving => SaneSave(saving[r])
    /\ RestartsAreAskedFor /\ KeysStayFit

LEMMA MaskIsNotAbsent == Mask # Absent
<1>1. "MAIL_PASSWORD" \in Names /\ Mask \in Sayings("MAIL_PASSWORD")
  BY DEF Names, Fields, Sayings, SecretKeys, Switches
<1> QED BY <1>1, SettingsAssumption

LEMMA KindsOfNames ==
    /\ "JWT_SECRET_KEY" \in Names \ Fields /\ Fields \subseteq Names /\ AtStart \subseteq Fields
    /\ SecretKeys \subseteq Fields /\ Switches \cap SecretKeys = {}
BY DEF Names, Fields, Switches, SecretKeys, AtStart

LEMMA ResolveIsSome == ASSUME NEW k \in Names PROVE Resolve(k) # Absent
BY SettingsAssumption DEF Resolve

\* What is resolved alike is in force alike.
LEMMA ResolvedAlike == ASSUME NEW k \in Names, Resolve(k)' = Resolve(k) PROVE InForce(k)' = InForce(k)
BY DEF InForce

LEMMA MergedIs ==
    ASSUME NEW s \in Saving, SaneSave(s)
    PROVE  Merged(s) \in Record /\ Sane(Merged(s))
<1>1. PICK D \in SUBSET Names : s.form \in [D -> Values]
  BY DEF Saving
<1>2. s.read \in Record /\ s.script \in BOOLEAN
  BY DEF Saving
<1>3. TakenBy(s) \subseteq D /\ \A k \in TakenBy(s) : s.form[k] \in Values
  BY <1>1 DEF TakenBy, Taken
<1>4. \A k \in Names : Merged(s)[k] = IF k \in TakenBy(s) THEN s.form[k] ELSE s.read[k]
  BY DEF Merged
<1>5. Merged(s) \in Record
  <2>1. \A k \in Names : (IF k \in TakenBy(s) THEN s.form[k] ELSE s.read[k]) \in Values
    BY <1>2, <1>3 DEF Record
  <2> QED BY <2>1 DEF Merged, Record
<1>6. \A k \in SecretKeys : Merged(s)[k] # Mask
  <2> SUFFICES ASSUME NEW k \in SecretKeys PROVE Merged(s)[k] # Mask
    OBVIOUS
  <2>1. k \in Names
    BY KindsOfNames
  <2>2. CASE k \notin TakenBy(s)
    BY <1>4, <2>1, <2>2 DEF SaneSave, Sane
  <2>3. CASE k \in TakenBy(s) /\ s.script
    BY <1>1, <1>3, <1>4, <2>1, <2>3, MaskIsNotAbsent DEF SaneSave
  <2>4. CASE k \in TakenBy(s) /\ ~s.script
    BY <1>4, <2>1, <2>4 DEF TakenBy, Taken
  <2> QED BY <2>2, <2>3, <2>4
<1>7. Merged(s)["JWT_SECRET_KEY"] = Absent
  <2>1. PICK k \in Names : k = "JWT_SECRET_KEY" /\ k \notin Fields
    BY KindsOfNames
  <2>2. CASE k \notin TakenBy(s)
    BY <1>4, <2>1, <2>2 DEF SaneSave, Sane
  <2>3. CASE k \in TakenBy(s)
    <3>1. s.script
      BY <2>1, <2>3 DEF TakenBy, Taken
    <3> QED BY <1>1, <1>3, <1>4, <2>1, <2>3, <3>1 DEF SaneSave
  <2> QED BY <2>1, <2>2, <2>3
<1> QED BY <1>5, <1>6, <1>7 DEF Sane

LEMMA SettingsInitInv == SettingsInit => SettingsInv
<1> SUFFICES ASSUME SettingsInit PROVE SettingsInv
  OBVIOUS
<1>1. watched \subseteq Names
  BY SettingsAssumption DEF SettingsInit
<1>2. PICK f \in Given(watched) : record = Saved(f)
  BY DEF SettingsInit
<1>3. DOMAIN f = watched /\ \A k \in watched : f[k] \in Values
  BY <1>1, <1>2 DEF Given, Values
<1>4. record \in Record
  <2>1. Absent \in Values
    BY DEF Values
  <2>2. \A k \in Names : (IF k \in DOMAIN f THEN f[k] ELSE Absent) \in Values
    BY <1>3, <2>1
  <2> QED BY <1>2, <2>2 DEF Saved, Record
<1>5. Sane(record)
  BY KindsOfNames DEF SettingsInit, Sane
<1>6. saving \in [Requests -> Saving \cup {NoSaving}] /\ \A r \in Requests : saving[r] = NoSaving
  BY DEF SettingsInit
<1>7. RestartsAreAskedFor /\ KeysStayFit
  BY DEF SettingsInit, RestartsAreAskedFor, KeysStayFit
<1> QED BY <1>1, <1>4, <1>5, <1>6, <1>7 DEF SettingsInv

\* A save begins, by the form or by the script.
LEMMA BeginningsKeep ==
    ASSUME SettingsInv, NEW r \in Requests, NEW s \in Saving, SaneSave(s),
           saving' = [saving EXCEPT ![r] = s],
           UNCHANGED <<now, watched, record, env, up, running, told, crossed>>
    PROVE  SettingsInv'
<1>1. saving' \in [Requests -> Saving \cup {NoSaving}] /\ \A q \in Requests : saving'[q] \in {saving[q], s}
  BY DEF SettingsInv
<1>2. \A q \in Requests : saving'[q] # NoSaving => SaneSave(saving'[q])
  BY <1>1 DEF SettingsInv
<1>3. \A k : Resolve(k)' = Resolve(k)
  BY DEF Resolve
<1>4. FitToStart' = FitToStart
  BY <1>3 DEF FitToStart, InForce
<1>5. RestartsAreAskedFor' /\ KeysStayFit'
  BY <1>3, <1>4 DEF SettingsInv, RestartsAreAskedFor, KeysStayFit
<1> QED BY <1>1, <1>2, <1>5 DEF SettingsInv

LEMMA FormSaveKeeps ==
    ASSUME SettingsInv, NEW r \in Requests, NEW D \in SUBSET watched, NEW form \in Given(D), SavesSettings(r, form)
    PROVE  SettingsInv'
<1>1. PICK s : s = [form |-> form, read |-> record, script |-> FALSE]
  OBVIOUS
<1>2. D \in SUBSET Names
  BY DEF SettingsInv
<1>3. form \in [D -> Values]
  BY <1>2 DEF Given, Values
<1>4. s \in Saving /\ s.form = form /\ s.read = record /\ s.script = FALSE
  BY <1>1, <1>2, <1>3 DEF Saving, SettingsInv
<1>5. SaneSave(s)
  BY <1>4 DEF SaneSave, SettingsInv, SavesSettings, Acceptable
<1> QED BY <1>1, <1>4, <1>5, BeginningsKeep DEF SavesSettings

LEMMA ScriptSaveKeeps ==
    ASSUME SettingsInv, NEW r \in Requests, NEW k \in watched, Unsets(r, k)
    PROVE  SettingsInv'
<1>1. PICK form : form = [x \in {k} |-> Absent]
  OBVIOUS
<1>2. PICK s : s = [form |-> form, read |-> record, script |-> TRUE]
  OBVIOUS
<1>3. k \in Names
  BY DEF SettingsInv
<1>4. PICK D \in SUBSET Names : D = {k}
  BY <1>3
<1>5. form \in [D -> Values]
  <2>1. Absent \in Values
    BY DEF Values
  <2> QED BY <1>1, <1>4, <2>1
<1>6. s \in Saving /\ s.form = form /\ s.read = record /\ s.script = TRUE
  BY <1>2, <1>5 DEF Saving, SettingsInv
<1>7. SaneSave(s)
  BY <1>1, <1>6 DEF SaneSave, SettingsInv
<1> QED BY <1>1, <1>2, <1>6, <1>7, BeginningsKeep DEF Unsets

LEMMA CommitsKeep == ASSUME SettingsInv, NEW r \in Requests, Commits(r) PROVE SettingsInv'
<1>1. PICK s \in Saving : s = saving[r] /\ SaneSave(s)
  BY DEF SettingsInv, Commits
<1>2. /\ record' = Merged(s) /\ told' = told \cup RestartRequirement(s)
      /\ crossed' = (crossed \ TakenBy(s)) \cup {k \in AtStart \ TakenBy(s) : s.read[k] # record[k]}
      /\ saving' = [saving EXCEPT ![r] = NoSaving] /\ UNCHANGED <<watched, env, up, running>>
  BY <1>1 DEF Commits
<1>3. record' \in Record /\ Sane(record')
  BY <1>1, <1>2, MergedIs
<1>4. saving' \in [Requests -> Saving \cup {NoSaving}] /\ \A q \in Requests : saving'[q] \in {saving[q], NoSaving}
  BY <1>2 DEF SettingsInv
<1>5. \A q \in Requests : saving'[q] # NoSaving => SaneSave(saving'[q])
  BY <1>4 DEF SettingsInv
<1>6. RestartsAreAskedFor'
  <2> SUFFICES ASSUME NEW k \in AtStart, k \notin crossed', up, running[k] # Resolve(k)', k \notin told'
               PROVE  FALSE
    BY <1>2 DEF RestartsAreAskedFor
  <2>1. k \in Names
    BY KindsOfNames
  <2>2. k \notin TakenBy(s)
    BY <1>2 DEF RestartRequirement
  <2>3. k \notin crossed /\ s.read[k] = record[k] /\ k \notin told
    BY <1>2, <2>2
  <2>4. record'[k] = record[k]
    BY <1>2, <2>1, <2>2, <2>3 DEF Merged
  <2>5. Resolve(k)' = Resolve(k)
    BY <1>2, <2>4 DEF Resolve
  <2> QED BY <2>3, <2>5 DEF SettingsInv, RestartsAreAskedFor
<1>7. KeysStayFit'
  <2>1. PICK k \in Names : k = "JWT_SECRET_KEY"
    BY KindsOfNames
  <2>2. record'[k] = record[k]
    BY <1>3, <2>1 DEF Sane, SettingsInv
  <2>3. InForce(k)' = InForce(k)
    <3>1. Resolve(k)' = Resolve(k)
      BY <1>2, <2>2 DEF Resolve
    <3> QED BY <3>1, ResolvedAlike
  <2> QED BY <1>2, <2>1, <2>3 DEF SettingsInv, KeysStayFit, FitToStart
<1> QED BY <1>2, <1>3, <1>4, <1>5, <1>6, <1>7 DEF SettingsInv

LEMMA RollsBackKeeps == ASSUME SettingsInv, NEW r \in Requests, RollsBack(r) PROVE SettingsInv'
<1>1. saving' \in [Requests -> Saving \cup {NoSaving}] /\ \A q \in Requests : saving'[q] \in {saving[q], NoSaving}
  BY DEF SettingsInv, RollsBack
<1>2. UNCHANGED <<watched, record, env, up, running, told, crossed>>
  BY DEF RollsBack
<1>3. \A k : Resolve(k)' = Resolve(k)
  BY <1>2 DEF Resolve
<1>4. FitToStart' = FitToStart
  BY <1>3 DEF FitToStart, InForce
<1>5. RestartsAreAskedFor' /\ KeysStayFit'
  BY <1>2, <1>3, <1>4 DEF SettingsInv, RestartsAreAskedFor, KeysStayFit
<1> QED BY <1>1, <1>2, <1>5 DEF SettingsInv

LEMMA StartsAnewKeeps ==
    ASSUME SettingsInv, NEW k \in watched, NEW given \in Deployable(k), StartsAnew(k, given) PROVE SettingsInv'
<1>1. saving' \in [Requests -> Saving \cup {NoSaving}] /\ \A q \in Requests : saving'[q] \in {saving[q], NoSaving}
  BY DEF SettingsInv, StartsAnew
<1>2. UNCHANGED <<watched, record>> /\ up' = FitToStart' /\ \A x \in AtStart : running'[x] = Resolve(x)'
  BY DEF StartsAnew
<1>3. RestartsAreAskedFor' /\ KeysStayFit'
  BY <1>2 DEF RestartsAreAskedFor, KeysStayFit
<1> QED BY <1>1, <1>2, <1>3 DEF SettingsInv

LEMMA SettingsNextKeeps == SettingsInv /\ [SettingsNext]_settingVars => SettingsInv'
<1> SUFFICES ASSUME SettingsInv, [SettingsNext]_settingVars PROVE SettingsInv'
  OBVIOUS
<1>1. ASSUME NEW r \in Requests, Commits(r) \/ RollsBack(r) PROVE SettingsInv'
  BY <1>1, CommitsKeep, RollsBackKeeps
<1>2. ASSUME NEW r \in Requests, NEW D \in (SUBSET watched) \ {{}}, NEW form \in Given(D), SavesSettings(r, form) PROVE SettingsInv'
  BY <1>2, FormSaveKeeps
<1>3. ASSUME NEW k \in watched, NEW given \in Deployable(k), StartsAnew(k, given) PROVE SettingsInv'
  BY <1>3, StartsAnewKeeps
<1>4. ASSUME NEW k \in watched, NEW r \in Requests, Unsets(r, k) PROVE SettingsInv'
  BY <1>4, ScriptSaveKeeps
<1>5. CASE UNCHANGED settingVars
  <2>1. UNCHANGED <<watched, record, env, up, running, saving, told, crossed>>
    BY <1>5 DEF settingVars
  <2>2. \A k : Resolve(k)' = Resolve(k)
    BY <2>1 DEF Resolve
  <2>3. FitToStart' = FitToStart
    BY <2>2 DEF FitToStart, InForce
  <2>4. RestartsAreAskedFor' /\ KeysStayFit'
    BY <2>1, <2>2, <2>3 DEF SettingsInv, RestartsAreAskedFor, KeysStayFit
  <2> QED BY <2>1, <2>4 DEF SettingsInv
<1> QED BY <1>1, <1>2, <1>3, <1>4, <1>5 DEF SettingsNext

\* A page that comes back as it was shown, to the record it was shown from.
LEMMA PagesComeBack ==
    ASSUME SettingsInv, NEW r \in Requests, Commits(r), ~saving[r].script, saving[r].read = record,
           \A k \in DOMAIN saving[r].form : saving[r].form[k] = Shown(k), NEW k \in Names
    PROVE  InForce(k)' = InForce(k)
<1>1. PICK s \in Saving : s = saving[r] /\ SaneSave(s)
  BY DEF SettingsInv, Commits
<1>2. record' = Merged(s) /\ env' = env
  BY <1>1 DEF Commits
<1>3. record'[k] = IF k \in Taken(s.form) THEN s.form[k] ELSE record[k]
  BY <1>1, <1>2 DEF Merged, TakenBy
<1>4. CASE k \notin Taken(s.form)
  <2>1. Resolve(k)' = Resolve(k)
    BY <1>2, <1>3, <1>4 DEF Resolve
  <2> QED BY <2>1, ResolvedAlike
<1>5. CASE k \in Taken(s.form)
  <2>1. k \in DOMAIN s.form /\ ~(k \in SecretKeys /\ s.form[k] = Mask)
    BY <1>5 DEF Taken
  <2>2. record'[k] = Shown(k) /\ k \notin EnvOnly /\ ~(k \in SecretKeys /\ Shown(k) = Mask)
    BY <1>1, <1>3, <1>5, <2>1 DEF SaneSave
  <2>3. CASE k \in Switches
    <3>1. InForce(k) \in {"on", "off"} /\ Shown(k) = InForce(k)
      BY <2>3 DEF InForce, Shown, Switches, SecretKeys
    <3>2. InForce(k) # Absent
      <4>1. "on" \in Sayings(k) /\ "off" \in Sayings(k)
        BY <2>3 DEF Sayings, Switches, SecretKeys
      <4> QED BY <3>1, <4>1, SettingsAssumption
    <3>3. Resolve(k)' = InForce(k)
      BY <2>2, <3>1, <3>2 DEF Resolve
    <3> QED BY <2>3, <3>1, <3>3 DEF InForce
  <2>4. CASE k \notin Switches
    <3>1. Shown(k) = Resolve(k)
      BY <2>2, <2>4 DEF Shown
    <3>2. Resolve(k)' = Resolve(k)
      BY <2>2, <3>1, ResolveIsSome DEF Resolve
    <3> QED BY <3>2, ResolvedAlike
  <2> QED BY <2>3, <2>4
<1> QED BY <1>4, <1>5

\* Only a commit changes the record, and it ends one save.
LEMMA RecordsAreCommitted ==
    ASSUME SettingsInv, SettingsNext, NEW r \in Requests, saving[r] # NoSaving, saving'[r] = NoSaving, record' # record
    PROVE  Commits(r)
<1>1. PICK q \in Requests : Commits(q)
  BY DEF SettingsNext, RollsBack, SavesSettings, Unsets, StartsAnew
<1>2. saving' = [saving EXCEPT ![q] = NoSaving]
  BY <1>1 DEF Commits
<1>3. q = r
  BY <1>2 DEF SettingsInv
<1> QED BY <1>1, <1>3

\* What is saved is what the administrator wrote: no mask becomes a secret, a
\* process whose settings changed under it is one somebody was told to restart, the
\* key of a running process is fit, and a page that comes back as it was shown
\* changes nothing in force -- whatever saves, scripts and new starts overlap.
THEOREM SettingsAreAsWritten == SettingsSpec => SettingsHold
<1>1. SettingsInv => MasksAreNotSecrets /\ RestartsAreAskedFor /\ KeysStayFit
  BY DEF SettingsInv, Sane, MasksAreNotSecrets
<1>2. SettingsInv /\ [SettingsNext]_settingVars =>
        [\A r \in Requests :
          /\ saving[r] # NoSaving /\ saving'[r] = NoSaving /\ record' # record
          /\ ~saving[r].script /\ saving[r].read = record
          /\ \A k \in DOMAIN saving[r].form : saving[r].form[k] = Shown(k)
          => \A k \in Names : InForce(k)' = InForce(k)]_settingVars
  BY RecordsAreCommitted, PagesComeBack
<1> QED BY SettingsInitInv, SettingsNextKeeps, <1>1, <1>2, PTL DEF SettingsSpec, SettingsHold, PagesAreTrue

-----------------------------------------------------------------------------
(* The types of the suite.                                                  *)

\* What the types of the logs say beside LogInv: one request writes at a time, and one
\* that is over has nothing left, nor has an event one that has written its events.
LogEdges ==
    /\ writing \subseteq Requests /\ \A q, r \in writing : q = r
    /\ emitted \in [Requests -> SUBSET Lines]
    /\ \A r \in Requests : phase[r] = "over" => r \notin writing /\ aside[r] = {} /\ ~events[r]
    /\ \A r \in Requests : phase[r] = "audited" => ~events[r]

LEMMA LogTyped == ASSUME LogInv, LogEdges PROVE LogWritesTypeOK
<1>1. Cardinality(writing) <= 1
  <2>1. CASE writing = {}
    <3>1. Cardinality(writing) = 0
      BY <2>1, FS_EmptySet
    <3> QED BY <3>1
  <2>2. CASE writing # {}
    <3>1. PICK r : r \in writing
      BY <2>2
    <3>2. writing = {r}
      BY <3>1 DEF LogEdges
    <3>3. Cardinality(writing) = 1
      BY <3>2, FS_Singleton
    <3> QED BY <3>3
  <2> QED BY <2>1, <2>2
<1> QED BY <1>1 DEF LogInv, LogShapes, LogEdges, LogWritesTypeOK, Over

LEMMA LogTypedThen == (LogInv /\ LogEdges)' => LogWritesTypeOK'
<1>1. LogInv /\ LogEdges => LogWritesTypeOK
  BY LogTyped
<1> QED BY <1>1, PTL

LEMMA LogEdgesKeep ==
    ASSUME LogInv, LogEdges, [LogWritesNext]_logWriteVars
    PROVE  LogEdges' /\ now' = now
<1>1. /\ phase \in [Requests -> {"idle", "running", "answered", "closed", "audited", "over"}]
      /\ aside \in [Requests -> SUBSET Lines] /\ events \in [Requests -> BOOLEAN]
      /\ \A r \in Requests : r \in writing => phase[r] \in {"running", "answered"}
  BY DEF LogInv, LogShapes, NothingIsMislaid, InApplication
<1>2. CASE UNCHANGED logWriteVars
  BY <1>2 DEF logWriteVars, LogEdges
<1>3. ASSUME NEW r \in Requests, Begins(r) \/ Writes(r) \/ RecordsEvent(r) PROVE LogEdges' /\ now' = now
  BY <1>1, <1>3 DEF Begins, Writes, RecordsEvent, LogEdges
<1>4. ASSUME NEW r \in Requests, Emits(r) \/ Answers(r) PROVE LogEdges' /\ now' = now
  <2>1. emitted' \in [Requests -> SUBSET Lines] /\ now' = now
    BY <1>4 DEF Emits, Answers, Emitting, Lines, LogEdges
  <2>2. /\ phase[r] \in {"running", "answered"} /\ phase' \in [Requests -> {"idle", "running", "answered", "closed", "audited", "over"}]
        /\ phase'[r] \in {"running", "answered"} /\ UNCHANGED <<writing, events>>
        /\ \A q \in Requests : q # r => phase'[q] = phase[q] /\ aside'[q] = aside[q]
    BY <1>1, <1>4 DEF Emits, Answers, Emitting, InApplication
  <2> QED BY <1>1, <2>1, <2>2 DEF LogEdges
<1>5. ASSUME NEW r \in Requests, NEW error \in BOOLEAN, Closes(r, error) PROVE LogEdges' /\ now' = now
  <2>1. /\ phase[r] = "answered" /\ phase' = [phase EXCEPT ![r] = "closed"] /\ writing' = writing \ {r}
        /\ events' = events /\ now' = now
    BY <1>5 DEF Closes
  <2>2. emitted' \in [Requests -> SUBSET Lines] /\ \A q \in Requests : q # r => aside'[q] = aside[q]
    <3>1. CASE error
      BY <1>1, <1>5, <3>1 DEF Closes, Emitting, Lines, LogEdges
    <3>2. CASE ~error
      BY <1>5, <3>2 DEF Closes, LogEdges
    <3> QED BY <3>1, <3>2
  <2> QED BY <1>1, <2>1, <2>2 DEF LogEdges
<1>6. ASSUME NEW r \in Requests, NEW works \in BOOLEAN, WritesAudit(r, works) PROVE LogEdges' /\ now' = now
  <2>1. /\ phase[r] = "closed" /\ phase' = [phase EXCEPT ![r] = "audited"] /\ writing' = writing
        /\ events' = [events EXCEPT ![r] = FALSE] /\ now' = now
    BY <1>6 DEF WritesAudit, MayAudit, EventsLeft
  <2>2. emitted' \in [Requests -> SUBSET Lines] /\ \A q \in Requests : q # r => aside'[q] = aside[q]
    <3>1. CASE ~events[r]
      BY <1>6, <3>1 DEF WritesAudit, LogEdges
    <3>2. CASE events[r] /\ Fails(r, works) = {}
      BY <1>6, <3>2 DEF WritesAudit, LogEdges
    <3>3. CASE events[r] /\ Fails(r, works) # {}
      <4>1. Emitting(r, "audit_failed")
        BY <1>6, <3>3 DEF WritesAudit
      <4> QED BY <1>1, <4>1 DEF Emitting, Lines, LogEdges
    <3> QED BY <3>1, <3>2, <3>3
  <2> QED BY <1>1, <2>1, <2>2 DEF LogEdges
<1>7. ASSUME NEW r \in Requests, NEW works \in BOOLEAN, WritesLogs(r, works) PROVE LogEdges' /\ now' = now
  <2>1. /\ phase[r] = "audited" /\ phase' = [phase EXCEPT ![r] = "over"] /\ writing' = writing /\ emitted' = emitted
        /\ aside' = [aside EXCEPT ![r] = {}] /\ events' = events /\ now' = now
    BY <1>7 DEF WritesLogs, MayLog
  <2> QED BY <1>1, <2>1 DEF LogEdges
<1> QED BY <1>2, <1>3, <1>4, <1>5, <1>6, <1>7 DEF LogWritesNext

\* The notes, also on a database that lets a dangling reference be.
LEMMA NotesTypesKeep ==
    ASSUME NotesTypeOK, LatestIsThere, NotesInv \/ Sqlite, [NotesNext]_noteVars
    PROVE  /\ NotesTypeOK' /\ LatestIsThere' /\ (NotesInv' \/ Sqlite)
           /\ now' = now
<1>1. now' = now
  BY DEF NotesNext, noteVars, DeleteGroup, CreateGroup, SetMembers, RemoveNote, CreateNote, OpenNote, UpdateNote
<1>2. CASE ~Sqlite
  <2>1. NotesInv'
    BY <1>2, NotesStep
  <2> QED BY <1>1, <2>1 DEF NotesInv
<1>3. ASSUME Sqlite PROVE NotesTypeOK' /\ LatestIsThere'
  <2>1. /\ group \in [Groups -> (SUBSET Users) \cup {NoGroup, Dissolved}] /\ nth \in [Groups -> 0..MaxFounded]
        /\ note \in [Notes -> Note \cup {NoNote}] /\ edit \in [Requests -> Edit \cup {NoEdit}]
        /\ meant \in [Notes -> 0..MaxFounded] /\ MaxFounded \in Nat
    BY NotesAssumption DEF NotesTypeOK
  <2>2. Latest \in 0..MaxFounded /\ \A h \in Groups : nth[h] <= Latest
    BY LatestType
  <2>3. \A u \in Users : \A g \in Share : Chosen(u, g) \in 0..MaxFounded
    BY <2>1 DEF Chosen, MembersOf, Stands, Share
  <2>4. ASSUME NEW g \in Groups, NEW members \in SUBSET Users, CreateGroup(g, members)
        PROVE  NotesTypeOK' /\ LatestIsThere'
    <3>1. /\ Latest < MaxFounded /\ group' = [group EXCEPT ![g] = members] /\ nth' = [nth EXCEPT ![g] = Latest + 1]
          /\ note' = note /\ edit' = edit /\ meant' = meant
      BY <2>4 DEF CreateGroup
    <3>2. Latest + 1 \in 0..MaxFounded /\ \A h \in Groups : nth[h] <= Latest + 1
      BY <2>1, <2>2, <3>1
    <3>3. nth' \in [Groups -> 0..MaxFounded] /\ nth'[g] = Latest + 1 /\ \A h \in Groups : h # g => nth'[h] = nth[h]
      BY <2>1, <3>1, <3>2
    <3>4. LatestIsThere'
      <4>1. \A h \in Groups : nth'[h] <= Latest + 1
        BY <3>2, <3>3
      <4> QED BY <3>2, <3>3, <4>1 DEF LatestIsThere
    <3>5. group' \in [Groups -> (SUBSET Users) \cup {NoGroup, Dissolved}]
      BY <2>1, <3>1
    <3> QED BY <1>3, <2>1, <3>1, <3>3, <3>4, <3>5 DEF NotesTypeOK
  <2>5. ASSUME NEW g \in Groups, NEW members \in SUBSET Users, SetMembers(g, members)
        PROVE  NotesTypeOK' /\ LatestIsThere'
    BY <1>3, <2>1, <2>5 DEF SetMembers, NotesTypeOK, LatestIsThere
  <2>6. ASSUME NEW g \in Groups, DeleteGroup(g) PROVE NotesTypeOK' /\ LatestIsThere'
    <3>1. note' = note /\ group' = [group EXCEPT ![g] = Dissolved] /\ UNCHANGED <<nth, edit, meant>>
      BY <1>3, <2>1, <2>6 DEF DeleteGroup, Unshared
    <3> QED BY <1>3, <2>1, <3>1 DEF NotesTypeOK, LatestIsThere
  <2>7. ASSUME NEW n \in Notes, NEW u \in Users, NEW g \in Share, CreateNote(n, u, g)
        PROVE  NotesTypeOK' /\ LatestIsThere'
    <3>1. [owner |-> u, share |-> g] \in Note
      BY DEF Note
    <3> QED BY <1>3, <2>1, <2>3, <2>7, <3>1 DEF CreateNote, NotesTypeOK, LatestIsThere
  <2>8. ASSUME NEW r \in Requests, NEW n \in Notes, NEW g \in Share, OpenNote(r, n, g)
        PROVE  NotesTypeOK' /\ LatestIsThere'
    <3>1. note[n] \in Note /\ note[n].owner \in Users /\ note[n].share \in Share
      BY <2>1, <2>8 DEF OpenNote, Note
    <3>2. [note |-> n, was |-> note[n].share, share |-> g, chosen |-> Chosen(note[n].owner, g)] \in Edit
      BY <2>3, <3>1 DEF Edit
    <3> QED BY <1>3, <2>1, <2>8, <3>2 DEF OpenNote, NotesTypeOK, LatestIsThere
  <2>9. ASSUME NEW r \in Requests, UpdateNote(r) PROVE NotesTypeOK' /\ LatestIsThere'
    <3>1. PICK x \in Edit : x = edit[r]
      BY <2>1, <2>9 DEF UpdateNote
    <3>2. x.note \in Notes /\ x.share \in Share /\ x.chosen \in 0..MaxFounded
      BY DEF Edit
    <3>3. edit' \in [Requests -> Edit \cup {NoEdit}] /\ UNCHANGED <<group, nth>>
      BY <2>1, <2>9 DEF UpdateNote
    <3>4. note' \in [Notes -> Note \cup {NoNote}]
      <4>1. CASE note' = note
        BY <2>1, <4>1
      <4>2. CASE note[x.note] # NoNote /\ note' = [note EXCEPT ![x.note].share = Columns(x)]
        <5>1. note[x.note] \in Note /\ Columns(x) \in Share
          BY <2>1, <3>2, <4>2 DEF Columns, Note
        <5> QED BY <2>1, <4>2, <5>1 DEF Note
      <4> QED BY <2>9, <3>1, <4>1, <4>2 DEF UpdateNote
    <3>5. meant' \in [Notes -> 0..MaxFounded]
      <4>1. meant' = meant \/ meant' = [meant EXCEPT ![x.note] = x.chosen]
        BY <2>9, <3>1 DEF UpdateNote
      <4> QED BY <2>1, <3>2, <4>1
    <3> QED BY <1>3, <2>1, <3>3, <3>4, <3>5 DEF NotesTypeOK, LatestIsThere
  <2>10. ASSUME NEW n \in Notes, RemoveNote(n) PROVE NotesTypeOK' /\ LatestIsThere'
    <3>1. 0 \in 0..MaxFounded
      BY <2>1
    <3> QED BY <1>3, <2>1, <2>10, <3>1 DEF RemoveNote, NotesTypeOK, LatestIsThere
  <2>11. CASE UNCHANGED noteVars
    BY <1>3, <2>1, <2>11 DEF noteVars, NotesTypeOK, LatestIsThere
  <2> QED BY <2>4, <2>5, <2>6, <2>7, <2>8, <2>9, <2>10, <2>11 DEF NotesNext
<1>4. Sqlite \in BOOLEAN
  BY NotesAssumption
<1> QED BY <1>1, <1>2, <1>3, <1>4

\* A record in which every setting has a value that may be written for it, or none.
Wellformed(x) == x \in Record /\ \A k \in Names : x[k] \in Sayings(k) \cup {Absent}

\* What the types of the settings say beside SettingsInv, with the forms they rest on.
SettingsEdges ==
    /\ watched \in Watches /\ Wellformed(record) /\ Wellformed(env) /\ up \in BOOLEAN
    /\ \A k \in AtStart : running[k] \in Sayings(k)
    /\ told \subseteq AtStart /\ crossed \subseteq AtStart
    /\ \A r \in Requests : saving[r] # NoSaving =>
         /\ Wellformed(saving[r].read) /\ DOMAIN saving[r].form \subseteq watched
         /\ \A k \in DOMAIN saving[r].form : saving[r].form[k] \in Sayings(k) \cup {Absent}
         /\ up \/ saving[r].script

\* Settings that can be written resolve to something that can be.
LEMMA ResolvedCanBeWritten ==
    ASSUME Wellformed(record), Wellformed(env), NEW k \in Names
    PROVE  Resolve(k) \in Sayings(k) \cup {Default(k)}
BY DEF Wellformed, Resolve

LEMMA LevelsResolve ==
    ASSUME Wellformed(record), Wellformed(env)
    PROVE  \A k \in AtStart : Resolve(k) \in Sayings(k)
<1> SUFFICES ASSUME NEW k \in AtStart PROVE Resolve(k) \in Sayings(k)
  OBVIOUS
<1>1. k = "LOG_LEVEL" /\ k \in Names /\ k \notin Switches /\ k \notin SecretKeys
  BY DEF AtStart, Names, Fields, Switches, SecretKeys
<1>2. Sayings(k) = {"info", "debug"} /\ Default(k) = "info"
  BY <1>1 DEF Sayings, Default
<1> QED BY <1>1, <1>2, ResolvedCanBeWritten

LEMMA LevelsResolveThen ==
    Wellformed(record)' /\ Wellformed(env)' => \A k \in AtStart : Resolve(k)' \in Sayings(k)
<1>1. Wellformed(record) /\ Wellformed(env) => \A k \in AtStart : Resolve(k) \in Sayings(k)
  BY LevelsResolve
<1>2. (Wellformed(record) /\ Wellformed(env))' => (\A k \in AtStart : Resolve(k) \in Sayings(k))'
  BY <1>1, PTL
<1> QED BY <1>2

LEMMA SettingsTyped == ASSUME SettingsInv, SettingsEdges PROVE SettingsTypeOK
<1>1. PICK k \in Names : /\ k = "REFRESH_TOKEN_EXPIRES_SECONDS"
                         /\ k \notin Switches /\ k \notin SecretKeys
  BY DEF Names, Fields, Switches, SecretKeys
<1>2. Sayings(k) = {"day", "ages"} /\ Default(k) = "fortnight"
  BY <1>1 DEF Sayings, Default
<1>3. Resolve(k) \in {"day", "ages", "fortnight"}
  BY <1>2, ResolvedCanBeWritten DEF SettingsEdges
<1>4. InForce(k) \in {"day", "fortnight"}
  BY <1>1, <1>2, <1>3 DEF InForce
<1> QED BY <1>1, <1>4 DEF SettingsTypeOK, SettingsEdges, Wellformed

LEMMA SettingsTypedThen == (SettingsInv /\ SettingsEdges)' => SettingsTypeOK'
<1>1. SettingsInv /\ SettingsEdges => SettingsTypeOK
  BY SettingsTyped
<1> QED BY <1>1, PTL

LEMMA SettingsEdgesBegin == SettingsInit => SettingsEdges
<1> SUFFICES ASSUME SettingsInit PROVE SettingsEdges
  OBVIOUS
<1>1. /\ watched \in Watches /\ watched \subseteq Names
      /\ told = {} /\ crossed = {} /\ running = [k \in AtStart |-> Resolve(k)] /\ up = FitToStart
      /\ \A r \in Requests : saving[r] = NoSaving
  BY SettingsAssumption DEF SettingsInit
<1>2. PICK f \in Given(watched) : record = Saved(f)
  BY DEF SettingsInit
<1>3. PICK g \in Given(watched) : env = Deployed(g)
  BY DEF SettingsInit
<1>4. \A h \in Given(watched) : DOMAIN h = watched /\ \A k \in watched : h[k] \in Sayings(k) \cup {Absent}
  BY DEF Given
<1>5. \A k \in Names : Sayings(k) \cup {Absent} \subseteq Values
  BY DEF Values
<1>6. ASSUME NEW h \in Given(watched), NEW k \in Names PROVE Saved(h)[k] \in Sayings(k) \cup {Absent}
  BY <1>4 DEF Saved
<1>7. Wellformed(record)
  <2>1. record \in Record
    BY SettingsInitInv DEF SettingsInv
  <2> QED BY <1>2, <1>6, <2>1 DEF Wellformed
<1>8. Wellformed(env)
  <2>1. "long" \in Sayings("JWT_SECRET_KEY")
    BY DEF Sayings, Switches, SecretKeys
  <2>2. \A k \in Names : env[k] \in Sayings(k) \cup {Absent}
    <3> SUFFICES ASSUME NEW k \in Names PROVE env[k] \in Sayings(k) \cup {Absent}
      OBVIOUS
    <3>1. env[k] = Saved(g)[k] \/ (k = "JWT_SECRET_KEY" /\ env[k] = "long")
      BY <1>3 DEF Deployed, Saved
    <3> QED BY <1>6, <2>1, <3>1
  <2>3. env \in Record
    <3>1. DOMAIN env = Names /\ env = [k \in Names |-> env[k]]
      BY <1>3 DEF Deployed, Saved
    <3>2. \A k \in Names : env[k] \in Values
      BY <1>5, <2>2
    <3> QED BY <3>1, <3>2 DEF Record
  <2> QED BY <2>2, <2>3 DEF Wellformed
<1>9. \A k \in AtStart : running[k] \in Sayings(k)
  BY <1>1, <1>7, <1>8, LevelsResolve
<1>10. up \in BOOLEAN
  BY <1>1 DEF FitToStart
<1> QED BY <1>1, <1>7, <1>8, <1>9, <1>10 DEF SettingsEdges

\* A save begins, by the form or by the script.
LEMMA BeginningsKeepEdges ==
    ASSUME SettingsInv, SettingsEdges, NEW r \in Requests, NEW s,
           Wellformed(s.read), DOMAIN s.form \subseteq watched, up \/ s.script,
           \A k \in DOMAIN s.form : s.form[k] \in Sayings(k) \cup {Absent},
           saving' = [saving EXCEPT ![r] = s],
           UNCHANGED <<now, watched, record, env, up, running, told, crossed>>
    PROVE  SettingsEdges'
<1>1. \A q \in Requests : saving'[q] \in {saving[q], s}
  BY DEF SettingsInv
<1> QED BY <1>1 DEF SettingsEdges

LEMMA FormSaveKeepsEdges ==
    ASSUME SettingsInv, SettingsEdges, NEW r \in Requests, NEW D \in SUBSET watched, NEW form \in Given(D),
           SavesSettings(r, form)
    PROVE  SettingsEdges' /\ now' = now
<1>1. PICK s : s = [form |-> form, read |-> record, script |-> FALSE]
  OBVIOUS
<1>2. s.form = form /\ s.read = record
  BY <1>1
<1>3. DOMAIN form = D /\ \A k \in D : form[k] \in Sayings(k) \cup {Absent}
  BY DEF Given
<1>4. up /\ saving' = [saving EXCEPT ![r] = s] /\ UNCHANGED <<now, watched, record, env, up, running, told, crossed>>
  BY <1>1 DEF SavesSettings
<1>5. Wellformed(s.read) /\ DOMAIN s.form \subseteq watched /\ \A k \in DOMAIN s.form : s.form[k] \in Sayings(k) \cup {Absent}
  BY <1>2, <1>3 DEF SettingsEdges
<1> QED BY <1>4, <1>5, BeginningsKeepEdges

LEMMA ScriptSaveKeepsEdges ==
    ASSUME SettingsInv, SettingsEdges, NEW r \in Requests, NEW k \in watched, Unsets(r, k)
    PROVE  SettingsEdges' /\ now' = now
<1>1. PICK form : form = [x \in {k} |-> Absent]
  OBVIOUS
<1>2. PICK s : s = [form |-> form, read |-> record, script |-> TRUE]
  OBVIOUS
<1>3. s.form = form /\ s.read = record /\ s.script
  BY <1>2
<1>4. DOMAIN form = {k} /\ \A x \in {k} : form[x] = Absent
  BY <1>1
<1>5. saving' = [saving EXCEPT ![r] = s] /\ UNCHANGED <<now, watched, record, env, up, running, told, crossed>>
  BY <1>1, <1>2 DEF Unsets
<1>6. Wellformed(s.read) /\ DOMAIN s.form \subseteq watched /\ \A x \in DOMAIN s.form : s.form[x] \in Sayings(x) \cup {Absent}
  BY <1>3, <1>4 DEF SettingsEdges
<1> QED BY <1>3, <1>5, <1>6, BeginningsKeepEdges

LEMMA CommitsKeepEdges ==
    ASSUME SettingsInv, SettingsEdges, NEW r \in Requests, Commits(r)
    PROVE  SettingsEdges' /\ now' = now
<1>1. PICK s \in Saving : s = saving[r] /\ SaneSave(s)
  BY DEF SettingsInv, Commits
<1>2. /\ record' = Merged(s) /\ told' = told \cup RestartRequirement(s)
      /\ crossed' = (crossed \ TakenBy(s)) \cup {k \in AtStart \ TakenBy(s) : s.read[k] # record[k]}
      /\ saving' = [saving EXCEPT ![r] = NoSaving] /\ UNCHANGED <<now, watched, env, up, running>>
  BY <1>1 DEF Commits
<1>3. /\ Wellformed(s.read) /\ \A k \in DOMAIN s.form : s.form[k] \in Sayings(k) \cup {Absent}
  BY <1>1 DEF SettingsEdges, Commits
<1>4. Wellformed(record')
  <2>1. Merged(s) \in Record
    BY <1>1, MergedIs
  <2>2. TakenBy(s) \subseteq DOMAIN s.form
    BY DEF TakenBy, Taken
  <2>3. \A k \in Names : Merged(s)[k] \in Sayings(k) \cup {Absent}
    BY <1>3, <2>2 DEF Merged, Wellformed
  <2> QED BY <1>2, <2>1, <2>3 DEF Wellformed
<1>5. told' \subseteq AtStart /\ crossed' \subseteq AtStart
  BY <1>2 DEF SettingsEdges, RestartRequirement
<1>6. \A q \in Requests : saving'[q] \in {saving[q], NoSaving}
  BY <1>2 DEF SettingsInv
<1>7. Wellformed(env)'
  BY <1>2 DEF SettingsEdges, Wellformed
<1>8. Wellformed(record)'
  BY <1>4 DEF Wellformed
<1>9. \A q \in Requests : saving'[q] # NoSaving =>
         /\ Wellformed(saving'[q].read) /\ DOMAIN saving'[q].form \subseteq watched'
         /\ \A k \in DOMAIN saving'[q].form : saving'[q].form[k] \in Sayings(k) \cup {Absent}
         /\ up' \/ saving'[q].script
  BY <1>2, <1>6 DEF SettingsEdges
<1> QED BY <1>2, <1>5, <1>7, <1>8, <1>9 DEF SettingsEdges

LEMMA RollsBackKeepsEdges ==
    ASSUME SettingsInv, SettingsEdges, NEW r \in Requests, RollsBack(r)
    PROVE  SettingsEdges' /\ now' = now
<1>1. \A q \in Requests : saving'[q] \in {saving[q], NoSaving}
  BY DEF SettingsInv, RollsBack
<1>2. UNCHANGED <<now, watched, record, env, up, running, told, crossed>>
  BY DEF RollsBack
<1> QED BY <1>1, <1>2 DEF SettingsEdges

LEMMA StartsAnewKeepsEdges ==
    ASSUME SettingsInv, SettingsEdges, NEW k \in watched, NEW given \in Deployable(k), StartsAnew(k, given)
    PROVE  SettingsEdges' /\ now' = now
<1>1. /\ env' = [env EXCEPT ![k] = given] /\ UNCHANGED <<now, watched, record>>
      /\ up' = FitToStart' /\ running' = [x \in AtStart |-> Resolve(x)'] /\ told' = {} /\ crossed' = {}
      /\ saving' = [r \in Requests |-> IF saving[r] = NoSaving \/ saving[r].script THEN saving[r] ELSE NoSaving]
  BY DEF StartsAnew
<1>2. k \in Names /\ given \in Sayings(k) \cup {Absent} /\ given \in Values
  <2>1. k \in Names
    BY DEF SettingsInv
  <2>2. given \in Sayings(k) \cup {Absent}
    BY DEF Deployable
  <2> QED BY <2>1, <2>2 DEF Values
<1>3. Wellformed(env')
  BY <1>1, <1>2 DEF SettingsEdges, Wellformed, Record
<1>4. Wellformed(env)' /\ Wellformed(record)'
  BY <1>1, <1>3 DEF SettingsEdges, Wellformed
<1>5. \A x \in AtStart : Resolve(x)' \in Sayings(x)
  BY <1>4, LevelsResolveThen
<1>6. \A x \in AtStart : running'[x] \in Sayings(x)
  BY <1>1, <1>5
<1>7. up' \in BOOLEAN
  BY <1>1 DEF FitToStart
<1>8. \A q \in Requests : saving'[q] # NoSaving => saving'[q] = saving[q] /\ saving[q].script
  BY <1>1
<1>9. \A q \in Requests : saving'[q] # NoSaving =>
         /\ Wellformed(saving'[q].read) /\ DOMAIN saving'[q].form \subseteq watched'
         /\ \A x \in DOMAIN saving'[q].form : saving'[q].form[x] \in Sayings(x) \cup {Absent}
         /\ up' \/ saving'[q].script
  BY <1>1, <1>8 DEF SettingsEdges
<1> QED BY <1>1, <1>4, <1>6, <1>7, <1>9 DEF SettingsEdges

LEMMA SettingsEdgesKeep ==
    ASSUME SettingsInv, SettingsEdges, [SettingsNext]_settingVars
    PROVE  SettingsEdges' /\ now' = now
<1>1. ASSUME NEW r \in Requests, Commits(r) \/ RollsBack(r) PROVE SettingsEdges' /\ now' = now
  BY <1>1, CommitsKeepEdges, RollsBackKeepsEdges
<1>2. ASSUME NEW r \in Requests, NEW D \in (SUBSET watched) \ {{}}, NEW form \in Given(D), SavesSettings(r, form)
      PROVE  SettingsEdges' /\ now' = now
  BY <1>2, FormSaveKeepsEdges
<1>3. ASSUME NEW k \in watched, NEW given \in Deployable(k), StartsAnew(k, given) PROVE SettingsEdges' /\ now' = now
  BY <1>3, StartsAnewKeepsEdges
<1>4. ASSUME NEW k \in watched, NEW r \in Requests, Unsets(r, k) PROVE SettingsEdges' /\ now' = now
  BY <1>4, ScriptSaveKeepsEdges
<1>5. CASE UNCHANGED settingVars
  BY <1>5 DEF settingVars, SettingsEdges, Wellformed
<1> QED BY <1>1, <1>2, <1>3, <1>4, <1>5 DEF SettingsNext

\* Other scenes leave the settings alone.
LEMMA SettingsStandStill ==
    ASSUME SettingsInv, UNCHANGED <<watched, record, env, up, running, saving, told, crossed>>
    PROVE  SettingsInv'
<1>1. \A k : Resolve(k)' = Resolve(k)
  BY DEF Resolve
<1>2. FitToStart' = FitToStart
  BY <1>1 DEF FitToStart, InForce
<1>3. RestartsAreAskedFor' /\ KeysStayFit'
  BY <1>1, <1>2 DEF SettingsInv, RestartsAreAskedFor, KeysStayFit
<1> QED BY <1>3 DEF SettingsInv

LEMMA RestartsTakeNoTime == ASSUME [RestartsNext]_restartVars PROVE now' = now
BY DEF RestartsNext, restartVars, RequestRestart, Boots, StartsWatching, Polls, Crashes, ContainerRestarts

LEMMA OperationScenesStay ==
    ASSUME [OperationsNext]_operationsVars
    PROVE  /\ scene' = scene
           /\ scene = "tenants" => [TenantsNext]_tenantVars
           /\ scene = "notes" => [NotesNext]_noteVars
           /\ scene = "restarts" => [RestartsNext]_restartVars
           /\ scene = "log writes" => [LogWritesNext]_logWriteVars
           /\ scene = "retention" => [LogRetentionNext]_retentionVars
           /\ scene = "release" => [ReleaseNext]_releaseVars
           /\ scene = "tokens" => [TokensNext]_tokenVars
           /\ scene = "settings" => [SettingsNext]_settingVars
           /\ scene # "tenants" => UNCHANGED tenantsOnly
           /\ scene # "notes" => UNCHANGED notesOnly
           /\ scene # "restarts" => UNCHANGED restartsOnly
           /\ scene # "log writes" => UNCHANGED logWritesOnly
           /\ scene # "retention" => UNCHANGED retentionOnly
           /\ scene # "release" => UNCHANGED releaseOnly
           /\ scene # "tokens" => UNCHANGED tokensOnly
           /\ scene # "settings" => UNCHANGED settingsOnly
<1>1. CASE UNCHANGED operationsVars
  <2>1. /\ UNCHANGED <<now, scene>> /\ UNCHANGED tenantsOnly /\ UNCHANGED notesOnly /\ UNCHANGED restartsOnly
        /\ UNCHANGED logWritesOnly /\ UNCHANGED retentionOnly /\ UNCHANGED releaseOnly /\ UNCHANGED tokensOnly
        /\ UNCHANGED settingsOnly
    BY <1>1 DEF operationsVars
  <2>2. UNCHANGED tenantVars /\ UNCHANGED noteVars /\ UNCHANGED restartVars /\ UNCHANGED logWriteVars
    BY <2>1 DEF tenantVars, tenantsOnly, noteVars, notesOnly, restartVars, restartsOnly, logWriteVars, logWritesOnly
  <2>3. UNCHANGED retentionVars /\ UNCHANGED releaseVars /\ UNCHANGED tokenVars /\ UNCHANGED settingVars
    BY <2>1 DEF retentionVars, retentionOnly, releaseVars, releaseOnly, tokenVars, tokensOnly, settingVars, settingsOnly
  <2> QED BY <2>1, <2>2, <2>3
<1>2. CASE TenantsScene
  BY <1>2 DEF TenantsScene
<1>3. CASE NotesScene
  BY <1>3 DEF NotesScene
<1>4. CASE RestartsScene
  BY <1>4 DEF RestartsScene
<1>5. CASE LogWritesScene
  BY <1>5 DEF LogWritesScene
<1>6. CASE RetentionScene
  BY <1>6 DEF RetentionScene
<1>7. CASE ReleaseScene
  BY <1>7 DEF ReleaseScene
<1>8. CASE TokensScene
  BY <1>8 DEF TokensScene
<1>9. CASE SettingsScene
  BY <1>9 DEF SettingsScene
<1> QED BY <1>1, <1>2, <1>3, <1>4, <1>5, <1>6, <1>7, <1>8, <1>9 DEF OperationsNext

\* In its scene a component has its own inductive invariant, in the others its types;
\* where those are no invariant by themselves it has more than its types in every scene.
OperationsInv ==
    /\ scene \in Scenes
    /\ scene = "tenants" => TenantsInv
    /\ LatestIsThere /\ (NotesInv \/ Sqlite)
    /\ scene = "restarts" => RestartsInv
    /\ LogInv /\ LogEdges
    /\ scene = "retention" => RetentionInv
    /\ scene = "release" => ReleaseInv
    /\ scene = "tokens" => TokensInv
    /\ SettingsInv /\ SettingsEdges
    /\ now \in Time /\ OperationsTypeOK

LEMMA OperationsBegin == OperationsInit => OperationsInv
<1> SUFFICES ASSUME OperationsInit PROVE OperationsInv
  OBVIOUS
<1>1. /\ TenantsInit /\ NotesInit /\ RestartsInit /\ LogWritesInit
      /\ LogRetentionInit /\ ReleaseInit /\ TokensInit /\ SettingsInit
      /\ scene \in Scenes
  BY DEF OperationsInit
<1>2. TenantsInv /\ NotesInv /\ RestartsInv /\ LogInv
  BY <1>1, TenantsInitInv, NotesInitInv, RestartsInitInv, LogInitInv
<1>3. RetentionInv /\ ReleaseInv /\ TokensInv /\ SettingsInv /\ SettingsEdges
  BY <1>1, RetentionInitInv, ReleaseInitInv, TokensInitInv, SettingsInitInv, SettingsEdgesBegin
<1>4. LogEdges
  BY <1>1 DEF LogWritesInit, LogEdges
<1>5. LatestIsThere /\ NotesTypeOK
  BY <1>2 DEF NotesInv
<1>6. TenantsTypeOK /\ RestartsTypeOK /\ LogWritesTypeOK /\ now \in Time
  BY <1>2, <1>4, LogTyped DEF TenantsInv, RestartsInv, TenantsTypeOK
<1>7. LogRetentionTypeOK /\ ReleaseTypeOK /\ TokensTypeOK /\ SettingsTypeOK
  BY <1>3, SettingsTyped DEF RetentionInv, ReleaseInv, TokensInv
<1>8. OperationsTypeOK
  BY <1>5, <1>6, <1>7 DEF OperationsTypeOK
<1> QED BY <1>1, <1>2, <1>3, <1>4, <1>5, <1>6, <1>8 DEF OperationsInv

\* What people share, and the clock in those scenes.
LEMMA SharingTypesKeep ==
    ASSUME OperationsInv, [OperationsNext]_operationsVars
    PROVE  /\ scene = "tenants" => TenantsInv' /\ now' \in Time
           /\ scene = "notes" => now' = now
           /\ LatestIsThere' /\ (NotesInv' \/ Sqlite)
           /\ now' \in Time => TenantsTypeOK'
           /\ NotesTypeOK'
<1>1. TenantsTypeOK /\ NotesTypeOK
  BY DEF OperationsInv, OperationsTypeOK
<1>2. (scene = "tenants" => TenantsInv' /\ now' \in Time) /\ (now' \in Time => TenantsTypeOK')
  <2>1. CASE scene = "tenants"
    <3>1. TenantsInv /\ [TenantsNext]_tenantVars
      BY <2>1, OperationScenesStay DEF OperationsInv
    <3>2. TenantsInv'
      BY <3>1, TenantsStep
    <3>3. TenantsTypeOK'
      BY <3>2 DEF TenantsInv
    <3> QED BY <3>2, <3>3 DEF TenantsTypeOK
  <2>2. CASE scene # "tenants"
    <3>1. UNCHANGED tenantsOnly
      BY <2>2, OperationScenesStay
    <3>2. /\ standing' = standing /\ seats' = seats /\ ownerOf' = ownerOf /\ badges' = badges /\ job' = job
          /\ closedAt' = closedAt /\ slipped' = slipped /\ overlapped' = overlapped
      BY <3>1 DEF tenantsOnly
    <3>3. \A t : PeopleOf(t)' = PeopleOf(t) /\ RolesOf(t)' = RolesOf(t)
      BY <3>2 DEF PeopleOf, InPlace, Seated, RolesOf
    <3>4. now' \in Time => TenantsTypeOK'
      BY <1>1, <3>2, <3>3 DEF TenantsTypeOK
    <3> QED BY <2>2, <3>4
  <2> QED BY <2>1, <2>2
<1>3. /\ scene = "notes" => now' = now
      /\ NotesTypeOK' /\ LatestIsThere' /\ (NotesInv' \/ Sqlite)
  <2>1. CASE scene = "notes"
    <3>1. /\ NotesTypeOK /\ LatestIsThere /\ (NotesInv \/ Sqlite) /\ [NotesNext]_noteVars
      BY <1>1, <2>1, OperationScenesStay DEF OperationsInv
    <3> QED BY <3>1, NotesTypesKeep
  <2>2. CASE scene # "notes"
    <3>1. UNCHANGED <<group, nth, note, edit, meant>>
      BY <2>2, OperationScenesStay DEF notesOnly
    <3>2. NotesTypeOK' /\ LatestIsThere'
      <4>1. NotesTypeOK'
        BY <1>1, <3>1 DEF NotesTypeOK, Stands
      <4>2. LatestIsThere'
        BY <3>1 DEF OperationsInv, LatestIsThere
      <4> QED BY <4>1, <4>2
    <3>3. NotesInv => NotesInv'
      BY <3>1, <3>2 DEF NotesInv, EditsChoose, SharesMatch, Stands
    <3> QED BY <2>2, <3>2, <3>3 DEF OperationsInv
  <2> QED BY <2>1, <2>2
<1> QED BY <1>2, <1>3

\* The logs of a request, and the purges of what they wrote.
LEMMA LogsTypesKeep ==
    ASSUME OperationsInv, [OperationsNext]_operationsVars
    PROVE  /\ scene = "log writes" => now' = now
           /\ LogInv' /\ LogEdges' /\ LogWritesTypeOK'
           /\ scene = "retention" => RetentionInv' /\ now' \in Time
           /\ LogRetentionTypeOK'
<1>1. LogInv /\ LogEdges /\ LogRetentionTypeOK
  BY DEF OperationsInv, OperationsTypeOK
<1>2. (scene = "log writes" => now' = now) /\ LogInv' /\ LogEdges'
  <2>1. CASE scene = "log writes"
    <3>1. [LogWritesNext]_logWriteVars
      BY <2>1, OperationScenesStay
    <3> QED BY <1>1, <3>1, LogStep, LogEdgesKeep
  <2>2. CASE scene # "log writes"
    <3>1. UNCHANGED logWritesOnly
      BY <2>2, OperationScenesStay
    <3>2. /\ phase' = phase /\ writing' = writing /\ aside' = aside /\ events' = events /\ logged' = logged
          /\ audited' = audited /\ emitted' = emitted /\ happened' = happened /\ refused' = refused
      BY <3>1 DEF logWritesOnly
    <3>3. LogEdges'
      BY <1>1, <3>2 DEF LogEdges
    <3>4. LogInv'
      BY <1>1, <3>2 DEF LogInv, LogShapes, NothingIsMislaid, EventsLeaveATrace, NothingIsLostToItself, InApplication, Over
    <3> QED BY <2>2, <3>3, <3>4
  <2> QED BY <2>1, <2>2
<1>3. (LogInv /\ LogEdges)' => LogWritesTypeOK'
  BY LogTypedThen
<1>4. (scene = "retention" => RetentionInv' /\ now' \in Time) /\ LogRetentionTypeOK'
  <2>1. CASE scene = "retention"
    <3>1. RetentionInv /\ [LogRetentionNext]_retentionVars
      BY <2>1, OperationScenesStay DEF OperationsInv
    <3>2. RetentionInv'
      BY <3>1, RetentionStep
    <3> QED BY <3>2 DEF RetentionInv
  <2>2. CASE scene # "retention"
    <3>1. UNCHANGED retentionOnly
      BY <2>2, OperationScenesStay
    <3> QED BY <1>1, <2>2, <3>1 DEF retentionOnly, LogRetentionTypeOK
  <2> QED BY <2>1, <2>2
<1> QED BY <1>2, <1>3, <1>4

\* The workers, what they remember, and the settings they read.
LEMMA WorkersTypesKeep ==
    ASSUME OperationsInv, [OperationsNext]_operationsVars
    PROVE  /\ scene = "restarts" => RestartsInv' /\ now' = now
           /\ scene = "release" => ReleaseInv' /\ now' \in Time
           /\ scene = "tokens" => TokensInv' /\ now' \in Time
           /\ scene = "settings" => now' = now
           /\ SettingsInv' /\ SettingsEdges'
           /\ RestartsTypeOK' /\ ReleaseTypeOK' /\ TokensTypeOK' /\ SettingsTypeOK'
<1>1. RestartsTypeOK /\ ReleaseTypeOK /\ TokensTypeOK /\ SettingsInv /\ SettingsEdges
  BY DEF OperationsInv, OperationsTypeOK
<1>2. (scene = "restarts" => RestartsInv' /\ now' = now) /\ RestartsTypeOK'
  <2>1. CASE scene = "restarts"
    <3>1. RestartsInv /\ [RestartsNext]_restartVars
      BY <2>1, OperationScenesStay DEF OperationsInv
    <3>2. RestartsInv'
      BY <3>1, RestartsStep
    <3>3. now' = now
      BY <3>1, RestartsTakeNoTime
    <3> QED BY <3>2, <3>3 DEF RestartsInv
  <2>2. CASE scene # "restarts"
    <3>1. UNCHANGED restartsOnly
      BY <2>2, OperationScenesStay
    <3> QED BY <1>1, <2>2, <3>1 DEF restartsOnly, RestartsTypeOK, Ending
  <2> QED BY <2>1, <2>2
<1>3. (scene = "release" => ReleaseInv' /\ now' \in Time) /\ ReleaseTypeOK'
  <2>1. CASE scene = "release"
    <3>1. ReleaseInv /\ [ReleaseNext]_releaseVars
      BY <2>1, OperationScenesStay DEF OperationsInv
    <3>2. ReleaseInv'
      BY <3>1, ReleaseStep
    <3> QED BY <3>2 DEF ReleaseInv, ReleaseTimes
  <2>2. CASE scene # "release"
    <3>1. UNCHANGED releaseOnly
      BY <2>2, OperationScenesStay
    <3> QED BY <1>1, <2>2, <3>1 DEF releaseOnly, ReleaseTypeOK, HoldsLock
  <2> QED BY <2>1, <2>2
<1>4. (scene = "tokens" => TokensInv' /\ now' \in Time) /\ TokensTypeOK'
  <2>1. CASE scene = "tokens"
    <3>1. TokensInv /\ [TokensNext]_tokenVars
      BY <2>1, OperationScenesStay DEF OperationsInv
    <3>2. TokensInv'
      BY <3>1, TokensStep
    <3> QED BY <3>2 DEF TokensInv
  <2>2. CASE scene # "tokens"
    <3>1. UNCHANGED tokensOnly
      BY <2>2, OperationScenesStay
    <3> QED BY <1>1, <2>2, <3>1 DEF tokensOnly, TokensTypeOK, LastToken, Exchanges
  <2> QED BY <2>1, <2>2
<1>5. (scene = "settings" => now' = now) /\ SettingsInv' /\ SettingsEdges'
  <2>1. CASE scene = "settings"
    <3>1. [SettingsNext]_settingVars
      BY <2>1, OperationScenesStay
    <3> QED BY <1>1, <3>1, SettingsNextKeeps, SettingsEdgesKeep
  <2>2. CASE scene # "settings"
    <3>1. UNCHANGED <<watched, record, env, up, running, saving, told, crossed>>
      BY <2>2, OperationScenesStay DEF settingsOnly
    <3>2. SettingsInv'
      BY <1>1, <3>1, SettingsStandStill
    <3>3. SettingsEdges'
      BY <1>1, <3>1 DEF SettingsEdges, Wellformed
    <3> QED BY <2>2, <3>2, <3>3
  <2> QED BY <2>1, <2>2
<1>6. (SettingsInv /\ SettingsEdges)' => SettingsTypeOK'
  BY SettingsTypedThen
<1> QED BY <1>2, <1>3, <1>4, <1>5, <1>6

LEMMA OperationsKeep == OperationsInv /\ [OperationsNext]_operationsVars => OperationsInv'
<1> SUFFICES ASSUME OperationsInv, [OperationsNext]_operationsVars PROVE OperationsInv'
  OBVIOUS
<1>1. now \in Time /\ scene' = scene /\ scene \in Scenes
  BY OperationScenesStay DEF OperationsInv
<1>2. now' \in Time
  <2>1. scene \in {"tenants", "notes", "restarts", "log writes", "retention", "release", "tokens", "settings"}
    BY <1>1 DEF Scenes
  <2> QED BY <1>1, <2>1, SharingTypesKeep, LogsTypesKeep, WorkersTypesKeep
<1>3. OperationsTypeOK'
  BY <1>2, SharingTypesKeep, LogsTypesKeep, WorkersTypesKeep DEF OperationsTypeOK
<1> QED BY <1>1, <1>2, <1>3, SharingTypesKeep, LogsTypesKeep, WorkersTypesKeep DEF OperationsInv

\* The rows, requests and workers of the components around the tenants have their types,
\* whichever of them is played: seats and badges, notes and groups, restarts, what a
\* request writes to the logs and the purges of it, the remembered release, the tokens
\* the service gets for itself, and the settings, whose lifetime in force is one the
\* dates can bear whatever an older version saved.
THEOREM OperationsTypes == OperationsSpec => []OperationsTypeOK
<1>1. OperationsInv => OperationsTypeOK
  BY DEF OperationsInv
<1> QED BY OperationsBegin, OperationsKeep, <1>1, PTL DEF OperationsSpec

=============================================================================
