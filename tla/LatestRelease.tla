--------------------------- MODULE LatestRelease ---------------------------
(***************************************************************************)
(* The latest release of the app, as every device asks for it when it is     *)
(* opened: the answer is remembered for a while, a failure for a shorter one, *)
(* and one request at a time goes to the storage, holding the lock.           *)
(***************************************************************************)
EXTENDS Service

CONSTANTS
    MaxReleases,                \* bound of the releases that are published
    AnswerTtl, FailureTtl,      \* ANSWER_TTL_SECONDS, FAILURE_TTL_SECONDS
    MaxFetch,                   \* the longest a reading of the storage takes
    NoAnswer

ASSUME LatestReleaseAssumption ==
    /\ MaxReleases \in Nat /\ MaxFetch \in Nat
    /\ FailureTtl \in Nat \ {0} /\ AnswerTtl \in Nat /\ FailureTtl <= AnswerTtl

Releases == 0..MaxReleases      \* 0: nothing is published yet, or nothing to tell
Outcomes == {"told", "failed"}
Remembered == [release: Releases, until: Nat, outcome: Outcomes]

ASSUME NoAnswerAssumption == NoAnswer \notin Remembered

VARIABLES
    published,    \* the release latest.json names
    remembered,   \* what the process remembers, or NoAnswer
    query,        \* Requests -> "idle", "waiting" for the lock, or "reading" since when
    \* history, read by the properties and by no action:
    replaced,     \* Releases -> when the next one was published, or Never
    answers,      \* the last answer to each request, and when it was given
    readings      \* when the storage was last read, what came of the last one that ended, and
                  \* whether failures were left their time

releaseVars == <<now, published, remembered, query, replaced, answers, readings>>

Query == [state: {"idle", "waiting", "reading"}, since: Time]
Idle == [state |-> "idle", since |-> 0]
HoldsLock(r) == query[r].state = "reading"
LockIsFree == \A r \in Requests : ~HoldsLock(r)

\* The state has its types, and one request at most reads the storage.
ReleaseTypeOK ==
    /\ published \in Releases /\ remembered \in Remembered \cup {NoAnswer}
    /\ query \in [Requests -> Query]
    /\ replaced \in [Releases -> Time \cup {Never}]
    /\ answers \in [Requests -> [release: Releases, at: Time, outcome: Outcomes] \cup {NoAnswer}]
    /\ readings \in [at: Time \cup {Never}, outcome: Outcomes, spacing: {"kept", "broken"}]
    /\ \A r, s \in Requests : HoldsLock(r) /\ HoldsLock(s) => r = s

ReleaseInit ==
    /\ now = 0 /\ published = 0 /\ remembered = NoAnswer
    /\ query = [r \in Requests |-> Idle] /\ replaced = [v \in Releases |-> Never]
    /\ answers = [r \in Requests |-> NoAnswer]
    /\ readings = [at |-> Never, outcome |-> "told", spacing |-> "kept"]

\* The distribution of the app names a new release.
Publishes ==
    /\ published < MaxReleases
    /\ published' = published + 1
    /\ replaced' = [replaced EXCEPT ![published] = now]
    /\ UNCHANGED <<now, remembered, query, answers, readings>>

AsksForRelease(r) ==
    /\ query[r].state = "idle"
    /\ query' = [query EXCEPT ![r].state = "waiting"]
    /\ UNCHANGED <<now, published, remembered, replaced, answers, readings>>

Fresh == remembered # NoAnswer /\ now < remembered.until

\* Variant: the reading is done outside of the lock.
MayEnterAnyTime == TRUE

\* with self._lock
MayEnter == LockIsFree

\* The lock is taken; what is remembered is answered, or the storage is read.
TakesLock(r) ==
    /\ query[r].state = "waiting" /\ MayEnter
    /\ IF Fresh
       THEN /\ query' = [query EXCEPT ![r] = Idle]
            /\ answers' = [answers EXCEPT ![r] = [release |-> remembered.release, at |-> now, outcome |-> remembered.outcome]]
            /\ UNCHANGED readings
       ELSE /\ query' = [query EXCEPT ![r] = [state |-> "reading", since |-> now]]
            /\ readings' = [readings EXCEPT !.at = now,
                 !.spacing = IF readings.outcome = "failed" /\ now - readings.at < FailureTtl THEN "broken" ELSE @]
            /\ UNCHANGED answers
    /\ UNCHANGED <<now, published, remembered, replaced>>

\* Variant: a failure leaves what was remembered, which is over.
RememberAnswersOnly(release, outcome, since) ==
    IF outcome = "failed" THEN remembered ELSE [release |-> release, until |-> since + AnswerTtl, outcome |-> outcome]

\* Variant: what is remembered for the time after a failure is what was known.
RememberForEver(release, outcome, since) ==
    IF outcome = "failed" /\ remembered # NoAnswer THEN [remembered EXCEPT !.until = since + FailureTtl]
    ELSE [release |-> release, until |-> since + AnswerTtl, outcome |-> outcome]

\* The time of life is counted from before the reading; a failure is
\* remembered as nothing to tell.
Remember(release, outcome, since) ==
    [release |-> release, until |-> since + (IF outcome = "failed" THEN FailureTtl ELSE AnswerTtl), outcome |-> outcome]

ReadsStorage(r, outcome) ==
    LET release == IF outcome = "failed" THEN 0 ELSE published
    IN  /\ HoldsLock(r)
        /\ remembered' = Remember(release, outcome, query[r].since)
        /\ answers' = [answers EXCEPT ![r] = [release |-> release, at |-> now, outcome |-> outcome]]
        /\ readings' = [readings EXCEPT !.outcome = outcome]
        /\ query' = [query EXCEPT ![r] = Idle]
        /\ UNCHANGED <<now, published, replaced>>

ReleaseTick ==
    /\ Tick /\ \A r \in Requests : HoldsLock(r) => now - query[r].since < MaxFetch
    /\ UNCHANGED <<published, remembered, query, replaced, answers, readings>>

ReleaseNext ==
    \/ Publishes \/ ReleaseTick
    \/ \E r \in Requests : AsksForRelease(r) \/ TakesLock(r) \/ \E outcome \in Outcomes : ReadsStorage(r, outcome)

ReleaseSpec == ReleaseInit /\ [][ReleaseNext]_releaseVars
-----------------------------------------------------------------------------
\* A device is told of a release that was the latest at most ANSWER_TTL before,
\* however often the storage has failed in between.
AnswersAreRecent ==
    \A r \in Requests : answers[r] # NoAnswer /\ answers[r].outcome = "told" =>
        replaced[answers[r].release] = Never \/ answers[r].at - replaced[answers[r].release] <= AnswerTtl

\* A storage that fails is left alone for FAILURE_TTL, whoever asks.
FailuresAreSpaced == readings.spacing = "kept"

\* The remembered answer is young, and the store is left alone after a failure.
ReleaseHolds == AnswersAreRecent /\ FailuresAreSpaced
=============================================================================
