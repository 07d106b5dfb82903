--------------------------- MODULE LoginThrottle ---------------------------
(***************************************************************************)
(* Failures counted for each identifier, and the refusals they lead to.     *)
(*                                                                          *)
(* A counter belongs to an identifier as it was sent, whether or not an     *)
(* account has it, and to a purpose: logins count failures, requests for a  *)
(* reset link count every time.  One attempt is three transactions of its   *)
(* own, outside the transaction of the request: a reading that may refuse   *)
(* it, a reading of the counter, and a save of what was computed from it.   *)
(***************************************************************************)
EXTENDS Service

CONSTANTS
    Tries,          \* the attempts of this instance
    Identifiers,    \* what normalize_identifier leaves of an address
    MaxFailures,    \* auth_throttle_max_failures
    Window,         \* ... how long failures add up
    LockDuration,   \* ... how long the identifier is then refused
    NoAttempts      \* no row

ASSUME PolicyAssumption ==
    /\ MaxFailures \in Nat \ {0}        \* 0 switches the throttle off
    /\ Window \in Nat \ {0} /\ LockDuration \in Nat

Purposes == {"login", "password_reset"}
Counters == Purposes \X Identifiers

Attempts == [failures: Nat \ {0}, started: Time, locked: Int]

ASSUME NoAttemptsAssumption == NoAttempts \notin Attempts

Steps == {"new", "allowed", "counting", "counted", "lost", "refused", "passed"}
Try == [pc: Steps, key: Counters, seen: Attempts \cup {NoAttempts}, at: Time]

VARIABLES
    attempts,    \* login_attempts: Counters -> a row, or NoAttempts
    try,         \* Tries -> the attempt it makes
    \* history, read by the properties and by no action:
    failed,      \* Counters -> when each failure was counted, by which attempt
    due,         \* Counters -> the count of a window, had each failure counted at once
    raced       \* Counters -> whether attempts on it overlapped, or a save was lost

throttleVars == <<now, attempts, try, failed, due, raced>>

\* The state has its types; no row is kept for an identifier with no failures.
ThrottleTypeOK ==
    /\ now \in Time
    /\ attempts \in [Counters -> Attempts \cup {NoAttempts}]
    /\ try \in [Tries -> Try]
    /\ failed \in [Counters -> SUBSET (Time \X Tries)]
    /\ due \in [Counters -> [from: Time, count: Nat]]
    /\ raced \in [Counters -> BOOLEAN]

\* Each request is one attempt, at an identifier of its choice.
ThrottleInit ==
    /\ now = 0
    /\ attempts = [c \in Counters |-> NoAttempts]
    /\ try \in [Tries -> {[pc |-> "new", key |-> c, seen |-> NoAttempts, at |-> 0] : c \in Counters}]
    /\ failed = [c \in Counters |-> {}]
    /\ due = [c \in Counters |-> [from |-> 0, count |-> 0]]
    /\ raced = [c \in Counters |-> FALSE]

-----------------------------------------------------------------------------
(* The policy: what a row means at a time.                                  *)

Refuses(row, t) == row # NoAttempts /\ row.locked # Never /\ t < row.locked

WindowOpen(row, t) == row # NoAttempts /\ t - row.started < Window

\* Variant: the time since the last failure decides, so a window never closes.
AfterFailureInSlidingWindow(row, t) ==
    LET counting == row # NoAttempts
        n == IF counting THEN row.failures + 1 ELSE 1
    IN  [failures |-> n, started |-> IF counting THEN row.started ELSE t,
         locked |-> IF n >= MaxFailures THEN t + LockDuration ELSE Never]

\* Variant: a window that opens anew takes over the count of the one before.
AfterFailureCarriedOver(row, t) ==
    LET n == IF row # NoAttempts THEN row.failures + 1 ELSE 1
    IN  [failures |-> n, started |-> IF WindowOpen(row, t) THEN row.started ELSE t,
         locked |-> IF n >= MaxFailures THEN t + LockDuration ELSE Never]

\* One more failure: outside the window the count starts again.
AfterFailure(row, t) ==
    LET n == IF WindowOpen(row, t) THEN row.failures + 1 ELSE 1
    IN  [failures |-> n,
         started |-> IF WindowOpen(row, t) THEN row.started ELSE t,
         locked |-> IF n >= MaxFailures THEN t + LockDuration ELSE Never]

IsStale(row, t) == ~Refuses(row, t) /\ ~WindowOpen(row, t)

\* Variant: the sweep looks at the window and forgets the lock.
SweptByWindowAlone(t) == [c \in Counters |-> IF WindowOpen(attempts[c], t) THEN attempts[c] ELSE NoAttempts]

\* The rows left by the DELETE that goes before every save.
Swept(t) == [c \in Counters |-> IF IsStale(attempts[c], t) THEN NoAttempts ELSE attempts[c]]

-----------------------------------------------------------------------------
(* An attempt.                                                              *)

Underway(r) == try[r].pc \in {"allowed", "counting"}

RequireAllowed(r) ==
    /\ try[r].pc = "new"
    /\ LET c == try[r].key
           refused == Refuses(attempts[c], now)
       IN  /\ try' = [try EXCEPT ![r].pc = IF refused THEN "refused" ELSE "allowed"]
           /\ raced' = IF ~refused /\ \E q \in Tries : try[q].key = c /\ Underway(q)
                        THEN [raced EXCEPT ![c] = TRUE] ELSE raced
    /\ UNCHANGED <<now, attempts, failed, due>>

\* The password or the code was wrong, or a link was asked for: record_attempt
\* reads the clock and the counter.
CountFailure(r) ==
    /\ try[r].pc = "allowed"
    /\ LET c == try[r].key
           open == due[c].count > 0 /\ now - due[c].from < Window
       IN  /\ try' = [try EXCEPT ![r].pc = "counting", ![r].seen = attempts[c], ![r].at = now]
           /\ failed' = [failed EXCEPT ![c] = @ \cup {<<now, r>>}]
           /\ due' = [due EXCEPT ![c] = IF open THEN [from |-> @.from, count |-> @.count + 1]
                                         ELSE [from |-> now, count |-> 1]]
    /\ UNCHANGED <<now, attempts, raced>>

\* What was computed from the reading replaces the row, whatever it holds by now.
SaveFailure(r) ==
    /\ try[r].pc = "counting"
    /\ LET t == try[r].at
       IN  attempts' = [Swept(t) EXCEPT ![try[r].key] = AfterFailure(try[r].seen, t)]
    /\ try' = [try EXCEPT ![r].pc = "counted"]
    /\ UNCHANGED <<now, failed, due, raced>>

\* Two saves sweep the whole table: the database may sacrifice one of them.
SaveLost(r) ==
    /\ try[r].pc = "counting"
    /\ \E q \in Tries \ {r} : try[q].pc = "counting"
    /\ try' = [try EXCEPT ![r].pc = "lost"]
    /\ raced' = [raced EXCEPT ![try[r].key] = TRUE]
    /\ UNCHANGED <<now, attempts, failed, due>>

\* Variant: a success keeps the row, and counts from zero.
RecordSuccessInPlace(r) ==
    /\ try[r].pc = "allowed" /\ try[r].key[1] = "login"
    /\ LET c == try[r].key
       IN  /\ attempts' = [attempts EXCEPT ![c] = [failures |-> 0, started |-> now, locked |-> Never]]
           /\ due' = [due EXCEPT ![c].count = 0]
    /\ try' = [try EXCEPT ![r].pc = "passed"]
    /\ UNCHANGED <<now, failed, raced>>

\* A login that passes both factors deletes the row of its identifier.
RecordSuccess(r) ==
    /\ try[r].pc = "allowed" /\ try[r].key[1] = "login"
    /\ LET c == try[r].key
       IN  /\ attempts' = [attempts EXCEPT ![c] = NoAttempts]
           /\ due' = [due EXCEPT ![c].count = 0]
    /\ try' = [try EXCEPT ![r].pc = "passed"]
    /\ UNCHANGED <<now, failed, raced>>

ThrottleTick == Tick /\ UNCHANGED <<attempts, try, failed, due, raced>>

ThrottleNext ==
    \/ ThrottleTick
    \/ \E r \in Tries : \/ RequireAllowed(r) \/ CountFailure(r) \/ SaveFailure(r)
                           \/ SaveLost(r) \/ RecordSuccess(r)

ThrottleSpec == ThrottleInit /\ [][ThrottleNext]_throttleVars
-----------------------------------------------------------------------------
(* What the throttle promises.                                              *)

\* A row never claims more failures than were counted on its identifier since
\* its window began, and it refuses for LockDuration after one of them and no
\* longer: nobody is locked out by what other identifiers or an earlier window
\* did, however the readings and the saves of the attempts are interleaved.
LockedOnlyForFailures ==
    \A c \in Counters :
        LET row == attempts[c]
        IN  row # NoAttempts =>
              /\ row.failures <= Cardinality({f \in failed[c] : f[1] >= row.started})
              /\ row.locked # Never =>
                   /\ row.failures >= MaxFailures
                   /\ \E f \in failed[c] : row.locked = f[1] + LockDuration

\* As long as the attempts on an identifier came one after another, its row
\* holds in every window exactly the failures made in it, and MaxFailures of
\* them refuse the identifier; a login in between starts again from nothing.
\* (Attempts that overlap read the same count, and the last save wins.)
CountsInTurn ==
    \A c \in Counters :
        LET open == due[c].count > 0 /\ now - due[c].from < Window
            settled == ~raced[c] /\ \A r \in Tries : try[r].key = c => ~Underway(r)
        IN  settled =>
              /\ open = WindowOpen(attempts[c], now)
              /\ open => attempts[c].failures = due[c].count
              /\ open /\ due[c].count >= MaxFailures => attempts[c].locked # Never

\* Sweeping the table changes nothing anybody could notice: a save on one
\* identifier leaves every other identifier refused or not, and its next count
\* what it would have been, at every later time.
SweepForgetsNothing ==
    [][\A r \in Tries : SaveFailure(r) =>
         \A c \in Counters \ {try[r].key}, t \in now..MaxTime :
            /\ Refuses(attempts'[c], t) = Refuses(attempts[c], t)
            /\ AfterFailure(attempts'[c], t) = AfterFailure(attempts[c], t)]_throttleVars

\* The throttle counts neither more nor less than the failures there were: it
\* locks for nothing else, misses none that comes in turn, and the sweep of old
\* rows forgets none.
ThrottleHolds == []LockedOnlyForFailures /\ []CountsInTurn /\ SweepForgetsNothing
=============================================================================
