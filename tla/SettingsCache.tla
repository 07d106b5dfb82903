---------------------------- MODULE SettingsCache ----------------------------
(***************************************************************************)
(* The settings saved from the admin screen and the cache every worker       *)
(* process keeps of them (_DatabaseOverrides).                              *)
(*                                                                          *)
(* The threads of a worker share the cache; only its refresh takes the lock. *)
(* invalidate() and the readers take none, so every assignment is a step.    *)
(* A save invalidates after its flush; get_db commits later.  A payload is   *)
(* the set of the keys it overrides.                                        *)
(***************************************************************************)
EXTENDS Integers

CONSTANTS
    Workers,   \* processes
    Threads,   \* the threads that serve requests, in all workers
    Home,      \* Threads -> the worker of the thread
    Savers,    \* the threads that serve the admin screen as well
    Keys,
    Ttl,       \* _TTL_SECONDS
    LoadTime,  \* bound on the seconds from taking the lock to releasing it
    MaxTime,   \* bound of the clock
    NoThread

ASSUME HomeAssumption == Home \in [Threads -> Workers] /\ Savers \subseteq Threads
ASSUME TimesAssumption == Ttl \in Nat \ {0} /\ LoadTime \in Nat /\ MaxTime \in Nat
ASSUME NullAssumption == NoThread \notin Threads

Time == 0..MaxTime
Payload == SUBSET Keys
Cache == [payload: Payload, expires: Nat, unreadable: BOOLEAN]
Steps == {"idle",
          "waiting", "loading", "loaded", "failed", "noting", "finishing", "serving",  \* get
          "saving", "flushed", "cleared", "answered"}                                  \* save
Refreshes == {"loading", "loaded", "failed", "noting", "finishing"}   \* with the lock
Thread == [at: Steps, payload: Payload, since: Time, differs: BOOLEAN]

VARIABLES
    clock,    \* time.monotonic() and the time of the database, in seconds
    stored,   \* the committed app.config record
    cache,    \* Workers -> _payload, _expires_at, _unreadable
    lock,     \* Workers -> the thread inside _lock, or NoThread
    thread,   \* Threads -> where it is, the payload in its hand, when it took the lock,
              \* whether the payload it saves is another than the one it read
    \* history, read by the properties and by no action:
    touched,  \* the time of the last commit or invalidate
    savedBy   \* the worker of the last commit, or NoThread

vars == <<clock, stored, cache, lock, thread, touched, savedBy>>
ghosts == <<touched, savedBy>>

Nobody == [at |-> "idle", payload |-> {}, since |-> 0, differs |-> FALSE]

LockKept == \A t \in Threads : thread[t].at \in Refreshes <=> lock[Home[t]] = t

TypeOK ==
    /\ clock \in Time
    /\ stored \in Payload
    /\ cache \in [Workers -> Cache]
    /\ lock \in [Workers -> Threads \cup {NoThread}]
    /\ thread \in [Threads -> Thread]
    /\ touched \in Time
    /\ savedBy \in Workers \cup {NoThread}
    /\ LockKept

Init ==
    /\ clock = 0
    /\ stored \in Payload
    /\ cache = [w \in Workers |-> [payload |-> {}, expires |-> 0, unreadable |-> FALSE]]
    /\ lock = [w \in Workers |-> NoThread]
    /\ thread = [t \in Threads |-> Nobody]
    /\ touched = 0
    /\ savedBy = NoThread

At(t, step) == thread[t].at = step

Goto(t, step) == thread' = [thread EXCEPT ![t].at = step]

-----------------------------------------------------------------------------
(* get().                                                                   *)

\* Variant: the payload is still good in the second it expires.
FreshAtExpiry(w) == clock <= cache[w].expires

Fresh(w) == clock < cache[w].expires

Get(t) ==
    /\ At(t, "idle")
    /\ Goto(t, IF Fresh(Home[t]) THEN "serving" ELSE "waiting")
    /\ UNCHANGED <<clock, stored, cache, lock, ghosts>>

\* Variant: the expiry is not looked at again once the lock is taken.
TakeLockUnchecked(t) ==
    LET w == Home[t] IN
    /\ At(t, "waiting") /\ lock[w] = NoThread
    /\ lock' = [lock EXCEPT ![w] = t]
    /\ thread' = [thread EXCEPT ![t].at = "loading", ![t].since = clock]
    /\ UNCHANGED <<clock, stored, cache, ghosts>>

\* Somebody may have refreshed while this thread waited.
TakeLock(t) ==
    LET w == Home[t] IN
    /\ At(t, "waiting") /\ lock[w] = NoThread
    /\ IF Fresh(w)
       THEN Goto(t, "serving") /\ UNCHANGED lock
       ELSE /\ lock' = [lock EXCEPT ![w] = t]
            /\ thread' = [thread EXCEPT ![t].at = "loading", ![t].since = clock]
    /\ UNCHANGED <<clock, stored, cache, ghosts>>

\* _refresh(): the record is read on a connection of its own, or cannot be ...
Load(t) ==
    /\ At(t, "loading")
    /\ \/ thread' = [thread EXCEPT ![t].at = "loaded", ![t].payload = stored]
       \/ Goto(t, "failed")
    /\ UNCHANGED <<clock, stored, cache, lock, ghosts>>

\* ... self._payload = payload ...
Keep(t) ==
    /\ At(t, "loaded")
    /\ cache' = [cache EXCEPT ![Home[t]].payload = thread[t].payload]
    /\ thread' = [thread EXCEPT ![t].at = "noting", ![t].payload = {}]
    /\ UNCHANGED <<clock, stored, lock, ghosts>>

\* Variant: get() inside a refresh of the same thread goes for the lock.
GetWhileLoadingWaits(t, cached) == IF clock < cached.expires THEN "finishing" ELSE "waiting"

\* get() inside a refresh of the same thread (_loading.active) answers None.
GetWhileLoading(t, cached) == "finishing"

\* ... _note_readable() and _note_unreadable() log a change; the handler of the log
\* asks the settings in turn ...
Note(t) ==
    LET w == Home[t] IN
    \E failed \in BOOLEAN :
      /\ At(t, IF failed THEN "failed" ELSE "noting")
      /\ cache' = [cache EXCEPT ![w].unreadable = failed]
      /\ Goto(t, IF cache[w].unreadable = failed THEN "finishing" ELSE GetWhileLoading(t, cache[w]))
      /\ UNCHANGED <<clock, stored, lock, ghosts>>

\* ... and, read or not, the next look at the database is a TTL away.
Finish(t) ==
    LET w == Home[t] IN
    /\ At(t, "finishing")
    /\ cache' = [cache EXCEPT ![w].expires = clock + Ttl]
    /\ lock' = [lock EXCEPT ![w] = NoThread]
    /\ thread' = [thread EXCEPT ![t] = [Nobody EXCEPT !.at = "serving"]]
    /\ UNCHANGED <<clock, stored, ghosts>>

\* self._payload.get(key), whatever became of the payload since.
Serve(t) ==
    /\ At(t, "serving")
    /\ thread' = [thread EXCEPT ![t] = Nobody]
    /\ UNCHANGED <<clock, stored, cache, lock, ghosts>>

-----------------------------------------------------------------------------
(* PUT /api/admin/config.                                                   *)

\* save() reads the record and changes one key of it ...
Save(t) ==
    /\ At(t, "idle") /\ t \in Savers
    /\ \E k \in Keys, payload \in Payload :
         /\ payload \in {stored \cup {k}, stored \ {k}}
         /\ thread' = [thread EXCEPT ![t] = [at |-> "saving", payload |-> payload, since |-> 0,
                                             differs |-> payload # stored]]
    /\ UNCHANGED <<clock, stored, cache, lock, ghosts>>

HoldsRow(q) == thread[q].differs /\ thread[q].at \in {"flushed", "cleared", "answered"}

\* ... flushes it, when no other save holds the row; a payload like the one that
\* was read needs no UPDATE ...
Flush(t) ==
    /\ At(t, "saving")
    /\ thread[t].differs => ~\E q \in Threads : HoldsRow(q)
    /\ Goto(t, "flushed")
    /\ UNCHANGED <<clock, stored, cache, lock, ghosts>>

\* ... invalidate(): the payload first, the expiry next ...
ClearPayload(t) ==
    /\ At(t, "flushed")
    /\ cache' = [cache EXCEPT ![Home[t]].payload = {}]
    /\ touched' = clock
    /\ Goto(t, "cleared")
    /\ UNCHANGED <<clock, stored, lock, savedBy>>

ClearExpiry(t) ==
    /\ At(t, "cleared")
    /\ cache' = [cache EXCEPT ![Home[t]].expires = 0]
    /\ Goto(t, "answered")
    /\ UNCHANGED <<clock, stored, lock, ghosts>>

\* ... and get_db commits when the response is out.
Commit(t) ==
    /\ At(t, "answered")
    /\ stored' = IF thread[t].differs THEN thread[t].payload ELSE stored
    /\ touched' = clock
    /\ savedBy' = Home[t]
    /\ thread' = [thread EXCEPT ![t] = Nobody]
    /\ UNCHANGED <<clock, cache, lock>>

Rollback(t) ==
    /\ thread[t].at \in {"saving", "flushed", "cleared", "answered"}
    /\ thread' = [thread EXCEPT ![t] = Nobody]
    /\ UNCHANGED <<clock, stored, cache, lock, ghosts>>

-----------------------------------------------------------------------------

Tick ==
    /\ clock < MaxTime
    /\ \A t \in Threads : lock[Home[t]] = t => clock < thread[t].since + LoadTime
    /\ clock' = clock + 1
    /\ UNCHANGED <<stored, cache, lock, thread, ghosts>>

\* The steps of a get that has begun.
Getting(t) == TakeLock(t) \/ Load(t) \/ Keep(t) \/ Note(t) \/ Finish(t) \/ Serve(t)

Next ==
    \/ \E t \in Threads :
         \/ Get(t) \/ Getting(t)
         \/ Save(t) \/ Flush(t) \/ ClearPayload(t) \/ ClearExpiry(t) \/ Commit(t) \/ Rollback(t)
    \/ Tick

\* Threads run on, a load ends one way or the other, and a thread that keeps asking
\* for a lock that keeps coming free gets it some time.
Fairness == \A t \in Threads : WF_vars(Getting(t)) /\ SF_vars(TakeLock(t))

Spec == Init /\ [][Next]_vars /\ Fairness

-----------------------------------------------------------------------------
(* What the cache promises.                                                 *)

\* A worker that could read the database answers from a record that is not the
\* committed one for one TTL and one load at most after the last save, however
\* saves, refreshes and invalidations overlap (_refresh's expiry).
StaleForOneTtl ==
    \A w \in Workers :
        Fresh(w) /\ ~cache[w].unreadable =>
            cache[w].payload = stored \/ clock < touched + LoadTime + Ttl

\* A thread that waited for another's refresh does not read the database again:
\* a load begins only when the payload has expired (the check inside the lock).
LoadsOnlyExpired ==
    \A t \in Threads :
        At(t, "loading")' /\ ~At(t, "loading") => clock >= cache[Home[t]].expires

NoNeedlessLoad == [][LoadsOnlyExpired]_vars

\* Every get comes back: the lock is not reentrant, and the log lines a refresh
\* writes ask for settings themselves (_loading).
EveryGetReturns == \A t \in Threads : At(t, "waiting") ~> At(t, "idle")

\* What the comment on the TTL says: a save takes effect at once, that is, the
\* worker that saved answers with what was saved as soon as it is committed.
SavedTakesEffectAtOnce ==
    \A w \in Workers :
        /\ savedBy = w /\ Fresh(w) /\ ~cache[w].unreadable
        /\ \A t \in Threads : Home[t] = w => At(t, "idle")
        => cache[w].payload = stored
=============================================================================
