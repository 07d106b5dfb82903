------------------------ MODULE SettingsCacheProofs ------------------------
(***************************************************************************)
(* Proofs about SettingsCache: for any number of workers, threads and keys, *)
(* any TTL and any bound on a load, no worker that can read the database     *)
(* answers from an obsolete record for longer than one TTL and one load.     *)
(***************************************************************************)
EXTENDS SettingsCache, TLAPS

USE HomeAssumption, TimesAssumption, NullAssumption

Obsolete(payload) == payload # stored

\* While a thread refreshes, its worker answers nobody from the cache, and what it
\* read or kept is obsolete only if somebody saved after it took the lock.
Refreshing(t) ==
    /\ cache[Home[t]].expires <= clock
    /\ thread[t].since <= clock /\ clock <= thread[t].since + LoadTime
    /\ At(t, "loaded") /\ Obsolete(thread[t].payload) => thread[t].since <= touched
    /\ At(t, "noting") /\ Obsolete(cache[Home[t]].payload) => thread[t].since <= touched
    /\ At(t, "finishing") /\ Obsolete(cache[Home[t]].payload) /\ ~cache[Home[t]].unreadable =>
         thread[t].since <= touched

\* An obsolete payload expires one load and one TTL after the last save, and none
\* lives longer than a TTL.
Expiring(w) ==
    /\ cache[w].expires <= clock + Ttl
    /\ Fresh(w) /\ Obsolete(cache[w].payload) /\ ~cache[w].unreadable =>
         cache[w].expires <= touched + LoadTime + Ttl

StaleInv ==
    /\ TypeOK
    /\ touched <= clock
    /\ \A t \in Threads : lock[Home[t]] = t => Refreshing(t)
    /\ \A w \in Workers : Expiring(w)

LEMMA InvStale == StaleInv => StaleForOneTtl
BY DEF StaleInv, TypeOK, StaleForOneTtl, Expiring, Fresh, Obsolete, Cache, Time

-----------------------------------------------------------------------------
(* TypeOK, action by action.                                                *)

\* A step of one thread that neither takes nor leaves the lock.
LEMMA Moved ==
    ASSUME TypeOK, NEW t \in Threads, NEW x \in Thread,
           thread' = [thread EXCEPT ![t] = x], UNCHANGED lock,
           x.at \in Refreshes <=> thread[t].at \in Refreshes
    PROVE  thread' \in [Threads -> Thread] /\ LockKept'
<1>1. thread' \in [Threads -> Thread]
  BY DEF TypeOK
<1>2. \A q \in Threads : thread'[q].at \in Refreshes <=> thread[q].at \in Refreshes
  BY DEF TypeOK
<1>3. LockKept'
  BY <1>2 DEF TypeOK, LockKept
<1> QED
  BY <1>1, <1>3

LEMMA Stepped ==
    ASSUME TypeOK, NEW t \in Threads, NEW step \in Steps, Goto(t, step), UNCHANGED lock,
           step \in Refreshes <=> thread[t].at \in Refreshes
    PROVE  thread' \in [Threads -> Thread] /\ LockKept'
<1>1. [thread[t] EXCEPT !.at = step] \in Thread
  BY DEF TypeOK, Thread
<1>2. thread' = [thread EXCEPT ![t] = [thread[t] EXCEPT !.at = step]]
  BY DEF Goto
<1>3. [thread[t] EXCEPT !.at = step].at = step
  BY DEF TypeOK, Thread
<1> QED
  BY <1>1, <1>2, <1>3, Moved

LEMMA NobodyType == Nobody \in Thread /\ Nobody.at = "idle"
BY DEF Nobody, Thread, Steps, Payload, Time

LEMMA NextType == TypeOK /\ [Next]_vars => TypeOK'
<1> SUFFICES ASSUME TypeOK, [Next]_vars PROVE TypeOK'
  OBVIOUS
<1>1. ASSUME NEW t \in Threads, Get(t) PROVE TypeOK'
  <2>1. thread' \in [Threads -> Thread] /\ LockKept'
    BY <1>1, Stepped DEF Get, At, Steps, Refreshes
  <2> QED
    BY <1>1, <2>1 DEF Get, ghosts, TypeOK
<1>2. ASSUME NEW t \in Threads, TakeLock(t) PROVE TypeOK'
  <2>1. CASE Fresh(Home[t])
    <3>1. thread' \in [Threads -> Thread] /\ LockKept'
      BY <1>2, <2>1, Stepped DEF TakeLock, At, Steps, Refreshes
    <3> QED
      BY <1>2, <2>1, <3>1 DEF TakeLock, ghosts, TypeOK
  <2>2. CASE ~Fresh(Home[t])
    <3> DEFINE x == [thread[t] EXCEPT !.at = "loading", !.since = clock]
    <3>1. x \in Thread /\ x.at = "loading"
      BY DEF TypeOK, Thread, Steps
    <3>2. thread' = [thread EXCEPT ![t] = x] /\ lock' = [lock EXCEPT ![Home[t]] = t]
      BY <1>2, <2>2 DEF TakeLock
    <3>3. thread' \in [Threads -> Thread] /\ lock' \in [Workers -> Threads \cup {NoThread}]
      BY <3>1, <3>2 DEF TypeOK
    <3>4. ASSUME NEW q \in Threads PROVE thread'[q].at \in Refreshes <=> lock'[Home[q]] = q
      <4>1. CASE q = t
        BY <3>1, <3>2, <4>1 DEF TypeOK, Refreshes
      <4>2. CASE q # t /\ Home[q] = Home[t]
        BY <1>2, <3>2, <4>2 DEF TypeOK, LockKept, TakeLock
      <4>3. CASE q # t /\ Home[q] # Home[t]
        BY <3>2, <4>3 DEF TypeOK, LockKept
      <4> QED
        BY <4>1, <4>2, <4>3
    <3> QED
      BY <1>2, <3>3, <3>4 DEF TakeLock, ghosts, TypeOK, LockKept
  <2> QED
    BY <2>1, <2>2
<1>3. ASSUME NEW t \in Threads, Load(t) PROVE TypeOK'
  <2>1. CASE Goto(t, "failed")
    <3>1. thread' \in [Threads -> Thread] /\ LockKept'
      BY <1>3, <2>1, Stepped DEF Load, At, Steps, Refreshes
    <3> QED
      BY <1>3, <3>1 DEF Load, ghosts, TypeOK
  <2>2. CASE thread' = [thread EXCEPT ![t].at = "loaded", ![t].payload = stored]
    <3> DEFINE x == [thread[t] EXCEPT !.at = "loaded", !.payload = stored]
    <3>1. x \in Thread /\ x.at = "loaded"
      BY DEF TypeOK, Thread, Steps
    <3>2. thread' = [thread EXCEPT ![t] = x]
      BY <2>2
    <3> HIDE DEF x
    <3>3. thread' \in [Threads -> Thread] /\ LockKept'
      BY <1>3, <3>1, <3>2, Moved DEF Load, At, Refreshes
    <3> QED
      BY <1>3, <3>3 DEF Load, ghosts, TypeOK
  <2> QED
    BY <1>3, <2>1, <2>2 DEF Load
<1>4. ASSUME NEW t \in Threads, Keep(t) PROVE TypeOK'
  <2> DEFINE x == [thread[t] EXCEPT !.at = "noting", !.payload = {}]
  <2>1. x \in Thread /\ x.at = "noting"
    BY DEF TypeOK, Thread, Steps, Payload
  <2>2. thread' = [thread EXCEPT ![t] = x]
    BY <1>4 DEF Keep
  <2> HIDE DEF x
  <2>3. thread' \in [Threads -> Thread] /\ LockKept'
    BY <1>4, <2>1, <2>2, Moved DEF Keep, At, Refreshes
  <2>4. cache' \in [Workers -> Cache]
    BY <1>4 DEF Keep, TypeOK, Cache, Thread
  <2> QED
    BY <1>4, <2>3, <2>4 DEF Keep, ghosts, TypeOK
<1>5. ASSUME NEW t \in Threads, Note(t) PROVE TypeOK'
  <2>1. Goto(t, "finishing") /\ thread[t].at \in {"failed", "noting"} /\ UNCHANGED lock
    BY <1>5 DEF Note, GetWhileLoading, At
  <2>2. thread' \in [Threads -> Thread] /\ LockKept'
    BY <2>1, Stepped DEF Steps, Refreshes
  <2>3. cache' \in [Workers -> Cache]
    BY <1>5 DEF Note, TypeOK, Cache
  <2> QED
    BY <1>5, <2>2, <2>3 DEF Note, ghosts, TypeOK
<1>6. ASSUME NEW t \in Threads, Finish(t) PROVE TypeOK'
  <2> DEFINE x == [Nobody EXCEPT !.at = "serving"]
  <2>1. x \in Thread /\ x.at = "serving"
    BY NobodyType DEF Thread, Steps
  <2>2. thread' = [thread EXCEPT ![t] = x] /\ lock' = [lock EXCEPT ![Home[t]] = NoThread]
    BY <1>6 DEF Finish
  <2> HIDE DEF x
  <2>3. thread' \in [Threads -> Thread] /\ lock' \in [Workers -> Threads \cup {NoThread}]
    BY <2>1, <2>2 DEF TypeOK
  <2>4. lock[Home[t]] = t
    BY <1>6 DEF Finish, At, TypeOK, LockKept, Refreshes
  <2>5. ASSUME NEW q \in Threads PROVE thread'[q].at \in Refreshes <=> lock'[Home[q]] = q
    <3>1. CASE q = t
      BY <2>1, <2>2, <3>1 DEF TypeOK, Refreshes
    <3>2. CASE q # t /\ Home[q] = Home[t]
      BY <2>2, <2>4, <3>2 DEF TypeOK, LockKept
    <3>3. CASE q # t /\ Home[q] # Home[t]
      BY <2>2, <3>3 DEF TypeOK, LockKept
    <3> QED
      BY <3>1, <3>2, <3>3
  <2>6. cache' \in [Workers -> Cache]
    BY <1>6 DEF Finish, TypeOK, Cache, Time
  <2> QED
    BY <1>6, <2>3, <2>5, <2>6 DEF Finish, ghosts, TypeOK, LockKept
<1>7. ASSUME NEW t \in Threads, thread' = [thread EXCEPT ![t] = Nobody],
             thread[t].at \notin Refreshes, UNCHANGED lock
      PROVE  thread' \in [Threads -> Thread] /\ LockKept'
  BY <1>7, NobodyType, Moved DEF Refreshes
<1>8. ASSUME NEW t \in Threads, Serve(t) \/ Rollback(t) PROVE TypeOK'
  <2>1. thread' \in [Threads -> Thread] /\ LockKept'
    BY <1>7, <1>8 DEF Serve, Rollback, At, Refreshes
  <2> QED
    BY <1>8, <2>1 DEF Serve, Rollback, ghosts, TypeOK
<1>9. ASSUME NEW t \in Threads, Commit(t) PROVE TypeOK'
  <2>1. thread' \in [Threads -> Thread] /\ LockKept'
    BY <1>7, <1>9 DEF Commit, At, Refreshes
  <2> QED
    BY <1>9, <2>1 DEF Commit, TypeOK, Thread
<1>10. ASSUME NEW t \in Threads, Save(t) PROVE TypeOK'
  <2>1. PICK payload \in Payload :
          thread' = [thread EXCEPT ![t] = [at |-> "saving", payload |-> payload, since |-> 0,
                                           differs |-> payload # stored]]
    BY <1>10 DEF Save
  <2> DEFINE x == [at |-> "saving", payload |-> payload, since |-> 0,
                   differs |-> payload # stored]
  <2>2. x \in Thread /\ x.at = "saving"
    BY DEF Thread, Steps, Time
  <2> HIDE DEF x
  <2>3. thread' = [thread EXCEPT ![t] = x]
    BY <2>1 DEF x
  <2>4. thread' \in [Threads -> Thread] /\ LockKept'
    BY <1>10, <2>2, <2>3, Moved DEF Save, At, Refreshes
  <2> QED
    BY <1>10, <2>4 DEF Save, ghosts, TypeOK
<1>11. ASSUME NEW t \in Threads, Flush(t) PROVE TypeOK'
  <2>1. thread' \in [Threads -> Thread] /\ LockKept'
    BY <1>11, Stepped DEF Flush, At, Steps, Refreshes
  <2> QED
    BY <1>11, <2>1 DEF Flush, ghosts, TypeOK
<1>12. ASSUME NEW t \in Threads, ClearPayload(t) \/ ClearExpiry(t) PROVE TypeOK'
  <2>1. thread' \in [Threads -> Thread] /\ LockKept'
    BY <1>12, Stepped DEF ClearPayload, ClearExpiry, At, Steps, Refreshes
  <2>2. cache' \in [Workers -> Cache]
    BY <1>12 DEF ClearPayload, ClearExpiry, TypeOK, Cache, Payload
  <2> QED
    BY <1>12, <2>1, <2>2 DEF ClearPayload, ClearExpiry, ghosts, TypeOK
<1>13. ASSUME Tick PROVE TypeOK'
  BY <1>13 DEF Tick, ghosts, TypeOK, LockKept, Time
<1>14. ASSUME UNCHANGED vars PROVE TypeOK'
  BY <1>14 DEF vars, TypeOK, LockKept
<1> QED
  BY <1>1, <1>2, <1>3, <1>4, <1>5, <1>6, <1>8, <1>9, <1>10, <1>11, <1>12, <1>13, <1>14
     DEF Next, Getting
-----------------------------------------------------------------------------
(* The stale payload.                                                       *)

LEMMA InitStale == Init => StaleInv
<1> SUFFICES ASSUME Init PROVE StaleInv
  OBVIOUS
<1>1. \A t \in Threads : thread[t] \in Thread /\ thread[t].at = "idle"
  BY NobodyType DEF Init
<1>2. thread \in [Threads -> Thread]
  BY NobodyType DEF Init
<1>3. cache \in [Workers -> Cache] /\ \A w \in Workers : cache[w].expires = 0
  BY DEF Init, Cache, Payload
<1>4. \A t \in Threads : Home[t] \in Workers /\ lock[Home[t]] # t
  BY DEF Init
<1>5. TypeOK
  BY <1>1, <1>2, <1>3, <1>4 DEF Init, TypeOK, LockKept, Refreshes, Time
<1>6. ASSUME NEW w \in Workers PROVE Expiring(w)
  <2>1. cache[w].expires = 0 /\ clock = 0
    BY <1>3 DEF Init
  <2>2. ~Fresh(w)
    BY <2>1 DEF Fresh
  <2>3. cache[w].expires <= clock + Ttl
    BY <2>1
  <2> QED
    BY <2>2, <2>3 DEF Expiring
<1> QED
  BY <1>4, <1>5, <1>6 DEF Init, StaleInv

\* A step of threads that hold no lock and of no cache.
LEMMA OnLookers ==
    ASSUME StaleInv, TypeOK', UNCHANGED <<clock, stored, cache, touched>>,
           \A t \in Threads : lock'[Home[t]] = t => lock[Home[t]] = t /\ UNCHANGED thread[t]
    PROVE  StaleInv'
<1>1. \A t \in Threads : lock'[Home[t]] = t => Refreshing(t)'
  BY DEF StaleInv, Refreshing, At, Obsolete
<1>2. \A w \in Workers : Expiring(w)'
  BY DEF StaleInv, Expiring, Fresh, Obsolete
<1> QED
  BY <1>1, <1>2 DEF StaleInv

LEMMA TakeLockStale ==
    ASSUME StaleInv, TypeOK', NEW t \in Threads, TakeLock(t)
    PROVE  StaleInv'
<1>1. CASE Fresh(Home[t])
  BY <1>1, OnLookers DEF TakeLock, Goto, ghosts, StaleInv, TypeOK
<1>2. CASE ~Fresh(Home[t])
  <2>1. thread'[t].at = "loading" /\ thread'[t].since = clock
    BY <1>2 DEF TakeLock, StaleInv, TypeOK, Thread
  <2>2. Refreshing(t)'
    BY <1>2, <2>1 DEF TakeLock, ghosts, Refreshing, Fresh, At, StaleInv, TypeOK, Cache, Time
  <2>3. ASSUME NEW q \in Threads, q # t, lock'[Home[q]] = q PROVE Refreshing(q)'
    <3>1. lock[Home[q]] = q /\ thread'[q] = thread[q]
      BY <1>2, <2>3 DEF TakeLock, StaleInv, TypeOK
    <3> QED
      BY <1>2, <3>1 DEF TakeLock, ghosts, StaleInv, Refreshing, At, Obsolete
  <2>4. \A w \in Workers : Expiring(w)'
    BY <1>2 DEF TakeLock, ghosts, StaleInv, Expiring, Fresh, Obsolete
  <2> QED
    BY <1>2, <2>2, <2>3, <2>4 DEF TakeLock, ghosts, StaleInv
<1> QED
  BY <1>1, <1>2

\* A step of the thread t that leaves alone the locks, the clock and the record,
\* and that no other refresh sees.
LEMMA OwnRefresh ==
    ASSUME StaleInv, TypeOK', NEW t \in Threads, lock[Home[t]] = t,
           UNCHANGED <<clock, stored, lock, touched>>,
           \A q \in Threads \ {t} : UNCHANGED thread[q],
           \A w \in Workers \ {Home[t]} : UNCHANGED cache[w],
           cache'[Home[t]].expires = cache[Home[t]].expires,
           Refreshing(t)'
    PROVE  StaleInv'
<1>1. ASSUME NEW q \in Threads, lock'[Home[q]] = q PROVE Refreshing(q)'
  <2>1. CASE q = t
    BY <2>1
  <2>2. CASE q # t
    <3>1. Home[q] \in Workers \ {Home[t]}
      BY <1>1, <2>2
    <3> QED
      BY <1>1, <2>2, <3>1 DEF StaleInv, Refreshing, At, Obsolete
  <2> QED
    BY <2>1, <2>2
<1>2. ASSUME NEW w \in Workers PROVE Expiring(w)'
  <2>1. CASE w = Home[t]
    BY <2>1 DEF StaleInv, Refreshing, Expiring, Fresh, TypeOK, Cache, Time
  <2>2. CASE w # Home[t]
    BY <2>2 DEF StaleInv, Expiring, Fresh, Obsolete
  <2> QED
    BY <2>1, <2>2
<1> QED
  BY <1>1, <1>2 DEF StaleInv

LEMMA RefreshStale ==
    ASSUME StaleInv, TypeOK', NEW t \in Threads, Load(t) \/ Keep(t) \/ Note(t)
    PROVE  StaleInv'
<1>1. lock[Home[t]] = t /\ Home[t] \in Workers /\ cache[Home[t]] \in Cache /\ thread[t] \in Thread
  BY DEF Load, Keep, Note, At, StaleInv, TypeOK, LockKept, Refreshes
<1>2. Refreshing(t)
  BY <1>1 DEF StaleInv
<1>3. ASSUME Load(t) PROVE StaleInv'
  <2>1. thread'[t].since = thread[t].since /\ thread'[t].at \in {"loaded", "failed"}
        /\ (thread'[t].at = "loaded" => thread'[t].payload = stored)
    BY <1>1, <1>3 DEF Load, Goto, StaleInv, TypeOK, Thread
  <2>2. Refreshing(t)'
    BY <1>2, <1>3, <2>1 DEF Load, ghosts, Refreshing, At, Obsolete
  <2>3. \A q \in Threads \ {t} : UNCHANGED thread[q]
    BY <1>3 DEF Load, Goto, StaleInv, TypeOK
  <2> QED
    BY <1>1, <1>3, <2>2, <2>3, OwnRefresh DEF Load, ghosts
<1>4. ASSUME Keep(t) PROVE StaleInv'
  <2>1. thread'[t].since = thread[t].since /\ thread'[t].at = "noting"
    BY <1>1, <1>4 DEF Keep, StaleInv, TypeOK, Thread
  <2>2. cache'[Home[t]].payload = thread[t].payload
        /\ cache'[Home[t]].expires = cache[Home[t]].expires
    BY <1>1, <1>4 DEF Keep, StaleInv, TypeOK, Cache
  <2>3. Refreshing(t)'
    BY <1>2, <1>4, <2>1, <2>2 DEF Keep, ghosts, Refreshing, At, Obsolete
  <2>4. /\ \A q \in Threads \ {t} : UNCHANGED thread[q]
        /\ \A w \in Workers \ {Home[t]} : UNCHANGED cache[w]
    BY <1>4 DEF Keep, StaleInv, TypeOK
  <2> QED
    BY <1>1, <1>4, <2>2, <2>3, <2>4, OwnRefresh DEF Keep, ghosts
<1>5. ASSUME Note(t) PROVE StaleInv'
  <2>1. PICK failed \in BOOLEAN :
          /\ At(t, IF failed THEN "failed" ELSE "noting")
          /\ cache' = [cache EXCEPT ![Home[t]].unreadable = failed]
          /\ Goto(t, "finishing")
          /\ UNCHANGED <<clock, stored, lock, ghosts>>
    BY <1>5 DEF Note, GetWhileLoading
  <2>2. thread'[t].since = thread[t].since /\ thread'[t].at = "finishing"
    BY <1>1, <2>1 DEF Goto, StaleInv, TypeOK, Thread
  <2>3. /\ cache'[Home[t]].payload = cache[Home[t]].payload
        /\ cache'[Home[t]].expires = cache[Home[t]].expires
        /\ cache'[Home[t]].unreadable = failed
    BY <1>1, <2>1 DEF StaleInv, TypeOK, Cache
  <2>4. Refreshing(t)'
    BY <1>2, <2>1, <2>2, <2>3 DEF ghosts, Refreshing, At, Obsolete
  <2>5. /\ \A q \in Threads \ {t} : UNCHANGED thread[q]
        /\ \A w \in Workers \ {Home[t]} : UNCHANGED cache[w]
    BY <2>1 DEF Goto, StaleInv, TypeOK
  <2> QED
    BY <1>1, <2>1, <2>3, <2>4, <2>5, OwnRefresh DEF ghosts
<1> QED
  BY <1>3, <1>4, <1>5

\* The payload a refresh leaves behind lives a TTL from here, and the thread has had
\* the lock for at most one load.
LEMMA FinishStale ==
    ASSUME StaleInv, TypeOK', NEW t \in Threads, Finish(t)
    PROVE  StaleInv'
<1>1. lock[Home[t]] = t /\ Home[t] \in Workers /\ cache[Home[t]] \in Cache /\ thread[t] \in Thread
  BY DEF Finish, At, StaleInv, TypeOK, LockKept, Refreshes
<1>2. Refreshing(t)
  BY <1>1 DEF StaleInv
<1>3. ASSUME NEW q \in Threads, lock'[Home[q]] = q PROVE Refreshing(q)'
  <2>1. q # t /\ Home[q] # Home[t] /\ lock[Home[q]] = q
    BY <1>1, <1>3 DEF Finish, StaleInv, TypeOK
  <2>2. thread'[q] = thread[q] /\ cache'[Home[q]] = cache[Home[q]]
    BY <2>1 DEF Finish, StaleInv, TypeOK
  <2> QED
    BY <2>1, <2>2 DEF Finish, ghosts, StaleInv, Refreshing, At, Obsolete
<1>4. ASSUME NEW w \in Workers PROVE Expiring(w)'
  <2>1. CASE w = Home[t]
    <3>1. /\ cache'[w].payload = cache[w].payload
          /\ cache'[w].expires = clock + Ttl
          /\ cache'[w].unreadable = cache[w].unreadable
      BY <1>1, <2>1 DEF Finish, StaleInv, TypeOK, Cache
    <3>2. Obsolete(cache[w].payload) /\ ~cache[w].unreadable =>
            clock + Ttl <= touched + LoadTime + Ttl
      BY <1>1, <1>2, <2>1 DEF Finish, Refreshing, At, StaleInv, TypeOK, Thread, Time
    <3> QED
      BY <3>1, <3>2 DEF Finish, ghosts, Expiring, Obsolete, StaleInv, TypeOK, Time
  <2>2. CASE w # Home[t]
    BY <2>2 DEF Finish, ghosts, StaleInv, TypeOK, Expiring, Fresh, Obsolete
  <2> QED
    BY <2>1, <2>2
<1> QED
  BY <1>3, <1>4 DEF Finish, ghosts, StaleInv

\* A save touches the record or the cache now, and no payload lives longer than a
\* TTL from now.
LEMMA SaveStale ==
    ASSUME StaleInv, TypeOK', NEW t \in Threads, ClearPayload(t) \/ Commit(t)
    PROVE  StaleInv'
<1>1. touched' = clock /\ clock' = clock /\ lock' = lock
  BY DEF ClearPayload, Commit
<1>2. \A w \in Workers : cache'[w].expires = cache[w].expires
  BY DEF ClearPayload, Commit, StaleInv, TypeOK, Cache
<1>3. thread[t].at \notin Refreshes
  BY DEF ClearPayload, Commit, At, Refreshes
<1>4. \A q \in Threads : lock'[Home[q]] = q => lock[Home[q]] = q /\ q # t /\ thread'[q] = thread[q]
  BY <1>1, <1>3 DEF ClearPayload, Commit, Goto, StaleInv, TypeOK, LockKept
<1>5. \A q \in Threads : lock'[Home[q]] = q => Refreshing(q)'
  BY <1>1, <1>2, <1>4 DEF StaleInv, Refreshing
<1>6. \A w \in Workers : Expiring(w)'
  BY <1>1, <1>2 DEF StaleInv, Expiring, TypeOK, Cache, Time
<1> QED
  BY <1>1, <1>5, <1>6, TypeOK' DEF StaleInv, TypeOK, Time

LEMMA ClearExpiryStale ==
    ASSUME StaleInv, TypeOK', NEW t \in Threads, ClearExpiry(t)
    PROVE  StaleInv'
<1>1. \A w \in Workers : /\ cache'[w].payload = cache[w].payload
                         /\ cache'[w].unreadable = cache[w].unreadable
                         /\ cache'[w].expires \in {0, cache[w].expires}
  BY DEF ClearExpiry, StaleInv, TypeOK, Cache
<1>2. UNCHANGED <<clock, stored, lock, touched>>
  BY DEF ClearExpiry, ghosts
<1>3. thread[t].at \notin Refreshes
  BY DEF ClearExpiry, At, Refreshes
<1>4. \A q \in Threads : lock'[Home[q]] = q => lock[Home[q]] = q /\ thread'[q] = thread[q]
  BY <1>2, <1>3 DEF ClearExpiry, Goto, StaleInv, TypeOK, LockKept
<1>5. \A q \in Threads : lock'[Home[q]] = q => Refreshing(q)'
  BY <1>1, <1>2, <1>4 DEF StaleInv, Refreshing, At, Obsolete, TypeOK, Time
<1>6. \A w \in Workers : Expiring(w)'
  BY <1>1, <1>2 DEF StaleInv, Expiring, Fresh, Obsolete, TypeOK, Time
<1> QED
  BY <1>2, <1>5, <1>6 DEF StaleInv

LEMMA TickStale ==
    ASSUME StaleInv, TypeOK', Tick
    PROVE  StaleInv'
<1>1. clock' = clock + 1 /\ UNCHANGED <<stored, cache, lock, thread, touched>>
  BY DEF Tick, ghosts
<1>2. ASSUME NEW t \in Threads, lock'[Home[t]] = t PROVE Refreshing(t)'
  <2>1. Refreshing(t) /\ clock < thread[t].since + LoadTime
    BY <1>1, <1>2 DEF Tick, StaleInv
  <2> QED
    BY <1>1, <2>1 DEF Refreshing, At, Obsolete, StaleInv, TypeOK, Thread, Cache, Time
<1>3. \A w \in Workers : Expiring(w)'
  BY <1>1 DEF StaleInv, Expiring, Fresh, Obsolete, TypeOK, Cache, Time
<1> QED
  BY <1>1, <1>2, <1>3 DEF StaleInv, TypeOK, Time

LEMMA NextStale == StaleInv /\ [Next]_vars => StaleInv'
<1> SUFFICES ASSUME StaleInv, [Next]_vars PROVE StaleInv'
  OBVIOUS
<1>1. TypeOK'
  BY NextType DEF StaleInv
<1>2. ASSUME NEW t \in Threads,
             Get(t) \/ Serve(t) \/ Save(t) \/ Flush(t) \/ Rollback(t)
      PROVE  StaleInv'
  <2>1. thread[t].at \notin Refreshes
    BY <1>2 DEF Get, Serve, Save, Flush, Rollback, At, Refreshes
  <2>2. lock' = lock /\ \A q \in Threads \ {t} : thread'[q] = thread[q]
    BY <1>2 DEF Get, Serve, Save, Flush, Rollback, Goto, StaleInv, TypeOK
  <2>3. \A q \in Threads : lock'[Home[q]] = q => lock[Home[q]] = q /\ thread'[q] = thread[q]
    BY <2>1, <2>2 DEF StaleInv, TypeOK, LockKept
  <2> QED
    BY <1>1, <1>2, <2>3, OnLookers DEF Get, Serve, Save, Flush, Rollback, ghosts
<1>3. ASSUME UNCHANGED vars PROVE StaleInv'
  BY <1>1, <1>3, OnLookers DEF vars
<1> QED
  BY <1>1, <1>2, <1>3, TakeLockStale, RefreshStale, FinishStale, SaveStale, ClearExpiryStale,
     TickStale DEF Next, Getting

-----------------------------------------------------------------------------
(* The theorems.                                                            *)

\* In every run the caches, the locks and the threads keep their types, and a thread
\* is inside a refresh exactly while it holds the lock of its worker
\* (_DatabaseOverrides.get, _refresh).
THEOREM SettingsType == Spec => []TypeOK
<1>1. Init => TypeOK
  BY InitStale DEF StaleInv
<1> QED
  BY <1>1, NextType, PTL DEF Spec

\* In every run a worker that can read the database answers from an obsolete record
\* for one TTL and one load at most after the last save (_DatabaseOverrides._refresh,
\* invalidate; SystemSettingService.save).
THEOREM StaleTheorem == Spec => []StaleForOneTtl
BY InitStale, NextStale, InvStale, PTL DEF Spec

\* A thread that waited for the lock while another one refreshed the worker's cache
\* does not read the database again: what it finds when it has the lock has expired,
\* or it serves what is there (_DatabaseOverrides.get, the second test).
THEOREM NeedlessTheorem == Spec => NoNeedlessLoad
<1>1. TypeOK /\ [Next]_vars => [LoadsOnlyExpired]_vars
  <2> SUFFICES ASSUME TypeOK, [Next]_vars, NEW t \in Threads, thread'[t].at = "loading", thread[t].at # "loading"
               PROVE  clock >= cache[Home[t]].expires
    BY DEF LoadsOnlyExpired, At
  <2>1. /\ thread \in [Threads -> Thread] /\ clock \in Nat /\ cache[Home[t]].expires \in Nat
        /\ \A q \in Threads : thread[q] \in Thread
    BY HomeAssumption, TimesAssumption DEF TypeOK, Cache, Time
  <2>2. ASSUME NEW q \in Threads, NEW step, Goto(q, step), step # "loading" PROVE FALSE
    <3>1. thread' = [thread EXCEPT ![q] = [thread[q] EXCEPT !.at = step]]
      BY <2>1, <2>2 DEF Goto
    <3>2. q = t => thread'[t].at = step
      BY <2>1, <3>1 DEF Thread
    <3> QED BY <2>1, <2>2, <3>1, <3>2
  <2>3. ASSUME NEW q \in Threads, NEW new, thread' = [thread EXCEPT ![q] = new], new.at # "loading" PROVE FALSE
    BY <2>1, <2>3
  <2>4. ASSUME NEW q \in Threads, TakeLock(q) PROVE clock >= cache[Home[t]].expires
    <3>1. q = t
      <4>1. thread'[t] = thread[t] \/ q = t
        BY <2>1, <2>4 DEF TakeLock, Goto
      <4> QED BY <4>1
    <3>2. ~Fresh(Home[t])
      BY <3>1, <2>2, <2>4 DEF TakeLock
    <3> QED BY <2>1, <3>2 DEF Fresh
  <2>5. ASSUME NEW q \in Threads, Get(q) PROVE FALSE
    BY <2>2, <2>5 DEF Get
  <2>6. ASSUME NEW q \in Threads, Load(q) PROVE FALSE
    <3>1. CASE thread' = [thread EXCEPT ![q].at = "loaded", ![q].payload = stored]
      <4>1. thread' = [thread EXCEPT ![q] = [thread[q] EXCEPT !.at = "loaded", !.payload = stored]]
        BY <2>1, <3>1
      <4>2. [thread[q] EXCEPT !.at = "loaded", !.payload = stored].at # "loading"
        BY <2>1 DEF Thread
      <4> QED BY <2>3, <4>1, <4>2
    <3> QED BY <2>2, <2>6, <3>1 DEF Load
  <2>7. ASSUME NEW q \in Threads, Keep(q) PROVE FALSE
    <3>1. thread' = [thread EXCEPT ![q] = [thread[q] EXCEPT !.at = "noting", !.payload = {}]]
      BY <2>1, <2>7 DEF Keep
    <3>2. [thread[q] EXCEPT !.at = "noting", !.payload = {}].at # "loading"
      BY <2>1 DEF Thread
    <3> QED BY <2>3, <3>1, <3>2
  <2>8. ASSUME NEW q \in Threads, Note(q) PROVE FALSE
    BY <2>2, <2>8 DEF Note, GetWhileLoading
  <2>9. ASSUME NEW q \in Threads, Finish(q) \/ Serve(q) \/ Commit(q) \/ Rollback(q) PROVE FALSE
    <3>1. Nobody.at # "loading" /\ [Nobody EXCEPT !.at = "serving"].at # "loading"
      BY DEF Nobody
    <3> QED BY <2>3, <2>9, <3>1 DEF Finish, Serve, Commit, Rollback
  <2>10. ASSUME NEW q \in Threads, Save(q) PROVE FALSE
    BY <2>3, <2>10 DEF Save
  <2>11. ASSUME NEW q \in Threads, Flush(q) \/ ClearPayload(q) \/ ClearExpiry(q) PROVE FALSE
    BY <2>2, <2>11 DEF Flush, ClearPayload, ClearExpiry
  <2>12. CASE Tick \/ UNCHANGED vars
    BY <2>12 DEF Tick, vars
  <2> QED BY <2>4, <2>5, <2>6, <2>7, <2>8, <2>9, <2>10, <2>11, <2>12 DEF Next, Getting
<1> QED BY <1>1, SettingsType, PTL DEF Spec, NoNeedlessLoad

=============================================================================
