-------------------------- MODULE FederationProofs --------------------------
(***************************************************************************)
(* Proofs about the federation with an identity provider: the sign-ins      *)
(* through it and the keys its tokens are signed with, the tokens of        *)
(* machines, the proofs of apps, the links of accounts to users and the     *)
(* round trips of a browser, for any number of them, of keys, operations,   *)
(* users and requests and for any times; and about the suite of them.       *)
(***************************************************************************)
EXTENDS MCFederation, FiniteSetTheorems, TLAPS

USE ServiceAssumption

-----------------------------------------------------------------------------
(* SigningKeys.                                                             *)

\* What the provider answered are keys that it has; nothing is of later than now.
AnswersAreOfTheProvider ==
    /\ now \in Time /\ 1 \in Published
    /\ \A k \in Kids : published[k] <= now
    /\ refreshedAt <= now
    /\ \A r \in Requests : Fetching(r) /\ lookup[r].got # NoSet =>
           lookup[r].got # {} /\ lookup[r].got \subseteq Published

KnownKeys == KeysTypeOK /\ AnswersAreOfTheProvider

LEMMA KeysInitType == KeysInit => KnownKeys
BY KeysAssumption DEF KeysInit, KeysTypeOK, KnownKeys, AnswersAreOfTheProvider, Published, Fetching, Time, Never

LEMMA PublishesKnown ==
    ASSUME KnownKeys, NEW k \in Kids, Publishes(k)
    PROVE  KnownKeys'
<1> USE DEF KnownKeys, KeysTypeOK, Time, Never
<1>1. Published \subseteq Published'
  BY DEF Publishes, Published, AnswersAreOfTheProvider
<1>2. KeysTypeOK'
  BY <1>1 DEF Publishes, AnswersAreOfTheProvider
<1>3. AnswersAreOfTheProvider'
  BY <1>1 DEF Publishes, AnswersAreOfTheProvider, Fetching
<1> QED BY <1>2, <1>3

\* Every other step: one lookup is where it is allowed to be.
LEMMA LookupStepsKnown ==
    ASSUME KnownKeys, NEW r \in Requests, NEW x \in Lookup \cup {NoLookup},
           lookup' = [lookup EXCEPT ![r] = x], UNCHANGED <<now, published>>,
           x # NoLookup /\ x.step \in {"first", "forced"} /\ x.got # NoSet =>
               x.got # {} /\ x.got \subseteq Published,
           jwks' \in [keys: SUBSET Kids, at: Time] \cup {NoSet},
           jwks' # NoSet => jwks'.keys # {} /\ jwks'.keys \subseteq Published,
           refreshedAt' \in {refreshedAt, now},
           forced' \in (Time \cup {Never}) \X (Time \cup {Never}),
           refused' \in Kids \cup {NoLookup}, crowded' \subseteq Kids
    PROVE  KnownKeys'
<1> USE DEF KnownKeys, AnswersAreOfTheProvider
<1>1. Published' = Published
  BY DEF Published
<1>2. now \in Time /\ now' = now /\ refreshedAt' \in Time \cup {Never}
  BY DEF KeysTypeOK
<1>3. KeysTypeOK'
  BY <1>1, <1>2 DEF KeysTypeOK
<1>4. refreshedAt' <= now'
  BY <1>2 DEF Time
<1>5. \A q \in Requests : lookup'[q] = IF q = r THEN x ELSE lookup[q]
  BY DEF KeysTypeOK
<1>6. \A q \in Requests : (Fetching(q) /\ lookup[q].got # NoSet)' =>
           lookup'[q].got # {} /\ lookup'[q].got \subseteq Published
  BY <1>5 DEF Fetching
<1> QED BY <1>1, <1>2, <1>3, <1>4, <1>6

LEMMA KeysNextKnown ==
    ASSUME KnownKeys, KeysNext
    PROVE  KnownKeys'
<1>1. ASSUME KeysTick PROVE KnownKeys'
  <2>1. Published' = Published
    BY <1>1 DEF KeysTick, Published
  <2> QED BY <1>1, <2>1 DEF KeysTick, Tick, KnownKeys, KeysTypeOK, AnswersAreOfTheProvider, Fetching, Time, Never
<1>2. ASSUME NEW k \in Kids, Publishes(k) PROVE KnownKeys'
  BY <1>2, PublishesKnown
<1>3. ASSUME NEW r \in Requests, NEW k \in Kids, LooksUp(r, k) PROVE KnownKeys'
  <2>1. PICK x : x = IF Usable THEN [kid |-> k, step |-> "read", keys |-> jwks.keys]
                     ELSE [kid |-> k, step |-> "first", got |-> NoSet]
    OBVIOUS
  <2>2. x \in Lookup /\ (x.step \in {"first", "forced"} => x.got = NoSet)
    BY <2>1 DEF Usable, KnownKeys, KeysTypeOK, Lookup
  <2>3. crowded' \subseteq Kids
    BY <1>3 DEF LooksUp, KnownKeys, KeysTypeOK, Published
  <2> QED BY <1>3, <2>1, <2>2, <2>3, LookupStepsKnown DEF LooksUp, KnownKeys, KeysTypeOK
<1>4. ASSUME NEW r \in Requests, ProviderSends(r) PROVE KnownKeys'
  <2>1. PICK x : x = [lookup[r] EXCEPT !.got = Published]
    OBVIOUS
  <2>2. x \in Lookup /\ x.got = Published
    BY <1>4, <2>1 DEF ProviderSends, Fetching, KnownKeys, KeysTypeOK, Lookup, Published
  <2>3. Published # {}
    BY DEF KnownKeys, AnswersAreOfTheProvider
  <2> QED BY <1>4, <2>1, <2>2, <2>3, LookupStepsKnown DEF ProviderSends, KnownKeys, KeysTypeOK
<1>5. ASSUME NEW r \in Requests, FetchEnds(r) PROVE KnownKeys'
  <2>1. PICK x : x = [kid |-> lookup[r].kid, keys |-> lookup[r].got,
                      step |-> IF lookup[r].step = "first" THEN "read" ELSE "retry"]
    OBVIOUS
  <2>2. lookup[r].got # {} /\ lookup[r].got \subseteq Published /\ lookup[r].got \subseteq Kids
    BY <1>5 DEF FetchEnds, KnownKeys, AnswersAreOfTheProvider, Published
  <2>3. x \in Lookup /\ x.step \in {"read", "retry"}
    BY <1>5, <2>1, <2>2 DEF FetchEnds, Fetching, KnownKeys, KeysTypeOK, Lookup
  <2>4. jwks' \in [keys: SUBSET Kids, at: Time] /\ jwks'.keys = lookup[r].got
    BY <1>5, <2>2 DEF FetchEnds, KnownKeys, AnswersAreOfTheProvider
  <2> QED BY <1>5, <2>1, <2>2, <2>3, <2>4, LookupStepsKnown DEF FetchEnds, KnownKeys, KeysTypeOK
<1>6. ASSUME NEW r \in Requests, FetchFails(r) \/ Finds(r) \/ Refuses(r) PROVE KnownKeys'
  <2>1. Refuses(r) => lookup[r].kid \in Kids
    BY DEF Refuses, HasKeys, KnownKeys, KeysTypeOK, Lookup
  <2> QED BY <1>6, <2>1, LookupStepsKnown DEF FetchFails, Finds, Refuses, KnownKeys, KeysTypeOK
<1>7. ASSUME NEW r \in Requests, TakesTurn(r) PROVE KnownKeys'
  <2>1. PICK x : x = [kid |-> lookup[r].kid, step |-> "forced", got |-> NoSet]
    OBVIOUS
  <2>2. x \in Lookup /\ x.got = NoSet
    BY <1>7, <2>1 DEF TakesTurn, HasKeys, KnownKeys, KeysTypeOK, Lookup
  <2>3. forced' \in (Time \cup {Never}) \X (Time \cup {Never})
    BY <1>7 DEF TakesTurn, KnownKeys, KeysTypeOK, AnswersAreOfTheProvider
  <2> QED BY <1>7, <2>1, <2>2, <2>3, LookupStepsKnown DEF TakesTurn, KnownKeys, KeysTypeOK
<1> QED BY <1>1, <1>2, <1>3, <1>4, <1>5, <1>6, <1>7 DEF KeysNext

-----------------------------------------------------------------------------
(* The turns that tokens take, and the keys they do not find.               *)

\* What the history tells of the turns is what the process knows of the last one.
TurnsAreSpaced == forced[1] = refreshedAt /\ RefreshesAreSpaced

LEMMA KeysInitSpaced == KeysInit => TurnsAreSpaced
BY DEF KeysInit, TurnsAreSpaced, RefreshesAreSpaced

LEMMA KeysNextSpaced ==
    ASSUME KnownKeys, TurnsAreSpaced, KeysNext
    PROVE  TurnsAreSpaced'
<1>1. CASE UNCHANGED <<refreshedAt, forced>>
  BY <1>1 DEF TurnsAreSpaced, RefreshesAreSpaced
<1>2. ASSUME NEW r \in Requests, TakesTurn(r) PROVE TurnsAreSpaced'
  <2>1. forced' = <<now, refreshedAt>> /\ refreshedAt' = now
    BY <1>2 DEF TakesTurn, TurnsAreSpaced
  <2>2. refreshedAt # Never => now - refreshedAt >= RefreshInterval
    BY <1>2 DEF TakesTurn, MayRefresh
  <2> QED BY <2>1, <2>2 DEF TurnsAreSpaced, RefreshesAreSpaced
<1> QED BY <1>1, <1>2 DEF KeysNext, KeysTick, Publishes, LooksUp, ProviderSends, FetchEnds,
                          FetchFails, Finds, Refuses

\* The last turn was taken after the provider had published k.
TurnSince(k) == published[k] # Never /\ refreshedAt > published[k]

\* A key that was published while nobody looked up, and since which no two did at
\* once: whoever asks the provider is answered with it, and after a turn taken
\* since it is known, or being fetched, or nothing is kept.
IsFresh(k) ==
    /\ \A r, q \in LookingUp : r = q
    /\ \A r \in LookingUp :
         /\ Fetching(r) /\ lookup[r].got # NoSet => k \in lookup[r].got
         /\ lookup[r].step = "retry" => k \in lookup[r].keys
         /\ lookup[r].step = "read" /\ TurnSince(k) => k \in lookup[r].keys
    /\ TurnSince(k) => \/ jwks = NoSet \/ k \in jwks.keys
                       \/ \E r \in LookingUp : lookup[r].step = "forced"

FreshKeysAreFound == \A k \in Published \ crowded : IsFresh(k)

KeysInv == KnownKeys /\ TurnsAreSpaced /\ FreshKeysAreFound /\ NewKeysAreFound

LEMMA KeysInitInv == KeysInit => KeysInv
<1> SUFFICES ASSUME KeysInit PROVE KeysInv
  OBVIOUS
<1>1. FreshKeysAreFound
  BY KeysAssumption DEF KeysInit, FreshKeysAreFound, IsFresh, LookingUp, TurnSince, Published, Time, Never
<1>2. NewKeysAreFound
  BY DEF KeysInit, NewKeysAreFound
<1> QED BY <1>1, <1>2, KeysInitType, KeysInitSpaced DEF KeysInv

LEMMA FreshStep ==
    ASSUME KeysInv, KeysNext, NEW k \in Kids, k \in Published, IsFresh(k), k \notin crowded'
    PROVE  IsFresh(k)'
<1> USE DEF IsFresh, LookingUp, TurnSince, KeysInv, KnownKeys, KeysTypeOK
<1>1. ASSUME KeysTick \/ \E j \in Kids : Publishes(j) PROVE IsFresh(k)'
  <2>1. published'[k] = published[k]
    BY <1>1 DEF KeysTick, Publishes
  <2> QED BY <1>1, <2>1 DEF KeysTick, Publishes, Fetching
<1>2. ASSUME NEW r \in Requests, NEW j \in Kids, LooksUp(r, j) PROVE IsFresh(k)'
  <2>1. LookingUp = {}
    BY <1>2 DEF LooksUp
  <2>2. PICK x : x = IF Usable THEN [kid |-> j, step |-> "read", keys |-> jwks.keys]
                     ELSE [kid |-> j, step |-> "first", got |-> NoSet]
    OBVIOUS
  <2>3. lookup' = [lookup EXCEPT ![r] = x] /\ UNCHANGED <<published, jwks, refreshedAt>>
    BY <1>2, <2>2 DEF LooksUp
  <2>4. TurnSince(k) => jwks = NoSet \/ k \in jwks.keys
    BY <2>1
  <2>5. x.step \in {"read", "first"} /\ (x.step = "first" => x.got = NoSet)
    BY <2>2
  <2>6. x.step = "read" /\ TurnSince(k) => k \in x.keys
    BY <2>2, <2>4 DEF Usable
  <2> QED BY <2>1, <2>3, <2>4, <2>5, <2>6 DEF Fetching
<1>3. ASSUME NEW r \in Requests, ProviderSends(r) PROVE IsFresh(k)'
  <2>1. PICK x : x = [lookup[r] EXCEPT !.got = Published]
    OBVIOUS
  <2>2. lookup' = [lookup EXCEPT ![r] = x] /\ UNCHANGED <<published, jwks, refreshedAt>>
    BY <1>3, <2>1 DEF ProviderSends
  <2>3. x.got = Published /\ x.step = lookup[r].step /\ x.step \in {"first", "forced"} /\ x # NoLookup
    BY <1>3, <2>1, KeysNullsAssumption DEF ProviderSends, Fetching, Lookup, Published
  <2>4. r \in LookingUp
    BY <1>3 DEF ProviderSends, Fetching
  <2> QED BY <2>2, <2>3, <2>4 DEF Fetching
<1>4. ASSUME NEW r \in Requests, FetchEnds(r) PROVE IsFresh(k)'
  <2>1. PICK x : x = [kid |-> lookup[r].kid, keys |-> lookup[r].got,
                      step |-> IF lookup[r].step = "first" THEN "read" ELSE "retry"]
    OBVIOUS
  <2>2. lookup' = [lookup EXCEPT ![r] = x] /\ UNCHANGED <<published, refreshedAt>>
    BY <1>4, <2>1 DEF FetchEnds
  <2>3. k \in lookup[r].got
    BY <1>4 DEF FetchEnds, Fetching
  <2>4. k \in jwks'.keys
    BY <1>4, <2>3 DEF FetchEnds
  <2>5. x.step \in {"read", "retry"} /\ k \in x.keys
    BY <2>1, <2>3
  <2>6. r \in LookingUp
    BY <1>4 DEF FetchEnds, Fetching
  <2> QED BY <2>2, <2>4, <2>5, <2>6 DEF Fetching
<1>5. ASSUME NEW r \in Requests, FetchFails(r) \/ Finds(r) \/ Refuses(r) PROVE IsFresh(k)'
  <2>1. lookup' = [lookup EXCEPT ![r] = NoLookup] /\ UNCHANGED <<published, refreshedAt>>
    BY <1>5 DEF FetchFails, Finds, Refuses
  <2>2. jwks' = NoSet \/ (jwks' = jwks /\ HasKeys(r))
    BY <1>5 DEF FetchFails, Finds, Refuses
  <2>3. HasKeys(r) => lookup[r].step # "forced"
    BY DEF HasKeys
  <2> QED BY <2>1, <2>2, <2>3 DEF Fetching
<1>6. ASSUME NEW r \in Requests, TakesTurn(r) PROVE IsFresh(k)'
  <2>1. PICK x : x = [kid |-> lookup[r].kid, step |-> "forced", got |-> NoSet]
    OBVIOUS
  <2>2. lookup' = [lookup EXCEPT ![r] = x] /\ UNCHANGED <<published, jwks>>
    BY <1>6, <2>1 DEF TakesTurn
  <2>3. x # NoLookup /\ x.step = "forced" /\ x.got = NoSet
    BY <1>6, <2>1, KeysNullsAssumption DEF TakesTurn, HasKeys, Lookup
  <2>4. r \in LookingUp
    BY <1>6 DEF TakesTurn, HasKeys
  <2> QED BY <2>2, <2>3, <2>4 DEF Fetching
<1> QED BY <1>1, <1>2, <1>3, <1>4, <1>5, <1>6 DEF KeysNext

LEMMA KeysNextFresh ==
    ASSUME KeysInv, KeysNext
    PROVE  FreshKeysAreFound'
<1> USE DEF KeysInv, KnownKeys, KeysTypeOK
<1>1. ASSUME NEW k \in Kids, Publishes(k) PROVE FreshKeysAreFound'
  <2>1. Published' = Published \cup {k} /\ k \notin Published /\ published'[k] = now
    BY <1>1 DEF Publishes, Published, AnswersAreOfTheProvider, Time, Never
  <2>2. k \notin crowded' => LookingUp = {}
    BY <1>1 DEF Publishes
  <2>3. k \notin crowded' => IsFresh(k)'
    <3>1. k \notin crowded' => LookingUp' = {}
      BY <1>1, <2>2 DEF Publishes, LookingUp
    <3>2. ~TurnSince(k)'
      BY <1>1, <2>1 DEF Publishes, TurnSince, AnswersAreOfTheProvider, Time, Never
    <3> QED BY <3>1, <3>2 DEF IsFresh
  <2>4. crowded \subseteq crowded'
    BY <1>1 DEF Publishes
  <2>5. \A j \in Published : j \notin crowded' => IsFresh(j)'
    BY <2>4, FreshStep DEF FreshKeysAreFound, Published
  <2> QED BY <2>1, <2>3, <2>5 DEF FreshKeysAreFound
<1>2. ASSUME Published' = Published, crowded \subseteq crowded' PROVE FreshKeysAreFound'
  BY <1>2, FreshStep DEF FreshKeysAreFound, Published
<1>3. CASE UNCHANGED <<published, crowded>>
  BY <1>2, <1>3 DEF Published
<1>4. ASSUME NEW r \in Requests, NEW k \in Kids, LooksUp(r, k) PROVE FreshKeysAreFound'
  BY <1>2, <1>4 DEF LooksUp, Published
<1> QED BY <1>1, <1>3, <1>4 DEF KeysNext, KeysTick, ProviderSends, FetchEnds, FetchFails, Finds, TakesTurn, Refuses

LEMMA KeysNextFound ==
    ASSUME KeysInv, KeysNext
    PROVE  NewKeysAreFound'
<1> USE DEF KeysInv, KnownKeys, KeysTypeOK
<1>1. CASE KeysTick \/ \E r \in Requests, k \in Kids : LooksUp(r, k)
  BY <1>1 DEF KeysTick, LooksUp, NewKeysAreFound
<1>2. ASSUME NEW k \in Kids, Publishes(k) PROVE NewKeysAreFound'
  <2>1. \A j \in Kids : published'[j] = IF j = k THEN now ELSE published[j]
    BY <1>2 DEF Publishes
  <2>2. now' = now /\ refused' = refused /\ crowded \subseteq crowded' /\ now \in Nat
    BY <1>2 DEF Publishes, AnswersAreOfTheProvider, Time
  <2>3. refused \in Kids /\ refused # k => published'[refused] = published[refused]
    BY <2>1
  <2>4. refused = k => published'[refused] = now
    BY <2>1, <1>2
  <2>5. refused \in Kids \cup {NoLookup}
    OBVIOUS
  <2> QED BY <2>2, <2>3, <2>4, <2>5, KeysAssumption DEF NewKeysAreFound
<1>3. CASE UNCHANGED <<now, published, refused, crowded>>
  BY <1>3 DEF NewKeysAreFound
<1>4. ASSUME NEW r \in Requests, Refuses(r), refused' # NoLookup, published'[refused'] # Never, refused' \notin crowded'
      PROVE  now' < published'[refused'] + RefreshInterval
  <2>1. PICK k \in Kids : k = lookup[r].kid
    BY <1>4 DEF Refuses, HasKeys, Lookup
  <2>2. refused' = k /\ UNCHANGED <<now, published, crowded, refreshedAt>>
    BY <1>4, <2>1 DEF Refuses
  <2>3. k \in Published \ crowded /\ r \in LookingUp
    BY <1>4, <2>1, <2>2 DEF Published, LookingUp, Refuses, HasKeys
  <2>4. IsFresh(k)
    BY <2>3 DEF FreshKeysAreFound
  <2>5. k \notin lookup[r].keys /\ lookup[r].step \in {"read", "retry"}
    BY <1>4, <2>1 DEF Refuses, HasKeys
  <2>6. lookup[r].step = "read" /\ ~TurnSince(k)
    BY <2>3, <2>4, <2>5 DEF IsFresh
  <2>7. ~MayRefresh
    BY <1>4, <2>6 DEF Refuses
  <2>8. refreshedAt \in Time /\ now - refreshedAt < RefreshInterval /\ now \in Time
    BY <2>7, KeysAssumption DEF MayRefresh, AnswersAreOfTheProvider, Time
  <2>9. refreshedAt <= published[k] /\ published[k] \in Time
    BY <2>3, <2>6, <2>8 DEF TurnSince, Published, Time
  <2> QED BY <2>2, <2>8, <2>9, KeysAssumption DEF Time
<1> QED BY <1>1, <1>2, <1>3, <1>4 DEF KeysNext, NewKeysAreFound, ProviderSends, FetchEnds, FetchFails, Finds, TakesTurn

\* However many requests bring tokens with unknown keys at once, they send the process
\* to the provider once in an interval; and a key that the provider has had for an
\* interval is not called unknown, unless lookups overlapped since.
\* (OidcMetadataCache: signing_key and _may_refresh.)
THEOREM KeysAreFoundInTime == KeysSpec => []KeysHold
<1>1. KeysInv /\ [KeysNext]_keyVars => KeysInv'
  <2> SUFFICES ASSUME KeysInv, [KeysNext]_keyVars PROVE KeysInv'
    OBVIOUS
  <2>1. CASE KeysNext
    BY <2>1, KeysNextKnown, KeysNextSpaced, KeysNextFresh, KeysNextFound DEF KeysInv
  <2>2. CASE UNCHANGED keyVars
    BY <2>2 DEF keyVars, KeysInv, KnownKeys, KeysTypeOK, AnswersAreOfTheProvider, TurnsAreSpaced, RefreshesAreSpaced,
           FreshKeysAreFound, IsFresh, NewKeysAreFound, Published, LookingUp, Fetching, TurnSince
  <2> QED BY <2>1, <2>2
<1>2. KeysInv => KeysHold
  BY DEF KeysInv, KeysHold, TurnsAreSpaced
<1> QED BY <1>1, <1>2, KeysInitInv, PTL DEF KeysSpec

-----------------------------------------------------------------------------
(* SsoSessions: types.                                                      *)

LEMMA SsoInitType == SsoInit => SsoTypeOK
<1> SUFFICES ASSUME SsoInit PROVE SsoTypeOK
  OBVIOUS
<1>1. now \in Time /\ lastLogin \in Time \cup {Never}
  BY DEF SsoInit, Time
<1>2. uses \in [Tickets -> Nat] /\ told \in [Sids -> Time \cup {Never}]
  BY DEF SsoInit
<1> QED BY <1>1, <1>2 DEF SsoInit, SsoTypeOK, Scope

LEMMA IssuedType ==
    ASSUME now \in Time, access \subseteq Sso, NEW sid \in Sids, NEW started \in Time
    PROVE  Issued(sid, started) \subseteq Sso
BY SsoAssumption DEF Issued, Sso, Time

LEMMA RecordedType ==
    ASSUME SsoTypeOK, NEW jti \in Notices \cup Time, NEW scope \in Scope
    PROVE  /\ Recorded(jti, scope) \subseteq Stop
           /\ \A s, t \in Recorded(jti, scope) : s.jti = t.jti => s = t
<1>1. PICK n : n = [jti |-> jti, scope |-> scope, at |-> now, until |-> now + Keep]
  OBVIOUS
<1>2. n \in Stop /\ n.jti = jti
  BY <1>1, SsoAssumption DEF SsoTypeOK, Stop, Time
<1>3. Recorded(jti, scope) = KeptStops \/ (Recorded(jti, scope) = KeptStops \cup {n} /\ ~\E s \in KeptStops : s.jti = jti)
  BY <1>1 DEF Recorded
<1>4. KeptStops \subseteq stops
  BY DEF KeptStops
<1> QED BY <1>2, <1>3, <1>4 DEF SsoTypeOK

LEMMA SweptType ==
    ASSUME SsoTypeOK
    PROVE  SweptTickets \in [Tickets -> TicketRow \cup {Unissued, Gone}]
BY DEF SweptTickets, SsoTypeOK

\* What the kinds of work are about.
LEMMA WorkOf ==
    ASSUME SsoTypeOK, NEW r \in Requests
    PROVE  /\ At(r, "callback") => work[r].sid \in Sids
           /\ At(r, "redeem") => work[r].ticket \in Tickets /\ work[r].row \in TicketRow
           /\ At(r, "switch") => work[r].token \in Sso
           /\ At(r, "pass") => work[r].login \in Time /\ work[r].ended \subseteq Sids
BY DEF SsoTypeOK, At, Work

LEMMA WorkStep ==
    ASSUME SsoTypeOK, NEW r \in Requests, NEW x \in Work \cup {NoWork}, work' = [work EXCEPT ![r] = x]
    PROVE  /\ work' \in [Requests -> Work \cup {NoWork}]
           /\ \A q \in Requests : work'[q] = IF q = r THEN x ELSE work[q]
BY DEF SsoTypeOK

LEMMA ProviderTyped ==
    ASSUME SsoTypeOK,
           \/ SsoTick \/ ProviderBlocks
           \/ \E sid \in Sids : ProviderSignIn(sid)
           \/ \E n \in Notices, scope \in Scope : ProviderEnds(n, scope)
    PROVE  SsoTypeOK'
<1>1. CASE SsoTick
  <2>1. now' \in Time /\ access' \subseteq Sso
    BY <1>1 DEF SsoTick, Tick, SsoTypeOK, Time
  <2> QED BY <1>1, <2>1 DEF SsoTick, SsoTypeOK, provider
<1>2. CASE ProviderBlocks
  BY <1>2 DEF ProviderBlocks, SsoTypeOK, Scope
<1>3. ASSUME NEW sid \in Sids, ProviderSignIn(sid) PROVE SsoTypeOK'
  BY <1>3 DEF ProviderSignIn, SsoTypeOK, Scope
<1>4. ASSUME NEW n \in Notices, NEW scope \in Scope, ProviderEnds(n, scope) PROVE SsoTypeOK'
  <2>1. PICK x : x = [scope |-> scope, ended |-> {session}, arrived |-> Never]
    OBVIOUS
  <2>2. x \in Notice
    BY <1>4, <2>1 DEF ProviderEnds, SsoTypeOK, Scope, Notice
  <2>3. notice' \in [Notices -> Notice \cup {NoNotice}]
    BY <1>4, <2>1, <2>2 DEF ProviderEnds, SsoTypeOK
  <2>4. session' \in Scope
    BY <1>4 DEF ProviderEnds, Scope
  <2> QED BY <1>4, <2>3, <2>4 DEF ProviderEnds, SsoTypeOK
<1> QED BY <1>1, <1>2, <1>3, <1>4

LEMMA SigningInTyped ==
    ASSUME SsoTypeOK, NEW r \in Requests,
           \/ ExchangeCode(r) \/ CompleteRenewal(r) \/ ExchangeTicket(r)
           \/ \E k \in Tickets : CompleteLogin(r, k) \/ PresentTicket(r, k)
    PROVE  SsoTypeOK'
<1> now \in Time /\ access \subseteq Sso
  BY DEF SsoTypeOK
<1>1. CASE ExchangeCode(r)
  <2>1. [kind |-> "callback", sid |-> session] \in Work
    BY <1>1 DEF ExchangeCode, SsoTypeOK, Scope, Work
  <2>2. work' \in [Requests -> Work \cup {NoWork}]
    BY <1>1, <2>1, WorkStep DEF ExchangeCode
  <2> QED BY <1>1, <2>2 DEF ExchangeCode, SsoTypeOK, provider
<1>2. CASE CompleteRenewal(r)
  <2>1. work' \in [Requests -> Work \cup {NoWork}]
    BY <1>2, WorkStep DEF CompleteRenewal
  <2>2. access' \subseteq Sso
    BY <1>2, WorkOf, IssuedType DEF CompleteRenewal
  <2> QED BY <1>2, <2>1, <2>2, SweptType DEF CompleteRenewal, SsoTypeOK, provider
<1>3. CASE ExchangeTicket(r)
  <2>1. work' \in [Requests -> Work \cup {NoWork}]
    BY <1>3, WorkStep DEF ExchangeTicket
  <2>2. access' \subseteq Sso
    BY <1>3, WorkOf, IssuedType DEF ExchangeTicket, TicketRow
  <2>3. tickets' \in [Tickets -> TicketRow \cup {Unissued, Gone}] /\ uses' \in [Tickets -> Nat]
    BY <1>3, WorkOf DEF ExchangeTicket, SsoTypeOK
  <2> QED BY <1>3, <2>1, <2>2, <2>3 DEF ExchangeTicket, SsoTypeOK, provider
<1>4. ASSUME NEW k \in Tickets, CompleteLogin(r, k) PROVE SsoTypeOK'
  <2>1. work' \in [Requests -> Work \cup {NoWork}]
    BY <1>4, WorkStep DEF CompleteLogin
  <2>2. PICK x : x = [sid |-> work[r].sid, started |-> now, expires |-> now + TicketTtl]
    OBVIOUS
  <2>3. x \in TicketRow
    BY <1>4, <2>2, WorkOf, SsoAssumption DEF CompleteLogin, TicketRow, Time
  <2>4. tickets' \in [Tickets -> TicketRow \cup {Unissued, Gone}]
    BY <1>4, <2>2, <2>3, SweptType DEF CompleteLogin
  <2> QED BY <1>4, <2>1, <2>4 DEF CompleteLogin, SsoTypeOK, provider
<1>5. ASSUME NEW k \in Tickets, PresentTicket(r, k) PROVE SsoTypeOK'
  <2>1. tickets[k] \in TicketRow
    BY <1>5 DEF PresentTicket, InTable, SsoTypeOK
  <2>2. [kind |-> "redeem", ticket |-> k, row |-> tickets[k]] \in Work
    BY <2>1 DEF Work
  <2>3. work' \in [Requests -> Work \cup {NoWork}]
    BY <1>5, <2>2, WorkStep DEF PresentTicket
  <2> QED BY <1>5, <2>3 DEF PresentTicket, SsoTypeOK, provider
<1> QED BY <1>1, <1>2, <1>3, <1>4, <1>5

LEMMA ToldTyped ==
    ASSUME SsoTypeOK, NEW ended, ToldOf(ended) PROVE told' \in [Sids -> Time \cup {Never}]
BY DEF ToldOf, SsoTypeOK

LEMMA StoppingTyped ==
    ASSUME SsoTypeOK,
           \/ \E n \in Notices : ReceiveNotice(n)
           \/ \E r \in Requests : \/ SwitchWrites(r) \/ ReconcileAsks(r) \/ ReconcileWrites(r)
                                  \/ \E t \in access : SwitchChecked(r, t)
    PROVE  SsoTypeOK'
<1> now \in Time /\ access \subseteq Sso /\ begun \subseteq Sids /\ crossed \subseteq Sids /\ NoSid \in Scope
  BY DEF SsoTypeOK, Scope
<1>1. ASSUME NEW n \in Notices, ReceiveNotice(n) PROVE SsoTypeOK'
  <2>1. notice[n] \in Notice
    BY <1>1 DEF ReceiveNotice, SsoTypeOK
  <2>2. notice' \in [Notices -> Notice \cup {NoNotice}]
    <3>1. [notice[n] EXCEPT !.arrived = now] \in Notice
      BY <2>1 DEF Notice
    <3> QED BY <1>1, <3>1 DEF ReceiveNotice, SsoTypeOK
  <2>3. stops' \subseteq Stop /\ \A s, t \in stops' : s.jti = t.jti => s = t
    BY <1>1, <2>1, RecordedType DEF ReceiveNotice, Notice
  <2>4. told' \in [Sids -> Time \cup {Never}]
    BY <1>1, ToldTyped DEF ReceiveNotice, SsoTypeOK
  <2>5. crossed' \subseteq Sids
    BY <1>1, <2>1 DEF ReceiveNotice, Crosses, Notice
  <2> QED BY <1>1, <2>2, <2>3, <2>4, <2>5 DEF ReceiveNotice, SsoTypeOK, provider
<1>2. ASSUME NEW r \in Requests, SwitchWrites(r) PROVE SsoTypeOK'
  <2>1. work' \in [Requests -> Work \cup {NoWork}]
    BY <1>2, WorkStep DEF SwitchWrites
  <2>2. work[r].token.sid \in Sids /\ work[r].token.started \in Time
    BY <1>2, WorkOf DEF SwitchWrites, Sso
  <2>3. access' \subseteq Sso
    BY <1>2, <2>2, IssuedType DEF SwitchWrites
  <2> QED BY <1>2, <2>1, <2>3 DEF SwitchWrites, SsoTypeOK, provider
<1>3. ASSUME NEW r \in Requests, ReconcileAsks(r) PROVE SsoTypeOK'
  <2>1. PICK x : x = [kind |-> "pass", login |-> lastLogin, blocked |-> blocked, ended |-> IF blocked THEN begun ELSE {}]
    OBVIOUS
  <2>2. x \in Work
    <3>1. lastLogin \in Time /\ blocked \in BOOLEAN /\ (IF blocked THEN begun ELSE {}) \in SUBSET Sids
      BY <1>3 DEF ReconcileAsks, SsoTypeOK
    <3> QED BY <2>1, <3>1 DEF Work
  <2>3. work' \in [Requests -> Work \cup {NoWork}]
    BY <1>3, <2>1, <2>2, WorkStep DEF ReconcileAsks
  <2>4. crossed' \subseteq Sids
    BY <1>3 DEF ReconcileAsks, Crosses
  <2> QED BY <1>3, <2>3, <2>4 DEF ReconcileAsks, SsoTypeOK, provider
<1>4. ASSUME NEW r \in Requests, ReconcileWrites(r) PROVE SsoTypeOK'
  <2>1. work' \in [Requests -> Work \cup {NoWork}]
    BY <1>4, WorkStep DEF ReconcileWrites
  <2>2. JtiOf(work[r]) \in Notices \cup Time
    BY <1>4, WorkOf DEF ReconcileWrites, JtiOf
  <2>3. stops' \subseteq Stop /\ \A s, t \in stops' : s.jti = t.jti => s = t
    BY <1>4, <2>2, RecordedType DEF ReconcileWrites, SsoTypeOK
  <2>4. told' \in [Sids -> Time \cup {Never}]
    BY <1>4, ToldTyped DEF ReconcileWrites, SsoTypeOK
  <2>5. crossed' \subseteq Sids
    BY <1>4 DEF ReconcileWrites, Crosses
  <2> QED BY <1>4, <2>1, <2>3, <2>4, <2>5 DEF ReconcileWrites, SsoTypeOK, provider
<1>5. ASSUME NEW r \in Requests, NEW t \in access, SwitchChecked(r, t) PROVE SsoTypeOK'
  <2>1. [kind |-> "switch", token |-> t] \in Work
    BY DEF Work
  <2>2. work' \in [Requests -> Work \cup {NoWork}]
    BY <1>5, <2>1, WorkStep DEF SwitchChecked
  <2> QED BY <1>5, <2>2 DEF SwitchChecked, SsoTypeOK, provider
<1> QED BY <1>1, <1>2, <1>3, <1>4, <1>5

LEMMA SsoNextType == ASSUME SsoTypeOK, SsoNext PROVE SsoTypeOK'
BY ProviderTyped, SigningInTyped, StoppingTyped DEF SsoNext

THEOREM SsoType == SsoSpec => []SsoTypeOK
<1>1. SsoTypeOK /\ UNCHANGED ssoVars => SsoTypeOK'
  BY DEF ssoVars, SsoTypeOK, provider
<1> QED BY <1>1, SsoInitType, SsoNextType, PTL DEF SsoSpec

-----------------------------------------------------------------------------
(* SsoSessions: a ticket lets in once.                                      *)

\* What was not exchanged let nobody in.
UnusedUntilGone == \A k \in Tickets : tickets[k] # Gone => uses[k] = 0

TicketsInv == SsoTypeOK /\ UnusedUntilGone

LEMMA TicketStates ==
    ASSUME UnusedUntilGone, NEW k \in Tickets
    PROVE  /\ TicketState(k) = "unissued" <=> tickets[k] = Unissued
           /\ TicketState(k) = "issued" <=> InTable(k)
           /\ TicketState(k) = "spent" <=> tickets[k] = Gone /\ uses[k] > 0
           /\ TicketState(k) = "dropped" <=> tickets[k] = Gone /\ ~(uses[k] > 0)
BY SsoAssumption DEF TicketState, InTable

LEMMA TicketsInitAbstract == SsoInit => TicketsInv /\ LoginTickets!Init
<1> SUFFICES ASSUME SsoInit PROVE TicketsInv /\ LoginTickets!Init
  OBVIOUS
<1>1. UnusedUntilGone
  BY DEF SsoInit, UnusedUntilGone
<1>2. \A k \in Tickets : TicketState(k) = "unissued"
  BY SsoAssumption DEF SsoInit, TicketState
<1>3. uses = [k \in Tickets |-> 0]
  BY DEF SsoInit
<1>4. LoginTickets!Init
  BY <1>2, <1>3 DEF LoginTickets!Init
<1> QED BY <1>1, <1>4, SsoInitType DEF TicketsInv

\* A sweep forgets tickets that are still unused, beside one that is issued.
LEMMA SweepStep ==
    ASSUME TicketsInv, UNCHANGED uses, NEW K \in SUBSET Tickets,
           NEW rows \in [Tickets -> TicketRow],
           \A k \in K : tickets[k] = Unissued,
           tickets' = [k \in Tickets |-> IF k \in K THEN rows[k] ELSE SweptTickets[k]]
    PROVE  UnusedUntilGone' /\ LoginTickets!Next
<1> DEFINE swept == {k \in Tickets : InTable(k) /\ tickets[k].expires < now}
<1>1. \A k \in Tickets : tickets'[k] = IF k \in K THEN rows[k] ELSE IF k \in swept THEN Gone ELSE tickets[k]
  BY DEF SweptTickets
<1>2. \A k \in K : rows[k] \in TicketRow /\ rows[k] \notin {Unissued, Gone} /\ ~InTable(k) /\ k \notin swept
  BY SsoNullsAssumption DEF InTable
<1>3. \A k \in swept : uses[k] = 0
  BY DEF TicketsInv, UnusedUntilGone, InTable
<1>4. UnusedUntilGone'
  BY <1>1, <1>2, <1>3, SsoAssumption DEF TicketsInv, UnusedUntilGone
<1>5. \A k \in Tickets : uses[k] \in Nat
  BY DEF TicketsInv, SsoTypeOK
<1>6. \A k \in Tickets : TicketState(k)' = CASE k \in swept -> "dropped" [] k \in K -> "issued" [] OTHER -> TicketState(k)
  <2> SUFFICES ASSUME NEW k \in Tickets
               PROVE TicketState(k)' = CASE k \in swept -> "dropped" [] k \in K -> "issued" [] OTHER -> TicketState(k)
    OBVIOUS
  <2>1. CASE k \in swept
    BY <2>1, <1>1, <1>2, <1>3, SsoAssumption DEF TicketState
  <2>2. CASE k \in K
    BY <2>2, <1>1, <1>2 DEF TicketState
  <2>3. CASE k \notin K /\ k \notin swept
    <3>1. tickets'[k] = tickets[k] /\ uses'[k] = uses[k]
      BY <2>3, <1>1
    <3> QED BY <2>3, <3>1 DEF TicketState
  <2> QED BY <2>1, <2>2, <2>3
<1>7. \A k \in swept : TicketState(k) = "issued"
  BY DEF TicketState, InTable
<1>8. \A k \in K : TicketState(k) = "unissued"
  BY TicketStates DEF TicketsInv
<1>9. swept \in SUBSET Tickets
  OBVIOUS
<1> HIDE DEF swept
<1>10. LoginTickets!Sweep(swept, K)
  BY <1>6, <1>7, <1>8, <1>9 DEF LoginTickets!Sweep
<1> QED BY <1>4, <1>9, <1>10 DEF LoginTickets!Next

LEMMA TicketsNextAbstract ==
    ASSUME TicketsInv, SsoNext
    PROVE  /\ UnusedUntilGone'
           /\ LoginTickets!Next \/ UNCHANGED <<[k \in Tickets |-> TicketState(k)], uses>>
<1>1. CASE UNCHANGED <<tickets, uses>>
  BY <1>1 DEF TicketsInv, UnusedUntilGone, TicketState
<1>2. ASSUME NEW r \in Requests, NEW k \in Tickets, CompleteLogin(r, k)
      PROVE  UnusedUntilGone' /\ LoginTickets!Next
  <2>1. PICK x : x = [sid |-> work[r].sid, started |-> now, expires |-> now + TicketTtl]
    OBVIOUS
  <2>2. x \in TicketRow
    <3>1. now \in Nat /\ now \in Time
      BY DEF TicketsInv, SsoTypeOK, Time
    <3> QED BY <1>2, <2>1, <3>1, WorkOf, SsoAssumption DEF CompleteLogin, TicketRow, TicketsInv
  <2>3. [j \in Tickets |-> x] \in [Tickets -> TicketRow]
    BY <2>2
  <2>4. tickets[k] = Unissued /\ UNCHANGED uses
    BY <1>2 DEF CompleteLogin
  <2>5. tickets' = [j \in Tickets |-> IF j \in {k} THEN [i \in Tickets |-> x][j] ELSE SweptTickets[j]]
    BY <1>2, <2>1, SweptType DEF CompleteLogin, TicketsInv
  <2> QED BY <2>3, <2>4, <2>5, SweepStep
<1>3. ASSUME NEW r \in Requests, CompleteRenewal(r) PROVE UnusedUntilGone' /\ LoginTickets!Next
  <2>1. UNCHANGED uses /\ tickets' = SweptTickets
    BY <1>3 DEF CompleteRenewal
  <2>2. PICK x : x \in TicketRow
    <3>1. work[r].sid \in Sids /\ 0 \in Time /\ 0 \in Nat
      BY <1>3, WorkOf, ServiceAssumption DEF CompleteRenewal, TicketsInv, Time
    <3>2. [sid |-> work[r].sid, started |-> 0, expires |-> 0] \in TicketRow
      BY <3>1 DEF TicketRow
    <3> QED BY <3>2
  <2>3. PICK rows : rows = [j \in Tickets |-> x]
    OBVIOUS
  <2>4. rows \in [Tickets -> TicketRow]
    BY <2>2, <2>3
  <2>5. PICK K \in SUBSET Tickets : K = {}
    OBVIOUS
  <2>6. tickets' = [j \in Tickets |-> IF j \in K THEN rows[j] ELSE SweptTickets[j]]
    BY <2>1, <2>5 DEF SweptTickets
  <2>7. \A j \in K : tickets[j] = Unissued
    BY <2>5
  <2> QED BY <2>1, <2>4, <2>6, <2>7, SweepStep
<1>4. ASSUME NEW r \in Requests, ExchangeTicket(r), Redeems(work[r])
      PROVE  UnusedUntilGone' /\ LoginTickets!Next
  <2>1. PICK k \in Tickets : k = work[r].ticket
    BY <1>4, WorkOf DEF ExchangeTicket, TicketsInv
  <2>2. tickets' = [tickets EXCEPT ![k] = Gone] /\ uses' = [uses EXCEPT ![k] = @ + 1] /\ InTable(k)
    BY <1>4, <2>1 DEF ExchangeTicket, Redeems
  <2>3. uses[k] = 0
    BY <2>2 DEF TicketsInv, UnusedUntilGone, InTable
  <2>4. uses' = [uses EXCEPT ![k] = 1]
    BY <2>2, <2>3
  <2>5. \A j \in Tickets : /\ tickets'[j] = IF j = k THEN Gone ELSE tickets[j]
                           /\ uses'[j] = IF j = k THEN 1 ELSE uses[j]
    BY <2>2, <2>4 DEF TicketsInv, SsoTypeOK
  <2>6. \A j \in Tickets : TicketState(j)' = IF j = k THEN "spent" ELSE TicketState(j)
    BY <2>5, SsoAssumption DEF TicketState
  <2>7. TicketState(k) = "issued"
    BY <2>2 DEF TicketState, InTable
  <2>8. LoginTickets!Redeem(k)
    BY <2>4, <2>6, <2>7 DEF LoginTickets!Redeem
  <2>9. UnusedUntilGone'
    BY <2>5 DEF TicketsInv, UnusedUntilGone
  <2> QED BY <2>8, <2>9 DEF LoginTickets!Next
<1>5. ASSUME NEW r \in Requests, ExchangeTicket(r), ~Redeems(work[r]) PROVE UNCHANGED <<tickets, uses>>
  BY <1>5 DEF ExchangeTicket
<1> QED BY <1>1, <1>2, <1>3, <1>4, <1>5 DEF SsoNext, SsoTick, ProviderBlocks, ProviderSignIn, ReceiveNotice,
      ProviderEnds, ExchangeCode, PresentTicket, SwitchChecked, SwitchWrites, ReconcileAsks, ReconcileWrites

\* A ticket of the login screen is good for one sign-in, however often it is sent,
\* and is forgotten only when it has run out. (ExchangeSsoTicket: the DELETE decides.)
THEOREM TicketsLetInOnce == SsoSpec => TicketsAreTickets
<1>1. TicketsInv /\ [SsoNext]_ssoVars => TicketsInv'
  <2>1. TicketsInv /\ UNCHANGED ssoVars => TicketsInv'
    BY DEF ssoVars, TicketsInv, SsoTypeOK, provider, UnusedUntilGone
  <2> QED BY <2>1, SsoNextType, TicketsNextAbstract DEF TicketsInv
<1>2. TicketsInv /\ [SsoNext]_ssoVars => [LoginTickets!Next]_<<[k \in Tickets |-> TicketState(k)], uses>>
  <2>1. UNCHANGED ssoVars => UNCHANGED <<[k \in Tickets |-> TicketState(k)], uses>>
    BY DEF ssoVars, TicketState
  <2> QED BY <2>1, TicketsNextAbstract
<1> QED BY <1>1, <1>2, TicketsInitAbstract, PTL DEF SsoSpec, TicketsAreTickets, LoginTickets!Spec

-----------------------------------------------------------------------------
(* SsoSessions: what the provider ends is over here.                        *)

\* What is in circulation: sessions whose code was exchanged, rows of tickets in
\* the table or in a request, tokens a switch was checked with, and what workers
\* were told of people who are blocked.
Calling == {sid \in Sids : \E r \in Requests : At(r, "callback") /\ work[r].sid = sid}
Rows == {row \in TicketRow : \/ \E k \in Tickets : InTable(k) /\ tickets[k] = row
                             \/ \E r \in Requests : At(r, "redeem") /\ work[r].row = row}
Switching == {t \in Sso : \E r \in Requests : At(r, "switch") /\ work[r].token = t}
Asked == {x \in [login: Time, ended: SUBSET Sids] :
            \E r \in Requests : /\ At(r, "pass") /\ work[r].blocked
                                /\ work[r].login = x.login /\ work[r].ended = x.ended}

\* Everything started when somebody last signed in, at the latest.
SignInsHaveTimes ==
    /\ lastLogin <= now
    /\ \A t \in access : t.started <= lastLogin /\ now < t.until /\ t.until <= now + AccessTtl
    /\ \A row \in Rows : row.started <= lastLogin /\ row.expires <= now + TicketTtl
    /\ \A t \in Switching : t.started <= lastLogin
    /\ \A x \in Asked : x.login <= now

Ended == begun \ {session}

\* What is in circulation is of sessions that began; what the service is or will be
\* told of is over, and the provider begins no session again.
EndedAtTheProvider ==
    /\ session \in begun \cup {NoSid} /\ (blocked => session = NoSid)
    /\ Calling \subseteq begun
    /\ \A t \in access \cup Switching \cup Rows : t.sid \in begun
    /\ \A n \in Notices : notice[n] # NoNotice =>
         notice[n].ended \subseteq Ended /\ \A sid \in notice[n].ended : notice[n].scope \in {sid, NoSid}
    /\ \A x \in Asked : x.ended \subseteq Ended
    /\ \A sid \in Sids : told[sid] # Never => sid \in Ended /\ told[sid] <= now

\* A stop is of the time its notice came first, and is there as long as the notice
\* may come again; one of a worker is for everything, and of after the sign-in.
StopsSayWhatTheyAreOf ==
    /\ \A s \in stops : /\ s.at <= now /\ s.until = s.at + Keep
                        /\ s.jti \in Time => s.scope = NoSid /\ s.jti <= s.at
                        /\ s.jti \in Notices => /\ notice[s.jti] # NoNotice
                                                /\ s.at = notice[s.jti].arrived
    /\ \A n \in Notices : notice[n] # NoNotice /\ notice[n].arrived # Never =>
         /\ notice[n].arrived <= now
         /\ now <= notice[n].arrived + Keep => \E s \in stops : s.jti = n

\* A stop that keeps something of this session, of this start, from going on after until.
Stopped(sid, started, until) ==
    \E s \in stops : s.scope \in {sid, NoSid} /\ s.at >= started /\ s.until >= until

\* Nothing of a session goes on that the service was told is over.
ToldAreStopped ==
    \A sid \in Sids \ crossed : told[sid] # Never =>
        /\ sid \notin Calling
        /\ \A t \in Switching : t.sid # sid
        /\ \A t \in access : t.sid = sid =>
             t.until <= told[sid] + TicketTtl + AccessTtl /\ Stopped(sid, t.started, t.until)
        /\ \A row \in Rows : row.sid = sid /\ now < row.expires =>
             row.expires <= told[sid] + TicketTtl /\ Stopped(sid, row.started, row.expires + AccessTtl)

\* What began before a worker's stop runs out soon after it.
WorkersStopsAreFinal ==
    \A s \in stops : s.jti \in Time => \A sid \in Sids \ crossed :
        /\ \A t \in access : t.sid = sid /\ t.started <= s.at => t.until <= s.at + TicketTtl + AccessTtl
        /\ \A row \in Rows : row.sid = sid /\ row.started <= s.at => row.expires <= s.at + TicketTtl
        /\ \A t \in Switching : t.sid = sid => s.at < t.started

\* Of what a worker was told is over, nothing started later than the sign-in it read.
AskedAreOlder ==
    \A x \in Asked : \A sid \in x.ended \ crossed :
        /\ sid \notin Calling
        /\ \A t \in access \cup Switching \cup Rows : t.sid = sid => t.started <= x.login

LogoutInv ==
    /\ SignInsHaveTimes /\ EndedAtTheProvider /\ StopsSayWhatTheyAreOf
    /\ ToldAreStopped /\ WorkersStopsAreFinal /\ AskedAreOlder

\* A request that comes to its end, or to something new, adds nothing else.
LEMMA WorkSets ==
    ASSUME SsoTypeOK, NEW r \in Requests, NEW x \in Work \cup {NoWork}, work' = [work EXCEPT ![r] = x]
    PROVE  /\ \A sid \in Calling' : sid \in Calling \/ (x # NoWork /\ x.kind = "callback" /\ x.sid = sid)
           /\ \A t \in Switching' : t \in Switching \/ (x # NoWork /\ x.kind = "switch" /\ x.token = t)
           /\ \A p \in Asked' : p \in Asked \/ (x # NoWork /\ x.kind = "pass" /\ x.blocked
                                                /\ p.login = x.login /\ p.ended = x.ended)
<1>1. \A q \in Requests : work'[q] = IF q = r THEN x ELSE work[q]
  BY WorkStep
<1>2. ASSUME NEW sid \in Calling' PROVE sid \in Calling \/ (x # NoWork /\ x.kind = "callback" /\ x.sid = sid)
  BY <1>1, <1>2 DEF Calling, At
<1>3. ASSUME NEW t \in Switching' PROVE t \in Switching \/ (x # NoWork /\ x.kind = "switch" /\ x.token = t)
  BY <1>1, <1>3 DEF Switching, At
<1>4. ASSUME NEW p \in Asked' PROVE p \in Asked \/ (x # NoWork /\ x.kind = "pass" /\ x.blocked
                                                    /\ p.login = x.login /\ p.ended = x.ended)
  BY <1>1, <1>4 DEF Asked, At
<1> QED BY <1>2, <1>3, <1>4

LEMMA RowSets ==
    ASSUME SsoTypeOK, NEW r \in Requests, NEW x \in Work \cup {NoWork}, work' = [work EXCEPT ![r] = x],
           NEW new, \A k \in Tickets : InTable(k)' => (InTable(k) /\ tickets'[k] = tickets[k]) \/ tickets'[k] = new
    PROVE  \A row \in Rows' : row \in Rows \/ row = new \/ (x # NoWork /\ x.kind = "redeem" /\ x.row = row)
<1>1. \A q \in Requests : work'[q] = IF q = r THEN x ELSE work[q]
  BY WorkStep
<1> SUFFICES ASSUME NEW row \in Rows'
             PROVE row \in Rows \/ row = new \/ (x # NoWork /\ x.kind = "redeem" /\ x.row = row)
  OBVIOUS
<1>2. ASSUME NEW k \in Tickets, InTable(k)', tickets'[k] = row PROVE row \in Rows \/ row = new
  BY <1>2 DEF Rows
<1>3. ASSUME NEW q \in Requests, At(q, "redeem")', work'[q].row = row
      PROVE row \in Rows \/ (x # NoWork /\ x.kind = "redeem" /\ x.row = row)
  BY <1>1, <1>3 DEF Rows, At
<1> QED BY <1>2, <1>3 DEF Rows

\* A request that ends.
LEMMA WorkEnds ==
    ASSUME SsoTypeOK, NEW r \in Requests, work' = [work EXCEPT ![r] = NoWork]
    PROVE  Calling' \subseteq Calling /\ Switching' \subseteq Switching /\ Asked' \subseteq Asked
BY WorkSets

LEMMA NoMoreRows ==
    ASSUME SsoTypeOK, NEW r \in Requests, NEW x \in Work \cup {NoWork}, work' = [work EXCEPT ![r] = x],
           \A k \in Tickets : InTable(k)' => InTable(k) /\ tickets'[k] = tickets[k],
           x # NoWork => x.kind # "redeem"
    PROVE  Rows' \subseteq Rows
<1>1. \A q \in Requests : work'[q] = IF q = r THEN x ELSE work[q]
  BY WorkStep
<1> QED BY <1>1 DEF Rows, At

LEMMA LogoutInit == SsoInit => LogoutInv
<1> SUFFICES ASSUME SsoInit PROVE LogoutInv
  OBVIOUS
<1>1. Calling = {} /\ Rows = {} /\ Switching = {} /\ Asked = {}
  BY DEF SsoInit, Calling, Rows, Switching, Asked, At, InTable
<1>2. SignInsHaveTimes
  BY <1>1 DEF SsoInit, SignInsHaveTimes, Never
<1>3. EndedAtTheProvider
  BY <1>1 DEF SsoInit, EndedAtTheProvider
<1>4. StopsSayWhatTheyAreOf
  BY DEF SsoInit, StopsSayWhatTheyAreOf
<1>5. ToldAreStopped /\ WorkersStopsAreFinal /\ AskedAreOlder
  BY <1>1 DEF SsoInit, ToldAreStopped, WorkersStopsAreFinal, AskedAreOlder
<1> QED BY <1>2, <1>3, <1>4, <1>5 DEF LogoutInv

\* A step that puts nothing new into circulation, at the provider or here.
LEMMA NothingNew ==
    ASSUME LogoutInv, UNCHANGED <<now, blocked, session, begun, notice, stops, lastLogin, told>>,
           access' \subseteq access, Calling' \subseteq Calling, Rows' \subseteq Rows,
           Switching' \subseteq Switching, Asked' \subseteq Asked, crossed \subseteq crossed'
    PROVE  LogoutInv'
<1>1. SignInsHaveTimes'
  BY DEF LogoutInv, SignInsHaveTimes
<1>2. EndedAtTheProvider'
  BY DEF LogoutInv, EndedAtTheProvider, Ended
<1>3. StopsSayWhatTheyAreOf'
  BY DEF LogoutInv, StopsSayWhatTheyAreOf
<1>4. \A sid, started, until : Stopped(sid, started, until)' <=> Stopped(sid, started, until)
  BY DEF Stopped
<1>5. ToldAreStopped'
  BY <1>4 DEF LogoutInv, ToldAreStopped
<1>6. WorkersStopsAreFinal'
  BY DEF LogoutInv, WorkersStopsAreFinal
<1>7. AskedAreOlder'
  BY DEF LogoutInv, AskedAreOlder
<1> QED BY <1>1, <1>2, <1>3, <1>5, <1>6, <1>7 DEF LogoutInv

LEMMA TickKeeps ==
    ASSUME SsoTypeOK, LogoutInv, SsoTick
    PROVE  LogoutInv'
<1>1. /\ now \in Nat /\ now' = now + 1
      /\ UNCHANGED <<blocked, session, begun, notice, tickets, stops, lastLogin, work, told, crossed>>
  BY DEF SsoTick, Tick, provider, SsoTypeOK, Time
<1>2. access' \subseteq access /\ \A t \in access' : now' < t.until
  BY DEF SsoTick
<1>3. Calling' = Calling /\ Rows' = Rows /\ Switching' = Switching /\ Asked' = Asked
  BY <1>1 DEF Calling, Rows, Switching, Asked, At, InTable
<1>4. lastLogin \in Int /\ access \subseteq Sso /\ stops \subseteq Stop
  BY DEF SsoTypeOK, Time, Never
<1>5. SignInsHaveTimes'
  BY <1>1, <1>2, <1>3, <1>4, SsoAssumption DEF LogoutInv, SignInsHaveTimes, Sso, Rows, TicketRow, Asked, Time
<1>6. EndedAtTheProvider'
  <2>1. \A sid \in Sids : told[sid] # Never => told[sid] <= now'
    BY <1>1 DEF LogoutInv, EndedAtTheProvider, SsoTypeOK, Time, Never
  <2> QED BY <1>1, <1>2, <1>3, <2>1 DEF LogoutInv, EndedAtTheProvider, Ended
<1>7. StopsSayWhatTheyAreOf'
  <2>1. \A s \in stops : s.at \in Nat /\ s.at <= now'
    BY <1>1, <1>4 DEF LogoutInv, StopsSayWhatTheyAreOf, Stop, Time
  <2>2. \A n \in Notices : notice[n] # NoNotice /\ notice[n].arrived # Never => notice[n].arrived \in Nat
    BY DEF SsoTypeOK, Notice, Time
  <2> QED BY <1>1, <2>1, <2>2, SsoAssumption DEF LogoutInv, StopsSayWhatTheyAreOf
<1>8. \A sid, started, until : Stopped(sid, started, until)' <=> Stopped(sid, started, until)
  BY <1>1 DEF Stopped
<1>9. ToldAreStopped'
  <2>1. \A row \in Rows : now' < row.expires => now < row.expires
    BY <1>1 DEF Rows, TicketRow
  <2> QED BY <1>1, <1>2, <1>3, <1>8, <2>1 DEF LogoutInv, ToldAreStopped
<1>10. WorkersStopsAreFinal' /\ AskedAreOlder'
  BY <1>1, <1>2, <1>3 DEF LogoutInv, WorkersStopsAreFinal, AskedAreOlder
<1> QED BY <1>5, <1>6, <1>7, <1>9, <1>10 DEF LogoutInv

\* The provider changes nothing here; what is over there stays over.
LEMMA ProviderKeeps ==
    ASSUME SsoTypeOK, LogoutInv,
           \/ ProviderBlocks
           \/ \E sid \in Sids : ProviderSignIn(sid)
           \/ \E n \in Notices, scope \in Scope : ProviderEnds(n, scope)
    PROVE  LogoutInv'
<1>1. UNCHANGED <<now, tickets, access, stops, lastLogin, work, told, crossed>>
  BY DEF ProviderBlocks, ProviderSignIn, ProviderEnds
<1>2. Calling' = Calling /\ Rows' = Rows /\ Switching' = Switching /\ Asked' = Asked
  BY <1>1 DEF Calling, Rows, Switching, Asked, At, InTable
<1>3. \A n \in Notices : \/ notice'[n] = notice[n]
                         \/ /\ notice[n] = NoNotice /\ session # NoSid /\ notice'[n].arrived = Never
                            /\ notice'[n].ended = {session} /\ notice'[n].scope \in {session, NoSid}
                            /\ session' = NoSid /\ begun' = begun
  BY DEF ProviderBlocks, ProviderSignIn, ProviderEnds, SsoTypeOK
<1>4. session' \in begun' \cup {NoSid} /\ (blocked' => session' = NoSid)
  <2>1. CASE ProviderBlocks
    BY <2>1 DEF ProviderBlocks
  <2>2. CASE \E sid \in Sids : ProviderSignIn(sid)
    BY <2>2 DEF ProviderSignIn
  <2>3. CASE \E n \in Notices, scope \in Scope : ProviderEnds(n, scope)
    BY <2>3 DEF ProviderEnds
  <2> QED BY <2>1, <2>2, <2>3
<1>5. begun \subseteq begun' /\ Ended \subseteq Ended'
  <2>1. CASE ProviderBlocks
    BY <2>1, SsoAssumption DEF ProviderBlocks, Ended, SsoTypeOK
  <2>2. ASSUME NEW sid \in Sids, ProviderSignIn(sid) PROVE begun \subseteq begun' /\ Ended \subseteq Ended'
    <3>1. sid \notin begun
      BY <2>2, SsoAssumption DEF ProviderSignIn
    <3> QED BY <2>2, <3>1 DEF ProviderSignIn, Ended
  <2>3. CASE \E n \in Notices, scope \in Scope : ProviderEnds(n, scope)
    BY <2>3, SsoAssumption DEF ProviderEnds, Ended, SsoTypeOK
  <2> QED BY <2>1, <2>2, <2>3
<1>6. SignInsHaveTimes'
  BY <1>1, <1>2 DEF LogoutInv, SignInsHaveTimes
<1>7. EndedAtTheProvider'
  <2>1. \A n \in Notices : notice'[n] # NoNotice =>
         notice'[n].ended \subseteq Ended' /\ \A sid \in notice'[n].ended : notice'[n].scope \in {sid, NoSid}
    <3> SUFFICES ASSUME NEW n \in Notices, notice'[n] # NoNotice
                 PROVE  notice'[n].ended \subseteq Ended' /\ \A sid \in notice'[n].ended : notice'[n].scope \in {sid, NoSid}
      OBVIOUS
    <3>1. CASE notice'[n] = notice[n]
      BY <3>1, <1>5 DEF LogoutInv, EndedAtTheProvider
    <3>2. CASE notice'[n] # notice[n]
      <4>1. session \in begun /\ session # session' /\ begun' = begun
        BY <3>2, <1>3 DEF LogoutInv, EndedAtTheProvider
      <4>2. session \in Ended'
        BY <4>1 DEF Ended
      <4> QED BY <3>2, <1>3, <4>2
    <3> QED BY <3>1, <3>2
  <2> QED BY <1>1, <1>2, <1>4, <1>5, <2>1 DEF LogoutInv, EndedAtTheProvider
<1>8. StopsSayWhatTheyAreOf'
  <2>1. \A s \in stops : s.jti \in Notices => notice'[s.jti] = notice[s.jti]
    BY <1>3 DEF LogoutInv, StopsSayWhatTheyAreOf
  <2>2. \A n \in Notices : notice'[n].arrived # Never => notice'[n] = notice[n]
    BY <1>3
  <2> QED BY <1>1, <2>1, <2>2 DEF LogoutInv, StopsSayWhatTheyAreOf
<1>9. \A sid, started, until : Stopped(sid, started, until)' <=> Stopped(sid, started, until)
  BY <1>1 DEF Stopped
<1>10. ToldAreStopped'
  BY <1>1, <1>2, <1>9 DEF LogoutInv, ToldAreStopped
<1>11. WorkersStopsAreFinal' /\ AskedAreOlder'
  BY <1>1, <1>2 DEF LogoutInv, WorkersStopsAreFinal, AskedAreOlder
<1> QED BY <1>6, <1>7, <1>8, <1>10, <1>11 DEF LogoutInv

LEMMA CodeKeeps ==
    ASSUME SsoTypeOK, LogoutInv, NEW r \in Requests, ExchangeCode(r)
    PROVE  LogoutInv'
<1>1. PICK x : x = [kind |-> "callback", sid |-> session]
  OBVIOUS
<1>2. session \in begun /\ session \in Sids
  BY DEF ExchangeCode, LogoutInv, EndedAtTheProvider, SsoTypeOK
<1>3. x \in Work /\ x.kind = "callback" /\ x.sid = session /\ work' = [work EXCEPT ![r] = x]
  BY <1>1, <1>2 DEF ExchangeCode, Work
<1>4. UNCHANGED <<now, blocked, session, begun, notice, tickets, access, stops, lastLogin, told, crossed>>
  BY DEF ExchangeCode, provider
<1>5. Calling' \subseteq Calling \cup {session} /\ Switching' \subseteq Switching /\ Asked' \subseteq Asked
  BY <1>3, WorkSets
<1>6. Rows' \subseteq Rows
  BY <1>3, <1>4, NoMoreRows DEF InTable
<1>7. SignInsHaveTimes' /\ StopsSayWhatTheyAreOf'
  BY <1>4, <1>5, <1>6 DEF LogoutInv, SignInsHaveTimes, StopsSayWhatTheyAreOf
<1>8. EndedAtTheProvider'
  BY <1>2, <1>4, <1>5, <1>6 DEF LogoutInv, EndedAtTheProvider, Ended
<1>9. \A sid, started, until : Stopped(sid, started, until)' <=> Stopped(sid, started, until)
  BY <1>4 DEF Stopped
<1>10. \A sid \in Sids : told[sid] # Never => sid # session
  BY DEF LogoutInv, EndedAtTheProvider, Ended
<1>11. ToldAreStopped'
  BY <1>4, <1>5, <1>6, <1>9, <1>10 DEF LogoutInv, ToldAreStopped
<1>12. WorkersStopsAreFinal'
  BY <1>4, <1>5, <1>6 DEF LogoutInv, WorkersStopsAreFinal
<1>13. \A p \in Asked : session \notin p.ended
  BY DEF LogoutInv, EndedAtTheProvider, Ended
<1>14. AskedAreOlder'
  BY <1>4, <1>5, <1>6, <1>13 DEF LogoutInv, AskedAreOlder
<1> QED BY <1>7, <1>8, <1>11, <1>12, <1>14 DEF LogoutInv

\* A token is issued: of a sign-in that is there, or that starts now.
LEMMA IssueKeeps ==
    ASSUME SsoTypeOK, LogoutInv, NEW sid \in Sids, NEW started \in Time,
           UNCHANGED <<now, blocked, session, begun, notice, stops, told, crossed>>,
           access' = Issued(sid, started), lastLogin' \in {lastLogin, now}, lastLogin' \in Time,
           Calling' \subseteq Calling, Rows' \subseteq Rows, Switching' \subseteq Switching, Asked' \subseteq Asked,
           sid \in begun, started <= lastLogin',
           sid \notin crossed /\ told[sid] # Never =>
               now <= told[sid] + TicketTtl /\ Stopped(sid, started, now + AccessTtl),
           \A s \in stops : s.jti \in Time /\ sid \notin crossed /\ started <= s.at => now <= s.at + TicketTtl,
           \A p \in Asked : sid \in p.ended /\ sid \notin crossed => started <= p.login
    PROVE  LogoutInv'
<1>1. PICK n : n = [sid |-> sid, started |-> started, until |-> now + AccessTtl]
  OBVIOUS
<1>2. n \in Sso /\ n.sid = sid /\ n.started = started /\ n.until = now + AccessTtl /\ now < n.until
  BY <1>1, SsoAssumption DEF Sso, SsoTypeOK, Time
<1>3. access' \subseteq access \cup {n}
  BY <1>1 DEF Issued
<1>4. now \in Nat /\ access \subseteq Sso /\ stops \subseteq Stop /\ lastLogin \in Int /\ lastLogin' \in Nat /\ lastLogin <= lastLogin' /\ lastLogin' <= now
  BY DEF SsoTypeOK, Time, Never, LogoutInv, SignInsHaveTimes
<1>5. SignInsHaveTimes'
  <2>1. \A t \in access' : t.started <= lastLogin' /\ now < t.until /\ t.until <= now + AccessTtl
    BY <1>2, <1>3, <1>4, SsoAssumption DEF LogoutInv, SignInsHaveTimes, Sso, Time
  <2>2. \A row \in Rows : row.started <= lastLogin' /\ row.expires <= now + TicketTtl
    BY <1>4 DEF LogoutInv, SignInsHaveTimes, Rows, TicketRow, Time
  <2>3. \A t \in Switching : t.started <= lastLogin'
    BY <1>4 DEF LogoutInv, SignInsHaveTimes, Switching, Sso, Time
  <2> QED BY <1>4, <2>1, <2>2, <2>3 DEF LogoutInv, SignInsHaveTimes
<1>6. EndedAtTheProvider'
  BY <1>2, <1>3 DEF LogoutInv, EndedAtTheProvider, Ended
<1>7. StopsSayWhatTheyAreOf'
  BY DEF LogoutInv, StopsSayWhatTheyAreOf
<1>8. \A c, b, u : Stopped(c, b, u)' <=> Stopped(c, b, u)
  BY DEF Stopped
<1>9. ToldAreStopped'
  <2>1. \A c \in Sids \ crossed : told[c] # Never => \A t \in access' : t.sid = c =>
             t.until <= told[c] + TicketTtl + AccessTtl /\ Stopped(c, t.started, t.until)
    <3> SUFFICES ASSUME NEW c \in Sids \ crossed, told[c] # Never, NEW t \in access', t.sid = c
                 PROVE  t.until <= told[c] + TicketTtl + AccessTtl /\ Stopped(c, t.started, t.until)
      OBVIOUS
    <3>1. CASE t \in access
      BY <3>1 DEF LogoutInv, ToldAreStopped
    <3>2. CASE t = n
      <4>1. c = sid /\ told[c] \in Nat
        BY <3>2, <1>2 DEF SsoTypeOK, Time
      <4> QED BY <3>2, <4>1, <1>2, <1>4, SsoAssumption
    <3> QED BY <3>1, <3>2, <1>3
  <2> QED BY <1>8, <2>1 DEF LogoutInv, ToldAreStopped
<1>10. WorkersStopsAreFinal'
  <2>1. \A s \in stops : s.jti \in Time => \A c \in Sids \ crossed : \A t \in access' :
           t.sid = c /\ t.started <= s.at => t.until <= s.at + TicketTtl + AccessTtl
    <3> SUFFICES ASSUME NEW s \in stops, s.jti \in Time, NEW c \in Sids \ crossed, NEW t \in access',
                        t.sid = c, t.started <= s.at
                 PROVE  t.until <= s.at + TicketTtl + AccessTtl
      OBVIOUS
    <3>1. CASE t \in access
      BY <3>1 DEF LogoutInv, WorkersStopsAreFinal
    <3>2. CASE t = n
      <4>1. now <= s.at + TicketTtl
        BY <3>2, <1>2
      <4>2. s.at \in Nat
        BY <1>4 DEF Stop, Time
      <4> QED BY <3>2, <4>1, <4>2, <1>2, <1>4, SsoAssumption
    <3> QED BY <3>1, <3>2, <1>3
  <2> QED BY <2>1 DEF LogoutInv, WorkersStopsAreFinal
<1>11. AskedAreOlder'
  BY <1>2, <1>3 DEF LogoutInv, AskedAreOlder
<1> QED BY <1>5, <1>6, <1>7, <1>9, <1>10, <1>11 DEF LogoutInv

LEMMA RenewalKeeps ==
    ASSUME SsoTypeOK, LogoutInv, NEW r \in Requests, CompleteRenewal(r)
    PROVE  LogoutInv'
<1>1. PICK sid \in Sids : sid = work[r].sid
  BY WorkOf DEF CompleteRenewal
<1>2. sid \in Calling
  BY <1>1 DEF CompleteRenewal, Calling
<1>3. Calling' \subseteq Calling /\ Switching' \subseteq Switching /\ Asked' \subseteq Asked
  BY WorkEnds DEF CompleteRenewal
<1>4. \A k \in Tickets : InTable(k)' => InTable(k) /\ tickets'[k] = tickets[k]
  BY DEF CompleteRenewal, SweptTickets, InTable
<1>5. Rows' \subseteq Rows
  BY <1>4, NoMoreRows DEF CompleteRenewal
<1>6. /\ UNCHANGED <<now, blocked, session, begun, notice, stops, told, crossed>>
      /\ access' = Issued(sid, now) /\ lastLogin' = now /\ now \in Time
  BY <1>1 DEF CompleteRenewal, provider, SsoTypeOK
<1>7. sid \notin crossed => told[sid] = Never
  BY <1>2 DEF LogoutInv, ToldAreStopped
<1>8. \A s \in stops : now <= s.at => now <= s.at + TicketTtl
  BY <1>6, SsoAssumption DEF SsoTypeOK, Stop, Time
<1>9. \A p \in Asked : ~(sid \in p.ended /\ sid \notin crossed)
  BY <1>2 DEF LogoutInv, AskedAreOlder, Asked
<1>10. sid \in begun /\ now <= now
  BY <1>2, <1>6 DEF LogoutInv, EndedAtTheProvider, Time
<1> QED BY <1>3, <1>5, <1>6, <1>7, <1>8, <1>9, <1>10, IssueKeeps

LEMMA TicketKeeps ==
    ASSUME SsoTypeOK, LogoutInv, NEW r \in Requests, ExchangeTicket(r)
    PROVE  LogoutInv'
<1>1. Calling' \subseteq Calling /\ Switching' \subseteq Switching /\ Asked' \subseteq Asked
  BY WorkEnds DEF ExchangeTicket
<1>2. \A k \in Tickets : InTable(k)' => InTable(k) /\ tickets'[k] = tickets[k]
  BY DEF ExchangeTicket, InTable, SsoTypeOK
<1>3. Rows' \subseteq Rows
  BY <1>2, NoMoreRows DEF ExchangeTicket
<1>4. UNCHANGED <<now, blocked, session, begun, notice, stops, told, crossed, lastLogin>>
  BY DEF ExchangeTicket, provider
<1>5. CASE ~Redeems(work[r])
  BY <1>1, <1>3, <1>4, <1>5, NothingNew DEF ExchangeTicket
<1>6. CASE Redeems(work[r])
  <2>1. PICK row \in TicketRow : row = work[r].row
    BY WorkOf DEF ExchangeTicket
  <2>2. row \in Rows
    BY <2>1 DEF ExchangeTicket, Rows
  <2>3. access' = Issued(row.sid, row.started) /\ now < row.expires
    BY <1>6, <2>1 DEF ExchangeTicket, Redeems
  <2>4. row.sid \in Sids /\ row.started \in Time /\ row.expires \in Nat /\ now \in Time
    BY <2>1 DEF TicketRow, SsoTypeOK
  <2>5. row.started <= lastLogin /\ row.sid \in begun
    BY <2>2 DEF LogoutInv, SignInsHaveTimes, EndedAtTheProvider
  <2>6. lastLogin \in Time
    BY <2>4, <2>5 DEF SsoTypeOK, Time, Never
  <2>7. row.sid \notin crossed /\ told[row.sid] # Never =>
          now <= told[row.sid] + TicketTtl /\ Stopped(row.sid, row.started, now + AccessTtl)
    <3> SUFFICES ASSUME row.sid \notin crossed, told[row.sid] # Never
                 PROVE  now <= told[row.sid] + TicketTtl /\ Stopped(row.sid, row.started, now + AccessTtl)
      OBVIOUS
    <3>1. row.expires <= told[row.sid] + TicketTtl /\ Stopped(row.sid, row.started, row.expires + AccessTtl)
      BY <2>2, <2>3, <2>4 DEF LogoutInv, ToldAreStopped
    <3>2. told[row.sid] \in Nat
      BY <2>4 DEF SsoTypeOK, Time
    <3>3. now <= told[row.sid] + TicketTtl
      BY <3>1, <3>2, <2>3, <2>4, SsoAssumption DEF Time
    <3>4. \A s \in stops : s.until >= row.expires + AccessTtl => s.until >= now + AccessTtl
      BY <2>3, <2>4, SsoAssumption DEF SsoTypeOK, Stop, Time
    <3> QED BY <3>1, <3>3, <3>4 DEF Stopped
  <2>8. \A s \in stops : s.jti \in Time /\ row.sid \notin crossed /\ row.started <= s.at => now <= s.at + TicketTtl
    <3>1. \A s \in stops : s.jti \in Time /\ row.sid \notin crossed /\ row.started <= s.at => row.expires <= s.at + TicketTtl
      BY <2>2, <2>4 DEF LogoutInv, WorkersStopsAreFinal
    <3>2. \A s \in stops : row.expires <= s.at + TicketTtl => now <= s.at + TicketTtl
      BY <2>3, <2>4, SsoAssumption DEF SsoTypeOK, Stop, Time
    <3> QED BY <3>1, <3>2
  <2>9. \A p \in Asked : row.sid \in p.ended /\ row.sid \notin crossed => row.started <= p.login
    BY <2>2 DEF LogoutInv, AskedAreOlder
  <2> QED BY <1>1, <1>3, <1>4, <2>3, <2>4, <2>5, <2>6, <2>7, <2>8, <2>9, IssueKeeps
<1> QED BY <1>5, <1>6

LEMMA SwitchKeeps ==
    ASSUME SsoTypeOK, LogoutInv, NEW r \in Requests, SwitchWrites(r)
    PROVE  LogoutInv'
<1>1. Calling' \subseteq Calling /\ Switching' \subseteq Switching /\ Asked' \subseteq Asked
  BY WorkEnds DEF SwitchWrites
<1>2. Rows' \subseteq Rows
  BY NoMoreRows DEF SwitchWrites, InTable
<1>3. PICK t \in Sso : t = work[r].token
  BY WorkOf DEF SwitchWrites
<1>4. t \in Switching
  BY <1>3 DEF SwitchWrites, Switching
<1>5. /\ UNCHANGED <<now, blocked, session, begun, notice, stops, told, crossed, lastLogin>>
      /\ access' = Issued(t.sid, t.started)
  BY <1>3 DEF SwitchWrites, provider
<1>6. t.sid \in Sids /\ t.started \in Time /\ t.started <= lastLogin /\ t.sid \in begun
  BY <1>4 DEF Sso, LogoutInv, SignInsHaveTimes, EndedAtTheProvider
<1>7. lastLogin \in Time
  BY <1>6 DEF SsoTypeOK, Time, Never
<1>8. t.sid \notin crossed => told[t.sid] = Never
  BY <1>4, <1>6 DEF LogoutInv, ToldAreStopped
<1>9. \A s \in stops : s.jti \in Time /\ t.sid \notin crossed => s.at < t.started
  BY <1>4, <1>6 DEF LogoutInv, WorkersStopsAreFinal
<1>10. \A s \in stops : ~(s.at < t.started /\ t.started <= s.at)
  BY <1>6 DEF SsoTypeOK, Stop, Time
<1>11. \A p \in Asked : t.sid \in p.ended /\ t.sid \notin crossed => t.started <= p.login
  BY <1>4 DEF LogoutInv, AskedAreOlder
<1> QED BY <1>1, <1>2, <1>5, <1>6, <1>7, <1>8, <1>9, <1>10, <1>11, IssueKeeps

LEMMA LoginKeeps ==
    ASSUME SsoTypeOK, LogoutInv, NEW r \in Requests, NEW k \in Tickets, CompleteLogin(r, k)
    PROVE  LogoutInv'
<1>1. PICK sid \in Sids : sid = work[r].sid
  BY WorkOf DEF CompleteLogin
<1>2. sid \in Calling
  BY <1>1 DEF CompleteLogin, Calling
<1>3. Calling' \subseteq Calling /\ Switching' \subseteq Switching /\ Asked' \subseteq Asked
  BY WorkEnds DEF CompleteLogin
<1>4. PICK n : n = [sid |-> sid, started |-> now, expires |-> now + TicketTtl]
  OBVIOUS
<1>5. n.sid = sid /\ n.started = now /\ n.expires = now + TicketTtl
  BY <1>4
<1>6. \A j \in Tickets : InTable(j)' => (InTable(j) /\ tickets'[j] = tickets[j]) \/ tickets'[j] = n
  BY <1>1, <1>4 DEF CompleteLogin, SweptTickets, InTable
<1>7. \A row \in Rows' : row \in Rows \/ row = n
  <2>1. work' = [work EXCEPT ![r] = NoWork]
    BY DEF CompleteLogin
  <2> QED BY <1>6, <2>1, RowSets
<1>8. UNCHANGED <<now, blocked, session, begun, notice, access, stops, told, crossed>> /\ lastLogin' = now
  BY DEF CompleteLogin, provider
<1>9. now \in Nat /\ access \subseteq Sso /\ stops \subseteq Stop /\ lastLogin \in Int /\ lastLogin <= now
  BY DEF SsoTypeOK, Time, Never, LogoutInv, SignInsHaveTimes
<1>10. sid \in begun
  BY <1>2 DEF LogoutInv, EndedAtTheProvider
<1>11. SignInsHaveTimes'
  <2>1. \A t \in access : t.started <= lastLogin' /\ now < t.until /\ t.until <= now + AccessTtl
    BY <1>8, <1>9 DEF LogoutInv, SignInsHaveTimes, Sso, Time
  <2>2. \A row \in Rows : row.started <= lastLogin' /\ row.expires <= now + TicketTtl
    BY <1>8, <1>9 DEF LogoutInv, SignInsHaveTimes, Rows, TicketRow, Time
  <2>3. \A t \in Switching : t.started <= lastLogin'
    BY <1>8, <1>9 DEF LogoutInv, SignInsHaveTimes, Switching, Sso, Time
  <2>4. n.started <= lastLogin' /\ n.expires <= now + TicketTtl
    BY <1>5, <1>8, <1>9, SsoAssumption
  <2> QED BY <1>3, <1>7, <1>8, <1>9, <2>1, <2>2, <2>3, <2>4 DEF LogoutInv, SignInsHaveTimes
<1>12. EndedAtTheProvider'
  BY <1>3, <1>5, <1>7, <1>8, <1>10 DEF LogoutInv, EndedAtTheProvider, Ended
<1>13. StopsSayWhatTheyAreOf'
  BY <1>8 DEF LogoutInv, StopsSayWhatTheyAreOf
<1>14. \A c, b, u : Stopped(c, b, u)' <=> Stopped(c, b, u)
  BY <1>8 DEF Stopped
<1>15. ToldAreStopped'
  <2>1. sid \notin crossed => told[sid] = Never
    BY <1>2 DEF LogoutInv, ToldAreStopped
  <2> QED BY <1>3, <1>5, <1>7, <1>8, <1>14, <2>1 DEF LogoutInv, ToldAreStopped
<1>16. WorkersStopsAreFinal'
  <2>1. \A s \in stops : now <= s.at => now + TicketTtl <= s.at + TicketTtl
    BY <1>9, SsoAssumption DEF Stop, Time
  <2> QED BY <1>3, <1>5, <1>7, <1>8, <2>1 DEF LogoutInv, WorkersStopsAreFinal
<1>17. AskedAreOlder'
  <2>1. \A p \in Asked : \A c \in p.ended \ crossed : c # sid
    BY <1>2 DEF LogoutInv, AskedAreOlder
  <2> QED BY <1>3, <1>5, <1>7, <1>8, <2>1 DEF LogoutInv, AskedAreOlder
<1> QED BY <1>11, <1>12, <1>13, <1>15, <1>16, <1>17 DEF LogoutInv

LEMMA PresentKeeps ==
    ASSUME SsoTypeOK, LogoutInv, NEW r \in Requests, NEW k \in Tickets, PresentTicket(r, k)
    PROVE  LogoutInv'
<1>1. PICK x : x = [kind |-> "redeem", ticket |-> k, row |-> tickets[k]]
  OBVIOUS
<1>2. tickets[k] \in TicketRow
  BY DEF PresentTicket, InTable, SsoTypeOK
<1>3. x \in Work /\ x.kind = "redeem" /\ x.row = tickets[k] /\ work' = [work EXCEPT ![r] = x]
  BY <1>1, <1>2 DEF PresentTicket, Work
<1>4. Calling' \subseteq Calling /\ Switching' \subseteq Switching /\ Asked' \subseteq Asked
  BY <1>3, WorkSets
<1>5. tickets[k] \in Rows
  BY <1>2 DEF Rows, PresentTicket
<1>7. Rows' \subseteq Rows
  <2>1. \A j \in Tickets : InTable(j)' => (InTable(j) /\ tickets'[j] = tickets[j]) \/ tickets'[j] = tickets[k]
    BY DEF PresentTicket, InTable
  <2>2. \A row \in Rows' : row \in Rows \/ row = tickets[k] \/ row = x.row
    BY <1>3, <2>1, RowSets
  <2> QED BY <1>3, <1>5, <2>2
<1> QED BY <1>4, <1>7, NothingNew DEF PresentTicket, provider

LEMMA CheckKeeps ==
    ASSUME SsoTypeOK, LogoutInv, NEW r \in Requests, NEW t \in access, SwitchChecked(r, t)
    PROVE  LogoutInv'
<1>1. PICK x : x = [kind |-> "switch", token |-> t]
  OBVIOUS
<1>2. t \in Sso
  BY DEF SsoTypeOK
<1>3. x \in Work /\ x.kind = "switch" /\ x.token = t /\ work' = [work EXCEPT ![r] = x]
  BY <1>1, <1>2 DEF SwitchChecked, Work
<1>4. Calling' \subseteq Calling /\ Switching' \subseteq Switching \cup {t} /\ Asked' \subseteq Asked
  BY <1>3, WorkSets
<1>5. UNCHANGED <<now, blocked, session, begun, notice, tickets, access, stops, told, crossed, lastLogin>>
  BY DEF SwitchChecked, provider
<1>6. Rows' \subseteq Rows
  BY <1>3, <1>5, NoMoreRows DEF InTable
<1>7. \A s \in stops : s.scope \in {t.sid, NoSid} => s.at < t.started
  <2>1. \A s \in stops : s.scope \in {t.sid, NoSid} => ~(s.at >= t.started)
    BY DEF SwitchChecked, Revoked
  <2> QED BY <1>2, <2>1 DEF SsoTypeOK, Stop, Sso, Time
<1>8. SignInsHaveTimes'
  BY <1>4, <1>5, <1>6 DEF LogoutInv, SignInsHaveTimes
<1>9. EndedAtTheProvider'
  BY <1>4, <1>5, <1>6 DEF LogoutInv, EndedAtTheProvider, Ended
<1>10. StopsSayWhatTheyAreOf'
  BY <1>5 DEF LogoutInv, StopsSayWhatTheyAreOf
<1>11. \A c, b, u : Stopped(c, b, u)' <=> Stopped(c, b, u)
  BY <1>5 DEF Stopped
<1>12. ToldAreStopped'
  <2>1. t.sid \notin crossed => told[t.sid] = Never
    <3> SUFFICES ASSUME t.sid \notin crossed, told[t.sid] # Never PROVE FALSE
      OBVIOUS
    <3>1. Stopped(t.sid, t.started, t.until)
      BY <1>2 DEF LogoutInv, ToldAreStopped, Sso
    <3>2. PICK s \in stops : s.scope \in {t.sid, NoSid} /\ s.at >= t.started
      BY <3>1 DEF Stopped
    <3> QED BY <3>2 DEF SwitchChecked, Revoked
  <2> QED BY <1>4, <1>5, <1>6, <1>11, <2>1 DEF LogoutInv, ToldAreStopped
<1>13. WorkersStopsAreFinal'
  <2>1. \A s \in stops : s.jti \in Time => s.at < t.started
    BY <1>7 DEF LogoutInv, StopsSayWhatTheyAreOf
  <2> QED BY <1>4, <1>5, <1>6, <2>1 DEF LogoutInv, WorkersStopsAreFinal
<1>14. AskedAreOlder'
  BY <1>4, <1>5, <1>6 DEF LogoutInv, AskedAreOlder
<1> QED BY <1>8, <1>9, <1>10, <1>12, <1>13, <1>14 DEF LogoutInv

LEMMA InFlightIs ==
    ASSUME SsoTypeOK, NEW sid \in Sids
    PROVE  InFlight(sid) <=> sid \in Calling \/ \E t \in Switching : t.sid = sid
<1>1. ASSUME sid \in Calling PROVE InFlight(sid)
  BY <1>1 DEF Calling, InFlight
<1>2. ASSUME NEW t \in Switching, t.sid = sid PROVE InFlight(sid)
  BY <1>2 DEF Switching, InFlight
<1>3. ASSUME NEW r \in Requests, At(r, "callback"), work[r].sid = sid PROVE sid \in Calling
  BY <1>3 DEF Calling
<1>4. ASSUME NEW r \in Requests, At(r, "switch"), work[r].token.sid = sid PROVE \E t \in Switching : t.sid = sid
  BY <1>4, WorkOf DEF Switching
<1> QED BY <1>1, <1>2, <1>3, <1>4 DEF InFlight

LEMMA AskKeeps ==
    ASSUME SsoTypeOK, LogoutInv, NEW r \in Requests, ReconcileAsks(r)
    PROVE  LogoutInv'
<1>1. PICK x : x = [kind |-> "pass", login |-> lastLogin, blocked |-> blocked, ended |-> IF blocked THEN begun ELSE {}]
  OBVIOUS
<1>2. x.kind = "pass" /\ x.login = lastLogin /\ x.blocked = blocked /\ (blocked => x.ended = begun)
  BY <1>1
<1>3. x \in Work
  <2>1. lastLogin \in Time /\ blocked \in BOOLEAN /\ (IF blocked THEN begun ELSE {}) \in SUBSET Sids
    BY DEF ReconcileAsks, SsoTypeOK
  <2> QED BY <1>1, <2>1 DEF Work
<1>4. work' = [work EXCEPT ![r] = x]
  BY <1>1 DEF ReconcileAsks
<1>5. Calling' \subseteq Calling /\ Switching' \subseteq Switching
  BY <1>2, <1>3, <1>4, WorkSets
<1>6. \A p \in Asked' : p \in Asked \/ (blocked /\ p.login = lastLogin /\ p.ended = begun)
  BY <1>2, <1>3, <1>4, WorkSets
<1>7. UNCHANGED <<now, blocked, session, begun, notice, tickets, access, stops, lastLogin, told>>
  BY DEF ReconcileAsks, provider
<1>8. Rows' \subseteq Rows
  BY <1>2, <1>3, <1>4, <1>7, NoMoreRows DEF InTable
<1>9. crossed \subseteq crossed' /\ (blocked => \A sid \in begun \ crossed' : ~InFlight(sid))
  BY DEF ReconcileAsks, Crosses
<1>10. CASE ~blocked
  <2>1. Asked' \subseteq Asked
    BY <1>6, <1>10
  <2> QED BY <1>5, <1>7, <1>8, <1>9, <2>1, NothingNew
<1>11. CASE blocked
  <2>1. begun \subseteq Ended
    BY <1>11, SsoAssumption DEF LogoutInv, EndedAtTheProvider, Ended, SsoTypeOK
  <2>2. SignInsHaveTimes'
    BY <1>5, <1>6, <1>7, <1>8 DEF LogoutInv, SignInsHaveTimes
  <2>3. EndedAtTheProvider'
    <3>1. \A p \in Asked' : p.ended \subseteq Ended
      BY <1>6, <2>1 DEF LogoutInv, EndedAtTheProvider
    <3> QED BY <1>5, <1>7, <1>8, <3>1 DEF LogoutInv, EndedAtTheProvider, Ended
  <2>4. StopsSayWhatTheyAreOf'
    BY <1>7 DEF LogoutInv, StopsSayWhatTheyAreOf
  <2>5. \A c, b, u : Stopped(c, b, u)' <=> Stopped(c, b, u)
    BY <1>7 DEF Stopped
  <2>6. ToldAreStopped'
    BY <1>5, <1>7, <1>8, <1>9, <2>5 DEF LogoutInv, ToldAreStopped
  <2>7. WorkersStopsAreFinal'
    BY <1>5, <1>7, <1>8, <1>9 DEF LogoutInv, WorkersStopsAreFinal
  <2>8. AskedAreOlder'
    <3>1. \A p \in Asked : \A sid \in p.ended \ crossed' :
            /\ sid \notin Calling'
            /\ \A t \in access' \cup Switching' \cup Rows' : t.sid = sid => t.started <= p.login
      BY <1>5, <1>7, <1>8, <1>9 DEF LogoutInv, AskedAreOlder
    <3>2. \A sid \in begun \ crossed' : sid \notin Calling'
      BY <1>5, <1>9, <1>11, InFlightIs DEF SsoTypeOK
    <3>3. \A t \in access' \cup Switching' \cup Rows' : t.started <= lastLogin
      BY <1>5, <1>7, <1>8 DEF LogoutInv, SignInsHaveTimes
    <3> QED BY <1>6, <3>1, <3>2, <3>3 DEF AskedAreOlder
  <2> QED BY <2>2, <2>3, <2>4, <2>6, <2>7, <2>8 DEF LogoutInv
<1> QED BY <1>10, <1>11

LEMMA RecordedIs ==
    ASSUME SsoTypeOK, NEW jti, NEW scope
    PROVE  /\ KeptStops \subseteq Recorded(jti, scope)
           /\ \A s \in Recorded(jti, scope) : s \in KeptStops \/ (/\ s.jti = jti /\ s.scope = scope /\ s.at = now
                                                                  /\ s.until = now + Keep)
           /\ \E s \in Recorded(jti, scope) : s.jti = jti
           /\ \A s \in KeptStops : s.jti = jti => Recorded(jti, scope) = KeptStops
           /\ \/ \E s \in KeptStops : s.jti = jti
              \/ \E s \in Recorded(jti, scope) : s.jti = jti /\ s.scope = scope /\ s.at = now /\ s.until = now + Keep
<1>1. PICK n : n = [jti |-> jti, scope |-> scope, at |-> now, until |-> now + Keep]
  OBVIOUS
<1>2. n.jti = jti /\ n.scope = scope /\ n.at = now /\ n.until = now + Keep
  BY <1>1
<1>3. CASE \E s \in KeptStops : s.jti = jti
  BY <1>3 DEF Recorded
<1>4. CASE ~\E s \in KeptStops : s.jti = jti
  <2>1. Recorded(jti, scope) = KeptStops \cup {n}
    BY <1>1, <1>4 DEF Recorded
  <2> QED BY <1>2, <1>4, <2>1
<1> QED BY <1>3, <1>4

\* What is stopped until a time to come is stopped after a record and its sweep.
LEMMA StoppedStays ==
    ASSUME SsoTypeOK, NEW jti, NEW scope, stops' = Recorded(jti, scope), now' = now,
           NEW sid, NEW started, NEW until \in Int, until >= now, Stopped(sid, started, until)
    PROVE  Stopped(sid, started, until)'
<1>1. PICK s \in stops : s.scope \in {sid, NoSid} /\ s.at >= started /\ s.until >= until
  BY DEF Stopped
<1>2. s.until \in Nat /\ now \in Nat
  BY DEF SsoTypeOK, Stop, Time
<1>3. s \in KeptStops
  BY <1>1, <1>2 DEF KeptStops
<1> QED BY <1>1, <1>3, RecordedIs DEF Stopped

\* A stop is recorded and the service knows that sessions are over: nothing of them
\* is under way, and what they left is stopped.
LEMMA TellKeeps ==
    ASSUME SsoTypeOK, LogoutInv, NEW jti \in Notices \cup Time, NEW scope \in Scope, NEW ended \in SUBSET Ended,
           UNCHANGED <<now, blocked, session, begun, access, lastLogin>>,
           Calling' \subseteq Calling, Rows' \subseteq Rows, Switching' \subseteq Switching, Asked' \subseteq Asked,
           stops' = Recorded(jti, scope), ToldOf(ended), crossed \subseteq crossed',
           \A n \in Notices : notice'[n] # NoNotice =>
               notice[n] # NoNotice /\ notice'[n].ended = notice[n].ended /\ notice'[n].scope = notice[n].scope,
           StopsSayWhatTheyAreOf',
           \A sid \in ended \ crossed' : told[sid] = Never =>
               /\ ~InFlight(sid)
               /\ \A t \in access : t.sid = sid => Stopped(sid, t.started, t.until)'
               /\ \A row \in Rows : row.sid = sid => Stopped(sid, row.started, row.expires + AccessTtl)',
           jti \in Time => \A sid \in Sids \ crossed' : ~InFlight(sid)
    PROVE  LogoutInv'
<1>1. /\ now \in Nat /\ access \subseteq Sso /\ stops \subseteq Stop /\ begun \subseteq Sids
      /\ told \in [Sids -> Time \cup {Never}] /\ Ended \subseteq Sids
  BY DEF SsoTypeOK, Time, Ended
<1>2. \A sid \in Sids : told'[sid] = IF sid \in ended /\ told[sid] = Never THEN now ELSE told[sid]
  BY DEF ToldOf
<1>3. SignInsHaveTimes'
  BY DEF LogoutInv, SignInsHaveTimes
<1>4. EndedAtTheProvider'
  <2>1. \A sid \in Sids : told'[sid] # Never => sid \in Ended /\ told'[sid] <= now
    BY <1>1, <1>2 DEF LogoutInv, EndedAtTheProvider
  <2> QED BY <2>1 DEF LogoutInv, EndedAtTheProvider, Ended
<1>5. \A t \in access : t.until \in Nat /\ t.until >= now /\ t.until <= now + AccessTtl
  BY <1>1 DEF LogoutInv, SignInsHaveTimes, Sso
<1>6. \A row \in Rows : row.expires \in Nat /\ row.expires <= now + TicketTtl
  BY DEF LogoutInv, SignInsHaveTimes, Rows, TicketRow
<1>7. ToldAreStopped'
  <2> SUFFICES ASSUME NEW sid \in Sids, sid \notin crossed', told'[sid] # Never
               PROVE  /\ sid \notin Calling
                      /\ \A t \in Switching : t.sid # sid
                      /\ \A t \in access : t.sid = sid =>
                           /\ t.until <= told'[sid] + TicketTtl + AccessTtl
                           /\ Stopped(sid, t.started, t.until)'
                      /\ \A row \in Rows : row.sid = sid /\ now < row.expires =>
                           /\ row.expires <= told'[sid] + TicketTtl
                           /\ Stopped(sid, row.started, row.expires + AccessTtl)'
    BY DEF ToldAreStopped
  <2>1. CASE told[sid] = Never
    <3>1. sid \in ended /\ told'[sid] = now
      BY <2>1, <1>2
    <3>2. sid \notin Calling /\ \A t \in Switching : t.sid # sid
      BY <2>1, <3>1, InFlightIs
    <3>3. \A t \in access : t.until <= told'[sid] + TicketTtl + AccessTtl
      BY <1>1, <1>5, <3>1, SsoAssumption
    <3>4. \A row \in Rows : row.expires <= told'[sid] + TicketTtl
      BY <1>6, <3>1
    <3> QED BY <2>1, <3>1, <3>2, <3>3, <3>4
  <2>2. CASE told[sid] # Never
    <3>1. told'[sid] = told[sid] /\ sid \notin crossed
      BY <2>2, <1>2
    <3>2. /\ sid \notin Calling
          /\ \A t \in Switching : t.sid # sid
          /\ \A t \in access : t.sid = sid =>
               t.until <= told[sid] + TicketTtl + AccessTtl /\ Stopped(sid, t.started, t.until)
          /\ \A row \in Rows : row.sid = sid /\ now < row.expires =>
               row.expires <= told[sid] + TicketTtl /\ Stopped(sid, row.started, row.expires + AccessTtl)
      BY <2>2, <3>1 DEF LogoutInv, ToldAreStopped
    <3>3. \A t \in access : t.sid = sid => Stopped(sid, t.started, t.until)'
      BY <3>2, <1>5, StoppedStays
    <3>4. \A row \in Rows : row.sid = sid /\ now < row.expires => Stopped(sid, row.started, row.expires + AccessTtl)'
      <4> SUFFICES ASSUME NEW row \in Rows, row.sid = sid, now < row.expires
                   PROVE  Stopped(sid, row.started, row.expires + AccessTtl)'
        OBVIOUS
      <4>1. row.expires + AccessTtl \in Int /\ row.expires + AccessTtl >= now
        BY <1>1, <1>6, SsoAssumption
      <4> QED BY <3>2, <4>1, StoppedStays
    <3> QED BY <3>1, <3>2, <3>3, <3>4
  <2> QED BY <2>1, <2>2
<1>8. WorkersStopsAreFinal'
  <2> SUFFICES ASSUME NEW s \in stops', s.jti \in Time, NEW sid \in Sids, sid \notin crossed'
               PROVE  /\ \A t \in access : t.sid = sid /\ t.started <= s.at => t.until <= s.at + TicketTtl + AccessTtl
                      /\ \A row \in Rows : row.sid = sid /\ row.started <= s.at => row.expires <= s.at + TicketTtl
                      /\ \A t \in Switching : t.sid = sid => s.at < t.started
    BY DEF WorkersStopsAreFinal
  <2>1. CASE s \in KeptStops
    <3>1. s \in stops /\ sid \notin crossed
      BY <2>1 DEF KeptStops
    <3> QED BY <3>1 DEF LogoutInv, WorkersStopsAreFinal
  <2>2. CASE s.jti = jti /\ s.at = now
    <3>1. ~InFlight(sid)
      BY <2>2
    <3>2. \A t \in Switching : t.sid # sid
      BY <3>1, InFlightIs
    <3>3. \A t \in access : t.until <= s.at + TicketTtl + AccessTtl
      BY <2>2, <1>1, <1>5, SsoAssumption
    <3>4. \A row \in Rows : row.expires <= s.at + TicketTtl
      BY <2>2, <1>6
    <3> QED BY <3>2, <3>3, <3>4
  <2> QED BY <2>1, <2>2, RecordedIs
<1>9. AskedAreOlder'
  BY DEF LogoutInv, AskedAreOlder
<1> QED BY <1>3, <1>4, <1>7, <1>8, <1>9 DEF LogoutInv

LEMMA StopsOfNotices ==
    ASSUME SsoTypeOK, LogoutInv, NEW n \in Notices, ReceiveNotice(n)
    PROVE  /\ StopsSayWhatTheyAreOf'
           /\ notice[n].arrived = Never =>
                \E s \in stops' : s.scope = notice[n].scope /\ s.at = now /\ s.until = now + Keep
<1>1. notice[n] \in Notice /\ notice[n] # NoNotice /\ stops' = Recorded(n, notice[n].scope) /\ now' = now
  BY DEF ReceiveNotice, SsoTypeOK
<1>2. now \in Nat /\ now \in Time /\ now # Never /\ stops \subseteq Stop /\ n \notin Time
  BY SsoNullsAssumption DEF SsoTypeOK, Time, Never
<1>3. CASE notice[n].arrived = Never
  <2>1. notice' = [notice EXCEPT ![n].arrived = now]
    BY <1>3 DEF ReceiveNotice
  <2>2. [notice[n] EXCEPT !.arrived = now] \in Notice
    BY <1>1, <1>2 DEF Notice
  <2>3. notice'[n].arrived = now /\ notice'[n] # NoNotice /\ \A m \in Notices \ {n} : notice'[m] = notice[m]
    BY <1>1, <2>1, <2>2, SsoNullsAssumption DEF SsoTypeOK, Notice
  <2>4. \A s \in stops : s.jti # n
    BY <1>3, <1>2 DEF LogoutInv, StopsSayWhatTheyAreOf, Stop, Time, Never
  <2>5. PICK x \in stops' : x.jti = n /\ x.scope = notice[n].scope /\ x.at = now /\ x.until = now + Keep
    BY <1>1, <2>4, RecordedIs DEF KeptStops
  <2>6. \A s \in stops' : s \in KeptStops \/ (s.jti = n /\ s.at = now /\ s.until = now + Keep)
    BY <1>1, RecordedIs
  <2>7. \A s \in stops' : /\ s.at <= now /\ s.until = s.at + Keep
                          /\ s.jti \in Time => s.scope = NoSid /\ s.jti <= s.at
                          /\ s.jti \in Notices => notice'[s.jti] # NoNotice /\ s.at = notice'[s.jti].arrived
    <3> SUFFICES ASSUME NEW s \in stops'
                 PROVE  /\ s.at <= now /\ s.until = s.at + Keep
                        /\ s.jti \in Time => s.scope = NoSid /\ s.jti <= s.at
                        /\ s.jti \in Notices => notice'[s.jti] # NoNotice /\ s.at = notice'[s.jti].arrived
      OBVIOUS
    <3>1. CASE s \in KeptStops
      BY <3>1, <2>3, <2>4 DEF KeptStops, LogoutInv, StopsSayWhatTheyAreOf
    <3>2. CASE s.jti = n /\ s.at = now /\ s.until = now + Keep
      BY <3>2, <1>2, <2>3
    <3> QED BY <2>6, <3>1, <3>2
  <2>8. \A m \in Notices : notice'[m] # NoNotice /\ notice'[m].arrived # Never =>
         /\ notice'[m].arrived <= now
         /\ now <= notice'[m].arrived + Keep => \E s \in stops' : s.jti = m
    <3> SUFFICES ASSUME NEW m \in Notices, notice'[m] # NoNotice, notice'[m].arrived # Never
                 PROVE  /\ notice'[m].arrived <= now
                        /\ now <= notice'[m].arrived + Keep => \E s \in stops' : s.jti = m
      OBVIOUS
    <3>1. CASE m = n
      BY <3>1, <1>2, <2>3, <2>5
    <3>2. CASE m # n
      <4>1. notice[m] # NoNotice /\ notice[m].arrived # Never /\ notice'[m] = notice[m]
        BY <3>2, <2>3
      <4>2. now <= notice[m].arrived + Keep => \E s \in KeptStops : s.jti = m
        BY <4>1, <1>2 DEF LogoutInv, StopsSayWhatTheyAreOf, KeptStops
      <4>3. KeptStops \subseteq stops'
        BY <1>1, RecordedIs
      <4> QED BY <4>1, <4>2, <4>3 DEF LogoutInv, StopsSayWhatTheyAreOf
    <3> QED BY <3>1, <3>2
  <2> QED BY <1>1, <2>5, <2>7, <2>8 DEF StopsSayWhatTheyAreOf
<1>4. CASE notice[n].arrived # Never
  <2>1. notice' = notice /\ now <= notice[n].arrived + Keep
    BY <1>4 DEF ReceiveNotice
  <2>2. PICK s \in stops : s.jti = n
    BY <1>1, <1>4, <2>1 DEF LogoutInv, StopsSayWhatTheyAreOf
  <2>3. s \in KeptStops
    BY <2>1, <2>2 DEF LogoutInv, StopsSayWhatTheyAreOf, KeptStops
  <2>4. stops' = KeptStops
    BY <1>1, <2>2, <2>3, RecordedIs
  <2>5. \A m \in Notices : notice[m] # NoNotice /\ notice[m].arrived # Never /\ now <= notice[m].arrived + Keep =>
          \E x \in KeptStops : x.jti = m
    BY <1>2 DEF LogoutInv, StopsSayWhatTheyAreOf, KeptStops
  <2>6. KeptStops \subseteq stops
    BY DEF KeptStops
  <2> QED BY <1>1, <1>4, <2>1, <2>4, <2>5, <2>6 DEF LogoutInv, StopsSayWhatTheyAreOf
<1> QED BY <1>3, <1>4

\* A stop of now covers whatever is in circulation.
LEMMA StoppedNow ==
    ASSUME SsoTypeOK, LogoutInv, now' = now, NEW sid \in Sids, NEW s \in stops', s.scope \in {sid, NoSid},
           s.at = now, s.until = now + Keep
    PROVE  /\ \A t \in access : t.sid = sid => Stopped(sid, t.started, t.until)'
           /\ \A row \in Rows : row.sid = sid => Stopped(sid, row.started, row.expires + AccessTtl)'
<1>1. now \in Nat /\ lastLogin \in Int /\ lastLogin <= now /\ access \subseteq Sso
  BY DEF SsoTypeOK, Time, Never, LogoutInv, SignInsHaveTimes
<1>2. \A t \in access : s.at >= t.started /\ s.until >= t.until
  BY <1>1, SsoAssumption DEF LogoutInv, SignInsHaveTimes, Sso, Time
<1>3. \A row \in Rows : s.at >= row.started /\ s.until >= row.expires + AccessTtl
  BY <1>1, SsoAssumption DEF LogoutInv, SignInsHaveTimes, Rows, TicketRow, Time
<1> QED BY <1>2, <1>3 DEF Stopped

LEMMA NoticeKeeps ==
    ASSUME SsoTypeOK, LogoutInv, NEW n \in Notices, ReceiveNotice(n)
    PROVE  LogoutInv'
<1>1. notice[n] \in Notice /\ notice[n] # NoNotice /\ stops' = Recorded(n, notice[n].scope) /\ notice[n].scope \in Scope
  BY DEF ReceiveNotice, SsoTypeOK, Notice
<1>2. UNCHANGED <<now, blocked, session, begun, tickets, access, lastLogin, work>>
  BY DEF ReceiveNotice, provider
<1>3. Calling' = Calling /\ Rows' = Rows /\ Switching' = Switching /\ Asked' = Asked
  BY <1>2 DEF Calling, Rows, Switching, Asked, At, InTable
<1>4. n \notin Time
  BY SsoNullsAssumption
<1>5. \A m \in Notices : notice'[m] # NoNotice =>
        notice[m] # NoNotice /\ notice'[m].ended = notice[m].ended /\ notice'[m].scope = notice[m].scope
  BY <1>1 DEF ReceiveNotice, SsoTypeOK, Notice
<1>6. notice[n].ended \subseteq Ended /\ \A sid \in notice[n].ended : notice[n].scope \in {sid, NoSid}
  BY <1>1 DEF LogoutInv, EndedAtTheProvider
<1>7. CASE notice[n].arrived = Never
  <2>1. ToldOf(notice[n].ended) /\ crossed \subseteq crossed'
    BY <1>7 DEF ReceiveNotice, Crosses
  <2>2. \A sid \in notice[n].ended \ crossed' : told[sid] = Never => ~InFlight(sid)
    BY <1>7 DEF ReceiveNotice, Crosses
  <2>3. PICK s \in stops' : s.scope = notice[n].scope /\ s.at = now /\ s.until = now + Keep
    BY <1>7, StopsOfNotices
  <2>4. \A sid \in notice[n].ended :
          /\ \A t \in access : t.sid = sid => Stopped(sid, t.started, t.until)'
          /\ \A row \in Rows : row.sid = sid => Stopped(sid, row.started, row.expires + AccessTtl)'
    BY <1>2, <1>6, <2>3, StoppedNow DEF Ended, SsoTypeOK
  <2> QED BY <1>1, <1>2, <1>3, <1>4, <1>5, <1>6, <2>1, <2>2, <2>4, StopsOfNotices, TellKeeps
<1>8. CASE notice[n].arrived # Never
  <2>1. told' = told /\ crossed' = crossed
    BY <1>8 DEF ReceiveNotice
  <2>2. ToldOf({})
    BY <2>1 DEF ToldOf, SsoTypeOK
  <2>3. PICK none \in SUBSET Ended : none = {}
    OBVIOUS
  <2>4. ToldOf(none) /\ \A sid \in none : FALSE
    BY <2>2, <2>3
  <2> QED BY <1>1, <1>2, <1>3, <1>4, <1>5, <2>1, <2>4, StopsOfNotices, TellKeeps
<1> QED BY <1>7, <1>8

LEMMA WriteKeeps ==
    ASSUME SsoTypeOK, LogoutInv, NEW r \in Requests, ReconcileWrites(r)
    PROVE  LogoutInv'
<1>1. Calling' \subseteq Calling /\ Switching' \subseteq Switching /\ Asked' \subseteq Asked
  BY WorkEnds DEF ReconcileWrites
<1>2. Rows' \subseteq Rows
  BY NoMoreRows DEF ReconcileWrites, InTable
<1>3. UNCHANGED <<now, blocked, session, begun, notice, access, lastLogin>>
  BY DEF ReconcileWrites, provider
<1>4. CASE ~work[r].blocked
  BY <1>1, <1>2, <1>3, <1>4, NothingNew DEF ReconcileWrites
<1>5. CASE work[r].blocked
  <2>1. PICK then \in Time : then = work[r].login
    BY WorkOf DEF ReconcileWrites
  <2>2. PICK ended \in SUBSET Sids : ended = work[r].ended
    BY WorkOf DEF ReconcileWrites
  <2>3. PICK p : p = [login |-> then, ended |-> ended]
    OBVIOUS
  <2>4. p \in Asked /\ p.login = then /\ p.ended = ended
    BY <1>5, <2>1, <2>2, <2>3 DEF Asked, ReconcileWrites
  <2>5. stops' = Recorded(then, NoSid) /\ ToldOf(ended) /\ crossed \subseteq crossed'
    BY <1>5, <2>1, <2>2 DEF ReconcileWrites, JtiOf, Crosses
  <2>6. \A sid \in begun \ crossed' : ~InFlight(sid)
    BY <1>5 DEF ReconcileWrites, Crosses
  <2>7. \A sid \in Sids \ crossed' : ~InFlight(sid)
    BY <2>6, InFlightIs DEF LogoutInv, EndedAtTheProvider
  <2>8. ended \in SUBSET Ended /\ then <= now
    BY <2>4 DEF LogoutInv, EndedAtTheProvider, SignInsHaveTimes
  <2>9. now \in Nat /\ stops \subseteq Stop /\ access \subseteq Sso /\ then \notin Notices /\ NoSid \in Scope
    BY SsoNullsAssumption DEF SsoTypeOK, Time, Scope
  <2>10. StopsSayWhatTheyAreOf'
    <3>1. \A s \in stops' : s \in KeptStops \/ (s.jti = then /\ s.scope = NoSid /\ s.at = now /\ s.until = now + Keep)
      BY <2>5, RecordedIs
    <3>2. KeptStops \subseteq stops /\ KeptStops \subseteq stops'
      BY <2>5, RecordedIs DEF KeptStops
    <3>3. \A m \in Notices : notice[m] # NoNotice /\ notice[m].arrived # Never /\ now <= notice[m].arrived + Keep =>
            \E x \in KeptStops : x.jti = m
      BY <2>9 DEF LogoutInv, StopsSayWhatTheyAreOf, KeptStops
    <3>4. \A s \in stops' : /\ s.at <= now /\ s.until = s.at + Keep
                            /\ s.jti \in Time => s.scope = NoSid /\ s.jti <= s.at
                            /\ s.jti \in Notices => notice[s.jti] # NoNotice /\ s.at = notice[s.jti].arrived
      BY <2>8, <2>9, <3>1, <3>2 DEF LogoutInv, StopsSayWhatTheyAreOf
    <3> QED BY <1>3, <3>2, <3>3, <3>4 DEF LogoutInv, StopsSayWhatTheyAreOf
  <2>11. ASSUME NEW sid \in ended \ crossed', told[sid] = Never
         PROVE  /\ \A t \in access : t.sid = sid => Stopped(sid, t.started, t.until)'
                /\ \A row \in Rows : row.sid = sid => Stopped(sid, row.started, row.expires + AccessTtl)'
    <3>1. sid \in Sids /\ sid \notin crossed
      BY <2>5, <2>11
    <3>2. CASE \E s \in stops' : s.jti = then /\ s.scope = NoSid /\ s.at = now /\ s.until = now + Keep
      BY <1>3, <3>1, <3>2, StoppedNow
    <3>3. ASSUME NEW s \in KeptStops, s.jti = then
          PROVE  /\ \A t \in access : t.sid = sid => Stopped(sid, t.started, t.until)'
                 /\ \A row \in Rows : row.sid = sid => Stopped(sid, row.started, row.expires + AccessTtl)'
      <4>1. s \in stops /\ s \in stops' /\ s \in Stop
        BY <2>5, <2>9, RecordedIs DEF KeptStops
      <4>2. s.scope = NoSid /\ then <= s.at /\ s.until = s.at + Keep /\ s.at \in Nat
        BY <3>3, <4>1 DEF LogoutInv, StopsSayWhatTheyAreOf, Stop, Time
      <4>3. \A t \in access \cup Rows : t.sid = sid => t.started <= then
        BY <2>4, <2>11, <3>1 DEF LogoutInv, AskedAreOlder
      <4>4. \A t \in access \cup Rows : t.sid = sid => t.started <= s.at /\ s.at >= t.started
        BY <2>9, <4>2, <4>3 DEF Sso, Rows, TicketRow, Time
      <4>5. \A t \in access : t.sid = sid => t.until <= s.at + TicketTtl + AccessTtl
        BY <3>1, <3>3, <4>1, <4>4 DEF LogoutInv, WorkersStopsAreFinal
      <4>6. \A row \in Rows : row.sid = sid => row.expires <= s.at + TicketTtl
        BY <3>1, <3>3, <4>1, <4>4 DEF LogoutInv, WorkersStopsAreFinal
      <4>7. \A t \in access : t.sid = sid => s.until >= t.until
        BY <2>9, <4>2, <4>5, SsoAssumption DEF Sso
      <4>8. \A row \in Rows : row.sid = sid => s.until >= row.expires + AccessTtl
        BY <4>2, <4>6, SsoAssumption DEF Rows, TicketRow
      <4> QED BY <4>1, <4>2, <4>4, <4>7, <4>8 DEF Stopped
    <3> QED BY <2>5, <3>2, <3>3, RecordedIs
  <2>12. \A n \in Notices : notice'[n] # NoNotice =>
           notice[n] # NoNotice /\ notice'[n].ended = notice[n].ended /\ notice'[n].scope = notice[n].scope
    BY <1>3
  <2>13. \A sid \in ended \ crossed' : ~InFlight(sid)
    BY <2>2, <2>7
  <2> QED BY <1>1, <1>2, <1>3, <2>1, <2>5, <2>7, <2>8, <2>9, <2>10, <2>11, <2>12, <2>13, TellKeeps
<1> QED BY <1>4, <1>5

LEMMA LogoutNext ==
    ASSUME SsoTypeOK, LogoutInv, SsoNext
    PROVE  LogoutInv'
BY TickKeeps, ProviderKeeps, CodeKeeps, RenewalKeeps, TicketKeeps, SwitchKeeps, LoginKeeps, PresentKeeps, CheckKeeps,
   AskKeeps, NoticeKeeps, WriteKeeps DEF SsoNext

LEMMA LogoutStutters ==
    ASSUME LogoutInv, UNCHANGED ssoVars
    PROVE  LogoutInv'
<1>1. UNCHANGED <<now, blocked, session, begun, notice, tickets, access, stops, lastLogin, work, told, crossed>>
  BY DEF ssoVars, provider
<1>2. Calling' = Calling /\ Rows' = Rows /\ Switching' = Switching /\ Asked' = Asked
  BY <1>1 DEF Calling, Rows, Switching, Asked, At, InTable
<1> QED BY <1>1, <1>2, NothingNew

\* A session that the provider ended is over here one ticket and one access token after
\* the service was told, unless something of it was under way as it was told, asked or
\* stopped everything; and a notice that comes again stops nothing that began since.
\* (ReceiveBackchannelLogout, ReconcileFederatedUsers, CheckSessionRevocation.)
THEOREM EndedSessionsAreOver == SsoSpec => []SingleLogoutHolds
<1>1. SsoTypeOK /\ LogoutInv /\ [SsoNext]_ssoVars => (SsoTypeOK /\ LogoutInv)'
  <2>1. SsoTypeOK /\ UNCHANGED ssoVars => SsoTypeOK'
    BY DEF ssoVars, SsoTypeOK, provider
  <2> QED BY <2>1, SsoNextType, LogoutNext, LogoutStutters
<1>2. SsoTypeOK /\ LogoutInv => SingleLogoutHolds
  <2> SUFFICES ASSUME SsoTypeOK, LogoutInv PROVE SingleLogoutHolds
    OBVIOUS
  <2>1. ResendsChangeNothing
    BY DEF LogoutInv, StopsSayWhatTheyAreOf, ResendsChangeNothing
  <2>2. EndedSessionsEnd
    <3> SUFFICES ASSUME NEW t \in access, told[t.sid] # Never, t.sid \notin crossed
                 PROVE  now < told[t.sid] + TicketTtl + AccessTtl
      BY DEF EndedSessionsEnd
    <3>1. t.sid \in Sids /\ t.until \in Nat /\ now \in Nat
      BY DEF SsoTypeOK, Sso, Time
    <3>2. t.until <= told[t.sid] + TicketTtl + AccessTtl /\ told[t.sid] \in Nat
      BY <3>1 DEF LogoutInv, ToldAreStopped, SsoTypeOK, Time
    <3>3. now < t.until
      BY DEF LogoutInv, SignInsHaveTimes
    <3> QED BY <3>1, <3>2, <3>3, SsoAssumption
  <2> QED BY <2>1, <2>2 DEF SingleLogoutHolds
<1> QED BY <1>1, <1>2, SsoInitType, LogoutInit, PTL DEF SsoSpec

USE MachineAssumption, DpopAssumption

-----------------------------------------------------------------------------
(* MachineTokens.                                                           *)

LEMMA MachineInitType == MachineInit => MachineTypeOK /\ now \in Time
BY DEF MachineInit, MachineTypeOK, Time, Never

LEMMA GivenType == ASSUME MachineTypeOK PROVE Given \subseteq Operations
BY DEF Given, MachineTypeOK

LEMMA MachineNextType ==
    ASSUME MachineTypeOK, now \in Time, MachineNext
    PROVE  MachineTypeOK' /\ now' \in Time
<1> USE DEF MachineTypeOK, Time, Never
<1>1. CASE MachineTick
  BY <1>1 DEF MachineTick, Tick
<1>2. ASSUME ChangesRegister(NoExchange) \/ StopsActor
            \/ \E x \in SUBSET Operations : ChangesRegister(x) \/ ChangesRoles(x)
      PROVE  MachineTypeOK' /\ now' \in Time
  <2>1. Exchanging \subseteq Operations
    BY DEF Exchanging
  <2>2. lastBoth' \in [Operations -> Time \cup {Never}] /\ overtook' \subseteq Operations /\ now' = now
    BY <1>2, <2>1 DEF ChangesRegister, ChangesRoles, StopsActor, Remembers
  <2> QED BY <1>2, <2>2 DEF ChangesRegister, ChangesRoles, StopsActor
<1>3. ASSUME NEW r \in Requests, OpensExchange(r) PROVE MachineTypeOK' /\ now' \in Time
  BY <1>3 DEF OpensExchange
<1>4. ASSUME NEW r \in Requests, IssuesMachineToken(r) PROVE MachineTypeOK' /\ now' \in Time
  <2> DEFINE t == [ops |-> Effective(exchange[r]), until |-> ExpiresAt(r)]
  <2>1. t \in [ops: SUBSET Operations, until: Nat] /\ now <= t.until /\ t.until <= now + MachineTtl
    BY <1>4 DEF IssuesMachineToken, Effective, ExpiresAt
  <2> QED BY <1>4, <2>1 DEF IssuesMachineToken
<1> QED BY <1>1, <1>2, <1>3, <1>4 DEF MachineNext

\* What a request has read of the register is still there, unless a change
\* overtook it; what register and roles give together is given now.
ReadIsCurrent ==
    \A r \in Requests : exchange[r] # NoExchange =>
        \A o \in exchange[r] \ overtook : registered # NoExchange /\ o \in registered

GivenIsNow ==
    /\ \A o \in Given : lastBoth[o] = now
    /\ \A o \in Operations : lastBoth[o] <= now

MachineInv == MachineTypeOK /\ now \in Time /\ ReadIsCurrent /\ GivenIsNow /\ MachinePowersFade

LEMMA MachineChangeStep ==
    ASSUME MachineInv,
           \/ ChangesRegister(NoExchange) \/ StopsActor
           \/ \E x \in SUBSET Operations : ChangesRegister(x) \/ ChangesRoles(x)
    PROVE  ReadIsCurrent' /\ GivenIsNow' /\ MachinePowersFade'
<1> USE DEF MachineInv, MachineTypeOK
<1>1. /\ now' = now /\ exchange' = exchange /\ machineTokens' = machineTokens /\ Remembers
      /\ registered' \in (SUBSET Operations) \cup {NoExchange} /\ granted' \subseteq Operations
  BY DEF ChangesRegister, ChangesRoles, StopsActor
<1>2. Given \subseteq Operations /\ Given' \subseteq Operations
  BY <1>1 DEF Given
<1>3. ReadIsCurrent'
  <2> SUFFICES ASSUME NEW r \in Requests, exchange[r] # NoExchange, NEW o \in exchange[r], o \notin overtook'
               PROVE  registered' # NoExchange /\ o \in registered'
    BY <1>1 DEF ReadIsCurrent
  <2>1. o \in Exchanging
    BY DEF Exchanging
  <2>2. o \in Given'
    BY <1>1, <2>1 DEF Remembers
  <2> QED BY <2>2 DEF Given
<1>4. \A o \in Operations : lastBoth[o] <= lastBoth'[o]
  BY <1>1 DEF Remembers, GivenIsNow, Time, Never
<1>5. GivenIsNow'
  BY <1>1, <1>2 DEF GivenIsNow, Remembers, Time
<1>6. MachinePowersFade'
  <2> SUFFICES ASSUME NEW t \in machineTokens, NEW o \in t.ops, o \notin overtook'
               PROVE  t.until <= lastBoth'[o] + MachineTtl
    BY <1>1 DEF MachinePowersFade
  <2>1. o \notin overtook
    BY <1>1 DEF Remembers
  <2>2. o \in Operations /\ t.until \in Nat /\ t.until <= lastBoth[o] + MachineTtl
    BY <2>1 DEF MachinePowersFade
  <2>3. lastBoth[o] \in Int /\ lastBoth'[o] \in Int
    BY <1>1, <2>2 DEF Remembers, Time, Never
  <2> QED BY <1>4, <2>2, <2>3
<1> QED BY <1>3, <1>5, <1>6

LEMMA MachineIssueStep ==
    ASSUME MachineInv, NEW r \in Requests, IssuesMachineToken(r)
    PROVE  ReadIsCurrent' /\ GivenIsNow' /\ MachinePowersFade'
<1> USE DEF MachineInv, MachineTypeOK
<1> DEFINE new == [ops |-> Effective(exchange[r]), until |-> ExpiresAt(r)]
<1>1. ReadIsCurrent' /\ GivenIsNow'
  BY DEF IssuesMachineToken, ReadIsCurrent, GivenIsNow, Given
<1>2. ASSUME actorActive, NEW o \in new.ops, o \notin overtook
      PROVE  new.until <= lastBoth[o] + MachineTtl
  <2>1. o \in Given
    BY <1>2 DEF IssuesMachineToken, Effective, ReadIsCurrent, Given
  <2> QED BY <2>1 DEF GivenIsNow, ExpiresAt, Time
<1>3. \A t \in machineTokens' : t \in machineTokens \/ (actorActive /\ t = new)
  BY DEF IssuesMachineToken
<1> QED BY <1>1, <1>2, <1>3 DEF IssuesMachineToken, MachinePowersFade

LEMMA MachineTickStep ==
    ASSUME MachineInv, MachineTick
    PROVE  ReadIsCurrent' /\ GivenIsNow' /\ MachinePowersFade'
<1> USE DEF MachineInv, MachineTypeOK
<1>1. Given' = Given /\ Given \subseteq Operations /\ now' = now + 1 /\ now \in Nat
  BY DEF MachineTick, Tick, Given, Time
<1>2. ReadIsCurrent' /\ GivenIsNow'
  BY <1>1 DEF MachineTick, ReadIsCurrent, GivenIsNow, Time, Never
<1>3. \A o \in Operations : lastBoth[o] \in Int /\ lastBoth'[o] \in Int /\ lastBoth[o] <= lastBoth'[o]
  BY <1>1 DEF MachineTick, GivenIsNow, Time, Never
<1>4. MachinePowersFade'
  <2> SUFFICES ASSUME NEW t \in machineTokens, NEW o \in t.ops, o \notin overtook
               PROVE  t.until <= lastBoth'[o] + MachineTtl
    BY DEF MachinePowersFade, MachineTick
  <2>1. o \in Operations /\ t.until \in Nat /\ t.until <= lastBoth[o] + MachineTtl
    BY DEF MachinePowersFade
  <2> QED BY <1>3, <2>1
<1> QED BY <1>2, <1>4

LEMMA MachineInvStep == MachineInv /\ [MachineNext]_machineVars => MachineInv'
<1> SUFFICES ASSUME MachineInv, [MachineNext]_machineVars PROVE MachineInv'
  OBVIOUS
<1>1. CASE MachineNext
  <2>1. MachineTypeOK' /\ now' \in Time
    BY <1>1, MachineNextType DEF MachineInv
  <2>2. CASE \/ ChangesRegister(NoExchange) \/ StopsActor
             \/ \E x \in SUBSET Operations : ChangesRegister(x) \/ ChangesRoles(x)
    BY <2>1, <2>2, MachineChangeStep DEF MachineInv
  <2>3. ASSUME NEW r \in Requests, OpensExchange(r) PROVE MachineInv'
    BY <2>1, <2>3 DEF MachineInv, MachineTypeOK, OpensExchange, ReadIsCurrent, GivenIsNow, Given, MachinePowersFade
  <2>4. ASSUME NEW r \in Requests, IssuesMachineToken(r) PROVE MachineInv'
    BY <2>1, <2>4, MachineIssueStep DEF MachineInv
  <2>5. CASE MachineTick
    BY <2>1, <2>5, MachineTickStep DEF MachineInv
  <2> QED BY <1>1, <2>2, <2>3, <2>4, <2>5 DEF MachineNext
<1>2. CASE UNCHANGED machineVars
  BY <1>2 DEF machineVars, MachineInv, MachineTypeOK, ReadIsCurrent, GivenIsNow, Given, MachinePowersFade
<1> QED BY <1>1, <1>2

LEMMA MachineBegins == MachineInit => MachineInv
BY MachineInitType DEF MachineInit, MachineInv, ReadIsCurrent, GivenIsNow, Given, MachinePowersFade

\* However registers and roles are changed while machines exchange their tokens,
\* no token lets a machine do, longer than a token's life, what was taken from it.
THEOREM MachinesLoseTheirPowers == MachineSpec => []MachinePowersFade
<1>1. MachineInv => MachinePowersFade
  BY DEF MachineInv
<1> QED BY MachineBegins, MachineInvStep, <1>1, PTL DEF MachineSpec

-----------------------------------------------------------------------------
(* DpopProofs.                                                              *)

\* A request checked its proof in the past, within the proof's time.
SeenInTime ==
    \A r \in Requests : visit[r] # NoVisit =>
        visit[r].seen <= now /\ visit[r].seen <= signed[visit[r].proof] + ProofAge

\* The row of a proof that is being used, or was, stands as long as the proof
\* would be taken.
RowStands ==
    \A p \in Proofs \ lingered : Held(p) \/ served[p] > 0 => replays[p] # Never \/ now > signed[p] + ProofAge

\* Of the requests of a proof at most one was let through.
OneLetThrough ==
    \A p \in Proofs \ lingered : served[p] <= 1 /\ (Held(p) => served[p] = 0)

DpopInv == DpopTypeOK /\ now \in Time /\ SeenInTime /\ RowStands /\ OneLetThrough

LEMMA DpopCheckStep ==
    ASSUME DpopInv, NEW r \in Requests, NEW p \in Proofs, CheckProof(r, p)
    PROVE  DpopInv'
<1> USE DEF DpopInv, DpopTypeOK, Time, Never
<1>1. \A q \in Proofs : Held(q)' => Held(q)
  BY DEF CheckProof, Held
<1>2. visit' \in [Requests -> Visit \cup {NoVisit}]
  BY DEF CheckProof, Visit
<1>3. DpopTypeOK' /\ now' \in Time
  BY <1>2 DEF CheckProof
<1>4. SeenInTime'
  BY DEF CheckProof, SeenInTime, InWindow, Visit
<1>5. UNCHANGED <<now, signed, replays, served, lingered>>
  BY DEF CheckProof
<1> QED BY <1>1, <1>3, <1>4, <1>5 DEF RowStands, OneLetThrough

LEMMA DpopRecordStep ==
    ASSUME DpopInv, NEW r \in Requests, NEW p \in Proofs, RecordIfUnused(r), visit[r].proof = p
    PROVE  DpopInv'
<1> USE DEF DpopInv, DpopTypeOK, Time, Never
<1>1. /\ visit[r] \in Visit /\ signed[p] + ProofAge \in Nat
      /\ UNCHANGED <<now, signed, served>>
      /\ lingered \subseteq lingered' /\ lingered' \subseteq Proofs
  BY DEF RecordIfUnused, Visit
<1>2. \A q \in Proofs : SweptReplays[q] \in Nat \cup {Never}
  BY DEF SweptReplays
<1>3. \A q \in Proofs : SweptReplays[q] # Never => SweptReplays[q] = replays[q]
  BY DEF SweptReplays
<1>4. \A q \in Proofs : replays[q] # Never /\ SweptReplays[q] = Never => now > signed[q] + ProofAge
  BY DEF SweptReplays
<1>5. CASE SweptReplays[p] = Never
  <2>1. /\ replays' = [SweptReplays EXCEPT ![p] = RetainUntil(p)]
        /\ visit' = [visit EXCEPT ![r].noted = TRUE] /\ visit[r] # NoVisit /\ ~Held(p)
    BY <1>5 DEF RecordIfUnused
  <2>2. replays' \in [Proofs -> Nat \cup {Never}] /\ replays'[p] = signed[p] + ProofAge
        /\ \A q \in Proofs : q # p => replays'[q] = SweptReplays[q]
    BY <1>1, <1>2, <2>1 DEF SweptReplays, RetainUntil
  <2>3. /\ visit' \in [Requests -> Visit \cup {NoVisit}]
        /\ visit'[r] = [visit[r] EXCEPT !.noted = TRUE]
        /\ \A q \in Requests : q # r => visit'[q] = visit[q]
    BY <1>1, <2>1 DEF Visit
  <2>4. /\ visit'[r].proof = p /\ visit'[r].seen = visit[r].seen
        /\ \A q \in Requests : q # r => visit'[q] = NoVisit \/ visit'[q].proof # p \/ ~visit'[q].noted
    BY <1>1, <2>1, <2>3 DEF Held, Visit
  <2>5. \A q \in Proofs : replays'[q] # Never => replays'[q] = signed[q] + ProofAge
    BY <1>1, <1>3, <2>2
  <2>6. DpopTypeOK'
    <3>1. ASSUME NEW q \in Requests, NEW t \in Requests,
                 visit'[q] # NoVisit, visit'[q].noted, visit'[t] # NoVisit, visit'[t].noted,
                 visit'[q].proof = visit'[t].proof
          PROVE  q = t
      <4>1. CASE q # r /\ t # r
        <5>1. visit'[q] = visit[q] /\ visit'[t] = visit[t]
          BY <2>3, <4>1
        <5> QED BY <3>1, <5>1
      <4>2. CASE q = r /\ t # r
        BY <2>4, <3>1, <4>2
      <4>3. CASE q # r /\ t = r
        BY <2>4, <3>1, <4>3
      <4> QED BY <4>1, <4>2, <4>3
    <3> QED BY <1>1, <2>2, <2>3, <2>5, <3>1
  <2>7. SeenInTime'
    BY <1>1, <2>1, <2>3, <2>4 DEF SeenInTime
  <2>8. \A q \in Proofs : q # p => (Held(q)' <=> Held(q))
    BY <1>1, <2>1, <2>3, <2>4 DEF Held
  <2>9. RowStands'
    BY <1>1, <1>4, <2>2, <2>8 DEF RowStands
  <2>10. ASSUME p \notin lingered' PROVE served[p] = 0
    <3>1. visit[r].seen = now
      BY <1>1, <2>1, <2>10 DEF RecordIfUnused, SeenInTime, Visit
    <3>2. now <= signed[p] + ProofAge
      BY <2>1, <3>1 DEF SeenInTime
    <3>3. replays[p] = Never /\ p \notin lingered
      BY <1>1, <1>4, <1>5, <2>10, <3>2
    <3> QED BY <1>1, <3>2, <3>3 DEF RowStands
  <2>11. OneLetThrough'
    BY <1>1, <2>8, <2>10 DEF OneLetThrough
  <2> QED BY <1>1, <2>6, <2>7, <2>9, <2>11
<1>6. CASE SweptReplays[p] # Never
  <2>1. replays' = replays /\ visit' = [visit EXCEPT ![r] = NoVisit]
    BY <1>6 DEF RecordIfUnused
  <2>2. \A q \in Proofs : Held(q)' => Held(q)
    BY <2>1 DEF Held
  <2>3. \A q \in Requests : visit'[q] # NoVisit => visit'[q] = visit[q]
    BY <2>1
  <2>4. DpopTypeOK'
    BY <1>1, <2>1, <2>3
  <2> QED BY <1>1, <2>1, <2>2, <2>3, <2>4 DEF SeenInTime, RowStands, OneLetThrough
<1> QED BY <1>5, <1>6

LEMMA DpopEndStep ==
    ASSUME DpopInv, NEW r \in Requests, NEW p \in Proofs, visit[r].proof = p,
           Serves(r) \/ FailsAfterwards(r)
    PROVE  DpopInv'
<1> USE DEF DpopInv, DpopTypeOK, Time, Never
<1>1. /\ visit[r] # NoVisit /\ visit[r].noted /\ Held(p)
      /\ visit' = [visit EXCEPT ![r] = NoVisit]
      /\ UNCHANGED <<now, signed, lingered>>
  BY DEF Serves, FailsAfterwards, Held
<1>2. \A q \in Requests : visit'[q] # NoVisit => q # r /\ visit'[q] = visit[q]
  BY <1>1
<1>3. ~Held(p)'
  BY <1>1, <1>2 DEF Held
<1>4. \A q \in Proofs : Held(q)' => Held(q)
  BY <1>2 DEF Held
<1>5. SeenInTime'
  BY <1>1, <1>2 DEF SeenInTime
<1>6. CASE Serves(r)
  <2>1. replays' = replays /\ served' = [served EXCEPT ![p] = @ + 1]
    BY <1>6 DEF Serves
  <2>2. DpopTypeOK'
    BY <1>1, <1>2, <2>1
  <2>3. RowStands'
    BY <1>1, <1>4, <2>1 DEF RowStands
  <2>4. OneLetThrough'
    BY <1>1, <1>3, <1>4, <2>1 DEF OneLetThrough
  <2> QED BY <1>1, <1>5, <2>2, <2>3, <2>4
<1>7. CASE FailsAfterwards(r)
  <2>1. replays' = [replays EXCEPT ![p] = Never] /\ served' = served
    BY <1>7 DEF FailsAfterwards
  <2>2. DpopTypeOK'
    BY <1>1, <1>2, <2>1
  <2>3. OneLetThrough'
    BY <1>1, <1>4, <2>1 DEF OneLetThrough
  <2>4. RowStands'
    BY <1>1, <1>3, <1>4, <2>1 DEF RowStands, OneLetThrough
  <2> QED BY <1>1, <1>5, <2>2, <2>3, <2>4
<1> QED BY <1>6, <1>7

LEMMA DpopBegins == DpopInit => DpopInv
BY DEF DpopInit, DpopInv, DpopTypeOK, SeenInTime, RowStands, OneLetThrough, Held, Time, Never

LEMMA DpopKeeps == DpopInv /\ [DpopNext]_dpopVars => DpopInv'
<1> SUFFICES ASSUME DpopInv, [DpopNext]_dpopVars PROVE DpopInv'
  OBVIOUS
<1>1. CASE DpopTick
  BY <1>1 DEF DpopTick, Tick, DpopInv, DpopTypeOK, SeenInTime, RowStands, OneLetThrough, Held, Visit, Time, Never
<1>2. CASE UNCHANGED dpopVars
  BY <1>2 DEF dpopVars, DpopInv, DpopTypeOK, SeenInTime, RowStands, OneLetThrough, Held
<1>3. ASSUME NEW r \in Requests, RecordIfUnused(r) \/ Serves(r) \/ FailsAfterwards(r)
      PROVE  DpopInv'
  <2>1. visit[r].proof \in Proofs
    BY <1>3 DEF DpopInv, DpopTypeOK, RecordIfUnused, Serves, FailsAfterwards, Visit
  <2> QED BY <1>3, <2>1, DpopRecordStep, DpopEndStep
<1> QED BY <1>1, <1>2, <1>3, DpopCheckStep DEF DpopNext

\* A proof of possession serves one request, whatever is sent again, fails or is
\* swept, for any number of requests at once.
THEOREM ProofsServeOnce == DpopSpec => []OneProofOneRequest
<1>1. DpopInv => OneProofOneRequest
  BY DEF DpopInv, OneLetThrough, OneProofOneRequest
<1> QED BY DpopBegins, DpopKeeps, <1>1, PTL DEF DpopSpec

-----------------------------------------------------------------------------
(* FederatedLinks.                                                          *)

Attending(r, u) == change[r] # NoChange /\ change[r].kind # "pass" /\ change[r].user = u

\* Whoever is to be written into a row is there; only a new one is not, yet.
RowsAreThere ==
    \A r \in Requests : change[r] # NoChange /\ change[r].kind \notin {"pass", "provision"} => Exists(change[r].user)

\* A request that was alone with its user still finds them as it read them.
ReadingsStand ==
    \A r \in Requests : \A u \in Users \ met : Attending(r, u) =>
        /\ \A q \in Requests : Attending(q, u) => q = r
        /\ change[r].kind = "attach" /\ ~linkByEmail => AwaitingOwner(u)
        /\ change[r].kind = "link" => LinksOf(u) \subseteq {change[r].subject}
        /\ change[r].kind = "unlink" => HasOtherEntrance(u)

OneLink(u) == \A s, t \in LinksOf(u) : s = t
OneLinkOrMet == ~linkByEmail => \A u \in Users \ met : OneLink(u)

LinksInv == FederatedLinksTypeOK /\ RowsAreThere /\ ReadingsStand /\ OneLinkOrMet

LEMMA LinksInit == FederatedLinksInit => LinksInv
<1> SUFFICES ASSUME FederatedLinksInit PROVE LinksInv
  OBVIOUS
<1>1. FederatedLinksTypeOK
  BY DEF FederatedLinksInit, FederatedLinksTypeOK, Links, Ways
<1>2. RowsAreThere /\ ReadingsStand
  BY DEF FederatedLinksInit, RowsAreThere, ReadingsStand, Attending
<1>3. OneLinkOrMet
  BY ServiceAssumption DEF FederatedLinksInit, OneLinkOrMet, OneLink, LinksOf
<1> QED BY <1>1, <1>2, <1>3 DEF LinksInv

\* What a request may have read of the user it names.
ReadsWell(c) ==
    /\ c.kind \notin {"pass", "provision"} => Exists(c.user)
    /\ c.kind = "attach" /\ ~linkByEmail => AwaitingOwner(c.user)
    /\ c.kind = "link" => LinksOf(c.user) \subseteq {c.subject}
    /\ c.kind = "unlink" => HasOtherEntrance(c.user)

LEMMA ReadsKeep ==
    ASSUME LinksInv, NEW r \in Requests, NEW c \in Change, Reads(r, c), ReadsWell(c)
    PROVE  LinksInv'
<1>1. UNCHANGED <<identity, way, address, linkByEmail>> /\ change[r] = NoChange
  BY DEF Reads
<1>2. change' \in [Requests -> Change \cup {NoChange}] /\ \A q \in Requests : change'[q] = IF q = r THEN c ELSE change[q]
  BY DEF Reads, LinksInv, FederatedLinksTypeOK
<1>3. met \subseteq met' /\ met' \subseteq Users
  BY DEF Reads, LinksInv, FederatedLinksTypeOK
<1>4. c # NoChange
  BY FederatedLinksAssumption
<1>5. c.kind # "pass" /\ c.user \in Users \ met' => \A q \in Requests \ {r} : ~Attending(q, c.user)
  BY DEF Reads, Attending
<1>6. \A u : AwaitingOwner(u)' = AwaitingOwner(u) /\ LinksOf(u)' = LinksOf(u)
             /\ HasOtherEntrance(u)' = HasOtherEntrance(u) /\ Exists(u)' = Exists(u)
  BY <1>1 DEF AwaitingOwner, LinksOf, HasOtherEntrance, Exists
<1>7. FederatedLinksTypeOK'
  BY <1>1, <1>2, <1>3 DEF LinksInv, FederatedLinksTypeOK
<1>8. RowsAreThere'
  BY <1>2, <1>6 DEF LinksInv, RowsAreThere, ReadsWell
<1>9. \A q \in Requests, u \in Users : Attending(q, u)' <=>
        IF q = r THEN c.kind # "pass" /\ c.user = u ELSE Attending(q, u)
  BY <1>2, <1>4 DEF Attending
<1>10. ReadingsStand'
  <2> SUFFICES ASSUME NEW q \in Requests, NEW u \in Users \ met', Attending(q, u)'
               PROVE  /\ \A p \in Requests : Attending(p, u)' => p = q
                      /\ change'[q].kind = "attach" /\ ~linkByEmail => AwaitingOwner(u)
                      /\ change'[q].kind = "link" => LinksOf(u) \subseteq {change'[q].subject}
                      /\ change'[q].kind = "unlink" => HasOtherEntrance(u)
    BY <1>1, <1>6 DEF ReadingsStand
  <2>1. CASE q = r
    BY <2>1, <1>2, <1>5, <1>9 DEF ReadsWell
  <2>2. CASE q # r
    <3>1. Attending(q, u) /\ u \notin met /\ change'[q] = change[q]
      BY <2>2, <1>2, <1>3, <1>9
    <3>2. ~(c.kind # "pass" /\ c.user = u)
      BY <2>2, <3>1, <1>5
    <3> QED BY <3>1, <3>2, <1>9 DEF LinksInv, ReadingsStand
  <2> QED BY <2>1, <2>2
<1>11. OneLinkOrMet'
  BY <1>1, <1>3, <1>6 DEF LinksInv, OneLinkOrMet, OneLink
<1> QED BY <1>7, <1>8, <1>10, <1>11 DEF LinksInv

\* Requests end, and rows change: those of others are as they were, or less.
LEMMA WritesKeep ==
    ASSUME LinksInv, FederatedLinksTypeOK', UNCHANGED <<linkByEmail, met>>,
           \A q \in Requests : change'[q] \in {change[q], NoChange},
           \A q \in Requests : change'[q] # NoChange /\ change[q].kind \notin {"pass", "provision"} =>
               Exists(change[q].user)',
           \A q \in Requests : \A u \in Users \ met : Attending(q, u) /\ change'[q] # NoChange =>
               \/ change[q].kind \notin {"attach", "link", "unlink"}
               \/ LinksOf(u)' \subseteq LinksOf(u) /\ way'[u] = way[u],
           ~linkByEmail => \A u \in Users \ met : LinksOf(u)' \subseteq LinksOf(u) \/ OneLink(u)'
    PROVE  LinksInv'
<1>1. RowsAreThere'
  BY DEF RowsAreThere
<1>2. \A q \in Requests, u \in Users : Attending(q, u)' => Attending(q, u) /\ change'[q] = change[q] /\ change'[q] # NoChange
  BY DEF Attending
<1>3. ReadingsStand'
  <2> SUFFICES ASSUME NEW q \in Requests, NEW u \in Users \ met, Attending(q, u)'
               PROVE  /\ \A p \in Requests : Attending(p, u)' => p = q
                      /\ change'[q].kind = "attach" /\ ~linkByEmail => AwaitingOwner(u)'
                      /\ change'[q].kind = "link" => LinksOf(u)' \subseteq {change'[q].subject}
                      /\ change'[q].kind = "unlink" => HasOtherEntrance(u)'
    BY DEF ReadingsStand
  <2>1. Attending(q, u) /\ change'[q] = change[q] /\ change'[q] # NoChange
    BY <1>2
  <2>2. /\ \A p \in Requests : Attending(p, u) => p = q
        /\ change[q].kind = "attach" /\ ~linkByEmail => AwaitingOwner(u)
        /\ change[q].kind = "link" => LinksOf(u) \subseteq {change[q].subject}
        /\ change[q].kind = "unlink" => HasOtherEntrance(u)
    BY <2>1 DEF LinksInv, ReadingsStand
  <2>3. CASE change[q].kind \notin {"attach", "link", "unlink"}
    BY <2>1, <2>2, <2>3, <1>2
  <2>4. CASE LinksOf(u)' \subseteq LinksOf(u) /\ way'[u] = way[u]
    <3>1. HasOtherEntrance(u)' = HasOtherEntrance(u) /\ Exists(u)' = Exists(u)
      BY <2>4 DEF HasOtherEntrance, Exists
    <3>2. AwaitingOwner(u) => AwaitingOwner(u)'
      BY <2>4, <3>1 DEF AwaitingOwner
    <3> QED BY <2>1, <2>2, <2>4, <3>1, <3>2, <1>2
  <2> QED BY <2>1, <2>3, <2>4
<1>4. OneLinkOrMet'
  BY DEF LinksInv, OneLinkOrMet, OneLink
<1> QED BY <1>1, <1>3, <1>4 DEF LinksInv

LEMMA ChangeIsOf ==
    ASSUME FederatedLinksTypeOK, NEW r \in Requests, change[r] # NoChange
    PROVE  /\ change[r] \in Change
           /\ change[r].kind # "pass" => change[r].user \in Users
           /\ change[r].kind \in {"attach", "link", "provision"} => change[r].subject \in Subjects
<1>1. change[r] \in Change
  BY DEF FederatedLinksTypeOK
<1> QED BY <1>1 DEF Change

LEMMA ResolveUnknownKeeps ==
    ASSUME LinksInv, NEW r \in Requests, NEW s \in Subjects, ResolveUnknown(r, s) PROVE LinksInv'
<1>1. PICK u \in Users : u = address[s]
  BY DEF LinksInv, FederatedLinksTypeOK
<1>2. CASE Exists(u)
  <2>1. PICK c : c = [kind |-> "attach", user |-> u, subject |-> s]
    OBVIOUS
  <2>2. Reads(r, c) /\ (linkByEmail \/ AwaitingOwner(u))
    BY <1>1, <1>2, <2>1 DEF ResolveUnknown, MayAttach
  <2>3. c \in Change /\ c.kind = "attach" /\ c.user = u
    BY <2>1 DEF Change
  <2>4. ReadsWell(c)
    BY <1>2, <2>2, <2>3 DEF ReadsWell
  <2> QED BY <2>2, <2>3, <2>4, ReadsKeep
<1>3. CASE ~Exists(u)
  <2>1. PICK c : c = [kind |-> "provision", user |-> u, subject |-> s]
    OBVIOUS
  <2>2. Reads(r, c)
    BY <1>1, <1>3, <2>1 DEF ResolveUnknown
  <2>3. c \in Change /\ c.kind = "provision"
    BY <2>1 DEF Change
  <2>4. ReadsWell(c)
    BY <2>3 DEF ReadsWell
  <2> QED BY <2>2, <2>3, <2>4, ReadsKeep
<1> QED BY <1>2, <1>3

LEMMA CompleteLinkKeeps ==
    ASSUME LinksInv, NEW r \in Requests, NEW u \in Users, NEW s \in Subjects, CompleteLink(r, u, s) PROVE LinksInv'
<1>1. PICK c : c = [kind |-> "link", user |-> u, subject |-> s]
  OBVIOUS
<1>2. Reads(r, c) /\ Exists(u) /\ LinksOf(u) \subseteq {s}
  BY <1>1 DEF CompleteLink, EnsureFree
<1>3. c \in Change /\ c.kind = "link" /\ c.user = u /\ c.subject = s
  BY <1>1 DEF Change
<1>4. ReadsWell(c)
  BY <1>2, <1>3 DEF ReadsWell
<1> QED BY <1>2, <1>3, <1>4, ReadsKeep

LEMMA UnlinkKeeps ==
    ASSUME LinksInv, NEW r \in Requests, NEW u \in Users, Unlink(r, u) PROVE LinksInv'
<1>1. PICK s \in LinksOf(u) : Reads(r, [kind |-> "unlink", user |-> u, subject |-> s])
  BY DEF Unlink
<1>2. PICK c : c = [kind |-> "unlink", user |-> u, subject |-> s]
  OBVIOUS
<1>3. s \in Subjects /\ identity[s] = u
  BY <1>1 DEF LinksOf
<1>4. Exists(u)
  BY <1>3, ServiceAssumption DEF Exists, LinksInv, FederatedLinksTypeOK
<1>5. c \in Change /\ c.kind = "unlink" /\ c.user = u
  BY <1>2, <1>3 DEF Change
<1>6. ReadsWell(c)
  BY <1>4, <1>5 DEF ReadsWell, Unlink
<1> QED BY <1>1, <1>2, <1>5, <1>6, ReadsKeep

LEMMA ChangeEntranceKeeps ==
    ASSUME LinksInv, NEW r \in Requests, NEW u \in Users, NEW kind \in {"password", "add_key", "drop_key"},
           ChangeEntrance(r, u, kind)
    PROVE  LinksInv'
<1>1. PICK c : c = [kind |-> kind, user |-> u, subject |-> Nobody]
  OBVIOUS
<1>2. Reads(r, c) /\ Exists(u)
  BY <1>1 DEF ChangeEntrance
<1>3. c \in Change /\ c.kind = kind /\ c.user = u
  BY <1>1 DEF Change
<1>4. ReadsWell(c)
  BY <1>2, <1>3 DEF ReadsWell
<1> QED BY <1>2, <1>3, <1>4, ReadsKeep

LEMMA ReconcileReadsKeeps ==
    ASSUME LinksInv, NEW r \in Requests, ReconcileReads(r) PROVE LinksInv'
<1>1. PICK linked \in SUBSET Subjects : linked = {s \in Subjects : identity[s] # Nobody}
  OBVIOUS
<1>2. PICK unknown \in SUBSET linked : Reads(r, [kind |-> "pass", read |-> linked, unknown |-> unknown])
  BY <1>1 DEF ReconcileReads
<1>3. PICK c : c = [kind |-> "pass", read |-> linked, unknown |-> unknown]
  OBVIOUS
<1>4. c \in Change /\ c.kind = "pass"
  BY <1>3 DEF Change
<1>5. ReadsWell(c)
  BY <1>4 DEF ReadsWell
<1> QED BY <1>2, <1>3, <1>4, <1>5, ReadsKeep

LEMMA DoneIs ==
    ASSUME FederatedLinksTypeOK, NEW r \in Requests, Done(r)
    PROVE  /\ change' \in [Requests -> Change \cup {NoChange}]
           /\ \A q \in Requests : change'[q] = IF q = r THEN NoChange ELSE change[q]
           /\ UNCHANGED <<now, address, linkByEmail, met>>
BY DEF Done, FederatedLinksTypeOK

LEMMA LinkWritesKeeps ==
    ASSUME LinksInv, NEW r \in Requests, LinkWrites(r) PROVE LinksInv'
<1> USE DEF LinksInv
<1>1. /\ change' \in [Requests -> Change \cup {NoChange}]
      /\ \A q \in Requests : change'[q] = IF q = r THEN NoChange ELSE change[q]
      /\ UNCHANGED <<address, linkByEmail, met, way>>
  BY DoneIs DEF LinkWrites
<1>2. PICK c \in Change : c = change[r] /\ c.kind \in {"attach", "link"} /\ change[r] # NoChange
  BY ChangeIsOf DEF LinkWrites, Doing
<1>3. PICK u \in Users : u = c.user
  BY <1>2, ChangeIsOf
<1>4. PICK s \in Subjects : s = c.subject
  BY <1>2, ChangeIsOf
<1>5. Exists(u) /\ Attending(r, u)
  BY <1>2, <1>3 DEF RowsAreThere, Attending
<1>6. /\ identity' \in [Subjects -> Users \cup {Nobody}]
      /\ \A t \in Subjects : identity'[t] = IF t = s /\ identity[s] = Nobody THEN u ELSE identity[t]
  BY <1>2, <1>3, <1>4 DEF LinkWrites, CanLink, FederatedLinksTypeOK, Links
<1>7. FederatedLinksTypeOK'
  BY <1>1, <1>5, <1>6 DEF FederatedLinksTypeOK, Links, Exists
<1>8. \A v \in Users \ {u} : LinksOf(v)' \subseteq LinksOf(v) /\ way'[v] = way[v]
  BY <1>1, <1>6 DEF LinksOf
<1>9. u \notin met => \A q \in Requests : Attending(q, u) => q = r
  BY <1>5 DEF ReadingsStand
<1>10. \A q \in Requests : \A v \in Users \ met : Attending(q, v) /\ change'[q] # NoChange =>
         LinksOf(v)' \subseteq LinksOf(v) /\ way'[v] = way[v]
  BY <1>1, <1>8, <1>9
<1>11. ~linkByEmail /\ u \notin met => LinksOf(u) \subseteq {s}
  BY <1>2, <1>4, <1>5 DEF ReadingsStand, AwaitingOwner
<1>12. ~linkByEmail => \A v \in Users \ met : LinksOf(v)' \subseteq LinksOf(v) \/ OneLink(v)'
  <2>1. ~linkByEmail /\ u \notin met => OneLink(u)'
    BY <1>6, <1>11 DEF OneLink, LinksOf
  <2> QED BY <2>1, <1>8
<1>13. \A q \in Requests : change'[q] # NoChange /\ change[q].kind \notin {"pass", "provision"} => Exists(change[q].user)'
  BY <1>1 DEF RowsAreThere, Exists
<1>14. \A q \in Requests : change'[q] \in {change[q], NoChange}
  BY <1>1
<1> QED BY <1>1, <1>7, <1>10, <1>12, <1>13, <1>14, WritesKeep

LEMMA ProvisionWritesKeeps ==
    ASSUME LinksInv, NEW r \in Requests, ProvisionWrites(r) PROVE LinksInv'
<1> USE DEF LinksInv
<1>1. /\ change' \in [Requests -> Change \cup {NoChange}]
      /\ \A q \in Requests : change'[q] = IF q = r THEN NoChange ELSE change[q]
      /\ UNCHANGED <<address, linkByEmail, met>>
  BY DoneIs DEF ProvisionWrites
<1>2. PICK c \in Change : c = change[r] /\ c.kind = "provision" /\ change[r] # NoChange
  BY ChangeIsOf DEF ProvisionWrites, Doing
<1>3. PICK u \in Users : u = c.user
  BY <1>2, ChangeIsOf
<1>4. PICK s \in Subjects : s = c.subject
  BY <1>2, ChangeIsOf
<1>5. Attending(r, u)
  BY <1>2, <1>3 DEF Attending
<1>6. \A q \in Requests : change'[q] \in {change[q], NoChange}
  BY <1>1
<1>7. CASE identity[s] = Nobody /\ ~Exists(u)
  <2>1. [password |-> FALSE, passkey |-> FALSE] \in Way
    BY DEF Way
  <2>2. /\ way' \in [Users -> Way \cup {NoUser}]
        /\ \A v \in Users : v # u => way'[v] = way[v]
        /\ way'[u] # NoUser
    BY <1>2, <1>3, <1>4, <1>7, <2>1, FederatedLinksAssumption DEF ProvisionWrites, FederatedLinksTypeOK, Ways
  <2>3. /\ identity' \in [Subjects -> Users \cup {Nobody}]
        /\ \A t \in Subjects : identity'[t] = IF t = s THEN u ELSE identity[t]
    BY <1>2, <1>3, <1>4, <1>7 DEF ProvisionWrites, FederatedLinksTypeOK, Links
  <2>4. FederatedLinksTypeOK'
    BY <1>1, <2>2, <2>3 DEF FederatedLinksTypeOK, Links, Ways
  <2>5. \A v \in Users \ {u} : LinksOf(v)' \subseteq LinksOf(v) /\ way'[v] = way[v]
    BY <2>2, <2>3 DEF LinksOf
  <2>6. u \notin met => \A q \in Requests : Attending(q, u) => q = r
    BY <1>5 DEF ReadingsStand
  <2>7. \A q \in Requests : \A v \in Users \ met : Attending(q, v) /\ change'[q] # NoChange =>
          LinksOf(v)' \subseteq LinksOf(v) /\ way'[v] = way[v]
    BY <1>1, <2>5, <2>6
  <2>8. OneLink(u)'
    <3>1. \A t \in Subjects : identity[t] # u
      BY <1>7, ServiceAssumption DEF Exists, FederatedLinksTypeOK
    <3> QED BY <2>3, <3>1 DEF OneLink, LinksOf
  <2>9. ~linkByEmail => \A v \in Users \ met : LinksOf(v)' \subseteq LinksOf(v) \/ OneLink(v)'
    BY <2>5, <2>8
  <2>10. \A q \in Requests : change'[q] # NoChange /\ change[q].kind \notin {"pass", "provision"} => Exists(change[q].user)'
    <3> SUFFICES ASSUME NEW q \in Requests, change'[q] # NoChange, change[q].kind \notin {"pass", "provision"}
                 PROVE  Exists(change[q].user)'
      OBVIOUS
    <3>1. change[q] # NoChange
      BY <1>1
    <3>2. PICK v \in Users : v = change[q].user
      BY <3>1, ChangeIsOf
    <3>3. Exists(v)
      BY <3>1, <3>2 DEF RowsAreThere
    <3>4. way'[v] # NoUser
      BY <3>3, <2>2 DEF Exists
    <3>5. change'[q] = change[q]
      BY <1>1
    <3> QED BY <3>2, <3>4, <3>5 DEF Exists
  <2> QED BY <1>1, <1>6, <2>4, <2>7, <2>9, <2>10, WritesKeep
<1>8. CASE ~(identity[s] = Nobody /\ ~Exists(u))
  <2>1. UNCHANGED <<way, identity>>
    BY <1>2, <1>3, <1>4, <1>8 DEF ProvisionWrites
  <2>2. \A v \in Users : LinksOf(v)' = LinksOf(v) /\ way'[v] = way[v]
    BY <2>1 DEF LinksOf
  <2>3. FederatedLinksTypeOK'
    BY <1>1, <2>1 DEF FederatedLinksTypeOK
  <2>4. \A q \in Requests : change'[q] # NoChange /\ change[q].kind \notin {"pass", "provision"} => Exists(change[q].user)'
    BY <1>1, <2>1 DEF RowsAreThere, Exists
  <2> QED BY <1>1, <1>6, <2>2, <2>3, <2>4, WritesKeep
<1> QED BY <1>7, <1>8

LEMMA UnlinkWritesKeeps ==
    ASSUME LinksInv, NEW r \in Requests, UnlinkWrites(r) PROVE LinksInv'
<1> USE DEF LinksInv
<1>1. /\ change' \in [Requests -> Change \cup {NoChange}]
      /\ \A q \in Requests : change'[q] = IF q = r THEN NoChange ELSE change[q]
      /\ UNCHANGED <<address, linkByEmail, met, way>>
  BY DoneIs DEF UnlinkWrites
<1>2. identity' \in [Subjects -> Users \cup {Nobody}] /\ \A t \in Subjects : identity'[t] \in {identity[t], Nobody}
  BY DEF UnlinkWrites, FederatedLinksTypeOK, Links
<1>3. FederatedLinksTypeOK'
  BY <1>1, <1>2 DEF FederatedLinksTypeOK, Links
<1>4. \A v \in Users : LinksOf(v)' \subseteq LinksOf(v) /\ way'[v] = way[v]
  BY <1>1, <1>2, ServiceAssumption DEF LinksOf
<1>5. \A q \in Requests : change'[q] # NoChange /\ change[q].kind \notin {"pass", "provision"} => Exists(change[q].user)'
  BY <1>1 DEF RowsAreThere, Exists
<1>6. \A q \in Requests : change'[q] \in {change[q], NoChange}
  BY <1>1
<1> QED BY <1>1, <1>3, <1>4, <1>5, <1>6, WritesKeep

LEMMA ReconcileUnlinksKeeps ==
    ASSUME LinksInv, NEW r \in Requests, ReconcileUnlinks(r) PROVE LinksInv'
<1> USE DEF LinksInv
<1>1. /\ change' \in [Requests -> Change \cup {NoChange}]
      /\ \A q \in Requests : change'[q] = IF q = r THEN NoChange ELSE change[q]
      /\ UNCHANGED <<address, linkByEmail, met, way>>
  BY DoneIs DEF ReconcileUnlinks
<1>2. identity' \in [Subjects -> Users \cup {Nobody}] /\ \A t \in Subjects : identity'[t] \in {identity[t], Nobody}
  BY DEF ReconcileUnlinks, FederatedLinksTypeOK, Links
<1>3. FederatedLinksTypeOK'
  BY <1>1, <1>2 DEF FederatedLinksTypeOK, Links
<1>4. \A v \in Users : LinksOf(v)' \subseteq LinksOf(v) /\ way'[v] = way[v]
  BY <1>1, <1>2, ServiceAssumption DEF LinksOf
<1>5. \A q \in Requests : change'[q] # NoChange /\ change[q].kind \notin {"pass", "provision"} => Exists(change[q].user)'
  BY <1>1 DEF RowsAreThere, Exists
<1>6. \A q \in Requests : change'[q] \in {change[q], NoChange}
  BY <1>1
<1> QED BY <1>1, <1>3, <1>4, <1>5, <1>6, WritesKeep

LEMMA EntranceWritesKeeps ==
    ASSUME LinksInv, NEW r \in Requests, EntranceWrites(r) PROVE LinksInv'
<1> USE DEF LinksInv
<1>1. /\ change' \in [Requests -> Change \cup {NoChange}]
      /\ \A q \in Requests : change'[q] = IF q = r THEN NoChange ELSE change[q]
      /\ UNCHANGED <<address, linkByEmail, met, identity>>
  BY DoneIs DEF EntranceWrites
<1>2. PICK c \in Change : c = change[r] /\ c.kind \in {"password", "add_key", "drop_key"} /\ change[r] # NoChange
  BY ChangeIsOf DEF EntranceWrites, Doing
<1>3. PICK u \in Users : u = c.user
  BY <1>2, ChangeIsOf
<1>4. Exists(u) /\ Attending(r, u)
  BY <1>2, <1>3 DEF RowsAreThere, Attending
<1>5. way[u] \in Way
  BY <1>4 DEF Exists, FederatedLinksTypeOK, Ways
<1>6. \A on \in BOOLEAN : [way[u] EXCEPT !.password = on] \in Way /\ [way[u] EXCEPT !.passkey = on] \in Way
  BY <1>5 DEF Way
<1>7. /\ way' \in [Users -> Way \cup {NoUser}]
      /\ \A v \in Users : v # u => way'[v] = way[v]
      /\ way'[u] \in Way
  <2>1. CASE c.kind = "password"
    <3>1. way' = [way EXCEPT ![u].password = TRUE]
      BY <2>1, <1>2, <1>3 DEF EntranceWrites
    <3> QED BY <3>1, <1>6 DEF FederatedLinksTypeOK, Ways
  <2>2. CASE c.kind = "add_key"
    <3>1. way' = [way EXCEPT ![u].passkey = TRUE]
      BY <2>2, <1>2, <1>3 DEF EntranceWrites
    <3> QED BY <3>1, <1>6 DEF FederatedLinksTypeOK, Ways
  <2>3. CASE c.kind = "drop_key"
    <3>1. way' = [way EXCEPT ![u].passkey = FALSE]
      BY <2>3, <1>2, <1>3 DEF EntranceWrites
    <3> QED BY <3>1, <1>6 DEF FederatedLinksTypeOK, Ways
  <2> QED BY <1>2, <2>1, <2>2, <2>3
<1>8. way'[u] # NoUser
  BY <1>7, FederatedLinksAssumption
<1>9. FederatedLinksTypeOK'
  <2>1. \A s \in Subjects : identity[s] # Nobody => way'[identity[s]] # NoUser
    <3> SUFFICES ASSUME NEW s \in Subjects, identity[s] # Nobody PROVE way'[identity[s]] # NoUser
      OBVIOUS
    <3>1. PICK v \in Users : v = identity[s]
      BY DEF FederatedLinksTypeOK, Links
    <3>2. way[v] # NoUser
      BY <3>1 DEF FederatedLinksTypeOK
    <3> QED BY <3>1, <3>2, <1>7, <1>8
  <2> QED BY <1>1, <1>7, <2>1 DEF FederatedLinksTypeOK, Ways
<1>10. u \notin met => \A q \in Requests : Attending(q, u) => q = r
  BY <1>4 DEF ReadingsStand
<1>11. \A q \in Requests : \A v \in Users \ met : Attending(q, v) /\ change'[q] # NoChange =>
         LinksOf(v)' \subseteq LinksOf(v) /\ way'[v] = way[v]
  BY <1>1, <1>7, <1>10 DEF LinksOf
<1>12. \A v \in Users \ met : LinksOf(v)' \subseteq LinksOf(v)
  BY <1>1 DEF LinksOf
<1>13. \A q \in Requests : change'[q] # NoChange /\ change[q].kind \notin {"pass", "provision"} => Exists(change[q].user)'
  <2> SUFFICES ASSUME NEW q \in Requests, change'[q] # NoChange, change[q].kind \notin {"pass", "provision"}
               PROVE  Exists(change[q].user)'
    OBVIOUS
  <2>1. change'[q] = change[q] /\ change[q] # NoChange
    BY <1>1
  <2>2. PICK v \in Users : v = change[q].user
    BY <2>1, ChangeIsOf
  <2>3. Exists(v)
    BY <2>1, <2>2 DEF RowsAreThere
  <2>4. way'[v] # NoUser
    BY <2>3, <1>7, <1>8 DEF Exists
  <2> QED BY <2>1, <2>2, <2>4 DEF Exists
<1>14. \A q \in Requests : change'[q] \in {change[q], NoChange}
  BY <1>1
<1> QED BY <1>1, <1>9, <1>11, <1>12, <1>13, <1>14, WritesKeep

LEMMA CreateSeatKeeps ==
    ASSUME LinksInv, NEW u \in Users, CreateSeat(u) PROVE LinksInv'
<1> USE DEF LinksInv
<1>1. UNCHANGED <<identity, address, linkByEmail, change, met>> /\ ~Exists(u)
  BY DEF CreateSeat
<1>2. [password |-> FALSE, passkey |-> FALSE] \in Way
  BY DEF Way
<1>3. /\ way' \in [Users -> Way \cup {NoUser}]
      /\ \A v \in Users : v # u => way'[v] = way[v]
      /\ way'[u] # NoUser
  BY <1>2, FederatedLinksAssumption DEF CreateSeat, FederatedLinksTypeOK, Ways
<1>4. FederatedLinksTypeOK'
  <2>1. \A s \in Subjects : identity[s] # Nobody => way'[identity[s]] # NoUser
    <3> SUFFICES ASSUME NEW s \in Subjects, identity[s] # Nobody PROVE way'[identity[s]] # NoUser
      OBVIOUS
    <3>1. PICK v \in Users : v = identity[s]
      BY DEF FederatedLinksTypeOK, Links
    <3>2. way[v] # NoUser
      BY <3>1 DEF FederatedLinksTypeOK
    <3> QED BY <3>1, <3>2, <1>3
  <2> QED BY <1>1, <1>3, <2>1 DEF FederatedLinksTypeOK, Ways
<1>5. \A q \in Requests : \A v \in Users \ met : Attending(q, v) /\ change'[q] # NoChange =>
        change[q].kind \notin {"attach", "link", "unlink"} \/ way'[v] = way[v]
  <2> SUFFICES ASSUME NEW q \in Requests, NEW v \in Users, Attending(q, v), change[q].kind \in {"attach", "link", "unlink"}
               PROVE  way'[v] = way[v]
    OBVIOUS
  <2>1. Exists(v)
    BY DEF RowsAreThere, Attending
  <2> QED BY <2>1, <1>1, <1>3
<1>6. \A v \in Users : LinksOf(v)' = LinksOf(v)
  BY <1>1 DEF LinksOf
<1>7. \A q \in Requests : change'[q] # NoChange /\ change[q].kind \notin {"pass", "provision"} => Exists(change[q].user)'
  <2> SUFFICES ASSUME NEW q \in Requests, change'[q] # NoChange, change[q].kind \notin {"pass", "provision"}
               PROVE  Exists(change[q].user)'
    OBVIOUS
  <2>1. change'[q] = change[q] /\ change[q] # NoChange
    BY <1>1
  <2>2. PICK v \in Users : v = change[q].user
    BY <2>1, ChangeIsOf
  <2>3. Exists(v)
    BY <2>1, <2>2 DEF RowsAreThere
  <2>4. way'[v] # NoUser
    BY <2>3, <1>3 DEF Exists
  <2> QED BY <2>1, <2>2, <2>4 DEF Exists
<1>8. \A q \in Requests : change'[q] \in {change[q], NoChange}
  BY <1>1
<1> QED BY <1>1, <1>4, <1>5, <1>6, <1>7, <1>8, WritesKeep

LEMMA DeleteUserKeeps ==
    ASSUME LinksInv, NEW u \in Users, DeleteUser(u) PROVE LinksInv'
<1> USE DEF LinksInv
<1>1. UNCHANGED <<address, linkByEmail, met>>
  BY DEF DeleteUser
<1>2. /\ way' \in [Users -> Way \cup {NoUser}]
      /\ \A v \in Users : way'[v] = IF v = u THEN NoUser ELSE way[v]
  BY DEF DeleteUser, FederatedLinksTypeOK, Ways
<1>3. /\ identity' \in [Subjects -> Users \cup {Nobody}]
      /\ \A s \in Subjects : identity'[s] = IF identity[s] = u THEN Nobody ELSE identity[s]
  BY DEF DeleteUser, FederatedLinksTypeOK, Links
<1>4. /\ change' \in [Requests -> Change \cup {NoChange}]
      /\ \A q \in Requests :
           /\ change'[q] \in {change[q], NoChange}
           /\ change'[q] # NoChange /\ change[q].kind \notin {"pass", "provision"} => change[q].user # u
  BY DEF DeleteUser, FederatedLinksTypeOK
<1>5. FederatedLinksTypeOK'
  BY <1>1, <1>2, <1>3, <1>4 DEF FederatedLinksTypeOK, Links, Ways
<1>6. \A v \in Users : LinksOf(v)' \subseteq LinksOf(v)
  BY <1>3, ServiceAssumption DEF LinksOf
<1>7. \A q \in Requests : \A v \in Users \ met : Attending(q, v) /\ change'[q] # NoChange =>
        change[q].kind \notin {"attach", "link", "unlink"} \/ way'[v] = way[v]
  BY <1>2, <1>4 DEF Attending
<1>8. \A q \in Requests : change'[q] # NoChange /\ change[q].kind \notin {"pass", "provision"} => Exists(change[q].user)'
  <2> SUFFICES ASSUME NEW q \in Requests, change'[q] # NoChange, change[q].kind \notin {"pass", "provision"}
               PROVE  Exists(change[q].user)'
    OBVIOUS
  <2>1. change'[q] = change[q] /\ change[q] # NoChange
    BY <1>4
  <2>2. PICK v \in Users : v = change[q].user
    BY <2>1, ChangeIsOf
  <2>3. Exists(v) /\ v # u
    BY <2>1, <2>2, <1>4 DEF RowsAreThere
  <2>4. way'[v] # NoUser
    BY <2>3, <1>2 DEF Exists
  <2> QED BY <2>1, <2>2, <2>4 DEF Exists
<1>9. \A q \in Requests : change'[q] \in {change[q], NoChange}
  BY <1>4
<1> QED BY <1>1, <1>5, <1>6, <1>7, <1>8, <1>9, WritesKeep

LEMMA LinksNextKeeps == LinksInv /\ [FederatedLinksNext]_linksVars => LinksInv'
<1> SUFFICES ASSUME LinksInv, [FederatedLinksNext]_linksVars PROVE LinksInv'
  OBVIOUS
<1>1. ASSUME NEW u \in Users, CreateSeat(u) \/ DeleteUser(u) PROVE LinksInv'
  BY <1>1, CreateSeatKeeps, DeleteUserKeeps
<1>2. ASSUME NEW r \in Requests, NEW s \in Subjects, ResolveUnknown(r, s) \/ \E u \in Users : CompleteLink(r, u, s)
      PROVE  LinksInv'
  BY <1>2, ResolveUnknownKeeps, CompleteLinkKeeps
<1>3. ASSUME NEW r \in Requests, NEW u \in Users,
             Unlink(r, u) \/ \E kind \in {"password", "add_key", "drop_key"} : ChangeEntrance(r, u, kind)
      PROVE  LinksInv'
  BY <1>3, UnlinkKeeps, ChangeEntranceKeeps
<1>4. ASSUME NEW r \in Requests, ReconcileReads(r) \/ LinkWrites(r) \/ ProvisionWrites(r) \/ UnlinkWrites(r)
                                 \/ EntranceWrites(r) \/ ReconcileUnlinks(r)
      PROVE  LinksInv'
  BY <1>4, ReconcileReadsKeeps, LinkWritesKeeps, ProvisionWritesKeeps, UnlinkWritesKeeps, EntranceWritesKeeps,
     ReconcileUnlinksKeeps
<1>5. CASE UNCHANGED linksVars
  <2>1. UNCHANGED <<identity, way, address, linkByEmail, change, met>>
    BY <1>5 DEF linksVars
  <2>2. FederatedLinksTypeOK' /\ RowsAreThere'
    BY <2>1 DEF LinksInv, FederatedLinksTypeOK, RowsAreThere, Exists
  <2>3. \A v : LinksOf(v)' = LinksOf(v)
    BY <2>1 DEF LinksOf
  <2>4. \A v : AwaitingOwner(v)' = AwaitingOwner(v) /\ HasOtherEntrance(v)' = HasOtherEntrance(v)
    BY <2>1, <2>3 DEF AwaitingOwner, HasOtherEntrance, Exists
  <2>5. \A q, v : Attending(q, v)' = Attending(q, v)
    BY <2>1 DEF Attending
  <2>6. ReadingsStand'
    BY <2>1, <2>3, <2>4, <2>5 DEF LinksInv, ReadingsStand
  <2>7. OneLinkOrMet'
    BY <2>1, <2>3 DEF LinksInv, OneLinkOrMet, OneLink
  <2> QED BY <2>2, <2>6, <2>7 DEF LinksInv
<1> QED BY <1>1, <1>2, <1>3, <1>4, <1>5 DEF FederatedLinksNext

LEMMA LinksInvIsOneEach == LinksInv => OneLinkEach
<1> SUFFICES ASSUME LinksInv, ~linkByEmail, NEW u \in Users \ met PROVE Cardinality(LinksOf(u)) <= 1
  BY DEF OneLinkEach
<1>1. \A s, t \in LinksOf(u) : s = t
  BY DEF LinksInv, OneLinkOrMet, OneLink
<1>2. CASE LinksOf(u) = {}
  BY <1>2, FS_EmptySet
<1>3. CASE LinksOf(u) # {}
  <2>1. PICK s \in LinksOf(u) : TRUE
    BY <1>3
  <2>2. LinksOf(u) = {s}
    <3> HIDE DEF LinksOf
    <3> QED BY <1>1, <2>1, Zenon
  <2>3. Cardinality({s}) = 1
    BY FS_Singleton
  <2> QED BY <2>2, <2>3
<1> QED BY <1>2, <1>3

\* One step: a link appears where there was none, or goes.
LEMMA LinksComeAndGo ==
    ASSUME LinksInv, FederatedLinksNext, NEW s \in Subjects PROVE identity[s] = Nobody \/ identity'[s] \in {identity[s], Nobody}
<1> USE DEF LinksInv, FederatedLinksTypeOK, Links
<1>1. ASSUME NEW u \in Users, CreateSeat(u) \/ DeleteUser(u)
      PROVE  identity'[s] \in {identity[s], Nobody}
  BY <1>1 DEF CreateSeat, DeleteUser
<1>2. ASSUME NEW r \in Requests, NEW c, Reads(r, c)
      PROVE  identity' = identity
  BY <1>2 DEF Reads
<1>3. ASSUME NEW r \in Requests, \/ \E t \in Subjects : ResolveUnknown(r, t) \/ \E u \in Users : CompleteLink(r, u, t)
                                 \/ \E u \in Users : \/ Unlink(r, u)
                                                     \/ \E kind \in {"password", "add_key", "drop_key"} : ChangeEntrance(r, u, kind)
                                 \/ ReconcileReads(r)
      PROVE  identity' = identity
  BY <1>3, <1>2 DEF ResolveUnknown, CompleteLink, Unlink, ChangeEntrance, ReconcileReads
<1>4. ASSUME NEW r \in Requests, LinkWrites(r)
      PROVE  identity[s] = Nobody \/ identity'[s] = identity[s]
  BY <1>4 DEF LinkWrites, CanLink
<1>5. ASSUME NEW r \in Requests, ProvisionWrites(r)
      PROVE  identity[s] = Nobody \/ identity'[s] = identity[s]
  BY <1>5 DEF ProvisionWrites
<1>6. ASSUME NEW r \in Requests, UnlinkWrites(r) \/ EntranceWrites(r) \/ ReconcileUnlinks(r)
      PROVE  identity'[s] \in {identity[s], Nobody}
  BY <1>6 DEF UnlinkWrites, EntranceWrites, ReconcileUnlinks
<1> QED BY <1>1, <1>3, <1>4, <1>5, <1>6 DEF FederatedLinksNext

LEMMA ClaimsFindNobodyIn ==
    ASSUME LinksInv, NEW r \in Requests, Doing(r, "attach"), ~linkByEmail, change[r].user \notin met
    PROVE  AwaitingOwner(change[r].user)
<1>1. PICK u \in Users : u = change[r].user
  BY ChangeIsOf DEF Doing, LinksInv
<1>2. Attending(r, u) /\ change[r].kind = "attach"
  BY <1>1 DEF Attending, Doing
<1> QED BY <1>1, <1>2 DEF LinksInv, ReadingsStand

LEMMA WhoUnlinksHasAWayIn ==
    ASSUME LinksInv, NEW r \in Requests, UnlinkWrites(r), change[r].user \notin met
    PROVE  HasOtherEntrance(change[r].user)
<1>1. PICK u \in Users : u = change[r].user
  BY ChangeIsOf DEF UnlinkWrites, Doing, LinksInv
<1>2. Attending(r, u) /\ change[r].kind = "unlink"
  BY <1>1 DEF Attending, UnlinkWrites, Doing
<1> QED BY <1>1, <1>2 DEF LinksInv, ReadingsStand

\* A link joins one person and one account of the provider and never goes from
\* one user to another; a seat is claimed only while nobody has a way into it,
\* and whoever unlinks keeps a way in, requests on the same user overlapping
\* aside -- for any number of users, accounts and requests.
THEOREM LinksStayWithTheirOwners == FederatedLinksSpec => FederatedLinksHold
<1>1. LinksInv /\ [FederatedLinksNext]_linksVars =>
        [\A s \in Subjects : identity[s] # Nobody /\ identity'[s] # Nobody => identity'[s] = identity[s]]_linksVars
  BY LinksComeAndGo
<1>2. LinksInv /\ [FederatedLinksNext]_linksVars =>
        [\A r \in Requests :
           Doing(r, "attach") /\ LinkWrites(r) /\ ~linkByEmail /\ identity' # identity /\ change[r].user \notin met =>
               AwaitingOwner(change[r].user)]_linksVars
  BY ClaimsFindNobodyIn
<1>3. LinksInv /\ [FederatedLinksNext]_linksVars =>
        [\A r \in Requests : UnlinkWrites(r) /\ change[r].user \notin met => HasOtherEntrance(change[r].user)]_linksVars
  BY WhoUnlinksHasAWayIn
<1> QED BY LinksInit, LinksNextKeeps, LinksInvIsOneEach, <1>1, <1>2, <1>3, PTL
        DEF FederatedLinksSpec, FederatedLinksHold, NoHandover, SeatsAreClaimedEmpty, UnlinkKeepsAWayIn

-----------------------------------------------------------------------------
(* RoundTrips.                                                              *)

CameInByNow == \A u \in Users : entered[u] <= now

\* What is handled is under way until it has landed.
LandingIsUnderWay == landing # NoTrip => UnderWay(landing.trip)

Renewing(t) == UnderWay(t) /\ trip[t].purpose = "renew"

\* A renewal carries nobody, or somebody with a time they did come in by.
Carried(x) ==
    \/ x.user = Nobody /\ x.since = Never
    \/ x.user \in Users /\ x.since \in Time /\ x.since <= entered[x.user]
RenewalsAreOfOld == \A t \in Trips : Renewing(t) => Carried(trip[t])

\* A renewal nothing came between carries the session of the browser.
Continues(x) == login # NoLogin /\ login.sso => x.user = login.user /\ x.role = login.role /\ x.since = login.since
RenewalsKnowTheSession == \A t \in Trips \ disturbed : Renewing(t) => Continues(trip[t])

TripsInv ==
    /\ RoundTripsTypeOK /\ now \in Time
    /\ CameInByNow /\ LandingIsUnderWay /\ RenewalsAreOfOld /\ RenewalsKnowTheSession
    /\ ContinuingIsNotSigningIn /\ LinksAreMeant

LEMMA TripsNulls ==
    /\ \A x \in Transaction : x # NoTrip /\ x # Over
    /\ \A t \in Trips : t # NoTrip /\ t # Over
    /\ \A x \in Landing : x # NoTrip
    /\ \A x \in Login : x # NoLogin
BY RoundTripsAssumption

LEMMA TripsInit == RoundTripsInit => TripsInv
<1> SUFFICES ASSUME RoundTripsInit PROVE TripsInv
  OBVIOUS
<1>1. now \in Time /\ CameInByNow
  BY ServiceAssumption DEF RoundTripsInit, Time, CameInByNow, Never
<1>2. \A t \in Trips : ~UnderWay(t)
  BY DEF RoundTripsInit, UnderWay
<1>3. RoundTripsTypeOK
  BY DEF RoundTripsInit, RoundTripsTypeOK
<1>4. LandingIsUnderWay /\ RenewalsAreOfOld /\ RenewalsKnowTheSession
  BY <1>2 DEF RoundTripsInit, LandingIsUnderWay, RenewalsAreOfOld, RenewalsKnowTheSession, Renewing
<1>5. ContinuingIsNotSigningIn /\ LinksAreMeant
  BY DEF RoundTripsInit, ContinuingIsNotSigningIn, LinksAreMeant
<1> QED BY <1>1, <1>3, <1>4, <1>5 DEF TripsInv

\* Trips go on or land, and the session is as it was, or all trips are disturbed.
LEMMA StepKeeps ==
    ASSUME TripsInv, RoundTripsTypeOK', now' \in Time,
           \A u \in Users : entered[u] <= entered'[u] /\ entered'[u] <= now',
           \A t \in Trips : trip'[t] \in {trip[t], Over},
           LandingIsUnderWay', ContinuingIsNotSigningIn', LinksAreMeant',
           \/ \A t \in Trips : UnderWay(t) => t \in disturbed'
           \/ /\ disturbed' = disturbed
              /\ \A x \in Transaction : Continues(x) => Continues(x)'
    PROVE  TripsInv'
<1>1. CameInByNow'
  BY DEF CameInByNow
<1>2. \A t \in Trips : Renewing(t)' => Renewing(t) /\ trip'[t] = trip[t] /\ trip[t] \in Transaction
  <2> SUFFICES ASSUME NEW t \in Trips, Renewing(t)' PROVE Renewing(t) /\ trip'[t] = trip[t] /\ trip[t] \in Transaction
    OBVIOUS
  <2>1. trip'[t] = trip[t]
    BY DEF Renewing, UnderWay
  <2>2. Renewing(t)
    BY <2>1 DEF Renewing, UnderWay
  <2> QED BY <2>1, <2>2 DEF Renewing, UnderWay, TripsInv, RoundTripsTypeOK
<1>3. RenewalsAreOfOld'
  <2> SUFFICES ASSUME NEW t \in Trips, Renewing(t)' PROVE Carried(trip[t])'
    BY DEF RenewalsAreOfOld
  <2>1. PICK x \in Transaction : x = trip[t] /\ trip'[t] = x /\ Renewing(t)
    BY <1>2
  <2>2. Carried(x)
    BY <2>1 DEF TripsInv, RenewalsAreOfOld
  <2>3. CASE x.user = Nobody /\ x.since = Never
    BY <2>1, <2>3 DEF Carried
  <2>4. CASE x.user \in Users /\ x.since \in Time /\ x.since <= entered[x.user]
    <3>1. PICK u \in Users : u = x.user
      BY <2>4
    <3>2. PICK n \in Time : n = x.since
      BY <2>4
    <3>3. entered[u] \in Int /\ entered'[u] \in Int
      BY DEF TripsInv, RoundTripsTypeOK, Time, Never
    <3>4. n <= entered'[u]
      BY <2>4, <3>1, <3>2, <3>3 DEF Time
    <3> QED BY <2>1, <3>1, <3>2, <3>4 DEF Carried
  <2> QED BY <2>2, <2>3, <2>4 DEF Carried
<1>4. RenewalsKnowTheSession'
  <2> SUFFICES ASSUME NEW t \in Trips, t \notin disturbed', Renewing(t)' PROVE Continues(trip[t])'
    BY DEF RenewalsKnowTheSession
  <2>1. PICK x \in Transaction : x = trip[t] /\ trip'[t] = x /\ Renewing(t)
    BY <1>2
  <2>2. disturbed' = disturbed /\ (Continues(x) => Continues(x)')
    BY <2>1 DEF Renewing
  <2>3. Continues(x)
    BY <2>1, <2>2 DEF TripsInv, RenewalsKnowTheSession
  <2> QED BY <2>1, <2>2, <2>3 DEF Continues
<1> QED BY <1>1, <1>3, <1>4 DEF TripsInv

\* Another trip sets out, carrying the session if it is to continue it.
LEMMA SetsOutKeeps ==
    ASSUME TripsInv, NEW t \in Trips, NEW x \in Transaction, SetsOut(t, x),
           x.purpose = "renew" => Carried(x) /\ Continues(x)
    PROVE  TripsInv'
<1>1. /\ trip' \in [Trips -> Transaction \cup {NoTrip, Over}]
      /\ \A s \in Trips : trip'[s] = IF s = t THEN x ELSE trip[s]
      /\ cookie' = t /\ trip[t] = NoTrip
      /\ UNCHANGED <<now, login, answer, atProvider, holds, landing, handoffs, joined, entered, disturbed>>
  BY DEF SetsOut, TripsInv, RoundTripsTypeOK
<1>2. UnderWay(t)' /\ ~UnderWay(t)
  BY <1>1, TripsNulls DEF UnderWay
<1>3. \A s \in Trips : UnderWay(s)' <=> s = t \/ UnderWay(s)
  BY <1>1, <1>2 DEF UnderWay
<1>4. RoundTripsTypeOK'
  BY <1>1, <1>2 DEF TripsInv, RoundTripsTypeOK
<1>5. LandingIsUnderWay'
  <2>1. landing # NoTrip => landing.trip \in Trips
    BY DEF TripsInv, RoundTripsTypeOK, Landing
  <2> QED BY <2>1, <1>1, <1>3 DEF TripsInv, LandingIsUnderWay, UnderWay
<1>6. RenewalsAreOfOld'
  BY <1>1, <1>3 DEF TripsInv, RenewalsAreOfOld, Renewing, Carried, UnderWay
<1>7. RenewalsKnowTheSession'
  BY <1>1, <1>3 DEF TripsInv, RenewalsKnowTheSession, Renewing, Continues, UnderWay
<1>8. now' \in Time /\ CameInByNow' /\ ContinuingIsNotSigningIn' /\ LinksAreMeant'
  BY <1>1 DEF TripsInv, CameInByNow, ContinuingIsNotSigningIn, LinksAreMeant
<1> QED BY <1>4, <1>5, <1>6, <1>7, <1>8 DEF TripsInv

LEMMA EnteredGrows ==
    ASSUME TripsInv, entered' = entered \/ \E u \in Users : entered' = [entered EXCEPT ![u] = now]
    PROVE  /\ entered' \in [Users -> Time \cup {Never}]
           /\ \A v \in Users : entered[v] <= entered'[v] /\ entered'[v] <= now
<1>1. /\ entered \in [Users -> Time \cup {Never}] /\ now \in Time
      /\ \A v \in Users : entered[v] \in Int /\ entered[v] <= now
  BY DEF TripsInv, RoundTripsTypeOK, CameInByNow, Time, Never
<1>2. CASE entered' = entered
  BY <1>1, <1>2
<1>3. ASSUME NEW u \in Users, entered' = [entered EXCEPT ![u] = now]
      PROVE  /\ entered' \in [Users -> Time \cup {Never}]
             /\ \A v \in Users : entered[v] <= entered'[v] /\ entered'[v] <= now
  <2>1. \A v \in Users : entered'[v] = IF v = u THEN now ELSE entered[v]
    BY <1>1, <1>3
  <2>2. now <= now
    BY <1>1 DEF Time
  <2>3. entered' \in [Users -> Time \cup {Never}]
    BY <1>1, <1>3
  <2> QED BY <1>1, <2>1, <2>2, <2>3
<1> QED BY <1>2, <1>3

\* The session is written over, or given up.
LEMMA EstablishKeeps ==
    ASSUME TripsInv, NEW x \in Login \cup {NoLogin}, Establish(x),
           UNCHANGED <<now, cookie, trip, answer, atProvider, holds, landing, joined>>, handoffs' \subseteq handoffs,
           entered' = entered \/ \E u \in Users : entered' = [entered EXCEPT ![u] = now],
           x # NoLogin => x.since <= entered'[x.user]
    PROVE  TripsInv'
<1>1. login' = x /\ disturbed' = {t \in Trips : UnderWay(t)}
  BY DEF Establish
<1>2. /\ entered' \in [Users -> Time \cup {Never}]
      /\ \A v \in Users : entered[v] <= entered'[v] /\ entered'[v] <= now
  BY EnteredGrows
<1>3. x # NoLogin => x.since <= now
  <2> SUFFICES ASSUME x # NoLogin PROVE x.since <= now
    OBVIOUS
  <2>1. x.since \in Time /\ x.user \in Users
    BY DEF Login
  <2>2. PICK u \in Users : u = x.user
    BY <2>1
  <2>3. entered'[u] \in Time \cup {Never} /\ entered'[u] <= now /\ x.since <= entered'[u]
    BY <1>2, <2>2
  <2>4. now \in Time
    BY DEF TripsInv
  <2> QED BY <2>1, <2>3, <2>4 DEF Time, Never
<1>4. \A t \in Trips : UnderWay(t)' <=> UnderWay(t)
  BY DEF UnderWay
<1>5. RoundTripsTypeOK'
  BY <1>1, <1>2, <1>3, <1>4 DEF TripsInv, RoundTripsTypeOK, UnderWay
<1>6. \A t \in Trips : UnderWay(t) => t \in disturbed'
  BY <1>1
<1>7. LandingIsUnderWay' /\ LinksAreMeant' /\ now' \in Time
  BY DEF TripsInv, LandingIsUnderWay, LinksAreMeant, UnderWay
<1>8. ContinuingIsNotSigningIn'
  BY <1>1 DEF ContinuingIsNotSigningIn
<1>9. \A t \in Trips : trip'[t] \in {trip[t], Over}
  OBVIOUS
<1>10. \A v \in Users : entered[v] <= entered'[v] /\ entered'[v] <= now'
  BY <1>2
<1> QED BY <1>5, <1>6, <1>7, <1>8, <1>9, <1>10, StepKeeps

LEMMA FreshIs ==
    ASSUME TripsInv, NEW u \in Users, NEW sso \in BOOLEAN
    PROVE  Fresh(u, sso) \in Login /\ Fresh(u, sso).user = u /\ Fresh(u, sso).since = now
           /\ Fresh(u, sso) \notin {NoLogin}
<1>1. now \in Time
  BY DEF TripsInv
<1>2. Fresh(u, sso) \in Login
  BY <1>1 DEF Fresh, Login
<1> QED BY <1>2, TripsNulls DEF Fresh

LEMMA EntersKeeps ==
    ASSUME TripsInv, NEW u \in Users, EntersLocally(u) \/ ExchangesHandoff(u) PROVE TripsInv'
<1>1. PICK sso \in BOOLEAN : Establish(Fresh(u, sso))
  BY DEF EntersLocally, ExchangesHandoff
<1>2. PICK x \in Login : x = Fresh(u, sso) /\ x.user = u /\ x.since = now
  BY FreshIs
<1>3. /\ UNCHANGED <<now, cookie, trip, answer, atProvider, holds, landing, joined>> /\ handoffs' \subseteq handoffs
      /\ entered' = [entered EXCEPT ![u] = now]
  BY DEF EntersLocally, ExchangesHandoff
<1>4. x.since <= entered'[x.user]
  <2>1. entered \in [Users -> Time \cup {Never}] /\ now \in Time
    BY DEF TripsInv, RoundTripsTypeOK
  <2>2. entered'[u] = now
    BY <1>3, <2>1
  <2>3. now <= now
    BY <2>1 DEF Time
  <2> QED BY <1>2, <2>2, <2>3
<1> QED BY <1>1, <1>2, <1>3, <1>4, EstablishKeeps

LEMMA SignsOutKeeps == ASSUME TripsInv, SignsOut PROVE TripsInv'
BY EstablishKeeps DEF SignsOut

LEMMA ViewerIs ==
    ASSUME RoundTripsTypeOK
    PROVE  /\ Viewer \in Users \cup {Nobody}
           /\ Viewer # Nobody => login # NoLogin /\ login \in Login /\ login.user = Viewer
BY DEF RoundTripsTypeOK, Viewer, Login

LEMMA SwitchesRoleKeeps ==
    ASSUME TripsInv, NEW role \in Roles \cup {AllRoles}, SwitchesRole(role) PROVE TripsInv'
<1>1. login \in Login /\ login # NoLogin
  BY ViewerIs DEF SwitchesRole, TripsInv
<1>2. PICK x : x = [login EXCEPT !.role = role]
  OBVIOUS
<1>3. x \in Login /\ x.user = login.user /\ x.since = login.since
  BY <1>1, <1>2 DEF Login
<1>4. /\ UNCHANGED <<now, cookie, trip, answer, atProvider, holds, landing, joined>> /\ handoffs' \subseteq handoffs
      /\ entered' = entered /\ Establish(x)
  BY <1>2 DEF SwitchesRole
<1>5. login.since <= entered[login.user]
  BY <1>1 DEF TripsInv, ContinuingIsNotSigningIn
<1>6. x.since <= entered'[x.user]
  BY <1>3, <1>4, <1>5
<1> QED BY <1>3, <1>4, <1>6, EstablishKeeps

\* The token of the session runs out, or its cookie: less than it was.
LEMMA ExpiresKeeps == ASSUME TripsInv, TokenExpires \/ CookieExpires PROVE TripsInv'
<1>1. UNCHANGED <<now, cookie, trip, answer, atProvider, holds, landing, handoffs, joined, entered, disturbed>>
  BY DEF TokenExpires, CookieExpires
<1>2. \/ login' = NoLogin
      \/ /\ login \in Login /\ login' \in Login /\ login'.user = login.user /\ login'.since = login.since
         /\ login'.role = login.role /\ login'.sso = login.sso
  <2>1. CASE TokenExpires
    <3>1. login \in Login
      BY <2>1, ViewerIs DEF TokenExpires, TripsInv
    <3>2. login' = [login EXCEPT !.live = FALSE] \/ login' = NoLogin
      BY <2>1 DEF TokenExpires
    <3> QED BY <3>1, <3>2 DEF Login
  <2> QED BY <2>1 DEF CookieExpires
<1>3. login # NoLogin => login.since <= now /\ login.since <= entered[login.user]
  BY DEF TripsInv, RoundTripsTypeOK, ContinuingIsNotSigningIn
<1>4. login' # NoLogin => login # NoLogin /\ login'.since <= now /\ login'.since <= entered[login'.user]
  BY <1>2, <1>3, TripsNulls
<1>5. \A t \in Trips : UnderWay(t)' <=> UnderWay(t)
  BY <1>1 DEF UnderWay
<1>6. RoundTripsTypeOK'
  BY <1>1, <1>2, <1>4, <1>5 DEF TripsInv, RoundTripsTypeOK, UnderWay
<1>7. \A y \in Transaction : Continues(y) => Continues(y)'
  BY <1>2, <1>4 DEF Continues
<1>8. LandingIsUnderWay' /\ LinksAreMeant' /\ now' \in Time
  BY <1>1 DEF TripsInv, LandingIsUnderWay, LinksAreMeant, UnderWay
<1>9. ContinuingIsNotSigningIn'
  BY <1>1, <1>4 DEF ContinuingIsNotSigningIn
<1>10. \A t \in Trips : trip'[t] \in {trip[t], Over}
  BY <1>1
<1>11. \A u \in Users : entered[u] <= entered'[u] /\ entered'[u] <= now'
  BY <1>1, EnteredGrows
<1> QED BY <1>1, <1>6, <1>7, <1>8, <1>9, <1>10, <1>11, StepKeeps

\* What leaves the session, the trips and the history alone.
LEMMA QuietKeeps ==
    ASSUME TripsInv, UNCHANGED <<login, cookie, trip, joined, entered, disturbed>>,
           RoundTripsTypeOK', LandingIsUnderWay', now' = now \/ RoundTripsTick
    PROVE  TripsInv'
<1>1. now' \in Time /\ \A u \in Users : entered[u] <= entered'[u] /\ entered'[u] <= now'
  <2>1. now \in Time /\ now' \in Time /\ now <= now'
    BY ServiceAssumption DEF TripsInv, RoundTripsTick, Tick, Time
  <2>2. \A u \in Users : entered[u] \in Int /\ entered[u] <= now
    BY DEF TripsInv, RoundTripsTypeOK, CameInByNow, Time, Never
  <2> QED BY <2>1, <2>2 DEF Time
<1>2. ContinuingIsNotSigningIn' /\ LinksAreMeant'
  BY DEF TripsInv, ContinuingIsNotSigningIn, LinksAreMeant
<1>3. \A x \in Transaction : Continues(x) => Continues(x)'
  BY DEF Continues
<1>4. \A t \in Trips : trip'[t] \in {trip[t], Over}
  OBVIOUS
<1> QED BY <1>1, <1>2, <1>3, <1>4, StepKeeps

LEMMA TicksKeepTrips == ASSUME TripsInv, RoundTripsTick PROVE TripsInv'
<1>1. UNCHANGED <<browser, holds, joined, entered, disturbed>>
  BY DEF RoundTripsTick
<1>2. UNCHANGED <<login, cookie, trip, answer, atProvider, holds, landing, handoffs, joined, entered, disturbed>>
  BY <1>1 DEF browser
<1>3. login # NoLogin => login.since <= now'
  <2>1. login # NoLogin => login.since \in Time /\ login.since <= now
    BY DEF TripsInv, RoundTripsTypeOK, Login
  <2>2. now \in Time /\ now' = now + 1
    BY DEF TripsInv, RoundTripsTick, Tick
  <2> QED BY <2>1, <2>2 DEF Time
<1>4. RoundTripsTypeOK'
  BY <1>2, <1>3 DEF TripsInv, RoundTripsTypeOK, UnderWay
<1>5. LandingIsUnderWay'
  BY <1>2 DEF TripsInv, LandingIsUnderWay, UnderWay
<1> QED BY <1>2, <1>4, <1>5, QuietKeeps

LEMMA OutsideKeeps ==
    ASSUME TripsInv, \/ \E u \in Users, role \in Roles : LosesRole(u, role)
                     \/ \E p \in Persons \cup {Nobody} : ChangesPerson(p)
                     \/ \E t \in Trips : ProviderAnswers(t)
    PROVE  TripsInv'
<1>1. UNCHANGED <<now, login, cookie, trip, landing, handoffs, joined, entered, disturbed>>
  BY DEF LosesRole, ChangesPerson, ProviderAnswers, browser
<1>2. /\ holds' \in [Users -> SUBSET Roles] /\ atProvider' \in Persons \cup {Nobody}
      /\ answer' \in [Trips -> Persons \cup {Nobody, "sent"}]
  <2>1. ASSUME NEW u \in Users, NEW role \in Roles, LosesRole(u, role)
        PROVE  holds' \in [Users -> SUBSET Roles] /\ UNCHANGED <<atProvider, answer>>
    BY <2>1 DEF LosesRole, browser, TripsInv, RoundTripsTypeOK
  <2>2. ASSUME NEW p \in Persons \cup {Nobody}, ChangesPerson(p)
        PROVE  atProvider' \in Persons \cup {Nobody} /\ UNCHANGED <<holds, answer>>
    BY <2>2 DEF ChangesPerson
  <2>3. ASSUME NEW t \in Trips, ProviderAnswers(t)
        PROVE  answer' \in [Trips -> Persons \cup {Nobody, "sent"}] /\ UNCHANGED <<holds, atProvider>>
    BY <2>3 DEF ProviderAnswers, TripsInv, RoundTripsTypeOK
  <2> QED BY <2>1, <2>2, <2>3 DEF TripsInv, RoundTripsTypeOK
<1>3. RoundTripsTypeOK'
  BY <1>1, <1>2 DEF TripsInv, RoundTripsTypeOK, UnderWay
<1>4. LandingIsUnderWay'
  BY <1>1 DEF TripsInv, LandingIsUnderWay, UnderWay
<1> QED BY <1>1, <1>3, <1>4, QuietKeeps

LEMMA ArrivesKeeps == ASSUME TripsInv, NEW t \in Trips, CallbackArrives(t) PROVE TripsInv'
<1>1. /\ UNCHANGED <<now, login, cookie, trip, answer, atProvider, holds, handoffs, joined, entered, disturbed>>
      /\ landing' = [trip |-> t, tx |-> cookie, viewer |-> Viewer] /\ UnderWay(t)
  BY DEF CallbackArrives
<1>2. landing' \in Landing /\ landing'.trip = t
  BY <1>1, ViewerIs DEF TripsInv, RoundTripsTypeOK, Landing
<1>3. RoundTripsTypeOK'
  BY <1>1, <1>2 DEF TripsInv, RoundTripsTypeOK, UnderWay
<1>4. LandingIsUnderWay'
  BY <1>1, <1>2 DEF LandingIsUnderWay, UnderWay
<1> QED BY <1>1, <1>3, <1>4, QuietKeeps

LEMMA StartLoginKeeps == ASSUME TripsInv, NEW t \in Trips, StartLogin(t) \/ StartLink(t) PROVE TripsInv'
<1>1. PICK u \in Users \cup {Nobody} : SetsOut(t, TransactionOfLogin) \/ SetsOut(t, TransactionOfLink(u))
  BY ViewerIs DEF StartLogin, StartLink, TripsInv
<1>2. /\ TransactionOfLogin \in Transaction /\ TransactionOfLogin.purpose = "login"
      /\ TransactionOfLink(u) \in Transaction /\ TransactionOfLink(u).purpose = "link"
  BY DEF TransactionOfLogin, TransactionOfLink, Transaction
<1> QED BY <1>1, <1>2, SetsOutKeeps

LEMMA StartRenewalKeeps == ASSUME TripsInv, NEW t \in Trips, StartRenewal(t) PROVE TripsInv'
<1>1. CASE login # NoLogin /\ login.sso
  <2>1. login \in Login /\ login.user \in Users /\ login.since \in Time /\ login.role \in Roles \cup {AllRoles}
    BY <1>1 DEF TripsInv, RoundTripsTypeOK, Login
  <2>2. PICK x : x = [purpose |-> "renew", user |-> login.user, role |-> login.role, since |-> login.since]
    OBVIOUS
  <2>3. SetsOut(t, x)
    BY <1>1, <2>2 DEF StartRenewal, TransactionOfRenewal, Continued
  <2>4. x \in Transaction /\ x.user = login.user /\ x.role = login.role /\ x.since = login.since
    BY <2>1, <2>2 DEF Transaction
  <2>5. Continues(x)
    BY <2>4 DEF Continues
  <2>6. login.since <= entered[login.user]
    BY <1>1 DEF TripsInv, ContinuingIsNotSigningIn
  <2>7. Carried(x)
    BY <2>1, <2>4, <2>6 DEF Carried
  <2> QED BY <2>3, <2>4, <2>5, <2>7, SetsOutKeeps
<1>2. CASE ~(login # NoLogin /\ login.sso)
  <2>1. PICK x : x = [TransactionOfLogin EXCEPT !.purpose = "renew"]
    OBVIOUS
  <2>2. SetsOut(t, x)
    BY <1>2, <2>1 DEF StartRenewal, TransactionOfRenewal, Continued
  <2>3. x \in Transaction /\ x.user = Nobody /\ x.since = Never
    BY <2>1 DEF Transaction, TransactionOfLogin
  <2>4. Continues(x)
    BY <1>2 DEF Continues
  <2>5. Carried(x)
    BY <2>3 DEF Carried
  <2> QED BY <2>2, <2>3, <2>4, <2>5, SetsOutKeeps
<1> QED BY <1>1, <1>2

\* However it ends, trips are over and the cookie is gone.
LEMMA LandsIs ==
    ASSUME RoundTripsTypeOK, Lands
    PROVE  /\ cookie' = NoTrip /\ landing' = NoTrip
           /\ trip' \in [Trips -> Transaction \cup {NoTrip, Over}]
           /\ answer' \in [Trips -> Persons \cup {Nobody, "sent"}]
           /\ \A t \in Trips : trip'[t] \in {trip[t], Over}
BY DEF RoundTripsTypeOK, Lands

LEMMA LandingsKeep ==
    ASSUME TripsInv, Lands, UNCHANGED <<now, atProvider, holds>>,
           login' \in Login \cup {NoLogin}, login' # NoLogin => login'.since <= now,
           handoffs' \subseteq Users, joined' \in [user: Users, starter: Users] \cup {NoTrip},
           entered' = entered \/ \E u \in Users : entered' = [entered EXCEPT ![u] = now],
           disturbed' \subseteq Trips, LinksAreMeant', ContinuingIsNotSigningIn',
           \/ \A t \in Trips : UnderWay(t) => t \in disturbed'
           \/ UNCHANGED <<login, disturbed>>
    PROVE  TripsInv'
<1>1. /\ cookie' = NoTrip /\ landing' = NoTrip
      /\ trip' \in [Trips -> Transaction \cup {NoTrip, Over}]
      /\ answer' \in [Trips -> Persons \cup {Nobody, "sent"}]
      /\ \A t \in Trips : trip'[t] \in {trip[t], Over}
  BY LandsIs DEF TripsInv
<1>2. /\ entered' \in [Users -> Time \cup {Never}]
      /\ \A v \in Users : entered[v] <= entered'[v] /\ entered'[v] <= now'
  BY EnteredGrows
<1>3. RoundTripsTypeOK'
  BY <1>1, <1>2 DEF TripsInv, RoundTripsTypeOK
<1>4. LandingIsUnderWay' /\ now' \in Time
  BY <1>1 DEF LandingIsUnderWay, TripsInv
<1>5. login' = login => \A x \in Transaction : Continues(x) => Continues(x)'
  BY DEF Continues
<1> QED BY <1>1, <1>2, <1>3, <1>4, <1>5, StepKeeps

\* A return that is taken for its trip's is, and the code stands for a person.
LEMMA MatchingIs ==
    ASSUME TripsInv, landing # NoTrip, Matches(landing)
    PROVE  /\ landing.trip \in Trips /\ landing.tx = landing.trip /\ answer[landing.trip] \in Users
           /\ trip[landing.trip] \in Transaction /\ UnderWay(landing.trip)
           /\ Purpose(landing) = trip[landing.trip].purpose
<1>1. landing \in Landing /\ landing.trip \in Trips /\ UnderWay(landing.trip)
  BY DEF TripsInv, RoundTripsTypeOK, LandingIsUnderWay, Landing
<1>2. landing.tx = landing.trip /\ answer[landing.trip] \in Users
  BY DEF Matches, Persons
<1>3. trip[landing.trip] \in Transaction
  BY <1>1 DEF TripsInv, RoundTripsTypeOK, UnderWay
<1>4. Purpose(landing) = trip[landing.trip].purpose
  BY <1>1, <1>2, TripsNulls DEF Purpose
<1> QED BY <1>1, <1>2, <1>3, <1>4

LEMMA SessionStays ==
    ASSUME TripsInv, UNCHANGED <<now, login, entered, disturbed>>
    PROVE  /\ login' \in Login \cup {NoLogin} /\ (login' # NoLogin => login'.since <= now)
           /\ disturbed' \subseteq Trips /\ ContinuingIsNotSigningIn'
BY DEF TripsInv, RoundTripsTypeOK, ContinuingIsNotSigningIn

LEMMA FailsKeeps == ASSUME TripsInv, CallbackFails PROVE TripsInv'
<1>1. Lands /\ joined' = NoTrip /\ UNCHANGED <<now, login, atProvider, holds, handoffs, entered, disturbed>>
  BY DEF CallbackFails
<1>2. handoffs' \subseteq Users /\ LinksAreMeant'
  BY <1>1 DEF TripsInv, RoundTripsTypeOK, LinksAreMeant
<1> QED BY <1>1, <1>2, SessionStays, LandingsKeep

LEMMA CompletesLoginKeeps == ASSUME TripsInv, CompletesLogin PROVE TripsInv'
<1>1. /\ Lands /\ joined' = NoTrip /\ UNCHANGED <<now, login, atProvider, holds, entered, disturbed>>
      /\ landing # NoTrip /\ Matches(landing) /\ handoffs' = handoffs \cup {answer[landing.trip]}
  BY DEF CompletesLogin
<1>2. handoffs' \subseteq Users
  BY <1>1, MatchingIs DEF TripsInv, RoundTripsTypeOK
<1>3. LinksAreMeant'
  BY <1>1 DEF LinksAreMeant
<1> QED BY <1>1, <1>2, <1>3, SessionStays, LandingsKeep

LEMMA CompletesLinkKeeps == ASSUME TripsInv, CompletesLink PROVE TripsInv'
<1>1. /\ Lands /\ UNCHANGED <<now, login, atProvider, holds, handoffs, entered, disturbed>>
      /\ landing # NoTrip /\ Matches(landing) /\ BelongsTo(landing)
      /\ joined' = [user |-> landing.viewer, starter |-> trip[landing.tx].user]
  BY DEF CompletesLink
<1>2. PICK u \in Users : u = landing.viewer
  BY <1>1 DEF BelongsTo, TripsInv, RoundTripsTypeOK, Landing
<1>3. joined' = [user |-> u, starter |-> u]
  BY <1>1, <1>2 DEF BelongsTo
<1>4. LinksAreMeant' /\ joined' \in [user: Users, starter: Users]
  BY <1>3 DEF LinksAreMeant
<1>5. handoffs' \subseteq Users
  BY <1>1 DEF TripsInv, RoundTripsTypeOK
<1> QED BY <1>1, <1>4, <1>5, SessionStays, LandingsKeep

\* What a renewal leaves behind: the person, the time they came in by, and the
\* role or none.
LEMMA CarryIs ==
    ASSUME TripsInv, NEW tx \in Transaction, NEW p \in Users
    PROVE  /\ CarryOf(tx, p) \in Login /\ CarryOf(tx, p).user = p
           /\ CarryOf(tx, p).role = IF tx.role \in holds[p] THEN tx.role ELSE AllRoles
           /\ CarryOf(tx, p).since = IF tx.since = Never THEN now ELSE tx.since
<1>1. now \in Time /\ tx.role \in Roles \cup {AllRoles} /\ tx.since \in Time \cup {Never}
  BY DEF TripsInv, Transaction
<1>2. PICK role \in Roles \cup {AllRoles} : role = IF tx.role \in holds[p] THEN tx.role ELSE AllRoles
  BY <1>1
<1>3. PICK since \in Time : since = IF tx.since = Never THEN now ELSE tx.since
  BY <1>1
<1>4. CarryOf(tx, p) = [Fresh(p, TRUE) EXCEPT !.role = role, !.since = since]
  BY <1>2, <1>3 DEF CarryOf
<1>5. CarryOf(tx, p) = [user |-> p, role |-> role, since |-> since, sso |-> TRUE, live |-> TRUE]
  BY <1>4 DEF Fresh
<1>6. CarryOf(tx, p) \in Login
  BY <1>5 DEF Login
<1> QED BY <1>2, <1>3, <1>5, <1>6

LEMMA CompletesRenewalKeeps == ASSUME TripsInv, CompletesRenewal PROVE TripsInv'
<1>1. /\ Lands /\ joined' = NoTrip /\ UNCHANGED <<now, atProvider, holds, handoffs>>
      /\ landing # NoTrip /\ Matches(landing) /\ Purpose(landing) = "renew"
  BY DEF CompletesRenewal
<1>2. PICK t \in Trips : t = landing.trip /\ t = landing.tx /\ trip[t] \in Transaction /\ Renewing(t) /\ answer[t] \in Users
  BY <1>1, MatchingIs DEF Renewing
<1>3. PICK p \in Users : p = answer[t]
  BY <1>2
<1>4. PICK x \in Transaction : x = trip[t]
  BY <1>2
<1>5. handoffs' \subseteq Users /\ LinksAreMeant'
  BY <1>1 DEF TripsInv, RoundTripsTypeOK, LinksAreMeant
<1>6. CASE ~SamePerson(x, p)
  <2>1. UNCHANGED <<login, entered, disturbed>>
    BY <1>2, <1>3, <1>4, <1>6 DEF CompletesRenewal
  <2> QED BY <1>1, <1>5, <2>1, SessionStays, LandingsKeep
<1>7. CASE SamePerson(x, p)
  <2>1. Establish(CarryOf(x, p)) /\ entered' = IF x.user = Nobody THEN [entered EXCEPT ![p] = now] ELSE entered
    BY <1>2, <1>3, <1>4, <1>7 DEF CompletesRenewal
  <2>2. PICK c \in Login : c = CarryOf(x, p)
    BY CarryIs
  <2>3. c.user = p /\ c.since = IF x.since = Never THEN now ELSE x.since
    BY <2>2, CarryIs
  <2>4. login' = c /\ disturbed' = {s \in Trips : UnderWay(s)}
    BY <2>1, <2>2 DEF Establish
  <2>5. now \in Time /\ entered \in [Users -> Time \cup {Never}] /\ entered[p] <= now
    BY DEF TripsInv, RoundTripsTypeOK, CameInByNow
  <2>6. entered' = entered \/ \E u \in Users : entered' = [entered EXCEPT ![u] = now]
    BY <2>1
  <2>7. Carried(x)
    BY <1>2, <1>4 DEF TripsInv, RenewalsAreOfOld
  <2>8. c.since <= entered'[p]
    <3>1. CASE x.user = Nobody /\ x.since = Never
      <4>1. entered'[p] = now /\ c.since = now
        BY <2>1, <2>3, <2>5, <3>1
      <4> QED BY <4>1, <2>5 DEF Time
    <3>2. CASE x.user \in Users /\ x.since \in Time /\ x.since <= entered[x.user]
      <4>1. x.user = p /\ x.user # Nobody
        BY <1>7, <3>2, ServiceAssumption DEF SamePerson
      <4>2. entered' = entered
        BY <2>1, <4>1
      <4>3. x.since # Never
        BY <3>2 DEF Time, Never
      <4> QED BY <2>3, <3>2, <4>1, <4>2, <4>3
    <3> QED BY <2>7, <3>1, <3>2 DEF Carried
  <2>9. c.since <= now
    <3>1. entered'[p] \in Time \cup {Never} /\ entered'[p] <= now
      BY <2>6, EnteredGrows
    <3>2. c.since \in Time
      BY DEF Login
    <3> QED BY <2>5, <2>8, <3>1, <3>2 DEF Time, Never
  <2>10. ContinuingIsNotSigningIn'
    BY <2>3, <2>4, <2>8 DEF ContinuingIsNotSigningIn
  <2> QED BY <1>1, <1>5, <2>4, <2>6, <2>9, <2>10, LandingsKeep
<1> QED BY <1>6, <1>7

LEMMA TripsNextKeeps == TripsInv /\ [RoundTripsNext]_tripVars => TripsInv'
<1> SUFFICES ASSUME TripsInv, [RoundTripsNext]_tripVars PROVE TripsInv'
  OBVIOUS
<1>1. CASE RoundTripsTick \/ SignsOut \/ TokenExpires \/ CookieExpires
  BY <1>1, TicksKeepTrips, SignsOutKeeps, ExpiresKeeps
<1>2. CASE CallbackFails \/ CompletesLogin \/ CompletesLink \/ CompletesRenewal
  BY <1>2, FailsKeeps, CompletesLoginKeeps, CompletesLinkKeeps, CompletesRenewalKeeps
<1>3. ASSUME NEW u \in Users, EntersLocally(u) \/ ExchangesHandoff(u) \/ \E role \in Roles : LosesRole(u, role)
      PROVE  TripsInv'
  BY <1>3, EntersKeeps, OutsideKeeps
<1>4. ASSUME NEW role \in Roles \cup {AllRoles}, SwitchesRole(role) PROVE TripsInv'
  BY <1>4, SwitchesRoleKeeps
<1>5. ASSUME NEW p \in Persons \cup {Nobody}, ChangesPerson(p) PROVE TripsInv'
  BY <1>5, OutsideKeeps
<1>6. ASSUME NEW t \in Trips, StartLogin(t) \/ StartLink(t) \/ StartRenewal(t) \/ ProviderAnswers(t) \/ CallbackArrives(t)
      PROVE  TripsInv'
  BY <1>6, StartLoginKeeps, StartRenewalKeeps, OutsideKeeps, ArrivesKeeps
<1>7. CASE UNCHANGED tripVars
  <2>1. /\ UNCHANGED <<now, login, cookie, trip, answer, atProvider, holds, landing, handoffs, joined, entered, disturbed>>
    BY <1>7 DEF tripVars
  <2>2. RoundTripsTypeOK' /\ LandingIsUnderWay'
    BY <2>1 DEF TripsInv, RoundTripsTypeOK, UnderWay, LandingIsUnderWay
  <2> QED BY <2>1, <2>2, QuietKeeps
<1> QED BY <1>1, <1>2, <1>3, <1>4, <1>5, <1>6, <1>7 DEF RoundTripsNext

LEMMA UndisturbedRenewals ==
    ASSUME TripsInv, CompletesRenewal, landing.trip \notin disturbed, login # NoLogin, login.sso
    PROVE  /\ login'.user = login.user /\ login'.since = login.since
           /\ login'.role \in {login.role} \cup (IF login.role \in holds[login.user] THEN {} ELSE {AllRoles})
<1>1. landing # NoTrip /\ Matches(landing) /\ Purpose(landing) = "renew"
  BY DEF CompletesRenewal
<1>2. PICK t \in Trips : t = landing.trip /\ t = landing.tx /\ trip[t] \in Transaction /\ Renewing(t) /\ answer[t] \in Users
  BY <1>1, MatchingIs DEF Renewing
<1>3. PICK p \in Users : p = answer[t]
  BY <1>2
<1>4. PICK x \in Transaction : x = trip[t]
  BY <1>2
<1>5. x.user = login.user /\ x.role = login.role /\ x.since = login.since
  BY <1>2, <1>4 DEF TripsInv, RenewalsKnowTheSession, Continues
<1>6. CASE ~SamePerson(x, p)
  <2>1. login' = login
    BY <1>2, <1>3, <1>4, <1>6 DEF CompletesRenewal
  <2> QED BY <2>1
<1>7. CASE SamePerson(x, p)
  <2>1. login.user \in Users /\ login.since \in Time
    BY DEF TripsInv, RoundTripsTypeOK, Login
  <2>2. x.user = p
    BY <1>5, <1>7, <2>1, ServiceAssumption DEF SamePerson
  <2>3. login' = CarryOf(x, p)
    BY <1>2, <1>3, <1>4, <1>7 DEF CompletesRenewal, Establish
  <2>4. x.since # Never
    BY <1>5, <2>1 DEF Time, Never
  <2> QED BY <1>5, <2>2, <2>3, <2>4, CarryIs
<1> QED BY <1>6, <1>7

\* A trip to the provider does what its sender meant: an account is linked only
\* to the user who set out to link one, a session that is continued never looks
\* younger than its person's last sign-in, and a renewal nothing came between
\* leaves person, time and role as they were -- for any number of users and
\* trips, whatever tabs, sign-outs and other persons come between.
THEOREM TripsDoWhatTheirSenderMeant == RoundTripsSpec => RoundTripsHold
<1>1. TripsInv /\ [RoundTripsNext]_tripVars =>
        [LET x == landing
         IN  CompletesRenewal /\ x.trip \notin disturbed /\ login # NoLogin /\ login.sso =>
                 /\ login'.user = login.user /\ login'.since = login.since
                 /\ login'.role \in {login.role} \cup (IF login.role \in holds[login.user] THEN {} ELSE {AllRoles})]_tripVars
  BY UndisturbedRenewals
<1>2. TripsInv => LinksAreMeant /\ ContinuingIsNotSigningIn
  BY DEF TripsInv
<1> QED BY TripsInit, TripsNextKeeps, <1>1, <1>2, PTL DEF RoundTripsSpec, RoundTripsHold, RenewalsChangeNothing

-----------------------------------------------------------------------------
(* The suite: a scene plays its component and leaves the others alone.      *)

TripScenes == {"trips to link", "trips to go on"}

\* A step of the suite is a step of one scene, or none.
LEMMA FederationSceneStays ==
    ASSUME [FederationNext]_federationVars
    PROVE  /\ scene' = scene
           /\ scene \in {"notices", "answers"} => [SsoNext]_ssoVars
           /\ scene = "links" => [FederatedLinksNext]_linksVars
           /\ scene \in TripScenes => [RoundTripsNext]_tripVars
           /\ scene = "proofs" => [DpopNext]_dpopVars
           /\ scene = "keys" => [KeysNext]_keyVars
           /\ scene = "machines" => [MachineNext]_machineVars
           /\ scene \notin {"notices", "answers"} => UNCHANGED ssoOnly
           /\ scene # "links" => UNCHANGED linksOnly
           /\ scene \notin TripScenes => UNCHANGED tripsOnly
           /\ scene # "proofs" => UNCHANGED dpopOnly
           /\ scene # "keys" => UNCHANGED keysOnly
           /\ scene # "machines" => UNCHANGED machineOnly
<1>1. CASE UNCHANGED federationVars
  <2>1. UNCHANGED <<now, ssoOnly, linksOnly, tripsOnly, dpopOnly, keysOnly, machineOnly, scene>>
    BY <1>1 DEF federationVars
  <2>2. UNCHANGED ssoVars
    BY <2>1 DEF ssoVars, ssoOnly, provider
  <2>3. UNCHANGED linksVars
    BY <2>1 DEF linksVars, linksOnly
  <2>4. UNCHANGED tripVars
    BY <2>1 DEF tripVars, tripsOnly, browser
  <2>5. UNCHANGED dpopVars
    BY <2>1 DEF dpopVars, dpopOnly
  <2>6. UNCHANGED keyVars
    BY <2>1 DEF keyVars, keysOnly
  <2>7. UNCHANGED machineVars
    BY <2>1 DEF machineVars, machineOnly
  <2> QED BY <2>1, <2>2, <2>3, <2>4, <2>5, <2>6, <2>7
<1>2. CASE SsoScenes
  BY <1>2 DEF SsoScenes, TripScenes
<1>3. CASE LinksScene
  BY <1>3 DEF LinksScene, TripScenes
<1>4. CASE TripsScenes
  BY <1>4 DEF TripsScenes, TripScenes
<1>5. CASE ProofsScene
  BY <1>5 DEF ProofsScene, TripScenes
<1>6. CASE KeysScene
  BY <1>6 DEF KeysScene, TripScenes
<1>7. CASE MachinesScene
  BY <1>7 DEF MachinesScene, TripScenes
<1> QED BY <1>1, <1>2, <1>3, <1>4, <1>5, <1>6, <1>7 DEF FederationNext

\* What a component needs to keep its types, where it has its turn, and of what has to
\* do with the clock, where it has not.
FederationInv ==
    /\ scene \in Scenes /\ now \in Time /\ FederationTypeOK
    /\ scene = "links" => LinksInv
    /\ scene \in TripScenes => TripsInv
    /\ scene \notin TripScenes => login = NoLogin
    /\ scene = "proofs" => DpopInv
    /\ scene = "keys" => KnownKeys
    /\ scene = "machines" => MachineInv
    /\ scene # "machines" => machineTokens = {}

LEMMA FederationBegins == FederationInit => FederationInv
<1> SUFFICES ASSUME FederationInit PROVE FederationInv
  OBVIOUS
<1>1. SsoInit /\ FederatedLinksInit /\ RoundTripsInit /\ DpopInit /\ KeysInit /\ MachineInit
  BY DEF FederationInit
<1>2. SsoTypeOK /\ LinksInv /\ TripsInv /\ KnownKeys
  BY <1>1, SsoInitType, LinksInit, TripsInit, KeysInitType
<1>3. MachineInv /\ DpopInv
  BY <1>1, DpopBegins, MachineBegins
<1>4. login = NoLogin /\ machineTokens = {} /\ now \in Time
  BY <1>1 DEF RoundTripsInit, MachineInit, SsoInit, Time
<1>5. FederationTypeOK
  BY <1>2, <1>3 DEF FederationTypeOK, LinksInv, TripsInv, KnownKeys, MachineInv, DpopInv
<1>6. scene \in Scenes
  BY DEF FederationInit
<1> QED BY <1>2, <1>3, <1>4, <1>5, <1>6 DEF FederationInv

LEMMA LinksTakeNoTime == ASSUME [FederatedLinksNext]_linksVars PROVE now' = now
<1>1. CASE UNCHANGED linksVars
  BY <1>1 DEF linksVars
<1>2. ASSUME NEW u \in Users, CreateSeat(u) \/ DeleteUser(u) PROVE now' = now
  BY <1>2 DEF CreateSeat, DeleteUser
<1>3. ASSUME NEW r \in Requests,
             \/ \E s \in Subjects : ResolveUnknown(r, s) \/ \E u \in Users : CompleteLink(r, u, s)
             \/ \E u \in Users : \/ Unlink(r, u) \/ \E kind \in {"password", "add_key", "drop_key"} : ChangeEntrance(r, u, kind)
             \/ ReconcileReads(r)
      PROVE  now' = now
  BY <1>3 DEF ResolveUnknown, CompleteLink, Unlink, ChangeEntrance, ReconcileReads, Reads
<1>4. ASSUME NEW r \in Requests,
             LinkWrites(r) \/ ProvisionWrites(r) \/ UnlinkWrites(r) \/ EntranceWrites(r) \/ ReconcileUnlinks(r)
      PROVE  now' = now
  BY <1>4 DEF LinkWrites, ProvisionWrites, UnlinkWrites, EntranceWrites, ReconcileUnlinks, Done
<1> QED BY <1>1, <1>2, <1>3, <1>4 DEF FederatedLinksNext

LEMMA KnownKeysKept == ASSUME KnownKeys, [KeysNext]_keyVars PROVE KnownKeys'
<1>1. CASE UNCHANGED keyVars
  BY <1>1 DEF keyVars, KnownKeys, KeysTypeOK, AnswersAreOfTheProvider, Published, Fetching
<1> QED BY <1>1, KeysNextKnown

\* The component whose turn it is keeps what it needs.
LEMMA TurnsKeep ==
    ASSUME FederationInv, [FederationNext]_federationVars
    PROVE  /\ scene \in {"notices", "answers"} => SsoTypeOK'
           /\ scene = "links" => LinksInv' /\ now' = now
           /\ scene \in TripScenes => TripsInv'
           /\ scene = "proofs" => DpopInv'
           /\ scene = "keys" => KnownKeys'
           /\ scene = "machines" => MachineInv'
<1>1. SsoTypeOK /\ [SsoNext]_ssoVars => SsoTypeOK'
  <2>1. SsoTypeOK /\ UNCHANGED ssoVars => SsoTypeOK'
    BY DEF ssoVars, SsoTypeOK, provider
  <2> QED BY <2>1, SsoNextType
<1>2. scene \in {"notices", "answers"} => SsoTypeOK'
  BY <1>1, FederationSceneStays DEF FederationInv, FederationTypeOK
<1>3. scene = "links" => LinksInv' /\ now' = now
  <2>1. scene = "links" => LinksInv /\ [FederatedLinksNext]_linksVars
    BY FederationSceneStays DEF FederationInv
  <2> QED BY <2>1, LinksNextKeeps, LinksTakeNoTime
<1>4. scene \in TripScenes => TripsInv'
  BY FederationSceneStays, TripsNextKeeps DEF FederationInv
<1>5. scene = "proofs" => DpopInv'
  BY FederationSceneStays, DpopKeeps DEF FederationInv
<1>6. scene = "keys" => KnownKeys'
  BY FederationSceneStays, KnownKeysKept DEF FederationInv
<1>7. scene = "machines" => MachineInv'
  BY FederationSceneStays, MachineInvStep DEF FederationInv
<1> QED BY <1>2, <1>3, <1>4, <1>5, <1>6, <1>7

LEMMA FederationKeeps == FederationInv /\ [FederationNext]_federationVars => FederationInv'
<1> SUFFICES ASSUME FederationInv, [FederationNext]_federationVars PROVE FederationInv'
  OBVIOUS
<1>1. scene' = scene /\ scene \in Scenes
  BY FederationSceneStays DEF FederationInv
<1>2. now' \in Time
  <2>1. now \in Time
    BY DEF FederationInv
  <2> QED BY <1>1, <2>1, TurnsKeep DEF Scenes, TripScenes, SsoTypeOK, TripsInv, DpopInv, KnownKeys, AnswersAreOfTheProvider, MachineInv
<1>3. SsoTypeOK'
  <2>1. CASE scene \in {"notices", "answers"}
    BY <2>1, TurnsKeep
  <2>2. CASE scene \notin {"notices", "answers"}
    <3>1. SsoTypeOK /\ UNCHANGED ssoOnly
      BY <2>2, FederationSceneStays DEF FederationInv, FederationTypeOK
    <3> QED BY <1>2, <3>1 DEF SsoTypeOK, ssoOnly
  <2> QED BY <2>1, <2>2
<1>4. FederatedLinksTypeOK'
  <2>1. CASE scene = "links"
    BY <2>1, TurnsKeep DEF LinksInv
  <2>2. CASE scene # "links"
    <3>1. FederatedLinksTypeOK /\ UNCHANGED linksOnly
      BY <2>2, FederationSceneStays DEF FederationInv, FederationTypeOK
    <3> QED BY <3>1 DEF FederatedLinksTypeOK, linksOnly
  <2> QED BY <2>1, <2>2
<1>5. RoundTripsTypeOK' /\ (scene \notin TripScenes => login' = NoLogin)
  <2>1. CASE scene \in TripScenes
    BY <2>1, TurnsKeep DEF TripsInv
  <2>2. CASE scene \notin TripScenes
    <3>1. RoundTripsTypeOK /\ UNCHANGED tripsOnly /\ login = NoLogin
      BY <2>2, FederationSceneStays DEF FederationInv, FederationTypeOK
    <3>2. login' = NoLogin /\ UNCHANGED <<browser, holds, joined, entered, disturbed>>
      BY <3>1 DEF tripsOnly, browser
    <3>3. RoundTripsTypeOK'
      BY <3>1, <3>2 DEF RoundTripsTypeOK, browser, UnderWay
    <3> QED BY <3>2, <3>3
  <2> QED BY <2>1, <2>2
<1>6. DpopTypeOK'
  <2>1. CASE scene = "proofs"
    BY <2>1, TurnsKeep DEF DpopInv
  <2>2. CASE scene # "proofs"
    <3>1. DpopTypeOK /\ UNCHANGED dpopOnly
      BY <2>2, FederationSceneStays DEF FederationInv, FederationTypeOK
    <3> QED BY <3>1 DEF DpopTypeOK, dpopOnly
  <2> QED BY <2>1, <2>2
<1>7. KeysTypeOK'
  <2>1. CASE scene = "keys"
    BY <2>1, TurnsKeep DEF KnownKeys
  <2>2. CASE scene # "keys"
    <3>1. KeysTypeOK /\ UNCHANGED keysOnly
      BY <2>2, FederationSceneStays DEF FederationInv, FederationTypeOK
    <3> QED BY <3>1 DEF KeysTypeOK, keysOnly, Published
  <2> QED BY <2>1, <2>2
<1>8. MachineTypeOK' /\ (scene # "machines" => machineTokens' = {})
  <2>1. CASE scene = "machines"
    BY <2>1, TurnsKeep DEF MachineInv
  <2>2. CASE scene # "machines"
    <3>1. MachineTypeOK /\ UNCHANGED machineOnly /\ machineTokens = {}
      BY <2>2, FederationSceneStays DEF FederationInv, FederationTypeOK
    <3>2. machineTokens' = {}
      BY <3>1 DEF machineOnly
    <3>3. MachineTypeOK'
      BY <3>1, <3>2 DEF MachineTypeOK, machineOnly
    <3> QED BY <3>2, <3>3
  <2> QED BY <2>1, <2>2
<1>9. FederationTypeOK'
  BY <1>3, <1>4, <1>5, <1>6, <1>7, <1>8 DEF FederationTypeOK
<1> QED BY <1>1, <1>2, <1>5, <1>8, <1>9, TurnsKeep DEF FederationInv

\* In every scene the rows, claims and requests of all components have their types,
\* with links only to users who exist and tokens of machines only of a life's length.
THEOREM FederationTypes == FederationSpec => []FederationTypeOK
<1>1. FederationInv => FederationTypeOK
  BY DEF FederationInv
<1> QED BY FederationBegins, FederationKeeps, <1>1, PTL DEF FederationSpec

=============================================================================
