----------------------------- MODULE SigningKeys ----------------------------
(***************************************************************************)
(* The keys of an identity provider as one process knows them.              *)
(*                                                                          *)
(* The set is fetched when none is kept or the kept one is too old, and     *)
(* again when a token names a key that is not in it -- that at most once in *)
(* an interval, whatever tokens name.  Fetches run outside the lock, beside *)
(* each other; the last to end stays, and one that fails empties the cache. *)
(***************************************************************************)
EXTENDS Service

CONSTANTS
    Kids,            \* keys in the order they are published
    RefreshInterval, \* _JWKS_REFRESH_INTERVAL_SECONDS
    JwksTtl,         \* lifespan of the set PyJWKClient keeps
    NoSet, NoLookup

ASSUME KeysAssumption ==
    /\ Kids \subseteq Nat \ {0} /\ 1 \in Kids
    /\ RefreshInterval \in Nat \ {0} /\ JwksTtl \in Nat

Lookup == [kid: Kids, step: {"read", "retry"}, keys: SUBSET Kids]
          \cup [kid: Kids, step: {"first", "forced"}, got: (SUBSET Kids) \cup {NoSet}]

ASSUME KeysNullsAssumption == NoLookup \notin Lookup

VARIABLES
    published,       \* Kids -> since when the provider signs with it, or Never
    jwks,            \* the set kept: [keys, at], or NoSet
    refreshedAt,     \* _jwks_refreshed_at, or Never
    lookup,          \* Requests -> the key a token names and what is being done, or NoLookup
    \* history, read by the properties and by no action:
    forced,          \* when tokens with unknown keys last led to a fetch, and the time before
    refused,         \* the key of the token just refused, or NoLookup
    crowded          \* keys that were published during a lookup, or since which two overlapped

keyVars == <<now, published, jwks, refreshedAt, lookup, forced, refused, crowded>>

Published == {k \in Kids : published[k] # Never}

KeysTypeOK ==
    /\ published \in [Kids -> Time \cup {Never}]
    /\ jwks \in [keys: SUBSET Kids, at: Time] \cup {NoSet}
    /\ refreshedAt \in Time \cup {Never}
    /\ lookup \in [Requests -> Lookup \cup {NoLookup}]
    /\ forced \in (Time \cup {Never}) \X (Time \cup {Never})
    /\ refused \in Kids \cup {NoLookup} /\ crowded \subseteq Kids
    /\ jwks # NoSet => jwks.keys # {} /\ jwks.keys \subseteq Published

KeysInit ==
    /\ now = 0 /\ published = [k \in Kids |-> IF k = 1 THEN 0 ELSE Never]
    /\ jwks = NoSet /\ refreshedAt = Never
    /\ lookup = [r \in Requests |-> NoLookup]
    /\ forced = <<Never, Never>> /\ refused = NoLookup /\ crowded = {}

-----------------------------------------------------------------------------
LookingUp == {r \in Requests : lookup[r] # NoLookup}

Publishes(k) ==
    /\ k - 1 \in Published /\ k \notin Published
    /\ published' = [published EXCEPT ![k] = now]
    /\ crowded' = IF LookingUp = {} THEN crowded ELSE crowded \cup {k}
    /\ UNCHANGED <<now, jwks, refreshedAt, lookup, forced, refused>>

Usable == jwks # NoSet /\ now <= jwks.at + JwksTtl

\* A token with some key id arrives: of a key that is there or that nobody has.
LooksUp(r, k) ==
    /\ lookup[r] = NoLookup
    /\ lookup' = [lookup EXCEPT ![r] = IF Usable THEN [kid |-> k, step |-> "read", keys |-> jwks.keys]
                                       ELSE [kid |-> k, step |-> "first", got |-> NoSet]]
    /\ crowded' = IF LookingUp = {} THEN crowded ELSE crowded \cup Published
    /\ refused' = NoLookup
    /\ UNCHANGED <<now, published, jwks, refreshedAt, forced>>

Fetching(r) == lookup[r] # NoLookup /\ lookup[r].step \in {"first", "forced"}

\* The provider answers with the keys it has at that moment.
ProviderSends(r) ==
    /\ Fetching(r) /\ lookup[r].got = NoSet
    /\ lookup' = [lookup EXCEPT ![r].got = Published]
    /\ UNCHANGED <<now, published, jwks, refreshedAt, forced, refused, crowded>>

\* Variant: what is no answer is kept as one.
FetchEndsUnanswered(r) ==
    /\ Fetching(r)
    /\ jwks' = [keys |-> {}, at |-> now]
    /\ lookup' = [lookup EXCEPT ![r] = NoLookup]
    /\ UNCHANGED <<now, published, refreshedAt, forced, refused, crowded>>

FetchEnds(r) ==
    /\ Fetching(r) /\ lookup[r].got # NoSet
    /\ jwks' = [keys |-> lookup[r].got, at |-> now]
    /\ lookup' = [lookup EXCEPT ![r] = [kid |-> lookup[r].kid, keys |-> lookup[r].got,
                                        step |-> IF lookup[r].step = "first" THEN "read" ELSE "retry"]]
    /\ UNCHANGED <<now, published, refreshedAt, forced, refused, crowded>>

\* The provider cannot be reached: not the fault of the token.
FetchFails(r) ==
    /\ Fetching(r)
    /\ jwks' = NoSet
    /\ lookup' = [lookup EXCEPT ![r] = NoLookup]
    /\ UNCHANGED <<now, published, refreshedAt, forced, refused, crowded>>

HasKeys(r) == lookup[r] # NoLookup /\ lookup[r].step \in {"read", "retry"}

Finds(r) ==
    /\ HasKeys(r) /\ lookup[r].kid \in lookup[r].keys
    /\ lookup' = [lookup EXCEPT ![r] = NoLookup]
    /\ UNCHANGED <<now, published, jwks, refreshedAt, forced, refused, crowded>>

\* Variant: one clock tick is interval enough.
MayRefreshAnyTick == refreshedAt = Never \/ now > refreshedAt

\* Variant: a second interval must pass.
MayRefreshLater == refreshedAt = Never \/ now - refreshedAt >= 2 * RefreshInterval

MayRefresh == refreshedAt = Never \/ now - refreshedAt >= RefreshInterval

\* The turn is taken before the fetch, under the lock.
TakesTurn(r) ==
    /\ HasKeys(r) /\ lookup[r].step = "read" /\ lookup[r].kid \notin lookup[r].keys /\ MayRefresh
    /\ refreshedAt' = now
    /\ lookup' = [lookup EXCEPT ![r] = [kid |-> lookup[r].kid, step |-> "forced", got |-> NoSet]]
    /\ forced' = <<now, forced[1]>>
    /\ UNCHANGED <<now, published, jwks, refused, crowded>>

Refuses(r) ==
    /\ HasKeys(r) /\ lookup[r].kid \notin lookup[r].keys
    /\ lookup[r].step = "retry" \/ ~MayRefresh
    /\ lookup' = [lookup EXCEPT ![r] = NoLookup]
    /\ refused' = lookup[r].kid
    /\ UNCHANGED <<now, published, jwks, refreshedAt, forced, crowded>>

KeysTick == Tick /\ refused' = NoLookup /\ UNCHANGED <<published, jwks, refreshedAt, lookup, forced, crowded>>

KeysNext ==
    \/ KeysTick
    \/ \E k \in Kids : Publishes(k)
    \/ \E r \in Requests : \/ \E k \in Kids : LooksUp(r, k)
                           \/ ProviderSends(r) \/ FetchEnds(r) \/ FetchFails(r)
                           \/ Finds(r) \/ TakesTurn(r) \/ Refuses(r)

KeysSpec == KeysInit /\ [][KeysNext]_keyVars
-----------------------------------------------------------------------------
\* Whatever keys the tokens of a moment name, and however many requests bring
\* them at once, they send this process to the provider once in an interval.
RefreshesAreSpaced == forced[2] # Never => forced[1] - forced[2] >= RefreshInterval

\* A key that the provider has had for an interval is not called unknown, whatever
\* tokens came before it and whatever fetches failed -- unless lookups overlapped,
\* whose fetches may end in another order and who may find the turn taken.
NewKeysAreFound ==
    refused # NoLookup /\ published[refused] # Never /\ refused \notin crowded =>
        now < published[refused] + RefreshInterval

\* The provider is asked neither too often nor too seldom for its keys.
KeysHold == RefreshesAreSpaced /\ NewKeysAreFound
=============================================================================
