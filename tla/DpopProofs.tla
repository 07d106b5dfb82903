----------------------------- MODULE DpopProofs -----------------------------
(***************************************************************************)
(* Requests of an app that prove, each with a proof signed for it, that the *)
(* app holds the key its access token is bound to.                          *)
(*                                                                          *)
(* A proof is good for one request: the row of its jti is written in the    *)
(* transaction of the request, goes with it when the request fails, and is  *)
(* swept when no proof that old would be taken any more.  A second insert   *)
(* of the same key waits for the first to commit or to roll back.           *)
(***************************************************************************)
EXTENDS Service

CONSTANTS
    Proofs,        \* proofs an app has signed, each with its own jti
    ProofAge,      \* MAX_PROOF_AGE
    ClockAhead,    \* MAX_CLOCK_AHEAD
    NoVisit        \* no request

ASSUME DpopAssumption == ProofAge \in Nat /\ ClockAhead \in Nat

VARIABLES
    signed,        \* Proofs -> their iat, by the clock of the app
    replays,       \* dpop_proof_replays: Proofs -> expires_at, or Never
    visit,         \* Requests -> the proof it came with and how far it is, or NoVisit
    \* history, read by the properties and by no action:
    served,        \* Proofs -> how many requests of it were served
    lingered       \* proofs a request of which was checked at one time and noted at a later one

dpopVars == <<now, signed, replays, visit, served, lingered>>

Visit == [proof: Proofs, seen: Time, noted: BOOLEAN]

DpopTypeOK ==
    /\ signed \in [Proofs -> 0..(MaxTime + ClockAhead)]
    /\ replays \in [Proofs -> Nat \cup {Never}]
    /\ visit \in [Requests -> Visit \cup {NoVisit}]
    /\ served \in [Proofs -> Nat] /\ lingered \subseteq Proofs
    /\ \A p \in Proofs : replays[p] # Never => replays[p] = signed[p] + ProofAge
    /\ \A q, r \in Requests : /\ visit[q] # NoVisit /\ visit[q].noted
                             /\ visit[r] # NoVisit /\ visit[r].noted
                             /\ visit[q].proof = visit[r].proof => q = r

DpopInit ==
    /\ now = 0 /\ signed \in [Proofs -> 0..(MaxTime + ClockAhead)]
    /\ replays = [p \in Proofs |-> Never]
    /\ visit = [r \in Requests |-> NoVisit]
    /\ served = [p \in Proofs |-> 0] /\ lingered = {}

-----------------------------------------------------------------------------
InWindow(p) == signed[p] >= now - ProofAge /\ signed[p] <= now + ClockAhead

\* The signature, the method, the address and the hash of the token are right.
CheckProof(r, p) ==
    /\ visit[r] = NoVisit /\ InWindow(p)
    /\ visit' = [visit EXCEPT ![r] = [proof |-> p, seen |-> now, noted |-> FALSE]]
    /\ UNCHANGED <<now, signed, replays, served, lingered>>

\* Variant: a row is gone at the end of the time it stands for.
SweptAtTheEnd == [p \in Proofs |-> IF replays[p] <= now THEN Never ELSE replays[p]]

SweptReplays == [p \in Proofs |-> IF replays[p] < now THEN Never ELSE replays[p]]

\* Another request has written the row and not committed yet.
Held(p) == \E q \in Requests : visit[q] # NoVisit /\ visit[q].proof = p /\ visit[q].noted

\* Variant: the row counts from now, not from the proof.
RetainedFromNow(p) == now

RetainUntil(p) == signed[p] + ProofAge

\* INSERT unless present: whoever finds a row is refused.
RecordIfUnused(r) ==
    LET p == visit[r].proof
    IN  /\ visit[r] # NoVisit /\ ~visit[r].noted /\ ~Held(p)
        /\ IF SweptReplays[p] = Never
           THEN /\ replays' = [SweptReplays EXCEPT ![p] = RetainUntil(p)]
                /\ visit' = [visit EXCEPT ![r].noted = TRUE]
           ELSE /\ UNCHANGED replays
                /\ visit' = [visit EXCEPT ![r] = NoVisit]
        /\ lingered' = IF visit[r].seen < now THEN lingered \cup {p} ELSE lingered
        /\ UNCHANGED <<now, signed, served>>

Serves(r) ==
    /\ visit[r] # NoVisit /\ visit[r].noted
    /\ served' = [served EXCEPT ![visit[r].proof] = @ + 1]
    /\ visit' = [visit EXCEPT ![r] = NoVisit]
    /\ UNCHANGED <<now, signed, replays, lingered>>

\* The person is stopped, or what was asked for fails: nothing was done, and the
\* proof may be sent again.
FailsAfterwards(r) ==
    /\ visit[r] # NoVisit /\ visit[r].noted
    /\ replays' = [replays EXCEPT ![visit[r].proof] = Never]
    /\ visit' = [visit EXCEPT ![r] = NoVisit]
    /\ UNCHANGED <<now, signed, served, lingered>>

DpopTick == Tick /\ UNCHANGED <<signed, replays, visit, served, lingered>>

DpopNext ==
    \/ DpopTick
    \/ \E r \in Requests : RecordIfUnused(r) \/ Serves(r) \/ FailsAfterwards(r) \/ \E p \in Proofs : CheckProof(r, p)

DpopSpec == DpopInit /\ [][DpopNext]_dpopVars
-----------------------------------------------------------------------------
\* A proof serves one request, however often it is sent, at once or at the edge
\* of its time, and whichever rows are swept -- unless a request of it stood
\* still between the check of its time and the note.
OneProofOneRequest == \A p \in Proofs : p \notin lingered => served[p] <= 1
=============================================================================
