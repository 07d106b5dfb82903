------------------------------ MODULE SignIns ------------------------------
(***************************************************************************)
(* What refresh_sessions is for, without requests, cookies or time: a       *)
(* sign-in is opened once and closed once, one token at a time is the one    *)
(* that can be exchanged, and a token that was exchanged, or whose sign-in   *)
(* is closed, is spent for good.                                            *)
(***************************************************************************)
CONSTANTS SessionIds, Jtis, NoJti

VARIABLES
    state,   \* SessionIds -> "none", "open" or "closed"
    holder,  \* SessionIds -> the token that can be exchanged, or NoJti
    spent    \* the tokens no exchange will ever accept again

Init ==
    /\ state = [s \in SessionIds |-> "none"]
    /\ holder = [s \in SessionIds |-> NoJti]
    /\ spent = {}

New(j) == j \notin spent /\ \A s \in SessionIds : holder[s] # j

\* Some open sign-ins are closed, and at most one new one is opened with them.
CloseAll(gone, opened, j) ==
    /\ \A s \in gone : state[s] = "open"
    /\ state' = [s \in SessionIds |->
                   IF s \in opened THEN "open" ELSE IF s \in gone THEN "closed" ELSE state[s]]
    /\ holder' = [s \in SessionIds |->
                   IF s \in opened THEN j ELSE IF s \in gone THEN NoJti ELSE holder[s]]

Close(gone) ==
    /\ CloseAll(gone, {}, NoJti)
    /\ \A s \in gone : holder[s] \in spent'
    /\ spent \subseteq spent' /\ spent' \subseteq Jtis

Open(s, j, gone) ==
    /\ state[s] = "none" /\ New(j)
    /\ CloseAll(gone, {s}, j)
    /\ \A g \in gone : holder[g] \in spent'
    /\ spent \subseteq spent' /\ spent' \subseteq Jtis /\ j \notin spent'

Exchange(s, j) ==
    /\ state[s] = "open" /\ New(j)
    /\ holder' = [holder EXCEPT ![s] = j]
    /\ spent' = spent \cup {holder[s]}
    /\ UNCHANGED state

Next ==
    \/ \E gone \in SUBSET SessionIds : Close(gone)
    \/ \E s \in SessionIds, j \in Jtis :
         Exchange(s, j) \/ \E gone \in SUBSET SessionIds : Open(s, j, gone)

Spec == Init /\ [][Next]_<<state, holder, spent>>
=============================================================================
