------------------------- MODULE MCRefreshSessions -------------------------
(* Small instances of RefreshSessions for TLC.                              *)
EXTENDS RefreshSessions, TLC

\* Request slots are interchangeable.
Symmetry == Permutations(Requests)

\* So are identifiers: here they are 1, 2, ..., taken in that order.
IdentifiersInOrder ==
    /\ \A j \in Jtis \ {1} : Signed(j)' => Signed(j - 1)'
    /\ \A s \in SessionIds \ {1} : Taken(s)' => Taken(s - 1)'

\* The state after each browser, numbered like its sign-in and its token, has
\* signed in at time 0: the password runs start there, with the logins behind them
\* and, it may be, a first change of the password before those.
SignedInInit ==
    /\ clock = 0
    /\ rows = [s \in SessionIds |->
                 IF s \in Browsers
                 THEN [current |-> s, previous |-> NoJti, rotated |-> Never, expires |-> Period]
                 ELSE NoRow]
    /\ boundary \in {Never, 0}
    /\ token = [j \in Jtis |->
                  IF j \in Browsers THEN [sid |-> j, iat |-> 0, exp |-> Period] ELSE Unsigned]
    /\ jar = [b \in Browsers |-> [access |-> [sid |-> b, iat |-> 0], refresh |-> b]]
    /\ req = [r \in Requests |-> Idle]
    /\ tx = [r \in Requests |-> NoTx]
    /\ history = [j \in Jtis |-> NoHistory]
    /\ signedIn = [s \in SessionIds |-> 0]

SignedInSpec == SignedInInit /\ [][Next]_vars
=============================================================================
