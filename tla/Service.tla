------------------------------ MODULE Service ------------------------------
(* What the components of the service have in common: a clock, the people,  *)
(* and the requests that are in flight together.                            *)
EXTENDS Integers, FiniteSets

CONSTANTS
    Users,       \* rows of users
    Members,     \* those an instance follows where users never meet
    Nobody,      \* no user
    Requests,    \* requests that can be in flight together
    MaxTime      \* bound of the clock

ASSUME ServiceAssumption == Members \subseteq Users /\ Nobody \notin Users /\ MaxTime \in Nat

VARIABLE now     \* utcnow()

Never == -1      \* a NULL time
Time == 0..MaxTime

Tick == now < MaxTime /\ now' = now + 1
=============================================================================
