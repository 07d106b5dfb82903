--------------------------- MODULE OneTimeTickets ---------------------------
(* What is promised of everything that may be used once: a challenge of a   *)
(* passkey, the ticket of a sign-in through an identity provider.  It is    *)
(* issued, used at most once however often it is presented, and forgotten.  *)
EXTENDS Naturals

CONSTANT Tickets

VARIABLES
    ticket,    \* Tickets -> what has become of it
    uses       \* Tickets -> how often it let somebody in

States == {"unissued", "issued", "spent", "dropped"}

Init ==
    /\ ticket = [t \in Tickets |-> "unissued"]
    /\ uses = [t \in Tickets |-> 0]

Issue(t) ==
    /\ ticket[t] = "unissued"
    /\ ticket' = [ticket EXCEPT ![t] = "issued"]
    /\ UNCHANGED uses

Redeem(t) ==
    /\ ticket[t] = "issued"
    /\ ticket' = [ticket EXCEPT ![t] = "spent"]
    /\ uses' = [uses EXCEPT ![t] = 1]

\* One step issues a ticket and forgets those whose time is over.
Sweep(dropped, issued) ==
    /\ \A t \in dropped : ticket[t] = "issued"
    /\ \A t \in issued : ticket[t] = "unissued"
    /\ ticket' = [t \in Tickets |-> CASE t \in dropped -> "dropped"
                                      [] t \in issued -> "issued"
                                      [] OTHER -> ticket[t]]
    /\ UNCHANGED uses

Next ==
    \/ \E t \in Tickets : Issue(t) \/ Redeem(t)
    \/ \E dropped, issued \in SUBSET Tickets : Sweep(dropped, issued)

Spec == Init /\ [][Next]_<<ticket, uses>>
=============================================================================
