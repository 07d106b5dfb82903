---------------------------- MODULE MCFederation ----------------------------
(* Small instances of what the federation with an identity provider keeps.   *)
(* The components share no state but the clock, so an invariant of one holds *)
(* in their interleavings exactly if it holds in its own behaviours: the run *)
(* chooses a scene and plays it.  The sign-ins of a person play in two: with *)
(* the notices of the provider (and tickets), or with the answers it gives   *)
(* to the worker; the trips of a browser too: with sign-ins and links, or    *)
(* with sessions that go on.                                                 *)
EXTENDS SsoSessions, FederatedLinks, RoundTrips, DpopProofs, SigningKeys, MachineTokens, TLC

VARIABLE scene

\* Of two values of a sort that are treated alike.
Alike == Permutations(Users) \cup Permutations(Requests)

ssoOnly == <<blocked, session, begun, notice, tickets, access, stops, lastLogin, work, uses, told, crossed>>
linksOnly == <<identity, way, address, linkByEmail, change, met>>
tripsOnly == <<browser, holds, joined, entered, disturbed>>
dpopOnly == <<signed, replays, visit, served, lingered>>
keysOnly == <<published, jwks, refreshedAt, lookup, forced, refused, crowded>>
machineOnly == <<registered, granted, actorActive, exchange, machineTokens, lastBoth, overtook>>

federationVars == <<now, ssoOnly, linksOnly, tripsOnly, dpopOnly, keysOnly, machineOnly, scene>>

Scenes == {"notices", "answers", "links", "trips to link", "trips to go on", "proofs", "keys", "machines"}

FederationInit ==
    /\ SsoInit /\ FederatedLinksInit /\ RoundTripsInit /\ DpopInit /\ KeysInit /\ MachineInit
    /\ scene \in Scenes
    /\ linkByEmail => scene = "links"
    /\ scene # "links" \/ linkByEmail => \A s, t \in Subjects : address[s] = address[t]
    /\ scene # "proofs" => signed = [p \in Proofs |-> 0]

\* A trip that sets out is for one of these.
For(purposes) == ~\E t \in Trips : UnderWay(t)' /\ trip'[t].purpose \notin purposes

SsoScenes ==
    /\ scene \in {"notices", "answers"} /\ SsoNext
    /\ \/ scene = "notices" /\ UNCHANGED blocked /\ ~\E r \in Requests : At(r, "pass")'
       \/ scene = "answers" /\ UNCHANGED <<notice, tickets>>
    /\ UNCHANGED <<linksOnly, tripsOnly, dpopOnly, keysOnly, machineOnly, scene>>

LinksScene ==
    /\ scene = "links" /\ FederatedLinksNext
    /\ UNCHANGED <<ssoOnly, tripsOnly, dpopOnly, keysOnly, machineOnly, scene>>

TripsScenes ==
    /\ scene \in {"trips to link", "trips to go on"} /\ RoundTripsNext
    /\ \/ scene = "trips to link" /\ For({"login", "link"}) /\ UNCHANGED <<now, holds>>
       \/ scene = "trips to go on" /\ For({"renew"}) /\ now' <= 1
    /\ UNCHANGED <<ssoOnly, linksOnly, dpopOnly, keysOnly, machineOnly, scene>>

ProofsScene ==
    /\ scene = "proofs" /\ DpopNext
    /\ UNCHANGED <<ssoOnly, linksOnly, tripsOnly, keysOnly, machineOnly, scene>>

KeysScene ==
    /\ scene = "keys" /\ KeysNext
    /\ UNCHANGED <<ssoOnly, linksOnly, tripsOnly, dpopOnly, machineOnly, scene>>

MachinesScene ==
    /\ scene = "machines" /\ MachineNext
    /\ UNCHANGED <<ssoOnly, linksOnly, tripsOnly, dpopOnly, keysOnly, scene>>

FederationNext == SsoScenes \/ LinksScene \/ TripsScenes \/ ProofsScene \/ KeysScene \/ MachinesScene

FederationSpec == FederationInit /\ [][FederationNext]_federationVars
-----------------------------------------------------------------------------
\* The rows, claims and requests of every component have their types.
FederationTypeOK ==
    /\ SsoTypeOK /\ FederatedLinksTypeOK /\ RoundTripsTypeOK
    /\ DpopTypeOK /\ KeysTypeOK /\ MachineTypeOK
=============================================================================
