---------------------------- MODULE MachineTokens ---------------------------
(***************************************************************************)
(* A machine that exchanges its own token for one of the service, with      *)
(* which it acts as a user within what the register allows it.              *)
(*                                                                          *)
(* The register is a setting, the user's roles are rows; the token carries  *)
(* what both gave when it was issued, and is believed until it runs out.    *)
(***************************************************************************)
EXTENDS Service

CONSTANTS
    Operations,    \* permission codes
    MachineTtl,    \* access_token_expires_seconds
    NoExchange     \* no request

ASSUME MachineAssumption == MachineTtl \in Nat

VARIABLES
    registered,    \* machine_clients: what the client may do, or NoExchange when it is not there
    granted,       \* what the roles of the user it acts as permit
    actorActive,   \* users.is_active, in a tenant that is
    exchange,      \* Requests -> what the register allowed when it was read, or NoExchange
    machineTokens, \* tokens issued and not run out
    \* history, read by the properties and by no action:
    lastBoth,      \* Operations -> when register and roles last gave it together, or Never
    overtook       \* operations withheld by a change while a request was at issuing them

machineVars == <<now, registered, granted, actorActive, exchange, machineTokens, lastBoth, overtook>>

MachineTypeOK ==
    /\ registered \in (SUBSET Operations) \cup {NoExchange}
    /\ granted \subseteq Operations /\ actorActive \in BOOLEAN
    /\ exchange \in [Requests -> (SUBSET Operations) \cup {NoExchange}]
    /\ machineTokens \subseteq [ops: SUBSET Operations, until: Nat]
    /\ lastBoth \in [Operations -> Time \cup {Never}] /\ overtook \subseteq Operations
    /\ \A t \in machineTokens : now <= t.until /\ t.until <= now + MachineTtl

MachineInit ==
    /\ now = 0 /\ registered = Operations /\ granted = Operations /\ actorActive = TRUE
    /\ exchange = [r \in Requests |-> NoExchange] /\ machineTokens = {}
    /\ lastBoth = [o \in Operations |-> 0] /\ overtook = {}

-----------------------------------------------------------------------------
Given == IF actorActive /\ registered # NoExchange THEN registered \cap granted ELSE {}

Exchanging == UNION {exchange[r] : r \in {q \in Requests : exchange[q] # NoExchange}}

Remembers ==
    /\ lastBoth' = [o \in Operations |-> IF o \in Given \cup Given' THEN now ELSE lastBoth[o]]
    /\ overtook' = overtook \cup (Exchanging \ Given')

\* An administrator saves the register, gives or takes roles, stops the user.
ChangesRegister(x) ==
    /\ registered' = x
    /\ UNCHANGED <<now, granted, actorActive, exchange, machineTokens>> /\ Remembers

ChangesRoles(x) ==
    /\ granted' = x
    /\ UNCHANGED <<now, registered, actorActive, exchange, machineTokens>> /\ Remembers

StopsActor ==
    /\ actorActive' = ~actorActive
    /\ UNCHANGED <<now, registered, granted, exchange, machineTokens>> /\ Remembers

\* The register is read; the token is then checked at the provider.
OpensExchange(r) ==
    /\ exchange[r] = NoExchange /\ registered # NoExchange
    /\ exchange' = [exchange EXCEPT ![r] = registered]
    /\ UNCHANGED <<now, registered, granted, actorActive, machineTokens, lastBoth, overtook>>

\* Variant: what the register says is enough.
EffectiveByRegister(ops) == ops

Effective(ops) == ops \cap granted

\* Variant: a token for as long as there is one.
LifeOfToken(t) == now + 2 * MachineTtl

ExpiresAt(t) == now + MachineTtl

IssuesMachineToken(r) ==
    /\ exchange[r] # NoExchange
    /\ machineTokens' = IF actorActive
                        THEN machineTokens \cup {[ops |-> Effective(exchange[r]), until |-> ExpiresAt(r)]}
                        ELSE machineTokens
    /\ exchange' = [exchange EXCEPT ![r] = NoExchange]
    /\ UNCHANGED <<now, registered, granted, actorActive, lastBoth, overtook>>

MachineTick ==
    /\ Tick
    /\ machineTokens' = {t \in machineTokens : now' < t.until}
    /\ lastBoth' = [o \in Operations |-> IF o \in Given THEN now' ELSE lastBoth[o]]
    /\ UNCHANGED <<registered, granted, actorActive, exchange, overtook>>

MachineNext ==
    \/ MachineTick \/ StopsActor
    \/ \E x \in SUBSET Operations : ChangesRegister(x) \/ ChangesRoles(x)
    \/ ChangesRegister(NoExchange)
    \/ \E r \in Requests : OpensExchange(r) \/ IssuesMachineToken(r)

MachineSpec == MachineInit /\ [][MachineNext]_machineVars
-----------------------------------------------------------------------------
\* What the register or the roles take from a machine is gone one token life
\* later, whatever it exchanges meanwhile -- unless an exchange was under way.
MachinePowersFade ==
    \A t \in machineTokens : \A o \in t.ops \ overtook : t.until <= lastBoth[o] + MachineTtl
=============================================================================
