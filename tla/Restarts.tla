------------------------------ MODULE Restarts ------------------------------
(***************************************************************************)
(* Restarts that an administrator asks for: the request is a token in the    *)
(* database, and every worker of the server compares it now and then with    *)
(* the one it saw when it began to watch.  A worker that sees another ends    *)
(* the parent process, with which all workers end; the container is started  *)
(* again and reads its settings anew.                                        *)
(***************************************************************************)
EXTENDS Service

CONSTANTS
    Workers,        \* worker processes of the server
    MaxTokens,      \* bound of the requests
    MaxUnread       \* bound of the readings that fail at the start

ASSUME RestartsAssumption == MaxTokens \in Nat /\ MaxUnread \in Nat

NoToken == 0        \* no request yet, or none that could be read

VARIABLES
    token,       \* the token in app.restart_request, or NoToken
    worker,      \* Workers -> its state and its baseline
    parent,      \* the server process: "running", or "ending" after a SIGTERM
    \* history, read by the properties and by no action:
    restarts,    \* how often the container has been started again
    unread,      \* workers that began to watch without knowing the token
    readAt,      \* Workers -> the token when it read its settings
    seen,        \* Workers -> the token when it last looked
    between      \* Workers -> the request, if any, between its settings and its watch

restartVars == <<now, token, worker, parent, restarts, unread, readAt, seen, between>>

Tokens == 0..MaxTokens
Worker == [state: {"down", "booting", "up", "told"}, baseline: Tokens]
Down == [state |-> "down", baseline |-> NoToken]

Watching(w) == worker[w].state = "up"
Ending == parent = "ending"

\* The state has its types, and a worker that has told its parent to end has
\* the request for it as its baseline.
RestartsTypeOK ==
    /\ token \in Tokens /\ worker \in [Workers -> Worker] /\ parent \in {"running", "ending"}
    /\ restarts \in Nat /\ unread \in 0..MaxUnread
    /\ readAt \in [Workers -> Tokens] /\ seen \in [Workers -> Tokens] /\ between \in [Workers -> Tokens]
    /\ \A w \in Workers : worker[w].state = "told" => Ending /\ worker[w].baseline \in 1..token

RestartsInit ==
    /\ now = 0 /\ token = NoToken
    /\ worker = [w \in Workers |-> Down] /\ parent = "running"
    /\ restarts = 0 /\ unread = 0
    /\ readAt = [w \in Workers |-> NoToken] /\ seen = [w \in Workers |-> NoToken]
    /\ between = [w \in Workers |-> NoToken]

-----------------------------------------------------------------------------
\* request_restart: the time of the request is its token.
RequestRestart ==
    /\ token < MaxTokens
    /\ token' = token + 1
    /\ UNCHANGED <<now, worker, parent, restarts, unread, readAt, seen, between>>

\* create_app reads the settings that are read only at the start.
Boots(w) ==
    /\ worker[w].state = "down" /\ ~Ending
    /\ worker' = [worker EXCEPT ![w] = [Down EXCEPT !.state = "booting"]]
    /\ readAt' = [readAt EXCEPT ![w] = token] /\ seen' = [seen EXCEPT ![w] = token]
    /\ between' = [between EXCEPT ![w] = NoToken]
    /\ UNCHANGED <<now, token, parent, restarts, unread>>

\* Variant: the first thing that is read later is what is compared with.
NoBaseline(known) == NoToken

\* RestartWatcher.start: the baseline; a reading that fails finds no request.
Baseline(known) == IF known THEN token ELSE NoToken

\* The application starts to serve.  A request since its reading of the settings
\* becomes its baseline too, and it does not notice that one.
StartsWatching(w, known) ==
    /\ worker[w].state = "booting"
    /\ known \/ unread < MaxUnread
    /\ worker' = [worker EXCEPT ![w] = [state |-> "up", baseline |-> Baseline(known)]]
    /\ unread' = IF known THEN unread ELSE unread + 1
    /\ between' = [between EXCEPT ![w] = IF known /\ readAt[w] # token THEN token ELSE NoToken]
    /\ UNCHANGED <<now, token, parent, restarts, readAt, seen>>

\* Variant: a worker that saw no request when it started compares with nothing.
ShouldRestartIfKnown(w) == worker[w].baseline # NoToken /\ token # worker[w].baseline

\* should_restart: there is a request, and it is not the one of the start.
ShouldRestart(w) == token # NoToken /\ token # worker[w].baseline

\* Variant: the token is not taken over.
ToldOnly(w) == [worker[w] EXCEPT !.state = "told"]

\* The parent has been told, for this token and no further time.
Told(w) == [state |-> "told", baseline |-> token]

\* check_once, and the end of the watching thread if it has told the parent.
Polls(w) ==
    /\ Watching(w)
    /\ seen' = [seen EXCEPT ![w] = token]
    /\ IF ShouldRestart(w)
       THEN /\ worker' = [worker EXCEPT ![w] = Told(w)]
            /\ parent' = "ending"
       ELSE UNCHANGED <<worker, parent>>
    /\ UNCHANGED <<now, token, restarts, unread, readAt, between>>

\* A worker that ends on its own is replaced by the parent.
Crashes(w) ==
    /\ worker[w].state # "down"
    /\ worker' = [worker EXCEPT ![w] = Down]
    /\ UNCHANGED <<now, token, parent, restarts, unread, readAt, seen, between>>

\* The parent ends, every worker with it, and the container is started again.
ContainerRestarts ==
    /\ Ending
    /\ parent' = "running" /\ restarts' = restarts + 1
    /\ worker' = [w \in Workers |-> Down]
    /\ UNCHANGED <<now, token, unread, readAt, seen, between>>

RestartsNext ==
    \/ RequestRestart \/ ContainerRestarts
    \/ \E w \in Workers : Boots(w) \/ Polls(w) \/ Crashes(w)
    \/ \E w \in Workers, known \in BOOLEAN : StartsWatching(w, known)

RestartsSpec == RestartsInit /\ [][RestartsNext]_restartVars
-----------------------------------------------------------------------------
(* Properties.                                                              *)

\* No worker that has looked since a request goes on with the settings from
\* before it: it has read them after the request, or the parent is ending --
\* unless the request came after it had read them and before it began to watch.
NobodyIsLeftBehind ==
    \A w \in Workers : Watching(w) /\ ~Ending => readAt[w] >= seen[w] \/ between[w] = seen[w]

\* The container is started again once for a request, however many workers
\* notice it and whenever they are replaced; a start that could not read the
\* request is the one thing that costs another.
OneRestartPerRequest == restarts + (IF Ending THEN 1 ELSE 0) <= token + unread

\* A request to restart reaches every worker that runs, and each of them once.
RestartsReachAll == NobodyIsLeftBehind /\ OneRestartPerRequest
=============================================================================
