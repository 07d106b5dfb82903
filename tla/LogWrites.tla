----------------------------- MODULE LogWrites -----------------------------
(***************************************************************************)
(* What a request leaves in the log and in the audit log.  Rows are put      *)
(* aside while the request runs and written when its own transaction is      *)
(* over, because the database may let only one transaction write at a time.  *)
(* The layers, from the outside: DeferredLogWrite, RequestLogging,           *)
(* AuditRecording, InternalError, the application.                           *)
(***************************************************************************)
EXTENDS Service

Lines == {"http_request", "line", "unhandled_exception", "audit_failed"}

VARIABLES
    phase,      \* Requests -> "idle", "running", "answered", "closed", "audited", "over"
    writing,    \* requests whose transaction holds the write lock
    aside,      \* Requests -> the log rows put aside
    events,     \* Requests -> whether an audit event is put aside
    logged,     \* Requests -> its rows in log
    audited,    \* Requests -> whether its event is in audit_log
    \* history, read by the properties and by no action:
    emitted,    \* Requests -> the lines it has emitted
    happened,   \* Requests -> whether it has recorded an event
    refused     \* Requests -> why its writes failed: "itself", "others", "database"

logWriteVars == <<now, phase, writing, aside, events, logged, audited, emitted, happened, refused>>

Over(r) == phase[r] = "over"

\* The state has its types, and a request that is over holds no lock and has
\* nothing put aside.
LogWritesTypeOK ==
    /\ phase \in [Requests -> {"idle", "running", "answered", "closed", "audited", "over"}]
    /\ writing \in SUBSET Requests /\ Cardinality(writing) <= 1
    /\ aside \in [Requests -> SUBSET Lines] /\ logged \in [Requests -> SUBSET Lines]
    /\ events \in [Requests -> BOOLEAN] /\ audited \in [Requests -> BOOLEAN]
    /\ emitted \in [Requests -> SUBSET Lines] /\ happened \in [Requests -> BOOLEAN]
    /\ refused \in [Requests -> SUBSET {"itself", "others", "database"}]
    /\ \A r \in Requests : Over(r) => r \notin writing /\ aside[r] = {} /\ ~events[r]

LogWritesInit ==
    /\ now = 0 /\ writing = {}
    /\ phase = [r \in Requests |-> "idle"]
    /\ aside = [r \in Requests |-> {}] /\ events = [r \in Requests |-> FALSE]
    /\ logged = [r \in Requests |-> {}] /\ audited = [r \in Requests |-> FALSE]
    /\ emitted = [r \in Requests |-> {}] /\ happened = [r \in Requests |-> FALSE]
    /\ refused = [r \in Requests |-> {}]

-----------------------------------------------------------------------------
(* The request runs.                                                        *)

InApplication(r) == phase[r] \in {"running", "answered"}

\* Both recording layers install what they put aside.
Begins(r) ==
    /\ phase[r] = "idle"
    /\ phase' = [phase EXCEPT ![r] = "running"]
    /\ UNCHANGED <<now, writing, aside, events, logged, audited, emitted, happened, refused>>

\* The session of the request writes: from then on it holds the lock.
Writes(r) ==
    /\ phase[r] = "running" /\ writing = {}
    /\ writing' = {r}
    /\ UNCHANGED <<now, phase, aside, events, logged, audited, emitted, happened, refused>>

\* DbLogHandler.emit puts the row aside.
Emitting(r, line) ==
    /\ aside' = [aside EXCEPT ![r] = @ \cup {line}]
    /\ emitted' = [emitted EXCEPT ![r] = @ \cup {line}]

Emits(r) ==
    /\ InApplication(r) /\ Emitting(r, "line")
    /\ UNCHANGED <<now, phase, writing, events, logged, audited, happened, refused>>

\* RecordAuditEvent puts the event aside.
RecordsEvent(r) ==
    /\ phase[r] = "running"
    /\ events' = [events EXCEPT ![r] = TRUE] /\ happened' = [happened EXCEPT ![r] = TRUE]
    /\ UNCHANGED <<now, phase, writing, aside, logged, audited, emitted, refused>>

\* The head of the response is sent, with the line of the request.
Answers(r) ==
    /\ phase[r] = "running"
    /\ phase' = [phase EXCEPT ![r] = "answered"] /\ Emitting(r, "http_request")
    /\ UNCHANGED <<now, writing, events, logged, audited, happened, refused>>

\* get_db is left: commit or rollback, which is the same for the lock.  An error
\* after the head of the response is logged and goes through every layer.
Closes(r, error) ==
    /\ phase[r] = "answered"
    /\ phase' = [phase EXCEPT ![r] = "closed"] /\ writing' = writing \ {r}
    /\ IF error THEN Emitting(r, "unhandled_exception") ELSE UNCHANGED <<aside, emitted>>
    /\ UNCHANGED <<now, events, logged, audited, happened, refused>>

-----------------------------------------------------------------------------
(* The layers write.                                                        *)

\* Variant: the response is written down when call_next returns, at its head.
AuditsAtTheHead(r) == phase[r] = "answered"

\* AuditRecordingMiddleware and DeferredLogWriteMiddleware wait for everything
\* below them to end.
MayAudit(r) == phase[r] = "closed"

\* Variant: the log does not wait for the layer that records the events.
LogIsInside(r) == phase[r] \in {"closed", "audited"}

MayLog(r) == phase[r] = "audited"

\* A write in a transaction of its own fails if the database does, or if it
\* waits in vain for whoever holds the lock; the request itself would be waited
\* for in vain in any case.
Fails(r, works) ==
    IF r \in writing THEN {"itself"}
    ELSE IF works THEN {}
    ELSE IF writing # {} THEN {"others"} ELSE {"database"}

\* Variant: the events that are written are not taken away.
EventsKept(r) == events[r]

\* PendingAuditEvents.drain: what is put aside afterwards.
EventsLeft(r) == FALSE

\* WriteAuditEvents: a failure is a line of the log, and no more.
WritesAudit(r, works) ==
    LET fails == Fails(r, works) IN
    /\ MayAudit(r)
    /\ phase' = [phase EXCEPT ![r] = "audited"]
    /\ events' = [events EXCEPT ![r] = EventsLeft(r)]
    /\ IF ~events[r] THEN UNCHANGED <<aside, emitted, audited, refused>>
       ELSE IF fails = {} THEN audited' = [audited EXCEPT ![r] = TRUE] /\ UNCHANGED <<aside, emitted, refused>>
       ELSE /\ refused' = [refused EXCEPT ![r] = @ \cup fails]
            /\ Emitting(r, "audit_failed") /\ UNCHANGED audited
    /\ UNCHANGED <<now, writing, logged, happened>>

\* write_log_rows, in one transaction; a failure is seen on stdout only.
WritesLogs(r, works) ==
    LET fails == Fails(r, works) IN
    /\ MayLog(r)
    /\ phase' = [phase EXCEPT ![r] = "over"]
    /\ aside' = [aside EXCEPT ![r] = {}]
    /\ IF fails = {} THEN logged' = [logged EXCEPT ![r] = aside[r]] /\ UNCHANGED refused
       ELSE refused' = [refused EXCEPT ![r] = @ \cup fails] /\ UNCHANGED logged
    /\ UNCHANGED <<now, writing, events, audited, emitted, happened>>

LogWritesNext ==
    \E r \in Requests :
        \/ Begins(r) \/ Writes(r) \/ Emits(r) \/ RecordsEvent(r) \/ Answers(r)
        \/ \E yes \in BOOLEAN : Closes(r, yes) \/ WritesAudit(r, yes) \/ WritesLogs(r, yes)

LogWritesSpec == LogWritesInit /\ [][LogWritesNext]_logWriteVars
-----------------------------------------------------------------------------
(* Properties.                                                              *)

\* Whatever becomes of a request, what it has recorded is in the audit log when
\* it is over, or the failure to write it is in the log, or that failed too.
EventsLeaveATrace ==
    \A r \in Requests : Over(r) /\ happened[r] =>
        audited[r] \/ "audit_failed" \in logged[r] \/ (refused[r] # {} /\ logged[r] = {})

\* A request never waits for its own lock to write its rows, which would cost
\* it the wait and the rows.
NothingIsLostToItself == \A r \in Requests : "itself" \notin refused[r]

\* What happened leaves its trace, and writing it costs nothing else.
LogsHold == EventsLeaveATrace /\ NothingIsLostToItself
=============================================================================
