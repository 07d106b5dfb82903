---------------------------- MODULE LogRetention ----------------------------
(***************************************************************************)
(* Removing the rows of a log that are older than the days the settings say. *)
(* The job runs in every worker of the server, with nothing that keeps two    *)
(* of them apart: each selects the ids of a chunk and deletes them, in a      *)
(* transaction for each chunk, until it finds less than a full one.           *)
(***************************************************************************)
EXTENDS Service

CONSTANTS
    Purgers,       \* processes that run the job
    MaxRows,       \* bound of the ids of the table
    ChunkSize,     \* DEFAULT_CHUNK_SIZE
    MaxDays,       \* bound of the days that are set
    MaxLag,        \* bound of the time from an event to its row, less than a day
    NoPurge

ASSUME LogRetentionAssumption ==
    /\ MaxRows \in Nat /\ ChunkSize \in Nat \ {0} /\ MaxDays \in Nat /\ MaxLag \in {0, 1}
    /\ Purgers \cap {"nobody", "reported", "unreported"} = {}

Rows == 1..MaxRows
Purge == [cutoff: -MaxDays..MaxTime, stage: {"select", "delete", "finished"}, ids: SUBSET Rows, deleted: 0..MaxRows]

ASSUME NoPurgeAssumption == NoPurge \notin Purge

VARIABLES
    rows,        \* ids of the table
    createdAt,   \* of the rows written so far
    written,     \* number of rows written so far
    days,        \* the days to keep, 0 for ever
    purge,       \* Purgers -> the job that runs or has finished
    \* history, read by the properties and by no action:
    reported,    \* what the jobs that came to their end have counted
    unreported,  \* what the jobs that failed had counted
    goneBy       \* of the rows written so far: the job that deleted it, "nobody", or
                 \* "reported" or "unreported" when that job is over

retentionVars == <<now, rows, createdAt, written, days, purge, reported, unreported, goneBy>>

Purges(p, stage) == purge[p] # NoPurge /\ purge[p].stage = stage

\* The state has its types; only rows that were written are there to be removed.
LogRetentionTypeOK ==
    /\ written \in 0..MaxRows /\ rows \subseteq 1..written
    /\ createdAt \in [1..written -> Time] /\ days \in 0..MaxDays
    /\ purge \in [Purgers -> Purge \cup {NoPurge}]
    /\ reported \in 0..MaxRows /\ unreported \in 0..MaxRows
    /\ goneBy \in [1..written -> Purgers \cup {"nobody", "reported", "unreported"}]
    /\ \A p \in Purgers : purge[p] # NoPurge => Cardinality(purge[p].ids) <= ChunkSize

LogRetentionInit ==
    /\ now = 0 /\ rows = {} /\ written = 0 /\ createdAt = [i \in 1..0 |-> 0] /\ goneBy = [i \in 1..0 |-> "nobody"]
    /\ days \in 0..MaxDays
    /\ purge = [p \in Purgers |-> NoPurge] /\ reported = 0 /\ unreported = 0

-----------------------------------------------------------------------------
\* write_log_rows: another row, under the next id.  It bears the time of its event,
\* which is before that of rows of quicker requests.
WritesRow(at) ==
    /\ written < MaxRows /\ at \in (now - MaxLag)..now
    /\ written' = written + 1 /\ rows' = rows \cup {written + 1}
    /\ createdAt' = [i \in 1..(written + 1) |-> IF i = written + 1 THEN at ELSE createdAt[i]]
    /\ goneBy' = [i \in 1..(written + 1) |-> IF i = written + 1 THEN "nobody" ELSE goneBy[i]]
    /\ UNCHANGED <<now, days, purge, reported, unreported>>

\* The settings are read by the next run of the job.
SetsDays(d) == days' = d /\ UNCHANGED <<now, rows, createdAt, written, purge, reported, unreported, goneBy>>

\* purge_expired_logs_once: nothing is done if everything is to be kept.
StartsPurge(p) ==
    /\ purge[p] = NoPurge \/ Purges(p, "finished")
    /\ days > 0
    /\ purge' = [purge EXCEPT ![p] = [cutoff |-> now - days, stage |-> "select", ids |-> {}, deleted |-> 0]]
    /\ UNCHANGED <<now, rows, createdAt, written, days, reported, unreported, goneBy>>

Expired(cutoff) == {i \in rows : createdAt[i] < cutoff}

\* Variant: all of them at once.
Everything(E) == E

\* The first ids of a chunk, in their order.
Chunk(E) == {i \in E : Cardinality({j \in E : j <= i}) <= ChunkSize}

SelectsIds(p) ==
    /\ Purges(p, "select")
    /\ purge' = [purge EXCEPT ![p].stage = "delete", ![p].ids = Chunk(Expired(purge[p].cutoff))]
    /\ UNCHANGED <<now, rows, createdAt, written, days, reported, unreported, goneBy>>

\* Variant: the ids that were selected are what counts.
CountedIds(p) == Cardinality(purge[p].ids)

\* rowcount: those that were there to be deleted.
Deleted(p) == Cardinality(purge[p].ids \cap rows)

\* Variant: it goes on as long as it has deleted a full chunk.
IsLastDeleted(p) == Cardinality(purge[p].ids \cap rows) < ChunkSize

\* Less than a full chunk was selected: it was the last.
IsLast(p) == Cardinality(purge[p].ids) < ChunkSize

DeletesIds(p) ==
    LET count == purge[p].deleted + Deleted(p) IN
    /\ Purges(p, "delete")
    /\ rows' = rows \ purge[p].ids
    /\ purge' = [purge EXCEPT ![p].stage = IF IsLast(p) THEN "finished" ELSE "select",
                              ![p].ids = {}, ![p].deleted = IF IsLast(p) THEN 0 ELSE count]
    /\ reported' = IF IsLast(p) THEN reported + count ELSE reported
    /\ goneBy' = [i \in 1..written |-> IF goneBy[i] = p \/ i \in purge[p].ids \cap rows
                                       THEN IF IsLast(p) THEN "reported" ELSE p
                                       ELSE goneBy[i]]
    /\ UNCHANGED <<now, createdAt, written, days, unreported>>

\* The database fails: the chunk stays, those before it are gone and are not
\* reported, and the interval worker calls the job again in its time.
PurgeFails(p) ==
    /\ Purges(p, "select") \/ Purges(p, "delete")
    /\ purge' = [purge EXCEPT ![p] = NoPurge]
    /\ unreported' = unreported + purge[p].deleted
    /\ goneBy' = [i \in 1..written |-> IF goneBy[i] = p THEN "unreported" ELSE goneBy[i]]
    /\ UNCHANGED <<now, rows, createdAt, written, days, reported>>

RetentionTick == Tick /\ UNCHANGED <<rows, createdAt, written, days, purge, reported, unreported, goneBy>>

LogRetentionNext ==
    \/ RetentionTick \/ \E at \in Time : WritesRow(at)
    \/ \E d \in 0..MaxDays : SetsDays(d)
    \/ \E p \in Purgers : StartsPurge(p) \/ SelectsIds(p) \/ DeletesIds(p) \/ PurgeFails(p)

LogRetentionSpec == LogRetentionInit /\ [][LogRetentionNext]_retentionVars
-----------------------------------------------------------------------------
(* Properties.                                                              *)

\* A job that comes to its end leaves no row that was too old when it began,
\* also if another has deleted from under it.
PurgeLeavesNothingOld == \A p \in Purgers : Purges(p, "finished") => Expired(purge[p].cutoff) = {}

\* The rows deleted by one, or reported, or not; those of nobody are there.
OnAccountOf(by) == {i \in 1..written : goneBy[i] = by}

\* A job counts the rows it deletes and no others, whatever the others delete:
\* every row that is gone is counted once, in what the jobs report or, of those
\* that failed, in what they had counted.
CountsAreReal ==
    /\ rows = OnAccountOf("nobody")
    /\ \A p \in Purgers : Cardinality(OnAccountOf(p)) = IF purge[p] = NoPurge THEN 0 ELSE purge[p].deleted
    /\ reported = Cardinality(OnAccountOf("reported")) /\ unreported = Cardinality(OnAccountOf("unreported"))

\* A purge does what it reports: nothing old is left, and no row is counted
\* that was not deleted.
RetentionHolds == PurgeLeavesNothingOld /\ CountsAreReal
=============================================================================
