------------------------------ MODULE LogPages ------------------------------
(***************************************************************************)
(* Reading a log page by page, the newest rows first, while rows are written *)
(* and removed.  A page is an offset and a limit, counted anew for each one;  *)
(* the rows are those of the reader's tenant.                                *)
(***************************************************************************)
EXTENDS LogRetention, FiniteSetsExt

CONSTANTS
    TenantIds,     \* rows of tenants
    Whole,         \* tenant_id NULL: of the service as a whole, and its administrators
    LogsPerPage,   \* limit
    NoReading

ASSUME LogPagesAssumption == LogsPerPage \in Nat \ {0} /\ Whole \notin TenantIds

VARIABLES
    seat,          \* Users -> their tenant or Whole, user_tenants
    tenantOfRow,   \* of the rows written so far
    reading,       \* the pages somebody has open
    \* history, read by the properties and by no action:
    oldest         \* the latest moment before which rows were removed while it was open

pageVars == <<retentionVars, seat, tenantOfRow, reading, oldest>>

Reading == [tenant: TenantIds \cup {Whole}, page: 0..MaxRows, total: 0..MaxRows,
            began: SUBSET Rows, seen: SUBSET Rows]

LogPagesTypeOK ==
    /\ LogRetentionTypeOK
    /\ seat \in [Users -> TenantIds \cup {Whole}]
    /\ tenantOfRow \in [1..written -> TenantIds \cup {Whole}]
    /\ reading \in Reading \cup {NoReading}
    /\ oldest \in -MaxDays..MaxTime

LogPagesInit ==
    /\ LogRetentionInit
    /\ seat \in [Users -> TenantIds \cup {Whole}]
    /\ tenantOfRow = [i \in {} |-> Whole]
    /\ reading = NoReading /\ oldest = -MaxDays

-----------------------------------------------------------------------------
(* The rows and whose they are.                                             *)

Event == [actor: Users \cup {Nobody}, target: Users \cup {Nobody}]

\* The tenant of who did it; of whom it was done to, if the former is in none.
TenantOfEvent(e) ==
    IF e.actor # Nobody /\ seat[e.actor] # Whole THEN seat[e.actor]
    ELSE IF e.target # Nobody THEN seat[e.target] ELSE Whole

\* The tenant is looked up when the row is written, after the request.
WritesEvent(e, at) ==
    /\ WritesRow(at)
    /\ tenantOfRow' = [i \in 1..(written + 1) |-> IF i = written + 1 THEN TenantOfEvent(e) ELSE tenantOfRow[i]]
    /\ UNCHANGED <<seat, reading, oldest>>

LosesSeat(u) ==
    /\ seat[u] # Whole
    /\ seat' = [seat EXCEPT ![u] = Whole]
    /\ UNCHANGED <<retentionVars, tenantOfRow, reading, oldest>>

-----------------------------------------------------------------------------
(* The pages.                                                               *)

OfTenant(t) == {i \in rows : tenantOfRow[i] = t}

\* Variant: from the first, so that the purge takes rows away under the offset.
BeforeFromTheFirst(i, j) == createdAt[i] < createdAt[j] \/ (createdAt[i] = createdAt[j] /\ i <= j)

\* ORDER BY the time, then the id, both from the last.
Before(i, j) == createdAt[i] > createdAt[j] \/ (createdAt[i] = createdAt[j] /\ i >= j)

Rank(i, R) == Cardinality({j \in R : Before(j, i)})

\* LIMIT and OFFSET.
Slice(R, offset) == {i \in R : Rank(i, R) \in (offset + 1)..(offset + LogsPerPage)}

PageOffset(page) == page * LogsPerPage

\* Whether there is another is reckoned from the count that came with this one.
HasNextPage(r) == (r.page + 1) * LogsPerPage < r.total

\* The count and the rows are of one snapshot.
Fetches(t, page) ==
    [tenant |-> t, page |-> page, total |-> Cardinality(OfTenant(t)),
     began |-> IF page = 0 THEN OfTenant(t) ELSE reading.began,
     seen |-> Slice(OfTenant(t), PageOffset(page)) \cup IF page = 0 THEN {} ELSE reading.seen]

Cutoffs == {purge[p].cutoff : p \in {x \in Purgers : purge[x] # NoPurge /\ purge[x].stage # "finished"}}

OpensLog(t) ==
    /\ reading = NoReading
    /\ reading' = Fetches(t, 0)
    /\ oldest' = Max(Cutoffs \cup {-MaxDays})
    /\ UNCHANGED <<retentionVars, seat, tenantOfRow>>

TurnsPage ==
    /\ reading # NoReading /\ HasNextPage(reading)
    /\ reading' = Fetches(reading.tenant, reading.page + 1)
    /\ UNCHANGED <<retentionVars, seat, tenantOfRow, oldest>>

ClosesLog ==
    /\ reading # NoReading
    /\ reading' = NoReading /\ oldest' = -MaxDays
    /\ UNCHANGED <<retentionVars, seat, tenantOfRow>>

\* The job as LogRetention has it.
PurgeRuns(p) ==
    /\ StartsPurge(p) \/ SelectsIds(p) \/ DeletesIds(p) \/ PurgeFails(p)
    /\ oldest' = IF reading = NoReading THEN oldest ELSE Max(Cutoffs' \cup {oldest})
    /\ UNCHANGED <<seat, tenantOfRow, reading>>

PagesMeanwhile ==
    /\ RetentionTick \/ \E d \in 0..MaxDays : SetsDays(d)
    /\ UNCHANGED <<seat, tenantOfRow, reading, oldest>>

LogPagesNext ==
    \/ TurnsPage \/ ClosesLog \/ PagesMeanwhile
    \/ \E t \in TenantIds \cup {Whole} : OpensLog(t)
    \/ \E u \in Users : LosesSeat(u)
    \/ \E e \in Event, at \in Time : WritesEvent(e, at)
    \/ \E p \in Purgers : PurgeRuns(p)

LogPagesSpec == LogPagesInit /\ [][LogPagesNext]_pageVars
-----------------------------------------------------------------------------
\* Whoever turns the pages to the last one has been shown every row that was there
\* when they began, but for rows so old that a purge was after them meanwhile: what
\* is written, late or not, only shows a row twice, and the purge takes only rows
\* behind every row that is kept.
PagesMissNothing ==
    reading # NoReading /\ ~HasNextPage(reading) =>
        \A i \in reading.began \ reading.seen : createdAt[i] < oldest
=============================================================================
