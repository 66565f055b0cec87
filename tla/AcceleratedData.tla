--------------------------- MODULE AcceleratedData ---------------------------
(***************************************************************************)
(* The rows of one time-series dataset accelerated in memory: refreshes    *)
(* that copy rows from the federated source (`full` overwrites, `append`   *)
(* fetches what is newer than the latest local row), and the retention     *)
(* task that evicts old rows, both working on the same MemTable.           *)
(*                                                                         *)
(* Source: accelerated_table.rs (retention), refresh_task.rs (what a       *)
(* refresh reads and filters) and data_components/src/arrow/write.rs       *)
(* (MemTable, MemSink, MemDeletionSink).                                   *)
(***************************************************************************)
EXTENDS Naturals, FiniteSets

CONSTANTS
    Modes,             \* settings of RefreshMode: "full", "append"
    RefreshSql,        \* a refresh_sql (SELECT * FROM dataset) is set
    Overlap,           \* refresh_append_overlap, 0 when not set
    Retention,         \* the retention check is configured
    RetentionPeriod,
    DeleteFails,       \* evaluating the delete filter may fail
    Ids,               \* tells apart rows that share a timestamp
    MaxTime,           \* bound: the clock
    Lateness,          \* a row reaches the source at most this late
    MaxCopies          \* bound: copies of a row are counted up to this

ASSUME DataAssumption ==
    /\ Modes \subseteq {"full", "append"}
    /\ RefreshSql \in BOOLEAN /\ Retention \in BOOLEAN
    /\ DeleteFails \in BOOLEAN
    /\ Overlap \in Nat /\ RetentionPeriod \in Nat
    /\ MaxTime \in Nat \ {0} /\ Lateness \in Nat /\ MaxCopies \in Nat \ {0}

Rows == [t : 1..MaxTime, id : Ids]
NoRows == [r \in Rows |-> 0]

VARIABLES
    mode,     \* Refresh::mode
    now,      \* the clock
    source,   \* rows of the federated table
    accel,    \* MemTable: how many copies of each row it holds
    refresh,  \* where the refresh in flight stands
    since,    \* the timestamp it fetches after
    update,   \* the rows it has fetched and will write
    delete,   \* where the delete of the retention check stands
    cutoff,   \* rows older than this are evicted
    held,     \* rows MemDeletionSink has taken out of the table
    written,  \* history: rows some refresh has written
    dropped   \* history: of these, rows that a failed delete lost

refreshVars == <<refresh, since, update>>
deleteVars == <<delete, cutoff, held>>
historyVars == <<written, dropped>>
vars == <<mode, now, source, accel, refreshVars, deleteVars, historyVars>>

\* since: None fetches everything.
None == MaxTime + 1

TypeOK ==
    /\ mode \in {"full", "append"}
    /\ now \in 1..MaxTime
    /\ source \in SUBSET Rows
    /\ accel \in [Rows -> 0..MaxCopies]
    /\ refresh \in {"idle", "fetch", "filter", "write"}
    /\ since \in 0..None
    /\ update \in SUBSET Rows
    /\ delete \in {"idle", "filter"}
    /\ cutoff \in 0..MaxTime
    /\ held \in [Rows -> 0..MaxCopies]
    /\ written \in SUBSET Rows
    /\ dropped \in SUBSET Rows

Init ==
    /\ mode \in Modes
    /\ now = 1
    /\ source = {}
    /\ accel = NoRows
    /\ refresh = "idle"
    /\ since = None
    /\ update = {}
    /\ delete = "idle"
    /\ cutoff = 0
    /\ held = NoRows
    /\ written = {}
    /\ dropped = {}

Minus(a, b) == IF a > b THEN a - b ELSE 0
Plus(a, b) == IF a + b > MaxCopies THEN MaxCopies ELSE a + b
Local == {r \in Rows : accel[r] > 0}

(***************************************************************************)
(* The environment.                                                        *)
(***************************************************************************)
Tick ==
    /\ now < MaxTime
    /\ now' = now + 1
    /\ UNCHANGED <<mode, source, accel, refreshVars, deleteVars, historyVars>>

\* A row appears in the source, no more than Lateness after its timestamp.
SourceAdds(r) ==
    /\ r \notin source
    /\ r.t <= now /\ r.t + Lateness >= now
    /\ source' = source \cup {r}
    /\ UNCHANGED <<mode, now, accel, refreshVars, deleteVars, historyVars>>

(***************************************************************************)
(* RefreshTask::run_once.                                                  *)
(***************************************************************************)

\* accelerator_df: the accelerator, but with a refresh SQL the query is run
\* where the dataset's name is the federated table.
AcceleratorRows == IF RefreshSql THEN source ELSE Local

IsLatest(m) ==
    /\ \E r \in AcceleratorRows : r.t = m
    /\ \A r \in AcceleratorRows : r.t <= m

\* Mutant: the overlap is not subtracted.
LatestTimestamp(ts) ==
    \/ AcceleratorRows = {} /\ ts = None
    \/ \E m \in 1..MaxTime : IsLatest(m) /\ ts = m

\* timestamp_nanos_for_append_query returns ts: the latest timestamp less the
\* overlap, and None for an empty table.
TimestampForAppend(ts) ==
    \/ AcceleratorRows = {} /\ ts = None
    \/ \E m \in 1..MaxTime : IsLatest(m) /\ ts = Minus(m, Overlap)

\* Refresh::period as create_accelerated_table leaves it: refresh_data_window
\* is not copied into it.
Period == 0

\* Mutant: the fetch includes the timestamp itself.
WantedFrom(r) == since = None \/ r.t >= since

\* get_full_or_incremental_append_update: the filters the fetch pushes down.
Wanted(r) ==
    IF since # None THEN r.t > since
    ELSE Period = 0 \/ r.t > Minus(now, Period)

\* Full mode goes to the fetch; append mode reads the latest timestamp first.
StartRefresh ==
    /\ refresh = "idle"
    /\ refresh' = "fetch"
    /\ \E ts \in 0..None :
          /\ IF mode = "append" THEN TimestampForAppend(ts) ELSE ts = None
          /\ since' = ts
    /\ UNCHANGED <<mode, now, source, accel, update, deleteVars, historyVars>>

\* get_data: the rows the source holds now.
Fetch ==
    /\ refresh = "fetch"
    /\ update' = {r \in source : Wanted(r)}
    /\ refresh' = IF mode = "append" THEN "filter" ELSE "write"
    /\ UNCHANGED <<mode, now, source, accel, since, deleteVars, historyVars>>

\* Mutant: fetched rows are written as they come.
NoneExisting(ts) == {}

\* The local rows that except_existing_records_from compares with.
ExistingAfter(ts) == IF ts = None THEN {} ELSE {r \in AcceleratorRows : r.t > ts}

\* except_existing_records_from computes the timestamp a second time, and
\* filter_records drops the fetched rows that are already there.
FilterExisting ==
    /\ refresh = "filter"
    /\ \E ts \in 0..None :
          TimestampForAppend(ts) /\ update' = update \ ExistingAfter(ts)
    /\ refresh' = "write"
    /\ UNCHANGED <<mode, now, source, accel, since, deleteVars, historyVars>>

\* MemSink::write_all: everything is buffered, then under the write locks an
\* overwrite clears the table and the rows are appended.
Write ==
    /\ refresh = "write"
    /\ LET base == IF mode = "full" THEN NoRows ELSE accel IN
       accel' = [r \in Rows |-> Plus(base[r], IF r \in update THEN 1 ELSE 0)]
    /\ written' = written \cup update
    /\ dropped' = dropped \ update
    /\ refresh' = "idle"
    /\ update' = {}
    /\ UNCHANGED <<mode, now, source, since, deleteVars>>

\* An error, or a preemption, before the write: nothing has changed.
RefreshFails ==
    /\ refresh # "idle"
    /\ refresh' = "idle"
    /\ update' = {}
    /\ UNCHANGED <<mode, now, source, accel, since, deleteVars, historyVars>>

(***************************************************************************)
(* start_retention_check and MemDeletionSink::delete_from.                 *)
(***************************************************************************)

\* Mutant: the cutoff is computed once.
FirstCutoff == IF cutoff > 0 THEN cutoff ELSE Minus(now, RetentionPeriod)

\* SystemTime::now() - retention_period, at every tick of the interval.
Cutoff == Minus(now, RetentionPeriod)

\* A tick of the interval: the cutoff is computed and the rows are moved out
\* of the table, whose lock is then released.
TakeRows ==
    /\ Retention
    /\ delete = "idle"
    /\ delete' = "filter"
    /\ cutoff' = Cutoff
    /\ held' = accel
    /\ accel' = NoRows
    /\ UNCHANGED <<mode, now, source, refreshVars, historyVars>>

\* Mutant: the rows at the cutoff go too.
ExpiredAtCutoff(r) == r.t <= cutoff

\* The filter `time_column < now - period`.
Expired(r) == r.t < cutoff

\* The rows that do not match the filter are appended again.
PutBack ==
    /\ delete = "filter"
    /\ accel' = [r \in Rows |->
                    Plus(accel[r], IF Expired(r) THEN 0 ELSE held[r])]
    /\ held' = NoRows
    /\ delete' = "idle"
    /\ UNCHANGED <<mode, now, source, refreshVars, cutoff, historyVars>>

\* Counting or collecting the kept rows fails: `?` returns and the rows that
\* were taken out are dropped.
DeleteError ==
    /\ DeleteFails
    /\ delete = "filter"
    /\ dropped' = dropped \cup {r \in Rows : held[r] > 0}
    /\ held' = NoRows
    /\ delete' = "idle"
    /\ UNCHANGED <<mode, now, source, accel, refreshVars, cutoff, written>>

-----------------------------------------------------------------------------
RefreshStep == StartRefresh \/ Fetch \/ FilterExisting \/ Write
RetentionStep == TakeRows \/ PutBack \/ DeleteError

Next ==
    \/ Tick
    \/ \E r \in Rows : SourceAdds(r)
    \/ RefreshStep
    \/ RefreshFails
    \/ RetentionStep

\* Refreshes recur (the check interval) and do not fail for ever; the
\* retention interval ticks.
Fairness ==
    /\ WF_vars(StartRefresh)
    /\ SF_vars(Fetch) /\ SF_vars(FilterExisting) /\ SF_vars(Write)
    /\ WF_vars(TakeRows) /\ WF_vars(PutBack)

Spec == Init /\ [][Next]_vars /\ Fairness

(***************************************************************************)
(* Properties.                                                             *)
(***************************************************************************)

\* An append refresh never writes a row the table already has, whatever the
\* overlap, late rows, failures and retries: the fetch and the filter agree
\* on what is local.
NoDuplicates == \A r \in Rows : accel[r] <= 1

\* With an overlap greater than the lateness of the source's rows, a row that
\* is not local and not in the refresh in flight is still ahead of the
\* timestamp the next refresh will fetch after: no row is passed over.
NothingPassedOver ==
    mode = "append" /\ Overlap > Lateness =>
        \A r \in source \ (Local \cup update) :
            refresh \in {"idle", "filter", "write"} =>
                \A s \in Local \cup update : r.t + Overlap > s.t

\* Every row of the source reaches the accelerator: append refreshes write it
\* some time, and full refreshes bring it back whenever the retention check
\* has evicted it or a failed delete has lost it.
EveryRowArrives ==
    \A r \in Rows :
        r \in source ~> (accel[r] > 0 \/ (mode = "append" /\ r \in written))

\* A row that a refresh wrote and that is younger than the retention period is
\* never lost between the retention check and the refreshes that run beside
\* it: it is in the table or held by the delete in progress. Only a delete
\* that fails after it took the rows out loses them.
UnexpiredRowsSurvive ==
    \A r \in written \ dropped :
        r.t >= Minus(now, RetentionPeriod) => accel[r] + held[r] > 0

\* A row past the retention period is evicted, even when a delete was under
\* way when it expired, unless a refresh fetches it again meanwhile (it does
\* when it finds the table emptied by the retention check).
ExpiredRowsLeave ==
    \A r \in Rows :
        (accel[r] > 0 /\ r.t < Minus(now, RetentionPeriod))
            ~> (accel[r] + held[r] = 0 \/ r \in update)

\* An append refresh fetches only rows more recent than the latest row of the
\* table less the overlap.
FetchesOnlyNewer ==
    [][refresh = "fetch" /\ refresh' = "filter" =>
         \A r \in update', s \in Rows :
             accel[s] + held[s] > 0 => r.t + Overlap > s.t]_vars
=============================================================================
