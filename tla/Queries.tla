------------------------------ MODULE Queries ------------------------------
(***************************************************************************)
(* The life of a SQL query, from the builder to the rows of                *)
(* runtime.query_history and runtime.task_history, with the results cache  *)
(* in front of the execution and a consumer that may go away at any await. *)
(*                                                                         *)
(* Source: Query::run and attach_query_tracker_to_stream in                *)
(* crates/runtime/src/datafusion/query.rs, Service in flight.rs,           *)
(* sql_to_http_response in http/v1/mod.rs.                                 *)
(***************************************************************************)
EXTENDS QueryTracking, FiniteSetsExt

CONSTANTS
    Callers,    \* whoever runs queries, one at a time
    Statement,  \* Statement[sql]: what becomes of the text `sql`
    MaxFaults   \* how many writes to the history tables and chats fail

VARIABLES
    query,          \* query[c]: the last query of c
    cached,         \* the texts whose result the cache holds
    query_history,  \* the rows of runtime.query_history
    unrecorded,     \* the queries whose row could not be written
    closed,         \* the spans that ended and wait for the exporter
    task_history,   \* the rows of runtime.task_history
    lost,           \* the spans of batches that could not be written
    faults

Errors == {None} \cup (Seq(ErrorKinds) \ {<<>>})

ASSUME StatementAssumption ==
    /\ None \notin ErrorKinds /\ None \notin BOOLEAN
    /\ None \notin {"SyntaxError", "QueryPlanningError", "QueryExecutionError", "InternalError",
                    "Hit from spiceai"}
    /\ \A sql \in DOMAIN Statement :
          LET s == Statement[sql]
          IN  /\ {s.planning, s.starting, s.failure} \subseteq Errors
              /\ {s.writes, s.mismatch, s.json} \subseteq BOOLEAN /\ s.batches \in Seq(Nat)

\* A text that is no statement does not parse.
Unparsed ==
    [planning |-> <<"SQL">>, starting |-> None, failure |-> None, writes |-> FALSE,
     mismatch |-> FALSE, json |-> TRUE, tables |-> {}, batches |-> <<>>]
StatementOf(sql) == IF sql \in DOMAIN Statement THEN Statement[sql] ELSE Unparsed

queryVars == <<query, cached, query_history, unrecorded, closed, task_history, lost, faults>>

Rows(batches) == FoldLeft(+, 0, batches)

\* QueryBuilder::build: the n-th query of c.
QueryBuilder(c, n, sql, nsql, restricted, protocol) ==
    [pc |-> "plan", tracker |-> NewTracker(<<c, n>>, sql, nsql, protocol),
     restricted_sql_options |-> restricted, plan_is_cache_enabled |-> FALSE,
     from_cache |-> None, out |-> <<>>, num_records |-> 0, truncated_output |-> 0,
     error |-> None, streaming |-> FALSE, runtime_query |-> FALSE, events |-> <<>>]

NoQuery(c) == [QueryBuilder(c, 0, "", None, FALSE, "internal") EXCEPT !.pc = "idle"]

QueryInit ==
    /\ query = [c \in Callers |-> NoQuery(c)]
    /\ cached = {} /\ query_history = {} /\ unrecorded = {}
    /\ closed = {} /\ task_history = {} /\ lost = {} /\ faults = 0

Sql(c) == query[c].tracker.sql
Plan(c) == StatementOf(Sql(c))
Running(c) == query[c].pc \in {"plan", "lookup", "execute", "stream", "finish"}
NextId(c) == query[c].tracker.query_id[2] + 1

StartQuery(c, sql, nsql, restricted, protocol) ==
    query' = [query EXCEPT ![c] = QueryBuilder(c, NextId(c), sql, nsql, restricted, protocol)]

\* handle_error!: the tracker is finished with the class, the error is returned.
Fail(q, code, error) ==
    [q EXCEPT !.pc = "finish", !.tracker = Finished(q.tracker, code), !.error = Last(error)]

CreateLogicalPlan(c) ==
    /\ query[c].pc = "plan"
    /\ query' = [query EXCEPT ![c] =
                    IF Plan(c).planning = None THEN [query[c] EXCEPT !.pc = "lookup"]
                    ELSE Fail(query[c], ErrorCode(Plan(c).planning), Plan(c).planning)]
    /\ UNCHANGED <<cached, query_history, unrecorded, closed, task_history, lost, faults>>

IsRuntime(plan) == plan.tables \cap RuntimeTables # {}

\* Mutant: a query of the runtime's own tables is not marked as such.
CheckedUnmarked(q, plan) ==
    LET missed == [q EXCEPT !.tracker.results_cache_hit = FALSE,
                            !.plan_is_cache_enabled = ~IsRuntime(plan)]
    IN  IF q.restricted_sql_options /\ plan.writes
        THEN Fail(missed, "QueryPlanningError", <<"Plan">>)
        ELSE [missed EXCEPT !.pc = "execute", !.tracker.datasets = plan.tables]

\* What follows a miss, up to the next await: the restricted options, the tables.
Checked(q, plan) ==
    LET missed == [q EXCEPT !.tracker.results_cache_hit = FALSE,
                            !.plan_is_cache_enabled = ~IsRuntime(plan)]
    IN  IF q.restricted_sql_options /\ plan.writes
        THEN Fail(missed, "QueryPlanningError", <<"Plan">>)
        ELSE [missed EXCEPT !.pc = "execute", !.tracker.datasets = plan.tables,
                            !.runtime_query = IsRuntime(plan)]

\* The answer of the results cache. A hit goes to the caller whatever it may run.
CacheGet(c) ==
    /\ query[c].pc = "lookup"
    /\ query' = [query EXCEPT ![c] =
                    IF Sql(c) \in cached
                    THEN [query[c] EXCEPT !.pc = "stream", !.from_cache = TRUE, !.streaming = TRUE,
                                          !.tracker.results_cache_hit = TRUE,
                                          !.tracker.datasets = Plan(c).tables]
                    ELSE Checked(query[c], Plan(c))]
    /\ UNCHANGED <<cached, query_history, unrecorded, closed, task_history, lost, faults>>

ExecuteStream(c) ==
    /\ query[c].pc = "execute"
    /\ query' = [query EXCEPT ![c] =
                    IF Plan(c).starting # None
                    THEN Fail(query[c], ErrorCode(Plan(c).starting), Plan(c).starting)
                    ELSE IF Plan(c).mismatch THEN Fail(query[c], "InternalError", <<"SchemaMismatch">>)
                    ELSE [query[c] EXCEPT !.pc = "stream", !.streaming = TRUE,
                                          !.from_cache = IF query[c].plan_is_cache_enabled THEN FALSE
                                                         ELSE None]]
    /\ UNCHANGED <<cached, query_history, unrecorded, closed, task_history, lost, faults>>

\* The preview is taken anew until a batch has rows.
NextBatch(c) ==
    LET rows == Plan(c).batches[Len(query[c].out) + 1]
    IN  /\ query[c].pc = "stream" /\ Len(query[c].out) < Len(Plan(c).batches)
        /\ query' = [query EXCEPT ![c] =
                [query[c] EXCEPT !.out = Append(query[c].out, rows),
                                 !.num_records = query[c].num_records + rows,
                                 !.truncated_output =
                                     IF query[c].num_records = 0
                                     THEN IF rows < Preview THEN rows ELSE Preview
                                     ELSE query[c].truncated_output]]
        /\ UNCHANGED <<cached, query_history, unrecorded, closed, task_history, lost, faults>>

\* Mutant: the rows sent before the error are forgotten.
StreamFailsUncounted(c) ==
    /\ query[c].pc = "stream" /\ Len(query[c].out) = Len(Plan(c).batches)
    /\ query[c].from_cache # TRUE /\ Plan(c).failure # None
    /\ query' = [query EXCEPT ![c] = Fail(query[c], "QueryExecutionError", Plan(c).failure)]
    /\ UNCHANGED <<cached, query_history, unrecorded, closed, task_history, lost, faults>>

\* The stream failed: the tracker is finished before the error is passed on.
StreamFails(c) ==
    /\ query[c].pc = "stream" /\ Len(query[c].out) = Len(Plan(c).batches)
    /\ query[c].from_cache # TRUE /\ Plan(c).failure # None
    /\ query' = [query EXCEPT ![c] =
                    Fail([query[c] EXCEPT !.tracker.schema = TRUE,
                                          !.tracker.rows_produced = query[c].num_records],
                         "QueryExecutionError", Plan(c).failure)]
    /\ UNCHANGED <<cached, query_history, unrecorded, closed, task_history, lost, faults>>

\* The stream ended: what was read is put in the cache, the tracker is finished.
StreamEnds(c) ==
    /\ query[c].pc = "stream" /\ Len(query[c].out) = Len(Plan(c).batches)
    /\ query[c].from_cache = TRUE \/ Plan(c).failure = None
    /\ cached' = IF query[c].from_cache = FALSE THEN cached \cup {Sql(c)} ELSE cached
    /\ query' = [query EXCEPT ![c] =
                    [query[c] EXCEPT !.pc = "finish",
                                     !.tracker = Finished([query[c].tracker EXCEPT !.schema = TRUE,
                                         !.rows_produced = query[c].num_records], None)]]
    /\ UNCHANGED <<query_history, unrecorded, closed, task_history, lost, faults>>

\* The span of the query, closed when the query is done with or dropped.
SpanOf(q, events) ==
    [id |-> q.tracker.query_id, runtime_query |-> q.runtime_query, events |-> events,
     task |-> IF q.tracker.nsql = None THEN "sql_query" ELSE "nsql_query",
     input |-> IF q.tracker.nsql = None THEN q.tracker.sql ELSE q.tracker.nsql]

\* write_query_history and the end of the query: the labels are only traced once the
\* row is written, the error in any case. A row that cannot be written is logged.
WriteQueryHistory(c) ==
    LET q == query[c]
        output == IF q.error = None THEN q.truncated_output ELSE None
        Ends(traced) ==
            LET events == q.events \o traced
                              \o IF q.error = None THEN <<>> ELSE <<ErrorEvent(q.error)>>
            IN  /\ query' = [query EXCEPT ![c].pc = "over", ![c].events = events]
                /\ closed' = closed \cup {SpanOf(q, events)}
    IN  /\ q.pc = "finish"
        /\ \/ /\ validate(q.tracker)
              /\ query_history' = query_history \cup {to_record_batch(q.tracker)}
              /\ Ends(trace_query(q.tracker, output))
              /\ UNCHANGED <<unrecorded, faults>>
           \/ /\ faults < MaxFaults /\ faults' = faults + 1
              /\ unrecorded' = unrecorded \cup {q.tracker.query_id}
              /\ Ends(<<>>)
              /\ UNCHANGED query_history
        /\ UNCHANGED <<cached, task_history, lost>>

\* The caller of c goes away and with it the future that runs the query.
DropQuery(c) ==
    /\ query' = IF Running(c) THEN [query EXCEPT ![c].pc = "dropped"] ELSE query
    /\ closed' = IF Running(c) THEN closed \cup {SpanOf(query[c], query[c].events)} ELSE closed

\* An entry of the cache expires or its dataset is refreshed.
Invalidate(sql) ==
    /\ sql \in cached
    /\ cached' = cached \ {sql}
    /\ UNCHANGED <<query, query_history, unrecorded, closed, task_history, lost, faults>>

\* TaskHistoryExporter::export of the spans that ended; a batch whose write fails is
\* gone.
ExportSpans ==
    /\ closed # {} /\ closed' = {}
    /\ \/ /\ task_history' = task_history \cup TaskRows(UNION {span_to_task_span(s) : s \in closed})
          /\ UNCHANGED <<lost, faults>>
       \/ /\ faults < MaxFaults /\ faults' = faults + 1
          /\ lost' = lost \cup {s.id : s \in closed}
          /\ UNCHANGED task_history
    /\ UNCHANGED <<query, cached, query_history, unrecorded>>

QueryStep(c) ==
    \/ CreateLogicalPlan(c) \/ CacheGet(c) \/ ExecuteStream(c)
    \/ NextBatch(c) \/ StreamFails(c) \/ StreamEnds(c) \/ WriteQueryHistory(c)

(***************************************************************************)
(* The servers in front of the query                                       *)
(***************************************************************************)

\* The header of an answer that says where it comes from.
attach_cache_metadata(from_cache) ==
    CASE from_cache = None -> None
      [] from_cache = TRUE -> "Hit from spiceai"
      [] from_cache = FALSE -> "Miss from spiceai"

\* The answer over HTTP, given when all is collected.
sql_to_http_response(q) ==
    IF q.error # None THEN [status |-> "400", rows |-> 0, x_cache |-> None]
    ELSE IF ~StatementOf(q.tracker.sql).json THEN [status |-> "500", rows |-> 0, x_cache |-> None]
    ELSE [status |-> "200", rows |-> Rows(q.out), x_cache |-> attach_cache_metadata(q.from_cache)]

\* The answer over Flight: the schema and the metadata when run succeeds, the batches
\* as they come, an error of the stream as its last item.
sql_to_flight_stream(q) ==
    [status |-> IF q.error = None THEN "ok"
                ELSE IF q.streaming THEN "invalid_argument" ELSE "internal",
     rows |-> Rows(q.out),
     x_cache |-> IF q.streaming THEN attach_cache_metadata(q.from_cache) ELSE None]

handle_datafusion_error(error) ==
    IF Last(error) \in {"Plan", "Execution", "SQL", "SchemaError"} /\ Len(error) = 1
    THEN "invalid_argument" ELSE "internal"

\* Service::get_arrow_schema: plans the text without any restriction. Only a failure
\* is recorded, and outside of any span.
get_arrow_schema(c, sql, protocol) ==
    LET failed == Finished(NewTracker(<<c, NextId(c)>>, sql, None, protocol),
                           ErrorCode(StatementOf(sql).planning))
    IN  IF StatementOf(sql).planning = None
        THEN UNCHANGED <<query, query_history, unrecorded, faults>>
        ELSE /\ query' = [query EXCEPT ![c].tracker.query_id = <<c, NextId(c)>>]
             /\ \/ /\ query_history' = query_history \cup {to_record_batch(failed)}
                   /\ UNCHANGED <<unrecorded, faults>>
                \/ /\ faults < MaxFaults /\ faults' = faults + 1
                   /\ unrecorded' = unrecorded \cup {failed.query_id}
                   /\ UNCHANGED query_history
=============================================================================
