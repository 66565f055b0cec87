--------------------------- MODULE QueryTracking ---------------------------
(***************************************************************************)
(* What the runtime writes down about a query: the QueryTracker a query    *)
(* carries, the row of runtime.query_history made of it, and the span that *)
(* becomes a row of runtime.task_history.                                  *)
(*                                                                         *)
(* A statement is a record: `planning` and `starting` are the errors of    *)
(* create_logical_plan and execute_stream (or None), `writes` holds of DDL *)
(* and DML, `tables` are the tables it reads, `batches` the rows of each   *)
(* batch, `failure` the error after them (or None), `mismatch` that the    *)
(* plan's schema is not the result's, `json` that the rows can be written  *)
(* as JSON. An error is the sequence of its kinds, contexts first.         *)
(*                                                                         *)
(* Source: crates/runtime/src/datafusion/query/*.rs, task_history.rs and   *)
(* task_history/otel_exporter.rs.                                          *)
(***************************************************************************)
EXTENDS Integers, FiniteSets, SequencesExt, TLC

CONSTANTS
    None,
    RuntimeTables,  \* the tables of the schema `runtime`
    Preview         \* the rows kept of an answer as a preview (3 in the code)

\* The kinds of errors a query can meet: those of DataFusion, and the one of a result
\* that does not have the schema of its plan.
ErrorKinds ==
    {"ArrowError", "AvroError", "Configuration", "Context", "Execution", "External", "Internal",
     "IoError", "NotImplemented", "ObjectStore", "ParquetError", "Plan", "ResourcesExhausted",
     "SQL", "SchemaError", "SchemaMismatch", "Substrait"}

\* The class of a DataFusion error, that of the innermost error for a Context.
ErrorCode(error) ==
    LET kind == Last(error)
    IN  CASE kind = "SQL" -> "SyntaxError"
          [] kind \in {"Plan", "SchemaError"} -> "QueryPlanningError"
          [] kind \in {"ObjectStore", "External", "Execution"} -> "QueryExecutionError"
          [] OTHER -> "InternalError"

\* The number stored for a class; 0 is stored for a query that did not fail.
Status(code) ==
    CASE code = None -> 0
      [] code = "SyntaxError" -> -10
      [] code = "QueryPlanningError" -> -20
      [] code = "QueryExecutionError" -> -30
      [] code = "InternalError" -> -120

NewTracker(id, sql, nsql, protocol) ==
    [query_id |-> id, sql |-> sql, nsql |-> nsql, protocol |-> protocol, schema |-> FALSE,
     end_time |-> FALSE, rows_produced |-> 0, results_cache_hit |-> None,
     error_code |-> None, datasets |-> {}]

validate(t) == t.end_time

\* The row of query_history. Whether the cache was asked at all is not kept.
to_record_batch(t) ==
    [query_id |-> t.query_id, sql |-> t.sql, nsql |-> t.nsql, schema |-> t.schema,
     execution_status |-> Status(t.error_code), rows_produced |-> t.rows_produced,
     results_cache_hit |-> t.results_cache_hit = TRUE]

\* The events of target "task_history" the tracker leaves in the current span, once
\* its row is written.
trace_query(t, truncated_output) ==
    (IF t.error_code # None THEN <<[name |-> "labels", error_code |-> t.error_code]>> ELSE <<>>)
    \o <<[name |-> "labels", query_execution_duration_ms |-> "measured"]>>
    \o <<[name |-> "labels", protocol |-> t.protocol, datasets |-> t.datasets]>>
    \o <<[name |-> "event", truncated_output |-> truncated_output]>>

\* tracing::error!(target: "task_history", ...)
ErrorEvent(error) == [name |-> error, level |-> "ERROR"]

\* finish and finish_with_error, up to the write.
Finished(t, code) == [t EXCEPT !.end_time = TRUE, !.error_code = code]

(***************************************************************************)
(* Task history                                                            *)
(***************************************************************************)

AutogeneratedLabels ==
    {"thread.id", "code.namespace", "code.lineno", "idle_ns", "busy_ns", "runtime_query",
     "target", "code.filepath", "level", "thread.name", "input"}

filter_event_keys(key) == key \notin AutogeneratedLabels

\* The value of the first event that has the attribute, or None.
FirstWith(events, key) ==
    LET with == {i \in DOMAIN events : key \in DOMAIN events[i]}
    IN  IF with = {} THEN None ELSE events[Min(with)][key]

Labels(events) ==
    LET labels == {i \in DOMAIN events : events[i].name = "labels"}
        keys == {k \in UNION {DOMAIN events[i] : i \in labels} :
                    k # "name" /\ filter_event_keys(k)}
    IN  [k \in keys |-> LET i == CHOOSE i \in labels :
                                    /\ k \in DOMAIN events[i]
                                    /\ \A j \in labels : k \in DOMAIN events[j] => j <= i
                        IN  events[i][k]]

\* The rows made of one span: none for a query of the runtime's own tables.
span_to_task_span(span) ==
    IF span.runtime_query THEN {}
    ELSE LET errors == {i \in DOMAIN span.events :
                           "level" \in DOMAIN span.events[i] /\ span.events[i].level = "ERROR"}
         IN  {[span_id |-> span.id, task |-> span.task, input |-> span.input,
               truncated_output |-> FirstWith(span.events, "truncated_output"),
               error_message |-> IF errors = {} THEN None ELSE span.events[Min(errors)].name,
               labels |-> Labels(span.events)]}

\* TaskSpan::write: one row for each span, its labels as the entries of a map.
TaskRows(tasks) ==
    {[t EXCEPT !.labels = {[keys |-> k, values |-> t.labels[k]] : k \in DOMAIN t.labels}] : t \in tasks}
=============================================================================
