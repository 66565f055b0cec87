------------------------------- MODULE Ingest -------------------------------
(***************************************************************************)
(* Everything that writes to the tables at once: DoPut, the OTLP service,  *)
(* which turns the metrics of a request into batches and writes them one   *)
(* after the other, and the exporter of the runtime's own metrics.         *)
(*                                                                         *)
(* Source: MetricsService::export in crates/runtime/src/opentelemetry.rs,  *)
(* OtelArrowExporter in crates/otel-arrow and SpiceMetricsExporter in      *)
(* crates/runtime/src/spice_metrics.rs.                                    *)
(***************************************************************************)
EXTENDS Replica, Opentelemetry

CONSTANTS
    Exports,        \* the OTLP calls
    Exporter,       \* the exporter of the runtime's metrics
    Cases,          \* what may be asked: [put, sub, follows, export, own, faults], the calls of
                    \* each client, the subscribers that are runtimes, the collections the
                    \* exporter is given, and the faults that are spent
    MetricsTable,   \* runtime.metrics
    MetricsSchema   \* its schema

VARIABLES
    export,     \* export[o]: [pc, request, todo, count, total, rejected, lost]; the
                \* last are the points no batch was made of
    exporter    \* [pc, todo, current, exported]

vars == <<flightVars, replica, export, exporter>>

ASSUME IngestAssumption ==
    /\ Writers = Puts \cup Exports \cup {Exporter}
    /\ Exporter \notin Puts \cup Exports /\ Puts \cap Exports = {}
    /\ Capacity \in Nat \ {0} /\ MaxFaults \in Nat

\* The tables a case has OTLP calls and the exporter write to.
MetricTables(c) ==
    {m.name : m \in UNION {ToSet(c.export[o]) : o \in DOMAIN c.export}}
        \cup {MetricsTable : own \in ToSet(c.own)}

\* What is asked are sequences of messages, metrics and collections; a table has clients
\* of one kind, and the batches that are put to it can be told apart by their rows.
ASSUME CasesAssumption ==
    \A c \in Cases :
        /\ c.own \in Seq(ToSet(c.own))
        /\ \A o \in DOMAIN c.export :
              /\ c.export[o] \in Seq(ToSet(c.export[o]))
              /\ \A m \in ToSet(c.export[o]) : m.points \in Seq(ToSet(m.points))
        /\ \A p \in DOMAIN c.put :
              /\ DOMAIN c.put[p] = {"first", "table", "schema", "rest"}
              /\ c.put[p].rest \in Seq(ToSet(c.put[p].rest))
              /\ c.put[p].table \notin MetricTables(c)
              /\ \A q \in DOMAIN c.put : \A i \in DOMAIN c.put[p].rest, j \in DOMAIN c.put[q].rest :
                    /\ c.put[p].rest[i].is = "batch" /\ c.put[p].rest[i].rows # <<>>
                    /\ c.put[q].table = c.put[p].table
                    /\ c.put[q].rest[j].rows = c.put[p].rest[i].rows
                    => q = p /\ j = i

Init ==
    \E c \in Cases :
        /\ FlightInit(c.put, c.sub)
        /\ ReplicaInit(c.follows)
        /\ faults = c.faults
        /\ export = [o \in Exports |->
                        [pc |-> IF o \in DOMAIN c.export THEN "next" ELSE "ok",
                         request |-> IF o \in DOMAIN c.export THEN c.export[o] ELSE <<>>,
                         todo |-> IF o \in DOMAIN c.export THEN c.export[o] ELSE <<>>,
                         count |-> 0, total |-> 0, rejected |-> 0, lost |-> {}]]
        /\ exporter = [pc |-> "next", todo |-> c.own, current |-> <<>>, exported |-> <<>>]

(***************************************************************************)
(* The OTLP service                                                        *)
(***************************************************************************)

get_arrow_schema(t) ==
    IF t \in DOMAIN tables /\ tables[t].exists /\ ~tables[t].parked THEN tables[t].schema
    ELSE None

Ids(points) == {points[i].id : i \in DOMAIN points}

\* What the metric at the head of the request becomes.
Converted(o) ==
    metric_data_to_record_batch(Head(export[o].todo), get_arrow_schema(Head(export[o].todo).name))

\* A metric that cannot be converted is logged, one without a table to write to is
\* rejected.
ExportMetric(o) ==
    /\ export[o].pc = "next" /\ export[o].todo # <<>>
    /\ \E c \in {Converted(o)} :
          LET t == Head(export[o].todo).name
              writes == c.batch.error = None /\ is_writable(t)
              rejects == c.batch.error = None /\ ~is_writable(t)
          IN  /\ export' = [export EXCEPT ![o] =
                    [pc |-> IF writes THEN "write" ELSE "next",
                     request |-> export[o].request,
                     todo |-> IF writes THEN export[o].todo ELSE Tail(export[o].todo),
                     count |-> c.count, total |-> export[o].total + c.count,
                     rejected |-> export[o].rejected + IF rejects THEN c.count ELSE 0,
                     lost |-> export[o].lost \cup (Ids(Head(export[o].todo).points) \
                                    (IF c.batch.error = None THEN Ids(c.batch.rows) ELSE {}))]]
              /\ IF writes THEN Writes(o, t, c.batch.schema, c.batch.rows) ELSE UNCHANGED job
    /\ UNCHANGED <<tables, put, channels, channel_map, sub, task, history, faults, replica,
                   exporter>>

\* Mutant: the points of a metric that fails are not rejected.
not_counted(n, failed, count) == n
Rejected(n, failed, count) == IF failed THEN n + count ELSE n

MetricWritten(o) ==
    /\ export[o].pc = "write" /\ job[o].stage \in {"ok", "failed"}
    /\ export' = [export EXCEPT ![o].pc = "next", ![o].todo = Tail(@),
                    ![o].rejected = Rejected(@, job[o].stage = "failed", export[o].count)]
    /\ job' = [job EXCEPT ![o] = NoJob]
    /\ UNCHANGED <<tables, put, channels, channel_map, sub, task, history, faults, replica,
                   exporter>>

Respond(o) ==
    /\ export[o].pc = "next" /\ export[o].todo = <<>>
    /\ export' = [export EXCEPT ![o].pc =
                    IF export[o].rejected >= export[o].total THEN "error" ELSE "ok"]
    /\ UNCHANGED <<flightVars, replica, exporter>>

ExportStep(o) == ExportMetric(o) \/ MetricWritten(o) \/ Respond(o)

(***************************************************************************)
(* The exporter of the runtime's metrics                                   *)
(***************************************************************************)

ExportOwn ==
    /\ exporter.pc = "next" /\ exporter.todo # <<>>
    /\ \E c \in {convert(Head(exporter.todo))} :
          /\ exporter' = [exporter EXCEPT !.todo = Tail(@), !.current = Head(exporter.todo),
                            !.pc = CASE c.result = "ok" -> "write"
                                     [] c.result = "error" -> "next"
                                     [] c.result = "panic" -> "panicked"]
          /\ IF c.result = "ok"
             THEN Writes(Exporter, MetricsTable, MetricsSchema,
                         [i \in DOMAIN c.columns.flat.name |-> ReadRow(c.columns, i)])
             ELSE UNCHANGED job
    /\ UNCHANGED <<tables, put, channels, channel_map, sub, task, history, faults, replica,
                   export>>

OwnWritten ==
    /\ exporter.pc = "write" /\ job[Exporter].stage \in {"ok", "failed"}
    /\ exporter' = [exporter EXCEPT !.pc = "next",
                        !.exported = IF job[Exporter].stage = "ok"
                                     THEN Append(@, exporter.current) ELSE @]
    /\ job' = [job EXCEPT ![Exporter] = NoJob]
    /\ UNCHANGED <<tables, put, channels, channel_map, sub, task, history, faults, replica,
                   export>>

Next ==
    \/ \E p \in Puts : PutStep(p) /\ UNCHANGED <<replica, export, exporter>>
    \/ \E w \in Writers : WriteStep(w) /\ UNCHANGED <<replica, export, exporter>>
    \/ \E s \in Subscribers :
          /\ SubscriberStep(s) \/ TaskStep(s) \/ Leave(s)
          /\ UNCHANGED <<replica, export, exporter>>
    \/ \E s \in Replicas : ReplicaStep(s) /\ UNCHANGED <<export, exporter>>
    \/ \E t \in DOMAIN Tables : RemoveTable(t) /\ UNCHANGED <<replica, export, exporter>>
    \/ \E o \in Exports : ExportStep(o)
    \/ ExportOwn \/ OwnWritten

\* When an OTLP call and the exporter can go on.
CanExport(o) ==
    export[o].pc = "next" \/ (export[o].pc = "write" /\ job[o].stage \in {"ok", "failed"})
CanExportOwn ==
    \/ exporter.pc = "next" /\ exporter.todo # <<>>
    \/ exporter.pc = "write" /\ job[Exporter].stage \in {"ok", "failed"}

\* Every call and every task the runtime spawned goes on while it can: weak fairness,
\* that of all but the first three written out.
Fairness ==
    /\ \A p \in Puts : WF_vars(PutStep(p) /\ UNCHANGED <<replica, export, exporter>>)
    /\ \A w \in Writers : WF_vars(WriteStep(w) /\ UNCHANGED <<replica, export, exporter>>)
    /\ \A s \in Subscribers :
          /\ WF_vars(SubscriberStep(s) /\ UNCHANGED <<replica, export, exporter>>)
          /\ \/ []<>(task[s].stage \notin {"read", "send"})
             \/ []<><<TaskStep(s) /\ UNCHANGED <<replica, export, exporter>>>>_vars
          /\ \/ []<>(s \notin Replicas \/ ~Arrived(s))
             \/ []<><<s \in Replicas /\ ReplicaStep(s) /\ UNCHANGED <<export, exporter>>>>_vars
    /\ \A o \in Exports : []<>~CanExport(o) \/ []<><<ExportStep(o)>>_vars
    /\ []<>~CanExportOwn \/ []<><<ExportOwn \/ OwnWritten>>_vars

Spec == Init /\ [][Next]_vars /\ Fairness

(***************************************************************************)
(* Properties                                                              *)
(***************************************************************************)

Copies(t, b, batch) == Cardinality({i \in DOMAIN tables[t][b] : tables[t][b][i] = batch})

\* A put that was answered with a result is stored in exactly one place, one that
\* was answered with an error in one at most: insert_into tees its input, but the
\* branches read the same stream, and the branch of a sink's source reads nothing.
AcknowledgedOnce ==
    \A p \in Puts : \A i \in DOMAIN put[p].results :
        LET r == put[p].results[i]
            t == put[p].script.table
            n == Copies(t, "accelerator", r.rows) + Copies(t, "source", r.rows)
        IN  r.rows # <<>> => n <= 1 /\ (r.is = "ok" => n = 1)

\* What the comments of insert_into and TeeExec say: a write of an accelerated table
\* reaches the acceleration and its source.
InsertReachesBoth ==
    \A p \in Puts : \A i \in DOMAIN put[p].results :
        LET r == put[p].results[i]
            t == put[p].script.table
        IN  r.is = "ok" /\ tables[t].kind = "tee" =>
                Copies(t, "accelerator", r.rows) = 1 /\ Copies(t, "source", r.rows) = 1

CaughtUp(s) ==
    /\ sub[s].pc = "open" /\ ~sub[s].lagged
    /\ channel_map[sub[s].table] = sub[s].channel
    /\ task[s].stage = "done" /\ sub[s].next > Len(channels[sub[s].channel])
    /\ s \in Replicas => ~Arrived(s)

Unsettled(t) ==
    KeysOf(t, UNION {ToSet(job[w].batch) : w \in {w \in Writers : job[w].table = t}})
RowsOfKey(s, key) == {i \in DOMAIN replica[s].rows : KeyOf[replica[s].rows[i]] = key}

\* What a subscriber has: the rows it was sent or, of a runtime, those its accelerator
\* holds, where a key has one row if it upserts.
Has(s, r) ==
    IF s \notin Replicas THEN r \in ToSet(FlattenSeq(sub[s].got))
    ELSE /\ r \in ToSet(replica[s].rows)
         /\ replica[s].upsert => Cardinality(RowsOfKey(s, KeyOf[r])) = 1

\* Why it may lack a row of the table: the row was sent before it listened and stored
\* after its task read the table, or never sent; its change could not be written; or
\* rows of the key were sent in another order than they were stored.
Excused(s, r) ==
    LET t == sub[s].table IN
    \/ r \in history.unheard[s]
    \/ s \in Replicas /\ r \in replica[s].dropped
    \/ s \in Replicas /\ replica[s].upsert /\ KeysOf(t, {r}) \cap (history.doubt[t] \cup Unsettled(t)) # {}

\* A subscriber that has read its channel, never fell behind and whose channel was
\* not replaced by a second one for the table has every row the table shows, and a
\* runtime that upserts the newest row of every key once, however often what others
\* asked for is sent to it again: except for the rows and keys that are excused.
MissedRowsExplained ==
    \A s \in Subscribers :
        CaughtUp(s) /\ tables[sub[s].table].exists =>
            LET shown == Select(sub[s].table)
            IN  shown.ok => \A r \in ToSet(FlattenSeq(shown.batches)) : Has(s, r) \/ Excused(s, r)

MetricRows(t) == FlattenSeq(tables[t].accelerator)
RowIds(t) == Ids(MetricRows(t))

\* The metrics of the requests go to sink datasets, to which the exporter does not write,
\* and no two of them have a point in common.
SunkOnce ==
    \A c \in Cases : \A o \in DOMAIN c.export : \A i \in DOMAIN c.export[o] :
        LET m == c.export[o][i] IN
        /\ m.name \in DOMAIN Tables => Tables[m.name].kind = "sink"
        /\ c.own # <<>> => m.name # MetricsTable
        /\ \A x \in DOMAIN c.export : \A j \in DOMAIN c.export[x] :
              Ids(c.export[x][j].points) \cap Ids(m.points) # {} => x = o /\ j = i

\* The answer to an export can be trusted by a client that sends again what was
\* rejected: an error means that nothing was stored, and with nothing rejected every
\* point that made it into a batch is. (A metric that cannot be converted is not
\* reported at all.)
ExportIsAccounted ==
    \A o \in Exports : \A m \in ToSet(export[o].request) :
        /\ export[o].pc = "error" /\ m.name \in DOMAIN tables =>
              Ids(m.points) \cap RowIds(m.name) = {}
        /\ export[o].pc = "ok" /\ export[o].rejected = 0 =>
              Ids(m.points) \ export[o].lost \subseteq RowIds(m.name)

\* A row of a metric's table holds the attributes of its point, each in its own
\* column: the columns stay level however many points lack an attribute or give it
\* in another type, provided the point brings no attribute that neither the table nor
\* the first point had.
PointsKeepAttributes ==
    \A o \in Exports : \A m \in ToSet(export[o].request) :
        m.name \in DOMAIN tables =>
            LET first == IF Tables[m.name].parked THEN None ELSE Tables[m.name].schema
                kept == KeptPoints(m.points, IF first = None THEN None ELSE first.value).kept
                rows == ToSet(MetricRows(m.name))
                type == [f \in ToSet(tables[m.name].schema.attributes) |-> f.type]
            IN  Regular(kept, first) =>
                    \A p \in ToSet(kept) : \A row \in {x \in rows : x.id = p.id} :
                        \A f \in DOMAIN type :
                            row.attributes[f.key] = ValueOf(p, f.key, type[f])

Strings(attributes) == \A a \in ToSet(attributes) : a.type = "Str"
AllStrings(ms) ==
    \A m \in ToSet(ms) :
        /\ Strings(m.resource.attributes) /\ Strings(m.scope.attributes)
        /\ \A p \in ToSet(m.points) : Strings(p.attributes)

\* The rows of runtime.metrics are the points of the collections that were exported,
\* in order, each with the attributes, the resource and the value it had, as long as
\* counters stay below the sign bit; the exporter panics only over an attribute that
\* is no string, for the column of strings may hold no nulls.
MetricsAreThePoints ==
    /\ exporter.pc = "panicked" => ~AllStrings(exporter.current)
    /\ exporter.pc = "next" /\ tables[MetricsTable].exists =>
          MetricRows(MetricsTable) =
              FlattenSeq([i \in DOMAIN exporter.exported |-> PointRows(exporter.exported[i])])

Behind(s) ==
    \/ sub[s].pc = "open" /\ sub[s].next <= Len(channels[sub[s].channel])
    \/ s \in Replicas /\ Arrived(s)

\* Every put and every export is answered, a subscriber gets what is sent on its
\* channel or leaves, and a runtime that follows a table is done with what it was sent:
\* no call waits for another.
EveryCallEnds ==
    /\ \A p \in Puts : <>(put[p].pc \in {"done", "refused"})
    /\ \A o \in Exports : <>(export[o].pc \in {"ok", "error"})
    /\ \A s \in Subscribers : Behind(s) ~> ~Behind(s)
=============================================================================
