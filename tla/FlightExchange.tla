---------------------------- MODULE FlightExchange --------------------------
(***************************************************************************)
(* Rows that clients put, their way into the tables, and the subscribers   *)
(* that DoExchange serves: a put is sent on the channel of its table, then *)
(* written; a subscriber takes or makes the channel of the table, and a    *)
(* task of its own reads the table and sends what it finds on that         *)
(* channel.                                                                *)
(*                                                                         *)
(* Source: flight/do_put.rs, flight/do_exchange.rs, write_data in          *)
(* datafusion.rs and insert_into in accelerated_table.rs, of               *)
(* crates/runtime/src; crates/data_components/src/flight/write.rs.         *)
(***************************************************************************)
EXTENDS ExecutionPlans

CONSTANTS
    Tables,         \* the tables, [kind, zero, writable, parked, schema, constraints,
                    \* upsert, other]
    Puts,           \* the DoPut calls
    Subscribers,    \* the DoExchange calls
    Writers,        \* everyone who writes: the puts and others
    Removable,      \* the tables whose dataset may be removed
    KeyOf,          \* KeyOf[r]: the key of the row r of a table that upserts
    Capacity,       \* of a channel: 100
    MaxFaults       \* inserts that fail, datasets removed, subscribers that leave

VARIABLES
    tables,     \* tables[t] with accelerator and source, the batches each holds
    put,        \* put[p]: [pc, script, results]
    job,        \* job[w]: the call of write_data w waits for
    channels,   \* the channels there have been, each the updates sent on it
    channel_map, \* channel_map[t]: the channel of t, 0 when it has none
    sub,        \* sub[s]: [pc, table, channel, next, got, lagged]; got the batches it was sent
    task,       \* task[s]: the task that reads the table for s
    history,    \* [unheard, doubt]: for each subscriber the rows that were being written
                \* when it subscribed or were stored without being sent, for each table the
                \* keys that may have been sent in another order than stored
    faults

flightVars == <<tables, put, job, channels, channel_map, sub, task, history, faults>>

NoJob == [stage |-> "none", table |-> "none", batch |-> <<>>, schema |-> <<>>,
          shared |-> <<>>, branch |-> <<>>]

\* A table is of a `sink` dataset, parked until its first write, or accelerated
\* over a source that is written to as well, or federated.
Table(c) ==
    [kind |-> c.kind, zero |-> c.zero, writable |-> c.writable, parked |-> c.parked,
     schema |-> c.schema, constraints |-> c.constraints, upsert |-> c.upsert,
     other |-> c.other, exists |-> TRUE, accelerator |-> <<>>, source |-> <<>>]

\* script[p] is the call p makes, [first, table, schema, rest], and topic[s] the table
\* s asks for, if it does.
FlightInit(script, topic) ==
    /\ tables = [t \in DOMAIN Tables |-> Table(Tables[t])]
    /\ put = [p \in Puts |->
                IF p \in DOMAIN script
                THEN [pc |-> "first", script |-> script[p], results |-> <<>>]
                ELSE [pc |-> "done", script |-> <<>>, results |-> <<>>]]
    /\ job = [w \in Writers |-> NoJob]
    /\ channels = <<>>
    /\ channel_map = [t \in DOMAIN Tables |-> 0]
    /\ sub = [s \in Subscribers |->
                [pc |-> IF s \in DOMAIN topic THEN "idle" ELSE "gone",
                 table |-> IF s \in DOMAIN topic THEN topic[s] ELSE "none",
                 channel |-> 0, next |-> 1, got |-> <<>>, lagged |-> FALSE]]
    /\ task = [s \in Subscribers |-> [stage |-> "none", batches |-> <<>>]]
    /\ history = [unheard |-> [s \in Subscribers |-> {}], doubt |-> [t \in DOMAIN Tables |-> {}]]

(***************************************************************************)
(* write_data                                                              *)
(***************************************************************************)

is_writable(t) == t \in DOMAIN tables /\ tables[t].exists /\ tables[t].writable

Writes(w, t, schema, batch) ==
    job' = [job EXCEPT ![w] = [NoJob EXCEPT !.stage = "plan", !.table = t, !.batch = batch,
                                            !.schema = schema]]

\* The columns of a schema, [value, attributes], are compared by position and type
\* alone.
FieldTypes(s) == <<s.value>> \o [i \in DOMAIN s.attributes |-> s.attributes[i].type]
verify_schema(expected, actual) == FieldTypes(expected) = FieldTypes(actual)

\* The branches the insert of a table has: one of the source alone, or both.
InsertBranches(t) ==
    IF tables[t].kind = "federated" THEN {"source"}
    ELSE {Branches[i] : i \in {i \in DOMAIN Branches : SliceExec(i - 1, 0)}}

\* The table is found, a parked one registered with the schema of the rows, and
\* the insert planned, with its rows in one stream.
PlanInsert(w) ==
    LET t == job[w].table
        parked == is_writable(t) /\ tables[t].parked IN
    /\ job[w].stage = "plan"
    /\ tables' = IF ~parked THEN tables
                 ELSE [tables EXCEPT ![t].parked = FALSE, ![t].schema = job[w].schema]
    /\ job' = [job EXCEPT ![w] =
                IF is_writable(t) /\ (parked \/ verify_schema(tables[t].schema, @.schema))
                THEN [@ EXCEPT !.stage = "run", !.shared = <<job[w].batch>>,
                               !.branch = [b \in InsertBranches(t) |-> "start"]]
                ELSE [@ EXCEPT !.stage = "failed"]]
    /\ UNCHANGED <<put, channels, channel_map, sub, task, history, faults>>

\* SinkDataSink and FlightDataSink: the first looks at none of its input.
Ignores(t, b) == tables[t].kind = "sink" /\ b = "source"

\* A branch locks the stream and reads it to its end.
ReadInput(w, b) ==
    LET read == StreamingDataUpdateExecutionPlan(job[w].shared) IN
    /\ job[w].stage = "run"
    /\ b \in DOMAIN job[w].branch /\ job[w].branch[b] = "start"
    /\ job' = [job EXCEPT ![w] =
                IF Ignores(@.table, b) THEN [@ EXCEPT !.branch[b] = "done"]
                ELSE IF read.read = <<>> THEN [@ EXCEPT !.branch[b] = "empty"]
                ELSE [@ EXCEPT !.branch[b] = "rows", !.shared = read.left]]
    /\ UNCHANGED <<tables, put, channels, channel_map, sub, task, history, faults>>

\* The branch stores what it read.
Store(w, b) ==
    LET t == job[w].table IN
    /\ job[w].stage = "run"
    /\ b \in DOMAIN job[w].branch /\ job[w].branch[b] \in {"rows", "empty"}
    /\ job' = [job EXCEPT ![w].branch[b] = "done"]
    /\ tables' = IF job[w].branch[b] = "rows"
                 THEN [tables EXCEPT ![t][b] = Append(@, job[w].batch)] ELSE tables
    /\ history' = IF w \in Puts THEN history
                  ELSE [history EXCEPT !.unheard = [s \in Subscribers |->
                            IF sub[s].table = t THEN @[s] \cup ToSet(job[w].batch) ELSE @[s]]]
    /\ UNCHANGED <<put, channels, channel_map, sub, task, faults>>

\* One branch fails: the insert ends and the other is dropped where it is.
StoreFails(w, b) ==
    /\ faults < MaxFaults
    /\ job[w].stage = "run"
    /\ b \in DOMAIN job[w].branch /\ job[w].branch[b] \in {"rows", "empty"}
    /\ job' = [job EXCEPT ![w].stage = "failed"]
    /\ faults' = faults + 1
    /\ UNCHANGED <<tables, put, channels, channel_map, sub, task, history>>

Collected(w) ==
    /\ job[w].stage = "run"
    /\ \A b \in DOMAIN job[w].branch : job[w].branch[b] = "done"
    /\ job' = [job EXCEPT ![w].stage = "ok"]
    /\ UNCHANGED <<tables, put, channels, channel_map, sub, task, history, faults>>

Writing(w) == job[w].stage \in {"plan", "run"}
InFlight(t) == UNION {ToSet(job[w].batch) : w \in {w \in Writers : Writing(w) /\ job[w].table = t}}

KeysOf(t, rows) == IF Tables[t].upsert THEN {KeyOf[r] : r \in rows} ELSE {}

WriteStep(w) ==
    \/ PlanInsert(w) \/ Collected(w)
    \/ \E b \in ToSet(Branches) : ReadInput(w, b) \/ Store(w, b) \/ StoreFails(w, b)

\* A dataset is removed.
RemoveTable(t) ==
    /\ faults < MaxFaults /\ t \in Removable /\ tables[t].exists
    /\ tables' = [tables EXCEPT ![t].exists = FALSE]
    /\ faults' = faults + 1
    /\ UNCHANGED <<put, job, channels, channel_map, sub, task, history>>

(***************************************************************************)
(* DoPut                                                                   *)
(***************************************************************************)

\* The first message names the table and carries the schema; rows that come with
\* it are decoded and left there.
PutFirst(p) ==
    LET first == put[p].script.first IN
    /\ put[p].pc = "first"
    /\ put' = [put EXCEPT ![p].pc =
                IF first = "schema" /\ is_writable(put[p].script.table)
                THEN "stream" ELSE "refused"]
    /\ UNCHANGED <<tables, job, channels, channel_map, sub, task, history, faults>>

\* Mutant: a full channel takes no more updates.
sent_when_room(t, batch) ==
    IF channel_map[t] = 0 THEN channels
    ELSE IF Len(channels[channel_map[t]]) >= Capacity THEN channels
    ELSE [channels EXCEPT ![channel_map[t]] = Append(@, batch)]
\* get_sender_channel and what is sent on it.
Sent(t, batch) ==
    IF channel_map[t] = 0 THEN channels
    ELSE [channels EXCEPT ![channel_map[t]] = Append(@, batch)]

\* The rows sent now may overtake, or be overtaken by, others of their keys: a put that
\* is being written, and what a task has read and has yet to send.
Crossing(t, rows) ==
    KeysOf(t, rows) \cap
        (KeysOf(t, InFlight(t)) \cup
         KeysOf(t, UNION {ToSet(FlattenSeq(task[s].batches)) :
                            s \in {s \in Subscribers : sub[s].channel = channel_map[t]}}))

\* The next message: subscribers are sent its rows before they are written.
PutNext(p) ==
    LET todo == put[p].script.rest
        m == Head(todo)
        t == put[p].script.table IN
    /\ put[p].pc = "stream"
    /\ \/ /\ todo # <<>> => m.is = "undecodable"
          /\ put' = [put EXCEPT ![p].pc = "done"]
          /\ UNCHANGED <<job, channels, history>>
       \/ /\ todo # <<>> /\ m.is = "broken"
          /\ put' = [put EXCEPT ![p].script.rest = Tail(@),
                                ![p].results = Append(@, [rows |-> <<>>, is |-> "error"])]
          /\ UNCHANGED <<job, channels, history>>
       \/ /\ todo # <<>> /\ m.is = "batch"
          /\ channels' = Sent(t, m.rows)
          /\ Writes(p, t, put[p].script.schema, m.rows)
          /\ put' = [put EXCEPT ![p].pc = "write"]
          /\ history' = [history EXCEPT !.doubt[t] = @ \cup Crossing(t, ToSet(m.rows))]
    /\ UNCHANGED <<tables, channel_map, sub, task, faults>>

PutWritten(p) ==
    /\ put[p].pc = "write" /\ job[p].stage \in {"ok", "failed"}
    /\ put' = [put EXCEPT ![p].pc = "stream", ![p].script.rest = Tail(@),
                          ![p].results = Append(@, [rows |-> job[p].batch, is |-> job[p].stage])]
    /\ job' = [job EXCEPT ![p] = NoJob]
    /\ history' = IF job[p].stage = "ok" THEN history
                  ELSE [history EXCEPT !.doubt[job[p].table] = @ \cup
                                            KeysOf(job[p].table, ToSet(job[p].batch))]
    /\ UNCHANGED <<tables, channels, channel_map, sub, task, faults>>

PutStep(p) == PutFirst(p) \/ PutNext(p) \/ PutWritten(p)

(***************************************************************************)
(* DoExchange                                                              *)
(***************************************************************************)

\* A receiver sees what is sent from now on; the table is read by a task.
Open(s, ch, log) ==
    /\ sub' = [sub EXCEPT ![s].pc = "open", ![s].channel = ch, ![s].next = Len(log) + 1]
    /\ task' = [task EXCEPT ![s].stage = "read"]
    /\ history' = [history EXCEPT !.unheard[s] = InFlight(sub[s].table)]

\* The request is checked and the map read; with no channel in it the lock is let go.
Subscribe(s) ==
    LET t == sub[s].table IN
    /\ sub[s].pc = "idle"
    /\ IF t \notin DOMAIN tables \/ ~tables[t].exists \/ tables[t].parked
       THEN sub' = [sub EXCEPT ![s].pc = "refused"] /\ UNCHANGED <<task, history>>
       ELSE IF channel_map[t] # 0 THEN Open(s, channel_map[t], channels[channel_map[t]])
       ELSE sub' = [sub EXCEPT ![s].pc = "absent"] /\ UNCHANGED <<task, history>>
    /\ UNCHANGED <<tables, put, job, channels, channel_map, faults>>

\* The new channel takes the place of one that came meanwhile.
MakeChannel(s) ==
    /\ sub[s].pc = "absent"
    /\ channels' = Append(channels, <<>>)
    /\ channel_map' = [channel_map EXCEPT ![sub[s].table] = Len(channels) + 1]
    /\ Open(s, Len(channels) + 1, <<>>)
    /\ UNCHANGED <<tables, put, job, faults>>

\* The first of the primary keys is taken when the table has constraints at all.
get_primary_keys_panics(t) == tables[t].constraints = "unique"

\* Mutant: a subscriber that lags is not moved to the oldest update.
stays_behind(next, oldest) == next
\* A receiver that fell behind goes on with the oldest update the ring has.
AfterLag(next, oldest) == oldest

\* What was overwritten in the ring is skipped, and the subscriber is not told.
Receive(s) ==
    LET log == channels[sub[s].channel]
        oldest == Len(log) - Capacity + 1 IN
    /\ sub[s].pc = "open" /\ sub[s].next <= Len(log)
    /\ sub' = [sub EXCEPT ![s] =
                IF @.next < oldest THEN [@ EXCEPT !.next = AfterLag(@, oldest), !.lagged = TRUE]
                ELSE IF get_primary_keys_panics(@.table) THEN [@ EXCEPT !.pc = "panicked"]
                ELSE [@ EXCEPT !.next = @ + 1, !.got = Append(@, log[sub[s].next])]]
    /\ UNCHANGED <<tables, put, job, channels, channel_map, task, history, faults>>

SourcePlan(t) == Plan(<<[i \in DOMAIN tables[t].source |-> Batch(tables[t].source[i])],
                        [i \in DOMAIN tables[t].other |-> Batch(tables[t].other[i])]>>)
\* An accelerator with a primary key and `on_conflict: upsert` replaces the row of a key.
Upsert(rows, r) == Append(SelectSeq(rows, LAMBDA q : KeyOf[q] # KeyOf[r]), r)
Insert(upsert, rows, r) == IF upsert THEN Upsert(rows, r) ELSE Append(rows, r)
Upserted(batches) ==
    IF batches = <<>> THEN <<>> ELSE <<FoldLeft(Upsert, <<>>, FlattenSeq(batches))>>
AcceleratorPlan(t) ==
    LET held == IF tables[t].upsert THEN Upserted(tables[t].accelerator)
                ELSE tables[t].accelerator
    IN  Plan(<<[i \in DOMAIN held |-> Batch(held[i])]>>)

\* SELECT * FROM the table.
Select(t) ==
    Collect(IF tables[t].kind = "federated" THEN CoalescePartitionsExec(SourcePlan(t))
            ELSE scan(tables[t].zero, AcceleratorPlan(t), SourcePlan(t), <<>>))

\* A query that fails ends the task without a word.
ReadTable(s) ==
    LET t == sub[s].table
        result == Select(t) IN
    /\ task[s].stage = "read"
    /\ task' = [task EXCEPT ![s] =
                IF ~tables[t].exists \/ ~result.ok THEN [stage |-> "lost", batches |-> <<>>]
                ELSE [stage |-> IF result.batches = <<>> THEN "done" ELSE "send",
                      batches |-> result.batches]]
    /\ history' = [history EXCEPT !.doubt[t] = @ \cup
                        (KeysOf(t, InFlight(t)) \cap KeysOf(t, ToSet(FlattenSeq(result.batches))))]
    /\ UNCHANGED <<tables, put, job, channels, channel_map, sub, faults>>

\* What the table held goes to everyone on the channel.
SendBatch(s) ==
    /\ task[s].stage = "send"
    /\ channels' = [channels EXCEPT ![sub[s].channel] = Append(@, Head(task[s].batches))]
    /\ task' = [task EXCEPT ![s] =
                [stage |-> IF Len(@.batches) = 1 THEN "done" ELSE "send",
                 batches |-> Tail(@.batches)]]
    /\ UNCHANGED <<tables, put, job, channel_map, sub, history, faults>>

Leave(s) ==
    /\ sub[s].pc = "open" /\ faults < MaxFaults
    /\ sub' = [sub EXCEPT ![s].pc = "gone"]
    /\ faults' = faults + 1
    /\ UNCHANGED <<tables, put, job, channels, channel_map, task, history>>

SubscriberStep(s) == Subscribe(s) \/ MakeChannel(s) \/ Receive(s)
TaskStep(s) == ReadTable(s) \/ SendBatch(s)
=============================================================================
