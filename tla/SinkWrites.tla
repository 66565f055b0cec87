----------------------------- MODULE SinkWrites -----------------------------
(***************************************************************************)
(* Writing to `sink` datasets. A sink dataset has no schema until the      *)
(* first write: its registration is parked in pending_sink_tables, and     *)
(* write_data registers the accelerated table when the first data arrives. *)
(* Requests (do_put messages, OpenTelemetry metrics) write concurrently    *)
(* with each other and with the pods watcher, which adds, updates and      *)
(* removes datasets. The accelerator is in memory: a new table is empty.   *)
(*                                                                         *)
(* Source: datafusion.rs and lib.rs of crates/runtime/src.                 *)
(***************************************************************************)
EXTENDS Naturals, SequencesExt

CONSTANTS
    Requests,          \* write requests, one call of write_data each
    Datasets,          \* sink datasets
    NoTable,           \* a model value that is no request
    Serial,            \* clients send one request at a time to a dataset
    ReconfigureParked, \* datasets are updated or removed before their first write
    MaxConfigs         \* bound: changes of the configuration

ASSUME SinkAssumption ==
    /\ IsFiniteSet(Requests) /\ NoTable \notin Requests
    /\ Serial \in BOOLEAN /\ ReconfigureParked \in BOOLEAN
    /\ MaxConfigs \in Nat

VARIABLES
    pending,  \* pending_sink_tables
    writable, \* data_writers
    table,    \* the registered table of a dataset, named by the request that
              \* registered it
    rows,     \* the requests whose rows the registered table holds
    pc,       \* where each request stands in write_data
    target,   \* the dataset it writes to
    found,    \* the table get_table_provider gave it
    void,     \* history: requests overtaken by an update of their dataset
    waiting,  \* those waiting for the lock of pending_sink_tables, in order
    app,      \* what the pods watcher is about to park
    configs   \* changes of the configuration so far

tableVars == <<table, rows>>
requestVars == <<pc, target, found>>
appVars == <<app, configs>>
sinkVars == <<pending, writable, tableVars, requestVars, void, waiting, appVars>>

Stages == {"idle", "check", "register", "remove", "lookup", "insert", "ok",
           "error", "panicked"}
Watcher == "app"

TypeOK ==
    /\ pending \in Seq(Datasets)
    /\ writable \subseteq Datasets
    /\ table \in [Datasets -> Requests \cup {NoTable}]
    /\ rows \in [Datasets -> SUBSET Requests]
    /\ pc \in [Requests -> Stages]
    /\ target \in [Requests -> Datasets]
    /\ found \in [Requests -> Requests \cup {NoTable}]
    /\ void \subseteq Requests
    /\ waiting \in Seq(Requests \cup {Watcher})
    /\ app \subseteq Datasets
    /\ configs \in 0..MaxConfigs

SinkInit ==
    /\ pending = <<>>
    /\ writable = {}
    /\ table = [d \in Datasets |-> NoTable]
    /\ rows = [d \in Datasets |-> {}]
    /\ pc = [w \in Requests |-> "idle"]
    /\ target \in [Requests -> Datasets]
    /\ found = [w \in Requests |-> NoTable]
    /\ void = {}
    /\ waiting = <<>>
    /\ app = {}
    /\ configs = 0

(***************************************************************************)
(* The lock of pending_sink_tables: a queue, as tokio's RwLock is. Readers *)
(* hold it while they register; whoever writes has it alone.               *)
(***************************************************************************)

\* Mutant: the first read guard is still held when the write guard is asked
\* for.
KeepsReading(w) == pc[w] \in {"register", "remove"}

\* `drop(pending_sink_registrations)` ends the read guard.
Reading(w) == pc[w] = "register"

\* The head of the queue is served.
Served == Tail(waiting)

IsNext(x) == waiting # <<>> /\ Head(waiting) = x
NoReaders == \A w \in Requests : ~Reading(w)

(***************************************************************************)
(* write_data.                                                             *)
(***************************************************************************)
Unanswered(w) == pc[w] \notin {"idle", "ok", "error", "panicked"}

\* is_writable holds: ensure_sink_dataset asks for a read guard.
WriteData(w) ==
    /\ pc[w] = "idle"
    /\ target[w] \in writable
    /\ Serial => \A v \in Requests : target[v] = target[w] => ~Unanswered(v)
    /\ pc' = [pc EXCEPT ![w] = "check"]
    /\ waiting' = Append(waiting, w)
    /\ UNCHANGED <<pending, writable, tableVars, target, found, void, appVars>>

\* The registration is looked for under the read guard, which is kept while
\* the table is created, or dropped if there is nothing to register.
CheckPending(w) ==
    /\ pc[w] = "check" /\ IsNext(w)
    /\ waiting' = Served
    /\ pc' = [pc EXCEPT ![w] =
                 IF target[w] \in ToSet(pending) THEN "register" ELSE "lookup"]
    /\ UNCHANGED <<pending, writable, tableVars, target, found, void, appVars>>

\* register_accelerated_table: SpiceSchemaProvider::register_table replaces
\* whatever table has the name. The read guard is dropped and a write guard
\* asked for.
Register(w) ==
    /\ pc[w] = "register"
    /\ table' = [table EXCEPT ![target[w]] = w]
    /\ rows' = [rows EXCEPT ![target[w]] = {}]
    /\ pc' = [pc EXCEPT ![w] = "remove"]
    /\ waiting' = Append(waiting, w)
    /\ UNCHANGED <<pending, writable, target, found, void, appVars>>

\* The accelerated table cannot be created.
RegisterFails(w) ==
    /\ pc[w] = "register"
    /\ pc' = [pc EXCEPT ![w] = "error"]
    /\ UNCHANGED <<pending, writable, tableVars, target, found, void, waiting,
                   appVars>>

PendingOf(d) == {i \in DOMAIN pending : pending[i] = d}

\* Mutant: the first registration is removed, whatever its name.
FirstIndex(d) == 1

\* pending_registration_idx: the first of that name, and index 0 of the Rust
\* vector when there is none.
IndexToRemove(d) == IF PendingOf(d) = {} THEN 1 ELSE Min(PendingOf(d))

\* Mutant: the registration is left where it is.
LeaveParked(i) == pending

\* Vec::remove
Unparked(i) == RemoveAt(pending, i)

\* Under the write guard the registration is removed; removing from an empty
\* vector panics.
RemovePending(w) ==
    /\ pc[w] = "remove" /\ IsNext(w)
    /\ NoReaders
    /\ waiting' = Served
    /\ LET i == IndexToRemove(target[w]) IN
       IF i > Len(pending)
       THEN /\ pc' = [pc EXCEPT ![w] = "panicked"]
            /\ UNCHANGED pending
       ELSE /\ pc' = [pc EXCEPT ![w] = "lookup"]
            /\ pending' = Unparked(i)
    /\ UNCHANGED <<writable, tableVars, target, found, void, appVars>>

\* get_table_provider finds the table that is registered now, or fails.
GetTableProvider(w) ==
    /\ pc[w] = "lookup"
    /\ found' = [found EXCEPT ![w] = table[target[w]]]
    /\ pc' = [pc EXCEPT ![w] =
                 IF table[target[w]] = NoTable THEN "error" ELSE "insert"]
    /\ UNCHANGED <<pending, writable, tableVars, target, void, waiting, appVars>>

\* The rows go into the table that was found, registered still or not.
InsertInto(w) ==
    /\ pc[w] = "insert"
    /\ rows' = IF table[target[w]] = found[w]
               THEN [rows EXCEPT ![target[w]] = @ \cup {w}]
               ELSE rows
    /\ pc' = [pc EXCEPT ![w] = "ok"]
    /\ UNCHANGED <<pending, writable, table, target, found, void, waiting,
                   appVars>>

\* The schemas differ, or the insertion fails.
InsertFails(w) ==
    /\ pc[w] = "insert"
    /\ pc' = [pc EXCEPT ![w] = "error"]
    /\ UNCHANGED <<pending, writable, tableVars, target, found, void, waiting,
                   appVars>>

(***************************************************************************)
(* The pods watcher.                                                       *)
(***************************************************************************)

\* It is idle, and one more change of the configuration is within the bound.
Reconfigures ==
    /\ app = {} /\ configs < MaxConfigs
    /\ configs' = configs + 1

\* register_loaded_dataset asks for a write guard to park d.
AskToPark(d) ==
    /\ app' = {d}
    /\ waiting' = Append(waiting, Watcher)

\* load_dataset of a dataset the runtime does not know.
AddDataset(d) ==
    /\ Reconfigures
    /\ d \notin writable
    /\ AskToPark(d)
    /\ UNCHANGED <<pending, writable, tableVars, requestVars, void>>

\* remove_dataset: a registered table is dropped and the dataset is no longer
\* writable; a parked registration is not looked for.
Drop(d) ==
    /\ ReconfigureParked \/ d \notin ToSet(pending)
    /\ d \in writable
    /\ table' = [table EXCEPT ![d] = NoTable]
    /\ rows' = [rows EXCEPT ![d] = {}]
    /\ writable' = IF table[d] = NoTable THEN writable ELSE writable \ {d}
    /\ void' = void \cup {w \in Requests : pc[w] # "idle" /\ target[w] = d}

\* The dataset is no longer in the spicepod.
RemoveDataset(d) ==
    /\ Reconfigures
    /\ Drop(d)
    /\ UNCHANGED <<pending, requestVars, waiting, app>>

\* update_dataset: the hot reload of a sink is never ready, so that the
\* dataset is removed and loaded again.
UpdateDataset(d) ==
    /\ Reconfigures
    /\ Drop(d)
    /\ AskToPark(d)
    /\ UNCHANGED <<pending, requestVars>>

\* register_table parks the registration and makes the dataset writable.
Park(d) ==
    /\ d \in app /\ IsNext(Watcher)
    /\ NoReaders
    /\ waiting' = Served
    /\ app' = {}
    /\ pending' = Append(pending, d)
    /\ writable' = writable \cup {d}
    /\ UNCHANGED <<tableVars, requestVars, void, configs>>

-----------------------------------------------------------------------------
RequestStep(w) ==
    \/ CheckPending(w) \/ Register(w) \/ RegisterFails(w) \/ RemovePending(w)
    \/ GetTableProvider(w) \/ InsertInto(w) \/ InsertFails(w)
AppStep(d) == AddDataset(d) \/ RemoveDataset(d) \/ UpdateDataset(d) \/ Park(d)

SinkNext ==
    \/ \E w \in Requests : WriteData(w) \/ RequestStep(w)
    \/ \E d \in Datasets : AppStep(d)

\* A task that can take its next step does so in the end; clients need not
\* write, nor the configuration change.
SinkFairness ==
    /\ \A w \in Requests : WF_sinkVars(RequestStep(w))
    /\ \A d \in Datasets : WF_sinkVars(Park(d))

SinkSpec == SinkInit /\ [][SinkNext]_sinkVars /\ SinkFairness

(***************************************************************************)
(* Properties.                                                             *)
(***************************************************************************)

\* A write that is_writable lets through can find its table: the dataset is
\* registered, or its registration is parked "until the schema is known via
\* the first write" and was not removed by the write to another dataset.
WritableHasTable ==
    \A d \in writable : table[d] # NoTable \/ d \in ToSet(pending)

\* Rows that write_data acknowledged are in the registered table, unless the
\* dataset was updated or removed in the meantime: no later write registers
\* an empty table over them.
AcknowledgedRowsKept ==
    \A w \in Requests : pc[w] = "ok" /\ w \notin void => w \in rows[target[w]]

\* Every write is answered: nobody waits for a guard of pending_sink_tables
\* that is not given back.
EveryWriteEnds == \A w \in Requests : Unanswered(w) ~> ~Unanswered(w)
=============================================================================
