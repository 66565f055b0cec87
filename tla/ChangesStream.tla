---------------------------- MODULE ChangesStream ----------------------------
(***************************************************************************)
(* A dataset in `changes` mode fed by Debezium over Kafka: the connector   *)
(* finds or creates its consumer group, start_changes_stream applies one   *)
(* change after another and stores the offset of each, the Kafka client    *)
(* commits stored offsets in the background, and the process may crash     *)
(* between any two of these steps.                                         *)
(*                                                                         *)
(* Source: refresh_task/changes.rs and dataconnector/debezium.rs of the    *)
(* runtime, cdc.rs, debezium_kafka.rs and kafka.rs of data_components.     *)
(***************************************************************************)
EXTENDS Naturals, Sequences

CONSTANTS
    Keys,       \* primary keys of the source's rows
    Engines,    \* settings of the accelerator: "file" or "memory"
    WritesFail, \* write_change may fail
    MaxLength,  \* bound: changes in the topic
    MaxCrashes  \* bound: crashes

ASSUME ChangesAssumption ==
    /\ Engines \subseteq {"file", "memory"} /\ WritesFail \in BOOLEAN
    /\ MaxLength \in Nat /\ MaxCrashes \in Nat

\* What a message does: write a row (create, update, read), delete it, ask for
\* something write_change does not know (truncate), nothing at all because it
\* has no key or no payload, or nothing because it cannot be read.
Ops == {"upsert", "delete", "other", "tombstone", "bad"}
Changes == [key : Keys, op : Ops]

VARIABLES
    engine,     \* the accelerator: rows in a file survive a restart
    topic,      \* the messages of the partition
    process,    \* where the process stands
    metadata,   \* the consumer group is recorded beside the accelerator
    position,   \* offset of the last message the consumer has delivered
    inflight,   \* offset of the change being written, 0 for none
    written,    \* 1 once it is written and its offset is not yet stored
    stored,     \* the offset stored for the next background commit
    committed,  \* the offset committed for the consumer group
    accel,      \* the row of each key: offset of the upsert it is from, 0: none
    failed,     \* history: offsets whose latest write failed
    ready,      \* ready_sender: Some until the first write
    status,     \* the dataset's component status
    crashes     \* crashes so far

streamVars == <<position, inflight, written, stored, ready, status>>
configVars == <<engine, crashes>>
vars == <<topic, process, metadata, streamVars, committed, accel, failed,
          configVars>>

Offsets == 0..MaxLength

\* is_file_accelerated: a file, or PostgreSQL.
FileAccelerated == engine = "file"

TypeOK ==
    /\ engine \in {"file", "memory"}
    /\ topic \in Seq(Changes) /\ Len(topic) <= MaxLength
    /\ process \in {"down", "restarting", "streaming"}
    /\ metadata \in {"Some", "None"}
    /\ position \in Offsets /\ inflight \in Offsets /\ written \in 0..1
    /\ stored \in Offsets /\ committed \in Offsets
    /\ accel \in [Keys -> Offsets] /\ failed \subseteq Offsets
    /\ ready \in {"Some", "None"}
    /\ status \in {"Initializing", "Refreshing", "Error"}
    /\ crashes \in 0..MaxCrashes

NoRows == [k \in Keys |-> 0]

Init ==
    /\ engine \in Engines
    /\ topic = <<>>
    /\ process = "down"
    /\ metadata = "None"
    /\ position = 0 /\ inflight = 0 /\ written = 0
    /\ stored = 0 /\ committed = 0
    /\ accel = NoRows /\ failed = {}
    /\ ready = "Some"
    /\ status = "Initializing"
    /\ crashes = 0

\* The source database changes a row, or Debezium sends something that the
\* runtime cannot use.
SourceChanges(c) ==
    /\ Len(topic) < MaxLength
    /\ topic' = Append(topic, c)
    /\ UNCHANGED <<process, metadata, streamVars, committed, accel, failed,
                   configVars>>

(***************************************************************************)
(* Debezium::read_provider.                                                *)
(***************************************************************************)

\* next_json passes over messages without a key or a payload; i is the first
\* other one, and can be read.
SchemaMessage(i) ==
    /\ topic[i].op \notin {"tombstone", "bad"}
    /\ \A j \in 1..(i - 1) : topic[j].op = "tombstone"

\* get_metadata_from_kafka: with no metadata a generated consumer group, which
\* has no committed offset, reads one message for the schema and, if the
\* accelerator is a file, records the group. (A message that cannot be read
\* fails the load, which starts over and meets it again.)
CreateGroup ==
    /\ process = "down" /\ metadata = "None"
    /\ \E i \in 1..Len(topic) : SchemaMessage(i) /\ position' = i
    /\ process' = "restarting"
    /\ metadata' = IF FileAccelerated THEN "Some" ELSE "None"
    /\ committed' = 0
    /\ stored' = 0
    /\ UNCHANGED <<topic, inflight, written, accel, failed, ready, status,
                   configVars>>

\* Mutant: the stream goes on after the message read for the schema.
StayAfterSchema == position

\* restart_topic seeks to the beginning of every partition.
Beginning == 0

\* restart_topic, and the start of the stream.
RestartTopic ==
    /\ process = "restarting"
    /\ process' = "streaming"
    /\ position' = Beginning
    /\ status' = "Refreshing"
    /\ UNCHANGED <<topic, metadata, inflight, written, stored, committed,
                   accel, failed, ready, configVars>>

\* get_metadata_from_accelerator: the recorded group goes on after its
\* committed offset (the start of the topic when there is none).
ResumeGroup ==
    /\ process = "down" /\ metadata = "Some"
    /\ process' = "streaming"
    /\ position' = committed
    /\ stored' = committed
    /\ status' = "Refreshing"
    /\ UNCHANGED <<topic, metadata, inflight, written, committed, accel,
                   failed, ready, configVars>>

(***************************************************************************)
(* start_changes_stream.                                                   *)
(***************************************************************************)

\* Mutant: the library stores the offset of every message it delivers.
StoreOnDelivery(n) == n

\* enable.auto.offset.store is off.
OffsetOnDelivery(n) == stored

\* The stream yields the next message, or passes over it.
Deliver ==
    /\ process = "streaming" /\ inflight = 0
    /\ position < Len(topic)
    /\ position' = position + 1
    /\ stored' = OffsetOnDelivery(position + 1)
    /\ LET op == topic[position + 1].op IN
       /\ inflight' = IF op \in {"tombstone", "bad"} THEN 0 ELSE position + 1
       /\ status' = IF op = "bad" THEN "Error" ELSE status
    /\ UNCHANGED <<topic, process, metadata, written, committed, accel,
                   failed, ready, configVars>>

\* Mutant: a row is only written if the table has none for its key.
InsertOnly(n) ==
    LET k == topic[n].key IN
    IF topic[n].op = "upsert" /\ accel[k] = 0 THEN [accel EXCEPT ![k] = n] ELSE accel

\* Change n replaces the row of its key, removes it, or does nothing.
Applied(n) ==
    IF topic[n].op \in {"upsert", "delete"}
    THEN [accel EXCEPT ![topic[n].key] = IF topic[n].op = "upsert" THEN n ELSE 0]
    ELSE accel

\* write_change succeeds; the first success sends on ready_sender.
WriteChange ==
    /\ inflight # 0 /\ written = 0
    /\ accel' = Applied(inflight)
    /\ failed' = failed \ {inflight}
    /\ written' = 1
    /\ ready' = "None"
    /\ UNCHANGED <<topic, process, metadata, position, inflight, stored,
                   committed, status, configVars>>

\* write_change fails: the envelope is dropped and the stream goes on.
WriteFails ==
    /\ WritesFail
    /\ inflight # 0 /\ written = 0
    /\ inflight' = 0
    /\ failed' = failed \cup {inflight}
    /\ status' = "Error"
    /\ UNCHANGED <<topic, process, metadata, position, written, stored,
                   committed, accel, ready, configVars>>

\* store_offset_from_message: everything up to the message is done.
OffsetOf(n) == n

\* ChangeEnvelope::commit stores the offset; if that fails the stream goes on
\* all the same. The cached results over the dataset are invalidated.
Commit ==
    /\ written = 1
    /\ stored' \in {OffsetOf(inflight), stored}
    /\ inflight' = 0
    /\ written' = 0
    /\ UNCHANGED <<topic, process, metadata, position, committed, accel,
                   failed, ready, status, configVars>>

\* The Kafka client commits what is stored, every five seconds.
AutoCommit ==
    /\ process = "streaming"
    /\ committed # stored
    /\ committed' = stored
    /\ UNCHANGED <<topic, process, metadata, streamVars, accel, failed,
                   configVars>>

\* The process stops where it stands, or restart_topic fails and the load
\* starts over: what was held in memory is gone, and so is an accelerator that
\* is not a file.
Crash ==
    /\ process # "down"
    /\ crashes < MaxCrashes
    /\ crashes' = crashes + 1
    /\ process' = "down"
    /\ position' = 0 /\ inflight' = 0 /\ written' = 0 /\ stored' = 0
    /\ accel' = IF FileAccelerated THEN accel ELSE NoRows
    /\ failed' = IF FileAccelerated THEN failed ELSE {}
    /\ ready' = "Some"
    /\ status' = "Initializing"
    /\ UNCHANGED <<engine, topic, metadata, committed>>

-----------------------------------------------------------------------------
StartStep == CreateGroup \/ RestartTopic \/ ResumeGroup
StreamStep == Deliver \/ WriteChange \/ WriteFails \/ Commit

Next ==
    \/ \E c \in Changes : SourceChanges(c)
    \/ StartStep
    \/ StreamStep
    \/ AutoCommit
    \/ Crash

\* The process is started again, and its stream is polled.
Spec == Init /\ [][Next]_vars /\ WF_vars(StartStep) /\ WF_vars(StreamStep)

(***************************************************************************)
(* Properties.                                                             *)
(***************************************************************************)
Effective(i) == topic[i].op \in {"upsert", "delete"}

\* The row change i leaves behind.
RowAfter(i) == IF topic[i].op = "upsert" THEN i ELSE 0

\* The row of change i's key is the one that it, or a later change of that
\* key, leaves behind.
Shown(i) ==
    \E j \in i..Len(topic) :
        /\ Effective(j) /\ topic[j].key = topic[i].key
        /\ accel[topic[i].key] = RowAfter(j)

\* Every change the consumer group has committed is shown by a table that
\* survives a crash, but for the changes whose write failed: those of which
\* start_changes_stream logs the error and drops the envelope. Nothing else,
\* neither a crash nor a lost commit, makes the group pass over a change.
LostOnlyByFailure ==
    FileAccelerated =>
        \A i \in 1..Len(topic) :
            i <= committed /\ Effective(i) => Shown(i) \/ i \in failed

\* The last change of its key, so far.
LastOfKey(i) ==
    /\ Effective(i)
    /\ \A j \in (i + 1)..Len(topic) : Effective(j) => topic[j].key # topic[i].key

\* Whatever was delivered twice, the table agrees with the source once
\* start_changes_stream has caught up: every key has the row its last change
\* leaves behind, unless writing that change failed.
CaughtUpAgrees ==
    process = "streaming" /\ position = Len(topic) /\ inflight = 0 =>
        \A i \in 1..Len(topic) :
            LastOfKey(i) => accel[topic[i].key] = RowAfter(i) \/ i \in failed

\* The first message that next_json returns can be read.
Readable == \E i \in 1..Len(topic) : SchemaMessage(i)

\* Every change that start_changes_stream can read reaches the table, or is
\* reported as failed, through crashes at any point of the start and of the
\* stream.
EveryChangeArrives ==
    \A i \in 1..MaxLength :
        (i <= Len(topic) /\ Effective(i) /\ Readable)
            ~> /\ Shown(i) \/ i \in failed
               /\ process = "streaming" /\ position >= i
=============================================================================
