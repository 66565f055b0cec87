------------------------------- MODULE Replica ------------------------------
(***************************************************************************)
(* A runtime that accelerates a table of another one in append mode, with  *)
(* no time column: it subscribes with DoExchange and writes what it is     *)
(* sent, row by row, to an accelerator of its own. Nothing is committed,   *)
(* and a subscription that ends is not renewed.                            *)
(*                                                                         *)
(* Source: dataconnector/spiceai.rs, start_changes_stream in               *)
(* accelerated_table/refresh_task/changes.rs, of crates/runtime/src;       *)
(* crates/data_components/src/cdc.rs; crates/flight_client/src/lib.rs.     *)
(***************************************************************************)
EXTENDS FlightExchange

VARIABLE replica    \* replica[s]: [upsert, at, row, rows, ready, dropped]: the batches and
                    \* the rows of the next one it is done with, the rows it holds, and
                    \* those of changes it failed to write

\* follows[s] is `append` or `upsert`, what the accelerator of the runtime s does with
\* a row; other subscribers are clients.
ReplicaInit(follows) ==
    replica = [s \in DOMAIN follows |->
                [upsert |-> follows[s] = "upsert", at |-> 0, row |-> 0, rows |-> <<>>,
                 ready |-> FALSE, dropped |-> {}]]

Replicas == DOMAIN replica

\* subscribe_to_append_stream: every batch that arrives is a change batch, whose rows
\* are reads with the primary keys of the table.
Arrived(s) == replica[s].at < Len(sub[s].got)
ChangeBatch(s) == sub[s].got[replica[s].at + 1]

\* get_primary_key_value: 32 and 64 bit integers and strings.
Writable(s) == tables[sub[s].table].constraints # "timestamp"

\* Mutant: a batch of changes ends with its first row.
ends_with_first_row(row, n) == TRUE
LastRow(row, n) == row = n

\* write_change writes a row; with the last one the change is done.
WriteRow(s) ==
    LET batch == ChangeBatch(s)
        row == replica[s].row + 1 IN
    /\ Arrived(s) /\ Writable(s)
    /\ replica' = [replica EXCEPT ![s] =
                    LET to == [@ EXCEPT !.rows = Insert(replica[s].upsert, @, batch[row])]
                    IN  IF LastRow(row, Len(batch))
                        THEN [to EXCEPT !.at = @ + 1, !.row = 0, !.ready = TRUE]
                        ELSE [to EXCEPT !.row = row]]
    /\ UNCHANGED flightVars

\* An error leaves the rows that are written and gives up the others: the change is
\* not sent again.
GiveUp(s) ==
    replica' = [replica EXCEPT ![s] =
                 [@ EXCEPT !.at = @ + 1, !.row = 0,
                           !.dropped = @ \cup ToSet(SubSeq(ChangeBatch(s), replica[s].row + 1,
                                                           Len(ChangeBatch(s))))]]
WriteChangeFails(s) ==
    /\ Arrived(s)
    /\ GiveUp(s)
    /\ \/ ~Writable(s) /\ UNCHANGED flightVars
       \/ /\ Writable(s) /\ faults < MaxFaults
          /\ faults' = faults + 1
          /\ UNCHANGED <<tables, put, job, channels, channel_map, sub, task, history>>

ReplicaStep(s) == WriteRow(s) \/ WriteChangeFails(s)
=============================================================================
