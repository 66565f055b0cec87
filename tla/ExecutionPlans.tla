---------------------------- MODULE ExecutionPlans --------------------------
(***************************************************************************)
(* How an accelerated table is read and written: the plans its scan and    *)
(* its insert_into are made of. A stream is a sequence of items, each a    *)
(* batch of rows or an error; a plan has partitions, each a stream, and    *)
(* may be refused when it is made or started.                              *)
(*                                                                         *)
(* Source: crates/runtime/src/execution_plan and accelerated_table.rs.     *)
(***************************************************************************)
EXTENDS Naturals, SequencesExt

CONSTANT
    Uncastable  \* rows that do not fit the types of the accelerated table

Batch(rows) == [error |-> FALSE, rows |-> rows]
Error == [error |-> TRUE, rows |-> <<>>]
Plan(partitions) == [refused |-> FALSE, partitions |-> partitions]
Fails(stream) == \E i \in DOMAIN stream : stream[i].error

CoalescePartitionsExec(plan) == FlattenSeq(plan.partitions)

\* The cast of a batch: the columns are found by name and cast one by one.
try_cast_to(item) ==
    IF \E i \in DOMAIN item.rows : item.rows[i] \in Uncastable THEN Error ELSE item

\* An error of the input ends the stream; a batch that cannot be cast is an error
\* among the others.
SchemaCastScanExec(stream) ==
    LET bad == {i \in DOMAIN stream : stream[i].error}
        end == IF bad = {} THEN Len(stream) ELSE Min(bad)
    IN  [i \in 1 .. end |-> try_cast_to(stream[i])]

\* Without filters the plan is as it was; with them a batch of which nothing is
\* left is not sent on.
filter_plan(stream, filters) ==
    LET keep(r) == \A i \in DOMAIN filters : r \in filters[i]
        kept == [i \in DOMAIN stream |->
                    [stream[i] EXCEPT !.rows = SelectSeq(@, keep)]]
    IN  IF filters = <<>> THEN stream
        ELSE SelectSeq(kept, LAMBDA item : item.error \/ item.rows # <<>>)

\* Whatever the input sends first, even an error or an empty batch, is a result;
\* of the plan of the source only the first partition is run.
FallbackOnZeroResultsScanExec(input, source, filters) ==
    LET stream == filter_plan(SchemaCastScanExec(CoalescePartitionsExec(input)), filters)
    IN  IF stream # <<>> THEN stream
        ELSE IF source.refused \/ source.partitions = <<>> THEN <<Error>>
        ELSE source.partitions[1]

\* AcceleratedTable::scan, read to its end.
scan(zero_results_action, input, source, filters) ==
    IF input.refused THEN <<Error>>
    ELSE SchemaCastScanExec(
            CASE zero_results_action = "return_empty" -> CoalescePartitionsExec(input)
              [] zero_results_action = "use_source" ->
                    FallbackOnZeroResultsScanExec(input, source, filters))

\* collect: the rows, or the first error.
Collect(stream) == [ok |-> ~Fails(stream), batches |-> [i \in DOMAIN stream |-> stream[i].rows]]

(***************************************************************************)
(* insert_into: the input is teed and each branch reads a slice of it; but *)
(* a partition of the tee is another execution of the same input, which is *)
(* one stream behind a lock. Who locks it first has all of it.             *)
(***************************************************************************)

Branches == <<"accelerator", "source">>
TeeExec(n, partition) == partition < n
SliceExec(slice, partition) == partition = 0 /\ TeeExec(Len(Branches), slice)

\* Mutant: every branch reads the rows.
read_a_copy(shared) == [read |-> shared, left |-> shared]
\* What is left in the shared stream once a branch read it.
StreamingDataUpdateExecutionPlan(shared) == [read |-> shared, left |-> <<>>]
=============================================================================
