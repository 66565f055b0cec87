-------------------------- MODULE MaterializedCopy --------------------------
(***************************************************************************)
(* What an accelerated dataset promises to whoever queries it, without any *)
(* of the machinery of its refreshes: a copy of the source that is empty   *)
(* until it is announced as ready, that only ever holds what the source    *)
(* held at some moment, and that never goes back to an earlier moment.     *)
(***************************************************************************)
EXTENDS Naturals

VARIABLES
    source,     \* the version of the source
    copy,       \* the version the copy holds, 0 when it has never been filled
    ready       \* the copy is announced as ready

vars == <<source, copy, ready>>

Init == source = 1 /\ copy = 0 /\ ready = FALSE

SourceAdvances == source' = source + 1 /\ UNCHANGED <<copy, ready>>

\* The copy becomes what the source was at some moment since the last refresh.
Refresh ==
    /\ copy' \in copy..source /\ copy' # 0
    /\ UNCHANGED <<source, ready>>

Announce ==
    /\ copy # 0 /\ ready' = TRUE
    /\ UNCHANGED <<source, copy>>

Next == SourceAdvances \/ Refresh \/ Announce

Spec == Init /\ [][Next]_vars
=============================================================================
