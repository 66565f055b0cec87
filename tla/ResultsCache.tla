---------------------------- MODULE ResultsCache ----------------------------
(***************************************************************************)
(* The query results cache: Query::run looks a plan up, executes it on a   *)
(* miss and streams the result through to_cached_record_batch_stream and   *)
(* attach_query_tracker_to_stream, while refreshes, the retention check    *)
(* and change streams write the datasets and then invalidate.              *)
(*                                                                         *)
(* Source: crates/cache/src and crates/runtime/src/datafusion/query.rs.    *)
(***************************************************************************)
EXTENDS Naturals

CONSTANTS
    Queries,    \* queries that may be in flight at once
    Plans,      \* logical plans (key_for_logical_plan)
    Cacheable,  \* the plans cache_is_enabled_for_plan accepts
    Datasets,   \* accelerated datasets
    References, \* ways to name a dataset: bare, or qualified with a schema
    TableOf,    \* the dataset a reference resolves to
    NameOf,     \* the reference a dataset was registered under
    RefsOf,     \* get_logical_plan_input_tables of a plan
    MaxSize,    \* cache_max_size, in batches
    TTL,        \* item_ttl, in ticks
    MaxVersion, \* bound: versions a dataset goes through
    MaxBatches  \* bound: batches in a result

ASSUME CacheAssumption ==
    /\ Cacheable \subseteq Plans
    /\ TableOf \in [References -> Datasets]
    /\ NameOf \in [Datasets -> References]
    /\ \A d \in Datasets : TableOf[NameOf[d]] = d
    /\ RefsOf \in [Plans -> SUBSET References]
    /\ MaxSize \in Nat /\ TTL \in Nat \ {0}
    /\ MaxVersion \in Nat \ {0} /\ MaxBatches \in Nat

Inputs(p) == {TableOf[r] : r \in RefsOf[p]}

VARIABLES
    version,  \* the contents of each dataset
    writer,   \* a writer of a dataset: idle, or has written and is about
              \* to invalidate
    pending,  \* datasets written since their last invalidation
    cache,    \* the entries, a function from the plans that have one
    pc,       \* where each query stands
    plan,     \* its plan
    seen,     \* the version of each input it has scanned, 0 before that
    missed,   \* the datasets invalidated since it scanned them
    left,     \* batches of its result still to come
    kept,     \* batches recorded for the cache
    lost      \* batches passed on and not recorded

writerVars == <<version, writer, pending>>
streamVars == <<left, kept, lost>>
queryVars == <<pc, plan, seen, missed, streamVars>>
vars == <<writerVars, cache, queryVars>>

Reads == [Datasets -> 0..MaxVersion]
NotRead == [d \in Datasets |-> 0]

\* A cached result: what it was computed from, the datasets its query missed
\* an invalidation of, and the batches it lacks.
Entries ==
    [seen : Reads, missed : SUBSET Datasets, lost : Nat, age : 0..(TTL - 1)]

TypeOK ==
    /\ version \in [Datasets -> 1..MaxVersion]
    /\ writer \in [Datasets -> {"idle", "written"}]
    /\ pending \in SUBSET Datasets
    /\ DOMAIN cache \in SUBSET Plans
    /\ cache \in [DOMAIN cache -> Entries]
    /\ pc \in [Queries -> {"idle", "execute", "stream"}]
    /\ plan \in [Queries -> Plans]
    /\ seen \in [Queries -> Reads]
    /\ missed \in [Queries -> SUBSET Datasets]
    /\ left \in [Queries -> 0..MaxBatches]
    /\ kept \in [Queries -> Nat]
    /\ lost \in [Queries -> Nat]

Init ==
    /\ version = [d \in Datasets |-> 1]
    /\ writer = [d \in Datasets |-> "idle"]
    /\ pending = {}
    /\ cache = [p \in {} |-> {}]
    /\ pc = [q \in Queries |-> "idle"]
    /\ plan \in [Queries -> Plans]
    /\ seen = [q \in Queries |-> NotRead]
    /\ missed = [q \in Queries |-> {}]
    /\ left = [q \in Queries |-> 0]
    /\ kept = [q \in Queries |-> 0]
    /\ lost = [q \in Queries |-> 0]

(***************************************************************************)
(* Writers: a refresh, a retention check or a change stream writes, and    *)
(* then invalidates the entries that name the dataset.                     *)
(***************************************************************************)
Write(d) ==
    /\ writer[d] = "idle"
    /\ version[d] < MaxVersion
    /\ version' = [version EXCEPT ![d] = @ + 1]
    /\ writer' = [writer EXCEPT ![d] = "written"]
    /\ pending' = pending \cup {d}
    /\ UNCHANGED <<cache, queryVars>>

\* Mutant: only results over this dataset alone are invalidated.
NamesOnly(p, d) == RefsOf[p] = {NameOf[d]}

\* value.input_tables.contains(&table_ref): references are compared as they
\* were written.
Names(p, d) == NameOf[d] \in RefsOf[p]

\* invalidate_for_table: the entries inserted so far are gone; a query that
\* has read the dataset and not yet put its result is not affected.
InvalidateForTable(d) ==
    /\ writer[d] = "written"
    /\ writer' = [writer EXCEPT ![d] = "idle"]
    /\ pending' = pending \ {d}
    /\ cache' = [p \in {p \in DOMAIN cache : ~Names(p, d)} |-> cache[p]]
    /\ missed' = [q \in Queries |->
                     IF seen[q][d] # 0 THEN missed[q] \cup {d} ELSE missed[q]]
    /\ UNCHANGED <<version, pc, plan, seen, streamVars>>

\* The run that wrote is preempted, or fails, before it invalidates.
Abandon(d) ==
    /\ writer[d] = "written"
    /\ writer' = [writer EXCEPT ![d] = "idle"]
    /\ UNCHANGED <<version, pending, cache, queryVars>>

\* DataFusion::write_data inserts and does not invalidate.
WriteData(d) ==
    /\ version[d] < MaxVersion
    /\ version' = [version EXCEPT ![d] = @ + 1]
    /\ pending' = pending \cup {d}
    /\ UNCHANGED <<writer, cache, queryVars>>

(***************************************************************************)
(* Query::run.                                                             *)
(***************************************************************************)

\* Mutant: time to idle instead of time to live.
AgeReset(age) == 0

\* A hit leaves the age of the entry alone.
AgeAfterHit(age) == age

\* cache_provider.get finds the plan: the result is streamed from memory.
Hit(p) ==
    /\ p \in DOMAIN cache
    /\ \E q \in Queries : pc[q] = "idle"
    /\ cache' = [cache EXCEPT ![p].age = AgeAfterHit(@)]
    /\ UNCHANGED <<writerVars, queryVars>>

\* It does not: execute_stream begins.
Miss(q, p) ==
    /\ pc[q] = "idle"
    /\ p \notin DOMAIN cache
    /\ pc' = [pc EXCEPT ![q] = "execute"]
    /\ plan' = [plan EXCEPT ![q] = p]
    /\ UNCHANGED <<writerVars, cache, seen, missed, streamVars>>

\* The scan of one input table takes what the table holds now.
Scan(q, d) ==
    /\ pc[q] = "execute"
    /\ d \in Inputs(plan[q])
    /\ seen[q][d] = 0
    /\ seen' = [seen EXCEPT ![q] = [@ EXCEPT ![d] = version[d]]]
    /\ UNCHANGED <<writerVars, cache, pc, plan, missed, streamVars>>

\* Every input is scanned and a stream of n batches is open.
OpenStream(q, n) ==
    /\ pc[q] = "execute"
    /\ \A d \in Inputs(plan[q]) : seen[q][d] # 0
    /\ pc' = [pc EXCEPT ![q] = "stream"]
    /\ left' = [left EXCEPT ![q] = n]
    /\ UNCHANGED <<writerVars, cache, plan, seen, missed, kept, lost>>

\* records_size < cache_max_size
Fits(size) == size < MaxSize

\* A batch is recorded while the size is below the limit, and passed on.
NextBatch(q) ==
    /\ pc[q] = "stream"
    /\ left[q] > 0
    /\ left' = [left EXCEPT ![q] = @ - 1]
    /\ \/ /\ Fits(kept[q])
          /\ kept' = [kept EXCEPT ![q] = @ + 1] /\ UNCHANGED lost
       \/ /\ ~Fits(kept[q])
          /\ lost' = [lost EXCEPT ![q] = @ + 1] /\ UNCHANGED kept
    /\ UNCHANGED <<writerVars, cache, pc, plan, seen, missed>>

\* The stream is gone, with what it recorded.
Done(q) ==
    /\ pc' = [pc EXCEPT ![q] = "idle"]
    /\ seen' = [seen EXCEPT ![q] = NotRead]
    /\ missed' = [missed EXCEPT ![q] = {}]
    /\ left' = [left EXCEPT ![q] = 0]
    /\ kept' = [kept EXCEPT ![q] = 0]
    /\ lost' = [lost EXCEPT ![q] = 0]
    /\ UNCHANGED plan

\* Mutant: the stream is polled on after an error.
StreamOn(q) ==
    /\ left' = [left EXCEPT ![q] = @ - 1]
    /\ lost' = [lost EXCEPT ![q] = @ + 1]
    /\ UNCHANGED <<pc, plan, seen, missed, kept>>

\* attach_query_tracker_to_stream returns after an error and drops the
\* caching stream it wraps.
AfterError(q) == Done(q)

\* A batch is an error: it is passed on and not recorded.
BatchError(q) ==
    /\ pc[q] = "stream"
    /\ left[q] > 0
    /\ AfterError(q)
    /\ UNCHANGED <<writerVars, cache>>

\* put_key inserts or replaces the entry of p.
Put(p, e) ==
    [x \in DOMAIN cache \cup {p} |-> IF x = p THEN e ELSE cache[x]]

\* The stream has ended: put_key, unless the result is too large.
Finish(q) ==
    /\ pc[q] = "stream"
    /\ left[q] = 0
    /\ cache' = IF plan[q] \in Cacheable /\ Fits(kept[q])
                THEN Put(plan[q], [seen |-> seen[q], missed |-> missed[q],
                                   lost |-> lost[q], age |-> 0])
                ELSE cache
    /\ Done(q)
    /\ UNCHANGED writerVars

\* Planning, verification or execution fails, or the client goes away: the
\* stream is dropped where it stands.
Stop(q) ==
    /\ pc[q] # "idle"
    /\ Done(q)
    /\ UNCHANGED <<writerVars, cache>>

(***************************************************************************)
(* The cache's own housekeeping (moka).                                    *)
(***************************************************************************)

\* time_to_live(ttl)
Alive(age) == age < TTL

\* Time passes: an entry is gone when it reaches its time to live.
Tick ==
    /\ cache' = [p \in {p \in DOMAIN cache : Alive(cache[p].age + 1)} |->
                    [cache[p] EXCEPT !.age = @ + 1]]
    /\ UNCHANGED <<writerVars, queryVars>>

\* Eviction for room.
Evict(p) ==
    /\ p \in DOMAIN cache
    /\ cache' = [x \in DOMAIN cache \ {p} |-> cache[x]]
    /\ UNCHANGED <<writerVars, queryVars>>

-----------------------------------------------------------------------------
WriterStep(d) ==
    Write(d) \/ InvalidateForTable(d) \/ Abandon(d) \/ WriteData(d)
QueryStep(q) ==
    \/ \E p \in Plans : Miss(q, p)
    \/ \E d \in Datasets : Scan(q, d)
    \/ \E n \in 0..MaxBatches : OpenStream(q, n)
    \/ NextBatch(q) \/ BatchError(q) \/ Finish(q) \/ Stop(q)
CacheStep(p) == Hit(p) \/ Evict(p)

Next ==
    \/ \E d \in Datasets : WriterStep(d)
    \/ \E q \in Queries : QueryStep(q)
    \/ \E p \in Plans : CacheStep(p)
    \/ Tick

\* Time passes.
Spec == Init /\ [][Next]_vars /\ WF_vars(Tick)

(***************************************************************************)
(* Properties.                                                             *)
(***************************************************************************)

\* A cached result is the whole result: a stream that failed half way, was
\* given up by its client or outgrew the limit never leaves a truncated entry.
CachedResultsComplete == \A p \in DOMAIN cache : cache[p].lost = 0

\* The entry of p was computed from older contents of d than d has now.
StaleFor(p, d) == cache[p].seen[d] < version[d]

\* An entry that names a dataset and is older than its contents means that no
\* invalidation has followed the write yet, or that the query read before the
\* invalidation and put its result after it. Nothing else leaves a stale
\* entry behind: not a join, not a second query of the same plan.
StaleEntryExplained ==
    \A p \in DOMAIN cache : \A d \in Datasets :
        NameOf[d] \in RefsOf[p] /\ StaleFor(p, d) =>
            d \in pending \/ d \in cache[p].missed

\* A stale entry does not stay, however it came about and however often it is
\* hit: its time to live runs from the put.
StaleEntriesLeave ==
    \A p \in Plans : \A d \in Datasets :
        (p \in DOMAIN cache /\ d \in Inputs(p) /\ StaleFor(p, d))
            ~> (p \notin DOMAIN cache \/ ~StaleFor(p, d))
=============================================================================
