------------------------- MODULE ResultsCacheProofs -------------------------
(***************************************************************************)
(* Theorems about ResultsCache, for every set of queries, plans, datasets  *)
(* and references, every size limit and every time to live.                *)
(***************************************************************************)
EXTENDS ResultsCache, TLAPS

(***************************************************************************)
(* The inductive invariant.                                                *)
(***************************************************************************)

\* A query in flight has recorded every batch it passed on, or has reached
\* the limit and will not be cached.
RecordedInv == \A q \in Queries : lost[q] = 0 \/ ~Fits(kept[q])

\* What a query in flight has read is what the dataset holds, unless the
\* dataset was written since (and not invalidated yet) or invalidated since.
ReadInv ==
    \A q \in Queries : \A d \in Datasets :
        seen[q][d] # 0 /\ seen[q][d] < version[d] =>
            d \in pending \/ d \in missed[q]

\* A stream is open only once every input has been read.
ScannedInv ==
    \A q \in Queries : pc[q] = "stream" =>
        \A d \in Inputs(plan[q]) : seen[q][d] # 0

IInv ==
    /\ TypeOK /\ RecordedInv /\ ReadInv /\ ScannedInv
    /\ CachedResultsComplete /\ StaleEntryExplained

\* A dataset that a plan names is one of its inputs.
LEMMA NamedIsInput ==
    ASSUME NEW p \in Plans, NEW d \in Datasets, NameOf[d] \in RefsOf[p]
    PROVE  d \in Inputs(p)
BY CacheAssumption DEF CacheAssumption, Inputs

LEMMA NotReadType == NotRead \in Reads
BY CacheAssumption DEF CacheAssumption, NotRead, Reads

(***************************************************************************)
(* Type correctness.                                                       *)
(***************************************************************************)
LEMMA TypeStep == ASSUME TypeOK, [Next]_vars PROVE TypeOK'
<1> USE CacheAssumption, NotReadType
    DEF CacheAssumption, TypeOK, writerVars, queryVars, streamVars
<1>1. ASSUME NEW d \in Datasets, Write(d) \/ Abandon(d) \/ WriteData(d)
      PROVE  TypeOK'
  BY <1>1 DEF Write, Abandon, WriteData
<1>2. ASSUME NEW d \in Datasets, InvalidateForTable(d) PROVE TypeOK'
  BY <1>2 DEF InvalidateForTable
<1>3. ASSUME NEW q \in Queries, NEW p \in Plans, Miss(q, p) PROVE TypeOK'
  BY <1>3 DEF Miss
<1>4. ASSUME NEW q \in Queries, NEW d \in Datasets, Scan(q, d) PROVE TypeOK'
  BY <1>4 DEF Scan, Reads
<1>5. ASSUME NEW q \in Queries, NEW n \in 0..MaxBatches, OpenStream(q, n)
      PROVE  TypeOK'
  BY <1>5 DEF OpenStream
<1>6. ASSUME NEW q \in Queries, NextBatch(q) PROVE TypeOK'
  BY <1>6 DEF NextBatch
<1>7. ASSUME NEW q \in Queries, BatchError(q) \/ Stop(q) PROVE TypeOK'
  <2>1. Done(q) /\ UNCHANGED <<writerVars, cache>>
    BY <1>7 DEF BatchError, AfterError, Stop
  <2> QED
    BY <2>1 DEF Done
<1>8. ASSUME NEW q \in Queries, Finish(q) PROVE TypeOK'
  <2>1. [seen |-> seen[q], missed |-> missed[q], lost |-> lost[q],
         age |-> 0] \in Entries
    BY DEF Entries
  <2>2. DOMAIN cache' \in SUBSET Plans /\ cache' \in [DOMAIN cache' -> Entries]
    BY <1>8, <2>1 DEF Finish, Put
  <2> QED
    BY <1>8, <2>2 DEF Finish, Done
<1>9. ASSUME NEW p \in Plans, Hit(p) \/ Evict(p) PROVE TypeOK'
  <2>1. CASE Hit(p)
    <3>1. [cache[p] EXCEPT !.age = cache[p].age] \in Entries
      BY <2>1 DEF Hit, Entries
    <3> QED BY <2>1, <3>1 DEF Hit, AgeAfterHit
  <2>2. CASE Evict(p)
    BY <2>2 DEF Evict
  <2> QED BY <1>9, <2>1, <2>2
<1>10. CASE Tick
  <2> DEFINE S == {p \in DOMAIN cache : Alive(cache[p].age + 1)}
  <2>1. ASSUME NEW p \in S
        PROVE  [cache[p] EXCEPT !.age = @ + 1] \in Entries
    <3>1. cache[p] \in Entries /\ cache[p].age + 1 < TTL
      BY DEF Alive
    <3>2. cache[p].age + 1 \in 0..(TTL - 1)
      BY <3>1 DEF Entries
    <3> QED
      BY <3>1, <3>2 DEF Entries
  <2>2. cache' = [p \in S |-> [cache[p] EXCEPT !.age = @ + 1]]
    BY <1>10 DEF Tick
  <2>3. S \subseteq Plans
    OBVIOUS
  <2> HIDE DEF S
  <2>4. DOMAIN cache' \in SUBSET Plans /\ cache' \in [DOMAIN cache' -> Entries]
    BY <2>1, <2>2, <2>3
  <2> QED
    BY <1>10, <2>4 DEF Tick
<1>11. CASE UNCHANGED vars
  BY <1>11 DEF vars
<1> QED
  BY <1>1, <1>2, <1>3, <1>4, <1>5, <1>6, <1>7, <1>8, <1>9, <1>10, <1>11
  DEF Next, WriterStep, QueryStep, CacheStep

(***************************************************************************)
(* The steps of the queries' part of the invariant.                        *)
(***************************************************************************)
LEMMA RecordedStep ==
    ASSUME TypeOK, RecordedInv, [Next]_vars PROVE RecordedInv'
<1> USE DEF RecordedInv, TypeOK, Fits, writerVars, queryVars, streamVars
<1>1. ASSUME NEW q \in Queries, NextBatch(q) PROVE RecordedInv'
  BY <1>1, CacheAssumption DEF NextBatch, CacheAssumption
<1>2. ASSUME NEW q \in Queries, BatchError(q) \/ Finish(q) \/ Stop(q)
      PROVE  RecordedInv'
  <2>1. Done(q)
    BY <1>2 DEF BatchError, AfterError, Finish, Stop
  <2> QED
    BY <2>1 DEF Done
<1>3. CASE UNCHANGED <<kept, lost>>
  BY <1>3
<1> QED
  BY <1>1, <1>2, <1>3
  DEF Next, WriterStep, QueryStep, CacheStep, Write, Abandon, WriteData,
      InvalidateForTable, Miss, Scan, OpenStream, Hit, Evict, Tick, vars

LEMMA ReadStep == ASSUME TypeOK, ReadInv, [Next]_vars PROVE ReadInv'
<1> USE DEF ReadInv, TypeOK, Reads, writerVars, queryVars, streamVars
<1>1. ASSUME NEW d \in Datasets, Write(d) \/ Abandon(d) \/ WriteData(d)
      PROVE  ReadInv'
  BY <1>1 DEF Write, Abandon, WriteData
<1>2. ASSUME NEW d \in Datasets, InvalidateForTable(d) PROVE ReadInv'
  BY <1>2 DEF InvalidateForTable
<1>3. ASSUME NEW q \in Queries, NEW d \in Datasets, Scan(q, d)
      PROVE  ReadInv'
  BY <1>3 DEF Scan
<1>4. ASSUME NEW q \in Queries, BatchError(q) \/ Finish(q) \/ Stop(q)
      PROVE  ReadInv'
  <2>1. Done(q) /\ UNCHANGED writerVars
    BY <1>4 DEF BatchError, AfterError, Finish, Stop
  <2> QED
    BY <2>1 DEF Done, NotRead
<1>5. CASE UNCHANGED <<version, pending, seen, missed>>
  BY <1>5
<1> QED
  BY <1>1, <1>2, <1>3, <1>4, <1>5
  DEF Next, WriterStep, QueryStep, CacheStep, Miss, OpenStream, NextBatch,
      Hit, Evict, Tick, vars

LEMMA ScannedStep ==
    ASSUME TypeOK, ScannedInv, [Next]_vars PROVE ScannedInv'
<1> USE DEF ScannedInv, TypeOK, writerVars, queryVars, streamVars
<1>1. ASSUME NEW q \in Queries, NEW p \in Plans, Miss(q, p)
      PROVE  ScannedInv'
  BY <1>1 DEF Miss
<1>2. ASSUME NEW q \in Queries, NEW d \in Datasets, Scan(q, d)
      PROVE  ScannedInv'
  BY <1>2 DEF Scan
<1>3. ASSUME NEW q \in Queries, NEW n \in 0..MaxBatches, OpenStream(q, n)
      PROVE  ScannedInv'
  BY <1>3 DEF OpenStream
<1>4. ASSUME NEW q \in Queries, BatchError(q) \/ Finish(q) \/ Stop(q)
      PROVE  ScannedInv'
  <2>1. Done(q)
    BY <1>4 DEF BatchError, AfterError, Finish, Stop
  <2> QED
    BY <2>1 DEF Done
<1>5. CASE UNCHANGED <<pc, plan, seen>>
  BY <1>5
<1> QED
  BY <1>1, <1>2, <1>3, <1>4, <1>5
  DEF Next, WriterStep, QueryStep, CacheStep, Write, Abandon, WriteData,
      InvalidateForTable, NextBatch, Hit, Evict, Tick, vars

(***************************************************************************)
(* The steps of the cache's part.                                          *)
(***************************************************************************)

\* What can happen to the entries: one is put by a query that has finished,
\* or the surviving ones keep all but their age.
LEMMA CacheSteps ==
    ASSUME TypeOK, [Next]_vars
    PROVE  \/ \E q \in Queries :
                 /\ Finish(q) /\ Fits(kept[q])
                 /\ cache' = Put(plan[q], [seen |-> seen[q],
                                          missed |-> missed[q],
                                          lost |-> lost[q], age |-> 0])
           \/ /\ DOMAIN cache' \subseteq DOMAIN cache
              /\ \A p \in DOMAIN cache' :
                    /\ cache'[p].seen = cache[p].seen
                    /\ cache'[p].missed = cache[p].missed
                    /\ cache'[p].lost = cache[p].lost
<1> USE DEF TypeOK
<1>1. ASSUME NEW q \in Queries, Finish(q)
      PROVE  \/ cache' = cache
             \/ /\ Fits(kept[q])
                /\ cache' = Put(plan[q], [seen |-> seen[q],
                                         missed |-> missed[q],
                                         lost |-> lost[q], age |-> 0])
  BY <1>1 DEF Finish
<1>2. ASSUME NEW p \in Plans, Hit(p) \/ Evict(p)
      PROVE  /\ DOMAIN cache' \subseteq DOMAIN cache
             /\ \A x \in DOMAIN cache' :
                   /\ cache'[x].seen = cache[x].seen
                   /\ cache'[x].missed = cache[x].missed
                   /\ cache'[x].lost = cache[x].lost
  BY <1>2 DEF Hit, AgeAfterHit, Evict, Entries
<1>3. CASE Tick
  BY <1>3 DEF Tick, Entries
<1>4. ASSUME NEW d \in Datasets, InvalidateForTable(d)
      PROVE  /\ DOMAIN cache' \subseteq DOMAIN cache
             /\ \A x \in DOMAIN cache' : cache'[x] = cache[x]
  BY <1>4 DEF InvalidateForTable
<1> QED
  BY <1>1, <1>2, <1>3, <1>4
  DEF Next, WriterStep, QueryStep, CacheStep, Write, Abandon, WriteData,
      Miss, Scan, OpenStream, NextBatch, BatchError, Stop, vars

LEMMA CompleteStep ==
    ASSUME TypeOK, RecordedInv, CachedResultsComplete, [Next]_vars
    PROVE  CachedResultsComplete'
<1> SUFFICES ASSUME NEW p \in DOMAIN cache' PROVE cache'[p].lost = 0
  BY DEF CachedResultsComplete
<1>1. ASSUME NEW q \in Queries, Fits(kept[q]),
             cache' = Put(plan[q], [seen |-> seen[q], missed |-> missed[q],
                                    lost |-> lost[q], age |-> 0])
      PROVE  cache'[p].lost = 0
  <2>1. lost[q] = 0
    BY <1>1 DEF RecordedInv
  <2>2. CASE p = plan[q]
    BY <1>1, <2>1, <2>2 DEF Put
  <2>3. CASE p # plan[q]
    BY <1>1, <2>3 DEF Put, CachedResultsComplete
  <2> QED
    BY <2>2, <2>3
<1> QED
  BY <1>1, CacheSteps DEF CachedResultsComplete

LEMMA StaleStep ==
    ASSUME TypeOK, ReadInv, ScannedInv, StaleEntryExplained, [Next]_vars
    PROVE  StaleEntryExplained'
<1> SUFFICES ASSUME NEW p \in DOMAIN cache', NEW d \in Datasets,
                    NameOf[d] \in RefsOf[p],
                    cache'[p].seen[d] < version'[d]
             PROVE  d \in pending' \/ d \in cache'[p].missed
  BY DEF StaleEntryExplained, StaleFor
<1> USE DEF TypeOK, writerVars, queryVars, streamVars
<1>1. CASE \E q \in Queries :
              /\ Finish(q) /\ Fits(kept[q])
              /\ cache' = Put(plan[q], [seen |-> seen[q],
                                       missed |-> missed[q],
                                       lost |-> lost[q], age |-> 0])
  <2>1. PICK q \in Queries :
              /\ Finish(q)
              /\ cache' = Put(plan[q], [seen |-> seen[q],
                                       missed |-> missed[q],
                                       lost |-> lost[q], age |-> 0])
    BY <1>1
  <2>2. version' = version /\ pending' = pending /\ pc[q] = "stream"
    BY <2>1 DEF Finish
  <2>3. CASE p = plan[q]
    <3>1. seen[q][d] # 0
      BY <2>2, <2>3, NamedIsInput DEF ScannedInv
    <3>2. cache'[p].seen = seen[q] /\ cache'[p].missed = missed[q]
      BY <2>1, <2>3 DEF Put
    <3> QED
      BY <3>1, <3>2, <2>2 DEF ReadInv
  <2>4. CASE p # plan[q]
    <3>1. p \in DOMAIN cache /\ cache'[p] = cache[p]
      BY <2>1, <2>4 DEF Put
    <3> QED
      BY <3>1, <2>2 DEF StaleEntryExplained, StaleFor
  <2> QED
    BY <2>3, <2>4
<1>2. CASE /\ DOMAIN cache' \subseteq DOMAIN cache
           /\ \A x \in DOMAIN cache' :
                 /\ cache'[x].seen = cache[x].seen
                 /\ cache'[x].missed = cache[x].missed
                 /\ cache'[x].lost = cache[x].lost
  <2>1. p \in DOMAIN cache /\ cache'[p].seen = cache[p].seen
        /\ cache'[p].missed = cache[p].missed
    BY <1>2
  <2>2. ASSUME NEW x \in Datasets, Write(x) \/ WriteData(x)
        PROVE  d \in pending' \/ d \in cache'[p].missed
    <3>1. CASE x = d
      BY <2>2, <3>1 DEF Write, WriteData
    <3>2. CASE x # d
      BY <2>1, <2>2, <3>2
      DEF Write, WriteData, StaleEntryExplained, StaleFor
    <3> QED
      BY <3>1, <3>2
  <2>3. ASSUME NEW x \in Datasets, InvalidateForTable(x)
        PROVE  d \in pending' \/ d \in cache'[p].missed
    <3>1. x # d
      BY <2>3 DEF InvalidateForTable, Names
    <3> QED
      BY <2>1, <2>3, <3>1
      DEF InvalidateForTable, StaleEntryExplained, StaleFor
  <2>4. CASE UNCHANGED <<version, pending>>
    BY <2>1, <2>4 DEF StaleEntryExplained, StaleFor
  <2> QED
    BY <2>2, <2>3, <2>4
    DEF Next, WriterStep, QueryStep, CacheStep, Abandon, Miss, Scan,
        OpenStream, NextBatch, BatchError, Finish, Stop, Hit, Evict, Tick,
        vars
<1> QED
  BY <1>1, <1>2, CacheSteps

(***************************************************************************)
(* The invariant holds in every reachable state.                           *)
(***************************************************************************)
THEOREM CacheInvariance == Spec => []IInv
<1>1. Init => IInv
  BY CacheAssumption, NotReadType
  DEF CacheAssumption, Init, IInv, TypeOK, RecordedInv, ReadInv, ScannedInv,
      CachedResultsComplete, StaleEntryExplained, NotRead
<1>2. IInv /\ [Next]_vars => IInv'
  BY TypeStep, RecordedStep, ReadStep, ScannedStep, CompleteStep, StaleStep
  DEF IInv
<1> QED
  BY <1>1, <1>2, PTL DEF Spec

(***************************************************************************)
(* Queries, entries and writers stay well typed; in particular no entry    *)
(* outlives its time to live.                                              *)
(***************************************************************************)
THEOREM CacheTypeCorrect == Spec => []TypeOK
<1>1. IInv => TypeOK
  BY DEF IInv
<1> QED
  BY <1>1, CacheInvariance, PTL

(***************************************************************************)
(* The cache never holds a truncated result, for any size limit and any    *)
(* mix of failing, abandoned and oversized streams.                        *)
(***************************************************************************)
THEOREM NothingTruncated == Spec => []CachedResultsComplete
<1>1. IInv => CachedResultsComplete
  BY DEF IInv
<1> QED
  BY <1>1, CacheInvariance, PTL

(***************************************************************************)
(* A stale entry is owed an invalidation, or its query overlapped one.     *)
(***************************************************************************)
THEOREM StalenessIsExplained == Spec => []StaleEntryExplained
<1>1. IInv => StaleEntryExplained
  BY DEF IInv
<1> QED
  BY <1>1, CacheInvariance, PTL
=============================================================================
