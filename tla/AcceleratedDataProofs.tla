------------------------ MODULE AcceleratedDataProofs ------------------------
(***************************************************************************)
(* Theorems about the append refresh of AcceleratedData with no retention  *)
(* check and no refresh SQL, for every overlap, lateness, clock and set of *)
(* rows.                                                                   *)
(***************************************************************************)
EXTENDS AcceleratedData, TLAPS

AppendOnly == Modes \subseteq {"append"} /\ ~Retention /\ ~RefreshSql

(***************************************************************************)
(* The inductive invariant.                                                *)
(***************************************************************************)

\* Refreshes append, and the retention check does not run.
QuietInv == mode = "append" /\ delete = "idle" /\ held = NoRows

\* Rows come from the source, and none is from the future; nothing is in
\* flight before the fetch.
OriginInv ==
    /\ Local \subseteq source /\ update \subseteq source
    /\ \A r \in source : r.t <= now
    /\ refresh \in {"idle", "fetch"} => update = {}

\* The timestamp a refresh fetches after stays the one its table gives until
\* it writes.
SinceInv ==
    /\ refresh # "idle" => TimestampForAppend(since)
    /\ refresh = "filter" =>
           \A r \in update : since # None => r.t > since
    /\ refresh = "write" => update \cap Local = {}

\* Nothing the refreshes have not copied is at or before the timestamp they
\* will fetch after.
AheadInv ==
    Overlap > Lateness =>
        /\ \A r \in source \ Local : \A s \in Local : r.t + Overlap > s.t
        /\ refresh \in {"filter", "write"} =>
              \A r \in source \ (Local \cup update) :
                  \A s \in Local \cup update : r.t + Overlap > s.t

IInv == /\ TypeOK /\ QuietInv /\ OriginInv /\ SinceInv /\ AheadInv
        /\ NoDuplicates

\* A table has at most one timestamp to append after: two computations over
\* the same rows agree (timestamp_nanos_for_append_query is called twice).
LEMMA TimestampUnique ==
    ASSUME NEW a \in 0..None, NEW b \in 0..None, source \in SUBSET Rows,
           TimestampForAppend(a), TimestampForAppend(b)
    PROVE  a = b
<1>1. AcceleratorRows \in SUBSET Rows
  BY DEF AcceleratorRows, Local
<1>2. CASE AcceleratorRows = {}
  BY <1>2 DEF TimestampForAppend, IsLatest
<1>3. CASE AcceleratorRows # {}
  <2>1. PICK m \in 1..MaxTime : IsLatest(m) /\ a = Minus(m, Overlap)
    BY <1>3 DEF TimestampForAppend
  <2>2. PICK n \in 1..MaxTime : IsLatest(n) /\ b = Minus(n, Overlap)
    BY <1>3 DEF TimestampForAppend
  <2>3. m <= n /\ n <= m
    BY <2>1, <2>2, <1>1 DEF IsLatest, Rows
  <2> QED
    BY <2>1, <2>2, <2>3, DataAssumption DEF DataAssumption
<1> QED
  BY <1>2, <1>3

(***************************************************************************)
(* Every variable keeps its type, in every mode and with retention too.    *)
(***************************************************************************)
LEMMA PlusType ==
    ASSUME NEW a \in 0..MaxCopies, NEW b \in 0..MaxCopies
    PROVE  Plus(a, b) \in 0..MaxCopies
BY DataAssumption DEF DataAssumption, Plus

LEMMA CopiesType == NoRows \in [Rows -> 0..MaxCopies] /\ 1 \in 0..MaxCopies
BY DataAssumption DEF DataAssumption, NoRows

LEMMA MinusType ==
    ASSUME NEW b \in Nat, NEW a \in 0..MaxTime PROVE Minus(a, b) \in 0..MaxTime
BY DataAssumption DEF DataAssumption, Minus

THEOREM DataTypeCorrect == Spec => []TypeOK
<1> USE DEF TypeOK, refreshVars, deleteVars, historyVars
<1>1. Init => TypeOK
  BY DataAssumption, CopiesType DEF DataAssumption, Init, None
<1>2. TypeOK /\ [Next]_vars => TypeOK'
  <2> SUFFICES ASSUME TypeOK, [Next]_vars PROVE TypeOK'
    OBVIOUS
  <2>1. CASE Tick
    BY <2>1, DataAssumption DEF DataAssumption, Tick
  <2>2. ASSUME NEW r \in Rows, SourceAdds(r) PROVE TypeOK'
    BY <2>2 DEF SourceAdds
  <2>3. CASE StartRefresh
    BY <2>3 DEF StartRefresh
  <2>4. CASE Fetch
    BY <2>4 DEF Fetch
  <2>5. CASE FilterExisting
    BY <2>5 DEF FilterExisting
  <2>6. CASE Write
    <3>1. accel' \in [Rows -> 0..MaxCopies]
      <4>1. PICK base \in [Rows -> 0..MaxCopies] :
              accel' = [r \in Rows |->
                           Plus(base[r], IF r \in update THEN 1 ELSE 0)]
        BY <2>6, CopiesType DEF Write
      <4>2. \A r \in Rows : (IF r \in update THEN 1 ELSE 0) \in 0..MaxCopies
        BY DataAssumption DEF DataAssumption
      <4>3. \A r \in Rows :
              Plus(base[r], IF r \in update THEN 1 ELSE 0) \in 0..MaxCopies
        <5> SUFFICES ASSUME NEW r \in Rows
                     PROVE  Plus(base[r], IF r \in update THEN 1 ELSE 0)
                              \in 0..MaxCopies
          OBVIOUS
        <5>1. base[r] \in 0..MaxCopies
          OBVIOUS
        <5> QED BY <5>1, <4>2, PlusType
      <4> QED BY <4>1, <4>3
    <3> QED BY <2>6, <3>1 DEF Write
  <2>7. CASE RefreshFails
    BY <2>7 DEF RefreshFails
  <2>8. CASE TakeRows
    <3>1. cutoff' \in 0..MaxTime
      BY <2>8, MinusType, DataAssumption DEF TakeRows, Cutoff, DataAssumption
    <3> QED BY <2>8, <3>1, CopiesType DEF TakeRows
  <2>9. CASE PutBack
    <3>1. \A r \in Rows :
            Plus(accel[r], IF Expired(r) THEN 0 ELSE held[r]) \in 0..MaxCopies
      <4> SUFFICES ASSUME NEW r \in Rows
                   PROVE  Plus(accel[r], IF Expired(r) THEN 0 ELSE held[r])
                            \in 0..MaxCopies
        OBVIOUS
      <4>1. (IF Expired(r) THEN 0 ELSE held[r]) \in 0..MaxCopies
        BY DataAssumption DEF DataAssumption
      <4> QED BY <4>1, PlusType
    <3> QED BY <2>9, <3>1, CopiesType DEF PutBack
  <2>10. CASE DeleteError
    BY <2>10, CopiesType DEF DeleteError
  <2>11. CASE UNCHANGED vars
    BY <2>11 DEF vars
  <2> QED
    BY <2>1, <2>2, <2>3, <2>4, <2>5, <2>6, <2>7, <2>8, <2>9, <2>10, <2>11
    DEF Next, RefreshStep, RetentionStep
<1> QED
  BY <1>1, <1>2, PTL DEF Spec

(***************************************************************************)
(* The rest of the invariant, for append refreshes without retention.      *)
(***************************************************************************)
\* What a step of an append-only dataset can be.
LEMMA AppendSteps ==
    ASSUME AppendOnly, QuietInv, [Next]_vars
    PROVE  \/ Tick \/ (\E r \in Rows : SourceAdds(r))
           \/ StartRefresh \/ Fetch \/ FilterExisting \/ Write
           \/ RefreshFails \/ UNCHANGED vars
BY DEF AppendOnly, QuietInv, Next, RefreshStep, RetentionStep, TakeRows,
       PutBack, DeleteError

\* The local rows after a write are those before it and those written.
LEMMA WriteAdds ==
    ASSUME TypeOK, QuietInv, Write
    PROVE  Local' = Local \cup update
<1>1. \A r \in Rows :
        accel'[r] = Plus(accel[r], IF r \in update THEN 1 ELSE 0)
  BY DEF Write, QuietInv
<1>2. \A r \in Rows : accel'[r] > 0 <=> accel[r] > 0 \/ r \in update
  BY <1>1, DataAssumption DEF DataAssumption, Plus, TypeOK
<1> QED
  BY <1>2 DEF Local, TypeOK

\* The timestamp depends on the local rows only.
LEMMA TimestampStable ==
    ASSUME AppendOnly, accel' = accel, NEW ts
    PROVE  TimestampForAppend(ts) <=> TimestampForAppend(ts)'
BY DEF AppendOnly, TimestampForAppend, IsLatest, AcceleratorRows, Local

LEMMA QuietStep ==
    ASSUME AppendOnly, QuietInv, [Next]_vars PROVE QuietInv'
BY AppendSteps
DEF QuietInv, Tick, SourceAdds, StartRefresh, Fetch, FilterExisting, Write,
    RefreshFails, vars, deleteVars

LEMMA OriginStep ==
    ASSUME AppendOnly, TypeOK, QuietInv, OriginInv, [Next]_vars
    PROVE  OriginInv'
<1> USE DEF OriginInv, TypeOK, Local, refreshVars, deleteVars, historyVars
<1>1. CASE Tick
  BY <1>1 DEF Tick, Rows
<1>2. ASSUME NEW r \in Rows, SourceAdds(r) PROVE OriginInv'
  BY <1>2 DEF SourceAdds
<1>3. CASE StartRefresh \/ Fetch \/ FilterExisting \/ RefreshFails
  BY <1>3 DEF StartRefresh, Fetch, FilterExisting, RefreshFails, AppendOnly
<1>4. CASE Write
  <2>1. Local' = Local \cup update
    BY <1>4, WriteAdds
  <2> QED BY <1>4, <2>1 DEF Write
<1>5. CASE UNCHANGED vars
  BY <1>5 DEF vars
<1> QED
  BY <1>1, <1>2, <1>3, <1>4, <1>5, AppendSteps

LEMMA SinceStep ==
    ASSUME AppendOnly, TypeOK, QuietInv, OriginInv, SinceInv, [Next]_vars
    PROVE  SinceInv'
<1> USE DEF SinceInv, refreshVars, deleteVars, historyVars
<1>1. CASE Tick \/ (\E r \in Rows : SourceAdds(r)) \/ UNCHANGED vars
  <2>1. UNCHANGED <<accel, refreshVars>>
    BY <1>1 DEF Tick, SourceAdds, vars
  <2> QED BY <2>1, TimestampStable DEF Local, None
<1>2. CASE StartRefresh
  BY <1>2, TimestampStable DEF StartRefresh, QuietInv
<1>3. CASE Fetch
  BY <1>3, TimestampStable DEF Fetch, QuietInv, Wanted
<1>4. CASE FilterExisting
  <2>1. PICK ts \in 0..None :
          TimestampForAppend(ts) /\ update' = update \ ExistingAfter(ts)
    BY <1>4 DEF FilterExisting
  <2>2. ts = since
    BY <1>4, <2>1, TimestampUnique DEF FilterExisting, TypeOK
  <2>3. TimestampForAppend(since)'
    BY <1>4, TimestampStable DEF FilterExisting
  <2>4. since = None => Local = {}
    BY <1>4, DataAssumption
    DEF FilterExisting, TimestampForAppend, AppendOnly, AcceleratorRows,
        Minus, None, DataAssumption
  <2>5. update' \cap Local = {}
    BY <1>4, <2>1, <2>2, <2>4
    DEF FilterExisting, ExistingAfter, AppendOnly, AcceleratorRows
  <2> QED
    BY <1>4, <2>3, <2>5 DEF FilterExisting, Local
<1>5. CASE Write \/ RefreshFails
  BY <1>5 DEF Write, RefreshFails
<1> QED
  BY <1>1, <1>2, <1>3, <1>4, <1>5, AppendSteps

\* A row that reaches the source while a refresh is in flight is younger than
\* every row that refresh carries, less the overlap; a row that was there at
\* the fetch was ahead of the timestamp and is carried itself.
LEMMA AheadStep ==
    ASSUME AppendOnly, TypeOK, QuietInv, OriginInv, SinceInv, AheadInv,
           [Next]_vars
    PROVE  AheadInv'
<1> SUFFICES ASSUME Overlap > Lateness PROVE AheadInv'
  BY DEF AheadInv
<1> USE DataAssumption DEF DataAssumption, AheadInv, refreshVars, deleteVars, historyVars
<1>1. CASE Tick \/ UNCHANGED vars
  BY <1>1 DEF Tick, vars, Local
<1>2. ASSUME NEW x \in Rows, SourceAdds(x) PROVE AheadInv'
  <2>1. Local' = Local /\ update' = update /\ refresh' = refresh
        /\ source' = source \cup {x}
    BY <1>2 DEF SourceAdds, Local
  <2>2. \A s \in Local \cup update : s.t <= now /\ s.t \in Nat
    BY DEF OriginInv, TypeOK, Rows
  <2>3. x.t + Lateness >= now /\ x.t \in Nat
    BY <1>2 DEF SourceAdds, Rows
  <2>4. now \in Nat
    BY DEF TypeOK
  <2>5. \A s \in Local \cup update : x.t + Overlap > s.t
    BY <2>2, <2>3, <2>4
  <2> QED
    BY <2>1, <2>5
<1>3. CASE StartRefresh
  BY <1>3 DEF StartRefresh, Local
<1>4. CASE Fetch
  <2>1. Local' = Local /\ source' = source /\ update' \subseteq source
    BY <1>4 DEF Fetch, Local
  <2>2. source \ (Local \cup update') = {}
    <3> SUFFICES ASSUME NEW r \in source, r \notin Local, r \notin update'
                 PROVE  FALSE
      OBVIOUS
    <3>1. ~Wanted(r)
      BY <1>4 DEF Fetch
    <3>2. since # None /\ ~(r.t > since)
      BY <3>1 DEF Wanted, Period
    <3>3. PICK m \in 1..MaxTime : IsLatest(m) /\ since = Minus(m, Overlap)
      BY <1>4, <3>2 DEF Fetch, SinceInv, TimestampForAppend
    <3>4. PICK s \in Local : s.t = m
      BY <3>3 DEF IsLatest, AcceleratorRows, AppendOnly
    <3>5. r.t + Overlap > m
      BY <3>4
    <3>6. r.t \in Nat /\ r.t >= 1
      BY DEF TypeOK, Rows
    <3> QED
      BY <3>2, <3>3, <3>5, <3>6 DEF Minus
  <2> QED
    BY <2>1, <2>2
<1>5. CASE FilterExisting
  <2>1. PICK ts \in 0..None : update' = update \ ExistingAfter(ts)
    BY <1>5 DEF FilterExisting
  <2>2. ExistingAfter(ts) \subseteq Local
    BY DEF ExistingAfter, AcceleratorRows, AppendOnly
  <2>3. Local' \cup update' = Local \cup update /\ Local' = Local
    BY <1>5, <2>1, <2>2 DEF FilterExisting, Local
  <2> QED
    BY <1>5, <2>3 DEF FilterExisting
<1>6. CASE Write
  <2>1. Local' = Local \cup update /\ update' = {} /\ refresh' = "idle"
        /\ source' = source
    BY <1>6, WriteAdds DEF Write
  <2> QED
    BY <1>6, <2>1 DEF Write
<1>7. CASE RefreshFails
  BY <1>7 DEF RefreshFails, Local
<1> QED
  BY <1>1, <1>2, <1>3, <1>4, <1>5, <1>6, <1>7, AppendSteps

LEMMA CopiesStep ==
    ASSUME AppendOnly, TypeOK, QuietInv, SinceInv, NoDuplicates, [Next]_vars
    PROVE  NoDuplicates'
<1>1. CASE Write
  <2> SUFFICES ASSUME NEW r \in Rows PROVE accel'[r] <= 1
    BY DEF NoDuplicates
  <2>1. accel'[r] = Plus(accel[r], IF r \in update THEN 1 ELSE 0)
    BY <1>1 DEF Write, QuietInv
  <2>2. r \in update => accel[r] = 0
    BY <1>1 DEF Write, SinceInv, Local, TypeOK
  <2> QED
    BY <2>1, <2>2, DataAssumption
    DEF DataAssumption, Plus, NoDuplicates, TypeOK
<1>2. CASE accel' = accel
  BY <1>2 DEF NoDuplicates
<1> QED
  BY <1>1, <1>2, AppendSteps
  DEF Tick, SourceAdds, StartRefresh, Fetch, FilterExisting, RefreshFails,
      vars

(***************************************************************************)
(* The invariant holds of every behaviour of an append-only dataset.       *)
(***************************************************************************)
THEOREM DataInvariance == ASSUME AppendOnly PROVE Spec => []IInv
<1>1. Init => IInv
  <2> SUFFICES ASSUME Init PROVE IInv
    OBVIOUS
  <2>1. TypeOK
    BY DataAssumption, CopiesType DEF DataAssumption, Init, TypeOK, None
  <2>2. Local = {}
    BY DEF Init, Local, NoRows
  <2> QED
    BY <2>1, <2>2
    DEF Init, IInv, QuietInv, OriginInv, SinceInv, AheadInv, NoDuplicates,
        NoRows, AppendOnly
<1>2. IInv /\ TypeOK' /\ [Next]_vars => IInv'
  BY QuietStep, OriginStep, SinceStep, AheadStep, CopiesStep DEF IInv
<1> QED
  BY <1>1, <1>2, DataTypeCorrect, PTL DEF Spec

(***************************************************************************)
(* An append refresh never writes a second copy of a row.                  *)
(***************************************************************************)
THEOREM AppendNeverDuplicates ==
    ASSUME AppendOnly PROVE Spec => []NoDuplicates
<1>1. IInv => NoDuplicates
  BY DEF IInv
<1> QED
  BY <1>1, DataInvariance, PTL

(***************************************************************************)
(* With an overlap greater than the lateness of the source's rows, append  *)
(* refreshes pass over no row.                                             *)
(***************************************************************************)
THEOREM AppendPassesOverNothing ==
    ASSUME AppendOnly PROVE Spec => []NothingPassedOver
<1>1. IInv => NothingPassedOver
  BY DEF IInv, AheadInv, OriginInv, NothingPassedOver
<1> QED
  BY <1>1, DataInvariance, PTL

(***************************************************************************)
(* An append refresh fetches only rows more recent than the latest local   *)
(* row less the overlap.                                                   *)
(***************************************************************************)
THEOREM AppendFetchesOnlyNewer ==
    ASSUME AppendOnly PROVE Spec => FetchesOnlyNewer
<1>1. IInv /\ [Next]_vars =>
        [refresh = "fetch" /\ refresh' = "filter" =>
           \A r \in update', s \in Rows :
               accel[s] + held[s] > 0 => r.t + Overlap > s.t]_vars
  <2> SUFFICES ASSUME IInv, [Next]_vars, refresh = "fetch",
                      refresh' = "filter", NEW r \in update', NEW s \in Rows,
                      accel[s] + held[s] > 0
               PROVE  r.t + Overlap > s.t
    OBVIOUS
  <2>1. Fetch
    BY AppendSteps
    DEF IInv, Tick, SourceAdds, StartRefresh, FilterExisting, Write,
        RefreshFails, vars, refreshVars
  <2>2. r \in source /\ Wanted(r) /\ r \in Rows
    BY <2>1 DEF Fetch, IInv, TypeOK
  <2>3. s \in Local
    BY DataAssumption DEF DataAssumption, IInv, QuietInv, NoRows, Local, TypeOK
  <2>4. AcceleratorRows = Local /\ TimestampForAppend(since)
    BY DEF AcceleratorRows, AppendOnly, IInv, SinceInv
  <2>5. PICK m \in 1..MaxTime : IsLatest(m) /\ since = Minus(m, Overlap)
    BY <2>3, <2>4 DEF TimestampForAppend
  <2>6. s.t <= m /\ s.t \in Nat /\ r.t \in Nat
    BY <2>2, <2>3, <2>4, <2>5 DEF IsLatest, Rows
  <2>7. since # None
    BY <2>5, DataAssumption DEF DataAssumption, Minus, None
  <2>8. r.t > since
    BY <2>2, <2>7 DEF Wanted
  <2> QED
    BY <2>5, <2>6, <2>8, DataAssumption DEF DataAssumption, Minus
<1> QED
  BY <1>1, DataInvariance, PTL DEF Spec, FetchesOnlyNewer

(***************************************************************************)
(* The retention check. A full refresh about to write has fetched all that *)
(* was ever written, and the cutoff of a delete under way is not ahead of  *)
(* the clock's.                                                            *)
(***************************************************************************)
SurvivalInv ==
    /\ TypeOK
    /\ written \subseteq source /\ update \subseteq source
    /\ mode = "full" =>
          /\ refresh # "filter"
          /\ refresh = "fetch" => since = None
          /\ refresh = "write" => written \subseteq update
    /\ delete = "idle" => held = NoRows
    /\ delete = "filter" => cutoff <= Minus(now, RetentionPeriod)
    /\ UnexpiredRowsSurvive

\* Adding copies loses none.
LEMMA PlusKeeps ==
    ASSUME NEW a \in 0..MaxCopies, NEW b \in 0..MaxCopies, a > 0 \/ b > 0
    PROVE  Plus(a, b) > 0
BY DataAssumption DEF DataAssumption, Plus

\* The steps of a refresh keep what the retention check relies on.
LEMMA RefreshSurvival ==
    ASSUME SurvivalInv, TypeOK',
           RefreshStep \/ RefreshFails \/ \E r \in Rows : SourceAdds(r)
    PROVE  SurvivalInv'
<1> USE DEF SurvivalInv, refreshVars, deleteVars, historyVars
<1>1. ASSUME NEW r \in Rows, SourceAdds(r) PROVE SurvivalInv'
  BY <1>1 DEF SourceAdds, UnexpiredRowsSurvive, TypeOK
<1>2. CASE StartRefresh
  BY <1>2 DEF StartRefresh, UnexpiredRowsSurvive, TypeOK
<1>3. CASE Fetch
  <2>1. mode = "full" => update' = source
    BY <1>3 DEF Fetch, Wanted, Period
  <2> QED
    BY <1>3, <2>1 DEF Fetch, UnexpiredRowsSurvive, TypeOK
<1>4. CASE FilterExisting
  BY <1>4 DEF FilterExisting, UnexpiredRowsSurvive, TypeOK
<1>5. CASE Write
  <2>1. /\ UNCHANGED <<mode, now, source, delete, cutoff, held>>
        /\ written' = written \cup update /\ dropped' = dropped \ update
        /\ refresh' = "idle" /\ update' = {}
    BY <1>5 DEF Write
  <2>2. ASSUME NEW r \in Rows PROVE r \in update => accel'[r] > 0
    <3>1. /\ accel[r] \in 0..MaxCopies /\ NoRows[r] \in 0..MaxCopies
          /\ 1 \in 0..MaxCopies
      BY CopiesType DEF TypeOK
    <3>2. r \in update =>
             accel'[r] = Plus((IF mode = "full" THEN NoRows ELSE accel)[r], 1)
      BY <1>5 DEF Write
    <3> QED BY <3>1, <3>2, PlusKeeps
  <2>3. ASSUME NEW r \in Rows, mode = "append", accel[r] > 0
        PROVE  accel'[r] > 0
    <3>1. accel[r] \in 0..MaxCopies /\ 0 \in 0..MaxCopies /\ 1 \in 0..MaxCopies
      BY DataAssumption DEF TypeOK, DataAssumption
    <3>2. accel'[r] = Plus(accel[r], IF r \in update THEN 1 ELSE 0)
      BY <1>5, <2>3 DEF Write
    <3> QED BY <2>3, <3>1, <3>2, PlusKeeps
  <2>4. UnexpiredRowsSurvive'
    <3> SUFFICES ASSUME NEW r \in written', r \notin dropped',
                        r.t >= Minus(now, RetentionPeriod)
                 PROVE  accel'[r] + held[r] > 0
      BY <2>1 DEF UnexpiredRowsSurvive
    <3>1. r \in Rows /\ accel'[r] \in Nat /\ accel[r] \in Nat /\ held[r] \in Nat
      BY <2>1, DataAssumption DEF TypeOK, DataAssumption
    <3>2. CASE r \in update
      BY <2>2, <3>1, <3>2
    <3>3. CASE r \notin update
      <4>1. r \in written \ dropped
        BY <2>1, <3>3
      <4>2. mode = "append"
        BY <1>5, <3>3, <4>1 DEF Write, TypeOK
      <4>3. accel[r] + held[r] > 0
        BY <4>1 DEF UnexpiredRowsSurvive
      <4> QED BY <2>3, <3>1, <4>2, <4>3
    <3> QED BY <3>2, <3>3
  <2> QED BY <2>1, <2>4
<1>6. CASE RefreshFails
  BY <1>6 DEF RefreshFails, UnexpiredRowsSurvive, TypeOK
<1> QED
  BY <1>1, <1>2, <1>3, <1>4, <1>5, <1>6 DEF RefreshStep

\* The steps of the retention check move the rows out and put back the ones
\* that have not expired, or the delete fails and loses them.
LEMMA RetentionSurvival ==
    ASSUME SurvivalInv, TypeOK', RetentionStep
    PROVE  SurvivalInv'
<1> USE DEF SurvivalInv, refreshVars, deleteVars, historyVars
<1>0. /\ \A r \in Rows : accel[r] \in 0..MaxCopies /\ held[r] \in 0..MaxCopies
      /\ MaxCopies \in Nat /\ 0 \in 0..MaxCopies
      /\ Minus(now, RetentionPeriod) \in 0..MaxTime /\ MaxTime \in Nat
  <2>1. now \in 0..MaxTime /\ RetentionPeriod \in Nat
    BY DataAssumption DEF TypeOK, DataAssumption
  <2>2. Minus(now, RetentionPeriod) \in 0..MaxTime
    BY <2>1, MinusType
  <2> QED BY <2>2, DataAssumption DEF TypeOK, DataAssumption
<1>1. CASE TakeRows
  <2>1. \A r \in Rows : held[r] = 0
    BY <1>1 DEF TakeRows, NoRows
  <2>2. \A r \in Rows : accel'[r] + held'[r] = accel[r] + held[r]
    BY <1>0, <1>1, <2>1 DEF TakeRows, NoRows
  <2>3. UnexpiredRowsSurvive'
    BY <1>1, <2>2 DEF TakeRows, UnexpiredRowsSurvive, TypeOK
  <2> QED BY <1>0, <1>1, <2>3 DEF TakeRows, Cutoff
<1>2. CASE PutBack
  <2>1. ASSUME NEW r \in written \ dropped, r.t >= Minus(now, RetentionPeriod)
        PROVE  accel'[r] + held'[r] > 0
    <3>1. r \in Rows /\ r.t \in Nat /\ cutoff \in Nat
      BY DataAssumption DEF TypeOK, Rows, DataAssumption
    <3>2. ~Expired(r)
      BY <1>0, <1>2, <2>1, <3>1 DEF PutBack, Expired
    <3>3. accel'[r] = Plus(accel[r], held[r]) /\ held'[r] = 0
      BY <1>2, <3>1, <3>2 DEF PutBack, NoRows
    <3>4. accel[r] > 0 \/ held[r] > 0
      BY <1>0, <2>1, <3>1 DEF UnexpiredRowsSurvive
    <3>5. Plus(accel[r], held[r]) > 0
      BY <1>0, <3>1, <3>4, PlusKeeps
    <3>6. accel'[r] \in Nat
      BY <3>1, DataAssumption DEF TypeOK, DataAssumption
    <3> QED BY <3>3, <3>5, <3>6
  <2>2. UnexpiredRowsSurvive'
    BY <1>2, <2>1 DEF PutBack, UnexpiredRowsSurvive
  <2> QED BY <1>2, <2>2 DEF PutBack
<1>3. CASE DeleteError
  <2>1. ASSUME NEW r \in written \ dropped', r.t >= Minus(now, RetentionPeriod)
        PROVE  accel[r] > 0
    <3>1. r \in Rows /\ ~(held[r] > 0) /\ r \notin dropped
      BY <1>3, <2>1 DEF DeleteError, TypeOK
    <3> QED BY <1>0, <2>1, <3>1 DEF UnexpiredRowsSurvive
  <2>2. UnexpiredRowsSurvive'
    <3>1. \A r \in Rows : held'[r] = 0
      BY <1>3 DEF DeleteError, NoRows
    <3>2. UNCHANGED <<accel, written, now>>
      BY <1>3 DEF DeleteError
    <3> QED BY <1>0, <2>1, <3>1, <3>2 DEF UnexpiredRowsSurvive, TypeOK
  <2> QED BY <1>3, <2>2 DEF DeleteError
<1> QED
  BY <1>1, <1>2, <1>3 DEF RetentionStep

(***************************************************************************)
(* In every mode, with or without a refresh SQL, and whatever refreshes    *)
(* and failures run beside it, MemDeletionSink::delete_from loses no row   *)
(* younger than the retention period (UnexpiredRowsSurvive) unless it      *)
(* fails between taking the rows out and putting them back.                *)
(***************************************************************************)
THEOREM RetentionKeepsUnexpired == Spec => []UnexpiredRowsSurvive
<1>1. Init => SurvivalInv
  BY DataAssumption, CopiesType
  DEF DataAssumption, Init, SurvivalInv, UnexpiredRowsSurvive, TypeOK, None
<1>2. SurvivalInv /\ TypeOK' /\ [Next]_vars => SurvivalInv'
  <2> SUFFICES ASSUME SurvivalInv, TypeOK', [Next]_vars PROVE SurvivalInv'
    OBVIOUS
  <2>1. CASE Tick
    <3>1. /\ now' = now + 1
          /\ UNCHANGED <<mode, source, accel, refresh, since, update, delete,
                         cutoff, held, written, dropped>>
      BY <2>1 DEF Tick, refreshVars, deleteVars, historyVars
    <3>2. /\ now \in Nat /\ RetentionPeriod \in Nat /\ cutoff \in Nat
          /\ \A r \in Rows : r.t \in Nat
      BY DataAssumption DEF SurvivalInv, TypeOK, DataAssumption, Rows
    <3>3. Minus(now, RetentionPeriod) <= Minus(now', RetentionPeriod)
      BY <3>1, <3>2 DEF Minus
    <3>4. Minus(now, RetentionPeriod) \in Nat /\ Minus(now', RetentionPeriod) \in Nat
      BY <3>1, <3>2 DEF Minus
    <3>5. UnexpiredRowsSurvive'
      BY <3>1, <3>2, <3>3, <3>4 DEF SurvivalInv, UnexpiredRowsSurvive, TypeOK
    <3> QED BY <3>1, <3>2, <3>3, <3>4, <3>5 DEF SurvivalInv
  <2>2. CASE UNCHANGED vars
    BY <2>2
    DEF vars, refreshVars, deleteVars, historyVars, SurvivalInv,
        UnexpiredRowsSurvive
  <2> QED
    BY <2>1, <2>2, RefreshSurvival, RetentionSurvival DEF Next
<1>3. SurvivalInv => UnexpiredRowsSurvive
  BY DEF SurvivalInv
<1> QED
  BY <1>1, <1>2, <1>3, DataTypeCorrect, PTL DEF Spec
=============================================================================
