---------------------------- MODULE IngestProofs ----------------------------
(***************************************************************************)
(* Theorems about what writes to the tables.                               *)
(*                                                                         *)
(* write_data (SinkWrites), for every set of requests and datasets and any *)
(* number of changes of the configuration: the types and, for clients that *)
(* send one request at a time to a dataset whose configuration is left     *)
(* alone until its first write, that no registration is lost and no        *)
(* acknowledged row is replaced.                                           *)
(*                                                                         *)
(* DoPut and the OTLP service (Ingest), for every set of calls and of      *)
(* tables: a put that was answered is stored once (PutsInv is the          *)
(* inductive invariant), and the answer to an export is about what was     *)
(* stored (ExportsInv).                                                    *)
(***************************************************************************)
EXTENDS SinkWrites, Ingest, FiniteSetTheorems, SequenceTheorems, WellFoundedInduction, TLAPS

Orderly == Serial /\ ~ReconfigureParked

(***************************************************************************)
(* The inductive invariant.                                                *)
(***************************************************************************)

\* One request at a time is in flight to a dataset.
OneInFlight ==
    \A v, w \in Requests :
        v # w /\ target[v] = target[w] => ~Unanswered(v) \/ ~Unanswered(w)

\* A dataset is parked once, parked datasets are writable, and the one that
\* the pods watcher is about to park, like any other that cannot be written
\* to, has no table.
ParkedOnce ==
    /\ IsInjective(pending)
    /\ ToSet(pending) \subseteq writable
    /\ app \cap writable = {}
    /\ \A d \in Datasets : d \notin writable => table[d] = NoTable

\* What a request has found parked stays parked until it removes it.
GuardsHold ==
    \A w \in Requests :
        /\ pc[w] \in {"register", "remove"} => target[w] \in ToSet(pending)
        /\ pc[w] = "remove" => table[target[w]] # NoTable

\* A parked dataset that has a table has been registered by a request that is
\* about to remove the registration.
ParkedIsEmpty ==
    \A d \in ToSet(pending) :
        table[d] # NoTable =>
            \E w \in Requests : target[w] = d /\ pc[w] = "remove"

\* A request that nothing overtook writes to the registered table, and its
\* rows stay there.
RowsInPlace ==
    \A w \in Requests :
        w \notin void =>
            /\ pc[w] = "insert" => table[target[w]] = found[w]
            /\ pc[w] \in {"insert", "ok"} => table[target[w]] # NoTable
            /\ pc[w] = "ok" => w \in rows[target[w]]

SinkInv ==
    /\ TypeOK /\ OneInFlight /\ ParkedOnce /\ GuardsHold /\ ParkedIsEmpty
    /\ RowsInPlace /\ WritableHasTable

(***************************************************************************)
(* pending_sink_tables as a vector.                                        *)
(***************************************************************************)

\* Parking a dataset that is not parked adds it to the vector once.
LEMMA ParkAdds ==
    ASSUME NEW S, NEW p \in Seq(S), NEW d \in S
    PROVE  /\ Append(p, d) \in Seq(S)
           /\ ToSet(Append(p, d)) = ToSet(p) \cup {d}
           /\ IsInjective(p) /\ d \notin ToSet(p) => IsInjective(Append(p, d))
<1> DEFINE q == Append(p, d)
<1>1. /\ q \in Seq(S) /\ Len(q) = Len(p) + 1
      /\ \A i \in 1..Len(p) : q[i] = p[i]
      /\ q[Len(p) + 1] = d
  OBVIOUS
<1>2. DOMAIN q = DOMAIN p \cup {Len(p) + 1} /\ DOMAIN p = 1..Len(p)
  BY <1>1
<1> HIDE DEF q
<1>3. ToSet(q) = ToSet(p) \cup {d}
  BY <1>1, <1>2 DEF ToSet
<1>4. IsInjective(p) /\ d \notin ToSet(p) => IsInjective(q)
  BY <1>1, <1>2 DEF ToSet, IsInjective
<1> QED
  BY <1>1, <1>3, <1>4 DEF q

\* Vec::remove at an index moves the later ones up by one.
LEMMA RemoveShifts ==
    ASSUME NEW S, NEW p \in Seq(S), NEW i \in 1..Len(p)
    PROVE  /\ RemoveAt(p, i) \in Seq(S) /\ Len(RemoveAt(p, i)) = Len(p) - 1
           /\ \A j \in 1..(Len(p) - 1) :
                 RemoveAt(p, i)[j] = IF j < i THEN p[j] ELSE p[j + 1]
<1> DEFINE a == SubSeq(p, 1, i - 1)
           b == SubSeq(p, i + 1, Len(p))
           q == RemoveAt(p, i)
<1>1. /\ a \in Seq(S) /\ Len(a) = i - 1
      /\ \A j \in 1..(i - 1) : a[j] = p[j]
  OBVIOUS
<1>2. /\ b \in Seq(S) /\ Len(b) = Len(p) - i
      /\ \A j \in 1..(Len(p) - i) : b[j] = p[j + i]
  OBVIOUS
<1>3. q = a \o b
  BY DEF RemoveAt
<1> HIDE DEF a, b, q
<1>4. q \in Seq(S) /\ Len(q) = Len(p) - 1
  BY <1>1, <1>2, <1>3
<1>5. ASSUME NEW j \in 1..(Len(p) - 1)
      PROVE  q[j] = IF j < i THEN p[j] ELSE p[j + 1]
  <2>1. CASE j < i
    BY <1>1, <1>2, <1>3, <2>1
  <2>2. CASE j >= i
    <3>1. q[j] = b[j - (i - 1)] /\ j - (i - 1) \in 1..(Len(p) - i)
      BY <1>1, <1>2, <1>3, <2>2
    <3> QED BY <1>2, <2>2, <3>1
  <2> QED BY <2>1, <2>2
<1> QED BY <1>4, <1>5 DEF q

\* It takes that dataset out, and no other.
LEMMA RemoveTakesOut ==
    ASSUME NEW S, NEW p \in Seq(S), NEW i \in 1..Len(p), IsInjective(p)
    PROVE  /\ RemoveAt(p, i) \in Seq(S)
           /\ ToSet(RemoveAt(p, i)) = ToSet(p) \ {p[i]}
           /\ IsInjective(RemoveAt(p, i))
<1> DEFINE q == RemoveAt(p, i)
<1>1. /\ q \in Seq(S) /\ Len(q) = Len(p) - 1
      /\ \A j \in 1..(Len(p) - 1) : q[j] = IF j < i THEN p[j] ELSE p[j + 1]
  BY RemoveShifts
<1>2. DOMAIN q = 1..(Len(p) - 1) /\ DOMAIN p = 1..Len(p) /\ Len(p) \in Nat
  BY <1>1
<1> HIDE DEF q
<1>3. ToSet(q) = ToSet(p) \ {p[i]}
  <2>1. ASSUME NEW j \in DOMAIN q PROVE q[j] \in ToSet(p) \ {p[i]}
    <3>1. PICK k \in DOMAIN p : q[j] = p[k] /\ k # i
      <4>1. CASE j < i
        BY <1>1, <1>2, <4>1
      <4>2. CASE j >= i
        <5>1. j + 1 \in DOMAIN p /\ q[j] = p[j + 1] /\ j + 1 # i
          BY <1>1, <1>2, <4>2
        <5> QED BY <5>1
      <4> QED BY <1>2, <4>1, <4>2
    <3>2. p[k] # p[i]
      BY <1>2, <3>1 DEF IsInjective
    <3> QED BY <3>1, <3>2 DEF ToSet
  <2>2. ASSUME NEW j \in DOMAIN p, j # i PROVE p[j] \in ToSet(q)
    <3>1. CASE j < i
      BY <1>1, <1>2, <3>1 DEF ToSet
    <3>2. CASE j > i
      <4>1. j - 1 \in DOMAIN q /\ q[j - 1] = p[j]
        BY <1>1, <1>2, <3>2
      <4> QED BY <4>1 DEF ToSet
    <3> QED BY <1>2, <2>2, <3>1, <3>2
  <2>3. ToSet(q) \subseteq ToSet(p) \ {p[i]}
    BY <2>1 DEF ToSet
  <2>4. ASSUME NEW x \in ToSet(p), x # p[i] PROVE x \in ToSet(q)
    <3>1. PICK j \in DOMAIN p : x = p[j]
      BY DEF ToSet
    <3> QED BY <2>2, <2>4, <3>1
  <2> QED BY <2>3, <2>4
<1>4. IsInjective(q)
  <2> DEFINE at(j) == IF j < i THEN j ELSE j + 1
  <2>1. \A j \in DOMAIN q : at(j) \in DOMAIN p /\ q[j] = p[at(j)]
    BY <1>1, <1>2
  <2>2. \A j, k \in DOMAIN q : at(j) = at(k) => j = k
    BY <1>2
  <2> QED BY <2>1, <2>2 DEF IsInjective
<1> QED
  BY <1>1, <1>3, <1>4 DEF q

\* ensure_sink_dataset computes an index of the vector, or 1 when the dataset
\* is not in it (which is past the end of an empty vector).
LEMMA IndexInRange ==
    ASSUME TypeOK, NEW d
    PROVE  IndexToRemove(d) \in 1..Len(pending) \/ IndexToRemove(d) = 1
<1>1. CASE PendingOf(d) = {}
  BY <1>1 DEF IndexToRemove
<1>2. CASE PendingOf(d) # {}
  <2>1. PendingOf(d) \subseteq 1..Len(pending) /\ Len(pending) \in Nat
    BY DEF PendingOf, TypeOK
  <2>2. PendingOf(d) \subseteq Nat
    BY <2>1
  <2>3. PICK m \in PendingOf(d) :
           \A y \in PendingOf(d) : ~(<<y, m>> \in OpToRel(<, Nat))
    BY <1>2, <2>2, NatLessThanWellFounded, WFMin
  <2>4. ASSUME NEW y \in PendingOf(d) PROVE m <= y
    <3>1. y \in Nat /\ m \in Nat
      BY <2>2
    <3>2. <<y, m>>[1] < <<y, m>>[2] => <<y, m>> \in OpToRel(<, Nat)
      BY <3>1, Zenon DEF OpToRel
    <3>3. ~(y < m)
      BY <2>3, <3>2
    <3> QED BY <3>1, <3>3
  <2>5. Min(PendingOf(d)) \in PendingOf(d)
    BY <2>4 DEF Min
  <2> QED
    BY <1>2, <2>1, <2>5 DEF IndexToRemove
<1> QED
  BY <1>1, <1>2

\* The index ensure_sink_dataset computes for a parked dataset is its own.
LEMMA IndexIsOwn ==
    ASSUME TypeOK, IsInjective(pending), NEW d \in ToSet(pending)
    PROVE  /\ IndexToRemove(d) \in 1..Len(pending)
           /\ pending[IndexToRemove(d)] = d
<1>1. PICK i \in DOMAIN pending : pending[i] = d
  BY DEF ToSet
<1>2. DOMAIN pending = 1..Len(pending)
  BY DEF TypeOK
<1>3. PendingOf(d) = {i}
  BY <1>1 DEF PendingOf, IsInjective
<1>4. Min(PendingOf(d)) = i
  BY <1>1, <1>2, <1>3 DEF Min
<1> QED
  BY <1>1, <1>2, <1>3, <1>4 DEF IndexToRemove

\* Every step of a request or of the pods watcher keeps the types.
LEMMA TypeStep == TypeOK /\ [SinkNext]_sinkVars => TypeOK'
<1> SUFFICES ASSUME TypeOK, [SinkNext]_sinkVars PROVE TypeOK'
  OBVIOUS
<1> USE DEF TypeOK, Stages, Watcher, tableVars, requestVars, appVars
<1>1. \A w \in Requests : Append(waiting, w) \in Seq(Requests \cup {Watcher})
  BY ParkAdds
<1>2. Append(waiting, Watcher) \in Seq(Requests \cup {Watcher})
  BY ParkAdds
<1>3. waiting # <<>> => Tail(waiting) \in Seq(Requests \cup {Watcher})
  OBVIOUS
<1>4. ASSUME NEW w \in Requests, WriteData(w) \/ RequestStep(w)
      PROVE  TypeOK'
  <2>1. CASE WriteData(w)
    BY <2>1, <1>1 DEF WriteData
  <2>2. CASE CheckPending(w)
    BY <2>2, <1>3 DEF CheckPending, IsNext, Served
  <2>3. CASE Register(w)
    BY <2>3, <1>1 DEF Register
  <2>4. CASE RegisterFails(w)
    BY <2>4 DEF RegisterFails
  <2>5. CASE RemovePending(w)
    <3> DEFINE i == IndexToRemove(target[w])
    <3>1. i \in 1..Len(pending) \/ i = 1
      BY IndexInRange
    <3>2. pending' = pending \/ (i <= Len(pending) /\ pending' = RemoveAt(pending, i))
      BY <2>5, <3>1 DEF RemovePending, Unparked
    <3> HIDE DEF i
    <3>3. pending' \in Seq(Datasets)
      BY <3>1, <3>2, RemoveShifts
    <3>4. pc' \in [Requests -> Stages] /\ waiting' = Tail(waiting) /\ waiting # <<>>
      BY <2>5 DEF RemovePending, IsNext, Served
    <3> QED
      BY <2>5, <1>3, <3>3, <3>4 DEF RemovePending
  <2>6. CASE GetTableProvider(w)
    BY <2>6 DEF GetTableProvider
  <2>7. CASE InsertInto(w)
    BY <2>7 DEF InsertInto
  <2>8. CASE InsertFails(w)
    BY <2>8 DEF InsertFails
  <2> QED
    BY <1>4, <2>1, <2>2, <2>3, <2>4, <2>5, <2>6, <2>7, <2>8 DEF RequestStep
<1>5. ASSUME NEW d \in Datasets, AppStep(d) PROVE TypeOK'
  <2> USE SinkAssumption DEF SinkAssumption
  <2>1. CASE AddDataset(d)
    BY <2>1, <1>2 DEF AddDataset, Reconfigures, AskToPark
  <2>2. CASE RemoveDataset(d)
    BY <2>2 DEF RemoveDataset, Reconfigures, Drop
  <2>3. CASE UpdateDataset(d)
    BY <2>3, <1>2 DEF UpdateDataset, Reconfigures, Drop, AskToPark
  <2>4. CASE Park(d)
    <3>1. Append(pending, d) \in Seq(Datasets)
      BY ParkAdds
    <3> QED
      BY <2>4, <1>3, <3>1 DEF Park, IsNext, Served
  <2> QED
    BY <1>5, <2>1, <2>2, <2>3, <2>4 DEF AppStep
<1>6. CASE UNCHANGED sinkVars
  BY <1>6 DEF sinkVars
<1> QED
  BY <1>4, <1>5, <1>6 DEF SinkNext

(***************************************************************************)
(* Every variable keeps its type (TypeOK), in whatever order requests and  *)
(* the pods watcher interleave.                                            *)
(***************************************************************************)
THEOREM SinkTypeCorrect == SinkSpec => []TypeOK
<1>1. SinkInit => TypeOK
  BY SinkAssumption DEF SinkAssumption, SinkInit, TypeOK, Stages
<1>2. TypeOK /\ [SinkNext]_sinkVars => TypeOK'
  BY TypeStep
<1> QED
  BY <1>1, <1>2, PTL DEF SinkSpec

(***************************************************************************)
(* Steps of a request.                                                     *)
(***************************************************************************)

\* A request starts, finds nothing parked, fails or finds its table: what is
\* parked and what is registered stay as they are.
LEMMA RequestMoves ==
    ASSUME Orderly, SinkInv, TypeOK', NEW w \in Requests,
           \/ WriteData(w) \/ CheckPending(w) \/ RegisterFails(w)
           \/ GetTableProvider(w) \/ InsertFails(w)
    PROVE  SinkInv'
<1> USE DEF SinkInv, tableVars, requestVars, appVars
<1>1. UNCHANGED <<pending, writable, table, rows, target, void, app>>
  BY DEF WriteData, CheckPending, RegisterFails, GetTableProvider, InsertFails
<1>2. /\ \A v \in Requests : v # w => pc'[v] = pc[v] /\ found'[v] = found[v]
      /\ pc[w] \notin {"remove", "ok"} /\ pc'[w] \notin {"remove", "ok"}
  BY DEF WriteData, CheckPending, RegisterFails, GetTableProvider, InsertFails,
         TypeOK
<1>3. OneInFlight'
  <2>1. CASE pc[w] = "idle"
    BY <1>1, <1>2, <2>1
    DEF OneInFlight, Unanswered, Orderly, WriteData, CheckPending, RegisterFails,
        GetTableProvider, InsertFails
  <2>2. CASE pc[w] # "idle"
    <3>1. Unanswered(w)
      BY <2>2
      DEF Unanswered, WriteData, CheckPending, RegisterFails, GetTableProvider,
          InsertFails
    <3> QED BY <1>1, <1>2, <3>1 DEF OneInFlight, Unanswered
  <2> QED BY <2>1, <2>2
<1>4. ParkedOnce' /\ WritableHasTable'
  BY <1>1 DEF ParkedOnce, WritableHasTable
<1>5. GuardsHold'
  <2>1. pc'[w] = "register" => target[w] \in ToSet(pending)
    BY DEF WriteData, CheckPending, RegisterFails, GetTableProvider,
           InsertFails, TypeOK
  <2> QED BY <1>1, <1>2, <2>1 DEF GuardsHold
<1>6. ParkedIsEmpty'
  BY <1>1, <1>2 DEF ParkedIsEmpty
<1>7. RowsInPlace'
  <2>1. pc'[w] = "insert" =>
            found'[w] = table[target[w]] /\ table[target[w]] # NoTable
    BY DEF WriteData, CheckPending, RegisterFails, GetTableProvider,
           InsertFails, TypeOK
  <2> QED BY <1>1, <1>2, <2>1 DEF RowsInPlace
<1> QED
  BY <1>3, <1>4, <1>5, <1>6, <1>7

\* register_accelerated_table puts an empty table in place: the dataset is
\* parked, so that it had no table and no request has written to it.
LEMMA RegisterKeeps ==
    ASSUME Orderly, SinkInv, TypeOK', NEW w \in Requests, Register(w)
    PROVE  SinkInv'
<1> USE DEF SinkInv, tableVars, requestVars, appVars
<1> DEFINE d == target[w]
<1>1. /\ UNCHANGED <<pending, writable, target, found, void, app>>
      /\ pc[w] = "register" /\ pc' = [pc EXCEPT ![w] = "remove"]
      /\ table' = [table EXCEPT ![d] = w] /\ rows' = [rows EXCEPT ![d] = {}]
      /\ d \in Datasets /\ w # NoTable
  BY SinkAssumption DEF Register, TypeOK, SinkAssumption
<1>2. d \in ToSet(pending) /\ Unanswered(w)
  BY <1>1 DEF GuardsHold, Unanswered
<1>3. table[d] = NoTable
  <2> SUFFICES ASSUME table[d] # NoTable PROVE FALSE
    OBVIOUS
  <2>1. PICK v \in Requests : target[v] = d /\ pc[v] = "remove"
    BY <1>2 DEF ParkedIsEmpty
  <2> QED BY <1>1, <1>2, <2>1 DEF OneInFlight, Unanswered
<1>4. OneInFlight'
  BY <1>1, <1>2 DEF OneInFlight, Unanswered, TypeOK
<1>5. ParkedOnce'
  BY <1>1, <1>2 DEF ParkedOnce, TypeOK
<1>6. GuardsHold'
  BY <1>1, <1>2 DEF GuardsHold, TypeOK
<1>7. ParkedIsEmpty'
  BY <1>1, <1>2 DEF ParkedIsEmpty, TypeOK
<1>8. RowsInPlace'
  <2> SUFFICES ASSUME NEW v \in Requests, v \notin void,
                      pc'[v] \in {"insert", "ok"}
               PROVE  /\ pc'[v] = "insert" => table'[target[v]] = found[v]
                      /\ table'[target[v]] # NoTable
                      /\ pc'[v] = "ok" => v \in rows'[target[v]]
    BY <1>1 DEF RowsInPlace
  <2>1. v # w /\ pc'[v] = pc[v]
    BY <1>1 DEF TypeOK
  <2>2. target[v] # d
    BY <1>3, <2>1 DEF RowsInPlace
  <2> QED BY <1>1, <2>1, <2>2 DEF RowsInPlace, TypeOK
<1>9. WritableHasTable'
  BY <1>1 DEF WritableHasTable, TypeOK
<1> QED
  BY <1>4, <1>5, <1>6, <1>7, <1>8, <1>9

\* Under the write guard a request removes the registration of its own
\* dataset, which has its table by now.
LEMMA RemoveKeeps ==
    ASSUME Orderly, SinkInv, TypeOK', NEW w \in Requests, RemovePending(w)
    PROVE  SinkInv'
<1> USE DEF SinkInv, tableVars, requestVars, appVars
<1> DEFINE d == target[w]
<1>1. pc[w] = "remove" /\ d \in ToSet(pending) /\ table[d] # NoTable
  BY DEF RemovePending, GuardsHold
<1>2. /\ IndexToRemove(d) \in 1..Len(pending)
      /\ pending[IndexToRemove(d)] = d
  BY <1>1, IndexIsOwn DEF ParkedOnce
<1>3. /\ pending' = RemoveAt(pending, IndexToRemove(d))
      /\ pc' = [pc EXCEPT ![w] = "lookup"]
      /\ UNCHANGED <<writable, table, rows, target, found, void, app>>
  <2>1. ~(IndexToRemove(d) > Len(pending))
    BY <1>2 DEF TypeOK
  <2> QED BY <2>1 DEF RemovePending, Unparked
<1>4. ToSet(pending') = ToSet(pending) \ {d} /\ IsInjective(pending')
  BY <1>2, <1>3, RemoveTakesOut DEF ParkedOnce, TypeOK
<1>5. Unanswered(w) /\ \A v \in Requests : v # w => pc'[v] = pc[v]
  BY <1>1, <1>3 DEF Unanswered, TypeOK
<1>6. \A v \in Requests : v # w /\ Unanswered(v) => target[v] # d
  BY <1>5 DEF OneInFlight
<1>7. OneInFlight'
  BY <1>3, <1>5, <1>6 DEF OneInFlight, Unanswered
<1>8. ParkedOnce'
  BY <1>3, <1>4 DEF ParkedOnce
<1>9. GuardsHold'
  <2>1. pc'[w] = "lookup"
    BY <1>3 DEF TypeOK
  <2>2. ASSUME NEW v \in Requests, pc'[v] \in {"register", "remove"}
        PROVE  v # w /\ target[v] # d
    BY <1>5, <1>6, <2>1, <2>2 DEF Unanswered
  <2> QED BY <1>3, <1>4, <1>5, <2>2 DEF GuardsHold
<1>10. ParkedIsEmpty'
  <2> SUFFICES ASSUME NEW e \in ToSet(pending), e # d, table[e] # NoTable
               PROVE  \E v \in Requests : target[v] = e /\ pc'[v] = "remove"
    BY <1>3, <1>4 DEF ParkedIsEmpty
  <2>1. PICK v \in Requests : target[v] = e /\ pc[v] = "remove"
    BY DEF ParkedIsEmpty
  <2> QED BY <1>5, <2>1
<1>11. RowsInPlace'
  BY <1>3 DEF RowsInPlace, TypeOK
<1>12. WritableHasTable'
  BY <1>1, <1>3, <1>4 DEF WritableHasTable
<1> QED
  BY <1>7, <1>8, <1>9, <1>10, <1>11, <1>12

\* The rows of a request go into the table that was found.
LEMMA InsertKeeps ==
    ASSUME Orderly, SinkInv, TypeOK', NEW w \in Requests, InsertInto(w)
    PROVE  SinkInv'
<1> USE DEF SinkInv, tableVars, requestVars, appVars
<1>1. /\ UNCHANGED <<pending, writable, table, target, found, void, app>>
      /\ pc[w] = "insert" /\ pc' = [pc EXCEPT ![w] = "ok"]
      /\ \A e \in Datasets : rows[e] \subseteq rows'[e]
      /\ table[target[w]] = found[w] => w \in rows'[target[w]]
  BY DEF InsertInto, TypeOK
<1>2. OneInFlight'
  BY <1>1 DEF OneInFlight, Unanswered, TypeOK
<1>3. ParkedOnce' /\ WritableHasTable'
  BY <1>1 DEF ParkedOnce, WritableHasTable
<1>4. GuardsHold' /\ ParkedIsEmpty'
  BY <1>1 DEF GuardsHold, ParkedIsEmpty, TypeOK
<1>5. RowsInPlace'
  BY <1>1 DEF RowsInPlace, TypeOK
<1> QED
  BY <1>2, <1>3, <1>4, <1>5

(***************************************************************************)
(* Steps of the pods watcher.                                              *)
(***************************************************************************)

\* A dataset that is removed, or updated, is not parked: it has a table, which
\* is dropped, and its requests are overtaken.
LEMMA DropKeeps ==
    ASSUME Orderly, SinkInv, TypeOK', NEW d \in Datasets, Drop(d),
           UNCHANGED <<pending, requestVars>>,
           app' = app \/ app' = {d}
    PROVE  SinkInv'
<1> USE DEF SinkInv, tableVars, requestVars, appVars
<1>1. d \notin ToSet(pending) /\ table[d] # NoTable
  BY DEF Drop, Orderly, WritableHasTable
<1>2. /\ table' = [table EXCEPT ![d] = NoTable]
      /\ rows' = [rows EXCEPT ![d] = {}]
      /\ writable' = writable \ {d}
      /\ void' = void \cup {w \in Requests : pc[w] # "idle" /\ target[w] = d}
      /\ UNCHANGED <<pending, pc, target, found>>
  BY <1>1 DEF Drop
<1>3. OneInFlight'
  BY <1>2 DEF OneInFlight, Unanswered
<1>4. ParkedOnce'
  BY <1>1, <1>2 DEF ParkedOnce, TypeOK
<1>5. GuardsHold'
  BY <1>1, <1>2 DEF GuardsHold, TypeOK
<1>6. ParkedIsEmpty'
  BY <1>1, <1>2 DEF ParkedIsEmpty, TypeOK
<1>7. RowsInPlace'
  BY <1>2 DEF RowsInPlace, TypeOK
<1>8. WritableHasTable'
  BY <1>2 DEF WritableHasTable, TypeOK
<1> QED
  BY <1>3, <1>4, <1>5, <1>6, <1>7, <1>8

\* The dataset is parked: it had neither a table nor a registration.
LEMMA ParkKeeps ==
    ASSUME Orderly, SinkInv, TypeOK', NEW d \in Datasets, Park(d)
    PROVE  SinkInv'
<1> USE DEF SinkInv, tableVars, requestVars, appVars
<1>1. /\ UNCHANGED <<table, rows, pc, target, found, void>>
      /\ d \in app /\ app' = {} /\ writable' = writable \cup {d}
      /\ pending' = Append(pending, d)
  BY DEF Park
<1>2. d \notin writable /\ d \notin ToSet(pending) /\ table[d] = NoTable
  BY <1>1 DEF ParkedOnce
<1>3. ToSet(pending') = ToSet(pending) \cup {d} /\ IsInjective(pending')
  BY <1>1, <1>2, ParkAdds DEF ParkedOnce, TypeOK
<1>4. OneInFlight'
  BY <1>1 DEF OneInFlight, Unanswered
<1>5. ParkedOnce'
  BY <1>1, <1>3 DEF ParkedOnce
<1>6. GuardsHold' /\ ParkedIsEmpty' /\ WritableHasTable'
  BY <1>1, <1>2, <1>3 DEF GuardsHold, ParkedIsEmpty, WritableHasTable
<1>7. RowsInPlace'
  BY <1>1 DEF RowsInPlace
<1> QED
  BY <1>4, <1>5, <1>6, <1>7

(***************************************************************************)
(* For clients that send one request at a time to a dataset, and datasets  *)
(* that are left alone until their first write, the invariant of           *)
(* pending_sink_tables, data_writers and the registered tables holds.      *)
(***************************************************************************)
THEOREM SinkInvariance == ASSUME Orderly PROVE SinkSpec => []SinkInv
<1>1. SinkInit => SinkInv
  <2> SUFFICES ASSUME SinkInit PROVE SinkInv
    OBVIOUS
  <2>1. TypeOK
    BY SinkAssumption DEF SinkAssumption, SinkInit, TypeOK, Stages
  <2>2. ToSet(pending) = {} /\ IsInjective(pending)
    BY DEF SinkInit, ToSet, IsInjective
  <2> QED
    BY <2>1, <2>2
    DEF SinkInit, SinkInv, OneInFlight, Unanswered, ParkedOnce, GuardsHold,
        ParkedIsEmpty, RowsInPlace, WritableHasTable
<1>2. SinkInv /\ TypeOK' /\ [SinkNext]_sinkVars => SinkInv'
  <2> SUFFICES ASSUME SinkInv, TypeOK', [SinkNext]_sinkVars PROVE SinkInv'
    OBVIOUS
  <2>1. ASSUME NEW w \in Requests, WriteData(w) \/ RequestStep(w)
        PROVE  SinkInv'
    BY <2>1, RequestMoves, RegisterKeeps, RemoveKeeps, InsertKeeps
    DEF RequestStep
  <2>2. ASSUME NEW d \in Datasets, AppStep(d) PROVE SinkInv'
    <3>1. CASE AddDataset(d)
      <4>1. /\ UNCHANGED <<pending, writable, table, rows, pc, target, found, void>>
            /\ app' = {d} /\ d \notin writable
        BY <3>1 DEF AddDataset, AskToPark, tableVars, requestVars
      <4> QED
        BY <4>1
        DEF SinkInv, OneInFlight, Unanswered, ParkedOnce, GuardsHold,
            ParkedIsEmpty, RowsInPlace, WritableHasTable
    <3>2. CASE RemoveDataset(d) \/ UpdateDataset(d)
      BY <3>2, DropKeeps DEF RemoveDataset, UpdateDataset, AskToPark
    <3>3. CASE Park(d)
      BY <3>3, ParkKeeps
    <3> QED
      BY <2>2, <3>1, <3>2, <3>3 DEF AppStep
  <2>3. CASE UNCHANGED sinkVars
    BY <2>3
    DEF sinkVars, tableVars, requestVars, appVars, SinkInv, OneInFlight, Unanswered,
        ParkedOnce, GuardsHold, ParkedIsEmpty, RowsInPlace, WritableHasTable
  <2> QED
    BY <2>1, <2>2, <2>3 DEF SinkNext
<1> QED
  BY <1>1, <1>2, SinkTypeCorrect, PTL DEF SinkSpec

(***************************************************************************)
(* A dataset that is_writable lets through has its table or its parked     *)
(* registration (WritableHasTable): no write takes out another's.          *)
(***************************************************************************)
THEOREM WritableIsReachable == ASSUME Orderly PROVE SinkSpec => []WritableHasTable
<1>1. SinkInv => WritableHasTable
  BY DEF SinkInv
<1> QED
  BY <1>1, SinkInvariance, PTL

(***************************************************************************)
(* Rows that write_data acknowledged stay in the registered table until    *)
(* the dataset is updated or removed (AcknowledgedRowsKept).               *)
(***************************************************************************)
THEOREM AcknowledgedStays == ASSUME Orderly PROVE SinkSpec => []AcknowledgedRowsKept
<1>1. SinkInv => AcknowledgedRowsKept
  BY DEF SinkInv, RowsInPlace, AcknowledgedRowsKept
<1> QED
  BY <1>1, SinkInvariance, PTL

(***************************************************************************)
(* What was put                                                            *)
(***************************************************************************)

\* A sequence of whatever its elements are.
IsSeq(s) == s \in Seq(Range(s))

ScriptFields == {"first", "table", "schema", "rest"}
TableFields ==
    {"kind", "zero", "writable", "parked", "schema", "constraints", "upsert", "other", "exists",
     "accelerator", "source"}
ExportFields == {"pc", "request", "todo", "count", "total", "rejected", "lost"}
JobFields == {"stage", "table", "batch", "schema", "shared", "branch"}

\* A client that makes the call p.
Asked(p) == put[p].script # <<>>
To(p) == put[p].script.table
Rest(p) == put[p].script.rest

\* The times a batch is in a table.
Times(t, batch) == Copies(t, "accelerator", batch) + Copies(t, "source", batch)

PutTypes ==
    /\ DOMAIN put = Puts
    /\ \A p \in Puts :
          /\ DOMAIN put[p] = {"pc", "script", "results"} /\ IsSeq(put[p].results)
          /\ \A i \in 1..Len(put[p].results) : DOMAIN put[p].results[i] = {"rows", "is"}
          /\ IF Asked(p) THEN DOMAIN put[p].script = ScriptFields /\ IsSeq(Rest(p))
             ELSE put[p].pc = "done" /\ put[p].results = <<>>
          /\ put[p].pc \in {"stream", "write"} \/ put[p].results # <<>> => To(p) \in DOMAIN Tables
JobTypes == DOMAIN job = Writers /\ \A w \in Writers : DOMAIN job[w] = JobFields
TableTypes ==
    /\ DOMAIN tables = DOMAIN Tables
    /\ \A t \in DOMAIN Tables :
          /\ DOMAIN tables[t] = TableFields
          /\ tables[t].kind = Tables[t].kind
          /\ IsSeq(tables[t].accelerator) /\ IsSeq(tables[t].source)
ExportTypes ==
    /\ DOMAIN export = Exports
    /\ \A o \in Exports : /\ DOMAIN export[o] = ExportFields
                          /\ export[o].pc = "write" => export[o].todo # <<>>
    /\ DOMAIN exporter = {"pc", "todo", "current", "exported"}
Types == PutTypes /\ JobTypes /\ TableTypes /\ ExportTypes

\* A put waits for the job that writes the next of its batches.
Waits ==
    \A p \in Puts :
        IF put[p].pc = "write"
        THEN /\ Asked(p) /\ Rest(p) # <<>> /\ Rest(p)[1].is = "batch"
             /\ job[p].batch = Rest(p)[1].rows /\ job[p].table = To(p)
             /\ job[p].stage \in {"plan", "run", "ok", "failed"}
        ELSE job[p].stage = "none"

\* Who is not a put writes elsewhere.
Apart ==
    \A p \in Puts : Asked(p) =>
        /\ \A o \in Exports : IsSeq(export[o].todo)
              /\ \A i \in 1..Len(export[o].todo) : export[o].todo[i].name # To(p)
        /\ exporter.todo # <<>> => MetricsTable # To(p)
        /\ \A w \in Writers \ Puts : job[w].stage # "none" => job[w].table # To(p)

\* A batch that is to be put is none of the others, and none of those that have been.
Named(p, i) == Asked(p) /\ i \in 1..Len(Rest(p)) /\ Rest(p)[i].is = "batch" /\ Rest(p)[i].rows # <<>>
Distinct ==
    \A p \in Puts : \A i \in Nat : Named(p, i) =>
        \A q \in Puts : Asked(q) /\ To(q) = To(p) =>
            /\ \A j \in 1..Len(Rest(q)) : Rest(q)[j].rows = Rest(p)[i].rows => q = p /\ j = i
            /\ \A j \in 1..Len(put[q].results) : put[q].results[j].rows # Rest(p)[i].rows

\* A batch whose turn has not come is nowhere.
Fresh ==
    \A p \in Puts : \A i \in Nat :
        Named(p, i) /\ To(p) \in DOMAIN Tables /\ ~(put[p].pc = "write" /\ i = 1)
            => Times(To(p), Rest(p)[i].rows) = 0

\* A job whose rows nobody has read, one of whose branches has them, or stored them.
Unread(w) ==
    /\ job[w].shared = <<job[w].batch>>
    /\ \A b \in DOMAIN job[w].branch :
          IF Ignores(job[w].table, b) THEN job[w].branch[b] \in {"start", "done"}
          ELSE job[w].branch[b] = "start"
Reads(w) == {b \in DOMAIN job[w].branch : job[w].branch[b] = "rows"}
Runs(w) ==
    /\ DOMAIN job[w].branch = InsertBranches(job[w].table)
    /\ Unread(w) \/ (job[w].shared = <<>> /\ \A b, c \in Reads(w) : b = c)

\* How often the batch of a put is stored while it is being written.
Moved(p) ==
    LET n == Times(job[p].table, job[p].batch) IN
    /\ job[p].stage = "plan" => n = 0
    /\ job[p].stage = "run" => n = IF Unread(p) \/ Reads(p) # {} THEN 0 ELSE 1
    /\ job[p].stage = "ok" => n = 1
    /\ job[p].stage = "failed" => n \in {0, 1}

PutsInv ==
    /\ Types /\ Waits /\ Apart /\ Distinct /\ Fresh /\ AcknowledgedOnce
    /\ \A p \in Puts : job[p].stage = "run" => Runs(p)
    /\ \A p \in Puts : put[p].pc = "write" /\ job[p].batch # <<>> => Moved(p)

(***************************************************************************)
(* Sequences                                                               *)
(***************************************************************************)

\* A sequence has a length, and its elements at the numbers up to it.
LEMMA SeqFacts ==
    ASSUME NEW s, IsSeq(s)
    PROVE  Len(s) \in Nat /\ DOMAIN s = 1..Len(s) /\ s \in [1..Len(s) -> Range(s)]
BY LenProperties DEF IsSeq

\* A sequence over any set is a sequence.
LEMMA SeqIsSeq ==
    ASSUME NEW S, NEW s \in Seq(S)
    PROVE  IsSeq(s)
<1>1. Len(s) \in Nat /\ s \in [1..Len(s) -> S]
    BY LenProperties
<1>2. s \in [1..Len(s) -> Range(s)]
    BY <1>1 DEF Range
<1> QED
    BY <1>1, <1>2, ElementOfSeq DEF IsSeq

\* The sequence without elements.
LEMMA EmptyIsSeq == IsSeq(<<>>) /\ Len(<<>>) = 0
<1>1. <<>> \in Seq({})
    BY EmptySeq
<1> QED
    BY <1>1, SeqIsSeq, EmptySeq

\* One element more at the end.
LEMMA AppendIsSeq ==
    ASSUME NEW s, IsSeq(s), NEW x
    PROVE  /\ IsSeq(Append(s, x)) /\ Len(Append(s, x)) = Len(s) + 1
           /\ \A i \in 1..Len(s) : Append(s, x)[i] = s[i]
           /\ Append(s, x)[Len(s) + 1] = x
<1> DEFINE S == Range(s) \cup {x}
<1>1. s \in Seq(S)
    BY SeqMonotonic DEF IsSeq
<1>2. /\ Append(s, x) \in Seq(S) /\ Len(Append(s, x)) = Len(s) + 1
      /\ \A i \in 1..Len(s) : Append(s, x)[i] = s[i]
      /\ Append(s, x)[Len(s) + 1] = x
    BY <1>1, AppendProperties
<1> QED
    BY <1>2, SeqIsSeq

\* One element less at the front.
LEMMA TailIsSeq ==
    ASSUME NEW s, IsSeq(s), s # <<>>
    PROVE  /\ IsSeq(Tail(s)) /\ Len(s) > 0 /\ Len(Tail(s)) = Len(s) - 1 /\ Head(s) = s[1]
           /\ \A i \in 1..(Len(s) - 1) : Tail(s)[i] = s[i + 1]
<1> DEFINE S == Range(s)
<1>1. s \in Seq(S)
    BY DEF IsSeq
<1>2. /\ Tail(s) \in Seq(S) /\ Len(Tail(s)) = Len(s) - 1 /\ Head(s) = s[1]
      /\ \A i \in 1..Len(Tail(s)) : Tail(s)[i] = s[i + 1]
    BY <1>1, HeadTailProperties
<1>3. Len(s) \in Nat /\ Len(s) # 0
    BY <1>1, EmptySeq, LenProperties
<1> HIDE DEF S
<1>4. IsSeq(Tail(s))
    BY <1>2, SeqIsSeq
<1>5. Len(s) > 0
    BY <1>3
<1> QED
    BY <1>2, <1>3, <1>4, <1>5

(***************************************************************************)
(* How often a batch is in a table                                         *)
(***************************************************************************)

\* The places of an element of a sequence are finitely many.
LEMMA PlacesAreFinite ==
    ASSUME NEW s, IsSeq(s), NEW x
    PROVE  LET at == {i \in DOMAIN s : s[i] = x}
           IN  IsFiniteSet(at) /\ Cardinality(at) \in Nat
<1> DEFINE at == {i \in DOMAIN s : s[i] = x}
<1>1. Len(s) \in Nat /\ at \in SUBSET (1..Len(s))
    BY SeqFacts
<1>2. IsFiniteSet(1..Len(s))
    BY <1>1, FS_Interval
<1> HIDE DEF at
<1>3. IsFiniteSet(at)
    BY <1>1, <1>2, FS_Subset
<1>4. Cardinality(at) \in Nat
    BY <1>3, FS_CardinalityType
<1> QED
    BY <1>3, <1>4 DEF at

\* The number of its places.
Places(s, x) == Cardinality({i \in DOMAIN s : s[i] = x})

\* An element that is appended has one place more, the others the places they had.
LEMMA PlacesAfterAppend ==
    ASSUME NEW s, IsSeq(s), NEW x, NEW y
    PROVE  Places(Append(s, x), y) = Places(s, y) + (IF x = y THEN 1 ELSE 0)
<1> DEFINE at == {i \in DOMAIN s : s[i] = y}
           to == {i \in DOMAIN Append(s, x) : Append(s, x)[i] = y}
           n == Len(s)
<1>1. n \in Nat /\ DOMAIN s = 1..n
    BY SeqFacts
<1>2. /\ IsSeq(Append(s, x)) /\ Len(Append(s, x)) = n + 1
      /\ \A i \in 1..n : Append(s, x)[i] = s[i]
      /\ Append(s, x)[n + 1] = x
    BY AppendIsSeq
<1>3. DOMAIN Append(s, x) = 1..(n + 1)
    BY <1>2, SeqFacts
<1>4. IsFiniteSet(at) /\ Cardinality(at) \in Nat
    BY PlacesAreFinite
<1> HIDE DEF n
<1>5. CASE x = y
    <2>1. to = at \cup {n + 1}
        BY <1>1, <1>2, <1>3, <1>5
    <2>2. n + 1 \notin at
        BY <1>1
    <2> HIDE DEF at, to
    <2>3. Cardinality(to) = Cardinality(at) + 1
        BY <1>4, <2>1, <2>2, FS_AddElement
    <2> QED
        BY <1>5, <2>3 DEF Places, at, to
<1>6. CASE x # y
    <2>1. to = at
        BY <1>1, <1>2, <1>3, <1>6
    <2> HIDE DEF at, to
    <2>2. Cardinality(to) = Cardinality(at) + 0
        BY <1>4, <2>1
    <2> QED
        BY <1>6, <2>2 DEF Places, at, to
<1> QED
    BY <1>5, <1>6

\* The tables hold what they held.
SameStores ==
    \A t \in DOMAIN Tables :
        /\ tables'[t].kind = tables[t].kind
        /\ tables'[t].accelerator = tables[t].accelerator /\ tables'[t].source = tables[t].source

\* A batch is in a table a number of times.
LEMMA TimesType ==
    ASSUME TableTypes, NEW t \in DOMAIN Tables, NEW X
    PROVE  /\ Copies(t, "accelerator", X) \in Nat /\ Copies(t, "source", X) \in Nat
           /\ Times(t, X) \in Nat
<1>1. IsSeq(tables[t].accelerator) /\ IsSeq(tables[t].source)
    BY DEF TableTypes
<1>2. Copies(t, "accelerator", X) \in Nat /\ Copies(t, "source", X) \in Nat
    BY <1>1, PlacesAreFinite DEF Copies
<1> QED
    BY <1>2 DEF Times

\* Nothing stored, nothing more.
LEMMA TimesKept ==
    ASSUME SameStores, NEW t \in DOMAIN Tables, NEW X
    PROVE  Times(t, X)' = Times(t, X)
BY DEF SameStores, Times, Copies

\* A table that is left alone holds what it held.
LEMMA TimesElsewhere ==
    ASSUME NEW t, tables'[t] = tables[t], NEW X
    PROVE  Times(t, X)' = Times(t, X)
BY DEF Times, Copies

\* A branch that stores a batch adds it, once.
LEMMA TimesStored ==
    ASSUME TableTypes, NEW t \in DOMAIN Tables, NEW b \in {"accelerator", "source"}, NEW B, NEW X,
           tables' = [tables EXCEPT ![t][b] = Append(tables[t][b], B)]
    PROVE  Times(t, X)' = Times(t, X) + (IF B = X THEN 1 ELSE 0)
<1>1. /\ t \in DOMAIN tables /\ "accelerator" \in DOMAIN tables[t] /\ "source" \in DOMAIN tables[t]
      /\ IsSeq(tables[t].accelerator) /\ IsSeq(tables[t].source)
    BY DEF TableTypes, TableFields
<1>2. Copies(t, "accelerator", X) \in Nat /\ Copies(t, "source", X) \in Nat
    BY TimesType
<1>3. tables'[t][b] = Append(tables[t][b], B)
    BY <1>1
<1>4. IsSeq(tables[t][b])
    BY <1>1
<1>5. Copies(t, b, X)' = Copies(t, b, X) + (IF B = X THEN 1 ELSE 0)
    <2>1. /\ Copies(t, b, X)' = Places(tables'[t][b], X)
          /\ Copies(t, b, X) = Places(tables[t][b], X)
        BY Zenon DEF Copies, Places
    <2>2. Places(Append(tables[t][b], B), X) = Places(tables[t][b], X) + (IF B = X THEN 1 ELSE 0)
        BY <1>4, PlacesAfterAppend
    <2> QED
        BY <1>3, <2>1, <2>2
<1>6. ASSUME NEW c \in {"accelerator", "source"}, c # b
      PROVE  Copies(t, c, X)' = Copies(t, c, X)
    <2>1. tables'[t][c] = tables[t][c]
        BY <1>1, <1>6
    <2> QED
        BY <2>1 DEF Copies
<1>7. CASE b = "accelerator"
    <2>1. Copies(t, "source", X)' = Copies(t, "source", X)
        BY <1>6, <1>7
    <2>2. Copies(t, "accelerator", X)' = Copies(t, "accelerator", X) + (IF B = X THEN 1 ELSE 0)
        BY <1>5, <1>7
    <2> QED
        BY <1>2, <2>1, <2>2 DEF Times
<1>8. CASE b = "source"
    <2>1. Copies(t, "accelerator", X)' = Copies(t, "accelerator", X)
        BY <1>6, <1>8
    <2>2. Copies(t, "source", X)' = Copies(t, "source", X) + (IF B = X THEN 1 ELSE 0)
        BY <1>5, <1>8
    <2> QED
        BY <1>2, <2>1, <2>2 DEF Times
<1> QED
    BY <1>7, <1>8

(***************************************************************************)
(* Steps that store nothing                                                *)
(***************************************************************************)

\* AcknowledgedOnce in terms of Times.
LEMMA OnceIsTimes ==
    AcknowledgedOnce <=>
        \A p \in Puts : \A i \in DOMAIN put[p].results :
            put[p].results[i].rows # <<>> =>
                /\ Times(To(p), put[p].results[i].rows) <= 1
                /\ put[p].results[i].is = "ok" => Times(To(p), put[p].results[i].rows) = 1
BY DEF AcknowledgedOnce, Times, To

\* The table of a put that has a result, or waits for one, is a table.
LEMMA PutHasTable ==
    ASSUME Types, NEW p \in Puts, put[p].pc = "write" \/ DOMAIN put[p].results # {}
    PROVE  To(p) \in DOMAIN Tables
<1>1. IsSeq(put[p].results)
    BY DEF Types, PutTypes
<1>2. put[p].pc = "write" \/ put[p].results # <<>>
    BY <1>1, EmptyIsSeq, SeqFacts
<1> QED
    BY <1>2 DEF Types, PutTypes

\* What was put, and what will be, is where it was.
LEMMA StillOnce ==
    ASSUME Types, Distinct, Fresh, AcknowledgedOnce, SameStores, put' = put
    PROVE  Distinct' /\ Fresh' /\ AcknowledgedOnce'
<1>1. Distinct'
    BY DEF Distinct, Named, Asked, To, Rest
<1>2. Fresh'
    <2> SUFFICES ASSUME NEW p \in Puts, NEW i \in Nat, Named(p, i)', To(p)' \in DOMAIN Tables,
                        ~(put'[p].pc = "write" /\ i = 1)
                 PROVE  Times(To(p), Rest(p)[i].rows)' = 0
        BY DEF Fresh
    <2>1. Named(p, i) /\ To(p) \in DOMAIN Tables /\ ~(put[p].pc = "write" /\ i = 1)
        BY DEF Named, Asked, To, Rest
    <2>2. Times(To(p), Rest(p)[i].rows) = 0
        BY <2>1 DEF Fresh
    <2>3. To(p)' = To(p) /\ Rest(p)' = Rest(p)
        BY DEF To, Rest
    <2> QED
        BY <2>1, <2>2, <2>3 DEF SameStores, Times, Copies
<1>3. AcknowledgedOnce'
    <2> SUFFICES ASSUME NEW p \in Puts, NEW i \in DOMAIN put[p].results
                 PROVE  LET X == put[p].results[i].rows
                            n == Copies(To(p), "accelerator", X) + Copies(To(p), "source", X)
                        IN  X # <<>> => n' <= 1 /\ (put[p].results[i].is = "ok" => n' = 1)
        BY DEF AcknowledgedOnce, To
    <2>1. To(p) \in DOMAIN Tables
        BY PutHasTable
    <2>2. /\ tables'[To(p)].accelerator = tables[To(p)].accelerator
          /\ tables'[To(p)].source = tables[To(p)].source /\ To(p)' = To(p)
        BY <2>1 DEF SameStores, To
    <2> QED
        BY <2>2 DEF AcknowledgedOnce, Copies, To
<1> QED
    BY <1>1, <1>2, <1>3

\* A job that is left alone is where it was.
LEMMA JobKept ==
    ASSUME SameStores, NEW p, job'[p] = job[p], job[p].table \in DOMAIN Tables
    PROVE  (Runs(p) => Runs(p)') /\ (Moved(p) => Moved(p)')
<1>1. /\ tables'[job[p].table].kind = tables[job[p].table].kind
      /\ tables'[job[p].table].accelerator = tables[job[p].table].accelerator
      /\ tables'[job[p].table].source = tables[job[p].table].source
    BY DEF SameStores
<1>2. /\ Unread(p)' = Unread(p) /\ Reads(p)' = Reads(p)
      /\ InsertBranches(job[p].table)' = InsertBranches(job[p].table)
    BY <1>1 DEF Unread, Reads, InsertBranches, Ignores
<1>3. Times(job[p].table, job[p].batch)' = Times(job[p].table, job[p].batch)
    BY <1>1 DEF Times, Copies
<1>4. Runs(p) => Runs(p)'
    BY <1>2 DEF Runs
<1>5. Moved(p) => Moved(p)'
    BY <1>2, <1>3 DEF Moved
<1> QED
    BY <1>4, <1>5

\* The job of a put writes to the table of the put.
LEMMA JobHasTable ==
    ASSUME Types, Waits, NEW p \in Puts, job[p].stage # "none" \/ put[p].pc = "write"
    PROVE  /\ put[p].pc = "write" /\ Asked(p)
           /\ job[p].table = To(p) /\ job[p].table \in DOMAIN Tables
<1>1. put[p].pc = "write" /\ Asked(p) /\ job[p].table = To(p)
    BY DEF Waits
<1> QED
    BY <1>1, PutHasTable

\* A job goes on.
LEMMA JobGoesOn ==
    ASSUME PutsInv, SameStores, TableTypes', UNCHANGED <<put, export, exporter>>,
           NEW w \in Writers, DOMAIN job' = Writers, DOMAIN job'[w] = JobFields,
           \A v \in Writers \ {w} : job'[v] = job[v],
           job[w].stage # "none", job'[w].stage \in {"plan", "run", "ok", "failed"},
           job'[w].table = job[w].table, job'[w].batch = job[w].batch,
           w \in Puts => /\ job'[w].stage = "run" => Runs(w)'
                         /\ job[w].batch # <<>> => Moved(w)'
    PROVE  PutsInv'
<1>1. Types /\ Waits /\ Apart /\ Distinct /\ Fresh /\ AcknowledgedOnce
    BY DEF PutsInv
<1>2. Types'
    BY <1>1 DEF Types, PutTypes, JobTypes, ExportTypes, Asked, To, Rest
<1>3. Waits'
    BY <1>1, IngestAssumption DEF Waits, Asked, To, Rest
<1>4. Apart'
    BY <1>1 DEF Apart, Asked, To
<1>5. Distinct' /\ Fresh' /\ AcknowledgedOnce'
    BY <1>1, StillOnce
<1>6. ASSUME NEW p \in Puts, job'[p].stage = "run"
      PROVE  Runs(p)'
    <2>1. CASE p = w
        BY <1>6, <2>1
    <2>2. CASE p # w
        <3>1. job'[p] = job[p]
            BY <2>2, IngestAssumption
        <3>2. job[p].table \in DOMAIN Tables
            BY <1>1, <1>6, <3>1, JobHasTable
        <3>3. Runs(p)
            BY <1>6, <3>1 DEF PutsInv
        <3> QED
            BY <3>1, <3>2, <3>3, JobKept
    <2> QED
        BY <2>1, <2>2
<1>7. ASSUME NEW p \in Puts, put'[p].pc = "write", job'[p].batch # <<>>
      PROVE  Moved(p)'
    <2>1. CASE p = w
        BY <1>7, <2>1
    <2>2. CASE p # w
        <3>1. job'[p] = job[p]
            BY <2>2, IngestAssumption
        <3>2. job[p].table \in DOMAIN Tables
            BY <1>1, <1>7, JobHasTable
        <3>3. Moved(p)
            BY <1>7, <3>1 DEF PutsInv
        <3> QED
            BY <3>1, <3>2, <3>3, JobKept
    <2> QED
        BY <2>1, <2>2
<1> QED
    BY <1>2, <1>3, <1>4, <1>5, <1>6, <1>7 DEF PutsInv

\* What other clients and the tables do leaves the puts alone.
LEMMA OthersKeep ==
    ASSUME PutsInv, SameStores, TableTypes', UNCHANGED <<put, job, export, exporter>>
    PROVE  PutsInv'
<1>1. Types /\ Waits /\ Apart /\ Distinct /\ Fresh /\ AcknowledgedOnce
    BY DEF PutsInv
<1>2. Types' /\ Waits' /\ Apart'
    BY <1>1 DEF Types, PutTypes, JobTypes, ExportTypes, Waits, Apart, Asked, To, Rest
<1>3. Distinct' /\ Fresh' /\ AcknowledgedOnce'
    BY <1>1, StillOnce
<1>4. ASSUME NEW p \in Puts, job'[p].stage = "run"
      PROVE  Runs(p)'
    <2>1. job[p].table \in DOMAIN Tables
        BY <1>1, <1>4, JobHasTable
    <2>2. Runs(p)
        BY <1>4 DEF PutsInv
    <2> QED
        BY <2>1, <2>2, JobKept
<1>5. ASSUME NEW p \in Puts, put'[p].pc = "write", job'[p].batch # <<>>
      PROVE  Moved(p)'
    <2>1. job[p].table \in DOMAIN Tables
        BY <1>1, <1>5, JobHasTable
    <2>2. Moved(p)
        BY <1>5 DEF PutsInv
    <2> QED
        BY <2>1, <2>2, JobKept
<1> QED
    BY <1>2, <1>3, <1>4, <1>5 DEF PutsInv

(***************************************************************************)
(* The steps of a job                                                      *)
(***************************************************************************)

\* The branches of an insert, and the one of them that reads its input.
LEMMA BranchFacts ==
    ASSUME NEW t
    PROVE  /\ InsertBranches(t) \subseteq {"accelerator", "source"}
           /\ \E b \in InsertBranches(t) : ~Ignores(t, b)
<1>1. CASE tables[t].kind = "federated"
    BY <1>1 DEF InsertBranches, Ignores
<1>2. CASE tables[t].kind # "federated"
    <2>1. /\ DOMAIN Branches = 1..2 /\ Len(Branches) = 2
          /\ Branches[1] = "accelerator" /\ Branches[2] = "source"
        BY DEF Branches
    <2>2. InsertBranches(t) = {"accelerator", "source"}
        BY <1>2, <2>1 DEF InsertBranches, SliceExec, TeeExec
    <2> QED
        BY <2>2 DEF Ignores
<1> QED
    BY <1>1, <1>2

\* The insert is planned, and its rows are all to be read.
LEMMA PlanInsertKeeps ==
    ASSUME PutsInv, NEW w \in Writers, PlanInsert(w), UNCHANGED <<export, exporter>>
    PROVE  PutsInv'
<1> DEFINE t == job[w].table
<1>1. /\ Types /\ DOMAIN job = Writers /\ DOMAIN job[w] = JobFields /\ job[w].stage = "plan"
      /\ UNCHANGED put
    BY DEF PutsInv, Types, JobTypes, PlanInsert
<1>2. SameStores /\ TableTypes'
    <2>1. TableTypes
        BY <1>1 DEF Types
    <2>2. CASE tables' = tables
        BY <2>1, <2>2 DEF TableTypes, SameStores
    <2>3. CASE /\ is_writable(t)
               /\ tables' = [tables EXCEPT ![t].parked = FALSE, ![t].schema = job[w].schema]
        BY <2>1, <2>3 DEF TableTypes, SameStores, is_writable, TableFields
    <2> QED
        BY <2>2, <2>3 DEF PlanInsert
<1>3. /\ DOMAIN job' = Writers /\ \A v \in Writers \ {w} : job'[v] = job[v]
      /\ \/ job'[w] = [job[w] EXCEPT !.stage = "failed"]
         \/ job'[w] = [job[w] EXCEPT !.stage = "run", !.shared = <<job[w].batch>>,
                                     !.branch = [b \in InsertBranches(t) |-> "start"]]
    BY <1>1, Zenon DEF PlanInsert
<1>4. /\ DOMAIN job'[w] = JobFields /\ job'[w].stage \in {"run", "failed"}
      /\ job'[w].table = t /\ job'[w].batch = job[w].batch
      /\ job'[w].stage = "run" => /\ job'[w].shared = <<job[w].batch>>
                                  /\ job'[w].branch = [b \in InsertBranches(t) |-> "start"]
    BY <1>1, <1>3 DEF JobFields
<1>5. ASSUME w \in Puts
      PROVE  (job'[w].stage = "run" => Runs(w)') /\ (job[w].batch # <<>> => Moved(w)')
    <2>1. put[w].pc = "write" /\ t \in DOMAIN Tables
        BY <1>1, <1>5, JobHasTable DEF PutsInv
    <2>2. InsertBranches(t)' = InsertBranches(t)
        BY <1>2, <1>4, <2>1 DEF InsertBranches, SameStores
    <2>3. ASSUME job'[w].stage = "run"
          PROVE  Unread(w)' /\ Runs(w)'
        BY <1>4, <2>2, <2>3 DEF Unread, Runs
    <2>4. ASSUME job[w].batch # <<>>
          PROVE  Times(t, job[w].batch) = 0
        BY <1>1, <1>5, <2>1, <2>4 DEF PutsInv, Moved
    <2>5. Times(job[w].table, job[w].batch)' = Times(t, job[w].batch)
        <3>1. /\ tables'[job'[w].table].accelerator = tables[t].accelerator
              /\ tables'[job'[w].table].source = tables[t].source
            BY <1>2, <1>4, <2>1 DEF SameStores
        <3> QED
            BY <1>4, <3>1 DEF Times, Copies
    <2>6. job[w].batch # <<>> => Moved(w)'
        BY <1>4, <2>3, <2>4, <2>5 DEF Moved
    <2> QED
        BY <2>3, <2>6
<1> HIDE DEF t
<1> QED
    BY <1>1, <1>2, <1>3, <1>4, <1>5, JobGoesOn DEF t

\* The insert is over once every branch is done: the one that does not ignore its
\* input has stored the rows, or waited for another to.
LEMMA CollectedKeeps ==
    ASSUME PutsInv, NEW w \in Writers, Collected(w), UNCHANGED <<export, exporter>>
    PROVE  PutsInv'
<1>1. /\ Types /\ DOMAIN job = Writers /\ DOMAIN job[w] = JobFields /\ job[w].stage = "run"
      /\ UNCHANGED <<tables, put>> /\ TableTypes
      /\ \A b \in DOMAIN job[w].branch : job[w].branch[b] = "done"
    BY DEF PutsInv, Types, JobTypes, Collected
<1>2. SameStores /\ TableTypes'
    BY <1>1 DEF SameStores, TableTypes
<1>3. /\ DOMAIN job' = Writers /\ \A v \in Writers \ {w} : job'[v] = job[v]
      /\ job'[w] = [job[w] EXCEPT !.stage = "ok"]
    BY <1>1 DEF Collected
<1>4. /\ DOMAIN job'[w] = JobFields /\ job'[w].stage = "ok"
      /\ job'[w].table = job[w].table /\ job'[w].batch = job[w].batch
    BY <1>1, <1>3 DEF JobFields
<1>5. ASSUME w \in Puts, job[w].batch # <<>>
      PROVE  Moved(w)'
    <2>1. put[w].pc = "write" /\ job[w].table \in DOMAIN Tables
        BY <1>1, <1>5, JobHasTable DEF PutsInv
    <2>2. Moved(w) /\ Runs(w)
        BY <1>1, <1>5, <2>1 DEF PutsInv
    <2>3. PICK b \in InsertBranches(job[w].table) : ~Ignores(job[w].table, b)
        BY BranchFacts
    <2>4. ~Unread(w) /\ Reads(w) = {}
        BY <1>1, <2>2, <2>3 DEF Runs, Unread, Reads
    <2>5. Times(job[w].table, job[w].batch) = 1
        BY <1>1, <2>2, <2>4 DEF Moved
    <2>6. Times(job[w].table, job[w].batch)' = 1
        BY <1>1, <1>4, <2>5 DEF Times, Copies
    <2> QED
        BY <1>4, <2>6 DEF Moved
<1> QED
    BY <1>1, <1>2, <1>3, <1>4, <1>5, JobGoesOn

\* A branch that fails ends the insert with what is stored.
LEMMA StoreFailsKeeps ==
    ASSUME PutsInv, NEW w \in Writers, NEW b, StoreFails(w, b), UNCHANGED <<export, exporter>>
    PROVE  PutsInv'
<1>1. /\ Types /\ DOMAIN job = Writers /\ DOMAIN job[w] = JobFields /\ job[w].stage = "run"
      /\ UNCHANGED <<tables, put>> /\ TableTypes
    BY DEF PutsInv, Types, JobTypes, StoreFails
<1>2. SameStores /\ TableTypes'
    BY <1>1 DEF SameStores, TableTypes
<1>3. /\ DOMAIN job' = Writers /\ \A v \in Writers \ {w} : job'[v] = job[v]
      /\ job'[w] = [job[w] EXCEPT !.stage = "failed"]
    BY <1>1 DEF StoreFails
<1>4. /\ DOMAIN job'[w] = JobFields /\ job'[w].stage = "failed"
      /\ job'[w].table = job[w].table /\ job'[w].batch = job[w].batch
    BY <1>1, <1>3 DEF JobFields
<1>5. ASSUME w \in Puts, job[w].batch # <<>>
      PROVE  Moved(w)'
    <2>1. put[w].pc = "write"
        BY <1>1, <1>5, JobHasTable DEF PutsInv
    <2>2. Moved(w)
        BY <1>1, <1>5, <2>1 DEF PutsInv
    <2>3. Times(job[w].table, job[w].batch) \in {0, 1}
        BY <1>1, <2>2 DEF Moved
    <2>4. Times(job[w].table, job[w].batch)' \in {0, 1}
        BY <1>1, <1>4, <2>3 DEF Times, Copies
    <2> QED
        BY <1>4, <2>4 DEF Moved
<1> QED
    BY <1>1, <1>2, <1>3, <1>4, <1>5, JobGoesOn

\* A branch reads the stream to its end, ignores it, or finds nothing in it.
LEMMA ReadInputKeeps ==
    ASSUME PutsInv, NEW w \in Writers, NEW b, ReadInput(w, b), UNCHANGED <<export, exporter>>
    PROVE  PutsInv'
<1>1. /\ Types /\ DOMAIN job = Writers /\ DOMAIN job[w] = JobFields /\ job[w].stage = "run"
      /\ UNCHANGED <<tables, put>> /\ TableTypes
      /\ b \in DOMAIN job[w].branch /\ job[w].branch[b] = "start"
    BY DEF PutsInv, Types, JobTypes, ReadInput
<1>2. SameStores /\ TableTypes'
    BY <1>1 DEF SameStores, TableTypes
<1>3. /\ DOMAIN job' = Writers /\ \A v \in Writers \ {w} : job'[v] = job[v]
      /\ \/ Ignores(job[w].table, b) /\ job'[w] = [job[w] EXCEPT !.branch[b] = "done"]
         \/ /\ ~Ignores(job[w].table, b) /\ job[w].shared = <<>>
            /\ job'[w] = [job[w] EXCEPT !.branch[b] = "empty"]
         \/ /\ ~Ignores(job[w].table, b) /\ job[w].shared # <<>>
            /\ job'[w] = [job[w] EXCEPT !.branch[b] = "rows", !.shared = <<>>]
    BY <1>1 DEF ReadInput, StreamingDataUpdateExecutionPlan
<1>4. /\ DOMAIN job'[w] = JobFields /\ job'[w].stage = "run"
      /\ job'[w].table = job[w].table /\ job'[w].batch = job[w].batch
      /\ \E x \in {"done", "empty", "rows"} : job'[w].branch = [job[w].branch EXCEPT ![b] = x]
    BY <1>1, <1>3 DEF JobFields
<1>5. ASSUME w \in Puts
      PROVE  Runs(w)' /\ (job[w].batch # <<>> => Moved(w)')
    <2>1. put[w].pc = "write" /\ job[w].table \in DOMAIN Tables
        BY <1>1, <1>5, JobHasTable DEF PutsInv
    <2>2. Runs(w) /\ (job[w].batch # <<>> => Moved(w))
        BY <1>1, <1>5, <2>1 DEF PutsInv
    <2>3. /\ InsertBranches(job[w].table)' = InsertBranches(job[w].table)
          /\ \A c : Ignores(job[w].table, c)' = Ignores(job[w].table, c)
        BY <1>1, <1>4 DEF InsertBranches, Ignores
    <2>4. Times(job[w].table, job[w].batch)' = Times(job[w].table, job[w].batch)
        BY <1>1, <1>4 DEF Times, Copies
    <2>5. CASE Ignores(job[w].table, b) /\ job'[w] = [job[w] EXCEPT !.branch[b] = "done"]
        <3>1. job'[w].branch = [job[w].branch EXCEPT ![b] = "done"] /\ job'[w].shared = job[w].shared
            BY <1>1, <2>5 DEF JobFields
        <3>2. Reads(w)' = Reads(w)
            BY <1>1, <3>1 DEF Reads
        <3>3. Unread(w)' = Unread(w)
            BY <1>1, <1>4, <2>3, <2>5, <3>1 DEF Unread
        <3>4. Runs(w)'
            BY <1>4, <2>2, <2>3, <3>1, <3>2, <3>3 DEF Runs
        <3> QED
            BY <1>1, <1>4, <2>2, <2>4, <3>2, <3>3, <3>4 DEF Moved
    <2>6. CASE /\ job[w].shared = <<>>
               /\ job'[w] = [job[w] EXCEPT !.branch[b] = "empty"]
        <3>1. job'[w].branch = [job[w].branch EXCEPT ![b] = "empty"] /\ job'[w].shared = job[w].shared
            BY <1>1, <2>6 DEF JobFields
        <3>2. Reads(w)' = Reads(w)
            BY <1>1, <3>1 DEF Reads
        <3>3. ~Unread(w) /\ ~Unread(w)'
            BY <1>4, <2>6, <3>1 DEF Unread
        <3>4. Runs(w)'
            BY <1>4, <2>2, <2>3, <3>1, <3>2, <3>3 DEF Runs
        <3> QED
            BY <1>1, <1>4, <2>2, <2>4, <3>2, <3>3, <3>4 DEF Moved
    <2>7. CASE /\ ~Ignores(job[w].table, b) /\ job[w].shared # <<>>
               /\ job'[w] = [job[w] EXCEPT !.branch[b] = "rows", !.shared = <<>>]
        <3>1. job'[w].branch = [job[w].branch EXCEPT ![b] = "rows"] /\ job'[w].shared = <<>>
            BY <1>1, <2>7 DEF JobFields
        <3>2. Unread(w)
            BY <2>2, <2>7 DEF Runs
        <3>3. Reads(w)' = {b}
            BY <1>1, <3>1, <3>2 DEF Unread, Reads
        <3>4. Runs(w)'
            BY <1>4, <2>2, <2>3, <3>1, <3>3 DEF Runs
        <3>5. job[w].batch # <<>> => Times(job[w].table, job[w].batch) = 0
            BY <1>1, <2>2, <3>2 DEF Moved
        <3> QED
            BY <1>4, <2>4, <3>3, <3>4, <3>5 DEF Moved
    <2> QED
        BY <1>3, <2>5, <2>6, <2>7
<1> QED
    BY <1>1, <1>2, <1>3, <1>4, <1>5, JobGoesOn

\* What a store adds, and to which table.
LEMMA StoreAdds ==
    ASSUME TableTypes, NEW w, NEW b \in {"accelerator", "source"}, Store(w, b)
    PROVE  /\ TableTypes'
           /\ \A u \in DOMAIN Tables : \A X :
                 Times(u, X)' = Times(u, X) +
                     (IF job[w].branch[b] = "rows" /\ u = job[w].table /\ job[w].batch = X THEN 1 ELSE 0)
           /\ \A u \in DOMAIN Tables : tables'[u].kind = tables[u].kind
<1>1. PICK t, B : t = job[w].table /\ B = job[w].batch
    OBVIOUS
<1>2. tables' = IF job[w].branch[b] = "rows"
                THEN [tables EXCEPT ![t][b] = Append(tables[t][b], B)] ELSE tables
    BY <1>1 DEF Store
<1>3. DOMAIN tables = DOMAIN Tables
    BY DEF TableTypes
<1>4. CASE job[w].branch[b] # "rows" \/ t \notin DOMAIN Tables
    <2>1. DOMAIN tables' = DOMAIN tables /\ \A u \in DOMAIN Tables : tables'[u] = tables[u]
        BY <1>2, <1>3, <1>4
    <2>2. TableTypes' /\ \A u \in DOMAIN Tables : tables'[u].kind = tables[u].kind
        BY <2>1 DEF TableTypes
    <2>3. \A u \in DOMAIN Tables : \A X : Times(u, X)' = Times(u, X) /\ Times(u, X) \in Nat
        BY <2>1, TimesElsewhere, TimesType
    <2> QED
        BY <1>1, <1>4, <2>2, <2>3
<1>5. CASE job[w].branch[b] = "rows" /\ t \in DOMAIN Tables
    <2>1. /\ DOMAIN tables[t] = TableFields
          /\ IsSeq(tables[t].accelerator) /\ IsSeq(tables[t].source)
        BY <1>5 DEF TableTypes
    <2>2. /\ DOMAIN tables' = DOMAIN tables /\ \A u \in DOMAIN Tables \ {t} : tables'[u] = tables[u]
          /\ tables'[t] = [tables[t] EXCEPT ![b] = Append(tables[t][b], B)]
        BY <1>2, <1>3, <1>5
    <2>3. IsSeq(Append(tables[t][b], B))
        BY <2>1, AppendIsSeq
    <2>4. /\ DOMAIN tables'[t] = DOMAIN tables[t] /\ tables'[t].kind = tables[t].kind
          /\ IsSeq(tables'[t].accelerator) /\ IsSeq(tables'[t].source)
        BY <2>1, <2>2, <2>3 DEF TableFields
    <2>5. TableTypes' /\ \A u \in DOMAIN Tables : tables'[u].kind = tables[u].kind
        BY <1>3, <2>1, <2>2, <2>4 DEF TableTypes
    <2>6. \A X : Times(t, X)' = Times(t, X) + (IF B = X THEN 1 ELSE 0)
        BY <1>2, <1>5, TimesStored
    <2>7. \A u \in DOMAIN Tables : \A X : u # t => Times(u, X)' = Times(u, X) /\ Times(u, X) \in Nat
        BY <2>2, TimesElsewhere, TimesType
    <2> QED
        BY <1>1, <1>5, <2>5, <2>6, <2>7
<1> QED
    BY <1>4, <1>5

\* A put that is written is not the batch of another, whoever is writing.
LEMMA WrittenIsNamed ==
    ASSUME PutsInv, NEW w \in Writers, job[w].stage # "none", job[w].batch # <<>>,
           NEW p \in Puts, Asked(p), To(p) = job[w].table
    PROVE  /\ w \in Puts /\ put[w].pc = "write"
           /\ \A i \in Nat : Named(p, i) /\ Rest(p)[i].rows = job[w].batch => p = w /\ i = 1
           /\ \A i \in 1..Len(put[p].results) : put[p].results[i].rows # job[w].batch
<1>1. Types /\ Waits /\ Apart /\ Distinct
    BY DEF PutsInv
<1>2. w \in Puts
    BY <1>1 DEF Apart
<1>3. put[w].pc = "write" /\ Asked(w) /\ job[w].table = To(w)
    BY <1>1, <1>2, JobHasTable
<1>4. Rest(w) # <<>> /\ Rest(w)[1].is = "batch" /\ job[w].batch = Rest(w)[1].rows
    BY <1>1, <1>2, <1>3 DEF Waits
<1>5. IsSeq(Rest(w))
    BY <1>1, <1>2, <1>3 DEF Types, PutTypes
<1>6. 1 \in 1..Len(Rest(w))
    BY <1>4, <1>5, TailIsSeq, SeqFacts
<1>7. Named(w, 1)
    BY <1>3, <1>4, <1>6 DEF Named
<1>8. \A j \in 1..Len(Rest(p)) : Rest(p)[j].rows = Rest(w)[1].rows => p = w /\ j = 1
    BY <1>1, <1>2, <1>3, <1>7 DEF Distinct
<1>9. \A j \in 1..Len(put[p].results) : put[p].results[j].rows # Rest(w)[1].rows
    BY <1>1, <1>2, <1>3, <1>7 DEF Distinct
<1> QED
    BY <1>2, <1>3, <1>4, <1>8, <1>9 DEF Named

\* A branch that has the rows stores them, for the first time.
LEMMA StoreKeeps ==
    ASSUME PutsInv, NEW w \in Writers, NEW b \in {"accelerator", "source"}, Store(w, b),
           UNCHANGED <<export, exporter>>
    PROVE  PutsInv'
<1> DEFINE Adds(u, X) == job[w].branch[b] = "rows" /\ u = job[w].table /\ job[w].batch = X
<1>1. /\ Types /\ Waits /\ Apart /\ Distinct /\ Fresh /\ AcknowledgedOnce
      /\ DOMAIN job = Writers /\ DOMAIN job[w] = JobFields /\ job[w].stage = "run"
      /\ UNCHANGED put /\ b \in DOMAIN job[w].branch /\ job[w].branch[b] \in {"rows", "empty"}
    BY DEF PutsInv, Types, JobTypes, Store
<1>2. /\ TableTypes' /\ \A u \in DOMAIN Tables : tables'[u].kind = tables[u].kind
      /\ \A u \in DOMAIN Tables : \A X : Times(u, X)' = Times(u, X) + (IF Adds(u, X) THEN 1 ELSE 0)
      /\ \A u \in DOMAIN Tables : \A X : Times(u, X) \in Nat
    BY <1>1, StoreAdds, TimesType DEF Types
<1>3. /\ DOMAIN job' = Writers /\ \A v \in Writers \ {w} : job'[v] = job[v]
      /\ job'[w] = [job[w] EXCEPT !.branch[b] = "done"]
    BY <1>1 DEF Store
<1>4. /\ DOMAIN job'[w] = JobFields /\ job'[w].stage = "run" /\ job'[w].shared = job[w].shared
      /\ job'[w].table = job[w].table /\ job'[w].batch = job[w].batch
      /\ job'[w].branch = [job[w].branch EXCEPT ![b] = "done"]
    BY <1>1, <1>3 DEF JobFields
<1>5. Types'
    BY <1>1, <1>2, <1>3, <1>4 DEF Types, PutTypes, JobTypes, ExportTypes, Asked, To, Rest
<1>0. \A v \in Writers : /\ job'[v].stage = job[v].stage /\ job'[v].table = job[v].table
                          /\ job'[v].batch = job[v].batch
    BY <1>1, <1>3, <1>4
<1>6. Waits'
    BY <1>0, <1>1, IngestAssumption DEF Waits, Asked, To, Rest
<1>7. Apart'
    BY <1>0, <1>1 DEF Apart, Asked, To
<1>8. Distinct'
    BY <1>1 DEF Distinct, Named, Asked, To, Rest
<1>9. ASSUME NEW p \in Puts, Asked(p), NEW X, X # <<>>, Adds(To(p), X)
      PROVE  /\ w \in Puts /\ put[w].pc = "write"
             /\ \A i \in Nat : Named(p, i) /\ Rest(p)[i].rows = X => p = w /\ i = 1
             /\ \A i \in 1..Len(put[p].results) : put[p].results[i].rows # X
    BY <1>1, <1>9, WrittenIsNamed
<1>10. \A p \in Puts : /\ To(p)' = To(p) /\ Rest(p)' = Rest(p) /\ Asked(p)' = Asked(p)
                       /\ \A i : Named(p, i)' = Named(p, i)
    BY <1>1 DEF To, Rest, Asked, Named
<1> HIDE DEF Adds
<1>11. Fresh'
    <2> SUFFICES ASSUME NEW p \in Puts, NEW i \in Nat, Named(p, i), To(p) \in DOMAIN Tables,
                        ~(put[p].pc = "write" /\ i = 1)
                 PROVE  Times(To(p), Rest(p)[i].rows)' = 0
        BY <1>1, <1>10 DEF Fresh
    <2>1. PICK u, X : u = To(p) /\ X = Rest(p)[i].rows
        OBVIOUS
    <2>2. Times(u, X) = 0
        BY <1>1, <2>1 DEF Fresh
    <2>3. Asked(p) /\ X # <<>>
        BY <2>1 DEF Named
    <2>4. ~Adds(u, X)
        BY <1>9, <2>1, <2>3
    <2>5. Times(u, X)' = 0
        BY <1>2, <2>1, <2>2, <2>4
    <2> QED
        BY <1>10, <2>1, <2>5
<1>12. AcknowledgedOnce'
    <2> SUFFICES ASSUME NEW p \in Puts, NEW i \in DOMAIN put[p].results,
                        put[p].results[i].rows # <<>>
                 PROVE  /\ Times(To(p), put[p].results[i].rows)' <= 1
                        /\ put[p].results[i].is = "ok" => Times(To(p), put[p].results[i].rows)' = 1
        BY <1>1 DEF AcknowledgedOnce, Times, To
    <2>1. PICK u, X : u = To(p) /\ X = put[p].results[i].rows
        OBVIOUS
    <2>2. u \in DOMAIN Tables
        BY <1>1, <2>1, PutHasTable
    <2>3. Times(u, X) <= 1 /\ (put[p].results[i].is = "ok" => Times(u, X) = 1)
        BY <1>1, <2>1 DEF AcknowledgedOnce, Times, To
    <2>4. Asked(p) /\ i \in 1..Len(put[p].results)
        BY <1>1, SeqFacts, EmptyIsSeq DEF Types, PutTypes
    <2>5. ~Adds(u, X)
        BY <1>9, <2>1, <2>4
    <2>6. Times(u, X)' = Times(u, X)
        BY <1>2, <2>2, <2>5
    <2> QED
        BY <1>1, <1>10, <2>1, <2>3, <2>6
<1>13. ASSUME NEW p \in Puts, p # w, job[p].stage # "none" \/ put[p].pc = "write"
       PROVE  /\ job'[p] = job[p] /\ job[p].table \in DOMAIN Tables
              /\ Unread(p)' = Unread(p) /\ Reads(p)' = Reads(p)
              /\ InsertBranches(job[p].table)' = InsertBranches(job[p].table)
    <2>1. job'[p] = job[p]
        BY <1>3, <1>13, IngestAssumption
    <2>2. job[p].table \in DOMAIN Tables
        BY <1>1, <1>13, JobHasTable
    <2>3. tables'[job[p].table].kind = tables[job[p].table].kind
        BY <1>2, <2>2
    <2> QED
        BY <2>1, <2>2, <2>3 DEF Unread, Reads, InsertBranches, Ignores
<1>14. ASSUME w \in Puts
       PROVE  /\ put[w].pc = "write" /\ job[w].table \in DOMAIN Tables /\ Runs(w)
              /\ ~Unread(w) /\ ~Unread(w)' /\ Reads(w)' = Reads(w) \ {b}
              /\ job[w].branch[b] = "rows" => Reads(w) = {b}
              /\ InsertBranches(job[w].table)' = InsertBranches(job[w].table)
    <2>1. put[w].pc = "write" /\ job[w].table \in DOMAIN Tables
        BY <1>1, <1>14, JobHasTable
    <2>2. Runs(w)
        BY <1>1, <1>14 DEF PutsInv
    <2>3. ~Unread(w) /\ job[w].shared = <<>>
        BY <1>1, <2>2 DEF Runs, Unread
    <2>4. ~Unread(w)'
        BY <1>4, <2>3 DEF Unread
    <2>5. Reads(w)' = Reads(w) \ {b}
        BY <1>1, <1>4 DEF Reads
    <2>6. job[w].branch[b] = "rows" => Reads(w) = {b}
        BY <1>1, <2>2, <2>3 DEF Runs, Reads
    <2>7. InsertBranches(job[w].table)' = InsertBranches(job[w].table)
        BY <1>2, <1>4, <2>1 DEF InsertBranches
    <2> QED
        BY <2>1, <2>2, <2>3, <2>4, <2>5, <2>6, <2>7
<1>15. ASSUME NEW p \in Puts, job'[p].stage = "run"
       PROVE  Runs(p)'
    <2>1. CASE p = w
        BY <1>4, <1>14, <2>1 DEF Runs
    <2>2. CASE p # w
        <3>1. job'[p] = job[p]
            BY <1>3, <2>2, IngestAssumption
        <3>2. Runs(p)
            BY <1>15, <3>1 DEF PutsInv
        <3> QED
            BY <1>13, <1>15, <2>2, <3>1, <3>2 DEF Runs
    <2> QED
        BY <2>1, <2>2
<1>16. ASSUME NEW p \in Puts, put'[p].pc = "write", job'[p].batch # <<>>
       PROVE  Moved(p)'
    <2>1. put[p].pc = "write" /\ job'[p].table = job[p].table /\ job'[p].batch = job[p].batch
          /\ job'[p].stage = job[p].stage
        BY <1>1, <1>3, <1>4, <1>16, IngestAssumption
    <2>2. Moved(p)
        BY <1>16, <2>1 DEF PutsInv
    <2>3. Asked(p) /\ job[p].table = To(p) /\ job[p].table \in DOMAIN Tables
        BY <1>1, <2>1, JobHasTable
    <2>4. PICK u, X : u = job[p].table /\ X = job[p].batch
        OBVIOUS
    <2>5. Times(job[p].table, job[p].batch)' = Times(u, X)'
        BY <2>1, <2>4
    <2>6. CASE p = w
        <3>1. CASE job[w].branch[b] = "rows"
            <4>1. Times(u, X) = 0
                BY <1>1, <1>14, <2>2, <2>4, <2>6, <3>1 DEF Moved
            <4>2. Times(u, X)' = 1
                BY <1>2, <2>3, <2>4, <2>6, <3>1, <4>1 DEF Adds
            <4> QED
                BY <1>4, <1>14, <2>5, <2>6, <3>1, <4>2 DEF Moved
        <3>2. CASE job[w].branch[b] # "rows"
            <4>1. Times(u, X)' = Times(u, X)
                BY <1>2, <2>3, <2>4, <3>2 DEF Adds
            <4>2. Reads(w)' = Reads(w)
                BY <1>14, <2>6, <3>2 DEF Reads
            <4> QED
                BY <1>1, <1>4, <1>14, <2>2, <2>4, <2>5, <2>6, <4>1, <4>2 DEF Moved
        <3> QED
            BY <3>1, <3>2
    <2>7. CASE p # w
        <3>1. X # <<>> /\ Rest(p)[1].rows = X /\ Named(p, 1)
            <4>1. Rest(p) # <<>> /\ Rest(p)[1].is = "batch" /\ Rest(p)[1].rows = job[p].batch
                BY <1>1, <2>1 DEF Waits
            <4>2. IsSeq(Rest(p))
                BY <1>1, <2>3 DEF Types, PutTypes
            <4>3. 1 \in 1..Len(Rest(p))
                BY <4>1, <4>2, TailIsSeq, SeqFacts
            <4> QED
                BY <1>16, <2>1, <2>3, <2>4, <4>1, <4>3 DEF Named
        <3>2. ~Adds(u, X)
            BY <1>9, <2>3, <2>4, <2>7, <3>1
        <3>3. Times(u, X)' = Times(u, X)
            BY <1>2, <2>3, <2>4, <3>2
        <3> QED
            BY <1>13, <2>1, <2>2, <2>4, <2>5, <2>7, <3>3 DEF Moved
    <2> QED
        BY <2>6, <2>7
<1> QED
    BY <1>1, <1>5, <1>6, <1>7, <1>8, <1>11, <1>12, <1>15, <1>16 DEF PutsInv

(***************************************************************************)
(* The steps of a put                                                      *)
(***************************************************************************)

\* A call whose messages and results stay as they are.
LEMMA PutGoesOn ==
    ASSUME PutsInv, UNCHANGED <<tables, export, exporter>>, NEW p \in Puts, Asked(p),
           DOMAIN put' = Puts, DOMAIN put'[p] = {"pc", "script", "results"},
           \A q \in Puts \ {p} : put'[q] = put[q],
           put'[p].script = put[p].script, put'[p].results = put[p].results,
           put'[p].pc \in {"stream", "write"} => To(p) \in DOMAIN Tables,
           put[p].pc # "write"
    PROVE  PutTypes' /\ Distinct' /\ Fresh' /\ AcknowledgedOnce'
<1>1. Types /\ Distinct /\ Fresh /\ AcknowledgedOnce
    BY DEF PutsInv
<1>2. \A q \in Puts : /\ put'[q].script = put[q].script /\ put'[q].results = put[q].results
                      /\ To(q)' = To(q) /\ Rest(q)' = Rest(q) /\ Asked(q)' = Asked(q)
                      /\ \A i : Named(q, i)' = Named(q, i)
    BY DEF To, Rest, Asked, Named
<1>3. PutTypes'
    BY <1>1, <1>2 DEF Types, PutTypes
<1>4. Distinct'
    BY <1>1, <1>2 DEF Distinct
<1>5. Fresh'
    <2> SUFFICES ASSUME NEW q \in Puts, NEW i \in Nat, Named(q, i), To(q) \in DOMAIN Tables,
                        ~(put'[q].pc = "write" /\ i = 1)
                 PROVE  Times(To(q), Rest(q)[i].rows)' = 0
        BY <1>2 DEF Fresh
    <2>1. ~(put[q].pc = "write" /\ i = 1)
        OBVIOUS
    <2>2. Times(To(q), Rest(q)[i].rows) = 0
        BY <1>1, <2>1 DEF Fresh
    <2> QED
        BY <1>2, <2>2 DEF Times, Copies
<1>6. AcknowledgedOnce'
    <2>1. \A t, b, X : Copies(t, b, X)' = Copies(t, b, X)
        BY DEF Copies
    <2> QED
        BY <1>1, <1>2, <2>1 DEF AcknowledgedOnce
<1> QED
    BY <1>3, <1>4, <1>5, <1>6

\* The other puts, and their jobs, when p takes a step.
LEMMA OtherJobsKeep ==
    ASSUME PutsInv, UNCHANGED tables, NEW p,
           \A q \in Puts \ {p} : put'[q] = put[q], \A v \in Writers \ {p} : job'[v] = job[v],
           NEW q \in Puts, q # p
    PROVE  /\ job'[q].stage = "run" => Runs(q)'
           /\ put'[q].pc = "write" /\ job'[q].batch # <<>> => Moved(q)'
<1>1. job'[q] = job[q] /\ put'[q] = put[q]
    BY IngestAssumption
<1>2. Unread(q)' = Unread(q) /\ Reads(q)' = Reads(q)
    BY <1>1 DEF Unread, Reads, Ignores
<1>3. Runs(q)' = Runs(q)
    BY <1>1, <1>2 DEF Runs, InsertBranches
<1>4. Moved(q)' = Moved(q)
    BY <1>1, <1>2 DEF Moved, Times, Copies
<1> QED
    BY <1>1, <1>3, <1>4 DEF PutsInv

\* The first message.
LEMMA PutFirstKeeps ==
    ASSUME PutsInv, NEW p \in Puts, PutFirst(p), UNCHANGED <<export, exporter>>
    PROVE  PutsInv'
<1>1. /\ Types /\ Waits /\ Apart /\ DOMAIN put = Puts /\ DOMAIN put[p] = {"pc", "script", "results"}
      /\ put[p].pc = "first" /\ UNCHANGED <<tables, job>>
    BY DEF PutsInv, Types, PutTypes, PutFirst
<1>2. /\ DOMAIN put' = Puts /\ DOMAIN put'[p] = {"pc", "script", "results"}
      /\ \A q \in Puts \ {p} : put'[q] = put[q]
      /\ put'[p].script = put[p].script /\ put'[p].results = put[p].results
      /\ put'[p].pc \in {"stream", "refused"}
      /\ put'[p].pc = "stream" => is_writable(To(p))
    BY <1>1 DEF PutFirst, To
<1>3. Asked(p) /\ (put'[p].pc \in {"stream", "write"} => To(p) \in DOMAIN Tables)
    BY <1>1, <1>2 DEF Types, PutTypes, TableTypes, is_writable
<1>4. PutTypes' /\ Distinct' /\ Fresh' /\ AcknowledgedOnce'
    BY <1>1, <1>2, <1>3, PutGoesOn
<1>5. Types'
    BY <1>1, <1>4 DEF Types, JobTypes, TableTypes, ExportTypes
<1>6. Waits' /\ Apart'
    BY <1>1, <1>2 DEF Waits, Apart, Asked, To, Rest
<1>7. job'[p].stage # "run" /\ put'[p].pc # "write"
    BY <1>1, <1>2 DEF Waits
<1>8. \A q \in Puts : /\ job'[q].stage = "run" => Runs(q)'
                      /\ put'[q].pc = "write" /\ job'[q].batch # <<>> => Moved(q)'
    BY <1>1, <1>2, <1>7, OtherJobsKeep
<1> QED
    BY <1>4, <1>5, <1>6, <1>8 DEF PutsInv

\* A message is answered and the next one is up.
LEMMA PutAnswered ==
    ASSUME PutsInv, UNCHANGED <<tables, export, exporter>>, NEW p \in Puts, Asked(p),
           Rest(p) # <<>>, put[p].pc \in {"stream", "write"}, NEW r, DOMAIN r = {"rows", "is"},
           \/ r.rows = <<>>
           \/ /\ put[p].pc = "write" /\ job[p].stage \in {"ok", "failed"}
              /\ r.rows = job[p].batch /\ r.is = job[p].stage,
           DOMAIN put' = Puts, \A q \in Puts \ {p} : put'[q] = put[q],
           DOMAIN put'[p] = {"pc", "script", "results"}, DOMAIN put'[p].script = ScriptFields,
           put'[p].pc = "stream", put'[p].script.table = put[p].script.table,
           put'[p].script.rest = Tail(put[p].script.rest),
           put'[p].results = Append(put[p].results, r),
           DOMAIN job' = Writers, DOMAIN job'[p] = JobFields, job'[p].stage = "none",
           \A v \in Writers \ {p} : job'[v] = job[v]
    PROVE  PutsInv'
<1> DEFINE n == Len(put[p].results)
           At(q, i) == IF q = p THEN i + 1 ELSE i
<1>1. Types /\ Waits /\ Apart /\ Distinct /\ Fresh /\ AcknowledgedOnce /\ To(p) \in DOMAIN Tables
    BY DEF PutsInv, Types, PutTypes
<1>2. /\ IsSeq(put[p].results) /\ IsSeq(Rest(p)) /\ n \in Nat
      /\ Rest(p)' = Tail(Rest(p)) /\ To(p)' = To(p)
    BY <1>1, SeqFacts DEF Types, PutTypes, Rest, To
<1>3. /\ IsSeq(Rest(p)') /\ Len(Rest(p)) > 0 /\ Len(Rest(p)') = Len(Rest(p)) - 1
      /\ \A i \in 1..(Len(Rest(p)) - 1) : Rest(p)'[i] = Rest(p)[i + 1]
      /\ Len(Rest(p)) \in Nat
    BY <1>2, TailIsSeq, SeqFacts
<1>4. /\ IsSeq(put'[p].results) /\ Len(put'[p].results) = n + 1
      /\ \A i \in 1..n : put'[p].results[i] = put[p].results[i]
      /\ put'[p].results[n + 1] = r
    BY <1>2, AppendIsSeq
<1>5. Asked(p)' /\ put'[p].results # <<>>
    <2>1. DOMAIN put'[p].script # {} /\ Len(put'[p].results) # 0
        BY <1>2, <1>4 DEF ScriptFields
    <2>2. DOMAIN <<>> = {} /\ Len(<<>>) = 0
        BY EmptyIsSeq, SeqFacts
    <2> QED
        BY <2>1, <2>2 DEF Asked
<1>6. \A q \in Puts \ {p} : /\ To(q)' = To(q) /\ Rest(q)' = Rest(q) /\ Asked(q)' = Asked(q)
                            /\ put'[q].results = put[q].results
    BY DEF To, Rest, Asked
<1> HIDE DEF n
<1>7. Types'
    <2>1. \A i \in 1..Len(put'[p].results) : DOMAIN put'[p].results[i] = {"rows", "is"}
        <3>1. \A i \in 1..n : DOMAIN put[p].results[i] = {"rows", "is"}
            BY <1>1 DEF Types, PutTypes, n
        <3> QED
            BY <1>2, <1>4, <3>1
    <2>2. /\ DOMAIN put'[p].script = ScriptFields /\ IsSeq(Rest(p)')
          /\ To(p)' \in DOMAIN Tables
        BY <1>1, <1>2, <1>3
    <2>3. \A q \in Puts \ {p} :
              /\ DOMAIN put'[q] = {"pc", "script", "results"} /\ IsSeq(put'[q].results)
              /\ \A i \in 1..Len(put'[q].results) : DOMAIN put'[q].results[i] = {"rows", "is"}
              /\ IF Asked(q)' THEN DOMAIN put'[q].script = ScriptFields /\ IsSeq(Rest(q)')
                 ELSE put'[q].pc = "done" /\ put'[q].results = <<>>
              /\ put'[q].pc \in {"stream", "write"} \/ put'[q].results # <<>>
                    => To(q)' \in DOMAIN Tables
        BY <1>1, <1>6 DEF Types, PutTypes
    <2>4. PutTypes'
        BY <1>4, <1>5, <2>1, <2>2, <2>3 DEF PutTypes
    <2>5. JobTypes' /\ TableTypes' /\ ExportTypes'
        BY <1>1 DEF Types, JobTypes, TableTypes, ExportTypes
    <2> QED
        BY <2>4, <2>5 DEF Types
<1>8. Waits'
    BY <1>1, <1>6, IngestAssumption DEF Waits
<1>9. Apart'
    <2>1. \A w \in Writers \ Puts : job'[w] = job[w]
        OBVIOUS
    <2>2. \A q \in Puts : Asked(q)' => Asked(q) /\ To(q)' = To(q)
        BY <1>2, <1>6
    <2> QED
        BY <1>1, <2>1, <2>2 DEF Apart
<1>10. ASSUME NEW q \in Puts, NEW i \in 1..Len(Rest(q)')
       PROVE  /\ At(q, i) \in 1..Len(Rest(q)) /\ Rest(q)'[i] = Rest(q)[At(q, i)]
              /\ At(q, i) \in Nat
    <2>1. CASE q = p
        BY <1>3, <1>10, <2>1
    <2>2. CASE q # p
        BY <1>6, <1>10, <2>2
    <2> QED
        BY <2>1, <2>2
<1>11. ASSUME NEW q \in Puts, NEW i \in Nat, Named(q, i)'
       PROVE  /\ Named(q, At(q, i)) /\ At(q, i) \in Nat /\ i \in 1..Len(Rest(q)')
              /\ Rest(q)'[i] = Rest(q)[At(q, i)]
    <2>1. i \in 1..Len(Rest(q)') /\ Asked(q)' /\ Rest(q)'[i].is = "batch" /\ Rest(q)'[i].rows # <<>>
        BY <1>11 DEF Named
    <2>2. Asked(q)
        BY <1>6, <2>1
    <2> QED
        BY <1>10, <2>1, <2>2 DEF Named
<1>12. ASSUME NEW x \in Puts, NEW i \in Nat, Named(x, i)', To(x) = To(p)
       PROVE  r.rows # Rest(x)'[i].rows
    <2>1. Named(x, At(x, i)) /\ Rest(x)'[i] = Rest(x)[At(x, i)] /\ At(x, i) \in Nat
          /\ i \in 1..Len(Rest(x)')
        BY <1>11, <1>12
    <2>2. CASE r.rows = <<>>
        BY <2>1, <2>2 DEF Named
    <2>3. CASE put[p].pc = "write" /\ r.rows = job[p].batch
        <3>1. r.rows = Rest(p)[1].rows
            BY <1>1, <2>3 DEF Waits
        <3>2. 1 \in 1..Len(Rest(p))
            BY <1>3
        <3>3. Rest(p)[1].rows = Rest(x)[At(x, i)].rows => p = x /\ 1 = At(x, i)
            BY <1>1, <1>12, <2>1, <3>2 DEF Distinct
        <3>4. ~(p = x /\ 1 = At(x, i))
            BY <2>1
        <3> QED
            BY <2>1, <3>1, <3>3, <3>4
    <2> QED
        BY <2>2, <2>3
<1>13. Distinct'
    <2> SUFFICES ASSUME NEW x \in Puts, NEW i \in Nat, Named(x, i)',
                        NEW q \in Puts, Asked(q)', To(q)' = To(x)'
                 PROVE  /\ \A j \in 1..Len(Rest(q)') : Rest(q)'[j].rows = Rest(x)'[i].rows
                                => q = x /\ j = i
                        /\ \A j \in 1..Len(put'[q].results) :
                              put'[q].results[j].rows # Rest(x)'[i].rows
        BY DEF Distinct
    <2>1. /\ Named(x, At(x, i)) /\ Rest(x)'[i] = Rest(x)[At(x, i)] /\ At(x, i) \in Nat
          /\ i \in 1..Len(Rest(x)')
        BY <1>11
    <2>2. Asked(q) /\ To(q) = To(x)
        BY <1>2, <1>6
    <2>3. /\ \A j \in 1..Len(Rest(q)) : Rest(q)[j].rows = Rest(x)[At(x, i)].rows => q = x /\ j = At(x, i)
          /\ \A j \in 1..Len(put[q].results) : put[q].results[j].rows # Rest(x)[At(x, i)].rows
        BY <1>1, <2>1, <2>2 DEF Distinct
    <2>4. ASSUME NEW j \in 1..Len(Rest(q)'), Rest(q)'[j].rows = Rest(x)'[i].rows
          PROVE  q = x /\ j = i
        <3>1. At(q, j) \in 1..Len(Rest(q)) /\ Rest(q)'[j] = Rest(q)[At(q, j)]
            BY <1>10
        <3>2. q = x /\ At(q, j) = At(x, i)
            BY <2>1, <2>3, <2>4, <3>1
        <3> QED
            BY <2>1, <3>2
    <2>5. ASSUME NEW j \in 1..Len(put'[q].results)
          PROVE  put'[q].results[j].rows # Rest(x)'[i].rows
        <3>1. CASE q # p
            BY <1>6, <2>1, <2>3, <3>1
        <3>2. CASE q = p /\ j # n + 1
            <4>1. j \in 1..n
                BY <1>2, <1>4, <3>2
            <4> QED
                BY <1>4, <2>1, <2>3, <3>2, <4>1 DEF n
        <3>3. CASE q = p /\ j = n + 1
            BY <1>4, <1>12, <2>2, <3>3
        <3> QED
            BY <3>1, <3>2, <3>3
    <2> QED
        BY <2>4, <2>5
<1>14. Fresh'
    <2> SUFFICES ASSUME NEW x \in Puts, NEW i \in Nat, Named(x, i)', To(x)' \in DOMAIN Tables,
                        ~(put'[x].pc = "write" /\ i = 1)
                 PROVE  Times(To(x), Rest(x)[i].rows)' = 0
        BY DEF Fresh
    <2>1. /\ Named(x, At(x, i)) /\ Rest(x)'[i] = Rest(x)[At(x, i)] /\ At(x, i) \in Nat
          /\ i \in 1..Len(Rest(x)')
        BY <1>11
    <2>2. To(x)' = To(x)
        BY <1>2, <1>6
    <2>3. ~(put[x].pc = "write" /\ At(x, i) = 1)
        BY <2>1
    <2>4. Times(To(x), Rest(x)[At(x, i)].rows) = 0
        BY <1>1, <2>1, <2>2, <2>3 DEF Fresh
    <2> QED
        BY <2>1, <2>2, <2>4 DEF Times, Copies
<1>15. AcknowledgedOnce'
    <2>1. \A t, X : Times(t, X)' = Times(t, X)
        BY DEF Times, Copies
    <2> SUFFICES ASSUME NEW q \in Puts, NEW i \in DOMAIN put'[q].results,
                        put'[q].results[i].rows # <<>>
                 PROVE  /\ Times(To(q), put'[q].results[i].rows) <= 1
                        /\ put'[q].results[i].is = "ok" => Times(To(q), put'[q].results[i].rows) = 1
        <3>1. \A q \in Puts : put'[q].script.table = To(q)
            BY DEF To
        <3>2. \A t, b, X : Copies(t, b, X)' = Copies(t, b, X)
            BY DEF Copies
        <3> QED
            BY <3>1, <3>2 DEF AcknowledgedOnce, Times
    <2>2. \A x \in Puts : \A j \in DOMAIN put[x].results : put[x].results[j].rows # <<>> =>
              /\ Times(To(x), put[x].results[j].rows) <= 1
              /\ put[x].results[j].is = "ok" => Times(To(x), put[x].results[j].rows) = 1
        BY <1>1, OnceIsTimes
    <2>3. CASE q # p
        BY <1>6, <2>2, <2>3
    <2>4. CASE q = p /\ i # n + 1
        <3>1. i \in 1..n /\ i \in DOMAIN put[p].results
            BY <1>2, <1>4, <2>4, SeqFacts DEF n
        <3> QED
            BY <1>4, <2>2, <2>4, <3>1
    <2>5. CASE q = p /\ i = n + 1
        <3>1. put'[q].results[i] = r /\ r.rows # <<>>
            BY <1>4, <2>5
        <3>2. /\ put[p].pc = "write" /\ job[p].stage \in {"ok", "failed"}
              /\ r.rows = job[p].batch /\ r.is = job[p].stage
            BY <3>1
        <3>3. Moved(p)
            BY <3>1, <3>2 DEF PutsInv
        <3>4. job[p].table = To(p)
            BY <1>1, <3>2 DEF Waits
        <3>5. Times(To(p), r.rows) \in {0, 1} /\ (r.is = "ok" => Times(To(p), r.rows) = 1)
            BY <3>2, <3>3, <3>4 DEF Moved
        <3> QED
            BY <2>5, <3>1, <3>5
    <2> QED
        BY <2>3, <2>4, <2>5
<1>16. \A q \in Puts : /\ job'[q].stage = "run" => Runs(q)'
                       /\ put'[q].pc = "write" /\ job'[q].batch # <<>> => Moved(q)'
    BY OtherJobsKeep
<1> QED
    BY <1>7, <1>8, <1>9, <1>13, <1>14, <1>15, <1>16 DEF PutsInv

\* The next message: an end, one that is no rows, or a batch.
LEMMA PutNextKeeps ==
    ASSUME PutsInv, NEW p \in Puts, PutNext(p), UNCHANGED <<export, exporter>>
    PROVE  PutsInv'
<1>1. /\ Types /\ Waits /\ Apart /\ Fresh /\ DOMAIN put = Puts /\ DOMAIN put[p] = {"pc", "script", "results"}
      /\ DOMAIN job = Writers /\ p \in Writers
      /\ put[p].pc = "stream" /\ UNCHANGED tables
    BY IngestAssumption DEF PutsInv, Types, PutTypes, JobTypes, PutNext
<1>2. /\ Asked(p) /\ To(p) \in DOMAIN Tables /\ DOMAIN put[p].script = ScriptFields /\ IsSeq(Rest(p))
      /\ job[p].stage = "none" /\ DOMAIN job[p] = JobFields
    BY <1>1 DEF Types, PutTypes, JobTypes, Waits
<1>3. CASE put' = [put EXCEPT ![p].pc = "done"] /\ UNCHANGED job
    <2>1. /\ DOMAIN put' = Puts /\ DOMAIN put'[p] = {"pc", "script", "results"}
          /\ \A q \in Puts \ {p} : put'[q] = put[q]
          /\ put'[p].script = put[p].script /\ put'[p].results = put[p].results
          /\ put'[p].pc = "done"
        BY <1>1, <1>3
    <2>2. PutTypes' /\ Distinct' /\ Fresh' /\ AcknowledgedOnce'
        BY <1>1, <1>2, <2>1, PutGoesOn
    <2>3. Types'
        BY <1>1, <1>3, <2>2 DEF Types, JobTypes, TableTypes, ExportTypes
    <2>4. Waits' /\ Apart'
        BY <1>1, <1>3, <2>1 DEF Waits, Apart, Asked, To, Rest
    <2>5. job'[p].stage # "run" /\ put'[p].pc # "write"
        BY <1>2, <1>3, <2>1
    <2>6. \A q \in Puts : /\ job'[q].stage = "run" => Runs(q)'
                          /\ put'[q].pc = "write" /\ job'[q].batch # <<>> => Moved(q)'
        BY <1>1, <1>3, <2>1, <2>5, OtherJobsKeep
    <2> QED
        BY <2>2, <2>3, <2>4, <2>6 DEF PutsInv
<1>4. CASE /\ Rest(p) # <<>> /\ UNCHANGED job
           /\ put' = [put EXCEPT ![p].script.rest = Tail(put[p].script.rest),
                        ![p].results = Append(put[p].results, [rows |-> <<>>, is |-> "error"])]
    <2>1. /\ DOMAIN put' = Puts /\ \A q \in Puts \ {p} : put'[q] = put[q]
          /\ DOMAIN put'[p] = {"pc", "script", "results"} /\ DOMAIN put'[p].script = ScriptFields
          /\ put'[p].pc = "stream" /\ put'[p].script.table = put[p].script.table
          /\ put'[p].script.rest = Tail(put[p].script.rest)
          /\ put'[p].results = Append(put[p].results, [rows |-> <<>>, is |-> "error"])
        BY <1>1, <1>2, <1>4 DEF ScriptFields
    <2>2. PICK r : r = [rows |-> <<>>, is |-> "error"]
        OBVIOUS
    <2>3. DOMAIN r = {"rows", "is"} /\ r.rows = <<>>
        BY <2>2
    <2> QED
        BY <1>1, <1>2, <1>4, <2>1, <2>2, <2>3, PutAnswered
<1>5. CASE /\ Rest(p) # <<>> /\ Head(Rest(p)).is = "batch"
           /\ put' = [put EXCEPT ![p].pc = "write"]
           /\ Writes(p, To(p), put[p].script.schema, Head(Rest(p)).rows)
    <2>1. /\ DOMAIN put' = Puts /\ DOMAIN put'[p] = {"pc", "script", "results"}
          /\ \A q \in Puts \ {p} : put'[q] = put[q]
          /\ put'[p].script = put[p].script /\ put'[p].results = put[p].results
          /\ put'[p].pc = "write"
        BY <1>1, <1>5
    <2>2. PutTypes' /\ Distinct' /\ Fresh' /\ AcknowledgedOnce'
        BY <1>1, <1>2, <2>1, PutGoesOn
    <2>3. /\ DOMAIN job' = Writers /\ \A v \in Writers \ {p} : job'[v] = job[v]
          /\ DOMAIN job'[p] = JobFields /\ job'[p].stage = "plan" /\ job'[p].table = To(p)
          /\ job'[p].batch = Head(Rest(p)).rows
        BY <1>1, <1>5 DEF Writes, NoJob, JobFields
    <2>4. Types'
        BY <1>1, <2>2, <2>3 DEF Types, JobTypes, TableTypes, ExportTypes
    <2>5. /\ 1 \in 1..Len(Rest(p)) /\ Head(Rest(p)) = Rest(p)[1]
        BY <1>2, <1>5, TailIsSeq, SeqFacts
    <2>6. \A q \in Puts : To(q)' = To(q) /\ Rest(q)' = Rest(q) /\ Asked(q)' = Asked(q)
        BY <2>1 DEF To, Rest, Asked
    <2>7. Waits'
        BY <1>1, <1>2, <1>5, <2>1, <2>3, <2>5, <2>6, IngestAssumption DEF Waits
    <2>8. Apart'
        BY <1>1, <2>3, <2>6 DEF Apart
    <2>9. job'[p].batch # <<>> => Moved(p)'
        <3>1. PICK u, X : u = To(p) /\ X = Head(Rest(p)).rows
            OBVIOUS
        <3>2. X # <<>> => Times(u, X) = 0
            BY <1>1, <1>2, <1>5, <2>5, <3>1 DEF Fresh, Named
        <3>3. Times(u, X)' = Times(u, X)
            BY <1>1 DEF Times, Copies
        <3> QED
            BY <2>3, <3>1, <3>2, <3>3 DEF Moved
    <2>10. \A q \in Puts : /\ job'[q].stage = "run" => Runs(q)'
                           /\ put'[q].pc = "write" /\ job'[q].batch # <<>> => Moved(q)'
        BY <1>1, <2>1, <2>3, <2>9, OtherJobsKeep
    <2> QED
        BY <2>2, <2>4, <2>7, <2>8, <2>10 DEF PutsInv
<1> QED
    BY <1>3, <1>4, <1>5 DEF PutNext, Rest, To

\* The result of the job is the answer to the batch.
LEMMA PutWrittenKeeps ==
    ASSUME PutsInv, NEW p \in Puts, PutWritten(p), UNCHANGED <<export, exporter>>
    PROVE  PutsInv'
<1>1. /\ Types /\ Waits /\ DOMAIN put = Puts /\ DOMAIN put[p] = {"pc", "script", "results"}
      /\ DOMAIN job = Writers /\ p \in Writers /\ UNCHANGED tables
      /\ put[p].pc = "write" /\ job[p].stage \in {"ok", "failed"}
    BY IngestAssumption DEF PutsInv, Types, PutTypes, JobTypes, PutWritten
<1>2. Asked(p) /\ DOMAIN put[p].script = ScriptFields /\ Rest(p) # <<>>
    BY <1>1 DEF Types, PutTypes, Waits
<1>3. PICK r : r = [rows |-> job[p].batch, is |-> job[p].stage]
    OBVIOUS
<1>4. DOMAIN r = {"rows", "is"} /\ r.rows = job[p].batch /\ r.is = job[p].stage
    BY <1>3
<1>5. put' = [put EXCEPT ![p].pc = "stream", ![p].script.rest = Tail(put[p].script.rest),
                         ![p].results = Append(put[p].results, r)]
    BY <1>1, <1>3 DEF PutWritten
<1>6. /\ DOMAIN put' = Puts /\ \A q \in Puts \ {p} : put'[q] = put[q]
      /\ DOMAIN put'[p] = {"pc", "script", "results"} /\ DOMAIN put'[p].script = ScriptFields
      /\ put'[p].pc = "stream" /\ put'[p].script.table = put[p].script.table
      /\ put'[p].script.rest = Tail(put[p].script.rest)
      /\ put'[p].results = Append(put[p].results, r)
    BY <1>1, <1>2, <1>5 DEF ScriptFields
<1>7. job' = [job EXCEPT ![p] = NoJob]
    BY DEF PutWritten
<1>8. /\ DOMAIN job' = Writers /\ DOMAIN job'[p] = JobFields /\ job'[p].stage = "none"
      /\ \A v \in Writers \ {p} : job'[v] = job[v]
    BY <1>1, <1>7 DEF NoJob, JobFields
<1> QED
    BY <1>1, <1>2, <1>4, <1>6, <1>8, PutAnswered

(***************************************************************************)
(* The other writers                                                       *)
(***************************************************************************)

\* A writer that is no put takes a step of its own.
LEMMA OtherWriterKeeps ==
    ASSUME PutsInv, UNCHANGED <<tables, put>>, NEW o \in Writers \ Puts,
           DOMAIN job' = Writers, DOMAIN job'[o] = JobFields,
           \A v \in Writers \ {o} : job'[v] = job[v], ExportTypes', Apart'
    PROVE  PutsInv'
<1>1. Types /\ Waits /\ Distinct /\ Fresh /\ AcknowledgedOnce
    BY DEF PutsInv
<1>2. SameStores
    BY DEF SameStores
<1>3. Distinct' /\ Fresh' /\ AcknowledgedOnce'
    BY <1>1, <1>2, StillOnce
<1>4. Types'
    BY <1>1 DEF Types, PutTypes, JobTypes, TableTypes, Asked, To, Rest
<1>5. Waits'
    BY <1>1, IngestAssumption DEF Waits, Asked, To, Rest
<1>6. \A q \in Puts : /\ job'[q].stage = "run" => Runs(q)'
                      /\ put'[q].pc = "write" /\ job'[q].batch # <<>> => Moved(q)'
    BY OtherJobsKeep
<1> QED
    BY <1>3, <1>4, <1>5, <1>6 DEF PutsInv

\* What an OTLP call writes next, or has written, goes to the table of a metric.
LEMMA ExportKeeps ==
    ASSUME PutsInv, NEW o \in Exports, ExportStep(o)
    PROVE  PutsInv'
<1>1. /\ Types /\ Apart /\ DOMAIN job = Writers /\ o \in Writers \ Puts /\ DOMAIN export = Exports
      /\ DOMAIN job[o] = JobFields /\ DOMAIN export[o] = ExportFields
    <2>1. o \in Writers \ Puts
        BY IngestAssumption
    <2>2. Types /\ Apart
        BY DEF PutsInv
    <2>3. JobTypes /\ ExportTypes
        BY <2>2 DEF Types
    <2>4. DOMAIN job = Writers /\ DOMAIN job[o] = JobFields
        BY <2>1, <2>3 DEF JobTypes
    <2>5. DOMAIN export = Exports /\ DOMAIN export[o] = ExportFields
        BY <2>3 DEF ExportTypes
    <2> QED
        BY <2>1, <2>2, <2>4, <2>5
<1>2. ASSUME UNCHANGED <<tables, put, exporter>>,
             DOMAIN export' = Exports, \A x \in Exports \ {o} : export'[x] = export[x],
             DOMAIN export'[o] = ExportFields, export'[o].pc = "write" => export'[o].todo # <<>>,
             export'[o].todo = export[o].todo
                \/ (export[o].todo # <<>> /\ export'[o].todo = Tail(export[o].todo)),
             DOMAIN job' = Writers, \A v \in Writers \ {o} : job'[v] = job[v],
             DOMAIN job'[o] = JobFields,
             \/ job'[o] = job[o] \/ job'[o].stage = "none"
             \/ export[o].todo # <<>> /\ job'[o].table = Head(export[o].todo).name
      PROVE  PutsInv'
    <2>1. ExportTypes'
        BY <1>1, <1>2 DEF Types, ExportTypes, ExportFields
    <2>2. Apart'
        <3> SUFFICES ASSUME NEW p \in Puts, Asked(p)
                     PROVE  /\ \A x \in Exports : IsSeq(export'[x].todo)
                                  /\ \A i \in 1..Len(export'[x].todo) : export'[x].todo[i].name # To(p)
                            /\ exporter'.todo # <<>> => MetricsTable # To(p)
                            /\ \A w \in Writers \ Puts : job'[w].stage # "none" => job'[w].table # To(p)
            BY <1>2 DEF Apart, Asked, To
        <3>1. /\ \A x \in Exports : IsSeq(export[x].todo)
                    /\ \A i \in 1..Len(export[x].todo) : export[x].todo[i].name # To(p)
              /\ exporter.todo # <<>> => MetricsTable # To(p)
              /\ \A w \in Writers \ Puts : job[w].stage # "none" => job[w].table # To(p)
            BY <1>1 DEF Apart
        <3>2. IsSeq(export'[o].todo)
              /\ \A i \in 1..Len(export'[o].todo) : export'[o].todo[i].name # To(p)
            <4>1. CASE export'[o].todo = export[o].todo
                BY <3>1, <4>1
            <4>2. CASE export[o].todo # <<>> /\ export'[o].todo = Tail(export[o].todo)
                <5>1. /\ IsSeq(Tail(export[o].todo)) /\ Len(Tail(export[o].todo)) = Len(export[o].todo) - 1
                      /\ \A i \in 1..(Len(export[o].todo) - 1) : Tail(export[o].todo)[i] = export[o].todo[i + 1]
                      /\ Len(export[o].todo) \in Nat
                    BY <3>1, <4>2, TailIsSeq, SeqFacts
                <5> QED
                    BY <3>1, <4>2, <5>1
            <4> QED
                BY <1>2, <4>1, <4>2
        <3>3. job'[o].stage # "none" => job'[o].table # To(p)
            <4>1. CASE export[o].todo # <<>> /\ job'[o].table = Head(export[o].todo).name
                <5>1. Head(export[o].todo) = export[o].todo[1] /\ 1 \in 1..Len(export[o].todo)
                    BY <3>1, <4>1, TailIsSeq, SeqFacts
                <5> QED
                    BY <3>1, <4>1, <5>1
            <4>2. CASE job'[o] = job[o] \/ job'[o].stage = "none"
                BY <1>1, <3>1, <4>2
            <4> QED
                BY <1>2, <4>1, <4>2
        <3> QED
            BY <1>2, <3>1, <3>2, <3>3
    <2> QED
        BY <1>1, <1>2, <2>1, <2>2, OtherWriterKeeps
<1>3. CASE ExportMetric(o)
    <2>1. PICK c \in {Converted(o)} :
              LET t == Head(export[o].todo).name
                  writes == c.batch.error = None /\ is_writable(t)
                  rejects == c.batch.error = None /\ ~is_writable(t)
              IN  /\ export' = [export EXCEPT ![o] =
                        [pc |-> IF writes THEN "write" ELSE "next",
                         request |-> export[o].request,
                         todo |-> IF writes THEN export[o].todo ELSE Tail(export[o].todo),
                         count |-> c.count, total |-> export[o].total + c.count,
                         rejected |-> export[o].rejected + IF rejects THEN c.count ELSE 0,
                         lost |-> export[o].lost \cup (Ids(Head(export[o].todo).points) \
                                        (IF c.batch.error = None THEN Ids(c.batch.rows) ELSE {}))]]
                  /\ IF writes THEN Writes(o, t, c.batch.schema, c.batch.rows) ELSE UNCHANGED job
        BY <1>3, Zenon DEF ExportMetric
    <2>2. /\ UNCHANGED <<tables, put, exporter>> /\ export[o].todo # <<>>
        BY <1>3 DEF ExportMetric
    <2>3. /\ DOMAIN export' = Exports /\ \A x \in Exports \ {o} : export'[x] = export[x]
          /\ DOMAIN export'[o] = ExportFields
          /\ export'[o].pc = "write" => export'[o].todo = export[o].todo
          /\ export'[o].todo = export[o].todo \/ export'[o].todo = Tail(export[o].todo)
        BY <1>1, <2>1 DEF ExportFields
    <2>4. UNCHANGED job \/ Writes(o, Head(export[o].todo).name, c.batch.schema, c.batch.rows)
        BY <2>1
    <2>5. /\ DOMAIN job' = Writers /\ \A v \in Writers \ {o} : job'[v] = job[v]
          /\ DOMAIN job'[o] = JobFields
          /\ job'[o] = job[o] \/ job'[o].table = Head(export[o].todo).name
        BY <1>1, <2>4 DEF Writes, NoJob, JobFields
    <2> QED
        BY <1>2, <2>2, <2>3, <2>5
<1>4. CASE MetricWritten(o)
    <2>1. /\ UNCHANGED <<tables, put, exporter>> /\ job' = [job EXCEPT ![o] = NoJob]
        BY <1>4 DEF MetricWritten
    <2>2. /\ DOMAIN export' = Exports /\ \A x \in Exports \ {o} : export'[x] = export[x]
          /\ DOMAIN export'[o] = ExportFields
          /\ export'[o].todo = Tail(export[o].todo) /\ export[o].todo # <<>>
          /\ export'[o].pc = "next"
        BY <1>1, <1>4 DEF MetricWritten, Types, ExportTypes, ExportFields
    <2>3. /\ DOMAIN job' = Writers /\ \A v \in Writers \ {o} : job'[v] = job[v]
          /\ DOMAIN job'[o] = JobFields /\ job'[o].stage = "none"
        BY <1>1, <2>1 DEF NoJob, JobFields
    <2> QED
        BY <1>2, <2>1, <2>2, <2>3
<1>5. CASE Respond(o)
    <2>1. UNCHANGED <<tables, put, job, exporter>>
        BY <1>5 DEF Respond, flightVars
    <2>2. /\ DOMAIN export' = Exports /\ \A x \in Exports \ {o} : export'[x] = export[x]
          /\ DOMAIN export'[o] = ExportFields /\ export'[o].todo = export[o].todo
          /\ export'[o].pc \in {"ok", "error"}
        BY <1>1, <1>5 DEF Respond, ExportFields
    <2> QED
        BY <1>1, <1>2, <2>1, <2>2
<1> QED
    BY <1>3, <1>4, <1>5 DEF ExportStep

\* What the exporter writes goes to runtime.metrics.
LEMMA OwnKeeps ==
    ASSUME PutsInv, ExportOwn \/ OwnWritten
    PROVE  PutsInv'
<1>1. /\ Types /\ Apart /\ DOMAIN job = Writers /\ DOMAIN exporter = {"pc", "todo", "current", "exported"}
      /\ Exporter \in Writers \ Puts /\ DOMAIN job[Exporter] = JobFields
    <2>1. Exporter \in Writers \ Puts
        BY IngestAssumption
    <2> QED
        BY <2>1 DEF PutsInv, Types, JobTypes, ExportTypes
<1>2. UNCHANGED <<tables, put, export>>
    BY DEF ExportOwn, OwnWritten
<1>3. /\ DOMAIN exporter' = {"pc", "todo", "current", "exported"}
      /\ exporter'.todo # <<>> => exporter.todo # <<>>
      /\ \/ UNCHANGED job \/ job' = [job EXCEPT ![Exporter] = NoJob]
         \/ /\ exporter.todo # <<>>
            /\ \E rr : Writes(Exporter, MetricsTable, MetricsSchema, rr)
    <2>1. CASE ExportOwn
        <3>1. exporter.todo # <<>>
            BY <2>1 DEF ExportOwn
        <3>2. PICK c \in {convert(Head(exporter.todo))} :
                  /\ exporter' = [exporter EXCEPT !.todo = Tail(@), !.current = Head(exporter.todo),
                                    !.pc = CASE c.result = "ok" -> "write"
                                             [] c.result = "error" -> "next"
                                             [] c.result = "panic" -> "panicked"]
                  /\ IF c.result = "ok"
                     THEN Writes(Exporter, MetricsTable, MetricsSchema,
                                 [i \in DOMAIN c.columns.flat.name |-> ReadRow(c.columns, i)])
                     ELSE UNCHANGED job
            BY <2>1, Zenon DEF ExportOwn
        <3>3. DOMAIN exporter' = {"pc", "todo", "current", "exported"}
            BY <1>1, <3>2
        <3>4. UNCHANGED job \/ \E rr : Writes(Exporter, MetricsTable, MetricsSchema, rr)
            BY <3>2, Zenon
        <3> QED
            BY <3>1, <3>3, <3>4
    <2>2. CASE OwnWritten
        BY <1>1, <2>2 DEF OwnWritten
    <2> QED
        BY <2>1, <2>2
<1>4. /\ DOMAIN job' = Writers /\ \A v \in Writers \ {Exporter} : job'[v] = job[v]
      /\ DOMAIN job'[Exporter] = JobFields
      /\ \/ job'[Exporter] = job[Exporter] \/ job'[Exporter].stage = "none"
         \/ exporter.todo # <<>> /\ job'[Exporter].table = MetricsTable
    <2>1. CASE UNCHANGED job
        BY <1>1, <2>1
    <2>2. CASE job' = [job EXCEPT ![Exporter] = NoJob]
        BY <1>1, <2>2 DEF NoJob, JobFields
    <2>3. ASSUME exporter.todo # <<>>,
                 NEW rr, Writes(Exporter, MetricsTable, MetricsSchema, rr)
          PROVE  /\ DOMAIN job' = Writers /\ \A v \in Writers \ {Exporter} : job'[v] = job[v]
                 /\ DOMAIN job'[Exporter] = JobFields /\ job'[Exporter].table = MetricsTable
        BY <1>1, <2>3 DEF Writes, NoJob, JobFields
    <2> QED
        BY <1>3, <2>1, <2>2, <2>3
<1>5. ExportTypes'
    BY <1>1, <1>2, <1>3 DEF Types, ExportTypes
<1>6. Apart'
    <2> SUFFICES ASSUME NEW p \in Puts, Asked(p)
                 PROVE  /\ \A x \in Exports : IsSeq(export[x].todo)
                              /\ \A i \in 1..Len(export[x].todo) : export[x].todo[i].name # To(p)
                        /\ exporter'.todo # <<>> => MetricsTable # To(p)
                        /\ \A w \in Writers \ Puts : job'[w].stage # "none" => job'[w].table # To(p)
        BY <1>2 DEF Apart, Asked, To
    <2>1. /\ \A x \in Exports : IsSeq(export[x].todo)
                /\ \A i \in 1..Len(export[x].todo) : export[x].todo[i].name # To(p)
          /\ exporter.todo # <<>> => MetricsTable # To(p)
          /\ \A w \in Writers \ Puts : job[w].stage # "none" => job[w].table # To(p)
        BY <1>1 DEF Apart
    <2> QED
        BY <1>1, <1>3, <1>4, <2>1
<1> QED
    BY <1>1, <1>2, <1>4, <1>5, <1>6, OtherWriterKeeps

(***************************************************************************)
(* The invariant and the theorem                                           *)
(***************************************************************************)

\* At first nothing is stored or being written, and the batches of a case are apart.
LEMMA PutsInitially == Init => PutsInv
<1> SUFFICES ASSUME NEW c \in Cases, FlightInit(c.put, c.sub),
                    export = [o \in Exports |->
                        [pc |-> IF o \in DOMAIN c.export THEN "next" ELSE "ok",
                         request |-> IF o \in DOMAIN c.export THEN c.export[o] ELSE <<>>,
                         todo |-> IF o \in DOMAIN c.export THEN c.export[o] ELSE <<>>,
                         count |-> 0, total |-> 0, rejected |-> 0, lost |-> {}]],
                    exporter = [pc |-> "next", todo |-> c.own, current |-> <<>>, exported |-> <<>>]
             PROVE  PutsInv
    BY Zenon DEF Init
<1>1. /\ tables = [t \in DOMAIN Tables |-> Table(Tables[t])]
      /\ put = [p \in Puts |->
                  IF p \in DOMAIN c.put
                  THEN [pc |-> "first", script |-> c.put[p], results |-> <<>>]
                  ELSE [pc |-> "done", script |-> <<>>, results |-> <<>>]]
      /\ job = [w \in Writers |-> NoJob]
    BY DEF FlightInit
<1>2. IsSeq(<<>>) /\ Len(<<>>) = 0 /\ DOMAIN <<>> = {}
    BY EmptyIsSeq, SeqFacts
<1>3. \A p \in Puts : /\ DOMAIN put[p] = {"pc", "script", "results"} /\ put[p].results = <<>>
                      /\ put[p].pc \in {"first", "done"}
                      /\ IF p \in DOMAIN c.put THEN put[p].script = c.put[p]
                         ELSE put[p].pc = "done" /\ put[p].script = <<>>
    BY <1>1
<1>4. ASSUME NEW p \in Puts, Asked(p)
      PROVE  p \in DOMAIN c.put /\ To(p) = c.put[p].table /\ Rest(p) = c.put[p].rest
    BY <1>3, <1>4 DEF Asked, To, Rest
<1>5. ASSUME NEW p \in Puts, p \in DOMAIN c.put
      PROVE  /\ DOMAIN c.put[p] = ScriptFields /\ IsSeq(c.put[p].rest)
             /\ c.put[p].table \notin MetricTables(c)
    <2>1. /\ DOMAIN c.put[p] = {"first", "table", "schema", "rest"}
          /\ c.put[p].rest \in Seq(ToSet(c.put[p].rest)) /\ c.put[p].table \notin MetricTables(c)
        BY <1>5, CasesAssumption
    <2> QED
        BY <2>1, SeqIsSeq DEF ScriptFields
<1>6. PutTypes
    <2>1. \A p \in Puts : Asked(p) => DOMAIN put[p].script = ScriptFields /\ IsSeq(Rest(p))
        BY <1>3, <1>4, <1>5
    <2>2. \A p \in Puts : ~Asked(p) => put[p].pc = "done"
        <3> SUFFICES ASSUME NEW p \in Puts, p \in DOMAIN c.put
                     PROVE  Asked(p)
            BY <1>3
        <3>1. DOMAIN put[p].script # {}
            BY <1>3, <1>5 DEF ScriptFields
        <3> QED
            BY <1>2, <3>1 DEF Asked
    <2>3. DOMAIN put = Puts
        BY <1>1
    <2> QED
        BY <1>2, <1>3, <2>1, <2>2, <2>3 DEF PutTypes
<1>7. JobTypes
    BY <1>1 DEF JobTypes, NoJob, JobFields
<1>8. TableTypes
    BY <1>1, <1>2 DEF TableTypes, TableFields, Table
<1>9. ExportTypes
    BY DEF ExportTypes, ExportFields
<1>10. Types
    BY <1>6, <1>7, <1>8, <1>9 DEF Types
<1>11. \A w \in Writers : job[w].stage = "none"
    BY <1>1 DEF NoJob
<1>12. Waits
    BY <1>3, <1>11, IngestAssumption DEF Waits
<1>13. Apart
    <2> SUFFICES ASSUME NEW p \in Puts, Asked(p)
                 PROVE  /\ \A o \in Exports : IsSeq(export[o].todo)
                             /\ \A i \in 1..Len(export[o].todo) : export[o].todo[i].name # To(p)
                        /\ exporter.todo # <<>> => MetricsTable # To(p)
        BY <1>11 DEF Apart
    <2>1. To(p) \notin MetricTables(c) /\ p \in DOMAIN c.put
        BY <1>4, <1>5
    <2>2. ASSUME NEW o \in Exports
          PROVE  IsSeq(export[o].todo)
                 /\ \A i \in 1..Len(export[o].todo) : export[o].todo[i].name # To(p)
        <3>1. CASE o \notin DOMAIN c.export
            BY <1>2, <3>1
        <3>2. CASE o \in DOMAIN c.export
            <4>1. export[o].todo = c.export[o] /\ c.export[o] \in Seq(ToSet(c.export[o]))
                BY <2>1, <3>2, CasesAssumption
            <4>2. IsSeq(c.export[o]) /\ DOMAIN c.export[o] = 1..Len(c.export[o])
                BY <4>1, SeqIsSeq, SeqFacts
            <4>3. \A i \in DOMAIN c.export[o] : c.export[o][i].name \in MetricTables(c)
                BY <3>2 DEF MetricTables, ToSet
            <4> QED
                BY <2>1, <4>1, <4>2, <4>3
        <3> QED
            BY <3>1, <3>2
    <2>3. ASSUME exporter.todo # <<>>
          PROVE  MetricsTable # To(p)
        <3>1. c.own # <<>> /\ c.own \in Seq(ToSet(c.own))
            BY <2>1, <2>3, CasesAssumption
        <3>2. IsSeq(c.own)
            BY <3>1, SeqIsSeq
        <3>3. 1 \in DOMAIN c.own
            BY <3>1, <3>2, TailIsSeq, SeqFacts
        <3>4. MetricsTable \in MetricTables(c)
            BY <3>3 DEF MetricTables, ToSet
        <3> QED
            BY <2>1, <3>4
    <2> QED
        BY <2>2, <2>3
<1>14. Distinct
    <2> SUFFICES ASSUME NEW p \in Puts, NEW i \in Nat, Named(p, i),
                        NEW q \in Puts, Asked(q), To(q) = To(p)
                 PROVE  \A j \in 1..Len(Rest(q)) : Rest(q)[j].rows = Rest(p)[i].rows => q = p /\ j = i
        BY <1>2, <1>3 DEF Distinct
    <2>1. /\ Asked(p) /\ p \in DOMAIN c.put /\ q \in DOMAIN c.put
          /\ Rest(p) = c.put[p].rest /\ Rest(q) = c.put[q].rest /\ c.put[q].table = c.put[p].table
        BY <1>4 DEF Named
    <2>2. DOMAIN Rest(p) = 1..Len(Rest(p)) /\ DOMAIN Rest(q) = 1..Len(Rest(q))
        BY <1>5, <2>1, SeqFacts
    <2>3. i \in DOMAIN Rest(p) /\ Rest(p)[i].is = "batch" /\ Rest(p)[i].rows # <<>>
        BY <2>2 DEF Named
    <2> QED
        BY <2>1, <2>2, <2>3, CasesAssumption
<1>15. \A t \in DOMAIN Tables : \A X : Times(t, X) = 0
    <2> SUFFICES ASSUME NEW t \in DOMAIN Tables, NEW X
                 PROVE  Times(t, X) = 0
        OBVIOUS
    <2>1. tables[t].accelerator = <<>> /\ tables[t].source = <<>>
        BY <1>1 DEF Table
    <2>2. Copies(t, "accelerator", X) = Cardinality({}) /\ Copies(t, "source", X) = Cardinality({})
        BY <1>2, <2>1 DEF Copies
    <2> QED
        BY <2>2, FS_EmptySet DEF Times
<1>16. Fresh /\ AcknowledgedOnce
    BY <1>2, <1>3, <1>15 DEF Fresh, AcknowledgedOnce
<1>17. \A p \in Puts : job[p].stage = "none" /\ put[p].pc # "write"
    BY <1>3, <1>11, IngestAssumption
<1> QED
    BY <1>10, <1>12, <1>13, <1>14, <1>16, <1>17 DEF PutsInv

\* Every step of a client, of a job or of a table keeps it.
LEMMA PutsStep == PutsInv /\ [Next]_vars => PutsInv'
<1> SUFFICES ASSUME PutsInv, [Next]_vars
             PROVE  PutsInv'
    OBVIOUS
<1>1. TableTypes
    BY DEF PutsInv, Types
<1>2. ASSUME UNCHANGED <<tables, put, job, export, exporter>>
      PROVE  PutsInv'
    <2>1. SameStores /\ TableTypes'
        BY <1>1, <1>2 DEF SameStores, TableTypes
    <2> QED
        BY <1>2, <2>1, OthersKeep
<1>3. ASSUME NEW p \in Puts, PutStep(p), UNCHANGED <<export, exporter>>
      PROVE  PutsInv'
    BY <1>3, PutFirstKeeps, PutNextKeeps, PutWrittenKeeps DEF PutStep
<1>4. ASSUME NEW w \in Writers, WriteStep(w), UNCHANGED <<export, exporter>>
      PROVE  PutsInv'
    <2>1. CASE PlanInsert(w) \/ Collected(w)
        BY <1>4, <2>1, PlanInsertKeeps, CollectedKeeps
    <2>2. ASSUME NEW b \in ToSet(Branches), ReadInput(w, b) \/ Store(w, b) \/ StoreFails(w, b)
          PROVE  PutsInv'
        <3>1. b \in {"accelerator", "source"}
            BY DEF Branches, ToSet
        <3> QED
            BY <1>4, <2>2, <3>1, ReadInputKeeps, StoreKeeps, StoreFailsKeeps
    <2> QED
        BY <1>4, <2>1, <2>2 DEF WriteStep
<1>5. ASSUME NEW s, SubscriberStep(s) \/ TaskStep(s) \/ Leave(s), UNCHANGED <<export, exporter>>
      PROVE  PutsInv'
    <2>1. UNCHANGED <<tables, put, job>>
        BY <1>5 DEF SubscriberStep, TaskStep, Leave, Subscribe, MakeChannel, Receive, ReadTable, SendBatch
    <2> QED
        BY <1>2, <1>5, <2>1
<1>6. ASSUME NEW s, ReplicaStep(s), UNCHANGED <<export, exporter>>
      PROVE  PutsInv'
    <2>1. UNCHANGED <<tables, put, job>>
        BY <1>6 DEF ReplicaStep, WriteRow, WriteChangeFails, flightVars
    <2> QED
        BY <1>2, <1>6, <2>1
<1>7. ASSUME NEW t \in DOMAIN Tables, RemoveTable(t), UNCHANGED <<export, exporter>>
      PROVE  PutsInv'
    <2>1. UNCHANGED <<put, job>> /\ tables' = [tables EXCEPT ![t].exists = FALSE]
        BY <1>7 DEF RemoveTable
    <2>2. SameStores /\ TableTypes'
        BY <1>1, <2>1 DEF SameStores, TableTypes, TableFields
    <2> QED
        BY <1>7, <2>1, <2>2, OthersKeep
<1>8. CASE UNCHANGED vars
    BY <1>2, <1>8 DEF vars, flightVars
<1>9. CASE Next
    BY <1>3, <1>4, <1>5, <1>6, <1>7, <1>9, ExportKeeps, OwnKeeps DEF Next
<1> QED
    BY <1>8, <1>9

\* However DoPut calls, OTLP calls, the exporter, subscribers and the removal of datasets
\* interleave and whichever inserts fail, a batch that a DoPut call was answered with a
\* result for is stored in one place exactly, and one it was answered with an error for in
\* one at most: the branches of insert_into never store the same rows twice.
THEOREM AcknowledgedOnceHolds == Spec => []AcknowledgedOnce
<1>1. PutsInv => AcknowledgedOnce
    BY DEF PutsInv
<1> QED
    BY <1>1, PutsInitially, PutsStep, PTL DEF Spec

(***************************************************************************)
(* What was exported                                                       *)
(***************************************************************************)

\* The metrics a call is done with.
Done(o) == Len(export[o].request) - Len(export[o].todo)
Indices(o) == 1..Len(export[o].request)
Metric(o, j) == export[o].request[j]

\* What is in the table of a metric, if there is one; and that no point of it is.
Held(m) == IF m.name \in DOMAIN Tables THEN RowIds(m.name) ELSE {}
Absent(m) == Ids(m.points) \cap Held(m) = {}
\* The points of the metrics a call is done with.
Settled(o) == IF export[o].pc = "write" THEN export[o].total - export[o].count ELSE export[o].total

CallTypes(o) ==
    /\ IsSeq(export[o].request) /\ IsSeq(export[o].todo)
    /\ Len(export[o].todo) <= Len(export[o].request)
    /\ \A i \in 1..Len(export[o].todo) : export[o].todo[i] = Metric(o, Done(o) + i)
    /\ \A j \in Indices(o) : IsSeq(Metric(o, j).points)
    /\ export[o].count \in Nat /\ export[o].total \in Nat /\ export[o].rejected \in Nat
    /\ export[o].pc \in {"next", "write", "ok", "error"}
    /\ export[o].pc \in {"ok", "error"} => Len(export[o].todo) = 0
    /\ export[o].pc = "write" => Len(export[o].todo) > 0

\* What the numbers say of the metrics a call is done with.
Counts(o) ==
    /\ Settled(o) \in Nat /\ export[o].rejected <= Settled(o)
    /\ export[o].pc = "error" => export[o].rejected >= export[o].total
    /\ export[o].rejected = Settled(o) => \A j \in 1..Done(o) : Absent(Metric(o, j))
    /\ export[o].rejected = 0 =>
          \A j \in 1..Done(o) :
              Ids(Metric(o, j).points) \ export[o].lost \subseteq Held(Metric(o, j))

\* What is not written yet is not stored.
AwaitsTurn(o) ==
    \A j \in Indices(o) :
        j > Done(o) /\ ~(export[o].pc = "write" /\ j = Done(o) + 1) => Absent(Metric(o, j))

\* The batch of a metric is what is left of its points, and it is stored once the branch
\* of the accelerator is done.
Sinks(o, m) ==
    LET b == job[o].branch IN
    /\ DOMAIN b = {"accelerator", "source"}
    /\ b["source"] \in {"start", "done"} /\ b["accelerator"] \in {"start", "rows", "done"}
    /\ b["accelerator"] = "start" => job[o].shared = <<job[o].batch>>
    /\ IF b["accelerator"] = "done" THEN Ids(job[o].batch) \subseteq Held(m) ELSE Absent(m)
WritesMetric(o) ==
    LET m == Metric(o, Done(o) + 1) IN
    IF export[o].pc # "write" THEN job[o].stage = "none"
    ELSE /\ job[o].stage \in {"plan", "run", "ok", "failed"}
         /\ job[o].table = m.name /\ m.name \in DOMAIN Tables
         /\ IsSeq(job[o].batch) /\ Ids(job[o].batch) \subseteq Ids(m.points)
         /\ Ids(m.points) \ export[o].lost \subseteq Ids(job[o].batch)
         /\ export[o].count = Len(m.points)
         /\ job[o].stage \in {"plan", "failed"} => Absent(m)
         /\ job[o].stage = "run" => Sinks(o, m)
         /\ job[o].stage = "ok" => Ids(job[o].batch) \subseteq Held(m)

\* The tables of the metrics, and who does not write to them.
Sunk ==
    \A o \in Exports : \A j \in Indices(o) :
        LET t == Metric(o, j).name IN
        /\ t \in DOMAIN Tables => /\ Tables[t].kind = "sink"
                                  /\ \A i \in DOMAIN tables[t].accelerator : IsSeq(tables[t].accelerator[i])
        /\ \A p \in Puts : Asked(p) => To(p) # t
        /\ exporter.todo # <<>> => MetricsTable # t
        /\ \A w \in Writers \ Exports : job[w].stage # "none" => job[w].table # t

\* A point is of one metric.
Disjoint ==
    \A o, x \in Exports : \A i \in Indices(o), j \in Indices(x) :
        Ids(Metric(o, i).points) \cap Ids(Metric(x, j).points) # {} => x = o /\ j = i

CallInv(o) == CallTypes(o) /\ Counts(o) /\ AwaitsTurn(o) /\ WritesMetric(o)
ExportsInv == Sunk /\ Disjoint /\ \A o \in Exports : CallInv(o)

(***************************************************************************)
(* Numbers, and sequences of sequences                                     *)
(***************************************************************************)

\* Some member of a set of numbers is the least.
LEMMA LeastMember ==
    ASSUME NEW S \in SUBSET Nat, S # {}
    PROVE  \E m \in S : \A k \in S : m <= k
<1>1. PICK m \in S : \A k \in S : ~(<<k, m>> \in OpToRel(<, Nat))
    BY NatLessThanWellFounded, WFMin
<1>2. ASSUME NEW k \in S
      PROVE  m <= k
    <2>1. <<k, m>>[1] < <<k, m>>[2] => <<k, m>> \in OpToRel(<, Nat)
        BY Zenon DEF OpToRel
    <2>2. ~(k < m)
        BY <1>1, <2>1
    <2> QED
        BY <2>2
<1> QED
    BY <1>2

\* A set with zero and the successor of each of its numbers has all of them.
LEMMA AllNumbers ==
    ASSUME NEW S, 0 \in S, \A n \in Nat : n \in S => n + 1 \in S
    PROVE  \A n \in Nat : n \in S
<1> DEFINE others == Nat \ S
<1>1. SUFFICES ASSUME others # {}
               PROVE  FALSE
    OBVIOUS
<1>2. PICK m \in others : \A k \in others : m <= k
    BY <1>1, LeastMember
<1>3. m \in Nat /\ m # 0 /\ m - 1 \in Nat /\ (m - 1) + 1 = m
    BY <1>2
<1>4. m - 1 \in S
    BY <1>2, <1>3
<1> QED
    BY <1>2, <1>3, <1>4

\* Two sequences one after the other.
LEMMA ConcatIsSeq ==
    ASSUME NEW s, IsSeq(s), NEW t, IsSeq(t)
    PROVE  IsSeq(s \o t) /\ Range(s \o t) = Range(s) \cup Range(t)
<1> DEFINE S == Range(s) \cup Range(t)
<1>1. s \in Seq(S) /\ t \in Seq(S)
    BY SeqMonotonic DEF IsSeq
<1>2. /\ s \o t \in Seq(S) /\ Len(s \o t) = Len(s) + Len(t)
      /\ \A i \in 1..(Len(s) + Len(t)) :
            (s \o t)[i] = IF i <= Len(s) THEN s[i] ELSE t[i - Len(s)]
    BY <1>1, ConcatProperties
<1>3. /\ Len(s) \in Nat /\ Len(t) \in Nat /\ DOMAIN s = 1..Len(s) /\ DOMAIN t = 1..Len(t)
      /\ DOMAIN (s \o t) = 1..(Len(s) + Len(t))
    BY <1>1, <1>2, LenProperties
<1>4. Range(s \o t) \subseteq S
    BY <1>2, <1>3 DEF Range
<1>5. ASSUME NEW x \in Range(s)
      PROVE  x \in Range(s \o t)
    <2>1. PICK i \in 1..Len(s) : s[i] = x
        BY <1>3 DEF Range
    <2>2. i \in 1..(Len(s) + Len(t)) /\ (s \o t)[i] = x
        BY <1>2, <1>3, <2>1
    <2> QED
        BY <1>3, <2>2 DEF Range
<1>6. ASSUME NEW x \in Range(t)
      PROVE  x \in Range(s \o t)
    <2>1. PICK i \in 1..Len(t) : t[i] = x
        BY <1>3 DEF Range
    <2>2. i + Len(s) \in 1..(Len(s) + Len(t)) /\ (s \o t)[i + Len(s)] = x
        BY <1>2, <1>3, <2>1
    <2> QED
        BY <1>3, <2>2 DEF Range
<1>7. IsSeq(s \o t)
    BY <1>2, SeqIsSeq
<1> QED
    BY <1>4, <1>5, <1>6, <1>7

\* The recursion of FlattenSeq, up to k.
IsFlat(ss, k, f) == f = [i \in 1..k |-> IF i = 1 THEN ss[i] ELSE f[i - 1] \o ss[i]]

\* It has a solution.
LEMMA FlatExists ==
    ASSUME NEW ss, NEW n \in Nat
    PROVE  \E f : IsFlat(ss, n, f)
<1> DEFINE Reached == {k \in Nat : \E f : IsFlat(ss, k, f)}
<1>1. 0 \in Reached
    <2> DEFINE f == [i \in 1..0 |-> ss[i]]
               g == [i \in 1..0 |-> IF i = 1 THEN ss[i] ELSE f[i - 1] \o ss[i]]
    <2>1. f = g
        OBVIOUS
    <2> HIDE DEF f
    <2>2. IsFlat(ss, 0, f)
        BY <2>1 DEF IsFlat
    <2> QED
        BY <2>2
<1>2. ASSUME NEW k \in Nat, k \in Reached
      PROVE  k + 1 \in Reached
    <2>1. PICK f : IsFlat(ss, k, f)
        BY <1>2
    <2> DEFINE g == [i \in 1..(k + 1) |->
                        IF i <= k THEN f[i] ELSE IF i = 1 THEN ss[i] ELSE f[i - 1] \o ss[i]]
    <2>2. \A i \in 1..k : f[i] = IF i = 1 THEN ss[i] ELSE f[i - 1] \o ss[i]
        BY <2>1 DEF IsFlat
    <2>3. ASSUME NEW i \in 1..(k + 1)
          PROVE  g[i] = IF i = 1 THEN ss[i] ELSE g[i - 1] \o ss[i]
        <3>1. CASE i = 1
            <4>1. g[i] = ss[i]
                BY <2>2, <3>1
            <4> HIDE DEF g
            <4> QED
                BY <3>1, <4>1
        <3>2. CASE i # 1
            <4>1. i - 1 \in 1..(k + 1) /\ i - 1 <= k /\ (i <= k => i \in 1..k)
                BY <3>2
            <4>2. g[i - 1] = f[i - 1]
                BY <4>1
            <4>3. g[i] = f[i - 1] \o ss[i]
                BY <2>2, <3>2, <4>1
            <4> HIDE DEF g
            <4> QED
                BY <3>2, <4>2, <4>3
        <3> QED
            BY <3>1, <3>2
    <2>4. g = [i \in 1..(k + 1) |-> g[i]]
        OBVIOUS
    <2> HIDE DEF g
    <2>5. g = [i \in 1..(k + 1) |-> IF i = 1 THEN ss[i] ELSE g[i - 1] \o ss[i]]
        BY <2>3, <2>4
    <2>6. IsFlat(ss, k + 1, g)
        BY <2>5, Zenon DEF IsFlat
    <2> QED
        BY <2>6
<1> HIDE DEF Reached
<1>3. n \in Reached
    BY <1>1, <1>2, AllNumbers
<1> QED
    BY <1>3 DEF Reached

\* What a flattened sequence has: what its sequences have.
LEMMA FlattenRange ==
    ASSUME NEW ss, IsSeq(ss), \A i \in DOMAIN ss : IsSeq(ss[i])
    PROVE  /\ IsSeq(FlattenSeq(ss))
           /\ Range(FlattenSeq(ss)) = UNION {Range(ss[i]) : i \in DOMAIN ss}
<1>1. PICK n : n = Len(ss)
    OBVIOUS
<1>2. n \in Nat /\ DOMAIN ss = 1..n
    BY <1>1, SeqFacts
<1>3. CASE n = 0
    <2>1. FlattenSeq(ss) = ss
        BY <1>1, <1>3 DEF FlattenSeq
    <2>2. DOMAIN ss = {}
        BY <1>2, <1>3
    <2>3. Range(ss) = {} /\ UNION {Range(ss[i]) : i \in DOMAIN ss} = {}
        BY <2>2 DEF Range
    <2> QED
        BY <2>1, <2>3
<1>4. CASE n > 0
    <2> DEFINE f == CHOOSE f : IsFlat(ss, n, f)
    <2>1. IsFlat(ss, n, f)
        BY <1>2, FlatExists
    <2>2. FlattenSeq(ss) = f[n]
        <3>1. n # 0
            BY <1>2, <1>4
        <3> QED
            BY <1>1, <3>1, Zenon DEF FlattenSeq, IsFlat
    <2> HIDE DEF f
    <2>3. \A i \in 1..n : f[i] = IF i = 1 THEN ss[i] ELSE f[i - 1] \o ss[i]
        BY <2>1 DEF IsFlat
    <2> DEFINE Upto(k) == UNION {Range(ss[i]) : i \in 1..k}
               Good == {k \in Nat : k + 1 \in 1..n => IsSeq(f[k + 1]) /\ Range(f[k + 1]) = Upto(k + 1)}
    <2>4. 0 \in Good
        <3>1. 0 + 1 = 1 /\ 1 \in 1..n
            BY <1>2, <1>4
        <3>2. f[1] = ss[1] /\ IsSeq(ss[1])
            BY <1>2, <2>3, <3>1
        <3>3. Upto(1) = Range(ss[1])
            OBVIOUS
        <3> HIDE DEF Upto
        <3> QED
            BY <3>1, <3>2, <3>3
    <2>5. ASSUME NEW k \in Nat, k \in Good
          PROVE  k + 1 \in Good
        <3>1. SUFFICES ASSUME k + 2 \in 1..n
                       PROVE  IsSeq(f[k + 2]) /\ Range(f[k + 2]) = Upto(k + 2)
            <4>1. (k + 1) + 1 = k + 2
                OBVIOUS
            <4> HIDE DEF Upto
            <4> QED
                BY <3>1, <4>1
        <3>2. k + 1 \in 1..n /\ k + 2 # 1 /\ (k + 2) - 1 = k + 1
            BY <1>2, <3>1
        <3>3. IsSeq(f[k + 1]) /\ Range(f[k + 1]) = Upto(k + 1)
            <4> HIDE DEF Upto
            <4> QED
                BY <2>5, <3>2
        <3>4. f[k + 2] = f[k + 1] \o ss[k + 2] /\ IsSeq(ss[k + 2])
            BY <1>2, <2>3, <3>1, <3>2
        <3>5. IsSeq(f[k + 2]) /\ Range(f[k + 2]) = Range(f[k + 1]) \cup Range(ss[k + 2])
            BY <3>3, <3>4, ConcatIsSeq
        <3>6. Upto(k + 2) = Upto(k + 1) \cup Range(ss[k + 2])
            <4>1. \A i : i \in 1..(k + 2) <=> i \in 1..(k + 1) \/ i = k + 2
                OBVIOUS
            <4> QED
                BY <4>1, Zenon
        <3> HIDE DEF Upto
        <3> QED
            BY <3>3, <3>5, <3>6
    <2>6. \A k \in Nat : k \in Good
        <3> HIDE DEF Good
        <3> QED
            BY <2>4, <2>5, AllNumbers
    <2>7. n - 1 \in Nat /\ (n - 1) + 1 = n /\ n \in 1..n
        BY <1>2, <1>4
    <2>8. IsSeq(f[n]) /\ Range(f[n]) = Upto(n)
        <3> HIDE DEF Upto
        <3> QED
            BY <2>6, <2>7
    <2> QED
        BY <1>2, <2>2, <2>8
<1> QED
    BY <1>2, <1>3, <1>4

(***************************************************************************)
(* The points that are kept                                                *)
(***************************************************************************)

\* What has been made of the points of a metric so far.
KeepsOf(points, acc) ==
    /\ DOMAIN acc = {"failed", "type", "kept"}
    /\ IsSeq(acc.kept) /\ Range(acc.kept) \subseteq Range(points)

\* One point more.
LEMMA KeepOneMore ==
    ASSUME NEW points, NEW acc, KeepsOf(points, acc), NEW p \in Range(points)
    PROVE  KeepsOf(points, KeepPoint(acc, p))
<1> DEFINE more == Append(acc.kept, p)
           to == KeepPoint(acc, p)
<1>1. /\ IsSeq(more) /\ Len(more) = Len(acc.kept) + 1
      /\ \A i \in 1..Len(acc.kept) : more[i] = acc.kept[i]
      /\ more[Len(acc.kept) + 1] = p
    BY AppendIsSeq DEF KeepsOf
<1>2. Len(acc.kept) \in Nat /\ DOMAIN acc.kept = 1..Len(acc.kept) /\ DOMAIN more = 1..Len(more)
    BY <1>1, SeqFacts DEF KeepsOf
<1>3. Range(more) \subseteq Range(points)
    <2>1. \A i \in 1..Len(acc.kept) : acc.kept[i] \in Range(points)
        BY <1>2 DEF KeepsOf, Range
    <2> HIDE DEF more
    <2>2. \A i \in 1..(Len(acc.kept) + 1) : more[i] \in Range(points)
        BY <1>1, <1>2, <2>1
    <2> QED
        BY <1>1, <1>2, <2>2 DEF Range
<1>4. \/ to = acc \/ to = [acc EXCEPT !.failed = TRUE]
      \/ \E t : to = [acc EXCEPT !.kept = more, !.type = t]
    BY DEF KeepPoint
<1> HIDE DEF more, to
<1>5. DOMAIN to = {"failed", "type", "kept"} /\ to.kept \in {acc.kept, more}
    BY <1>4 DEF KeepsOf
<1>6. KeepsOf(points, to)
    BY <1>1, <1>3, <1>5 DEF KeepsOf
<1> QED
    BY <1>6 DEF to

\* The recursion of the fold, over the sets of indices.
KeepStep(base, ps, f, s) == IF s = {} THEN base ELSE KeepPoint(f[s \ {Max(s)}], ps[Max(s)])
IsKeeping(base, ps, k, f) == f = [s \in SUBSET (1..k) |-> KeepStep(base, ps, f, s)]

\* It has a solution: over the sets of k + 1 indices from that over the sets of k.
LEMMA KeepingExists ==
    ASSUME NEW base, NEW ps, NEW n \in Nat
    PROVE  \E f : IsKeeping(base, ps, n, f)
<1> DEFINE Reached == {k \in Nat : \E f : IsKeeping(base, ps, k, f)}
<1>1. 0 \in Reached
    <2> DEFINE f == [s \in SUBSET (1..0) |-> base]
    <2>1. \A s \in SUBSET (1..0) : KeepStep(base, ps, f, s) = base
        BY DEF KeepStep
    <2>2. f = [s \in SUBSET (1..0) |-> KeepStep(base, ps, f, s)]
        <3> HIDE DEF f
        <3>1. f = [s \in SUBSET (1..0) |-> base]
            BY DEF f
        <3> QED
            BY <2>1, <3>1
    <2> QED
        BY <2>2 DEF IsKeeping
<1>2. ASSUME NEW k \in Nat, k \in Reached
      PROVE  k + 1 \in Reached
    <2>1. PICK f : IsKeeping(base, ps, k, f)
        BY <1>2
    <2> DEFINE small == SUBSET (1..k)
               big == SUBSET (1..(k + 1))
               g == [s \in big |-> IF k + 1 \in s THEN KeepPoint(f[s \ {k + 1}], ps[k + 1]) ELSE f[s]]
    <2>2. ASSUME NEW s \in small
          PROVE  f[s] = KeepStep(base, ps, f, s)
        BY <2>1, <2>2 DEF IsKeeping
    <2>3. ASSUME NEW s \in big
          PROVE  g[s] = KeepStep(base, ps, g, s)
        <3>1. CASE k + 1 \in s
            <4>1. Max(s) = k + 1
                <5>1. \A y \in s : k + 1 >= y
                    OBVIOUS
                <5>2. \A x \in s : (\A y \in s : x >= y) => x = k + 1
                    BY <3>1
                <5> QED
                    BY <3>1, <5>1, <5>2 DEF Max
            <4>2. s \ {k + 1} \in big /\ k + 1 \notin s \ {k + 1}
                OBVIOUS
            <4>3. g[s \ {k + 1}] = f[s \ {k + 1}] /\ g[s] = KeepPoint(f[s \ {k + 1}], ps[k + 1])
                BY <3>1, <4>2
            <4> HIDE DEF g
            <4> QED
                BY <3>1, <4>1, <4>3 DEF KeepStep
        <3>2. CASE k + 1 \notin s
            <4>1. s \in small /\ g[s] = f[s]
                BY <3>2
            <4>2. f[s] = KeepStep(base, ps, f, s)
                BY <2>2, <4>1
            <4>3. s # {} => g[s \ {Max(s)}] = f[s \ {Max(s)}]
                BY <3>2
            <4> HIDE DEF g
            <4> QED
                BY <4>1, <4>2, <4>3 DEF KeepStep
        <3> QED
            BY <3>1, <3>2
    <2>4. g = [s \in big |-> g[s]]
        OBVIOUS
    <2>5. IsKeeping(base, ps, k + 1, g)
        <3> HIDE DEF g
        <3> QED
            BY <2>3, <2>4 DEF IsKeeping
    <2> QED
        BY <2>5
<1> HIDE DEF Reached
<1>3. n \in Reached
    BY <1>1, <1>2, AllNumbers
<1> QED
    BY <1>3 DEF Reached

\* KeptPoints keeps some of the points.
LEMMA KeptAreOfThem ==
    ASSUME NEW points, IsSeq(points), NEW known
    PROVE  KeepsOf(points, KeptPoints(points, known))
<1> DEFINE base == [failed |-> FALSE, type |-> known, kept |-> <<>>]
           n == Len(points)
           f == CHOOSE f : IsKeeping(base, points, n, f)
<1>1. n \in Nat /\ DOMAIN points = 1..n
    BY SeqFacts
<1>2. KeptPoints(points, known) = f[1..n]
    <2>1. DOMAIN points = 1..Len(points)
        BY <1>1
    <2> QED
        BY <2>1, Zenon DEF KeptPoints, FoldLeft, MapThenFoldSet, IsKeeping, KeepStep
<1> HIDE DEF n, base
<1>3. IsKeeping(base, points, n, f)
    BY <1>1, KeepingExists
<1> HIDE DEF f
<1>4. \A s \in SUBSET (1..n) : f[s] = KeepStep(base, points, f, s)
    BY <1>3 DEF IsKeeping
<1> DEFINE Good == {k \in Nat : k <= n => KeepsOf(points, f[1..k])}
<1>5. 0 \in Good
    <2>1. 1..0 = {} /\ f[{}] = base
        BY <1>4 DEF KeepStep
    <2>2. KeepsOf(points, base)
        <3>1. IsSeq(<<>>) /\ DOMAIN <<>> = {}
            BY EmptyIsSeq, SeqFacts
        <3>2. DOMAIN base = {"failed", "type", "kept"} /\ base.kept = <<>>
            BY DEF base
        <3>3. Range(base.kept) = {}
            BY <3>1, <3>2 DEF Range
        <3> QED
            BY <3>1, <3>2, <3>3 DEF KeepsOf
    <2> QED
        BY <2>1, <2>2
<1>6. ASSUME NEW k \in Nat, k \in Good
      PROVE  k + 1 \in Good
    <2>1. SUFFICES ASSUME k + 1 <= n
                   PROVE  KeepsOf(points, f[1..(k + 1)])
        OBVIOUS
    <2>2. KeepsOf(points, f[1..k])
        BY <1>1, <1>6, <2>1
    <2>3. Max(1..(k + 1)) = k + 1 /\ (1..(k + 1)) \ {k + 1} = 1..k
        <3>1. \A y \in 1..(k + 1) : k + 1 >= y
            OBVIOUS
        <3>2. \A x \in 1..(k + 1) : (\A y \in 1..(k + 1) : x >= y) => x = k + 1
            OBVIOUS
        <3> QED
            BY <3>1, <3>2 DEF Max
    <2>4. f[1..(k + 1)] = KeepPoint(f[1..k], points[k + 1])
        <3>1. 1..(k + 1) \in SUBSET (1..n) /\ 1..(k + 1) # {}
            <4>1. \A i \in 1..(k + 1) : i \in 1..n
                BY <1>1, <2>1
            <4>2. 1 \in 1..(k + 1)
                OBVIOUS
            <4> QED
                BY <4>1, <4>2, Zenon
        <3> QED
            BY <1>4, <2>3, <3>1 DEF KeepStep
    <2>5. points[k + 1] \in Range(points)
        BY <1>1, <2>1 DEF Range
    <2> QED
        BY <2>2, <2>4, <2>5, KeepOneMore
<1>7. n \in Good
    <2> HIDE DEF Good
    <2> QED
        BY <1>1, <1>5, <1>6, AllNumbers
<1> QED
    BY <1>1, <1>2, <1>7

\* The ids of the points of a sequence.
LEMMA IdsOfRange ==
    ASSUME NEW points
    PROVE  Ids(points) = {p.id : p \in Range(points)}
BY DEF Ids, Range

\* A batch has points of its metric, and the count of one that has a batch is theirs.
LEMMA ConvertedFacts ==
    ASSUME NEW m, IsSeq(m.points), NEW schema
    PROVE  LET c == metric_data_to_record_batch(m, schema) IN
           /\ c.count \in Nat
           /\ c.batch.error = None => /\ c.count = Len(m.points)
                                      /\ IsSeq(c.batch.rows) /\ Ids(c.batch.rows) \subseteq Ids(m.points)
<1> DEFINE c == metric_data_to_record_batch(m, schema)
           known == IF schema = None THEN None ELSE schema.value
           acc == KeptPoints(m.points, known)
<1>1. KeepsOf(m.points, acc)
    BY KeptAreOfThem
<1>2. Len(m.points) \in Nat
    BY SeqFacts
<1>3. CASE m.kind \notin {"Gauge", "Sum"}
    <2>1. c.count = 0 /\ c.batch.error = "UnsupportedMetricDataType"
        BY <1>3 DEF metric_data_to_record_batch, Failure
    <2> HIDE DEF c
    <2>2. None # "UnsupportedMetricDataType"
        BY NoneAssumption DEF Failures
    <2>3. c.count \in Nat /\ c.batch.error # None
        BY <2>1, <2>2
    <2> QED
        BY <2>3 DEF c
<1>4. CASE m.kind \in {"Gauge", "Sum"}
    <2>1. c.count = Len(m.points) /\ c.batch = number_data_points_to_record_batch(m.points, schema)
        BY <1>4 DEF metric_data_to_record_batch
    <2>2. ASSUME c.batch.error = None
          PROVE  /\ DOMAIN c.batch.rows = DOMAIN acc.kept
                 /\ \A i \in DOMAIN acc.kept : c.batch.rows[i].id = acc.kept[i].id
                 /\ c.batch.rows = [i \in DOMAIN acc.kept |-> c.batch.rows[i]]
        <3> DEFINE b == attributes_to_fields_and_columns(acc.kept, schema)
                   Cells(i) == [k \in DOMAIN b.columns |-> b.columns[k].cells[i]]
                   made == [i \in DOMAIN acc.kept |->
                               [id |-> acc.kept[i].id, value |-> acc.kept[i].value,
                                attributes |-> Cells(i)]]
        <3>1. \/ \E e \in Failures : c.batch = Failure(e)
              \/ \E s : c.batch = [error |-> None, schema |-> s, rows |-> made]
            <4>1. number_data_points_to_record_batch(m.points, schema) =
                    IF known \notin ValueTypes \cup {None}
                    THEN Failure("UnsupportedExistingMetricValueColumnType")
                    ELSE IF acc.failed THEN Failure("FirstMetricDataPointHasNoValue")
                    ELSE IF acc.type = None THEN Failure("MetricWithNoDataPoints")
                    ELSE IF \/ DOMAIN b.fields # DOMAIN b.columns
                            \/ \E k \in DOMAIN b.columns :
                                   \/ Len(b.columns[k].cells) # Len(acc.kept)
                                   \/ b.columns[k].type # b.fields[k]
                    THEN Failure("FailedToBuildRecordBatch")
                    ELSE    [error |-> None,
                             schema |-> [value |-> acc.type,
                                         attributes |-> [i \in DOMAIN b.order |->
                                            [key |-> b.order[i], type |-> b.fields[b.order[i]]]]],
                             rows |-> made]
                BY Zenon DEF number_data_points_to_record_batch
            <4> HIDE DEF c, b, made, acc, known
            <4> QED
                BY <2>1, <4>1, Zenon DEF Failures
        <3> HIDE DEF c, b, Cells, made, acc
        <3>2. \A e \in Failures : e # None
            BY NoneAssumption
        <3>3. c.batch.rows = made
            <4>1. ASSUME NEW e \in Failures, c.batch = Failure(e)
                  PROVE  FALSE
                <5>1. c.batch.error = e
                    BY <4>1 DEF Failure
                <5> QED
                    BY <2>2, <3>2, <5>1
            <4>2. ASSUME NEW s, c.batch = [error |-> None, schema |-> s, rows |-> made]
                  PROVE  c.batch.rows = made
                BY <4>2
            <4> QED
                BY <3>1, <4>1, <4>2, Zenon
        <3> QED
            BY <3>3 DEF made
    <2> HIDE DEF c, acc
    <2>3. ASSUME c.batch.error = None
          PROVE  IsSeq(c.batch.rows) /\ Ids(c.batch.rows) \subseteq Ids(m.points)
        <3>1. IsSeq(acc.kept) /\ Range(acc.kept) \subseteq Range(m.points)
            BY <1>1 DEF KeepsOf
        <3>2. Len(acc.kept) \in Nat /\ DOMAIN acc.kept = 1..Len(acc.kept)
            BY <3>1, SeqFacts
        <3>3. c.batch.rows \in Seq(Range(c.batch.rows))
            <4>1. c.batch.rows \in [1..Len(acc.kept) -> Range(c.batch.rows)]
                BY <2>2, <2>3, <3>2 DEF Range
            <4> QED
                BY <3>2, <4>1, ElementOfSeq
        <3>4. Ids(c.batch.rows) \subseteq Ids(acc.kept)
            BY <2>2, <2>3 DEF Ids
        <3>5. Ids(acc.kept) \subseteq Ids(m.points)
            BY <3>1, IdsOfRange
        <3> QED
            BY <3>3, <3>4, <3>5 DEF IsSeq
    <2> QED
        BY <1>2, <2>1, <2>3 DEF c
<1> QED
    BY <1>3, <1>4

(***************************************************************************)
(* What the tables of the metrics hold                                     *)
(***************************************************************************)

\* A batch more, and its ids.
LEMMA IdsAppended ==
    ASSUME NEW ss, IsSeq(ss), \A i \in DOMAIN ss : IsSeq(ss[i]), NEW B, IsSeq(B)
    PROVE  /\ \A i \in DOMAIN Append(ss, B) : IsSeq(Append(ss, B)[i])
           /\ Ids(FlattenSeq(Append(ss, B))) = Ids(FlattenSeq(ss)) \cup Ids(B)
<1> DEFINE n == Len(ss)
           to == Append(ss, B)
<1>1. n \in Nat /\ DOMAIN ss = 1..n
    BY SeqFacts
<1>2. IsSeq(to) /\ Len(to) = n + 1 /\ (\A i \in 1..n : to[i] = ss[i]) /\ to[n + 1] = B
    BY AppendIsSeq
<1>3. DOMAIN to = 1..(n + 1)
    BY <1>2, SeqFacts
<1> HIDE DEF n, to
<1>4. \A i \in DOMAIN to : IsSeq(to[i])
    BY <1>1, <1>2, <1>3
<1>5. UNION {Range(to[i]) : i \in DOMAIN to} = (UNION {Range(ss[i]) : i \in DOMAIN ss}) \cup Range(B)
    <2>1. \A i : i \in DOMAIN to <=> i \in DOMAIN ss \/ i = n + 1
        BY <1>1, <1>3
    <2>2. \A i \in DOMAIN ss : to[i] = ss[i]
        BY <1>1, <1>2
    <2> QED
        BY <1>2, <2>1, <2>2, Zenon
<1>6. Range(FlattenSeq(to)) = Range(FlattenSeq(ss)) \cup Range(B)
    <2>1. Range(FlattenSeq(to)) = UNION {Range(to[i]) : i \in DOMAIN to}
        BY <1>2, <1>4, FlattenRange
    <2>2. Range(FlattenSeq(ss)) = UNION {Range(ss[i]) : i \in DOMAIN ss}
        BY FlattenRange
    <2> QED
        BY <1>5, <2>1, <2>2, Zenon
<1>7. Ids(FlattenSeq(to)) = Ids(FlattenSeq(ss)) \cup Ids(B)
    BY <1>6, IdsOfRange
<1> QED
    BY <1>4, <1>7 DEF to

\* What an accelerator holds is what it held.
LEMMA HeldKept ==
    ASSUME NEW m, m.name \in DOMAIN Tables => tables'[m.name].accelerator = tables[m.name].accelerator
    PROVE  Held(m)' = Held(m)
BY DEF Held, RowIds, MetricRows

\* The table of a metric gets more, but none of its points.
Grows(m) == Held(m) \subseteq Held(m)' /\ Ids(m.points) \cap Held(m)' \subseteq Held(m)

\* Where the metric a call writes is in its request.
LEMMA CurrentMetric ==
    ASSUME NEW o, CallTypes(o)
    PROVE  /\ Done(o) \in Nat /\ Len(export[o].request) \in Nat /\ Len(export[o].todo) \in Nat
           /\ 1..Done(o) \subseteq Indices(o)
           /\ Len(export[o].todo) > 0 =>
                 /\ Done(o) + 1 \in Indices(o) /\ export[o].todo[1] = Metric(o, Done(o) + 1)
                 /\ export[o].todo # <<>> /\ Head(export[o].todo) = export[o].todo[1]
           /\ export[o].todo # <<>> => Len(export[o].todo) > 0
<1>1. /\ IsSeq(export[o].request) /\ IsSeq(export[o].todo)
      /\ Len(export[o].request) \in Nat /\ Len(export[o].todo) \in Nat
      /\ Len(export[o].todo) <= Len(export[o].request)
    BY SeqFacts DEF CallTypes
<1>2. /\ Done(o) \in Nat /\ 1..Done(o) \subseteq Indices(o)
      /\ Len(export[o].todo) > 0 => Done(o) + 1 \in Indices(o)
    <2>1. PICK n, k : n = Len(export[o].request) /\ k = Len(export[o].todo)
        OBVIOUS
    <2>2. Done(o) = n - k /\ Indices(o) = 1..n
        BY <2>1 DEF Done, Indices
    <2>3. n \in Nat /\ k \in Nat /\ k <= n
        BY <1>1, <2>1
    <2>4. \A i \in 1..(n - k) : i \in 1..n
        BY <2>3
    <2>5. n - k \in Nat /\ (k > 0 => n - k + 1 \in 1..n)
        BY <2>3
    <2> QED
        BY <2>1, <2>2, <2>4, <2>5
<1>3. Len(export[o].todo) > 0 => export[o].todo[1] = Metric(o, Done(o) + 1)
    BY <1>1 DEF CallTypes
<1>4. export[o].todo # <<>> => Len(export[o].todo) > 0 /\ Head(export[o].todo) = export[o].todo[1]
    BY <1>1, TailIsSeq
<1>5. Len(export[o].todo) > 0 => export[o].todo # <<>>
    BY EmptyIsSeq
<1> QED
    BY <1>1, <1>2, <1>3, <1>4, <1>5

\* What is known of a call that goes on while the tables of its metrics grow.
LEMMA NumbersKept ==
    ASSUME NEW o, CallTypes(o), Counts(o), AwaitsTurn(o), export'[o] = export[o],
           \A j \in Indices(o) : ~(export[o].pc = "write" /\ j = Done(o) + 1) =>
               \A m : m = Metric(o, j) => Grows(m)
    PROVE  CallTypes(o)' /\ Counts(o)' /\ AwaitsTurn(o)'
<1>1. /\ Done(o)' = Done(o) /\ Indices(o)' = Indices(o) /\ Settled(o)' = Settled(o)
      /\ \A j : Metric(o, j)' = Metric(o, j)
    BY DEF Done, Indices, Settled, Metric
<1>2. CallTypes(o)'
    BY <1>1 DEF CallTypes
<1>3. ASSUME NEW j \in Indices(o), ~(export[o].pc = "write" /\ j = Done(o) + 1)
      PROVE  /\ Absent(Metric(o, j)) => Absent(Metric(o, j))'
             /\ Held(Metric(o, j)) \subseteq Held(Metric(o, j))'
    <2>1. PICK m : m = Metric(o, j)
        OBVIOUS
    <2>2. Grows(m)
        BY <1>3, <2>1
    <2>3. (Absent(m) => Absent(m)') /\ Held(m) \subseteq Held(m)'
        BY <2>2 DEF Grows, Absent
    <2>4. Absent(Metric(o, j))' = Absent(m)' /\ Held(Metric(o, j))' = Held(m)'
        BY <1>1, <2>1
    <2> QED
        BY <2>1, <2>3, <2>4
<1>4. \A j \in 1..Done(o) : j \in Indices(o) /\ j # Done(o) + 1
    BY CurrentMetric
<1>5. Counts(o)'
    BY <1>1, <1>3, <1>4 DEF Counts
<1>6. AwaitsTurn(o)'
    BY <1>1, <1>3 DEF AwaitsTurn
<1> QED
    BY <1>2, <1>5, <1>6

\* What is known of the job of a call that waits for it.
LEMMA WritesKept ==
    ASSUME NEW o, WritesMetric(o), export'[o] = export[o], job'[o] = job[o],
           export[o].pc = "write" => \A m : m = Metric(o, Done(o) + 1) => Grows(m)
    PROVE  WritesMetric(o)'
<1>1. PICK m : m = Metric(o, Done(o) + 1)
    OBVIOUS
<1>2. Metric(o, Done(o) + 1)' = m
    BY <1>1 DEF Metric, Done
<1>3. CASE export[o].pc # "write"
    BY <1>3 DEF WritesMetric
<1>4. CASE export[o].pc = "write"
    <2>1. Grows(m)
        BY <1>1, <1>4
    <2>2. (Absent(m) => Absent(m)') /\ Held(m) \subseteq Held(m)'
        BY <2>1 DEF Grows, Absent
    <2>3. Sinks(o, m) => Sinks(o, m)'
        BY <2>2 DEF Sinks
    <2> QED
        BY <1>1, <1>2, <1>4, <2>2, <2>3 DEF WritesMetric
<1> QED
    BY <1>3, <1>4

(***************************************************************************)
(* Steps of others                                                         *)
(***************************************************************************)

\* Clients ask for what they asked for, and who is no OTLP call writes where it wrote, to
\* the table of a client or to that of the exporter.
Elsewhere ==
    /\ \A p \in Puts : Asked(p)' => Asked(p) /\ To(p)' = To(p)
    /\ exporter'.todo # <<>> => exporter.todo # <<>>
    /\ \A w \in Writers \ Exports : job'[w].stage # "none" =>
          \/ job[w].stage # "none" /\ job'[w].table = job[w].table
          \/ \E p \in Puts : Asked(p) /\ job'[w].table = To(p)
          \/ exporter.todo # <<>> /\ job'[w].table = MetricsTable

\* The tables of metrics stay theirs, and a point of one metric.
LEMMA SunkKept ==
    ASSUME Sunk, Disjoint, Elsewhere, \A o \in Exports : export'[o].request = export[o].request,
           \A o \in Exports : \A j \in Indices(o) : \A t :
               t = Metric(o, j).name /\ t \in DOMAIN Tables =>
                   \A i \in DOMAIN tables'[t].accelerator : IsSeq(tables'[t].accelerator[i])
    PROVE  Sunk' /\ Disjoint'
<1>1. \A o \in Exports : Indices(o)' = Indices(o) /\ \A j : Metric(o, j)' = Metric(o, j)
    BY DEF Indices, Metric
<1>2. Disjoint'
    BY <1>1 DEF Disjoint
<1>3. Sunk'
    <2> SUFFICES ASSUME NEW o \in Exports, NEW j \in Indices(o), NEW t, t = Metric(o, j).name
                 PROVE  /\ t \in DOMAIN Tables =>
                              /\ Tables[t].kind = "sink"
                              /\ \A i \in DOMAIN tables'[t].accelerator : IsSeq(tables'[t].accelerator[i])
                        /\ \A p \in Puts : Asked(p)' => To(p)' # t
                        /\ exporter'.todo # <<>> => MetricsTable # t
                        /\ \A w \in Writers \ Exports : job'[w].stage # "none" => job'[w].table # t
        BY <1>1 DEF Sunk
    <2>1. t \in DOMAIN Tables => Tables[t].kind = "sink"
        BY DEF Sunk
    <2>2. \A p \in Puts : Asked(p) => To(p) # t
        BY DEF Sunk
    <2>3. exporter.todo # <<>> => MetricsTable # t
        BY DEF Sunk
    <2>4. \A w \in Writers \ Exports : job[w].stage # "none" => job[w].table # t
        BY DEF Sunk
    <2>5. \A w \in Writers \ Exports : job'[w].stage # "none" => job'[w].table # t
        BY <2>2, <2>3, <2>4 DEF Elsewhere
    <2>6. \A p \in Puts : Asked(p)' => To(p)' # t
        BY <2>2 DEF Elsewhere
    <2> QED
        BY <2>1, <2>3, <2>5, <2>6 DEF Elsewhere
<1> QED
    BY <1>2, <1>3

\* A call that does nothing while the tables of its metrics grow.
LEMMA CallKept ==
    ASSUME NEW o, CallInv(o), export'[o] = export[o], job'[o] = job[o],
           \A j \in Indices(o) : \A m : m = Metric(o, j) => Grows(m)
    PROVE  CallInv(o)'
<1>1. CallTypes(o) /\ Counts(o) /\ AwaitsTurn(o) /\ WritesMetric(o)
    BY DEF CallInv
<1>2. CallTypes(o)' /\ Counts(o)' /\ AwaitsTurn(o)'
    BY <1>1, NumbersKept
<1>3. export[o].pc = "write" => Done(o) + 1 \in Indices(o)
    BY <1>1, CurrentMetric DEF CallTypes
<1>4. WritesMetric(o)'
    BY <1>1, <1>3, WritesKept
<1> QED
    BY <1>2, <1>4 DEF CallInv

\* What is in the tables of metrics, while nobody stores anything there.
SameMetrics ==
    \A o \in Exports : \A j \in Indices(o) : \A t :
        t = Metric(o, j).name /\ t \in DOMAIN Tables => tables'[t].accelerator = tables[t].accelerator

\* Then they grow, by nothing, and have batches of points.
LEMMA SameMetricsGrow ==
    ASSUME SameMetrics, Sunk, NEW o \in Exports, NEW j \in Indices(o)
    PROVE  /\ \A m : m = Metric(o, j) => Grows(m) /\ Held(m)' = Held(m)
           /\ \A t : t = Metric(o, j).name /\ t \in DOMAIN Tables =>
                  \A i \in DOMAIN tables'[t].accelerator : IsSeq(tables'[t].accelerator[i])
<1>1. ASSUME NEW m, m = Metric(o, j)
      PROVE  Grows(m) /\ Held(m)' = Held(m)
    <2>1. m.name \in DOMAIN Tables => tables'[m.name].accelerator = tables[m.name].accelerator
        BY <1>1 DEF SameMetrics
    <2>2. Held(m)' = Held(m)
        BY <2>1, HeldKept
    <2> QED
        BY <2>2 DEF Grows
<1>2. ASSUME NEW t, t = Metric(o, j).name, t \in DOMAIN Tables
      PROVE  \A i \in DOMAIN tables'[t].accelerator : IsSeq(tables'[t].accelerator[i])
    <2>1. tables'[t].accelerator = tables[t].accelerator
        BY <1>2 DEF SameMetrics
    <2>2. \A i \in DOMAIN tables[t].accelerator : IsSeq(tables[t].accelerator[i])
        BY <1>2 DEF Sunk
    <2> QED
        BY <2>1, <2>2
<1> QED
    BY <1>1, <1>2

\* Others go on, and touch none of the tables of metrics.
LEMMA OthersGoOn ==
    ASSUME ExportsInv, Elsewhere, SameMetrics, export' = export, \A o \in Exports : job'[o] = job[o]
    PROVE  ExportsInv'
<1>1. Sunk /\ Disjoint /\ \A o \in Exports : CallInv(o)
    BY DEF ExportsInv
<1>2. Sunk' /\ Disjoint'
    <2>1. \A o \in Exports : \A j \in Indices(o) : \A t :
              t = Metric(o, j).name /\ t \in DOMAIN Tables =>
                  \A i \in DOMAIN tables'[t].accelerator : IsSeq(tables'[t].accelerator[i])
        BY <1>1, SameMetricsGrow
    <2> QED
        BY <1>1, <2>1, SunkKept
<1>3. ASSUME NEW o \in Exports
      PROVE  CallInv(o)'
    <2>1. \A j \in Indices(o) : \A m : m = Metric(o, j) => Grows(m)
        BY <1>1, SameMetricsGrow
    <2> QED
        BY <1>1, <2>1, CallKept
<1> QED
    BY <1>2, <1>3 DEF ExportsInv

\* One call goes on, the others do nothing, and nothing is stored.
LEMMA CallGoesOn ==
    ASSUME ExportsInv, Elsewhere, SameMetrics, NEW o \in Exports, CallInv(o)',
           export'[o].request = export[o].request,
           \A x \in Exports \ {o} : export'[x] = export[x] /\ job'[x] = job[x]
    PROVE  ExportsInv'
<1>1. Sunk /\ Disjoint /\ \A x \in Exports : CallInv(x)
    BY DEF ExportsInv
<1>2. Sunk' /\ Disjoint'
    <2>1. \A x \in Exports : \A j \in Indices(x) : \A t :
              t = Metric(x, j).name /\ t \in DOMAIN Tables =>
                  \A i \in DOMAIN tables'[t].accelerator : IsSeq(tables'[t].accelerator[i])
        BY <1>1, SameMetricsGrow
    <2>2. \A x \in Exports : export'[x].request = export[x].request
        OBVIOUS
    <2> QED
        BY <1>1, <2>1, <2>2, SunkKept
<1>3. ASSUME NEW x \in Exports, x # o
      PROVE  CallInv(x)'
    <2>1. \A j \in Indices(x) : \A m : m = Metric(x, j) => Grows(m)
        BY <1>1, SameMetricsGrow
    <2> QED
        BY <1>1, <1>3, <2>1, CallKept
<1> QED
    BY <1>2, <1>3 DEF ExportsInv

\* The job of a client writes to its table, so what is left is the exporter's.
LEMMA ClientsElsewhere ==
    ASSUME PutsInv', \A p \in Puts : Asked(p)' => Asked(p) /\ To(p)' = To(p),
           exporter'.todo # <<>> => exporter.todo # <<>>,
           job'[Exporter].stage # "none" =>
               \/ job[Exporter].stage # "none" /\ job'[Exporter].table = job[Exporter].table
               \/ exporter.todo # <<>> /\ job'[Exporter].table = MetricsTable
    PROVE  Elsewhere
<1>1. Waits'
    BY DEF PutsInv
<1>2. \A p \in Puts : job'[p].stage # "none" => Asked(p)' /\ job'[p].table = To(p)'
    BY <1>1 DEF Waits
<1>3. \A w \in Writers \ Exports : w \in Puts \/ w = Exporter
    BY IngestAssumption
<1>4. \A p \in Puts : job'[p].stage # "none" => \E q \in Puts : Asked(q) /\ job'[p].table = To(q)
    BY <1>2
<1> QED
    BY <1>3, <1>4 DEF Elsewhere

\* A client goes on.
LEMMA PutExports ==
    ASSUME PutsInv, PutsInv', ExportsInv, NEW p \in Puts, PutStep(p), UNCHANGED <<export, exporter>>
    PROVE  ExportsInv'
<1>1. /\ DOMAIN put = Puts /\ DOMAIN put[p] = {"pc", "script", "results"} /\ DOMAIN job = Writers
      /\ p \in Writers /\ p # Exporter /\ p \notin Exports
      /\ put[p].pc \in {"first", "stream", "write"} => Asked(p) /\ DOMAIN put[p].script = ScriptFields
    <2>1. p \in Writers /\ p # Exporter /\ p \notin Exports
        BY IngestAssumption
    <2> QED
        BY <2>1 DEF PutsInv, Types, PutTypes, JobTypes
<1>2. /\ tables' = tables /\ put[p].pc \in {"first", "stream", "write"}
      /\ \A w \in Writers \ {p} : job'[w] = job[w]
      /\ \A q \in Puts \ {p} : put'[q] = put[q]
      /\ put'[p].script.table = put[p].script.table
    <2>1. CASE PutFirst(p)
        BY <1>1, <2>1 DEF PutFirst
    <2>2. CASE PutNext(p)
        <3>1. tables' = tables /\ put[p].pc = "stream"
            BY <2>2 DEF PutNext
        <3>2. DOMAIN put[p].script = ScriptFields
            BY <1>1, <3>1
        <3>3. \A w \in Writers \ {p} : job'[w] = job[w]
            BY <1>1, <2>2 DEF PutNext, Writes
        <3>4. \/ put' = [put EXCEPT ![p].pc = "done"]
              \/ put' = [put EXCEPT ![p].pc = "write"]
              \/ put' = [put EXCEPT ![p].script.rest = Tail(put[p].script.rest),
                            ![p].results = Append(put[p].results, [rows |-> <<>>, is |-> "error"])]
            BY <1>1, <2>2 DEF PutNext
        <3> QED
            BY <1>1, <3>1, <3>2, <3>3, <3>4 DEF ScriptFields
    <2>3. CASE PutWritten(p)
        <3>1. /\ tables' = tables /\ put[p].pc = "write" /\ job' = [job EXCEPT ![p] = NoJob]
              /\ DOMAIN put[p].script = ScriptFields
            BY <1>1, <2>3 DEF PutWritten
        <3>2. PICK r : r = [rows |-> job[p].batch, is |-> job[p].stage]
            OBVIOUS
        <3>3. put' = [put EXCEPT ![p].pc = "stream", ![p].script.rest = Tail(put[p].script.rest),
                         ![p].results = Append(put[p].results, r)]
            BY <1>1, <2>3, <3>2 DEF PutWritten
        <3> QED
            BY <1>1, <3>1, <3>3 DEF ScriptFields
    <2> QED
        BY <2>1, <2>2, <2>3 DEF PutStep
<1>6. \A q \in Puts : Asked(q)' => Asked(q) /\ To(q)' = To(q)
    BY <1>1, <1>2 DEF Asked, To
<1>7. Elsewhere
    <2>1. job'[Exporter] = job[Exporter]
        BY <1>1, <1>2, IngestAssumption
    <2> QED
        BY <1>6, <2>1, ClientsElsewhere
<1>8. SameMetrics
    BY <1>2 DEF SameMetrics
<1>9. \A o \in Exports : job'[o] = job[o]
    BY <1>1, <1>2, IngestAssumption
<1> QED
    BY <1>7, <1>8, <1>9, OthersGoOn

\* The exporter goes on.
LEMMA OwnExports ==
    ASSUME PutsInv, PutsInv', ExportsInv, ExportOwn \/ OwnWritten
    PROVE  ExportsInv'
<1>1. DOMAIN job = Writers /\ Exporter \in Writers /\ Exporter \notin Exports /\ Exporter \notin Puts
    <2>1. Exporter \in Writers /\ Exporter \notin Exports /\ Exporter \notin Puts
        BY IngestAssumption
    <2> QED
        BY <2>1 DEF PutsInv, Types, JobTypes
<1>2. UNCHANGED <<tables, put, export>>
    BY DEF ExportOwn, OwnWritten
<1>3. /\ exporter'.todo # <<>> => exporter.todo # <<>>
      /\ \A w \in Writers \ {Exporter} : job'[w] = job[w]
      /\ job'[Exporter].stage # "none" =>
            \/ job[Exporter].stage # "none" /\ job'[Exporter].table = job[Exporter].table
            \/ exporter.todo # <<>> /\ job'[Exporter].table = MetricsTable
    <2>1. CASE ExportOwn
        <3>1. exporter.todo # <<>>
            BY <2>1 DEF ExportOwn
        <3>2. UNCHANGED job \/ \E rr : Writes(Exporter, MetricsTable, MetricsSchema, rr)
            BY <2>1, Zenon DEF ExportOwn
        <3>3. CASE UNCHANGED job
            BY <3>1, <3>3
        <3>4. ASSUME NEW rr, Writes(Exporter, MetricsTable, MetricsSchema, rr)
              PROVE  /\ \A w \in Writers \ {Exporter} : job'[w] = job[w]
                     /\ job'[Exporter].table = MetricsTable
            BY <1>1, <3>4 DEF Writes, NoJob
        <3> QED
            BY <3>1, <3>2, <3>3, <3>4
    <2>2. CASE OwnWritten
        <3>1. job' = [job EXCEPT ![Exporter] = NoJob]
            BY <2>2 DEF OwnWritten
        <3>2. exporter'.todo = exporter.todo
            <4>1. DOMAIN exporter = {"pc", "todo", "current", "exported"}
                BY DEF PutsInv, Types, ExportTypes
            <4> QED
                BY <2>2, <4>1 DEF OwnWritten
        <3> QED
            BY <1>1, <3>1, <3>2 DEF NoJob
    <2> QED
        BY <2>1, <2>2
<1>4. Elsewhere
    <2>1. \A q \in Puts : Asked(q)' => Asked(q) /\ To(q)' = To(q)
        BY <1>2 DEF Asked, To
    <2> QED
        BY <1>3, <2>1, ClientsElsewhere
<1>5. SameMetrics
    BY <1>2 DEF SameMetrics
<1>6. \A o \in Exports : job'[o] = job[o]
    BY <1>1, <1>3, IngestAssumption
<1> QED
    BY <1>2, <1>4, <1>5, <1>6, OthersGoOn

\* A step of a job leaves the other jobs alone, and their tables.
LEMMA WriteStepFacts ==
    ASSUME PutsInv, NEW w \in Writers, WriteStep(w)
    PROVE  /\ put' = put /\ \A v \in Writers \ {w} : job'[v] = job[v]
           /\ job[w].stage # "none" /\ job'[w].table = job[w].table /\ job'[w].batch = job[w].batch
           /\ \A t \in DOMAIN Tables \ {job[w].table} : tables'[t].accelerator = tables[t].accelerator
<1>1. /\ DOMAIN job = Writers /\ DOMAIN job[w] = JobFields /\ DOMAIN tables = DOMAIN Tables
      /\ \A t \in DOMAIN Tables : DOMAIN tables[t] = TableFields
    BY DEF PutsInv, Types, JobTypes, TableTypes
<1>2. CASE PlanInsert(w)
    <2>1. put' = put /\ job[w].stage = "plan"
        BY <1>2 DEF PlanInsert
    <2>2. PICK t : t = job[w].table
        OBVIOUS
    <2>3. \/ tables' = tables
          \/ tables' = [tables EXCEPT ![t].parked = FALSE, ![t].schema = job[w].schema]
        BY <1>2, <2>2, Zenon DEF PlanInsert
    <2>4. /\ \A v \in Writers \ {w} : job'[v] = job[v]
          /\ \/ job'[w] = [job[w] EXCEPT !.stage = "failed"]
             \/ job'[w] = [job[w] EXCEPT !.stage = "run", !.shared = <<job[w].batch>>,
                                         !.branch = [b \in InsertBranches(t) |-> "start"]]
        BY <1>1, <1>2, <2>2, Zenon DEF PlanInsert
    <2>5. job'[w].table = job[w].table /\ job'[w].batch = job[w].batch
        BY <1>1, <2>4 DEF JobFields
    <2>6. \A u \in DOMAIN Tables \ {t} : tables'[u].accelerator = tables[u].accelerator
        BY <1>1, <2>3
    <2> QED
        BY <2>1, <2>2, <2>4, <2>5, <2>6
<1>3. CASE Collected(w)
    <2>1. /\ tables' = tables /\ put' = put /\ job[w].stage = "run"
          /\ job' = [job EXCEPT ![w].stage = "ok"]
        BY <1>3 DEF Collected
    <2> QED
        BY <1>1, <2>1 DEF JobFields
<1>4. ASSUME NEW b, ReadInput(w, b)
      PROVE  /\ put' = put /\ tables' = tables /\ \A v \in Writers \ {w} : job'[v] = job[v]
             /\ job[w].stage # "none" /\ job'[w].table = job[w].table /\ job'[w].batch = job[w].batch
    <2>1. tables' = tables /\ put' = put /\ job[w].stage = "run"
        BY <1>4 DEF ReadInput
    <2>2. /\ \A v \in Writers \ {w} : job'[v] = job[v]
          /\ \/ job'[w] = [job[w] EXCEPT !.branch[b] = "done"]
             \/ job'[w] = [job[w] EXCEPT !.branch[b] = "empty"]
             \/ job'[w] = [job[w] EXCEPT !.branch[b] = "rows", !.shared = <<>>]
        BY <1>1, <1>4 DEF ReadInput, StreamingDataUpdateExecutionPlan
    <2> QED
        BY <1>1, <2>1, <2>2 DEF JobFields
<1>5. ASSUME NEW b, Store(w, b)
      PROVE  /\ put' = put /\ \A v \in Writers \ {w} : job'[v] = job[v]
             /\ job[w].stage # "none" /\ job'[w].table = job[w].table /\ job'[w].batch = job[w].batch
             /\ \A t \in DOMAIN Tables \ {job[w].table} : tables'[t].accelerator = tables[t].accelerator
    <2>1. put' = put /\ job[w].stage = "run" /\ job' = [job EXCEPT ![w].branch[b] = "done"]
        BY <1>5 DEF Store
    <2>2. PICK t : t = job[w].table
        OBVIOUS
    <2>3. tables' = tables \/ \E x : tables' = [tables EXCEPT ![t][b] = x]
        BY <1>5, <2>2, Zenon DEF Store
    <2>4. \A u \in DOMAIN Tables \ {t} : tables'[u].accelerator = tables[u].accelerator
        BY <1>1, <2>3
    <2> QED
        BY <1>1, <2>1, <2>2, <2>4 DEF JobFields
<1>6. ASSUME NEW b, StoreFails(w, b)
      PROVE  /\ put' = put /\ tables' = tables /\ \A v \in Writers \ {w} : job'[v] = job[v]
             /\ job[w].stage # "none" /\ job'[w].table = job[w].table /\ job'[w].batch = job[w].batch
    <2>1. /\ tables' = tables /\ put' = put /\ job[w].stage = "run"
          /\ job' = [job EXCEPT ![w].stage = "failed"]
        BY <1>6 DEF StoreFails
    <2> QED
        BY <1>1, <2>1 DEF JobFields
<1> QED
    BY <1>2, <1>3, <1>4, <1>5, <1>6 DEF WriteStep

\* Then who is no OTLP call still writes elsewhere.
LEMMA JobsElsewhere ==
    ASSUME PutsInv, NEW w \in Writers, WriteStep(w), UNCHANGED exporter
    PROVE  Elsewhere
<1>1. /\ put' = put /\ \A v \in Writers \ {w} : job'[v] = job[v]
      /\ job[w].stage # "none" /\ job'[w].table = job[w].table
    BY WriteStepFacts
<1> QED
    BY <1>1 DEF Elsewhere, Asked, To

\* A job that is not of a call goes on.
LEMMA OtherJobExports ==
    ASSUME PutsInv, ExportsInv, NEW w \in Writers \ Exports, WriteStep(w), UNCHANGED <<export, exporter>>
    PROVE  ExportsInv'
<1>1. /\ \A v \in Writers \ {w} : job'[v] = job[v] /\ job[w].stage # "none"
      /\ \A t \in DOMAIN Tables \ {job[w].table} : tables'[t].accelerator = tables[t].accelerator
    BY WriteStepFacts
<1>2. Elsewhere
    BY JobsElsewhere
<1>3. SameMetrics
    <2> SUFFICES ASSUME NEW o \in Exports, NEW j \in Indices(o), NEW t, t = Metric(o, j).name,
                        t \in DOMAIN Tables
                 PROVE  tables'[t].accelerator = tables[t].accelerator
        BY DEF SameMetrics
    <2>1. job[w].stage # "none"
        BY WriteStepFacts
    <2>2. job[w].table # t
        BY <2>1 DEF ExportsInv, Sunk
    <2> QED
        BY <1>1, <2>2
<1>4. \A o \in Exports : job'[o] = job[o]
    BY <1>1, IngestAssumption
<1> QED
    BY <1>2, <1>3, <1>4, OthersGoOn

\* A job of a call goes on, and stores nothing.
LEMMA CallJobGoesOn ==
    ASSUME PutsInv, ExportsInv, NEW o \in Exports, WriteStep(o), UNCHANGED <<export, exporter>>,
           \A t \in DOMAIN Tables : tables'[t].accelerator = tables[t].accelerator,
           WritesMetric(o)'
    PROVE  ExportsInv'
<1>1. o \in Writers
    BY IngestAssumption
<1>2. Elsewhere /\ \A v \in Writers \ {o} : job'[v] = job[v]
    BY <1>1, JobsElsewhere, WriteStepFacts
<1>3. SameMetrics
    BY DEF SameMetrics
<1>4. \A x \in Exports \ {o} : export'[x] = export[x] /\ job'[x] = job[x]
    BY <1>2, IngestAssumption
<1>5. CallTypes(o) /\ Counts(o) /\ AwaitsTurn(o) /\ Sunk
    BY DEF ExportsInv, CallInv
<1>6. \A j \in Indices(o) : \A m : m = Metric(o, j) => Grows(m)
    BY <1>3, <1>5, SameMetricsGrow
<1>7. CallTypes(o)' /\ Counts(o)' /\ AwaitsTurn(o)'
    BY <1>5, <1>6, NumbersKept
<1>8. CallInv(o)'
    BY <1>7 DEF CallInv
<1> QED
    BY <1>2, <1>3, <1>4, <1>8, CallGoesOn

(***************************************************************************)
(* The steps of a call's job                                               *)
(***************************************************************************)

\* The insert of a sink has both branches, and that of the source looks at nothing.
LEMMA SinkBranches ==
    ASSUME NEW t, tables[t].kind = "sink"
    PROVE  /\ InsertBranches(t) = {"accelerator", "source"}
           /\ Ignores(t, "source") /\ ~Ignores(t, "accelerator")
<1>1. /\ DOMAIN Branches = 1..2 /\ Len(Branches) = 2
      /\ Branches[1] = "accelerator" /\ Branches[2] = "source"
    BY DEF Branches
<1>2. InsertBranches(t) = {"accelerator", "source"}
    BY <1>1 DEF InsertBranches, SliceExec, TeeExec
<1> QED
    BY <1>2 DEF Ignores

\* What the job of a call writes.
LEMMA CallWrites ==
    ASSUME PutsInv, ExportsInv, NEW o \in Exports, job[o].stage # "none"
    PROVE  /\ export[o].pc = "write" /\ Done(o) + 1 \in Indices(o)
           /\ \A m : m = Metric(o, Done(o) + 1) =>
                 /\ job[o].table = m.name /\ m.name \in DOMAIN Tables /\ tables[m.name].kind = "sink"
                 /\ job[o].stage \in {"plan", "failed"} => Absent(m)
                 /\ job[o].stage = "run" => Sinks(o, m)
           /\ IsSeq(job[o].batch) /\ DOMAIN job[o] = JobFields /\ DOMAIN job = Writers /\ o \in Writers
<1>1. CallTypes(o) /\ WritesMetric(o) /\ Sunk
    BY DEF ExportsInv, CallInv
<1>2. export[o].pc = "write" /\ Done(o) + 1 \in Indices(o)
    BY <1>1, CurrentMetric DEF WritesMetric, CallTypes
<1>3. ASSUME NEW m, m = Metric(o, Done(o) + 1)
      PROVE  /\ job[o].table = m.name /\ m.name \in DOMAIN Tables /\ tables[m.name].kind = "sink"
             /\ job[o].stage \in {"plan", "failed"} => Absent(m)
             /\ job[o].stage = "run" => Sinks(o, m)
    <2>1. /\ job[o].table = m.name /\ m.name \in DOMAIN Tables
          /\ job[o].stage \in {"plan", "failed"} => Absent(m)
          /\ job[o].stage = "run" => Sinks(o, m)
        BY <1>1, <1>2, <1>3 DEF WritesMetric
    <2>2. Tables[m.name].kind = "sink"
        BY <1>1, <1>2, <1>3, <2>1 DEF Sunk
    <2> QED
        BY <2>1, <2>2 DEF PutsInv, Types, TableTypes
<1>4. IsSeq(job[o].batch)
    BY <1>1, <1>2 DEF WritesMetric
<1>5. o \in Writers
    BY IngestAssumption
<1> QED
    BY <1>2, <1>3, <1>4, <1>5 DEF PutsInv, Types, JobTypes

\* It writes it still.
LEMMA StillWrites ==
    ASSUME NEW o, WritesMetric(o), export[o].pc = "write", export'[o] = export[o],
           NEW m, m = Metric(o, Done(o) + 1),
           job'[o].table = job[o].table, job'[o].batch = job[o].batch,
           job'[o].stage \in {"run", "ok", "failed"},
           job'[o].stage = "failed" => Absent(m)',
           job'[o].stage = "run" => Sinks(o, m)',
           job'[o].stage = "ok" => Ids(job[o].batch) \subseteq Held(m)'
    PROVE  WritesMetric(o)'
<1>1. Metric(o, Done(o) + 1)' = m
    BY DEF Metric, Done
<1>2. /\ job[o].table = m.name /\ m.name \in DOMAIN Tables
      /\ IsSeq(job[o].batch) /\ Ids(job[o].batch) \subseteq Ids(m.points)
      /\ Ids(m.points) \ export[o].lost \subseteq Ids(job[o].batch)
      /\ export[o].count = Len(m.points)
    BY DEF WritesMetric
<1> QED
    BY <1>1, <1>2 DEF WritesMetric

\* The insert is planned.
LEMMA CallPlanned ==
    ASSUME PutsInv, ExportsInv, NEW o \in Exports, PlanInsert(o), UNCHANGED <<export, exporter>>
    PROVE  ExportsInv'
<1>1. job[o].stage = "plan"
    BY DEF PlanInsert
<1>2. PICK m : m = Metric(o, Done(o) + 1)
    OBVIOUS
<1>3. /\ export[o].pc = "write" /\ job[o].table = m.name /\ m.name \in DOMAIN Tables
      /\ tables[m.name].kind = "sink" /\ Absent(m)
      /\ DOMAIN job[o] = JobFields /\ DOMAIN job = Writers /\ o \in Writers
    BY <1>1, <1>2, CallWrites
<1>4. WritesMetric(o)
    BY DEF ExportsInv, CallInv
<1>5. \A t \in DOMAIN Tables : tables'[t].accelerator = tables[t].accelerator
    <2>1. TableTypes
        BY DEF PutsInv, Types
    <2>2. PICK t : t = job[o].table
        OBVIOUS
    <2>3. \/ tables' = tables
          \/ tables' = [tables EXCEPT ![t].parked = FALSE, ![t].schema = job[o].schema]
        BY <2>2, Zenon DEF PlanInsert
    <2> QED
        BY <2>1, <2>3 DEF TableTypes, TableFields
<1>6. \/ job'[o] = [job[o] EXCEPT !.stage = "failed"]
      \/ job'[o] = [job[o] EXCEPT !.stage = "run", !.shared = <<job[o].batch>>,
                                  !.branch = [b \in InsertBranches(m.name) |-> "start"]]
    BY <1>3, Zenon DEF PlanInsert
<1>7. /\ job'[o].table = job[o].table /\ job'[o].batch = job[o].batch
      /\ job'[o].stage \in {"run", "failed"}
      /\ job'[o].stage = "run" => /\ job'[o].shared = <<job[o].batch>>
                                  /\ job'[o].branch = [b \in {"accelerator", "source"} |-> "start"]
    <2>1. InsertBranches(m.name) = {"accelerator", "source"}
        BY <1>3, SinkBranches
    <2> QED
        BY <1>3, <1>6, <2>1 DEF JobFields
<1>8. Held(m)' = Held(m)
    BY <1>3, <1>5, HeldKept
<1>9. Absent(m)'
    BY <1>3, <1>8 DEF Absent
<1>10. job'[o].stage = "run" => Sinks(o, m)'
    BY <1>7, <1>9 DEF Sinks
<1>11. WritesMetric(o)'
    BY <1>2, <1>3, <1>4, <1>7, <1>9, <1>10, StillWrites
<1>12. WriteStep(o)
    BY DEF WriteStep
<1> QED
    BY <1>5, <1>11, <1>12, CallJobGoesOn

\* A branch reads its input: that of the accelerator finds the rows.
LEMMA CallReads ==
    ASSUME PutsInv, ExportsInv, NEW o \in Exports, NEW b \in ToSet(Branches), ReadInput(o, b),
           UNCHANGED <<export, exporter>>
    PROVE  ExportsInv'
<1>1. /\ job[o].stage = "run" /\ tables' = tables
      /\ b \in DOMAIN job[o].branch /\ job[o].branch[b] = "start"
    BY DEF ReadInput
<1>2. PICK m : m = Metric(o, Done(o) + 1)
    OBVIOUS
<1>3. /\ export[o].pc = "write" /\ job[o].table = m.name /\ m.name \in DOMAIN Tables
      /\ tables[m.name].kind = "sink" /\ Sinks(o, m)
      /\ DOMAIN job[o] = JobFields /\ DOMAIN job = Writers /\ o \in Writers
    BY <1>1, <1>2, CallWrites
<1>4. WritesMetric(o)
    BY DEF ExportsInv, CallInv
<1>5. Held(m)' = Held(m) /\ Absent(m)' = Absent(m)
    BY <1>1, HeldKept DEF Absent
<1>6. \/ Ignores(m.name, b) /\ job'[o] = [job[o] EXCEPT !.branch[b] = "done"]
      \/ /\ ~Ignores(m.name, b) /\ job[o].shared = <<>>
         /\ job'[o] = [job[o] EXCEPT !.branch[b] = "empty"]
      \/ /\ ~Ignores(m.name, b) /\ job[o].shared # <<>>
         /\ job'[o] = [job[o] EXCEPT !.branch[b] = "rows", !.shared = <<>>]
    BY <1>3 DEF ReadInput, StreamingDataUpdateExecutionPlan
<1>7. /\ job'[o].table = job[o].table /\ job'[o].batch = job[o].batch /\ job'[o].stage = "run"
    BY <1>1, <1>3, <1>6 DEF JobFields
<1>8. Sinks(o, m)'
    <2>1. /\ DOMAIN job[o].branch = {"accelerator", "source"}
          /\ job[o].branch["source"] \in {"start", "done"}
          /\ job[o].branch["accelerator"] \in {"start", "rows", "done"}
          /\ job[o].branch["accelerator"] = "start" => job[o].shared = <<job[o].batch>>
          /\ IF job[o].branch["accelerator"] = "done" THEN Ids(job[o].batch) \subseteq Held(m) ELSE Absent(m)
        BY <1>3, Zenon DEF Sinks
    <2>2. CASE b = "source"
        <3>1. job'[o] = [job[o] EXCEPT !.branch[b] = "done"]
            BY <1>3, <1>6, <2>2, SinkBranches
        <3>2. /\ job'[o].branch = [job[o].branch EXCEPT !["source"] = "done"]
              /\ job'[o].shared = job[o].shared
            BY <1>3, <2>2, <3>1 DEF JobFields
        <3> QED
            BY <1>5, <1>7, <2>1, <3>2 DEF Sinks
    <2>3. CASE b = "accelerator"
        <3>1. job[o].shared = <<job[o].batch>> /\ Absent(m)
            BY <1>1, <2>1, <2>3
        <3>2. job[o].shared # <<>>
            BY <3>1
        <3>3. job'[o] = [job[o] EXCEPT !.branch[b] = "rows", !.shared = <<>>]
            BY <1>3, <1>6, <2>3, <3>2, SinkBranches
        <3>4. job'[o].branch = [job[o].branch EXCEPT !["accelerator"] = "rows"]
            BY <1>3, <2>3, <3>3 DEF JobFields
        <3> QED
            BY <1>5, <1>7, <2>1, <3>1, <3>4 DEF Sinks
    <2> QED
        BY <1>1, <2>1, <2>2, <2>3
<1>9. WritesMetric(o)'
    BY <1>2, <1>3, <1>4, <1>7, <1>8, StillWrites
<1>10. WriteStep(o)
    BY DEF WriteStep
<1> QED
    BY <1>1, <1>9, <1>10, CallJobGoesOn

\* A store fails, before the rows are stored; or every branch is done, that of the
\* accelerator with the rows.
LEMMA CallEnds ==
    ASSUME PutsInv, ExportsInv, NEW o \in Exports, UNCHANGED <<export, exporter>>,
           Collected(o) \/ \E b \in ToSet(Branches) : StoreFails(o, b)
    PROVE  ExportsInv'
<1>1. job[o].stage = "run" /\ tables' = tables
    BY DEF Collected, StoreFails
<1>2. PICK m : m = Metric(o, Done(o) + 1)
    OBVIOUS
<1>3. /\ export[o].pc = "write" /\ job[o].table = m.name /\ m.name \in DOMAIN Tables
      /\ tables[m.name].kind = "sink" /\ Sinks(o, m)
      /\ DOMAIN job[o] = JobFields /\ DOMAIN job = Writers /\ o \in Writers
    BY <1>1, <1>2, CallWrites
<1>4. WritesMetric(o)
    BY DEF ExportsInv, CallInv
<1>5. Held(m)' = Held(m) /\ Absent(m)' = Absent(m)
    BY <1>1, HeldKept DEF Absent
<1>6. /\ DOMAIN job[o].branch = {"accelerator", "source"}
      /\ job[o].branch["source"] \in {"start", "done"}
      /\ IF job[o].branch["accelerator"] = "done" THEN Ids(job[o].batch) \subseteq Held(m) ELSE Absent(m)
    BY <1>3, Zenon DEF Sinks
<1>7. CASE Collected(o)
    <2>1. job' = [job EXCEPT ![o].stage = "ok"] /\ \A b \in DOMAIN job[o].branch : job[o].branch[b] = "done"
        BY <1>7 DEF Collected
    <2>2. Ids(job[o].batch) \subseteq Held(m)
        BY <1>6, <2>1
    <2>3. job'[o].stage = "ok" /\ job'[o].table = job[o].table /\ job'[o].batch = job[o].batch
        BY <1>3, <2>1 DEF JobFields
    <2>4. WritesMetric(o)'
        BY <1>2, <1>3, <1>4, <1>5, <2>2, <2>3, StillWrites
    <2>5. WriteStep(o)
        BY <1>7 DEF WriteStep
    <2> QED
        BY <1>1, <2>4, <2>5, CallJobGoesOn
<1>8. ASSUME NEW b \in ToSet(Branches), StoreFails(o, b)
      PROVE  ExportsInv'
    <2>1. /\ job' = [job EXCEPT ![o].stage = "failed"]
          /\ b \in DOMAIN job[o].branch /\ job[o].branch[b] \in {"rows", "empty"}
        BY <1>8 DEF StoreFails
    <2>2. Absent(m)
        BY <1>6, <2>1
    <2>3. job'[o].stage = "failed" /\ job'[o].table = job[o].table /\ job'[o].batch = job[o].batch
        BY <1>3, <2>1 DEF JobFields
    <2>4. WritesMetric(o)'
        BY <1>2, <1>3, <1>4, <1>5, <2>2, <2>3, StillWrites
    <2>5. WriteStep(o)
        BY <1>8 DEF WriteStep
    <2> QED
        BY <1>1, <2>4, <2>5, CallJobGoesOn
<1> QED
    BY <1>7, <1>8

\* The branch of the accelerator stores the rows: the table of the metric gets the points
\* of the batch, which are of no other metric.
LEMMA CallStores ==
    ASSUME PutsInv, ExportsInv, NEW o \in Exports, NEW b \in ToSet(Branches), Store(o, b),
           UNCHANGED <<export, exporter>>
    PROVE  ExportsInv'
<1>1. /\ job[o].stage = "run" /\ b \in DOMAIN job[o].branch /\ job[o].branch[b] \in {"rows", "empty"}
      /\ job' = [job EXCEPT ![o].branch[b] = "done"]
    BY DEF Store
<1>2. PICK m, t, B : m = Metric(o, Done(o) + 1) /\ t = m.name /\ B = job[o].batch
    OBVIOUS
<1>3. /\ export[o].pc = "write" /\ job[o].table = t /\ t \in DOMAIN Tables
      /\ Sinks(o, m) /\ IsSeq(B) /\ Done(o) + 1 \in Indices(o)
      /\ DOMAIN job[o] = JobFields /\ DOMAIN job = Writers /\ o \in Writers
    BY <1>1, <1>2, CallWrites
<1>4. /\ WritesMetric(o) /\ Sunk /\ Disjoint /\ \A x \in Exports : CallInv(x)
      /\ CallTypes(o) /\ Counts(o) /\ AwaitsTurn(o)
    BY DEF ExportsInv, CallInv
<1>5. /\ DOMAIN job[o].branch = {"accelerator", "source"}
      /\ job[o].branch["source"] \in {"start", "done"}
      /\ job[o].branch["accelerator"] \in {"start", "rows", "done"}
    BY <1>3, Zenon DEF Sinks
<1>6. b = "accelerator" /\ job[o].branch[b] = "rows"
    BY <1>1, <1>5
<1>7. tables' = [tables EXCEPT ![t]["accelerator"] = Append(tables[t]["accelerator"], B)]
    BY <1>2, <1>3, <1>6 DEF Store
<1>8. /\ DOMAIN tables = DOMAIN Tables /\ DOMAIN tables[t] = TableFields
      /\ IsSeq(tables[t].accelerator)
      /\ \A i \in DOMAIN tables[t].accelerator : IsSeq(tables[t].accelerator[i])
    <2>1. TableTypes
        BY DEF PutsInv, Types
    <2>2. \A i \in DOMAIN tables[t].accelerator : IsSeq(tables[t].accelerator[i])
        BY <1>2, <1>3, <1>4 DEF Sunk
    <2> QED
        BY <1>3, <2>1, <2>2 DEF TableTypes
<1>9. /\ tables'[t].accelerator = Append(tables[t].accelerator, B)
      /\ \A u \in DOMAIN Tables \ {t} : tables'[u].accelerator = tables[u].accelerator
    BY <1>3, <1>7, <1>8 DEF TableFields
<1>10. /\ \A i \in DOMAIN tables'[t].accelerator : IsSeq(tables'[t].accelerator[i])
       /\ RowIds(t)' = RowIds(t) \cup Ids(B)
    <2>1. PICK ss : ss = tables[t].accelerator
        OBVIOUS
    <2>2. /\ \A i \in DOMAIN Append(ss, B) : IsSeq(Append(ss, B)[i])
          /\ Ids(FlattenSeq(Append(ss, B))) = Ids(FlattenSeq(ss)) \cup Ids(B)
        BY <1>3, <1>8, <2>1, IdsAppended
    <2>3. RowIds(t) = Ids(FlattenSeq(ss)) /\ RowIds(t)' = Ids(FlattenSeq(Append(ss, B)))
        BY <1>9, <2>1 DEF RowIds, MetricRows
    <2> QED
        BY <1>9, <2>1, <2>2, <2>3
<1>11. Held(m)' = Held(m) \cup Ids(B)
    BY <1>2, <1>3, <1>10 DEF Held
<1>12. ASSUME NEW x \in Exports, NEW j \in Indices(x), ~(x = o /\ j = Done(o) + 1),
              NEW n, n = Metric(x, j)
       PROVE  Grows(n)
    <2>1. Ids(n.points) \cap Ids(m.points) = {}
        BY <1>2, <1>3, <1>4, <1>12 DEF Disjoint
    <2>2. Ids(B) \subseteq Ids(m.points)
        BY <1>2, <1>3, <1>4 DEF WritesMetric
    <2>3. CASE n.name = t
        <3>1. Held(n)' = Held(n) \cup Ids(B)
            BY <1>3, <1>10, <2>3 DEF Held
        <3> QED
            BY <2>1, <2>2, <3>1 DEF Grows
    <2>4. CASE n.name # t
        <3>1. Held(n)' = Held(n)
            BY <1>9, <2>4, HeldKept
        <3> QED
            BY <3>1 DEF Grows
    <2> QED
        BY <2>3, <2>4
<1>13. Elsewhere /\ \A v \in Writers \ {o} : job'[v] = job[v]
    <2>1. WriteStep(o)
        BY DEF WriteStep
    <2> QED
        BY <1>3, <2>1, JobsElsewhere, WriteStepFacts
<1>14. Sunk' /\ Disjoint'
    <2>1. \A x \in Exports : \A j \in Indices(x) : \A u :
              u = Metric(x, j).name /\ u \in DOMAIN Tables =>
                  \A i \in DOMAIN tables'[u].accelerator : IsSeq(tables'[u].accelerator[i])
        <3> SUFFICES ASSUME NEW x \in Exports, NEW j \in Indices(x), NEW u, u = Metric(x, j).name,
                            u \in DOMAIN Tables, u # t
                     PROVE  \A i \in DOMAIN tables'[u].accelerator : IsSeq(tables'[u].accelerator[i])
            BY <1>10
        <3>1. \A i \in DOMAIN tables[u].accelerator : IsSeq(tables[u].accelerator[i])
            BY <1>4 DEF Sunk
        <3> QED
            BY <1>9, <3>1
    <2> QED
        BY <1>4, <1>13, <2>1, SunkKept
<1>15. ASSUME NEW x \in Exports, x # o
       PROVE  CallInv(x)'
    <2>1. \A j \in Indices(x) : \A n : n = Metric(x, j) => Grows(n)
        BY <1>12, <1>15
    <2>2. job'[x] = job[x]
        BY <1>13, <1>15, IngestAssumption
    <2> QED
        BY <1>4, <2>1, <2>2, CallKept
<1>16. CallInv(o)'
    <2>1. CallTypes(o)' /\ Counts(o)' /\ AwaitsTurn(o)'
        <3>1. \A j \in Indices(o) : ~(export[o].pc = "write" /\ j = Done(o) + 1) =>
                  \A n : n = Metric(o, j) => Grows(n)
            BY <1>3, <1>12
        <3> QED
            BY <1>4, <3>1, NumbersKept
    <2>2. /\ job'[o].stage = "run" /\ job'[o].table = job[o].table /\ job'[o].batch = job[o].batch
          /\ job'[o].branch = [job[o].branch EXCEPT !["accelerator"] = "done"]
        BY <1>1, <1>3, <1>6 DEF JobFields
    <2>3. Sinks(o, m)'
        <3>1. Ids(job'[o].batch) \subseteq Held(m)'
            BY <1>2, <1>11, <2>2
        <3> QED
            BY <1>5, <2>2, <3>1 DEF Sinks
    <2>4. WritesMetric(o)'
        BY <1>2, <1>3, <1>4, <2>2, <2>3, StillWrites
    <2> QED
        BY <2>1, <2>4 DEF CallInv
<1> QED
    BY <1>14, <1>15, <1>16 DEF ExportsInv

\* Whoever's job goes on.
LEMMA JobExports ==
    ASSUME PutsInv, ExportsInv, NEW w \in Writers, WriteStep(w), UNCHANGED <<export, exporter>>
    PROVE  ExportsInv'
<1>1. CASE w \in Exports
    BY <1>1, CallPlanned, CallReads, CallStores, CallEnds DEF WriteStep
<1>2. CASE w \notin Exports
    BY <1>2, OtherJobExports
<1> QED
    BY <1>1, <1>2

(***************************************************************************)
(* The steps of a call                                                     *)
(***************************************************************************)

\* A metric without points has none to store.
LEMMA NoPoints ==
    ASSUME NEW points, IsSeq(points), Len(points) = 0
    PROVE  Ids(points) = {}
<1>1. DOMAIN points = {}
    BY SeqFacts
<1> QED
    BY <1>1 DEF Ids

\* A call is done with a metric of k points, of which it rejects all or none.
LEMMA MetricDone ==
    ASSUME NEW o, CallTypes(o), Counts(o), AwaitsTurn(o), tables' = tables,
           Len(export[o].todo) > 0, NEW m, m = Metric(o, Done(o) + 1), NEW k \in Nat,
           export'[o].request = export[o].request, export'[o].todo = Tail(export[o].todo),
           export'[o].pc = "next", export'[o].count \in Nat,
           export'[o].total = Settled(o) + k,
           export'[o].rejected \in {export[o].rejected, export[o].rejected + k},
           export[o].lost \subseteq export'[o].lost,
           export'[o].rejected = export[o].rejected + k => Absent(m),
           export'[o].rejected = export[o].rejected => Ids(m.points) \ export'[o].lost \subseteq Held(m)
    PROVE  CallTypes(o)' /\ Counts(o)' /\ AwaitsTurn(o)'
<1>1. PICK n, d, l : n = Len(export[o].request) /\ d = Done(o) /\ l = Len(export[o].todo)
    OBVIOUS
<1>2. /\ n \in Nat /\ d \in Nat /\ l \in Nat /\ d = n - l /\ l > 0 /\ l <= n
      /\ Indices(o) = 1..n /\ 1..d \subseteq Indices(o) /\ d + 1 \in Indices(o)
      /\ IsSeq(export[o].todo) /\ export[o].todo # <<>>
    BY <1>1, CurrentMetric DEF CallTypes, Indices, Done
<1>3. /\ IsSeq(Tail(export[o].todo)) /\ Len(Tail(export[o].todo)) = l - 1
      /\ \A i \in 1..(l - 1) : Tail(export[o].todo)[i] = export[o].todo[i + 1]
    BY <1>1, <1>2, TailIsSeq
<1>4. /\ Done(o)' = d + 1 /\ Indices(o)' = 1..n /\ Settled(o)' = export'[o].total
      /\ \A j : Metric(o, j)' = Metric(o, j)
    <2>1. Done(o)' = n - (l - 1)
        BY <1>1, <1>3 DEF Done
    <2>2. n - (l - 1) = d + 1
        BY <1>2
    <2> QED
        BY <1>1, <2>1, <2>2 DEF Indices, Settled, Metric
<1>5. \A x : Held(x)' = Held(x) /\ Absent(x)' = Absent(x)
    BY DEF Held, Absent, RowIds, MetricRows
<1>6. PICK r, s : r = export[o].rejected /\ s = Settled(o)
    OBVIOUS
<1>7. r \in Nat /\ s \in Nat /\ r <= s
    BY <1>6 DEF CallTypes, Counts
<1>8. CallTypes(o)'
    <2>1. \A i \in 1..(l - 1) : export'[o].todo[i] = Metric(o, (d + 1) + i)
        <3> SUFFICES ASSUME NEW i \in 1..(l - 1)
                     PROVE  Tail(export[o].todo)[i] = Metric(o, (d + 1) + i)
            OBVIOUS
        <3>1. i + 1 \in 1..l /\ d + (i + 1) = (d + 1) + i
            BY <1>2
        <3>2. export[o].todo[i + 1] = Metric(o, d + (i + 1))
            BY <1>1, <3>1 DEF CallTypes
        <3> QED
            BY <1>3, <3>1, <3>2
    <2>2. export'[o].total \in Nat /\ export'[o].rejected \in Nat
        BY <1>6, <1>7
    <2>3. /\ IsSeq(export'[o].request) /\ IsSeq(export'[o].todo)
          /\ Len(export'[o].todo) = l - 1 /\ l - 1 <= n /\ Len(export'[o].request) = n
        BY <1>1, <1>2, <1>3 DEF CallTypes
    <2>4. \A j \in 1..n : IsSeq(Metric(o, j).points)
        BY <1>2 DEF CallTypes
    <2> QED
        BY <1>4, <2>1, <2>2, <2>3, <2>4 DEF CallTypes
<1>9. Counts(o)'
    <2>1. /\ export'[o].total \in Nat /\ export'[o].rejected <= export'[o].total
          /\ export'[o].rejected = export'[o].total => r = s /\ export'[o].rejected = r + k
          /\ export'[o].rejected = 0 => r = 0 /\ export'[o].rejected = r
        BY <1>6, <1>7
    <2>2. \A j \in 1..(d + 1) : j \in 1..d \/ j = d + 1
        BY <1>2
    <2>3. ASSUME export'[o].rejected = export'[o].total
          PROVE  \A j \in 1..(d + 1) : Absent(Metric(o, j))
        <3>1. \A j \in 1..d : Absent(Metric(o, j))
            BY <1>1, <1>6, <2>1, <2>3 DEF Counts
        <3>2. Absent(Metric(o, d + 1))
            BY <1>1, <1>6, <2>1, <2>3
        <3> QED
            BY <2>2, <3>1, <3>2
    <2>4. ASSUME export'[o].rejected = 0
          PROVE  \A j \in 1..(d + 1) : Ids(Metric(o, j).points) \ export'[o].lost \subseteq Held(Metric(o, j))
        <3>1. \A j \in 1..d : Ids(Metric(o, j).points) \ export[o].lost \subseteq Held(Metric(o, j))
            BY <1>1, <1>6, <2>1, <2>4 DEF Counts
        <3>2. Ids(Metric(o, d + 1).points) \ export'[o].lost \subseteq Held(Metric(o, d + 1))
            BY <1>1, <1>6, <2>1, <2>4
        <3> QED
            BY <2>2, <3>1, <3>2
    <2>5. ASSUME NEW j
          PROVE  /\ Absent(Metric(o, j)) => Absent(Metric(o, j))'
                 /\ Held(Metric(o, j))' = Held(Metric(o, j))
        <3>1. PICK x : x = Metric(o, j)
            OBVIOUS
        <3>2. Absent(Metric(o, j))' = Absent(x)' /\ Held(Metric(o, j))' = Held(x)'
            BY <1>4, <3>1
        <3> QED
            BY <1>5, <3>1, <3>2
    <2> QED
        BY <1>4, <2>1, <2>3, <2>4, <2>5 DEF Counts
<1>10. AwaitsTurn(o)'
    <2> SUFFICES ASSUME NEW j \in 1..n, j > d + 1
                 PROVE  Absent(Metric(o, j))'
        BY <1>4 DEF AwaitsTurn
    <2>1. PICK x : x = Metric(o, j)
        OBVIOUS
    <2>2. Absent(x)
        <3>1. j > d /\ j # d + 1 /\ j \in Indices(o)
            BY <1>2
        <3> QED
            BY <1>1, <2>1, <3>1 DEF AwaitsTurn
    <2>3. Absent(Metric(o, j))' = Absent(x)'
        BY <1>4, <2>1
    <2> QED
        BY <1>5, <2>2, <2>3
<1> QED
    BY <1>8, <1>9, <1>10

\* The metric at the head of the request is written, rejected or not converted.
LEMMA MetricExported ==
    ASSUME PutsInv, ExportsInv, NEW o \in Exports, ExportMetric(o)
    PROVE  ExportsInv'
<1>1. /\ export[o].pc = "next" /\ export[o].todo # <<>> /\ UNCHANGED <<tables, put, exporter>>
    BY DEF ExportMetric
<1>2. /\ CallTypes(o) /\ Counts(o) /\ AwaitsTurn(o) /\ WritesMetric(o)
      /\ DOMAIN job = Writers /\ o \in Writers /\ o \notin Puts /\ o # Exporter
      /\ DOMAIN export = Exports /\ DOMAIN tables = DOMAIN Tables
    <2>1. o \in Writers /\ o \notin Puts /\ o # Exporter
        BY IngestAssumption
    <2> QED
        BY <2>1 DEF ExportsInv, CallInv, PutsInv, Types, JobTypes, ExportTypes, TableTypes
<1>3. PICK m : m = Metric(o, Done(o) + 1)
    OBVIOUS
<1>4. /\ Head(export[o].todo) = m /\ Len(export[o].todo) > 0 /\ IsSeq(m.points)
      /\ Done(o) \in Nat /\ Done(o) + 1 \in Indices(o)
    BY <1>1, <1>2, <1>3, CurrentMetric DEF CallTypes
<1>5. PICK c : c = metric_data_to_record_batch(m, get_arrow_schema(m.name))
    OBVIOUS
<1>6. /\ c.count \in Nat
      /\ c.batch.error = None =>
            /\ c.count = Len(m.points)
            /\ IsSeq(c.batch.rows) /\ Ids(c.batch.rows) \subseteq Ids(m.points)
    BY <1>4, <1>5, ConvertedFacts
<1>7. PICK writes, rejects :
          /\ writes = (c.batch.error = None /\ is_writable(m.name))
          /\ rejects = (c.batch.error = None /\ ~is_writable(m.name))
    OBVIOUS
<1>8. PICK lost : lost = export[o].lost \cup (Ids(m.points) \
                            (IF c.batch.error = None THEN Ids(c.batch.rows) ELSE {}))
    OBVIOUS
<1>9. /\ export' = [export EXCEPT ![o] =
                    [pc |-> IF writes THEN "write" ELSE "next",
                     request |-> export[o].request,
                     todo |-> IF writes THEN export[o].todo ELSE Tail(export[o].todo),
                     count |-> c.count, total |-> export[o].total + c.count,
                     rejected |-> export[o].rejected + IF rejects THEN c.count ELSE 0,
                     lost |-> lost]]
      /\ IF writes THEN Writes(o, m.name, c.batch.schema, c.batch.rows) ELSE UNCHANGED job
    <2>1. Converted(o) = c
        BY <1>4, <1>5 DEF Converted
    <2> QED
        BY <1>4, <1>7, <1>8, <2>1, Zenon DEF ExportMetric
<1>10. /\ \A x \in Exports \ {o} : export'[x] = export[x]
       /\ export'[o].pc = IF writes THEN "write" ELSE "next"
       /\ export'[o].request = export[o].request
       /\ export'[o].todo = IF writes THEN export[o].todo ELSE Tail(export[o].todo)
       /\ export'[o].count = c.count /\ export'[o].total = export[o].total + c.count
       /\ export'[o].rejected = export[o].rejected + IF rejects THEN c.count ELSE 0
       /\ export'[o].lost = lost
    BY <1>2, <1>9
<1>11. /\ \A w \in Writers \ {o} : job'[w] = job[w]
       /\ writes => /\ job'[o].stage = "plan" /\ job'[o].table = m.name
                    /\ job'[o].batch = c.batch.rows
       /\ ~writes => job'[o] = job[o]
    BY <1>2, <1>9 DEF Writes, NoJob
<1>12. Elsewhere
    BY <1>1, <1>2, <1>11 DEF Elsewhere, Asked, To
<1>13. SameMetrics
    BY <1>1 DEF SameMetrics
<1>14. Absent(m) /\ export[o].lost \subseteq lost
    <2>1. Done(o) + 1 > Done(o)
        BY <1>4
    <2> QED
        BY <1>1, <1>2, <1>3, <1>4, <1>8, <2>1 DEF AwaitsTurn
<1>15. \A x : Held(x)' = Held(x) /\ Absent(x)' = Absent(x)
    BY <1>1 DEF Held, Absent, RowIds, MetricRows
<1>16. CASE ~writes
    <2>1. CallTypes(o)' /\ Counts(o)' /\ AwaitsTurn(o)'
        <3>1. export'[o].total = Settled(o) + c.count
            BY <1>1, <1>10 DEF Settled
        <3>2. /\ export[o].rejected \in Nat
              /\ export'[o].rejected \in {export[o].rejected, export[o].rejected + c.count}
            BY <1>2, <1>6, <1>10 DEF CallTypes
        <3>3. ASSUME export'[o].rejected = export[o].rejected
              PROVE  Ids(m.points) \ export'[o].lost \subseteq Held(m)
            <4>1. CASE rejects
                <5>0. c.batch.error = None
                    BY <1>7, <4>1, Zenon
                <5>1. c.count = 0 /\ c.count = Len(m.points)
                    <6>1. export'[o].rejected = export[o].rejected + c.count
                        BY <1>10, <4>1
                    <6>2. c.count = 0
                        BY <1>6, <3>2, <3>3, <6>1
                    <6> QED
                        BY <1>6, <5>0, <6>2
                <5>2. Ids(m.points) = {}
                    BY <1>4, <5>1, NoPoints
                <5> QED
                    BY <5>2
            <4>2. CASE ~rejects
                <5>1. c.batch.error # None
                    BY <1>7, <1>16, <4>2
                <5> QED
                    BY <1>8, <1>10, <5>1
            <4> QED
                BY <4>1, <4>2
        <3> HIDE DEF Elsewhere
        <3> QED
            BY <1>1, <1>2, <1>3, <1>4, <1>6, <1>10, <1>14, <1>16, <3>1, <3>2, <3>3, MetricDone
    <2>2. WritesMetric(o)'
        BY <1>1, <1>2, <1>10, <1>11, <1>16 DEF WritesMetric
    <2>3. CallInv(o)'
        BY <2>1, <2>2 DEF CallInv
    <2>4. \A x \in Exports \ {o} : export'[x] = export[x] /\ job'[x] = job[x]
        BY <1>10, <1>11, IngestAssumption
    <2> QED
        BY <1>10, <1>12, <1>13, <2>3, <2>4, CallGoesOn
<1>17. CASE writes
    <2>1. /\ Done(o)' = Done(o) /\ Indices(o)' = Indices(o) /\ \A j : Metric(o, j)' = Metric(o, j)
        BY <1>10, <1>17 DEF Done, Indices, Metric
    <2>2. export[o].total \in Nat /\ export[o].rejected \in Nat /\ export[o].rejected <= export[o].total
        BY <1>1, <1>2 DEF CallTypes, Counts, Settled
    <2>3. export'[o].rejected = export[o].rejected /\ export'[o].total \in Nat /\ Settled(o)' = export[o].total
        <3>1. ~rejects
            BY <1>7, <1>17
        <3>2. (export[o].total + c.count) - c.count = export[o].total
            BY <1>6, <2>2
        <3>3. export[o].rejected + 0 = export[o].rejected /\ export[o].total + c.count \in Nat
            BY <1>6, <2>2
        <3>4. Settled(o)' = export'[o].total - export'[o].count
            BY <1>10, <1>17 DEF Settled
        <3> QED
            BY <1>10, <3>1, <3>2, <3>3, <3>4
    <2>4. ASSUME NEW j
          PROVE  Absent(Metric(o, j))' = Absent(Metric(o, j)) /\ Held(Metric(o, j))' = Held(Metric(o, j))
        <3>1. PICK x : x = Metric(o, j)
            OBVIOUS
        <3>2. Absent(Metric(o, j))' = Absent(x)' /\ Held(Metric(o, j))' = Held(x)'
            BY <2>1, <3>1
        <3> QED
            BY <1>15, <3>1, <3>2
    <2>5. CallTypes(o)'
        BY <1>2, <1>4, <1>6, <1>10, <1>17, <2>1, <2>2, <2>3 DEF CallTypes
    <2>6. Counts(o)'
        <3>1. Settled(o) = export[o].total
            BY <1>1 DEF Settled
        <3>2. export[o].rejected = export[o].total => \A j \in 1..Done(o) : Absent(Metric(o, j))
            BY <1>2, <3>1 DEF Counts
        <3>3. export[o].rejected = 0 =>
                  \A j \in 1..Done(o) : Ids(Metric(o, j).points) \ lost \subseteq Held(Metric(o, j))
            BY <1>2, <1>14 DEF Counts
        <3>4. export'[o].pc # "error"
            BY <1>10, <1>17
        <3> QED
            BY <1>10, <2>1, <2>2, <2>3, <2>4, <3>2, <3>3, <3>4 DEF Counts
    <2>7. AwaitsTurn(o)'
        <3>1. export'[o].pc = "write"
            BY <1>10, <1>17
        <3> QED
            BY <1>1, <1>2, <2>1, <2>4, <3>1 DEF AwaitsTurn
    <2>8. WritesMetric(o)'
        <3>1. export'[o].pc = "write" /\ Metric(o, Done(o) + 1)' = m /\ m.name \in DOMAIN Tables
            BY <1>2, <1>3, <1>7, <1>10, <1>17, <2>1 DEF is_writable
        <3>2. c.batch.error = None
            BY <1>7, <1>17
        <3>3. Ids(m.points) \ export'[o].lost \subseteq Ids(c.batch.rows)
            BY <1>8, <1>10, <3>2
        <3>4. Absent(m)'
            BY <1>14, <1>15
        <3> QED
            BY <1>6, <1>10, <1>11, <1>17, <3>1, <3>2, <3>3, <3>4 DEF WritesMetric
    <2>9. CallInv(o)'
        BY <2>5, <2>6, <2>7, <2>8 DEF CallInv
    <2>10. \A x \in Exports \ {o} : export'[x] = export[x] /\ job'[x] = job[x]
        BY <1>10, <1>11, IngestAssumption
    <2> QED
        BY <1>10, <1>12, <1>13, <2>9, <2>10, CallGoesOn
<1> QED
    BY <1>16, <1>17

\* The job of a metric is over.
LEMMA MetricWrittenExports ==
    ASSUME PutsInv, ExportsInv, NEW o \in Exports, MetricWritten(o)
    PROVE  ExportsInv'
<1>1. /\ export[o].pc = "write" /\ job[o].stage \in {"ok", "failed"}
      /\ job' = [job EXCEPT ![o] = NoJob] /\ UNCHANGED <<tables, put, exporter>>
    BY DEF MetricWritten
<1>2. /\ CallTypes(o) /\ Counts(o) /\ AwaitsTurn(o) /\ WritesMetric(o)
      /\ DOMAIN job = Writers /\ o \in Writers /\ o \notin Puts /\ o # Exporter
      /\ DOMAIN export = Exports /\ DOMAIN export[o] = ExportFields
    <2>1. o \in Writers /\ o \notin Puts /\ o # Exporter
        BY IngestAssumption
    <2> QED
        BY <2>1 DEF ExportsInv, CallInv, PutsInv, Types, JobTypes, ExportTypes
<1>3. PICK m : m = Metric(o, Done(o) + 1)
    OBVIOUS
<1>4. Len(export[o].todo) > 0 /\ IsSeq(m.points)
    BY <1>1, <1>2, <1>3, CurrentMetric DEF CallTypes
<1>5. /\ Ids(m.points) \ export[o].lost \subseteq Ids(job[o].batch)
      /\ export[o].count = Len(m.points)
      /\ job[o].stage = "failed" => Absent(m)
      /\ job[o].stage = "ok" => Ids(job[o].batch) \subseteq Held(m)
    BY <1>1, <1>2, <1>3 DEF WritesMetric
<1>6. /\ \A x \in Exports \ {o} : export'[x] = export[x]
      /\ export'[o].pc = "next" /\ export'[o].request = export[o].request
      /\ export'[o].todo = Tail(export[o].todo) /\ export'[o].count = export[o].count
      /\ export'[o].total = export[o].total /\ export'[o].lost = export[o].lost
      /\ export'[o].rejected = IF job[o].stage = "failed" THEN export[o].rejected + export[o].count
                               ELSE export[o].rejected
    <2>1. PICK r : r = IF job[o].stage = "failed" THEN export[o].rejected + export[o].count
                       ELSE export[o].rejected
        OBVIOUS
    <2>2. export' = [export EXCEPT ![o].pc = "next", ![o].todo = Tail(export[o].todo), ![o].rejected = r]
        BY <1>2, <2>1 DEF MetricWritten, Rejected, ExportFields
    <2> QED
        BY <1>2, <2>1, <2>2 DEF ExportFields
<1>7. (\A w \in Writers \ {o} : job'[w] = job[w]) /\ job'[o].stage = "none"
    BY <1>1, <1>2 DEF NoJob
<1>8. Elsewhere /\ SameMetrics
    BY <1>1, <1>2, <1>7 DEF Elsewhere, Asked, To, SameMetrics
<1>9. PICK k, r : k = export[o].count /\ r = export[o].rejected
    OBVIOUS
<1>10. /\ k \in Nat /\ r \in Nat /\ export[o].total \in Nat
       /\ Settled(o) = export[o].total - k /\ export'[o].total = Settled(o) + k
    <2>1. k \in Nat /\ r \in Nat /\ export[o].total \in Nat
        BY <1>2, <1>9 DEF CallTypes
    <2>2. Settled(o) = export[o].total - k
        BY <1>1, <1>9 DEF Settled
    <2> QED
        BY <1>6, <2>1, <2>2
<1>11. k = 0 => Ids(m.points) = {}
    BY <1>4, <1>5, <1>9, NoPoints
<1>12. export'[o].rejected \in {r, r + k}
    BY <1>6, <1>9
<1>13. export'[o].rejected = r + k => Absent(m)
    <2>1. CASE job[o].stage = "failed"
        BY <1>5, <2>1
    <2>2. CASE job[o].stage # "failed"
        <3>1. export'[o].rejected = r + k => k = 0
            BY <1>6, <1>9, <1>10, <2>2
        <3> QED
            BY <1>11, <3>1 DEF Absent
    <2> QED
        BY <2>1, <2>2
<1>14. export'[o].rejected = r => Ids(m.points) \ export'[o].lost \subseteq Held(m)
    <2>1. CASE job[o].stage = "failed"
        <3>1. export'[o].rejected = r => k = 0
            BY <1>6, <1>9, <1>10, <2>1
        <3> QED
            BY <1>11, <3>1
    <2>2. CASE job[o].stage # "failed"
        BY <1>1, <1>5, <1>6, <2>2
    <2> QED
        BY <2>1, <2>2
<1>15. CallTypes(o)' /\ Counts(o)' /\ AwaitsTurn(o)'
    BY <1>1, <1>2, <1>3, <1>4, <1>6, <1>9, <1>10, <1>12, <1>13, <1>14, MetricDone
<1>16. WritesMetric(o)'
    BY <1>6, <1>7 DEF WritesMetric
<1>17. CallInv(o)'
    BY <1>15, <1>16 DEF CallInv
<1>18. \A x \in Exports \ {o} : export'[x] = export[x] /\ job'[x] = job[x]
    BY <1>6, <1>7, IngestAssumption
<1> QED
    BY <1>6, <1>8, <1>17, <1>18, CallGoesOn

\* The call is answered.
LEMMA RespondExports ==
    ASSUME PutsInv, ExportsInv, NEW o \in Exports, Respond(o)
    PROVE  ExportsInv'
<1>1. /\ export[o].pc = "next" /\ export[o].todo = <<>> /\ UNCHANGED <<tables, put, job, exporter>>
    BY DEF Respond, flightVars
<1>2. /\ CallTypes(o) /\ Counts(o) /\ AwaitsTurn(o) /\ WritesMetric(o)
      /\ DOMAIN export = Exports /\ DOMAIN export[o] = ExportFields
    BY DEF ExportsInv, CallInv, PutsInv, Types, ExportTypes
<1>3. PICK end : end = IF export[o].rejected >= export[o].total THEN "error" ELSE "ok"
    OBVIOUS
<1>4. export' = [export EXCEPT ![o].pc = end]
    BY <1>3 DEF Respond
<1>5. /\ \A x \in Exports \ {o} : export'[x] = export[x]
      /\ export'[o].pc = end /\ export'[o].request = export[o].request
      /\ export'[o].todo = export[o].todo /\ export'[o].count = export[o].count
      /\ export'[o].total = export[o].total /\ export'[o].lost = export[o].lost
      /\ export'[o].rejected = export[o].rejected
    BY <1>2, <1>4 DEF ExportFields
<1>6. Elsewhere /\ SameMetrics
    BY <1>1 DEF Elsewhere, Asked, To, SameMetrics
<1>7. /\ Done(o)' = Done(o) /\ Indices(o)' = Indices(o) /\ \A j : Metric(o, j)' = Metric(o, j)
    BY <1>5 DEF Done, Indices, Metric
<1>8. end \in {"ok", "error"} /\ (end = "error" => export[o].rejected >= export[o].total)
    BY <1>3
<1>9. Settled(o) = export[o].total /\ Settled(o)' = export[o].total /\ Len(export[o].todo) = 0
    BY <1>1, <1>5, <1>8, EmptyIsSeq DEF Settled
<1>10. ASSUME NEW j
       PROVE  Absent(Metric(o, j))' = Absent(Metric(o, j)) /\ Held(Metric(o, j))' = Held(Metric(o, j))
    <2>1. PICK x : x = Metric(o, j)
        OBVIOUS
    <2>2. Absent(Metric(o, j))' = Absent(x)' /\ Held(Metric(o, j))' = Held(x)'
        BY <1>7, <2>1
    <2>3. Absent(x)' = Absent(x) /\ Held(x)' = Held(x)
        BY <1>1 DEF Held, Absent, RowIds, MetricRows
    <2> QED
        BY <2>1, <2>2, <2>3
<1>11. CallTypes(o)'
    BY <1>2, <1>5, <1>7, <1>8, <1>9 DEF CallTypes
<1>12. Counts(o)'
    BY <1>2, <1>5, <1>7, <1>8, <1>9, <1>10 DEF Counts
<1>13. AwaitsTurn(o)'
    BY <1>1, <1>2, <1>5, <1>7, <1>8, <1>10 DEF AwaitsTurn
<1>14. WritesMetric(o)'
    BY <1>1, <1>2, <1>5, <1>8 DEF WritesMetric
<1>15. CallInv(o)'
    BY <1>11, <1>12, <1>13, <1>14 DEF CallInv
<1> QED
    BY <1>1, <1>5, <1>6, <1>15, CallGoesOn

(***************************************************************************)
(* What an answer says                                                     *)
(***************************************************************************)

\* At first nothing is stored, and what is asked for is SunkOnce.
LEMMA ExportsInitially == SunkOnce /\ Init => ExportsInv
<1> SUFFICES ASSUME SunkOnce, NEW c \in Cases, FlightInit(c.put, c.sub),
                    export = [o \in Exports |->
                        [pc |-> IF o \in DOMAIN c.export THEN "next" ELSE "ok",
                         request |-> IF o \in DOMAIN c.export THEN c.export[o] ELSE <<>>,
                         todo |-> IF o \in DOMAIN c.export THEN c.export[o] ELSE <<>>,
                         count |-> 0, total |-> 0, rejected |-> 0, lost |-> {}]],
                    exporter = [pc |-> "next", todo |-> c.own, current |-> <<>>, exported |-> <<>>]
             PROVE  ExportsInv
    BY Zenon DEF Init
<1>1. /\ tables = [t \in DOMAIN Tables |-> Table(Tables[t])]
      /\ put = [p \in Puts |->
                  IF p \in DOMAIN c.put
                  THEN [pc |-> "first", script |-> c.put[p], results |-> <<>>]
                  ELSE [pc |-> "done", script |-> <<>>, results |-> <<>>]]
      /\ job = [w \in Writers |-> NoJob]
    BY DEF FlightInit
<1>2. IsSeq(<<>>) /\ Len(<<>>) = 0 /\ DOMAIN <<>> = {}
    BY EmptyIsSeq, SeqFacts
<1>3. \A w \in Writers : job[w].stage = "none"
    BY <1>1 DEF NoJob
<1>4. \A o \in Exports :
          /\ export[o].count = 0 /\ export[o].total = 0 /\ export[o].rejected = 0
          /\ export[o].lost = {} /\ export[o].todo = export[o].request
          /\ IF o \in DOMAIN c.export THEN export[o].pc = "next" /\ export[o].request = c.export[o]
             ELSE export[o].pc = "ok" /\ export[o].request = <<>>
    OBVIOUS
<1>5. ASSUME NEW o \in Exports
      PROVE  /\ IsSeq(export[o].request) /\ Done(o) = 0 /\ Len(export[o].request) \in Nat
             /\ \A j \in Indices(o) : /\ o \in DOMAIN c.export /\ j \in DOMAIN c.export[o]
                                      /\ Metric(o, j) = c.export[o][j]
                                      /\ Metric(o, j) \in ToSet(c.export[o])
    <2>1. CASE o \in DOMAIN c.export
        <3>1. export[o].request = c.export[o] /\ export[o].todo = c.export[o]
            BY <1>4, <2>1
        <3>2. IsSeq(c.export[o])
            BY <2>1, CasesAssumption, SeqIsSeq
        <3>3. Len(c.export[o]) \in Nat /\ DOMAIN c.export[o] = 1..Len(c.export[o])
            BY <3>2, SeqFacts
        <3>4. Done(o) = 0
            BY <3>1, <3>3 DEF Done
        <3> QED
            BY <2>1, <3>1, <3>2, <3>3, <3>4 DEF Indices, Metric, ToSet
    <2>2. CASE o \notin DOMAIN c.export
        <3>1. export[o].request = <<>> /\ export[o].todo = <<>>
            BY <1>4, <2>2
        <3>2. Indices(o) = {} /\ Done(o) = 0
            BY <1>2, <3>1 DEF Indices, Done
        <3> QED
            BY <1>2, <3>1, <3>2
    <2> QED
        BY <2>1, <2>2
<1>6. \A m : Held(m) = {} /\ Absent(m)
    <2>1. \A t \in DOMAIN Tables : tables[t].accelerator = <<>>
        BY <1>1 DEF Table
    <2>2. FlattenSeq(<<>>) = <<>>
        BY <1>2 DEF FlattenSeq
    <2>3. \A t \in DOMAIN Tables : RowIds(t) = {}
        BY <1>2, <2>1, <2>2 DEF RowIds, MetricRows, Ids
    <2> QED
        BY <2>3 DEF Held, Absent
<1>7. Disjoint
    <2> SUFFICES ASSUME NEW o \in Exports, NEW x \in Exports, NEW i \in Indices(o), NEW j \in Indices(x),
                        Ids(Metric(o, i).points) \cap Ids(Metric(x, j).points) # {}
                 PROVE  x = o /\ j = i
        BY DEF Disjoint
    <2>1. /\ o \in DOMAIN c.export /\ i \in DOMAIN c.export[o] /\ Metric(o, i) = c.export[o][i]
          /\ x \in DOMAIN c.export /\ j \in DOMAIN c.export[x] /\ Metric(x, j) = c.export[x][j]
        BY <1>5
    <2>2. Ids(c.export[x][j].points) \cap Ids(c.export[o][i].points) # {}
        BY <2>1
    <2> QED
        BY <2>1, <2>2 DEF SunkOnce
<1>8. Sunk
    <2> SUFFICES ASSUME NEW o \in Exports, NEW j \in Indices(o), NEW t, t = Metric(o, j).name
                 PROVE  /\ t \in DOMAIN Tables =>
                              /\ Tables[t].kind = "sink"
                              /\ \A i \in DOMAIN tables[t].accelerator : IsSeq(tables[t].accelerator[i])
                        /\ \A p \in Puts : Asked(p) => To(p) # t
                        /\ exporter.todo # <<>> => MetricsTable # t
        BY <1>3 DEF Sunk
    <2>1. /\ o \in DOMAIN c.export /\ j \in DOMAIN c.export[o] /\ t = c.export[o][j].name
          /\ Metric(o, j) \in ToSet(c.export[o])
        BY <1>5
    <2>2. t \in DOMAIN Tables => Tables[t].kind = "sink"
        BY <2>1 DEF SunkOnce
    <2>3. t \in DOMAIN Tables => tables[t].accelerator = <<>>
        BY <1>1 DEF Table
    <2>4. exporter.todo # <<>> => MetricsTable # t
        BY <2>1 DEF SunkOnce
    <2>5. ASSUME NEW p \in Puts, Asked(p)
          PROVE  To(p) # t
        <3>1. p \in DOMAIN c.put /\ To(p) = c.put[p].table
            BY <1>1, <2>5 DEF Asked, To
        <3>2. c.put[p].table \notin MetricTables(c)
            BY <3>1, CasesAssumption
        <3>3. t \in MetricTables(c)
            BY <2>1, Zenon DEF MetricTables
        <3> QED
            BY <3>1, <3>2, <3>3
    <2> QED
        BY <1>2, <2>2, <2>3, <2>4, <2>5
<1>9. ASSUME NEW o \in Exports
      PROVE  CallInv(o)
    <2>1. CallTypes(o)
        <3>1. IsSeq(export[o].request) /\ export[o].todo = export[o].request /\ Len(export[o].request) \in Nat
            BY <1>4, <1>5
        <3>2. \A i \in 1..Len(export[o].todo) : export[o].todo[i] = Metric(o, Done(o) + i)
            BY <1>5, <3>1 DEF Metric
        <3>3. \A j \in Indices(o) : IsSeq(Metric(o, j).points)
            <4> SUFFICES ASSUME NEW j \in Indices(o)
                         PROVE  IsSeq(Metric(o, j).points)
                OBVIOUS
            <4>1. o \in DOMAIN c.export /\ Metric(o, j) \in ToSet(c.export[o])
                BY <1>5
            <4>2. Metric(o, j).points \in Seq(ToSet(Metric(o, j).points))
                BY <4>1, CasesAssumption
            <4> QED
                BY <4>2, SeqIsSeq
        <3>4. export[o].pc \in {"next", "ok"} /\ (export[o].pc = "ok" => export[o].todo = <<>>)
            BY <1>4
        <3>5. export[o].count = 0 /\ export[o].total = 0 /\ export[o].rejected = 0
            BY <1>4
        <3> QED
            BY <1>2, <3>1, <3>2, <3>3, <3>4, <3>5 DEF CallTypes
    <2>2. export[o].pc \notin {"write", "error"}
        BY <1>4
    <2>3. Counts(o)
        BY <1>4, <1>5, <2>2 DEF Counts, Settled
    <2>4. AwaitsTurn(o) /\ WritesMetric(o)
        BY <1>3, <1>6, <2>2, IngestAssumption DEF AwaitsTurn, WritesMetric
    <2> QED
        BY <2>1, <2>3, <2>4 DEF CallInv
<1> QED
    BY <1>7, <1>8, <1>9 DEF ExportsInv

\* Every step keeps it.
LEMMA ExportsStep == PutsInv /\ PutsInv' /\ ExportsInv /\ [Next]_vars => ExportsInv'
<1> SUFFICES ASSUME PutsInv, PutsInv', ExportsInv, [Next]_vars
             PROVE  ExportsInv'
    OBVIOUS
<1>1. ASSUME UNCHANGED <<put, job, export, exporter>>,
             \A t \in DOMAIN Tables : tables'[t].accelerator = tables[t].accelerator
      PROVE  ExportsInv'
    <2>1. Elsewhere /\ SameMetrics
        BY <1>1 DEF Elsewhere, Asked, To, SameMetrics
    <2> QED
        BY <1>1, <2>1, OthersGoOn
<1>2. ASSUME NEW s, SubscriberStep(s) \/ TaskStep(s) \/ Leave(s), UNCHANGED <<export, exporter>>
      PROVE  ExportsInv'
    <2>1. UNCHANGED <<tables, put, job>>
        BY <1>2 DEF SubscriberStep, TaskStep, Leave, Subscribe, MakeChannel, Receive, ReadTable, SendBatch
    <2> QED
        BY <1>1, <1>2, <2>1
<1>3. ASSUME NEW s, ReplicaStep(s), UNCHANGED <<export, exporter>>
      PROVE  ExportsInv'
    <2>1. UNCHANGED <<tables, put, job>>
        BY <1>3 DEF ReplicaStep, WriteRow, WriteChangeFails, flightVars
    <2> QED
        BY <1>1, <1>3, <2>1
<1>4. ASSUME NEW t \in DOMAIN Tables, RemoveTable(t), UNCHANGED <<export, exporter>>
      PROVE  ExportsInv'
    <2>1. UNCHANGED <<put, job>> /\ tables' = [tables EXCEPT ![t].exists = FALSE] /\ TableTypes
        BY <1>4 DEF RemoveTable, PutsInv, Types
    <2>2. \A u \in DOMAIN Tables : tables'[u].accelerator = tables[u].accelerator
        BY <2>1 DEF TableTypes, TableFields
    <2> QED
        BY <1>1, <1>4, <2>1, <2>2
<1>5. ASSUME NEW o \in Exports, ExportStep(o)
      PROVE  ExportsInv'
    BY <1>5, MetricExported, MetricWrittenExports, RespondExports DEF ExportStep
<1>6. CASE UNCHANGED vars
    BY <1>1, <1>6 DEF vars, flightVars
<1>7. CASE Next
    BY <1>2, <1>3, <1>4, <1>5, <1>7, PutExports, JobExports, OwnExports DEF Next
<1> QED
    BY <1>6, <1>7

\* The numbers of a call that was answered are those of all its metrics.
LEMMA AnswersAccount == PutsInv /\ ExportsInv => ExportIsAccounted
<1> SUFFICES ASSUME PutsInv, ExportsInv, NEW o \in Exports, NEW m \in ToSet(export[o].request),
                    export[o].pc \in {"ok", "error"}
             PROVE  /\ export[o].pc = "error" /\ m.name \in DOMAIN tables =>
                          Ids(m.points) \cap RowIds(m.name) = {}
                    /\ export[o].pc = "ok" /\ export[o].rejected = 0 =>
                          Ids(m.points) \ export[o].lost \subseteq RowIds(m.name)
    BY DEF ExportIsAccounted
<1>1. CallTypes(o) /\ Counts(o)
    BY DEF ExportsInv, CallInv
<1>2. /\ IsSeq(export[o].request) /\ Len(export[o].todo) = 0 /\ Len(export[o].request) \in Nat
      /\ DOMAIN export[o].request = 1..Len(export[o].request)
    BY <1>1, SeqFacts DEF CallTypes
<1>3. Done(o) = Len(export[o].request)
    <2>1. \A n \in Nat : n - 0 = n
        OBVIOUS
    <2> QED
        BY <1>2, <2>1 DEF Done
<1>4. PICK j \in 1..Done(o) : Metric(o, j) = m
    BY <1>2, <1>3 DEF ToSet, Metric
<1>5. Settled(o) = export[o].total /\ export[o].rejected \in Nat /\ export[o].total \in Nat
    BY <1>1 DEF Settled, CallTypes
<1>6. export[o].pc = "error" => Absent(m)
    <2>1. export[o].pc = "error" => export[o].rejected = Settled(o)
        BY <1>1, <1>5 DEF Counts
    <2> QED
        BY <1>1, <1>4, <2>1 DEF Counts
<1>7. export[o].rejected = 0 => Ids(m.points) \ export[o].lost \subseteq Held(m)
    BY <1>1, <1>4 DEF Counts
<1>8. Held(m) \subseteq RowIds(m.name) /\ (m.name \in DOMAIN tables => Held(m) = RowIds(m.name))
    BY DEF Held, PutsInv, Types, TableTypes
<1> QED
    BY <1>6, <1>7, <1>8 DEF Absent

\* However the calls, their jobs, the other writers and the removal of datasets interleave,
\* and whichever inserts fail or metrics cannot be converted: with MetricsService::export
\* answering an error no point of the request is stored, and with no point rejected every
\* point that made it into a batch is. It is proved for metrics whose tables are those of
\* sinks, the only ones whose failed insert leaves nothing behind, with nobody else
\* writing to them and no point sent twice.
THEOREM ExportAccounted == SunkOnce => (Spec => []ExportIsAccounted)
<1>1. SunkOnce /\ Init => PutsInv /\ ExportsInv
    BY PutsInitially, ExportsInitially
<1>2. PutsInv /\ ExportsInv /\ [Next]_vars => (PutsInv /\ ExportsInv)'
    BY PutsStep, ExportsStep
<1> QED
    BY <1>1, <1>2, AnswersAccount, PTL DEF Spec
=============================================================================
