--------------------------- MODULE ServingProofs ---------------------------
(***************************************************************************)
(* Whoever is answered finds the query in query_history as it was          *)
(* answered, and the two histories agree; a model is asked by one request  *)
(* at a time, and a request that is over holds no lock. What a streamed    *)
(* chat says is delivered in its order, and the matches of a search are    *)
(* the nearest rows. For every set of callers, statements, documents,      *)
(* models and replies, and any number of faults.                           *)
(***************************************************************************)
EXTENDS Serving, FiniteSetTheorems, SequenceTheorems, WellFoundedInduction, TLAPS

(***************************************************************************)
(* The inductive invariant                                                 *)
(***************************************************************************)

Active == {"plan", "lookup", "execute", "stream", "finish"}

\* The places of a request: before its query, while a model is at work, and the end.
Early == {"schema", "create", "info_prepared", "info", "start"}
AtWork == {"tables", "models", "model", "prepare", "infer", "tools", "reply", "read", "ended"}
Ends == {"answered", "gone", "panicked"}

QueryFields ==
    {"pc", "tracker", "restricted_sql_options", "plan_is_cache_enabled", "from_cache", "out",
     "num_records", "truncated_output", "error", "streaming", "runtime_query", "events"}
TrackerFields ==
    {"query_id", "sql", "nsql", "protocol", "schema", "end_time", "rows_produced",
     "results_cache_hit", "error_code", "datasets"}
CallFields ==
    {"kind", "sql", "model", "pc", "guard", "req", "original", "asked", "level", "todo", "ran",
     "contents", "usages", "choices", "answer", "chunks", "states", "chan", "below", "cut",
     "here", "delivered", "said"}
AnswerFields == {"status", "rows", "x_cache", "usage", "matches"}
Codes == {"SyntaxError", "QueryPlanningError", "QueryExecutionError", "InternalError"}

\* Queries and requests have their fields, and a query is the n-th of its caller.
TypeOk(c) ==
    /\ DOMAIN query[c] = QueryFields /\ DOMAIN query[c].tracker = TrackerFields
    /\ query[c].pc \in Active \cup {"idle", "over", "dropped"}
    /\ QueryId(c) = <<c, QueryId(c)[2]>> /\ QueryId(c)[2] \in Nat
    /\ query[c].out \in Seq(Nat) /\ query[c].from_cache \in BOOLEAN \cup {None}
    /\ query[c].runtime_query \in BOOLEAN
    /\ query[c].tracker.error_code \in Codes \cup {None}
TypeInv ==
    /\ DOMAIN query = Callers /\ DOMAIN call = Callers
    /\ \A c \in Callers :
          TypeOk(c) /\ DOMAIN call[c] = CallFields /\ DOMAIN call[c].answer = AnswerFields

\* The request and its query: who has not come to a query yet, who waits for one, and
\* who is through with it.
CallOk(c) ==
    /\ call[c].pc \in Early \cup AtWork \cup Ends \cup {"query", "tool_query"}
    /\ call[c].kind \in DOMAIN Entries
    /\ call[c].pc \in Early => query[c].pc = "idle" /\ QueryId(c)[2] = 0
    /\ call[c].pc = "query" => call[c].kind \in Asks /\ query[c].pc \in Active \cup {"over"}
    /\ call[c].pc \in AtWork \cup {"tool_query"} =>
          call[c].kind \in {"nsql", "chat", "stream"} /\ query[c].tracker.nsql = None
    /\ call[c].pc \in AtWork => query[c].pc \in {"idle", "over"}
    /\ call[c].pc = "tool_query" => query[c].pc \in Active \cup {"over"}
    /\ call[c].pc = "reply" => call[c].kind # "stream"
    /\ call[c].pc \in Ends => query[c].pc \in {"idle", "over", "dropped"}
CallInv == \A c \in Callers : CallOk(c)

\* What a query carries on its way: its tracker says what became of it.
TrackOk(c) ==
    LET q == query[c]
        t == query[c].tracker
    IN  /\ q.pc \in Active \cup {"over"} =>
              /\ QueryId(c)[2] > 0
              /\ q.num_records = Rows(q.out)
              /\ q.from_cache = TRUE <=> t.results_cache_hit = TRUE
              /\ q.from_cache = TRUE => q.streaming = TRUE
              /\ q.error = None <=> t.error_code = None
        /\ q.pc \in {"plan", "lookup", "execute"} => q.out = <<>> /\ q.from_cache = None
        /\ q.pc \in {"plan", "lookup", "execute", "stream"} =>
              q.error = None /\ t.rows_produced = 0
        /\ q.pc \in {"finish", "over"} => t.end_time /\ t.rows_produced = Rows(q.out)
        /\ q.pc # "over" => q.events = <<>>
TrackInv == \A c \in Callers : TrackOk(c)

\* A query of the runtime's own tables that may succeed is marked, and its result is
\* not cached.
RuntimeOk(c) ==
    /\ query[c].pc = "execute" => (query[c].plan_is_cache_enabled => ~IsRuntime(Plan(c)))
    /\ query[c].pc = "stream" /\ query[c].from_cache = FALSE => ~IsRuntime(Plan(c))
    /\ query[c].pc \in {"execute", "stream", "finish", "over"} /\ query[c].error = None =>
          (IsRuntime(Plan(c)) => query[c].runtime_query)
RuntimeInv ==
    /\ \A sql \in cached : ~IsRuntime(StatementOf(sql))
    /\ \A c \in Callers : RuntimeOk(c)

\* The caller of the query came as far as that, and what is known of a query.
Reached(id) == \E c \in Callers : \E n \in 1..QueryId(c)[2] : id = <<c, n>>
HistoryIds == {r.query_id : r \in query_history} \cup unrecorded \cup SpanIds

\* A query is written down once, when it is over.
Written(c) ==
    /\ query[c].pc \in Active => QueryId(c) \notin HistoryIds
    /\ query[c].pc = "over" =>
          QueryId(c) \in unrecorded \/ to_record_batch(query[c].tracker) \in query_history
HistoryInv ==
    /\ \A id \in HistoryIds : Reached(id)
    /\ \A r, s \in query_history : r.query_id = s.query_id => r = s
    /\ \A c \in Callers : Written(c)

\* The span of a query that is in query_history has the events of that row.
Failing(events) ==
    \E i \in DOMAIN events : "level" \in DOMAIN events[i] /\ events[i].level = "ERROR"
Labelled(events, key) ==
    \E i \in DOMAIN events : events[i].name = "labels" /\ key \in DOMAIN events[i]
Traced(s, r) ==
    /\ Failing(s.events) <=> r.execution_status # 0
    /\ Labelled(s.events, "protocol")
    /\ Labelled(s.events, "error_code") <=> r.execution_status # 0
    /\ IsRuntime(StatementOf(r.sql)) /\ ~s.runtime_query => r.execution_status # 0
Readable(events) ==
    /\ DOMAIN events \subseteq Nat
    /\ \A i \in DOMAIN events : "level" \in DOMAIN events[i] => events[i].name # None
SpansInv ==
    \A s \in closed :
        /\ Readable(s.events) /\ \A r \in RowsOf(s.id) : Traced(s, r)
        /\ \A c \in Callers : QueryId(c) = s.id => query[c].runtime_query = s.runtime_query

\* What task_history says of a query is what query_history says, and a query that is
\* over has come to one of its ends.
TaskAgrees(t, r) ==
    /\ t.error_message # None <=> r.execution_status # 0
    /\ \E e \in t.labels : e.keys = "protocol"
    /\ (\E e \in t.labels : e.keys = "error_code") <=> r.execution_status # 0
    /\ IsRuntime(StatementOf(r.sql)) => r.execution_status # 0
TasksInv ==
    /\ \A t \in task_history : \A r \in RowsOf(t.span_id) : TaskAgrees(t, r)
    /\ \A c \in Callers : query[c].pc = "over" => QueryId(c) \in SpanIds \/ query[c].runtime_query

\* A request has its locks while a model is at work for it, and the model alone.
LockOk(c) ==
    /\ call[c].guard \in {"none", "models", "model"}
    /\ call[c].guard # "none" =>
          call[c].pc \in {"model", "prepare", "infer", "tools", "tool_query", "reply"}
    /\ call[c].guard = "models" => call[c].pc = "model"
    /\ call[c].kind = "stream" /\ call[c].pc \in {"tools", "tool_query"} => call[c].guard = "none"
    /\ call[c].kind = "stream" /\ call[c].level # 0 => call[c].guard = "none"
    /\ call[c].pc \in {"tables", "models", "model"} => call[c].level = 0
Exclusive ==
    \A c, d \in Callers :
        call[c].guard = "model" /\ call[d].guard = "model" /\ call[c].model = call[d].model
            => c = d
LocksInv == (\A c \in Callers : LockOk(c)) /\ Exclusive

\* The answer of a request is the row of its query.
Agrees(c, r) ==
    /\ r.execution_status = 0 <=> call[c].answer.status \in {"200", "ok", "500"}
    /\ call[c].answer.status \in {"200", "ok"} =>
          /\ r.rows_produced = call[c].answer.rows
          /\ r.results_cache_hit <=> call[c].answer.x_cache = "Hit from spiceai"
    /\ Protocol(c) # "http" => r.rows_produced = call[c].answer.rows
RecordedOk(c) ==
    /\ call[c].kind \in Asks /\ call[c].pc = "answered" /\ QueryId(c)[2] > 0
    /\ call[c].kind = "nsql" => query[c].tracker.nsql # None
    => QueryId(c) \in unrecorded
          \/ \E r \in query_history : r.query_id = QueryId(c) /\ Agrees(c, r)
RecordedInv == \A c \in Callers : RecordedOk(c)

IInv ==
    /\ TypeInv /\ CallInv /\ TrackInv /\ RuntimeInv /\ HistoryInv /\ SpansInv /\ TasksInv
    /\ LocksInv /\ RecordedInv

(***************************************************************************)
(* Numbers and sums                                                        *)
(***************************************************************************)

\* A set of numbers has a least member.
LEMMA MinIsMember ==
    ASSUME NEW S \in SUBSET Nat, S # {}
    PROVE  Min(S) \in S /\ \A k \in S : Min(S) <= k
<1>1. PICK m \in S : \A k \in S : ~(<<k, m>> \in OpToRel(<, Nat))
    BY NatLessThanWellFounded, WFMin
<1>2. ASSUME NEW k \in S PROVE m <= k
  <2>1. k \in Nat /\ m \in Nat
      OBVIOUS
  <2>2. <<k, m>>[1] < <<k, m>>[2] => <<k, m>> \in OpToRel(<, Nat)
      BY <2>1, Zenon DEF OpToRel
  <2>3. ~(k < m)
      BY <1>1, <2>2
  <2> QED
      BY <2>1, <2>3
<1> HIDE <1>1
<1> QED
    BY <1>2 DEF Min

\* Induction over the numbers, for a set.
LEMMA SetInduction ==
    ASSUME NEW S, 0 \in S, \A n \in Nat : n \in S => n + 1 \in S
    PROVE  Nat \subseteq S
<1> DEFINE others == Nat \ S
           m == Min(others)
<1>1. SUFFICES ASSUME others # {} PROVE FALSE
    OBVIOUS
<1>2. m \in others /\ \A k \in others : m <= k
    BY <1>1, MinIsMember
<1>3. m \in Nat /\ m # 0 /\ m - 1 \in Nat
    BY <1>2
<1>4. m - 1 \in S
    BY <1>2, <1>3
<1> QED
    BY <1>2, <1>3, <1>4

\* The greatest of the first numbers is the last.
LEMMA MaxOfRange ==
    ASSUME NEW k \in Nat
    PROVE  Max(1..(k + 1)) = k + 1 /\ (1..(k + 1)) \ {k + 1} = 1..k
<1>1. \A y \in 1..(k + 1) : k + 1 >= y
    OBVIOUS
<1>2. \A x \in 1..(k + 1) : (\A y \in 1..(k + 1) : x >= y) => x = k + 1
    OBVIOUS
<1>3. Max(1..(k + 1)) = k + 1
    BY <1>1, <1>2 DEF Max
<1> QED
    BY <1>3

\* The recursion of the sum of a sequence, over the sets of its indices.
SumStep(b, f, s) == IF s = {} THEN 0 ELSE f[s \ {Max(s)}] + b[Max(s)]
IsSum(b, k, f) == f = [s \in SUBSET (1..k) |-> SumStep(b, f, s)]
SumOf(b, k) == CHOOSE f : IsSum(b, k, f)

\* Rows, a fold of the community modules, is the recursive sum at all indices.
LEMMA RowsIsSum ==
    ASSUME NEW b \in Seq(Nat)
    PROVE  Rows(b) = SumOf(b, Len(b))[1..Len(b)]
<1>1. DOMAIN b = 1..Len(b)
    BY LenProperties
<1> QED
    BY <1>1, Zenon DEF Rows, FoldLeft, MapThenFoldSet, SumOf, IsSum, SumStep

\* The recursion has a solution: over the sets of k + 1 indices it takes from that
\* over the sets of k.
LEMMA SumExists ==
    ASSUME NEW b \in Seq(Nat)
    PROVE  IsSum(b, Len(b), SumOf(b, Len(b)))
<1> DEFINE n == Len(b)
           Has == {k \in Nat : k <= n => \E f : IsSum(b, k, f)}
<1>1. n \in Nat /\ \A i \in 1..n : b[i] \in Nat
    BY LenProperties
<1>2. 0 \in Has
  <2> DEFINE f == [s \in SUBSET (1..0) |-> 0]
  <2>1. \A s \in SUBSET (1..0) : s = {}
      OBVIOUS
  <2>2. \A s \in SUBSET (1..0) : SumStep(b, f, s) = 0
      BY <2>1 DEF SumStep
  <2>3. f = [s \in SUBSET (1..0) |-> SumStep(b, f, s)]
    <3> HIDE DEF f
    <3>1. f = [s \in SUBSET (1..0) |-> 0]
        BY DEF f
    <3> QED
        BY <2>2, <3>1
  <2> QED
      BY <2>3 DEF IsSum
<1>3. ASSUME NEW k \in Nat, k \in Has PROVE k + 1 \in Has
  <2>1. SUFFICES ASSUME k + 1 <= n PROVE \E g : IsSum(b, k + 1, g)
      OBVIOUS
  <2>2. PICK f : IsSum(b, k, f)
      BY <1>3, <2>1, <1>1
  <2> DEFINE small == SUBSET (1..k)
             big == SUBSET (1..(k + 1))
             g == [s \in big |-> IF k + 1 \in s THEN f[s \ {k + 1}] + b[k + 1] ELSE f[s]]
  <2>3. ASSUME NEW s \in small PROVE f[s] = SumStep(b, f, s)
      BY <2>2, <2>3 DEF IsSum
  <2>4. ASSUME NEW s \in big PROVE g[s] = SumStep(b, g, s)
    <3>1. CASE k + 1 \in s
      <4>1. Max(s) = k + 1
        <5>1. \A y \in s : k + 1 >= y
            OBVIOUS
        <5>2. \A x \in s : (\A y \in s : x >= y) => x = k + 1
            BY <3>1
        <5> QED
            BY <3>1, <5>1, <5>2 DEF Max
      <4>2. s \ {k + 1} \in big /\ k + 1 \notin s \ {k + 1}
          OBVIOUS
      <4>3. g[s \ {k + 1}] = f[s \ {k + 1}] /\ g[s] = f[s \ {k + 1}] + b[k + 1]
          BY <4>2, <3>1
      <4>4. SumStep(b, g, s) = g[s \ {k + 1}] + b[k + 1]
        <5> HIDE DEF g
        <5> QED
            BY <4>1, <3>1 DEF SumStep
      <4> QED
          BY <4>3, <4>4
    <3>2. CASE k + 1 \notin s
      <4>1. s \in small
          BY <3>2
      <4>2. g[s] = f[s]
          BY <3>2
      <4>3. f[s] = SumStep(b, f, s)
          BY <4>1, <2>3
      <4>4. CASE s = {}
        <5> HIDE DEF g
        <5> QED
            BY <4>2, <4>3, <4>4 DEF SumStep
      <4>5. CASE s # {}
        <5>1. s \ {Max(s)} \in big /\ k + 1 \notin s \ {Max(s)}
            BY <3>2
        <5>2. g[s \ {Max(s)}] = f[s \ {Max(s)}]
            BY <5>1
        <5> HIDE DEF g
        <5> QED
            BY <4>2, <4>3, <4>5, <5>2 DEF SumStep
      <4> QED
          BY <4>4, <4>5
    <3> QED
        BY <3>1, <3>2
  <2>5. g = [s \in big |-> g[s]]
      OBVIOUS
  <2>6. IsSum(b, k + 1, g)
    <3> HIDE DEF g
    <3> QED
        BY <2>4, <2>5 DEF IsSum
  <2> QED
      BY <2>6
<1>4. n \in Has
  <2> HIDE DEF Has
  <2> QED
      BY <1>1, <1>2, <1>3, SetInduction
<1>5. \E f : IsSum(b, n, f)
    BY <1>4, <1>1
<1> QED
    BY <1>5 DEF SumOf

\* The sum of the first k, one after the other.
LEMMA SumValues ==
    ASSUME NEW b \in Seq(Nat), NEW f, IsSum(b, Len(b), f)
    PROVE  /\ f[1..0] = 0
           /\ \A k \in Nat : k < Len(b) => f[1..(k + 1)] = f[1..k] + b[k + 1]
<1>1. Len(b) \in Nat
    BY LenProperties
<1>2. \A s \in SUBSET (1..Len(b)) : f[s] = SumStep(b, f, s)
    BY DEF IsSum
<1>3. f[1..0] = 0
  <2>1. 1..0 = {} /\ 1..0 \in SUBSET (1..Len(b))
      BY <1>1
  <2> QED
      BY <2>1, <1>2 DEF SumStep
<1>4. ASSUME NEW k \in Nat, k < Len(b) PROVE f[1..(k + 1)] = f[1..k] + b[k + 1]
  <2>1. 1..(k + 1) \in SUBSET (1..Len(b)) /\ 1..(k + 1) # {}
    <3>1. k + 1 \in 1..(k + 1)
        OBVIOUS
    <3>2. \A i \in 1..(k + 1) : i \in 1..Len(b)
        BY <1>1, <1>4
    <3> QED
        BY <3>1, <3>2
  <2>2. f[1..(k + 1)] = SumStep(b, f, 1..(k + 1))
      BY <2>1, <1>2
  <2>3. Max(1..(k + 1)) = k + 1 /\ (1..(k + 1)) \ {k + 1} = 1..k
      BY MaxOfRange
  <2>4. SumStep(b, f, 1..(k + 1)) = f[(1..(k + 1)) \ {Max(1..(k + 1))}] + b[Max(1..(k + 1))]
      BY <2>1 DEF SumStep
  <2> QED
      BY <2>2, <2>3, <2>4
<1> QED
    BY <1>3, <1>4

\* Rows adds up its batches.
LEMMA RowsOfNone == Rows(<<>>) = 0
<1>1. <<>> \in Seq(Nat) /\ Len(<<>>) = 0
    OBVIOUS
<1>2. IsSum(<<>>, Len(<<>>), SumOf(<<>>, Len(<<>>)))
    BY <1>1, SumExists
<1>3. SumOf(<<>>, Len(<<>>))[1..0] = 0
    BY <1>1, <1>2, SumValues
<1> QED
    BY <1>1, <1>3, RowsIsSum

\* One more batch adds its rows: what num_records is kept by (attach_query_tracker_to_stream).
LEMMA RowsOfMore ==
    ASSUME NEW b \in Seq(Nat), NEW x \in Nat
    PROVE  Rows(Append(b, x)) = Rows(b) + x
<1> DEFINE n == Len(b)
           a == Append(b, x)
           f == SumOf(b, n)
           g == SumOf(a, n + 1)
           Same == {k \in Nat : k <= n => f[1..k] = g[1..k]}
<1>1. n \in Nat /\ a \in Seq(Nat) /\ Len(a) = n + 1
    BY AppendProperties, LenProperties
<1>2. a[n + 1] = x /\ \A i \in 1..n : a[i] = b[i]
    BY AppendProperties, LenProperties
<1>3. IsSum(b, Len(b), f) /\ IsSum(a, Len(a), g)
    BY <1>1, SumExists
<1> HIDE DEF f, g, a
<1>4. f[1..0] = 0 /\ \A k \in Nat : k < n => f[1..(k + 1)] = f[1..k] + b[k + 1]
    BY <1>3, SumValues
<1>5. g[1..0] = 0 /\ \A k \in Nat : k < n + 1 => g[1..(k + 1)] = g[1..k] + a[k + 1]
    BY <1>1, <1>3, SumValues
<1>6. 0 \in Same
    BY <1>4, <1>5
<1>7. ASSUME NEW k \in Nat, k \in Same PROVE k + 1 \in Same
  <2>1. SUFFICES ASSUME k + 1 <= n PROVE f[1..(k + 1)] = g[1..(k + 1)]
      OBVIOUS
  <2>2. k < n /\ k < n + 1 /\ k + 1 \in 1..n /\ k <= n
      BY <2>1, <1>1
  <2>3. f[1..k] = g[1..k] /\ b[k + 1] = a[k + 1]
      BY <2>2, <1>2, <1>7
  <2> QED
      BY <2>2, <2>3, <1>4, <1>5
<1>8. n \in Same
  <2> HIDE DEF Same, n
  <2> QED
      BY <1>1, <1>6, <1>7, SetInduction
<1>9. f[1..n] = g[1..n]
    BY <1>8, <1>1
<1>10. g[1..(n + 1)] = g[1..n] + x
  <2>1. n < n + 1
      BY <1>1
  <2> QED
      BY <2>1, <1>1, <1>2, <1>5
<1>11. Rows(b) = f[1..n] /\ Rows(a) = g[1..(n + 1)]
    BY <1>1, RowsIsSum DEF f, g
<1> QED
    BY <1>9, <1>10, <1>11 DEF a

(***************************************************************************)
(* Statements, errors and rows                                             *)
(***************************************************************************)

\* What a text comes to: an error has a kind, and the batches have rows.
LEMMA StatementIs ==
    ASSUME NEW sql
    PROVE  LET s == StatementOf(sql)
           IN  /\ \A e \in {s.planning, s.starting, s.failure} : e # None => Last(e) \in ErrorKinds
               /\ s.batches \in Seq(Nat)
<1> DEFINE s == StatementOf(sql)
<1>1. \A e \in Errors : e # None => Last(e) \in ErrorKinds
  <2>1. ASSUME NEW e \in Seq(ErrorKinds), e # <<>> PROVE Last(e) \in ErrorKinds
      BY <2>1 DEF Last
  <2> QED
      BY <2>1 DEF Errors
<1>2. CASE sql \in DOMAIN Statement
  <2>1. s = Statement[sql]
      BY <1>2 DEF StatementOf
  <2>2. {s.planning, s.starting, s.failure} \subseteq Errors /\ s.batches \in Seq(Nat)
      BY <2>1, <1>2, StatementAssumption
  <2> HIDE DEF s
  <2>3. \A e \in {s.planning, s.starting, s.failure} : e # None => Last(e) \in ErrorKinds
      BY <2>2, <1>1
  <2> QED
      BY <2>2, <2>3 DEF s
<1>3. CASE sql \notin DOMAIN Statement
  <2>1. s = Unparsed
      BY <1>3 DEF StatementOf
  <2>2. s.planning = <<"SQL">> /\ s.starting = None /\ s.failure = None /\ s.batches = <<>>
      BY <2>1 DEF Unparsed
  <2>3. Last(<<"SQL">>) = "SQL" /\ "SQL" \in ErrorKinds
      BY DEF Last, ErrorKinds
  <2>4. <<>> \in Seq(Nat)
      OBVIOUS
  <2> HIDE DEF s
  <2> QED
      BY <2>2, <2>3, <2>4 DEF s
<1> QED
    BY <1>2, <1>3

\* Every error has a class, and no class is stored as 0.
LEMMA ErrorCodeIs ==
    ASSUME NEW error
    PROVE  ErrorCode(error) \in Codes
BY DEF ErrorCode, Codes

\* The status of a row is zero exactly when the query has no error code.
LEMMA StatusIs ==
    ASSUME NEW code \in Codes \cup {None}
    PROVE  Status(code) = 0 <=> code = None
<1>1. None \notin Codes
    BY StatementAssumption DEF Codes
<1>2. CASE code = None
  <2>1. /\ None # "SyntaxError" /\ None # "QueryPlanningError"
        /\ None # "QueryExecutionError" /\ None # "InternalError"
      BY <1>1 DEF Codes
  <2> QED
      BY <1>2, <2>1 DEF Status
<1>3. CASE code \in Codes
  <2>1. code # None
      BY <1>1, <1>3
  <2> QED
      BY <1>3, <2>1 DEF Status, Codes
<1> QED
    BY <1>2, <1>3

(***************************************************************************)
(* Steps of a request                                                      *)
(***************************************************************************)

\* The variables of the queries that the invariant is about.
historyVars == <<query, cached, query_history, unrecorded, closed, task_history, lost>>

\* The locks of a request, by its record.
LockFits(r) ==
    /\ r.guard \in {"none", "models", "model"}
    /\ r.guard # "none" => r.pc \in {"model", "prepare", "infer", "tools", "tool_query", "reply"}
    /\ r.guard = "models" => r.pc = "model"
    /\ r.kind = "stream" /\ r.pc \in {"tools", "tool_query"} => r.guard = "none"
    /\ r.kind = "stream" /\ r.level # 0 => r.guard = "none"
    /\ r.pc \in {"tables", "models", "model"} => r.level = 0

\* The record of one request changes.
Moves(c, r) ==
    DOMAIN call' = Callers /\ call'[c] = r /\ \A d \in Callers \ {c} : call'[d] = call[d]

\* It is the same request.
SameAsk(c, r) ==
    /\ DOMAIN r = CallFields /\ DOMAIN r.answer = AnswerFields
    /\ r.kind = call[c].kind /\ r.model = call[c].model

\* Nobody else has the model of the request.
ModelIsFree(c) == \A d \in Callers : call[d].guard = "model" => call[d].model # call[c].model

\* The locks after a step that changes the record of one request.
LEMMA LocksMoved ==
    ASSUME TypeInv, LocksInv, NEW c \in Callers, NEW r, Moves(c, r),
           SameAsk(c, r), LockFits(r),
           r.guard = "model" => call[c].guard = "model" \/ ModelIsFree(c)
    PROVE  LocksInv'
<1>1. \A d \in Callers : call'[d] = IF d = c THEN r ELSE call[d]
    BY DEF Moves
<1>2. \A d \in Callers : LockOk(d)'
    BY <1>1 DEF LockFits, LockOk, LocksInv
<1>3. Exclusive'
  <2>1. SUFFICES ASSUME NEW a \in Callers, NEW d \in Callers,
                        call'[a].guard = "model", call'[d].guard = "model",
                        call'[a].model = call'[d].model
                 PROVE  a = d
      BY DEF Exclusive
  <2>2. r.model = call[c].model
      BY DEF SameAsk
  <2>3. CASE a # c /\ d # c
      BY <1>1, <2>1, <2>3 DEF LocksInv, Exclusive
  <2>4. CASE a = c /\ d # c
      BY <1>1, <2>1, <2>2, <2>4 DEF LocksInv, Exclusive, ModelIsFree
  <2>5. CASE a # c /\ d = c
      BY <1>1, <2>1, <2>2, <2>5 DEF LocksInv, Exclusive, ModelIsFree
  <2> QED
      BY <2>3, <2>4, <2>5
<1> QED
    BY <1>2, <1>3 DEF LocksInv

\* A step of a request beside the queries. What it must show of the request is that it
\* has the locks of its place, and where it may be; and for an answer, that it is
\* recorded.
LEMMA RequestStep ==
    ASSUME IInv, NEW c \in Callers, NEW r, Moves(c, r),
           UNCHANGED historyVars, SameAsk(c, r), LockFits(r),
           r.guard = "model" => call[c].guard = "model" \/ ModelIsFree(c),
           CallOk(c)', RecordedOk(c)'
    PROVE  IInv'
<1>1. \A d \in Callers : call'[d] = IF d = c THEN r ELSE call[d]
    BY DEF Moves
<1>2. DOMAIN call' = Callers
    BY DEF Moves
<1>3. TypeInv'
    BY <1>1, <1>2 DEF IInv, TypeInv, TypeOk, QueryId, SameAsk, historyVars
<1>4. CallInv'
  <2>1. ASSUME NEW d \in Callers, d # c PROVE CallOk(d)'
      BY <1>1, <2>1 DEF IInv, CallInv, CallOk, QueryId, historyVars
  <2> QED
      BY <2>1 DEF CallInv
<1>5. TrackInv'
    BY DEF IInv, TrackInv, TrackOk, QueryId, historyVars
<1>6. RuntimeInv'
    BY DEF IInv, RuntimeInv, RuntimeOk, Plan, Sql, historyVars
<1>7. HistoryInv'
  <2>1. HistoryIds' = HistoryIds
      BY DEF HistoryIds, SpanIds, historyVars
  <2>2. \A id : Reached(id)' <=> Reached(id)
      BY DEF Reached, QueryId, historyVars
  <2>3. \A d \in Callers : Written(d)' <=> Written(d)
      BY <2>1 DEF Written, QueryId, historyVars
  <2>4. query_history' = query_history
      BY DEF historyVars
  <2> QED
      BY <2>1, <2>2, <2>3, <2>4 DEF IInv, HistoryInv
<1>8. SpansInv'
    BY DEF IInv, SpansInv, RowsOf, QueryId, historyVars
<1>9. TasksInv'
    BY DEF IInv, TasksInv, RowsOf, QueryId, SpanIds, historyVars
<1>10. LocksInv'
    BY LocksMoved DEF IInv
<1>11. RecordedInv'
  <2>1. ASSUME NEW d \in Callers, d # c PROVE RecordedOk(d)'
    <3>1. call'[d] = call[d]
        BY <1>1, <2>1
    <3>2. Protocol(d)' = Protocol(d)
        BY <3>1 DEF Protocol
    <3>3. \A row : Agrees(d, row)' <=> Agrees(d, row)
        BY <3>1, <3>2 DEF Agrees
    <3> QED
        BY <3>1, <3>3 DEF IInv, RecordedInv, RecordedOk, QueryId, historyVars
  <2> QED
      BY <2>1 DEF RecordedInv
<1> QED
    BY <1>3, <1>4, <1>5, <1>6, <1>7, <1>8, <1>9, <1>10, <1>11 DEF IInv


\* The model goes on with the request.
LEMMA WorkStep ==
    ASSUME IInv, NEW c \in Callers, NEW r, Moves(c, r),
           UNCHANGED historyVars, SameAsk(c, r), LockFits(r),
           r.guard = "model" => call[c].guard = "model" \/ ModelIsFree(c),
           call[c].pc \in AtWork \/ (call[c].pc = "tool_query" /\ query[c].pc = "over"),
           r.pc \in AtWork, r.pc = "reply" => r.kind # "stream"
    PROVE  IInv'
<1>1. CallOk(c)'
    BY DEF IInv, CallInv, CallOk, Moves, SameAsk, historyVars, AtWork, Early, Ends, QueryId
<1>2. RecordedOk(c)'
    BY DEF RecordedOk, Moves, AtWork
<1> QED
    BY <1>1, <1>2, RequestStep

\* The request stays where it is.
LEMMA StayStep ==
    ASSUME IInv, NEW c \in Callers, NEW r, Moves(c, r),
           UNCHANGED historyVars, SameAsk(c, r), r.guard = call[c].guard, r.level = call[c].level,
           r.pc = call[c].pc, r.pc \notin Ends
    PROVE  IInv'
<1>1. CallOk(c)'
    BY DEF IInv, CallInv, CallOk, Moves, SameAsk, historyVars, QueryId
<1>2. RecordedOk(c)'
    BY DEF RecordedOk, Moves, Ends
<1>3. LockFits(r)
    BY DEF LockFits, IInv, LocksInv, LockOk, SameAsk
<1> QED
    BY <1>1, <1>2, <1>3, RequestStep

\* The request ends without a query of its own.
LEMMA EndStep ==
    ASSUME IInv, NEW c \in Callers, NEW r, Moves(c, r),
           UNCHANGED historyVars, SameAsk(c, r), r.guard = "none", r.pc \in Ends,
           query[c].pc \in {"idle", "over", "dropped"},
           r.pc = "answered" /\ r.kind \in Asks =>
              QueryId(c)[2] = 0 \/ (r.kind = "nsql" /\ query[c].tracker.nsql = None)
    PROVE  IInv'
<1>1. CallOk(c)'
    BY DEF IInv, CallInv, CallOk, Moves, SameAsk, historyVars, AtWork, Early, Ends, QueryId
<1>2. RecordedOk(c)'
    BY DEF RecordedOk, Moves, Ends, QueryId, historyVars, SameAsk
<1>3. LockFits(r)
    BY DEF LockFits, Ends
<1> QED
    BY <1>1, <1>2, <1>3, RequestStep

\* An answer.
LEMMA AnswerMoves ==
    ASSUME TypeInv, NEW c \in Callers, NEW a, DOMAIN a = AnswerFields, call' = Answer(c, a)
    PROVE  /\ Moves(c, call'[c]) /\ SameAsk(c, call'[c])
           /\ call'[c].pc = "answered" /\ call'[c].guard = "none" /\ call'[c].answer = a
BY DEF Answer, Moves, SameAsk, TypeInv, CallFields

\* The blank answer has every field of an answer.
LEMMA NoAnswerFields == DOMAIN NoAnswer = AnswerFields
BY DEF NoAnswer, AnswerFields

(***************************************************************************)
(* One lemma for each action of a request that starts no query             *)
(***************************************************************************)

\* A request that has no query is answered.
LEMMA PlainAnswer ==
    ASSUME IInv, NEW c \in Callers, NEW a, DOMAIN a = AnswerFields, call' = Answer(c, a),
           UNCHANGED historyVars,
           \/ call[c].pc \in Early
           \/ call[c].pc \in AtWork
    PROVE  IInv'
<1>1. /\ Moves(c, call'[c]) /\ SameAsk(c, call'[c])
      /\ call'[c].pc = "answered" /\ call'[c].guard = "none"
    BY AnswerMoves DEF IInv
<1>2. "answered" \in Ends /\ query[c].pc \in {"idle", "over", "dropped"}
    BY DEF IInv, CallInv, CallOk, Ends
<1>3. QueryId(c)[2] = 0 \/ call[c].kind \notin Asks
        \/ (call[c].kind = "nsql" /\ query[c].tracker.nsql = None)
    BY DEF IInv, CallInv, CallOk, Asks
<1>4. call'[c].kind = call[c].kind
    BY <1>1 DEF SameAsk
<1> DEFINE r == call'[c]
<1>5. r.pc = "answered" /\ r.kind \in Asks =>
         QueryId(c)[2] = 0 \/ (r.kind = "nsql" /\ query[c].tracker.nsql = None)
    BY <1>3, <1>4
<1> HIDE DEF r
<1> QED
    BY <1>1, <1>2, <1>5, EndStep DEF r

\* An internal error answers a request that runs no query.
LEMMA Status500Inv ==
    ASSUME IInv, NEW c \in Callers, call' = Status500(c), UNCHANGED historyVars,
           call[c].pc \in Early \/ call[c].pc \in AtWork
    PROVE  IInv'
<1>1. DOMAIN [NoAnswer EXCEPT !.status = "500"] = AnswerFields
    BY NoAnswerFields
<1> QED
    BY <1>1, PlainAnswer DEF Status500

\* A request that is refused keeps the invariant.
LEMMA RefuseInv == ASSUME IInv, NEW c \in Callers, Refuse(c) PROVE IInv'
<1> DEFINE a == [NoAnswer EXCEPT !.status =
                    IF call[c].kind = "invalid" THEN "invalid_argument" ELSE "unimplemented"]
<1>1. DOMAIN a = AnswerFields
    BY NoAnswerFields
<1>2. call' = Answer(c, a) /\ UNCHANGED historyVars /\ call[c].pc \in Early
    BY DEF Refuse, queryVars, historyVars, Early
<1> HIDE DEF a
<1> QED
    BY <1>1, <1>2, PlainAnswer

\* A search keeps the invariant: its queries are not tracked.
LEMMA PostSearchInv == ASSUME IInv, NEW c \in Callers, PostSearch(c) PROVE IInv'
<1>1. UNCHANGED historyVars /\ call[c].pc \in Early
    BY DEF PostSearch, historyVars, Early
<1>2. CASE call' = Status500(c)
    BY <1>1, <1>2, Status500Inv
<1>3. ASSUME NEW a, DOMAIN a = AnswerFields, call' = Answer(c, a) PROVE IInv'
    BY <1>1, <1>3, PlainAnswer
<1>4. CASE call' = Answer(c, [NoAnswer EXCEPT !.status = "400"])
  <2>1. DOMAIN [NoAnswer EXCEPT !.status = "400"] = AnswerFields
      BY NoAnswerFields
  <2> QED
      BY <2>1, <1>3, <1>4
<1>5. ASSUME NEW found, call' = Answer(c, [NoAnswer EXCEPT !.status = "200", !.matches = found])
      PROVE  IInv'
  <2>1. DOMAIN [NoAnswer EXCEPT !.status = "200", !.matches = found] = AnswerFields
      BY NoAnswerFields
  <2> QED
      BY <2>1, <1>3, <1>5
<1> QED
    BY <1>2, <1>4, <1>5, Zenon DEF PostSearch

\* Building the prompt of nsql keeps the invariant.
LEMMA PromptTablesInv == ASSUME IInv, NEW c \in Callers, PromptTables(c) PROVE IInv'
<1> DEFINE r == call'[c]
<1>1. UNCHANGED historyVars
    BY DEF PromptTables, queryVars, historyVars
<1>2. call[c].pc = "tables" /\ DOMAIN call[c] = CallFields /\ DOMAIN call[c].answer = AnswerFields
    BY DEF PromptTables, IInv, TypeInv
<1>3. PICK req : call' = [call EXCEPT ![c].pc = "models", ![c].req = req, ![c].original = req.messages]
    BY DEF PromptTables
<1>4. /\ Moves(c, r) /\ SameAsk(c, r)
      /\ r.pc = "models" /\ r.guard = call[c].guard /\ r.level = call[c].level
    BY <1>2, <1>3 DEF Moves, SameAsk, CallFields, IInv, TypeInv
<1>5. LockFits(r)
    BY <1>2, <1>4 DEF LockFits, IInv, LocksInv, LockOk
<1>6. r.guard = "none"
    BY <1>2, <1>4 DEF IInv, LocksInv, LockOk
<1> HIDE DEF r
<1> QED
    BY <1>1, <1>2, <1>4, <1>5, <1>6, WorkStep DEF AtWork

\* Taking the lock on the models keeps the invariant.
LEMMA ReadModelsInv == ASSUME IInv, NEW c \in Callers, ReadModels(c) PROVE IInv'
<1> DEFINE r == call'[c]
           a == [NoAnswer EXCEPT !.status = IF call[c].kind = "nsql" THEN "500" ELSE "404"]
<1>1. UNCHANGED historyVars
    BY DEF ReadModels, queryVars, historyVars
<1>2. call[c].pc = "models" /\ DOMAIN call[c] = CallFields /\ DOMAIN call[c].answer = AnswerFields
    BY DEF ReadModels, IInv, TypeInv
<1>3. DOMAIN a = AnswerFields
    BY NoAnswerFields
<1>4. CASE call' = [call EXCEPT ![c].pc = "model", ![c].guard = "models"]
  <2>1. /\ Moves(c, r) /\ SameAsk(c, r)
        /\ r.pc = "model" /\ r.guard = "models" /\ r.level = call[c].level
      BY <1>2, <1>4 DEF Moves, SameAsk, CallFields, IInv, TypeInv
  <2>2. LockFits(r)
      BY <1>2, <2>1 DEF LockFits, IInv, LocksInv, LockOk
  <2> HIDE DEF r
  <2> QED
      BY <1>1, <1>2, <2>1, <2>2, WorkStep DEF AtWork
<1>5. CASE call' = Answer(c, a)
  <2> HIDE DEF a
  <2> QED
      BY <1>1, <1>2, <1>3, <1>5, PlainAnswer DEF AtWork
<1> QED
    BY <1>4, <1>5 DEF ReadModels

\* Taking the write lock of a model, when nobody has it, keeps it exclusive.
LEMMA LockModelInv == ASSUME IInv, NEW c \in Callers, LockModel(c) PROVE IInv'
<1> DEFINE r == call'[c]
<1>1. UNCHANGED historyVars
    BY DEF LockModel, queryVars, historyVars
<1>2. call[c].pc = "model" /\ DOMAIN call[c] = CallFields /\ DOMAIN call[c].answer = AnswerFields
    BY DEF LockModel, IInv, TypeInv
<1>3. /\ Moves(c, r) /\ SameAsk(c, r)
      /\ r.pc = "prepare" /\ r.guard = "model" /\ r.level = call[c].level
    BY <1>2 DEF LockModel, Moves, SameAsk, CallFields, IInv, TypeInv
<1>4. LockFits(r)
    BY <1>2, <1>3 DEF LockFits, IInv, LocksInv, LockOk
<1>5. ModelIsFree(c)
    BY DEF LockModel, ModelIsFree
<1> HIDE DEF r
<1> QED
    BY <1>1, <1>2, <1>3, <1>4, <1>5, WorkStep DEF AtWork

\* Putting the defaults into a chat request keeps the invariant.
LEMMA PrepareInv == ASSUME IInv, NEW c \in Callers, Prepare(c) PROVE IInv'
<1> DEFINE r == call'[c]
<1>1. UNCHANGED historyVars
    BY DEF Prepare, queryVars, historyVars
<1>2. call[c].pc = "prepare" /\ DOMAIN call[c] = CallFields /\ DOMAIN call[c].answer = AnswerFields
    BY DEF Prepare, IInv, TypeInv
<1>3. CASE call' = [call EXCEPT ![c].pc = "panicked", ![c].guard = "none"]
  <2>1. Moves(c, r) /\ SameAsk(c, r) /\ r.pc = "panicked" /\ r.guard = "none"
      BY <1>2, <1>3 DEF Moves, SameAsk, CallFields, IInv, TypeInv
  <2>2. query[c].pc \in {"idle", "over"}
      BY <1>2 DEF IInv, CallInv, CallOk, AtWork
  <2> HIDE DEF r
  <2> QED
      BY <1>1, <2>1, <2>2, EndStep DEF Ends
<1>4. ASSUME NEW asked, call' = [call EXCEPT ![c].pc = "infer", ![c].asked = asked] PROVE IInv'
  <2>1. /\ Moves(c, r) /\ SameAsk(c, r)
        /\ r.pc = "infer" /\ r.guard = call[c].guard /\ r.level = call[c].level
      BY <1>2, <1>4 DEF Moves, SameAsk, CallFields, IInv, TypeInv
  <2>2. LockFits(r)
      BY <1>2, <2>1 DEF LockFits, IInv, LocksInv, LockOk, SameAsk
  <2> HIDE DEF r
  <2> QED
      BY <1>1, <1>2, <2>1, <2>2, WorkStep DEF AtWork
<1> QED
    BY <1>3, <1>4, Zenon DEF Prepare

\* The answer of the engine to a chat.
LEMMA ChatRequestInv == ASSUME IInv, NEW c \in Callers, ChatRequest(c) PROVE IInv'
<1> DEFINE r == call'[c]
<1>1. UNCHANGED historyVars
    BY DEF ChatRequest, historyVars
<1>2. /\ call[c].pc = "infer" /\ call[c].kind # "stream"
      /\ DOMAIN call[c] = CallFields /\ DOMAIN call[c].answer = AnswerFields
    BY DEF ChatRequest, Streams, IInv, TypeInv
<1>3. CASE call' = Status500(c)
    BY <1>1, <1>2, <1>3, Status500Inv DEF AtWork
<1>4. CASE call' # Status500(c)
  <2> DEFINE Used(reply) == IF reply.choices = <<>> THEN <<>> ELSE reply.choices[1].tool_calls
             Run(reply) == IF MayUseTools(c) THEN SpicedTools(Model(c).tools, Used(reply)) ELSE <<>>
  <2>1. PICK reply \in Replies(call[c].asked) :
            call' = [call EXCEPT ![c] =
                        [@ EXCEPT !.pc = IF Run(reply) = <<>> THEN "reply" ELSE "tools",
                                  !.todo = Run(reply), !.ran = Run(reply), !.contents = <<>>,
                                  !.choices = reply.choices, !.usages = Append(@, reply.usage)]]
      BY <1>4 DEF ChatRequest
  <2> HIDE DEF Run
  <2>2. /\ Moves(c, r) /\ SameAsk(c, r)
        /\ r.pc \in {"reply", "tools"} /\ r.guard = call[c].guard /\ r.level = call[c].level
      BY <1>2, <2>1 DEF Moves, SameAsk, CallFields, IInv, TypeInv
  <2>3. LockFits(r) /\ r.kind # "stream"
      BY <1>2, <2>2 DEF LockFits, IInv, LocksInv, LockOk, SameAsk
  <2> HIDE DEF r
  <2> QED
      BY <1>1, <1>2, <2>2, <2>3, WorkStep DEF AtWork
<1> QED
    BY <1>3, <1>4

\* A streamed answer begins, and with the first the request lets go of its locks.
LEMMA OpenStreamInv == ASSUME IInv, NEW c \in Callers, OpenStream(c) PROVE IInv'
<1> DEFINE r == call'[c]
<1>1. UNCHANGED historyVars
    BY DEF OpenStream, historyVars
<1>2. /\ call[c].pc = "infer" /\ call[c].kind = "stream"
      /\ DOMAIN call[c] = CallFields /\ DOMAIN call[c].answer = AnswerFields
    BY DEF OpenStream, Streams, IInv, TypeInv
<1>3. CASE call' = Status500(c)
    BY <1>1, <1>2, <1>3, Status500Inv DEF AtWork
<1>4. ASSUME Moves(c, r), SameAsk(c, r), r.pc \in {"read", "ended"}, r.guard = "none" PROVE IInv'
  <2>1. LockFits(r)
      BY <1>4 DEF LockFits
  <2> HIDE DEF r
  <2> QED
      BY <1>1, <1>2, <1>4, <2>1, WorkStep DEF AtWork
<1>5. ASSUME NEW chan, call[c].level # 0,
             call' = [call EXCEPT ![c].pc = "ended", ![c].said = Append(@, None), ![c].chan = chan]
      PROVE  IInv'
  <2>1. Moves(c, r) /\ SameAsk(c, r) /\ r.pc = "ended" /\ r.guard = call[c].guard
      BY <1>2, <1>5 DEF Moves, SameAsk, CallFields, IInv, TypeInv
  <2>2. r.guard = "none"
      BY <1>2, <1>5, <2>1 DEF IInv, LocksInv, LockOk
  <2> QED
      BY <2>1, <2>2, <1>4
<1>6. ASSUME NEW chunks, NEW below,
             call' = [call EXCEPT ![c] =
                     [@ EXCEPT !.pc = "read", !.guard = "none", !.answer.status = "200",
                               !.chunks = chunks, !.states = <<>>, !.chan = <<>>, !.below = below]]
      PROVE  IInv'
  <2>1. Moves(c, r) /\ SameAsk(c, r) /\ r.pc = "read" /\ r.guard = "none"
      BY <1>2, <1>6 DEF Moves, SameAsk, CallFields, IInv, TypeInv
  <2> QED
      BY <2>1, <1>4
<1> QED
    BY <1>3, <1>5, <1>6, Zenon DEF OpenStream

\* A tool has answered.
LEMMA ToolAnswersInv ==
    ASSUME IInv, NEW c \in Callers, NEW content, ToolAnswers(c, content), UNCHANGED historyVars,
           call[c].pc = "tools" \/ (call[c].pc = "tool_query" /\ query[c].pc = "over")
    PROVE  IInv'
<1> DEFINE r == call'[c]
<1>1. DOMAIN call[c] = CallFields /\ DOMAIN call[c].answer = AnswerFields
    BY DEF IInv, TypeInv
<1>2. /\ Moves(c, r) /\ SameAsk(c, r)
      /\ r.pc = "tools" /\ r.guard = call[c].guard /\ r.level = call[c].level
    BY <1>1 DEF ToolAnswers, Moves, SameAsk, CallFields, IInv, TypeInv
<1>3. LockFits(r)
    BY <1>2 DEF LockFits, IInv, LocksInv, LockOk, SameAsk
<1> HIDE DEF r
<1> QED
    BY <1>2, <1>3, WorkStep DEF AtWork

\* A tool that ran a query answers the model.
LEMMA ToolQueryEndsInv == ASSUME IInv, NEW c \in Callers, ToolQueryEnds(c) PROVE IInv'
<1>1. UNCHANGED historyVars /\ call[c].pc = "tool_query" /\ query[c].pc = "over"
    BY DEF ToolQueryEnds, queryVars, historyVars
<1>2. PICK content : ToolAnswers(c, content)
    BY DEF ToolQueryEnds
<1> QED
    BY <1>1, <1>2, ToolAnswersInv

\* Sending the results of the tools to the model keeps the invariant.
LEMMA AskAgainInv == ASSUME IInv, NEW c \in Callers, AskAgain(c) PROVE IInv'
<1> DEFINE r == call'[c]
<1>1. UNCHANGED historyVars
    BY DEF AskAgain, queryVars, historyVars
<1>2. call[c].pc = "tools" /\ DOMAIN call[c] = CallFields /\ DOMAIN call[c].answer = AnswerFields
    BY DEF AskAgain, IInv, TypeInv
<1>3. PICK messages :
          call' = [call EXCEPT ![c] =
                     [@ EXCEPT !.pc = "prepare", !.level = call[c].level + 1,
                               !.req = IF Streams(c) THEN [call[c].req EXCEPT !.messages = messages]
                                       ELSE NewRequest(messages)]]
    BY Zenon DEF AskAgain
<1>4. Moves(c, r) /\ SameAsk(c, r) /\ r.pc = "prepare" /\ r.guard = call[c].guard
    BY <1>2, <1>3 DEF Moves, SameAsk, CallFields, IInv, TypeInv
<1>5. LockFits(r)
    BY <1>2, <1>4 DEF LockFits, IInv, LocksInv, LockOk, SameAsk
<1> HIDE DEF r
<1> QED
    BY <1>1, <1>2, <1>4, <1>5, WorkStep DEF AtWork

\* The tasks of a stream: they have no locks.
LEMMA StreamMoves ==
    ASSUME IInv, NEW c \in Callers, NEW r, Moves(c, r), UNCHANGED historyVars,
           call[c].pc \in {"read", "ended"}, r.pc \in {"read", "ended", "tools"},
           SameAsk(c, r), r.guard = call[c].guard, r.level = call[c].level
    PROVE  IInv'
<1>1. call[c].guard = "none"
    BY DEF IInv, LocksInv, LockOk
<1>2. LockFits(r)
    BY <1>1 DEF LockFits
<1> QED
    BY <1>1, <1>2, WorkStep DEF AtWork

\* A chunk of a streamed reply keeps the invariant.
LEMMA ReadChunkInv == ASSUME IInv, NEW c \in Callers, ReadChunk(c) PROVE IInv'
<1>1. UNCHANGED historyVars
    BY DEF ReadChunk, queryVars, historyVars
<1>2. call[c].pc = "read" /\ DOMAIN call[c] = CallFields /\ DOMAIN call[c].answer = AnswerFields
    BY DEF ReadChunk, IInv, TypeInv
<1> DEFINE r == call'[c]
<1>3. /\ Moves(c, r) /\ SameAsk(c, r) /\ r.guard = call[c].guard /\ r.level = call[c].level
      /\ r.pc \in {"read", "ended", "tools"}
    BY <1>2 DEF ReadChunk, Moves, SameAsk, CallFields, IInv, TypeInv
<1> HIDE DEF r
<1> QED
    BY <1>1, <1>2, <1>3, StreamMoves

\* The end of a streamed reply keeps the invariant.
LEMMA ReadEndInv == ASSUME IInv, NEW c \in Callers, ReadEnd(c) PROVE IInv'
<1> DEFINE r == call'[c]
<1>1. UNCHANGED historyVars /\ call[c].pc = "read"
    BY DEF ReadEnd, queryVars, historyVars
<1>2. /\ Moves(c, r) /\ SameAsk(c, r) /\ r.guard = call[c].guard /\ r.level = call[c].level
      /\ r.pc = "ended"
    BY DEF ReadEnd, Moves, SameAsk, CallFields, IInv, TypeInv
<1> HIDE DEF r
<1> QED
    BY <1>1, <1>2, StreamMoves

\* The level above reads on when the innermost one is through: the invariant holds on.
LEMMA ResumeInv == ASSUME IInv, NEW c \in Callers, Resume(c) PROVE IInv'
<1> DEFINE r == call'[c]
<1>1. UNCHANGED historyVars /\ call[c].pc = "ended"
    BY DEF Resume, queryVars, historyVars
<1>2. /\ Moves(c, r) /\ SameAsk(c, r) /\ r.guard = call[c].guard /\ r.level = call[c].level
      /\ r.pc = "read"
    BY DEF Resume, Moves, SameAsk, CallFields, IInv, TypeInv
<1> HIDE DEF r
<1> QED
    BY <1>1, <1>2, StreamMoves

\* The end of the outermost level keeps the invariant.
LEMMA StreamOverInv == ASSUME IInv, NEW c \in Callers, StreamOver(c) PROVE IInv'
<1> DEFINE r == call'[c]
<1>1. UNCHANGED historyVars /\ call[c].pc = "ended" /\ call[c].kind = "stream"
    BY DEF StreamOver, Streams, queryVars, historyVars
<1>2. /\ Moves(c, r) /\ SameAsk(c, r) /\ r.guard = call[c].guard
      /\ r.pc \in {"answered", "gone"}
    BY DEF StreamOver, Moves, SameAsk, CallFields, IInv, TypeInv
<1>3. r.guard = "none" /\ query[c].pc \in {"idle", "over"} /\ r.kind \notin Asks
    BY <1>1, <1>2 DEF IInv, LocksInv, LockOk, CallInv, CallOk, AtWork, SameAsk, Asks
<1> HIDE DEF r
<1> QED
    BY <1>1, <1>2, <1>3, EndStep DEF Ends

\* Forwarding an event to the level below keeps the invariant.
LEMMA ForwardInv == ASSUME IInv, NEW c \in Callers, NEW k, Forward(c, k) PROVE IInv'
<1> DEFINE r == call'[c]
           taken == IF k = Len(call[c].below) THEN [call[c] EXCEPT !.chan = Tail(ChannelInto(c, k))]
                    ELSE [call[c] EXCEPT !.below[k + 1].chan = Tail(ChannelInto(c, k))]
           sent == Append(call[c].below[k].chan, Head(ChannelInto(c, k)))
<1>1. UNCHANGED historyVars /\ ~Over(c)
    BY DEF Forward, queryVars, historyVars
<1>2. /\ DOMAIN taken = CallFields /\ taken.answer = call[c].answer /\ taken.kind = call[c].kind
      /\ taken.model = call[c].model /\ taken.guard = call[c].guard
      /\ taken.level = call[c].level /\ taken.pc = call[c].pc
    BY SMTT(30) DEF CallFields, IInv, TypeInv
<1>3. \/ call' = [call EXCEPT ![c] = [taken EXCEPT !.cut = k]]
      \/ call' = [call EXCEPT ![c] = [taken EXCEPT !.below[k].chan = sent]]
    BY DEF Forward
<1> HIDE DEF taken, sent
<1>4. /\ Moves(c, r) /\ SameAsk(c, r) /\ r.guard = call[c].guard /\ r.level = call[c].level
      /\ r.pc = call[c].pc
    BY <1>2, <1>3 DEF Moves, SameAsk, CallFields, IInv, TypeInv
<1> HIDE DEF r
<1> QED
    BY <1>1, <1>4, StayStep DEF Over, Ends

\* A client that reads an event keeps the invariant.
LEMMA ReadEventInv == ASSUME IInv, NEW c \in Callers, ReadEvent(c) PROVE IInv'
<1> DEFINE r == call'[c]
<1>1. UNCHANGED historyVars /\ ~Over(c)
    BY DEF ReadEvent, queryVars, historyVars
<1>2. /\ Moves(c, r) /\ SameAsk(c, r) /\ r.guard = call[c].guard /\ r.level = call[c].level
      /\ r.pc = call[c].pc
    BY DEF ReadEvent, Moves, SameAsk, CallFields, IInv, TypeInv
<1> HIDE DEF r
<1> QED
    BY <1>1, <1>2, StayStep DEF Over, Ends

(***************************************************************************)
(* Steps of a query                                                        *)
(***************************************************************************)

\* The record of one query changes.
Becomes(c, q) ==
    DOMAIN query' = Callers /\ query'[c] = q /\ \A d \in Callers \ {c} : query'[d] = query[d]

\* The histories, as far as the invariant looks into them.
recordVars == <<query_history, unrecorded, closed, task_history, lost>>

\* The next query of a caller is not known yet.
LEMMA NextIsNew ==
    ASSUME TypeInv, HistoryInv, NEW c \in Callers
    PROVE  <<c, NextId(c)>> \notin HistoryIds
<1>1. QueryId(c)[2] \in Nat /\ NextId(c) = QueryId(c)[2] + 1
    BY DEF TypeInv, TypeOk, NextId, QueryId
<1>2. ASSUME <<c, NextId(c)>> \in HistoryIds PROVE FALSE
  <2>1. PICK d \in Callers : \E n \in 1..QueryId(d)[2] : <<c, NextId(c)>> = <<d, n>>
      BY <1>2 DEF HistoryInv, Reached
  <2>2. d = c
      BY <2>1
  <2>3. NextId(c) \in 1..QueryId(c)[2]
      BY <2>1, <2>2
  <2> QED
      BY <1>1, <2>3
<1> QED
    BY <1>2

\* Whoever has come to a query stays beyond it.
LEMMA ReachedStays ==
    ASSUME TypeInv, NEW id, Reached(id),
           \A d \in Callers : QueryId(d)'[2] \in Nat /\ QueryId(d)[2] <= QueryId(d)'[2]
    PROVE  Reached(id)'
<1>1. PICK d \in Callers : \E n \in 1..QueryId(d)[2] : id = <<d, n>>
    BY DEF Reached
<1>2. PICK n \in 1..QueryId(d)[2] : id = <<d, n>>
    BY <1>1
<1>3. QueryId(d)[2] \in Nat
    BY DEF TypeInv, TypeOk
<1>4. n \in 1..QueryId(d)'[2]
    BY <1>3
<1> QED
    BY <1>2, <1>4 DEF Reached

\* A query that is running goes on; nothing is written down.
LEMMA QueryProgress ==
    ASSUME IInv, NEW c \in Callers, NEW q, Becomes(c, q), query[c].pc \in Active, q.pc \in Active,
           q.tracker.query_id = QueryId(c), q.tracker.nsql = query[c].tracker.nsql,
           UNCHANGED <<recordVars, call>>, \A sql \in cached' : ~IsRuntime(StatementOf(sql)),
           TypeOk(c)', TrackOk(c)', RuntimeOk(c)'
    PROVE  IInv'
<1>1. \A d \in Callers : d # c => query'[d] = query[d]
    BY DEF Becomes
<1>2. \A d \in Callers : QueryId(d)' = QueryId(d)
    BY DEF Becomes, QueryId
<1>3. query'[c] = q /\ DOMAIN query' = Callers
    BY DEF Becomes
<1>4. TypeInv'
  <2>1. ASSUME NEW d \in Callers, d # c PROVE TypeOk(d)'
      BY <1>1, <1>2, <2>1 DEF IInv, TypeInv, TypeOk
  <2> QED
      BY <1>3, <2>1 DEF IInv, TypeInv
<1>5. CallInv'
  <2>1. ASSUME NEW d \in Callers, d # c PROVE CallOk(d)'
      BY <1>1, <1>2, <2>1 DEF IInv, CallInv, CallOk
  <2>2. CallOk(c)'
      BY <1>2, <1>3 DEF IInv, CallInv, CallOk, Active, Early, AtWork, Ends
  <2> QED
      BY <2>1, <2>2 DEF CallInv
<1>6. TrackInv'
  <2>1. ASSUME NEW d \in Callers, d # c PROVE TrackOk(d)'
      BY <1>1, <1>2, <2>1 DEF IInv, TrackInv, TrackOk
  <2> QED
      BY <2>1 DEF TrackInv
<1>7. RuntimeInv'
  <2>1. ASSUME NEW d \in Callers, d # c PROVE RuntimeOk(d)'
      BY <1>1, <2>1 DEF IInv, RuntimeInv, RuntimeOk, Plan, Sql
  <2> QED
      BY <2>1 DEF RuntimeInv
<1>8. HistoryIds' = HistoryIds /\ SpanIds' = SpanIds
    BY DEF HistoryIds, SpanIds, recordVars
<1>9. HistoryInv'
  <2>1. \A id : Reached(id)' <=> Reached(id)
      BY <1>2 DEF Reached
  <2>2. ASSUME NEW d \in Callers PROVE Written(d)'
    <3>1. CASE d = c
        BY <1>2, <1>3, <1>8, <3>1 DEF IInv, HistoryInv, Written, Active
    <3>2. CASE d # c
        BY <1>1, <1>2, <1>8, <3>2 DEF IInv, HistoryInv, Written, recordVars
    <3> QED
        BY <3>1, <3>2
  <2>3. query_history' = query_history
      BY DEF recordVars
  <2> QED
      BY <1>8, <2>1, <2>2, <2>3 DEF IInv, HistoryInv
<1>10. SpansInv'
  <2>1. SUFFICES ASSUME NEW s \in closed
                 PROVE  /\ Readable(s.events) /\ \A r \in RowsOf(s.id)' : Traced(s, r)
                        /\ \A d \in Callers : QueryId(d)' = s.id =>
                              query'[d].runtime_query = s.runtime_query
      BY DEF SpansInv, recordVars
  <2>2. RowsOf(s.id)' = RowsOf(s.id)
      BY DEF RowsOf, recordVars
  <2>3. s.id \in HistoryIds
      BY DEF HistoryIds, SpanIds
  <2>4. QueryId(c) # s.id
      BY <2>3 DEF IInv, HistoryInv, Written
  <2> QED
      BY <1>1, <1>2, <2>2, <2>4 DEF IInv, SpansInv
<1>11. TasksInv'
  <2>1. \A t \in task_history' : \A r \in RowsOf(t.span_id)' : TaskAgrees(t, r)
      BY DEF IInv, TasksInv, RowsOf, recordVars
  <2>2. q.pc # "over"
      BY DEF Active
  <2> QED
      BY <1>1, <1>2, <1>3, <1>8, <2>1, <2>2 DEF IInv, TasksInv
<1>12. LocksInv'
    BY DEF IInv, LocksInv, LockOk, Exclusive
<1>13. RecordedInv'
  <2>1. ASSUME NEW d \in Callers, d # c PROVE RecordedOk(d)'
    <3>1. \A row : Agrees(d, row)' <=> Agrees(d, row)
      <4>1. Protocol(d)' = Protocol(d)
          BY DEF Protocol
      <4> QED
          BY <4>1 DEF Agrees
    <3> QED
        BY <1>1, <1>2, <2>1, <3>1 DEF IInv, RecordedInv, RecordedOk, recordVars
  <2>2. call[c].pc # "answered"
      BY DEF IInv, CallInv, CallOk, Ends, Active
  <2>3. RecordedOk(c)'
      BY <2>2 DEF RecordedOk
  <2> QED
      BY <2>1, <2>3 DEF RecordedInv
<1> QED
    BY <1>4, <1>5, <1>6, <1>7, <1>9, <1>10, <1>11, <1>12, <1>13 DEF IInv

\* handle_error! leaves everything but the end of the query as it was.
Kept(q, f) ==
    /\ f.out = q.out /\ f.num_records = q.num_records /\ f.from_cache = q.from_cache
    /\ f.streaming = q.streaming /\ f.runtime_query = q.runtime_query /\ f.events = q.events
    /\ f.tracker.query_id = q.tracker.query_id /\ f.tracker.sql = q.tracker.sql
    /\ f.tracker.nsql = q.tracker.nsql /\ f.tracker.rows_produced = q.tracker.rows_produced
    /\ f.tracker.results_cache_hit = q.tracker.results_cache_hit
\* What handle_error! leaves in a query and in its tracker.
LEMMA FailIs ==
    ASSUME NEW q, DOMAIN q = QueryFields, DOMAIN q.tracker = TrackerFields, NEW code, NEW error
    PROVE  LET f == Fail(q, code, error)
           IN  /\ DOMAIN f = QueryFields /\ DOMAIN f.tracker = TrackerFields
               /\ f.pc = "finish" /\ f.error = Last(error)
               /\ f.tracker.error_code = code /\ f.tracker.end_time = TRUE
               /\ Kept(q, f)
BY DEF Fail, Finished, Kept, QueryFields, TrackerFields

\* A query that has no batch yet fails.
LEMMA QueryFails ==
    ASSUME IInv, NEW c \in Callers, NEW q, NEW code \in Codes, NEW error,
           Last(error) \in ErrorKinds, Becomes(c, Fail(q, code, error)),
           DOMAIN q = QueryFields, DOMAIN q.tracker = TrackerFields, 
           query[c].pc \in {"plan", "lookup", "execute", "stream"},
           q.out = query[c].out /\ q.num_records = query[c].num_records,
           q.from_cache = query[c].from_cache /\ q.runtime_query \in BOOLEAN,
           q.streaming = query[c].streaming,
           q.events = query[c].events /\ q.tracker.query_id = query[c].tracker.query_id,
           q.tracker.nsql = query[c].tracker.nsql,
           q.tracker.rows_produced = Rows(query[c].out),
           q.from_cache = TRUE <=> q.tracker.results_cache_hit = TRUE,
           UNCHANGED <<recordVars, call, cached>>
    PROVE  IInv'
<1> DEFINE f == Fail(q, code, error)
<1>1. /\ DOMAIN f = QueryFields /\ DOMAIN f.tracker = TrackerFields
      /\ f.pc = "finish" /\ f.error = Last(error)
      /\ f.tracker.error_code = code /\ f.tracker.end_time = TRUE
      /\ Kept(q, f)
    BY FailIs
<1>2. query'[c] = f /\ Becomes(c, f)
    BY DEF Becomes
<1>3. code # None /\ f.error # None
    BY <1>1, StatementAssumption DEF Codes
<1>4. TypeOk(c)'
    BY <1>1, <1>2 DEF TypeOk, QueryId, Kept, IInv, TypeInv, Active, Codes
<1>5. TrackOk(c)'
    BY <1>1, <1>2, <1>3 DEF TrackOk, QueryId, Kept, IInv, TrackInv, Active
<1>6. RuntimeOk(c)'
    BY <1>1, <1>2, <1>3 DEF RuntimeOk
<1>7. \A sql \in cached' : ~IsRuntime(StatementOf(sql))
    BY DEF IInv, RuntimeInv
<1>8. query[c].pc \in Active /\ f.pc \in Active
    BY <1>1 DEF Active
<1>9. f.tracker.query_id = QueryId(c) /\ f.tracker.nsql = query[c].tracker.nsql
    BY <1>1 DEF Kept, QueryId
<1> HIDE DEF f
<1> QED
    BY <1>2, <1>4, <1>5, <1>6, <1>7, <1>8, <1>9, QueryProgress

\* Planning, with its errors, keeps the invariant.
LEMMA CreateLogicalPlanInv ==
    ASSUME IInv, NEW c \in Callers, CreateLogicalPlan(c), UNCHANGED callVars PROVE IInv'
<1>1. /\ query[c].pc = "plan" /\ DOMAIN query[c] = QueryFields
      /\ DOMAIN query[c].tracker = TrackerFields /\ query[c].runtime_query \in BOOLEAN
    BY DEF CreateLogicalPlan, IInv, TypeInv, TypeOk
<1>2. UNCHANGED <<recordVars, call, cached>>
    BY DEF CreateLogicalPlan, callVars, recordVars
<1>3. CASE Plan(c).planning = None
  <2> DEFINE q == [query[c] EXCEPT !.pc = "lookup"]
  <2>1. Becomes(c, q)
      BY <1>3 DEF CreateLogicalPlan, Becomes, IInv, TypeInv
  <2>2. q.pc = "lookup" /\ DOMAIN q = QueryFields /\ q.tracker = query[c].tracker /\ Kept(query[c], q)
          /\ q.error = query[c].error
      BY <1>1 DEF QueryFields, Kept
  <2> HIDE DEF q
  <2>3. query'[c] = q
      BY <2>1 DEF Becomes
  <2>4. TypeOk(c)'
      BY <1>1, <2>2, <2>3 DEF TypeOk, QueryId, Kept, IInv, TypeInv, Active
  <2>5. TrackOk(c)'
      BY <1>1, <2>2, <2>3 DEF TrackOk, QueryId, Kept, IInv, TrackInv, Active
  <2>6. RuntimeOk(c)'
      BY <2>2, <2>3 DEF RuntimeOk
  <2>7. \A sql \in cached' : ~IsRuntime(StatementOf(sql))
      BY <1>2 DEF IInv, RuntimeInv
  <2> QED
      BY <1>1, <1>2, <2>1, <2>2, <2>4, <2>5, <2>6, <2>7, QueryProgress DEF Active, QueryId
<1>4. CASE Plan(c).planning # None
  <2> DEFINE error == Plan(c).planning
             code == ErrorCode(error)
  <2>1. Becomes(c, Fail(query[c], code, error))
      BY <1>4 DEF CreateLogicalPlan, Becomes, IInv, TypeInv
  <2>2. Last(error) \in ErrorKinds /\ code \in Codes
      BY <1>4, StatementIs, ErrorCodeIs DEF Plan
  <2>3. /\ query[c].tracker.rows_produced = Rows(query[c].out)
        /\ query[c].from_cache = TRUE <=> query[c].tracker.results_cache_hit = TRUE
      BY <1>1, RowsOfNone DEF IInv, TrackInv, TrackOk, Active
  <2> HIDE DEF error, code
  <2> QED
      BY <1>1, <1>2, <2>1, <2>2, <2>3, QueryFails
<1> QED
    BY <1>3, <1>4

\* The cache has no result of a query that reads the runtime's tables; after a miss
\* such a query is marked.
LEMMA CacheGetInv ==
    ASSUME IInv, NEW c \in Callers, CacheGet(c), UNCHANGED callVars PROVE IInv'
<1>1. /\ query[c].pc = "lookup" /\ DOMAIN query[c] = QueryFields
      /\ DOMAIN query[c].tracker = TrackerFields /\ query[c].runtime_query \in BOOLEAN
    BY DEF CacheGet, IInv, TypeInv, TypeOk
<1>2. UNCHANGED <<recordVars, call, cached>>
    BY DEF CacheGet, callVars, recordVars
<1>3. \A sql \in cached' : ~IsRuntime(StatementOf(sql))
    BY <1>2 DEF IInv, RuntimeInv
<1>4. None # TRUE /\ None # FALSE
    BY StatementAssumption
<1>5. query[c].out = <<>> /\ query[c].from_cache = None /\ query[c].tracker.rows_produced = 0
    BY <1>1 DEF IInv, TrackInv, TrackOk
<1>6. CASE Sql(c) \in cached
  <2> DEFINE q == [query[c] EXCEPT !.pc = "stream", !.from_cache = TRUE, !.streaming = TRUE,
                                   !.tracker.results_cache_hit = TRUE,
                                   !.tracker.datasets = Plan(c).tables]
  <2>1. Becomes(c, q)
      BY <1>6 DEF CacheGet, Becomes, IInv, TypeInv
  <2>2. /\ DOMAIN q = QueryFields /\ DOMAIN q.tracker = TrackerFields
        /\ q.pc = "stream" /\ q.from_cache = TRUE /\ q.tracker.results_cache_hit = TRUE
        /\ q.streaming = TRUE
        /\ q.out = query[c].out /\ q.num_records = query[c].num_records
        /\ q.runtime_query = query[c].runtime_query /\ q.events = query[c].events
        /\ q.error = query[c].error
      BY <1>1 DEF QueryFields, TrackerFields
  <2>3. /\ q.tracker.query_id = query[c].tracker.query_id /\ q.tracker.nsql = query[c].tracker.nsql
        /\ q.tracker.sql = query[c].tracker.sql /\ q.tracker.error_code = query[c].tracker.error_code
        /\ q.tracker.rows_produced = query[c].tracker.rows_produced
      BY <1>1 DEF QueryFields, TrackerFields
  <2> HIDE DEF q
  <2>4. query'[c] = q
      BY <2>1 DEF Becomes
  <2>5. TypeOk(c)'
      BY <1>1, <2>2, <2>3, <2>4 DEF TypeOk, QueryId, IInv, TypeInv, Active
  <2>6. TrackOk(c)'
      BY <1>1, <2>2, <2>3, <2>4 DEF TrackOk, QueryId, IInv, TrackInv, Active
  <2>7. RuntimeOk(c)'
    <3>1. ~IsRuntime(Plan(c)')
        BY <1>6, <2>3, <2>4 DEF Plan, Sql, IInv, RuntimeInv
    <3> QED
        BY <3>1, <2>2, <2>4, <1>4 DEF RuntimeOk
  <2> QED
      BY <1>1, <1>2, <1>3, <2>1, <2>2, <2>3, <2>5, <2>6, <2>7, QueryProgress DEF Active, QueryId
<1>7. CASE Sql(c) \notin cached
  <2> DEFINE missed == [query[c] EXCEPT !.tracker.results_cache_hit = FALSE,
                                        !.plan_is_cache_enabled = ~IsRuntime(Plan(c))]
  <2>1. /\ DOMAIN missed = QueryFields /\ DOMAIN missed.tracker = TrackerFields
        /\ missed.tracker.results_cache_hit = FALSE /\ missed.streaming = query[c].streaming
        /\ missed.plan_is_cache_enabled = ~IsRuntime(Plan(c))
        /\ missed.out = query[c].out /\ missed.num_records = query[c].num_records
        /\ missed.from_cache = query[c].from_cache /\ missed.error = query[c].error
        /\ missed.runtime_query = query[c].runtime_query /\ missed.events = query[c].events
      BY <1>1 DEF QueryFields, TrackerFields
  <2>2. /\ missed.tracker.query_id = query[c].tracker.query_id
        /\ missed.tracker.nsql = query[c].tracker.nsql /\ missed.tracker.sql = query[c].tracker.sql
        /\ missed.tracker.error_code = query[c].tracker.error_code
        /\ missed.tracker.rows_produced = query[c].tracker.rows_produced
      BY <1>1 DEF QueryFields, TrackerFields
  <2>3. Becomes(c, Checked(query[c], Plan(c)))
      BY <1>7 DEF CacheGet, Becomes, IInv, TypeInv
  <2>4. CASE query[c].restricted_sql_options /\ Plan(c).writes
    <3>1. Becomes(c, Fail(missed, "QueryPlanningError", <<"Plan">>))
        BY <2>3, <2>4 DEF Checked
    <3>2. Last(<<"Plan">>) \in ErrorKinds /\ "QueryPlanningError" \in Codes
        BY DEF Last, ErrorKinds, Codes
    <3> HIDE DEF missed
    <3>3. missed.tracker.rows_produced = Rows(query[c].out)
        BY <1>5, <2>2, RowsOfNone
    <3> QED
        BY <1>1, <1>2, <1>4, <1>5, <2>1, <2>2, <3>1, <3>2, <3>3, QueryFails
  <2>5. CASE ~(query[c].restricted_sql_options /\ Plan(c).writes)
    <3> DEFINE q == [missed EXCEPT !.pc = "execute", !.tracker.datasets = Plan(c).tables,
                                   !.runtime_query = IsRuntime(Plan(c))]
    <3>1. Becomes(c, q)
        BY <2>3, <2>5 DEF Checked
    <3> HIDE DEF missed
    <3>2. /\ DOMAIN q = QueryFields /\ DOMAIN q.tracker = TrackerFields /\ q.pc = "execute"
          /\ q.tracker.results_cache_hit = FALSE /\ q.plan_is_cache_enabled = ~IsRuntime(Plan(c))
          /\ q.out = query[c].out /\ q.num_records = query[c].num_records
          /\ q.from_cache = query[c].from_cache /\ q.error = query[c].error
          /\ q.events = query[c].events
          /\ q.runtime_query = IsRuntime(Plan(c))
        BY <2>1 DEF QueryFields, TrackerFields
    <3>3. /\ q.tracker.query_id = query[c].tracker.query_id
          /\ q.tracker.nsql = query[c].tracker.nsql /\ q.tracker.sql = query[c].tracker.sql
          /\ q.tracker.error_code = query[c].tracker.error_code
          /\ q.tracker.rows_produced = query[c].tracker.rows_produced
        BY <2>1, <2>2 DEF QueryFields, TrackerFields
    <3> HIDE DEF q
    <3>4. query'[c] = q
        BY <3>1 DEF Becomes
    <3>5. Plan(c)' = Plan(c)
        BY <3>3, <3>4 DEF Plan, Sql
    <3>6. IsRuntime(Plan(c)) \in BOOLEAN
        BY DEF IsRuntime
    <3>7. TypeOk(c)'
        BY <1>1, <3>2, <3>3, <3>4, <3>6 DEF TypeOk, QueryId, IInv, TypeInv, Active
    <3>8. TrackOk(c)'
        BY <1>1, <1>4, <1>5, <3>2, <3>3, <3>4 DEF TrackOk, QueryId, IInv, TrackInv, Active
    <3>9. RuntimeOk(c)'
        BY <3>2, <3>4, <3>5 DEF RuntimeOk
    <3> QED
        BY <1>1, <1>2, <1>3, <3>1, <3>2, <3>3, <3>7, <3>8, <3>9, QueryProgress DEF Active, QueryId
  <2> QED
      BY <2>4, <2>5
<1> QED
    BY <1>6, <1>7

\* Opening the stream of a plan, with its errors, keeps the invariant.
LEMMA ExecuteStreamInv ==
    ASSUME IInv, NEW c \in Callers, ExecuteStream(c), UNCHANGED callVars PROVE IInv'
<1>1. /\ query[c].pc = "execute" /\ DOMAIN query[c] = QueryFields
      /\ DOMAIN query[c].tracker = TrackerFields /\ query[c].runtime_query \in BOOLEAN
    BY DEF ExecuteStream, IInv, TypeInv, TypeOk
<1>2. UNCHANGED <<recordVars, call, cached>>
    BY DEF ExecuteStream, callVars, recordVars
<1>3. None # TRUE /\ None # FALSE
    BY StatementAssumption
<1>4. /\ query[c].tracker.rows_produced = Rows(query[c].out)
      /\ query[c].from_cache = None /\ query[c].tracker.results_cache_hit # TRUE
    BY <1>1, <1>3, RowsOfNone DEF IInv, TrackInv, TrackOk, Active
<1>5. ASSUME NEW code \in Codes, NEW error, Last(error) \in ErrorKinds,
             Becomes(c, Fail(query[c], code, error))
      PROVE  IInv'
    BY <1>1, <1>2, <1>3, <1>4, <1>5, QueryFails
<1>6. CASE Plan(c).starting # None
  <2>1. Becomes(c, Fail(query[c], ErrorCode(Plan(c).starting), Plan(c).starting))
      BY <1>6 DEF ExecuteStream, Becomes, IInv, TypeInv
  <2>2. Last(Plan(c).starting) \in ErrorKinds /\ ErrorCode(Plan(c).starting) \in Codes
      BY <1>6, StatementIs, ErrorCodeIs DEF Plan
  <2> QED
      BY <2>1, <2>2, <1>5
<1>7. CASE Plan(c).starting = None /\ Plan(c).mismatch
  <2>1. Becomes(c, Fail(query[c], "InternalError", <<"SchemaMismatch">>))
      BY <1>7 DEF ExecuteStream, Becomes, IInv, TypeInv
  <2>2. Last(<<"SchemaMismatch">>) \in ErrorKinds /\ "InternalError" \in Codes
      BY DEF Last, ErrorKinds, Codes
  <2> QED
      BY <2>1, <2>2, <1>5
<1>8. CASE Plan(c).starting = None /\ ~Plan(c).mismatch
  <2> DEFINE q == [query[c] EXCEPT !.pc = "stream", !.streaming = TRUE,
                        !.from_cache = IF query[c].plan_is_cache_enabled THEN FALSE ELSE None]
  <2>1. Becomes(c, q)
      BY <1>8 DEF ExecuteStream, Becomes, IInv, TypeInv
  <2>2. /\ DOMAIN q = QueryFields /\ q.tracker = query[c].tracker /\ q.pc = "stream"
        /\ q.from_cache = (IF query[c].plan_is_cache_enabled THEN FALSE ELSE None)
        /\ q.out = query[c].out /\ q.num_records = query[c].num_records
        /\ q.error = query[c].error /\ q.runtime_query = query[c].runtime_query
        /\ q.events = query[c].events
      BY <1>1 DEF QueryFields
  <2> HIDE DEF q
  <2>3. query'[c] = q
      BY <2>1 DEF Becomes
  <2>4. TypeOk(c)'
      BY <1>1, <2>2, <2>3 DEF TypeOk, QueryId, IInv, TypeInv, Active
  <2>5. TrackOk(c)'
      BY <1>1, <1>3, <1>4, <2>2, <2>3 DEF TrackOk, QueryId, IInv, TrackInv, Active
  <2>6. Plan(c)' = Plan(c)
      BY <2>2, <2>3 DEF Plan, Sql
  <2>7. RuntimeOk(c)'
      BY <1>1, <1>3, <2>2, <2>3, <2>6 DEF RuntimeOk, IInv, RuntimeInv
  <2>8. \A sql \in cached' : ~IsRuntime(StatementOf(sql))
      BY <1>2 DEF IInv, RuntimeInv
  <2> QED
      BY <1>1, <1>2, <2>1, <2>2, <2>4, <2>5, <2>7, <2>8, QueryProgress DEF Active, QueryId
<1> QED
    BY <1>6, <1>7, <1>8

\* A batch that is passed on is counted: num_records stays the rows sent.
LEMMA NextBatchInv ==
    ASSUME IInv, NEW c \in Callers, NextBatch(c), UNCHANGED callVars PROVE IInv'
<1> DEFINE out == query[c].out
           batches == Plan(c).batches
           rows == batches[Len(out) + 1]
           q == [query[c] EXCEPT !.out = Append(query[c].out, rows),
                                 !.num_records = query[c].num_records + rows,
                                 !.truncated_output =
                                     IF query[c].num_records = 0
                                     THEN IF rows < Preview THEN rows ELSE Preview
                                     ELSE query[c].truncated_output]
<1>1. /\ query[c].pc = "stream" /\ DOMAIN query[c] = QueryFields
      /\ out \in Seq(Nat) /\ Len(out) < Len(batches)
    BY DEF NextBatch, IInv, TypeInv, TypeOk
<1>2. UNCHANGED <<recordVars, call, cached>>
    BY DEF NextBatch, callVars, recordVars
<1>3. batches \in Seq(Nat)
    BY StatementIs DEF Plan
<1>4. Len(out) \in Nat /\ Len(batches) \in Nat
    BY <1>1, <1>3, LenProperties
<1>5. rows \in Nat
  <2> HIDE DEF out, batches
  <2>1. Len(out) + 1 \in 1..Len(batches)
      BY <1>1, <1>4
  <2> QED
      BY <2>1, <1>3
<1>6. Append(out, rows) \in Seq(Nat) /\ Rows(Append(out, rows)) = Rows(out) + rows
  <2> HIDE DEF out, rows
  <2> QED
      BY <1>1, <1>5, RowsOfMore, AppendProperties
<1> HIDE DEF rows
<1>7. Becomes(c, q)
    BY DEF NextBatch, Becomes, IInv, TypeInv, rows
<1>8. /\ DOMAIN q = QueryFields /\ q.tracker = query[c].tracker /\ q.pc = "stream"
      /\ q.out = Append(out, rows) /\ q.num_records = query[c].num_records + rows
      /\ q.from_cache = query[c].from_cache /\ q.error = query[c].error
      /\ q.streaming = query[c].streaming
      /\ q.runtime_query = query[c].runtime_query /\ q.events = query[c].events
    BY <1>1 DEF QueryFields
<1> HIDE DEF q
<1>9. query'[c] = q
    BY <1>7 DEF Becomes
<1>10. TypeOk(c)'
  <2> HIDE DEF out
  <2> QED
      BY <1>1, <1>6, <1>8, <1>9 DEF TypeOk, QueryId, IInv, TypeInv, Active
<1>11. TrackOk(c)'
  <2>1. q.num_records = Rows(q.out)
    <3>1. query[c].num_records = Rows(out)
        BY <1>1 DEF IInv, TrackInv, TrackOk, Active
    <3> HIDE DEF out
    <3> QED
        BY <3>1, <1>6, <1>8
  <2> HIDE DEF out
  <2> QED
      BY <1>1, <1>8, <1>9, <2>1 DEF TrackOk, QueryId, IInv, TrackInv, Active
<1>12. RuntimeOk(c)'
  <2>1. Plan(c)' = Plan(c)
      BY <1>8, <1>9 DEF Plan, Sql
  <2> HIDE DEF out
  <2> QED
      BY <1>1, <1>8, <1>9, <2>1 DEF RuntimeOk, IInv, RuntimeInv
<1>13. \A sql \in cached' : ~IsRuntime(StatementOf(sql))
    BY <1>2 DEF IInv, RuntimeInv
<1> QED
    BY <1>1, <1>2, <1>7, <1>8, <1>10, <1>11, <1>12, <1>13, QueryProgress DEF Active, QueryId

\* An error in the middle of a stream writes down what was sent before it.
LEMMA StreamFailsInv ==
    ASSUME IInv, NEW c \in Callers, StreamFails(c), UNCHANGED callVars PROVE IInv'
<1> DEFINE q == [query[c] EXCEPT !.tracker.schema = TRUE,
                                 !.tracker.rows_produced = query[c].num_records]
<1>1. /\ query[c].pc = "stream" /\ DOMAIN query[c] = QueryFields
      /\ DOMAIN query[c].tracker = TrackerFields /\ query[c].runtime_query \in BOOLEAN
    BY DEF StreamFails, IInv, TypeInv, TypeOk
<1>2. UNCHANGED <<recordVars, call, cached>>
    BY DEF StreamFails, callVars, recordVars
<1>3. Becomes(c, Fail(q, "QueryExecutionError", Plan(c).failure))
    BY DEF StreamFails, Becomes, IInv, TypeInv
<1>4. Last(Plan(c).failure) \in ErrorKinds /\ "QueryExecutionError" \in Codes
    BY StatementIs DEF StreamFails, Plan, Codes
<1>5. /\ query[c].num_records = Rows(query[c].out)
      /\ query[c].from_cache = TRUE <=> query[c].tracker.results_cache_hit = TRUE
    BY <1>1 DEF IInv, TrackInv, TrackOk, Active
<1>6. /\ DOMAIN q = QueryFields /\ DOMAIN q.tracker = TrackerFields
      /\ q.out = query[c].out /\ q.num_records = query[c].num_records
      /\ q.from_cache = query[c].from_cache /\ q.runtime_query = query[c].runtime_query
      /\ q.streaming = query[c].streaming
      /\ q.events = query[c].events
    BY <1>1 DEF QueryFields, TrackerFields
<1>7. /\ q.tracker.query_id = query[c].tracker.query_id /\ q.tracker.nsql = query[c].tracker.nsql
      /\ q.tracker.rows_produced = query[c].num_records
      /\ q.tracker.results_cache_hit = query[c].tracker.results_cache_hit
    BY <1>1 DEF QueryFields, TrackerFields
<1> HIDE DEF q
<1> QED
    BY <1>1, <1>2, <1>3, <1>4, <1>5, <1>6, <1>7, QueryFails

\* The end of a stream writes down all that was sent.
LEMMA StreamEndsInv ==
    ASSUME IInv, NEW c \in Callers, StreamEnds(c), UNCHANGED callVars PROVE IInv'
<1> DEFINE t == Finished([query[c].tracker EXCEPT !.schema = TRUE,
                              !.rows_produced = query[c].num_records], None)
           q == [query[c] EXCEPT !.pc = "finish", !.tracker = t]
<1>1. /\ query[c].pc = "stream" /\ DOMAIN query[c] = QueryFields
      /\ DOMAIN query[c].tracker = TrackerFields
    BY DEF StreamEnds, IInv, TypeInv, TypeOk
<1>2. UNCHANGED <<recordVars, call>>
    BY DEF StreamEnds, callVars, recordVars
<1>3. Becomes(c, q)
    BY DEF StreamEnds, Becomes, IInv, TypeInv
<1>4. /\ DOMAIN t = TrackerFields /\ t.end_time = TRUE /\ t.error_code = None
      /\ t.rows_produced = query[c].num_records /\ t.query_id = query[c].tracker.query_id
      /\ t.nsql = query[c].tracker.nsql /\ t.sql = query[c].tracker.sql
      /\ t.results_cache_hit = query[c].tracker.results_cache_hit
    BY <1>1 DEF Finished, TrackerFields
<1> HIDE DEF t
<1>5. /\ DOMAIN q = QueryFields /\ q.tracker = t /\ q.pc = "finish"
      /\ q.out = query[c].out /\ q.num_records = query[c].num_records
      /\ q.from_cache = query[c].from_cache /\ q.error = query[c].error
      /\ q.streaming = query[c].streaming
      /\ q.runtime_query = query[c].runtime_query /\ q.events = query[c].events
    BY <1>1 DEF QueryFields
<1> HIDE DEF q
<1>6. query'[c] = q
    BY <1>3 DEF Becomes
<1>7. TypeOk(c)'
    BY <1>1, <1>4, <1>5, <1>6 DEF TypeOk, QueryId, IInv, TypeInv, Active
<1>8. TrackOk(c)'
    BY <1>1, <1>4, <1>5, <1>6 DEF TrackOk, QueryId, IInv, TrackInv, Active
<1>9. Plan(c)' = Plan(c)
    BY <1>4, <1>5, <1>6 DEF Plan, Sql
<1>10. RuntimeOk(c)'
    BY <1>1, <1>4, <1>5, <1>6, <1>9 DEF RuntimeOk, IInv, RuntimeInv
<1>11. \A sql \in cached' : ~IsRuntime(StatementOf(sql))
    BY <1>1 DEF StreamEnds, IInv, RuntimeInv, RuntimeOk, Plan
<1> QED
    BY <1>1, <1>2, <1>3, <1>4, <1>5, <1>7, <1>8, <1>10, <1>11, QueryProgress DEF Active, QueryId

(***************************************************************************)
(* The beginning and the end of a query                                    *)
(***************************************************************************)

\* A query begins, with a number its caller did not have before.
LEMMA QueryStarts ==
    ASSUME IInv, NEW c \in Callers, NEW r, Moves(c, r), SameAsk(c, r), LockFits(r),
           r.guard = "model" => call[c].guard = "model",
           NEW sql, NEW nsql, NEW restricted, NEW protocol,
           StartQuery(c, sql, nsql, restricted, protocol), UNCHANGED <<recordVars, cached>>,
           \/ r.pc = "query" /\ r.kind \in Asks
           \/ r.pc = "tool_query" /\ r.kind \in {"nsql", "chat", "stream"} /\ nsql = None
    PROVE  IInv'
<1> DEFINE q == QueryBuilder(c, NextId(c), sql, nsql, restricted, protocol)
           id == <<c, NextId(c)>>
<1>1. /\ DOMAIN query' = Callers /\ query'[c] = q
      /\ \A d \in Callers : d # c => query'[d] = query[d]
    BY DEF StartQuery, IInv, TypeInv
<1>2. /\ DOMAIN q = QueryFields /\ DOMAIN q.tracker = TrackerFields /\ q.pc = "plan"
      /\ q.from_cache = None /\ q.out = <<>> /\ q.num_records = 0 /\ q.error = None
      /\ q.runtime_query = FALSE /\ q.events = <<>>
    BY DEF QueryBuilder, NewTracker, QueryFields, TrackerFields
<1>3. /\ q.tracker.query_id = id /\ q.tracker.nsql = nsql /\ q.tracker.rows_produced = 0
      /\ q.tracker.results_cache_hit = None /\ q.tracker.error_code = None
    BY DEF QueryBuilder, NewTracker
<1> HIDE DEF q
<1>4. QueryId(c)[2] \in Nat /\ NextId(c) = QueryId(c)[2] + 1
    BY DEF IInv, TypeInv, TypeOk, NextId, QueryId
<1>5. id[2] = NextId(c) /\ id = <<c, id[2]>> /\ id \notin HistoryIds
    BY NextIsNew DEF IInv
<1> HIDE DEF id
<1>6. QueryId(c)' = id /\ \A d \in Callers : d # c => QueryId(d)' = QueryId(d)
    BY <1>1, <1>3 DEF QueryId
<1>7. None # TRUE
    BY StatementAssumption
<1>8. /\ DOMAIN call' = Callers /\ call'[c] = r
      /\ \A d \in Callers : d # c => call'[d] = call[d]
    BY DEF Moves
<1>9. TypeInv'
  <2>1. ASSUME NEW d \in Callers, d # c PROVE TypeOk(d)'
      BY <1>1, <1>6, <2>1 DEF IInv, TypeInv, TypeOk
  <2>2. TypeOk(c)'
    <3>1. id[2] \in Nat /\ <<>> \in Seq(Nat)
        BY <1>4, <1>5
    <3>2. QueryId(c)' = <<c, QueryId(c)'[2]>> /\ QueryId(c)'[2] \in Nat
        BY <1>5, <1>6, <3>1
    <3>3. DOMAIN query'[c] = QueryFields /\ DOMAIN query'[c].tracker = TrackerFields
        BY <1>1, <1>2
    <3>4. /\ query'[c].pc \in Active \cup {"idle", "over", "dropped"} /\ query'[c].out \in Seq(Nat)
          /\ query'[c].from_cache \in BOOLEAN \cup {None}
          /\ query'[c].runtime_query \in BOOLEAN
          /\ query'[c].tracker.error_code \in Codes \cup {None}
        BY <1>1, <1>2, <1>3, <3>1 DEF Active
    <3> QED
        BY <3>2, <3>3, <3>4 DEF TypeOk
  <2>3. ASSUME NEW d \in Callers
        PROVE  DOMAIN call'[d] = CallFields /\ DOMAIN call'[d].answer = AnswerFields
      BY <1>8 DEF IInv, TypeInv, SameAsk
  <2> QED
      BY <1>1, <1>8, <2>1, <2>2, <2>3 DEF TypeInv
<1>10. CallInv'
  <2>1. ASSUME NEW d \in Callers, d # c PROVE CallOk(d)'
      BY <1>1, <1>6, <1>8, <2>1 DEF IInv, CallInv, CallOk
  <2>2. r.kind \in DOMAIN Entries
      BY DEF SameAsk, IInv, CallInv, CallOk
  <2>3. CallOk(c)'
      BY <1>1, <1>2, <1>3, <1>8, <2>2 DEF CallOk, Active, Early, AtWork, Ends
  <2> QED
      BY <2>1, <2>3 DEF CallInv
<1>11. TrackInv'
  <2>1. ASSUME NEW d \in Callers, d # c PROVE TrackOk(d)'
      BY <1>1, <1>6, <2>1 DEF IInv, TrackInv, TrackOk
  <2>2. TrackOk(c)'
    <3>1. QueryId(c)'[2] > 0
        BY <1>4, <1>5, <1>6
    <3>2. /\ q.num_records = Rows(q.out)
          /\ q.from_cache # TRUE /\ q.tracker.results_cache_hit # TRUE
        BY <1>2, <1>3, <1>7, RowsOfNone
    <3> QED
        BY <1>1, <1>2, <1>3, <3>1, <3>2 DEF TrackOk
  <2> QED
      BY <2>1, <2>2 DEF TrackInv
<1>12. RuntimeInv'
  <2>1. ASSUME NEW d \in Callers, d # c PROVE RuntimeOk(d)'
      BY <1>1, <2>1 DEF IInv, RuntimeInv, RuntimeOk, Plan, Sql
  <2>2. RuntimeOk(c)'
      BY <1>1, <1>2 DEF RuntimeOk
  <2> QED
      BY <2>1, <2>2 DEF IInv, RuntimeInv
<1>13. HistoryIds' = HistoryIds /\ SpanIds' = SpanIds
    BY DEF HistoryIds, SpanIds, recordVars
<1>14. HistoryInv'
  <2>1. \A d \in Callers : QueryId(d)'[2] \in Nat /\ QueryId(d)[2] <= QueryId(d)'[2]
      BY <1>4, <1>5, <1>6 DEF IInv, TypeInv, TypeOk
  <2>2. \A i \in HistoryIds : Reached(i)'
      BY <2>1, ReachedStays DEF IInv, HistoryInv
  <2>3. ASSUME NEW d \in Callers PROVE Written(d)'
    <3>1. CASE d = c
        BY <1>1, <1>2, <1>5, <1>6, <1>13, <3>1 DEF Written
    <3>2. CASE d # c
        BY <1>1, <1>6, <1>13, <3>2 DEF IInv, HistoryInv, Written, recordVars
    <3> QED
        BY <3>1, <3>2
  <2>4. query_history' = query_history
      BY DEF recordVars
  <2> QED
      BY <1>13, <2>2, <2>3, <2>4 DEF IInv, HistoryInv
<1>15. SpansInv'
  <2>1. SUFFICES ASSUME NEW s \in closed
                 PROVE  /\ Readable(s.events) /\ \A row \in RowsOf(s.id)' : Traced(s, row)
                        /\ \A d \in Callers : QueryId(d)' = s.id =>
                              query'[d].runtime_query = s.runtime_query
      BY DEF SpansInv, recordVars
  <2>2. RowsOf(s.id)' = RowsOf(s.id)
      BY DEF RowsOf, recordVars
  <2>3. s.id \in HistoryIds
      BY DEF HistoryIds, SpanIds
  <2> QED
      BY <1>1, <1>5, <1>6, <2>2, <2>3 DEF IInv, SpansInv
<1>16. TasksInv'
  <2>1. \A t \in task_history' : \A row \in RowsOf(t.span_id)' : TaskAgrees(t, row)
      BY DEF IInv, TasksInv, RowsOf, recordVars
  <2> QED
      BY <1>1, <1>2, <1>6, <1>13, <2>1 DEF IInv, TasksInv
<1>17. LocksInv'
    BY LocksMoved DEF IInv
<1>18. RecordedInv'
  <2>1. ASSUME NEW d \in Callers, d # c PROVE RecordedOk(d)'
    <3>1. call'[d] = call[d]
        BY <1>8, <2>1
    <3>2. Protocol(d)' = Protocol(d)
        BY <3>1 DEF Protocol
    <3>3. \A row : Agrees(d, row)' <=> Agrees(d, row)
        BY <3>1, <3>2 DEF Agrees
    <3> QED
        BY <1>1, <1>6, <2>1, <3>1, <3>3 DEF IInv, RecordedInv, RecordedOk, recordVars
  <2>2. RecordedOk(c)'
      BY <1>8 DEF RecordedOk
  <2> QED
      BY <2>1, <2>2 DEF RecordedInv
<1> QED
    BY <1>9, <1>10, <1>11, <1>12, <1>14, <1>15, <1>16, <1>17, <1>18 DEF IInv

\* A request that starts a query gives it a number nobody knows.
LEMMA RunsQueryInv ==
    ASSUME IInv, NEW c \in Callers, NEW kind \in Asks, RunsQuery(c, kind) PROVE IInv'
<1> DEFINE r == call'[c]
           sql == call[c].sql
           protocol == Protocol(c)
<1>1. UNCHANGED <<recordVars, cached>> /\ call[c].pc = "start" /\ call[c].kind = kind
    BY DEF RunsQuery, recordVars
<1>2. StartQuery(c, sql, None, TRUE, protocol)
    BY DEF RunsQuery
<1>3. DOMAIN call[c] = CallFields /\ DOMAIN call[c].answer = AnswerFields
    BY DEF IInv, TypeInv
<1>4. Moves(c, r) /\ SameAsk(c, r) /\ r.pc = "query" /\ r.guard = call[c].guard
    BY <1>3 DEF RunsQuery, Moves, SameAsk, CallFields, IInv, TypeInv
<1>5. r.guard = "none" /\ r.kind \in Asks
    BY <1>1, <1>4 DEF IInv, LocksInv, LockOk, SameAsk
<1>6. LockFits(r)
    BY <1>4, <1>5 DEF LockFits
<1> HIDE DEF r, sql, protocol
<1> QED
    BY <1>1, <1>2, <1>4, <1>5, <1>6, QueryStarts

\* A tool answers at once, or its query begins.
LEMMA RunToolInv == ASSUME IInv, NEW c \in Callers, RunTool(c) PROVE IInv'
<1> DEFINE r == call'[c]
<1>1. UNCHANGED <<recordVars, cached>> /\ call[c].pc = "tools"
    BY DEF RunTool, recordVars
<1>2. ASSUME NEW content, ToolAnswers(c, content), UNCHANGED query PROVE IInv'
  <2>1. UNCHANGED historyVars
      BY <1>1, <1>2 DEF recordVars, historyVars
  <2> QED
      BY <2>1, <1>1, <1>2, ToolAnswersInv
<1>3. ASSUME NEW arguments, SqlTool(c, arguments) PROVE IInv'
  <2> DEFINE sql == arguments[1]
             protocol == "flight"
  <2>1. StartQuery(c, sql, None, FALSE, protocol)
      BY <1>3 DEF SqlTool
  <2>2. DOMAIN call[c] = CallFields /\ DOMAIN call[c].answer = AnswerFields
      BY DEF IInv, TypeInv
  <2>3. /\ Moves(c, r) /\ SameAsk(c, r)
        /\ r.pc = "tool_query" /\ r.guard = call[c].guard /\ r.level = call[c].level
      BY <1>3, <2>2 DEF SqlTool, Moves, SameAsk, CallFields, IInv, TypeInv
  <2>4. LockFits(r)
      BY <1>1, <2>3 DEF LockFits, SameAsk, IInv, LocksInv, LockOk
  <2>5. r.kind \in {"nsql", "chat", "stream"}
      BY <1>1, <2>3 DEF SameAsk, IInv, CallInv, CallOk, AtWork
  <2> HIDE DEF r, sql, protocol
  <2> QED
      BY <1>1, <2>1, <2>3, <2>4, <2>5, QueryStarts
<1>4. ASSUME NEW arguments, TableSchemaTool(c, arguments) PROVE IInv'
    BY <1>2, <1>4, Zenon DEF TableSchemaTool
<1>5. ASSUME ListDatasetsTool(c) PROVE IInv'
    BY <1>2, <1>5 DEF ListDatasetsTool
<1>6. ASSUME NEW arguments, DocumentSimilarityTool(c, arguments) PROVE IInv'
    BY <1>2, <1>6, Zenon DEF DocumentSimilarityTool
<1> QED
    BY <1>2, <1>3, <1>4, <1>5, <1>6, Zenon DEF RunTool

\* The answer to a chat, or the query of a model that writes SQL.
LEMMA ReplyInv == ASSUME IInv, NEW c \in Callers, Reply(c) PROVE IInv'
<1> DEFINE r == call'[c]
           a == [NoAnswer EXCEPT !.status = "200", !.usage = Usage(call[c].usages)]
           sql == process_response(call[c].choices)
           nsql == call[c].sql
           protocol == Protocol(c)
<1>1. UNCHANGED <<recordVars, cached>> /\ call[c].pc = "reply"
    BY DEF Reply, recordVars
<1>2. ASSUME UNCHANGED query PROVE UNCHANGED historyVars
    BY <1>1, <1>2 DEF recordVars, historyVars
<1>3. CASE call[c].kind = "chat"
  <2>1. call' = Answer(c, a) /\ UNCHANGED query
      BY <1>3 DEF Reply
  <2>2. DOMAIN a = AnswerFields
      BY NoAnswerFields
  <2> HIDE DEF a
  <2> QED
      BY <1>1, <1>2, <2>1, <2>2, PlainAnswer DEF AtWork
<1>4. CASE call[c].kind # "chat" /\ sql \in {None, "error"}
  <2>1. call' = Status500(c) /\ UNCHANGED query
      BY <1>4 DEF Reply
  <2> QED
      BY <1>1, <1>2, <2>1, Status500Inv DEF AtWork
<1>5. CASE call[c].kind # "chat" /\ sql \notin {None, "error"}
  <2>1. /\ StartQuery(c, sql, nsql, TRUE, protocol)
        /\ call' = [call EXCEPT ![c].pc = "query", ![c].guard = "none"]
      BY <1>5 DEF Reply
  <2>2. DOMAIN call[c] = CallFields /\ DOMAIN call[c].answer = AnswerFields
      BY DEF IInv, TypeInv
  <2>3. Moves(c, r) /\ SameAsk(c, r) /\ r.pc = "query" /\ r.guard = "none"
      BY <2>1, <2>2 DEF Moves, SameAsk, CallFields, IInv, TypeInv
  <2>4. LockFits(r)
      BY <2>3 DEF LockFits
  <2>5. r.kind \in Asks
      BY <1>1, <1>5, <2>3 DEF SameAsk, IInv, CallInv, CallOk, AtWork, Asks
  <2> HIDE DEF r, sql, nsql, protocol
  <2> QED
      BY <1>1, <2>1, <2>3, <2>4, <2>5, QueryStarts
<1> QED
    BY <1>3, <1>4, <1>5

\* A query comes to its end, and what is written down of it carries a number that no
\* record had before: rows of query_history, or the note that there is none, and spans.
Ended(c, q, rows, missed, spans) ==
    LET id == q.tracker.query_id
    IN  /\ query_history' = query_history \cup rows /\ unrecorded' = unrecorded \cup missed
        /\ closed' = closed \cup spans /\ UNCHANGED <<cached, task_history, lost>>
        /\ id = <<c, id[2]>> /\ id[2] \in Nat /\ id[2] > 0
        /\ QueryId(c)[2] <= id[2] /\ id \notin HistoryIds
        /\ (\A row \in rows : row.query_id = id) /\ (\A a, b \in rows : a = b)
        /\ \A i \in missed : i = id
        /\ \A s \in spans :
              /\ s.id = id /\ s.runtime_query = q.runtime_query
              /\ Readable(s.events) /\ \A row \in rows : Traced(s, row)
        /\ q.pc \notin Active
        /\ q.pc = "over" =>
              (id \in missed \/ to_record_batch(q.tracker) \in rows) /\ spans # {}

\* A query that ends adds a row or a missing one and its span, under its own number.
LEMMA QueryEnds ==
    ASSUME IInv, NEW c \in Callers, NEW q, Becomes(c, q),
           NEW r, Moves(c, r), SameAsk(c, r), LockFits(r), r.guard = "model" => call[c].guard = "model",
           NEW rows, NEW missed, NEW spans, Ended(c, q, rows, missed, spans),
           TypeOk(c)', CallOk(c)', TrackOk(c)', RuntimeOk(c)', RecordedOk(c)'
    PROVE  IInv'
<1> DEFINE id == q.tracker.query_id
<1>0. /\ query_history' = query_history \cup rows /\ unrecorded' = unrecorded \cup missed
      /\ closed' = closed \cup spans /\ UNCHANGED <<cached, task_history, lost>>
      /\ id = <<c, id[2]>> /\ id[2] \in Nat /\ id[2] > 0
      /\ QueryId(c)[2] <= id[2] /\ id \notin HistoryIds
      /\ (\A row \in rows : row.query_id = id) /\ (\A a, b \in rows : a = b)
      /\ \A i \in missed : i = id
      /\ \A s \in spans :
            /\ s.id = id /\ s.runtime_query = q.runtime_query
            /\ Readable(s.events) /\ \A row \in rows : Traced(s, row)
      /\ q.pc \notin Active
      /\ q.pc = "over" =>
            (id \in missed \/ to_record_batch(q.tracker) \in rows) /\ spans # {}
    BY DEF Ended
<1> HIDE DEF id
<1>1. /\ DOMAIN query' = Callers /\ query'[c] = q
      /\ \A d \in Callers : d # c => query'[d] = query[d]
    BY DEF Becomes
<1>2. QueryId(c)' = id /\ \A d \in Callers : d # c => QueryId(d)' = QueryId(d)
    BY <1>1 DEF QueryId, id
<1>3. /\ DOMAIN call' = Callers /\ call'[c] = r
      /\ \A d \in Callers : d # c => call'[d] = call[d]
    BY DEF Moves
<1>4. TypeInv'
  <2>1. ASSUME NEW d \in Callers, d # c PROVE TypeOk(d)'
      BY <1>1, <1>2, <2>1 DEF IInv, TypeInv, TypeOk
  <2>2. ASSUME NEW d \in Callers
        PROVE  DOMAIN call'[d] = CallFields /\ DOMAIN call'[d].answer = AnswerFields
      BY <1>3 DEF IInv, TypeInv, SameAsk
  <2> QED
      BY <1>1, <1>3, <2>1, <2>2 DEF TypeInv
<1>5. CallInv'
  <2>1. ASSUME NEW d \in Callers, d # c PROVE CallOk(d)'
      BY <1>1, <1>2, <1>3, <2>1 DEF IInv, CallInv, CallOk
  <2> QED
      BY <2>1 DEF CallInv
<1>6. TrackInv'
  <2>1. ASSUME NEW d \in Callers, d # c PROVE TrackOk(d)'
      BY <1>1, <1>2, <2>1 DEF IInv, TrackInv, TrackOk
  <2> QED
      BY <2>1 DEF TrackInv
<1>7. RuntimeInv'
  <2>1. ASSUME NEW d \in Callers, d # c PROVE RuntimeOk(d)'
      BY <1>0, <1>1, <2>1 DEF IInv, RuntimeInv, RuntimeOk, Plan, Sql
  <2> QED
      BY <1>0, <2>1 DEF IInv, RuntimeInv
<1>8. SpanIds' = SpanIds \cup {s.id : s \in spans}
    BY <1>0 DEF SpanIds
<1>9. \A i \in HistoryIds' : i \in HistoryIds \/ i = id
    BY <1>0, <1>8 DEF HistoryIds
<1>10. HistoryIds \subseteq HistoryIds'
    BY <1>0, <1>8 DEF HistoryIds
<1>11. \A d \in Callers : d # c => QueryId(d) # id
    BY <1>0 DEF IInv, TypeInv, TypeOk
<1>12. ASSUME NEW i, i # id PROVE RowsOf(i)' = RowsOf(i)
    BY <1>0, <1>12 DEF RowsOf
<1>13. RowsOf(id)' = rows
  <2>1. \A row \in query_history : row.query_id # id
      BY <1>0 DEF HistoryIds
  <2> QED
      BY <1>0, <2>1 DEF RowsOf
<1>14. HistoryInv'
  <2>1. \A d \in Callers : QueryId(d)'[2] \in Nat /\ QueryId(d)[2] <= QueryId(d)'[2]
    <3>1. \A d \in Callers : QueryId(d)[2] \in Nat
        BY <1>0 DEF IInv, TypeInv, TypeOk
    <3> QED
        BY <1>0, <1>2, <3>1
  <2>2. \A i \in HistoryIds : Reached(i)'
      BY <1>0, <2>1, ReachedStays DEF IInv, HistoryInv
  <2>3. Reached(id)'
    <3>1. id[2] \in 1..QueryId(c)'[2]
        BY <1>0, <1>2
    <3> QED
        BY <1>0, <3>1 DEF Reached
  <2>4. \A i \in HistoryIds' : Reached(i)'
      BY <1>0, <1>9, <2>2, <2>3
  <2>5. \A a, b \in query_history' : a.query_id = b.query_id => a = b
    <3>1. \A row \in query_history : row.query_id # id
        BY <1>0 DEF HistoryIds
    <3> QED
        BY <1>0, <3>1 DEF IInv, HistoryInv
  <2>6. ASSUME NEW d \in Callers PROVE Written(d)'
    <3>1. CASE d = c
        BY <1>0, <1>1, <1>2, <3>1 DEF Written
    <3>2. CASE d # c
        BY <1>0, <1>1, <1>2, <1>9, <1>11, <3>2 DEF IInv, HistoryInv, Written
    <3> QED
        BY <1>0, <3>1, <3>2
  <2> QED
      BY <1>0, <2>4, <2>5, <2>6 DEF HistoryInv
<1>15. SpansInv'
  <2>1. SUFFICES ASSUME NEW s \in closed'
                 PROVE  /\ Readable(s.events) /\ \A row \in RowsOf(s.id)' : Traced(s, row)
                        /\ \A d \in Callers : QueryId(d)' = s.id =>
                              query'[d].runtime_query = s.runtime_query
      BY <1>0 DEF SpansInv
  <2>2. CASE s \in spans
      BY <1>0, <1>1, <1>2, <1>11, <1>13, <2>2
  <2>3. CASE s \in closed
    <3>1. s.id # id
        BY <1>0, <2>3 DEF HistoryIds, SpanIds
    <3> QED
        BY <1>0, <1>1, <1>2, <1>12, <2>3, <3>1 DEF IInv, SpansInv
  <2> QED
      BY <1>0, <2>1, <2>2, <2>3
<1>16. TasksInv'
  <2>1. ASSUME NEW t \in task_history PROVE \A row \in RowsOf(t.span_id)' : TaskAgrees(t, row)
    <3>1. t.span_id # id
        BY <1>0 DEF HistoryIds, SpanIds
    <3> QED
        BY <1>0, <1>12, <3>1 DEF IInv, TasksInv
  <2>2. ASSUME NEW d \in Callers, query'[d].pc = "over"
        PROVE  QueryId(d)' \in SpanIds' \/ query'[d].runtime_query
    <3>1. CASE d = c
        BY <1>0, <1>1, <1>2, <1>8, <2>2, <3>1
    <3>2. CASE d # c
        BY <1>0, <1>1, <1>2, <1>8, <2>2, <3>2 DEF IInv, TasksInv
    <3> QED
        BY <1>0, <3>1, <3>2
  <2> QED
      BY <1>0, <2>1, <2>2 DEF TasksInv
<1>17. LocksInv'
    BY <1>0, LocksMoved DEF IInv
<1>18. RecordedInv'
  <2>1. ASSUME NEW d \in Callers, d # c PROVE RecordedOk(d)'
    <3>1. call'[d] = call[d]
        BY <1>0, <1>3, <2>1
    <3>2. Protocol(d)' = Protocol(d)
        BY <1>0, <3>1 DEF Protocol
    <3>3. \A row : Agrees(d, row)' <=> Agrees(d, row)
        BY <1>0, <3>1, <3>2 DEF Agrees
    <3>4. RecordedOk(d)
        BY <1>0 DEF IInv, RecordedInv
    <3> QED
        BY <1>0, <1>1, <1>2, <2>1, <3>1, <3>3, <3>4 DEF RecordedOk
  <2> QED
      BY <1>0, <2>1 DEF RecordedInv
<1> QED
    BY <1>0, <1>4, <1>5, <1>6, <1>7, <1>14, <1>15, <1>16, <1>17, <1>18 DEF IInv

(***************************************************************************)
(* The events of a query                                                   *)
(***************************************************************************)

\* A span whose events are those of two sequences fails, has a label and can be read as
\* they do.
LEMMA JoinedEvents ==
    ASSUME NEW S, NEW s \in Seq(S), NEW t \in Seq(S)
    PROVE  /\ s \o t \in Seq(S)
           /\ Failing(s \o t) <=> Failing(s) \/ Failing(t)
           /\ \A key : Labelled(s \o t, key) <=> Labelled(s, key) \/ Labelled(t, key)
           /\ Readable(s \o t) <=> Readable(s) /\ Readable(t)
<1> DEFINE u == s \o t
<1>1. /\ u \in Seq(S) /\ Len(u) = Len(s) + Len(t)
      /\ \A i \in 1..(Len(s) + Len(t)) : u[i] = IF i <= Len(s) THEN s[i] ELSE t[i - Len(s)]
    BY ConcatProperties
<1>2. /\ Len(s) \in Nat /\ Len(t) \in Nat
      /\ DOMAIN s = 1..Len(s) /\ DOMAIN t = 1..Len(t) /\ DOMAIN u = 1..(Len(s) + Len(t))
    BY <1>1, LenProperties
<1> HIDE DEF u
<1>3. ASSUME NEW i \in DOMAIN s PROVE i \in DOMAIN u /\ u[i] = s[i]
    BY <1>1, <1>2
<1>4. ASSUME NEW j \in DOMAIN t PROVE \E i \in DOMAIN u : u[i] = t[j]
  <2>1. Len(s) + j \in DOMAIN u /\ ~(Len(s) + j <= Len(s)) /\ (Len(s) + j) - Len(s) = j
      BY <1>2
  <2> QED
      BY <1>1, <1>2, <2>1
<1>5. ASSUME NEW i \in DOMAIN u
      PROVE  (i \in DOMAIN s /\ u[i] = s[i]) \/ (\E j \in DOMAIN t : u[i] = t[j])
  <2>1. CASE i <= Len(s)
      BY <1>1, <1>2, <2>1
  <2>2. CASE ~(i <= Len(s))
    <3>1. i - Len(s) \in DOMAIN t
        BY <1>2, <2>2
    <3> QED
        BY <1>1, <1>2, <2>2, <3>1
  <2> QED
      BY <2>1, <2>2
<1>6. Failing(u) <=> Failing(s) \/ Failing(t)
    BY <1>3, <1>4, <1>5, Zenon DEF Failing
<1>7. ASSUME NEW key PROVE Labelled(u, key) <=> Labelled(s, key) \/ Labelled(t, key)
    BY <1>3, <1>4, <1>5, Zenon DEF Labelled
<1>8. Readable(u) <=> Readable(s) /\ Readable(t)
  <2>1. DOMAIN u \subseteq Nat /\ DOMAIN s \subseteq Nat /\ DOMAIN t \subseteq Nat
      BY <1>2
  <2> QED
      BY <2>1, <1>3, <1>4, <1>5, Zenon DEF Readable
<1> QED
    BY <1>1, <1>6, <1>7, <1>8 DEF u

\* What a list of one event tells the exporter.
LEMMA OneEvent ==
    ASSUME NEW e
    PROVE  /\ Failing(<<e>>) <=> "level" \in DOMAIN e /\ e.level = "ERROR"
           /\ \A key : Labelled(<<e>>, key) <=> e.name = "labels" /\ key \in DOMAIN e
           /\ Readable(<<e>>) <=> ("level" \in DOMAIN e => e.name # None)
<1>1. DOMAIN <<e>> = {1} /\ <<e>>[1] = e
    OBVIOUS
<1> QED
    BY <1>1 DEF Failing, Labelled, Readable

\* What an empty list of events tells the exporter.
LEMMA NoEvent ==
    ~Failing(<<>>) /\ (\A key : ~Labelled(<<>>, key)) /\ Readable(<<>>)
BY DEF Failing, Labelled, Readable

\* The labels of a query name its protocol, and the class of its error if it has one;
\* only the error itself makes the span fail.
LEMMA EventsTell ==
    ASSUME NEW t, NEW output, NEW error, t.error_code = None <=> error = None
    PROVE  LET last == IF error = None THEN <<>> ELSE <<ErrorEvent(error)>>
               traced == <<>> \o trace_query(t, output) \o last
               untraced == <<>> \o <<>> \o last
           IN  /\ Readable(traced) /\ Readable(untraced)
               /\ Failing(traced) <=> t.error_code # None
               /\ Labelled(traced, "protocol")
               /\ Labelled(traced, "error_code") <=> t.error_code # None
<1> DEFINE l == [name |-> "labels", error_code |-> t.error_code]
           a == [name |-> "labels", query_execution_duration_ms |-> "measured"]
           b == [name |-> "labels", protocol |-> t.protocol, datasets |-> t.datasets]
           d == [name |-> "event", truncated_output |-> output]
           e == ErrorEvent(error)
           S == {l, a, b, d, e}
           first == IF t.error_code # None THEN <<l>> ELSE <<>>
           last == IF error = None THEN <<>> ELSE <<e>>
           trace == trace_query(t, output)
<1>1. trace = ((first \o <<a>>) \o <<b>>) \o <<d>>
    BY DEF trace_query
<1>2. /\ a.name = "labels" /\ b.name = "labels" /\ d.name = "event" /\ l.name = "labels"
      /\ e.name = error /\ e.level = "ERROR" /\ DOMAIN e = {"name", "level"}
      /\ DOMAIN a = {"name", "query_execution_duration_ms"} /\ DOMAIN l = {"name", "error_code"}
      /\ DOMAIN b = {"name", "protocol", "datasets"} /\ DOMAIN d = {"name", "truncated_output"}
    BY DEF ErrorEvent
<1> HIDE DEF a, b, d, l, e, trace
<1>3. /\ first \in Seq(S) /\ last \in Seq(S) /\ <<>> \in Seq(S)
      /\ <<a>> \in Seq(S) /\ <<b>> \in Seq(S) /\ <<d>> \in Seq(S)
  <2>1. l \in S /\ a \in S /\ b \in S /\ d \in S /\ e \in S
      OBVIOUS
  <2> HIDE DEF S
  <2>2. \A x \in S : <<x>> \in Seq(S)
      OBVIOUS
  <2> QED
      BY <2>1, <2>2
<1>4. /\ ~Failing(<<a>>) /\ ~Labelled(<<a>>, "error_code") /\ Readable(<<a>>)
      /\ ~Failing(<<b>>) /\ ~Labelled(<<b>>, "error_code") /\ Readable(<<b>>)
      /\ Labelled(<<b>>, "protocol")
      /\ ~Failing(<<d>>) /\ ~Labelled(<<d>>, "error_code") /\ Readable(<<d>>)
    BY <1>2, OneEvent
<1>5. /\ ~Failing(first) /\ Readable(first)
      /\ Labelled(first, "error_code") <=> t.error_code # None
    BY <1>2, OneEvent, NoEvent
<1>6. /\ Failing(last) <=> t.error_code # None
      /\ Readable(last) /\ ~Labelled(last, "error_code")
  <2>1. CASE error = None
      BY <2>1, NoEvent
  <2>2. CASE error # None
    <3>1. Failing(<<e>>) /\ Readable(<<e>>) /\ ~Labelled(<<e>>, "error_code")
        BY <1>2, <2>2, OneEvent
    <3> QED
        BY <2>2, <3>1
  <2> QED
      BY <2>1, <2>2
<1> HIDE DEF S, first, last
<1> DEFINE one == first \o <<a>>
           two == one \o <<b>>
           three == two \o <<d>>
           four == <<>> \o three
           five == four \o last
<1>7. /\ one \in Seq(S) /\ ~Failing(one) /\ Readable(one)
      /\ Labelled(one, "error_code") <=> t.error_code # None
    BY <1>3, <1>4, <1>5, JoinedEvents
<1> HIDE DEF one
<1>8. /\ two \in Seq(S) /\ ~Failing(two) /\ Readable(two) /\ Labelled(two, "protocol")
      /\ Labelled(two, "error_code") <=> t.error_code # None
    BY <1>3, <1>4, <1>7, JoinedEvents
<1> HIDE DEF two
<1>9. /\ three \in Seq(S) /\ ~Failing(three) /\ Readable(three) /\ Labelled(three, "protocol")
      /\ Labelled(three, "error_code") <=> t.error_code # None
    BY <1>3, <1>4, <1>8, JoinedEvents
<1> HIDE DEF three
<1>10. /\ four \in Seq(S) /\ ~Failing(four) /\ Readable(four) /\ Labelled(four, "protocol")
       /\ Labelled(four, "error_code") <=> t.error_code # None
    BY <1>3, <1>9, NoEvent, JoinedEvents
<1> HIDE DEF four
<1>11. /\ (Failing(five) <=> t.error_code # None) /\ Readable(five) /\ Labelled(five, "protocol")
       /\ Labelled(five, "error_code") <=> t.error_code # None
    BY <1>3, <1>6, <1>10, JoinedEvents
<1>12. five = <<>> \o trace \o last
    BY <1>1 DEF four, three, two, one
<1> DEFINE none == <<>> \o <<>>
<1>13. none \in Seq(S) /\ Readable(none)
    BY <1>3, NoEvent, JoinedEvents
<1> HIDE DEF none, five
<1>14. Readable(none \o last)
    BY <1>3, <1>6, <1>13, JoinedEvents
<1> QED
    BY <1>11, <1>12, <1>14 DEF last, e, trace, none

\* Writing a query down keeps the invariant: the row, or that it is missing, and the span.
LEMMA WriteQueryHistoryInv ==
    ASSUME IInv, NEW c \in Callers, WriteQueryHistory(c), UNCHANGED callVars PROVE IInv'
<1> DEFINE q == query[c]
           t == query[c].tracker
           id == QueryId(c)
           output == IF q.error = None THEN q.truncated_output ELSE None
           last == IF q.error = None THEN <<>> ELSE <<ErrorEvent(q.error)>>
           trace == trace_query(t, output)
           Events(s) == q.events \o s \o last
           Now(s) == [q EXCEPT !.pc = "over", !.events = Events(s)]
           row == to_record_batch(t)
<1>1. /\ q.pc = "finish" /\ UNCHANGED <<cached, task_history, lost>> /\ UNCHANGED call
      /\ DOMAIN q = QueryFields /\ DOMAIN t = TrackerFields
    BY DEF WriteQueryHistory, callVars, IInv, TypeInv, TypeOk
<1>2. /\ q.events = <<>> /\ t.rows_produced = Rows(q.out)
      /\ q.error = None <=> t.error_code = None
      /\ id[2] > 0
    BY <1>1 DEF IInv, TrackInv, TrackOk, Active
<1>3. id = <<c, id[2]>> /\ id[2] \in Nat /\ id \notin HistoryIds
    BY <1>1 DEF IInv, TypeInv, TypeOk, HistoryInv, Written, Active
<1>4. Moves(c, call[c]) /\ SameAsk(c, call[c]) /\ LockFits(call[c])
    BY <1>1 DEF Moves, SameAsk, LockFits, IInv, TypeInv, LocksInv, LockOk
<1>5. Readable(Events(trace)) /\ Readable(Events(<<>>))
    BY <1>2, EventsTell
<1>6. /\ row.query_id = id /\ row.sql = t.sql
      /\ row.execution_status = 0 <=> t.error_code = None
  <2>1. t.error_code \in Codes \cup {None}
      BY DEF IInv, TypeInv, TypeOk
  <2>2. row.query_id = id /\ row.sql = t.sql /\ row.execution_status = Status(t.error_code)
      BY DEF to_record_batch, QueryId
  <2> QED
      BY <2>1, <2>2, StatusIs
<1>7. /\ Failing(Events(trace)) <=> row.execution_status # 0
      /\ Labelled(Events(trace), "protocol")
      /\ Labelled(Events(trace), "error_code") <=> row.execution_status # 0
    BY <1>2, <1>6, EventsTell
<1>8. IsRuntime(StatementOf(row.sql)) /\ ~q.runtime_query => row.execution_status # 0
    BY <1>1, <1>2, <1>6 DEF IInv, RuntimeInv, RuntimeOk, Plan, Sql
<1> HIDE DEF output, last, trace, row, Events
<1>9. ASSUME NEW s, query' = [query EXCEPT ![c].pc = "over", ![c].events = Events(s)]
      PROVE  /\ Becomes(c, Now(s)) /\ Now(s).pc = "over" /\ Now(s).tracker = t
             /\ Now(s).runtime_query = q.runtime_query
             /\ TypeOk(c)' /\ CallOk(c)' /\ TrackOk(c)' /\ RuntimeOk(c)' /\ RecordedOk(c)'
  <2> DEFINE n == Now(s)
  <2>1. /\ DOMAIN n = QueryFields /\ n.pc = "over" /\ n.tracker = t /\ n.out = q.out
        /\ n.from_cache = q.from_cache /\ n.runtime_query = q.runtime_query
        /\ n.num_records = q.num_records /\ n.error = q.error /\ n.streaming = q.streaming
      BY <1>1 DEF QueryFields
  <2>2. Becomes(c, n)
      BY <1>9 DEF Becomes, IInv, TypeInv
  <2> HIDE DEF n
  <2>3. query'[c] = n /\ QueryId(c)' = QueryId(c) /\ Plan(c)' = Plan(c)
      BY <2>1, <2>2 DEF Becomes, QueryId, Plan, Sql
  <2>4. TypeOk(c)'
      BY <1>1, <2>1, <2>3 DEF TypeOk, IInv, TypeInv, Active
  <2>5. CallOk(c)'
      BY <1>1, <2>1, <2>3 DEF CallOk, IInv, CallInv, Active, Early, AtWork, Ends
  <2>6. TrackOk(c)'
      BY <1>1, <2>1, <2>3 DEF TrackOk, IInv, TrackInv, Active
  <2>7. RuntimeOk(c)'
      BY <1>1, <2>1, <2>3 DEF RuntimeOk, IInv, RuntimeInv
  <2>8. RecordedOk(c)'
    <3>1. call[c].pc # "answered"
        BY <1>1 DEF IInv, CallInv, CallOk, Ends
    <3> QED
        BY <1>1, <3>1 DEF RecordedOk
  <2> QED
      BY <2>1, <2>2, <2>4, <2>5, <2>6, <2>7, <2>8 DEF n
<1>10. CASE /\ query_history' = query_history \cup {row} /\ UNCHANGED unrecorded
            /\ query' = [query EXCEPT ![c].pc = "over", ![c].events = Events(trace)]
            /\ closed' = closed \cup {SpanOf(q, Events(trace))}
  <2> DEFINE s == SpanOf(q, Events(trace))
             n == Now(trace)
             r == call[c]
             rows == {row}
             missed == {}
             spans == {s}
  <2>1. s.id = id /\ s.runtime_query = q.runtime_query /\ s.events = Events(trace)
      BY DEF SpanOf, QueryId
  <2>2. Traced(s, row)
      BY <1>7, <1>8, <2>1 DEF Traced
  <2>3. /\ Becomes(c, n) /\ n.pc = "over" /\ n.tracker = t /\ n.runtime_query = q.runtime_query
        /\ TypeOk(c)' /\ CallOk(c)' /\ TrackOk(c)' /\ RuntimeOk(c)' /\ RecordedOk(c)'
      BY <1>9, <1>10
  <2>4. n.pc \notin Active /\ n.tracker.query_id = id /\ to_record_batch(n.tracker) \in rows
      BY <2>3 DEF Active, QueryId, row
  <2>5. \A x \in missed : x = id
      OBVIOUS
  <2>6. /\ spans # {}
        /\ \A x \in spans : /\ x.id = id /\ x.runtime_query = n.runtime_query
                            /\ Readable(x.events) /\ \A y \in rows : Traced(x, y)
      BY <1>5, <2>1, <2>2, <2>3
  <2>7. (\A y \in rows : y.query_id = id) /\ (\A x, y \in rows : x = y)
      BY <1>6
  <2>8. QueryId(c)[2] <= id[2]
      BY <1>3
  <2>9. /\ query_history' = query_history \cup rows /\ unrecorded' = unrecorded \cup missed
        /\ closed' = closed \cup spans
      BY <1>10
  <2>10. r.guard = "model" => call[c].guard = "model"
      OBVIOUS
  <2>11. Moves(c, r) /\ SameAsk(c, r) /\ LockFits(r)
      BY <1>4
  <2> HIDE DEF s, n, r, id, rows, missed, spans
  <2>12. Ended(c, n, rows, missed, spans)
      BY <1>1, <1>2, <1>3, <2>4, <2>5, <2>6, <2>7, <2>8, <2>9 DEF Ended
  <2> QED
      BY <2>3, <2>10, <2>11, <2>12, QueryEnds
<1>11. CASE /\ unrecorded' = unrecorded \cup {id} /\ UNCHANGED query_history
            /\ query' = [query EXCEPT ![c].pc = "over", ![c].events = Events(<<>>)]
            /\ closed' = closed \cup {SpanOf(q, Events(<<>>))}
  <2> DEFINE s == SpanOf(q, Events(<<>>))
             n == Now(<<>>)
             r == call[c]
             rows == {}
             missed == {id}
             spans == {s}
  <2>1. s.id = id /\ s.runtime_query = q.runtime_query /\ s.events = Events(<<>>)
      BY DEF SpanOf, QueryId
  <2>2. /\ Becomes(c, n) /\ n.pc = "over" /\ n.tracker = t /\ n.runtime_query = q.runtime_query
        /\ TypeOk(c)' /\ CallOk(c)' /\ TrackOk(c)' /\ RuntimeOk(c)' /\ RecordedOk(c)'
      BY <1>9, <1>11
  <2>3. n.pc \notin Active /\ n.tracker.query_id = id
      BY <2>2 DEF Active, QueryId
  <2>4. /\ id \in missed /\ (\A x \in missed : x = id)
        /\ (\A y \in rows : y.query_id = id) /\ (\A x, y \in rows : x = y)
      OBVIOUS
  <2>5. /\ spans # {}
        /\ \A x \in spans : /\ x.id = id /\ x.runtime_query = n.runtime_query
                            /\ Readable(x.events) /\ \A y \in rows : Traced(x, y)
      BY <1>5, <2>1, <2>2
  <2>6. QueryId(c)[2] <= id[2]
      BY <1>3
  <2>7. /\ query_history' = query_history \cup rows /\ unrecorded' = unrecorded \cup missed
        /\ closed' = closed \cup spans
      BY <1>11
  <2>8. r.guard = "model" => call[c].guard = "model"
      OBVIOUS
  <2>9. Moves(c, r) /\ SameAsk(c, r) /\ LockFits(r)
      BY <1>4
  <2> HIDE DEF s, n, r, id, rows, missed, spans
  <2>10. Ended(c, n, rows, missed, spans)
      BY <1>1, <1>2, <1>3, <2>3, <2>4, <2>5, <2>6, <2>7 DEF Ended
  <2> QED
      BY <2>2, <2>8, <2>9, <2>10, QueryEnds
<1> QED
    BY <1>10, <1>11, Zenon DEF WriteQueryHistory, Events, last, trace, output, row, QueryId

\* The client goes away, and its query with it: the span is closed, nothing is recorded.
LEMMA DropInv ==
    ASSUME IInv, NEW c \in Callers, NEW r, Moves(c, r), SameAsk(c, r), r.pc = "gone",
           r.guard = "none", DropQuery(c),
           UNCHANGED <<cached, query_history, unrecorded, task_history, lost>>
    PROVE  IInv'
<1> DEFINE q == query[c]
<1>1. r.pc \in Ends /\ LockFits(r)
    BY DEF Ends, LockFits
<1>2. CASE ~Running(c)
  <2>1. UNCHANGED historyVars
      BY <1>2 DEF DropQuery, historyVars
  <2>2. query[c].pc \in {"idle", "over", "dropped"}
      BY <1>2 DEF Running, IInv, TypeInv, TypeOk, Active
  <2> QED
      BY <1>1, <2>1, <2>2, EndStep
<1>3. CASE Running(c)
  <2> DEFINE n == [q EXCEPT !.pc = "dropped"]
             s == SpanOf(q, q.events)
             rows == {}
             missed == {}
             spans == {s}
  <2>1. q.pc \in Active /\ DOMAIN q = QueryFields /\ DOMAIN q.tracker = TrackerFields
      BY <1>3 DEF Running, Active, IInv, TypeInv, TypeOk
  <2>2. /\ DOMAIN n = QueryFields /\ n.pc = "dropped" /\ n.tracker = q.tracker /\ n.out = q.out
        /\ n.from_cache = q.from_cache /\ n.runtime_query = q.runtime_query
        /\ n.num_records = q.num_records /\ n.error = q.error /\ n.events = q.events
      BY <2>1 DEF QueryFields
  <2>3. q.events = <<>> /\ QueryId(c)[2] > 0
      BY <2>1 DEF IInv, TrackInv, TrackOk, Active
  <2>4. s.id = q.tracker.query_id /\ s.runtime_query = q.runtime_query /\ s.events = <<>>
      BY <2>3 DEF SpanOf
  <2>5. Becomes(c, n)
      BY <1>3 DEF DropQuery, Becomes, IInv, TypeInv
  <2>6. closed' = closed \cup spans
      BY <1>3 DEF DropQuery
  <2> HIDE DEF n, s
  <2>7. query'[c] = n /\ QueryId(c)' = QueryId(c)
      BY <2>2, <2>5 DEF Becomes, QueryId
  <2>8. TypeOk(c)'
      BY <2>2, <2>7 DEF TypeOk, IInv, TypeInv, Active
  <2>9. CallOk(c)'
      BY <1>1, <2>2, <2>7 DEF CallOk, IInv, CallInv, Moves, SameAsk, Early, AtWork, Ends
  <2>10. TrackOk(c)'
      BY <2>2, <2>3, <2>7 DEF TrackOk, Active
  <2>11. RuntimeOk(c)' /\ RecordedOk(c)'
      BY <2>2, <2>7 DEF RuntimeOk, RecordedOk, Moves
  <2>12. Ended(c, n, rows, missed, spans)
    <3>1. /\ n.tracker.query_id = QueryId(c) /\ QueryId(c) = <<c, QueryId(c)[2]>>
          /\ QueryId(c)[2] \in Nat /\ QueryId(c) \notin HistoryIds
        BY <2>1, <2>2 DEF QueryId, IInv, TypeInv, TypeOk, HistoryInv, Written
    <3>2. n.pc \notin Active /\ n.pc # "over"
        BY <2>2 DEF Active
    <3>3. s.id = n.tracker.query_id /\ s.runtime_query = n.runtime_query /\ Readable(s.events)
        BY <2>2, <2>4, NoEvent
    <3>4. QueryId(c)[2] <= QueryId(c)[2]
        BY <3>1
    <3> QED
        BY <2>3, <2>6, <3>1, <3>2, <3>3, <3>4 DEF Ended
  <2>13. r.guard = "model" => call[c].guard = "model"
      OBVIOUS
  <2> HIDE DEF rows, missed, spans
  <2> QED
      BY <1>1, <2>5, <2>8, <2>9, <2>10, <2>11, <2>12, <2>13, QueryEnds
<1> QED
    BY <1>2, <1>3

\* A client that goes away drops its query or leaves it to a task, and the invariant stays.
LEMMA LeaveInv == ASSUME IInv, NEW c \in Callers, Leave(c) PROVE IInv'
<1> DEFINE r == call'[c]
<1>1. /\ ~Over(c) /\ DOMAIN call[c] = CallFields /\ DOMAIN call[c].answer = AnswerFields
      /\ UNCHANGED <<cached, query_history, unrecorded, task_history, lost>>
    BY DEF Leave, IInv, TypeInv
<1>2. CASE call' = [call EXCEPT ![c].here = FALSE] /\ UNCHANGED <<query, closed>>
  <2>1. /\ Moves(c, r) /\ SameAsk(c, r) /\ r.guard = call[c].guard /\ r.level = call[c].level
        /\ r.pc = call[c].pc
      BY <1>1, <1>2 DEF Moves, SameAsk, CallFields, IInv, TypeInv
  <2>2. UNCHANGED historyVars
      BY <1>1, <1>2 DEF historyVars
  <2> HIDE DEF r
  <2> QED
      BY <1>1, <2>1, <2>2, StayStep DEF Over, Ends
<1>3. CASE DropQuery(c) /\ call' = [call EXCEPT ![c].pc = "gone", ![c].guard = "none"]
  <2>1. Moves(c, r) /\ SameAsk(c, r) /\ r.guard = "none" /\ r.pc = "gone"
      BY <1>1, <1>3 DEF Moves, SameAsk, CallFields, IInv, TypeInv
  <2> HIDE DEF r
  <2> QED
      BY <1>1, <1>3, <2>1, DropInv
<1> QED
    BY <1>2, <1>3 DEF Leave

(***************************************************************************)
(* The answers of the servers                                              *)
(***************************************************************************)

\* The status a client of Flight sees for an error of the plan is none of the others.
LEMMA RefusedIs ==
    ASSUME NEW error
    PROVE  handle_datafusion_error(error) \notin {"200", "ok", "500"}
BY DEF handle_datafusion_error

\* A handler that needs the schema of a text: it goes on, or the text has no plan, and
\* then this is recorded as a query of its own, outside of any span.
LEMMA WithSchemaInv ==
    ASSUME IInv, NEW c \in Callers, NEW next, WithSchema(c, next), call[c].pc \in Early,
           next \in {"answered", "info_prepared", "start"}
    PROVE  IInv'
<1> DEFINE r == call'[c]
           sql == call[c].sql
           planning == StatementOf(call[c].sql).planning
<1>1. /\ DOMAIN call[c] = CallFields /\ DOMAIN call[c].answer = AnswerFields
      /\ query[c].pc = "idle" /\ QueryId(c)[2] = 0 /\ call[c].guard = "none"
      /\ DOMAIN query[c] = QueryFields /\ DOMAIN query[c].tracker = TrackerFields
    BY DEF IInv, TypeInv, TypeOk, CallInv, CallOk, LocksInv, LockOk, Early
<1>2. UNCHANGED <<cached, closed, task_history, lost>>
    BY DEF WithSchema
<1>3. CASE planning = None
  <2>1. UNCHANGED historyVars
      BY <1>2, <1>3 DEF WithSchema, get_arrow_schema, historyVars
  <2>2. CASE next = "answered"
    <3> DEFINE a == [NoAnswer EXCEPT !.status = "ok"]
    <3>1. call' = Answer(c, a)
        BY <1>3, <2>2 DEF WithSchema
    <3>2. DOMAIN a = AnswerFields
        BY NoAnswerFields
    <3> HIDE DEF a
    <3> QED
        BY <2>1, <3>1, <3>2, PlainAnswer
  <2>3. CASE next # "answered"
    <3>1. call' = [call EXCEPT ![c].pc = next]
        BY <1>3, <2>3 DEF WithSchema
    <3>2. /\ Moves(c, r) /\ SameAsk(c, r) /\ r.guard = "none" /\ r.pc = next
        BY <1>1, <3>1 DEF Moves, SameAsk, CallFields, IInv, TypeInv
    <3>3. next \in Early /\ next \notin AtWork \cup Ends \cup {"query", "tool_query"}
        BY <2>3 DEF Early, AtWork, Ends
    <3>4. LockFits(r)
        BY <2>3, <3>2 DEF LockFits
    <3>5. CallOk(c)'
        BY <1>1, <2>1, <3>2, <3>3 DEF CallOk, SameAsk, QueryId, historyVars, IInv, CallInv, Ends, AtWork
    <3>6. RecordedOk(c)'
        BY <2>3, <3>2 DEF RecordedOk
    <3> HIDE DEF r
    <3> QED
        BY <2>1, <3>2, <3>4, <3>5, <3>6, RequestStep
  <2> QED
      BY <2>2, <2>3
<1>4. CASE planning # None
  <2> DEFINE id == <<c, NextId(c)>>
             code == ErrorCode(planning)
             failed == Finished(NewTracker(id, sql, None, Protocol(c)), code)
             row == to_record_batch(failed)
             n == [query[c] EXCEPT !.tracker.query_id = id]
             a == [NoAnswer EXCEPT !.status = handle_datafusion_error(planning)]
             spans == {}
  <2>1. call' = Answer(c, a)
      BY <1>4 DEF WithSchema
  <2>2. DOMAIN a = AnswerFields /\ a.rows = 0 /\ a.status \notin {"200", "ok", "500"}
      BY NoAnswerFields, RefusedIs DEF NoAnswer
  <2>3. /\ query' = [query EXCEPT ![c].tracker.query_id = id]
        /\ \/ query_history' = query_history \cup {row} /\ UNCHANGED unrecorded
           \/ unrecorded' = unrecorded \cup {failed.query_id} /\ UNCHANGED query_history
      BY <1>4 DEF WithSchema, get_arrow_schema
  <2>4. /\ failed.query_id = id /\ failed.sql = sql /\ failed.rows_produced = 0
        /\ failed.error_code = code
      BY DEF Finished, NewTracker
  <2>5. row.query_id = id /\ row.execution_status # 0 /\ row.rows_produced = 0
    <3>1. code \in Codes /\ code # None
        BY ErrorCodeIs, StatementAssumption DEF Codes
    <3>2. Status(code) # 0
        BY <3>1, StatusIs
    <3> HIDE DEF code, failed
    <3> QED
        BY <2>4, <3>2 DEF to_record_batch
  <2> HIDE DEF a, code, row
  <2>6. /\ Moves(c, r) /\ SameAsk(c, r) /\ r.pc = "answered" /\ r.guard = "none" /\ r.answer = a
      BY <2>1, <2>2, AnswerMoves DEF IInv
  <2>7. id[2] = QueryId(c)[2] + 1 /\ id = <<c, id[2]>> /\ id \notin HistoryIds
      BY NextIsNew DEF IInv, NextId, QueryId
  <2> HIDE DEF id, failed
  <2>8. Becomes(c, n)
      BY <2>3 DEF Becomes, IInv, TypeInv
  <2>9. /\ DOMAIN n = QueryFields /\ DOMAIN n.tracker = TrackerFields
        /\ n.pc = "idle" /\ n.out = query[c].out /\ n.from_cache = query[c].from_cache
        /\ n.runtime_query = query[c].runtime_query /\ n.events = query[c].events
      BY <1>1 DEF QueryFields, TrackerFields
  <2>10. n.tracker.query_id = id /\ n.tracker.error_code = query[c].tracker.error_code
      BY <1>1 DEF QueryFields, TrackerFields
  <2> HIDE DEF n
  <2>11. query'[c] = n /\ QueryId(c)' = id
      BY <2>8, <2>10 DEF Becomes, QueryId
  <2>12. TypeOk(c)'
      BY <1>1, <2>7, <2>9, <2>10, <2>11 DEF TypeOk, IInv, TypeInv
  <2>13. CallOk(c)'
      BY <2>6, <2>9, <2>11 DEF CallOk, IInv, CallInv, SameAsk, Early, AtWork, Ends
  <2>14. TrackOk(c)' /\ RuntimeOk(c)'
      BY <1>1, <2>9, <2>11 DEF TrackOk, RuntimeOk, Active, IInv, TrackInv
  <2>15. LockFits(r) /\ (r.guard = "model" => call[c].guard = "model")
      BY <2>6 DEF LockFits
  <2>16. id[2] \in Nat /\ id[2] > 0 /\ QueryId(c)[2] <= id[2]
      BY <1>1, <2>7
  <2>17. n.pc \notin Active /\ n.pc # "over"
      BY <2>9 DEF Active
  <2>18. CASE query_history' = query_history \cup {row} /\ UNCHANGED unrecorded
    <3> DEFINE rows == {row}
               missed == {}
    <3>1. \A x : x.execution_status # 0 /\ x.rows_produced = 0 => Agrees(c, x)'
      <4>1. r.answer.rows = 0 /\ r.answer.status \notin {"200", "ok", "500"}
          BY <2>2, <2>6
      <4> QED
          BY <4>1 DEF Agrees
    <3>2. RecordedOk(c)'
        BY <2>5, <2>11, <2>18, <3>1 DEF RecordedOk
    <3>3. Ended(c, n, rows, missed, spans)
        BY <1>2, <2>5, <2>7, <2>10, <2>16, <2>17, <2>18 DEF Ended
    <3> HIDE DEF r, rows, missed, spans
    <3> QED
        BY <2>6, <2>8, <2>12, <2>13, <2>14, <2>15, <3>2, <3>3, QueryEnds
  <2>19. CASE unrecorded' = unrecorded \cup {failed.query_id} /\ UNCHANGED query_history
    <3> DEFINE rows == {}
               missed == {id}
    <3>1. RecordedOk(c)'
        BY <2>4, <2>11, <2>19 DEF RecordedOk
    <3>2. Ended(c, n, rows, missed, spans)
        BY <1>2, <2>4, <2>7, <2>10, <2>16, <2>17, <2>19 DEF Ended
    <3> HIDE DEF r, rows, missed, spans
    <3> QED
        BY <2>6, <2>8, <2>12, <2>13, <2>14, <2>15, <3>1, <3>2, QueryEnds
  <2> QED
      BY <2>3, <2>18, <2>19
<1> QED
    BY <1>3, <1>4

\* The header of an answer says that it comes from the cache when it does.
LEMMA HeaderIs ==
    ASSUME NEW from_cache \in BOOLEAN \cup {None}
    PROVE  attach_cache_metadata(from_cache) = "Hit from spiceai" <=> from_cache = TRUE
<1>1. None # TRUE /\ None # FALSE /\ None # "Hit from spiceai"
    BY StatementAssumption
<1>2. CASE from_cache = None
    BY <1>1, <1>2 DEF attach_cache_metadata
<1>3. CASE from_cache = TRUE
    BY <1>1, <1>3 DEF attach_cache_metadata
<1>4. CASE from_cache = FALSE
    BY <1>1, <1>4 DEF attach_cache_metadata
<1> QED
    BY <1>2, <1>3, <1>4

\* A query that is over is answered as its row says.
LEMMA AnswerQueryInv == ASSUME IInv, NEW c \in Callers, AnswerQuery(c) PROVE IInv'
<1> DEFINE q == query[c]
           t == query[c].tracker
           http == call[c].kind \in {"sql", "nsql"}
           answer == IF http THEN sql_to_http_response(q) ELSE sql_to_flight_stream(q)
           a == [NoAnswer EXCEPT !.status = answer.status, !.rows = answer.rows,
                                 !.x_cache = answer.x_cache]
           r == call'[c]
<1>1. /\ call[c].pc = "query" /\ q.pc = "over" /\ UNCHANGED historyVars
      /\ call' = Answer(c, a)
    BY DEF AnswerQuery, queryVars, historyVars
<1>2. /\ DOMAIN a = AnswerFields
      /\ a.status = answer.status /\ a.rows = answer.rows /\ a.x_cache = answer.x_cache
    BY NoAnswerFields DEF AnswerFields
<1>3. /\ t.rows_produced = Rows(q.out) /\ (q.error = None <=> t.error_code = None)
      /\ (q.from_cache = TRUE <=> t.results_cache_hit = TRUE)
      /\ (q.from_cache = TRUE => q.streaming = TRUE)
      /\ q.from_cache \in BOOLEAN \cup {None} /\ t.error_code \in Codes \cup {None}
    BY <1>1 DEF IInv, TrackInv, TrackOk, TypeInv, TypeOk, Active
<1>4. None # "Hit from spiceai"
    BY StatementAssumption
<1>5. /\ q.error = None <=> answer.status \in {"200", "ok", "500"}
      /\ answer.status \in {"200", "ok"} =>
            answer.rows = Rows(q.out) /\ (answer.x_cache = "Hit from spiceai" <=> q.from_cache = TRUE)
      /\ ~http => answer.rows = Rows(q.out)
  <2>1. CASE http
    <3>1. /\ q.error # None => answer.status = "400"
          /\ q.error = None => answer.status \in {"200", "500"}
          /\ answer.status = "200" =>
                answer.rows = Rows(q.out) /\ answer.x_cache = attach_cache_metadata(q.from_cache)
        BY <2>1 DEF sql_to_http_response
    <3>2. answer.status = "200" =>
             answer.rows = Rows(q.out) /\ (answer.x_cache = "Hit from spiceai" <=> q.from_cache = TRUE)
        BY <1>3, <3>1, HeaderIs
    <3>3. /\ q.error = None <=> answer.status \in {"200", "ok", "500"}
          /\ answer.status # "ok"
        BY <3>1
    <3> HIDE DEF answer
    <3> QED
        BY <2>1, <3>2, <3>3
  <2>2. CASE ~http
    <3>1. answer = sql_to_flight_stream(q)
        BY <2>2
    <3>2. /\ q.error = None => answer.status = "ok"
          /\ q.error # None => answer.status \in {"invalid_argument", "internal"}
          /\ answer.rows = Rows(q.out)
          /\ answer.x_cache = IF q.streaming THEN attach_cache_metadata(q.from_cache) ELSE None
        BY <3>1 DEF sql_to_flight_stream
    <3>3. answer.x_cache = "Hit from spiceai" <=> q.from_cache = TRUE
      <4> HIDE DEF answer
      <4>1. attach_cache_metadata(q.from_cache) = "Hit from spiceai" <=> q.from_cache = TRUE
          BY <1>3, HeaderIs
      <4>2. CASE q.streaming
          BY <3>2, <4>1, <4>2
      <4>3. CASE ~q.streaming
          BY <1>3, <1>4, <3>2, <4>3
      <4> QED
          BY <4>2, <4>3
    <3> HIDE DEF answer
    <3> QED
        BY <3>2, <3>3
  <2> QED
      BY <2>1, <2>2
<1> HIDE DEF answer
<1>6. /\ Moves(c, r) /\ SameAsk(c, r) /\ r.pc = "answered" /\ r.guard = "none" /\ r.answer = a
  <2> HIDE DEF a
  <2> QED
      BY <1>1, <1>2, AnswerMoves DEF IInv
<1> HIDE DEF a
<1>7. LockFits(r)
    BY <1>6 DEF LockFits
<1>8. CallOk(c)'
    BY <1>1, <1>6 DEF CallOk, IInv, CallInv, SameAsk, Early, AtWork, Ends, historyVars
<1>9. QueryId(c)' = QueryId(c) /\ UNCHANGED <<query_history, unrecorded>>
    BY <1>1 DEF QueryId, historyVars
<1>10. Protocol(c)' = "http" <=> http
    BY <1>6 DEF SameAsk, Protocol
<1>11. \A x : /\ x.execution_status = 0 <=> q.error = None
              /\ x.rows_produced = Rows(q.out) /\ (x.results_cache_hit <=> q.from_cache = TRUE)
              => Agrees(c, x)'
    BY <1>2, <1>5, <1>6, <1>10 DEF Agrees
<1>12. CASE QueryId(c) \in unrecorded
  <2>1. RecordedOk(c)'
      BY <1>9, <1>12 DEF RecordedOk
  <2> HIDE DEF r
  <2> QED
      BY <1>1, <1>6, <1>7, <1>8, <2>1, RequestStep
<1>13. CASE to_record_batch(t) \in query_history
  <2> DEFINE row == to_record_batch(t)
  <2>1. /\ row.query_id = QueryId(c) /\ row.execution_status = Status(t.error_code)
        /\ row.rows_produced = Rows(q.out) /\ (row.results_cache_hit <=> q.from_cache = TRUE)
      BY <1>3 DEF to_record_batch, QueryId
  <2>2. row.execution_status = 0 <=> q.error = None
      BY <1>3, <2>1, StatusIs
  <2> HIDE DEF row
  <2>3. row \in query_history'
      BY <1>9, <1>13 DEF row
  <2>4. RecordedOk(c)'
      BY <1>9, <1>11, <2>1, <2>2, <2>3 DEF RecordedOk
  <2> HIDE DEF r
  <2> QED
      BY <1>1, <1>6, <1>7, <1>8, <2>4, RequestStep
<1> QED
    BY <1>1, <1>12, <1>13 DEF IInv, HistoryInv, Written

(***************************************************************************)
(* The exporter of task_history                                            *)
(***************************************************************************)

\* The row made of a span says what the events of the span say.
LEMMA TaskIs ==
    ASSUME NEW s, Readable(s.events), NEW t \in TaskRows(span_to_task_span(s))
    PROVE  /\ t.span_id = s.id /\ ~s.runtime_query
           /\ t.error_message # None <=> Failing(s.events)
           /\ \A key \in {"protocol", "error_code"} :
                 (\E e \in t.labels : e.keys = key) <=> Labelled(s.events, key)
<1> DEFINE events == s.events
           errors == {i \in DOMAIN events : "level" \in DOMAIN events[i] /\ events[i].level = "ERROR"}
           message == IF errors = {} THEN None ELSE events[Min(errors)].name
           labels == Labels(events)
           u == [span_id |-> s.id, task |-> s.task, input |-> s.input,
                 truncated_output |-> FirstWith(events, "truncated_output"),
                 error_message |-> message, labels |-> labels]
<1>1. /\ ~s.runtime_query
      /\ t = [u EXCEPT !.labels = {[keys |-> k, values |-> u.labels[k]] : k \in DOMAIN u.labels}]
  <2>1. span_to_task_span(s) = IF s.runtime_query THEN {} ELSE {u}
      BY DEF span_to_task_span
  <2> HIDE DEF u
  <2> QED
      BY <2>1 DEF TaskRows
<1>2. /\ t.span_id = s.id /\ t.error_message = message
      /\ t.labels = {[keys |-> k, values |-> labels[k]] : k \in DOMAIN labels}
  <2> HIDE DEF message, labels
  <2> QED
      BY <1>1
<1>3. message # None <=> Failing(events)
  <2>1. CASE errors = {}
      BY <2>1 DEF Failing
  <2>2. CASE errors # {}
    <3>1. errors \in SUBSET Nat
        BY DEF Readable
    <3>2. Min(errors) \in errors
        BY <2>2, <3>1, MinIsMember
    <3>3. Failing(events)
        BY <3>2 DEF Failing
    <3>4. events[Min(errors)].name # None
        BY <3>2 DEF Readable
    <3> QED
        BY <2>2, <3>3, <3>4
  <2> QED
      BY <2>1, <2>2
<1>4. ASSUME NEW key \in {"protocol", "error_code"}
      PROVE  key \in DOMAIN labels <=> Labelled(events, key)
  <2>1. key # "name" /\ filter_event_keys(key)
      BY DEF filter_event_keys, AutogeneratedLabels
  <2> DEFINE named == {i \in DOMAIN events : events[i].name = "labels"}
  <2>2. DOMAIN labels = {k \in UNION {DOMAIN events[i] : i \in named} :
                            k # "name" /\ filter_event_keys(k)}
      BY DEF Labels
  <2> HIDE DEF labels
  <2>3. key \in DOMAIN labels <=> \E i \in named : key \in DOMAIN events[i]
      BY <2>1, <2>2
  <2> QED
      BY <2>3 DEF Labelled
<1>5. ASSUME NEW key PROVE (\E e \in t.labels : e.keys = key) <=> key \in DOMAIN labels
  <2> HIDE DEF labels
  <2>1. ASSUME NEW e \in t.labels, e.keys = key PROVE key \in DOMAIN labels
    <3>1. PICK k \in DOMAIN labels : e = [keys |-> k, values |-> labels[k]]
        BY <1>2
    <3> QED
        BY <2>1, <3>1
  <2>2. ASSUME key \in DOMAIN labels PROVE \E e \in t.labels : e.keys = key
    <3>1. [keys |-> key, values |-> labels[key]] \in t.labels
        BY <1>2, <2>2
    <3> QED
        BY <3>1
  <2> QED
      BY <2>1, <2>2
<1> QED
    BY <1>1, <1>2, <1>3, <1>4, <1>5

\* A span of a query of a user becomes a task.
LEMMA TaskExists ==
    ASSUME NEW s, ~s.runtime_query
    PROVE  \E t \in TaskRows(span_to_task_span(s)) : t.span_id = s.id
<1>1. PICK u \in span_to_task_span(s) : u.span_id = s.id /\ "labels" # "span_id"
    BY DEF span_to_task_span
<1> DEFINE t == [u EXCEPT !.labels = {[keys |-> k, values |-> u.labels[k]] : k \in DOMAIN u.labels}]
<1>2. DOMAIN u = {"span_id", "task", "input", "truncated_output", "error_message", "labels"}
    BY <1>1 DEF span_to_task_span
<1>3. t \in TaskRows(span_to_task_span(s))
    BY <1>1 DEF TaskRows
<1>4. t.span_id = s.id
    BY <1>1, <1>2
<1> QED
    BY <1>3, <1>4

\* The tasks of a set of spans are those of its members.
LEMMA TasksOfAll ==
    ASSUME NEW S, NEW t
    PROVE  t \in TaskRows(UNION {span_to_task_span(s) : s \in S}) <=>
              \E s \in S : t \in TaskRows(span_to_task_span(s))
<1> DEFINE Row(u) ==
              [u EXCEPT !.labels = {[keys |-> k, values |-> u.labels[k]] : k \in DOMAIN u.labels}]
<1>1. ASSUME NEW T PROVE t \in TaskRows(T) <=> \E u \in T : t = Row(u)
    BY DEF TaskRows
<1> HIDE DEF Row
<1>2. \A u : u \in UNION {span_to_task_span(s) : s \in S} <=> \E s \in S : u \in span_to_task_span(s)
    OBVIOUS
<1> QED
    BY <1>1, <1>2

\* Every span that is closed comes to be a task, unless it is hidden or lost.
LEMMA ExportSpansInv ==
    ASSUME IInv, ExportSpans, UNCHANGED callVars PROVE IInv'
<1> DEFINE rows == TaskRows(UNION {span_to_task_span(s) : s \in closed})
<1>1. /\ UNCHANGED <<query, cached, query_history, unrecorded>> /\ UNCHANGED call
      /\ closed' = {}
    BY DEF ExportSpans, callVars
<1>2. \/ task_history' = task_history \cup rows /\ UNCHANGED lost
      \/ lost' = lost \cup {s.id : s \in closed} /\ UNCHANGED task_history
    BY DEF ExportSpans
<1>3. \A t \in rows : \E s \in closed : t \in TaskRows(span_to_task_span(s))
    BY TasksOfAll
<1>4. \A s \in closed : ~s.runtime_query => \E t \in rows : t.span_id = s.id
    BY TaskExists, TasksOfAll
<1> HIDE DEF rows
<1>5. \A s \in closed : Readable(s.events)
    BY DEF IInv, SpansInv
<1>6. ASSUME NEW t \in rows
      PROVE  \E s \in closed :
                /\ t.span_id = s.id /\ ~s.runtime_query
                /\ t.error_message # None <=> Failing(s.events)
                /\ \A key \in {"protocol", "error_code"} :
                      (\E e \in t.labels : e.keys = key) <=> Labelled(s.events, key)
  <2>1. PICK s \in closed : t \in TaskRows(span_to_task_span(s))
      BY <1>3
  <2> QED
      BY <1>5, <2>1, TaskIs
<1>7. \A id : RowsOf(id)' = RowsOf(id)
    BY <1>1 DEF RowsOf
<1>8. \A c \in Callers : QueryId(c)' = QueryId(c)
    BY <1>1 DEF QueryId
<1>9. SpanIds' \subseteq SpanIds
    BY <1>1, <1>2, <1>6 DEF SpanIds
<1>10. HistoryIds' \subseteq HistoryIds
    BY <1>1, <1>9 DEF HistoryIds
<1>11. HistoryInv'
  <2>1. \A id \in HistoryIds' : Reached(id)'
      BY <1>8, <1>10 DEF IInv, HistoryInv, Reached
  <2>2. \A c \in Callers : Written(c)'
      BY <1>1, <1>8, <1>10 DEF IInv, HistoryInv, Written
  <2> QED
      BY <1>1, <2>1, <2>2 DEF IInv, HistoryInv
<1>12. SpansInv'
    BY <1>1 DEF SpansInv
<1>13. TasksInv'
  <2>1. ASSUME NEW t \in task_history', NEW r \in RowsOf(t.span_id)' PROVE TaskAgrees(t, r)
    <3>1. CASE t \in task_history
        BY <1>7, <3>1 DEF IInv, TasksInv
    <3>2. CASE t \in rows
      <4>1. PICK s \in closed :
                /\ t.span_id = s.id /\ ~s.runtime_query
                /\ t.error_message # None <=> Failing(s.events)
                /\ \A key \in {"protocol", "error_code"} :
                      (\E e \in t.labels : e.keys = key) <=> Labelled(s.events, key)
          BY <1>6, <3>2
      <4>2. Traced(s, r)
          BY <1>7, <4>1 DEF IInv, SpansInv
      <4> QED
          BY <4>1, <4>2 DEF Traced, TaskAgrees
    <3> QED
        BY <1>2, <3>1, <3>2
  <2>2. ASSUME NEW c \in Callers, query'[c].pc = "over"
        PROVE  QueryId(c)' \in SpanIds' \/ query'[c].runtime_query
    <3>1. CASE QueryId(c) \in SpanIds /\ \A s \in closed : s.id # QueryId(c)
        BY <1>2, <1>8, <3>1 DEF SpanIds
    <3>2. ASSUME NEW s \in closed, s.id = QueryId(c)
          PROVE  QueryId(c)' \in SpanIds' \/ query'[c].runtime_query
      <4>1. query'[c].runtime_query = s.runtime_query
          BY <1>1, <3>2 DEF IInv, SpansInv
      <4>2. CASE lost' = lost \cup {x.id : x \in closed}
          BY <1>8, <3>2, <4>2 DEF SpanIds
      <4>3. CASE task_history' = task_history \cup rows
          BY <1>4, <1>8, <3>2, <4>1, <4>3 DEF SpanIds
      <4> QED
          BY <1>2, <4>2, <4>3
    <3> QED
        BY <1>1, <2>2, <3>1, <3>2 DEF IInv, TasksInv
  <2> QED
      BY <2>1, <2>2 DEF TasksInv
<1>14. TypeInv' /\ CallInv' /\ TrackInv' /\ RuntimeInv'
  <2>1. TypeInv'
      BY <1>1 DEF IInv, TypeInv, TypeOk, QueryId
  <2>2. CallInv'
      BY <1>1 DEF IInv, CallInv, CallOk, QueryId
  <2>3. TrackInv'
      BY <1>1 DEF IInv, TrackInv, TrackOk, QueryId
  <2>4. RuntimeInv'
      BY <1>1 DEF IInv, RuntimeInv, RuntimeOk, Plan, Sql
  <2> QED
      BY <2>1, <2>2, <2>3, <2>4
<1>15. LocksInv'
    BY <1>1 DEF IInv, LocksInv, LockOk, Exclusive
<1>16. RecordedInv'
  <2>1. ASSUME NEW c \in Callers PROVE RecordedOk(c)'
    <3>1. Protocol(c)' = Protocol(c)
        BY <1>1 DEF Protocol
    <3>2. \A row : Agrees(c, row)' <=> Agrees(c, row)
        BY <1>1, <3>1 DEF Agrees
    <3> QED
        BY <1>1, <1>8, <3>2 DEF IInv, RecordedInv, RecordedOk
  <2> QED
      BY <2>1 DEF RecordedInv
<1> QED
    BY <1>11, <1>12, <1>13, <1>14, <1>15, <1>16 DEF IInv

\* What the invariant is about does not change, but for the cache, which only loses.
LEMMA StutterInv ==
    ASSUME IInv, UNCHANGED <<query, recordVars, call>>, cached' \subseteq cached PROVE IInv'
<1>1. UNCHANGED query /\ UNCHANGED call /\ UNCHANGED recordVars
    OBVIOUS
<1>2. TypeInv'
    BY <1>1 DEF IInv, TypeInv, TypeOk, QueryId
<1>3. CallInv'
    BY <1>1 DEF IInv, CallInv, CallOk, QueryId
<1>4. TrackInv'
    BY <1>1 DEF IInv, TrackInv, TrackOk, QueryId
<1>5. RuntimeInv'
    BY <1>1 DEF IInv, RuntimeInv, RuntimeOk, Plan, Sql
<1>6. HistoryIds' = HistoryIds /\ SpanIds' = SpanIds
    BY <1>1 DEF HistoryIds, SpanIds, recordVars
<1>7. \A c \in Callers : QueryId(c)' = QueryId(c)
    BY <1>1 DEF QueryId
<1>8. HistoryInv'
  <2>1. \A id : Reached(id)' <=> Reached(id)
      BY <1>7 DEF Reached
  <2>2. \A c \in Callers : Written(c)' <=> Written(c)
      BY <1>1, <1>6, <1>7 DEF Written, recordVars
  <2>3. query_history' = query_history
      BY <1>1 DEF recordVars
  <2> QED
      BY <1>6, <2>1, <2>2, <2>3 DEF IInv, HistoryInv
<1>9. SpansInv'
    BY <1>1, <1>7 DEF IInv, SpansInv, RowsOf, recordVars
<1>10. TasksInv'
    BY <1>1, <1>6, <1>7 DEF IInv, TasksInv, RowsOf, recordVars
<1>11. LocksInv'
    BY <1>1 DEF IInv, LocksInv, LockOk, Exclusive
<1>12. RecordedInv'
  <2>1. ASSUME NEW c \in Callers PROVE RecordedOk(c)'
    <3>1. Protocol(c)' = Protocol(c)
        BY <1>1 DEF Protocol
    <3>2. \A row : Agrees(c, row)' <=> Agrees(c, row)
        BY <1>1, <3>1 DEF Agrees
    <3> QED
        BY <1>1, <1>7, <3>2 DEF IInv, RecordedInv, RecordedOk, recordVars
  <2> QED
      BY <2>1 DEF RecordedInv
<1> QED
    BY <1>2, <1>3, <1>4, <1>5, <1>8, <1>9, <1>10, <1>11, <1>12 DEF IInv

(***************************************************************************)
(* The theorems                                                            *)
(***************************************************************************)

\* A request as its client sends it.
LEMMA NewCallIs ==
    ASSUME NEW ask, ask.kind \in DOMAIN Entries, ask.from \in Entries[ask.kind]
    PROVE  LET r == NewCall(ask)
           IN  /\ DOMAIN r = CallFields /\ DOMAIN r.answer = AnswerFields
               /\ r.kind = ask.kind /\ r.pc = ask.from /\ r.guard = "none" /\ r.level = 0
               /\ r.pc \in Early \cup {"tables", "models", "answered"}
               /\ r.pc \in {"tables", "models"} => r.kind \in {"nsql", "chat", "stream"}
<1> DEFINE r == NewCall(ask)
<1>1. /\ DOMAIN r = CallFields /\ r.answer = NoAnswer
      /\ r.kind = ask.kind /\ r.pc = ask.from /\ r.guard = "none" /\ r.level = 0
    BY DEF NewCall, CallFields
<1>2. /\ ask.from \in Early \cup {"tables", "models", "answered"}
      /\ ask.from \in {"tables", "models"} => ask.kind \in {"nsql", "chat", "stream"}
    BY DEF Entries, Early
<1> HIDE DEF r
<1> QED
    BY <1>1, <1>2, NoAnswerFields DEF r

\* A caller that has not asked anything yet.
LEMMA NoQueryIs ==
    ASSUME NEW c
    PROVE  LET q == NoQuery(c)
           IN  /\ DOMAIN q = QueryFields /\ DOMAIN q.tracker = TrackerFields /\ q.pc = "idle"
               /\ q.tracker.query_id = <<c, 0>> /\ q.tracker.nsql = None
               /\ q.tracker.error_code = None
               /\ q.out = <<>> /\ q.from_cache = None /\ q.runtime_query = FALSE /\ q.events = <<>>
BY DEF NoQuery, QueryBuilder, NewTracker, QueryFields, TrackerFields

\* The servers start with the invariant.
LEMMA InitInv == Init => IInv
<1>1. SUFFICES ASSUME Init PROVE IInv
    OBVIOUS
<1>2. PICK case \in Cases :
          /\ QueryInit
          /\ call = [c \in Callers |->
                        NewCall(IF c \in DOMAIN case.asks THEN case.asks[c] ELSE NoAsk)]
    BY <1>1 DEF Init
<1>3. /\ DOMAIN query = Callers /\ \A c \in Callers : query[c] = NoQuery(c)
      /\ cached = {} /\ query_history = {} /\ unrecorded = {} /\ closed = {}
      /\ task_history = {} /\ lost = {}
    BY <1>2 DEF QueryInit
<1>4. DOMAIN call = Callers
    BY <1>2
<1>5. ASSUME NEW c \in Callers
      PROVE  /\ DOMAIN call[c] = CallFields /\ DOMAIN call[c].answer = AnswerFields
             /\ call[c].kind \in DOMAIN Entries /\ call[c].guard = "none" /\ call[c].level = 0
             /\ call[c].pc \in Early \cup {"tables", "models", "answered"}
             /\ call[c].pc \in {"tables", "models"} => call[c].kind \in {"nsql", "chat", "stream"}
  <2> DEFINE ask == IF c \in DOMAIN case.asks THEN case.asks[c] ELSE NoAsk
  <2>1. call[c] = NewCall(ask)
      BY <1>2
  <2>2. ask.kind \in DOMAIN Entries /\ ask.from \in Entries[ask.kind]
    <3>1. NoAsk.kind \in DOMAIN Entries /\ NoAsk.from \in Entries[NoAsk.kind]
        BY DEF NoAsk, Entries
    <3>2. CASE c \in DOMAIN case.asks
        BY <3>2, CasesAssumption
    <3> QED
        BY <3>1, <3>2
  <2> HIDE DEF ask
  <2> QED
      BY <2>1, <2>2, NewCallIs
<1>6. ASSUME NEW c \in Callers
      PROVE  /\ DOMAIN query[c] = QueryFields /\ DOMAIN query[c].tracker = TrackerFields
             /\ query[c].pc = "idle"
             /\ QueryId(c) = <<c, 0>> /\ query[c].tracker.nsql = None
             /\ query[c].tracker.error_code = None
             /\ query[c].out = <<>> /\ query[c].from_cache = None
             /\ query[c].runtime_query = FALSE /\ query[c].events = <<>>
    BY <1>3, NoQueryIs DEF QueryId
<1>7. ASSUME NEW c \in Callers PROVE QueryId(c)[2] = 0 /\ QueryId(c) = <<c, QueryId(c)[2]>>
  <2>1. <<c, 0>>[2] = 0
      OBVIOUS
  <2>2. QueryId(c) = <<c, 0>>
      BY <1>6
  <2> QED
      BY <2>1, <2>2, Zenon
<1>8. TypeInv
  <2>1. ASSUME NEW c \in Callers PROVE TypeOk(c)
    <3>1. QueryId(c) = <<c, QueryId(c)[2]>> /\ QueryId(c)[2] \in Nat
        BY <1>7
    <3>2. <<>> \in Seq(Nat)
        OBVIOUS
    <3> QED
        BY <1>6, <3>1, <3>2 DEF TypeOk
  <2> QED
      BY <1>3, <1>4, <1>5, <2>1 DEF TypeInv
<1>9. CallInv
  <2>1. ASSUME NEW c \in Callers PROVE CallOk(c)
    <3>1. QueryId(c)[2] = 0
        BY <1>7
    <3> QED
        BY <1>5, <1>6, <3>1 DEF CallOk, Early, AtWork, Ends
  <2> QED
      BY <2>1 DEF CallInv
<1>10. TrackInv
    BY <1>6 DEF TrackInv, TrackOk, Active
<1>11. RuntimeInv
    BY <1>3, <1>6 DEF RuntimeInv, RuntimeOk
<1>12. HistoryInv
    BY <1>3, <1>6 DEF HistoryInv, HistoryIds, SpanIds, Written, Active
<1>13. SpansInv /\ TasksInv
    BY <1>3, <1>6 DEF SpansInv, TasksInv
<1>14. LocksInv
    BY <1>5 DEF LocksInv, LockOk, Exclusive
<1>15. RecordedInv
  <2>1. \A c \in Callers : QueryId(c)[2] = 0
      BY <1>7
  <2> QED
      BY <2>1 DEF RecordedInv, RecordedOk
<1> QED
    BY <1>8, <1>9, <1>10, <1>11, <1>12, <1>13, <1>14, <1>15 DEF IInv

\* One step of a server on behalf of a client that asks for SQL or a search.
LEMMA SqlStepInv == ASSUME IInv, NEW c \in Callers, SqlStep(c) PROVE IInv'
<1>1. ASSUME GetSchema(c) \/ CreatePreparedStatement(c) \/ GetFlightInfoPrepared(c)
               \/ GetFlightInfoSimple(c) \/ GetFlightInfoStatement(c)
      PROVE  IInv'
  <2>1. call[c].pc \in Early /\ \E next \in {"answered", "info_prepared", "start"} : WithSchema(c, next)
      BY <1>1 DEF GetSchema, CreatePreparedStatement, GetFlightInfoPrepared, GetFlightInfoSimple,
                  GetFlightInfoStatement, Early
  <2> QED
      BY <2>1, WithSchemaInv
<1>2. ASSUME DoGetSimple(c) \/ DoGetStatement(c) \/ DoGetPrepared(c) \/ PostSql(c) PROVE IInv'
  <2>1. \E kind \in Asks : RunsQuery(c, kind)
      BY <1>2 DEF DoGetSimple, DoGetStatement, DoGetPrepared, PostSql, Asks
  <2> QED
      BY <2>1, RunsQueryInv
<1> QED
    BY <1>1, <1>2, RefuseInv, AnswerQueryInv, PostSearchInv DEF SqlStep

\* One step of a chat.
LEMMA ChatStepInv == ASSUME IInv, NEW c \in Callers, ChatStep(c) PROVE IInv'
BY PromptTablesInv, ReadModelsInv, LockModelInv, PrepareInv, ChatRequestInv, OpenStreamInv,
   RunToolInv, ToolQueryEndsInv, AskAgainInv, ReplyInv DEF ChatStep

\* One step of the tasks of a stream.
LEMMA StreamStepInv == ASSUME IInv, NEW c \in Callers, StreamStep(c) PROVE IInv'
BY ReadChunkInv, ReadEndInv, ResumeInv, StreamOverInv, ForwardInv DEF StreamStep

\* One step of a query.
LEMMA QueryStepInv ==
    ASSUME IInv, NEW c \in Callers, QueryStep(c), UNCHANGED callVars PROVE IInv'
BY CreateLogicalPlanInv, CacheGetInv, ExecuteStreamInv, NextBatchInv, StreamFailsInv, StreamEndsInv,
   WriteQueryHistoryInv DEF QueryStep

\* The invariant is inductive.
LEMMA NextInv == IInv /\ [Next]_vars => IInv'
<1>1. SUFFICES ASSUME IInv, [Next]_vars PROVE IInv'
    OBVIOUS
<1>2. ASSUME NEW c \in Callers, QueryStep(c) /\ UNCHANGED callVars PROVE IInv'
    BY <1>1, <1>2, QueryStepInv
<1>3. ASSUME NEW c \in Callers, SqlStep(c) \/ ChatStep(c) \/ StreamStep(c) PROVE IInv'
    BY <1>1, <1>3, SqlStepInv, ChatStepInv, StreamStepInv
<1>4. ASSUME NEW c \in Callers, ReadEvent(c) \/ Leave(c) PROVE IInv'
    BY <1>1, <1>4, ReadEventInv, LeaveInv
<1>5. ASSUME NEW sql \in cached, Invalidate(sql) /\ UNCHANGED callVars PROVE IInv'
  <2>1. UNCHANGED <<query, recordVars, call>> /\ cached' \subseteq cached
      BY <1>5 DEF Invalidate, callVars, recordVars
  <2> QED
      BY <1>1, <2>1, StutterInv
<1>6. CASE ExportSpans /\ UNCHANGED callVars
    BY <1>1, <1>6, ExportSpansInv
<1>7. CASE WatcherTakesApp \/ WatcherLoadsModel
  <2>1. UNCHANGED <<query, recordVars, call>> /\ cached' \subseteq cached
      BY <1>7 DEF WatcherTakesApp, WatcherLoadsModel, queryVars, recordVars
  <2> QED
      BY <1>1, <2>1, StutterInv
<1>8. CASE UNCHANGED vars
  <2>1. UNCHANGED <<query, recordVars, call>> /\ cached' \subseteq cached
      BY <1>8 DEF vars, queryVars, recordVars
  <2> QED
      BY <1>1, <2>1, StutterInv
<1> QED
    BY <1>1, <1>2, <1>3, <1>4, <1>5, <1>6, <1>7, <1>8 DEF Next

\* The inductive invariant holds in every state the servers reach.
THEOREM ServingInvariance == Spec => []IInv
BY InitInv, NextInv, PTL DEF Spec

\* Whoever is answered finds the query in query_history as it was answered, unless its
\* row could not be written: one row, with the status, the rows and the hit of the cache
\* that the client was told. It follows from Written, which has the row of a query before
\* anyone can see that it is over, and from TrackOk, by which the row says what was sent.
THEOREM AnswersAreRecordedHolds == Spec => []AnswersAreRecorded
<1>1. IInv => AnswersAreRecorded
  <2>1. SUFFICES ASSUME IInv, NEW c \in Callers, RecordedOk(c),
                        call[c].kind \in Asks /\ call[c].pc = "answered" /\ QueryId(c)[2] > 0,
                        call[c].kind = "nsql" => query[c].tracker.nsql # None,
                        QueryId(c) \notin unrecorded
                 PROVE  \E r \in query_history : RowsOf(QueryId(c)) = {r} /\ Agrees(c, r)
      BY DEF AnswersAreRecorded, Agrees, IInv, RecordedInv
  <2>2. PICK r \in query_history : r.query_id = QueryId(c) /\ Agrees(c, r)
      BY <2>1 DEF RecordedOk
  <2>3. RowsOf(QueryId(c)) = {r}
      BY <2>1, <2>2 DEF RowsOf, IInv, HistoryInv
  <2> QED
      BY <2>2, <2>3
<1> QED
    BY <1>1, ServingInvariance, PTL

\* The two histories tell the same story of a query that is in both, and no query that
\* was run is missing from both but for a fault of a write. The events of a span are
\* compared with the row of its query while the span waits for the exporter (SpansInv).
THEOREM TasksAgreeHolds == Spec => []TasksAgree
<1>1. IInv => TasksAgree
    BY DEF IInv, TasksInv, TaskAgrees, TasksAgree
<1> QED
    BY <1>1, ServingInvariance, PTL

\* One request at a time has a model: the write lock of the model is held by one.
THEOREM ModelIsExclusive == Spec => []Exclusive
<1>1. IInv => Exclusive
    BY DEF IInv, LocksInv
<1> QED
    BY <1>1, ServingInvariance, PTL

\* A request that is answered, abandoned or panicked has no lock, and neither has the
\* task that goes on with a stream when its handler has answered.
LocksAreReleased ==
    \A c \in Callers :
        Over(c) \/ call[c].pc \in {"query", "read", "ended"} \/ (Streams(c) /\ call[c].level > 0)
            => call[c].guard = "none"

\* No lock outlives its request: Answer, a panic and the drop of a handler release it.
THEOREM NoLockIsLeft == Spec => []LocksAreReleased
<1>1. IInv => LocksAreReleased
  <2>1. SUFFICES ASSUME NEW c \in Callers, LockOk(c),
                        Over(c) \/ call[c].pc \in {"query", "read", "ended"}
                           \/ (Streams(c) /\ call[c].level > 0)
                 PROVE  call[c].guard = "none"
      BY DEF IInv, LocksInv, LocksAreReleased
  <2> QED
      BY <2>1 DEF LockOk, Over, Streams
<1> QED
    BY <1>1, ServingInvariance, PTL

\* A step leaves the rows of query_history as they are, and writes a row only of a query
\* of which nothing was known: neither a row, nor that its row is missing, nor a span.
RowsAreNew ==
    /\ query_history \subseteq query_history'
    /\ \A r \in query_history' \ query_history : r.query_id \notin HistoryIds

\* Only the end of a query and a schema that cannot be planned write rows.
LEMMA OtherStepsWriteNoRow ==
    ASSUME [Next]_vars,
           \A c \in Callers : ~WriteQueryHistory(c),
           \A c \in Callers : \A next : ~WithSchema(c, next)
    PROVE  UNCHANGED query_history
<1>1. ASSUME NEW c \in Callers, QueryStep(c) PROVE UNCHANGED query_history
    BY <1>1 DEF QueryStep, CreateLogicalPlan, CacheGet, ExecuteStream, NextBatch, StreamFails,
                StreamEnds
<1>2. ASSUME NEW c \in Callers, SqlStep(c) PROVE UNCHANGED query_history
    BY <1>2 DEF SqlStep, GetSchema, CreatePreparedStatement, GetFlightInfoPrepared,
                GetFlightInfoSimple, GetFlightInfoStatement, Refuse, RunsQuery, DoGetSimple,
                DoGetStatement, DoGetPrepared, PostSql, AnswerQuery, PostSearch, queryVars
<1>3. ASSUME NEW c \in Callers, ChatStep(c) PROVE UNCHANGED query_history
    BY <1>3, ZenonT(40) DEF ChatStep, PromptTables, ReadModels, LockModel, Prepare, ChatRequest, OpenStream,
                RunTool, ToolQueryEnds, AskAgain, Reply, queryVars
<1>4. ASSUME NEW c \in Callers, StreamStep(c) \/ ReadEvent(c) \/ Leave(c) PROVE UNCHANGED query_history
    BY <1>4, Zenon DEF StreamStep, ReadChunk, ReadEnd, Resume, StreamOver, Forward, ReadEvent, Leave,
                queryVars
<1>5. ASSUME (\E sql \in cached : Invalidate(sql)) \/ ExportSpans \/ WatcherTakesApp
                \/ WatcherLoadsModel \/ UNCHANGED vars
      PROVE  UNCHANGED query_history
    BY <1>5 DEF Invalidate, ExportSpans, WatcherTakesApp, WatcherLoadsModel, vars, queryVars
<1> QED
    BY <1>1, <1>2, <1>3, <1>4, <1>5, Zenon DEF Next

\* query_history is a log: no row changes or goes, and no query is written down twice.
THEOREM HistoryIsALog == Spec => [][RowsAreNew]_vars
<1>1. ASSUME IInv, [Next]_vars PROVE [RowsAreNew]_vars
  <2>1. ASSUME NEW c \in Callers, WriteQueryHistory(c) PROVE RowsAreNew
    <3>1. query[c].pc = "finish"
        BY <2>1 DEF WriteQueryHistory
    <3>2. QueryId(c) \notin HistoryIds
        BY <1>1, <3>1 DEF IInv, HistoryInv, Written, Active
    <3>3. \/ UNCHANGED query_history
          \/ query_history' = query_history \cup {to_record_batch(query[c].tracker)}
        BY <2>1 DEF WriteQueryHistory
    <3>4. to_record_batch(query[c].tracker).query_id = QueryId(c)
        BY DEF to_record_batch, QueryId
    <3> QED
        BY <3>2, <3>3, <3>4 DEF RowsAreNew
  <2>2. ASSUME NEW c \in Callers, NEW next, WithSchema(c, next) PROVE RowsAreNew
    <3> DEFINE failed == Finished(NewTracker(<<c, NextId(c)>>, call[c].sql, None, Protocol(c)),
                                  ErrorCode(StatementOf(call[c].sql).planning))
               row == to_record_batch(failed)
    <3>1. UNCHANGED query_history \/ query_history' = query_history \cup {row}
        BY <2>2 DEF WithSchema, get_arrow_schema
    <3>2. row.query_id = <<c, NextId(c)>>
        BY DEF to_record_batch, Finished, NewTracker
    <3> HIDE DEF row
    <3>3. <<c, NextId(c)>> \notin HistoryIds
        BY <1>1, NextIsNew DEF IInv
    <3> QED
        BY <3>1, <3>2, <3>3 DEF RowsAreNew
  <2>3. CASE UNCHANGED query_history
      BY <2>3 DEF RowsAreNew
  <2> QED
      BY <1>1, <2>1, <2>2, <2>3, OtherStepsWriteNoRow
<1> QED
    BY <1>1, ServingInvariance, PTL DEF Spec

(***************************************************************************)
(* Streamed chats                                                          *)
(***************************************************************************)

\* A sequence of whatever its elements are.
IsSeq(s) == s \in Seq(Range(s))

\* The channel between the k-th level of a stream and who listens to it.
Chan(r, k) == IF k = Len(r.below) + 1 THEN r.chan ELSE r.below[k].chan

StreamTypes(r) ==
    /\ IsSeq(r.delivered) /\ IsSeq(r.said) /\ IsSeq(r.chan) /\ IsSeq(r.below)
    /\ \A k \in 1..Len(r.below) :
          DOMAIN r.below[k] = {"chunks", "states", "chan"} /\ IsSeq(r.below[k].chan)

\* What the client has is the beginning of what was said, and the channels from the
\* outermost to the innermost have the rest, each from p[k - 1] to p[k].
Delivered(r) ==
    /\ Len(r.delivered) <= Len(r.said)
    /\ \A i \in 1..Len(r.delivered) : r.delivered[i].content = r.said[i]
InOrder(r, p) ==
    /\ p[0] = Len(r.delivered) /\ p[Len(r.below) + 1] = Len(r.said)
    /\ \A k \in 1..(Len(r.below) + 1) :
          /\ p[k] = p[k - 1] + Len(Chan(r, k))
          /\ \A i \in 1..Len(Chan(r, k)) : Chan(r, k)[i].content = r.said[p[k - 1] + i]
Flows(r) == \E p \in [0..(Len(r.below) + 1) -> 0..Len(r.said)] : InOrder(r, p)

\* Nothing has been said before the first answer of the engine.
Unopened(r) == r.pc \in {"models", "model"} \/ (r.pc \in {"prepare", "infer"} /\ r.level = 0)

StreamPlaces ==
    {"models", "model", "prepare", "infer", "tools", "tool_query", "read", "ended", "answered",
     "gone", "panicked"}

\* A streamed chat: as long as the client is there no level has returned, and what was
\* said is delivered or on its way; who has gone has got the beginning of it.
StreamOk(r) ==
    /\ StreamTypes(r) /\ Delivered(r) /\ r.level \in Nat /\ r.pc \in StreamPlaces
    /\ r.here => r.cut = 0 /\ Flows(r)
    /\ Unopened(r) =>
          /\ r.delivered = <<>> /\ r.said = <<>> /\ r.chan = <<>> /\ r.below = <<>>
          /\ r.answer.status = None
    /\ r.pc = "answered" /\ r.answer.status = "200" => Len(r.delivered) = Len(r.said)
StreamsInv == \A c \in Callers : Streams(c) => StreamOk(call[c])

\* A sequence has a length, and its elements at the numbers up to it.
LEMMA SeqFacts ==
    ASSUME NEW s, IsSeq(s)
    PROVE  Len(s) \in Nat /\ DOMAIN s = 1..Len(s) /\ s \in [1..Len(s) -> Range(s)]
BY LenProperties DEF IsSeq

\* A sequence over any set is a sequence.
LEMMA SeqIsSeq ==
    ASSUME NEW S, NEW s \in Seq(S)
    PROVE  IsSeq(s)
<1>1. Len(s) \in Nat /\ s \in [1..Len(s) -> S]
    BY LenProperties
<1>2. s \in [1..Len(s) -> Range(s)]
    BY <1>1 DEF Range
<1> QED
    BY <1>1, <1>2, ElementOfSeq DEF IsSeq

\* The sequence without elements.
LEMMA EmptyIsSeq == IsSeq(<<>>) /\ Len(<<>>) = 0
<1>1. <<>> \in Seq({})
    BY EmptySeq
<1> QED
    BY <1>1, SeqIsSeq, EmptySeq

\* One element more at the end.
LEMMA AppendIsSeq ==
    ASSUME NEW s, IsSeq(s), NEW x
    PROVE  /\ IsSeq(Append(s, x)) /\ Len(Append(s, x)) = Len(s) + 1
           /\ \A i \in 1..Len(s) : Append(s, x)[i] = s[i]
           /\ Append(s, x)[Len(s) + 1] = x
<1> DEFINE S == Range(s) \cup {x}
<1>1. s \in Seq(S)
    BY SeqMonotonic DEF IsSeq
<1>2. /\ Append(s, x) \in Seq(S) /\ Len(Append(s, x)) = Len(s) + 1
      /\ \A i \in 1..Len(s) : Append(s, x)[i] = s[i]
      /\ Append(s, x)[Len(s) + 1] = x
    BY <1>1, AppendProperties
<1> QED
    BY <1>2, SeqIsSeq

\* One element less at the front.
LEMMA TailIsSeq ==
    ASSUME NEW s, IsSeq(s), s # <<>>
    PROVE  /\ IsSeq(Tail(s)) /\ Len(s) > 0 /\ Len(Tail(s)) = Len(s) - 1 /\ Head(s) = s[1]
           /\ \A i \in 1..(Len(s) - 1) : Tail(s)[i] = s[i + 1]
<1> DEFINE S == Range(s)
<1>1. s \in Seq(S)
    BY DEF IsSeq
<1>2. /\ Tail(s) \in Seq(S) /\ Len(Tail(s)) = Len(s) - 1 /\ Head(s) = s[1]
      /\ \A i \in 1..Len(Tail(s)) : Tail(s)[i] = s[i + 1]
    BY <1>1, HeadTailProperties
<1>3. Len(s) \in Nat /\ Len(s) # 0
    BY <1>1, EmptySeq, LenProperties
<1> HIDE DEF S
<1>4. IsSeq(Tail(s))
    BY <1>2, SeqIsSeq
<1>5. Len(s) > 0
    BY <1>3
<1> QED
    BY <1>2, <1>3, <1>4, <1>5

\* One element less at the end.
LEMMA FrontIsSeq ==
    ASSUME NEW s, IsSeq(s), Len(s) > 0
    PROVE  /\ IsSeq(Front(s)) /\ Len(Front(s)) = Len(s) - 1
           /\ \A i \in 1..(Len(s) - 1) : Front(s)[i] = s[i]
<1> DEFINE S == Range(s)
           n == Len(s) - 1
<1>1. s \in Seq(S) /\ Len(s) \in Nat
    BY SeqFacts DEF IsSeq
<1>2. n \in Nat /\ \A i \in 1..n : s[i] \in S
    BY <1>1, LenProperties
<1>3. /\ SubSeq(s, 1, n) \in Seq(S)
      /\ Len(SubSeq(s, 1, n)) = IF 1 <= n THEN n - 1 + 1 ELSE 0
      /\ \A i \in 1..(n - 1 + 1) : SubSeq(s, 1, n)[i] = s[1 + i - 1]
    BY <1>2, SubSeqProperties
<1> HIDE DEF n
<1>4. Len(SubSeq(s, 1, n)) = n /\ \A i \in 1..n : SubSeq(s, 1, n)[i] = s[i]
    BY <1>2, <1>3
<1> QED
    BY <1>3, <1>4, SeqIsSeq DEF Front, n

\* Another element in the place of one.
LEMMA ExceptIsSeq ==
    ASSUME NEW s, IsSeq(s), NEW k \in 1..Len(s), NEW x
    PROVE  /\ IsSeq([s EXCEPT ![k] = x]) /\ Len([s EXCEPT ![k] = x]) = Len(s)
           /\ \A i \in 1..Len(s) : [s EXCEPT ![k] = x][i] = IF i = k THEN x ELSE s[i]
<1> DEFINE S == Range(s) \cup {x}
           t == [s EXCEPT ![k] = x]
<1>1. Len(s) \in Nat /\ DOMAIN s = 1..Len(s) /\ s \in [1..Len(s) -> Range(s)]
    BY SeqFacts
<1>2. t \in [1..Len(s) -> S]
    BY <1>1
<1>3. t \in Seq(S)
    BY <1>1, <1>2, ElementOfSeq
<1>4. Len(t) = Len(s)
    BY <1>1, <1>2, <1>3, LenProperties
<1> QED
    BY <1>1, <1>2, <1>3, <1>4, SeqIsSeq

\* Whoever is l behind a is at most at n, if l more than a is.
LEMMA Within ==
    ASSUME NEW a \in Nat, NEW l \in Nat, NEW n \in Nat, a + l <= n, NEW i \in 1..l
    PROVE  a + i \in 1..n
OBVIOUS

\* The numbers up to one more than n.
LEMMA OneMore ==
    ASSUME NEW n \in Nat, NEW i \in 1..(n + 1)
    PROVE  i \in 1..n \/ i = n + 1
OBVIOUS

\* The fields of a stream that say who has got what.
SameStream(r, t) ==
    /\ t.delivered = r.delivered /\ t.said = r.said /\ t.chan = r.chan /\ t.below = r.below
    /\ t.cut = r.cut /\ (t.here => r.here)

\* Where nothing of that changes, what was said stays where it is.
LEMMA StreamKept ==
    ASSUME NEW r, NEW t, SameStream(r, t), StreamOk(r), t.level \in Nat, t.pc \in StreamPlaces,
           Unopened(t) => Unopened(r) /\ t.answer.status = None,
           t.pc = "answered" /\ t.answer.status = "200" => Len(r.delivered) = Len(r.said)
    PROVE  StreamOk(t)
<1>1. Flows(r) => Flows(t)
  <2>1. \A k : Chan(t, k) = Chan(r, k)
      BY DEF Chan, SameStream
  <2>2. \A p : InOrder(r, p) => InOrder(t, p)
      BY <2>1 DEF InOrder, SameStream
  <2> QED
      BY <2>2 DEF Flows, SameStream
<1>2. StreamTypes(t) /\ Delivered(t)
    BY DEF StreamOk, StreamTypes, Delivered, SameStream
<1> QED
    BY <1>1, <1>2 DEF StreamOk, SameStream

\* What is passed on is said, and in the innermost channel.
LEMMA SaidFlows ==
    ASSUME NEW r, NEW t, NEW e, StreamTypes(r), Flows(r),
           t.said = Append(r.said, e.content), t.chan = Append(r.chan, e),
           t.below = r.below, t.delivered = r.delivered
    PROVE  Flows(t)
<1> DEFINE D == Len(r.below) + 1
           n == Len(r.said)
<1>0. D = Len(r.below) + 1 /\ n = Len(r.said)
    OBVIOUS
<1> HIDE DEF D, n
<1>1. D \in Nat /\ n \in Nat /\ Len(t.said) = n + 1 /\ Len(r.delivered) \in Nat
      /\ (\A i \in 1..n : t.said[i] = r.said[i]) /\ t.said[n + 1] = e.content
    BY <1>0, SeqFacts, AppendIsSeq DEF StreamTypes
<1>2. Len(r.chan) \in Nat /\ Len(t.chan) = Len(r.chan) + 1
      /\ (\A i \in 1..Len(r.chan) : t.chan[i] = r.chan[i]) /\ t.chan[Len(r.chan) + 1] = e
    BY SeqFacts, AppendIsSeq DEF StreamTypes
<1>3. PICK p \in [0..D -> 0..n] : InOrder(r, p)
    BY <1>0 DEF Flows
<1> DEFINE q == [p EXCEPT ![D] = n + 1]
<1>4. q \in [0..D -> 0..(n + 1)] /\ q[D] = n + 1 /\ \A k \in 0..(D - 1) : q[k] = p[k]
    BY <1>1
<1>5. p[D] = n /\ p[0] = Len(r.delivered) /\ D > 0
    BY <1>0, <1>1, <1>3, SeqFacts DEF InOrder, StreamTypes
<1>6. ASSUME NEW k \in 1..D, k # D
      PROVE  /\ q[k] = q[k - 1] + Len(Chan(t, k))
             /\ \A i \in 1..Len(Chan(t, k)) : Chan(t, k)[i].content = t.said[q[k - 1] + i]
  <2>0. k \in 1..Len(r.below) /\ k # Len(r.below) + 1
      BY <1>0, <1>6, <1>1, SeqFacts DEF StreamTypes
  <2>1. Chan(t, k) = Chan(r, k) /\ Len(Chan(r, k)) \in Nat
    <3>1. Chan(t, k) = r.below[k].chan /\ Chan(r, k) = r.below[k].chan
        BY <2>0 DEF Chan
    <3> QED
        BY <3>1, <2>0, SeqFacts DEF StreamTypes
  <2>2. k \in 0..(D - 1) /\ k - 1 \in 0..(D - 1) /\ p[k - 1] \in 0..n /\ p[k] \in 0..n
      BY <1>6, <1>1, <1>3
  <2>3. /\ p[k] = p[k - 1] + Len(Chan(r, k))
        /\ \A i \in 1..Len(Chan(r, k)) : Chan(r, k)[i].content = r.said[p[k - 1] + i]
      BY <1>0, <1>3, <1>6 DEF InOrder
  <2>4. \A i \in 1..Len(Chan(r, k)) : p[k - 1] + i \in 1..n
    <3>1. p[k - 1] \in Nat /\ p[k - 1] + Len(Chan(r, k)) <= n
        BY <2>1, <2>2, <2>3, <1>1
    <3> QED
        BY <3>1, <2>1, <2>2, <1>1, Within
  <2> QED
      BY <2>1, <2>2, <2>3, <2>4, <1>4, <1>1, SMTT(30)
<1>7. /\ q[D] = q[D - 1] + Len(Chan(t, D))
      /\ \A i \in 1..Len(Chan(t, D)) : Chan(t, D)[i].content = t.said[q[D - 1] + i]
  <2>1. Chan(t, D) = t.chan /\ Chan(r, D) = r.chan
      BY <1>0 DEF Chan
  <2>2. D - 1 \in 0..(D - 1) /\ p[D - 1] \in 0..n /\ D \in 1..D
      BY <1>1, <1>3, <1>5
  <2>3. /\ p[D] = p[D - 1] + Len(r.chan)
        /\ \A i \in 1..Len(r.chan) : r.chan[i].content = r.said[p[D - 1] + i]
      BY <1>0, <1>3, <2>1, <2>2 DEF InOrder
  <2>4. \A i \in 1..Len(r.chan) : p[D - 1] + i \in 1..n
      BY <2>2, <2>3, <1>5, <1>2, <1>1, SMTT(30)
  <2>5. ASSUME NEW i \in 1..(Len(r.chan) + 1) PROVE t.chan[i].content = t.said[p[D - 1] + i]
    <3>1. CASE i \in 1..Len(r.chan)
        BY <3>1, <2>3, <2>4, <1>1, <1>2
    <3>2. CASE i = Len(r.chan) + 1
      <4>1. p[D - 1] + i = n + 1
          BY <3>2, <2>2, <2>3, <1>5, <1>2, <1>1, SMTT(30)
      <4> QED
          BY <4>1, <3>2, <1>1, <1>2
    <3> QED
        BY <3>1, <3>2, <1>2, OneMore
  <2>6. q[D - 1] = p[D - 1] /\ Len(Chan(t, D)) = Len(r.chan) + 1
      BY <2>1, <2>2, <1>4, <1>2
  <2>7. q[D] = q[D - 1] + Len(Chan(t, D))
      BY <2>6, <2>3, <2>2, <1>4, <1>5, <1>2, <1>1, SMTT(30)
  <2> HIDE DEF q
  <2> QED
      BY <2>1, <2>5, <2>6, <2>7
<1>8. q[0] = Len(t.delivered)
    BY <1>4, <1>5, <1>1
<1>9. InOrder(t, q)
  <2> HIDE DEF q
  <2> QED
    BY <1>0, <1>4, <1>6, <1>7, <1>8, <1>1 DEF InOrder
<1> QED
    BY <1>0, <1>9, <1>4, <1>1 DEF Flows

\* The k-th channel has what was said between its two ends.
LEMMA InOrderAt ==
    ASSUME NEW r, NEW p, InOrder(r, p), Len(r.below) \in Nat, NEW j \in 0..Len(r.below)
    PROVE  /\ p[j + 1] = p[j] + Len(Chan(r, j + 1))
           /\ \A i \in 1..Len(Chan(r, j + 1)) : Chan(r, j + 1)[i].content = r.said[p[j] + i]
<1>1. PICK k : k = j + 1
    OBVIOUS
<1>2. k \in 1..(Len(r.below) + 1) /\ k - 1 = j
    BY <1>1
<1>3. /\ p[k] = p[k - 1] + Len(Chan(r, k))
      /\ \A i \in 1..Len(Chan(r, k)) : Chan(r, k)[i].content = r.said[p[k - 1] + i]
    BY <1>2 DEF InOrder
<1> QED
    BY <1>1, <1>2, <1>3

\* The channels of a stream are sequences.
LEMMA ChanIsSeq ==
    ASSUME NEW r, StreamTypes(r), NEW k \in 1..(Len(r.below) + 1)
    PROVE  IsSeq(Chan(r, k)) /\ Len(Chan(r, k)) \in Nat
<1>1. Len(r.below) \in Nat
    BY SeqFacts DEF StreamTypes
<1>2. CASE k = Len(r.below) + 1
    BY <1>2, SeqFacts DEF Chan, StreamTypes
<1>3. CASE k \in 1..Len(r.below) /\ k # Len(r.below) + 1
    BY <1>3, SeqFacts DEF Chan, StreamTypes
<1> QED
    BY <1>1, <1>2, <1>3, OneMore

\* A level that is opened starts with an empty channel; the one before waits.
LEMMA OpenedFlows ==
    ASSUME NEW r, NEW t, NEW b, StreamTypes(r), Flows(r), b.chan = r.chan,
           t.said = r.said, t.chan = <<>>, t.below = Append(r.below, b), t.delivered = r.delivered
    PROVE  Flows(t)
<1> DEFINE D == Len(r.below) + 1
           n == Len(r.said)
<1>0. D = Len(r.below) + 1 /\ n = Len(r.said)
    OBVIOUS
<1> HIDE DEF D, n
<1>1. D \in Nat /\ n \in Nat /\ D > 0 /\ Len(t.below) = D
    BY <1>0, SeqFacts, AppendIsSeq DEF StreamTypes
<1>2. (\A k \in 1..(D - 1) : t.below[k] = r.below[k]) /\ t.below[D] = b
    BY <1>0, <1>1, AppendIsSeq DEF StreamTypes
<1>3. PICK p \in [0..D -> 0..n] : InOrder(r, p)
    BY <1>0 DEF Flows
<1> DEFINE q == [k \in 0..(D + 1) |-> IF k = D + 1 THEN n ELSE p[k]]
<1>4. q \in [0..(D + 1) -> 0..n] /\ q[D + 1] = n /\ \A k \in 0..D : q[k] = p[k]
    BY <1>1
<1>5. p[D] = n /\ p[0] = Len(r.delivered)
    BY <1>0, <1>3 DEF InOrder
<1> HIDE DEF q
<1>6. ASSUME NEW k \in 1..D
      PROVE  /\ q[k] = q[k - 1] + Len(Chan(t, k))
             /\ \A i \in 1..Len(Chan(t, k)) : Chan(t, k)[i].content = t.said[q[k - 1] + i]
  <2>1. Chan(t, k) = Chan(r, k)
    <3>1. Chan(t, k) = t.below[k].chan
        BY <1>1, <1>6 DEF Chan
    <3>2. CASE k = D
        BY <3>1, <3>2, <1>0, <1>2 DEF Chan
    <3>3. CASE k # D
        BY <3>1, <3>3, <1>0, <1>1, <1>2 DEF Chan
    <3> QED
        BY <3>2, <3>3
  <2>2. q[k] = p[k] /\ q[k - 1] = p[k - 1]
      BY <1>6, <1>1, <1>4
  <2> QED
      BY <2>1, <2>2, <1>0, <1>3 DEF InOrder
<1>7. /\ q[D + 1] = q[D] + Len(Chan(t, D + 1))
      /\ \A i \in 1..Len(Chan(t, D + 1)) : Chan(t, D + 1)[i].content = t.said[q[D] + i]
  <2>1. Chan(t, D + 1) = <<>> /\ Len(Chan(t, D + 1)) = 0
      BY <1>1, EmptyIsSeq DEF Chan
  <2>2. q[D + 1] = n /\ q[D] = n
      BY <1>1, <1>4, <1>5
  <2> QED
      BY <2>1, <2>2, <1>1
<1>8. InOrder(t, q)
  <2>1. q[0] = Len(t.delivered) /\ q[D + 1] = Len(t.said)
      BY <1>0, <1>1, <1>4, <1>5
  <2>2. \A k \in 1..(D + 1) : k \in 1..D \/ (k = D + 1 /\ k - 1 = D)
      BY <1>1
  <2> QED
      BY <2>1, <2>2, <1>1, <1>6, <1>7 DEF InOrder
<1> QED
    BY <1>0, <1>1, <1>4, <1>8 DEF Flows

\* A level that is through, and whose channel is empty, leaves the others as they are.
LEMMA ResumedFlows ==
    ASSUME NEW r, NEW t, StreamTypes(r), Flows(r), Len(r.below) > 0, r.chan = <<>>,
           t.said = r.said, t.chan = r.below[Len(r.below)].chan, t.below = Front(r.below),
           t.delivered = r.delivered
    PROVE  Flows(t)
<1> DEFINE D == Len(r.below)
           n == Len(r.said)
<1>0. D = Len(r.below) /\ n = Len(r.said)
    OBVIOUS
<1> HIDE DEF D, n
<1>1. D \in Nat /\ n \in Nat /\ D > 0 /\ Len(t.below) = D - 1
    BY <1>0, SeqFacts, FrontIsSeq DEF StreamTypes
<1>2. \A k \in 1..(D - 1) : t.below[k] = r.below[k]
    BY <1>0, <1>1, FrontIsSeq DEF StreamTypes
<1>3. PICK p \in [0..(D + 1) -> 0..n] : InOrder(r, p)
    BY <1>0 DEF Flows
<1> DEFINE q == [k \in 0..D |-> p[k]]
<1>4. q \in [0..D -> 0..n] /\ \A k \in 0..D : q[k] = p[k]
    BY <1>1
<1>5. p[D + 1] = n /\ p[0] = Len(r.delivered) /\ p[D + 1] = p[D] + Len(Chan(r, D + 1))
  <2>1. D \in 0..D
      BY <1>1
  <2>2. p[D + 1] = p[D] + Len(Chan(r, D + 1))
      BY <2>1, <1>0, <1>1, <1>3, InOrderAt, ZenonT(30)
  <2>3. p[D + 1] = n /\ p[0] = Len(r.delivered)
      BY <1>0, <1>3 DEF InOrder
  <2> QED
      BY <2>1, <2>2, <2>3
<1>6. p[D] = n
  <2>1. Chan(r, D + 1) = <<>> /\ Len(Chan(r, D + 1)) = 0
      BY <1>0, EmptyIsSeq DEF Chan
  <2>2. p[D] \in 0..n
      BY <1>1, <1>3
  <2> QED
      BY <2>1, <2>2, <1>5, <1>1
<1> HIDE DEF q
<1>7. ASSUME NEW k \in 1..D
      PROVE  /\ q[k] = q[k - 1] + Len(Chan(t, k))
             /\ \A i \in 1..Len(Chan(t, k)) : Chan(t, k)[i].content = t.said[q[k - 1] + i]
  <2>1. Chan(t, k) = Chan(r, k)
    <3>1. Chan(r, k) = r.below[k].chan
        BY <1>0, <1>1, <1>7 DEF Chan
    <3>2. CASE k = D
        BY <3>1, <3>2, <1>0, <1>1 DEF Chan
    <3>3. CASE k # D
        BY <3>1, <3>3, <1>1, <1>2, SMTT(30) DEF Chan
    <3> QED
        BY <3>2, <3>3
  <2>2. q[k] = p[k] /\ q[k - 1] = p[k - 1] /\ k \in 1..(D + 1)
      BY <1>7, <1>1, <1>4
  <2> QED
      BY <2>1, <2>2, <1>0, <1>3 DEF InOrder
<1>8. InOrder(t, q)
  <2>1. 0 \in 0..D /\ D \in 0..D /\ Len(t.below) + 1 = D
      BY <1>1
  <2>2. q[0] = Len(t.delivered) /\ q[D] = Len(t.said)
      BY <2>1, <1>0, <1>4, <1>5, <1>6
  <2> QED
      BY <2>1, <2>2, <1>7 DEF InOrder
<1>9. Len(t.below) + 1 = D
    BY <1>1
<1> QED
    BY <1>0, <1>9, <1>4, <1>8 DEF Flows

\* An event that is forwarded moves from one channel to the next.
LEMMA ForwardedFlows ==
    ASSUME NEW r, NEW t, StreamTypes(r), Flows(r), NEW k \in 1..Len(r.below), Chan(r, k + 1) # <<>>,
           t.said = r.said, t.delivered = r.delivered, Len(t.below) = Len(r.below),
           Chan(t, k) = Append(Chan(r, k), Head(Chan(r, k + 1))),
           Chan(t, k + 1) = Tail(Chan(r, k + 1)),
           \A j \in 1..(Len(r.below) + 1) : j # k /\ j # k + 1 => Chan(t, j) = Chan(r, j)
    PROVE  Flows(t)
<1> DEFINE D == Len(r.below) + 1
           n == Len(r.said)
           a == Len(Chan(r, k))
           b == Len(Chan(r, k + 1))
<1>0. D = Len(r.below) + 1 /\ n = Len(r.said) /\ a = Len(Chan(r, k)) /\ b = Len(Chan(r, k + 1))
    OBVIOUS
<1> HIDE DEF D, n, a, b
<1>1. D \in Nat /\ n \in Nat /\ k \in 1..(D - 1) /\ k \in 1..D /\ k + 1 \in 1..D
      /\ k - 1 \in 0..D /\ k \in 0..D /\ k + 1 \in 0..D
  <2>1. Len(r.below) \in Nat /\ n \in Nat
      BY <1>0, SeqFacts DEF StreamTypes
  <2> QED
      BY <2>1, <1>0
<1>2. /\ IsSeq(Chan(r, k)) /\ a \in Nat /\ IsSeq(Chan(r, k + 1)) /\ b \in Nat
    BY <1>0, <1>1, ChanIsSeq
<1>3. /\ Len(Chan(t, k)) = a + 1 /\ Chan(t, k)[a + 1] = Chan(r, k + 1)[1]
      /\ \A i \in 1..a : Chan(t, k)[i] = Chan(r, k)[i]
    BY <1>0, <1>2, AppendIsSeq, TailIsSeq
<1>4. /\ b > 0 /\ Len(Chan(t, k + 1)) = b - 1
      /\ \A i \in 1..(b - 1) : Chan(t, k + 1)[i] = Chan(r, k + 1)[i + 1]
    BY <1>0, <1>2, TailIsSeq
<1>5. PICK p \in [0..D -> 0..n] : InOrder(r, p)
    BY <1>0 DEF Flows
<1>6. /\ p[k] = p[k - 1] + a /\ \A i \in 1..a : Chan(r, k)[i].content = r.said[p[k - 1] + i]
    BY <1>0, <1>1, <1>5 DEF InOrder
<1>7. /\ p[k + 1] = p[k] + b /\ \A i \in 1..b : Chan(r, k + 1)[i].content = r.said[p[k] + i]
  <2>1. PICK m : m = k + 1
      OBVIOUS
  <2>2. m \in 1..(Len(r.below) + 1) /\ m - 1 = k
      BY <2>1, <1>0, <1>1
  <2>3. /\ p[m] = p[m - 1] + Len(Chan(r, m))
        /\ \A i \in 1..Len(Chan(r, m)) : Chan(r, m)[i].content = r.said[p[m - 1] + i]
      BY <2>2, <1>5 DEF InOrder
  <2> QED
      BY <2>1, <2>2, <2>3, <1>0
<1>8. p[k - 1] \in 0..n /\ p[k] \in 0..n /\ p[k + 1] \in 0..n /\ p[k] + 1 \in 0..n
  <2>1. p[k - 1] \in 0..n /\ p[k] \in 0..n /\ p[k + 1] \in 0..n
      BY <1>1, <1>5
  <2>2. p[k + 1] = p[k] + b /\ b \in Nat /\ b > 0 /\ n \in Nat
      BY <1>1, <1>2, <1>4, <1>7
  <2> QED
      BY ONLY <2>1, <2>2
<1> DEFINE q == [p EXCEPT ![k] = p[k] + 1]
<1>9. q \in [0..D -> 0..n] /\ q[k] = p[k] + 1 /\ \A j \in 0..D : j # k => q[j] = p[j]
    BY <1>1, <1>5, <1>8
<1> HIDE DEF q
<1> DEFINE Fits0(j) == /\ q[j] = q[j - 1] + Len(Chan(t, j))
                       /\ \A i \in 1..Len(Chan(t, j)) : Chan(t, j)[i].content = t.said[q[j - 1] + i]
<1>10. Fits0(k)
  <2>1. q[k - 1] = p[k - 1] /\ q[k] = q[k - 1] + Len(Chan(t, k))
      BY <1>1, <1>2, <1>3, <1>6, <1>8, <1>9
  <2>2. ASSUME NEW i \in 1..(a + 1) PROVE Chan(t, k)[i].content = r.said[p[k - 1] + i]
    <3>1. CASE i \in 1..a
        BY <3>1, <1>3, <1>6
    <3>2. CASE i = a + 1
      <4>0. p[k] = p[k - 1] + a /\ b > 0
          BY <1>4, <1>6
      <4>1. p[k - 1] + i = p[k] + 1 /\ 1 \in 1..b
          BY <3>2, <4>0, <1>1, <1>2, <1>8
      <4>2. Chan(r, k + 1)[1].content = r.said[p[k] + 1]
          BY <4>1, <1>7
      <4> QED
          BY <3>2, <4>1, <4>2, <1>3
    <3> QED
        BY <3>1, <3>2, <1>2, OneMore
  <2> QED
      BY <2>1, <2>2, <1>3
<1>11. Fits0(k + 1)
  <2>1. k + 1 - 1 = k /\ q[k] = p[k] + 1 /\ q[k + 1] = p[k + 1]
      BY <1>1, <1>9
  <2>2. q[k + 1] = q[k] + Len(Chan(t, k + 1))
    <3>1. p[k + 1] = p[k] + b /\ Len(Chan(t, k + 1)) = b - 1
        BY <1>4, <1>7
    <3> QED
        BY <3>1, <2>1, <1>1, <1>2, <1>8
  <2>3. ASSUME NEW i \in 1..(b - 1) PROVE Chan(t, k + 1)[i].content = r.said[p[k] + 1 + i]
    <3>1. i + 1 \in 1..b /\ p[k] + (i + 1) = p[k] + 1 + i
        BY <1>1, <1>2, <1>8
    <3>2. Chan(r, k + 1)[i + 1].content = r.said[p[k] + (i + 1)]
        BY <3>1, <1>7
    <3> QED
        BY <3>1, <3>2, <1>4
  <2> QED
      BY <2>1, <2>2, <2>3, <1>4
<1>12. ASSUME NEW j \in 1..D, j # k, j # k + 1 PROVE Fits0(j)
  <2>1. j \in 0..D /\ j - 1 \in 0..D /\ j - 1 # k
      BY <1>12, <1>1
  <2>2. q[j] = p[j] /\ q[j - 1] = p[j - 1] /\ Chan(t, j) = Chan(r, j)
      BY <1>0, <1>12, <2>1, <1>9
  <2> QED
      BY <2>2, <1>0, <1>12, <1>5 DEF InOrder
<1>13. InOrder(t, q)
  <2>1. 0 \in 0..D /\ D \in 0..D /\ k # 0 /\ k # D
      BY <1>1
  <2>2. q[0] = Len(t.delivered) /\ q[D] = Len(t.said)
      BY <2>1, <1>0, <1>5, <1>9 DEF InOrder
  <2>3. \A j \in 1..D : Fits0(j)
      BY <1>10, <1>11, <1>12
  <2> QED
      BY <2>2, <2>3, <1>0 DEF InOrder
<1> QED
    BY <1>0, <1>9, <1>13 DEF Flows

\* An event that the client reads is the next of what was said.
LEMMA ReadFlows ==
    ASSUME NEW r, NEW t, StreamTypes(r), Flows(r), Delivered(r), Chan(r, 1) # <<>>,
           t.said = r.said, Len(t.below) = Len(r.below),
           t.delivered = Append(r.delivered, Head(Chan(r, 1))), Chan(t, 1) = Tail(Chan(r, 1)),
           \A j \in 2..(Len(r.below) + 1) : Chan(t, j) = Chan(r, j)
    PROVE  Flows(t) /\ Delivered(t)
<1> DEFINE D == Len(r.below) + 1
           n == Len(r.said)
           d == Len(r.delivered)
           b == Len(Chan(r, 1))
<1>0. D = Len(r.below) + 1 /\ n = Len(r.said) /\ d = Len(r.delivered) /\ b = Len(Chan(r, 1))
    OBVIOUS
<1> HIDE DEF D, n, d, b
<1>1. D \in Nat /\ n \in Nat /\ d \in Nat /\ 1 \in 1..D /\ 1 \in 0..D /\ 0 \in 0..D /\ D \in 0..D
    BY <1>0, SeqFacts DEF StreamTypes
<1>2. IsSeq(Chan(r, 1)) /\ b \in Nat /\ IsSeq(r.delivered)
    BY <1>0, <1>1, ChanIsSeq DEF StreamTypes
<1>3. /\ Len(t.delivered) = d + 1 /\ t.delivered[d + 1] = Chan(r, 1)[1]
      /\ \A i \in 1..d : t.delivered[i] = r.delivered[i]
    BY <1>0, <1>2, AppendIsSeq, TailIsSeq
<1>4. /\ b > 0 /\ Len(Chan(t, 1)) = b - 1
      /\ \A i \in 1..(b - 1) : Chan(t, 1)[i] = Chan(r, 1)[i + 1]
    BY <1>0, <1>2, TailIsSeq
<1>5. PICK p \in [0..D -> 0..n] : InOrder(r, p)
    BY <1>0 DEF Flows
<1>6. p[0] = d /\ p[D] = n
    BY <1>0, <1>5 DEF InOrder
<1>7. p[1] = d + b /\ \A i \in 1..b : Chan(r, 1)[i].content = r.said[d + i]
  <2>1. /\ p[1] = p[1 - 1] + b
        /\ \A i \in 1..b : Chan(r, 1)[i].content = r.said[p[1 - 1] + i]
      BY <1>0, <1>1, <1>5 DEF InOrder
  <2>2. 1 - 1 = 0
      OBVIOUS
  <2> QED
      BY <2>1, <2>2, <1>6
<1>8. p[1] \in 0..n /\ d + 1 \in 0..n /\ 1 \in 1..b
    BY <1>1, <1>2, <1>4, <1>5, <1>7
<1>9. Delivered(t)
  <2>1. ASSUME NEW i \in 1..(d + 1) PROVE t.delivered[i].content = r.said[i]
    <3>1. CASE i \in 1..d
        BY <3>1, <1>0, <1>3 DEF Delivered
    <3>2. CASE i = d + 1
        BY <3>2, <1>3, <1>7, <1>8
    <3> QED
        BY <3>1, <3>2, <1>1, OneMore
  <2>2. d + 1 <= n
      BY <1>8, <1>1
  <2> QED
      BY <2>1, <2>2, <1>0, <1>3 DEF Delivered
<1> DEFINE q == [p EXCEPT ![0] = d + 1]
<1>10. q \in [0..D -> 0..n] /\ q[0] = d + 1 /\ \A j \in 0..D : j # 0 => q[j] = p[j]
    BY <1>1, <1>5, <1>8
<1> HIDE DEF q
<1> DEFINE Fits0(j) == /\ q[j] = q[j - 1] + Len(Chan(t, j))
                       /\ \A i \in 1..Len(Chan(t, j)) : Chan(t, j)[i].content = t.said[q[j - 1] + i]
<1>11. Fits0(1)
  <2>1. 1 - 1 = 0 /\ q[0] = d + 1 /\ q[1] = p[1]
      BY <1>1, <1>10
  <2>2. q[1] = q[0] + Len(Chan(t, 1))
    <3>1. p[1] = d + b /\ Len(Chan(t, 1)) = b - 1
        BY <1>4, <1>7
    <3> QED
        BY <3>1, <2>1, <1>1, <1>2
  <2>3. ASSUME NEW i \in 1..(b - 1) PROVE Chan(t, 1)[i].content = r.said[d + 1 + i]
    <3>1. i + 1 \in 1..b /\ d + (i + 1) = d + 1 + i
        BY <1>1, <1>2
    <3>2. Chan(r, 1)[i + 1].content = r.said[d + (i + 1)]
        BY <3>1, <1>7
    <3> QED
        BY <3>1, <3>2, <1>4
  <2> QED
      BY <2>1, <2>2, <2>3, <1>4
<1>12. ASSUME NEW j \in 2..D PROVE Fits0(j)
  <2>1. j \in 0..D /\ j - 1 \in 0..D /\ j - 1 # 0 /\ j # 0 /\ j \in 1..D
      BY <1>12, <1>1
  <2>2. q[j] = p[j] /\ q[j - 1] = p[j - 1] /\ Chan(t, j) = Chan(r, j)
      BY <1>0, <1>12, <2>1, <1>10
  <2> QED
      BY <2>1, <2>2, <1>0, <1>5 DEF InOrder
<1>13. InOrder(t, q)
  <2>1. D # 0
      BY <1>1
  <2>2. q[0] = Len(t.delivered) /\ q[D] = Len(t.said)
      BY <2>1, <1>0, <1>1, <1>3, <1>6, <1>10
  <2>3. \A j \in 1..D : j = 1 \/ j \in 2..D
      BY <1>1
  <2>4. \A j \in 1..D : Fits0(j)
      BY <2>3, <1>11, <1>12
  <2> QED
      BY <2>2, <2>4, <1>0 DEF InOrder
<1> QED
    BY <1>0, <1>9, <1>10, <1>13 DEF Flows

\* The client of a stream that is opened has got nothing yet.
LEMMA EmptyFlows ==
    ASSUME NEW t, t.said = <<>>, t.chan = <<>>, t.below = <<>>, t.delivered = <<>>
    PROVE  StreamTypes(t) /\ Flows(t) /\ Delivered(t)
<1>1. StreamTypes(t) /\ Delivered(t)
    BY EmptyIsSeq DEF StreamTypes, Delivered
<1> DEFINE q == [k \in 0..1 |-> 0]
<1>2. q \in [0..1 -> 0..0] /\ q[0] = 0 /\ q[1] = 0
    OBVIOUS
<1> HIDE DEF q
<1>3. Chan(t, 1) = <<>>
    BY EmptyIsSeq DEF Chan
<1>4. InOrder(t, q)
  <2>1. Len(t.below) + 1 = 1 /\ Len(t.said) = 0 /\ Len(t.delivered) = 0
      BY EmptyIsSeq
  <2>2. ASSUME NEW k \in 1..1
        PROVE  /\ q[k] = q[k - 1] + Len(Chan(t, k))
               /\ \A i \in 1..Len(Chan(t, k)) : Chan(t, k)[i].content = t.said[q[k - 1] + i]
    <3>1. k = 1 /\ k - 1 = 0 /\ Len(Chan(t, k)) = 0
        BY <2>2, <1>3, EmptyIsSeq
    <3> QED
        BY <3>1, <1>2
  <2> QED
      BY <2>1, <2>2, <1>2 DEF InOrder
<1> QED
    BY <1>1, <1>2, <1>4, EmptyIsSeq DEF Flows

\* What the client has stays the beginning of what was said when more is said.
LEMMA SaidDelivered ==
    ASSUME NEW r, NEW t, NEW x, StreamTypes(r), Delivered(r),
           t.said = Append(r.said, x), t.delivered = r.delivered
    PROVE  Delivered(t) /\ IsSeq(t.said)
<1>1. /\ Len(r.said) \in Nat /\ Len(t.said) = Len(r.said) + 1 /\ IsSeq(t.said)
      /\ \A i \in 1..Len(r.said) : t.said[i] = r.said[i]
    BY SeqFacts, AppendIsSeq DEF StreamTypes
<1>2. Len(r.delivered) \in Nat
    BY SeqFacts DEF StreamTypes
<1>3. \A i \in 1..Len(r.delivered) : i \in 1..Len(r.said)
    BY <1>1, <1>2 DEF Delivered
<1>4. Len(t.delivered) <= Len(t.said)
    BY <1>1, <1>2 DEF Delivered
<1> QED
    BY <1>1, <1>3, <1>4 DEF Delivered

\* Who is not concerned keeps its stream.
LEMMA StreamOfOne ==
    ASSUME StreamsInv, NEW c \in Callers, NEW r, Moves(c, r), r.kind = call[c].kind,
           Streams(c) => StreamOk(r)
    PROVE  StreamsInv'
BY DEF StreamsInv, Streams, Moves

\* A stream is in none of the places of SQL.
LEMMA NotSql ==
    ASSUME StreamsInv, NEW c \in Callers, call[c].pc \in Early \cup {"query", "tables", "reply"}
    PROVE  ~Streams(c)
BY DEF StreamsInv, StreamOk, StreamPlaces, Early

\* Answering keeps everything that is on its way.
LEMMA AnswerStream ==
    ASSUME IInv, StreamsInv, NEW c \in Callers, NEW a, call' = Answer(c, a),
           Streams(c) => a.status # "200"
    PROVE  StreamsInv'
<1> DEFINE r == call'[c]
<1>1. Moves(c, r) /\ r.kind = call[c].kind /\ r.pc = "answered" /\ r.answer = a
      /\ r.level = call[c].level /\ SameStream(call[c], r)
    BY DEF Answer, Moves, SameStream, IInv, TypeInv, CallFields
<1> HIDE DEF r
<1>2. ASSUME Streams(c) PROVE StreamOk(r)
  <2>1. StreamOk(call[c]) /\ call[c].level \in Nat
      BY <1>2 DEF StreamsInv, StreamOk
  <2> QED
      BY <1>1, <1>2, <2>1, StreamKept DEF Unopened, StreamPlaces
<1> QED
    BY <1>1, <1>2, StreamOfOne

\* A request that goes on, with its stream as it is.
LEMMA PlainStream ==
    ASSUME IInv, StreamsInv, NEW c \in Callers, NEW r, Moves(c, r), r.kind = call[c].kind,
           Streams(c) =>
              /\ SameStream(call[c], r) /\ r.level \in Nat /\ r.answer.status = call[c].answer.status
              /\ r.pc \in StreamPlaces \ {"answered"} /\ (Unopened(r) => Unopened(call[c]))
    PROVE  StreamsInv'
<1>1. ASSUME Streams(c) PROVE StreamOk(r)
  <2>1. StreamOk(call[c])
      BY <1>1 DEF StreamsInv
  <2>2. Unopened(call[c]) => call[c].answer.status = None
      BY <2>1 DEF StreamOk
  <2> QED
      BY <1>1, <2>1, <2>2, StreamKept
<1> QED
    BY <1>1, StreamOfOne

\* SQL and searches are not streamed chats.
LEMMA SqlStream == ASSUME IInv, StreamsInv, NEW c \in Callers, SqlStep(c) PROVE StreamsInv'
<1>1. ASSUME NEW next, WithSchema(c, next), call[c].pc \in Early PROVE StreamsInv'
  <2>1. ~Streams(c)
      BY <1>1, NotSql
  <2>2. CASE \E a : call' = Answer(c, a)
      BY <2>1, <2>2, AnswerStream
  <2>3. CASE call' = [call EXCEPT ![c].pc = next]
    <3>1. Moves(c, call'[c]) /\ call'[c].kind = call[c].kind
        BY <2>3 DEF Moves, IInv, TypeInv, CallFields
    <3> QED
        BY <3>1, <2>1, StreamOfOne
  <2> QED
      BY <1>1, <2>2, <2>3 DEF WithSchema
<1>2. ASSUME NEW kind, RunsQuery(c, kind) PROVE StreamsInv'
  <2>1. call[c].pc \in Early /\ Moves(c, call'[c]) /\ call'[c].kind = call[c].kind
      BY <1>2 DEF RunsQuery, Early, Moves, IInv, TypeInv, CallFields
  <2> QED
      BY <2>1, NotSql, StreamOfOne
<1>3. CASE Refuse(c) \/ AnswerQuery(c) \/ PostSearch(c)
  <2>1. ~Streams(c)
      BY <1>3, NotSql DEF Refuse, AnswerQuery, PostSearch, Early
  <2>2. \E a : call' = Answer(c, a)
      BY <1>3 DEF Refuse, AnswerQuery, PostSearch, Status500
  <2> QED
      BY <2>1, <2>2, AnswerStream
<1>4. CASE GetSchema(c) \/ CreatePreparedStatement(c) \/ GetFlightInfoPrepared(c)
              \/ GetFlightInfoSimple(c) \/ GetFlightInfoStatement(c)
    BY <1>4, <1>1 DEF GetSchema, CreatePreparedStatement, GetFlightInfoPrepared,
                      GetFlightInfoSimple, GetFlightInfoStatement, Early
<1>5. CASE DoGetSimple(c) \/ DoGetStatement(c) \/ DoGetPrepared(c) \/ PostSql(c)
    BY <1>5, <1>2 DEF DoGetSimple, DoGetStatement, DoGetPrepared, PostSql
<1> QED
    BY <1>3, <1>4, <1>5 DEF SqlStep

\* The way to the model: nothing is said yet at the first level, and all that was said
\* stays where it is at the others.
LEMMA ToModelStream ==
    ASSUME IInv, StreamsInv, NEW c \in Callers,
           PromptTables(c) \/ ReadModels(c) \/ LockModel(c) \/ Prepare(c)
    PROVE  StreamsInv'
<1> USE DEF Unopened, StreamPlaces, SameStream
<1>0. DOMAIN call[c] = CallFields /\ DOMAIN call = Callers
    BY DEF IInv, TypeInv
<1>1. CASE PromptTables(c)
  <2>1. Moves(c, call'[c]) /\ call'[c].kind = call[c].kind
      BY <1>0, <1>1 DEF PromptTables, Moves, CallFields
  <2> QED
      BY <1>1, <2>1, NotSql, StreamOfOne DEF PromptTables
<1>2. CASE ReadModels(c) /\ call' = [call EXCEPT ![c].pc = "model", ![c].guard = "models"]
  <2>1. Moves(c, call'[c]) /\ call'[c].kind = call[c].kind /\ call'[c].pc = "model"
        /\ SameStream(call[c], call'[c]) /\ call'[c].level = call[c].level
        /\ call'[c].answer = call[c].answer /\ call[c].pc = "models"
      BY <1>0, <1>2 DEF ReadModels, Moves, CallFields
  <2>2. Streams(c) => call[c].level \in Nat
      BY DEF StreamsInv, StreamOk
  <2> QED
      BY <2>1, <2>2, PlainStream
<1>3. CASE ReadModels(c) /\ call' = Answer(c, [NoAnswer EXCEPT !.status =
                                        IF call[c].kind = "nsql" THEN "500" ELSE "404"])
    BY <1>3, AnswerStream DEF NoAnswer
<1>4. CASE LockModel(c)
  <2>1. Moves(c, call'[c]) /\ call'[c].kind = call[c].kind /\ call'[c].pc = "prepare"
        /\ SameStream(call[c], call'[c]) /\ call'[c].level = call[c].level
        /\ call'[c].answer = call[c].answer /\ call[c].pc = "model"
      BY <1>0, <1>4 DEF LockModel, Moves, CallFields
  <2>2. Streams(c) => call[c].level \in Nat
      BY DEF StreamsInv, StreamOk
  <2> QED
      BY <2>1, <2>2, PlainStream
<1>5. CASE Prepare(c)
  <2>1. Moves(c, call'[c]) /\ call'[c].kind = call[c].kind /\ call'[c].pc \in {"panicked", "infer"}
        /\ SameStream(call[c], call'[c]) /\ call'[c].level = call[c].level
        /\ call'[c].answer = call[c].answer /\ call[c].pc = "prepare"
      BY <1>0, <1>5 DEF Prepare, Moves, CallFields
  <2>2. Streams(c) => call[c].level \in Nat
      BY DEF StreamsInv, StreamOk
  <2> QED
      BY <2>1, <2>2, PlainStream
<1> QED
    BY <1>1, <1>2, <1>3, <1>4, <1>5 DEF ReadModels

\* Tools are run while the channels are forwarded; the next request is a level deeper.
LEMMA ToolsStream ==
    ASSUME IInv, StreamsInv, NEW c \in Callers, RunTool(c) \/ ToolQueryEnds(c) \/ AskAgain(c)
    PROVE  StreamsInv'
<1> USE DEF Unopened, StreamPlaces, SameStream
<1>0. DOMAIN call[c] = CallFields /\ DOMAIN call = Callers
      /\ call[c].pc \in {"tools", "tool_query"}
    BY DEF IInv, TypeInv, RunTool, ToolQueryEnds, AskAgain
<1>1. Streams(c) => call[c].level \in Nat
    BY DEF StreamsInv, StreamOk
<1>2. CASE \E content : ToolAnswers(c, content)
  <2>1. Moves(c, call'[c]) /\ call'[c].kind = call[c].kind /\ call'[c].pc = "tools"
        /\ SameStream(call[c], call'[c]) /\ call'[c].level = call[c].level
        /\ call'[c].answer = call[c].answer
      BY <1>0, <1>2 DEF ToolAnswers, Moves, CallFields
  <2> QED
      BY <2>1, <1>1, PlainStream
<1>3. CASE call' = [call EXCEPT ![c].pc = "tool_query"]
  <2>1. Moves(c, call'[c]) /\ call'[c].kind = call[c].kind /\ call'[c].pc = "tool_query"
        /\ SameStream(call[c], call'[c]) /\ call'[c].level = call[c].level
        /\ call'[c].answer = call[c].answer
      BY <1>0, <1>3 DEF Moves, CallFields
  <2> QED
      BY <2>1, <1>1, PlainStream
<1>4. CASE AskAgain(c)
  <2> DEFINE Req(messages) == IF Streams(c) THEN [call[c].req EXCEPT !.messages = messages]
                              ELSE NewRequest(messages)
  <2>0. PICK messages :
            call' = [call EXCEPT ![c] =
                       [@ EXCEPT !.pc = "prepare", !.level = call[c].level + 1, !.req = Req(messages)]]
      BY <1>4, Zenon DEF AskAgain
  <2> HIDE DEF Req
  <2>1. Moves(c, call'[c]) /\ call'[c].kind = call[c].kind /\ call'[c].pc = "prepare"
        /\ SameStream(call[c], call'[c]) /\ call'[c].level = call[c].level + 1
        /\ call'[c].answer = call[c].answer
    <3>1. Moves(c, call'[c]) /\ call'[c].kind = call[c].kind /\ call'[c].pc = "prepare"
          /\ call'[c].answer = call[c].answer
        BY <1>0, <2>0 DEF Moves, CallFields
    <3>2. SameStream(call[c], call'[c])
        BY <1>0, <2>0 DEF CallFields
    <3>3. call'[c].level = call[c].level + 1
      <4>1. "level" \in DOMAIN call[c] /\ "pc" \in DOMAIN call[c] /\ "req" \in DOMAIN call[c]
            /\ "level" # "pc" /\ "level" # "req"
          BY <1>0 DEF CallFields
      <4> QED
          BY <4>1, <1>0, <2>0, Zenon
    <3> QED
        BY <3>1, <3>2, <3>3
  <2>2. Streams(c) => call'[c].level \in Nat /\ call'[c].level # 0
      BY <2>1, <1>1, SMTT(30)
  <2> QED
      BY <2>1, <2>2, PlainStream
<1>5. RunTool(c) \/ ToolQueryEnds(c) =>
         (\E content : ToolAnswers(c, content)) \/ call' = [call EXCEPT ![c].pc = "tool_query"]
    BY DEF RunTool, ToolQueryEnds, SqlTool, TableSchemaTool, ListDatasetsTool,
           DocumentSimilarityTool
<1> QED
    BY <1>2, <1>3, <1>4, <1>5

\* A chat that is not streamed, and its answer.
LEMMA ReplyStream ==
    ASSUME IInv, StreamsInv, NEW c \in Callers, ChatRequest(c) \/ Reply(c)
    PROVE  StreamsInv'
<1>0. DOMAIN call[c] = CallFields /\ DOMAIN call = Callers
    BY DEF IInv, TypeInv
<1>1. ~Streams(c)
    BY NotSql DEF ChatRequest, Reply
<1>2. CASE \E a : call' = Answer(c, a)
    BY <1>1, <1>2, AnswerStream
<1>3. CASE ChatRequest(c) /\ ~\E a : call' = Answer(c, a)
  <2> DEFINE Used(reply) == IF reply.choices = <<>> THEN <<>> ELSE reply.choices[1].tool_calls
             Run(reply) == IF MayUseTools(c) THEN SpicedTools(Model(c).tools, Used(reply)) ELSE <<>>
  <2>0. PICK reply \in Replies(call[c].asked) :
            call' = [call EXCEPT ![c] =
                        [@ EXCEPT !.pc = IF Run(reply) = <<>> THEN "reply" ELSE "tools",
                                  !.todo = Run(reply), !.ran = Run(reply), !.contents = <<>>,
                                  !.choices = reply.choices, !.usages = Append(@, reply.usage)]]
      BY <1>3, Zenon DEF ChatRequest, Status500
  <2> HIDE DEF Run
  <2>1. Moves(c, call'[c]) /\ call'[c].kind = call[c].kind
      BY <1>0, <2>0 DEF Moves, CallFields
  <2> QED
      BY <2>1, <1>1, StreamOfOne, SMTT(30)
<1>4. CASE Reply(c) /\ ~\E a : call' = Answer(c, a)
  <2>1. Moves(c, call'[c]) /\ call'[c].kind = call[c].kind
      BY <1>0, <1>4 DEF Reply, Status500, Moves, CallFields
  <2> QED
      BY <2>1, <1>1, StreamOfOne
<1> QED
    BY <1>2, <1>3, <1>4

\* A client that goes away has what it has.
LEMMA LeaveStream ==
    ASSUME IInv, StreamsInv, NEW c \in Callers, Leave(c) PROVE StreamsInv'
<1> USE DEF Unopened, StreamPlaces, SameStream
<1>0. DOMAIN call[c] = CallFields /\ DOMAIN call = Callers
    BY DEF IInv, TypeInv
<1>1. Streams(c) => call[c].level \in Nat /\ call[c].pc \in StreamPlaces
    BY DEF StreamsInv, StreamOk
<1>2. CASE call' = [call EXCEPT ![c].here = FALSE]
  <2>1. Moves(c, call'[c]) /\ call'[c].kind = call[c].kind /\ call'[c].pc = call[c].pc
        /\ SameStream(call[c], call'[c]) /\ call'[c].level = call[c].level
        /\ call'[c].answer = call[c].answer
      BY <1>0, <1>2 DEF Moves, CallFields
  <2>2. call[c].pc # "answered"
      BY DEF Leave, Over
  <2> QED
      BY <2>1, <2>2, <1>1, PlainStream
<1>3. CASE call' = [call EXCEPT ![c].pc = "gone", ![c].guard = "none"]
  <2>1. Moves(c, call'[c]) /\ call'[c].kind = call[c].kind /\ call'[c].pc = "gone"
        /\ SameStream(call[c], call'[c]) /\ call'[c].level = call[c].level
        /\ call'[c].answer = call[c].answer
      BY <1>0, <1>3 DEF Moves, CallFields
  <2> QED
      BY <2>1, <1>1, PlainStream
<1> QED
    BY <1>2, <1>3 DEF Leave

\* As long as the client is there, every level has somebody to send to.
LEMMA NobodyIsDeaf ==
    ASSUME NEW c, call[c].here, call[c].cut = 0, NEW k \in Nat, k > 0
    PROVE  ~Deaf(c, k)
BY DEF Deaf

\* A chunk is read: what it adds is said, and in the channel if anybody listens.
LEMMA ReadChunkStream ==
    ASSUME IInv, StreamsInv, NEW c \in Callers, ReadChunk(c) PROVE StreamsInv'
<1> DEFINE s == call[c]
           r == call'[c]
           deaf == Deaf(c, Depth(c))
<1>0. DOMAIN call[c] = CallFields /\ DOMAIN call = Callers /\ call[c].pc = "read"
    BY SMTT(30) DEF IInv, TypeInv, ReadChunk
<1> DEFINE chunk == Head(call[c].chunks)
           states == IF chunk.call = None THEN call[c].states
                     ELSE AddToolCallChunk(call[c].states, chunk.choice, chunk.call)
           Run(calls) == IF chunk.finish = "tool_calls" /\ MayUseTools(c)
                         THEN SpicedTools(Model(c).tools, calls) ELSE <<>>
           Out(calls) == Passed(c, chunk, Run(calls))
           More(calls) == [i \in DOMAIN Out(calls) |-> Out(calls)[i].content]
           Pc(calls) == IF chunk.error THEN "ended"
                        ELSE IF Run(calls) # <<>> THEN "tools" ELSE "read"
<1>1. PICK calls \in InAnyOrder(states) :
          call' = [call EXCEPT ![c] =
                 [@ EXCEPT !.pc = Pc(calls), !.chunks = Unread(call[c].chunks, Run(calls)), !.states = states,
                           !.todo = Run(calls), !.ran = Run(calls), !.contents = <<>>,
                           !.chan = IF deaf THEN call[c].chan ELSE call[c].chan \o Out(calls),
                           !.said = call[c].said \o More(calls)]]
    BY Zenon DEF ReadChunk
<1> DEFINE passed == Out(calls)
           pc == Pc(calls)
<1>2. pc \in {"ended", "tools", "read"} /\ (passed = <<>> \/ \E e : passed = <<e>>)
    BY DEF Passed
<1>3. More(calls) = [i \in DOMAIN passed |-> passed[i].content]
    OBVIOUS
<1> HIDE DEF chunk, states, Run, Out, Pc, More, deaf
<1>4. /\ Moves(c, r) /\ r.kind = s.kind /\ r.level = s.level /\ r.answer = s.answer /\ r.pc = pc
      /\ r.below = s.below /\ r.delivered = s.delivered /\ r.cut = s.cut /\ r.here = s.here
      /\ r.said = s.said \o [i \in DOMAIN passed |-> passed[i].content]
      /\ r.chan = IF deaf THEN s.chan ELSE s.chan \o passed
  <2>1. Moves(c, r)
      BY <1>0, <1>1 DEF Moves
  <2>2. r = [s EXCEPT !.pc = pc, !.chunks = Unread(s.chunks, Run(calls)), !.states = states,
                      !.todo = Run(calls), !.ran = Run(calls), !.contents = <<>>,
                      !.chan = IF deaf THEN s.chan ELSE s.chan \o passed, !.said = s.said \o More(calls)]
      BY <1>0, <1>1
  <2>3. DOMAIN s = CallFields
      BY <1>0
  <2> HIDE DEF r, s, passed, pc
  <2>4. /\ r.kind = s.kind /\ r.level = s.level /\ r.answer = s.answer /\ r.pc = pc
        /\ r.below = s.below /\ r.delivered = s.delivered /\ r.cut = s.cut /\ r.here = s.here
      BY <2>2, <2>3 DEF CallFields
  <2>5. r.said = s.said \o More(calls)
      BY <2>2, <2>3 DEF CallFields
  <2>6. r.chan = IF deaf THEN s.chan ELSE s.chan \o passed
      BY <2>2, <2>3 DEF CallFields
  <2> QED
      BY <2>1, <2>4, <2>5, <2>6, <1>3
<1> HIDE DEF passed, pc
<1> HIDE DEF r, s
<1>5. ASSUME Streams(c) PROVE StreamOk(r)
  <2>1. StreamOk(s) /\ StreamTypes(s) /\ Delivered(s) /\ s.level \in Nat
      BY <1>5 DEF StreamsInv, StreamOk, s
  <2>2. IsSeq(s.chan) /\ IsSeq(s.said)
      BY <2>1 DEF StreamTypes
  <2>3. CASE passed = <<>>
    <3>1. [i \in DOMAIN passed |-> passed[i].content] = <<>>
        BY <2>3
    <3>2. s.said \o <<>> = s.said /\ s.chan \o <<>> = s.chan
        BY <2>2, ConcatEmptySeq DEF IsSeq
    <3>3. SameStream(s, r)
        BY <3>1, <3>2, <2>3, <1>2, <1>4 DEF SameStream
    <3> QED
        BY <3>3, <2>1, <1>2, <1>4, StreamKept DEF StreamPlaces, Unopened
  <2>4. ASSUME NEW e, passed = <<e>> PROVE StreamOk(r)
    <3>1. [i \in DOMAIN passed |-> passed[i].content] = <<e.content>>
        BY <2>4
    <3>2. r.said = Append(s.said, e.content) /\ s.chan \o passed = Append(s.chan, e)
      <4>1. \A S, x : IsSeq(S) => S \o <<x>> = Append(S, x)
        <5>1. ASSUME NEW S, NEW x, IsSeq(S) PROVE S \o <<x>> = Append(S, x)
          <6>1. S \in Seq(Range(S) \cup {x}) /\ x \in Range(S) \cup {x}
              BY <5>1, SeqMonotonic DEF IsSeq
          <6> QED
              BY <6>1, AppendIsConcat
        <5> QED
            BY <5>1
      <4> QED
          BY <4>1, <3>1, <2>2, <2>4, <1>2, <1>4
    <3>3. Delivered(r) /\ IsSeq(r.said)
        BY <3>2, <2>1, <1>2, <1>4, SaidDelivered
    <3>4. StreamTypes(r)
        BY <3>2, <3>3, <2>1, <2>2, <1>2, <1>4, AppendIsSeq DEF StreamTypes
    <3>5. r.here => r.cut = 0 /\ Flows(r)
      <4> SUFFICES ASSUME r.here PROVE r.cut = 0 /\ Flows(r)
          OBVIOUS
      <4>1. s.here /\ s.cut = 0 /\ Flows(s)
          BY <2>1, <1>2, <1>4 DEF StreamOk
      <4>2. Depth(c) \in Nat /\ Depth(c) > 0
          BY <2>1, SeqFacts DEF Depth, StreamTypes, s
      <4>3. ~deaf
          BY <4>1, <4>2, NobodyIsDeaf DEF s, deaf
      <4>4. r.chan = Append(s.chan, e)
          BY <4>3, <3>2, <1>2, <1>4
      <4> QED
          BY <4>1, <4>4, <3>2, <2>1, <1>2, <1>4, SaidFlows
    <3> QED
        BY <3>3, <3>4, <3>5, <2>1, <1>2, <1>4 DEF StreamOk, StreamPlaces, Unopened
  <2> QED
      BY <2>3, <2>4, <1>2
<1>6. r.kind = call[c].kind /\ Moves(c, r)
    BY <1>2, <1>4 DEF s
<1> QED
    BY <1>5, <1>6, StreamOfOne

\* A level that says nothing more, and a stream that is over: the client has all of it
\* when the channel it reads is the only one and empty.
LEMMA EndStream ==
    ASSUME IInv, StreamsInv, NEW c \in Callers, ReadEnd(c) \/ StreamOver(c) PROVE StreamsInv'
<1> USE DEF Unopened, StreamPlaces, SameStream
<1>0. DOMAIN call[c] = CallFields /\ DOMAIN call = Callers /\ call[c].pc \in {"read", "ended"}
    BY DEF IInv, TypeInv, ReadEnd, StreamOver
<1>1. Streams(c) => call[c].level \in Nat
    BY DEF StreamsInv, StreamOk
<1>2. ASSUME NEW pc \in {"ended", "gone"}, call' = [call EXCEPT ![c].pc = pc] PROVE StreamsInv'
  <2>1. Moves(c, call'[c]) /\ call'[c].kind = call[c].kind /\ call'[c].pc = pc
        /\ SameStream(call[c], call'[c]) /\ call'[c].level = call[c].level
        /\ call'[c].answer = call[c].answer
      BY <1>0, <1>2 DEF Moves, CallFields
  <2> QED
      BY <2>1, <1>1, <1>2, PlainStream
<1>3. ASSUME Streams(c), call[c].below = <<>>, call[c].here, call[c].chan = <<>>,
             call' = [call EXCEPT ![c].pc = "answered"]
      PROVE  StreamsInv'
  <2>1. Moves(c, call'[c]) /\ call'[c].kind = call[c].kind /\ call'[c].pc = "answered"
        /\ SameStream(call[c], call'[c]) /\ call'[c].level = call[c].level
        /\ call'[c].answer = call[c].answer
      BY <1>0, <1>3 DEF Moves, CallFields
  <2>2. StreamOk(call[c]) /\ StreamTypes(call[c]) /\ Flows(call[c])
      BY <1>3 DEF StreamsInv, StreamOk
  <2>3. Len(call[c].delivered) = Len(call[c].said)
    <3>1. PICK p \in [0..(Len(call[c].below) + 1) -> 0..Len(call[c].said)] : InOrder(call[c], p)
        BY <2>2 DEF Flows
    <3>2. Len(call[c].below) = 0 /\ Chan(call[c], 1) = <<>>
        BY <1>3 DEF Chan
    <3>3. p[0] = Len(call[c].delivered) /\ p[1] = Len(call[c].said)
        BY <3>1, <3>2 DEF InOrder
    <3>4. p[0 + 1] = p[0] + Len(Chan(call[c], 0 + 1))
        BY <3>1, <3>2, InOrderAt
    <3>5. Len(call[c].delivered) \in Nat
        BY <2>2, SeqFacts DEF StreamTypes
    <3>6. Len(Chan(call[c], 1)) = 0 /\ p[1] = p[0] + Len(Chan(call[c], 1))
      <4>1. 0 + 1 = 1
          OBVIOUS
      <4>2. p[1] = p[0] + Len(Chan(call[c], 1))
          BY ONLY <4>1, <3>4, Zenon
      <4>3. Len(Chan(call[c], 1)) = 0
          BY <3>2
      <4> QED
          BY <4>2, <4>3
    <3>7. p[1] = Len(call[c].delivered) + 0
        BY <3>3, <3>6, Zenon
    <3>8. Len(call[c].delivered) + 0 = Len(call[c].delivered)
        BY <3>5
    <3> QED
        BY <3>3, <3>7, <3>8, Zenon
  <2>4. StreamOk(call'[c])
      BY <2>1, <2>2, <2>3, <1>1, <1>3, StreamKept
  <2> QED
      BY <2>1, <2>4, StreamOfOne
<1> QED
    BY <1>2, <1>3 DEF ReadEnd, StreamOver

\* The level above reads on, from the channel it had.
LEMMA ResumeStream ==
    ASSUME IInv, StreamsInv, NEW c \in Callers, Resume(c) PROVE StreamsInv'
<1> DEFINE s == call[c]
           r == call'[c]
<1>0. DOMAIN call[c] = CallFields /\ DOMAIN call = Callers
    BY DEF IInv, TypeInv
<1>1. /\ Moves(c, r) /\ r.kind = s.kind /\ r.pc = "read" /\ r.level = s.level
      /\ r.answer = s.answer /\ r.said = s.said /\ r.delivered = s.delivered
      /\ r.cut = s.cut /\ r.here = s.here
      /\ r.chan = s.below[Len(s.below)].chan /\ r.below = Front(s.below)
      /\ Len(s.below) > 0 /\ s.chan = <<>>
    BY <1>0 DEF Resume, Moves, CallFields
<1>2. ASSUME Streams(c) PROVE StreamOk(r)
  <2> HIDE DEF r
  <2>1. StreamOk(s) /\ StreamTypes(s) /\ Delivered(s) /\ s.level \in Nat
      BY <1>2 DEF StreamsInv, StreamOk
  <2> HIDE DEF s
  <2>2. /\ IsSeq(r.below) /\ Len(s.below) \in Nat /\ Len(r.below) = Len(s.below) - 1
        /\ \A i \in 1..Len(r.below) : r.below[i] = s.below[i]
    <3>1. IsSeq(s.below) /\ Len(s.below) \in Nat
        BY <2>1, SeqFacts DEF StreamTypes
    <3>2. IsSeq(r.below) /\ Len(r.below) = Len(s.below) - 1
        BY <3>1, <1>1, FrontIsSeq
    <3>3. \A i \in 1..(Len(s.below) - 1) : r.below[i] = s.below[i]
        BY <3>1, <1>1, FrontIsSeq
    <3> QED
        BY <3>1, <3>2, <3>3
  <2>3. StreamTypes(r)
      BY <2>1, <2>2, <1>1 DEF StreamTypes
  <2>4. Delivered(r)
      BY <2>1, <1>1 DEF Delivered
  <2>5. r.here => r.cut = 0 /\ Flows(r)
      BY <2>1, <1>1, ResumedFlows DEF StreamOk
  <2> QED
      BY <2>1, <2>3, <2>4, <2>5, <1>1 DEF StreamOk, StreamPlaces, Unopened
<1> HIDE DEF r
<1> QED
    BY <1>1, <1>2, StreamOfOne

\* The engine answered: the first level opens a stream of nothing, the next ones put a
\* new channel before the others; where it fails the level above is told.
LEMMA OpenStreamStream ==
    ASSUME IInv, StreamsInv, NEW c \in Callers, OpenStream(c) PROVE StreamsInv'
<1> DEFINE s == call[c]
           r == call'[c]
           deaf == Deaf(c, Depth(c))
           b == [chunks |-> call[c].chunks, states |-> call[c].states, chan |-> call[c].chan]
<1>0. DOMAIN call[c] = CallFields /\ DOMAIN call = Callers /\ Streams(c) /\ call[c].pc = "infer"
      /\ StreamOk(s) /\ StreamTypes(s) /\ Delivered(s) /\ s.level \in Nat
    BY DEF IInv, TypeInv, OpenStream, StreamsInv, StreamOk
<1>1. CASE call[c].level = 0 /\ call' = Status500(c)
    BY <1>1, AnswerStream DEF Status500, NoAnswer
<1>2. CASE /\ call[c].level # 0
           /\ call' = [call EXCEPT ![c].pc = "ended", ![c].said = Append(@, None),
                                   ![c].chan = IF Deaf(c, Depth(c)) THEN @ ELSE Append(@, Failure)]
  <2>1. /\ Moves(c, r) /\ r.kind = s.kind /\ r.pc = "ended" /\ r.level = s.level
        /\ r.answer = s.answer /\ r.delivered = s.delivered /\ r.below = s.below
        /\ r.cut = s.cut /\ r.here = s.here
        /\ r.said = Append(s.said, None) /\ r.chan = IF deaf THEN s.chan ELSE Append(s.chan, Failure)
      BY <1>0, <1>2 DEF Moves, CallFields
  <2> HIDE DEF r, deaf
  <2>2. Delivered(r) /\ IsSeq(r.said)
      BY <2>1, <1>0, SaidDelivered
  <2>3. StreamTypes(r)
      BY <2>1, <2>2, <1>0, AppendIsSeq DEF StreamTypes
  <2>4. r.here => r.cut = 0 /\ Flows(r)
    <3> SUFFICES ASSUME r.here PROVE r.cut = 0 /\ Flows(r)
        OBVIOUS
    <3>1. s.here /\ s.cut = 0 /\ Flows(s)
        BY <2>1, <1>0 DEF StreamOk
    <3>2. Depth(c) \in Nat /\ Depth(c) > 0
        BY <1>0, SeqFacts DEF Depth, StreamTypes
    <3>3. ~deaf
        BY <3>1, <3>2, NobodyIsDeaf DEF deaf
    <3>4. r.chan = Append(s.chan, Failure) /\ Failure.content = None
        BY <3>3, <2>1 DEF Failure
    <3>5. r.said = Append(s.said, Failure.content)
        BY <3>4, <2>1
    <3> HIDE DEF s
    <3> QED
        BY <3>1, <3>4, <3>5, <2>1, <1>0, SaidFlows
  <2>5. StreamOk(r)
      BY <2>1, <2>2, <2>3, <2>4, <1>0 DEF StreamOk, StreamPlaces, Unopened
  <2> QED
      BY <2>1, <2>5, StreamOfOne
<1>3. CASE \E script : call' = [call EXCEPT ![c] =
                     [@ EXCEPT !.pc = "read", !.guard = "none", !.answer.status = "200",
                               !.chunks = ChunksOf(Model(c), script), !.states = <<>>, !.chan = <<>>,
                               !.below = IF call[c].level = 0 THEN <<>>
                                         ELSE Append(call[c].below, b)]]
  <2>1. /\ Moves(c, r) /\ r.kind = s.kind /\ r.pc = "read" /\ r.level = s.level
        /\ r.delivered = s.delivered /\ r.said = s.said /\ r.cut = s.cut /\ r.here = s.here
        /\ r.chan = <<>> /\ r.below = IF s.level = 0 THEN <<>> ELSE Append(s.below, b)
      BY <1>0, <1>3 DEF Moves, CallFields
  <2>2. b.chan = s.chan /\ DOMAIN b = {"chunks", "states", "chan"}
      OBVIOUS
  <2> HIDE DEF r, s, b
  <2>3. CASE s.level = 0
    <3>1. r.said = <<>> /\ r.chan = <<>> /\ r.below = <<>> /\ r.delivered = <<>>
        BY <2>1, <2>3, <1>0 DEF StreamOk, Unopened, s
    <3>2. StreamTypes(r) /\ Flows(r) /\ Delivered(r)
        BY <3>1, EmptyFlows
    <3> QED
        BY <3>2, <2>1, <1>0, StreamOfOne DEF StreamOk, StreamPlaces, Unopened, s
  <2>4. CASE s.level # 0
    <3>1. r.below = Append(s.below, b)
        BY <2>1, <2>4
    <3>2. /\ IsSeq(s.below) /\ Len(s.below) \in Nat /\ IsSeq(r.below) /\ IsSeq(s.chan)
          /\ Len(r.below) = Len(s.below) + 1 /\ r.below[Len(s.below) + 1] = b
          /\ \A i \in 1..Len(s.below) : r.below[i] = s.below[i]
        BY <3>1, <1>0, SeqFacts, AppendIsSeq DEF StreamTypes
    <3>3. StreamTypes(r)
      <4>1. ASSUME NEW k \in 1..Len(r.below)
            PROVE  DOMAIN r.below[k] = {"chunks", "states", "chan"} /\ IsSeq(r.below[k].chan)
        <5>1. CASE k = Len(s.below) + 1
            BY <5>1, <3>2, <2>2
        <5>2. CASE k \in 1..Len(s.below)
            BY <5>2, <3>2, <1>0 DEF StreamTypes
        <5> QED
            BY <5>1, <5>2, <3>2
      <4>2. IsSeq(r.delivered) /\ IsSeq(r.said) /\ IsSeq(r.chan)
          BY <2>1, <1>0, EmptyIsSeq DEF StreamTypes
      <4> QED
          BY <4>1, <4>2, <3>2 DEF StreamTypes
    <3>4. Delivered(r)
        BY <2>1, <1>0 DEF Delivered
    <3>5. r.here => r.cut = 0 /\ Flows(r)
        BY <3>1, <2>1, <2>2, <1>0, OpenedFlows DEF StreamOk
    <3>6. StreamOk(r)
        BY <3>3, <3>4, <3>5, <2>1, <1>0 DEF StreamOk, StreamPlaces, Unopened
    <3> QED
        BY <3>6, <2>1, StreamOfOne DEF s
  <2> QED
      BY <2>3, <2>4
<1>4. \/ call[c].level = 0 /\ call' = Status500(c)
      \/ /\ call[c].level # 0
         /\ call' = [call EXCEPT ![c].pc = "ended", ![c].said = Append(@, None),
                                 ![c].chan = IF Deaf(c, Depth(c)) THEN @ ELSE Append(@, Failure)]
      \/ \E script : call' = [call EXCEPT ![c] =
                     [@ EXCEPT !.pc = "read", !.guard = "none", !.answer.status = "200",
                               !.chunks = ChunksOf(Model(c), script), !.states = <<>>, !.chan = <<>>,
                               !.below = IF call[c].level = 0 THEN <<>>
                                         ELSE Append(call[c].below, b)]]
    BY DEF OpenStream
<1> QED
    BY ONLY <1>1, <1>2, <1>3, <1>4, Zenon

\* One channel of a stream has other events, and nothing else changes.
Refilled(s, t, k, x) ==
    /\ DOMAIN t = CallFields /\ StreamTypes(t) /\ Len(t.below) = Len(s.below) /\ Chan(t, k) = x
    /\ \A j \in 1..(Len(s.below) + 1) : j # k => Chan(t, j) = Chan(s, j)
    /\ t.said = s.said /\ t.delivered = s.delivered /\ t.cut = s.cut /\ t.here = s.here
    /\ t.kind = s.kind /\ t.pc = s.pc /\ t.level = s.level /\ t.answer = s.answer

\* The channel of the innermost level.
LEMMA InnerRefilled ==
    ASSUME NEW s, DOMAIN s = CallFields, StreamTypes(s), NEW x, IsSeq(x)
    PROVE  Refilled(s, [s EXCEPT !.chan = x], Len(s.below) + 1, x)
<1> DEFINE t == [s EXCEPT !.chan = x]
<1>1. /\ DOMAIN t = CallFields /\ t.chan = x /\ t.below = s.below
      /\ t.said = s.said /\ t.delivered = s.delivered /\ t.cut = s.cut /\ t.here = s.here
      /\ t.kind = s.kind /\ t.pc = s.pc /\ t.level = s.level /\ t.answer = s.answer
    BY DEF CallFields
<1> HIDE DEF t
<1>2. Len(s.below) \in Nat
    BY SeqFacts DEF StreamTypes
<1>3. StreamTypes(t)
    BY <1>1 DEF StreamTypes
<1>4. /\ Chan(t, Len(s.below) + 1) = x
      /\ \A j \in 1..(Len(s.below) + 1) : j # Len(s.below) + 1 => Chan(t, j) = Chan(s, j)
    BY <1>1, <1>2 DEF Chan
<1>5. Refilled(s, t, Len(s.below) + 1, x)
    BY <1>1, <1>3, <1>4 DEF Refilled
<1> QED
    BY <1>5 DEF t

\* The channel of a level that waits.
LEMMA OuterRefilled ==
    ASSUME NEW s, DOMAIN s = CallFields, StreamTypes(s), NEW k \in 1..Len(s.below), NEW x, IsSeq(x)
    PROVE  Refilled(s, [s EXCEPT !.below[k].chan = x], k, x)
<1> DEFINE t == [s EXCEPT !.below[k].chan = x]
           b == [s.below[k] EXCEPT !.chan = x]
<1>1. /\ DOMAIN t = CallFields /\ t.chan = s.chan /\ t.below = [s.below EXCEPT ![k] = b]
      /\ t.said = s.said /\ t.delivered = s.delivered /\ t.cut = s.cut /\ t.here = s.here
      /\ t.kind = s.kind /\ t.pc = s.pc /\ t.level = s.level /\ t.answer = s.answer
    BY DEF CallFields
<1>2. DOMAIN b = {"chunks", "states", "chan"} /\ b.chan = x
    BY DEF StreamTypes
<1> HIDE DEF t, b
<1>3. /\ Len(s.below) \in Nat /\ IsSeq(t.below) /\ Len(t.below) = Len(s.below)
      /\ \A i \in 1..Len(s.below) : t.below[i] = IF i = k THEN b ELSE s.below[i]
  <2>1. IsSeq(s.below) /\ Len(s.below) \in Nat
      BY SeqFacts DEF StreamTypes
  <2>2. IsSeq(t.below) /\ Len(t.below) = Len(s.below)
    <3>1. /\ IsSeq([s.below EXCEPT ![k] = b])
          /\ Len([s.below EXCEPT ![k] = b]) = Len(s.below)
        BY <2>1, ExceptIsSeq, Zenon
    <3> QED
        BY <3>1, <1>1, Zenon
  <2>3. \A i \in 1..Len(s.below) : t.below[i] = IF i = k THEN b ELSE s.below[i]
      BY <2>1, <1>1, ExceptIsSeq
  <2> QED
      BY <2>1, <2>2, <2>3
<1>4. StreamTypes(t)
  <2>1. ASSUME NEW i \in 1..Len(t.below)
        PROVE  DOMAIN t.below[i] = {"chunks", "states", "chan"} /\ IsSeq(t.below[i].chan)
    <3>1. CASE i = k
        BY <3>1, <1>2, <1>3
    <3>2. CASE i # k
        BY <3>2, <1>3 DEF StreamTypes
    <3> QED
        BY <3>1, <3>2
  <2> QED
      BY <2>1, <1>1, <1>3 DEF StreamTypes
<1>5. /\ Chan(t, k) = x
      /\ \A j \in 1..(Len(s.below) + 1) : j # k => Chan(t, j) = Chan(s, j)
    BY <1>1, <1>2, <1>3 DEF Chan
<1>6. Refilled(s, t, k, x)
    BY <1>1, <1>3, <1>4, <1>5 DEF Refilled
<1> QED
    BY <1>6 DEF t

\* An event goes from one channel to the one before it; when nobody listens there it is
\* dropped, and so is the client.
LEMMA ForwardStream ==
    ASSUME IInv, StreamsInv, NEW c \in Callers, NEW k \in 1..Len(call[c].below), Forward(c, k)
    PROVE  StreamsInv'
<1> DEFINE s == call[c]
           r == call'[c]
           into == ChannelInto(c, k)
           t == IF k = Len(call[c].below) THEN [call[c] EXCEPT !.chan = Tail(ChannelInto(c, k))]
                ELSE [call[c] EXCEPT !.below[k + 1].chan = Tail(ChannelInto(c, k))]
           x == Append(call[c].below[k].chan, Head(ChannelInto(c, k)))
<1>0. DOMAIN call[c] = CallFields /\ DOMAIN call = Callers
    BY SMTT(30) DEF IInv, TypeInv
<1>1. /\ s.pc # "answered" /\ into # <<>>
      /\ \/ Deaf(c, k) /\ call' = [call EXCEPT ![c] = [t EXCEPT !.cut = k]]
         \/ ~Deaf(c, k) /\ call' = [call EXCEPT ![c] = [t EXCEPT !.below[k].chan = x]]
    BY DEF Forward, Over
<1>2. DOMAIN t = CallFields /\ t.kind = s.kind
    BY <1>0 DEF CallFields
<1> HIDE DEF t, x
<1>3. Moves(c, r) /\ r.kind = s.kind
    BY <1>0, <1>1, <1>2 DEF Moves, CallFields
<1>4. ASSUME Streams(c) PROVE StreamOk(r)
  <2>1. StreamOk(s) /\ StreamTypes(s) /\ Delivered(s) /\ s.level \in Nat
      BY <1>4 DEF StreamsInv, StreamOk
  <2>2. Len(s.below) \in Nat /\ k \in Nat /\ k > 0 /\ s.below # <<>>
      BY <2>1, SeqFacts DEF StreamTypes
  <2>3. ~Unopened(s) /\ s.pc \in StreamPlaces
      BY <2>1, <2>2 DEF StreamOk
  <2>4. into = Chan(s, k + 1) /\ s.below[k].chan = Chan(s, k)
      BY <2>2 DEF ChannelInto, Chan
  <2>5. IsSeq(into) /\ IsSeq(s.below[k].chan)
      BY <2>1, <2>2, <2>4, ChanIsSeq
  <2>6. IsSeq(Tail(into)) /\ IsSeq(x)
      BY <2>5, <1>1, TailIsSeq, AppendIsSeq DEF x
  <2>7. Refilled(s, t, k + 1, Tail(into))
    <3>1. CASE k = Len(s.below)
        BY <3>1, <2>1, <2>6, <1>0, InnerRefilled DEF t
    <3>2. CASE k # Len(s.below)
      <4>1. k + 1 \in 1..Len(s.below)
          BY <3>2, <2>2
      <4> QED
          BY <4>1, <3>2, <2>1, <2>6, <1>0, OuterRefilled DEF t
    <3> QED
        BY <3>1, <3>2
  <2> HIDE DEF s, into
  <2>8. CASE Deaf(c, k) /\ call' = [call EXCEPT ![c] = [t EXCEPT !.cut = k]]
    <3>1. r = [t EXCEPT !.cut = k]
        BY <2>8, <1>0
    <3> HIDE DEF r
    <3>2. /\ r.chan = t.chan /\ r.below = t.below /\ r.said = t.said /\ r.delivered = t.delivered
          /\ r.here = t.here /\ r.pc = t.pc /\ r.level = t.level /\ r.answer = t.answer
        BY <3>1, <1>2 DEF CallFields
    <3>3. ~r.here
        BY <3>2, <2>1, <2>2, <2>7, <2>8, NobodyIsDeaf DEF StreamOk, Refilled, s
    <3>4. StreamTypes(r) /\ Delivered(r)
        BY <3>2, <2>1, <2>7 DEF Refilled, StreamTypes, Delivered
    <3> QED
        BY <3>2, <3>3, <3>4, <2>1, <2>3, <2>7, <1>1 DEF StreamOk, Refilled, Unopened, s
  <2>9. CASE ~Deaf(c, k) /\ call' = [call EXCEPT ![c] = [t EXCEPT !.below[k].chan = x]]
    <3>1. r = [t EXCEPT !.below[k].chan = x]
        BY <2>9, <1>0
    <3> HIDE DEF r
    <3>2. StreamTypes(t) /\ k \in 1..Len(t.below)
        BY <2>7 DEF Refilled, s
    <3>3. Refilled(t, r, k, x)
        BY <3>1, <3>2, <2>6, <1>2, OuterRefilled
    <3>4. StreamTypes(r) /\ Delivered(r) /\ Len(r.below) = Len(s.below)
        BY <3>3, <2>1, <2>7 DEF Refilled, Delivered
    <3>5. r.here => r.cut = 0 /\ Flows(r)
      <4> SUFFICES ASSUME r.here PROVE r.cut = 0 /\ Flows(r)
          OBVIOUS
      <4>1. s.cut = 0 /\ Flows(s) /\ r.cut = 0
          BY <3>3, <2>1, <2>7 DEF StreamOk, Refilled
      <4>2. Chan(r, k) = Append(Chan(s, k), Head(Chan(s, k + 1)))
          BY <3>3, <2>4 DEF Refilled, x, s, into
      <4>3. k + 1 \in 1..(Len(t.below) + 1) /\ k + 1 # k
          BY <3>2, <2>2, <2>7 DEF Refilled
      <4>4. Chan(r, k + 1) = Tail(Chan(s, k + 1))
          BY <4>3, <3>3, <2>4, <2>7 DEF Refilled
      <4>5. \A j \in 1..(Len(s.below) + 1) : j # k /\ j # k + 1 => Chan(r, j) = Chan(s, j)
          BY <3>3, <2>7 DEF Refilled
      <4>6. r.said = s.said /\ r.delivered = s.delivered /\ Chan(s, k + 1) # <<>>
            /\ k \in 1..Len(s.below)
          BY <3>3, <2>4, <2>7, <1>1 DEF Refilled, s
      <4> QED
          BY <4>1, <4>2, <4>4, <4>5, <4>6, <3>4, <2>1, ForwardedFlows
    <3> QED
        BY <3>3, <3>4, <3>5, <2>1, <2>3, <2>7, <1>1 DEF StreamOk, Refilled, Unopened, s
  <2> QED
      BY ONLY <2>8, <2>9, <1>1, Zenon
<1> HIDE DEF r
<1> QED
    BY <1>3, <1>4, StreamOfOne

\* The client reads the next event of the outermost channel.
LEMMA ReadEventStream ==
    ASSUME IInv, StreamsInv, NEW c \in Callers, ReadEvent(c) PROVE StreamsInv'
<1> DEFINE s == call[c]
           r == call'[c]
           out == Outermost(c)
           t == IF call[c].below = <<>> THEN [call[c] EXCEPT !.chan = Tail(Outermost(c))]
                ELSE [call[c] EXCEPT !.below[1].chan = Tail(Outermost(c))]
<1>0. DOMAIN call[c] = CallFields /\ DOMAIN call = Callers
    BY DEF IInv, TypeInv
<1>1. /\ s.pc # "answered" /\ s.here /\ s.answer.status = "200" /\ out # <<>>
      /\ call' = [call EXCEPT ![c] =
                    [t EXCEPT !.delivered = Append(call[c].delivered, Head(out)),
                              !.here = ~Head(out).error]]
    BY DEF ReadEvent, Over
<1>2. DOMAIN t = CallFields /\ t.kind = s.kind
    BY <1>0 DEF CallFields
<1> HIDE DEF t
<1>3. Moves(c, r) /\ r.kind = s.kind
    BY <1>0, <1>1, <1>2 DEF Moves, CallFields
<1>4. ASSUME Streams(c) PROVE StreamOk(r)
  <2>1. StreamOk(s) /\ StreamTypes(s) /\ Delivered(s) /\ s.level \in Nat /\ s.cut = 0 /\ Flows(s)
      BY <1>1, <1>4 DEF StreamsInv, StreamOk
  <2>2. Len(s.below) \in Nat /\ (s.below = <<>> <=> Len(s.below) = 0)
      BY <2>1, SeqFacts, EmptySeq DEF StreamTypes, IsSeq
  <2>3. ~Unopened(s) /\ s.pc \in StreamPlaces
      BY <2>1, <1>1, CasesAssumption DEF StreamOk
  <2>4. out = Chan(s, 1)
      BY <2>2 DEF Outermost, Chan
  <2>5. IsSeq(out)
      BY <2>1, <2>2, <2>4, ChanIsSeq
  <2>6. IsSeq(Tail(out))
      BY <2>5, <1>1, TailIsSeq
  <2>7. Refilled(s, t, 1, Tail(out))
    <3>1. CASE s.below = <<>>
      <4>1. Refilled(s, t, Len(s.below) + 1, Tail(out))
          BY <3>1, <2>1, <2>6, <1>0, InnerRefilled DEF t
      <4>2. Len(s.below) + 1 = 1
          BY <3>1
      <4> QED
          BY ONLY <4>1, <4>2, Zenon
    <3>2. CASE s.below # <<>>
      <4>1. 1 \in 1..Len(s.below)
          BY <3>2, <2>2
      <4> QED
          BY <4>1, <3>2, <2>1, <2>6, <1>0, OuterRefilled DEF t
    <3> QED
        BY <3>1, <3>2
  <2>8. r = [t EXCEPT !.delivered = Append(s.delivered, Head(out)), !.here = ~Head(out).error]
      BY <1>0, <1>1
  <2> HIDE DEF r, s, out
  <2>9. /\ r.chan = t.chan /\ r.below = t.below /\ r.said = t.said /\ r.cut = t.cut
        /\ r.pc = t.pc /\ r.level = t.level /\ r.answer = t.answer
        /\ r.delivered = Append(s.delivered, Head(out))
      BY <2>8, <1>2 DEF CallFields
  <2>10. \A j : Chan(r, j) = Chan(t, j)
      BY <2>9 DEF Chan
  <2>11. StreamTypes(r)
    <3>1. IsSeq(r.delivered)
        BY <2>1, <2>9, AppendIsSeq DEF StreamTypes
    <3> QED
        BY <3>1, <2>7, <2>9 DEF Refilled, StreamTypes
  <2>12. Flows(r) /\ Delivered(r) /\ r.cut = 0
    <3>1. r.said = s.said /\ Len(r.below) = Len(s.below) /\ r.cut = 0
        BY <2>1, <2>7, <2>9 DEF Refilled
    <3>2. r.delivered = Append(s.delivered, Head(Chan(s, 1))) /\ Chan(r, 1) = Tail(Chan(s, 1))
        BY <2>4, <2>7, <2>9, <2>10 DEF Refilled
    <3>3. \A j \in 2..(Len(s.below) + 1) : Chan(r, j) = Chan(s, j)
        BY <2>2, <2>7, <2>10 DEF Refilled
    <3>4. Chan(s, 1) # <<>>
        BY <2>4, <1>1
    <3> QED
        BY <3>1, <3>2, <3>3, <3>4, <2>1, ReadFlows
  <2> QED
      BY <2>1, <2>3, <2>7, <2>9, <2>11, <2>12, <1>1 DEF StreamOk, Refilled, Unopened, s
<1> HIDE DEF r
<1> QED
    BY <1>3, <1>4, StreamOfOne

\* A streamed chat begins with nothing said.
LEMMA InitStreams == Init => StreamsInv
<1>1. SUFFICES ASSUME Init, NEW c \in Callers, Streams(c) PROVE StreamOk(call[c])
    BY DEF StreamsInv
<1>2. PICK case \in Cases :
          call = [d \in Callers |->
                     NewCall(IF d \in DOMAIN case.asks THEN case.asks[d] ELSE NoAsk)]
    BY <1>1 DEF Init
<1> DEFINE ask == IF c \in DOMAIN case.asks THEN case.asks[c] ELSE NoAsk
<1>3. call[c] = NewCall(ask)
    BY <1>2
<1>4. ask.kind \in DOMAIN Entries /\ ask.from \in Entries[ask.kind]
    BY CasesAssumption DEF NoAsk, Entries
<1> HIDE DEF ask
<1>5. /\ call[c].kind = ask.kind /\ call[c].pc = ask.from /\ call[c].level = 0
      /\ call[c].answer = NoAnswer /\ call[c].cut = 0 /\ call[c].said = <<>>
      /\ call[c].delivered = <<>> /\ call[c].chan = <<>> /\ call[c].below = <<>>
    BY <1>3 DEF NewCall
<1>6. call[c].pc = "models"
    BY <1>1, <1>4, <1>5 DEF Streams, Entries
<1>7. StreamTypes(call[c]) /\ Flows(call[c]) /\ Delivered(call[c])
    BY <1>5, EmptyFlows
<1> QED
    BY <1>5, <1>6, <1>7 DEF StreamOk, StreamPlaces, Unopened, NoAnswer

\* What is said is neither lost nor reordered by any step.
LEMMA NextStreams == IInv /\ StreamsInv /\ [Next]_vars => StreamsInv'
<1>1. SUFFICES ASSUME IInv, StreamsInv, [Next]_vars PROVE StreamsInv'
    OBVIOUS
<1>2. CASE UNCHANGED call
    BY <1>1, <1>2 DEF StreamsInv, Streams
<1>3. ASSUME NEW c \in Callers, SqlStep(c) PROVE StreamsInv'
    BY <1>1, <1>3, SqlStream
<1>4. ASSUME NEW c \in Callers, ChatStep(c) PROVE StreamsInv'
    BY <1>1, <1>4, ToModelStream, ToolsStream, ReplyStream, OpenStreamStream DEF ChatStep
<1>5. ASSUME NEW c \in Callers, StreamStep(c) PROVE StreamsInv'
    BY <1>1, <1>5, ReadChunkStream, EndStream, ResumeStream, ForwardStream DEF StreamStep
<1>6. ASSUME NEW c \in Callers, ReadEvent(c) \/ Leave(c) PROVE StreamsInv'
    BY <1>1, <1>6, ReadEventStream, LeaveStream
<1>7. ASSUME \/ \E c \in Callers : QueryStep(c) /\ UNCHANGED callVars
             \/ \E sql \in cached : Invalidate(sql) /\ UNCHANGED callVars
             \/ ExportSpans /\ UNCHANGED callVars
             \/ WatcherTakesApp \/ WatcherLoadsModel \/ UNCHANGED vars
      PROVE  UNCHANGED call
    BY <1>7 DEF callVars, vars, WatcherTakesApp, WatcherLoadsModel
<1> QED
    BY <1>1, <1>2, <1>3, <1>4, <1>5, <1>6, <1>7 DEF Next

\* A client that reads a streamed chat gets what the model says at all levels in the order
\* it was said, nothing twice and nothing left out, and all of it if the stream ends without
\* an error: by Flows the channels from the client to the innermost level hold, one after
\* the other, what was said and not delivered yet, whichever of them forward first.
THEOREM StreamDeliversHolds == Spec => []StreamDelivers
<1>1. StreamsInv => StreamDelivers
  <2>1. SUFFICES ASSUME StreamsInv, NEW c \in Callers, Streams(c)
                 PROVE  /\ IsPrefix(Contents(call[c].delivered), call[c].said)
                        /\ call[c].pc = "answered" /\ call[c].answer.status = "200" =>
                              Contents(call[c].delivered) = call[c].said
      BY DEF StreamDelivers
  <2> DEFINE s == call[c].said
             d == call[c].delivered
             t == Contents(d)
  <2>2. StreamOk(call[c]) /\ IsSeq(s) /\ IsSeq(d) /\ Delivered(call[c])
      BY <2>1 DEF StreamsInv, StreamOk, StreamTypes
  <2>3. /\ Len(s) \in Nat /\ Len(d) \in Nat /\ Len(d) <= Len(s)
        /\ DOMAIN s = 1..Len(s) /\ DOMAIN d = 1..Len(d)
        /\ \A i \in 1..Len(d) : d[i].content = s[i]
        /\ s = [i \in 1..Len(s) |-> s[i]]
      BY <2>2, SeqFacts DEF Delivered
  <2>4. call[c].pc = "answered" /\ call[c].answer.status = "200" => Len(d) = Len(s)
      BY <2>2 DEF StreamOk
  <2>5. t = [i \in 1..Len(d) |-> s[i]]
      BY <2>3 DEF Contents
  <2> HIDE DEF s, d, t
  <2>6. Len(t) = Len(d)
      BY <2>3, <2>5
  <2>7. SubSeq(t, 1, Len(d)) = SubSeq(s, 1, Len(d))
      BY <2>3, <2>5, <2>6
  <2>8. IsPrefix(t, s)
      BY <2>3, <2>6, <2>7 DEF IsPrefix
  <2>9. Len(d) = Len(s) => t = s
      BY <2>3, <2>5
  <2> QED
      BY <2>4, <2>8, <2>9 DEF s, d, t
<1> QED
    BY <1>1, InitStreams, NextStreams, ServingInvariance, PTL DEF Spec

(***************************************************************************)
(* Numbers, and sequences of sequences                                     *)
(***************************************************************************)

\* Some member of a set of numbers is the least.
LEMMA LeastMember ==
    ASSUME NEW S \in SUBSET Nat, S # {}
    PROVE  \E m \in S : \A k \in S : m <= k
<1>1. PICK m \in S : \A k \in S : ~(<<k, m>> \in OpToRel(<, Nat))
    BY NatLessThanWellFounded, WFMin
<1>2. ASSUME NEW k \in S
      PROVE  m <= k
    <2>1. <<k, m>>[1] < <<k, m>>[2] => <<k, m>> \in OpToRel(<, Nat)
        BY Zenon DEF OpToRel
    <2>2. ~(k < m)
        BY <1>1, <2>1
    <2> QED
        BY <2>2
<1> QED
    BY <1>2

\* A set with zero and the successor of each of its numbers has all of them.
LEMMA AllNumbers ==
    ASSUME NEW S, 0 \in S, \A n \in Nat : n \in S => n + 1 \in S
    PROVE  \A n \in Nat : n \in S
<1> DEFINE others == Nat \ S
<1>1. SUFFICES ASSUME others # {}
               PROVE  FALSE
    OBVIOUS
<1>2. PICK m \in others : \A k \in others : m <= k
    BY <1>1, LeastMember
<1>3. m \in Nat /\ m # 0 /\ m - 1 \in Nat /\ (m - 1) + 1 = m
    BY <1>2
<1>4. m - 1 \in S
    BY <1>2, <1>3
<1> QED
    BY <1>2, <1>3, <1>4

\* The recursion of FlattenSeq, up to k.
IsFlat(ss, k, f) == f = [i \in 1..k |-> IF i = 1 THEN ss[i] ELSE f[i - 1] \o ss[i]]

\* It has a solution.
LEMMA FlatExists ==
    ASSUME NEW ss, NEW n \in Nat
    PROVE  \E f : IsFlat(ss, n, f)
<1> DEFINE Has == {k \in Nat : \E f : IsFlat(ss, k, f)}
<1>1. 0 \in Has
    <2> DEFINE f == [i \in 1..0 |-> ss[i]]
               g == [i \in 1..0 |-> IF i = 1 THEN ss[i] ELSE f[i - 1] \o ss[i]]
    <2>1. f = g
        OBVIOUS
    <2> HIDE DEF f
    <2>2. IsFlat(ss, 0, f)
        BY <2>1 DEF IsFlat
    <2> QED
        BY <2>2
<1>2. ASSUME NEW k \in Nat, k \in Has
      PROVE  k + 1 \in Has
    <2>1. PICK f : IsFlat(ss, k, f)
        BY <1>2
    <2> DEFINE g == [i \in 1..(k + 1) |->
                        IF i <= k THEN f[i] ELSE IF i = 1 THEN ss[i] ELSE f[i - 1] \o ss[i]]
    <2>2. \A i \in 1..k : f[i] = IF i = 1 THEN ss[i] ELSE f[i - 1] \o ss[i]
        BY <2>1 DEF IsFlat
    <2>3. ASSUME NEW i \in 1..(k + 1)
          PROVE  g[i] = IF i = 1 THEN ss[i] ELSE g[i - 1] \o ss[i]
        <3>1. CASE i = 1
            <4>1. g[i] = ss[i]
                BY <2>2, <3>1
            <4> HIDE DEF g
            <4> QED
                BY <3>1, <4>1
        <3>2. CASE i # 1
            <4>1. i - 1 \in 1..(k + 1) /\ i - 1 <= k /\ (i <= k => i \in 1..k)
                BY <3>2
            <4>2. g[i - 1] = f[i - 1]
                BY <4>1
            <4>3. g[i] = f[i - 1] \o ss[i]
                BY <2>2, <3>2, <4>1
            <4> HIDE DEF g
            <4> QED
                BY <3>2, <4>2, <4>3
        <3> QED
            BY <3>1, <3>2
    <2>4. g = [i \in 1..(k + 1) |-> g[i]]
        OBVIOUS
    <2> HIDE DEF g
    <2>5. g = [i \in 1..(k + 1) |-> IF i = 1 THEN ss[i] ELSE g[i - 1] \o ss[i]]
        BY <2>3, <2>4
    <2>6. IsFlat(ss, k + 1, g)
        BY <2>5, Zenon DEF IsFlat
    <2> QED
        BY <2>6
<1> HIDE DEF Has
<1>3. n \in Has
    BY <1>1, <1>2, AllNumbers
<1> QED
    BY <1>3 DEF Has

\* Two sequences one after the other.
LEMMA ConcatIs ==
    ASSUME NEW s, IsSeq(s), NEW t, IsSeq(t)
    PROVE  /\ IsSeq(s \o t) /\ Len(s \o t) = Len(s) + Len(t)
           /\ \A i \in 1..(Len(s) + Len(t)) :
                 (s \o t)[i] = IF i <= Len(s) THEN s[i] ELSE t[i - Len(s)]
<1> DEFINE S == Range(s) \cup Range(t)
<1>1. s \in Seq(S) /\ t \in Seq(S)
    BY SeqMonotonic DEF IsSeq
<1>2. /\ s \o t \in Seq(S) /\ Len(s \o t) = Len(s) + Len(t)
      /\ \A i \in 1..(Len(s) + Len(t)) :
            (s \o t)[i] = IF i <= Len(s) THEN s[i] ELSE t[i - Len(s)]
    BY <1>1, ConcatProperties
<1> QED
    BY <1>2, SeqIsSeq

\* What two sequences have at the same place is at the same place of a pair of parts.
Alike(ss, tt, s, t) ==
    /\ IsSeq(s) /\ IsSeq(t) /\ Len(s) = Len(t)
    /\ \A i \in 1..Len(t) : \E b \in DOMAIN tt : \E j \in DOMAIN tt[b] :
          s[i] = ss[b][j] /\ t[i] = tt[b][j]

\* So it is when one more pair of parts is added.
LEMMA AlikeMore ==
    ASSUME NEW ss, NEW tt, NEW s, NEW t, Alike(ss, tt, s, t), NEW b \in DOMAIN tt,
           IsSeq(ss[b]), IsSeq(tt[b]), Len(ss[b]) = Len(tt[b])
    PROVE  Alike(ss, tt, s \o ss[b], t \o tt[b])
<1>1. /\ IsSeq(s) /\ IsSeq(t) /\ Len(s) = Len(t) /\ Len(t) \in Nat
      /\ Len(tt[b]) \in Nat /\ DOMAIN tt[b] = 1..Len(tt[b])
    BY SeqFacts DEF Alike
<1>2. /\ IsSeq(s \o ss[b]) /\ Len(s \o ss[b]) = Len(t) + Len(tt[b])
      /\ \A i \in 1..(Len(t) + Len(tt[b])) :
            (s \o ss[b])[i] = IF i <= Len(t) THEN s[i] ELSE ss[b][i - Len(t)]
    BY <1>1, ConcatIs, SMTT(30)
<1>3. /\ IsSeq(t \o tt[b]) /\ Len(t \o tt[b]) = Len(t) + Len(tt[b])
      /\ \A i \in 1..(Len(t) + Len(tt[b])) :
            (t \o tt[b])[i] = IF i <= Len(t) THEN t[i] ELSE tt[b][i - Len(t)]
    BY <1>1, ConcatIs, SMTT(30)
<1>4. ASSUME NEW i \in 1..(Len(t) + Len(tt[b]))
      PROVE  \E a \in DOMAIN tt : \E j \in DOMAIN tt[a] :
                (s \o ss[b])[i] = ss[a][j] /\ (t \o tt[b])[i] = tt[a][j]
  <2>1. CASE i <= Len(t)
    <3>1. i \in 1..Len(t)
        BY <1>1, <2>1
    <3>2. PICK a \in DOMAIN tt : \E j \in DOMAIN tt[a] : s[i] = ss[a][j] /\ t[i] = tt[a][j]
        BY <3>1 DEF Alike
    <3> QED
        BY <1>2, <1>3, <2>1, <3>2
  <2>2. CASE ~(i <= Len(t))
    <3>1. i - Len(t) \in DOMAIN tt[b]
        BY <1>1, <2>2
    <3> QED
        BY <1>2, <1>3, <2>2, <3>1
  <2> QED
      BY <2>1, <2>2
<1> QED
    BY <1>2, <1>3, <1>4 DEF Alike

\* Sequences of parts of the same lengths are alike when they are flattened.
LEMMA FlattenAlike ==
    ASSUME NEW ss, NEW tt, IsSeq(ss), IsSeq(tt), Len(ss) = Len(tt),
           \A b \in DOMAIN tt : IsSeq(ss[b]) /\ IsSeq(tt[b]) /\ Len(ss[b]) = Len(tt[b])
    PROVE  Alike(ss, tt, FlattenSeq(ss), FlattenSeq(tt))
<1>1. PICK n : n = Len(tt)
    OBVIOUS
<1>2. n \in Nat /\ DOMAIN tt = 1..n /\ DOMAIN ss = 1..n /\ Len(ss) = n
    BY <1>1, SeqFacts
<1>3. CASE n = 0
  <2>1. FlattenSeq(ss) = ss /\ FlattenSeq(tt) = tt
      BY <1>1, <1>2, <1>3 DEF FlattenSeq
  <2> QED
      BY <1>1, <1>2, <1>3, <2>1 DEF Alike
<1>4. CASE n > 0
  <2> DEFINE f == CHOOSE f : IsFlat(ss, n, f)
             g == CHOOSE g : IsFlat(tt, n, g)
  <2>1. IsFlat(ss, n, f)
      BY <1>2, FlatExists
  <2>2. IsFlat(tt, n, g)
      BY <1>2, FlatExists
  <2>3. n # 0
      BY <1>2, <1>4
  <2>4. FlattenSeq(ss) = f[n]
      BY <1>2, <2>3, Zenon DEF FlattenSeq, IsFlat
  <2>5. FlattenSeq(tt) = g[n]
      BY <1>1, <2>3, Zenon DEF FlattenSeq, IsFlat
  <2> HIDE DEF f, g
  <2>6. \A i \in 1..n : f[i] = IF i = 1 THEN ss[i] ELSE f[i - 1] \o ss[i]
      BY <2>1 DEF IsFlat
  <2>7. \A i \in 1..n : g[i] = IF i = 1 THEN tt[i] ELSE g[i - 1] \o tt[i]
      BY <2>2 DEF IsFlat
  <2> DEFINE Good == {k \in Nat : k + 1 \in 1..n => Alike(ss, tt, f[k + 1], g[k + 1])}
  <2>8. 0 \in Good
    <3>1. 0 + 1 = 1 /\ 1 \in 1..n
        BY <1>2, <1>4
    <3>2. f[1] = ss[1] /\ g[1] = tt[1] /\ IsSeq(ss[1]) /\ IsSeq(tt[1]) /\ Len(ss[1]) = Len(tt[1])
        BY <1>2, <2>6, <2>7, <3>1
    <3>3. DOMAIN tt[1] = 1..Len(tt[1])
        BY <3>2, SeqFacts
    <3>4. Alike(ss, tt, ss[1], tt[1])
        BY <1>2, <3>1, <3>2, <3>3 DEF Alike
    <3> QED
        BY <3>1, <3>2, <3>4
  <2>9. ASSUME NEW k \in Nat, k \in Good
        PROVE  k + 1 \in Good
    <3>1. SUFFICES ASSUME k + 2 \in 1..n
                   PROVE  Alike(ss, tt, f[k + 2], g[k + 2])
      <4>1. (k + 1) + 1 = k + 2
          OBVIOUS
      <4> QED
          BY <3>1, <4>1
    <3>2. k + 1 \in 1..n /\ k + 2 # 1 /\ (k + 2) - 1 = k + 1
        BY <1>2, <3>1
    <3>3. Alike(ss, tt, f[k + 1], g[k + 1])
        BY <2>9, <3>2
    <3>4. f[k + 2] = f[k + 1] \o ss[k + 2] /\ g[k + 2] = g[k + 1] \o tt[k + 2]
        BY <2>6, <2>7, <3>1, <3>2
    <3> QED
        BY <1>2, <3>1, <3>3, <3>4, AlikeMore
  <2>10. \A k \in Nat : k \in Good
    <3> HIDE DEF Good
    <3> QED
        BY <2>8, <2>9, AllNumbers
  <2>11. n - 1 \in Nat /\ (n - 1) + 1 = n /\ n \in 1..n
      BY <1>2, <1>4
  <2>12. Alike(ss, tt, f[n], g[n])
      BY <2>10, <2>11
  <2> QED
      BY <2>4, <2>5, <2>12
<1> QED
    BY <1>2, <1>3, <1>4

(***************************************************************************)
(* The embedding table                                                     *)
(***************************************************************************)

\* What is assumed of a dataset.
LEMMA DocumentIs ==
    ASSUME NEW name \in DOMAIN Documents, NEW d, d = Documents[name]
    PROVE  /\ IsFiniteSet(DOMAIN d.embeddings) /\ IsSeq(d.columns)
           /\ IsSeq(d.batches) /\ \A b \in DOMAIN d.batches : IsSeq(d.batches[b])
           /\ \A b \in DOMAIN d.batches : \A i \in DOMAIN d.batches[b] :
                 /\ \A c \in d.text : d.batches[b][i][c] = None \/ d.batches[b][i][c] \in Int
                 /\ \A c \in ToSet(d.key) : d.batches[b][i][c] # None
<1>1. /\ IsFiniteSet(DOMAIN d.embeddings) /\ d.columns \in Seq(ToSet(d.columns))
      /\ d.batches \in Seq(ToSet(d.batches))
      /\ \A batch \in ToSet(d.batches) :
            /\ batch \in Seq(ToSet(batch))
            /\ \A row \in ToSet(batch) :
                  /\ \A c \in d.text : row[c] = None \/ row[c] \in Int
                  /\ \A c \in ToSet(d.key) : row[c] # None
    BY DocumentsAssumption
<1>2. \A b \in DOMAIN d.batches : d.batches[b] \in ToSet(d.batches)
    BY DEF ToSet
<1>3. \A b \in DOMAIN d.batches : \A i \in DOMAIN d.batches[b] :
          d.batches[b][i] \in ToSet(d.batches[b])
    BY DEF ToSet
<1>4. IsSeq(d.columns) /\ IsSeq(d.batches)
    BY <1>1, SeqIsSeq
<1>5. \A b \in DOMAIN d.batches : IsSeq(d.batches[b])
    BY <1>1, <1>2, SeqIsSeq
<1> QED
    BY <1>1, <1>2, <1>3, <1>4, <1>5

\* One column, and none, in alphabetical order.
LEMMA SortedOne ==
    ASSUME NEW c
    PROVE  Sorted({c}) = [i \in 1..1 |-> c] /\ DOMAIN Sorted({}) = {}
<1>1. Cardinality({c}) = 1 /\ Cardinality({}) = 0
    BY FS_Singleton, FS_EmptySet
<1>2. SetToSeqs({c}) = [1..1 -> {c}]
  <2>1. \A i, j \in 1..1 : i = j
      OBVIOUS
  <2>2. SetToSeqs({c}) = {f \in [1..1 -> {c}] : \A i, j \in 1..1 : i # j => f[i] # f[j]}
      BY <1>1 DEF SetToSeqs
  <2> QED
      BY <2>1, <2>2
<1>3. SetToSeqs({}) = [1..0 -> {}]
  <2>1. SetToSeqs({}) = {f \in [1..0 -> {}] : \A i, j \in 1..0 : i # j => f[i] # f[j]}
      BY <1>1 DEF SetToSeqs
  <2> QED
      BY <2>1
<1> DEFINE one == [i \in 1..1 |-> c]
           none == [i \in 1..0 |-> c]
<1>4. one \in SetToSeqs({c}) /\ \A i, j \in DOMAIN one : ~(i < j)
    BY <1>2
<1>5. none \in SetToSeqs({}) /\ \A i, j \in DOMAIN none : ~(i < j)
  <2>1. \A i : i \notin 1..0
      OBVIOUS
  <2>2. none \in [1..0 -> {}] /\ DOMAIN none = 1..0
      BY <2>1
  <2> HIDE DEF none
  <2> QED
      BY <1>3, <2>1, <2>2
<1> HIDE DEF one, none
<1>6. Sorted({c}) \in [1..1 -> {c}]
    BY <1>2, <1>4, Zenon DEF Sorted
<1>7. Sorted({}) \in [1..0 -> {}]
    BY <1>3, <1>5, Zenon DEF Sorted
<1>8. DOMAIN Sorted({}) = {}
  <2>1. 1..0 = {}
      OBVIOUS
  <2> QED
      BY <1>7, <2>1
<1>9. Sorted({c}) = [i \in 1..1 |-> c]
    BY <1>6
<1> QED
    BY <1>8, <1>9

\* With one embedded column there is at most one vector in the schema, and who reads it
\* has it computed.
LEMMA SchemaIs ==
    ASSUME NEW d, NEW c, DOMAIN d.embeddings = {c}, IsSeq(d.columns)
    PROVE  /\ \A x \in ToSet(schema(d)) : x.vector => x = Vector(c)
           /\ Vector(c) \in ToSet(schema(d)) =>
                 \A columns : Vector(c) \in columns => c \in Wanted(d, columns)
<1> DEFINE n == Len(d.columns)
           vectors == Sorted(DOMAIN d.embeddings \cap ToSet(d.columns))
           s == [i \in DOMAIN d.columns |-> Column(d.columns[i])]
           t == [i \in DOMAIN vectors |-> Vector(vectors[i])]
<1>1. n \in Nat /\ DOMAIN d.columns = 1..n
    BY SeqFacts
<1>2. schema(d) = s \o t
    BY DEF schema
<1>3. \A x : Column(x).vector = FALSE /\ Vector(x).vector = TRUE
    BY DEF Column, Vector
<1>4. EmbeddedColumns(d) = Sorted({c})
    BY DEF EmbeddedColumns
<1>5. IsSeq(s) /\ Len(s) = n /\ \A i \in 1..n : s[i].vector = FALSE
  <2>1. s \in [1..n -> Range(s)]
      BY <1>1 DEF Range
  <2> QED
      BY <1>1, <1>3, <2>1, ElementOfSeq, LenProperties DEF IsSeq
<1>6. CASE c \in ToSet(d.columns)
  <2>1. DOMAIN vectors = 1..1 /\ vectors[1] = c
    <3>1. DOMAIN d.embeddings \cap ToSet(d.columns) = {c}
        BY <1>6
    <3>2. vectors = [i \in 1..1 |-> c]
        BY <3>1, SortedOne, Zenon
    <3> HIDE DEF vectors
    <3> QED
        BY <3>2
  <2>2. IsSeq(t) /\ Len(t) = 1 /\ t[1] = Vector(c)
    <3> HIDE DEF vectors
    <3>1. t \in [1..1 -> Range(t)]
        BY <2>1 DEF Range
    <3> QED
        BY <2>1, <3>1, ElementOfSeq, LenProperties DEF IsSeq
  <2> HIDE DEF s, t, n
  <2>3. /\ Len(s \o t) = n + 1 /\ IsSeq(s \o t)
        /\ \A i \in 1..(n + 1) : (s \o t)[i] = IF i <= n THEN s[i] ELSE t[i - n]
      BY <1>5, <2>2, ConcatIs
  <2>4. DOMAIN (s \o t) = 1..(n + 1)
      BY <2>3, SeqFacts
  <2>5. (s \o t)[n + 1] = Vector(c) /\ n + 1 \in 1..(n + 1)
      BY <1>1, <2>2, <2>3
  <2>6. \A i \in 1..n : (s \o t)[i].vector = FALSE
      BY <1>1, <1>5, <2>3
  <2>7. \A i \in 1..(n + 1) : i \in 1..n \/ i = n + 1
      BY <1>1
  <2>8. \A x \in ToSet(schema(d)) : x.vector => x = Vector(c)
      BY <1>2, <2>4, <2>5, <2>6, <2>7 DEF ToSet
  <2>9. ASSUME NEW columns, Vector(c) \in columns
        PROVE  c \in Wanted(d, columns)
    <3> DEFINE projection == {p \in DOMAIN schema(d) : schema(d)[p] \in columns}
    <3>1. n + 1 \in projection
        BY <1>2, <2>4, <2>5, <2>9
    <3>2. Len(EmbeddedColumns(d)) = 1 /\ EmbeddedColumns(d)[1] = c
      <4>1. EmbeddedColumns(d) = [i \in 1..1 |-> c]
          BY <1>4, SortedOne
      <4> QED
          BY <4>1
    <3>3. (n + 1) - n = 1 /\ n + 1 > n
        BY <1>1
    <3> HIDE DEF projection
    <3>4. c \in columns_to_embed(d, projection)
        BY <3>1, <3>2, <3>3 DEF columns_to_embed, n
    <3> QED
        BY <3>4 DEF Wanted, projection
  <2> QED
      BY <2>8, <2>9
<1>7. CASE c \notin ToSet(d.columns)
  <2>1. DOMAIN vectors = {}
    <3>1. DOMAIN d.embeddings \cap ToSet(d.columns) = {}
        BY <1>7
    <3> QED
        BY <3>1, SortedOne
  <2>2. IsSeq(t) /\ Len(t) = 0
    <3> HIDE DEF vectors
    <3>1. t \in [1..0 -> Range(t)]
        BY <2>1 DEF Range
    <3> QED
        BY <2>1, <3>1, ElementOfSeq, LenProperties DEF IsSeq
  <2> HIDE DEF s, t, n
  <2>3. /\ Len(s \o t) = n + 0 /\ IsSeq(s \o t)
        /\ \A i \in 1..(n + 0) : (s \o t)[i] = IF i <= n THEN s[i] ELSE t[i - n]
      BY <1>5, <2>2, ConcatIs
  <2>4. DOMAIN (s \o t) = 1..n
      BY <1>1, <2>3, SeqFacts
  <2>5. \A i \in 1..n : (s \o t)[i].vector = FALSE
      BY <1>1, <1>5, <2>3
  <2>6. \A x \in ToSet(schema(d)) : x.vector = FALSE
      BY <1>2, <2>4, <2>5 DEF ToSet
  <2> QED
      BY <1>3, <2>6
<1> QED
    BY <1>6, <1>7

\* The vectors of a column, one for each row.
Embedded(d, c, batch, vectors) ==
    /\ c \in d.text
    /\ \A i \in DOMAIN batch :
          /\ batch[i][c] # None
          /\ vectors[c][i] = [size |-> Embedders[d.embeddings[c]].size, at |-> batch[i][c]]

\* What the scan of a batch gives for the embedded column: a vector for each row.
LEMMA BatchIs ==
    ASSUME NEW d, NEW c, NEW batch, IsSeq(batch), NEW columns, NEW wanted, Vector(c) \in columns,
           ~Mismatch(d, batch, columns, get_embeddings(d, batch, wanted))
    PROVE  Embedded(d, c, batch, get_embeddings(d, batch, wanted))
<1> DEFINE e == get_embeddings(d, batch, wanted)
           known == {x \in wanted : d.embeddings[x] \in DOMAIN Embedders /\ x \in d.text}
           given == {i \in DOMAIN batch : batch[i][c] # None}
<1>1. Vector(c).vector = TRUE /\ Vector(c).name = c
    BY DEF Vector
<1>2. c \in DOMAIN e /\ Cardinality(DOMAIN e[c]) = Len(batch)
    BY <1>1 DEF Mismatch
<1>3. DOMAIN e = known
    BY DEF get_embeddings
<1>4. c \in known
    BY <1>2, <1>3
<1>5. e[c] = [i \in given |-> [size |-> Embedders[d.embeddings[c]].size, at |-> batch[i][c]]]
    BY <1>4, Zenon DEF get_embeddings
<1>6. DOMAIN e[c] = given
    BY <1>5
<1>7. Len(batch) \in Nat /\ DOMAIN batch = 1..Len(batch)
    BY SeqFacts
<1>8. IsFiniteSet(1..Len(batch)) /\ Cardinality(1..Len(batch)) = Len(batch)
  <2>1. PICK n \in Nat : n = Len(batch)
      BY <1>7
  <2>2. IsFiniteSet(1..n) /\ Cardinality(1..n) = IF 1 > n THEN 0 ELSE n - 1 + 1
      BY FS_Interval
  <2>3. Cardinality(1..n) = n
      BY <2>2
  <2> QED
      BY <2>1, <2>2, <2>3, Zenon
<1>9. given \subseteq 1..Len(batch)
    BY <1>7
<1> HIDE DEF e, known, given
<1>10. Cardinality(given) = Len(batch)
    BY <1>2, <1>6
<1>11. given = 1..Len(batch)
    BY <1>8, <1>9, <1>10, FS_Subset
<1>12. \A i \in DOMAIN batch : i \in given
    BY <1>7, <1>11
<1>13. \A i \in DOMAIN batch : e[c][i] = [size |-> Embedders[d.embeddings[c]].size, at |-> batch[i][c]]
    BY <1>5, <1>12, Zenon
<1> QED
    BY <1>4, <1>12, <1>13 DEF e, known, given, Embedded

\* A row that is read holds the row of the dataset, and the vector of its text.
RowIs(d, c, columns, out, row) ==
    /\ \A k : Column(k) \in columns => out[Column(k)] = row[k]
    /\ out[Vector(c)] = [size |-> Embedders[d.embeddings[c]].size, at |-> row[c]]
    /\ c \in d.text /\ row[c] \in Int /\ \A k \in ToSet(d.key) : row[k] # None
RowsAre(d, c, columns, out) ==
    LET rows == FlattenSeq(d.batches)
    IN  /\ IsSeq(out) /\ IsSeq(rows) /\ Len(out) = Len(rows)
        /\ \A i \in 1..Len(rows) : RowIs(d, c, columns, out[i], rows[i])

\* A scan that does not fail gives the rows of the dataset in their order.
LEMMA ScanIs ==
    ASSUME NEW name \in DOMAIN Documents, NEW d, d = Documents[name], NEW c,
           NEW columns, Vector(c) \in columns, ~ScanFails(d, columns)
    PROVE  RowsAre(d, c, columns, Scan(d, columns))
<1> DEFINE tt == d.batches
           e(b) == get_embeddings(d, tt[b], Wanted(d, columns))
           ss == [b \in DOMAIN tt |-> construct_record_batch(tt[b], columns, e(b))]
<1>1. /\ IsSeq(tt) /\ \A b \in DOMAIN tt : IsSeq(tt[b])
      /\ \A b \in DOMAIN tt : \A i \in DOMAIN tt[b] :
            /\ \A x \in d.text : tt[b][i][x] = None \/ tt[b][i][x] \in Int
            /\ \A x \in ToSet(d.key) : tt[b][i][x] # None
    BY DocumentIs
<1>2. Scan(d, columns) = FlattenSeq(ss)
    BY Zenon DEF Scan
<1>3. \A b \in DOMAIN tt : ~Mismatch(d, tt[b], columns, e(b))
    BY DEF ScanFails
<1>4. Len(tt) \in Nat /\ DOMAIN tt = 1..Len(tt)
    BY <1>1, SeqFacts
<1>5. ASSUME NEW b \in DOMAIN tt
      PROVE  /\ IsSeq(ss[b]) /\ Len(ss[b]) = Len(tt[b])
             /\ \A j \in DOMAIN tt[b] : RowIs(d, c, columns, ss[b][j], tt[b][j])
  <2> DEFINE t == tt[b]
             s == ss[b]
             v == e(b)
             Cell(col, j) == IF col.vector THEN v[col.name][j] ELSE t[j][col.name]
  <2>1. Len(t) \in Nat /\ DOMAIN t = 1..Len(t)
      BY <1>1, SeqFacts
  <2>2. s = [j \in DOMAIN t |-> [col \in columns |-> Cell(col, j)]]
      BY Zenon DEF construct_record_batch
  <2>3. /\ c \in d.text
        /\ \A j \in DOMAIN t :
              /\ t[j][c] # None
              /\ v[c][j] = [size |-> Embedders[d.embeddings[c]].size, at |-> t[j][c]]
    <3>1. IsSeq(t) /\ ~Mismatch(d, t, columns, get_embeddings(d, t, Wanted(d, columns)))
        BY <1>1, <1>3
    <3> HIDE DEF t, tt, ss
    <3>2. Embedded(d, c, t, get_embeddings(d, t, Wanted(d, columns)))
        BY <3>1, BatchIs
    <3>3. Embedded(d, c, t, v)
        BY <3>2 DEF t
    <3> HIDE DEF v
    <3> QED
        BY <3>3 DEF Embedded
  <2> HIDE DEF v, s, tt
  <2>4. s \in [1..Len(t) -> Range(s)]
      BY <2>1, <2>2 DEF Range
  <2>5. IsSeq(s) /\ Len(s) = Len(t)
      BY <2>1, <2>4, ElementOfSeq, LenProperties DEF IsSeq
  <2>6. ASSUME NEW j \in DOMAIN t
        PROVE  RowIs(d, c, columns, s[j], t[j])
    <3>1. s[j] = [col \in columns |-> Cell(col, j)]
        BY <2>2
    <3>2. Vector(c).vector = TRUE /\ Vector(c).name = c
        BY DEF Vector
    <3>3. s[j][Vector(c)] = v[c][j]
        BY <3>1, <3>2
    <3>4. ASSUME NEW k, Column(k) \in columns PROVE s[j][Column(k)] = t[j][k]
      <4>1. Column(k).vector = FALSE /\ Column(k).name = k
          BY DEF Column
      <4> QED
          BY <3>1, <3>4, <4>1
    <3>5. t[j][c] \in Int /\ \A k \in ToSet(d.key) : t[j][k] # None
        BY <1>1, <2>3
    <3> QED
        BY <2>3, <3>3, <3>4, <3>5 DEF RowIs
  <2> QED
      BY <2>5, <2>6 DEF s
<1>6. IsSeq(ss) /\ Len(ss) = Len(tt)
  <2> DEFINE u == ss
  <2>1. DOMAIN u = 1..Len(tt) /\ u = [b \in 1..Len(tt) |-> u[b]]
      BY <1>4
  <2> HIDE DEF u, ss, tt
  <2>2. u \in [1..Len(tt) -> Range(u)]
      BY <2>1 DEF Range
  <2> QED
      BY <1>4, <2>2, ElementOfSeq, LenProperties DEF IsSeq, u
<1> HIDE DEF ss, tt
<1>7. Alike(ss, tt, FlattenSeq(ss), FlattenSeq(tt))
    BY <1>1, <1>5, <1>6, FlattenAlike
<1>8. ASSUME NEW i \in 1..Len(FlattenSeq(tt))
      PROVE  RowIs(d, c, columns, FlattenSeq(ss)[i], FlattenSeq(tt)[i])
  <2>1. PICK b \in DOMAIN tt : \E j \in DOMAIN tt[b] :
            FlattenSeq(ss)[i] = ss[b][j] /\ FlattenSeq(tt)[i] = tt[b][j]
      BY <1>7, <1>8 DEF Alike
  <2> QED
      BY <1>5, <2>1
<1> QED
    BY <1>2, <1>7, <1>8 DEF RowsAre, Alike, tt

\* The dataset whose texts are all there can be scanned, with its vectors.
LEMMA EmbeddableScans ==
    ASSUME NEW name \in DOMAIN Documents, NEW d, d = Documents[name], NEW c,
           DOMAIN d.embeddings = {c}, d.embeddings[c] \in DOMAIN Embedders,
           Vector(c) \in ToSet(schema(d)), Embeddable(d)
    PROVE  ~ScanFails(d, ToSet(schema(d)))
<1> DEFINE all == ToSet(schema(d))
           wanted == Wanted(d, all)
<1>1. IsSeq(d.columns) /\ \A b \in DOMAIN d.batches : IsSeq(d.batches[b])
    BY DocumentIs
<1>2. \A x \in all : x.vector => x = Vector(c)
    BY <1>1, SchemaIs
<1>3. c \in wanted
    BY <1>1, SchemaIs
<1>4. SUFFICES ASSUME NEW b \in DOMAIN d.batches
               PROVE  ~Mismatch(d, d.batches[b], all, get_embeddings(d, d.batches[b], wanted))
    BY DEF ScanFails
<1> DEFINE batch == d.batches[b]
           e == get_embeddings(d, batch, wanted)
           known == {x \in wanted : d.embeddings[x] \in DOMAIN Embedders /\ x \in d.text}
           given == {i \in DOMAIN batch : batch[i][c] # None}
<1>5. c \in d.text /\ batch # <<>> /\ \A i \in DOMAIN batch : batch[i][c] # None
    BY DEF Embeddable
<1>6. Len(batch) \in Nat /\ DOMAIN batch = 1..Len(batch)
    BY <1>1, SeqFacts
<1>7. c \in known /\ DOMAIN e = known
    BY <1>3, <1>5 DEF get_embeddings
<1>8. e[c] = [i \in given |-> [size |-> Embedders[d.embeddings[c]].size, at |-> batch[i][c]]]
    BY <1>7, Zenon DEF get_embeddings
<1>9. DOMAIN e[c] = given
    BY <1>8
<1>10. given = 1..Len(batch)
    BY <1>5, <1>6
<1>11. Cardinality(1..Len(batch)) = Len(batch)
  <2>1. PICK n \in Nat : n = Len(batch)
      BY <1>6
  <2>2. IsFiniteSet(1..n) /\ Cardinality(1..n) = IF 1 > n THEN 0 ELSE n - 1 + 1
      BY FS_Interval
  <2>3. Cardinality(1..n) = n
      BY <2>2
  <2> QED
      BY <2>1, <2>2, <2>3, Zenon
<1>12. Vector(c).name = c
    BY DEF Vector
<1> HIDE DEF e, known, given, batch, all, wanted
<1>13. ASSUME Mismatch(d, batch, all, e) PROVE FALSE
  <2>1. PICK col \in all : col.vector /\ \/ col.name \notin DOMAIN e
                                         \/ Cardinality(DOMAIN e[col.name]) # Len(batch)
                                         \/ batch = <<>> /\ SizeIn(d, col.name) # 0
      BY <1>13 DEF Mismatch
  <2>2. col.name = c
      BY <1>2, <1>12, <2>1
  <2> QED
      BY <1>5, <1>7, <1>9, <1>10, <1>11, <2>1, <2>2
<1> QED
    BY <1>13 DEF e, batch, all, wanted

\* What is read: the rows of the dataset, unless it was not loaded for want of a vector.
LEMMA ReadIs ==
    ASSUME NEW name \in DOMAIN Documents, NEW d, d = Documents[name], NEW c,
           DOMAIN d.embeddings = {c}, d.embeddings[c] \in DOMAIN Embedders,
           NEW columns, columns \subseteq ToSet(schema(d)), Vector(c) \in columns,
           ~Fails(d, columns)
    PROVE  \/ RowsAre(d, c, columns, Read(d, columns))
           \/ d.accelerated /\ ~Embeddable(d) /\ Read(d, columns) = <<>>
<1> DEFINE all == ToSet(schema(d))
<1>1. CASE ~d.accelerated
  <2>1. ~ScanFails(d, columns) /\ Read(d, columns) = Scan(d, columns)
      BY <1>1 DEF Fails, Read
  <2> QED
      BY <2>1, ScanIs
<1>2. CASE d.accelerated /\ ScanFails(d, all)
  <2>1. Read(d, columns) = <<>>
      BY <1>2 DEF Read
  <2>2. ~Embeddable(d)
      BY <1>2, EmbeddableScans
  <2> QED
      BY <1>2, <2>1, <2>2
<1>3. CASE d.accelerated /\ ~ScanFails(d, all)
  <2>1. Read(d, columns) = Scan(d, all)
      BY <1>3 DEF Read
  <2>2. RowsAre(d, c, all, Scan(d, all))
      BY <1>3, ScanIs
  <2>3. RowsAre(d, c, columns, Scan(d, all))
      BY <2>2 DEF RowsAre, RowIs
  <2> QED
      BY <2>1, <2>3
<1> QED
    BY <1>1, <1>2, <1>3

(***************************************************************************)
(* The search                                                              *)
(***************************************************************************)

\* Squares are ordered as what they are the squares of, but for the sign.
Abs(x) == IF x < 0 THEN -x ELSE x
LEMMA SquaresOrder ==
    ASSUME NEW x \in Int, NEW y \in Int, x * x <= y * y
    PROVE  Abs(x) <= Abs(y)
<1>1. PICK a \in Nat : a = Abs(x) /\ a * a = x * x
  <2>1. Abs(x) \in Nat
      BY DEF Abs
  <2>2. Abs(x) * Abs(x) = x * x
      BY DEF Abs
  <2> QED
      BY <2>1, <2>2
<1>2. PICK b \in Nat : b = Abs(y) /\ b * b = y * y
  <2>1. Abs(y) \in Nat
      BY DEF Abs
  <2>2. Abs(y) * Abs(y) = y * y
      BY DEF Abs
  <2> QED
      BY <2>1, <2>2
<1>3. a * a <= b * b
    BY <1>1, <1>2
<1>4. ASSUME b < a PROVE FALSE
  <2>1. b * b <= b * a
      BY <1>4
  <2>2. b * a < a * a
      BY <1>4
  <2> QED
      BY <1>3, <2>1, <2>2
<1> QED
    BY <1>1, <1>2, <1>4

\* The smaller of two numbers.
LEMMA MinIs ==
    ASSUME NEW m \in Nat, NEW n \in Nat
    PROVE  Min({m, n}) \in Nat /\ Min({m, n}) <= n
<1>1. \E x \in {m, n} : \A y \in {m, n} : x =< y
    OBVIOUS
<1> QED
    BY <1>1 DEF Min

\* The nearest of some rows.
IsNearest(distance, count, order) ==
    /\ count \in Nat /\ order \in [1..count -> DOMAIN distance]
    /\ \A i, j \in 1..count : i < j =>
          order[i] # order[j] /\ distance[order[i]] <= distance[order[j]]
    /\ \A i \in 1..count, r \in DOMAIN distance \ Range(order) : distance[order[i]] <= distance[r]

\* What Nearest gives.
LEMMA NearestIs ==
    ASSUME NEW distance, IsFiniteSet(DOMAIN distance), NEW n \in Nat,
           NEW order \in Nearest(distance, n)
    PROVE  IsNearest(distance, Min({n, Cardinality(DOMAIN distance)}), order)
<1> DEFINE count == Min({n, Cardinality(DOMAIN distance)})
<1>1. count \in Nat
    BY FS_CardinalityType, MinIs
<1>2. PICK S \in kSubset(count, DOMAIN distance) : order \in SetToSeqs(S)
    BY Zenon DEF Nearest
<1>3. /\ \A i, j \in DOMAIN order : i < j => distance[order[i]] <= distance[order[j]]
      /\ \A i \in DOMAIN order, r \in DOMAIN distance \ ToSet(order) :
            distance[order[i]] <= distance[r]
    BY Zenon DEF Nearest
<1> HIDE DEF count
<1>4. S \in SUBSET DOMAIN distance /\ Cardinality(S) = count
    BY <1>2 DEF kSubset
<1>5. order \in [1..count -> S] /\ \A i, j \in 1..count : i # j => order[i] # order[j]
    BY <1>2, <1>4 DEF SetToSeqs
<1>6. ToSet(order) = Range(order)
    BY DEF ToSet, Range
<1>7. \A i, j \in 1..count : i < j => i # j
    BY <1>1
<1>8. DOMAIN order = 1..count /\ order \in [1..count -> DOMAIN distance]
    BY <1>4, <1>5
<1> QED
    BY <1>1, <1>3, <1>5, <1>6, <1>7, <1>8 DEF count, IsNearest

\* The columns a search reads, and the rows it finds with their distances.
Projected(ref, c, req) == get_primary_keys_with_overrides(ref) \o <<c>> \o req.additional_columns
ColumnsRead(ref, c, req) ==
    {Column(k) : k \in ToSet(Projected(ref, c, req))
                            \cup (IF req.where = None THEN {} ELSE {req.where.column})}
        \cup {Vector(c)}
FoundIn(read, req) ==
    {i \in DOMAIN read : req.where = None \/ read[i][Column(req.where.column)] = req.where.value}
Distances(read, found, c, target) == [i \in found |-> array_distance(read[i][Vector(c)], target)]

\* What is asked for is among the columns read.
Covers(columns, ref, c, req) ==
    /\ \A k \in ToSet(get_primary_keys_with_overrides(ref)) : Column(k) \in columns
    /\ Column(c) \in columns /\ \A k \in ToSet(req.additional_columns) : Column(k) \in columns
    /\ req.where # None => Column(req.where.column) \in columns

\* The distances order what is found as the numbers do.
Orders(d, c, req, found, distance) ==
    LET rows == FlattenSeq(d.batches)
        eligible == Eligible(req, rows)
    IN  /\ found = eligible /\ IsFiniteSet(eligible)
        /\ eligible \subseteq 1..Len(rows) /\ DOMAIN distance = eligible
        /\ \A i, j \in eligible : distance[i] <= distance[j] =>
              Far(rows[i], c, req.text) <= Far(rows[j], c, req.text)

\* The rows that are found are the ones that meet the condition, in that order.
LEMMA FoundIs ==
    ASSUME NEW d, NEW c, NEW columns, NEW read, RowsAre(d, c, columns, read),
           NEW req, req.text \in Int, NEW ref, Covers(columns, ref, c, req), NEW target,
           target.at = req.text,
           \A i \in FoundIn(read, req) : Distances(read, FoundIn(read, req), c, target)[i] # None
    PROVE  Orders(d, c, req, FoundIn(read, req), Distances(read, FoundIn(read, req), c, target))
<1> DEFINE rows == FlattenSeq(d.batches)
           eligible == Eligible(req, rows)
           found == FoundIn(read, req)
           distance == Distances(read, found, c, target)
<1>1. /\ Len(rows) \in Nat /\ DOMAIN rows = 1..Len(rows) /\ DOMAIN read = 1..Len(rows)
      /\ \A i \in 1..Len(rows) : RowIs(d, c, columns, read[i], rows[i])
    BY SeqFacts DEF RowsAre
<1> HIDE DEF rows
<1>2. found = eligible
  <2>1. ASSUME req.where # None, NEW i \in 1..Len(rows)
        PROVE  read[i][Column(req.where.column)] = rows[i][req.where.column]
      BY <1>1, <2>1 DEF RowIs, Covers
  <2> QED
      BY <1>1, <2>1 DEF FoundIn, Eligible
<1>3. eligible \subseteq 1..Len(rows)
    BY <1>1 DEF Eligible
<1>4. IsFiniteSet(eligible)
  <2>1. PICK n \in Nat : n = Len(rows)
      BY <1>1
  <2>2. IsFiniteSet(1..n)
      BY FS_Interval
  <2> QED
      BY <1>3, <2>1, <2>2, FS_Subset
<1>5. DOMAIN distance = eligible
    BY <1>2 DEF Distances
<1>6. ASSUME NEW i \in eligible
      PROVE  /\ rows[i][c] \in Int
             /\ distance[i] = (rows[i][c] - req.text) * (rows[i][c] - req.text)
             /\ Far(rows[i], c, req.text) = Abs(rows[i][c] - req.text)
  <2>1. RowIs(d, c, columns, read[i], rows[i])
      BY <1>1, <1>3
  <2>2. read[i][Vector(c)].at = rows[i][c] /\ rows[i][c] \in Int
      BY <2>1 DEF RowIs
  <2>3. distance[i] = array_distance(read[i][Vector(c)], target) /\ distance[i] # None
      BY <1>2 DEF Distances
  <2>4. distance[i] = (rows[i][c] - req.text) * (rows[i][c] - req.text)
    <3> HIDE DEF distance, eligible, found
    <3> QED
        BY <2>2, <2>3 DEF array_distance
  <2>5. Far(rows[i], c, req.text) = Abs(rows[i][c] - req.text)
      BY Zenon DEF Far, Abs
  <2> QED
      BY <2>2, <2>4, <2>5
<1> HIDE DEF eligible, found, distance
<1>7. ASSUME NEW i \in eligible, NEW j \in eligible, distance[i] <= distance[j]
      PROVE  Far(rows[i], c, req.text) <= Far(rows[j], c, req.text)
  <2>1. PICK x \in Int : x = rows[i][c] - req.text
      BY <1>6
  <2>2. PICK y \in Int : y = rows[j][c] - req.text
      BY <1>6
  <2>3. x * x <= y * y
      BY <1>6, <1>7, <2>1, <2>2
  <2>4. Abs(x) <= Abs(y)
      BY <2>3, SquaresOrder
  <2> QED
      BY <1>6, <2>1, <2>2, <2>4
<1> QED
    BY <1>2, <1>3, <1>4, <1>5, <1>7, Zenon DEF Orders, rows, eligible, found, distance

\* The columns of a row as JSON.
LEMMA AsJsonIs ==
    ASSUME NEW out, NEW row, NEW ks, \A k \in ks : out[Column(k)] = row[k]
    PROVE  /\ \A k \in DOMAIN AsJson(out, ks) : AsJson(out, ks)[k] = row[k]
           /\ \A k \in ks : k \notin DOMAIN AsJson(out, ks) => row[k] = None
BY DEF AsJson

\* A match holds the value, the key and the metadata of its row.
IsOfRow(d, c, req, match, row) ==
    /\ match.value = row[c] /\ ToSet(d.key) \subseteq DOMAIN match.primary_key
    /\ \A k \in DOMAIN match.primary_key : match.primary_key[k] = row[k]
    /\ \A k \in ToSet(req.additional_columns) :
          IF k \in DOMAIN match.metadata THEN match.metadata[k] = row[k] ELSE row[k] = None

\* That is so of the matches that are made.
LEMMA MatchIs ==
    ASSUME NEW ref, NEW d, d = Documents[ref.name], NEW c, NEW columns, NEW req,
           Covers(columns, ref, c, req), NEW out, NEW row, RowIs(d, c, columns, out, row),
           NEW match,
           match = [value |-> out[Column(c)],
                    primary_key |-> AsJson(out, ToSet(get_primary_keys_with_overrides(ref))),
                    metadata |-> AsJson(out, ToSet(req.additional_columns))]
    PROVE  IsOfRow(d, c, req, match, row)
<1> DEFINE keys == ToSet(get_primary_keys_with_overrides(ref))
           more == ToSet(req.additional_columns)
<1>1. match.value = row[c]
    BY DEF RowIs, Covers
<1>2. \A k \in keys \cup more : out[Column(k)] = row[k]
    BY DEF RowIs, Covers
<1>3. ToSet(d.key) \subseteq keys
  <2>1. CASE d.key = <<>>
      BY <2>1 DEF ToSet
  <2>2. CASE d.key # <<>>
      BY <2>2 DEF get_primary_keys_with_overrides
  <2> QED
      BY <2>1, <2>2
<1>4. match.primary_key = AsJson(out, keys) /\ match.metadata = AsJson(out, more)
    OBVIOUS
<1> HIDE DEF keys, more
<1>5. \A k \in ToSet(d.key) : row[k] # None
    BY DEF RowIs
<1>6. /\ \A k \in DOMAIN AsJson(out, keys) : AsJson(out, keys)[k] = row[k]
      /\ \A k \in keys : k \notin DOMAIN AsJson(out, keys) => row[k] = None
    BY <1>2, AsJsonIs
<1>7. /\ \A k \in DOMAIN AsJson(out, more) : AsJson(out, more)[k] = row[k]
      /\ \A k \in more : k \notin DOMAIN AsJson(out, more) => row[k] = None
    BY <1>2, AsJsonIs
<1>8. ToSet(d.key) \subseteq DOMAIN match.primary_key
    BY <1>3, <1>4, <1>5, <1>6
<1>9. \A k \in DOMAIN match.primary_key : match.primary_key[k] = row[k]
    BY <1>4, <1>6
<1>10. \A k \in more : IF k \in DOMAIN match.metadata THEN match.metadata[k] = row[k] ELSE row[k] = None
    BY <1>4, <1>7
<1> QED
    BY <1>1, <1>8, <1>9, <1>10 DEF more, IsOfRow

\* The matches made of the nearest rows are right.
LEMMA MatchesAreRight ==
    ASSUME NEW ref, NEW d, d = Documents[ref.name], NEW c,
           NEW columns, NEW read, RowsAre(d, c, columns, read),
           NEW req, req.text \in Int, req.limit \in Nat, Covers(columns, ref, c, req),
           NEW target, target.at = req.text, NEW distance,
           distance = Distances(read, FoundIn(read, req), c, target),
           \A i \in FoundIn(read, req) : distance[i] # None,
           NEW order \in Nearest(distance, req.limit),
           NEW out, out = [i \in DOMAIN order |-> read[order[i]]]
    PROVE  AreMatches(req, d, c, table_to_matches(ref, out, c, req.additional_columns))
<1> DEFINE rows == FlattenSeq(d.batches)
           eligible == Eligible(req, rows)
           count == Min({req.limit, Cardinality(eligible)})
           matches == table_to_matches(ref, out, c, req.additional_columns)
           far(i) == Far(rows[i], c, req.text)
<1>1. /\ FoundIn(read, req) = eligible /\ IsFiniteSet(eligible)
      /\ eligible \subseteq 1..Len(rows) /\ DOMAIN distance = eligible
      /\ \A i, j \in eligible : distance[i] <= distance[j] => far(i) <= far(j)
  <2>1. Orders(d, c, req, FoundIn(read, req), distance)
      BY FoundIs
  <2> QED
      BY <2>1, Zenon DEF Orders
<1>2. \A i \in 1..Len(rows) : RowIs(d, c, columns, read[i], rows[i])
    BY DEF RowsAre
<1> HIDE DEF rows, eligible
<1>3. /\ count \in Nat /\ order \in [1..count -> eligible]
      /\ \A i, j \in 1..count : i < j =>
            order[i] # order[j] /\ distance[order[i]] <= distance[order[j]]
      /\ \A i \in 1..count, r \in eligible \ Range(order) : distance[order[i]] <= distance[r]
  <2>1. IsNearest(distance, Min({req.limit, Cardinality(DOMAIN distance)}), order)
      BY <1>1, NearestIs
  <2> QED
      BY <1>1, <2>1, Zenon DEF IsNearest
<1> HIDE DEF count
<1>4. DOMAIN matches = 1..count /\ Len(matches) = count
  <2>1. CASE c \notin d.text
    <3>1. \A i \in 1..count : order[i] \in eligible /\ order[i] \in 1..Len(rows)
        BY <1>1, <1>3
    <3>2. \A i \in 1..Len(rows) : FALSE
        BY <1>2, <2>1 DEF RowIs
    <3>3. count = 0
        BY <1>3, <3>1, <3>2
    <3>4. matches = <<>>
        BY <2>1 DEF table_to_matches
    <3> QED
        BY <3>3, <3>4
  <2>2. CASE c \in d.text
    <3>1. DOMAIN out = 1..count
        BY <1>3
    <3>2. DOMAIN matches = 1..count
      <4> QED
          BY <2>2, <3>1 DEF table_to_matches
    <3>3. matches \in [1..count -> Range(matches)]
      <4> DEFINE Match(i) ==
                    [value |-> out[i][Column(c)],
                     primary_key |-> AsJson(out[i], ToSet(get_primary_keys_with_overrides(ref))),
                     metadata |-> AsJson(out[i], ToSet(req.additional_columns))]
      <4>1. matches = [i \in DOMAIN out |-> Match(i)]
          BY <2>2, Zenon DEF table_to_matches
      <4> HIDE DEF matches, Match
      <4> QED
          BY <3>1, <4>1 DEF Range
    <3> HIDE DEF matches
    <3> QED
        BY <1>3, <3>2, <3>3, ElementOfSeq, LenProperties
  <2> QED
      BY <2>1, <2>2
<1>5. ASSUME NEW i \in 1..count
      PROVE  IsOfRow(d, c, req, matches[i], rows[order[i]])
  <2>1. order[i] \in 1..Len(rows) /\ i \in DOMAIN order
      BY <1>1, <1>3
  <2>2. RowIs(d, c, columns, read[order[i]], rows[order[i]])
      BY <1>2, <2>1
  <2>3. c \in d.text
      BY <2>2 DEF RowIs
  <2>4. DOMAIN out = DOMAIN order /\ out[i] = read[order[i]]
      BY <2>1
  <2>5. matches[i] = [value |-> out[i][Column(c)],
                      primary_key |-> AsJson(out[i], ToSet(get_primary_keys_with_overrides(ref))),
                      metadata |-> AsJson(out[i], ToSet(req.additional_columns))]
    <3> QED
        BY <2>1, <2>3, <2>4, Zenon DEF table_to_matches
  <2> HIDE DEF matches
  <2> QED
      BY <2>2, <2>4, <2>5, MatchIs
<1> HIDE DEF matches
<1>6. order \in [DOMAIN matches -> eligible]
    BY <1>3, <1>4
<1>7. Len(matches) = Min({req.limit, Cardinality(eligible)})
    BY <1>4 DEF count
<1>8. \A i, j \in DOMAIN matches : i < j => order[i] # order[j] /\ far(order[i]) <= far(order[j])
    BY <1>1, <1>3, <1>4
<1>9. \A i \in DOMAIN matches : \A r \in eligible \ Range(order) : far(order[i]) <= far(r)
    BY <1>1, <1>3, <1>4
<1>10. AreMatches(req, d, c, matches)
  <2>1. \E row \in [DOMAIN matches -> eligible] :
            /\ Len(matches) = Min({req.limit, Cardinality(eligible)})
            /\ \A i, j \in DOMAIN matches : i < j => row[i] # row[j] /\ far(row[i]) <= far(row[j])
            /\ \A i \in DOMAIN matches :
                  /\ \A r \in eligible \ Range(row) : far(row[i]) <= far(r)
                  /\ matches[i].value = rows[row[i]][c]
                  /\ ToSet(d.key) \subseteq DOMAIN matches[i].primary_key
                  /\ \A k \in DOMAIN matches[i].primary_key :
                        matches[i].primary_key[k] = rows[row[i]][k]
                  /\ \A k \in ToSet(req.additional_columns) :
                        IF k \in DOMAIN matches[i].metadata
                        THEN matches[i].metadata[k] = rows[row[i]][k]
                        ELSE rows[row[i]][k] = None
    <3> HIDE DEF far
    <3> WITNESS order \in [DOMAIN matches -> eligible]
    <3> QED
        BY <1>4, <1>5, <1>7, <1>8, <1>9 DEF IsOfRow
  <2> QED
      BY <2>1, Zenon DEF AreMatches, eligible, rows
<1> QED
    BY <1>10 DEF matches

\* What is asked for is read.
LEMMA ColumnsCover ==
    ASSUME NEW ref, ref.name \in DOMAIN Documents, NEW c, NEW s \in DOMAIN Searches,
           NEW req, req = Searches[s]
    PROVE  Covers(ColumnsRead(ref, c, req), ref, c, req) /\ Vector(c) \in ColumnsRead(ref, c, req)
<1> DEFINE keys == get_primary_keys_with_overrides(ref)
           more == req.additional_columns
           d == Documents[ref.name]
<1>1. IsSeq(more)
  <2>1. more \in Seq(ToSet(more))
      BY DocumentsAssumption
  <2> QED
      BY <2>1, SeqIsSeq
<1>2. IsSeq(keys)
  <2>1. /\ d.key \in Seq(ToSet(d.key))
        /\ d.explicit # None => d.explicit \in Seq(ToSet(d.explicit))
      BY DocumentsAssumption
  <2>2. CASE d.key # <<>>
    <3>1. keys = d.key
        BY <2>2 DEF get_primary_keys_with_overrides
    <3> QED
        BY <2>1, <3>1, SeqIsSeq
  <2>3. CASE d.key = <<>> /\ ref \in DOMAIN parse_explicit_primary_keys
    <3>1. keys = parse_explicit_primary_keys[ref]
        BY <2>3 DEF get_primary_keys_with_overrides
    <3>2. PICK n \in DOMAIN Documents : ref = [name |-> n, full |-> TRUE] /\ Documents[n].explicit # None
        BY <2>3 DEF parse_explicit_primary_keys
    <3>3. parse_explicit_primary_keys[ref] = d.explicit /\ d.explicit # None
        BY <2>3, <3>2 DEF parse_explicit_primary_keys
    <3> QED
        BY <2>1, <3>1, <3>3, SeqIsSeq
  <2>4. CASE d.key = <<>> /\ ref \notin DOMAIN parse_explicit_primary_keys
    <3>1. keys = <<>>
        BY <2>4 DEF get_primary_keys_with_overrides
    <3> QED
        BY <3>1, EmptyIsSeq
  <2> QED
      BY <2>2, <2>3, <2>4
<1> HIDE DEF keys, more
<1>3. ASSUME NEW t, IsSeq(t), NEW u, IsSeq(u)
      PROVE  IsSeq(t \o u) /\ ToSet(t) \subseteq ToSet(t \o u) /\ ToSet(u) \subseteq ToSet(t \o u)
  <2>1. /\ IsSeq(t \o u) /\ Len(t \o u) = Len(t) + Len(u)
        /\ \A i \in 1..(Len(t) + Len(u)) :
              (t \o u)[i] = IF i <= Len(t) THEN t[i] ELSE u[i - Len(t)]
      BY <1>3, ConcatIs
  <2>2. /\ Len(t) \in Nat /\ Len(u) \in Nat /\ DOMAIN t = 1..Len(t) /\ DOMAIN u = 1..Len(u)
        /\ DOMAIN (t \o u) = 1..(Len(t) + Len(u))
      BY <1>3, <2>1, SeqFacts
  <2>3. ASSUME NEW i \in DOMAIN t PROVE t[i] \in ToSet(t \o u)
    <3>1. i \in DOMAIN (t \o u) /\ (t \o u)[i] = t[i]
        BY <2>1, <2>2
    <3> QED
        BY <3>1, Zenon DEF ToSet
  <2>4. ASSUME NEW i \in DOMAIN u PROVE u[i] \in ToSet(t \o u)
    <3>1. Len(t) + i \in DOMAIN (t \o u) /\ (t \o u)[Len(t) + i] = u[i]
        BY <2>1, <2>2
    <3> QED
        BY <3>1, Zenon DEF ToSet
  <2> QED
      BY <2>1, <2>3, <2>4 DEF ToSet
<1>4. IsSeq(<<c>>) /\ c \in ToSet(<<c>>)
  <2>1. <<c>> \in Seq({c}) /\ 1 \in DOMAIN <<c>> /\ <<c>>[1] = c
      OBVIOUS
  <2>2. IsSeq(<<c>>)
      BY <2>1, SeqIsSeq
  <2> QED
      BY <2>1, <2>2, Zenon DEF ToSet
<1>5. /\ IsSeq(keys \o <<c>>) /\ ToSet(keys) \subseteq ToSet(keys \o <<c>>)
      /\ ToSet(<<c>>) \subseteq ToSet(keys \o <<c>>)
    BY <1>2, <1>3, <1>4, Zenon
<1>6. /\ ToSet(keys \o <<c>>) \subseteq ToSet((keys \o <<c>>) \o more)
      /\ ToSet(more) \subseteq ToSet((keys \o <<c>>) \o more)
    BY <1>1, <1>3, <1>5, Zenon
<1>7. Projected(ref, c, req) = (keys \o <<c>>) \o more
    BY DEF Projected, keys, more
<1>8. ToSet(keys) \cup {c} \cup ToSet(more) \subseteq ToSet(Projected(ref, c, req))
    BY <1>4, <1>5, <1>6, <1>7, Zenon
<1>9. \A k \in ToSet(keys) \cup {c} \cup ToSet(more) : Column(k) \in ColumnsRead(ref, c, req)
    BY <1>8, Zenon DEF ColumnsRead
<1>10. req.where # None => Column(req.where.column) \in ColumnsRead(ref, c, req)
    BY DEF ColumnsRead
<1>11. Vector(c) \in ColumnsRead(ref, c, req)
    BY DEF ColumnsRead
<1> QED
    BY <1>9, <1>10, <1>11 DEF Covers, keys, more

\* The rows that a search of one dataset may give.
Gives(d, target, c, req, columns, result) ==
    LET read == Read(d, columns)
        distance == Distances(read, FoundIn(read, req), c, target)
    IN  /\ columns \subseteq ToSet(schema(d)) /\ ~Fails(d, columns)
        /\ \A i \in FoundIn(read, req) : distance[i] # None
        /\ \E order \in Nearest(distance, req.limit) :
              result = [i \in DOMAIN order |-> read[order[i]]]

\* It gives no others.
LEMMA IndividualSearchIs ==
    ASSUME NEW d, NEW target, NEW ref, NEW c, NEW req,
           NEW result \in individual_search(d, target, get_primary_keys_with_overrides(ref), c,
                                            req.additional_columns, req.where, req.limit),
           result # None, NEW columns, columns = ColumnsRead(ref, c, req)
    PROVE  Gives(d, target, c, req, columns, result)
<1> DEFINE cols == ColumnsRead(ref, c, req)
           read == Read(d, cols)
           distance == Distances(read, FoundIn(read, req), c, target)
           wrong == \/ ~(cols \subseteq ToSet(schema(d)))
                    \/ Cardinality(ToSet(Projected(ref, c, req))) # Len(Projected(ref, c, req))
                    \/ req.where # None /\ req.where.keyword
                    \/ Fails(d, cols) \/ \E i \in FoundIn(read, req) : distance[i] = None
           right == {[i \in DOMAIN order |-> read[order[i]]] : order \in Nearest(distance, req.limit)}
<1>1. individual_search(d, target, get_primary_keys_with_overrides(ref), c,
                        req.additional_columns, req.where, req.limit)
        = IF wrong THEN {None} ELSE right
    BY Zenon DEF individual_search, ColumnsRead, Projected, FoundIn, Distances
<1>2. ~wrong /\ result \in right
  <2> HIDE DEF wrong, right
  <2> QED
      BY <1>1
<1>3. \E order \in Nearest(distance, req.limit) : result = [i \in DOMAIN order |-> read[order[i]]]
    BY <1>2
<1> QED
    BY <1>2, <1>3, Zenon DEF Gives

\* What is found in a dataset is right, or nothing because it is not loaded.
FoundRight(req, ref, found) ==
    \/ IsRight(req, ref, found)
    \/ Documents[ref.name].accelerated /\ ~Embeddable(Documents[ref.name]) /\ found = <<>>

\* Nothing is made of nothing.
LEMMA NoMatches ==
    ASSUME NEW ref, NEW c, NEW more, NEW n \in Nat, NEW req, NEW target, NEW distance,
           distance = Distances(<<>>, FoundIn(<<>>, req), c, target),
           NEW order \in Nearest(distance, n)
    PROVE  table_to_matches(ref, [i \in DOMAIN order |-> <<>>[order[i]]], c, more) = <<>>
<1>1. FoundIn(<<>>, req) = {}
    BY DEF FoundIn
<1>2. DOMAIN distance = {}
    BY <1>1 DEF Distances
<1>3. IsFiniteSet(DOMAIN distance) /\ Cardinality(DOMAIN distance) = 0
    BY <1>2, FS_EmptySet
<1>4. IsNearest(distance, Min({n, Cardinality(DOMAIN distance)}), order)
    BY <1>3, NearestIs
<1>5. DOMAIN order = {}
  <2>1. Min({n, 0}) \in Nat /\ Min({n, 0}) <= 0
      BY MinIs
  <2>2. Min({n, 0}) = 0
      BY <2>1
  <2>3. order \in [1..0 -> DOMAIN distance]
      BY <1>3, <1>4, <2>2 DEF IsNearest
  <2> QED
      BY <2>3
<1> DEFINE out == [i \in DOMAIN order |-> <<>>[order[i]]]
           Match(i) == [value |-> out[i][Column(c)],
                        primary_key |-> AsJson(out[i], ToSet(get_primary_keys_with_overrides(ref))),
                        metadata |-> AsJson(out[i], ToSet(more))]
<1>6. DOMAIN out = {}
    BY <1>5
<1>7. table_to_matches(ref, out, c, more)
        = IF c \notin Documents[ref.name].text THEN <<>> ELSE [i \in DOMAIN out |-> Match(i)]
    BY Zenon DEF table_to_matches
<1> HIDE DEF out, Match
<1>8. [i \in DOMAIN out |-> Match(i)] = <<>>
  <2> DEFINE s == [i \in DOMAIN out |-> Match(i)]
  <2>1. DOMAIN s = {}
      BY <1>6
  <2>2. s = [i \in {} |-> s[i]]
      BY <1>6
  <2> HIDE DEF s
  <2>3. s = <<>>
      BY <2>1, <2>2
  <2> QED
      BY <2>3 DEF s
<1> QED
    BY <1>7, <1>8 DEF out

\* Every search that is answered is right.
LEMMA SearchesAreRight ==
    ASSUME NEW s \in DOMAIN Searches, NEW found \in search(Searches[s]), found # None,
           NEW ref \in ToSet(Searches[s].datasets)
    PROVE  FoundRight(Searches[s], ref, found[ref])
<1>0. PICK req : req = Searches[s]
    OBVIOUS
<1> DEFINE refs == ToSet(req.datasets)
           targets == calculate_embeddings_per_table(req)
           ColumnOf(r) == CHOOSE col \in DOMAIN Documents[r.name].embeddings : TRUE
           Results(r) == individual_search(Documents[r.name],
                             targets[Documents[r.name].embeddings[ColumnOf(r)]],
                             get_primary_keys_with_overrides(r), ColumnOf(r),
                             req.additional_columns, req.where, req.limit)
           wrong == \/ \E r \in refs : r.name \notin DOMAIN Documents
                    \/ \E r \in refs : ~IsEmbeddingTable(Documents[r.name])
                    \/ targets = None
                    \/ \E r \in refs : Cardinality(DOMAIN Documents[r.name].embeddings) # 1
           given == {f \in [refs -> UNION {Results(r) : r \in refs}] : \A r \in refs : f[r] \in Results(r)}
           Made(f) == [r \in refs |-> table_to_matches(r, f[r], ColumnOf(r), req.additional_columns)]
<1>1. search(req) = IF wrong THEN {None}
                    ELSE IF \E r \in refs : None \in Results(r) THEN {None}
                    ELSE {Made(f) : f \in given}
    BY Zenon DEF search
<1>2. ~wrong /\ (\A r \in refs : None \notin Results(r)) /\ \E f \in given : found = Made(f)
  <2> HIDE DEF wrong, given, Made, Results
  <2> QED
      BY <1>0, <1>1
<1>3. PICK f \in given : found = Made(f)
    BY <1>2
<1> DEFINE d == Documents[ref.name]
           c == ColumnOf(ref)
           target == targets[d.embeddings[c]]
           columns == ColumnsRead(ref, c, req)
           read == Read(d, columns)
           distance == Distances(read, FoundIn(read, req), c, target)
<1>4. ref \in refs
    BY <1>0
<1>5. f[ref] \in Results(ref) /\ f[ref] # None
    BY <1>2, <1>4
<1>6. found[ref] = table_to_matches(ref, f[ref], c, req.additional_columns)
    BY <1>3, <1>4
<1>7. ref.name \in DOMAIN Documents /\ Cardinality(DOMAIN d.embeddings) = 1 /\ targets # None
    BY <1>2, <1>4
<1> HIDE DEF wrong, given, Made
<1>8. DOMAIN d.embeddings = {c}
  <2>1. IsFiniteSet(DOMAIN d.embeddings)
      BY <1>7, DocumentIs
  <2>2. PICK x : DOMAIN d.embeddings = {x}
      BY <1>7, <2>1, FS_Singleton
  <2>3. c \in DOMAIN d.embeddings
      BY <2>2, Zenon
  <2> QED
      BY <2>2, <2>3
<1>9. d.embeddings[c] \in DOMAIN Embedders /\ target.at = req.text
  <2> DEFINE used == UNION {Range(Documents[r.name].embeddings) : r \in refs}
  <2>1. d.embeddings[c] \in used
    <3>1. d.embeddings[c] \in Range(d.embeddings)
        BY <1>8, Zenon DEF Range
    <3> QED
        BY <1>4, <3>1, Zenon
  <2>2. targets = IF used \subseteq DOMAIN Embedders
                  THEN [m \in used |-> [size |-> Embedders[m].size, at |-> req.text]] ELSE None
      BY Zenon DEF calculate_embeddings_per_table
  <2> HIDE DEF used, targets
  <2>3. used \subseteq DOMAIN Embedders
        /\ targets = [m \in used |-> [size |-> Embedders[m].size, at |-> req.text]]
      BY <1>7, <2>2
  <2>4. targets[d.embeddings[c]] = [size |-> Embedders[d.embeddings[c]].size, at |-> req.text]
      BY <2>1, <2>3, Zenon
  <2> QED
      BY <2>1, <2>3, <2>4
<1>10. Covers(columns, ref, c, req) /\ Vector(c) \in columns
    BY <1>0, <1>7, ColumnsCover
<1>11. req.text \in Int /\ req.limit \in Nat
    BY <1>0, DocumentsAssumption
<1>12. c = CHOOSE col \in DOMAIN d.embeddings : TRUE
    OBVIOUS
<1>13. f[ref] \in individual_search(d, target, get_primary_keys_with_overrides(ref), c,
                                    req.additional_columns, req.where, req.limit)
    BY <1>5
<1> HIDE DEF d, c, target, columns, refs, targets, Results, ColumnOf
<1>14. /\ columns \subseteq ToSet(schema(d)) /\ ~Fails(d, columns)
       /\ \A i \in FoundIn(read, req) : distance[i] # None
       /\ \E order \in Nearest(distance, req.limit) : f[ref] = [i \in DOMAIN order |-> read[order[i]]]
  <2>1. Gives(d, target, c, req, columns, f[ref])
      BY <1>5, <1>13, IndividualSearchIs DEF columns
  <2> QED
      BY <2>1, Zenon DEF Gives
<1>15. PICK order \in Nearest(distance, req.limit) : f[ref] = [i \in DOMAIN order |-> read[order[i]]]
    BY <1>14
<1>16. CASE RowsAre(d, c, columns, read)
  <2> HIDE DEF read, distance
  <2>1. d = Documents[ref.name]
      BY DEF d
  <2>2. distance = Distances(read, FoundIn(read, req), c, target)
      BY DEF distance
  <2>3. PICK out : out = f[ref]
      OBVIOUS
  <2>4. out = [i \in DOMAIN order |-> read[order[i]]]
      BY <1>15, <2>3, Zenon
  <2>5. AreMatches(req, d, c, table_to_matches(ref, out, c, req.additional_columns))
      BY <1>9, <1>10, <1>11, <1>14, <1>16, <2>1, <2>2, <2>4, MatchesAreRight
  <2>6. IsRight(req, ref, found[ref])
      BY <1>6, <1>12, <2>1, <2>3, <2>5, Zenon DEF IsRight
  <2> QED
      BY <1>0, <2>6 DEF FoundRight
<1>17. CASE d.accelerated /\ ~Embeddable(d) /\ read = <<>>
  <2>1. found[ref] = <<>>
    <3>1. distance = Distances(<<>>, FoundIn(<<>>, req), c, target)
        BY <1>17
    <3>2. f[ref] = [i \in DOMAIN order |-> <<>>[order[i]]]
        BY <1>15, <1>17
    <3> HIDE DEF distance, read
    <3>3. table_to_matches(ref, [i \in DOMAIN order |-> <<>>[order[i]]], c, req.additional_columns) = <<>>
        BY <1>11, <1>15, <3>1, NoMatches
    <3> QED
        BY <1>6, <3>2, <3>3
  <2> QED
      BY <1>0, <1>17, <2>1 DEF FoundRight, d
<1> QED
    BY <1>7, <1>8, <1>9, <1>10, <1>14, <1>16, <1>17, ReadIs DEF d

(***************************************************************************)
(* What a client is answered to a search                                   *)
(***************************************************************************)

\* A search is asked for and answered: what its client gets with a 200 is what the search
\* of all its datasets gave.
SearchOk(r) ==
    /\ r.sql \in DOMAIN Searches
    /\ r.pc \in {"start", "answered", "gone"}
    /\ r.pc = "start" => r.answer.status = None /\ r.below = <<>>
    /\ r.answer.status = "200" => r.answer.matches \in search(Searches[r.sql]) \ {None}
SearchInv == \A c \in Callers : call[c].kind = "search" => SearchOk(call[c])

\* Who is not concerned keeps its search.
LEMMA SearchOfOne ==
    ASSUME SearchInv, NEW c \in Callers, NEW r, Moves(c, r), r.kind = call[c].kind,
           r.kind = "search" => SearchOk(r)
    PROVE  SearchInv'
BY DEF SearchInv, Moves

\* A request that is neither at its start nor over is no search.
LEMMA NoSearch ==
    ASSUME SearchInv, NEW c \in Callers, call[c].pc \notin {"start", "answered", "gone"}
    PROVE  call[c].kind # "search"
BY DEF SearchInv, SearchOk

\* An answer to something else.
LEMMA OtherAnswer ==
    ASSUME IInv, SearchInv, NEW c \in Callers, NEW a, call' = Answer(c, a), call[c].kind # "search"
    PROVE  SearchInv'
<1>1. Moves(c, call'[c]) /\ call'[c].kind = call[c].kind
    BY DEF Answer, Moves, IInv, TypeInv, CallFields
<1> QED
    BY <1>1, SearchOfOne

\* A search is answered with what was found, or with an error.
LEMMA PostSearchSearch == ASSUME IInv, SearchInv, NEW c \in Callers, PostSearch(c) PROVE SearchInv'
<1>0. call[c].kind = "search" /\ SearchOk(call[c]) /\ call[c].sql \in DOMAIN Searches
    BY DEF PostSearch, SearchInv, SearchOk
<1>1. ASSUME NEW a, call' = Answer(c, a),
             a.status = "200" => a.matches \in search(Searches[call[c].sql]) \ {None}
      PROVE  SearchInv'
  <2>1. /\ Moves(c, call'[c]) /\ call'[c].kind = call[c].kind /\ call'[c].sql = call[c].sql
        /\ call'[c].pc = "answered" /\ call'[c].answer = a
      BY <1>1 DEF Answer, Moves, IInv, TypeInv, CallFields
  <2>2. SearchOk(call'[c])
      BY <1>0, <1>1, <2>1, Zenon DEF SearchOk
  <2> QED
      BY <2>1, <2>2, SearchOfOne
<1>2. CASE call' = Status500(c)
  <2>1. [NoAnswer EXCEPT !.status = "500"].status # "200"
      BY DEF NoAnswer
  <2> QED
      BY <1>1, <1>2, <2>1 DEF Status500
<1>3. CASE call' = Answer(c, [NoAnswer EXCEPT !.status = "400"])
  <2>1. [NoAnswer EXCEPT !.status = "400"].status # "200"
      BY DEF NoAnswer
  <2> QED
      BY <1>1, <1>3, <2>1
<1>4. ASSUME NEW found \in ClientSearch[call[c].sql], found # None,
             call' = Answer(c, [NoAnswer EXCEPT !.status = "200", !.matches = found])
      PROVE  SearchInv'
  <2>1. found \in search(Searches[call[c].sql]) \ {None}
      BY <1>0, <1>4, Zenon DEF ClientSearch
  <2>2. [NoAnswer EXCEPT !.status = "200", !.matches = found].matches = found
      BY DEF NoAnswer
  <2> QED
      BY <1>1, <1>4, <2>1, <2>2
<1> QED
    BY <1>2, <1>3, <1>4, Zenon DEF PostSearch

\* No query of SQL is a search.
LEMMA SqlSearch == ASSUME IInv, SearchInv, NEW c \in Callers, SqlStep(c) PROVE SearchInv'
<1>1. ASSUME NEW next, WithSchema(c, next), call[c].kind # "search" PROVE SearchInv'
  <2>2. CASE \E a : call' = Answer(c, a)
      BY <1>1, <2>2, OtherAnswer
  <2>3. CASE call' = [call EXCEPT ![c].pc = next]
    <3>1. Moves(c, call'[c]) /\ call'[c].kind = call[c].kind
        BY <2>3 DEF Moves, IInv, TypeInv, CallFields
    <3> QED
        BY <3>1, <1>1, SearchOfOne
  <2> QED
      BY <1>1, <2>2, <2>3 DEF WithSchema
<1>2. ASSUME NEW kind, kind # "search", RunsQuery(c, kind) PROVE SearchInv'
  <2>1. call[c].kind # "search" /\ Moves(c, call'[c]) /\ call'[c].kind = call[c].kind
      BY <1>2 DEF RunsQuery, Moves, IInv, TypeInv, CallFields
  <2> QED
      BY <2>1, SearchOfOne
<1>3. CASE Refuse(c) \/ AnswerQuery(c)
  <2>1. call[c].kind # "search"
      BY <1>3, NoSearch DEF Refuse, AnswerQuery
  <2>2. \E a : call' = Answer(c, a)
      BY <1>3 DEF Refuse, AnswerQuery
  <2> QED
      BY <2>1, <2>2, OtherAnswer
<1>4. CASE GetSchema(c) \/ CreatePreparedStatement(c) \/ GetFlightInfoPrepared(c)
              \/ GetFlightInfoSimple(c) \/ GetFlightInfoStatement(c)
    BY <1>4, <1>1, NoSearch DEF GetSchema, CreatePreparedStatement, GetFlightInfoPrepared,
                      GetFlightInfoSimple, GetFlightInfoStatement
<1>5. CASE DoGetSimple(c) \/ DoGetStatement(c) \/ DoGetPrepared(c) \/ PostSql(c)
    BY <1>5, <1>2 DEF DoGetSimple, DoGetStatement, DoGetPrepared, PostSql
<1> QED
    BY <1>3, <1>4, <1>5, PostSearchSearch DEF SqlStep

\* Nor is a chat.
LEMMA ChatSearch == ASSUME IInv, SearchInv, NEW c \in Callers, ChatStep(c) PROVE SearchInv'
<1>0. DOMAIN call[c] = CallFields /\ DOMAIN call = Callers
    BY DEF IInv, TypeInv
<1>1. call[c].kind # "search"
  <2>1. call[c].pc \in {"tables", "models", "model", "prepare", "infer", "tools", "tool_query", "reply"}
      BY Zenon DEF ChatStep, PromptTables, ReadModels, LockModel, Prepare, ChatRequest, OpenStream,
                   RunTool, ToolQueryEnds, AskAgain, Reply
  <2>2. call[c].pc \notin {"start", "answered", "gone"}
      BY ONLY <2>1
  <2> QED
      BY <2>2, NoSearch, Zenon
<1>2. ASSUME Moves(c, call'[c]), call'[c].kind = call[c].kind PROVE SearchInv'
    BY <1>1, <1>2, SearchOfOne
<1>3. CASE \E a : call' = Answer(c, a)
    BY <1>1, <1>3, OtherAnswer
<1>4. CASE PromptTables(c) \/ LockModel(c) \/ Prepare(c)
    BY <1>0, <1>2, <1>4 DEF PromptTables, LockModel, Prepare, Moves, CallFields
<1>5. CASE ReadModels(c) /\ ~\E a : call' = Answer(c, a)
    BY <1>0, <1>2, <1>5 DEF ReadModels, Moves, CallFields
<1>6. CASE ChatRequest(c) /\ ~\E a : call' = Answer(c, a)
  <2> DEFINE Used(reply) == IF reply.choices = <<>> THEN <<>> ELSE reply.choices[1].tool_calls
             Run(reply) == IF MayUseTools(c) THEN SpicedTools(Model(c).tools, Used(reply)) ELSE <<>>
  <2>0. PICK reply \in Replies(call[c].asked) :
            call' = [call EXCEPT ![c] =
                        [@ EXCEPT !.pc = IF Run(reply) = <<>> THEN "reply" ELSE "tools",
                                  !.todo = Run(reply), !.ran = Run(reply), !.contents = <<>>,
                                  !.choices = reply.choices, !.usages = Append(@, reply.usage)]]
      BY <1>6, Zenon DEF ChatRequest, Status500
  <2> HIDE DEF Run
  <2>1. Moves(c, call'[c]) /\ call'[c].kind = call[c].kind
      BY <1>0, <2>0 DEF Moves, CallFields
  <2> QED
      BY <2>1, <1>2
<1>7. CASE Reply(c) /\ ~\E a : call' = Answer(c, a)
  <2>1. Moves(c, call'[c]) /\ call'[c].kind = call[c].kind
      BY <1>0, <1>7 DEF Reply, Status500, Moves, CallFields
  <2> QED
      BY <2>1, <1>2
<1>8. CASE RunTool(c) \/ ToolQueryEnds(c)
  <2>1. (\E content : ToolAnswers(c, content)) \/ call' = [call EXCEPT ![c].pc = "tool_query"]
      BY <1>8 DEF RunTool, ToolQueryEnds, SqlTool, TableSchemaTool, ListDatasetsTool,
                  DocumentSimilarityTool
  <2>2. Moves(c, call'[c]) /\ call'[c].kind = call[c].kind
      BY <2>1, <1>0 DEF ToolAnswers, Moves, CallFields
  <2> QED
      BY <2>2, <1>2
<1>9. CASE AskAgain(c)
  <2> DEFINE Req(messages) == IF Streams(c) THEN [call[c].req EXCEPT !.messages = messages]
                              ELSE NewRequest(messages)
  <2>0. PICK messages :
            call' = [call EXCEPT ![c] =
                       [@ EXCEPT !.pc = "prepare", !.level = call[c].level + 1, !.req = Req(messages)]]
      BY <1>9, Zenon DEF AskAgain
  <2> HIDE DEF Req
  <2>1. Moves(c, call'[c]) /\ call'[c].kind = call[c].kind
      BY <1>0, <2>0 DEF Moves, CallFields
  <2> QED
      BY <2>1, <1>2
<1>10. CASE OpenStream(c) /\ ~\E a : call' = Answer(c, a)
  <2>1. ASSUME NEW chan,
               call' = [call EXCEPT ![c].pc = "ended", ![c].said = Append(@, None), ![c].chan = chan]
        PROVE  SearchInv'
      BY <1>0, <1>2, <2>1 DEF Moves, CallFields
  <2>2. ASSUME NEW chunks, NEW below,
               call' = [call EXCEPT ![c] =
                       [@ EXCEPT !.pc = "read", !.guard = "none", !.answer.status = "200",
                                 !.chunks = chunks, !.states = <<>>, !.chan = <<>>, !.below = below]]
        PROVE  SearchInv'
    <3>1. Moves(c, call'[c]) /\ call'[c].kind = call[c].kind
        BY <1>0, <2>2 DEF Moves, CallFields
    <3> QED
        BY <3>1, <1>2
  <2> QED
      BY <1>10, <2>1, <2>2, Zenon DEF OpenStream, Status500
<1> QED
    BY <1>3, <1>4, <1>5, <1>6, <1>7, <1>8, <1>9, <1>10 DEF ChatStep

\* Nor is a stream; a search has no levels to forward from.
LEMMA StreamSearch == ASSUME IInv, SearchInv, NEW c \in Callers, StreamStep(c) PROVE SearchInv'
<1>0. DOMAIN call[c] = CallFields /\ DOMAIN call = Callers
    BY DEF IInv, TypeInv
<1>1. call[c].kind # "search"
  <2>1. CASE \E k \in 1..Len(call[c].below) : Forward(c, k)
    <3>1. ~Over(c)
        BY <2>1 DEF Forward
    <3>2. call[c].below # <<>>
        BY <2>1
    <3> QED
        BY <3>1, <3>2 DEF Over, SearchInv, SearchOk
  <2>2. CASE ReadChunk(c) \/ ReadEnd(c) \/ Resume(c) \/ StreamOver(c)
    <3>1. call[c].pc \in {"read", "ended"}
        BY <2>2, Zenon DEF ReadChunk, ReadEnd, Resume, StreamOver
    <3>2. call[c].pc \notin {"start", "answered", "gone"}
        BY ONLY <3>1
    <3> QED
        BY <3>2, NoSearch, Zenon
  <2> QED
      BY <2>1, <2>2 DEF StreamStep
<1>2. ASSUME Moves(c, call'[c]), call'[c].kind = call[c].kind PROVE SearchInv'
    BY <1>1, <1>2, SearchOfOne
<1>3. CASE ReadChunk(c)
  <2>1. Moves(c, call'[c]) /\ call'[c].kind = call[c].kind
      BY <1>0, <1>3, SMTT(30) DEF ReadChunk, Moves, CallFields
  <2> QED
      BY <2>1, <1>2
<1>4. CASE ReadEnd(c) \/ Resume(c) \/ StreamOver(c)
  <2>1. CASE ReadEnd(c) \/ StreamOver(c)
      BY <1>0, <1>2, <2>1 DEF ReadEnd, StreamOver, Moves, CallFields
  <2>2. CASE Resume(c)
    <3>1. Moves(c, call'[c]) /\ call'[c].kind = call[c].kind
        BY <1>0, <2>2 DEF Resume, Moves, CallFields
    <3> QED
        BY <3>1, <1>2
  <2> QED
      BY <1>4, <2>1, <2>2
<1>5. ASSUME NEW k \in 1..Len(call[c].below), Forward(c, k) PROVE SearchInv'
  <2> DEFINE t == IF k = Len(call[c].below) THEN [call[c] EXCEPT !.chan = Tail(ChannelInto(c, k))]
                  ELSE [call[c] EXCEPT !.below[k + 1].chan = Tail(ChannelInto(c, k))]
             x == Append(call[c].below[k].chan, Head(ChannelInto(c, k)))
  <2>1. DOMAIN t = CallFields /\ t.kind = call[c].kind
      BY <1>0 DEF CallFields
  <2>2. \/ call' = [call EXCEPT ![c] = [t EXCEPT !.cut = k]]
        \/ call' = [call EXCEPT ![c] = [t EXCEPT !.below[k].chan = x]]
      BY <1>5 DEF Forward
  <2> HIDE DEF t, x
  <2>3. Moves(c, call'[c]) /\ call'[c].kind = call[c].kind
      BY <1>0, <2>1, <2>2 DEF Moves, CallFields
  <2> QED
      BY <2>3, <1>2
<1> QED
    BY <1>3, <1>4, <1>5 DEF StreamStep

\* A search has no events to read.
LEMMA ReadEventSearch == ASSUME IInv, SearchInv, NEW c \in Callers, ReadEvent(c) PROVE SearchInv'
<1> DEFINE out == Outermost(c)
           t == IF call[c].below = <<>> THEN [call[c] EXCEPT !.chan = Tail(Outermost(c))]
                ELSE [call[c] EXCEPT !.below[1].chan = Tail(Outermost(c))]
<1>0. DOMAIN call[c] = CallFields /\ DOMAIN call = Callers
    BY DEF IInv, TypeInv
<1>1. /\ ~Over(c) /\ call[c].answer.status = "200"
      /\ call' = [call EXCEPT ![c] =
                    [t EXCEPT !.delivered = Append(call[c].delivered, Head(out)),
                              !.here = ~Head(out).error]]
    BY DEF ReadEvent
<1>2. call[c].kind # "search"
  <2>1. None # "200"
      BY CasesAssumption
  <2> QED
      BY <1>1, <2>1 DEF Over, SearchInv, SearchOk
<1>3. DOMAIN t = CallFields /\ t.kind = call[c].kind
    BY <1>0 DEF CallFields
<1> HIDE DEF t, out
<1>4. Moves(c, call'[c]) /\ call'[c].kind = call[c].kind
    BY <1>0, <1>1, <1>3 DEF Moves, CallFields
<1> QED
    BY <1>2, <1>4, SearchOfOne

\* Who goes away before the answer has none.
LEMMA LeaveSearch == ASSUME IInv, SearchInv, NEW c \in Callers, Leave(c) PROVE SearchInv'
<1>0. DOMAIN call[c] = CallFields /\ DOMAIN call = Callers
    BY DEF IInv, TypeInv
<1>1. CASE call' = [call EXCEPT ![c].here = FALSE] /\ call[c].answer.status = "200"
  <2>1. Moves(c, call'[c]) /\ call'[c].kind = call[c].kind
      BY <1>0, <1>1 DEF Moves, CallFields
  <2>2. call[c].kind # "search"
    <3>1. None # "200"
        BY CasesAssumption
    <3>2. ~Over(c)
        BY DEF Leave
    <3> QED
        BY <1>1, <3>1, <3>2 DEF Over, SearchInv, SearchOk
  <2> QED
      BY <2>1, <2>2, SearchOfOne
<1>2. CASE call' = [call EXCEPT ![c].pc = "gone", ![c].guard = "none"]
  <2>1. /\ Moves(c, call'[c]) /\ call'[c].kind = call[c].kind /\ call'[c].pc = "gone"
        /\ call'[c].sql = call[c].sql /\ call'[c].answer = call[c].answer
      BY <1>0, <1>2 DEF Moves, CallFields
  <2>2. ASSUME call[c].kind = "search" PROVE SearchOk(call'[c])
    <3>1. SearchOk(call[c])
        BY <2>2 DEF SearchInv
    <3> QED
        BY <2>1, <3>1, Zenon DEF SearchOk
  <2> QED
      BY <2>1, <2>2, SearchOfOne
<1> QED
    BY <1>1, <1>2 DEF Leave

\* Nobody has an answer to begin with.
LEMMA InitSearches == Init => SearchInv
<1>1. SUFFICES ASSUME Init, NEW c \in Callers, call[c].kind = "search" PROVE SearchOk(call[c])
    BY DEF SearchInv
<1>2. PICK case \in Cases :
          call = [d \in Callers |->
                     NewCall(IF d \in DOMAIN case.asks THEN case.asks[d] ELSE NoAsk)]
    BY <1>1 DEF Init
<1> DEFINE ask == IF c \in DOMAIN case.asks THEN case.asks[c] ELSE NoAsk
<1>3. call[c] = NewCall(ask)
    BY <1>2
<1>4. /\ ask.kind \in DOMAIN Entries /\ ask.from \in Entries[ask.kind]
      /\ ask.kind = "search" => ask.sql \in DOMAIN Searches
    BY CasesAssumption DEF NoAsk, Entries
<1> HIDE DEF ask
<1>5. /\ call[c].kind = ask.kind /\ call[c].pc = ask.from /\ call[c].sql = ask.sql
      /\ call[c].answer = NoAnswer /\ call[c].below = <<>>
    BY <1>3 DEF NewCall
<1>6. call[c].pc = "start" /\ call[c].sql \in DOMAIN Searches
    BY <1>1, <1>4, <1>5 DEF Entries
<1>7. NoAnswer.status = None /\ None # "200"
    BY CasesAssumption DEF NoAnswer
<1> QED
    BY <1>5, <1>6, <1>7, Zenon DEF SearchOk

\* Every step keeps what the searches were answered.
LEMMA NextSearches == IInv /\ SearchInv /\ [Next]_vars => SearchInv'
<1>1. SUFFICES ASSUME IInv, SearchInv, [Next]_vars PROVE SearchInv'
    OBVIOUS
<1>2. CASE UNCHANGED call
    BY <1>1, <1>2 DEF SearchInv
<1>3. ASSUME NEW c \in Callers, SqlStep(c) \/ ChatStep(c) \/ StreamStep(c) \/ ReadEvent(c) \/ Leave(c)
      PROVE  SearchInv'
    BY <1>1, <1>3, SqlSearch, ChatSearch, StreamSearch, ReadEventSearch, LeaveSearch
<1>4. ASSUME \/ \E c \in Callers : QueryStep(c) /\ UNCHANGED callVars
             \/ \E sql \in cached : Invalidate(sql) /\ UNCHANGED callVars
             \/ ExportSpans /\ UNCHANGED callVars
             \/ WatcherTakesApp \/ WatcherLoadsModel \/ UNCHANGED vars
      PROVE  UNCHANGED call
    BY <1>4 DEF callVars, vars, WatcherTakesApp, WatcherLoadsModel
<1> QED
    BY <1>1, <1>2, <1>3, <1>4 DEF Next

\* The search of a dataset that is answered is right, whatever the datasets, the batches
\* their rows come in, the texts, the condition, the limit and the interleaving: the rows
\* that are read are those of the dataset in their order, each with the vectors of its own
\* texts; the matches are rows of their own that meet the condition, with the value, the
\* key and the metadata of that row; the nearest come first and no row left out is nearer.
\* Only an accelerated dataset that was not loaded, because something has no vector, is
\* answered with nothing.
THEOREM SearchIsRightHolds == Spec => []SearchIsRight
<1>1. SearchInv => SearchIsRight
  <2>1. SUFFICES ASSUME SearchInv, NEW c \in Callers, call[c].kind = "search",
                        call[c].answer.status = "200",
                        NEW ref \in ToSet(Searches[call[c].sql].datasets)
                 PROVE  FoundRight(Searches[call[c].sql], ref, call[c].answer.matches[ref])
      BY Zenon DEF SearchIsRight, FoundRight
  <2>2. SearchOk(call[c])
      BY <2>1 DEF SearchInv
  <2>3. /\ call[c].sql \in DOMAIN Searches
        /\ call[c].answer.matches \in search(Searches[call[c].sql])
        /\ call[c].answer.matches # None
      BY <2>1, <2>2, Zenon DEF SearchOk
  <2> QED
      BY <2>1, <2>3, SearchesAreRight
<1> QED
    BY <1>1, InitSearches, NextSearches, ServingInvariance, InitInv, NextInv, PTL DEF Spec
=============================================================================
