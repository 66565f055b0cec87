------------------------- MODULE ConnectorLoadProofs ------------------------
(***************************************************************************)
(* The registry of connectors is held by one load at a time, a connector   *)
(* has its required parameters, an accelerated table is what the           *)
(* definition of its dataset says (it is in the file that was opened for   *)
(* it and finds conflicts by one of its keys), and an error of the         *)
(* configuration, after which a load is not tried again, is one that       *)
(* another attempt would meet too. For every set of datasets, definitions, *)
(* secret stores and states of the sources.                                *)
(***************************************************************************)
EXTENDS ConnectorLoad, FiniteSetTheorems, SequenceTheorems, WellFoundedInduction, TLAPS

(***************************************************************************)
(* The inductive invariant                                                 *)
(***************************************************************************)

\* Every dataset has one of its definitions, all its life.
DefsInv ==
    /\ def \in [Datasets -> UNION {Definitions[d] : d \in Datasets}]
    /\ \A d \in Datasets : def[d] \in Definitions[d]

\* What a load does next, and that each of its variables is there for it.
Places == {"refused", "start", "new", "create", "read", "register", "done"}
TypeInv ==
    /\ pc \in [Datasets -> Places]
    /\ DOMAIN table = Datasets /\ DOMAIN user = Datasets /\ DOMAIN held = Datasets

\* Those who wait for the registry are in line once, the holder first; a load that
\* has a connector made is the holder.
LockInv ==
    /\ queue \in Seq(Datasets)
    /\ \A i, j \in DOMAIN queue : queue[i] = queue[j] => i = j
    /\ \A d \in Datasets : (\E i \in DOMAIN queue : queue[i] = d) <=> pc[d] \in {"new", "create"}
    /\ \A d \in Datasets : pc[d] = "create" => Holds(d)

\* The dataset has a connector, with all that its factory requires.
Equipped(d) ==
    /\ source(def[d]) \in DOMAIN Factories
    /\ \A s \in Factories[source(def[d])][2] : s.required => s.name \in DOMAIN held[d]
ParamsInv ==
    \A d \in Datasets : pc[d] \in {"create", "read", "register", "done"} => Equipped(d)

\* A dataset that is loaded was not refused, and the files of those that were not are
\* open.
FilesInv ==
    \A d \in Datasets :
        /\ pc[d] # "refused" => Refusal(def[d]) = "ok"
        /\ InitFiles(def[d]) \subseteq files

\* The file that is opened for a dataset, when its parameters have no references.
PlainParams(c) == \A k \in DOMAIN c.accel.params : References(c.accel.params[k]) = {}

\* The parts of an accelerated table, by the definition of its dataset.
InFile(a) == a.engine \in {"duckdb", "sqlite"} /\ a.mode = "file"
TableIs(d, t) ==
    LET c == def[d]
        a == c.accel
        own == table_constraints(a, c.schema)
    IN  /\ is_accelerated(c) /\ Refusal(c) = "ok"
        /\ own.error = "ok" /\ t.keys = IF own.keys # {} THEN own.keys ELSE c.keys
        /\ t.conflict = conflict(a, c.keys) /\ t.conflict.error = "ok"
        /\ t.file # None => InFile(a)
        /\ InFile(a) /\ PlainParams(c) => t.file = file_path(c)
        /\ t.file # None => \A o \in Datasets \ {d} :
              /\ def[o].accel # None /\ def[o].accel.engine = a.engine
              /\ Refusal(def[o]) = "ok" /\ file_path(def[o]) # None
              => file_path(def[o]) \in t.attached
TablesInv ==
    \A d \in Datasets : table[d] # None0 => pc[d] = "done" /\ TableIs(d, table[d])

IInv == DefsInv /\ TypeInv /\ LockInv /\ ParamsInv /\ FilesInv /\ TablesInv

(***************************************************************************)
(* Numbers and checks                                                      *)
(***************************************************************************)

\* Numbers that are there have a least one.
LEMMA MinIsMember ==
    ASSUME NEW S \in SUBSET Nat, S # {}
    PROVE  Min(S) \in S /\ \A k \in S : Min(S) <= k
<1>1. PICK m \in S : \A k \in S : ~(<<k, m>> \in OpToRel(<, Nat))
    BY NatLessThanWellFounded, WFMin
<1>2. ASSUME NEW k \in S PROVE m <= k
  <2>1. k \in Nat /\ m \in Nat
      OBVIOUS
  <2>2. <<k, m>>[1] < <<k, m>>[2] => <<k, m>> \in OpToRel(<, Nat)
      BY <2>1, Zenon DEF OpToRel
  <2>3. ~(k < m)
      BY <1>1, <2>2
  <2> QED
      BY <2>1, <2>3
<1> HIDE <1>1
<1> QED
    BY <1>2 DEF Min

\* Induction over the numbers, for a set.
LEMMA SetInduction ==
    ASSUME NEW S, 0 \in S, \A n \in Nat : n \in S => n + 1 \in S
    PROVE  Nat \subseteq S
<1> DEFINE others == Nat \ S
           m == Min(others)
<1>1. SUFFICES ASSUME others # {} PROVE FALSE
    OBVIOUS
<1>2. m \in others /\ \A k \in others : m <= k
    BY <1>1, MinIsMember
<1>3. m \in Nat /\ m # 0 /\ m - 1 \in Nat
    BY <1>2
<1>4. m - 1 \in S
    BY <1>2, <1>3
<1> QED
    BY <1>2, <1>3, <1>4

\* A list of checks that ends well has none that fails.
LEMMA FirstErrorOk ==
    ASSUME NEW checks, DOMAIN checks \subseteq Nat, FirstError(checks) = "ok"
    PROVE  \A i \in DOMAIN checks : checks[i] = "ok"
<1> DEFINE failed == {i \in DOMAIN checks : checks[i] # "ok"}
<1>1. SUFFICES ASSUME failed # {} PROVE FALSE
    OBVIOUS
<1>2. Min(failed) \in failed
    BY <1>1, MinIsMember
<1> QED
    BY <1>1, <1>2 DEF FirstError

(***************************************************************************)
(* Texts without references                                                *)
(***************************************************************************)

\* What is not a reference is not matched.
LEMMA PlainHasNoMatches ==
    ASSUME NEW t \in Seq(STRING), References(t) = {}
    PROVE  Matches(t) = {}
<1> DEFINE n == Len(t)
           Off(i) == {k \in 2..5 : i + k - 1 > n \/ ~Fits(t[i + k - 1], k)}
           ClosedAt(i) == i + Min(Off(i)) - 1
           Next0(f, i) == IF i > n THEN {}
                          ELSE IF t[i] # Opening THEN f[i + 1]
                          ELSE IF Off(i) = {} THEN {i} \cup f[i + 5]
                          ELSE IF ClosedAt(i) > n \/ t[ClosedAt(i)] \in {Junk, Slash} THEN {} ELSE f[ClosedAt(i) + 1]
           lexed == CHOOSE f : f = [i \in 1..(n + 6) |-> Next0(f, i)]
           none == [i \in 1..(n + 6) |-> {}]
<1>1. n \in Nat
    OBVIOUS
<1>2. ASSUME NEW i \in 1..n, t[i] = Opening PROVE Off(i) # {}
  <2>1. i \in DOMAIN t
      BY <1>1
  <2>2. SUFFICES ASSUME Off(i) = {} PROVE FALSE
      OBVIOUS
  <2>3. ASSUME NEW k \in 2..5 PROVE i + k - 1 <= n /\ Fits(t[i + k - 1], k)
    <3>1. k \notin Off(i)
      <4> HIDE DEF Off
      <4> QED
          BY <2>2
    <3>2. ~(i + k - 1 > n) /\ Fits(t[i + k - 1], k)
        BY <3>1
    <3> QED
        BY <3>2, <1>1
  <2>4. i + 4 <= n
      BY <2>3, <1>1
  <2>5. Fits(t[i + 1 - 1], 1)
      BY <1>2, <1>1 DEF Fits
  <2>6. \A k \in 1..5 : Fits(t[i + k - 1], k)
      BY <2>3, <2>5
  <2> QED
      BY <2>1, <2>4, <2>6 DEF References
<1>3. ASSUME NEW i \in 1..n, t[i] = Opening PROVE ClosedAt(i) \in Nat /\ ClosedAt(i) > i /\ ClosedAt(i) <= i + 4
  <2>1. Off(i) \in SUBSET Nat /\ Off(i) # {}
      BY <1>2, <1>3
  <2>2. Min(Off(i)) \in Off(i)
    <3> HIDE DEF Off
    <3> QED
        BY <2>1, MinIsMember
  <2>3. Min(Off(i)) \in 2..5
      BY <2>2
  <2> HIDE DEF Off
  <2> QED
      BY <2>3, <1>1
<1>4. none = [i \in 1..(n + 6) |-> Next0(none, i)]
  <2>1. ASSUME NEW i \in 1..(n + 6) PROVE Next0(none, i) = {}
    <3> HIDE DEF At, Off
    <3>1. CASE i > n
        BY <3>1
    <3>2. CASE i <= n /\ t[i] # Opening
        BY <3>2, <1>1
    <3>3. CASE i <= n /\ t[i] = Opening
      <4>1. i \in 1..n
          BY <3>3, <1>1
      <4>2. ClosedAt(i) + 1 \in 1..(n + 6)
          BY <4>1, <3>3, <1>3, <1>1
      <4>3. none[ClosedAt(i) + 1] = {} /\ Off(i) # {}
          BY <4>1, <4>2, <3>3, <1>2
      <4> HIDE DEF none
      <4> QED
          BY <4>1, <4>3, <3>3
    <3>4. i > n \/ (i <= n /\ t[i] # Opening) \/ (i <= n /\ t[i] = Opening)
        BY <1>1
    <3> QED
        BY <3>1, <3>2, <3>3, <3>4, Zenon
  <2> HIDE DEF Next0
  <2> QED
      BY <2>1
<1>5. lexed = [i \in 1..(n + 6) |-> Next0(lexed, i)]
  <2> DEFINE Is(f) == f = [i \in 1..(n + 6) |-> Next0(f, i)]
  <2>1. Is(none)
      BY <1>4
  <2>2. lexed = CHOOSE f : Is(f)
      OBVIOUS
  <2> HIDE DEF Is, lexed
  <2>3. Is(lexed)
      BY <2>1, <2>2
  <2> QED
      BY <2>3 DEF Is
<1>6. \A i \in 1..(n + 6) : lexed[i] = Next0(lexed, i)
  <2> HIDE DEF Next0, lexed
  <2> QED
      BY <1>5
<1> DEFINE Done == {k \in Nat : \A i \in 1..(n + 6) : i + k >= n + 1 => lexed[i] = {}}
<1>7. 0 \in Done
  <2> SUFFICES ASSUME NEW i \in 1..(n + 6), i + 0 >= n + 1 PROVE lexed[i] = {}
      OBVIOUS
  <2> HIDE DEF lexed, Off, At
  <2>1. i > n
      BY <1>1
  <2> QED
      BY <1>6, <2>1
<1>8. ASSUME NEW k \in Nat, k \in Done PROVE k + 1 \in Done
  <2> HIDE DEF lexed
  <2> SUFFICES ASSUME NEW i \in 1..(n + 6), i + (k + 1) >= n + 1 PROVE lexed[i] = {}
      OBVIOUS
  <2> HIDE DEF Off, At
  <2>1. \A j \in 1..(n + 6) : j > i => lexed[j] = {}
      BY <1>8, <1>1
  <2>2. lexed[i] = Next0(lexed, i)
      BY <1>6
  <2>3. CASE i > n
      BY <2>2, <2>3
  <2>4. CASE i <= n /\ t[i] # Opening
      BY <2>2, <2>4, <2>1, <1>1
  <2>5. CASE i <= n /\ t[i] = Opening
    <3>1. i \in 1..n
        BY <2>5, <1>1
    <3>2. ClosedAt(i) + 1 \in 1..(n + 6) /\ ClosedAt(i) + 1 > i
        BY <3>1, <2>5, <1>3, <1>1
    <3>3. Off(i) # {}
        BY <3>1, <2>5, <1>2
    <3> QED
        BY <3>1, <3>2, <3>3, <2>1, <2>2, <2>5
  <2> QED
      BY <2>3, <2>4, <2>5, <1>1
<1>9. n \in Done
  <2> HIDE DEF Done
  <2> QED
      BY <1>7, <1>8, <1>1, SetInduction
<1>10. lexed[1] = {}
  <2> HIDE DEF lexed
  <2> QED
      BY <1>9, <1>1
<1> QED
    BY <1>10 DEF Matches

\* A text is its words one after the other.
LEMMA FlattenWords ==
    ASSUME NEW t \in Seq(STRING)
    PROVE  FlattenSeq([i \in DOMAIN t |-> <<t[i]>>]) = t
<1> DEFINE n == Len(t)
           seqs == [i \in DOMAIN t |-> <<t[i]>>]
           Next0(f, i) == IF i = 1 THEN seqs[i] ELSE f[i - 1] \o seqs[i]
           Is(f) == f = [i \in 1..n |-> Next0(f, i)]
           flatten == CHOOSE f : Is(f)
           heads == [i \in 1..n |-> SubSeq(t, 1, i)]
<1>1. n \in Nat /\ DOMAIN t = 1..n /\ Len(seqs) = n
    BY LenProperties
<1>2. CASE n = 0
  <2>1. t = <<>> /\ seqs = <<>>
      BY <1>1, <1>2
  <2> HIDE DEF seqs
  <2> QED
      BY <2>1, <1>1, <1>2 DEF FlattenSeq
<1>3. CASE n > 0
  <2>1. ASSUME NEW i \in 1..n PROVE SubSeq(t, 1, i) = SubSeq(t, 1, i - 1) \o <<t[i]>>
    <3>1. 1 \in 1..Len(t) /\ i \in 1..Len(t)
        BY <1>1
    <3> QED
        BY <3>1, SubSeqRecursiveSecond
  <2>2. SubSeq(t, 1, 1) = <<t[1]>>
    <3>1. SubSeq(t, 1, 1 - 1) = <<>>
        BY SubSeqEmpty
    <3>2. t[1] \in STRING
        BY <1>1, <1>3
    <3>3. <<>> \o <<t[1]>> = <<t[1]>>
        BY <3>2, ConcatEmptySeq
    <3>4. SubSeq(t, 1, 1) = SubSeq(t, 1, 1 - 1) \o <<t[1]>>
      <4>1. 1 \in 1..n
          BY <1>1, <1>3
      <4> QED
          BY <4>1, <2>1
    <3> QED
        BY <3>1, <3>3, <3>4
  <2>3. Is(heads)
    <3>1. ASSUME NEW i \in 1..n PROVE heads[i] = Next0(heads, i)
      <4>1. seqs[i] = <<t[i]>>
          BY <1>1
      <4> HIDE DEF seqs
      <4>2. CASE i = 1
          BY <4>1, <4>2, <2>2
      <4>3. CASE i # 1
        <5>1. i - 1 \in 1..n
            BY <4>3, <1>1
        <5> QED
            BY <4>1, <4>3, <5>1, <2>1
      <4> QED
          BY <4>2, <4>3
    <3> HIDE DEF Next0
    <3> QED
        BY <3>1
  <2>4. Is(flatten)
    <3> HIDE DEF Is
    <3> QED
        BY <2>3
  <2>5. \A i \in 1..n : flatten[i] = Next0(flatten, i)
    <3> HIDE DEF flatten, Next0
    <3> QED
        BY <2>4
  <2> HIDE DEF flatten
  <2> DEFINE Done == {k \in Nat : \A i \in 1..n : i <= k => flatten[i] = SubSeq(t, 1, i)}
  <2>6. 0 \in Done
      BY <1>1
  <2>7. ASSUME NEW k \in Nat, k \in Done PROVE k + 1 \in Done
    <3>1. ASSUME k + 1 \in 1..n PROVE flatten[k + 1] = SubSeq(t, 1, k + 1)
      <4>1. seqs[k + 1] = <<t[k + 1]>>
          BY <3>1, <1>1
      <4> HIDE DEF seqs
      <4>2. CASE k = 0
          BY <4>1, <4>2, <2>5, <2>2, <3>1
      <4>3. CASE k > 0
        <5>1. flatten[k] = SubSeq(t, 1, k)
            BY <2>7, <4>3, <3>1, <1>1
        <5>2. flatten[k + 1] = flatten[k] \o <<t[k + 1]>>
          <6>1. flatten[k + 1] = Next0(flatten, k + 1)
              BY <2>5, <3>1
          <6>2. k + 1 # 1 /\ (k + 1) - 1 = k
              BY <4>3
          <6> QED
              BY <6>1, <6>2, <4>1
        <5>3. SubSeq(t, 1, k + 1) = SubSeq(t, 1, (k + 1) - 1) \o <<t[k + 1]>>
            BY <2>1, <3>1
        <5>4. (k + 1) - 1 = k
            OBVIOUS
        <5> QED
            BY <5>1, <5>2, <5>3, <5>4
      <4> QED
          BY <4>2, <4>3
    <3>2. ASSUME NEW i \in 1..n, i <= k + 1 PROVE flatten[i] = SubSeq(t, 1, i)
      <4>1. CASE i = k + 1
          BY <4>1, <3>1
      <4>2. CASE i <= k
          BY <4>2, <2>7
      <4> QED
          BY <4>1, <4>2, <3>2, <1>1
    <3> QED
        BY <3>2
  <2>8. n \in Done
    <3> HIDE DEF Done
    <3> QED
        BY <2>6, <2>7, <1>1, SetInduction
  <2>9. flatten[n] = SubSeq(t, 1, n)
      BY <2>8, <1>1, <1>3
  <2>10. SubSeq(t, 1, n) = t
      BY SubSeqFull
  <2>11. FlattenSeq(seqs) = flatten[n]
    <3>1. Len(seqs) = n /\ n # 0
        BY <1>1, <1>3
    <3> HIDE DEF seqs, n
    <3> QED
        BY <3>1, Zenon DEF FlattenSeq, flatten
  <2> QED
      BY <2>9, <2>10, <2>11
<1> QED
    BY <1>1, <1>2, <1>3

\* Nothing is put in the place of a text without references.
LEMMA PlainIsKept ==
    ASSUME NEW t \in Seq(STRING), References(t) = {}, NEW ss
    PROVE  inject_secrets(ss, t) = t
BY PlainHasNoMatches, FlattenWords DEF inject_secrets

(***************************************************************************)
(* Parameters and tables                                                   *)
(***************************************************************************)

\* Parameters that are all right have every one that is required.
LEMMA RequiredAreThere ==
    ASSUME NEW prefix, NEW specs, NEW u, NEW ss, NEW s \in specs,
           try_new(prefix, specs, u, ss).ok, s.required
    PROVE  s.name \in DOMAIN try_new(prefix, specs, u, ss).params
BY DEF try_new

\* A name of two words, of which the first is taken away.
LEMMA TwoWords ==
    ASSUME NEW S, NEW w, NEW k \in Seq(S)
    PROVE  (Len(k) > 1 /\ Tail(k) = <<w>>) <=> (Len(k) = 2 /\ k[2] = w)
<1> DEFINE W == S \cup {w}
<1>1. k \in Seq(W)
    BY SeqMonotonic
<1>2. <<w>> \in Seq(W) /\ Len(<<w>>) = 1
    OBVIOUS
<1>3. Len(k) \in Nat
    OBVIOUS
<1>4. ASSUME k # <<>>
      PROVE  /\ Tail(k) \in Seq(W) /\ Len(Tail(k)) = Len(k) - 1
             /\ \A i \in 1..Len(Tail(k)) : Tail(k)[i] = k[i + 1]
    BY <1>1, <1>4, HeadTailProperties
<1>5. ASSUME Len(k) > 1, Tail(k) = <<w>> PROVE Len(k) = 2 /\ k[2] = w
  <2>1. k # <<>>
      BY <1>5
  <2>2. Len(<<w>>) = 1 /\ <<w>>[1] = w
      OBVIOUS
  <2>3. Len(Tail(k)) = 1 /\ Tail(k)[1] = w
      BY <1>5, <2>2, Zenon
  <2> QED
      BY <2>1, <2>3, <1>4, <1>3
<1>6. ASSUME Len(k) = 2, k[2] = w PROVE Len(k) > 1 /\ Tail(k) = <<w>>
  <2> DEFINE s == Tail(k)
             t == <<w>>
  <2>1. k # <<>>
      BY <1>6
  <2>2. s \in Seq(W) /\ t \in Seq(W) /\ Len(s) = 1 /\ Len(t) = 1 /\ s[1] = w /\ t[1] = w
    <3>1. t \in Seq(W) /\ Len(t) = 1 /\ t[1] = w
        BY <1>2
    <3> HIDE DEF W
    <3>2. s \in Seq(W) /\ Len(s) = 1 /\ \A i \in 1..1 : s[i] = k[i + 1]
        BY <2>1, <1>4, <1>6
    <3>3. s[1] = k[1 + 1]
      <4> HIDE DEF s
      <4> QED
          BY <3>2
    <3> HIDE DEF s, t
    <3>4. 1 + 1 = 2
        OBVIOUS
    <3> QED
        BY <1>6, <3>1, <3>2, <3>3, <3>4, Zenon
  <2> HIDE DEF s, t, W
  <2>3. \A i \in 1..Len(s) : s[i] = t[i]
      BY <2>2
  <2>4. s = t
      BY <2>2, <2>3, SeqEqual
  <2> QED
      BY <2>4, <1>6 DEF s, t
<1> QED
    BY <1>5, <1>6

\* The file that an accelerator is told is the one that the definition names.
LEMMA FileIsResolved ==
    ASSUME NEW engine \in {"duckdb", "sqlite"}, NEW params, NEW ss, NEW name,
           DOMAIN params \subseteq Seq(STRING),
           \A k \in DOMAIN params : params[k] \in Seq(STRING) /\ References(params[k]) = {}
    PROVE  FileOf(try_new(AcceleratorPrefix(engine), AcceleratorParameters(engine),
                          get_params_with_secrets(ss, params), ss).params, <<"file">>, name)
             = FileOf(params, <<engine, "file">>, name)
<1> DEFINE spec == Spec0(<<"file">>, TRUE)
           specs == {spec}
           u == get_params_with_secrets(ss, params)
           key == <<engine, "file">>
           made == try_new(engine, specs, u, ss)
           resolved(s) ==
               IF \E k \in DOMAIN u : s \in accepted(engine, specs, k)
               THEN Found(u[CHOOSE k \in DOMAIN u : s \in accepted(engine, specs, k)])
               ELSE IF s.secret /\ IsFound(get_secret(ss, <<engine>> \o s.name))
               THEN get_secret(ss, <<engine>> \o s.name)
               ELSE IF s.default # Empty THEN Found(s.default) ELSE Absent
           pick(n) == CHOOSE s \in specs : s.name = n
           have == {s \in specs : IsFound(resolved(s))}
<1>1. AcceleratorPrefix(engine) = engine /\ AcceleratorParameters(engine) = specs
  <2>1. AcceleratorPrefix(engine) = engine
      BY DEF AcceleratorPrefix
  <2>2. Connector0({"file"}) = specs
      BY DEF Connector0, connector
  <2> QED
      BY <2>1, <2>2 DEF AcceleratorParameters
<1>2. DOMAIN u = DOMAIN params /\ \A k \in DOMAIN params : u[k] = params[k]
    BY PlainIsKept DEF get_params_with_secrets
<1>3. spec.name = <<"file">> /\ spec.prefixed = TRUE /\ spec.secret = FALSE /\ spec.default = Empty
    BY DEF Spec0
<1>4. made.params = [n \in {s.name : s \in have} |->
                        resolved(pick(n)).value]
    BY Zenon DEF try_new
<1> HIDE DEF spec, u, made
<1>5. ASSUME NEW k \in Seq(STRING) PROVE spec \in accepted(engine, specs, k) <=> k = key
  <2>1. spec \in accepted(engine, specs, k)
            <=> Len(k) > 1 /\ k[1] = engine /\ Tail(k) = <<"file">>
      BY <1>3 DEF accepted
  <2>2. Len(k) > 1 /\ Tail(k) = <<"file">> <=> Len(k) = 2 /\ k[2] = "file"
    <3> HIDE DEF specs, key, made, resolved, pick, have
    <3> QED
        BY TwoWords, Zenon
  <2>3. Len(k) = 2 /\ k[1] = engine /\ k[2] = "file" <=> k = key
    <3>1. ASSUME Len(k) = 2, k[1] = engine, k[2] = "file" PROVE k = key
        BY <3>1
    <3>2. ASSUME k = key PROVE Len(k) = 2 /\ k[1] = engine /\ k[2] = "file"
        BY <3>2
    <3> QED
        BY <3>1, <3>2
  <2> HIDE DEF key
  <2> QED
      BY <2>1, <2>2, <2>3, Zenon
<1>6. CASE key \in DOMAIN params
  <2>1. (CHOOSE k \in DOMAIN u : spec \in accepted(engine, specs, k)) = key
      BY <1>2, <1>5, <1>6
  <2>2. resolved(spec) = Found(params[key])
    <3>1. \E k \in DOMAIN u : spec \in accepted(engine, specs, k)
        BY <1>2, <1>5, <1>6
    <3> QED
        BY <3>1, <2>1, <1>2, <1>3, <1>6
  <2> HIDE DEF resolved
  <2>3. have = {spec}
      BY <2>2 DEF IsFound, Found
  <2>4. <<"file">> \in DOMAIN made.params /\ made.params[<<"file">>] = params[key]
    <3>1. pick(<<"file">>) = spec
        BY <1>3
    <3>2. {s.name : s \in have} = {<<"file">>}
        BY <1>3, <2>3
    <3> HIDE DEF have, specs, pick
    <3> QED
        BY <3>1, <3>2, <1>4, <2>2 DEF Found
  <2> QED
      BY <1>1, <1>6, <2>4 DEF FileOf, made, u
<1>7. CASE key \notin DOMAIN params
  <2>1. ~\E k \in DOMAIN u : spec \in accepted(engine, specs, k)
      BY <1>2, <1>5, <1>7
  <2>2. resolved(spec) = Absent
      BY <2>1, <1>3
  <2> HIDE DEF resolved
  <2>3. have = {}
      BY <2>2 DEF IsFound, Absent
  <2>4. <<"file">> \notin DOMAIN made.params
    <3>1. {s.name : s \in have} = {}
        BY <2>3
    <3> HIDE DEF have, specs
    <3> QED
        BY <3>1, <1>4
  <2> QED
      BY <1>1, <1>7, <2>4 DEF FileOf, made, u
<1> QED
    BY <1>6, <1>7

\* What a definition may be.
LEMMA DefinitionIs ==
    ASSUME DefsInv, NEW d \in Datasets
    PROVE  /\ \A j, k \in def[d].keys : j = k
           /\ \A o \in Datasets \ {d} : def[o].name # def[d].name
           /\ def[d].accel # None =>
                /\ def[d].catalog = None
                /\ IsFiniteSet(DOMAIN def[d].accel.on_conflict)
                /\ \A k \in DOMAIN def[d].accel.on_conflict :
                      def[d].accel.on_conflict[k] \in {"upsert", "drop"}
                /\ DOMAIN def[d].accel.params \subseteq Seq(STRING)
                /\ \A k \in DOMAIN def[d].accel.params : def[d].accel.params[k] \in Seq(STRING)
<1>1. def[d] \in Definitions[d] /\ \A o \in Datasets : def[o] \in Definitions[o]
    BY DEF DefsInv
<1> QED
    BY <1>1, DefinitionsAssumption

\* Whoever is not refused is valid, and its file is open.
LEMMA FilesAreOpen ==
    ASSUME DefsInv, FilesInv, NEW o \in Datasets, def[o].accel # None, Refusal(def[o]) = "ok",
           file_path(def[o]) # None
    PROVE  DatasetValid(def[o]) = "ok" /\ file_path(def[o]) \in files
<1> DEFINE checks == <<Valid(def[o]), init(def[o])>>
<1>1. checks[1] = "ok" /\ checks[2] = "ok"
  <2>1. DOMAIN checks = 1..2
      OBVIOUS
  <2>2. FirstError(checks) = "ok"
      BY DEF Refusal
  <2> HIDE DEF checks
  <2> QED
      BY <2>1, <2>2, FirstErrorOk
<1>2. Valid(def[o]) = "ok" /\ init(def[o]) = "ok"
    BY <1>1
<1>3. def[o].catalog = None
    BY DefinitionIs
<1> QED
    BY <1>2, <1>3 DEF Valid, FilesInv, InitFiles

\* A table that is registered is what the definition says.
LEMMA RegisteredTable ==
    ASSUME DefsInv, FilesInv, NEW d \in Datasets, pc[d] # "refused", NEW p, NEW ss, NEW state,
           Register(def[d], p, ss, Others(d), files, state).error = "ok", is_accelerated(def[d])
    PROVE  TableIs(d, Register(def[d], p, ss, Others(d), files, state).table)
<1> DEFINE c == def[d]
           a == c.accel
           t == create_accelerator_table(c, c.schema, c.keys, ss, TRUE, Others(d), files)
           own == table_constraints(a, c.schema)
           made == try_new(AcceleratorPrefix(a.engine), AcceleratorParameters(a.engine),
                           get_params_with_secrets(ss, a.params), ss)
<1>1. Register(def[d], p, ss, Others(d), files, state).table = t
    BY DEF Register
<1>2. t.error = "ok"
  <2> DEFINE write == Connector(source(c), p, Seen(c, None), SourceOf(c, p, state)).write
             checks == <<register_dataset(c),
                         IF ~c.read_write THEN "ok"
                         ELSE IF write = "none" THEN "WriteProviderNotImplemented" ELSE write,
                         IF is_accelerated(c) THEN t.error ELSE "ok">>
  <2>1. FirstError(checks) = "ok"
      BY DEF Register
  <2>2. DOMAIN checks = 1..3 /\ checks[3] = t.error
    <3> HIDE DEF t, write
    <3> QED
        OBVIOUS
  <2> HIDE DEF checks, t
  <2> QED
      BY <2>1, <2>2, FirstErrorOk
<1>3. /\ t.file = IF InFile(a) THEN FileOf(made.params, <<"file">>, c.name) ELSE None
      /\ t.attached = IF InFile(a) THEN attach_databases(c, Others(d), files) ELSE {}
      /\ t.keys = IF own.keys # {} THEN own.keys ELSE c.keys
      /\ t.conflict = conflict(a, c.keys)
    BY DEF create_accelerator_table, InFile
<1>4. own.error = "ok" /\ conflict(a, c.keys).error = "ok"
  <2> DEFINE checks == <<validate_indexes(a, c.schema),
                         Check(made.ok, "AccelerationCreationFailed"),
                         conflict(a, c.keys).error, own.error, build(a.engine, a.mode),
                         create_external_table(a.engine, TRUE)>>
  <2>1. t.error = FirstError(checks)
      BY DEF create_accelerator_table
  <2>2. DOMAIN checks = 1..6 /\ checks[3] = conflict(a, c.keys).error /\ checks[4] = own.error
    <3> HIDE DEF own, made
    <3> QED
        OBVIOUS
  <2> HIDE DEF checks, t
  <2> QED
      BY <1>2, <2>1, <2>2, FirstErrorOk
<1> HIDE DEF t, made, own
<1>5. Refusal(c) = "ok"
    BY DEF FilesInv
<1>6. ASSUME InFile(a), PlainParams(c) PROVE t.file = file_path(c)
  <2>1. t.file = FileOf(a.params, <<a.engine, "file">>, c.name)
    <3>1. /\ a.engine \in {"duckdb", "sqlite"}
          /\ DOMAIN a.params \subseteq Seq(STRING)
          /\ \A k \in DOMAIN a.params : a.params[k] \in Seq(STRING) /\ References(a.params[k]) = {}
        BY <1>6, DefinitionIs DEF InFile, PlainParams, is_accelerated
    <3>2. FileOf(made.params, <<"file">>, c.name) = FileOf(a.params, <<a.engine, "file">>, c.name)
      <4> DEFINE e == a.engine
                 q == a.params
                 n == c.name
      <4>1. /\ e \in {"duckdb", "sqlite"} /\ DOMAIN q \subseteq Seq(STRING)
            /\ \A k \in DOMAIN q : q[k] \in Seq(STRING) /\ References(q[k]) = {}
          BY <3>1
      <4> HIDE DEF e, q, n
      <4>2. FileOf(try_new(AcceleratorPrefix(e), AcceleratorParameters(e),
                           get_params_with_secrets(ss, q), ss).params, <<"file">>, n)
              = FileOf(q, <<e, "file">>, n)
          BY <4>1, FileIsResolved
      <4> QED
          BY <4>2, Zenon DEF made, e, q, n
    <3> QED
        BY <3>2, <1>3, <1>6
  <2> QED
      BY <2>1, <1>6 DEF file_path, InFile, is_file_accelerated, is_accelerated
<1>7. ASSUME t.file # None, NEW o \in Datasets \ {d},
             def[o].accel # None, def[o].accel.engine = a.engine,
             Refusal(def[o]) = "ok", file_path(def[o]) # None
      PROVE  file_path(def[o]) \in t.attached
  <2>1. InFile(a)
      BY <1>3, <1>7
  <2>2. def[o].catalog = None /\ def[o] # c
      BY <1>7, DefinitionIs
  <2>3. def[o] \in Others(d)
      BY <2>2 DEF Others
  <2>4. def[o] \in get_initialized_datasets(Others(d), files)
    <3>1. DatasetValid(def[o]) = "ok" /\ file_path(def[o]) \in files
        BY <1>7, FilesAreOpen
    <3>2. is_initialized(def[o], files)
        BY <3>1, <1>7, <2>1 DEF is_initialized, InFile
    <3> QED
        BY <2>3, <3>1, <3>2 DEF get_initialized_datasets
  <2>5. def[o].accel.mode = "file"
      BY <1>7, <2>1 DEF file_path, InFile, is_file_accelerated
  <2> QED
      BY <1>3, <1>7, <2>1, <2>2, <2>4, <2>5 DEF attach_databases
<1> QED
    BY <1>1, <1>3, <1>4, <1>5, <1>6, <1>7 DEF TableIs, own

(***************************************************************************)
(* The registry                                                            *)
(***************************************************************************)

\* A load joins the line at its end.
LEMMA JoinsLine ==
    ASSUME TypeInv, LockInv, NEW d \in Datasets, pc[d] = "start",
           pc' = [pc EXCEPT ![d] = "new"], queue' = Append(queue, d)
    PROVE  LockInv'
<1> DEFINE n == Len(queue)
<1>1. /\ queue \in Seq(Datasets) /\ n \in Nat /\ DOMAIN queue = 1..n
      /\ queue' \in Seq(Datasets) /\ DOMAIN queue' = 1..(n + 1)
      /\ \A i \in 1..n : queue'[i] = queue[i]
      /\ queue'[n + 1] = d
    BY AppendProperties, LenProperties DEF LockInv
<1>2. \A i \in 1..n : queue[i] # d
    BY <1>1 DEF LockInv
<1>3. \A i, j \in DOMAIN queue' : queue'[i] = queue'[j] => i = j
  <2>1. \A i, j \in 1..n : queue[i] = queue[j] => i = j
      BY <1>1 DEF LockInv
  <2>2. \A i \in DOMAIN queue' : i \in 1..n \/ i = n + 1
      BY <1>1
  <2> HIDE DEF n
  <2> QED
      BY <1>1, <1>2, <2>1, <2>2
<1>4. ASSUME NEW e \in Datasets
      PROVE (\E i \in DOMAIN queue' : queue'[i] = e) <=> pc'[e] \in {"new", "create"}
  <2>1. CASE e = d
      BY <2>1, <1>1 DEF TypeInv
  <2>2. CASE e # d
    <3>1. pc'[e] = pc[e]
        BY <2>2 DEF TypeInv
    <3>2. (\E i \in DOMAIN queue' : queue'[i] = e) <=> (\E i \in DOMAIN queue : queue[i] = e)
      <4>1. ASSUME NEW i \in DOMAIN queue', queue'[i] = e PROVE \E j \in DOMAIN queue : queue[j] = e
        <5>1. i \in 1..n
            BY <4>1, <2>2, <1>1
        <5> QED
            BY <5>1, <4>1, <1>1
      <4>2. ASSUME NEW i \in DOMAIN queue, queue[i] = e PROVE \E j \in DOMAIN queue' : queue'[j] = e
        <5>1. i \in DOMAIN queue' /\ queue'[i] = e
            BY <4>2, <1>1
        <5> QED
            BY <5>1
      <4> QED
          BY <4>1, <4>2
    <3> QED
        BY <3>1, <3>2 DEF LockInv
  <2> QED
      BY <2>1, <2>2
<1>5. ASSUME NEW e \in Datasets, pc'[e] = "create" PROVE Holds(e)'
  <2>1. e # d /\ pc[e] = "create"
      BY <1>5 DEF TypeInv
  <2>2. queue # <<>> /\ Head(queue) = e
      BY <2>1 DEF LockInv, Holds
  <2>3. n > 0 /\ queue[1] = e
      BY <2>2, <1>1
  <2>4. queue' # <<>> /\ Head(queue') = queue'[1]
      BY <1>1
  <2> QED
      BY <2>3, <2>4, <1>1 DEF Holds
<1> QED
    BY <1>1, <1>3, <1>4, <1>5 DEF LockInv

\* The holder leaves the line, and the next one has the registry.
LEMMA LeavesLine ==
    ASSUME TypeInv, LockInv, NEW d \in Datasets, Holds(d), NEW x, x \notin {"new", "create"},
           pc' = [pc EXCEPT ![d] = x], queue' = Tail(queue)
    PROVE  LockInv'
<1> DEFINE n == Len(queue)
<1>1. /\ queue \in Seq(Datasets) /\ n \in Nat /\ n > 0 /\ DOMAIN queue = 1..n /\ queue[1] = d
      /\ queue' \in Seq(Datasets) /\ Len(queue') = n - 1
      /\ \A i \in 1..Len(queue') : queue'[i] = queue[i + 1]
  <2>1. queue \in Seq(Datasets) /\ queue # <<>> /\ Head(queue) = d
      BY DEF LockInv, Holds
  <2> QED
      BY <2>1, HeadTailProperties, LenProperties
<1>2. DOMAIN queue' = 1..(n - 1) /\ \A i \in 1..(n - 1) : queue'[i] = queue[i + 1]
    BY <1>1, LenProperties
<1>3. \A i \in 2..n : queue[i] # d
  <2>1. \A i, j \in 1..n : queue[i] = queue[j] => i = j
      BY <1>1 DEF LockInv
  <2> QED
      BY <2>1, <1>1
<1>4. ASSUME NEW i \in DOMAIN queue', NEW j \in DOMAIN queue', queue'[i] = queue'[j] PROVE i = j
  <2>1. i + 1 \in DOMAIN queue /\ j + 1 \in DOMAIN queue /\ queue[i + 1] = queue[j + 1]
      BY <1>4, <1>1, <1>2
  <2>2. i + 1 = j + 1
      BY <2>1 DEF LockInv
  <2> QED
      BY <2>2, <1>1, <1>2
<1>5. ASSUME NEW e \in Datasets
      PROVE (\E i \in DOMAIN queue' : queue'[i] = e) <=> pc'[e] \in {"new", "create"}
  <2>1. CASE e = d
    <3>1. ASSUME NEW i \in DOMAIN queue' PROVE queue'[i] # d
      <4>1. i + 1 \in 2..n /\ queue'[i] = queue[i + 1]
          BY <1>1, <1>2
      <4> QED
          BY <4>1, <1>3
    <3> QED
        BY <3>1, <2>1 DEF TypeInv
  <2>2. CASE e # d
    <3>1. pc'[e] = pc[e]
        BY <2>2 DEF TypeInv
    <3>2. (\E i \in DOMAIN queue' : queue'[i] = e) <=> (\E i \in DOMAIN queue : queue[i] = e)
      <4>1. ASSUME NEW i \in DOMAIN queue', queue'[i] = e PROVE \E j \in DOMAIN queue : queue[j] = e
        <5>1. i + 1 \in DOMAIN queue /\ queue[i + 1] = e
            BY <4>1, <1>1, <1>2
        <5> QED
            BY <5>1
      <4>2. ASSUME NEW i \in DOMAIN queue, queue[i] = e PROVE \E j \in DOMAIN queue' : queue'[j] = e
        <5>1. i # 1
            BY <4>2, <2>2, <1>1
        <5>2. i - 1 \in 1..(n - 1) /\ (i - 1) + 1 = i
            BY <5>1, <1>1
        <5>3. i - 1 \in DOMAIN queue' /\ queue'[i - 1] = e
            BY <5>2, <4>2, <1>2
        <5> QED
            BY <5>3
      <4> QED
          BY <4>1, <4>2
    <3> QED
        BY <3>1, <3>2 DEF LockInv
  <2> QED
      BY <2>1, <2>2
<1>6. ASSUME NEW e \in Datasets, pc'[e] = "create" PROVE Holds(e)'
  <2>1. e # d /\ pc[e] = "create"
      BY <1>6 DEF TypeInv
  <2>2. Head(queue) = e
      BY <2>1 DEF LockInv, Holds
  <2> QED
      BY <2>1, <2>2 DEF Holds
<1> QED
    BY <1>1, <1>4, <1>5, <1>6 DEF LockInv

\* The line stays, and a load goes on inside of it or outside of it.
LEMMA LineStays ==
    ASSUME TypeInv, LockInv, NEW d \in Datasets, NEW x, pc' = [pc EXCEPT ![d] = x],
           queue' = queue,
           \/ pc[d] = "new" /\ x = "create" /\ Holds(d)
           \/ pc[d] \notin {"new", "create"} /\ x \notin {"new", "create"}
    PROVE  LockInv'
BY DEF TypeInv, LockInv, Holds

\* The invariant holds after a step of the load of d that registers no table.
LEMMA LoadStep ==
    ASSUME IInv, NEW d \in Datasets, NEW x \in Places \ {"refused"}, pc' = [pc EXCEPT ![d] = x],
           pc[d] \notin {"refused", "done"}, LockInv', def' = def, table' = table,
           files' = files, DOMAIN user' = Datasets, DOMAIN held' = Datasets,
           \A e \in Datasets \ {d} : held'[e] = held[e],
           x \in {"create", "read", "register", "done"} => Equipped(d)'
    PROVE  IInv'
<1>1. DefsInv' /\ TypeInv'
    BY DEF IInv, DefsInv, TypeInv
<1>2. \A e \in Datasets : pc'[e] = IF e = d THEN x ELSE pc[e]
    BY DEF IInv, TypeInv
<1>3. ParamsInv'
    BY <1>2 DEF IInv, ParamsInv, Equipped
<1>4. FilesInv'
    BY <1>2 DEF IInv, FilesInv
<1>5. TablesInv'
  <2> SUFFICES ASSUME NEW e \in Datasets, table[e] # None0
               PROVE  pc'[e] = "done" /\ TableIs(e, table[e])'
      BY DEF TablesInv
  <2>1. pc[e] = "done" /\ TableIs(e, table[e])
      BY DEF IInv, TablesInv
  <2>2. TableIs(e, table[e])'
      BY <2>1 DEF TableIs
  <2> QED
      BY <1>2, <2>1, <2>2
<1> QED
    BY <1>1, <1>3, <1>4, <1>5 DEF IInv

(***************************************************************************)
(* The steps of a load                                                     *)
(***************************************************************************)

\* The secrets are put in place, and the lock is waited for.
LEMMA GetParamsInv ==
    ASSUME IInv, NEW d \in Datasets, GetParams(d)
    PROVE  IInv'
<1>1. pc[d] = "start" /\ pc' = [pc EXCEPT ![d] = "new"] /\ queue' = Append(queue, d)
    BY DEF GetParams
<1>2. LockInv'
    BY <1>1, JoinsLine DEF IInv
<1>3. def' = def /\ table' = table /\ files' = files /\ held' = held /\ DOMAIN user' = Datasets
    BY DEF GetParams, world, IInv, TypeInv
<1> QED
    BY <1>1, <1>2, <1>3, LoadStep DEF Places, IInv, TypeInv

\* A connector gets its parameters, all that are required.
LEMMA NewParametersInv ==
    ASSUME IInv, NEW d \in Datasets, NewParameters(d)
    PROVE  IInv'
<1> DEFINE e == NewParams(def[d], user[d], stores)
           made == Made(def[d], user[d], stores)
<1>1. pc[d] = "new" /\ Holds(d) /\ def' = def /\ table' = table /\ files' = files /\ user' = user
    BY DEF NewParameters, world
<1>2. CASE e = "ok"
  <2>1. /\ pc' = [pc EXCEPT ![d] = "create"]
        /\ held' = [held EXCEPT ![d] = made.params] /\ queue' = queue
      BY <1>2 DEF NewParameters
  <2>2. LockInv'
      BY <1>1, <2>1, LineStays DEF IInv
  <2>3. Equipped(d)'
    <3> DEFINE f == Factories[source(def[d])]
    <3>1. source(def[d]) \in DOMAIN Factories
        BY <1>2 DEF NewParams
    <3>2. made = try_new(f[1], f[2], user[d], stores)
        BY DEF Made
    <3>3. made.ok
      <4>1. Check(made.ok, MissingParameter) = "ok"
          BY <1>2, <3>1 DEF NewParams
      <4> QED
          BY <4>1 DEF Check, MissingParameter
    <3>4. \A s \in f[2] : s.required => s.name \in DOMAIN made.params
      <4> HIDE DEF f, made
      <4> QED
          BY <3>2, <3>3, RequiredAreThere
    <3>5. held'[d] = made.params
        BY <2>1 DEF IInv, TypeInv
    <3> HIDE DEF made
    <3> QED
        BY <1>1, <3>1, <3>4, <3>5 DEF Equipped
  <2>4. DOMAIN held' = Datasets /\ \A o \in Datasets \ {d} : held'[o] = held[o]
      BY <2>1 DEF IInv, TypeInv
  <2> QED
      BY <1>1, <2>1, <2>2, <2>3, <2>4, LoadStep DEF Places, IInv, TypeInv
<1>3. CASE e # "ok"
  <2>1. pc' = [pc EXCEPT ![d] = "start"] /\ queue' = Tail(queue) /\ held' = held
      BY <1>3 DEF NewParameters, Fail
  <2>2. LockInv'
      BY <1>1, <2>1, LeavesLine DEF IInv
  <2> QED
      BY <1>1, <2>1, <2>2, LoadStep DEF Places, IInv, TypeInv
<1> QED
    BY <1>2, <1>3

\* The source answered, and the lock is given back.
LEMMA CreateConnectorInv ==
    ASSUME IInv, NEW d \in Datasets, CreateConnector(d)
    PROVE  IInv'
<1>1. /\ pc[d] = "create" /\ queue' = Tail(queue)
      /\ def' = def /\ table' = table /\ files' = files /\ user' = user /\ held' = held
    BY DEF CreateConnector, world
<1>2. PICK x \in {"read", "start"} : pc' = [pc EXCEPT ![d] = x]
    BY DEF CreateConnector, Fail
<1>3. LockInv'
  <2>1. Holds(d)
      BY <1>1 DEF IInv, LockInv
  <2> QED
      BY <2>1, <1>1, <1>2, LeavesLine DEF IInv
<1>4. Equipped(d)'
    BY <1>1 DEF IInv, ParamsInv, Equipped
<1> QED
    BY <1>1, <1>2, <1>3, <1>4, LoadStep DEF Places, IInv, TypeInv

\* The table of the source, or an error.
LEMMA ReadProviderInv ==
    ASSUME IInv, NEW d \in Datasets, ReadProvider(d)
    PROVE  IInv'
<1>1. /\ pc[d] = "read" /\ queue' = queue
      /\ def' = def /\ table' = table /\ files' = files /\ user' = user /\ held' = held
    BY DEF ReadProvider
<1>2. PICK x \in {"register", "start"} : pc' = [pc EXCEPT ![d] = x]
    BY DEF ReadProvider, Fail
<1>3. LockInv'
    BY <1>1, <1>2, LineStays DEF IInv
<1>4. Equipped(d)'
    BY <1>1 DEF IInv, ParamsInv, Equipped
<1> QED
    BY <1>1, <1>2, <1>3, <1>4, LoadStep DEF Places, IInv, TypeInv

\* The accelerated table is created and registered, or an error.
LEMMA RegisterDatasetInv ==
    ASSUME IInv, NEW d \in Datasets, RegisterDataset(d)
    PROVE  IInv'
<1> DEFINE r == Register(def[d], held[d], stores, Others(d), files, net[d])
<1>1. pc[d] = "register" /\ queue' = queue /\ def' = def /\ user' = user /\ held' = held
    BY DEF RegisterDataset
<1>2. Equipped(d)'
    BY <1>1 DEF IInv, ParamsInv, Equipped
<1>3. CASE r.error = "ok"
  <2>1. /\ pc' = [pc EXCEPT ![d] = "done"] /\ table' = [table EXCEPT ![d] = r.table]
        /\ files \subseteq files'
      BY <1>3 DEF RegisterDataset
  <2>2. LockInv'
      BY <1>1, <2>1, LineStays DEF IInv
  <2>3. DefsInv' /\ TypeInv'
      BY <1>1, <2>1 DEF IInv, DefsInv, TypeInv, Places
  <2>4. /\ \A e \in Datasets : pc'[e] = IF e = d THEN "done" ELSE pc[e]
        /\ \A e \in Datasets : table'[e] = IF e = d THEN r.table ELSE table[e]
    <3> HIDE DEF r
    <3> QED
        BY <2>1 DEF IInv, TypeInv
  <2>5. ParamsInv'
      BY <1>1, <1>2, <2>4 DEF IInv, ParamsInv, Equipped
  <2>6. FilesInv'
      BY <1>1, <2>1, <2>4 DEF IInv, FilesInv
  <2>7. TablesInv'
    <3> SUFFICES ASSUME NEW e \in Datasets, table'[e] # None0
                 PROVE  pc'[e] = "done" /\ TableIs(e, table[e])'
        BY DEF TablesInv
    <3>1. CASE e = d
      <4>1. is_accelerated(def[d])
        <5>1. r.table # None0
            BY <2>4, <3>1
        <5> QED
            BY <5>1 DEF Register
      <4>2. TableIs(d, r.table)
          BY <4>1, <1>1, <1>3, RegisteredTable DEF IInv
      <4> HIDE DEF r
      <4> QED
          BY <4>2, <2>4, <3>1, <1>1 DEF TableIs
    <3>2. CASE e # d
      <4>1. pc[e] = "done" /\ TableIs(e, table[e])
          BY <2>4, <3>2 DEF IInv, TablesInv
      <4> HIDE DEF r
      <4> QED
          BY <4>1, <2>4, <3>2, <1>1 DEF TableIs
    <3> QED
        BY <3>1, <3>2
  <2> QED
      BY <2>2, <2>3, <2>5, <2>6, <2>7 DEF IInv
<1>4. CASE r.error # "ok"
  <2>1. pc' = [pc EXCEPT ![d] = "start"] /\ table' = table /\ files' = files
      BY <1>4 DEF RegisterDataset, Fail
  <2>2. LockInv'
      BY <1>1, <2>1, LineStays DEF IInv
  <2> QED
      BY <1>1, <1>2, <2>1, <2>2, LoadStep DEF Places, IInv, TypeInv
<1> QED
    BY <1>3, <1>4

(***************************************************************************)
(* The system                                                              *)
(***************************************************************************)

\* A process that starts has loaded nothing.
LEMMA InitInv == Init => IInv
<1> SUFFICES ASSUME Init PROVE IInv
    OBVIOUS
<1>1. DefsInv /\ TypeInv
    BY DEF Init, DefsInv, TypeInv, Places
<1>2. LockInv
  <2>1. queue \in Seq(Datasets) /\ DOMAIN queue = {}
      BY DEF Init
  <2> QED
      BY <2>1 DEF Init, LockInv
<1>3. ParamsInv /\ FilesInv /\ TablesInv
    BY DEF Init, ParamsInv, FilesInv, TablesInv
<1> QED
    BY <1>1, <1>2, <1>3 DEF IInv

\* The next start of the process.
LEMMA RestartInv ==
    ASSUME IInv, Restart
    PROVE  IInv'
<1>1. DefsInv'
    BY DEF Restart, IInv, DefsInv
<1>2. /\ pc' = [d \in Datasets |-> IF Refusal(def[d])' = "ok" THEN "start" ELSE "refused"]
      /\ queue' = <<>> /\ user' = [d \in Datasets |-> <<>>] /\ held' = [d \in Datasets |-> <<>>]
      /\ table' = [d \in Datasets |-> None0]
    BY DEF Restart, Boot
<1>3. \A d \in Datasets : InitFiles(def[d])' \subseteq files'
    BY DEF Restart, Boot
<1>4. TypeInv'
    BY <1>2 DEF TypeInv, Places
<1>5. LockInv'
  <2>1. queue' \in Seq(Datasets) /\ DOMAIN queue' = {}
      BY <1>2
  <2> QED
      BY <1>2, <2>1 DEF LockInv
<1>6. ParamsInv' /\ FilesInv' /\ TablesInv'
    BY <1>2, <1>3 DEF ParamsInv, FilesInv, TablesInv
<1> QED
    BY <1>1, <1>4, <1>5, <1>6 DEF IInv

\* What happens around the loads disturbs nothing.
LEMMA QuietInv ==
    ASSUME IInv, UNCHANGED <<def, pc, queue, user, held, table, files>>
    PROVE  IInv'
<1>1. DefsInv' /\ TypeInv'
    BY DEF IInv, DefsInv, TypeInv
<1>2. LockInv'
    BY DEF IInv, LockInv, Holds
<1>3. ParamsInv' /\ FilesInv'
    BY DEF IInv, ParamsInv, Equipped, FilesInv
<1>4. TablesInv'
    BY DEF IInv, TablesInv, TableIs
<1> QED
    BY <1>1, <1>2, <1>3, <1>4 DEF IInv

\* Every step keeps the invariant.
LEMMA NextInv == IInv /\ [Next]_vars => IInv'
<1> SUFFICES ASSUME IInv, [Next]_vars PROVE IInv'
    OBVIOUS
<1>1. ASSUME NEW d \in Datasets, Step(d) PROVE IInv'
    BY <1>1, GetParamsInv, NewParametersInv, CreateConnectorInv, ReadProviderInv,
       RegisterDatasetInv DEF Step
<1>2. ASSUME NEW d \in Datasets, NEW state, SourceChanges(d, state) PROVE IInv'
    BY <1>2, QuietInv DEF SourceChanges, scanVars
<1>3. ASSUME NEW d \in Datasets, NEW limit, StartScan(d, limit) PROVE IInv'
    BY <1>3, QuietInv DEF StartScan, world
<1>4. CASE ScanPage
    BY <1>4, QuietInv DEF ScanPage, world
<1>5. ASSUME NEW i, StoreChanges(i) PROVE IInv'
    BY <1>5, QuietInv DEF StoreChanges, scanVars
<1>6. ASSUME NEW d \in Datasets, CollectionChanges(d) PROVE IInv'
    BY <1>6, QuietInv DEF CollectionChanges
<1>7. CASE Restart
    BY <1>7, RestartInv
<1>8. CASE UNCHANGED vars
    BY <1>8, QuietInv DEF vars
<1> QED
    BY <1>1, <1>2, <1>3, <1>4, <1>5, <1>6, <1>7, <1>8 DEF Next

\* The invariant holds for every set of datasets, definitions, stores and sources.
THEOREM ConnectorInvariance == Spec => []IInv
BY InitInv, NextInv, PTL DEF Spec

\* The registry of connectors has one user: whoever makes a connector is at the head
\* of the line, so that no two are made at once and the lock given back is its own.
THEOREM RegistryIsExclusive == Spec => [](\A d \in Datasets : pc[d] = "create" => Holds(d))
<1>1. IInv => \A d \in Datasets : pc[d] = "create" => Holds(d)
    BY DEF IInv, LockInv
<1> QED
    BY <1>1, ConnectorInvariance, PTL

\* A connector is never asked for anything without the parameters it requires,
\* whichever stores failed while they were read.
THEOREM ConnectorsAreEquipped == Spec => []ParamsInv
<1>1. IInv => ParamsInv
    BY DEF IInv
<1> QED
    BY <1>1, ConnectorInvariance, PTL

\* The conflict clause of one table: on a key of the table.
LEMMA ConflictIsOnKey ==
    ASSUME DefsInv, NEW d \in Datasets, TableIs(d, table[d]),
           table[d].conflict.does \in {"upsert", "drop"},
           LET a == def[d].accel
           IN  IF DOMAIN a.on_conflict = {} THEN Unique(a) \cup Key(a) = {}
               ELSE DOMAIN a.on_conflict \subseteq Unique(a) \cup Key(a)
    PROVE  table[d].conflict.on \in table[d].keys
<1> DEFINE c == def[d]
           a == c.accel
           own == table_constraints(a, c.schema)
           targets == Unique(a) \cup Key(a)
           n == Cardinality(DOMAIN a.on_conflict)
           cl == table[d].conflict
           user0 == on_conflict(a)
<1>1. /\ own.error = "ok" /\ table[d].keys = IF own.keys # {} THEN own.keys ELSE c.keys
      /\ cl = conflict(a, c.keys) /\ c.accel # None
    BY DEF TableIs, is_accelerated
<1>2. own.keys = targets
    BY <1>1 DEF table_constraints
<1>3. IsFiniteSet(DOMAIN a.on_conflict) /\ \A j, k \in c.keys : j = k
    BY <1>1, DefinitionIs
<1>4. n \in Nat /\ (n = 0 <=> DOMAIN a.on_conflict = {})
    BY <1>3, FS_CardinalityType, FS_EmptySet
<1> HIDE DEF own
<1>5. CASE DOMAIN a.on_conflict = {}
  <2>1. targets = {} /\ table[d].keys = c.keys
      BY <1>5, <1>1, <1>2
  <2>2. user0 = [error |-> "ok", does |-> None, on |-> {}]
      BY <1>4, <1>5 DEF on_conflict
  <2>3. cl = IF c.keys # {} THEN [error |-> "ok", does |-> "upsert", on |-> UNION c.keys] ELSE user0
      BY <1>1, <2>2 DEF conflict
  <2>4. c.keys # {}
      BY <2>2, <2>3, DefinitionsAssumption
  <2>5. PICK k \in c.keys : TRUE
      BY <2>4
  <2>6. c.keys = {k}
      BY <2>5, <1>3
  <2>7. UNION c.keys = k
      BY <2>6
  <2>8. cl.on = UNION c.keys
    <3> HIDE DEF cl, c
    <3> QED
        BY <2>3, <2>4
  <2> QED
      BY <2>1, <2>5, <2>7, <2>8
<1>6. CASE DOMAIN a.on_conflict # {}
  <2>1. DOMAIN a.on_conflict \subseteq targets /\ targets # {} /\ table[d].keys = targets
      BY <1>6, <1>1, <1>2
  <2>2. cl.does # "drop_all"
      OBVIOUS
  <2>3. CASE n > 1
    <3>1. user0 = [error |-> "ok", does |-> "drop_all", on |-> {}]
            \/ user0 = [error |-> "InvalidConfiguration"]
        BY <2>3, <1>4 DEF on_conflict
    <3>2. user0.error # "ok" \/ user0.does # None
        BY <3>1, DefinitionsAssumption
    <3>3. cl = user0
        BY <3>2, <1>1 DEF conflict
    <3>4. cl.error = "ok"
        BY DEF TableIs
    <3> QED
        BY <3>1, <3>3, <3>4, <2>2
  <2>4. CASE ~(n > 1)
    <3> DEFINE k == CHOOSE k \in DOMAIN a.on_conflict : TRUE
    <3>1. k \in DOMAIN a.on_conflict
        BY <1>6
    <3>2. user0 = [error |-> "ok", does |-> a.on_conflict[k], on |-> k]
        BY <2>4, <1>4, <1>6 DEF on_conflict
    <3> HIDE DEF k
    <3>3. a.on_conflict[k] # None
        BY <3>1, <1>1, DefinitionIs, DefinitionsAssumption
    <3>4. cl = user0
        BY <3>2, <3>3, <1>1 DEF conflict
    <3>5. cl.on = k
        BY <3>2, <3>4
    <3> QED
        BY <3>1, <3>5, <2>1
  <2> QED
      BY <2>3, <2>4
<1> QED
    BY <1>5, <1>6

\* The rows that conflict are found by a key of the table, whatever the definition,
\* but for the two cases the property leaves out.
THEOREM ConflictTargetsAreKeysHold == Spec => []ConflictTargetsAreKeys
<1>1. IInv => ConflictTargetsAreKeys
  <2> SUFFICES ASSUME IInv, NEW d \in Datasets, table[d] # None0,
                      table[d].conflict.does \in {"upsert", "drop"},
                      LET a == def[d].accel
                      IN  IF DOMAIN a.on_conflict = {} THEN Unique(a) \cup Key(a) = {}
                          ELSE DOMAIN a.on_conflict \subseteq Unique(a) \cup Key(a)
               PROVE  table[d].conflict.on \in table[d].keys
      BY DEF ConflictTargetsAreKeys
  <2>1. TableIs(d, table[d])
      BY DEF IInv, TablesInv
  <2> QED
      BY <2>1, ConflictIsOnKey DEF IInv
<1> QED
    BY <1>1, ConnectorInvariance, PTL

\* A table is in the file that was opened for its dataset, and has the files of the
\* other tables of its engine attached, when their names have no secrets in them.
THEOREM FileIsTheOneOpenedHolds == Spec => []FileIsTheOneOpened
<1>1. IInv => FileIsTheOneOpened
  <2> SUFFICES ASSUME IInv PROVE FileIsTheOneOpened
      OBVIOUS
  <2> DEFINE inFile(d) == table[d] # None0 /\ table[d].file # None
  <2>1. ASSUME NEW d \in Datasets, inFile(d)
        PROVE  TableIs(d, table[d]) /\ InFile(def[d].accel)
      BY <2>1 DEF IInv, TablesInv, TableIs
  <2>2. ASSUME NEW d \in Datasets, inFile(d), PlainParams(def[d])
        PROVE  file_path(def[d]) = table[d].file
      BY <2>1, <2>2 DEF TableIs
  <2>3. ASSUME NEW d \in Datasets, NEW o \in Datasets, inFile(d), inFile(o), PlainParams(def[o]),
               o # d, def[o].accel.engine = def[d].accel.engine
        PROVE  table[o].file \in table[d].attached
    <3>1. TableIs(d, table[d]) /\ TableIs(o, table[o])
        BY <2>1, <2>3
    <3>2. def[o].accel # None /\ Refusal(def[o]) = "ok"
        BY <3>1 DEF TableIs, is_accelerated
    <3>3. file_path(def[o]) = table[o].file /\ table[o].file # None
        BY <2>2, <2>3
    <3> QED
        BY <3>1, <3>2, <3>3, <2>3 DEF TableIs
  <2> QED
      BY <2>2, <2>3 DEF FileIsTheOneOpened, PlainParams
<1> QED
    BY <1>1, ConnectorInvariance, PTL

\* The restarts are counted.
Counted == restarts \in Nat
\* No step takes a restart back.
LEMMA RestartsAreCounted == Spec => []Counted
<1>1. Init => Counted
    BY DEF Init, Counted
<1>2. Counted /\ [Next]_vars => Counted'
  <2> SUFFICES ASSUME Counted, [Next]_vars, restarts' # restarts, restarts' # restarts + 1 PROVE FALSE
      BY DEF Counted
  <2>1. ASSUME NEW d \in Datasets, Step(d) PROVE FALSE
      BY <2>1 DEF Step, GetParams, NewParameters, CreateConnector, ReadProvider, RegisterDataset,
                  world
  <2>2. ASSUME NEW d \in Datasets, NEW state, SourceChanges(d, state) PROVE FALSE
      BY <2>2 DEF SourceChanges
  <2>3. ASSUME NEW d \in Datasets, NEW limit, StartScan(d, limit) PROVE FALSE
      BY <2>3 DEF StartScan, world
  <2>4. ~ScanPage /\ ~Restart /\ vars' # vars
      BY DEF ScanPage, world, Restart, vars
  <2>5. ASSUME NEW i, StoreChanges(i) PROVE FALSE
      BY <2>5 DEF StoreChanges
  <2>6. ASSUME NEW d \in Datasets, CollectionChanges(d) PROVE FALSE
      BY <2>6 DEF CollectionChanges
  <2> QED
      BY <2>1, <2>2, <2>3, <2>4, <2>5, <2>6 DEF Next
<1> QED
    BY <1>1, <1>2, PTL DEF Spec

\* A registered table is only replaced when the process restarts.
TablesKept == \A d \in Datasets : table[d] # None0 => table'[d] = table[d]

\* A table that is registered stays as it is until the process restarts: no attempt
\* of its own or of another dataset takes it away or replaces it.
THEOREM TablesStay ==
    Spec => [][restarts' = restarts => TablesKept]_vars
<1>1. ASSUME IInv, Counted, [Next]_vars, restarts' = restarts, NEW d \in Datasets, table[d] # None0
      PROVE  table'[d] = table[d]
  <2>1. pc[d] = "done" /\ DOMAIN table = Datasets
      BY <1>1 DEF IInv, TablesInv, TypeInv
  <2>2. ASSUME NEW e \in Datasets, Step(e) PROVE table'[d] = table[d]
    <3>1. CASE RegisterDataset(e)
      <4>1. pc[e] = "register" /\ e # d
          BY <3>1, <2>1 DEF RegisterDataset
      <4> QED
          BY <3>1, <4>1, <2>1 DEF RegisterDataset
    <3>2. CASE ~RegisterDataset(e)
        BY <2>2, <3>2 DEF Step, GetParams, NewParameters, CreateConnector, ReadProvider
    <3> QED
        BY <3>1, <3>2
  <2>3. CASE Restart
    <3>1. restarts' = restarts + 1 /\ restarts < MaxRestarts
        BY <2>3 DEF Restart
    <3> QED
        BY <3>1, <1>1 DEF Counted
  <2> QED
      BY <1>1, <2>2, <2>3 DEF Next, SourceChanges, StartScan, ScanPage, StoreChanges,
                               CollectionChanges, vars
<1>2. IInv /\ Counted /\ [Next]_vars => [restarts' = restarts => TablesKept]_vars
    BY <1>1 DEF TablesKept
<1> QED
    BY <1>2, ConnectorInvariance, RestartsAreCounted, PTL DEF Spec

(***************************************************************************)
(* The stores that are loaded                                              *)
(***************************************************************************)

\* The recursion of the fold in load_from, over the sets of indices.
StoreStep(ds, f, s) == IF s = {} THEN <<>> ELSE LoadStore(f[s \ {Max(s)}], ds[Max(s)])
IsLoading(ds, k, f) == f = [s \in SUBSET (1..k) |-> StoreStep(ds, f, s)]

\* The largest of some numbers that has one above all others.
LEMMA LargestIs ==
    ASSUME NEW k \in Nat, NEW s \in SUBSET (1..(k + 1)), k + 1 \in s
    PROVE  Max(s) = k + 1
<1>1. \A y \in s : k + 1 >= y
    OBVIOUS
<1>2. \A x \in s : (\A y \in s : x >= y) => x = k + 1
    OBVIOUS
<1> QED
    BY <1>1, <1>2 DEF Max

\* It has a solution: over the sets of k + 1 indices from that over the sets of k.
LEMMA LoadingExists ==
    ASSUME NEW ds, NEW n \in Nat
    PROVE  \E f : IsLoading(ds, n, f)
<1> DEFINE Reached == {k \in Nat : \E f : IsLoading(ds, k, f)}
<1>1. 0 \in Reached
  <2> DEFINE f == [s \in SUBSET (1..0) |-> <<>>]
  <2>1. \A s \in SUBSET (1..0) : StoreStep(ds, f, s) = <<>>
      BY DEF StoreStep
  <2>2. f = [s \in SUBSET (1..0) |-> StoreStep(ds, f, s)]
    <3> HIDE DEF f
    <3>1. f = [s \in SUBSET (1..0) |-> <<>>]
        BY DEF f
    <3> QED
        BY <2>1, <3>1
  <2> QED
      BY <2>2 DEF IsLoading
<1>2. ASSUME NEW k \in Nat, k \in Reached
      PROVE  k + 1 \in Reached
  <2>1. PICK f : IsLoading(ds, k, f)
      BY <1>2
  <2> DEFINE small == SUBSET (1..k)
             big == SUBSET (1..(k + 1))
             g == [s \in big |-> IF k + 1 \in s THEN LoadStore(f[s \ {k + 1}], ds[k + 1]) ELSE f[s]]
  <2>2. ASSUME NEW s \in small
        PROVE  f[s] = StoreStep(ds, f, s)
      BY <2>1, <2>2 DEF IsLoading
  <2>3. ASSUME NEW s \in big
        PROVE  g[s] = StoreStep(ds, g, s)
    <3>1. CASE k + 1 \in s
      <4>1. Max(s) = k + 1
          BY <3>1, LargestIs
      <4>2. s \ {k + 1} \in big /\ k + 1 \notin s \ {k + 1}
          OBVIOUS
      <4>3. g[s \ {k + 1}] = f[s \ {k + 1}] /\ g[s] = LoadStore(f[s \ {k + 1}], ds[k + 1])
          BY <3>1, <4>2
      <4> HIDE DEF g
      <4> QED
          BY <3>1, <4>1, <4>3 DEF StoreStep
    <3>2. CASE k + 1 \notin s
      <4>1. s \in small /\ g[s] = f[s]
          BY <3>2
      <4>2. f[s] = StoreStep(ds, f, s)
          BY <2>2, <4>1
      <4>3. s # {} => g[s \ {Max(s)}] = f[s \ {Max(s)}]
          BY <3>2
      <4> HIDE DEF g
      <4> QED
          BY <4>1, <4>2, <4>3 DEF StoreStep
    <3> QED
        BY <3>1, <3>2
  <2>4. g = [s \in big |-> g[s]]
      OBVIOUS
  <2>5. IsLoading(ds, k + 1, g)
    <3> HIDE DEF g
    <3> QED
        BY <2>3, <2>4 DEF IsLoading
  <2> QED
      BY <2>5
<1> HIDE DEF Reached
<1>3. n \in Reached
    BY <1>1, <1>2, SetInduction
<1> QED
    BY <1>3 DEF Reached

\* A store takes the place of the one of its name, or the last.
LEMMA InsertedIsSeq ==
    ASSUME NEW V, NEW ss \in Seq(V), NEW s \in V
    PROVE  LoadStore(ss, s) \in Seq(V)
<1>1. Len(ss) \in Nat /\ ss \in [1..Len(ss) -> V] /\ DOMAIN ss = 1..Len(ss)
    BY LenProperties
<1>2. [i \in DOMAIN ss |-> IF ss[i].name = s.name THEN s ELSE ss[i]] \in Seq(V)
  <2>1. [i \in DOMAIN ss |-> IF ss[i].name = s.name THEN s ELSE ss[i]] \in [1..Len(ss) -> V]
      BY <1>1
  <2> QED
      BY <1>1, <2>1, SeqDef
<1>3. Append(ss, s) \in Seq(V)
    BY AppendProperties
<1> QED
    BY <1>2, <1>3 DEF LoadStore, Inserted

\* The fold makes a sequence of the stores it is given.
LEMMA KeptStores ==
    ASSUME NEW V, NEW ds \in Seq(V)
    PROVE  FoldLeft(LoadStore, <<>>, ds) \in Seq(V)
<1> DEFINE n == Len(ds)
           f == CHOOSE f : IsLoading(ds, n, f)
<1>1. n \in Nat /\ DOMAIN ds = 1..n /\ ds \in [1..n -> V]
    BY LenProperties
<1>2. FoldLeft(LoadStore, <<>>, ds) = f[1..n]
  <2>1. DOMAIN ds = 1..Len(ds)
      BY <1>1
  <2> QED
      BY <2>1, Zenon DEF FoldLeft, MapThenFoldSet, IsLoading, StoreStep
<1> HIDE DEF n
<1>3. IsLoading(ds, n, f)
    BY <1>1, LoadingExists
<1> HIDE DEF f
<1>4. \A s \in SUBSET (1..n) : f[s] = StoreStep(ds, f, s)
    BY <1>3 DEF IsLoading
<1> DEFINE Good == {k \in Nat : k <= n => f[1..k] \in Seq(V)}
<1>5. 0 \in Good
  <2>1. 1..0 = {} /\ {} \in SUBSET (1..n)
      OBVIOUS
  <2>2. f[{}] = <<>>
      BY <1>4, <2>1 DEF StoreStep
  <2>3. <<>> \in Seq(V)
      OBVIOUS
  <2> QED
      BY <2>1, <2>2, <2>3
<1>6. ASSUME NEW k \in Nat, k \in Good
      PROVE  k + 1 \in Good
  <2> SUFFICES ASSUME k + 1 <= n
               PROVE  f[1..(k + 1)] \in Seq(V)
      OBVIOUS
  <2>1. 1..(k + 1) \in SUBSET (1..n) /\ k + 1 \in 1..(k + 1)
      BY <1>1
  <2>2. Max(1..(k + 1)) = k + 1
      BY <2>1, LargestIs
  <2>3. (1..(k + 1)) \ {k + 1} = 1..k
      OBVIOUS
  <2>4. f[1..(k + 1)] = LoadStore(f[1..k], ds[k + 1])
      BY <1>4, <2>1, <2>2, <2>3 DEF StoreStep
  <2>5. f[1..k] \in Seq(V) /\ ds[k + 1] \in V
      BY <1>1, <1>6
  <2> QED
      BY <2>4, <2>5, InsertedIsSeq
<1> HIDE DEF Good
<1>7. n \in Good
    BY <1>1, <1>5, <1>6, SetInduction
<1>8. f[1..n] \in Seq(V)
    BY <1>1, <1>7 DEF Good
<1> QED
    BY <1>2, <1>8

\* The stores of the runtime are declared and valid, or the default.
LEMMA LoadedStores ==
    ASSUME NEW V, NEW ds \in Seq(V)
    PROVE  /\ DOMAIN load_from(ds, EnvDefault) \subseteq Nat
           /\ \A i \in DOMAIN load_from(ds, EnvDefault) :
                 \/ load_from(ds, EnvDefault)[i] = EnvDefault
                 \/ /\ load_from(ds, EnvDefault)[i] \in V
                    /\ ValidStore(load_from(ds, EnvDefault)[i])
<1> DEFINE wrong == {k \in DOMAIN ds : ~ValidStore(ds[k])}
           read == IF wrong = {} THEN ds ELSE SubSeq(ds, 1, Min(wrong) - 1)
           kept == FoldLeft(LoadStore, <<>>, read)
           W == {s \in V : ValidStore(s)}
<1>1. Len(ds) \in Nat /\ ds \in [1..Len(ds) -> V] /\ DOMAIN ds = 1..Len(ds)
    BY LenProperties
<1>2. read \in Seq(W)
  <2>1. CASE wrong = {}
    <3>1. ds \in [1..Len(ds) -> W]
        BY <1>1, <2>1
    <3> QED
        BY <1>1, <2>1, <3>1, SeqDef
  <2>2. CASE wrong # {}
    <3>1. wrong \in SUBSET Nat /\ wrong \subseteq 1..Len(ds)
        BY <1>1
    <3>2. PICK m : m = Min(wrong)
        OBVIOUS
    <3>3. m \in wrong /\ \A k \in wrong : m <= k
        BY <2>2, <3>1, <3>2, MinIsMember
    <3>4. m \in 1..Len(ds) /\ \A k \in 1..(m - 1) : ds[k] \in W
        BY <1>1, <3>1, <3>3
    <3>5. SubSeq(ds, 1, m - 1) = [k \in 1..(m - 1) |-> ds[k]]
        BY <1>1, <3>4 DEF SubSeq
    <3>6. [k \in 1..(m - 1) |-> ds[k]] \in [1..(m - 1) -> W] /\ m - 1 \in Nat
        BY <3>4
    <3>7. SubSeq(ds, 1, m - 1) \in Seq(W)
      <4>1. PICK q \in Nat : q = m - 1
          BY <3>6
      <4>2. SubSeq(ds, 1, m - 1) \in [1..q -> W]
          BY <3>5, <3>6, <4>1
      <4>3. PICK x : x = SubSeq(ds, 1, m - 1)
          OBVIOUS
      <4>4. x \in [1..q -> W]
          BY <4>2, <4>3
      <4>5. x \in Seq(W)
          BY <4>1, <4>4, SeqDef
      <4> QED
          BY <4>3, <4>5
    <3> QED
        BY <2>2, <3>2, <3>7
  <2> QED
      BY <2>1, <2>2
<1>3. kept \in Seq(W)
    BY <1>2, KeptStores
<1>4. load_from(ds, EnvDefault) = IF wrong # {} THEN kept
                                  ELSE IF kept = <<>> THEN <<EnvDefault>> ELSE Reverse(kept)
    BY Zenon DEF load_from
<1> HIDE DEF kept
<1>5. Len(kept) \in Nat /\ kept \in [1..Len(kept) -> W] /\ DOMAIN kept = 1..Len(kept)
    BY <1>3, LenProperties
<1>6. \A j \in DOMAIN kept : kept[j] \in V /\ ValidStore(kept[j])
    BY <1>5
<1>7. /\ DOMAIN Reverse(kept) \subseteq Nat
      /\ \A j \in DOMAIN Reverse(kept) : Reverse(kept)[j] \in V /\ ValidStore(Reverse(kept)[j])
  <2>1. Reverse(kept) = [j \in 1..Len(kept) |-> kept[(Len(kept) - j) + 1]]
      BY DEF Reverse
  <2>2. \A j \in 1..Len(kept) : (Len(kept) - j) + 1 \in DOMAIN kept
      BY <1>5
  <2> QED
      BY <1>5, <1>6, <2>1, <2>2
<1>8. DOMAIN <<EnvDefault>> \subseteq Nat /\ \A j \in DOMAIN <<EnvDefault>> : <<EnvDefault>>[j] = EnvDefault
    OBVIOUS
<1> QED
    BY <1>4, <1>5, <1>6, <1>7, <1>8

(***************************************************************************)
(* Errors that last                                                        *)
(***************************************************************************)

\* Whenever a step ends with an error of the configuration, another one would not end
\* well either.
Lasting(x, y) == x \in ConfigurationErrors => y # "ok"

\* The errors of sources that are down, and what is no error.
LEMMA NotConfiguration ==
    {"ok", Hangs, "UnableToConnectInternal", "UnableToCreateMySQLConnectionPool",
     "UnableToGetReadProvider", "UnableToConnectInvalidHostOrPort", "UnableToConnect",
     "UnableToAuthenticate", "UnableToVerifyEndpointConnection", "UnableToCreateFlightClient",
     "UnableToGetSchema", "UnableToGetReadWriteProvider", "UnableToConstructTlsChannel",
     "UnableToPerformHandshake", "UnableToConstructDatabricksSpark", "InternalWithSource",
     "UnableToGetCatalogProvider", "DataConnectorDoesntSupportCatalogs"}
        \cap ConfigurationErrors = {}
BY DEF ConfigurationErrors, Hangs

\* A check that is the same for both lasts.
LEMMA SameLasts ==
    ASSUME NEW x
    PROVE  Lasting(x, x)
BY NotConfiguration DEF Lasting

\* Of two lists of checks that last one by one, the first errors do.
LEMMA ChecksLast ==
    ASSUME NEW xs, NEW ys, DOMAIN xs \subseteq Nat, DOMAIN ys = DOMAIN xs,
           \A i \in DOMAIN xs : Lasting(xs[i], ys[i])
    PROVE  Lasting(FirstError(xs), FirstError(ys))
<1> DEFINE failed == {i \in DOMAIN xs : xs[i] # "ok"}
<1> SUFFICES ASSUME FirstError(xs) \in ConfigurationErrors, FirstError(ys) = "ok"
             PROVE  FALSE
    BY DEF Lasting
<1>1. failed # {} /\ FirstError(xs) = xs[Min(failed)]
    BY NotConfiguration DEF FirstError
<1>2. Min(failed) \in failed
    BY <1>1, MinIsMember
<1>3. \A i \in DOMAIN ys : ys[i] = "ok"
    BY FirstErrorOk
<1> QED
    BY <1>1, <1>2, <1>3 DEF Lasting

LEMMA TwoLast ==
    ASSUME NEW x1, NEW y1, Lasting(x1, y1), NEW x2, NEW y2, Lasting(x2, y2)
    PROVE  Lasting(FirstError(<<x1, x2>>), FirstError(<<y1, y2>>))
<1>1. /\ DOMAIN <<x1, x2>> \subseteq Nat /\ DOMAIN <<y1, y2>> = DOMAIN <<x1, x2>>
      /\ \A i \in DOMAIN <<x1, x2>> : Lasting(<<x1, x2>>[i], <<y1, y2>>[i])
    OBVIOUS
<1> QED
    BY <1>1, ChecksLast

LEMMA ThreeLast ==
    ASSUME NEW x1, NEW y1, Lasting(x1, y1), NEW x2, NEW y2, Lasting(x2, y2),
           NEW x3, NEW y3, Lasting(x3, y3)
    PROVE  Lasting(FirstError(<<x1, x2, x3>>), FirstError(<<y1, y2, y3>>))
<1>1. /\ DOMAIN <<x1, x2, x3>> \subseteq Nat /\ DOMAIN <<y1, y2, y3>> = DOMAIN <<x1, x2, x3>>
      /\ \A i \in DOMAIN <<x1, x2, x3>> : Lasting(<<x1, x2, x3>>[i], <<y1, y2, y3>>[i])
    OBVIOUS
<1> QED
    BY <1>1, ChecksLast

LEMMA FourLast ==
    ASSUME NEW x1, NEW y1, Lasting(x1, y1), NEW x2, NEW y2, Lasting(x2, y2),
           NEW x3, NEW y3, Lasting(x3, y3), NEW x4, NEW y4, Lasting(x4, y4)
    PROVE  Lasting(FirstError(<<x1, x2, x3, x4>>), FirstError(<<y1, y2, y3, y4>>))
<1>1. /\ DOMAIN <<x1, x2, x3, x4>> \subseteq Nat
      /\ DOMAIN <<y1, y2, y3, y4>> = DOMAIN <<x1, x2, x3, x4>>
      /\ \A i \in DOMAIN <<x1, x2, x3, x4>> : Lasting(<<x1, x2, x3, x4>>[i], <<y1, y2, y3, y4>>[i])
    OBVIOUS
<1> QED
    BY <1>1, ChecksLast

LEMMA SixLast ==
    ASSUME NEW x1, NEW y1, Lasting(x1, y1), NEW x2, NEW y2, Lasting(x2, y2),
           NEW x3, NEW y3, Lasting(x3, y3), NEW x4, NEW y4, Lasting(x4, y4),
           NEW x5, NEW y5, Lasting(x5, y5), NEW x6, NEW y6, Lasting(x6, y6)
    PROVE  Lasting(FirstError(<<x1, x2, x3, x4, x5, x6>>), FirstError(<<y1, y2, y3, y4, y5, y6>>))
<1>1. /\ DOMAIN <<x1, x2, x3, x4, x5, x6>> \subseteq Nat
      /\ DOMAIN <<y1, y2, y3, y4, y5, y6>> = DOMAIN <<x1, x2, x3, x4, x5, x6>>
      /\ \A i \in DOMAIN <<x1, x2, x3, x4, x5, x6>> :
            Lasting(<<x1, x2, x3, x4, x5, x6>>[i], <<y1, y2, y3, y4, y5, y6>>[i])
    OBVIOUS
<1> QED
    BY <1>1, ChecksLast

\* What a table is fetched with.
LEMMA FetchGives ==
    ASSUME NEW s, NEW e
    PROVE  Fetch(s, e) \in {"ok", Hangs, e}
<1> DEFINE xs == <<Ask(s, e), Check(s.table, e)>>
           failed == {i \in DOMAIN xs : xs[i] # "ok"}
<1>1. DOMAIN xs = 1..2 /\ xs[1] = Ask(s, e) /\ xs[2] = Check(s.table, e)
    OBVIOUS
<1>2. \A i \in DOMAIN xs : xs[i] \in {"ok", Hangs, e}
    BY <1>1 DEF Ask, Check
<1> HIDE DEF xs
<1>3. FirstError(xs) \in {"ok", Hangs, e}
  <2>1. CASE failed = {}
      BY <2>1 DEF FirstError
  <2>2. CASE failed # {}
    <3>1. Min(failed) \in failed
        BY <1>1, <2>2, MinIsMember
    <3> QED
        BY <1>2, <2>2, <3>1 DEF FirstError
  <2> QED
      BY <2>1, <2>2
<1> QED
    BY <1>3 DEF Fetch, xs

\* A request that is not answered is no error of the configuration; one that is refused is
\* refused whenever it is answered.
LEMMA RequestsLast ==
    ASSUME NEW s, NEW t, s.login = t.login, s.table = t.table,
           NEW e, e \notin ConfigurationErrors, NEW b, NEW y
    PROVE  /\ Lasting(Ask(s, e), y) /\ Lasting(Reach(s, e), y)
           /\ Lasting(Fetch(s, e), y) /\ Lasting(Check(b, e), y)
           /\ \A r : Lasting(Login(s, e, r), Login(t, e, r))
<1>1. Lasting(Ask(s, e), y) /\ Lasting(Reach(s, e), y) /\ Lasting(Check(b, e), y)
    BY NotConfiguration DEF Lasting, Ask, Reach, Check
<1>2. Lasting(Ask(s, e), Ask(t, e))
    BY NotConfiguration DEF Lasting, Ask
<1>3. \A r : Lasting(Login(s, e, r), Login(t, e, r))
  <2> TAKE r
  <2>1. Check(s.login, r) = Check(t.login, r)
      OBVIOUS
  <2>2. Lasting(Check(s.login, r), Check(t.login, r))
      BY <2>1, SameLasts
  <2> QED
      BY <1>2, <2>2, TwoLast DEF Login
<1>4. Lasting(Fetch(s, e), y)
    BY FetchGives, NotConfiguration DEF Lasting
<1> QED
    BY <1>1, <1>3, <1>4

(***************************************************************************)
(* The connectors                                                          *)
(***************************************************************************)

\* One dataset as seen by two attempts, and one source in two states.
SameDataset(d, e) ==
    /\ d.user = e.user /\ d.url = e.url /\ d.host = e.host /\ d.ext = e.ext /\ d.form = e.form
    /\ d.ref = e.ref /\ d.time = e.time /\ d.accel = e.accel /\ d.mode = e.mode
    /\ d.stored # None => e.stored = d.stored
SameSource(s, t) == s.login = t.login /\ s.table = t.table

ConnectorLasts(x, y) ==
    /\ Lasting(x.create, y.create) /\ Lasting(x.read, y.read) /\ Lasting(x.write, y.write)

\* What files give: only their place, their format and the parameters can be wrong.
LEMMA ListingLasts ==
    ASSUME NEW p, NEW d, NEW e, SameDataset(d, e), NEW s, NEW t, SameSource(s, t), NEW url, NEW store
    PROVE  Lasting(ListingRead(p, d, s, url, store), ListingRead(p, e, t, url, store))
<1> DEFINE f == get_file_format_and_extension(p, d)
<1>1. get_file_format_and_extension(p, e) = f
    BY DEF get_file_format_and_extension, SameDataset
<1> DEFINE x == get_object_store(url, store)
           a(q) == IF f.format = "text" THEN x ELSE FirstError(<<x, Fetch(q, "UnableToConnectInternal")>>)
<1>2. Lasting(Fetch(s, "UnableToConnectInternal"), Fetch(t, "UnableToConnectInternal"))
    BY RequestsLast, NotConfiguration DEF SameSource
<1>3. Lasting(a(s), a(t))
    BY <1>2, SameLasts, TwoLast
<1>4. Lasting(FirstError(<<url, f.error, a(s)>>), FirstError(<<url, f.error, a(t)>>))
  <2> HIDE DEF a, f
  <2> QED
    BY <1>3, SameLasts, ThreeLast
<1> QED
    BY <1>1, <1>4 DEF ListingRead

\* S3, FTP, SFTP, HTTP and files.
LEMMA FilesLast ==
    ASSUME NEW p, NEW d, NEW e, SameDataset(d, e), NEW s, NEW t, SameSource(s, t)
    PROVE  /\ ConnectorLasts(S3(p, d, s), S3(p, e, t)) /\ ConnectorLasts(FTP(p, d, s), FTP(p, e, t))
           /\ ConnectorLasts(SFTP(p, d, s), SFTP(p, e, t))
           /\ ConnectorLasts(Https(p, d, s), Https(p, e, t))
           /\ ConnectorLasts(File(p, d, s), File(p, e, t))
<1>1. UrlOf(d) = UrlOf(e) /\ HttpsUrl(p, d) = HttpsUrl(p, e)
    BY DEF UrlOf, HttpsUrl, SameDataset
<1>2. Lasting("ok", "ok") /\ Lasting("none", "none")
    BY SameLasts
<1>3. ConnectorLasts(S3(p, d, s), S3(p, e, t))
  <2>1. Lasting(S3(p, d, s).read, S3(p, e, t).read)
      BY <1>1, ListingLasts DEF S3
  <2> QED
      BY <1>2, <2>1 DEF ConnectorLasts, S3
<1>4. ConnectorLasts(FTP(p, d, s), FTP(p, e, t))
  <2>1. Lasting(FTP(p, d, s).read, FTP(p, e, t).read)
      BY <1>1, ListingLasts DEF FTP
  <2> QED
      BY <1>2, <2>1 DEF ConnectorLasts, FTP
<1>5. ConnectorLasts(SFTP(p, d, s), SFTP(p, e, t))
  <2>1. Lasting(SFTP(p, d, s).read, SFTP(p, e, t).read)
      BY <1>1, ListingLasts DEF SFTP
  <2> QED
      BY <1>2, <2>1 DEF ConnectorLasts, SFTP
<1>6. ConnectorLasts(Https(p, d, s), Https(p, e, t))
  <2>1. Lasting(Https(p, d, s).read, Https(p, e, t).read)
      BY <1>1, ListingLasts DEF Https
  <2> QED
      BY <1>2, <2>1 DEF ConnectorLasts, Https
<1>7. ConnectorLasts(File(p, d, s), File(p, e, t))
  <2>1. Lasting(File(p, d, s).read, File(p, e, t).read)
      BY <1>1, ListingLasts DEF File
  <2> QED
      BY <1>2, <2>1 DEF ConnectorLasts, File
<1> QED
    BY <1>3, <1>4, <1>5, <1>6, <1>7

\* Databases.
LEMMA DatabasesLast ==
    ASSUME NEW p, NEW d, NEW e, SameDataset(d, e), NEW s, NEW t, SameSource(s, t), t.net = "up"
    PROVE  /\ ConnectorLasts(MySQL(p, d, s), MySQL(p, e, t))
           /\ ConnectorLasts(Postgres(p, d, s), Postgres(p, e, t))
           /\ ConnectorLasts(Snowflake(p, d, s), Snowflake(p, e, t))
           /\ ConnectorLasts(Clickhouse(p, d, s), Clickhouse(p, e, t))
           /\ ConnectorLasts(ODBC(p, d, s), ODBC(p, e, t))
           /\ ConnectorLasts(DuckDB(p, d, s), DuckDB(p, e, t))
<1> DEFINE R == "UnableToGetReadProvider"
           I == "UnableToConnectInternal"
           H == "UnableToConnectInvalidHostOrPort"
<1>1. Lasting("none", "none") /\ \A x : Lasting(x, x)
    BY SameLasts
<1>2. \A y : Lasting(Fetch(s, R), y) /\ Lasting(Ask(s, R), y) /\ Lasting(Reach(s, H), y)
    BY RequestsLast, NotConfiguration DEF SameSource
<1>3. /\ \A r : Lasting(Login(s, "UnableToCreateMySQLConnectionPool", r),
                        Login(t, "UnableToCreateMySQLConnectionPool", r))
      /\ \A r : Lasting(Login(s, I, r), Login(t, I, r))
      /\ \A r : Lasting(Login(s, "UnableToConnect", r), Login(t, "UnableToConnect", r))
      /\ \A r : Lasting(Login(s, R, r), Login(t, R, r))
    BY RequestsLast, NotConfiguration DEF SameSource
<1>4. \A b, y : Lasting(Check(b, I), y) /\ Lasting(Check(b, R), y) /\ Lasting(Check(b, H), y)
    BY NotConfiguration DEF Lasting, Check
<1>5. ConnectorLasts(MySQL(p, d, s), MySQL(p, e, t))
    BY <1>1, <1>2, <1>3 DEF ConnectorLasts, MySQL
<1>6. ConnectorLasts(Postgres(p, d, s), Postgres(p, e, t))
  <2>1. Lasting(Postgres(p, d, s).create, Postgres(p, e, t).create)
      BY <1>1, <1>2, <1>3, ThreeLast DEF Postgres
  <2>2. Check(s.table, "InvalidTableName") = Check(t.table, "InvalidTableName")
      BY DEF SameSource
  <2>3. Lasting(Postgres(p, d, s).read, Postgres(p, e, t).read)
      BY <1>1, <1>2, <2>2, TwoLast DEF Postgres
  <2> QED
      BY <1>1, <2>1, <2>3 DEF ConnectorLasts, Postgres
<1>7. ConnectorLasts(Snowflake(p, d, s), Snowflake(p, e, t))
  <2>1. Lasting(SnowflakePool(p, s), SnowflakePool(p, t))
      BY <1>1, <1>3, FourLast DEF SnowflakePool
  <2> QED
      BY <1>1, <1>2, <2>1 DEF ConnectorLasts, Snowflake
<1>8. ConnectorLasts(Clickhouse(p, d, s), Clickhouse(p, e, t))
  <2>1. Lasting(ClickhouseConfig(p, s), ClickhouseConfig(p, t))
    <3> DEFINE xs(q) == (IF Has(p, "connection_string")
                         THEN <<Check(Parses(p, "connection_string"), I)>>
                         ELSE <<Check(Has(p, "user"), I), Check(Has(p, "host"), I),
                                Check(Has(p, "tcp_port"), I), Check(Parses(p, "tcp_port"), H),
                                Reach(q, H), Check(Has(p, "db"), I)>>)
                        \o <<Check(Parses(p, "connection_timeout"), I),
                             Check(OneOf(p, "secure", {"true", "false"}), I)>>
    <3>1. DOMAIN xs(t) = DOMAIN xs(s) /\ DOMAIN xs(s) \subseteq Nat
        OBVIOUS
    <3>2. \A i \in DOMAIN xs(s) : Lasting(xs(s)[i], xs(t)[i])
        BY <1>2, <1>4
    <3>3. Lasting(FirstError(xs(s)), FirstError(xs(t)))
      <4> HIDE DEF xs
      <4> QED
          BY <3>1, <3>2, ChecksLast
    <3> QED
        BY <3>3 DEF ClickhouseConfig
  <2>2. Lasting(Clickhouse(p, d, s).read, Clickhouse(p, e, t).read)
      BY <1>2, <1>3, TwoLast DEF Clickhouse
  <2> QED
      BY <1>1, <2>1, <2>2 DEF ConnectorLasts, Clickhouse
<1>9. ConnectorLasts(ODBC(p, d, s), ODBC(p, e, t))
  <2>1. ODBC(p, d, s).create = ODBC(p, e, t).create
      BY DEF ODBC
  <2>2. Lasting(ODBC(p, d, s).read, ODBC(p, e, t).read)
      BY <1>2, <1>3, TwoLast DEF ODBC
  <2>3. ODBC(p, d, s).write = "none" /\ ODBC(p, e, t).write = "none"
      BY DEF ODBC
  <2> QED
      BY <1>1, <2>1, <2>2, <2>3 DEF ConnectorLasts
<1>10. ConnectorLasts(DuckDB(p, d, s), DuckDB(p, e, t))
  <2>1. Lasting(DuckDB(p, d, s).create, DuckDB(p, e, t).create)
      BY <1>4 DEF DuckDB
  <2>2. Lasting(DuckDB(p, d, s).read, DuckDB(p, e, t).read)
      BY <1>4, TwoLast DEF DuckDB
  <2> QED
      BY <1>1, <2>1, <2>2 DEF ConnectorLasts, DuckDB
<1> QED
    BY <1>5, <1>6, <1>7, <1>8, <1>9, <1>10

\* Flight, Spark and lakes.
LEMMA LakesLast ==
    ASSUME NEW p, NEW d, NEW e, SameDataset(d, e), NEW s, NEW t, SameSource(s, t), t.net = "up"
    PROVE  /\ ConnectorLasts(Spark(p, d, s), Spark(p, e, t))
           /\ ConnectorLasts(Dremio(p, d, s), Dremio(p, e, t))
           /\ ConnectorLasts(FlightSQL(p, d, s), FlightSQL(p, e, t))
           /\ ConnectorLasts(SpiceAI(p, d, s), SpiceAI(p, e, t))
           /\ ConnectorLasts(Databricks(p, d, s), Databricks(p, e, t))
           /\ ConnectorLasts(DeltaLake(p, d, s), DeltaLake(p, e, t))
           /\ ConnectorLasts(UnityCatalog(p, d, s), UnityCatalog(p, e, t))
<1> DEFINE R == "UnableToGetReadProvider"
           V == "UnableToVerifyEndpointConnection"
           C == "UnableToCreateFlightClient"
           T == "UnableToConstructTlsChannel"
<1>1. Lasting("none", "none") /\ \A x : Lasting(x, x)
    BY SameLasts
<1>2. \A y : /\ Lasting(Fetch(s, R), y) /\ Lasting(Fetch(s, "UnableToGetSchema"), y)
             /\ Lasting(Fetch(s, "UnableToGetReadWriteProvider"), y)
             /\ Lasting(Reach(s, V), y) /\ Lasting(Ask(s, T), y)
    BY RequestsLast, NotConfiguration DEF SameSource
<1>3. /\ \A r : Lasting(Login(s, "UnableToConnectInternal", r), Login(t, "UnableToConnectInternal", r))
      /\ \A r : Lasting(Login(s, C, r), Login(t, C, r))
      /\ \A r : Lasting(Login(s, "UnableToPerformHandshake", r), Login(t, "UnableToPerformHandshake", r))
      /\ \A r : Lasting(Login(s, "UnableToConstructDatabricksSpark", r),
                        Login(t, "UnableToConstructDatabricksSpark", r))
    BY RequestsLast, NotConfiguration DEF SameSource
<1>4. \A x : Lasting(verify_endpoint_connection(x, s, V), verify_endpoint_connection(x, t, V))
    BY <1>1, <1>2, TwoLast DEF verify_endpoint_connection
<1>5. ConnectorLasts(Spark(p, d, s), Spark(p, e, t))
  <2>1. Lasting(Spark(p, d, s).create, Spark(p, e, t).create)
      BY <1>1, <1>3, ThreeLast DEF Spark
  <2> QED
      BY <1>1, <1>2, <2>1 DEF ConnectorLasts, Spark
<1>6. ConnectorLasts(Dremio(p, d, s), Dremio(p, e, t))
  <2>1. Lasting(Dremio(p, d, s).create, Dremio(p, e, t).create)
      BY <1>1, <1>3, <1>4, ThreeLast DEF Dremio
  <2> QED
      BY <1>2, <2>1 DEF ConnectorLasts, Dremio
<1>7. ConnectorLasts(FlightSQL(p, d, s), FlightSQL(p, e, t))
  <2>1. Lasting(FirstError(<<Check(Parses(p, "endpoint"), T), Ask(s, T)>>),
                FirstError(<<Check(Parses(p, "endpoint"), T), Ask(t, T)>>))
      BY <1>1, <1>2, TwoLast
  <2>2. Lasting(FlightSQL(p, d, s).create, FlightSQL(p, e, t).create)
      BY <1>1, <1>3, <2>1, ThreeLast DEF FlightSQL
  <2> QED
      BY <1>1, <1>2, <2>2 DEF ConnectorLasts, FlightSQL
<1>8. ConnectorLasts(SpiceAI(p, d, s), SpiceAI(p, e, t))
  <2>1. Lasting(SpiceAICreate(p, s), SpiceAICreate(p, t))
      BY <1>1, <1>3, <1>4, ThreeLast DEF SpiceAICreate
  <2>2. Lasting(SpiceAI(p, d, s).read, SpiceAI(p, e, t).read)
      BY <1>1, <1>2, TwoLast DEF SpiceAI, SameDataset
  <2> QED
      BY <1>2, <2>1, <2>2 DEF ConnectorLasts, SpiceAI
<1>9. ConnectorLasts(Databricks(p, d, s), Databricks(p, e, t))
  <2> DEFINE login(q) == Login(q, "UnableToConstructDatabricksSpark", "UnableToConstructDatabricksSpark")
             a == Check(OneOf(p, "use_ssl", {"true", "false"}), "InvalidUsessl")
             b == Check(Has(p, "cluster_id"), "MissingParameter")
             x(q) == IF Val(p, "mode") = <<"delta_lake">> THEN "ok"
                     ELSE FirstError(<<a, b, login(q)>>)
  <2>1. Lasting(x(s), x(t))
    <3>1. Lasting(FirstError(<<a, b, login(s)>>), FirstError(<<a, b, login(t)>>))
      <4>1. Lasting(login(s), login(t)) /\ Lasting(a, a) /\ Lasting(b, b)
          BY <1>1, <1>3
      <4> HIDE DEF login, a, b
      <4> QED
          BY <4>1, ThreeLast
    <3> HIDE DEF login, a, b
    <3> QED
        BY <1>1, <3>1
  <2>2. \A q : DatabricksNew(p, q) =
            FirstError(<<Check(Has(p, "endpoint") /\ Has(p, "token"), "MissingParameter"), x(q)>>)
      BY DEF DatabricksNew
  <2> HIDE DEF x
  <2>3. Lasting(DatabricksNew(p, s), DatabricksNew(p, t))
      BY <1>1, <2>1, <2>2, TwoLast
  <2> QED
      BY <1>1, <1>2, <2>3 DEF ConnectorLasts, Databricks
<1>10. ConnectorLasts(DeltaLake(p, d, s), DeltaLake(p, e, t))
    BY <1>1, <1>2 DEF ConnectorLasts, DeltaLake
<1>11. ConnectorLasts(UnityCatalog(p, d, s), UnityCatalog(p, e, t))
    BY <1>1 DEF ConnectorLasts, UnityCatalog
<1> QED
    BY <1>5, <1>6, <1>7, <1>8, <1>9, <1>10, <1>11

\* APIs and streams. What Debezium has stored stays, and what is stored of another
\* topic is always refused.
LEMMA ApisLast ==
    ASSUME NEW p, NEW d, NEW e, SameDataset(d, e), NEW s, NEW t, SameSource(s, t), t.net = "up"
    PROVE  /\ ConnectorLasts(GraphQL(p, d, s), GraphQL(p, e, t))
           /\ ConnectorLasts(Github(p, d, s), Github(p, e, t))
           /\ ConnectorLasts(Debezium(p, d, s), Debezium(p, e, t))
           /\ ConnectorLasts(Sink(p, d, s), Sink(p, e, t))
<1> DEFINE R == "UnableToGetReadProvider"
<1>1. Lasting("none", "none") /\ \A x : Lasting(x, x)
    BY SameLasts
<1>2. \A y : Lasting(Fetch(s, R), y) /\ Lasting(Fetch(s, "InternalWithSource"), y)
    BY RequestsLast, NotConfiguration DEF SameSource
<1>3. ConnectorLasts(GraphQL(p, d, s), GraphQL(p, e, t))
  <2>1. GraphQLClient(p, d) = GraphQLClient(p, e)
      BY DEF GraphQLClient, SameDataset
  <2>2. Lasting(GraphQL(p, d, s).read, GraphQL(p, e, t).read)
      BY <1>1, <1>2, <2>1, TwoLast DEF GraphQL
  <2> QED
      BY <1>1, <2>2 DEF ConnectorLasts, GraphQL
<1>4. ConnectorLasts(Github(p, d, s), Github(p, e, t))
  <2>1. Lasting(GithubFiles(p, d, s), GithubFiles(p, e, t))
    <3>1. d.ref = e.ref
        BY DEF SameDataset
    <3> QED
        BY <1>1, <1>2, <3>1, FourLast DEF GithubFiles
  <2> DEFINE a == Check(Parses(p, "endpoint"), R)
  <2>2. Lasting(FirstError(<<a, Fetch(s, R)>>), FirstError(<<a, Fetch(t, R)>>))
    <3> HIDE DEF a
    <3> QED
        BY <1>1, <1>2, TwoLast
  <2>3. d.form = e.form
      BY DEF SameDataset
  <2> HIDE DEF a
  <2>4. Lasting(Github(p, d, s).read, Github(p, e, t).read)
      BY <1>1, <2>1, <2>2, <2>3 DEF Github, a
  <2> QED
      BY <1>1, <2>4 DEF ConnectorLasts, Github
<1>5. ConnectorLasts(Debezium(p, d, s), Debezium(p, e, t))
  <2> DEFINE N == "InvalidConfigurationNoSource"
             x(q, r) == IF q.stored # None THEN Check(q.stored = "same", N)
                        ELSE IF r.net # "up" \/ ~r.table THEN Hangs ELSE "ok"
             y(q, r) == FirstError(<<Check(q.accel # None, N), Check(q.accel # "arrow", N),
                                     Check(q.mode \in {"unset", "changes"}, N), x(q, r)>>)
  <2>1. Lasting(x(d, s), x(e, t))
      BY NotConfiguration DEF SameDataset, Lasting, Check
  <2> HIDE DEF x
  <2>2. Lasting(y(d, s), y(e, t))
      BY <1>1, <2>1, FourLast DEF SameDataset
  <2>3. Debezium(p, d, s).read = y(d, s) /\ Debezium(p, e, t).read = y(e, t)
      BY DEF Debezium, x
  <2> HIDE DEF y
  <2> QED
      BY <1>1, <2>2, <2>3 DEF ConnectorLasts, Debezium
<1>6. ConnectorLasts(Sink(p, d, s), Sink(p, e, t))
    BY <1>1 DEF ConnectorLasts, Sink
<1> QED
    BY <1>3, <1>4, <1>5, <1>6

\* Whatever the connector.
LEMMA EveryConnectorLasts ==
    ASSUME NEW kind \in DOMAIN Factories, NEW p, NEW d, NEW e, SameDataset(d, e),
           NEW s, NEW t, SameSource(s, t), t.net = "up"
    PROVE  ConnectorLasts(Connector(kind, p, d, s), Connector(kind, p, e, t))
<1>1. kind \in {"sink", "databricks", "delta_lake", "dremio", "file", "flightsql", "s3", "ftp",
                "http", "https", "github", "sftp", "spiceai", "mysql", "postgres", "duckdb",
                "clickhouse", "graphql", "odbc", "spark", "snowflake", "debezium", "unity_catalog"}
    BY DEF Factories
<1>2. CASE kind \in {"file", "s3", "ftp", "sftp", "http", "https"}
    BY <1>2, FilesLast DEF Connector
<1>3. CASE kind \in {"mysql", "postgres", "snowflake", "clickhouse", "odbc", "duckdb"}
    BY <1>3, DatabasesLast DEF Connector
<1>4. CASE kind \in {"spark", "dremio", "flightsql", "spiceai", "databricks", "delta_lake",
                     "unity_catalog"}
    BY <1>4, LakesLast DEF Connector
<1>5. CASE kind \in {"graphql", "github", "debezium", "sink"}
    BY <1>5, ApisLast DEF Connector
<1> QED
    BY <1>1, <1>2, <1>3, <1>4, <1>5

\* Catalogs: only their id can be wrong.
LEMMA CatalogLasts ==
    ASSUME NEW kind, NEW p, NEW k, NEW u, NEW ss, NEW v, NEW rr, NEW s, NEW t, SameSource(s, t)
    PROVE  Lasting(Catalog(kind, p, k, u, ss, s), Catalog(kind, p, k, v, rr, t))
<1> DEFINE G == "UnableToGetCatalogProvider"
           D == "DataConnectorDoesntSupportCatalogs"
           N == "InvalidConfigurationNoSource"
<1>1. \A x : Lasting(x, x)
    BY SameLasts
<1>2. \A y : Lasting(Fetch(s, G), y) /\ Lasting(Fetch(s, D), y)
    BY RequestsLast, NotConfiguration DEF SameSource
<1>3. CASE kind = "databricks"
  <2> DEFINE made(w, q) == try_new("databricks", DatabricksParameters, w, q)
             new(w, q, r) == DatabricksNew(made(w, q).params, r)
             x(w, q) == Check(made(w, q).ok, "InternalWithSource")
             y(w, q, r) == IF Val(p, "mode") = <<"delta_lake">> THEN "ok"
                           ELSE IF new(w, q, r) \in {"ok", Hangs} THEN new(w, q, r) ELSE G
  <2>1. \A z : Lasting(x(u, ss), z)
      BY NotConfiguration DEF Lasting, Check
  <2>2. \A z : Lasting(y(u, ss, s), z)
      BY NotConfiguration DEF Lasting
  <2>3. \A w, q, r : DatabricksCatalog(p, k, w, q, r) =
            FirstError(<<Check(k.id # None, N), x(w, q), y(w, q, r), Fetch(r, G)>>)
      BY DEF DatabricksCatalog
  <2> HIDE DEF x, y
  <2>4. Lasting(FirstError(<<Check(k.id # None, N), x(u, ss), y(u, ss, s), Fetch(s, G)>>),
                FirstError(<<Check(k.id # None, N), x(v, rr), y(v, rr, t), Fetch(t, G)>>))
    <3>1. /\ Lasting(x(u, ss), x(v, rr)) /\ Lasting(y(u, ss, s), y(v, rr, t))
          /\ Lasting(Fetch(s, G), Fetch(t, G)) /\ Lasting(Check(k.id # None, N), Check(k.id # None, N))
        BY <1>1, <1>2, <2>1, <2>2
    <3> QED
        BY <3>1, FourLast
  <2>5. Lasting(DatabricksCatalog(p, k, u, ss, s), DatabricksCatalog(p, k, v, rr, t))
      BY <2>3, <2>4
  <2> QED
      BY <1>3, <2>5 DEF Catalog
<1>4. CASE kind = "unity_catalog"
  <2>1. Lasting(UnityCatalogCatalog(k, s), UnityCatalogCatalog(k, t))
      BY <1>1, <1>2, ThreeLast DEF UnityCatalogCatalog
  <2> QED
      BY <1>4, <2>1 DEF Catalog
<1>5. CASE kind = "spiceai"
  <2>1. Lasting(SpiceAICatalog(k, s), SpiceAICatalog(k, t))
      BY <1>1, <1>2, TwoLast DEF SpiceAICatalog
  <2> QED
      BY <1>5, <2>1 DEF Catalog
<1>6. CASE kind \notin {"databricks", "unity_catalog", "spiceai"}
    BY <1>1, <1>6 DEF Catalog
<1> QED
    BY <1>3, <1>4, <1>5, <1>6

(***************************************************************************)
(* Secrets that are there                                                  *)
(***************************************************************************)

\* What every store of the runtime is.
StoreFields == {"name", "provider", "selector", "init", "vars", "fault", "parses"}
AreStores(ss) ==
    /\ DOMAIN ss \subseteq Nat
    /\ \A i \in DOMAIN ss : DOMAIN ss[i] = StoreFields /\ ValidStore(ss[i])

\* Stores that all loaded and do not fail answer as they should.
Complete(ss) == AreStores(ss) /\ Loaded(ss) = AllStores /\ ~Failing(ss)

LEMMA SameAnswers ==
    ASSUME NEW ss, Complete(ss)
    PROVE  /\ DOMAIN AllStores = DOMAIN ss
           /\ \A i \in DOMAIN ss : AllStores[i].name = ss[i].name
           /\ \A i \in DOMAIN ss : \A key : Lookup(AllStores[i], key) = Lookup(ss[i], key)
<1>1. /\ DOMAIN AllStores = DOMAIN ss
      /\ \A i \in DOMAIN ss : AllStores[i] = [ss[i] EXCEPT !.init = TRUE, !.fault = FALSE]
    BY DEF Complete, Loaded
<1>2. ASSUME NEW i \in DOMAIN ss
      PROVE  /\ AllStores[i].name = ss[i].name /\ AllStores[i].provider = ss[i].provider
             /\ AllStores[i].vars = ss[i].vars /\ AllStores[i].parses = ss[i].parses
             /\ ~AllStores[i].fault /\ ~ss[i].fault
             /\ ss[i].provider \in {"env", "keyring", "kubernetes", "aws_secrets_manager"}
  <2>1. DOMAIN ss[i] = StoreFields /\ ValidStore(ss[i]) /\ ~ss[i].fault
      BY <1>2 DEF Complete, AreStores, Failing
  <2>2. AllStores[i] = [ss[i] EXCEPT !.init = TRUE, !.fault = FALSE]
      BY <1>1, <1>2
  <2>3. /\ AllStores[i].name = ss[i].name /\ AllStores[i].provider = ss[i].provider
        /\ AllStores[i].vars = ss[i].vars /\ AllStores[i].parses = ss[i].parses
        /\ AllStores[i].fault = FALSE
      BY <2>1, <2>2 DEF StoreFields
  <2> QED
      BY <2>1, <2>3 DEF ValidStore
<1>3. ASSUME NEW i \in DOMAIN ss, NEW key
      PROVE  Lookup(AllStores[i], key) = Lookup(ss[i], key)
  <2>1. PICK a : a = AllStores[i]
      OBVIOUS
  <2>2. PICK b : b = ss[i]
      OBVIOUS
  <2>3. /\ a.provider = b.provider /\ a.vars = b.vars /\ a.parses = b.parses /\ ~a.fault /\ ~b.fault
        /\ b.provider \in {"env", "keyring", "kubernetes", "aws_secrets_manager"}
      BY <1>2, <1>3, <2>1, <2>2
  <2>4. /\ EnvLookup(a, key) = EnvLookup(b, key) /\ KeyringLookup(a, key) = KeyringLookup(b, key)
        /\ KubernetesLookup(a, key) = KubernetesLookup(b, key)
        /\ AwsLookup(a, key) = AwsLookup(b, key)
      BY <2>3 DEF EnvLookup, KeyringLookup, KubernetesLookup, AwsLookup
  <2>5. Lookup(a, key) = Lookup(b, key)
      BY <2>3, <2>4 DEF Lookup
  <2> QED
      BY <2>1, <2>2, <2>5
<1> QED
    BY <1>1, <1>2, <1>3

LEMMA SameSecrets ==
    ASSUME NEW ss, Complete(ss)
    PROVE  /\ \A key : get_secret(ss, key) = get_secret(AllStores, key)
           /\ \A store, key : get_store_secret(ss, store, key) = get_store_secret(AllStores, store, key)
<1>1. ASSUME NEW key
      PROVE  get_secret(ss, key) = get_secret(AllStores, key)
  <2> DEFINE hits == {i \in DOMAIN ss : Lookup(ss[i], key) # Absent}
             all == {i \in DOMAIN AllStores : Lookup(AllStores[i], key) # Absent}
  <2>1. hits = all
      BY SameAnswers
  <2>2. CASE all = {}
      BY <2>1, <2>2 DEF get_secret
  <2>3. CASE all # {}
    <3>1. PICK m : m = Min(all)
        OBVIOUS
    <3>2. all \in SUBSET Nat
        BY SameAnswers DEF Complete, AreStores
    <3>3. m \in all
        BY <2>3, <3>1, <3>2, MinIsMember
    <3>4. Lookup(ss[m], key) = Lookup(AllStores[m], key)
        BY <3>3, SameAnswers
    <3>5. get_secret(ss, key) = Lookup(ss[m], key)
        BY <2>1, <2>3, <3>1 DEF get_secret
    <3>6. get_secret(AllStores, key) = Lookup(AllStores[m], key)
        BY <2>3, <3>1 DEF get_secret
    <3> QED
        BY <3>4, <3>5, <3>6
  <2> QED
      BY <2>2, <2>3
<1>2. ASSUME NEW store, NEW key
      PROVE  get_store_secret(ss, store, key) = get_store_secret(AllStores, store, key)
  <2> DEFINE named == {i \in DOMAIN ss : ss[i].name = store}
             all == {i \in DOMAIN AllStores : AllStores[i].name = store}
             at == CHOOSE i \in all : TRUE
             r == IF store = "secrets" THEN get_secret(ss, key)
                  ELSE IF named = {} THEN Absent ELSE Lookup(ss[CHOOSE i \in named : TRUE], key)
             q == IF store = "secrets" THEN get_secret(AllStores, key)
                  ELSE IF all = {} THEN Absent ELSE Lookup(AllStores[at], key)
  <2>1. named = all
      BY SameAnswers
  <2>2. all # {} => at \in all
      OBVIOUS
  <2>3. all # {} => Lookup(ss[at], key) = Lookup(AllStores[at], key)
      BY <2>2, SameAnswers
  <2>4. r = q
      BY <1>1, <2>1, <2>3
  <2>5. /\ get_store_secret(ss, store, key) = IF IsFound(r) THEN r.value ELSE Empty
        /\ get_store_secret(AllStores, store, key) = IF IsFound(q) THEN q.value ELSE Empty
      BY DEF get_store_secret
  <2> HIDE DEF r, q
  <2> QED
      BY <2>4, <2>5
<1> QED
    BY <1>1, <1>2

\* The parameters with their secrets in place.
LEMMA SameParams ==
    ASSUME NEW ss, Complete(ss), NEW u
    PROVE  get_params_with_secrets(ss, u) = get_params_with_secrets(AllStores, u)
<1>1. ASSUME NEW t
      PROVE  inject_secrets(ss, t) = inject_secrets(AllStores, t)
  <2> DEFINE ms == Matches(t)
             part(q, i) == IF i \in ms THEN get_store_secret(q, t[i + 1], <<t[i + 3]>>)
                           ELSE IF \E m \in ms : i \in (m + 1)..(m + 4) THEN <<>> ELSE <<t[i]>>
  <2>1. \A i : part(ss, i) = part(AllStores, i)
      BY SameSecrets
  <2>2. \A q : inject_secrets(q, t) = FlattenSeq([i \in DOMAIN t |-> part(q, i)])
      BY DEF inject_secrets
  <2> HIDE DEF part
  <2>3. [i \in DOMAIN t |-> part(ss, i)] = [i \in DOMAIN t |-> part(AllStores, i)]
      BY <2>1
  <2> QED
      BY <2>2, <2>3
<1> QED
    BY <1>1 DEF get_params_with_secrets

\* What a connector or an accelerator gets of them.
LEMMA SameMade ==
    ASSUME NEW ss, Complete(ss), NEW prefix, NEW specs, NEW u
    PROVE  try_new(prefix, specs, u, ss) = try_new(prefix, specs, u, AllStores)
<1> DEFINE given(s) == \E k \in DOMAIN u : s \in accepted(prefix, specs, k)
           resolved(q, s) == IF given(s) THEN Found(u[CHOOSE k \in DOMAIN u : s \in accepted(prefix, specs, k)])
                             ELSE IF s.secret /\ IsFound(get_secret(q, <<prefix>> \o s.name))
                             THEN get_secret(q, <<prefix>> \o s.name)
                             ELSE IF s.default # Empty THEN Found(s.default) ELSE Absent
           have(q) == {s \in specs : IsFound(resolved(q, s))}
           made(q) == [ok |-> \A s \in specs : s.required => s \in have(q),
                       params |-> [n \in {s.name : s \in have(q)} |->
                                      resolved(q, CHOOSE s \in specs : s.name = n).value]]
<1>1. \A s : resolved(ss, s) = resolved(AllStores, s)
    BY SameSecrets
<1>2. \A q : try_new(prefix, specs, u, q) = made(q)
    BY Zenon DEF try_new
<1> HIDE DEF resolved
<1>3. have(ss) = have(AllStores)
    BY <1>1
<1> HIDE DEF have
<1>4. made(ss) = made(AllStores)
  <2>1. PICK h : h = have(AllStores)
      OBVIOUS
  <2> DEFINE params(q) == [n \in {s.name : s \in h} |-> resolved(q, CHOOSE s \in specs : s.name = n).value]
  <2>2. params(ss) = params(AllStores)
      BY <1>1
  <2>3. /\ made(ss) = [ok |-> \A s \in specs : s.required => s \in h, params |-> params(ss)]
        /\ made(AllStores) = [ok |-> \A s \in specs : s.required => s \in h, params |-> params(AllStores)]
      BY <1>3, <2>1, Zenon
  <2> HIDE DEF params, made
  <2> QED
      BY <2>2, <2>3
<1> HIDE DEF made
<1> QED
    BY <1>2, <1>4

(***************************************************************************)
(* Attempts                                                                *)
(***************************************************************************)

\* The table of a source, whatever its state, the collection behind it, and the files that
\* were opened since.
LEMMA ReadLasts ==
    ASSUME NEW c, source(c) \in DOMAIN Factories, NEW p, NEW ss, NEW rr, NEW m, NEW fs, NEW gs,
           fs \subseteq gs, NEW state, NEW x, NEW y
    PROVE  Lasting(Read(c, p, ss, m, fs, state, x), Read(c, p, rr, m, gs, "up", y))
<1> DEFINE s == SourceOf(c, p, state)
           t == SourceOf(c, p, "up")
           d == Seen(c, Stored(c, m, fs))
           e == Seen(c, Stored(c, m, gs))
<1>1. SameSource(s, t) /\ t.net = "up"
    BY DEF SameSource, SourceOf
<1>2. SameDataset(d, e)
  <2>1. get_metadata_provider(c, fs, FALSE, TRUE) => get_metadata_provider(c, gs, FALSE, TRUE)
      BY DEF get_metadata_provider, metadata_duckdb, metadata_sqlite, metadata_postgres
  <2>2. Stored(c, m, fs) # None => Stored(c, m, gs) = Stored(c, m, fs)
      BY <2>1 DEF Stored
  <2> QED
      BY <2>2 DEF SameDataset, Seen
<1>3. CASE c.catalog = None
  <2> DEFINE a == Check(~(/\ c.accel # None
                          /\ resolve_refresh_mode(source(c), c.accel.refresh_mode) = "changes"
                          /\ ~supports_changes_stream(source(c))), "AcceleratedTableInvalidChanges")
             b(q) == Check(c.query # None => Built(c, p, q).ok, "InternalWithSource")
             k1 == Connector(source(c), p, d, s).read
             k2 == Connector(source(c), p, e, t).read
  <2>1. Lasting(k1, k2)
    <3> HIDE DEF d, e, s, t
    <3> QED
        BY <1>1, <1>2, EveryConnectorLasts DEF ConnectorLasts
  <2>2. Lasting(a, a) /\ Lasting(b(x), b(y))
      BY SameLasts, NotConfiguration DEF Lasting, Check
  <2>3. /\ ReadDataset(c, p, m, fs, state, x) = FirstError(<<a, k1, b(x)>>)
        /\ ReadDataset(c, p, m, gs, "up", y) = FirstError(<<a, k2, b(y)>>)
      BY DEF ReadDataset
  <2> HIDE DEF a, b, k1, k2
  <2>4. Lasting(FirstError(<<a, k1, b(x)>>), FirstError(<<a, k2, b(y)>>))
      BY <2>1, <2>2, ThreeLast
  <2> QED
      BY <1>3, <2>3, <2>4 DEF Read
<1>4. CASE c.catalog # None
  <2> HIDE DEF s, t
  <2>1. \A u, v : Lasting(Catalog(source(c), p, c.catalog, u, ss, s), Catalog(source(c), p, c.catalog, v, rr, t))
      BY <1>1, CatalogLasts
  <2> QED
      BY <1>4, <2>1 DEF Read, ReadCatalog, s, t
<1> QED
    BY <1>3, <1>4

\* A connector that cannot be written to never can.
LEMMA WriteIsNone ==
    ASSUME NEW kind \in DOMAIN Factories, NEW p, NEW d, NEW s, NEW t,
           Connector(kind, p, d, s).write = "none"
    PROVE  Connector(kind, p, d, t).write = "none"
<1>1. kind \in {"sink", "databricks", "delta_lake", "dremio", "file", "flightsql", "s3", "ftp",
                "http", "https", "github", "sftp", "spiceai", "mysql", "postgres", "duckdb",
                "clickhouse", "graphql", "odbc", "spark", "snowflake", "debezium", "unity_catalog"}
    BY DEF Factories
<1>2. CASE kind \in {"dremio", "spiceai"}
  <2>1. Fetch(s, "UnableToGetReadWriteProvider") # "none"
      BY FetchGives DEF Hangs
  <2> QED
      BY <1>2, <2>1 DEF Connector, Dremio, SpiceAI
<1>3. CASE kind = "sink"
    BY <1>3 DEF Connector, Sink
<1>4. CASE kind \in {"file", "s3", "ftp", "sftp", "http", "https", "graphql", "github", "debezium"}
    BY <1>4 DEF Connector, File, S3, FTP, SFTP, Https, GraphQL, Github, Debezium
<1>5. CASE kind \in {"mysql", "postgres", "snowflake", "clickhouse", "odbc", "duckdb"}
    BY <1>5 DEF Connector, MySQL, Postgres, Snowflake, Clickhouse, ODBC, DuckDB
<1>6. CASE kind \in {"spark", "flightsql", "databricks", "delta_lake", "unity_catalog"}
    BY <1>6 DEF Connector, Spark, FlightSQL, Databricks, DeltaLake, UnityCatalog
<1> QED
    BY <1>1, <1>2, <1>3, <1>4, <1>5, <1>6

\* The accelerated table, whatever the stores and the other datasets are.
LEMMA RegisterLasts ==
    ASSUME NEW c, source(c) \in DOMAIN Factories, NEW p, NEW ss, NEW rr, NEW os, NEW fs, NEW gs,
           NEW state
    PROVE  Lasting(Register(c, p, ss, os, fs, state).error, Register(c, p, rr, {}, gs, "up").error)
<1> DEFINE s == SourceOf(c, p, state)
           t == SourceOf(c, p, "up")
           w(q) == Connector(source(c), p, Seen(c, None), q).write
           write(q) == IF ~c.read_write THEN "ok"
                       ELSE IF w(q) = "none" THEN "WriteProviderNotImplemented" ELSE w(q)
           t1 == create_accelerator_table(c, c.schema, c.keys, ss, TRUE, os, fs)
           t2 == create_accelerator_table(c, c.schema, c.keys, rr, TRUE, {}, gs)
           e1 == IF is_accelerated(c) THEN t1.error ELSE "ok"
           e2 == IF is_accelerated(c) THEN t2.error ELSE "ok"
<1>1. SameSource(s, t) /\ t.net = "up"
    BY DEF SameSource, SourceOf
<1>2. Lasting(write(s), write(t))
  <2>1. SameDataset(Seen(c, None), Seen(c, None))
      BY DEF SameDataset, Seen
  <2> HIDE DEF s, t
  <2>2. Lasting(w(s), w(t))
      BY <1>1, <2>1, EveryConnectorLasts DEF ConnectorLasts
  <2>3. w(s) = "none" => w(t) = "none"
      BY WriteIsNone
  <2> HIDE DEF w
  <2> QED
      BY <2>2, <2>3, NotConfiguration DEF Lasting
<1>3. Lasting(e1, e2)
  <2> DEFINE a == c.accel
             made(q) == try_new(AcceleratorPrefix(a.engine), AcceleratorParameters(a.engine),
                                get_params_with_secrets(q, a.params), q)
             b(q) == Check(made(q).ok, "AccelerationCreationFailed")
             v == validate_indexes(a, c.schema)
             k == conflict(a, c.keys).error
             o == table_constraints(a, c.schema).error
             n == build(a.engine, a.mode)
             x == create_external_table(a.engine, TRUE)
  <2>1. Lasting(b(ss), b(rr)) /\ \A z : Lasting(z, z)
      BY SameLasts DEF Lasting, Check, ConfigurationErrors
  <2>2. t1.error = FirstError(<<v, b(ss), k, o, n, x>>) /\ t2.error = FirstError(<<v, b(rr), k, o, n, x>>)
      BY DEF create_accelerator_table
  <2> HIDE DEF b, v, k, o, n, x
  <2>3. Lasting(FirstError(<<v, b(ss), k, o, n, x>>), FirstError(<<v, b(rr), k, o, n, x>>))
    <3>1. Lasting(v, v) /\ Lasting(k, k) /\ Lasting(o, o) /\ Lasting(n, n) /\ Lasting(x, x)
        BY <2>1
    <3> QED
        BY <2>1, <3>1, SixLast
  <2> HIDE DEF t1, t2
  <2> QED
      BY <2>1, <2>2, <2>3
<1>4. /\ Register(c, p, ss, os, fs, state).error = FirstError(<<register_dataset(c), write(s), e1>>)
      /\ Register(c, p, rr, {}, gs, "up").error = FirstError(<<register_dataset(c), write(t), e2>>)
    BY DEF Register
<1> HIDE DEF write, e1, e2
<1> QED
    BY <1>2, <1>3, <1>4, SameLasts, ThreeLast

\* The parameters of a dataset as they are meant, and a dataset that no attempt loads.
Meant(c) == get_params_with_secrets(AllStores, c.user)
Params(c) == Made(c, Meant(c), AllStores).params
Hopeless(c, m, fs) == \A gs, x : fs \subseteq gs => ~Loadable(c, AllStores, m, gs, "up", x)

\* It is hopeless to load what is refused, or what one step of a load would refuse.
LEMMA IsHopeless ==
    ASSUME NEW c, NEW m, NEW fs,
           \/ Refusal(c) # "ok"
           \/ NewParams(c, Meant(c), AllStores) # "ok"
           \/ Create(c, Params(c), "up") # "ok"
           \/ \A gs, x : fs \subseteq gs => Read(c, Params(c), AllStores, m, gs, "up", x) # "ok"
           \/ \A gs : Register(c, Params(c), AllStores, {}, gs, "up").error # "ok"
    PROVE  Hopeless(c, m, fs)
<1> SUFFICES ASSUME NEW gs, NEW x, fs \subseteq gs, Loadable(c, AllStores, m, gs, "up", x)
             PROVE  FALSE
    BY DEF Hopeless
<1>1. /\ Refusal(c) = "ok" /\ NewParams(c, Meant(c), AllStores) = "ok"
      /\ Create(c, Params(c), "up") = "ok"
      /\ Read(c, Params(c), AllStores, m, gs, "up", x) = "ok"
      /\ Register(c, Params(c), AllStores, {}, gs, "up").error = "ok"
    BY Zenon DEF Loadable, Meant, Params
<1> QED
    BY <1>1

\* What an attempt that nothing disturbs has so far: the parameters as they are meant, a
\* connector made of them; and when it has ended with an error of the configuration, no
\* attempt can end well.
Undisturbed(d) == ~faulty[d] /\ ~StoresMissed
Attempted(d) ==
    /\ pc[d] \in {"new", "create", "read", "register"} => user[d] = Meant(def[d])
    /\ pc[d] \in {"create", "read", "register"} =>
          /\ NewParams(def[d], Meant(def[d]), AllStores) = "ok" /\ held[d] = Params(def[d])
    /\ pc[d] \in {"start", "refused"} /\ error[d] \in ConfigurationErrors =>
          Hopeless(def[d], meta[d], files)
AttemptsInv ==
    /\ AreStores(stores)
    /\ DOMAIN faulty = Datasets /\ DOMAIN error = Datasets /\ DOMAIN meta = Datasets
    /\ \A d \in Datasets : Undisturbed(d) => Attempted(d)

\* The load of a dataset that takes no step.
LEMMA OthersStay ==
    ASSUME NEW d, Undisturbed(d) => Attempted(d), Loaded(stores') = Loaded(stores),
           def' = def, files \subseteq files', faulty'[d] = faulty[d], pc'[d] = pc[d],
           user'[d] = user[d], held'[d] = held[d], error'[d] = error[d], meta'[d] = meta[d]
    PROVE  Undisturbed(d)' => Attempted(d)'
<1> SUFFICES ASSUME Undisturbed(d)' PROVE Attempted(d)'
    OBVIOUS
<1>1. Undisturbed(d)
    BY DEF Undisturbed, StoresMissed
<1>2. Hopeless(def[d], meta[d], files) => Hopeless(def'[d], meta'[d], files')
    BY DEF Hopeless
<1> QED
    BY <1>1, <1>2 DEF Attempted

\* One load takes a step while the stores stay.
LEMMA OneLoad ==
    ASSUME IInv, AttemptsInv, NEW d \in Datasets, stores' = stores, def' = def, files \subseteq files',
           DOMAIN faulty' = Datasets, DOMAIN error' = Datasets, DOMAIN meta' = Datasets,
           \A e \in Datasets \ {d} : /\ faulty'[e] = faulty[e] /\ pc'[e] = pc[e] /\ user'[e] = user[e]
                                     /\ held'[e] = held[e] /\ error'[e] = error[e] /\ meta'[e] = meta[e],
           Undisturbed(d)' => Attempted(d)'
    PROVE  AttemptsInv'
<1>1. \A e \in Datasets \ {d} : Undisturbed(e)' => Attempted(e)'
    BY OthersStay DEF AttemptsInv
<1> QED
    BY <1>1 DEF AttemptsInv

LEMMA GetParamsAttempts ==
    ASSUME IInv, AttemptsInv, NEW d \in Datasets, GetParams(d)
    PROVE  AttemptsInv'
<1>1. /\ faulty' = [faulty EXCEPT ![d] = Failing(stores)] /\ pc' = [pc EXCEPT ![d] = "new"]
      /\ user' = [user EXCEPT ![d] = get_params_with_secrets(stores, def[d].user)]
      /\ UNCHANGED <<def, stores, files, held, error, meta>>
    BY DEF GetParams, world
<1>2. /\ DOMAIN faulty = Datasets /\ DOMAIN error = Datasets /\ DOMAIN meta = Datasets
      /\ DOMAIN pc = Datasets /\ DOMAIN user = Datasets /\ DOMAIN held = Datasets /\ AreStores(stores)
    BY DEF IInv, TypeInv, AttemptsInv
<1>3. ASSUME Undisturbed(d)'
      PROVE  Attempted(d)'
  <2>1. Complete(stores)
      BY <1>1, <1>2, <1>3 DEF Undisturbed, StoresMissed, Complete
  <2>2. get_params_with_secrets(stores, def[d].user) = Meant(def[d])
      BY <2>1, SameParams DEF Meant
  <2>3. pc'[d] = "new" /\ user'[d] = Meant(def[d])
      BY <1>1, <1>2, <2>2
  <2> QED
      BY <1>1, <2>3 DEF Attempted
<1> QED
    BY <1>1, <1>2, <1>3, OneLoad

LEMMA NewParametersAttempts ==
    ASSUME IInv, AttemptsInv, NEW d \in Datasets, NewParameters(d)
    PROVE  AttemptsInv'
<1> DEFINE e == NewParams(def[d], user[d], stores)
<1>1. /\ pc[d] = "new" /\ faulty' = [faulty EXCEPT ![d] = faulty[d] \/ Failing(stores)]
      /\ UNCHANGED <<def, stores, files, user, meta>>
    BY DEF NewParameters, world
<1>2. /\ DOMAIN faulty = Datasets /\ DOMAIN error = Datasets /\ DOMAIN meta = Datasets
      /\ DOMAIN pc = Datasets /\ DOMAIN user = Datasets /\ DOMAIN held = Datasets /\ AreStores(stores)
    BY DEF IInv, TypeInv, AttemptsInv
<1>3. \/ /\ e = "ok" /\ pc' = [pc EXCEPT ![d] = "create"] /\ UNCHANGED error
         /\ held' = [held EXCEPT ![d] = Made(def[d], user[d], stores).params]
      \/ /\ e # "ok" /\ pc' = [pc EXCEPT ![d] = "start"] /\ error' = [error EXCEPT ![d] = e]
         /\ UNCHANGED held
    BY DEF NewParameters, Fail
<1> HIDE DEF e
<1>4. ASSUME Undisturbed(d)'
      PROVE  Attempted(d)'
  <2>1. ~faulty[d] /\ ~Failing(stores) /\ ~StoresMissed
      BY <1>1, <1>2, <1>4 DEF Undisturbed, StoresMissed
  <2>2. Complete(stores) /\ user[d] = Meant(def[d])
      BY <1>1, <1>2, <2>1 DEF Undisturbed, StoresMissed, Complete, AttemptsInv, Attempted
  <2>3. Made(def[d], user[d], stores) = Made(def[d], Meant(def[d]), AllStores)
      BY <2>2, SameMade DEF Made
  <2>4. e = NewParams(def[d], Meant(def[d]), AllStores)
      BY <2>3 DEF e, NewParams
  <2>5. CASE e = "ok"
    <3>1. pc'[d] = "create" /\ held'[d] = Params(def[d])
        BY <1>2, <1>3, <2>3, <2>5 DEF Params
    <3> QED
        BY <1>1, <2>2, <2>4, <2>5, <3>1 DEF Attempted
  <2>6. CASE e # "ok"
    <3>1. pc'[d] = "start"
        BY <1>2, <1>3, <2>6
    <3>2. Hopeless(def[d], meta[d], files)
        BY <2>4, <2>6, IsHopeless
    <3> QED
        BY <1>1, <3>1, <3>2 DEF Attempted
  <2> QED
      BY <2>5, <2>6
<1> QED
    BY <1>1, <1>2, <1>3, <1>4, OneLoad

LEMMA CreateConnectorAttempts ==
    ASSUME IInv, AttemptsInv, NEW d \in Datasets, CreateConnector(d)
    PROVE  AttemptsInv'
<1> DEFINE e == Create(def[d], held[d], net[d])
<1>1. pc[d] = "create" /\ UNCHANGED <<def, stores, files, user, held, faulty, meta>>
    BY DEF CreateConnector, world
<1>2. /\ DOMAIN faulty = Datasets /\ DOMAIN error = Datasets /\ DOMAIN meta = Datasets
      /\ DOMAIN pc = Datasets /\ source(def[d]) \in DOMAIN Factories
    BY <1>1 DEF IInv, TypeInv, AttemptsInv, ParamsInv, Equipped
<1>3. \/ pc' = [pc EXCEPT ![d] = "read"] /\ UNCHANGED error
      \/ pc' = [pc EXCEPT ![d] = "start"] /\ error' = [error EXCEPT ![d] = e]
    BY DEF CreateConnector, Fail
<1>4. Lasting(e, Create(def[d], held[d], "up"))
  <2>1. SameDataset(Seen(def[d], None), Seen(def[d], None))
      BY DEF SameDataset, Seen
  <2>2. /\ SameSource(SourceOf(def[d], held[d], net[d]), SourceOf(def[d], held[d], "up"))
        /\ SourceOf(def[d], held[d], "up").net = "up"
      BY DEF SameSource, SourceOf
  <2> QED
      BY <1>2, <2>1, <2>2, EveryConnectorLasts DEF ConnectorLasts, Create
<1> HIDE DEF e
<1>5. ASSUME Undisturbed(d)'
      PROVE  Attempted(d)'
  <2>1. Attempted(d)
      BY <1>1, <1>5 DEF Undisturbed, StoresMissed, AttemptsInv
  <2>2. /\ user[d] = Meant(def[d]) /\ NewParams(def[d], Meant(def[d]), AllStores) = "ok"
        /\ held[d] = Params(def[d])
      BY <1>1, <2>1 DEF Attempted
  <2>3. CASE pc' = [pc EXCEPT ![d] = "read"]
    <3>1. pc'[d] = "read"
        BY <1>2, <2>3
    <3> QED
        BY <1>1, <2>2, <3>1 DEF Attempted
  <2>4. CASE pc' = [pc EXCEPT ![d] = "start"] /\ error' = [error EXCEPT ![d] = e]
    <3>1. pc'[d] = "start" /\ error'[d] = e
        BY <1>2, <2>4
    <3>2. e \in ConfigurationErrors => Hopeless(def[d], meta[d], files)
        BY <1>4, <2>2, IsHopeless DEF Lasting
    <3> QED
        BY <1>1, <3>1, <3>2 DEF Attempted
  <2> QED
      BY <1>3, <2>3, <2>4
<1> QED
    BY <1>1, <1>2, <1>3, <1>5, OneLoad

LEMMA ReadProviderAttempts ==
    ASSUME IInv, AttemptsInv, NEW d \in Datasets, ReadProvider(d)
    PROVE  AttemptsInv'
<1> DEFINE e == Read(def[d], held[d], stores, meta[d], files, net[d], remote[d])
<1>1. pc[d] = "read" /\ UNCHANGED <<def, stores, files, user, held>>
    BY DEF ReadProvider
<1>2. /\ DOMAIN faulty = Datasets /\ DOMAIN error = Datasets /\ DOMAIN meta = Datasets
      /\ DOMAIN pc = Datasets /\ source(def[d]) \in DOMAIN Factories
    BY <1>1 DEF IInv, TypeInv, AttemptsInv, ParamsInv, Equipped
<1>3. /\ \/ e = "ok" /\ pc' = [pc EXCEPT ![d] = "register"] /\ UNCHANGED error
         \/ e # "ok" /\ pc' = [pc EXCEPT ![d] = "start"] /\ error' = [error EXCEPT ![d] = e]
      /\ \E x : meta' = [meta EXCEPT ![d] = IF e = "ok" THEN x ELSE meta[d]]
      /\ \E b : faulty' = [faulty EXCEPT ![d] = faulty[d] \/ b]
  <2>1. /\ IF e = "ok" THEN pc' = [pc EXCEPT ![d] = "register"] /\ UNCHANGED error ELSE Fail(d, e)
        /\ meta' = [meta EXCEPT ![d] =
              IF e = "ok" /\ source(def[d]) = "debezium" /\ is_file_accelerated(def[d])
              THEN "same" ELSE meta[d]]
        /\ faulty' = [faulty EXCEPT ![d] = faulty[d] \/ (def[d].catalog # None /\ Failing(stores))]
      BY DEF ReadProvider
  <2> HIDE DEF e
  <2>2. \E x : meta' = [meta EXCEPT ![d] = IF e = "ok" THEN x ELSE meta[d]]
    <3>1. CASE e = "ok"
        BY <2>1, <3>1
    <3>2. CASE e # "ok"
        BY <2>1, <3>2
    <3> QED
        BY <3>1, <3>2
  <2> QED
      BY <2>1, <2>2 DEF Fail
<1>4. \A gs, x : files \subseteq gs => Lasting(e, Read(def[d], held[d], AllStores, meta[d], gs, "up", x))
    BY <1>2, ReadLasts
<1> HIDE DEF e
<1>5. ASSUME Undisturbed(d)'
      PROVE  Attempted(d)'
  <2>1. Attempted(d)
      BY <1>1, <1>2, <1>3, <1>5 DEF Undisturbed, StoresMissed, AttemptsInv
  <2>2. /\ user[d] = Meant(def[d]) /\ NewParams(def[d], Meant(def[d]), AllStores) = "ok"
        /\ held[d] = Params(def[d])
      BY <1>1, <2>1 DEF Attempted
  <2>3. CASE e = "ok"
    <3>1. pc'[d] = "register"
        BY <1>2, <1>3, <2>3
    <3> QED
        BY <1>1, <2>2, <3>1 DEF Attempted
  <2>4. CASE e # "ok"
    <3>1. pc'[d] = "start" /\ error'[d] = e /\ meta'[d] = meta[d]
        BY <1>2, <1>3, <2>4
    <3>2. e \in ConfigurationErrors => Hopeless(def[d], meta[d], files)
        BY <1>4, <2>2, IsHopeless DEF Lasting
    <3> QED
        BY <1>1, <3>1, <3>2 DEF Attempted
  <2> QED
      BY <2>3, <2>4
<1> QED
    BY <1>1, <1>2, <1>3, <1>5, OneLoad

LEMMA RegisterDatasetAttempts ==
    ASSUME IInv, AttemptsInv, NEW d \in Datasets, RegisterDataset(d)
    PROVE  AttemptsInv'
<1> DEFINE r == Register(def[d], held[d], stores, Others(d), files, net[d])
<1>1. pc[d] = "register" /\ UNCHANGED <<def, stores, meta, user, held>>
      /\ faulty' = [faulty EXCEPT ![d] = faulty[d] \/ Failing(stores)]
    BY DEF RegisterDataset
<1>2. /\ DOMAIN faulty = Datasets /\ DOMAIN error = Datasets /\ DOMAIN meta = Datasets
      /\ DOMAIN pc = Datasets /\ source(def[d]) \in DOMAIN Factories
    BY <1>1 DEF IInv, TypeInv, AttemptsInv, ParamsInv, Equipped
<1>3. \/ /\ pc' = [pc EXCEPT ![d] = "done"] /\ error' = [error EXCEPT ![d] = "ok"]
         /\ files \subseteq files'
      \/ pc' = [pc EXCEPT ![d] = "start"] /\ error' = [error EXCEPT ![d] = r.error] /\ files' = files
  <2>1. CASE r.error = "ok"
      BY <2>1 DEF RegisterDataset
  <2>2. CASE r.error # "ok"
      BY <2>2 DEF RegisterDataset, Fail
  <2> QED
      BY <2>1, <2>2
<1>4. \A gs : Lasting(r.error, Register(def[d], held[d], AllStores, {}, gs, "up").error)
    BY <1>2, RegisterLasts
<1> HIDE DEF r
<1>5. ASSUME Undisturbed(d)'
      PROVE  Attempted(d)'
  <2>1. Attempted(d)
      BY <1>1, <1>2, <1>5 DEF Undisturbed, StoresMissed, AttemptsInv
  <2>2. held[d] = Params(def[d])
      BY <1>1, <2>1 DEF Attempted
  <2>3. CASE pc' = [pc EXCEPT ![d] = "done"]
    <3>1. pc'[d] = "done"
        BY <1>2, <2>3
    <3> QED
        BY <3>1 DEF Attempted
  <2>4. CASE pc' = [pc EXCEPT ![d] = "start"] /\ error' = [error EXCEPT ![d] = r.error] /\ files' = files
    <3>1. pc'[d] = "start" /\ error'[d] = r.error
        BY <1>2, <2>4
    <3>2. r.error \in ConfigurationErrors => Hopeless(def[d], meta[d], files)
        BY <1>4, <2>2, IsHopeless DEF Lasting
    <3> QED
        BY <1>1, <2>4, <3>1, <3>2 DEF Attempted
  <2> QED
      BY <1>3, <2>3, <2>4
<1>6. files \subseteq files' /\ DOMAIN error' = Datasets /\ DOMAIN pc' = Datasets
    BY <1>2, <1>3
<1> QED
    BY <1>1, <1>2, <1>3, <1>5, <1>6, OneLoad

\* A store fails or is itself again: it is the same store.
LEMMA StoreChangesAttempts ==
    ASSUME AttemptsInv, NEW i \in DOMAIN stores, StoreChanges(i)
    PROVE  AttemptsInv'
<1>1. /\ stores' = [stores EXCEPT ![i] = [stores[i] EXCEPT !.fault = ~stores[i].fault]]
      /\ UNCHANGED <<def, pc, user, held, error, faulty, meta, files>>
    BY DEF StoreChanges
<1>2. DOMAIN stores' = DOMAIN stores /\ \A j \in DOMAIN stores : j # i => stores'[j] = stores[j]
    BY <1>1
<1>3. PICK r : r = stores[i]
    OBVIOUS
<1>4. stores'[i] = [r EXCEPT !.fault = ~r.fault] /\ DOMAIN r = StoreFields /\ ValidStore(r)
    BY <1>1, <1>3 DEF AttemptsInv, AreStores
<1>5. PICK s : s = stores'[i]
    OBVIOUS
<1>6. s = [r EXCEPT !.fault = ~r.fault]
    BY <1>4, <1>5
<1>7. DOMAIN s = StoreFields /\ s.provider = r.provider /\ s.selector = r.selector
    BY <1>4, <1>6 DEF StoreFields
<1>8. ValidStore(s)
    BY <1>4, <1>7 DEF ValidStore
<1>9. [s EXCEPT !.init = TRUE, !.fault = FALSE] = [r EXCEPT !.init = TRUE, !.fault = FALSE]
    BY <1>4, <1>6 DEF StoreFields
<1>10. AreStores(stores)'
  <2>1. DOMAIN stores' \subseteq Nat
      BY <1>2 DEF AttemptsInv, AreStores
  <2>2. \A j \in DOMAIN stores' : DOMAIN stores'[j] = StoreFields /\ ValidStore(stores'[j])
      BY <1>2, <1>5, <1>7, <1>8 DEF AttemptsInv, AreStores
  <2> QED
      BY <2>1, <2>2 DEF AreStores
<1>11. Loaded(stores') = Loaded(stores)
  <2>1. ASSUME NEW j \in DOMAIN stores
        PROVE  [stores'[j] EXCEPT !.init = TRUE, !.fault = FALSE] = [stores[j] EXCEPT !.init = TRUE, !.fault = FALSE]
    <3>1. CASE j = i
        BY <1>3, <1>5, <1>9, <3>1
    <3>2. CASE j # i
        BY <1>2, <3>2
    <3> QED
        BY <3>1, <3>2
  <2> QED
      BY <1>2, <2>1 DEF Loaded
<1>12. \A d \in Datasets : Undisturbed(d)' => Attempted(d)'
    BY <1>1, <1>11, OthersStay DEF AttemptsInv
<1> QED
    BY <1>1, <1>10, <1>12 DEF AttemptsInv

\* A process that starts has stores, and refuses what is refused every time.
LEMMA BootAttempts ==
    ASSUME NEW ds, ds \in Seq(Range(ds)), \A s \in Range(ds) : DOMAIN s = StoreFields
    PROVE  AreStores(load_from(ds, EnvDefault))
<1>1. PICK ss : ss = load_from(ds, EnvDefault)
    OBVIOUS
<1>2. /\ DOMAIN ss \subseteq Nat
      /\ \A i \in DOMAIN ss : ss[i] = EnvDefault \/ (ss[i] \in Range(ds) /\ ValidStore(ss[i]))
    BY <1>1, LoadedStores
<1>3. DOMAIN EnvDefault = StoreFields /\ ValidStore(EnvDefault)
    BY DEF EnvDefault, StoreFields, ValidStore
<1>4. AreStores(ss)
    BY <1>2, <1>3 DEF AreStores
<1> QED
    BY <1>1, <1>4

LEMMA InitAttempts == Init => AttemptsInv
<1> SUFFICES ASSUME Init PROVE AttemptsInv
    OBVIOUS
<1>1. AreStores(stores)
    BY BootAttempts, DeclsAssumption DEF Init, StoreFields
<1>2. DOMAIN faulty = Datasets /\ DOMAIN error = Datasets /\ DOMAIN meta = Datasets
    BY DEF Init
<1>3. ASSUME NEW d \in Datasets
      PROVE  Attempted(d)
  <2>1. pc[d] \in {"start", "refused"} /\ error[d] = Refusal(def[d])
      BY DEF Init
  <2>2. error[d] \in ConfigurationErrors => Hopeless(def[d], meta[d], files)
      BY <2>1, NotConfiguration, IsHopeless
  <2> QED
      BY <2>1, <2>2 DEF Attempted
<1> QED
    BY <1>1, <1>2, <1>3 DEF AttemptsInv

LEMMA RestartAttempts ==
    ASSUME AttemptsInv, Restart
    PROVE  AttemptsInv'
<1>1. PICK reachable \in BOOLEAN : Boot(reachable)
    BY DEF Restart
<1> DEFINE ds == [i \in DOMAIN Decls |-> [Decls[i] EXCEPT !.init = Decls[i].init /\ reachable]]
<1>2. stores' = load_from(ds, EnvDefault)
    BY <1>1, Zenon DEF Boot
<1>3. ds \in Seq(Range(ds)) /\ \A s \in Range(ds) : DOMAIN s = StoreFields
  <2>1. PICK n \in Nat : Decls \in [1..n -> Range(Decls)]
      BY DeclsAssumption, SeqDef
  <2>2. DOMAIN ds = 1..n /\ \A i \in 1..n : DOMAIN ds[i] = StoreFields
    <3>1. DOMAIN Decls = 1..n
        BY <2>1
    <3>2. \A i \in 1..n : DOMAIN Decls[i] = StoreFields
        BY <2>1, DeclsAssumption DEF StoreFields
    <3> QED
        BY <3>1, <3>2
  <2>3. ds = [i \in DOMAIN ds |-> ds[i]]
      OBVIOUS
  <2> HIDE DEF ds
  <2>4. ds \in [1..n -> Range(ds)]
      BY <2>2, <2>3 DEF Range
  <2> QED
      BY <2>2, <2>4, SeqDef DEF Range
<1> HIDE DEF ds
<1>4. AreStores(stores)'
    BY <1>2, <1>3, BootAttempts
<1>5. /\ pc' = [d \in Datasets |-> IF Refusal(def[d]) = "ok" THEN "start" ELSE "refused"]
      /\ error' = [d \in Datasets |-> Refusal(def[d])] /\ faulty' = [d \in Datasets |-> FALSE]
      /\ def' = def /\ meta' = meta
    BY <1>1 DEF Boot, Restart
<1>6. ASSUME NEW d \in Datasets
      PROVE  Attempted(d)'
  <2>1. pc'[d] \in {"start", "refused"} /\ error'[d] = Refusal(def[d])
      BY <1>5
  <2>2. error'[d] \in ConfigurationErrors => Hopeless(def[d], meta[d], files')
      BY <2>1, NotConfiguration, IsHopeless
  <2> QED
      BY <1>5, <2>1, <2>2 DEF Attempted
<1> QED
    BY <1>4, <1>5, <1>6 DEF AttemptsInv

LEMMA NextAttempts == IInv /\ AttemptsInv /\ [Next]_vars => AttemptsInv'
<1> SUFFICES ASSUME IInv, AttemptsInv, [Next]_vars PROVE AttemptsInv'
    OBVIOUS
<1>1. ASSUME UNCHANGED <<def, stores, files, faulty, pc, user, held, error, meta>>
      PROVE  AttemptsInv'
  <2>1. \A d \in Datasets : Undisturbed(d)' => Attempted(d)'
      BY <1>1, OthersStay DEF AttemptsInv
  <2> QED
      BY <1>1, <2>1 DEF AttemptsInv
<1>2. ASSUME NEW d \in Datasets, Step(d) PROVE AttemptsInv'
    BY <1>2, GetParamsAttempts, NewParametersAttempts, CreateConnectorAttempts,
       ReadProviderAttempts, RegisterDatasetAttempts DEF Step
<1>3. ASSUME NEW d \in Datasets, NEW state, SourceChanges(d, state) PROVE AttemptsInv'
    BY <1>1, <1>3 DEF SourceChanges
<1>4. ASSUME NEW d \in Datasets, NEW limit, StartScan(d, limit) PROVE AttemptsInv'
    BY <1>1, <1>4 DEF StartScan, world
<1>5. CASE ScanPage
    BY <1>1, <1>5 DEF ScanPage, world
<1>6. ASSUME NEW i \in DOMAIN stores, StoreChanges(i) PROVE AttemptsInv'
    BY <1>6, StoreChangesAttempts
<1>7. ASSUME NEW d \in Datasets, CollectionChanges(d) PROVE AttemptsInv'
    BY <1>1, <1>7 DEF CollectionChanges
<1>8. CASE Restart
    BY <1>8, RestartAttempts
<1>9. CASE UNCHANGED vars
    BY <1>1, <1>9 DEF vars
<1> QED
    BY <1>2, <1>3, <1>4, <1>5, <1>6, <1>7, <1>8, <1>9 DEF Next

\* A dataset whose attempt ended with an error of the configuration can be loaded by no
\* attempt, whatever becomes of its source, of the files and of the collection: unless a
\* store failed during the attempt or did not load. For all the connectors that
\* register_all registers, with any parameters.
THEOREM ConfigErrorsArePermanentHold == Spec => []ConfigErrorsArePermanent
<1>1. AttemptsInv => ConfigErrorsArePermanent
  <2> SUFFICES ASSUME AttemptsInv, NEW d \in Datasets, pc[d] \in {"start", "refused"},
                      error[d] \in ConfigurationErrors, ~faulty[d], ~StoresMissed
               PROVE  ~Loadable(def[d], AllStores, meta[d], files, "up", remote[d])
      BY DEF ConfigErrorsArePermanent
  <2>1. Hopeless(def[d], meta[d], files)
      BY DEF AttemptsInv, Undisturbed, Attempted
  <2> QED
      BY <2>1 DEF Hopeless
<1> QED
    BY <1>1, InitAttempts, NextAttempts, ConnectorInvariance, PTL DEF Spec
=============================================================================
