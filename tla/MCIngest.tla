------------------------------ MODULE MCIngest ------------------------------
(***************************************************************************)
(* Two DoPut calls, two subscribers, two OTLP calls and the exporter of    *)
(* the runtime's metrics. A case has the clients of one kind at work and   *)
(* the others idle.                                                        *)
(***************************************************************************)
EXTENDS Ingest

CONSTANTS p1, p2, s1, s2, o1, o2, meter,
          ra, rb, rc, rx, rz,  \* rows
          ra2                 \* a row with the key of ra

AllPuts == {p1, p2}
AllSubscribers == {s1, s2}
AllExports == {o1, o2}
AllWriters == AllPuts \cup AllExports \cup {meter}
NoRows == {}
TwoColumns == [value |-> "Int64", attributes |-> <<[key |-> "k", type |-> "Utf8"]>>]
MetricsColumns == [value |-> "Metrics", attributes |-> <<>>]
RemovableTables == {"sink", "counter"}

Plain == [kind |-> "sink", zero |-> "return_empty", writable |-> TRUE, parked |-> FALSE,
          schema |-> TwoColumns, constraints |-> "none", upsert |-> FALSE, other |-> <<>>]
RowKeys == [r \in {ra, rb, rc, rx, ra2} |-> IF r = ra2 THEN ra ELSE r]
AllTables ==
    [sink     |-> Plain,
     fallback |-> [Plain EXCEPT !.kind = "tee", !.zero = "use_source", !.other = <<<<rx>>>>],
     tee      |-> [Plain EXCEPT !.kind = "tee"],
     remote   |-> [Plain EXCEPT !.kind = "federated", !.other = <<<<rx>>>>],
     unique   |-> [Plain EXCEPT !.kind = "federated", !.constraints = "unique"],
     stamped  |-> [Plain EXCEPT !.kind = "federated", !.constraints = "timestamp"],
     keyed    |-> [Plain EXCEPT !.upsert = TRUE],
     readonly |-> [Plain EXCEPT !.writable = FALSE],
     gauge    |-> Plain,
     counter  |-> [Plain EXCEPT !.parked = TRUE],
     odd      |-> [Plain EXCEPT !.schema.attributes = <<[key |-> "k", type |-> "Timestamp"]>>],
     wrong    |-> [Plain EXCEPT !.schema.value = "Utf8"],
     metrics  |-> [Plain EXCEPT !.schema = MetricsColumns]]

\* DoPut calls.
Rows(rows) == [is |-> "batch", rows |-> rows]
Undecodable == [is |-> "undecodable", rows |-> <<>>]
Broken == [is |-> "broken", rows |-> <<>>]
Call(first, t, rest) == [first |-> first, table |-> t, schema |-> TwoColumns, rest |-> rest]
OtherNames(t) ==
    [Call("schema", t, <<Rows(<<ra>>)>>) EXCEPT
        !.schema.attributes = <<[key |-> "l", type |-> "Utf8"]>>]
TooMany(t) ==
    [Call("schema", t, <<Rows(<<ra>>)>>) EXCEPT
        !.schema.attributes = @ \o <<[key |-> "l", type |-> "Utf8"]>>]

Idle == [put |-> <<>>, sub |-> <<>>, follows |-> <<>>, export |-> <<>>, own |-> <<>>,
         faults |-> 0]

\* Two writers with one subscriber of a table, one with two, and one with one.
Busy == {[Idle EXCEPT !.put = (p1 :> Call("schema", "keyed", <<Rows(<<ra>>)>>))
                                @@ (p2 :> Call("schema", "keyed", <<Rows(<<ra2>>)>>)),
                      !.sub = s1 :> "keyed", !.follows = s1 :> "upsert", !.faults = MaxFaults]}
Crowd == {[Idle EXCEPT !.put = p1 :> Call("schema", "sink", <<Rows(<<ra>>)>>),
                       !.sub = (s1 :> "sink") @@ (s2 :> "sink"), !.follows = s1 :> "upsert"]}
Alone == {[Idle EXCEPT !.put = p1 :> Call("schema", t, <<Rows(<<ra>>), Rows(<<rb>>)>>),
                       !.sub = s1 :> t] : t \in {"tee", "fallback"}}
           \cup {[Idle EXCEPT !.put = p1 :> Call("schema", "remote", <<Rows(<<ra>>)>>),
                              !.sub = s1 :> "remote"]}
Follow == {[Idle EXCEPT !.put = p1 :> Call("schema", f[1], f[2]), !.sub = s1 :> f[1],
                        !.follows = s1 :> f[3]] :
              f \in {<<"keyed", <<Rows(<<ra, rb>>), Rows(<<ra2>>)>>, "upsert">>,
                     <<"sink", <<Rows(<<ra, rb>>)>>, "append">>,
                     <<"stamped", <<Rows(<<ra, rb>>)>>, "append">>}}
Unique == {[Idle EXCEPT !.put = p1 :> Call("schema", "unique", <<Rows(<<ra>>)>>),
                        !.sub = s1 :> "unique"]}
Odd == {[Idle EXCEPT !.put = p1 :> call, !.sub = s1 :> "sink"] :
            call \in {Call("no_descriptor", "sink", <<>>), Call("schema", "readonly", <<>>),
                      Call("schema", "sink", <<Broken, Rows(<<ra>>), Undecodable, Rows(<<rb>>)>>),
                      OtherNames("sink"), TooMany("sink"), Call("schema", "absent", <<>>)}}

\* OTLP metrics.
Num(v) == [type |-> "Int64", value |-> v]
Txt(v) == [type |-> "Utf8", value |-> v]
Attr(k, v) == [key |-> k, value |-> v]
Point(id, v, attrs) == [id |-> id, value |-> v, flagged |-> FALSE, attributes |-> attrs]
Flagged(id, attrs) == [Point(id, None, attrs) EXCEPT !.flagged = TRUE]
Metric(kind, name, points) == [kind |-> kind, name |-> name, points |-> points]

\* Points whose attributes come, go and change their type.
Ragged(id) == <<Point(<<id, 1>>, Num(1), <<Attr("k", Txt(ra)), Attr("l", Num(1))>>),
                Point(<<id, 2>>, Txt(2), <<Attr("k", Txt(rx))>>),
                Point(<<id, 3>>, Num(3), <<Attr("l", Num(3)), Attr("k", Num(2))>>),
                Flagged(<<id, 4>>, <<Attr("k", None), Attr("l", [type |-> "List", value |-> rz])>>),
                Point(<<id, 5>>, None, <<>>),
                Point(<<id, 6>>, Num(6), <<Attr("k", Txt(rb))>>)>>
Even(id) == <<Point(<<id, 1>>, Num(1), <<Attr("k", Txt(ra))>>),
              Point(<<id, 2>>, Num(2), <<>>),
              Point(<<id, 3>>, Num(3), <<Attr("k", Txt(rc))>>)>>
\* An attribute the first point does not have.
Late(id) == <<Point(<<id, 1>>, Num(1), <<>>),
              Point(<<id, 2>>, Num(2), <<Attr("k", Txt(ra))>>)>>
Later(id) == <<Point(<<id, 1>>, Num(1), <<>>), Point(<<id, 2>>, Num(2), <<>>),
               Point(<<id, 3>>, Num(3), <<Attr("k", Txt(ra))>>)>>
NoValue(id) == <<Point(<<id, 1>>, None, <<>>)>>

Metrics(id) ==
    {Metric("Gauge", "gauge", Even(id)), Metric("Sum", "counter", Ragged(id)),
     Metric("Gauge", "counter", Late(id)), Metric("Gauge", "counter", Later(id)),
     Metric("Sum", "counter", NoValue(id)), Metric("Gauge", "counter", <<>>),
     Metric("Gauge", "gauge", Ragged(id)), Metric("Gauge", "odd", Even(id)),
     Metric("Gauge", "odd", Late(id)), Metric("Gauge", "wrong", Even(id)),
     Metric("Histogram", "gauge", Even(id)), Metric("Sum", "readonly", Even(id))}
Otlp == {[Idle EXCEPT !.export = (o1 :> <<m, Metric("Gauge", "gauge", Even("second"))>>)
                                    @@ (o2 :> <<n>>)] :
            m \in Metrics("first"),
            n \in {Metric("Sum", "counter", Even("other")), Metric("Gauge", "gauge", Even("other"))}}

\* The runtime's own metrics.
Kv(k, t, v) == [key |-> k, type |-> t, value |-> v]
Base(kind, points) ==
    [kind |-> kind, name |-> "m", description |-> "d", unit |-> "u",
     temporality |-> "Cumulative", is_monotonic |-> TRUE, points |-> points,
     resource |-> [schema_url |-> None, attributes |-> <<Kv("service", "Str", rz)>>],
     scope |-> [name |-> "runtime", version |-> None, schema_url |-> None, attributes |-> <<>>]]
OwnPoint(t, attrs, v) == [time |-> t, start |-> None, attributes |-> attrs, value |-> v]
Number(t, n) == [type |-> t, value |-> n]
Buckets == [count |-> 2, sum |-> 3, bucket_counts |-> <<1, 1>>, explicit_bounds |-> <<2>>,
            min |-> 1, max |-> None]
Sums(kv) == Base("Sum", <<OwnPoint(1, <<Kv("dataset", "Str", ra), Kv("status", "Str", rb)>>, Number("u64", 3)),
                          OwnPoint(1, <<kv>>, Number("u64", 1))>>)
Gauges == Base("Gauge", <<OwnPoint(2, <<>>, Number("f64", rc)),
                          OwnPoint(2, <<Kv("engine", "Str", rc)>>, Number("i64", 0))>>)
Histograms == Base("Histogram", <<OwnPoint(3, <<Kv("protocol", "Str", rx)>>, Buckets)>>)
Unsupported == Base("ExponentialHistogram", <<OwnPoint(4, <<>>, Number("u64", 1))>>)
Own == {[Idle EXCEPT !.own = <<<<Sums(kv), Gauges, Histograms>>, <<Unsupported>>,
                               <<Histograms, Sums(Kv("k", "Str", rx))>>, <<>>>>] :
            kv \in {Kv("dataset", "Str", rc), Kv("n", "Int", ra), Kv("d", "Double", ra),
                    Kv("b", "Bool", ra), Kv("s", "Array", ra)}}

\* A subscriber of a table that metrics are written to.
Watched == {[Idle EXCEPT !.export = o1 :> <<Metric("Gauge", "gauge", Even("watched"))>>,
                         !.sub = s1 :> "gauge"]}

AllCases == Watched \cup Follow \cup Busy \cup Crowd \cup Alone \cup Unique \cup Odd \cup Otlp \cup Own
\* The cases are of those ExportAccounted is about.
ASSUME CasesAreSunkOnce == SunkOnce

TeeCase == {[Idle EXCEPT !.put = p1 :> Call("schema", "tee", <<Rows(<<ra>>)>>)]}
=============================================================================
