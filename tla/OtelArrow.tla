------------------------------ MODULE OtelArrow -----------------------------
(***************************************************************************)
(* The runtime's own metrics as rows of runtime.metrics: every data point  *)
(* is appended to fifteen column builders, the attribute lists through     *)
(* offsets into columns of their own, and the finished columns must fit    *)
(* the schema.                                                             *)
(*                                                                         *)
(* Source: crates/otel-arrow/src.                                          *)
(***************************************************************************)
EXTENDS Integers, SequencesExt

CONSTANTS
    None,   \* a null
    Width   \* the bits of an integer: 64

(***************************************************************************)
(* Attribute lists: [key, type, value] records                             *)
(***************************************************************************)

\* The columns that hold a value, and the one each type of value goes to; an
\* array is kept as bytes.
AttributeColumn ==
    [Str |-> "str", Int |-> "int", Double |-> "double", Bool |-> "bool", Array |-> "bytes"]
AttributeColumns == {"str", "int", "double", "bool", "bytes", "ser"}
AttributeValueType ==
    [Str |-> 1, Int |-> 2, Double |-> 3, Bool |-> 4, Map |-> 5, Slice |-> 6, Bytes |-> 7]

\* Of the columns only the key, the type and the string are declared to hold no
\* nulls.
AttributeNotNull == {"key", "type", "str"}

AttributesBuilder ==
    [c \in AttributeColumns \cup {"key", "type"} |-> <<>>] @@ ("offsets" :> <<0>>)

\* An array is not serialised: what is stored is an empty string of bytes.
Kept(kv) == IF kv.type = "Array" THEN <<>> ELSE kv.value

AddAttribute(b, kv) ==
    [c \in DOMAIN b |->
        CASE c = "offsets" -> b[c]
          [] c = "key" -> Append(b[c], kv.key)
          [] c = "type" -> Append(b[c], AttributeValueType[
                                IF kv.type = "Array" THEN "Bytes" ELSE kv.type])
          [] OTHER -> Append(b[c], IF c = AttributeColumn[kv.type] THEN Kept(kv) ELSE None)]

\* Mutant: the offset of a list is noted before its values are appended.
offset_before_values(b, attributes) ==
    [FoldLeft(AddAttribute, b, attributes) EXCEPT !.offsets = Append(@, Len(b.key))]
\* The list of a row ends where its last attribute is.
add_attributes_to_builder(b, attributes) ==
    LET all == FoldLeft(AddAttribute, b, attributes)
    IN  [all EXCEPT !.offsets = Append(@, Len(all.key))]

\* Building the array panics when a column that holds no nulls has one.
AttributesPanic(b) ==
    \E c \in AttributeNotNull : \E i \in DOMAIN b[c] : b[c][i] = None

(***************************************************************************)
(* The columns of a data point                                             *)
(***************************************************************************)

FlatColumns ==
    {"time_unix_nano", "start_time_unix_nano", "schema_url", "metric_type", "name",
     "description", "unit", "aggregation_temporality", "is_monotonic", "flags"}
NotNull == {"time_unix_nano", "metric_type", "name"}
NumberFields == {"int_value", "double_value"}
HistogramFields == {"count", "sum", "bucket_counts", "explicit_bounds", "min", "max"}
ResourceFields == {"schema_url", "dropped_attributes_count"}
ScopeFields == {"name", "version", "dropped_attributes_count"}

MetricType == [Gauge |-> 1, Sum |-> 2, Histogram |-> 3]
temporality_to_i32 == [Delta |-> 1, Cumulative |-> 2]

\* A struct keeps its fields and which of its rows are valid.
StructBuilder(fields) == [f \in fields |-> <<>>] @@ ("valid" :> <<>>)

Converter ==
    [flat |-> [c \in FlatColumns |-> <<>>],
     resource |-> StructBuilder(ResourceFields), resource_attributes |-> AttributesBuilder,
     scope |-> StructBuilder(ScopeFields), scope_attributes |-> AttributesBuilder,
     attributes |-> AttributesBuilder,
     number |-> StructBuilder(NumberFields), histogram |-> StructBuilder(HistogramFields)]

\* One row of a builder; a field without a value is null.
AppendRow(b, row) ==
    [f \in DOMAIN b |-> Append(b[f], IF f \in DOMAIN row THEN row[f] ELSE None)]
Valid == "valid" :> TRUE
Invalid == "valid" :> FALSE

\* An unsigned number is cast to a signed one: the upper half wraps around.
NumberRow(v) ==
    CASE v.type = "u64" -> Valid @@ ("int_value" :>
            IF v.value >= 2^(Width - 1) THEN v.value - 2^Width ELSE v.value)
      [] v.type = "i64" -> Valid @@ ("int_value" :> v.value)
      [] v.type = "f64" -> Valid @@ ("double_value" :> v.value)

add_resource(c, r) ==
    [c EXCEPT !.resource = AppendRow(@, Valid @@ ("schema_url" :> r.schema_url)),
              !.resource_attributes = add_attributes_to_builder(@, r.attributes)]

\* The URL of the scope's schema is a column of its own.
add_scope(c, s) ==
    [c EXCEPT !.scope = AppendRow(@, Valid @@ ("name" :> s.name) @@ ("version" :> s.version)),
              !.scope_attributes = add_attributes_to_builder(@, s.attributes)]

\* What the three kinds of metrics append for a data point.
Row(c, m, p, flat, number, histogram) ==
    LET row == flat @@ [time_unix_nano |-> p.time, start_time_unix_nano |-> p.start,
                        schema_url |-> m.scope.schema_url, metric_type |-> MetricType[m.kind],
                        name |-> m.name, description |-> m.description, unit |-> m.unit]
        both == add_scope(add_resource(c, m.resource), m.scope)
    IN  [both EXCEPT !.flat = AppendRow(@, row),
                     !.attributes = add_attributes_to_builder(@, p.attributes),
                     !.number = AppendRow(@, number),
                     !.histogram = AppendRow(@, histogram)]

process_sum(c, m, p) ==
    Row(c, m, p, [aggregation_temporality |-> temporality_to_i32[m.temporality],
                  is_monotonic |-> m.is_monotonic], NumberRow(p.value), Invalid)
process_gauge(c, m, p) == Row(c, m, p, <<>>, NumberRow(p.value), Invalid)
process_histogram(c, m, p) ==
    Row(c, m, p, [aggregation_temporality |-> temporality_to_i32[m.temporality]],
        Invalid, Valid @@ p.value)

Processors == {"Gauge", "Sum", "Histogram"}
process_metric(c, m) ==
    FoldLeft(LAMBDA acc, p :
                CASE m.kind = "Sum" -> process_sum(acc, m, p)
                  [] m.kind = "Gauge" -> process_gauge(acc, m, p)
                  [] m.kind = "Histogram" -> process_histogram(acc, m, p),
             c, m.points)

\* Every column as long as the first, and no null where none may be.
Fits(c) ==
    LET n == Len(c.flat.time_unix_nano)
        long(b) == \A f \in DOMAIN b : Len(b[f]) = n
    IN  /\ long(c.flat) /\ long(c.resource) /\ long(c.scope)
        /\ long(c.number) /\ long(c.histogram)
        /\ \A b \in {c.attributes, c.resource_attributes, c.scope_attributes} :
              Len(b.offsets) = n + 1
        /\ \A f \in NotNull : \A i \in 1 .. n : c.flat[f][i] # None

\* A metric of another kind fails the whole export.
convert(metrics) ==
    IF \E i \in DOMAIN metrics : metrics[i].kind \notin Processors
    THEN [result |-> "error", columns |-> Converter]
    ELSE LET c == FoldLeft(process_metric, Converter, metrics)
         IN  [columns |-> c,
              result |-> IF \E b \in {c.attributes, c.resource_attributes,
                                     c.scope_attributes} : AttributesPanic(b) THEN "panic"
                         ELSE IF Fits(c) THEN "ok" ELSE "error"]

(***************************************************************************)
(* Reading a row back                                                      *)
(***************************************************************************)

TypeOfCode(code) == CHOOSE t \in DOMAIN AttributeValueType : AttributeValueType[t] = code

\* The attributes of row i: what lies between two offsets.
ReadAttributes(b, i) ==
    [k \in 1 .. b.offsets[i + 1] - b.offsets[i] |->
        LET j == b.offsets[i] + k
            t == TypeOfCode(b.type[j])
        IN  [key |-> b.key[j], type |-> t, value |-> b[AttributeColumn[t]][j]]]

ReadRow(c, i) ==
    [name |-> c.flat.name[i], kind |-> c.flat.metric_type[i], time |-> c.flat.time_unix_nano[i],
     attributes |-> ReadAttributes(c.attributes, i),
     resource |-> ReadAttributes(c.resource_attributes, i),
     scope |-> ReadAttributes(c.scope_attributes, i),
     value |-> IF c.number.valid[i]
               THEN {c.number[f][i] : f \in NumberFields} \ {None}
               ELSE {[f \in HistogramFields |-> c.histogram[f][i]]}]

\* What the row of a point of a metric must say.
PointRow(m, p) ==
    [name |-> m.name, kind |-> MetricType[m.kind], time |-> p.time,
     attributes |-> p.attributes, resource |-> m.resource.attributes,
     scope |-> m.scope.attributes,
     value |-> IF m.kind = "Histogram" THEN {[f \in HistogramFields |-> p.value[f]]}
               ELSE {p.value.value}]
PointRows(metrics) ==
    FlattenSeq([i \in DOMAIN metrics |->
        [j \in DOMAIN metrics[i].points |-> PointRow(metrics[i], metrics[i].points[j])]])
=============================================================================
