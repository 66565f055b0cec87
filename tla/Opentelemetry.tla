---------------------------- MODULE Opentelemetry ---------------------------
(***************************************************************************)
(* The metrics a client exports over OTLP as batches of the table that has *)
(* the metric's name. The value's type is the table's, or the first        *)
(* point's; every attribute becomes a column, grown point by point.        *)
(*                                                                         *)
(* A table's schema is [value, attributes], the latter the columns in      *)
(* their order as [key, type] records; a point is [id, value, flagged,     *)
(* attributes], its value and its attributes' values [type, value] or      *)
(* None. Source: crates/runtime/src/opentelemetry.rs.                      *)
(***************************************************************************)
EXTENDS OtelArrow

ValueTypes == {"Float64", "Int64"}

\* The types an attribute is stored in; a list or a map is in none of them.
ColumnTypes == {"Utf8", "Boolean", "Int64", "Float64", "Binary"}

\* Why no batch is made of a metric; a batch has None for an error.
Failures == {"UnsupportedMetricDataType", "UnsupportedExistingMetricValueColumnType",
             "FirstMetricDataPointHasNoValue", "MetricWithNoDataPoints",
             "FailedToBuildRecordBatch"}
Failure(e) == [error |-> e]

ASSUME NoneAssumption == None \notin Failures

(***************************************************************************)
(* The value column                                                        *)
(***************************************************************************)

\* append_value, and a point without a value: the points that are kept, until
\* one fails the batch.
KeepPoint(acc, p) ==
    IF \/ acc.failed
       \/ p.value = None /\ acc.type # None /\ ~p.flagged
       \/ p.value # None /\ acc.type \notin {None, p.value.type}
    THEN acc
    ELSE IF p.value = None /\ acc.type = None THEN [acc EXCEPT !.failed = TRUE]
    ELSE [acc EXCEPT !.kept = Append(@, p), !.type = IF @ = None THEN p.value.type ELSE @]

KeptPoints(points, known) ==
    FoldLeft(KeepPoint, [failed |-> FALSE, type |-> known, kept |-> <<>>], points)

(***************************************************************************)
(* The attribute columns: fields maps a key to its type, columns to a      *)
(* builder [type, cells]; order is the order the keys came in.             *)
(***************************************************************************)

initialize_attribute_schema(schema) ==
    LET keys == IF schema = None THEN <<>> ELSE schema.attributes
        fs == {keys[i] : i \in DOMAIN keys}
    IN  [order |-> [i \in DOMAIN keys |-> keys[i].key],
         fields |-> [k \in {f.key : f \in fs} |-> (CHOOSE f \in fs : f.key = k).type],
         columns |-> [k \in {f.key : f \in {f \in fs : f.type \in ColumnTypes}} |->
                        [type |-> (CHOOSE f \in fs : f.key = k).type, cells |-> <<>>]]]

\* A null goes to a column that has the type its field says.
append_null(b, key) ==
    IF key \in DOMAIN b.fields /\ key \in DOMAIN b.columns /\ b.fields[key] = b.columns[key].type
    THEN [b EXCEPT !.columns[key].cells = Append(@, None)] ELSE b

\* A key that is new starts a column with its value in the first cell, whatever
\* the row is.
append_attribute(b, a) ==
    IF a.key \notin DOMAIN b.columns
    THEN    [order |-> IF a.key \in DOMAIN b.fields THEN b.order ELSE Append(b.order, a.key),
             fields |-> (a.key :> a.value.type) @@ b.fields,
             columns |-> (a.key :> [type |-> a.value.type, cells |-> <<a.value.value>>])
                            @@ b.columns]
    ELSE IF b.columns[a.key].type = a.value.type
    THEN    [b EXCEPT !.columns[a.key].cells = Append(@, a.value.value)]
    ELSE append_null(b, a.key)

AppendAttribute(b, a) ==
    IF a.value = None \/ a.value.type \notin ColumnTypes
    THEN append_null(b, a.key) ELSE append_attribute(b, a)

\* Mutant: a point without the attribute repeats the value before it.
carry_forward(b, i) ==
    [b EXCEPT !.columns = [k \in DOMAIN @ |->
        IF Len(@[k].cells) < i /\ Len(@[k].cells) > 0
        THEN [@[k] EXCEPT !.cells = Append(@, Last(@))] ELSE @[k]]]
\* After a point the columns that are shorter than the rows get one null.
Level(b, i) ==
    FoldLeft(append_null, b,
             SelectSeq(b.order, LAMBDA k : /\ k \in DOMAIN b.columns
                                           /\ Len(b.columns[k].cells) < i))

attributes_to_fields_and_columns(points, schema) ==
    LET rows[i \in 0 .. Len(points)] ==
            IF i = 0 THEN initialize_attribute_schema(schema)
            ELSE Level(FoldLeft(AppendAttribute, rows[i - 1], points[i].attributes), i)
    IN  rows[Len(points)]

(***************************************************************************)
(* A batch: the type of the value, the attribute columns and the rows      *)
(***************************************************************************)

number_data_points_to_record_batch(points, schema) ==
    LET known == IF schema = None THEN None ELSE schema.value
        acc == KeptPoints(points, known)
        b == attributes_to_fields_and_columns(acc.kept, schema)
    IN  IF known \notin ValueTypes \cup {None} THEN Failure("UnsupportedExistingMetricValueColumnType")
        ELSE IF acc.failed THEN Failure("FirstMetricDataPointHasNoValue")
        ELSE IF acc.type = None THEN Failure("MetricWithNoDataPoints")
        ELSE IF \/ DOMAIN b.fields # DOMAIN b.columns
                \/ \E k \in DOMAIN b.columns :
                       \/ Len(b.columns[k].cells) # Len(acc.kept)
                       \/ b.columns[k].type # b.fields[k]
        THEN Failure("FailedToBuildRecordBatch")
        ELSE    [error |-> None,
                 schema |-> [value |-> acc.type,
                             attributes |-> [i \in DOMAIN b.order |->
                                [key |-> b.order[i], type |-> b.fields[b.order[i]]]]],
                 rows |-> [i \in DOMAIN acc.kept |->
                    [id |-> acc.kept[i].id, value |-> acc.kept[i].value,
                     attributes |-> [k \in DOMAIN b.columns |-> b.columns[k].cells[i]]]]]

metric_data_to_record_batch(metric, schema) ==
    IF metric.kind \in {"Gauge", "Sum"}
    THEN [batch |-> number_data_points_to_record_batch(metric.points, schema),
          count |-> Len(metric.points)]
    ELSE [batch |-> Failure("UnsupportedMetricDataType"), count |-> 0]

(***************************************************************************)
(* The row a point must become: its attributes under their names, null     *)
(* where it has none or one of another type. A point whose attributes are  *)
(* in the table or in the first point that is kept, each named once, is    *)
(* regular: what the columns make of another is not promised.              *)
(***************************************************************************)

ValueOf(p, key, type) ==
    LET own == {i \in DOMAIN p.attributes :
                    /\ p.attributes[i].key = key /\ p.attributes[i].value # None
                    /\ p.attributes[i].value.type = type}
    IN  IF own = {} THEN None ELSE p.attributes[CHOOSE i \in own : TRUE].value.value

Keys(p) == {p.attributes[i].key : i \in DOMAIN p.attributes}

Regular(points, schema) ==
    /\ \A i \in DOMAIN points :
          /\ Cardinality(Keys(points[i])) = Len(points[i].attributes)
          /\ \/ i = 1
             \/ Keys(points[i]) \subseteq Keys(points[1])
                    \cup (IF schema = None THEN {}
                          ELSE {schema.attributes[k].key : k \in DOMAIN schema.attributes})
=============================================================================
