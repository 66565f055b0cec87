---------------------------- MODULE GraphQLPages ----------------------------
(***************************************************************************)
(* How the table of a GraphQL query is read: page after page, each with    *)
(* the cursor the last one ended with, its objects unnested and read with  *)
(* the schema that was inferred from the first page when the dataset was   *)
(* loaded.                                                                 *)
(*                                                                         *)
(* A query has count, the number its `first:` asks for, and pages, whether *)
(* pagination was recognised in it. A JSON value has is: `object` with     *)
(* fields, a function on keys, `array` with items, or the type of a scalar *)
(* with its value. The collection behind the query is a sequence of        *)
(* [id, value] with increasing ids, and a cursor is an id.                 *)
(*                                                                         *)
(* Source: crates/data_components/src/graphql.                             *)
(***************************************************************************)
EXTENDS DatasetConfig

(***************************************************************************)
(* Unnesting and schema                                                    *)
(***************************************************************************)

Nested(fields) == {k \in DOMAIN fields : fields[k].is = "object"}
Additions(fields) == UNION {{<<k, j>> : j \in DOMAIN fields[k].fields} : k \in Nested(fields)}

\* One round of the loop: the fields of inner objects take the place of the objects,
\* unless there is a field of that name.
UnnestOnce(fields) ==
    LET kept == DOMAIN fields \ Nested(fields)
        additions == Additions(fields)
        names == {a[2] : a \in additions}
        Of(k) == CHOOSE a \in additions : a[2] = k
    IN  [ok |-> names \cap kept = {} /\ Cardinality(names) = Cardinality(additions),
         fields |-> [k \in kept \cup names |->
                        IF k \in kept THEN fields[k] ELSE fields[Of(k)[1]].fields[k]]]

unnest_json_object(depth, v) ==
    IF depth = 0 THEN [ok |-> TRUE, objects |-> <<v>>]
    ELSE CASE v.is = "array" -> [ok |-> TRUE, objects |-> v.items]
           [] v.is = "object" ->
                LET r == FoldLeft(LAMBDA acc, i : IF acc.ok THEN UnnestOnce(acc.fields) ELSE acc,
                                  [ok |-> TRUE, fields |-> v.fields], [i \in 1 .. depth |-> i])
                IN  [ok |-> r.ok, objects |-> <<[is |-> "object", fields |-> r.fields]>>]
           [] OTHER -> [ok |-> FALSE, objects |-> <<>>]

\* infer_json_schema_from_iterator: texts and numbers make a column of texts, an
\* object and anything else none.
Types(objects, k) == {o.fields[k].is : o \in {o \in ToSet(objects) : k \in DOMAIN o.fields}}
infer_json_schema(objects) ==
    LET columns == UNION {DOMAIN o.fields : o \in ToSet(objects)}
    IN  [ok |-> \A k \in columns : "object" \in Types(objects, k) => Types(objects, k) = {"object"},
         columns |-> [k \in columns |-> IF Cardinality(Types(objects, k)) = 1
                                        THEN CHOOSE t \in Types(objects, k) : TRUE ELSE "Utf8"]]

\* ReaderBuilder: a field the schema does not have is left out, one of another type is
\* an error.
Reads(schema, o) == \A k \in DOMAIN schema \cap DOMAIN o.fields : o.fields[k].is = schema[k]
ReadWith(schema, o) == [k \in DOMAIN schema |-> IF k \in DOMAIN o.fields THEN o.fields[k] ELSE None]

(***************************************************************************)
(* A page                                                                  *)
(***************************************************************************)

\* Mutant: any limit ends with the first page.
one_page_with_limit(query, limit, cursor) ==
    LET reached == query.pages /\ limit # None /\ limit <= query.count
    IN  [first |-> IF reached THEN limit ELSE query.count, after |-> cursor,
         limit_reached |-> query.pages /\ limit # None]
\* PaginationParameters::apply: the page asked for; without pagination the query as it
\* is, whatever the limit.
apply(query, limit, cursor) ==
    LET reached == query.pages /\ limit # None /\ limit <= query.count
    IN  [first |-> IF reached THEN limit ELSE query.count, after |-> cursor,
         limit_reached |-> reached]

\* What the server answers with.
Page(collection, asked) ==
    LET rest == SelectSeq(collection, LAMBDA o : o.id > asked.after)
        n == Min({asked.first, Len(rest)})
    IN  [objects |-> SubSeq(rest, 1, n), has_next_page |-> n < Len(rest),
         end_cursor |-> IF n = 0 THEN None ELSE rest[n].id]

get_next_cursor_from_response(query, page) ==
    IF query.pages /\ page.has_next_page THEN page.end_cursor ELSE None

\* GraphQLClient::execute on an answer. The schema of the page is inferred also where
\* there is one to read it with.
execute(query, depth, schema, limit, cursor, collection) ==
    LET asked == apply(query, limit, cursor)
        page == Page(collection, asked)
        unnested == [i \in DOMAIN page.objects |-> unnest_json_object(depth, page.objects[i].value)]
        objects == FlattenSeq([i \in DOMAIN unnested |-> unnested[i].objects])
        inferred == infer_json_schema(objects)
        with == IF schema = None THEN inferred.columns ELSE schema
        Rows(i) == [j \in DOMAIN unnested[i].objects |->
                        [id |-> page.objects[i].id, item |-> j,
                         columns |-> ReadWith(with, unnested[i].objects[j])]]
        ok == /\ \A i \in DOMAIN unnested : unnested[i].ok
              /\ inferred.ok
              /\ \A o \in ToSet(objects) : Reads(with, o)
    IN  [ok |-> ok, schema |-> with,
         rows |-> IF ok THEN FlattenSeq([i \in DOMAIN unnested |-> Rows(i)]) ELSE <<>>,
         next_cursor |-> IF asked.limit_reached THEN None
                         ELSE get_next_cursor_from_response(query, page)]

\* GraphQLTableProviderBuilder::build. The transformation of GitHub's batches, which keeps
\* their rows, is left out.
build_provider(query, depth, collection) == execute(query, depth, None, None, 0, collection)

(***************************************************************************)
(* What the rows should be                                                 *)
(***************************************************************************)

Paths(keys, depth) == UNION {[1 .. n -> keys] : n \in 1 .. depth + 1}
AllKeys(v) ==
    LET sub(f) == UNION {DOMAIN f[k].fields : k \in Nested(f)}
        next(f) == UNION {sub(f[k].fields) : k \in Nested(f)}
    IN  DOMAIN v.fields \cup sub(v.fields) \cup next(v.fields)
\* The value at the end of a path of keys, None when there is none.
At(v, path) ==
    FoldLeft(LAMBDA x, k : IF x = None THEN None
                           ELSE IF x.is = "object" /\ k \in DOMAIN x.fields THEN x.fields[k]
                           ELSE None,
             v, path)
\* The fields an object has when `depth` levels are unnested, by name and value: those
\* that are no objects, or as deep as that.
Flat(v, depth) ==
    {<<Last(p), At(v, p)>> : p \in {p \in Paths(AllKeys(v), depth) :
        At(v, p) # None /\ (At(v, p).is # "object" \/ Len(p) = depth + 1)}}
=============================================================================
