---------------------------- MODULE VectorSearch ----------------------------
(***************************************************************************)
(* Searching datasets by the meaning of a text: the table that adds a      *)
(* vector to each embedded column, and the search that orders the rows by  *)
(* the distance of that vector to the vector of the text.                  *)
(*                                                                         *)
(* A dataset is [columns, key, explicit, embeddings, text, batches,        *)
(* accelerated]: its columns, the columns of its primary key and of the    *)
(* one the spicepod gives (or None), the model of each embedded column,    *)
(* the columns that hold text, its rows in batches and whether it is       *)
(* accelerated. The meaning of a text is a number and its vector is        *)
(* [size, at]. None is an error.                                           *)
(*                                                                         *)
(* Source: crates/runtime/src/embeddings.                                  *)
(***************************************************************************)
EXTENDS Integers, SequencesExt, FiniteSetsExt

CONSTANTS
    None,
    Documents,      \* Documents[name]: the datasets that can be searched
    Embedders,      \* Embedders[name]: the embedding models that are loaded, [size]
    Alphabetical    \* the names of columns in alphabetical order

(***************************************************************************)
(* The embedding table                                                     *)
(***************************************************************************)

Column(c) == [name |-> c, vector |-> FALSE]
Vector(c) == [name |-> c, vector |-> TRUE]

\* wrap_table: without embeddings there is nothing to add.
IsEmbeddingTable(d) == DOMAIN d.embeddings # {}

precompute_embedding_sizes(d) ==
    [c \in {c \in DOMAIN d.embeddings : d.embeddings[c] \in DOMAIN Embedders} |->
        Embedders[d.embeddings[c]].size]

SizeIn(d, c) ==
    LET sizes == precompute_embedding_sizes(d) IN IF c \in DOMAIN sizes THEN sizes[c] ELSE 0

\* A set of columns in alphabetical order.
Sorted(columns) ==
    LET place(c) == CHOOSE i \in DOMAIN Alphabetical : Alphabetical[i] = c
    IN  CHOOSE s \in SetToSeqs(columns) : \A i, j \in DOMAIN s : i < j => place(s[i]) < place(s[j])

EmbeddedColumns(d) == Sorted(DOMAIN d.embeddings)

schema(d) ==
    LET vectors == Sorted(DOMAIN d.embeddings \cap ToSet(d.columns))
    IN  [i \in DOMAIN d.columns |-> Column(d.columns[i])]
        \o [i \in DOMAIN vectors |-> Vector(vectors[i])]

\* The columns whose vector is at a position of the projection.
columns_to_embed(d, projection) ==
    LET base == Len(d.columns)
    IN  {EmbeddedColumns(d)[p - base] :
            p \in {p \in projection : p > base /\ p - base <= Len(EmbeddedColumns(d))}}

\* Vectors of the texts of a batch, by row. A null has none.
get_embeddings(d, batch, wanted) ==
    [c \in {c \in wanted : d.embeddings[c] \in DOMAIN Embedders /\ c \in d.text} |->
        [i \in {i \in DOMAIN batch : batch[i][c] # None} |->
            [size |-> Embedders[d.embeddings[c]].size, at |-> batch[i][c]]]]

\* The columns must all be there and have as many elements as the batch has rows; the
\* vectors of no text at all have no size.
Mismatch(d, batch, columns, vectors) ==
    \E col \in columns : col.vector /\ \/ col.name \notin DOMAIN vectors
                                       \/ Cardinality(DOMAIN vectors[col.name]) # Len(batch)
                                       \/ batch = <<>> /\ SizeIn(d, col.name) # 0

\* The vectors follow one another: with as many as rows, no row before it was left out.
construct_record_batch(batch, columns, vectors) ==
    [i \in DOMAIN batch |->
        [col \in columns |-> IF col.vector THEN vectors[col.name][i] ELSE batch[i][col.name]]]

\* EmbeddingTable::scan of a set of columns, and whether it fails at some batch.
Wanted(d, columns) ==
    columns_to_embed(d, {p \in DOMAIN schema(d) : schema(d)[p] \in columns})
ScanFails(d, columns) ==
    \E b \in DOMAIN d.batches :
        Mismatch(d, d.batches[b], columns, get_embeddings(d, d.batches[b], Wanted(d, columns)))
Scan(d, columns) ==
    FlattenSeq([b \in DOMAIN d.batches |->
        construct_record_batch(d.batches[b], columns,
                               get_embeddings(d, d.batches[b], Wanted(d, columns)))])

\* An accelerated dataset keeps the vectors; nothing is loaded when they fail.
Fails(d, columns) == ~d.accelerated /\ ScanFails(d, columns)
Read(d, columns) ==
    LET all == ToSet(schema(d))
    IN  IF ~d.accelerated THEN Scan(d, columns) ELSE IF ScanFails(d, all) THEN <<>> ELSE Scan(d, all)

(***************************************************************************)
(* The search                                                              *)
(***************************************************************************)

\* The square of the Euclidean distance, which orders as the distance does.
array_distance(v, w) == IF v.size # w.size THEN None ELSE (v.at - w.at) * (v.at - w.at)

\* Mutant: the limit reaches the rows before they are ordered.
FirstRows(distance, n) ==
    LET rows == SetToSortSeq(DOMAIN distance, <)
    IN  {SortSeq(SubSeq(rows, 1, Min({n, Len(rows)})), LAMBDA i, j : distance[i] < distance[j])}

\* ORDER BY ... LIMIT n: the n nearest rows; ties in any order.
Nearest(distance, n) ==
    LET count == Min({n, Cardinality(DOMAIN distance)})
    IN  {s \in UNION {SetToSeqs(S) : S \in kSubset(count, DOMAIN distance)} :
            /\ \A i, j \in DOMAIN s : i < j => distance[s[i]] <= distance[s[j]]
            /\ \A i \in DOMAIN s, r \in DOMAIN distance \ ToSet(s) : distance[s[i]] <= distance[r]}

\* The query of one table: a set of results, each a row for each match.
individual_search(d, target, keys, column, additional, where, n) ==
    LET projection == keys \o <<column>> \o additional
        conditions == IF where = None THEN {} ELSE {where.column}
        columns == {Column(c) : c \in ToSet(projection) \cup conditions} \cup {Vector(column)}
        read == Read(d, columns)
        found == {i \in DOMAIN read : where = None \/ read[i][Column(where.column)] = where.value}
        distance == [i \in found |-> array_distance(read[i][Vector(column)], target)]
    IN  IF \/ ~(columns \subseteq ToSet(schema(d)))
           \/ Cardinality(ToSet(projection)) # Len(projection)
           \/ where # None /\ where.keyword
           \/ Fails(d, columns) \/ \E i \in found : distance[i] = None
        THEN {None}
        ELSE {[i \in DOMAIN order |-> read[order[i]]] : order \in Nearest(distance, n)}

\* The keys of datasets that the spicepod gives, under their full names.
parse_explicit_primary_keys ==
    [r \in {[name |-> n, full |-> TRUE] : n \in {n \in DOMAIN Documents : Documents[n].explicit # None}}
        |-> Documents[r.name].explicit]

get_primary_keys_with_overrides(ref) ==
    LET key == Documents[ref.name].key
    IN  IF key # <<>> THEN key
        ELSE IF ref \in DOMAIN parse_explicit_primary_keys THEN parse_explicit_primary_keys[ref]
        ELSE <<>>

\* The columns of a row as JSON, which leaves nulls out.
AsJson(row, columns) ==
    [k \in {k \in columns : row[Column(k)] # None} |-> row[Column(k)]]

table_to_matches(ref, rows, column, additional) ==
    IF column \notin Documents[ref.name].text THEN <<>>
    ELSE [i \in DOMAIN rows |->
            [value |-> rows[i][Column(column)],
             primary_key |-> AsJson(rows[i], ToSet(get_primary_keys_with_overrides(ref))),
             metadata |-> AsJson(rows[i], ToSet(additional))]]

\* The vector of the text by each model that a dataset uses, None if a model is missing.
calculate_embeddings_per_table(req) ==
    LET used == UNION {Range(Documents[r.name].embeddings) : r \in ToSet(req.datasets)}
    IN  IF used \subseteq DOMAIN Embedders
        THEN [m \in used |-> [size |-> Embedders[m].size, at |-> req.text]] ELSE None

\* VectorSearch::search and to_matches: what may come of it, the matches of each dataset.
search(req) ==
    LET refs == ToSet(req.datasets)
        targets == calculate_embeddings_per_table(req)
        ColumnOf(r) == CHOOSE c \in DOMAIN Documents[r.name].embeddings : TRUE
        Found(r) == individual_search(Documents[r.name],
                        targets[Documents[r.name].embeddings[ColumnOf(r)]],
                        get_primary_keys_with_overrides(r), ColumnOf(r),
                        req.additional_columns, req.where, req.limit)
    IN  IF \/ \E r \in refs : r.name \notin DOMAIN Documents
           \/ \E r \in refs : ~IsEmbeddingTable(Documents[r.name])
           \/ targets = None
           \/ \E r \in refs : Cardinality(DOMAIN Documents[r.name].embeddings) # 1
        THEN {None}
        ELSE IF \E r \in refs : None \in Found(r) THEN {None}
        ELSE {[r \in refs |-> table_to_matches(r, rows[r], ColumnOf(r), req.additional_columns)] :
                rows \in {f \in [refs -> UNION {Found(r) : r \in refs}] : \A r \in refs : f[r] \in Found(r)}}
=============================================================================
