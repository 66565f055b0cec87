---------------------------- MODULE DatasetConfig ---------------------------
(***************************************************************************)
(* What the runtime makes of the definition of a dataset, a view or a      *)
(* catalog, and how the table of an acceleration is put together from it.  *)
(*                                                                         *)
(* A definition has: from, the words of `from` around its first colon;     *)
(* name, the parts of its name; read_write and replicated; accel, the      *)
(* acceleration or None; catalog, the [id, globs, params] of a catalog, or *)
(* None. An acceleration has: enabled, engine, mode, params, primary_key,  *)
(* indexes and on_conflict (columns to kind), wrong, the fields whose text *)
(* does not parse, and the optional settings of its refresh. Columns of a  *)
(* key are a set.                                                          *)
(*                                                                         *)
(* Source: component/, dataaccelerator.rs and dataaccelerator/ of          *)
(* crates/runtime/src.                                                     *)
(***************************************************************************)
EXTENDS DataConnectors

(***************************************************************************)
(* Definitions                                                             *)
(***************************************************************************)

\* Dataset::parse_table_reference: a name has no catalog.
parse_table_reference(name) ==
    Check(Len(name) \in 1..2, "DatasetNameIncludesCatalog")

\* Engine::try_from
Engines == {"arrow", "duckdb", "sqlite", "postgres"}

\* Acceleration::try_from: retention and window stay texts, and are parsed when
\* they are used.
AccelerationValid(a) ==
    FirstError(<<
        Check(a.wrong \cap {"primary_key", "indexes", "on_conflict"} = {},
              "UnableToParseColumnReference"),
        Check(a.engine \in Engines, "AcceleratorEngineNotAvailable"),
        Check(a.wrong \cap {"refresh_check_interval", "refresh_jitter_max",
                            "refresh_append_overlap"} = {},
              "UnableToParseFieldAsDuration")>>)

\* Dataset::try_from
DatasetValid(c) ==
    FirstError(<<IF c.accel = None THEN "ok" ELSE AccelerationValid(c.accel),
                 parse_table_reference(c.name)>>)

\* Dataset::source, and Catalog::provider
source(c) ==
    CASE Len(c.from) > 1 -> c.from[1]
      [] c.from = <<>> \/ c.from = <<"sink">> -> "sink"
      [] OTHER -> "spiceai"

\* Catalog::try_from
CatalogValid(k) == Check(k.globs, "InvalidGlobPattern")

\* What get_valid_datasets and get_valid_catalogs leave out.
Valid(c) == IF c.catalog = None THEN DatasetValid(c) ELSE CatalogValid(c.catalog)

is_accelerated(c) == c.accel # None /\ c.accel.enabled

\* is_file_accelerated: a PostgreSQL acceleration is, even where it is disabled.
is_file_accelerated(c) ==
    /\ c.accel # None
    /\ \/ c.accel.engine = "postgres"
       \/ c.accel.enabled /\ c.accel.mode = "file"

(***************************************************************************)
(* Constraints                                                             *)
(***************************************************************************)

\* validate_indexes
validate_indexes(a, schema) ==
    Check(\A k \in DOMAIN a.indexes : k \subseteq schema, "InvalidConfiguration")

Unique(a) == {k \in DOMAIN a.indexes : a.indexes[k] = "unique"}
Key(a) == a.primary_key

\* table_constraints: a key outside the schema is an error.
table_constraints(a, schema) ==
    LET keys == Unique(a) \cup Key(a)
    IN  IF \A k \in keys : k \subseteq schema
        THEN [error |-> "ok", keys |-> keys]
        ELSE [error |-> "InvalidConfiguration", keys |-> {}]

\* Acceleration::on_conflict: several clauses must be one for every key and
\* drop; a single one is taken as it is.
on_conflict(a) ==
    LET n == Cardinality(DOMAIN a.on_conflict)
        targets == Unique(a) \cup Key(a)
    IN  IF n > 1
        THEN IF \/ Cardinality(targets) # n
                \/ \E k \in DOMAIN a.on_conflict : a.on_conflict[k] # "drop"
             THEN [error |-> "InvalidConfiguration"]
             ELSE [error |-> "ok", does |-> "drop_all", on |-> {}]
        ELSE IF n = 0 THEN [error |-> "ok", does |-> None, on |-> {}]
        ELSE LET k == CHOOSE k \in DOMAIN a.on_conflict : TRUE
             IN  [error |-> "ok", does |-> a.on_conflict[k], on |-> k]

(***************************************************************************)
(* Accelerators                                                            *)
(***************************************************************************)

AcceleratorParameters(engine) ==
    CASE engine \in {"duckdb", "sqlite"} -> Connector0({"file"})
      [] engine = "postgres" ->
            Connector0({"host", "port", "db", "sslmode", "sslrootcert"})
                \cup Secrets0({"user", "pass"})
      [] OTHER -> {}
AcceleratorPrefix(engine) == IF engine = "postgres" THEN "pg" ELSE engine

\* What the user gave for the file, or the one in the data directory.
FileOf(params, key, name) ==
    IF key \in DOMAIN params THEN params[key] ELSE <<"data">> \o name

\* Mutant: the file that the user chose is not looked at.
file_path_default(c) ==
    IF c.accel.engine \in {"duckdb", "sqlite"} /\ is_file_accelerated(c)
    THEN <<"data">> \o c.name ELSE None

\* duckdb_file_path and sqlite_file_path: the parameter as the user wrote it.
file_path(c) ==
    IF c.accel.engine \in {"duckdb", "sqlite"} /\ is_file_accelerated(c)
    THEN FileOf(c.accel.params, <<c.accel.engine, "file">>, c.name) ELSE None

\* is_valid_file: not a directory, and with an extension of the engine.
is_valid_file(c, f) == Whole(f) /\ "dir" \notin Range(f)

\* DataAccelerator::init: a file of the user's choice must look like one; then it
\* is opened.
init_duckdb(c) ==
    IF ~is_file_accelerated(c) THEN "ok"
    ELSE Check(<<"duckdb", "file">> \in DOMAIN c.accel.params
                  => is_valid_file(c, file_path(c)), "AcceleratorInitializationFailed")
init_sqlite(c) ==
    IF ~is_file_accelerated(c) THEN "ok"
    ELSE Check(<<"sqlite", "file">> \in DOMAIN c.accel.params
                  => is_valid_file(c, file_path(c)), "AcceleratorInitializationFailed")
init(c) ==
    IF c.accel = None THEN "ok"
    ELSE CASE c.accel.engine = "duckdb" -> init_duckdb(c)
           [] c.accel.engine = "sqlite" -> init_sqlite(c)
           [] OTHER -> "ok"

\* The files that init opens, and is_initialized.
InitFiles(c) ==
    IF c.accel = None \/ init(c) # "ok" \/ file_path(c) = None THEN {} ELSE {file_path(c)}
is_initialized(c, files) ==
    /\ c.accel # None
    /\ c.accel.engine \in {"duckdb", "sqlite"} =>
          ~is_file_accelerated(c) \/ file_path(c) \in files

\* get_initialized_datasets
get_initialized_datasets(datasets, files) ==
    {c \in datasets : DatasetValid(c) = "ok"
                        /\ (is_accelerated(c) => is_initialized(c, files))}

\* create_external_table of DuckDB and SQLite: the files of the other datasets
\* of the engine are attached.
attach_databases(c, datasets, files) ==
    {file_path(o) : o \in {o \in get_initialized_datasets(datasets, files) :
                              /\ o.accel # None /\ o.accel.engine = c.accel.engine
                              /\ o.accel.mode = "file" /\ o # c}} \ {None}

\* create_external_table: an Arrow table is in memory, one of PostgreSQL takes a
\* connection.
create_external_table(engine, connected) ==
    Check(engine = "postgres" => connected, "AccelerationCreationFailed")

\* AcceleratorExternalTableBuilder::build
build(engine, mode) ==
    Check(engine = "arrow" => mode # "file", "InvalidConfiguration")

\* Mutant: the conflict clause of the user does not replace the one that is
\* made for the keys of the source.
conflict_of_source(a, keys) ==
    IF keys # {} THEN [error |-> "ok", does |-> "upsert", on |-> UNION keys]
    ELSE on_conflict(a)

\* The conflict clause of the table: the user's, or an upsert on the keys that
\* the source has.
conflict(a, keys) ==
    LET user == on_conflict(a)
    IN  IF user.error # "ok" \/ user.does # None THEN user
        ELSE IF keys # {} THEN [error |-> "ok", does |-> "upsert", on |-> UNION keys]
        ELSE user

\* create_accelerator_table: [error, file, attached, keys, conflict].
create_accelerator_table(c, schema, keys, stores, connected, others, files) ==
    LET a == c.accel
        injected == get_params_with_secrets(stores, a.params)
        made == try_new(AcceleratorPrefix(a.engine), AcceleratorParameters(a.engine),
                        injected, stores)
        own == table_constraints(a, schema)
    IN  [error |-> FirstError(<<validate_indexes(a, schema),
                     Check(made.ok, "AccelerationCreationFailed"),
                     conflict(a, keys).error, own.error, build(a.engine, a.mode),
                     create_external_table(a.engine, connected)>>),
         file |-> IF a.engine \in {"duckdb", "sqlite"} /\ a.mode = "file"
                  THEN FileOf(made.params, <<"file">>, c.name) ELSE None,
         attached |-> IF a.engine \in {"duckdb", "sqlite"} /\ a.mode = "file"
                      THEN attach_databases(c, others, files) ELSE {},
         keys |-> IF own.keys # {} THEN own.keys ELSE keys,
         conflict |-> conflict(a, keys)]

(***************************************************************************)
(* What is kept beside the accelerated rows (AcceleratedMetadata)          *)
(***************************************************************************)

\* get_metadata_provider: where metadata can be kept at all. A store that is to
\* be read must be there already; one to be written is created.
metadata_duckdb(c, files, create) ==
    file_path(c) # None /\ (create \/ file_path(c) \in files)
metadata_sqlite(c, files, create) ==
    file_path(c) # None /\ (create \/ file_path(c) \in files)
metadata_postgres(c, connected) == connected
get_metadata_provider(c, files, create, connected) ==
    /\ c.accel # None
    /\ \/ c.accel.engine = "duckdb" /\ metadata_duckdb(c, files, create)
       \/ c.accel.engine = "sqlite" /\ metadata_sqlite(c, files, create)
       \/ c.accel.engine = "postgres" /\ metadata_postgres(c, connected)

\* register_dataset: what it refuses before it registers a table.
register_dataset(c) ==
    Check(c.read_write => c.replicated,
          IF is_accelerated(c) THEN "AcceleratedReadWriteTableWithoutReplication"
          ELSE "FederatedReadWriteTableWithoutReplication")
=============================================================================
