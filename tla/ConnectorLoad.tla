---------------------------- MODULE ConnectorLoad ---------------------------
(***************************************************************************)
(* The loads of datasets and catalogs at once: each resolves its secrets,  *)
(* takes the lock of the registry of connectors, has a connector made      *)
(* under it, gets the table of the source, creates the accelerated table   *)
(* and registers; whatever fails is tried again from the start, for ever.  *)
(* Sources and secret stores come and go, and the process may restart. A   *)
(* GraphQL table that is loaded is scanned, one scan at a time.            *)
(*                                                                         *)
(* Source: load_dataset and what it calls in crates/runtime/src/lib.rs,    *)
(* create_new_connector in dataconnector.rs.                               *)
(***************************************************************************)
EXTENDS GraphQLPages

CONSTANTS
    Datasets,       \* the datasets of the app
    Definitions,        \* the definitions each may have, a function on Datasets
    Limits,         \* the limits a table is scanned with
    Starts,         \* the states the sources may be in at first
    Decls,          \* the secret stores, in the order of their declaration
    MaxChanges,     \* how often sources and stores fail and collections change
    MaxRestarts     \* how often the process restarts

\* A source has at most one key, a primary key; catalogs are not accelerated; a
\* name is given once; names and texts of parameters are words.
ASSUME DefinitionsAssumption ==
    /\ None \notin {"upsert", "drop", "drop_all"}
    /\ \A d \in Datasets : \A c \in Definitions[d] :
        /\ \A j, k \in c.keys : j = k
        /\ \A o \in Datasets \ {d} : \A e \in Definitions[o] : e.name # c.name
        /\ c.accel # None =>
              /\ c.catalog = None
              /\ IsFiniteSet(DOMAIN c.accel.on_conflict)
              /\ \A k \in DOMAIN c.accel.on_conflict : c.accel.on_conflict[k] \in {"upsert", "drop"}
              /\ DOMAIN c.accel.params \subseteq Seq(STRING)
              /\ \A k \in DOMAIN c.accel.params : c.accel.params[k] \in Seq(STRING)

\* A declaration of a store has its fields.
ASSUME DeclsAssumption ==
    /\ Decls \in Seq(Range(Decls))
    /\ \A s \in Range(Decls) :
          DOMAIN s = {"name", "provider", "selector", "init", "vars", "fault", "parses"}

VARIABLES
    def,        \* def[d]: the definition of d
    stores,     \* the secret stores of the runtime
    net,        \* net[d]: the state of the source of d
    pc,         \* pc[d]: what the load of d does next
    queue,      \* the registry's lock: its holder, then those who wait
    user,       \* user[d]: the parameters of d with its secrets in place
    held,       \* held[d]: the parameters of the connector of d
    error,      \* error[d]: how the last attempt ended
    faulty,     \* faulty[d]: a store failed while this attempt read it
    table,      \* table[d]: the accelerated table of d
    meta,       \* meta[d]: the stream position kept in the acceleration of d
    files,      \* the database files there are
    remote,     \* remote[d]: the collection behind the GraphQL query of d
    columns,    \* columns[d]: the schema that was inferred for it
    scan,       \* the scan of such a table: [of, pc, limit, left, cursor, rows, there];
                \* there: the ids of objects that were there all the time
    changes, restarts

vars == <<def, stores, net, pc, queue, user, held, error, faulty, table, meta,
          files, remote, columns, scan, changes, restarts>>
world == <<def, stores, net, meta, files, remote, changes, restarts>>
scanVars == <<columns, scan>>

NoScan == [of |-> None, pc |-> "idle", limit |-> None, left |-> None, cursor |-> 0,
           rows |-> <<>>, there |-> {}]

None0 == [error |-> None]

(***************************************************************************)
(* What a load is told                                                     *)
(***************************************************************************)

\* The dataset as its connector sees it.
Seen(c, stored) ==
    [user |-> c.user, url |-> c.url, host |-> c.host, ext |-> c.ext, form |-> c.form,
     ref |-> c.ref, time |-> c.time, stored |-> stored,
     accel |-> IF is_accelerated(c) THEN c.accel.engine ELSE None,
     mode |-> IF c.accel = None THEN "unset" ELSE c.accel.refresh_mode]

\* The source grants a login only to credentials that are complete.
SourceOf(c, p, state) ==
    [net |-> state, table |-> c.table,
     login |-> c.login /\ \A n \in DOMAIN p : Whole(p[n])]

\* get_metadata_from_accelerator
Stored(c, m, fs) ==
    IF get_metadata_provider(c, fs, FALSE, TRUE) THEN m ELSE None

Made(c, u, ss) ==
    LET f == Factories[source(c)] IN try_new(f[1], f[2], u, ss)

\* create_new_connector, its two steps.
NewParams(c, u, ss) ==
    IF source(c) \notin DOMAIN Factories THEN "UnknownDataConnector"
    ELSE Check(Made(c, u, ss).ok, MissingParameter)
Create(c, p, state) ==
    Connector(source(c), p, Seen(c, None), SourceOf(c, p, state)).create

\* register_catalog: the parameters of the tables go over those of the catalog.
ReadCatalog(c, p, ss, state) ==
    Catalog(source(c), p, c.catalog,
            get_params_with_secrets(ss, c.catalog.params)
                @@ get_params_with_secrets(ss, c.user),
            ss, SourceOf(c, p, state))

unnest_depth(c, p) == IF Has(p, "unnest_depth") THEN c.query.depth ELSE 0
Built(c, p, collection) == build_provider(c.query, unnest_depth(c, p), collection)

\* register_loaded_dataset up to its read provider.
ReadDataset(c, p, m, fs, state, collection) ==
    FirstError(<<
        Check(~(/\ c.accel # None
                /\ resolve_refresh_mode(source(c), c.accel.refresh_mode) = "changes"
                /\ ~supports_changes_stream(source(c))), "AcceleratedTableInvalidChanges"),
        Connector(source(c), p, Seen(c, Stored(c, m, fs)), SourceOf(c, p, state)).read,
        Check(c.query # None => Built(c, p, collection).ok, "InternalWithSource")>>)

Read(c, p, ss, m, fs, state, collection) ==
    IF c.catalog = None THEN ReadDataset(c, p, m, fs, state, collection)
    ELSE ReadCatalog(c, p, ss, state)

\* register_dataset, and the write provider that a table to be written needs.
Register(c, p, ss, others, fs, state) ==
    LET write == Connector(source(c), p, Seen(c, None), SourceOf(c, p, state)).write
        t == create_accelerator_table(c, c.schema, c.keys, ss, TRUE, others, fs)
    IN  [error |-> FirstError(<<register_dataset(c),
            IF ~c.read_write THEN "ok"
            ELSE IF write = "none" THEN "WriteProviderNotImplemented" ELSE write,
            IF is_accelerated(c) THEN t.error ELSE "ok">>),
         table |-> IF is_accelerated(c) THEN t ELSE None0]

\* The datasets whose files the table of d may attach.
Others(d) == {def[o] : o \in {o \in Datasets \ {d} : def[o].catalog = None}}

\* Whether a store that is read now fails.
Failing(ss) == \E i \in DOMAIN ss : ss[i].fault

\* What is wrong before anything is loaded.
Refusal(c) == FirstError(<<Valid(c), init(c)>>)

(***************************************************************************)
(* A load                                                                  *)
(***************************************************************************)

Fail(d, e) ==
    /\ pc' = [pc EXCEPT ![d] = "start"]
    /\ error' = [error EXCEPT ![d] = e]

\* get_dataconnector_from_source: the secrets are put in place, then the lock is
\* waited for in line.
GetParams(d) ==
    /\ pc[d] = "start"
    /\ user' = [user EXCEPT ![d] = get_params_with_secrets(stores, def[d].user)]
    /\ faulty' = [faulty EXCEPT ![d] = Failing(stores)]
    /\ pc' = [pc EXCEPT ![d] = "new"]
    /\ queue' = Append(queue, d)
    /\ UNCHANGED <<world, scanVars, held, error, table>>

\* Mutant: of several that wait for the lock none is woken.
woken_alone(d) == queue = <<d>>
Holds(d) == queue # <<>> /\ Head(queue) = d

\* create_new_connector: the parameters, with the lock in hand.
NewParameters(d) ==
    /\ pc[d] = "new" /\ Holds(d)
    /\ faulty' = [faulty EXCEPT ![d] = @ \/ Failing(stores)]
    /\ \E e \in {NewParams(def[d], user[d], stores)} :
           IF e = "ok"
           THEN /\ pc' = [pc EXCEPT ![d] = "create"]
                /\ held' = [held EXCEPT ![d] = Made(def[d], user[d], stores).params]
                /\ UNCHANGED <<queue, error>>
           ELSE /\ Fail(d, e)
                /\ queue' = Tail(queue)
                /\ UNCHANGED held
    /\ UNCHANGED <<world, scanVars, user, table>>

\* factory.create: the lock is given back when the source answered.
CreateConnector(d) ==
    /\ pc[d] = "create"
    /\ \E e \in {Create(def[d], held[d], net[d])} :
           /\ e # Hangs
           /\ IF e = "ok" THEN pc' = [pc EXCEPT ![d] = "read"] /\ UNCHANGED error
              ELSE Fail(d, e)
    /\ queue' = Tail(queue)
    /\ UNCHANGED <<world, scanVars, user, held, faulty, table>>

\* read_provider, and set_metadata_to_accelerator of the Debezium connector: the
\* metadata is kept before anything is registered.
ReadProvider(d) ==
    /\ pc[d] = "read"
    /\ \E e \in {Read(def[d], held[d], stores, meta[d], files, net[d], remote[d])} :
           /\ e # Hangs
           /\ IF e = "ok" THEN pc' = [pc EXCEPT ![d] = "register"] /\ UNCHANGED error
              ELSE Fail(d, e)
           /\ meta' = [meta EXCEPT ![d] =
                  IF e = "ok" /\ source(def[d]) = "debezium" /\ is_file_accelerated(def[d])
                  THEN "same" ELSE @]
           /\ columns' = [columns EXCEPT ![d] =
                  IF e = "ok" /\ def[d].query # None
                  THEN Built(def[d], held[d], remote[d]).schema ELSE @]
    /\ faulty' = [faulty EXCEPT ![d] = @ \/ (def[d].catalog # None /\ Failing(stores))]
    /\ UNCHANGED <<def, stores, net, queue, user, held, table, files, remote, scan,
                   changes, restarts>>

\* register_dataset and create_accelerated_table; a failure of a store counts
\* for the parameters of the accelerator too.
RegisterDataset(d) ==
    /\ pc[d] = "register"
    /\ faulty' = [faulty EXCEPT ![d] = @ \/ Failing(stores)]
    /\ \E r \in {Register(def[d], held[d], stores, Others(d), files, net[d])} :
           /\ r.error # Hangs
           /\ IF r.error = "ok"
              THEN /\ pc' = [pc EXCEPT ![d] = "done"]
                   /\ error' = [error EXCEPT ![d] = "ok"]
                   /\ table' = [table EXCEPT ![d] = r.table]
                   /\ files' = files \cup
                        (IF r.table = None0 \/ r.table.file = None THEN {} ELSE {r.table.file})
              ELSE Fail(d, r.error) /\ UNCHANGED <<table, files>>
    /\ UNCHANGED <<def, stores, net, queue, user, held, meta, remote, scanVars, changes,
                   restarts>>

(***************************************************************************)
(* A scan of a GraphQL table                                               *)
(***************************************************************************)

Present(d) == {remote[d][i].id : i \in DOMAIN remote[d]}

StartScan(d, limit) ==
    /\ pc[d] = "done" /\ def[d].query # None /\ scan.pc = "idle"
    /\ scan' = [NoScan EXCEPT !.of = d, !.pc = "page", !.limit = limit, !.left = limit,
                              !.there = Present(d)]
    /\ UNCHANGED <<world, pc, queue, user, held, error, faulty, table, columns>>

\* What the endpoint says to a request of the scan.
Answer(d) ==
    Connector(source(def[d]), held[d], Seen(def[d], None), SourceOf(def[d], held[d], net[d])).read
LeftOver(left, count) == IF left = None THEN None ELSE IF left < count THEN 0 ELSE left - count

\* execute_paginated: one page after the other, and nothing at all when one fails.
ScanPage ==
    LET d == scan.of IN
    /\ scan.pc = "page" /\ Answer(d) # Hangs
    /\ \E page \in {execute(def[d].query, unnest_depth(def[d], held[d]), columns[d], scan.left,
                           scan.cursor, remote[d])} :
          scan' = IF Answer(d) # "ok" \/ ~page.ok THEN [scan EXCEPT !.pc = "failed", !.rows = <<>>]
                  ELSE IF page.next_cursor = None
                  THEN [scan EXCEPT !.pc = "done", !.rows = @ \o page.rows]
                  ELSE [scan EXCEPT !.rows = @ \o page.rows, !.cursor = page.next_cursor,
                                    !.left = LeftOver(@, def[d].query.count)]
    /\ UNCHANGED <<world, pc, queue, user, held, error, faulty, table, columns>>

(***************************************************************************)
(* The surroundings                                                        *)
(***************************************************************************)

\* Sources and stores fail, which is counted, and are themselves again.
SourceChanges(d, state) ==
    /\ state = "up" \/ changes < MaxChanges
    /\ state # net[d]
    /\ net' = [net EXCEPT ![d] = state]
    /\ changes' = IF state = "up" THEN changes ELSE changes + 1
    /\ UNCHANGED <<def, stores, pc, queue, user, held, error, faulty, table, meta,
                   files, remote, scanVars, restarts>>

StoreChanges(i) ==
    /\ stores[i].fault \/ changes < MaxChanges
    /\ stores[i].provider \in {"kubernetes", "aws_secrets_manager"}
    /\ stores' = [stores EXCEPT ![i].fault = ~@]
    /\ changes' = IF stores[i].fault THEN changes ELSE changes + 1
    /\ UNCHANGED <<def, net, pc, queue, user, held, error, faulty, table, meta,
                   files, remote, scanVars, restarts>>

\* The collection loses an object, or gets the one that the definition has for it,
\* unless it is there.
CollectionChanges(d) ==
    /\ changes < MaxChanges /\ def[d].query # None
    /\ \E to \in {Append(remote[d], o) : o \in {o \in {def[d].query.more} : o.id \notin Present(d)}}
                 \cup {RemoveAt(remote[d], i) : i \in DOMAIN remote[d]} :
          /\ remote' = [remote EXCEPT ![d] = to]
          /\ scan' = IF scan.of # d THEN scan
                     ELSE [scan EXCEPT !.there = @ \cap {to[i].id : i \in DOMAIN to}]
    /\ changes' = changes + 1
    /\ UNCHANGED <<def, stores, net, pc, queue, user, held, error, faulty, table, meta,
                   files, columns, restarts>>

\* RuntimeBuilder::build loads the stores once; one that cannot be loaded then
\* is missed until the next start. initialize_accelerators opens the files.
Boot(reachable) ==
    /\ stores' = load_from([i \in DOMAIN Decls |->
                     [Decls[i] EXCEPT !.init = @ /\ reachable]], EnvDefault)
    /\ pc' = [d \in Datasets |-> IF Refusal(def[d]) = "ok" THEN "start" ELSE "refused"]
    /\ error' = [d \in Datasets |-> Refusal(def[d])]
    /\ files' = files \cup UNION {InitFiles(def[d]) : d \in Datasets}
    /\ queue' = <<>>
    /\ user' = [d \in Datasets |-> <<>>]
    /\ held' = [d \in Datasets |-> <<>>]
    /\ faulty' = [d \in Datasets |-> FALSE]
    /\ table' = [d \in Datasets |-> None0]
    /\ columns' = [d \in Datasets |-> <<>>]
    /\ scan' = NoScan

Restart ==
    /\ restarts < MaxRestarts
    /\ restarts' = restarts + 1
    /\ \E reachable \in BOOLEAN : Boot(reachable)
    /\ UNCHANGED <<def, net, meta, remote, changes>>

Step(d) ==
    GetParams(d) \/ NewParameters(d) \/ CreateConnector(d) \/ ReadProvider(d)
        \/ RegisterDataset(d)

Init ==
    /\ def \in [Datasets -> UNION {Definitions[d] : d \in Datasets}]
    /\ \A d \in Datasets : def[d] \in Definitions[d]
    /\ stores = load_from(Decls, EnvDefault)
    /\ net \in Starts
    /\ pc = [d \in Datasets |-> IF Refusal(def[d]) = "ok" THEN "start" ELSE "refused"]
    /\ error = [d \in Datasets |-> Refusal(def[d])]
    /\ files = UNION {InitFiles(def[d]) : d \in Datasets}
    /\ queue = <<>>
    /\ user = [d \in Datasets |-> <<>>]
    /\ held = [d \in Datasets |-> <<>>]
    /\ faulty = [d \in Datasets |-> FALSE]
    /\ table = [d \in Datasets |-> None0]
    /\ meta = [d \in Datasets |-> def[d].stored]
    /\ remote = [d \in Datasets |-> IF def[d].query = None THEN <<>> ELSE def[d].query.objects]
    /\ columns = [d \in Datasets |-> <<>>]
    /\ scan = NoScan
    /\ changes = 0 /\ restarts = 0

Next ==
    \/ \E d \in Datasets : Step(d)
    \/ \E d \in Datasets, state \in {"up", "down", "hung"} : SourceChanges(d, state)
    \/ \E d \in Datasets, limit \in Limits : StartScan(d, limit)
    \/ ScanPage
    \/ \E i \in DOMAIN stores : StoreChanges(i)
    \/ \E d \in Datasets : CollectionChanges(d)
    \/ Restart

\* When a step of the load of d can be taken.
CanStep(d) ==
    \/ pc[d] = "start"
    \/ pc[d] = "new" /\ Holds(d)
    \/ pc[d] = "create" /\ Create(def[d], held[d], net[d]) # Hangs
    \/ pc[d] = "read" /\ Read(def[d], held[d], stores, meta[d], files, net[d], remote[d]) # Hangs
    \/ pc[d] = "register" /\ Register(def[d], held[d], stores, Others(d), files, net[d]).error # Hangs

\* WF_vars(Step(d)), with ENABLED <<Step(d)>>_vars written out as CanStep(d):
\* every step of a load moves its pc. TLC evaluates the guard far faster.
Fairness(d) == []<>~CanStep(d) \/ []<><<Step(d)>>_vars

CanScan == scan.pc = "page" /\ Answer(scan.of) # Hangs

Spec ==
    /\ Init /\ [][Next]_vars
    /\ \A d \in Datasets : Fairness(d)
    /\ []<>~CanScan \/ []<><<ScanPage>>_vars

(***************************************************************************)
(* Properties                                                              *)
(***************************************************************************)

\* The errors that tell the user to change the definition of the dataset.
ConfigurationErrors ==
    {"InvalidConfiguration", "InvalidConfigurationNoSource", "MissingParameter",
     "MissingRequiredParameter", "MissingRequiredSecret", "InvalidParameter",
     "InvalidParameterValue", "InvalidUsessl", "InvalidGlobPattern",
     "InvalidTableName", "NoDriverSpecified", "MissingConnectionString",
     "InvalidTransport", "InvalidMessageFormat", "UnknownDataConnector",
     "UnableToConnectInvalidUsernameOrPassword", "AcceleratedTableInvalidChanges",
     "WriteProviderNotImplemented", "AcceleratorInitializationFailed"}

AllStores == load_from([i \in DOMAIN Decls |->
                 [Decls[i] EXCEPT !.init = TRUE, !.fault = FALSE]], EnvDefault)
\* The stores but for their state; one that did not load when the process started is
\* missed until it starts again.
Loaded(ss) == [i \in DOMAIN ss |-> [ss[i] EXCEPT !.init = TRUE, !.fault = FALSE]]
StoresMissed == Loaded(stores) # AllStores

\* Whether an attempt that nothing disturbs would load the dataset.
Loadable(c, ss, m, fs, state, collection) ==
    /\ Refusal(c) = "ok"
    /\ \E u \in {get_params_with_secrets(ss, c.user)} :
        /\ NewParams(c, u, ss) = "ok"
        /\ \E p \in {Made(c, u, ss).params} :
            /\ Create(c, p, state) = "ok"
            /\ Read(c, p, ss, m, fs, state, collection) = "ok"
            /\ Register(c, p, ss, {}, fs, state).error = "ok"

\* A dataset whose attempt ended with an error of its configuration is wrong: no state
\* of its source, and no later attempt, could load it. The exceptions are the stores':
\* get_secret and inject_secrets treat one that fails during the attempt, or that did
\* not load when the process started, as one without the key.
ConfigErrorsArePermanent ==
    \A d \in Datasets :
        /\ pc[d] \in {"start", "refused"}
        /\ error[d] \in ConfigurationErrors /\ ~faulty[d] /\ ~StoresMissed
        => ~Loadable(def[d], AllStores, meta[d], files, "up", remote[d])

\* The rows that conflict are found by a key of the table: DuckDB, SQLite and
\* PostgreSQL refuse an ON CONFLICT on anything else. Two cases are left out: a
\* single clause of the user is passed on even when it is on no key, and a key
\* that the user gave in place of the source's leaves the upsert on the old one.
ConflictTargetsAreKeys ==
    \A d \in Datasets :
        LET a == def[d].accel
        IN  /\ table[d] # None0 /\ table[d].conflict.does \in {"upsert", "drop"}
            /\ IF DOMAIN a.on_conflict = {} THEN Unique(a) \cup Key(a) = {}
               ELSE DOMAIN a.on_conflict \subseteq Unique(a) \cup Key(a)
            => table[d].conflict.on \in table[d].keys

\* The file that initialize_accelerators opened, and by which it is decided
\* whether the accelerator is initialized and what other tables attach, is the
\* one that the table is created in; only the text of a file parameter with
\* references to secrets is not resolved there.
FileIsTheOneOpened ==
    LET inFile(d) == table[d] # None0 /\ table[d].file # None
        plain(d) == \A k \in DOMAIN def[d].accel.params :
                        References(def[d].accel.params[k]) = {}
    IN  \A d, o \in Datasets :
            /\ inFile(d) /\ plain(d) => file_path(def[d]) = table[d].file
            /\ inFile(d) /\ inFile(o) /\ plain(o) /\ o # d
                 /\ def[o].accel.engine = def[d].accel.engine
                 => table[o].file \in table[d].attached

\* The rows a scan should return for the objects that were there all the time.
Expected(d, ids) ==
    LET objects == SelectSeq(remote[d], LAMBDA o : o.id \in ids)
        depth == unnest_depth(def[d], held[d])
        Items(v) == IF v.is = "array" THEN [i \in DOMAIN v.items |-> Flat(v.items[i], 0)]
                    ELSE <<Flat(v, depth)>>
    IN  FlattenSeq([i \in DOMAIN objects |-> Items(objects[i].value)])
\* A row has the values of the columns that were there when the dataset was loaded.
IsRowOf(row, fields) ==
    \A k \in DOMAIN row.columns :
        IF row.columns[k] = None THEN \A f \in fields : f[1] # k
        ELSE <<k, row.columns[k]>> \in fields

\* A scan that succeeds has read the collection, though it came in pages while the
\* collection changed and the limit ran out: the objects that were there all the time
\* are in it once and in order, with every column the dataset was loaded with, all of
\* them without a limit and at least as many as asked for with one. (It is for queries
\* in which pagination was recognised: of others the first page is all there is.)
ScanIsTheCollection ==
    scan.pc = "done" /\ def[scan.of].query.pages =>
        LET expected == Expected(scan.of, scan.there)
            rows == SelectSeq(scan.rows, LAMBDA row : row.id \in scan.there)
        IN  /\ Len(rows) <= Len(expected)
            /\ \A i \in DOMAIN rows : IsRowOf(rows[i], expected[i])
            /\ \A i, j \in DOMAIN scan.rows : i < j =>
                    \/ scan.rows[i].id < scan.rows[j].id
                    \/ scan.rows[i].id = scan.rows[j].id /\ scan.rows[i].item < scan.rows[j].item
            /\ IF scan.limit = None THEN Len(rows) = Len(expected)
               ELSE Len(scan.rows) >= Min({scan.limit, Len(expected)})

\* The create that keeps the registry locked while its source says nothing.
Stalled == queue # <<>> /\ pc[Head(queue)] = "create"
              /\ Create(def[Head(queue)], held[Head(queue)], net[Head(queue)]) = Hangs

\* Every dataset that could be loaded is loaded, whatever became of the others
\* and of its own earlier attempts; only a connector whose source takes the
\* connection and never answers keeps it waiting, since the lock of the
\* registry is held across the create. And a scan comes to an end, unless its
\* source never answers.
EveryDatasetLoads ==
    /\ []<>(scan.pc # "page" \/ Answer(scan.of) = Hangs)
    /\ \A d \in Datasets :
        []<>(\/ pc[d] = "done"
             \/ ~Loadable(def[d], stores, meta[d], files, net[d], remote[d])
             \/ Stalled)
=============================================================================
