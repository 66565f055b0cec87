---------------------------- MODULE MCConnectors ----------------------------
(***************************************************************************)
(* Instances of ConnectorLoad. The first dataset has one definition of     *)
(* each kind of source, and of each way its parameters can be wrong; the   *)
(* second is one of those that share the registry with it.                 *)
(***************************************************************************)
EXTENDS ConnectorLoad

\* Stores of every kind, two of which have the token.
Store(name, kind, selector, values) ==
    [name |-> name, provider |-> kind, selector |-> selector, init |-> TRUE,
     vars |-> values, fault |-> FALSE, parses |-> TRUE]

MCDecls ==
    <<Store("env", "env", FALSE,
            (<<FALSE, <<"token">>>> :> <<"old">>) @@ (<<TRUE, <<"key">>>> :> <<"k1">>)
              @@ (<<FALSE, <<"key">>>> :> <<"k0">>)),
      Store("aws", "aws_secrets_manager", TRUE,
            (<<FALSE, <<"mysql", "pass">>>> :> <<"p">>)
              @@ (<<FALSE, <<"databricks", "token">>>> :> <<"t">>)),
      Store("kube", "kubernetes", TRUE, <<FALSE, <<"token">>>> :> <<"new">>),
      Store("keyring", "keyring", FALSE, <<FALSE, <<"token">>>> :> <<"newest">>)>>

Plain(kind) ==
    [from |-> <<kind, "path">>, name |-> <<"t">>, user |-> <<>>, url |-> TRUE,
     host |-> TRUE, ext |-> "parquet", form |-> "table", ref |-> TRUE, time |-> FALSE,
     stored |-> None, login |-> TRUE, table |-> TRUE, read_write |-> FALSE,
     replicated |-> FALSE, schema |-> {"id", "x"}, keys |-> {}, accel |-> None,
     catalog |-> None, query |-> None]
Given(c, params) == [c EXCEPT !.user = params]
P(k, v) == <<k>> :> <<v>>
PP(prefix, k, v) == <<prefix, k>> :> <<v>>
Ref(store, key) == <<"${", store, ":", key, "}">>

Accel(engine, mode) ==
    [enabled |-> TRUE, engine |-> engine, mode |-> mode, params |-> <<>>,
     primary_key |-> {}, indexes |-> <<>>, on_conflict |-> <<>>, wrong |-> {},
     refresh_mode |-> "unset"]
With(c, a) == [c EXCEPT !.accel = a]

Files ==
    {Given(Plain("s3"), P("client_timeout", "30s") @@ PP("s3", "endpoint", "e")),
     Given(Plain("s3"), (<<"s3", "endpoint">> :> <<"e", "/", "/">>)
                          @@ (<<"s3", "key">> :> Ref("secrets", "key"))),
     Given(Plain("s3"), P("client_timeout", Bad)),
     Given([Plain("s3") EXCEPT !.ext = "md"], FileFormat :> <<"md">>),
     Given(Plain("ftp"), (<<"ftp", "user">> :> Ref("env", "key") \o Ref("kube", "token"))
                           @@ (<<"ftp", "pass">> :> Ref("kube", "token"))),
     Plain("ftp"),
     Given(Plain("sftp"), PP("sftp", "user", "u") @@ PP("sftp", "pass", "p")),
     [Plain("https") EXCEPT !.ext = "csv"],
     Given([Plain("http") EXCEPT !.host = FALSE], PP("http", "username", "u")),
     Plain("file"), [Plain("file") EXCEPT !.ext = "none"]}

Databases ==
    {Given(Plain("mysql"), <<"mysql", "user">> :> <<"u", "${">> \o Ref("secrets", "token")),
     Given(Plain("mysql"), <<"mysql", "user">> :> Ref("secrets", "token") \o <<Junk>>),
     Given(Plain("postgres"), PP("pg", "user", "u")),
     [Plain("postgres") EXCEPT !.table = FALSE],
     Given(Plain("snowflake"), PP("snowflake", "username", "u")
              @@ PP("snowflake", "account", "a") @@ PP("snowflake", "password", "p")),
     Given(Plain("snowflake"), PP("snowflake", "username", "u")
              @@ PP("snowflake", "account", "a") @@ PP("snowflake", "auth_type", "keypair")
              @@ PP("snowflake", "private_key_path", "encrypted")),
     Given(Plain("clickhouse"), PP("clickhouse", "user", "u")
              @@ PP("clickhouse", "host", "h") @@ PP("clickhouse", "tcp_port", "1")),
     Given(Plain("clickhouse"), PP("clickhouse", "connection_string", "c")),
     Given(Plain("odbc"), <<"odbc", "connection_string">> :> <<"driver", "x">>),
     Given(Plain("odbc"), PP("odbc", "connection_string", "x")),
     Given(Plain("duckdb"), PP("duckdb", "open", "f")),
     Plain("duckdb"), [Plain("duckdb") EXCEPT !.form = "function"]}

Lakes ==
    {Given(Plain("spark"), PP("spark", "remote", "r")), Plain("spark"),
     Given(Plain("dremio"), PP("dremio", "endpoint", "e")), Plain("dremio"),
     Given(Plain("flightsql"), PP("flightsql", "endpoint", "e")),
     Given(Plain("flightsql"), (PP("flightsql", "endpoint", "e")
              @@ PP("flightsql", "username", "u")) @@ PP("flightsql", "password", "p")),
     Given([Plain("spiceai") EXCEPT !.from = <<"eth.blocks">>],
           <<"spiceai", "api_key">> :> Ref("secrets", "key")),
     Given(Plain("databricks"), PP("databricks", "endpoint", "e") @@ P("mode", "delta_lake")),
     Given(Plain("databricks"), PP("databricks", "endpoint", "e")
              @@ PP("databricks", "use_ssl", "maybe")),
     Plain("delta_lake"), Plain("unity_catalog"), Plain("iceberg")}

\* Collections of objects, and one more that may be added.
Text(v) == [is |-> "Utf8", value |-> v]
Number(v) == [is |-> "Int64", value |-> v]
Object(fields) == [is |-> "object", fields |-> fields]
Person(n) == Object([name |-> Text(n), at |-> Object([x |-> Number(n), of |-> Object([y |-> Text(n)])])])
Wide == Object([name |-> Text(0), at |-> Object([x |-> Number(0), z |-> Number(1)])])
Twice == Object([name |-> Text(0), at |-> Object([name |-> Text(1)])])
List == [is |-> "array", items |-> <<Object([name |-> Text(7)]), Object([x |-> Number(7)])>>]
Mixed == Object([name |-> Number(1)])
Collection(values) == [i \in DOMAIN values |-> [id |-> i, value |-> values[i]]]
Asking(values, count, pages, depth) ==
    [objects |-> Collection(values), more |-> [id |-> 9, value |-> Wide], count |-> count,
     pages |-> pages, depth |-> depth]
Query(q, params) == [Given(Plain("graphql"), PP("graphql", "query", "q") @@ params) EXCEPT !.query = q]
Queries ==
    {Query(Asking(<<Person(1), Person(2), Wide, List>>, 2, TRUE, 2), P("unnest_depth", "2")),
     Query(Asking(<<Person(1), Person(2), Person(3), Person(4)>>, 2, TRUE, 1), P("unnest_depth", "1")),
     Query(Asking(<<Wide, Person(1), Mixed>>, 2, TRUE, 0), P("json_pointer", "p")),
     Query(Asking(<<Person(1), Twice>>, 1, TRUE, 1), P("unnest_depth", "1")),
     Query(Asking(<<Twice>>, 1, TRUE, 1), P("unnest_depth", "1")),
     Query(Asking(<<>>, 2, TRUE, 0), <<>>),
     Query(Asking(<<Person(1), Person(2), Wide>>, 2, FALSE, 0), <<>>)}
MCLimits == {None, 1, 2, 3}

Apis ==
    Queries \cup
    {Given(Plain("graphql"), PP("graphql", "query", "q") @@ P("unnest_depth", Bad)),
     Given([Plain("graphql") EXCEPT !.url = FALSE], PP("graphql", "query", "q")),
     Given([Plain("github") EXCEPT !.form = "files"],
           (<<"github", "token">> :> Ref("secrets", "token")) @@ P("include", "g")),
     [Plain("github") EXCEPT !.form = "files"],
     [Plain("github") EXCEPT !.form = "pulls"], Plain("github")}

Upserts ==
    [Accel("duckdb", "file") EXCEPT !.params = <<"duckdb", "file">> :> <<"a.db">>]
Accelerated ==
    {With([Plain("s3") EXCEPT !.keys = {{"id"}}], Upserts),
     With([Plain("s3") EXCEPT !.keys = {{"id"}}],
          [Upserts EXCEPT !.on_conflict = {"x"} :> "drop", !.primary_key = {{"x"}}]),
     With(Plain("s3"), [Accel("sqlite", "file") EXCEPT
          !.params = <<"sqlite", "file">> :> Ref("secrets", "key"),
          !.indexes = {"id"} :> "unique"]),
     With(Plain("s3"), [Accel("sqlite", "file") EXCEPT
          !.params = <<"sqlite", "file">> :> <<"dir">>]),
     With(Plain("s3"), Accel("sqlite", "memory")), With(Plain("s3"), Accel("arrow", "file")),
     With(Plain("s3"), [Accel("arrow", "memory") EXCEPT
          !.indexes = ({"id"} :> "unique") @@ ({"y"} :> "enabled")]),
     With(Plain("s3"), [Accel("postgres", "memory") EXCEPT
          !.on_conflict = ({"id"} :> "drop") @@ ({"x"} :> "drop"),
          !.indexes = {"id"} :> "unique", !.primary_key = {{"x"}}]),
     With(Plain("s3"), [Accel("postgres", "memory") EXCEPT
          !.on_conflict = ({"id"} :> "drop") @@ ({"x"} :> "upsert")]),
     With(Plain("s3"), [Accel("arrow", "memory") EXCEPT !.refresh_mode = "changes"]),
     With([Plain("spiceai") EXCEPT !.user = PP("spiceai", "api_key", "k"),
                                   !.read_write = TRUE, !.replicated = TRUE],
          [Accel("arrow", "memory") EXCEPT !.refresh_mode = "append"]),
     [With(Plain("s3"), Upserts) EXCEPT !.read_write = TRUE]}

Streams ==
    LET kafka(a) == With(Given(Plain("debezium"), P("kafka_bootstrap_servers", "b")), a)
    IN  {kafka(Accel("duckdb", "file")), kafka(Accel("arrow", "memory")), kafka(None),
         [kafka(Accel("duckdb", "file")) EXCEPT !.stored = "other"],
         [kafka(Accel("duckdb", "file")) EXCEPT !.table = FALSE]}

Catalogs ==
    LET named(c, id) == [c EXCEPT !.catalog = [id |-> id, globs |-> TRUE, params |-> <<>>]]
        bricks == Given(Plain("databricks"), PP("databricks", "endpoint", "e")
                                               @@ PP("databricks", "cluster_id", "c"))
    IN  {named(Plain("unity_catalog"), "url"), named(Plain("unity_catalog"), Bad),
         named(Given(Plain("spiceai"), PP("spiceai", "api_key", "k")), None),
         named(bricks, "main"), named(Plain("s3"), "main"),
         [named(bricks, None) EXCEPT !.catalog.globs = FALSE]}

\* The second dataset shares the registry, and the files of DuckDB.
Neighbours == {[With(Given(Plain("mysql"), PP("mysql", "user", "u")), Accel("duckdb", "file"))
                 EXCEPT !.name = <<"u">>]}
Wrong ==
    {[Plain("s3") EXCEPT !.name = <<"a", "b", "c">>], With(Plain("s3"), Accel("redis", "memory")),
     With(Plain("s3"), [Accel("arrow", "memory") EXCEPT !.wrong = {"indexes"}])}

All == Files \cup Databases \cup Lakes \cup Apis \cup Accelerated \cup Streams
         \cup Catalogs \cup Wrong
         \cup {With([Plain("sink") EXCEPT !.from = <<>>], Accel("duckdb", "file"))}

CONSTANTS d1, d2
MCDatasets == {d1, d2}
MCStarts == {(d1 :> "up") @@ (d2 :> "up")}
MCDefinitions == (d1 :> All) @@ (d2 :> Neighbours)

=============================================================================
