--------------------------- MODULE DataConnectors ---------------------------
(***************************************************************************)
(* The data connectors: which parameters each takes, what its factory      *)
(* verifies and whom it calls before there is a connector, and what it     *)
(* takes to get the table of a dataset from it.                            *)
(*                                                                         *)
(* p is the connector's parameters (see Secrets). d is a dataset: its url  *)
(* flag says that `from` is a URL, ext is the extension of its path, form  *)
(* the form of its path, accel the engine it is accelerated with. s is the *)
(* source: net is "up", "down" or "hung", login says that it accepts the   *)
(* credentials, table that it has the table. A source that hangs accepts   *)
(* connections and never answers.                                          *)
(*                                                                         *)
(* The outcome of a step is "ok", the name of an error, or Hangs.          *)
(*                                                                         *)
(* Source: dataconnector.rs and dataconnector/ of crates/runtime/src, and  *)
(* the clients under crates/ that the connectors are built from.           *)
(***************************************************************************)
EXTENDS Secrets

CONSTANT None    \* what an optional field has when it is not given

Hangs == "hangs"

\* The first check that is not passed decides.
FirstError(checks) ==
    LET failed == {i \in DOMAIN checks : checks[i] # "ok"}
    IN  IF failed = {} THEN "ok" ELSE checks[Min(failed)]

Check(passed, error) == IF passed THEN "ok" ELSE error
\* A request that must be answered, and one that must be granted too.
Ask(s, error) == CASE s.net = "up" -> "ok" [] s.net = "hung" -> Hangs
                   [] OTHER -> error
Login(s, unreachable, refused) ==
    FirstError(<<Ask(s, unreachable), Check(s.login, refused)>>)
Fetch(s, error) == FirstError(<<Ask(s, error), Check(s.table, error)>>)

Has(p, w) == <<w>> \in DOMAIN p
Val(p, w) == IF Has(p, w) THEN p[<<w>>] ELSE Empty
\* A value that is there has to parse.
Parses(p, w) == Has(p, w) => Whole(Val(p, w))
OneOf(p, w, options) == Has(p, w) => \E o \in options : Val(p, w) = <<o>>

\* verify_ns_lookup_and_tcp_connect: no answer is waited for.
Reach(s, error) == Check(s.net # "down", error)
\* verify_endpoint_connection
verify_endpoint_connection(endpoint, s, error) ==
    FirstError(<<Check(Whole(endpoint), error), Reach(s, error)>>)

Secrets0(ws) == {secret(connector(w)) : w \in ws}
Connector0(ws) == {connector(w) : w \in ws}
Runtime0(names) == {runtime(n) : n \in names}

(***************************************************************************)
(* Connectors for files                                                    *)
(***************************************************************************)

FileFormat == <<"file", "format">>
FileExtension == <<"file", "extension">>
FileCompression == <<"file", "compression_type">>

ListingParameters ==
    Runtime0({FileFormat, FileExtension, FileCompression, <<"csv_has_header">>,
              <<"csv_quote">>, <<"csv_escape">>, <<"csv_delimiter">>,
              <<"csv_schema_infer_max_records">>})

\* get_csv_format: every other option has a default for what it cannot read.
get_csv_format(p) ==
    Check(FileCompression \in DOMAIN p => p[FileCompression] = <<"gzip">>,
          "InvalidConfiguration")

\* get_file_format_and_extension: the format, and the error of finding it.
get_file_format_and_extension(p, d) ==
    LET named == FileFormat \in DOMAIN p
        format == IF named THEN p[FileFormat] ELSE <<d.ext>>
    IN  IF format = <<"csv">> THEN [format |-> "csv", error |-> get_csv_format(p)]
        ELSE IF format = <<"parquet">> THEN [format |-> "parquet", error |-> "ok"]
        ELSE IF named THEN [format |-> "text", error |-> "ok"]
        ELSE [format |-> "none", error |-> "InvalidConfiguration"]

\* get_object_store: the store is found by its URL, no one is called.
get_object_store(url, store) ==
    FirstError(<<url, Check(store = "ok", "UnableToConnectInternal")>>)

\* read_provider of the listing connectors: a text table reads nothing yet, the
\* schema of a tabular one comes from the files.
ListingRead(p, d, s, url, store) ==
    LET f == get_file_format_and_extension(p, d)
    IN  FirstError(<<url, f.error,
            IF f.format = "text" THEN get_object_store(url, store)
            ELSE FirstError(<<get_object_store(url, store),
                              Fetch(s, "UnableToConnectInternal")>>)>>)

UrlOf(d) == Check(d.url, "InvalidConfiguration")

\* S3Factory and S3
S3Parameters ==
    Secrets0({"region", "endpoint", "key", "secret"})
        \cup Runtime0({<<"client_timeout">>}) \cup ListingParameters
\* create: the slashes at the end of the endpoint are trimmed.
S3Created(p) ==
    LET e == Val(p, "endpoint")
        kept == {i \in DOMAIN e : e[i] # "/"}
    IN  IF e # Empty /\ Last(e) = "/"
        THEN [p EXCEPT ![<<"endpoint">>] =
                 SubSeq(e, 1, IF kept = {} THEN 0 ELSE Max(kept))]
        ELSE p
\* prepare_s3_object_store
prepare_s3_object_store(p) == Check(Parses(p, "client_timeout"), "Configuration")
S3(p, d, s) ==
    [create |-> "ok", write |-> "none",
     read |-> ListingRead(S3Created(p), d, s, UrlOf(d),
                          prepare_s3_object_store(S3Created(p)))]

\* FTPFactory and FTP; SFTP takes the same ones.
FTPParameters ==
    Secrets0({"user", "pass"}) \cup Connector0({"port"})
        \cup Runtime0({<<"client_timeout">>}) \cup ListingParameters
\* prepare_ftp_object_store
prepare_ftp_object_store(p) ==
    Check(Has(p, "user") /\ Has(p, "pass") /\ Parses(p, "client_timeout"),
          "Configuration")
FTP(p, d, s) ==
    [create |-> "ok", write |-> "none",
     read |-> ListingRead(p, d, s, UrlOf(d), prepare_ftp_object_store(p))]

SFTPParameters ==
    Secrets0({"user", "pass"}) \cup Connector0({"port"})
        \cup Runtime0({<<"client_timeout">>}) \cup ListingParameters
\* prepare_sftp_object_store
prepare_sftp_object_store(p) ==
    Check(Has(p, "user") /\ Has(p, "pass") /\ Parses(p, "client_timeout"),
          "Configuration")
SFTP(p, d, s) ==
    [create |-> "ok", write |-> "none",
     read |-> ListingRead(p, d, s, UrlOf(d), prepare_sftp_object_store(p))]

HttpsParameters ==
    Secrets0({"username", "password"}) \cup Connector0({"port"})
        \cup Runtime0({<<"client_timeout">>}) \cup ListingParameters
\* prepare_https_object_store
prepare_https_object_store(p) == Check(Parses(p, "client_timeout"), "Configuration")
\* get_object_store_url: a URL without a host takes no user and no password.
HttpsUrl(p, d) ==
    FirstError(<<UrlOf(d), Check(Parses(p, "port"), "InvalidConfiguration"),
        Check(Has(p, "password") \/ Has(p, "username") => d.host,
              "UnableToConnectInvalidUsernameOrPassword")>>)
Https(p, d, s) ==
    [create |-> "ok", write |-> "none",
     read |-> ListingRead(p, d, s, HttpsUrl(p, d), prepare_https_object_store(p))]

\* The files of this machine are always there to be listed.
FileParameters == ListingParameters
File(p, d, s) ==
    [create |-> "ok", write |-> "none",
     read |-> ListingRead(p, d, s, UrlOf(d), "ok")]

(***************************************************************************)
(* Connectors for databases                                                *)
(***************************************************************************)

\* MySQLFactory: the pool connects; its errors are the library's.
MySQLParameters ==
    Secrets0({"connection_string", "user", "pass"})
        \cup Connector0({"host", "tcp_port", "db", "sslmode", "sslrootcert"})
MySQL(p, d, s) ==
    [create |-> Login(s, "UnableToCreateMySQLConnectionPool",
                      "UnableToCreateMySQLConnectionPool"),
     read |-> Fetch(s, "UnableToGetReadProvider"), write |-> "none"]

PostgresParameters ==
    Secrets0({"connection_string", "user", "pass"})
        \cup Connector0({"host", "port", "db", "sslmode", "sslrootcert"})
        \cup {default(runtime(<<"connection_pool_size">>), <<"10">>)}
\* Mutant: whatever keeps the table from being read is taken for a wrong name.
Postgres_any(p, d, s) ==
    [create |-> FirstError(<<
        Reach(s, "UnableToConnectInvalidHostOrPort"),
        Check(Parses(p, "connection_pool_size"), "UnableToConnectInternal"),
        Login(s, "UnableToConnectInternal",
              "UnableToConnectInvalidUsernameOrPassword")>>),
     read |-> Check(s.net = "up" /\ s.table, "InvalidTableName"),
     write |-> "none"]

Postgres(p, d, s) ==
    [create |-> FirstError(<<
        Reach(s, "UnableToConnectInvalidHostOrPort"),
        Check(Parses(p, "connection_pool_size"), "UnableToConnectInternal"),
        Login(s, "UnableToConnectInternal",
              "UnableToConnectInvalidUsernameOrPassword")>>),
     read |-> FirstError(<<Ask(s, "UnableToGetReadProvider"),
                           Check(s.table, "InvalidTableName")>>),
     write |-> "none"]

SnowflakeParameters ==
    Secrets0({"username", "password", "private_key_path", "private_key_passphrase",
              "account", "warehouse", "role"}) \cup Connector0({"auth_type"})
\* init_snowflake_api_with_password_auth
SnowflakePassword(p) == Check(Has(p, "password"), "MissingRequiredSecret")
\* init_snowflake_api_with_keypair_auth: the key is read from a file and, where
\* it is encrypted, decrypted with the passphrase.
SnowflakeKeypair(p) ==
    FirstError(<<Check(Has(p, "private_key_path"), "MissingRequiredSecret"),
        Check(Whole(Val(p, "private_key_path")), "ErrorReadingPrivateKeyFile"),
        Check(Val(p, "private_key_path") = <<"encrypted">>
                => Has(p, "private_key_passphrase"), "MissingRequiredSecret"),
        Check(Val(p, "private_key_path") = <<"encrypted">>
                => Whole(Val(p, "private_key_passphrase")),
              "UnableToDecryptPrivateKey")>>)
\* SnowflakeConnectionPool::new: a SELECT 1 proves the account.
SnowflakePool(p, s) ==
    LET auth == IF Has(p, "auth_type") THEN Val(p, "auth_type") ELSE <<"snowflake">>
    IN  FirstError(<<Check(Has(p, "username"), "MissingRequiredSecret"),
            Check(Has(p, "account"), "MissingRequiredSecret"),
            CASE auth = <<"snowflake">> -> SnowflakePassword(p)
              [] auth = <<"keypair">> -> SnowflakeKeypair(p)
              [] OTHER -> "InvalidParameterValue",
            Login(s, "UnableToConnect", "UnableToAuthenticate")>>)
Snowflake(p, d, s) ==
    [create |-> SnowflakePool(p, s), read |-> Fetch(s, "UnableToGetReadProvider"),
     write |-> "none"]

ClickhouseParameters ==
    Secrets0({"connection_string", "pass"})
        \cup Connector0({"user", "host", "tcp_port", "db", "secure"})
        \cup Runtime0({<<"connection_timeout">>})
\* get_config_from_params: without a connection string the host is called, and
\* the database is missed only after it answered.
ClickhouseConfig(p, s) ==
    FirstError(
        (IF Has(p, "connection_string")
         THEN <<Check(Parses(p, "connection_string"), "UnableToConnectInternal")>>
         ELSE <<Check(Has(p, "user"), "UnableToConnectInternal"),
                Check(Has(p, "host"), "UnableToConnectInternal"),
                Check(Has(p, "tcp_port"), "UnableToConnectInternal"),
                Check(Parses(p, "tcp_port"), "UnableToConnectInvalidHostOrPort"),
                Reach(s, "UnableToConnectInvalidHostOrPort"),
                Check(Has(p, "db"), "UnableToConnectInternal")>>)
        \o <<Check(Parses(p, "connection_timeout"), "UnableToConnectInternal"),
             Check(OneOf(p, "secure", {"true", "false"}), "UnableToConnectInternal")>>)
Clickhouse(p, d, s) ==
    [create |-> ClickhouseConfig(p, s),
     read |-> FirstError(<<Login(s, "UnableToGetReadProvider", "UnableToGetReadProvider"),
                           Fetch(s, "UnableToGetReadProvider")>>),
     write |-> "none"]

ODBCParameters ==
    Secrets0({"connection_string"})
        \cup Connector0({"max_binary_size", "max_text_size", "max_bytes_per_batch",
                         "max_num_rows_per_batch"})
        \cup Runtime0({<<"sql_dialect">>})
\* SQLDialectParam::try_into
SQLDialects == {"mysql", "postgresql", "sqlite", "databricks", "athena"}
\* The dialect comes from its parameter or else from the driver that the
\* connection string names; ODBCPool::new connects to no one.
ODBC(p, d, s) ==
    [create |-> FirstError(
        (IF Has(p, "sql_dialect")
         THEN <<Check(OneOf(p, "sql_dialect", SQLDialects), "InvalidParameter")>>
         ELSE <<Check(Has(p, "connection_string"), "MissingParameter"),
                Check("driver" \in Range(Val(p, "connection_string")),
                      "NoDriverSpecified")>>)
        \o <<Check(Has(p, "connection_string"), "MissingConnectionString")>>),
     read |-> FirstError(<<Login(s, "UnableToGetReadProvider", "UnableToGetReadProvider"),
                           Fetch(s, "UnableToGetReadProvider")>>),
     write |-> "none"]

DuckDBParameters == Connector0({"open"})
\* A database file is opened read only; a path that is not a table function
\* needs the parameter under the user's name for it.
DuckDB(p, d, s) ==
    [create |-> Check(Has(p, "open") => s.net = "up", "UnableToConnectInternal"),
     read |-> FirstError(<<
        Check(d.form = "function" \/ <<"duckdb", "open">> \in DOMAIN d.user,
              "UnableToGetReadProvider"),
        Check(s.table, "UnableToGetReadProvider")>>),
     write |-> "none"]

(***************************************************************************)
(* Connectors for Flight, Spark and lakes                                  *)
(***************************************************************************)

SparkParameters == {required(secret(connector("remote")))}
Spark(p, d, s) ==
    [create |-> FirstError(<<
        Check(Has(p, "remote"), "InvalidConfiguration"),
        Check(Parses(p, "remote"), "InvalidConfiguration"),
        Login(s, "UnableToConnectInternal", "UnableToConnectInternal")>>),
     read |-> Fetch(s, "UnableToGetReadProvider"), write |-> "none"]

DremioParameters == Secrets0({"username", "password"}) \cup Connector0({"endpoint"})
Dremio(p, d, s) ==
    [create |-> FirstError(<<
        Check(Has(p, "endpoint"), "MissingParameter"),
        verify_endpoint_connection(Val(p, "endpoint"), s,
                                   "UnableToVerifyEndpointConnection"),
        Login(s, "UnableToCreateFlightClient", "UnableToCreateFlightClient")>>),
     read |-> Fetch(s, "UnableToGetSchema"),
     write |-> Fetch(s, "UnableToGetReadWriteProvider")]

FlightSQLParameters == Secrets0({"username", "password"}) \cup Connector0({"endpoint"})
\* The handshake is made only for a user with a password.
FlightSQL(p, d, s) ==
    [create |-> FirstError(<<
        Check(Has(p, "endpoint"), "MissingParameter"),
        FirstError(<<Check(Parses(p, "endpoint"), "UnableToConstructTlsChannel"),
                     Ask(s, "UnableToConstructTlsChannel")>>),
        IF Has(p, "username") /\ Has(p, "password")
        THEN Login(s, "UnableToPerformHandshake", "UnableToPerformHandshake")
        ELSE "ok">>),
     read |-> Fetch(s, "UnableToGetReadProvider"), write |-> "none"]

SpiceAIParameters == Secrets0({"api_key", "token"}) \cup Connector0({"endpoint"})
\* The endpoint is called before the key is missed.
SpiceAICreate(p, s) ==
    FirstError(<<
        verify_endpoint_connection(IF Has(p, "endpoint") THEN Val(p, "endpoint")
                                   ELSE <<"https://flight.spiceai.io">>,
                                   s, "UnableToVerifyEndpointConnection"),
        Check(Has(p, "api_key"), "MissingRequiredParameter"),
        Login(s, "UnableToCreateFlightClient", "UnableToCreateFlightClient")>>)
\* read_provider: the schema of an append stream is fetched on its own.
SpiceAI(p, d, s) ==
    [create |-> SpiceAICreate(p, s),
     read |-> FirstError(<<
        IF d.accel # None /\ d.mode = "append" /\ ~d.time
        THEN Fetch(s, "UnableToGetReadProvider") ELSE "ok",
        Fetch(s, "UnableToGetSchema")>>),
     write |-> Fetch(s, "UnableToGetReadWriteProvider")]

StorageOptions ==
    {"aws_region", "aws_access_key_id", "aws_secret_access_key", "aws_endpoint",
     "azure_storage_account_name", "azure_storage_account_key",
     "azure_storage_client_id", "azure_storage_client_secret",
     "azure_storage_sas_key", "azure_storage_endpoint", "google_service_account"}

DatabricksParameters ==
    {required(secret(connector(w))) : w \in {"endpoint", "token"}}
        \cup {default(runtime(<<"mode">>), <<"spark_connect">>),
              default(connector("use_ssl"), <<"true">>)}
        \cup Runtime0({<<"client_timeout">>}) \cup Connector0({"cluster_id"})
        \cup Secrets0(StorageOptions)
\* Databricks::new: Delta Lake calls no one, Spark Connect logs in.
DatabricksNew(p, s) ==
    FirstError(<<
        Check(Has(p, "endpoint") /\ Has(p, "token"), "MissingParameter"),
        IF Val(p, "mode") = <<"delta_lake">> THEN "ok"
        ELSE FirstError(<<
            Check(OneOf(p, "use_ssl", {"true", "false"}), "InvalidUsessl"),
            Check(Has(p, "cluster_id"), "MissingParameter"),
            Login(s, "UnableToConstructDatabricksSpark",
                  "UnableToConstructDatabricksSpark")>>)>>)
Databricks(p, d, s) ==
    [create |-> DatabricksNew(p, s), read |-> Fetch(s, "UnableToGetReadProvider"),
     write |-> "none"]

DeltaLakeParameters ==
    Runtime0({<<"client_timeout">>}) \cup Secrets0(StorageOptions)
DeltaLake(p, d, s) ==
    [create |-> "ok", read |-> Fetch(s, "UnableToGetReadProvider"), write |-> "none"]

\* Databricks::catalog_provider: u is the catalog's parameters with the ones for
\* its tables; all but a Delta Lake catalog make a second connector from them.
DatabricksCatalog(p, k, u, stores, s) ==
    LET tables == try_new("databricks", DatabricksParameters, u, stores)
        new == DatabricksNew(tables.params, s)
    IN  FirstError(<<Check(k.id # None, "InvalidConfigurationNoSource"),
            Check(tables.ok, "InternalWithSource"),
            IF Val(p, "mode") = <<"delta_lake">> THEN "ok"
            ELSE IF new \in {"ok", Hangs} THEN new ELSE "UnableToGetCatalogProvider",
            Fetch(s, "UnableToGetCatalogProvider")>>)

\* Unity Catalog has catalogs and no datasets.
UnityCatalogParameters == Secrets0({"token"} \cup StorageOptions)
UnityCatalog(p, d, s) ==
    [create |-> "ok", read |-> "UnableToGetReadProvider", write |-> "none"]
\* catalog_provider: the id is the URL of the catalog.
UnityCatalogCatalog(k, s) ==
    FirstError(<<Check(k.id # None, "InvalidConfigurationNoSource"),
                 Check(k.id # Bad, "InvalidConfiguration"),
                 Fetch(s, "UnableToGetCatalogProvider")>>)

\* SpiceAI::catalog_provider: an error of the cloud is not told from a cloud
\* that is not there.
SpiceAICatalog(k, s) ==
    FirstError(<<Check(k.id = None, "InvalidConfigurationNoSource"),
                 Fetch(s, "DataConnectorDoesntSupportCatalogs")>>)

(***************************************************************************)
(* Connectors for APIs and streams                                         *)
(***************************************************************************)

GraphQLParameters ==
    Secrets0({"auth_token", "auth_user", "auth_pass"}) \cup {required(connector("query"))}
        \cup Runtime0({<<"json_pointer">>, <<"unnest_depth">>})
\* GraphQL::get_client
GraphQLClient(p, d) ==
    FirstError(<<Check(Has(p, "query"), "InvalidConfigurationNoSource"),
                 Check(d.url, "InvalidConfiguration"),
                 Check(Parses(p, "unnest_depth"), "InvalidConfiguration")>>)
GraphQL(p, d, s) ==
    [create |-> "ok", write |-> "none",
     read |-> FirstError(<<GraphQLClient(p, d), Fetch(s, "InternalWithSource")>>)]

GithubParameters ==
    Secrets0({"token"}) \cup Runtime0({<<"include">>})
        \cup {default(connector("endpoint"), <<"https://api.github.com">>)}
\* create_files_table_provider
GithubFiles(p, d, s) ==
    FirstError(<<Check(d.ref, "UnableToGetReadProvider"),
                 Check(Has(p, "token"), "UnableToGetReadProvider"),
                 Check(Parses(p, "include"), "InvalidGlobPattern"),
                 Fetch(s, "UnableToGetReadProvider")>>)
\* read_provider: the fourth part of github.com/owner/repo/... says which table.
Github(p, d, s) ==
    [create |-> "ok", write |-> "none",
     read |-> CASE d.form \in {"pulls", "commits", "issues", "stargazers"} ->
                     FirstError(<<Check(Parses(p, "endpoint"), "UnableToGetReadProvider"),
                                  Fetch(s, "UnableToGetReadProvider")>>)
                [] d.form = "files" -> GithubFiles(p, d, s)
                [] OTHER -> "UnableToGetReadProvider"]

DebeziumParameters ==
    {required(default(connector("transport"), <<"kafka">>)),
     required(default(connector("message_format"), <<"json">>)),
     required(runtime(<<"kafka_bootstrap_servers">>))}
\* Debezium::new
DebeziumNew(p) ==
    FirstError(<<Check(OneOf(p, "transport", {"kafka"}), "InvalidTransport"),
                 Check(OneOf(p, "message_format", {"json"}), "InvalidMessageFormat"),
                 Check(Has(p, "kafka_bootstrap_servers"),
                       "MissingKafkaBootstrapServers")>>)
\* read_provider: without stored metadata the first message of the topic is
\* awaited, for ever on a topic that has none.
Debezium(p, d, s) ==
    [create |-> DebeziumNew(p), write |-> "none",
     read |-> FirstError(<<
        Check(d.accel # None, "InvalidConfigurationNoSource"),
        Check(d.accel # "arrow", "InvalidConfigurationNoSource"),
        Check(d.mode \in {"unset", "changes"}, "InvalidConfigurationNoSource"),
        IF d.stored # None
        THEN Check(d.stored = "same", "InvalidConfigurationNoSource")
        ELSE IF s.net # "up" \/ ~s.table THEN Hangs ELSE "ok">>)]

\* SinkConnector: it has a schema of its own and takes every write.
Sink(p, d, s) == [create |-> "ok", read |-> "ok", write |-> "ok"]

(***************************************************************************)
(* The registry                                                            *)
(***************************************************************************)

\* register_all: the prefix and the parameters of each factory.
Factories ==
    [sink |-> <<"sink", {}>>, databricks |-> <<"databricks", DatabricksParameters>>,
     delta_lake |-> <<"delta_lake", DeltaLakeParameters>>,
     dremio |-> <<"dremio", DremioParameters>>, file |-> <<"file", FileParameters>>,
     flightsql |-> <<"flightsql", FlightSQLParameters>>, s3 |-> <<"s3", S3Parameters>>,
     ftp |-> <<"ftp", FTPParameters>>, http |-> <<"http", HttpsParameters>>,
     https |-> <<"http", HttpsParameters>>, github |-> <<"github", GithubParameters>>,
     sftp |-> <<"sftp", SFTPParameters>>, spiceai |-> <<"spiceai", SpiceAIParameters>>,
     mysql |-> <<"mysql", MySQLParameters>>, postgres |-> <<"pg", PostgresParameters>>,
     duckdb |-> <<"duckdb", DuckDBParameters>>,
     clickhouse |-> <<"clickhouse", ClickhouseParameters>>,
     graphql |-> <<"graphql", GraphQLParameters>>, odbc |-> <<"odbc", ODBCParameters>>,
     spark |-> <<"spark", SparkParameters>>,
     snowflake |-> <<"snowflake", SnowflakeParameters>>,
     debezium |-> <<"debezium", DebeziumParameters>>,
     unity_catalog |-> <<"unity_catalog", UnityCatalogParameters>>]

\* The connector of a kind, as its factory and its methods answer.
Connector(kind, p, d, s) ==
    CASE kind = "sink" -> Sink(p, d, s) [] kind = "databricks" -> Databricks(p, d, s)
      [] kind = "delta_lake" -> DeltaLake(p, d, s) [] kind = "dremio" -> Dremio(p, d, s)
      [] kind = "file" -> File(p, d, s) [] kind = "flightsql" -> FlightSQL(p, d, s)
      [] kind = "s3" -> S3(p, d, s) [] kind = "ftp" -> FTP(p, d, s)
      [] kind \in {"http", "https"} -> Https(p, d, s)
      [] kind = "github" -> Github(p, d, s) [] kind = "sftp" -> SFTP(p, d, s)
      [] kind = "spiceai" -> SpiceAI(p, d, s) [] kind = "mysql" -> MySQL(p, d, s)
      [] kind = "postgres" -> Postgres(p, d, s) [] kind = "duckdb" -> DuckDB(p, d, s)
      [] kind = "clickhouse" -> Clickhouse(p, d, s)
      [] kind = "graphql" -> GraphQL(p, d, s) [] kind = "odbc" -> ODBC(p, d, s)
      [] kind = "spark" -> Spark(p, d, s) [] kind = "snowflake" -> Snowflake(p, d, s)
      [] kind = "debezium" -> Debezium(p, d, s)
      [] kind = "unity_catalog" -> UnityCatalog(p, d, s)

\* DataConnector::catalog_provider, which most connectors do not have.
Catalog(kind, p, k, u, stores, s) ==
    CASE kind = "databricks" -> DatabricksCatalog(p, k, u, stores, s)
      [] kind = "unity_catalog" -> UnityCatalogCatalog(k, s)
      [] kind = "spiceai" -> SpiceAICatalog(k, s)
      [] OTHER -> "DataConnectorDoesntSupportCatalogs"

\* The methods a connector may leave to the trait (DataConnector).
resolve_refresh_mode(kind, mode) ==
    IF mode # "unset" THEN mode
    ELSE CASE kind = "debezium" -> "changes" [] kind = "sink" -> "disabled" [] OTHER -> "full"
supports_changes_stream(kind) == kind = "debezium"
=============================================================================
