----------------------------- MODULE MCServing -----------------------------
(***************************************************************************)
(* Two clients at a time. A case says what they ask, which models and      *)
(* tools the spicepod has and whether it changes while they ask.           *)
(***************************************************************************)
EXTENDS Serving

CONSTANTS c1, c2

TwoCallers == {c1, c2}
OneRuntimeTable == {"runtime.task_history"}
OneDataset == <<"t">>

Fine == [planning |-> None, starting |-> None, failure |-> None, writes |-> FALSE,
         mismatch |-> FALSE, json |-> TRUE, tables |-> {"t"}, batches |-> <<0, 3>>]
Statements ==
    [select    |-> Fine,
     syntax    |-> [Fine EXCEPT !.planning = <<"SQL">>],
     context   |-> [Fine EXCEPT !.planning = <<"Context", "Plan">>],
     insert    |-> [Fine EXCEPT !.writes = TRUE, !.batches = <<1>>],
     history   |-> [Fine EXCEPT !.tables = OneRuntimeTable, !.batches = <<1>>],
     forget    |-> [Fine EXCEPT !.tables = OneRuntimeTable, !.writes = TRUE],
     unstarted |-> [Fine EXCEPT !.starting = <<"Context", "External">>],
     odd       |-> [Fine EXCEPT !.mismatch = TRUE],
     breaks    |-> [Fine EXCEPT !.batches = <<2>>, !.failure = <<"Execution">>],
     binary    |-> [Fine EXCEPT !.json = FALSE]]
    @@ ("" :> [Fine EXCEPT !.planning = <<"NotImplemented">>])

\* What a model says.
Call(id, name, arguments) == [id |-> id, name |-> name, arguments |-> arguments]
Says(content) == [content |-> content, tool_calls |-> <<>>]
Uses(calls) == [content |-> None, tool_calls |-> calls]
Gives(choices, usage) == [choices |-> choices, usage |-> usage]

Offered(asked) == ToSet(OrElse(asked.tools, <<>>))
IsNsql(asked) == \E i \in DOMAIN asked.messages : asked.messages[i].content = <<"Return JSON">>

ToolCalls ==
    {<<Call("1", "sql", <<"insert">>), Call("2", "mine", <<>>), Call("3", "sql", <<>>)>>,
     <<Call("1", "list_datasets", <<>>), Call("2", "table_schema", <<"t", "u">>)>>,
     <<Call("1", "search", <<"where_keyword">>), Call("2", "search", <<"unknown">>)>>}

RepliesOf(asked) ==
    IF IsNsql(asked)
    THEN {Gives(<<>>, 1), Gives(<<Says(None), Says(<<"prose">>)>>, 1), Gives(<<Says(<<"json">>)>>, None),
          Gives(<<Says(<<"json", "--", "select", ";", "insert">>)>>, 1),
          Gives(<<Says(<<"json", ";">>)>>, 1), Gives(<<Says(<<"json", "insert">>)>>, 1)}
    ELSE {Gives(<<Says(<<"hello">>)>>, 1)}
         \cup {Gives(<<Uses(calls), Says(<<"or">>)>>, u) :
                 calls \in {s \in ToolCalls : \E i \in DOMAIN s : s[i].name \in Offered(asked)},
                 u \in {None, 2}}

\* Chunks of a stream.
Chunk == [error |-> FALSE, choice |-> 0, content |-> None, call |-> None, finish |-> None]
Word(w) == [Chunk EXCEPT !.content = w]
Stop(w) == [Chunk EXCEPT !.content = w, !.finish = "stop"]
Piece(i, id, name, arguments) ==
    [Chunk EXCEPT !.call = [index |-> i, id |-> id, name |-> name, arguments |-> arguments]]
SaidToolStop(w) == [Chunk EXCEPT !.content = w, !.finish = "tool_calls"]
ToolStop == [Chunk EXCEPT !.finish = "tool_calls"]
Broken == [Chunk EXCEPT !.error = TRUE]

Spoken(level) ==
    {<<Word(<<"well", level>>), Word(<<"then", level>>), Stop(None)>>, <<Stop(<<"no", level>>)>>,
     <<Word(<<"oh", level>>), Broken>>}
Working(asked, level) ==
    (IF "sql" \in Offered(asked)
     THEN {<<Word(<<"look", level>>), Piece(0, "1", "sql", <<>>), Piece(0, None, None, <<"select">>),
             Piece(1, "2", "mine", <<>>), SaidToolStop(<<"wait", level>>), Word(<<"after", level>>)>>} ELSE {})
    \cup (IF "mine" \in Offered(asked) THEN {<<Piece(0, "1", "mine", <<>>), ToolStop>>} ELSE {})
ScriptsOf(asked) ==
    LET level == Quantify(DOMAIN asked.messages, LAMBDA i : asked.messages[i].role = "assistant")
        working == Working(asked, level)
    IN  IF asked.tool_choice = "required" /\ working # {} THEN working
        ELSE Spoken(level) \cup working

\* Spicepod components.
File(extension) == [exists |-> TRUE, extension |-> extension]
Openai ==
    [source |-> "openai", model_id |-> None, model_type |-> None, weights |-> None,
     tokenizer |-> None, tokenizer_config |-> None, spice_tools |-> <<"auto">>,
     system_prompt |-> None, defaults |-> <<>>]
Local == [Openai EXCEPT !.source = "file", !.weights = File("gguf"), !.tokenizer_config = File("json")]
Hf == [Openai EXCEPT !.source = "huggingface", !.model_id = "id", !.model_type = "mistral"]
NoTools == [Openai EXCEPT !.spice_tools = <<"disabled">>, !.system_prompt = <<"be brief">>,
                          !.defaults = [stream |-> TRUE, temperature |-> "0.1"]]
Search == [name |-> "search", source |-> "builtin", id |-> "document_similarity"]
Named == [Openai EXCEPT !.spice_tools = <<"search", "absent">>, !.system_prompt = <<"be brief">>]
Unbuildable ==
    {[Openai EXCEPT !.source = "anthropic"], [Hf EXCEPT !.model_id = None],
     [Hf EXCEPT !.model_type = None], [Local EXCEPT !.weights = None],
     [Local EXCEPT !.weights.extension = "ggml"], [Local EXCEPT !.weights.extension = "onnx"],
     [Local EXCEPT !.tokenizer = [exists |-> FALSE, extension |-> "json"]]}
Ggml == [Local EXCEPT !.weights.extension = "ggml", !.tokenizer = File("json")]

\* Requests.
User == NewRequest(<<Message("user", <<"hi">>)>>)
WithMine(req) == [req EXCEPT !.tools = <<"mine">>]
Streamed(req) == [req EXCEPT !.stream = TRUE]

Ask(kind, sql, from) == [NoAsk EXCEPT !.kind = kind, !.sql = sql, !.from = from]
Http(s) == Ask("sql", s, "start")
Flight(s) == Ask("flight", s, "start")
PreparedSql(s) == Ask("prepared", s, "create")
FlightSql(s) == Ask("statement", s, "info")
FlightInfo(s) == Ask("flight", s, "info")
Schema(s) == Ask("schema", s, "schema")
Nsql(model) == [Ask("nsql", "question", "tables") EXCEPT !.model = model]
Chat(model, req) == [Ask("chat", "", "models") EXCEPT !.model = model, !.req = req]
Stream(model, req) == [Ask("stream", "", "models") EXCEPT !.model = model, !.req = Streamed(req)]

\* Datasets to search and what is asked of them.
Row(id, body, note) == [id |-> id, body |-> body, note |-> note]
Doc ==
    [columns |-> <<"id", "body", "note">>, key |-> <<"id">>, explicit |-> None,
     embeddings |-> "body" :> "e", text |-> {"body", "note"}, accelerated |-> FALSE,
     batches |-> <<<<Row(1, 5, 7), Row(2, 1, 8)>>, <<Row(3, 3, 7)>>>>]
WithNull == [Doc EXCEPT !.batches = Append(@, <<Row(4, None, 7)>>)]
SearchDocuments ==
    [docs |-> Doc, keyless |-> [Doc EXCEPT !.key = <<>>, !.explicit = <<"id">>],
     stored |-> [Doc EXCEPT !.accelerated = TRUE], nulls |-> WithNull,
     unloaded |-> [WithNull EXCEPT !.accelerated = TRUE],
     gap |-> [Doc EXCEPT !.batches = <<<<>>>> \o @],
     unnoted |-> [Doc EXCEPT !.batches = <<<<Row(1, 2, None)>>>>],
     two |-> [Doc EXCEPT !.embeddings = [body |-> "e", note |-> "e"]],
     number |-> [Doc EXCEPT !.embeddings = "id" :> "e"],
     counted |-> [Doc EXCEPT !.embeddings = "id" :> "e", !.accelerated = TRUE],
     nowhere |-> [Doc EXCEPT !.embeddings = "absent" :> "e"],
     unmodelled |-> [Doc EXCEPT !.embeddings = "body" :> "absent"],
     plain |-> [Doc EXCEPT !.embeddings = <<>>]]
OneEmbedder == [e |-> [size |-> 2]]
ColumnOrder == <<"absent", "body", "id", "note">>

Ref(name) == [name |-> name, full |-> FALSE]
Near == [text |-> 2, datasets |-> <<Ref("docs")>>, limit |-> 2, where |-> None,
         additional_columns |-> <<"note">>]
Cond == [column |-> "note", value |-> 7, keyword |-> FALSE]
SomeSearches ==
    [name \in DOMAIN SearchDocuments |-> [Near EXCEPT !.datasets = <<Ref(name)>>]]
    @@ [unknown |-> [Near EXCEPT !.datasets = <<Ref("docs"), Ref("else")>>],
        nothing |-> [Near EXCEPT !.datasets = <<>>],
        full |-> [Near EXCEPT !.datasets = <<[name |-> "keyless", full |-> TRUE], Ref("stored")>>,
                              !.limit = 5],
        where |-> [Near EXCEPT !.where = Cond],
        where_keyword |-> [Near EXCEPT !.where = [Cond EXCEPT !.keyword = TRUE]],
        twice |-> [Near EXCEPT !.additional_columns = <<"body">>],
        missing |-> [Near EXCEPT !.additional_columns = <<"absent">>]]
SearchFor(s) == Ask("search", s, "start")

Case(asks, components, reload) ==
    [asks |-> asks, models |-> components, tools |-> {Search}, reload |-> reload]

Both(s, t) == (c1 :> s) @@ (c2 :> t)
Only(s) == c1 :> s
NoModels == <<>>
M(component) == "m" :> component

SqlCases ==
    {Case(Both(Http(s), Flight(s)), NoModels, FALSE) : s \in {"select", "breaks", "binary"}}
    \cup {Case(Both(FlightSql(s), Ask("unknown", "", "start")), NoModels, FALSE) :
            s \in DOMAIN Statements}
    \cup {Case(Both(PreparedSql(s), Ask("invalid", "", "start")), NoModels, FALSE) :
            s \in {"select", "context", "history"}}
    \cup {Case(Both(FlightInfo(s), Schema(s)), NoModels, FALSE) : s \in {"select", "syntax"}}
ChatCases ==
    {Case(Only(Chat("m", WithMine(User))), M(Openai), TRUE),
     Case(Both(Chat("m", User), Http("insert")), M(Openai), FALSE),
     Case(Both(Chat("m", User), Chat("m", User)), M(Named), FALSE),
     Case(Both(Chat("m", User), Stream("m", User)), M(NoTools), TRUE),
     Case(Only(Chat("m", [User EXCEPT !.tool_choice = "none"])), M(Local), TRUE),
     Case(Only(Chat("m", [User EXCEPT !.tool_choice = "required"])), M(Hf), FALSE),
     Case(Only(Stream("m", User)), M(Ggml), FALSE),
     Case(Both(Nsql("m"), Nsql("absent")), M(NoTools), TRUE),
     Case(Only(Nsql("m")), M(Openai), TRUE)}
    \cup {Case(Only(Chat("m", User)), M(m), FALSE) : m \in Unbuildable}
StreamCases ==
    {Case(Only(Stream("m", WithMine(User))), M(Openai), TRUE),
     Case(Only(Stream("m", [WithMine(User) EXCEPT !.tool_choice = "required"])), M(Openai), FALSE)}

SearchCases == {Case(Only(SearchFor(s)), NoModels, FALSE) : s \in DOMAIN SomeSearches}

AllCases == SqlCases \cup ChatCases \cup StreamCases \cup SearchCases
=============================================================================
