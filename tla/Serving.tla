------------------------------ MODULE Serving ------------------------------
(***************************************************************************)
(* The requests the runtime serves over its queries and its models: SQL    *)
(* over HTTP, Flight and Flight SQL, SQL written by a model, chats and     *)
(* streamed chats whose model uses the runtime's tools, next to the pods   *)
(* watcher, which takes the locks of the app and of the models to load a   *)
(* model. Datasets are searched by the meaning of a text, by clients and   *)
(* by models.                                                              *)
(*                                                                         *)
(* Source: crates/runtime/src/flight.rs and flight/, http/v1/{query,nsql,  *)
(* chat,search}.rs, model/tool_use.rs, tools/builtin and lib.rs.           *)
(***************************************************************************)
EXTENDS Queries

CONSTANTS
    Cases,          \* who asks what: [asks, models, reload]
    Datasets,       \* the names of the datasets of the app
    Replies(_),     \* Replies(asked): what the engine may answer to a chat
    Scripts(_),     \* Scripts(asked): the chunks of a streamed answer
    MaxLevels,      \* how often a model may use tools before it answers
    Channel,        \* the room in the channel of a stream (100 in the code)
    Searches,       \* Searches[name]: what a search request asks for
    Documents, Embedders, Alphabetical

INSTANCE ChatTools
INSTANCE VectorSearch

VARIABLES
    call,       \* call[c]: the request of c
    models,     \* the models that are loaded, by name
    watcher     \* "idle", "waiting" for the models with the app locked, or "done"

vars == <<queryVars, call, models, watcher>>
callVars == <<call, models, watcher>>

ASSUME ServingAssumption ==
    /\ MaxLevels \in Nat /\ Channel \in Nat \ {0} /\ MaxFaults \in Nat /\ Preview \in Nat

\* Where a request of a kind may begin: the client of Flight has a ticket, or asks for one.
Entries ==
    [none |-> {"answered"}, sql |-> {"start"}, search |-> {"start"}, invalid |-> {"start"},
     unknown |-> {"start"}, flight |-> {"start", "info"}, statement |-> {"start", "info"},
     prepared |-> {"start", "info_prepared", "create"}, schema |-> {"schema"},
     nsql |-> {"tables"}, chat |-> {"models"}, stream |-> {"models"}]

ASSUME CasesAssumption ==
    /\ \A case \in Cases : \A c \in DOMAIN case.asks :
          /\ case.asks[c].kind \in DOMAIN Entries
          /\ case.asks[c].from \in Entries[case.asks[c].kind]
          /\ case.asks[c].kind = "search" => case.asks[c].sql \in DOMAIN Searches
    /\ None \notin {"200", "400", "500", "ok", "invalid_argument", "internal"}

\* A text is a number or null, keys are not null, and a search has a text and a limit.
ASSUME DocumentsAssumption ==
    /\ \A name \in DOMAIN Documents :
          LET d == Documents[name]
          IN  /\ IsFiniteSet(DOMAIN d.embeddings) /\ d.columns \in Seq(ToSet(d.columns))
              /\ d.key \in Seq(ToSet(d.key))
              /\ d.explicit # None => d.explicit \in Seq(ToSet(d.explicit))
              /\ d.batches \in Seq(ToSet(d.batches))
              /\ \A batch \in ToSet(d.batches) :
                    /\ batch \in Seq(ToSet(batch))
                    /\ \A row \in ToSet(batch) :
                          /\ \A c \in d.text : row[c] = None \/ row[c] \in Int
                          /\ \A c \in ToSet(d.key) : row[c] # None
    /\ \A s \in DOMAIN Searches :
          /\ Searches[s].text \in Int /\ Searches[s].limit \in Nat
          /\ Searches[s].additional_columns \in Seq(ToSet(Searches[s].additional_columns))

NoAnswer == [status |-> None, rows |-> 0, x_cache |-> None, usage |-> None,
             matches |-> None]

\* An ask is [kind, sql, model, req, from]; a caller without one is done.
NewCall(ask) ==
    [kind |-> ask.kind, sql |-> ask.sql, model |-> ask.model, pc |-> ask.from,
     guard |-> "none", req |-> ask.req, original |-> ask.req.messages, asked |-> None, level |-> 0,
     todo |-> <<>>, ran |-> <<>>, contents |-> <<>>, usages |-> <<>>,
     choices |-> <<>>, answer |-> NoAnswer,
     chunks |-> <<>>, states |-> <<>>, chan |-> <<>>, below |-> <<>>, cut |-> 0,
     here |-> TRUE, delivered |-> <<>>, said |-> <<>>]

NoAsk == [kind |-> "none", sql |-> "", model |-> "", req |-> NewRequest(<<>>), from |-> "answered"]

LoadedModels(components, registry) ==
    [m \in {m \in DOMAIN components : try_to_chat_model(components[m], registry) # None} |->
        try_to_chat_model(components[m], registry)]

\* load_tools: those of the spicepod, then all that are built in, which replace others
\* of their name.
Registry(components) ==
    {t \in {forge(t) : t \in components} \ {None} : t.name \notin ToSet(Builtins)}
        \cup ToSet(get_builtin_tools)

Init ==
    \E case \in Cases :
        /\ QueryInit
        /\ models = LoadedModels(case.models, Registry(case.tools))
        /\ watcher = IF case.reload THEN "idle" ELSE "done"
        /\ call = [c \in Callers |->
                      NewCall(IF c \in DOMAIN case.asks THEN case.asks[c] ELSE NoAsk)]

Over(c) == call[c].pc \in {"answered", "gone", "panicked"}

(***************************************************************************)
(* The locks: the app's is free unless the watcher holds it; the models'   *)
(* is read for the time of a chat, and one chat at a time has a model.     *)
(***************************************************************************)

AppIsFree == watcher # "waiting"
HoldsModels(c) == call[c].guard # "none"

\* The watcher has found a change of the models. It holds the app until it is done.
WatcherTakesApp ==
    /\ watcher = "idle"
    /\ watcher' = "waiting"
    /\ UNCHANGED <<queryVars, call, models>>

WatcherLoadsModel ==
    /\ watcher = "waiting" /\ \A c \in Callers : ~HoldsModels(c)
    /\ watcher' = "done"
    /\ UNCHANGED <<queryVars, call, models>>

(***************************************************************************)
(* SQL                                                                     *)
(***************************************************************************)

Protocol(c) ==
    CASE call[c].kind \in {"sql", "nsql"} -> "http"
      [] call[c].kind \in {"flight", "schema"} -> "flight"
      [] OTHER -> "flightsql"

\* Mutant: the guards outlive the answer.
AnswerKeepingGuards(c, answer) == [call EXCEPT ![c].pc = "answered", ![c].answer = answer]

Answer(c, answer) == [call EXCEPT ![c].pc = "answered", ![c].guard = "none", ![c].answer = answer]
Status500(c) == Answer(c, [NoAnswer EXCEPT !.status = "500"])

\* What a handler that needs the schema of the text does; `next` is where the client
\* goes on with a success.
WithSchema(c, next) ==
    /\ get_arrow_schema(c, call[c].sql, Protocol(c))
    /\ call' = IF StatementOf(call[c].sql).planning # None
               THEN Answer(c, [NoAnswer EXCEPT !.status =
                        handle_datafusion_error(StatementOf(call[c].sql).planning)])
               ELSE IF next = "answered" THEN Answer(c, [NoAnswer EXCEPT !.status = "ok"])
               ELSE [call EXCEPT ![c].pc = next]
    /\ UNCHANGED <<cached, closed, task_history, lost, models, watcher>>

\* get_schema of a command.
GetSchema(c) == call[c].pc = "schema" /\ WithSchema(c, "answered")

\* The handle of a prepared statement is its text.
CreatePreparedStatement(c) == call[c].pc = "create" /\ WithSchema(c, "info_prepared")
GetFlightInfoPrepared(c) == call[c].pc = "info_prepared" /\ WithSchema(c, "start")

\* The ticket given to the client is the text, or the command with the text.
GetFlightInfoSimple(c) == call[c].pc = "info" /\ call[c].kind = "flight" /\ WithSchema(c, "start")
GetFlightInfoStatement(c) ==
    call[c].pc = "info" /\ call[c].kind = "statement" /\ WithSchema(c, "start")

\* A command or an action that is not known, a ticket that is no text.
Refuse(c) ==
    /\ call[c].pc = "start" /\ call[c].kind \in {"invalid", "unknown"}
    /\ call' = Answer(c, [NoAnswer EXCEPT !.status =
                  IF call[c].kind = "invalid" THEN "invalid_argument" ELSE "unimplemented"])
    /\ UNCHANGED <<queryVars, models, watcher>>

RunsQuery(c, kind) ==
    /\ call[c].pc = "start" /\ call[c].kind = kind
    /\ StartQuery(c, call[c].sql, None, TRUE, Protocol(c))
    /\ call' = [call EXCEPT ![c].pc = "query"]
    /\ UNCHANGED <<cached, query_history, unrecorded, closed, task_history, lost, faults,
                   models, watcher>>

DoGetSimple(c) == RunsQuery(c, "flight")
DoGetStatement(c) == RunsQuery(c, "statement")
DoGetPrepared(c) == RunsQuery(c, "prepared")
PostSql(c) == RunsQuery(c, "sql")

AnswerQuery(c) ==
    LET answer == IF call[c].kind \in {"sql", "nsql"} THEN sql_to_http_response(query[c])
                  ELSE sql_to_flight_stream(query[c])
    IN  /\ call[c].pc = "query" /\ query[c].pc = "over"
        /\ call' = Answer(c, [NoAnswer EXCEPT !.status = answer.status, !.rows = answer.rows,
                                              !.x_cache = answer.x_cache])
        /\ UNCHANGED <<queryVars, models, watcher>>

\* A model may say WHERE itself.
Stripped(req) == IF req.where = None THEN req ELSE [req EXCEPT !.where.keyword = FALSE]

\* What may come of each search, asked by a client or by a model.
ClientSearch == [s \in DOMAIN Searches |-> search(Searches[s])]
ModelSearch == [s \in DOMAIN Searches |-> search(Stripped(Searches[s]))]

\* /v1/search: the datasets must be named.
PostSearch(c) ==
    /\ call[c].pc = "start" /\ call[c].kind = "search"
    /\ IF Searches[call[c].sql].datasets = <<>>
       THEN call' = Answer(c, [NoAnswer EXCEPT !.status = "400"]) /\ UNCHANGED faults
       ELSE \/ /\ faults < MaxFaults /\ faults' = faults + 1
               /\ call' = Status500(c)
            \/ /\ \E found \in ClientSearch[call[c].sql] :
                     call' = IF found = None THEN Status500(c)
                             ELSE Answer(c, [NoAnswer EXCEPT !.status = "200", !.matches = found])
               /\ UNCHANGED faults
    /\ UNCHANGED <<query, cached, query_history, unrecorded, closed, task_history, lost,
                   models, watcher>>

(***************************************************************************)
(* Chats                                                                   *)
(***************************************************************************)

Model(c) == models[call[c].model]
Streams(c) == call[c].kind = "stream"
UsesTools(c) == Model(c).uses_tools

\* Inside the runtime's tools: the request of the user and what the model may use.
MayUseTools(c) == UsesTools(c) /\ call[c].req.tool_choice # "none"

\* The client goes away: its handler is dropped, with the query and the guards it
\* has. The task that runs the tools of a stream lives on.
Leave(c) ==
    /\ ~Over(c) /\ call[c].here /\ faults < MaxFaults
    /\ faults' = faults + 1
    /\ IF call[c].answer.status = "200" /\ MayUseTools(c)
       THEN /\ call' = [call EXCEPT ![c].here = FALSE]
            /\ UNCHANGED <<query, closed>>
       ELSE /\ DropQuery(c)
            /\ call' = [call EXCEPT ![c].pc = "gone", ![c].guard = "none"]
    /\ UNCHANGED <<cached, query_history, unrecorded, task_history, lost, models, watcher>>

\* /v1/nsql: the prompt has the tables, then the question.
PromptTables(c) ==
    /\ call[c].pc = "tables"
    /\ \E req \in {create_chat_request(Datasets \o <<call[c].sql>>)} :
          call' = [call EXCEPT ![c].pc = "models", ![c].req = req, ![c].original = req.messages]
    /\ UNCHANGED <<queryVars, models, watcher>>

ReadModels(c) ==
    /\ call[c].pc = "models" /\ watcher # "waiting"
    /\ call' = IF call[c].model \in DOMAIN models
               THEN [call EXCEPT ![c].pc = "model", ![c].guard = "models"]
               ELSE Answer(c, [NoAnswer EXCEPT !.status = IF call[c].kind = "nsql" THEN "500" ELSE "404"])
    /\ UNCHANGED <<queryVars, models, watcher>>

LockModel(c) ==
    /\ call[c].pc = "model"
    /\ \A d \in Callers : call[d].guard = "model" => call[d].model # call[c].model
    /\ call' = [call EXCEPT ![c].pc = "prepare", ![c].guard = "model"]
    /\ UNCHANGED <<queryVars, models, watcher>>

\* The request as the engine gets it.
Prepared(c) ==
    LET req == call[c].req
        tooled == IF UsesTools(c)
                  THEN WithRuntimeTools(prepare_req(req, Datasets, Model(c).tools), Model(c).tools)
                  ELSE req
    IN  Asked(Model(c), Wrapped(Model(c), tooled), Streams(c))

\* prepare_req lists the datasets of the app.
Prepare(c) ==
    /\ call[c].pc = "prepare" /\ (UsesTools(c) => AppIsFree)
    /\ \E asked \in {Prepared(c)} :
          call' = IF asked.tool_choice = "panic"
                  THEN [call EXCEPT ![c].pc = "panicked", ![c].guard = "none"]
                  ELSE [call EXCEPT ![c].pc = "infer", ![c].asked = asked]
    /\ UNCHANGED <<queryVars, models, watcher>>

\* The engine may ask for tools it was offered, until it has done so MaxLevels times.
Allowed(c, calls) == calls # <<>> => call[c].level < MaxLevels

\* chat_request of the engine. Only the tools of the first choice are looked at.
ChatRequest(c) ==
    /\ call[c].pc = "infer" /\ ~Streams(c)
    /\ \/ /\ faults < MaxFaults /\ faults' = faults + 1
          /\ call' = Status500(c)
       \/ \E reply \in Replies(call[c].asked) :
             LET used == IF reply.choices = <<>> THEN <<>> ELSE reply.choices[1].tool_calls
                 run == IF MayUseTools(c) THEN SpicedTools(Model(c).tools, used) ELSE <<>>
             IN  /\ Allowed(c, used)
                 /\ call' = [call EXCEPT ![c] =
                        [@ EXCEPT !.pc = IF run = <<>> THEN "reply" ELSE "tools",
                                  !.todo = run, !.ran = run, !.contents = <<>>,
                                  !.choices = reply.choices, !.usages = Append(@, reply.usage)]]
                 /\ UNCHANGED faults
    /\ UNCHANGED <<query, cached, query_history, unrecorded, closed, task_history, lost,
                   models, watcher>>

ToolAnswers(c, content) ==
    call' = [call EXCEPT ![c].pc = "tools", ![c].todo = Tail(@), ![c].contents = Append(@, content)]

\* The SQL tool runs its query without restrictions.
SqlTool(c, arguments) ==
    /\ StartQuery(c, arguments[1], None, FALSE, "flight")
    /\ call' = [call EXCEPT ![c].pc = "tool_query"]

TableSchemaTool(c, arguments) ==
    /\ ToolAnswers(c, IF ToSet(arguments) \subseteq ToSet(Datasets) THEN <<"schema">> ELSE <<"error">>)
    /\ UNCHANGED query

\* get_dataset_elements reads the app.
ListDatasetsTool(c) == AppIsFree /\ ToolAnswers(c, Datasets) /\ UNCHANGED query

\* The primary keys the search uses are read from the app.
DocumentSimilarityTool(c, arguments) ==
    /\ AppIsFree
    /\ \E found \in ModelSearch[arguments[1]] :
          ToolAnswers(c, IF found = None THEN <<"error">> ELSE <<"matches">>)
    /\ UNCHANGED query

\* call_tool: one tool after the other, an error becomes the answer of the tool.
RunTool(c) ==
    LET tool == ToolOf(Model(c).tools, Head(call[c].todo)).id
        arguments == Head(call[c].todo).arguments
    IN  /\ call[c].pc = "tools" /\ call[c].todo # <<>>
        /\ IF tool # "list_datasets" /\ arguments = <<>>
           THEN ToolAnswers(c, <<"error">>) /\ UNCHANGED query
           ELSE \/ tool = "sql" /\ SqlTool(c, arguments)
                \/ tool = "table_schema" /\ TableSchemaTool(c, arguments)
                \/ tool = "list_datasets" /\ ListDatasetsTool(c)
                \/ tool = "document_similarity" /\ DocumentSimilarityTool(c, arguments)
        /\ UNCHANGED <<cached, query_history, unrecorded, closed, task_history, lost, faults,
                       models, watcher>>

\* The rows of the query as text.
ToolQueryEnds(c) ==
    /\ call[c].pc = "tool_query" /\ query[c].pc = "over"
    /\ ToolAnswers(c, IF query[c].error # None \/ ~Plan(c).json THEN <<"error">> ELSE <<"rows">>)
    /\ UNCHANGED <<queryVars, models, watcher>>

\* Mutant: the model is asked again with the messages it was sent, which
\* have the runtime's prompt already.
AskAgainWithPrompt(c) ==
    /\ call[c].pc = "tools" /\ call[c].todo = <<>>
    /\ \E messages \in {WithToolMessages(call[c].asked.messages, call[c].ran, call[c].contents)} :
          call' = [call EXCEPT ![c] =
                     [@ EXCEPT !.pc = "prepare", !.level = call[c].level + 1,
                               !.req = IF Streams(c) THEN [call[c].req EXCEPT !.messages = messages]
                                       ELSE NewRequest(messages)]]
    /\ UNCHANGED <<queryVars, models, watcher>>

\* The model is asked again: a chat with a new request that has the conversation and
\* nothing else of the user's, a stream with all of it.
AskAgain(c) ==
    /\ call[c].pc = "tools" /\ call[c].todo = <<>>
    /\ \E messages \in {WithToolMessages(call[c].req.messages, call[c].ran, call[c].contents)} :
          call' = [call EXCEPT ![c] =
                     [@ EXCEPT !.pc = "prepare", !.level = call[c].level + 1,
                               !.req = IF Streams(c) THEN [call[c].req EXCEPT !.messages = messages]
                                       ELSE NewRequest(messages)]]
    /\ UNCHANGED <<queryVars, models, watcher>>

\* The usage of the levels, combined on the way back.
Usage(usages) == FoldRight(combine_usage, usages, None)

\* The answer to a chat, or the query of a model that writes SQL.
Reply(c) ==
    /\ call[c].pc = "reply"
    /\ IF call[c].kind = "chat"
       THEN /\ call' = Answer(c, [NoAnswer EXCEPT !.status = "200", !.usage = Usage(call[c].usages)])
            /\ UNCHANGED query
       ELSE LET sql == process_response(call[c].choices)
            IN  IF sql \in {None, "error"} THEN call' = Status500(c) /\ UNCHANGED query
                ELSE /\ StartQuery(c, sql, call[c].sql, TRUE, Protocol(c))
                     /\ call' = [call EXCEPT ![c].pc = "query", ![c].guard = "none"]
    /\ UNCHANGED <<cached, query_history, unrecorded, closed, task_history, lost, faults,
                   models, watcher>>

(***************************************************************************)
(* Streamed chats: one task for each level reads the chunks of its answer  *)
(* and sends what it passes on over a channel to the level above, which    *)
(* forwards it; the outermost channel is what the client reads.            *)
(***************************************************************************)

Depth(c) == Len(call[c].below) + 1

\* Level k has nobody to send to: the client left, or the level above returned.
Deaf(c, k) == IF k = 1 THEN ~call[c].here ELSE call[c].cut >= k - 1

HasRoom(c) == Len(call[c].chan) < Channel \/ Deaf(c, Depth(c))

Failure == [error |-> TRUE, content |-> None]

\* chat_stream of the engine returned: the handler answers and lets go of its guards.
OpenStream(c) ==
    /\ call[c].pc = "infer" /\ Streams(c)
    /\ \/ /\ faults < MaxFaults /\ faults' = faults + 1
          /\ HasRoom(c)
          /\ call' = IF call[c].level = 0 THEN Status500(c)
                     ELSE [call EXCEPT ![c].pc = "ended", ![c].said = Append(@, None),
                                       ![c].chan = IF Deaf(c, Depth(c)) THEN @
                                                   ELSE Append(@, Failure)]
       \/ /\ \E script \in Scripts(call[c].asked) :
                /\ \A i \in DOMAIN script : script[i].finish = "tool_calls" => call[c].level < MaxLevels
                /\ call' = [call EXCEPT ![c] =
                     [@ EXCEPT !.pc = "read", !.guard = "none", !.answer.status = "200",
                               !.chunks = ChunksOf(Model(c), script), !.states = <<>>, !.chan = <<>>,
                               !.below = IF call[c].level = 0 THEN <<>>
                                         ELSE Append(call[c].below, [chunks |-> call[c].chunks,
                                                                     states |-> call[c].states,
                                                                     chan |-> call[c].chan])]]
          /\ UNCHANGED faults
    /\ UNCHANGED <<query, cached, query_history, unrecorded, closed, task_history, lost,
                   models, watcher>>

\* What a chunk adds to the channel: its content, and the choice once more when it
\* ends the answer; an error as it is. Pieces of tool calls stay here. Without the
\* runtime's tools nothing comes between the engine and the client.
Passed(c, chunk, run) ==
    IF chunk.error THEN <<Failure>>
    ELSE IF ~MayUseTools(c)
            \/ (run = <<>> /\ \/ chunk.call = None /\ chunk.content # None
                              \/ chunk.finish # None)
    THEN <<[error |-> FALSE, content |-> chunk.content]>>
    ELSE <<>>

\* The chunks left after one: what was said with the calls comes after their tools.
Unread(chunks, run) ==
    IF run # <<>> /\ Head(chunks).call = None /\ Head(chunks).content # None
    THEN <<[Head(chunks) EXCEPT !.finish = None]>> \o Tail(chunks)
    ELSE Tail(chunks)

\* The states of a HashMap come in any order.
InAnyOrder(states) ==
    {[i \in DOMAIN keys |-> states[keys[i]]] : keys \in SetToSeqs(DOMAIN states)}

ReadChunk(c) ==
    LET chunk == Head(call[c].chunks)
        states == IF chunk.call = None THEN call[c].states
                  ELSE AddToolCallChunk(call[c].states, chunk.choice, chunk.call)
    IN  /\ call[c].pc = "read" /\ call[c].chunks # <<>>
        /\ HasRoom(c)
        /\ \E calls \in InAnyOrder(states) :
              LET run == IF chunk.finish = "tool_calls" /\ MayUseTools(c)
                         THEN SpicedTools(Model(c).tools, calls) ELSE <<>>
                  passed == Passed(c, chunk, run)
              IN  call' = [call EXCEPT ![c] =
                     [@ EXCEPT !.pc = IF chunk.error THEN "ended"
                                      ELSE IF run # <<>> THEN "tools" ELSE "read",
                               !.chunks = Unread(call[c].chunks, run), !.states = states,
                               !.todo = run, !.ran = run, !.contents = <<>>,
                               !.chan = IF Deaf(c, Depth(c)) THEN call[c].chan
                                        ELSE call[c].chan \o passed,
                               !.said = call[c].said \o [i \in DOMAIN passed |-> passed[i].content]]]
        /\ UNCHANGED <<queryVars, models, watcher>>

ReadEnd(c) ==
    /\ call[c].pc = "read" /\ call[c].chunks = <<>>
    /\ call' = [call EXCEPT ![c].pc = "ended"]
    /\ UNCHANGED <<queryVars, models, watcher>>

ChannelInto(c, k) == IF k = Len(call[c].below) THEN call[c].chan ELSE call[c].below[k + 1].chan

\* The k-th level forwards what the next one sent; it returns when nobody listens.
Forward(c, k) ==
    /\ ~Over(c) /\ k > call[c].cut /\ ChannelInto(c, k) # <<>>
    /\ LET taken == IF k = Len(call[c].below) THEN [call[c] EXCEPT !.chan = Tail(ChannelInto(c, k))]
                    ELSE [call[c] EXCEPT !.below[k + 1].chan = Tail(ChannelInto(c, k))]
       IN  \/ /\ Deaf(c, k)
              /\ call' = [call EXCEPT ![c] = [taken EXCEPT !.cut = k]]
           \/ /\ ~Deaf(c, k) /\ Len(call[c].below[k].chan) < Channel
              /\ call' = [call EXCEPT ![c] =
                    [taken EXCEPT !.below[k].chan =
                                       Append(call[c].below[k].chan, Head(ChannelInto(c, k)))]]
    /\ UNCHANGED <<queryVars, models, watcher>>

\* Mutant: the level above goes on before it has passed on everything.
ResumeEarly(c) ==
    LET last == Len(call[c].below)
    IN  /\ call[c].pc = "ended" /\ last > 0 /\ call[c].cut < last
        /\ call' = [call EXCEPT ![c] =
              [@ EXCEPT !.pc = "read", !.chunks = call[c].below[last].chunks,
                        !.states = call[c].below[last].states,
                        !.chan = call[c].below[last].chan, !.below = Front(call[c].below)]]
        /\ UNCHANGED <<queryVars, models, watcher>>

\* The answer of the innermost level is passed on: the one above reads on.
Resume(c) ==
    LET last == Len(call[c].below)
    IN  /\ call[c].pc = "ended" /\ last > 0 /\ call[c].cut < last /\ call[c].chan = <<>>
        /\ call' = [call EXCEPT ![c] =
              [@ EXCEPT !.pc = "read", !.chunks = call[c].below[last].chunks,
                        !.states = call[c].below[last].states,
                        !.chan = call[c].below[last].chan, !.below = Front(call[c].below)]]
        /\ UNCHANGED <<queryVars, models, watcher>>

Outermost(c) == IF call[c].below = <<>> THEN call[c].chan ELSE call[c].below[1].chan

\* create_sse_response: the client gets an event; after an error the stream is over.
ReadEvent(c) ==
    /\ ~Over(c) /\ call[c].here /\ call[c].answer.status = "200" /\ Outermost(c) # <<>>
    /\ LET event == Head(Outermost(c))
           taken == IF call[c].below = <<>> THEN [call[c] EXCEPT !.chan = Tail(Outermost(c))]
                    ELSE [call[c] EXCEPT !.below[1].chan = Tail(Outermost(c))]
       IN  call' = [call EXCEPT ![c] =
              [taken EXCEPT !.delivered = Append(call[c].delivered, event), !.here = ~event.error]]
    /\ UNCHANGED <<queryVars, models, watcher>>

\* The tasks are done and, if the client is there, it has read everything.
StreamOver(c) ==
    /\ call[c].pc = "ended" /\ Streams(c)
    /\ \/ /\ call[c].below = <<>> /\ call[c].here /\ call[c].chan = <<>>
          /\ call' = [call EXCEPT ![c].pc = "answered"]
       \/ /\ ~call[c].here /\ (call[c].below = <<>> \/ call[c].cut >= Len(call[c].below))
          /\ call' = [call EXCEPT ![c].pc = "gone"]
    /\ UNCHANGED <<queryVars, models, watcher>>

(***************************************************************************)
(* The system                                                              *)
(***************************************************************************)

SqlStep(c) ==
    \/ GetSchema(c) \/ CreatePreparedStatement(c) \/ GetFlightInfoPrepared(c)
    \/ GetFlightInfoSimple(c) \/ GetFlightInfoStatement(c) \/ Refuse(c)
    \/ DoGetSimple(c) \/ DoGetStatement(c) \/ DoGetPrepared(c) \/ PostSql(c)
    \/ AnswerQuery(c) \/ PostSearch(c)
ChatStep(c) ==
    \/ PromptTables(c) \/ ReadModels(c) \/ LockModel(c) \/ Prepare(c) \/ ChatRequest(c) \/ OpenStream(c)
    \/ RunTool(c) \/ ToolQueryEnds(c) \/ AskAgain(c) \/ Reply(c)
StreamStep(c) ==
    \/ ReadChunk(c) \/ ReadEnd(c) \/ Resume(c) \/ StreamOver(c)
    \/ \E k \in 1..Len(call[c].below) : Forward(c, k)

Next ==
    \/ \E c \in Callers :
          \/ QueryStep(c) /\ UNCHANGED callVars
          \/ SqlStep(c) \/ ChatStep(c) \/ StreamStep(c) \/ ReadEvent(c) \/ Leave(c)
    \/ \E sql \in cached : Invalidate(sql) /\ UNCHANGED callVars
    \/ ExportSpans /\ UNCHANGED callVars
    \/ WatcherTakesApp \/ WatcherLoadsModel

\* Handlers, spawned tasks, engines and the watcher go on when they can, and a client
\* reads its stream or leaves.
Fairness ==
    /\ \A c \in Callers :
          WF_vars((QueryStep(c) /\ UNCHANGED callVars) \/ SqlStep(c) \/ ChatStep(c)
                    \/ StreamStep(c) \/ ReadEvent(c))
    /\ WF_vars(ExportSpans /\ UNCHANGED callVars)
    /\ WF_vars(WatcherTakesApp \/ WatcherLoadsModel)

Spec == Init /\ [][Next]_vars /\ Fairness
(***************************************************************************)
(* Properties                                                              *)
(***************************************************************************)

RowsOf(id) == {r \in query_history : r.query_id = id}
QueryId(c) == query[c].tracker.query_id
Asks == {"sql", "nsql", "flight", "schema", "statement", "prepared"}

\* Whoever got an answer to a SQL query finds it in query_history as it was given,
\* already when the answer ends, unless the row could not be written: one row, with a
\* status of 0 exactly for the answers that are whole, the rows that were sent (over
\* Flight also those before an error) and a hit of the cache where the header says so.
AnswersAreRecorded ==
    \A c \in Callers :
        LET answer == call[c].answer
            Agrees(r) ==
                /\ r.execution_status = 0 <=> answer.status \in {"200", "ok", "500"}
                /\ answer.status \in {"200", "ok"} =>
                      /\ r.rows_produced = answer.rows
                      /\ r.results_cache_hit <=> answer.x_cache = "Hit from spiceai"
                /\ Protocol(c) # "http" => r.rows_produced = answer.rows
        IN  /\ call[c].kind \in Asks /\ call[c].pc = "answered" /\ QueryId(c)[2] > 0
            /\ call[c].kind = "nsql" => query[c].tracker.nsql # None
            =>
                QueryId(c) \in unrecorded \/ \E r \in query_history : RowsOf(QueryId(c)) = {r} /\ Agrees(r)

SpanIds == {s.id : s \in closed} \cup {t.span_id : t \in task_history} \cup lost

\* The two histories tell the same story: a query of query_history that is a task as
\* well failed in both or in neither and has its labels; every query that was run is
\* exported, or lost with its batch, or hidden because it read tables of the runtime;
\* a query of those tables that succeeded shows up in query_history only.
TasksAgree ==
    /\ \A t \in task_history : \A r \in RowsOf(t.span_id) :
          /\ t.error_message # None <=> r.execution_status # 0
          /\ \E e \in t.labels : e.keys = "protocol"
          /\ (\E e \in t.labels : e.keys = "error_code") <=> r.execution_status # 0
          /\ IsRuntime(StatementOf(r.sql)) => r.execution_status # 0
    /\ \A c \in Callers :
          query[c].pc = "over" => QueryId(c) \in SpanIds \/ query[c].runtime_query

IsRuntimePrompt(m) == m.role = "system" /\ m.content # <<>> /\ Head(m.content) = "runtime"

\* Whatever level it is asked at, a model that keeps the roles of messages sees the
\* conversation as its protocol wants it: the prompt of the runtime once, then what
\* the user said, then every call the assistant made followed at once by its answers,
\* one for each call and no call of a tool that is not the runtime's; and it is
\* offered the runtime's tools unless the user wants none.
ModelSeesTheConversation ==
    \A c \in Callers :
        call[c].asked # None /\ UsesTools(c) /\ ~(Streams(c) /\ Model(c).engine = "mistral") =>
            LET ms == call[c].asked.messages
                at == CHOOSE i \in DOMAIN ms : IsRuntimePrompt(ms[i])
            IN  /\ Quantify(DOMAIN ms, LAMBDA i : IsRuntimePrompt(ms[i])) = 1
                /\ at = IF Model(c).system_prompt = None THEN 1 ELSE 2
                /\ IsPrefix([i \in DOMAIN call[c].original |-> call[c].original[i].content],
                            [i \in 1..(Len(ms) - at) |-> ms[at + i].content])
                /\ \A i \in DOMAIN ms : \A k \in DOMAIN ms[i].tool_calls :
                      /\ is_spiced_tool(Model(c).tools, ms[i].tool_calls[k])
                      /\ i + k \in DOMAIN ms /\ ms[i + k].role = "tool"
                      /\ ms[i + k].tool_call_id = ms[i].tool_calls[k].id
                /\ call[c].req.tool_choice # "none" =>
                      ToSet(ToolNames(Model(c).tools)) \subseteq ToSet(OrElse(call[c].asked.tools, <<>>))

Contents(events) == [i \in DOMAIN events |-> events[i].content]

\* A client that reads a streamed chat gets what the model says at all levels, in the
\* order it was said, nothing twice and nothing left out; all of it if the stream ends
\* without an error.
StreamDelivers ==
    \A c \in Callers : Streams(c) =>
        /\ IsPrefix(Contents(call[c].delivered), call[c].said)
        /\ call[c].pc = "answered" /\ call[c].answer.status = "200" =>
              Contents(call[c].delivered) = call[c].said

\* Whether a search of the dataset can be answered at all: what is embedded is text, and
\* each text has a vector.
Embeddable(d) ==
    /\ DOMAIN d.embeddings \subseteq d.text
    /\ \A b \in DOMAIN d.batches : d.batches[b] # <<>> /\ \A i \in DOMAIN d.batches[b] :
        \A col \in DOMAIN d.embeddings : d.batches[b][i][col] # None

\* A row is searched if it meets the condition; how far its text is from the one asked for.
Eligible(req, rows) ==
    {i \in DOMAIN rows : req.where = None \/ rows[i][req.where.column] = req.where.value}
Far(row, column, text) ==
    LET x == row[column] - text IN IF x < 0 THEN -x ELSE x

\* The matches in a dataset that is searched by a column.
AreMatches(req, d, column, found) ==
    LET rows == FlattenSeq(d.batches)
        eligible == Eligible(req, rows)
        far(i) == Far(rows[i], column, req.text)
    IN  \E row \in [DOMAIN found -> eligible] :
            /\ Len(found) = Min({req.limit, Cardinality(eligible)})
            /\ \A i, j \in DOMAIN found : i < j => row[i] # row[j] /\ far(row[i]) <= far(row[j])
            /\ \A i \in DOMAIN found :
                  /\ \A r \in eligible \ Range(row) : far(row[i]) <= far(r)
                  /\ found[i].value = rows[row[i]][column]
                  /\ ToSet(d.key) \subseteq DOMAIN found[i].primary_key
                  /\ \A k \in DOMAIN found[i].primary_key :
                        found[i].primary_key[k] = rows[row[i]][k]
                  /\ \A k \in ToSet(req.additional_columns) :
                        IF k \in DOMAIN found[i].metadata
                        THEN found[i].metadata[k] = rows[row[i]][k]
                        ELSE rows[row[i]][k] = None

IsRight(req, ref, found) ==
    LET d == Documents[ref.name]
    IN  AreMatches(req, d, CHOOSE col \in DOMAIN d.embeddings : TRUE, found)

\* The search of a dataset that is answered is right: each match is a row of its own
\* that meets the condition, with the value, the key and the metadata of that row; the
\* nearest come first and no row that is left out is nearer; there are as many as were
\* asked for and exist. A row is never silently missing, unless the dataset is
\* accelerated and not loaded because something has no vector.
SearchIsRight ==
    \A c \in Callers :
        LET req == Searches[call[c].sql]
            matches == call[c].answer.matches
        IN  call[c].kind = "search" /\ call[c].answer.status = "200" =>
                \A ref \in ToSet(req.datasets) :
                    \/ IsRight(req, ref, matches[ref])
                    \/ /\ Documents[ref.name].accelerated /\ ~Embeddable(Documents[ref.name])
                       /\ matches[ref] = <<>>

\* The watcher holds the app and waits for the models, which a chat holds that waits
\* for the app: neither goes on.
Crossed ==
    \E c \in Callers :
        /\ watcher = "waiting" /\ HoldsModels(c)
        /\ \/ call[c].pc = "prepare" /\ UsesTools(c)
           \/ /\ call[c].pc = "tools" /\ call[c].todo # <<>>
              /\ ToolOf(Model(c).tools, Head(call[c].todo)).id \in {"list_datasets", "document_similarity"}

\* A stream keeps the choice of its user: a model that must use a tool never answers.
Forced(c) == Streams(c) /\ call[c].req.tool_choice = "required" /\ call[c].level = MaxLevels

\* Every request ends and the watcher gets its lock, unless a chat and the watcher
\* each wait for the lock of the other, or a streamed chat demands a tool.
EveryRequestEnds ==
    /\ \A c \in Callers : <>(Over(c) \/ Crossed \/ Forced(c))
    /\ <>(watcher = "done" \/ Crossed)
=============================================================================
