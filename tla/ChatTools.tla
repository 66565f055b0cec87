----------------------------- MODULE ChatTools -----------------------------
(***************************************************************************)
(* Language models as the runtime builds and calls them: the model made of *)
(* a spicepod component, the wrapper that fills in its defaults, the tools *)
(* the runtime offers to it, and the messages made of the tools it used.   *)
(*                                                                         *)
(* The content of a message is a sequence of words. A tool call is         *)
(* [id, name, arguments].                                                  *)
(*                                                                         *)
(* Source: crates/runtime/src/model/chat.rs and tool_use.rs, tools/,       *)
(* crates/llms/src/chat and openai.                                        *)
(***************************************************************************)
EXTENDS Naturals, SequencesExt

CONSTANTS None

OrElse(value, default) == IF value = None THEN default ELSE value

(***************************************************************************)
(* Tools                                                                   *)
(***************************************************************************)

Builtins == <<"document_similarity", "table_schema", "sql", "list_datasets">>

\* A tool is [name, id]: a builtin under its own name, or under the name a component
\* gives it.
get_builtin_tools == [i \in DOMAIN Builtins |-> [name |-> Builtins[i], id |-> Builtins[i]]]

\* factory::forge: a component [name, source, id] becomes a tool or None.
forge(component) ==
    IF component.source = "builtin" /\ component.id \in ToSet(Builtins)
    THEN [name |-> component.name, id |-> component.id] ELSE None

\* SpiceToolsOptions: the parameter `spice_tools`, a sequence of words.
can_use_tools(words) == words # <<"disabled">> /\ words # <<>>

get_tools(words, registry) ==
    IF words = <<"auto">> THEN get_builtin_tools
    ELSE IF words = <<"disabled">> THEN <<>>
    ELSE LET known == SelectSeq(words, LAMBDA w : \E t \in registry : t.name = w)
         IN  [i \in DOMAIN known |-> CHOOSE t \in registry : t.name = known[i]]

ToolNames(tools) == [i \in DOMAIN tools |-> tools[i].name]

(***************************************************************************)
(* Building a model                                                        *)
(***************************************************************************)

Architectures == {"mistral", "llama"}   \* the names mistral.rs knows, among others

create_hf_model(model_type) ==
    IF OrElse(model_type, "") \in Architectures THEN "mistral" ELSE None

\* The files named by the component must exist; GGML weights need a tokenizer.
create_local_model(c, weights) ==
    LET named == {weights, c.tokenizer_config} \cup ({c.tokenizer} \ {None})
    IN  IF \E f \in named : ~f.exists THEN None
        ELSE CASE weights.extension = "ggml" -> IF c.tokenizer = None THEN None ELSE "mistral"
               [] weights.extension = "gguf" -> "mistral"
               [] OTHER -> None

\* construct_model: the engine of a component, or None when it cannot be built.
Engine(c) ==
    CASE c.source = "huggingface" -> IF c.model_id = None THEN None ELSE create_hf_model(c.model_type)
      [] c.source = "file" ->
            LET weights == OrElse(c.model_id, c.weights)
            IN  IF weights = None \/ c.tokenizer_config = None THEN None
                ELSE create_local_model(c, weights)
      [] c.source = "openai" -> "openai"
      [] OTHER -> None

\* A model: its engine, the wrapper around it and the tools around that, if any.
try_to_chat_model(c, registry) ==
    LET uses == c.spice_tools # None /\ can_use_tools(c.spice_tools)
    IN  IF Engine(c) = None THEN None
        ELSE [engine |-> Engine(c), system_prompt |-> c.system_prompt, defaults |-> c.defaults,
              uses_tools |-> uses,
              tools |-> IF uses THEN get_tools(c.spice_tools, registry) ELSE <<>>]

(***************************************************************************)
(* Requests                                                                *)
(***************************************************************************)

Message(role, content) ==
    [role |-> role, content |-> content, tool_calls |-> <<>>, tool_call_id |-> None]

Options == {"temperature", "n", "seed"}     \* three of the options of a request

\* CreateChatCompletionRequestArgs with a model and messages only.
NewRequest(messages) ==
    [messages |-> messages, tools |-> None, tool_choice |-> None, stream |-> None,
     include_usage |-> None, options |-> [o \in Options |-> None]]

\* The prompt that tells the model which datasets and which tools there are.
RuntimePrompt(datasets, tools) ==
    Message("system", <<"runtime">> \o datasets
                      \o IF tools = <<>> THEN <<>> ELSE <<"tools">> \o ToolNames(tools))

\* ToolUsingChat::prepare_req
prepare_req(req, datasets, tools) ==
    [req EXCEPT !.messages = <<RuntimePrompt(datasets, tools)>> \o @]

\* The runtime's tools come before the ones the user offers, unless the user wants
\* none used.
WithRuntimeTools(req, tools) ==
    IF req.tool_choice = "none" \/ tools = <<>> THEN req
    ELSE [req EXCEPT !.tools = ToolNames(tools) \o OrElse(@, <<>>)]

with_system_prompt(model, req) ==
    IF model.system_prompt = None THEN req
    ELSE [req EXCEPT !.messages = <<Message("system", model.system_prompt)>> \o @]

\* Defaults fill in what the request leaves open; unknown keys are ignored.
with_model_defaults(model, req) ==
    LET Default(key) == IF key \in DOMAIN model.defaults THEN model.defaults[key] ELSE None
    IN  [req EXCEPT !.tools = OrElse(@, Default("tools")),
                    !.tool_choice = OrElse(@, Default("tool_choice")),
                    !.stream = OrElse(@, Default("stream")),
                    !.options = [o \in Options |-> OrElse(@[o], Default(o))]]

with_stream_usage(req) ==
    IF req.stream = TRUE THEN [req EXCEPT !.include_usage = TRUE] ELSE req

\* ChatWrapper::prepare_req
Wrapped(model, req) ==
    with_stream_usage(with_model_defaults(model, with_system_prompt(model, req)))

(***************************************************************************)
(* The engines                                                             *)
(***************************************************************************)

message_to_content(message) == message.content

\* The roles stay; of an assistant's message the calls become text.
message_to_mistral(message) ==
    [role |-> message.role, content |-> message.content,
     tool_call_id |-> IF message.role = "tool" THEN message.tool_call_id ELSE None,
     tool_calls |-> message.tool_calls]

\* mistral.rs has no choice `required`: unimplemented!().
convert_tool_choice(choice) == IF choice = "required" THEN "panic" ELSE choice

SamplingParams(options) ==
    [options EXCEPT !["n"] = OrElse(@, 1), !["seed"] = None]

\* The trait's own stream: one prompt of the contents of all messages, no tools.
StreamPrompt(req) ==
    [NewRequest(<<Message("prompt", FlattenSeq([i \in DOMAIN req.messages |->
        message_to_content(req.messages[i])]))>>) EXCEPT !.stream = TRUE]

\* What the engine is asked: the messages, the tools and the choice among them.
Asked(model, req, streaming) ==
    IF model.engine = "openai" THEN req
    ELSE IF streaming THEN StreamPrompt(req)
    ELSE [req EXCEPT !.messages = [i \in DOMAIN @ |-> message_to_mistral(@[i])],
                     !.tool_choice = convert_tool_choice(@),
                     !.options = SamplingParams(@)]

UpTo(seq, Test(_)) ==
    LET ends == {i \in DOMAIN seq : Test(seq[i])}
    IN  IF ends = {} THEN seq ELSE SubSeq(seq, 1, CHOOSE i \in ends : \A j \in ends : i <= j)

\* MistralLlama::stream ends after the text with a reason to finish, not at an error.
MistralStream(responses) ==
    UpTo(responses, LAMBDA r : ~r.error /\ (r.finish # None \/ r.content = None))

\* The trait's own stream: each text is a choice of its own that never finishes, the
\* first error is the last item.
DefaultStream(texts) ==
    LET items == UpTo(texts, LAMBDA t : t.error)
    IN  [i \in DOMAIN items |-> [items[i] EXCEPT !.choice = i - 1, !.content = OrElse(@, <<>>),
                                                  !.call = None, !.finish = None]]

\* The chunks that come out of the engine.
ChunksOf(model, script) ==
    IF model.engine = "openai" THEN script ELSE DefaultStream(MistralStream(script))

(***************************************************************************)
(* The tools a model used                                                  *)
(***************************************************************************)

is_spiced_tool(tools, call) == \E t \in ToSet(tools) : t.name = call.name

SpicedTools(tools, calls) == SelectSeq(calls, LAMBDA c : is_spiced_tool(tools, c))

ToolOf(tools, call) == tools[CHOOSE i \in DOMAIN tools : tools[i].name = call.name]

\* The conversation after the tools ran: what the assistant asked for, then the
\* answer to each call.
WithToolMessages(messages, calls, contents) ==
    messages
    \o <<[Message("assistant", <<>>) EXCEPT !.tool_calls = calls]>>
    \o [i \in DOMAIN calls |-> [Message("tool", contents[i]) EXCEPT !.tool_call_id = calls[i].id]]

combine_usage(u1, u2) ==
    CASE u1 # None /\ u2 # None -> u1 + u2
      [] u1 # None /\ u2 = None -> u1
      [] OTHER -> u2

\* The state of the calls of a streamed answer, by choice and position: the first
\* chunk gives the id and the name, every chunk a piece of the arguments.
AddToolCallChunk(states, choice, chunk) ==
    LET key == <<choice, chunk.index>>
        old == IF key \in DOMAIN states THEN states[key]
               ELSE [id |-> OrElse(chunk.id, ""), name |-> OrElse(chunk.name, ""), arguments |-> <<>>]
    IN  [k \in DOMAIN states \cup {key} |->
            IF k = key THEN [old EXCEPT !.arguments = @ \o chunk.arguments] ELSE states[k]]

(***************************************************************************)
(* SQL from a model                                                        *)
(***************************************************************************)

\* The request of /v1/nsql: an answer in JSON is asked for.
create_chat_request(prompt) ==
    NewRequest(<<Message("system", <<"Return JSON">>), Message("system", prompt)>>)

\* clean_model_based_sql: without leading dashes, and the first statement only.
clean_model_based_sql(words) ==
    LET bare == IF words # <<>> /\ Head(words) = "--" THEN Tail(words) ELSE words
    IN  IF bare = <<>> \/ Head(bare) = ";" THEN "" ELSE Head(bare)

\* process_response: the SQL in the first content there is, None, or "error".
process_response(choices) ==
    LET said == SelectSeq(choices, LAMBDA c : c.content # None)
    IN  IF said = <<>> THEN None
        ELSE LET content == Head(said).content
             IN  IF content = <<>> \/ Head(content) # "json" THEN "error"
                 ELSE IF Tail(content) = <<>> THEN None
                 ELSE clean_model_based_sql(Tail(content))
=============================================================================
