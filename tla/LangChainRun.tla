---------------------------- MODULE LangChainRun ----------------------------
(***************************************************************************)
(* What the tracer for LangChain reads off a run: the pure functions of    *)
(* langchain/utils.ts.  Integrations and versions of LangChain leave the   *)
(* same datum at different places; a run holds, for each datum, a function *)
(* from the places where this run has it to the values there, a value that *)
(* the code would not accept at that place being as absent.                *)
(*                                                                         *)
(*   [type, name, hidden, branch, parent, serialized, metadata, params,    *)
(*    inputs, outputs, error, malformed]                                   *)
(*                                                                         *)
(* `params` (the invocation's parameters) maps names to [kind, value];     *)
(* the kind is "integer", "fraction", "text", "boolean", "list" (of texts  *)
(* only) or "record", whose value is that of its type.                     *)
(***************************************************************************)
EXTENDS Integers, SequencesExt

None == ""

\* The value at the first of the places that has one.
FirstOr(places, values, default) ==
  LET found == SelectSeq(places, LAMBDA p : p \in DOMAIN values)
  IN IF found = <<>> THEN default ELSE values[Head(found)]

FirstOf(places, values) == FirstOr(places, values, None)

\* The attribute, if there is a value for it.
Attribute(name, value) == [a \in IF value = None THEN {} ELSE {name} |-> value]

isLangGraphAgentInvoke(run) ==
  run.type = "chain" /\ {"langgraph", "CompiledStateGraph"} \subseteq run.serialized

getOperationType(run) ==
  CASE isLangGraphAgentInvoke(run) -> "invoke_agent"
    [] run.type = "tool" -> "execute_tool"
    [] run.type = "llm" -> "chat"
    [] OTHER -> "unknown"

setOperationTypeAttribute(run) == Attribute("operation.name", getOperationType(run))

setAgentAttributes(run) ==
  Attribute("agent.name", IF isLangGraphAgentInvoke(run) THEN run.name ELSE None)

setSessionIdAttribute(run) ==
  Attribute("session.id", FirstOf(<<"session_id", "thread_id">>, run.metadata))
    @@ Attribute("conversation.id", FirstOf(<<"conversation_id">>, run.metadata))

setProviderNameAttribute(run) == Attribute("provider.name", FirstOf(<<"ls_provider">>, run.metadata))

-----------------------------------------------------------------------------
(* The request and the response *)

ParamsAsText(params) ==
  [k \in {p \in DOMAIN params : params[p].kind = "text"} |-> params[k].value]

getRequestModel(run) ==
  LET named == FirstOf(<<"ls_model_name">>, run.metadata)
  IN IF named # None THEN named ELSE FirstOf(<<"model", "model_name">>, ParamsAsText(run.params))

getResponseModel(run) ==
  FirstOf(<<"v1.model", "v1.model_name", "v0.model", "v0.model_name",
            "llmOutput.model_name", "llmOutput.model">>, run.outputs.models)

\* LangChain does not say which deployment AzureChatOpenAI was given.
setModelAttribute(run) ==
  LET request == getRequestModel(run)
      response == getResponseModel(run)
      candidates == IF "AzureChatOpenAI" \in run.serialized THEN <<response, request>>
                    ELSE <<request, response>>
  IN Attribute("request.model", IF candidates[1] # None THEN candidates[1] ELSE candidates[2])
       @@ Attribute("response.model", response)

\* A value whose `kind` is not wanted still hides those of the aliases after it.
firstDefined(params, keys) == FirstOr(keys, params, [kind |-> "absent", value |-> None])

\* How many completions were asked for: an integer, or a text that starts with one.
getChoiceCount(run) ==
  LET raw == firstDefined(run.params, <<"n">>)
  IN IF raw.kind \in {"integer", "text"} THEN raw.value ELSE 0

setChoiceCountAttribute(run) ==
  IF getChoiceCount(run) <= 1 THEN << >>
  ELSE [a \in {"request.choice.count"} |-> getChoiceCount(run)]

OutputTypeAliases ==
  [text |-> "text", json |-> "json", image |-> "image",
   json_object |-> "json", json_schema |-> "json", b64_json |-> "image", url |-> "image"]

normalizeOutputType(raw, kind) ==
  IF raw.kind = kind /\ raw.value \in DOMAIN OutputTypeAliases
  THEN OutputTypeAliases[raw.value] ELSE None

getOutputType(params) ==
  LET explicit == firstDefined(params, <<"output_type", "outputType">>)
      format == firstDefined(params, <<"response_format", "responseFormat">>)
      text == firstDefined(params, <<"text">>)
      types == SelectSeq(<<normalizeOutputType(explicit, "text"),
                           normalizeOutputType(format, "record"),
                           normalizeOutputType(format, "text"),
                           normalizeOutputType(text, "record")>>, LAMBDA t : t # None)
  IN IF types = <<>> THEN None ELSE Head(types)

Numeric == {"integer", "fraction"}

\* For each attribute the aliases of its parameter, and the kinds of value it takes.
RequestTable ==
  [frequency_penalty |-> [keys |-> <<"frequency_penalty", "frequencyPenalty">>, kinds |-> Numeric],
   presence_penalty |-> [keys |-> <<"presence_penalty", "presencePenalty">>, kinds |-> Numeric],
   temperature |-> [keys |-> <<"temperature">>, kinds |-> Numeric],
   top_p |-> [keys |-> <<"top_p", "topP">>, kinds |-> Numeric],
   max_tokens |-> [keys |-> <<"max_tokens", "maxTokens", "max_completion_tokens",
                              "maxCompletionTokens", "max_output_tokens", "maxOutputTokens">>,
                   kinds |-> {"integer"}],
   seed |-> [keys |-> <<"seed">>, kinds |-> {"integer"}],
   top_k |-> [keys |-> <<"top_k", "topK">>, kinds |-> {"integer"}],
   stop |-> [keys |-> <<"stop", "stop_sequences", "stopSequences">>, kinds |-> {"text", "list"}],
   stream |-> [keys |-> <<"stream", "streaming">>, kinds |-> {"boolean"}]]

setRequestAttributes(run) ==
  LET given(a) == firstDefined(run.params, RequestTable[a].keys)
  IN [a \in {b \in DOMAIN RequestTable : given(b).kind \in RequestTable[b].kinds} |->
        given(a).value]
     @@ Attribute("output.type", getOutputType(run.params))

setResponseIdAttribute(run) ==
  Attribute("response.id",
            FirstOf(<<"response_metadata", "llmOutput", "message", "kwargs">>, run.outputs.ids))

\* Where a run may report its tokens, as [input, output]; -1 is no number.
setTokenAttributes(run) ==
  LET usage == FirstOr(<<"v1.usage_metadata", "v0.usage_metadata", "v1.tokenUsage",
                         "v0.tokenUsage", "last.usage_metadata", "message.usage",
                         "message.tokenUsage", "messages.tokenUsage">>, run.outputs.usage,
                       [input_tokens |-> -1, output_tokens |-> -1])
  IN [a \in {b \in DOMAIN usage : usage[b] >= 0} |-> usage[a]]

-----------------------------------------------------------------------------
(* Messages: [kinds, contents, calls].  `kinds` says what type it has where (role, lc_type, type,
   id); `contents` and `calls` are, by place, its content, [text, blocks], and its tool calls.  A
   content that is a `text` is one block.  A block, a call and a part are [type, id]. *)

getMessageType(msg) ==
  LET type == FirstOf(<<"role", "lc_type", "type", "id">>, msg.kinds)
  IN IF type = None THEN "unknown" ELSE type

mapLangChainRole(type) ==
  CASE type \in {"user", "human"} -> "user"
    [] type \in {"assistant", "ai"} -> "assistant"
    [] OTHER -> type

Places(direct) == <<direct, "lc_kwargs", "kwargs">>

extractRawContent(msg) == FirstOr(Places("content"), msg.contents, [text |-> FALSE, blocks |-> <<>>])

extractToolCalls(msg) == FirstOr(Places("tool_calls"), msg.calls, <<>>)

\* Blocks without a type are no parts.
ContentParts(msg) == SelectSeq(extractRawContent(msg).blocks, LAMBDA b : b.type # None)

\* The content's blocks, and those calls that neither it nor a call before has.
buildPartsFromMessage(msg) ==
  LET AddCall(parts, call) ==
        IF call.id # None /\ \E i \in DOMAIN parts : parts[i].type = "tool_call" /\ parts[i].id = call.id
        THEN parts ELSE Append(parts, call)
  IN FoldLeft(AddCall, ContentParts(msg), extractToolCalls(msg))

\* Messages without parts are left out.
AsMessages(msgs) ==
  LET built == [i \in DOMAIN msgs |-> [role |-> mapLangChainRole(getMessageType(msgs[i])),
                                       parts |-> buildPartsFromMessage(msgs[i])]]
  IN SelectSeq(built, LAMBDA m : m.parts # <<>>)

MessagesAttribute(name, msgs) ==
  [a \in IF AsMessages(msgs) = <<>> THEN {} ELSE {name} |-> AsMessages(msgs)]

setInputMessagesAttribute(run) == MessagesAttribute("input.messages", run.inputs.messages)

\* Agents and models answer with messages of the assistant, tools with any.
shouldIncludeOutputMessage(run, msg) ==
  getOperationType(run) \in {"invoke_agent", "chat"} => getMessageType(msg) \in {"ai", "assistant"}

\* The messages of the outputs, a model's generations in their order, a single message if any.
setOutputMessagesAttribute(run) ==
  LET said == run.outputs.messages
              \o [i \in DOMAIN run.outputs.generations |-> run.outputs.generations[i].message]
              \o run.outputs.message
  IN MessagesAttribute("output.messages",
                       SelectSeq(said, LAMBDA m : shouldIncludeOutputMessage(run, m)))

\* The prompts or else the texts of the system's messages.
setSystemInstructionsAttribute(run) ==
  LET texts == SelectSeq(run.inputs.messages,
                         LAMBDA m : getMessageType(m) = "system" /\ extractRawContent(m).text)
  IN CASE run.inputs.prompts # <<>> -> [a \in {"system_instructions"} |-> run.inputs.prompts]
       [] texts # <<>> -> [a \in {"system_instructions"} |-> texts]
       [] OTHER -> << >>

setToolAttributes(run, captureContent) ==
  IF run.type # "tool" \/ run.serialized = {} THEN << >>
  ELSE Attribute("tool.name", run.name) @@ Attribute("tool.type", "extension")
       @@ Attribute("tool.call.id", FirstOf(<<"outputs", "inputs">>, run.outputs.calls))
       @@ IF captureContent
          THEN Attribute("tool.call.arguments", run.inputs.arguments)
               @@ Attribute("tool.call.result", FirstOf(<<"kwargs", "text", "content">>, run.outputs.result))
          ELSE << >>

-----------------------------------------------------------------------------
(* Why a model stopped.  A generation is [message, reasons, status, detail]; `reasons` by place. *)

FinishReasonAliases == [tool_calls |-> "tool_call", function_call |-> "tool_call"]

normalizeFinishReason(reason) ==
  IF reason \in DOMAIN FinishReasonAliases THEN FinishReasonAliases[reason] ELSE reason

messageHasToolCalls(msg) == \E p \in DOMAIN msg.calls : msg.calls[p] # <<>>

\* For the Responses API, which has a status instead.
deriveResponsesFinishReason(gen) ==
  CASE gen.status = "completed" -> IF messageHasToolCalls(gen.message) THEN "tool_call" ELSE "stop"
    [] gen.status = "incomplete" /\ gen.detail = "max_output_tokens" -> "length"
    [] gen.status = "incomplete" /\ gen.detail = "content_filter" -> "content_filter"
    [] gen.status \in {"failed", "cancelled"} -> "error"
    [] OTHER -> None

FinishReason(gen) ==
  LET native == FirstOf(<<"generationInfo", "response_metadata", "message", "kwargs">>, gen.reasons)
  IN IF native # None THEN normalizeFinishReason(native) ELSE deriveResponsesFinishReason(gen)

\* Mutation: generations without a reason are left out.
CompactFinishReasons(run) ==
  SelectSeq([i \in DOMAIN run.outputs.generations |-> FinishReason(run.outputs.generations[i])],
            LAMBDA r : r # None)

\* None at all unless every generation has one: their positions are the generations'.
getFinishReasons(run) ==
  LET reasons == [i \in DOMAIN run.outputs.generations |-> FinishReason(run.outputs.generations[i])]
  IN IF \E i \in DOMAIN reasons : reasons[i] = None THEN <<>> ELSE reasons

setFinishReasonsAttribute(run) ==
  [a \in IF getFinishReasons(run) = <<>> THEN {} ELSE {"finish_reasons"} |-> getFinishReasons(run)]
=============================================================================
