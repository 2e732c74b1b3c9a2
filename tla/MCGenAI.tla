------------------------------ MODULE MCGenAI ------------------------------
EXTENDS GenAI

NoOutputs == [models |-> << >>, ids |-> << >>, usage |-> << >>, messages |-> <<>>,
              generations |-> <<>>, message |-> <<>>, calls |-> << >>, result |-> << >>]
NoInputs == [messages |-> <<>>, prompts |-> <<>>, arguments |-> None]
Run == [type |-> "chain", name |-> None, hidden |-> FALSE, branch |-> FALSE, parent |-> None,
        serialized |-> {}, metadata |-> << >>, params |-> << >>, inputs |-> NoInputs,
        outputs |-> NoOutputs, error |-> None, malformed |-> FALSE]
Agent(name) == [name |-> name, serialized |-> {"langgraph", "CompiledStateGraph"}] @@ Run

Text(type) == [type |-> type, id |-> None]
Call(id) == [type |-> "tool_call", id |-> id]
Said(kinds, blocks, calls) ==
  [kinds |-> kinds, contents |-> ("lc_kwargs" :> [text |-> Len(blocks) = 1, blocks |-> blocks]),
   calls |-> IF calls = <<>> THEN << >> ELSE ("tool_calls" :> calls)]
Human == Said("lc_type" :> "human", <<Text("text")>>, <<>>)
System == Said("role" :> "system", <<Text("text")>>, <<>>)
Calling == Said("id" :> "ai", <<Text("reasoning"), Call("call1"), Text(None)>>, <<Call("call1"), Call("call2")>>)
Answer == Said("type" :> "ai", <<Text("text")>>, <<>>)

Generation(message, reasons, status, detail) ==
  [message |-> message, reasons |-> reasons, status |-> status, detail |-> detail]

\* An agent, whose graph calls another agent, that asks a model; a tool, that calls an agent.
MCRuns ==
  [agent |-> [metadata |-> ("conversation_id" :> "c1") @@ ("thread_id" :> "t1")] @@ Agent("main"),
   graph |-> [parent |-> "agent", hidden |-> TRUE] @@ Run,
   sub |-> [parent |-> "graph", inputs |-> [NoInputs EXCEPT !.messages = <<Human>>],
               outputs |-> [NoOutputs EXCEPT !.messages = <<Human, Calling>>]] @@ Agent("sub"),
   model |-> [parent |-> "sub", type |-> "llm", serialized |-> {"AzureChatOpenAI"},
                 metadata |-> ("ls_model_name" :> "default") @@ ("ls_provider" :> "azure"),
                 params |-> ("n" :> [kind |-> "integer", value |-> 2])
                              @@ ("max_tokens" :> [kind |-> "text", value |-> "9"])
                              @@ ("maxTokens" :> [kind |-> "integer", value |-> 9])
                              @@ ("response_format" :> [kind |-> "record", value |-> "json_schema"]),
                 inputs |-> [NoInputs EXCEPT !.messages = <<System, Human>>],
                 outputs |-> [NoOutputs EXCEPT
                   !.models = "v1.model_name" :> "served",
                   !.usage = "v1.tokenUsage" :> [input_tokens |-> 3, output_tokens |-> 0],
                   !.generations = <<Generation(Calling, << >>, "completed", None),
                                     Generation(Answer, << >>, "incomplete", "other")>>]] @@ Run,
   tool |-> [name |-> "search", type |-> "tool", serialized |-> {"tool"},
                metadata |-> ("conversation_id" :> "c2"),
                error |-> "error", inputs |-> [NoInputs EXCEPT !.arguments = "arguments"],
                outputs |-> [NoOutputs EXCEPT !.result = "text" :> "result"]] @@ Run,
   called |-> [parent |-> "tool", malformed |-> TRUE,
                  inputs |-> [NoInputs EXCEPT !.messages = <<Human>>]] @@ Agent("called")]

Nothing == [form |-> "none", items |-> <<>>]
NoData == [name |-> None, from |-> None, to |-> None, model |-> None, input |-> Nothing,
           output |-> Nothing, usages |-> <<>>]
FunctionCall == [type |-> "function_call", call_id |-> "call3", id |-> "item1"]
Of(type, trace, parent) ==
  [type |-> type, trace |-> trace, parent |-> parent, data |-> NoData, error |-> << >>]
Message(blocks) == [role |-> None, blocks |-> blocks]
NullBlock == [type |-> "null", call_id |-> None, id |-> None]

\* An agent that hands over to one of a name that two of the agents it uses have; the first of them
\* asks a model within a span of the application's own, and hands over as well.  The model is given a
\* null block, after what it says and uses has been read.
MCAgentsSpans ==
  [a |-> [Of("agent", "t1", None) EXCEPT !.data.name = "A", !.error = "message" :> "failed"],
   b |-> [Of("agent", "t1", "a") EXCEPT !.data.name = "C", !.error = "name" :> "ModelError"],
   k |-> Of("custom", "t1", "b"),
   g |-> [Of("response", "t1", "k") EXCEPT
               !.data.input = [form |-> "list", items |-> <<Message(<<FunctionCall, NullBlock>>)>>],
               !.data.output = [form |-> "list", items |-> <<Message(<<FunctionCall>>)>>],
               !.data.usages = <<[input |-> -1, output |-> -1], [input |-> 3, output |-> -1]>>],
   h |-> [Of("handoff", "t1", "a") EXCEPT !.data.from = "A", !.data.to = "C"],
   c |-> [Of("agent", "t1", "a") EXCEPT !.data.name = "C"],
   o |-> [Of("handoff", "t1", "b") EXCEPT !.data.from = "C", !.data.to = "D"]]

\* A payload whose resources share a container, and one that refers to itself.
MCObjects ==
  [arguments |-> [type |-> "typed", kind |-> "arguments",
                  fields |-> ("action" :> "update") @@ ("resources" :> "list") @@ ("extension_data" :> "more")],
   list |-> [type |-> "array", fields |-> <<"file", "folder">>],
   file |-> [type |-> "record", fields |-> ("id" :> "id1") @@ ("container" :> "drive")],
   folder |-> [type |-> "record", fields |-> ("id" :> "id2") @@ ("container" :> "drive")],
   drive |-> [type |-> "record", fields |-> ("uri" :> "uri")],
   more |-> [type |-> "record", fields |-> ("tags" :> "tags")],
   tags |-> [type |-> "set", fields |-> <<"text", "null">>],
   loop |-> [type |-> "typed", kind |-> "result", fields |-> ("data" :> "self")],
   self |-> [type |-> "record", fields |-> ("self" :> "self")],
   plain |-> [type |-> "record", fields |-> ("size" :> "NaN") @@ ("undefined" :> "undefined")],
   parts |-> [type |-> "array", fields |-> <<"bigint">>]]

Activity == [type |-> "message", from |-> << >>, recipient |-> << >>, agentic |-> FALSE, instance |-> None,
             tenant |-> None, agenticUser |-> None, channel |-> None, subChannel |-> None,
             channelData |-> << >>, conversation |-> None, serviceUrl |-> None, text |-> None, token |-> << >>]

\* An agent's turn; another agent's, processed while the first one's is invoked, whose activity names
\* no instance; and an asynchronous reply, within the second.
MCTurns ==
  [main |-> [activity |-> [Activity EXCEPT
                !.from = ("aadObjectId" :> "user") @@ ("name" :> "caller") @@ ("agenticAppBlueprintId" :> "app"),
                !.recipient = ("name" :> "Main") @@ ("role" :> "agenticUser"),
                !.agentic = TRUE, !.instance = "agent1", !.tenant = "tenant1", !.channel = "teams",
                !.channelData = "productContext" :> "product", !.conversation = "c1", !.text = "hello",
                !.token = ("appid" :> "blueprint") @@ ("azp" :> "other")],
             calls |-> <<[call |-> "invokeAgentServer", address |-> "host", port |-> 8080],
                         [call |-> "customAttributes",
                          pairs |-> ("server.address" :> "custom") @@ ("a,b" :> "x") @@ ("key" :> "value")],
                         [call |-> "setPairs", pairs |-> "session.id" :> Blank]>>,
             within |-> None, ref |-> "invoke"],
   helper |-> [activity |-> [Activity EXCEPT !.recipient = "name" :> "Helper", !.tenant = "tenant2",
                                             !.conversation = "c2", !.subChannel = "sub"],
               calls |-> <<[call |-> "invokeAgentServer", address |-> None, port |-> 443]>>,
               within |-> "invoke", ref |-> None],
   reply |-> [activity |-> [Activity EXCEPT !.type = "ContinueConversation", !.tenant = "tenant1"],
              calls |-> <<>>, within |-> "ask", ref |-> None]]

Scope == [turn |-> "main", within |-> None, ref |-> None, fromTurn |-> TRUE, operation |-> "chat",
          request |-> << >>, agent |-> << >>, user |-> << >>, caller |-> << >>, details |-> << >>,
          endpoint |-> NoEndpoint, input |-> NoMessages, output |-> NoMessages, instructions |-> "null",
          arguments |-> "null", refinement |-> NoRefinement, transfer |-> NoTransfer, records |-> <<>>]

MCScopes ==
  [invoke |-> [Scope EXCEPT
     !.operation = "invoke_agent", !.agent = ("agent.id" :> "given") @@ ("agent.version" :> "v1"),
     !.endpoint = [host |-> "own", port |-> 443], !.instructions = "parts"],
   search |-> [Scope EXCEPT
     !.within = "invoke", !.ref = InvalidRef, !.fromTurn = FALSE, !.operation = "execute_tool",
     !.agent = ("tenant.id" :> "tenant1") @@ ("agent.name" :> "Tool"),
     !.arguments = "arguments", !.endpoint = [host |-> "tools", port |-> 9],
     !.refinement = [kind |-> "execute_command", skill |-> "skill" :> Blank, process |-> "process" :> "sh"],
     !.transfer = [mode |-> "pass_control", type |-> "agent", target |-> "transfer.target" :> "agent2"],
     !.records = <<[record |-> "error", name |-> "TypeError"], [record |-> "response", value |-> "loop"]>>],
   delegate |-> [Scope EXCEPT
     !.turn = "helper", !.operation = "invoke_agent", !.agent = "agent.id" :> "given"],
   ask |-> [Scope EXCEPT
     !.turn = "helper", !.within = "delegate", !.details = "model" :> "m",
     !.records = <<[record |-> "cancellation"]>>],
   refused |-> [Scope EXCEPT
     !.turn = "reply", !.within = "guard", !.operation = "execute_tool",
     !.transfer = [mode |-> "pass_control", type |-> "human", target |-> "transfer.target" :> "agent2"]],
   guard |-> [Scope EXCEPT
     !.turn = "reply", !.ref = "invoke", !.fromTurn = FALSE, !.operation = "apply_guardrail",
     !.agent = "tenant.id" :> "tenant1", !.input = [texts |-> <<"text">>],
     !.records = <<[record |-> "attributes", value |-> (Blank :> "x") @@ ("key" :> "own")]>>]]

MCSends ==
  [answer |-> [turn |-> "main", within |-> "search", texts |-> <<"answer">>]]

MCHostings == {{"baggage", "output"}}

MCMaySuppress == {<<"model", "start">>, <<"sub", "end">>}
=============================================================================
