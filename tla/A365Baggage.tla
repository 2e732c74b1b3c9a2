----------------------------- MODULE A365Baggage -----------------------------
(***************************************************************************)
(* Baggage: the identity of a request, which middleware and application    *)
(* put into the context (middleware/BaggageBuilder.ts, turnContextUtils.ts) *)
(* and A365SpanProcessor writes on every GenAI span that starts there.     *)
(*                                                                         *)
(* Baggage is [entries, custom], where custom are the keys registered in   *)
(* the entry of the metadata key, or NoBaggage if the context has none.    *)
(* Texts are None, Blank or a value without blanks around it.              *)
(***************************************************************************)
EXTENDS LangChainRun

Blank == " "
MetadataKey == "custom_keys"       \* INTERNAL_CUSTOM_KEYS_METADATA_KEY
KeysWithComma == {"a,b"}
NoBaggage == << >>

normalizeValue(value) == IF value = Blank THEN None ELSE value
normalizeCustomKey(key) ==
  IF normalizeValue(key) = None \/ key \in KeysWithComma \cup {MetadataKey} THEN None ELSE key

\* The values that are there.
Given(values) == Restrict(values, {k \in DOMAIN values : normalizeValue(values[k]) # None})

-----------------------------------------------------------------------------
(* BaggageBuilder: its calls in order, [call, pairs] or [call, address, port]; *)
(* a setter, such as agentId, is setPairs of one pair.                         *)

NewBuilder == [pairs |-> << >>, customKeys |-> {}]

setPairs(builder, pairs) == [builder EXCEPT !.pairs = Given(pairs) @@ @]

\* The server's port is not kept when there is none or it is the default one.  Port 0 is kept: it goes
\* over a port of the context's, and no span gets it.
NoPort == -1
invokeAgentServer(builder, address, port) ==
  LET set == setPairs(builder, "server.address" :> address).pairs
  IN [builder EXCEPT !.pairs = IF port \notin {NoPort, 443} THEN ("server.port" :> port) @@ set
                               ELSE Restrict(set, DOMAIN set \ {"server.port"})]

customAttributes(builder, pairs) ==
  LET named == Given(Restrict(pairs, {k \in DOMAIN pairs : normalizeCustomKey(k) # None}))
  IN [pairs |-> named @@ builder.pairs, customKeys |-> builder.customKeys \cup DOMAIN named]

Called(builder, call) ==
  CASE call.call = "setPairs" -> setPairs(builder, call.pairs)
    [] call.call = "invokeAgentServer" -> invokeAgentServer(builder, call.address, call.port)
    [] call.call = "customAttributes" -> customAttributes(builder, call.pairs)

Built(calls) == FoldLeft(Called, NewBuilder, calls)

\* What is built goes over what the context has.
BaggageScope(current, built) ==
  LET bag == IF current = NoBaggage THEN [entries |-> << >>, custom |-> {}] ELSE current
  IN [entries |-> built.pairs @@ bag.entries, custom |-> bag.custom \cup built.customKeys]

-----------------------------------------------------------------------------
(* What a turn's activity says: [type, from, recipient, agentic, instance, tenant, user, channel, *)
(* subChannel, conversation, serviceUrl, text, token]; a missing `from` or `recipient` is empty.  *)

Get(record, field) == IF field \in DOMAIN record THEN record[field] ELSE None

getCallerBaggagePairs(activity) ==
  Given(("user.id" :> Get(activity.from, "aadObjectId")) @@ ("user.name" :> Get(activity.from, "name"))
          @@ ("user.email" :> Get(activity.from, "agenticUserId"))
          @@ ("caller.agent.application" :> Get(activity.from, "agenticAppBlueprintId")))

\* The instance, and the blueprint that the token names, of an agentic request.
AgentInstance(activity) == IF activity.agentic THEN activity.instance ELSE None
getAgentIdFromToken(token) == FirstOf(<<"xms_par_app_azp", "appid", "azp">>, Given(token))
AgentBlueprint(activity) == IF activity.agentic THEN getAgentIdFromToken(activity.token) ELSE None

getTargetAgentBaggagePairs(activity) ==
  IF activity.recipient = << >> THEN << >>
  ELSE Given(("agent.id" :> AgentInstance(activity)) @@ ("agent.name" :> Get(activity.recipient, "name"))
               @@ ("agent.description" :> Get(activity.recipient, "role"))
               @@ ("agent.auid" :> Get(activity.recipient, "aadObjectId")))

getTenantIdPair(activity) == Given("tenant.id" :> activity.tenant)

\* The product is in the channel's data, which may not be readable.
resolveSubChannel(activity) ==
  IF normalizeValue(activity.subChannel) # None THEN activity.subChannel
  ELSE Get(activity.channelData, "productContext")
getChannelBaggagePairs(activity) ==
  Given(("channel.name" :> activity.channel) @@ ("channel.link" :> resolveSubChannel(activity)))
getConversationIdAndItemLinkPairs(activity) ==
  Given(("conversation.id" :> activity.conversation) @@ ("conversation.item.link" :> activity.serviceUrl))

fromTurnContext(activity) ==
  [i \in 1 .. 5 |-> [call |-> "setPairs",
     pairs |-> <<getCallerBaggagePairs(activity), getTargetAgentBaggagePairs(activity),
                 getTenantIdPair(activity), getChannelBaggagePairs(activity),
                 getConversationIdAndItemLinkPairs(activity)>>[i]]]

\* BaggageMiddleware: an asynchronous reply keeps the baggage of the context that it comes from.
isAsyncReply(activity) == activity.type = "ContinueConversation"
MiddlewareBaggage(current, activity) ==
  IF isAsyncReply(activity) THEN current ELSE BaggageScope(current, Built(fromTurnContext(activity)))

-----------------------------------------------------------------------------
(* A365SpanProcessor *)

GenAIOperations ==
  {"invoke_agent", "execute_tool", "output_messages", "apply_guardrail", "chat", "text_completion",
   "generate_content", "Chat", "TextCompletion", "GenerateContent"}

GENERIC_ATTRIBUTES ==
  {"tenant.id", "session.id", "conversation.id", "conversation.item.link", "agent.id", "agent.name",
   "agent.description", "session.description", "agent.email", "agent.auid", "agent.platform",
   "agent.blueprint", "agent.version", "service.name", "user.id", "user.name", "user.email",
   "client.ip", "channel.name", "channel.link"}
INVOKE_AGENT_ATTRIBUTES ==
  {"caller.agent.id", "caller.agent.name", "caller.agent.user", "caller.agent.email",
   "caller.agent.application", "caller.agent.platform", "caller.agent.version",
   "server.address", "server.port"}

shouldCopyRegisteredCustomKey(key, isInvokeAgent) ==
  isInvokeAgent \/ key \notin INVOKE_AGENT_ATTRIBUTES

\* A port that is none is left out.
IsAttributeValue(key, value) == key = "server.port" => value \in 1 .. 65535

TelemetrySdk == [a \in {"telemetry.sdk"} |-> "sdk"]

\* The attributes that the processor adds to those a span starts with.
Stamped(attributes, baggage) ==
  IF baggage = NoBaggage \/ attributes["operation.name"] \notin GenAIOperations THEN attributes
  ELSE LET isInvokeAgent == attributes["operation.name"] = "invoke_agent"
           targets == (GENERIC_ATTRIBUTES \cup (IF isInvokeAgent THEN INVOKE_AGENT_ATTRIBUTES ELSE {})
                         \cup {k \in baggage.custom : shouldCopyRegisteredCustomKey(k, isInvokeAgent)})
                        \ {"operation.name"}
           copied == {k \in targets \cap DOMAIN baggage.entries : IsAttributeValue(k, baggage.entries[k])}
       IN attributes @@ TelemetrySdk @@ Restrict(baggage.entries, copied)
=============================================================================
