------------------------------ MODULE A365Scopes ------------------------------
(***************************************************************************)
(* The scopes of a365/scopes: what each writes on its span when it is      *)
(* started and while it is open, and what ScopeUtils takes from a turn.    *)
(*                                                                         *)
(* Details are functions from the names of the attributes they become to   *)
(* their values.  A scope is                                               *)
(*   [operation, request, agent, user, fromTurn, details, endpoint, ...]   *)
(* where fromTurn says that ScopeUtils fills it from the turn's activity.  *)
(***************************************************************************)
EXTENDS A365Baggage, ToolPayload

NoEndpoint == << >>

\* setTagMaybe: attributes for the values that there are.
Tags(values) == Restrict(values, {k \in DOMAIN values : values[k] # None})

\* Over each other in the order in which they are set.
InOrder(tags) == FoldLeft(LAMBDA set, next : next @@ set, << >>, tags)

EndpointTags(endpoint) ==
  IF endpoint = NoEndpoint THEN << >>
  ELSE Tags("server.address" :> endpoint.host)
         @@ IF endpoint.port \in {0, 443} THEN << >> ELSE "server.port" :> endpoint.port

-----------------------------------------------------------------------------
(* ScopeUtils *)

deriveAgentDetails(activity) ==
  ("agent.id" :> AgentInstance(activity)) @@ ("agent.name" :> Get(activity.recipient, "name"))
    @@ ("agent.auid" :> Get(activity.recipient, "aadObjectId"))
    @@ ("agent.blueprint" :> AgentBlueprint(activity)) @@ ("agent.email" :> activity.agenticUser)
    @@ ("agent.description" :> Get(activity.recipient, "role")) @@ ("tenant.id" :> activity.tenant)

deriveCallerAgent(activity) ==
  IF activity.from = << >> THEN << >>
  ELSE ("caller.agent.application" :> Get(activity.from, "agenticAppBlueprintId"))
         @@ ("caller.agent.name" :> Get(activity.from, "name"))
         @@ ("caller.agent.user" :> Get(activity.from, "aadObjectId"))
         @@ ("caller.agent.id" :> Get(activity.from, "agenticAppId"))
         @@ ("caller.agent.email" :> Get(activity.from, "agenticUserId"))

deriveCallerDetails(activity) ==
  IF activity.from = << >> THEN << >>
  ELSE ("user.id" :> Get(activity.from, "aadObjectId")) @@ ("user.email" :> Get(activity.from, "agenticUserId"))
         @@ ("user.name" :> Get(activity.from, "name"))

RequestOf(activity) ==
  ("conversation.id" :> activity.conversation) @@ ("channel.name" :> activity.channel)
    @@ ("channel.link" :> resolveSubChannel(activity))

\* What the activity says of its recipient goes over the details given, also where it says nothing.
buildInvokeAgentDetails(details, activity) ==
  IF activity.recipient = << >> THEN details ELSE deriveAgentDetails(activity) @@ details

\* The scope that ScopeUtils starts for a turn, or Refused if it throws: without a recipient there
\* is no agent, except the one that is invoked.
Refused == << >>
populateFromTurnContext(scope, activity) ==
  IF scope.operation # "invoke_agent" /\ activity.recipient = << >> THEN Refused
  ELSE [scope EXCEPT
          !.agent = IF scope.operation = "invoke_agent" THEN buildInvokeAgentDetails(@, activity)
                    ELSE deriveAgentDetails(activity),
          !.user = deriveCallerDetails(activity),
          !.request = RequestOf(activity),
          !.caller = deriveCallerAgent(activity),
          !.input = IF scope.operation = "execute_tool" \/ activity.text = None THEN @
                    ELSE [texts |-> <<activity.text>>]]

-----------------------------------------------------------------------------
(* The scopes *)

NoMessages == << >>
MessageTags(messages) == IF messages = NoMessages THEN << >> ELSE recordInputMessages(messages)

InvokeAgentTags(scope) ==
  InOrder(<<EndpointTags(scope.endpoint), MessageTags(scope.input), Tags(scope.details),
            IF scope.instructions \in Nullish THEN << >>
            ELSE "system_instructions" :> serializeSystemInstructions(scope.instructions),
            Tags(scope.caller)>>)

InferenceTags(scope) ==
  InOrder(<<Tags(scope.details), EndpointTags(scope.endpoint), MessageTags(scope.input)>>)

\* A refinement is [kind, skill, process]; a transfer is [mode, type, target].
NoRefinement == << >>
NoTransfer == << >>
RefinementKinds == {"load_skill", "read_skill_resource", "execute_command"}
TransferMode == {"return_to_caller", "pass_control"}
TransferTargetType == {"agent", "human", "workflow"}
AcceptedTool(scope) ==
  /\ scope.transfer # NoTransfer =>
       /\ scope.transfer.mode \in TransferMode /\ scope.transfer.type \in TransferTargetType
       /\ scope.transfer.type # "agent" => scope.transfer.target = << >>
  /\ scope.refinement # NoRefinement => scope.refinement.kind \in RefinementKinds

ExecuteToolTags(scope) ==
  InOrder(<<Tags(scope.details), PayloadAttribute("tool.call.arguments", scope.arguments, "arguments"),
            IF scope.refinement = NoRefinement THEN << >>
            ELSE Given(scope.refinement.skill)
                   @@ IF scope.refinement.kind = "execute_command" THEN Given(scope.refinement.process) ELSE << >>,
            IF scope.transfer = NoTransfer THEN << >>
            ELSE ("transfer.mode" :> scope.transfer.mode) @@ ("transfer.type" :> scope.transfer.type)
                   @@ Tags(scope.transfer.target),
            EndpointTags(scope.endpoint)>>)

GuardrailTags(scope) ==
  InOrder(<<Tags(scope.details),
            IF "texts" \in DOMAIN scope.input THEN "content.input" :> Head(scope.input.texts) ELSE << >>>>)

OwnTags(scope) ==
  CASE scope.operation = "invoke_agent" -> InvokeAgentTags(scope)
    [] scope.operation = "execute_tool" -> ExecuteToolTags(scope)
    [] scope.operation = "output_messages" -> _setOutput(scope.output)
    [] scope.operation = "apply_guardrail" -> GuardrailTags(scope)
    [] OTHER -> InferenceTags(scope)

\* Every scope needs a tenant.
Accepted(scope) ==
  /\ scope # Refused
  /\ Get(scope.agent, "tenant.id") # None
  /\ scope.operation = "execute_tool" => AcceptedTool(scope)

\* What a scope writes on its span after the span's start.
ScopeTags(scope) ==
  InOrder(<<Tags(scope.request), Tags(scope.agent), Tags(scope.user), OwnTags(scope)>>)

-----------------------------------------------------------------------------
(* While a scope is open: [record, ...] *)

\* The attributes that a call adds; blank keys are left out, findings become events.
Recorded(call) ==
  CASE call.record = "response" -> PayloadAttribute("tool.call.result", call.value, "result")
    [] call.record = "output" -> _setOutput(call.value)
    [] call.record = "values" -> Tags(call.value)
    [] call.record = "attributes" ->
         Restrict(call.value, {k \in DOMAIN call.value : normalizeValue(k) # None})

\* The type of error that a call leaves for the span's end, over that of an earlier one.
RecordedError(call, before) ==
  CASE call.record = "error" -> IF "status" \in DOMAIN call THEN call.status ELSE call.name
    [] call.record = "cancellation" -> "TaskCanceledException"
    [] OTHER -> before
=============================================================================
