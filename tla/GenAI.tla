-------------------------------- MODULE GenAI --------------------------------
(***************************************************************************)
(* The instrumentations of LangChain and of the OpenAI Agents SDK, and the *)
(* scopes and middleware of A365, together with the span processors of     *)
(* A365 and of the main agent, which act on the spans of all of them when  *)
(* they start and when they end.                                           *)
(***************************************************************************)
EXTENDS LangChainTracer, OpenAIAgentsTraceProcessor, A365Turns

CONSTANT OneFramework   \* bound: does an application use only one of the three?

\* Identifiers tell apart what spans are for.
ASSUME GenAIAssumption ==
  /\ OneFramework \in BOOLEAN
  /\ DOMAIN Runs \cap (DOMAIN AgentsSpans \cup DOMAIN Scopes \cup DOMAIN Sends) = {}
  /\ DOMAIN AgentsSpans \cap (DOMAIN Scopes \cup DOMAIN Sends) = {}
  /\ DOMAIN Scopes \cap DOMAIN Sends = {}

vars == <<spans, tracerVars, processorVars, turnVars>>

Init == spans = << >> /\ TracerInit /\ ProcessorInit /\ TurnsInit

\* Callbacks of LangChain and of the OpenAI Agents SDK, and turns of A365, in an application that
\* does not use the others.
NoLangChain == ~enableSensitiveData /\ \A r \in DOMAIN Runs : callbacks[r] = "none"
NoOpenAI == \A s \in DOMAIN AgentsSpans : progress[s] = "none"
NoTurns == hosting = NotConfigured /\ turns = << >>
LangChain == OneFramework => NoOpenAI /\ NoTurns
OpenAI == OneFramework => NoLangChain /\ NoTurns
A365 == OneFramework => NoLangChain /\ NoOpenAI

OnRunCreate ==
  /\ LangChain
  /\ \E r \in DOMAIN Runs : \E suppressed \in Suppressions(r, "start") : onRunCreate(r, suppressed)
  /\ UNCHANGED <<processorVars, turnVars>>
EndTrace ==
  /\ \E r \in DOMAIN Runs : \E suppressed \in Suppressions(r, "end") : _endTrace(r, suppressed)
  /\ UNCHANGED <<processorVars, turnVars>>
Reinstrument ==
  /\ LangChain /\ \E flag \in NewFlags : setEnableSensitiveData(flag)
  /\ UNCHANGED <<processorVars, turnVars>>
OnSpanStart ==
  OpenAI /\ (\E s \in DOMAIN AgentsSpans : onSpanStart(s)) /\ UNCHANGED <<tracerVars, turnVars>>
OnSpanEnd == (\E s \in DOMAIN AgentsSpans : onSpanEnd(s)) /\ UNCHANGED <<tracerVars, turnVars>>
OnTraceEnd == (\E t \in Traces : onTraceEnd(t)) /\ UNCHANGED <<tracerVars, turnVars>>
ShutdownProcessor == shutdownProcessor /\ UNCHANGED <<tracerVars, turnVars>>

Others == UNCHANGED <<tracerVars, processorVars>>
Configure == A365 /\ (\E options \in Hostings : configure(options)) /\ Others
OnTurn == A365 /\ hosting # NotConfigured /\ (\E t \in DOMAIN Turns : onTurn(t)) /\ Others
SetParent == (\E t \in DOMAIN Turns : SetParentSpan(t)) /\ Others
StartScope == (\E s \in DOMAIN Scopes : startScope(s)) /\ Others
RecordOnScope == (\E s \in DOMAIN Scopes : recordOnScope(s)) /\ Others
Dispose == (\E s \in DOMAIN Scopes : dispose(s)) /\ Others
Send == (\E m \in DOMAIN Sends : send(m)) /\ Others
SendEnds == (\E m \in DOMAIN Sends : \E outcome \in SendOutcomes : SendSettles(m, outcome)) /\ Others

Next == \/ OnRunCreate \/ EndTrace \/ Reinstrument
        \/ OnSpanStart \/ OnSpanEnd \/ OnTraceEnd \/ ShutdownProcessor
        \/ Configure \/ OnTurn \/ SetParent \/ StartScope \/ RecordOnScope \/ Dispose
        \/ Send \/ SendEnds

Spec == Init /\ [][Next]_vars

-----------------------------------------------------------------------------
(* Properties *)

IsAgent(s) == spans[s].attributes["operation.name"] = "invoke_agent"
NameOf(s) == IF "agent.name" \in DOMAIN spans[s].attributes THEN spans[s].attributes["agent.name"] ELSE None
ValueOf(s, name) == IF name \in DOMAIN spans[s].attributes THEN spans[s].attributes[name] ELSE None

FirstIn(path) == IF path = <<>> THEN None ELSE Head(path)

\* A first step and those that Next leads to, up to n in all, as long as there is one.
Ascent(first, Next1(_), n) ==
  LET up[k \in 0 .. n] ==
        IF k = 0 THEN <<first>>
        ELSE LET before == up[k - 1] IN
             IF Last(before) = None THEN before ELSE Append(before, Next1(Last(before)))
  IN SelectSeq(up[n], LAMBDA p : p # None)

\* The spans above s, nearest first.
Path(s) == Ascent(spans[s].parent, LAMBDA p : spans[p].parent, Cardinality(DOMAIN spans))

TypeOK ==
  /\ DOMAIN spans \subseteq DOMAIN Runs \cup DOMAIN AgentsSpans \cup DOMAIN Scopes \cup DOMAIN Sends
  /\ \A s \in DOMAIN spans : spans[s].parent \in DOMAIN spans \cup {None} /\ spans[s].ended \in BOOLEAN
  /\ runs \subseteq DOMAIN Runs /\ DOMAIN parentByRunId \subseteq DOMAIN Runs
  /\ enableSensitiveData \in BOOLEAN
  /\ callbacks \in [DOMAIN Runs -> {"none", "started", "ended"}]
  /\ otelSpans \subseteq DOMAIN AgentsSpans
  /\ rootSpans \in [Traces -> DOMAIN AgentsSpans \cup {None}]
  /\ progress \in [DOMAIN AgentsSpans -> {"none", "started", "ended"}]
  /\ traceEnds \subseteq Traces /\ processorShutdown \subseteq DOMAIN AgentsSpans
  /\ DOMAIN turns \subseteq DOMAIN Turns /\ DOMAIN scopeCalls = DOMAIN errorTypes
  /\ sends \in [DOMAIN Sends -> {"none", "sending"} \cup SendOutcomes]

\* The maps of the tracer and of the processor keep within their limits, an ordered map has a key
\* once, and a trace's root is an open span of that trace.
MapsAreKept ==
  /\ TypeOK
  /\ Cardinality(runs) <= MaxRuns /\ Cardinality(otelSpans) <= MaxSpans
  /\ Len(reverseHandoffsDict) <= MaxHandoffs
  /\ \A i, j \in DOMAIN reverseHandoffsDict : reverseHandoffsDict[i].key = reverseHandoffsDict[j].key => i = j
  /\ \A t \in Traces : rootSpans[t] # None => IsOpen(rootSpans[t]) /\ AgentsSpans[rootSpans[t]].trace = t

\* The response, or the input that is not suppressed, is a list with a null block.
NullBlockIn(s) ==
  /\ AgentsSpans[s].type = "response"
  /\ \E value \in {Data(s).output} \cup IF SuppressInput THEN {} ELSE {Data(s).input} :
       value.form = "list" /\ HasNull(value)

\* A span of the SDK's that the processor has stopped looking up and will never end: a shutdown forgot
\* it, or its end threw on a null block.
IsLost(s) == s \in processorShutdown \/ (progress[s] = "ended" /\ NullBlockIn(s))

\* The maps are kept; and a span is open only while the run, the SDK's span or the send that it is
\* for is in progress, and then it can be found to be ended.  Whatever else is thrown, suppressed or
\* over the limits, the spans that stay open are those lost as above, and those of scopes that the
\* application has not disposed of.
OpenSpansAreTracked ==
  /\ MapsAreKept
  /\ \A s \in DOMAIN spans : IsOpen(s) =>
    CASE s \in DOMAIN Runs -> s \in runs /\ callbacks[s] = "started"
      [] s \in DOMAIN Scopes -> s \in DOMAIN scopeCalls
      [] s \in DOMAIN Sends -> sends[s] = "sending"
      [] s \in DOMAIN AgentsSpans ->
           IsLost(s) \/ (s \in otelSpans /\ progress[s] = "started")

\* A span of LangChain's names as its main agent the topmost agent of the spans above it; without
\* one, an agent names itself when it ends and others name none.  But an agent that has got a main
\* agent's conversation from above, where no agent is, names none either.
MainAgentIsTopmost ==
  \A s \in DOMAIN Runs \cap DOMAIN spans :
    LET agents == SelectSeq(Path(s), IsAgent) IN
    ValueOf(s, "main_agent.name") =
      CASE agents # <<>> -> NameOf(Last(agents))
        [] agents = <<>> /\ IsAgent(s) /\ spans[s].ended
             /\ ~\E p \in Range(Path(s)) : ValueOf(p, "conversation.id") # None -> NameOf(s)
        [] OTHER -> None

\* The span of a scope, or of what is sent, names as its main agent, datum by datum, the topmost of
\* the spans above it that names one, as far up as parents can be read; without any an agent names
\* itself when it ends.
Linked(s) == IF s \in DOMAIN Sends THEN spans[s].parent # None /\ parentRefs[Sends[s].turn] = spans[s].parent
             ELSE s \in DOMAIN Scopes /\ Scopes[s].ref \notin {None, InvalidRef}
ReadablePath(s) ==
  LET path == <<s>> \o Path(s)
      cuts == {i \in DOMAIN path : Linked(path[i])}
  IN IF cuts = {} THEN Tail(path)
     ELSE SubSeq(path, 2, CHOOSE i \in cuts : \A k \in cuts : i <= k)

ScopesNameTheMainAgent ==
  \A s \in (DOMAIN Scopes \cup DOMAIN Sends) \cap DOMAIN spans :
    LET path == ReadablePath(s)
        naming == [n \in MainAgentKeys |-> SelectSeq(path, LAMBDA p : ValueOf(p, Fallback[n]) # None)]
        isMain == IsAgent(s) /\ spans[s].ended /\ \A n \in MainAgentKeys : naming[n] = <<>>
    IN \A n \in MainAgentKeys :
         ValueOf(s, n) = IF naming[n] # <<>> THEN ValueOf(Last(naming[n]), Fallback[n])
                         ELSE IF isMain THEN ValueOf(s, Fallback[n]) ELSE None

\* A turn and those that it is processed within, innermost first; and the values that a turn names
\* by its activity, unless it is an asynchronous reply, and by its own calls.
Outwards == [t \in DOMAIN Turns |->
  Ascent(t, LAMBDA u : IF Turns[u].within = None THEN None ELSE Scopes[Turns[u].within].turn,
         Cardinality(DOMAIN Turns))]
SaidByActivity == [t \in DOMAIN Turns |->
  IF isAsyncReply(Turns[t].activity) THEN << >>
  ELSE InOrder([i \in 1 .. 5 |-> fromTurnContext(Turns[t].activity)[i].pairs])]
SaidByCalls == [t \in DOMAIN Turns |-> Built(Turns[t].calls).pairs]
SaidByScope == [s \in DOMAIN Scopes \cup DOMAIN Sends |->
  IF s \in DOMAIN Sends THEN ScopeTags(OutputScopeOf(s))
  ELSE IF Accepted(ScopeOf(s)) THEN ScopeTags(ScopeOf(s)) ELSE << >>]

\* What a turn names, which needs the middleware for its activity.
Says(t, key) ==
  IF key \in DOMAIN SaidByCalls[t] THEN SaidByCalls[t][key]
  ELSE IF "baggage" \in turns[t].middleware THEN Get(SaidByActivity[t], key) ELSE None

\* The span of a scope, or of what is sent, has the identity, the conversation and the caller that
\* the scope's own details name, and otherwise those that its turn names, or the nearest turn
\* around it that does.  What only describes the invocation of an agent stays off other spans, even
\* if it is registered to be copied.
TurnOf(s) == IF s \in DOMAIN Sends THEN Sends[s].turn ELSE Scopes[s].turn
IdentityIsOfTheTurn ==
  \A s \in (DOMAIN Scopes \cup DOMAIN Sends) \cap DOMAIN spans :
    \A key \in {"tenant.id", "agent.id", "agent.name", "conversation.id", "user.id",
                "caller.agent.name", "caller.agent.application", "server.address"} :
      ValueOf(s, key) =
        IF key \in DOMAIN SaidByScope[s] THEN SaidByScope[s][key]
        ELSE IF key \in INVOKE_AGENT_ATTRIBUTES /\ ~IsAgent(s) THEN None
        ELSE FirstIn(SelectSeq([i \in DOMAIN Outwards[TurnOf(s)] |-> Says(Outwards[TurnOf(s)][i], key)],
                               LAMBDA value : value # None))

\* Main agents, and the identities of A365's turns, are on the spans that they belong to.
IdentitiesAreTrue == MainAgentIsTopmost /\ ScopesNameTheMainAgent /\ IdentityIsOfTheTurn

\* The runs above r in LangChain's own tree, nearest first.
RunPaths == [r \in DOMAIN Runs |->
  Ascent(Runs[r].parent, LAMBDA p : Runs[p].parent, Cardinality(DOMAIN Runs))]

\* A run's span hangs below, and an agent's names as its caller, the nearest run above it that got a
\* span, or nothing if the way up was cut.
RunLineage ==
  \A r \in DOMAIN Runs \cap DOMAIN spans :
    LET above == SelectSeq(RunPaths[r], LAMBDA p : p \in DOMAIN spans)
        agents == SelectSeq(above, IsAgent)
    IN /\ spans[r].parent \in {None, FirstIn(above)}
       /\ ValueOf(r, "caller.agent.name") \in {None, IF agents = <<>> THEN None ELSE NameOf(Head(agents))}

\* An agent of the OpenAI SDK names as its caller one that handed over to it in its trace, and a
\* handoff has at most one agent for which it names the caller.
HandoffLineage ==
  LET Agents(s, c) == {a \in DOMAIN AgentsSpans \cap DOMAIN spans :
                         /\ AgentsSpans[a].type = "agent" /\ AgentsSpans[a].trace = AgentsSpans[s].trace
                         /\ Data(a).name = Data(s).name /\ ValueOf(a, "caller.agent.name") = c}
      Handoffs(s, c) == {h \in DOMAIN AgentsSpans :
                           /\ AgentsSpans[h].type = "handoff" /\ AgentsSpans[h].trace = AgentsSpans[s].trace
                           /\ Data(h).to = Data(s).name /\ Data(h).from = c /\ progress[h] = "ended"}
  IN \A s \in DOMAIN AgentsSpans \cap DOMAIN spans :
       LET c == ValueOf(s, "caller.agent.name") IN
       AgentsSpans[s].type = "agent" /\ c # None
         => Cardinality(Agents(s, c)) <= Cardinality(Handoffs(s, c))

\* Parents and callers are true whenever a span starts or ends: a run's are its own ancestors, an
\* agent's caller handed over to it, once for each handoff.  And runs in progress that LangChain made
\* for itself do not cut the way up.
LineageIsTrue ==
  [][/\ RunLineage' /\ HandoffLineage'
     /\ \A r \in runs' \ runs :
          LET way == SelectSeq(RunPaths[r], LAMBDA p : ~(Skipped(p) /\ callbacks[p] = "started"))
          IN FirstIn(way) \in runs => spans'[r].parent = FirstIn(way)]_vars

Content == {"input.messages", "output.messages", "system_instructions", "tool.call.arguments",
            "tool.call.result"}
CallsOf(message) == SelectSeq(message.parts, LAMBDA p : p.type = "tool_call" /\ p.id # None)

\* What a payload refers to, directly or not.
Reachable(o) ==
  LET below[n \in 0 .. Cardinality(DOMAIN Objects)] ==
        IF n = 0 THEN Range(Fields(o))
        ELSE LET before == below[n - 1] IN
             before \cup UNION {Range(Fields(p)) : p \in before \cap DOMAIN Objects}
  IN below[Cardinality(DOMAIN Objects)]
Circular(o) == \E p \in {o} \cup (Reachable(o) \cap DOMAIN Objects) : p \in Reachable(p)

\* The atoms in a serialization, which nests no deeper than there are objects.
IsLeaf(tree) == "leaf" \in DOMAIN tree
Members(tree) ==
  IF IsLeaf(tree) THEN <<>>
  ELSE LET keys == SetToSeq(DOMAIN tree.members) IN [i \in DOMAIN keys |-> tree.members[keys[i]]]
Leaves(tree) ==
  LET level[n \in 0 .. Cardinality(DOMAIN Objects)] ==
        IF n = 0 THEN <<tree>>
        ELSE LET before == level[n - 1] IN FlattenSeq([i \in DOMAIN before |-> Members(before[i])])
  IN UNION {{t.leaf : t \in Range(SelectSeq(level[n], IsLeaf))} : n \in DOMAIN level}

\* Nothing of a typed payload is lost, objects that it refers to twice included, unless it is
\* circular or has what JSON does not know: then it is replaced.
PayloadIsWhole(o, tree) ==
  IF tree = SerializationError THEN Circular(o) \/ Reachable(o) \cap Unsupported # {}
  ELSE ~Circular(o) /\ Reachable(o) \ (DOMAIN Objects \cup Nullish) \subseteq Leaves(tree)

\* The records made on a scope before it ends that leave an error, the last of which counts.
Errors(s) ==
  SelectSeq(SubSeq(Scopes[s].records, 1, scopeCalls[s]), LAMBDA c : c.record \in {"error", "cancellation"})

\* When a run's span ends: what was said is on it only if the flag allows it; it has as many reasons
\* to finish as it has generations, or none; and no message has a tool call twice.
RunIsFaithful(r, a) ==
  /\ Content \cap DOMAIN a # {} => enableSensitiveData
  /\ "finish_reasons" \in DOMAIN a => Len(a["finish_reasons"]) = Len(Runs[r].outputs.generations)
  /\ \A n \in {"input.messages", "output.messages"} \cap DOMAIN a :
       \A i \in DOMAIN a[n] : IsInjective([j \in DOMAIN CallsOf(a[n][i]) |-> CallsOf(a[n][i])[j].id])

\* When a scope's span ends it has the type of the last error recorded, or none, and its payload is
\* whole; that of what is sent has one exactly if the sending failed with what can be printed.
ScopeIsFaithful(s, a) ==
  /\ ("error.type" \in DOMAIN a) = (Errors(s) # <<>>)
  /\ Errors(s) # <<>> => a["error.type"] = RecordedError(Last(Errors(s)), None)
  /\ "tool.call.arguments" \in DOMAIN a =>
       PayloadIsWhole(Scopes[s].arguments, a["tool.call.arguments"])

\* The records of runs, scopes and sends are faithful when their spans end.  A span of the OpenAI
\* SDK's has the type of the error that it ends with, unless the end of its trace has ended it before.
RecordsAreFaithful ==
  [][/\ \A r \in runs \ runs' : RunIsFaithful(r, spans'[r].attributes)
     /\ \A s \in DOMAIN Scopes \cap DOMAIN spans :
          ~spans[s].ended /\ spans'[s].ended => ScopeIsFaithful(s, spans'[s].attributes)
     /\ \A m \in DOMAIN Sends \cap DOMAIN spans :
          ~spans[m].ended /\ spans'[m].ended =>
            ("error.type" \in DOMAIN spans'[m].attributes) = (sends'[m] = "failed")
     /\ \A s \in DOMAIN AgentsSpans \cap DOMAIN spans :
          ~spans[s].ended /\ spans'[s].ended =>
            ("error.type" \in DOMAIN spans'[s].attributes)
              = (DOMAIN AgentsSpans[s].error # {} /\ progress'[s] = "ended")]_vars
=============================================================================
