--------------------- MODULE OpenAIAgentsTraceProcessor ---------------------
(***************************************************************************)
(* OpenAIAgentsTraceProcessor: a span for every span of the OpenAI Agents  *)
(* SDK whose type it maps.  Their data are complete only when they end, so *)
(* the agent's name, and who handed over to it, are not set before.  The   *)
(* SDK's spans nest: one starts and ends while its parent is in progress.  *)
(* A trace may end at any time, and the processor be shut down.            *)
(***************************************************************************)
EXTENDS GenAISpans

CONSTANTS AgentsSpans,     \* the SDK's spans, by identifier: [type, trace, parent, data, error]
          MaxSpans,        \* MAX_SPANS_IN_FLIGHT
          MaxHandoffs,     \* MAX_HANDOFFS_IN_FLIGHT
          SuppressInput    \* suppressInvokeAgentInput

ASSUME ProcessorAssumption ==
  /\ MaxSpans \in Nat \ {0} /\ MaxHandoffs \in Nat \ {0} /\ SuppressInput \in BOOLEAN
  /\ \A s \in DOMAIN AgentsSpans : AgentsSpans[s].parent \in DOMAIN AgentsSpans \cup {None}

VARIABLES otelSpans,           \* the SDK's spans whose span is looked up
          rootSpans,           \* by trace, the span that has no parent, or None
          reverseHandoffsDict, \* [key, from] in the order in which the keys were set
          progress,            \* which spans the SDK has started or ended
          traceEnds,           \* the traces that the SDK has ended
          processorShutdown    \* the open spans that a shutdown has forgotten
processorVars == <<otelSpans, rootSpans, reverseHandoffsDict, progress, traceEnds, processorShutdown>>

Traces == {AgentsSpans[s].trace : s \in DOMAIN AgentsSpans}
Data(s) == AgentsSpans[s].data
Key(agent, s) == <<agent, AgentsSpans[s].trace>>

\* Where `key` is in a map that remembers the order of its keys, and its value there, or None.
HasKey(dict, key) == \E i \in DOMAIN dict : dict[i].key = key
PlaceOf(dict, key) == CHOOSE i \in DOMAIN dict : dict[i].key = key
Lookup(dict, key) == IF HasKey(dict, key) THEN dict[PlaceOf(dict, key)].from ELSE None

Without(dict, key) == IF HasKey(dict, key) THEN RemoveAt(dict, PlaceOf(dict, key)) ELSE dict

\* Sets a key, in its place if it is there, and drops the oldest beyond the limit.
Remember(dict, key, from) ==
  LET entry == [key |-> key, from |-> from]
      set == IF HasKey(dict, key) THEN [dict EXCEPT ![PlaceOf(dict, key)] = entry] ELSE Append(dict, entry)
      excess == Len(set) - MaxHandoffs
  IN IF excess > 0 THEN SubSeq(set, excess + 1, Len(set)) ELSE set

Mapped == {"agent", "handoff", "response", "generation", "function", "mcp_tools"}

getOperationName(type) ==
  CASE type \in {"agent", "handoff"} -> "invoke_agent"
    [] type = "function" -> "execute_tool"
    [] type \in {"generation", "response"} -> "chat"
    [] OTHER -> "CHAIN"

-----------------------------------------------------------------------------
(* onSpanStart *)

ParentSpan(s) ==
  LET a == AgentsSpans[s]
  IN IF a.parent = None THEN rootSpans[a.trace] ELSE IF a.parent \in otelSpans THEN a.parent ELSE None

\* A span without a parent is the trace's root from now on.
startAgentsSpan(s) ==
  /\ spans' = Put(spans, s, Started(ParentSpan(s),
                                    Attribute("operation.name", getOperationName(AgentsSpans[s].type))
                                      @@ Attribute("provider.name", "openai"), << >>))
  /\ rootSpans' = IF ParentSpan(s) # None THEN rootSpans
                  ELSE [rootSpans EXCEPT ![AgentsSpans[s].trace] = s]
  /\ otelSpans' = otelSpans \cup {s}

onSpanStart(s) ==
  /\ progress[s] = "none"
  /\ AgentsSpans[s].parent # None => progress[AgentsSpans[s].parent] = "started"
  /\ progress' = [progress EXCEPT ![s] = "started"]
  /\ IF AgentsSpans[s].type \in Mapped /\ Cardinality(otelSpans) < MaxSpans
     THEN startAgentsSpan(s)
     ELSE UNCHANGED <<spans, rootSpans, otelSpans>>
  /\ UNCHANGED <<reverseHandoffsDict, traceEnds, processorShutdown>>

-----------------------------------------------------------------------------
(* onSpanEnd *)

\* The first of the places for usage that has a number.  A place is [input, output]; -1 is no number.
extractUsageTokens(data) ==
  LET found == SelectSeq(data.usages, LAMBDA u : u.input >= 0 \/ u.output >= 0)
  IN IF found = <<>> THEN << >>
     ELSE LET usage == Head(found)
              counts == ("input_tokens" :> usage.input) @@ ("output_tokens" :> usage.output)
          IN [a \in {b \in DOMAIN counts : counts[b] >= 0} |-> counts[a]]

(* What went in and came out: [form, items]; "none", "raw", a "list" of messages [role, blocks], or
   "json", a text of such a list.  A block is [type, call_id, id], where the type "null" says that the
   block itself is null. *)

InputPartTypes == [input_text |-> "text", input_image |-> "blob", input_file |-> "file"]
OutputPartTypes == [output_text |-> "text", refusal |-> "text", tool_call |-> "tool_call",
                    function_call |-> "tool_call"]

mapContentBlock(block, types) ==
  LET type == IF block.type \in DOMAIN types THEN types[block.type] ELSE block.type
  IN [type |-> type, id |-> IF type # "tool_call" THEN None
                            ELSE IF block.call_id # None THEN block.call_id ELSE block.id]

wrapRawContentAsMessages(role) == <<[role |-> role, parts |-> <<[type |-> "text", id |-> None]>>]>>

buildStructuredMessages(items, role, types) ==
  [i \in DOMAIN items |->
     [role |-> IF items[i].role = None THEN role ELSE items[i].role,
      parts |-> [j \in DOMAIN items[i].blocks |-> mapContentBlock(items[i].blocks[j], types)]]]

Messages(name, value, role, types) ==
  [a \in IF value.form = "none" THEN {} ELSE {name} |->
     IF value.form = "list" THEN buildStructuredMessages(value.items, role, types)
     ELSE wrapRawContentAsMessages(role)]

\* In a generation even a list is raw content.
Raw(value) == [value EXCEPT !.form = IF @ = "none" THEN @ ELSE "raw"]

\* Reading the type of a block that is null throws.
HasNull(value) ==
  \E i \in DOMAIN value.items : \E j \in DOMAIN value.items[i].blocks : value.items[i].blocks[j].type = "null"
Throws(value) == value.form = "list" /\ HasNull(value)

\* The input is read also from a text, which is raw content if reading it throws.
Parsed(value) == [value EXCEPT !.form = IF @ # "json" THEN @ ELSE IF HasNull(value) THEN "raw" ELSE "list"]

OutputAttribute(value) == Messages("output.messages", value, "assistant", OutputPartTypes)
InputAttribute(value) ==
  IF SuppressInput THEN << >> ELSE Messages("input.messages", value, "user", InputPartTypes)

ToolAttribute(name, value) == Attribute(name, IF value.form = "none" THEN None ELSE "content")

getAttributesFromResponse(data) ==
  Attribute("request.model", data.model) @@ extractUsageTokens(data)

\* What has been set before it throws stays.
processResponseSpanData(data) ==
  IF Throws(data.output) THEN << >>
  ELSE OutputAttribute(data.output) @@ getAttributesFromResponse(data)
         @@ IF Throws(data.input) THEN << >> ELSE InputAttribute(Parsed(data.input))
ResponseThrows(data) == Throws(data.output) \/ (~SuppressInput /\ Throws(data.input))

\* The identity of the trace's root, for generations and functions.  The ending span is no root any
\* more.
stampCustomParent(roots, s) == Attribute("custom.parent.span.id", roots[AgentsSpans[s].trace])

processGenerationSpanData(data) ==
  Attribute("operation.name", "chat") @@ Attribute("request.model", data.model)
    @@ extractUsageTokens(data) @@ OutputAttribute(Raw(data.output)) @@ InputAttribute(Raw(data.input))

processFunctionSpanData(data) ==
  Attribute("operation.name", "execute_tool") @@ Attribute("tool.name", data.name)
    @@ Attribute("tool.type", "function")
    @@ ToolAttribute("tool.call.arguments", data.input) @@ ToolAttribute("tool.call.result", data.output)

processMCPListToolsSpanData(data) ==
  Attribute("operation.name", "execute_tool") @@ Attribute("tool.name", data.name)
    @@ Attribute("tool.type", "extension") @@ ToolAttribute("tool.call.result", data.output)

\* Remembers who handed over to whom.
processHandoffSpanData(data) ==
  Attribute("operation.name", "invoke_agent") @@ Attribute("agent.name", data.to)
    @@ Attribute("caller.agent.name", data.from)

\* Takes who handed over to this agent.
processAgentSpanData(data, s) ==
  Attribute("operation.name", "invoke_agent") @@ Attribute("agent.name", data.name)
    @@ Attribute("caller.agent.name", Lookup(reverseHandoffsDict, Key(data.name, s)))

processSpanData(s, roots) ==
  LET data == Data(s) IN
  CASE AgentsSpans[s].type = "response" -> processResponseSpanData(data)
    [] AgentsSpans[s].type = "generation" -> stampCustomParent(roots, s) @@ processGenerationSpanData(data)
    [] AgentsSpans[s].type = "function" -> stampCustomParent(roots, s) @@ processFunctionSpanData(data)
    [] AgentsSpans[s].type = "mcp_tools" -> processMCPListToolsSpanData(data)
    [] AgentsSpans[s].type = "handoff" -> processHandoffSpanData(data)
    [] AgentsSpans[s].type = "agent" -> processAgentSpanData(data, s)

ThrowsAtItsEnd(s) == AgentsSpans[s].type = "response" /\ ResponseThrows(Data(s))

\* The type of an error, which has some of "type", "name" and "message", or None.
ErrorType(error) ==
  CASE DOMAIN error = {} -> None
    [] "type" \in DOMAIN error -> error["type"]
    [] "name" \in DOMAIN error /\ "type" \notin DOMAIN error -> error["name"]
    [] OTHER -> "error"

Handed(s) == AgentsSpans[s].type = "handoff" /\ Data(s).to # None /\ Data(s).from # None
WithHandoff(s) == Remember(reverseHandoffsDict, Key(Data(s).to, s), Data(s).from)

\* Mutation: an agent's span does not take the handoff.
HandoffsKept(s) == IF Handed(s) THEN WithHandoff(s) ELSE reverseHandoffsDict

HandoffsAfter(s) ==
  CASE Handed(s) -> WithHandoff(s)
    [] AgentsSpans[s].type = "agent" -> Without(reverseHandoffsDict, Key(Data(s).name, s))
    [] OTHER -> reverseHandoffsDict

RootsAfter(s) == [t \in Traces |-> IF rootSpans[t] = s THEN None ELSE rootSpans[t]]

\* The span as processSpanData leaves it, and ended unless that throws.
ProcessedSpan(s) ==
  LET given == processSpanData(s, RootsAfter(s))
  IN IF ThrowsAtItsEnd(s) THEN WithAttributes(spans[s], given)
     ELSE Ended(spans[s], Attribute("error.type", ErrorType(AgentsSpans[s].error)) @@ given)

\* The span is looked up no more before its data are processed, which may throw.
onSpanEnd(s) ==
  /\ progress[s] = "started"
  /\ \A c \in DOMAIN AgentsSpans : AgentsSpans[c].parent = s => progress[c] # "started"
  /\ progress' = [progress EXCEPT ![s] = "ended"]
  /\ IF s \in otelSpans
     THEN /\ otelSpans' = otelSpans \ {s}
          /\ rootSpans' = RootsAfter(s)
          /\ spans' = [spans EXCEPT ![s] = ProcessedSpan(s)]
          /\ reverseHandoffsDict' = HandoffsAfter(s)
     ELSE UNCHANGED <<otelSpans, rootSpans, spans, reverseHandoffsDict>>
  /\ UNCHANGED <<traceEnds, processorShutdown>>

-----------------------------------------------------------------------------
\* Ends the root, with what it has got so far.
onTraceEnd(t) ==
  /\ t \notin traceEnds
  /\ \E s \in DOMAIN AgentsSpans : AgentsSpans[s].trace = t /\ progress[s] # "none"
  /\ traceEnds' = traceEnds \cup {t}
  /\ spans' = IF rootSpans[t] = None THEN spans ELSE [spans EXCEPT ![rootSpans[t]] = Ended(@, << >>)]
  /\ rootSpans' = [rootSpans EXCEPT ![t] = None]
  /\ UNCHANGED <<otelSpans, reverseHandoffsDict, progress, processorShutdown>>

\* Forgets the spans without ending them.  Bound: once.
shutdownProcessor ==
  /\ processorShutdown = {} /\ \E s \in otelSpans : IsOpen(s)
  /\ processorShutdown' = {s \in otelSpans : IsOpen(s)}
  /\ otelSpans' = {} /\ rootSpans' = [t \in Traces |-> None] /\ reverseHandoffsDict' = <<>>
  /\ UNCHANGED <<spans, progress, traceEnds>>

ProcessorInit ==
  /\ otelSpans = {} /\ rootSpans = [t \in Traces |-> None] /\ reverseHandoffsDict = <<>>
  /\ progress = [s \in DOMAIN AgentsSpans |-> "none"]
  /\ traceEnds = {} /\ processorShutdown = {}
=============================================================================
