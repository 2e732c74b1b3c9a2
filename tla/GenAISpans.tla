----------------------------- MODULE GenAISpans -----------------------------
(***************************************************************************)
(* The spans that the instrumentations of GenAI frameworks start, and the  *)
(* processors of mainAgent/processor.ts, which write the main agent's      *)
(* identity on them when they start and when they end.                     *)
(*                                                                         *)
(* A span is [parent, attributes, ended]; the parent is a span or None, and *)
(* attributes are a function from names to values.  A span started in a    *)
(* context of the application's has no parent here: no agent is known      *)
(* there.                                                                  *)
(***************************************************************************)
EXTENDS LangChainRun

VARIABLE spans       \* the spans started, by the identifiers of what they are for

\* The main agent's attributes, and the attribute of a parent that stands in for each.
Fallback == ("main_agent.name" :> "agent.name") @@ ("main_agent.id" :> "agent.id")
              @@ ("main_agent.version" :> "agent.version")
              @@ ("main_agent.conversation_id" :> "conversation.id")
MainAgentKeys == DOMAIN Fallback

MainAgentOf(attributes) ==
  [n \in {m \in MainAgentKeys : m \in DOMAIN attributes} |-> attributes[n]]

\* GenAIMainAgentSpanProcessor: from the parent's attributes as they are now.
onStart(attributes, parent) ==
  IF parent = None THEN attributes
  ELSE LET from == spans[parent].attributes
           found == {n \in MainAgentKeys : n \in DOMAIN from \/ Fallback[n] \in DOMAIN from}
       IN [n \in found |-> IF n \in DOMAIN from THEN from[n] ELSE from[Fallback[n]]] @@ attributes

\* An agent that no main agent is known for is one.
onEnd(attributes) ==
  IF attributes["operation.name"] # "invoke_agent" \/ DOMAIN MainAgentOf(attributes) # {}
  THEN attributes
  ELSE [n \in {m \in MainAgentKeys : Fallback[m] \in DOMAIN attributes} |-> attributes[Fallback[n]]]
         @@ attributes

-----------------------------------------------------------------------------
(* OpenTelemetry's spans *)

\* With attributes from the start, given to onStart, and some set right after.
Started(parent, attributes, later) ==
  [parent |-> parent, attributes |-> later @@ onStart(attributes, parent), ended |-> FALSE]

\* An ended span does not change.
Ended(span, attributes) ==
  IF span.ended THEN span
  ELSE [span EXCEPT !.attributes = onEnd(attributes @@ @), !.ended = TRUE]

WithAttributes(span, attributes) ==
  IF span.ended THEN span ELSE [span EXCEPT !.attributes = attributes @@ @]

\* The map f with x set to v.
Put(f, x, v) == [y \in DOMAIN f \cup {x} |-> IF y = x THEN v ELSE f[y]]

IsOpen(s) == s \in DOMAIN spans /\ ~spans[s].ended
=============================================================================
