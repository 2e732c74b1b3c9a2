------------------------------- MODULE A365Turns -------------------------------
(***************************************************************************)
(* Turns of an agent hosted with the A365 middleware: while a turn is      *)
(* processed its baggage is in the context, the application starts, fills  *)
(* and disposes of scopes, one within the other's callback, and what it    *)
(* sends has a span of its own (hosting/*.ts, scopes/OpenTelemetryScope).  *)
(*                                                                         *)
(* A turn is [activity, calls, within, ref]: the calls are the             *)
(* application's own to a BaggageBuilder when its turn begins; `within` is *)
(* the scope in whose callback the turn is processed, if any; and ref the  *)
(* scope whose span context it writes into the turn's state.  A scope has  *)
(* also [turn, within, ref, records], a send is [turn, within, texts].     *)
(***************************************************************************)
EXTENDS GenAISpans, A365Scopes

CONSTANTS Turns,      \* the turns, by identifier
          Scopes,     \* the scopes that the application starts, by identifier
          Sends,      \* what it sends, by identifier
          Hostings    \* the options with which it configures the middleware, sets of names

VARIABLES hosting,       \* <<the middleware registered>>, or nothing before configure
          turns,         \* the turns begun: [baggage, middleware]
          parentRefs,    \* for each turn, the scope referred to in its state, or None
          scopeCalls,    \* for each scope started, how many of its records are made
          errorTypes,    \* for each scope started, the type of error recorded
          sends          \* for each send, "none", "sending" or one of SendOutcomes

turnVars == <<hosting, turns, parentRefs, scopeCalls, errorTypes, sends>>

InvalidRef == "invalid"

\* The span that is active and the baggage in the context of a scope's callback, or of its turn.
ActiveSpan(t, within) == IF within # None THEN within ELSE Turns[t].within
Runs365(within) == within # None => IsOpen(within)

-----------------------------------------------------------------------------
(* ObservabilityHostingManager, and the beginning of a turn *)

NotConfigured == << >>

\* Only the first configuration counts.
configure(options) ==
  /\ hosting' = IF hosting = NotConfigured THEN <<options>> ELSE hosting
  /\ UNCHANGED <<spans, turns, parentRefs, scopeCalls, errorTypes, sends>>

AmbientBaggage(t) == IF Turns[t].within = None THEN NoBaggage ELSE turns[Scopes[Turns[t].within].turn].baggage

Registered == IF hosting = NotConfigured THEN {} ELSE hosting[1]

onTurn(t) ==
  /\ t \notin DOMAIN turns /\ Runs365(Turns[t].within)
  /\ LET ambient == AmbientBaggage(t)
         current == IF "baggage" \in Registered THEN MiddlewareBaggage(ambient, Turns[t].activity) ELSE ambient
         own == IF Turns[t].calls = <<>> THEN current ELSE BaggageScope(current, Built(Turns[t].calls))
     IN turns' = Put(turns, t, [baggage |-> own, middleware |-> Registered])
  /\ UNCHANGED <<spans, hosting, parentRefs, scopeCalls, errorTypes, sends>>

\* The application tells the middleware the span of a scope.
SetParentSpan(t) ==
  /\ Turns[t].ref # None /\ parentRefs[t] = None
  /\ Turns[t].ref = InvalidRef \/ Turns[t].ref \in DOMAIN spans
  /\ t \in DOMAIN turns
  /\ parentRefs' = [parentRefs EXCEPT ![t] = Turns[t].ref]
  /\ UNCHANGED <<spans, hosting, turns, scopeCalls, errorTypes, sends>>

-----------------------------------------------------------------------------
(* Scopes *)

\* The span of a scope.  A parent that is only referred to has no attributes to read, and one that
\* is no valid reference is as none.
ScopeSpan(t, within, ref, scope) ==
  LET refers == ref \notin {None, InvalidRef}
      active == ActiveSpan(t, within)
      attributes == Stamped("operation.name" :> scope.operation, turns[t].baggage)
      span == Started(IF refers THEN None ELSE active, attributes, ScopeTags(scope))
  IN IF refers THEN [span EXCEPT !.parent = ref] ELSE span

ScopeOf(s) ==
  IF Scopes[s].fromTurn THEN populateFromTurnContext(Scopes[s], Turns[Scopes[s].turn].activity)
  ELSE Scopes[s]

\* A scope that is refused throws and leaves no span.
startScope(s) ==
  LET t == Scopes[s].turn IN
  /\ s \notin DOMAIN scopeCalls /\ t \in DOMAIN turns /\ Runs365(Scopes[s].within)
  /\ Scopes[s].ref \in DOMAIN spans \cup {None, InvalidRef}
  /\ spans' = IF Accepted(ScopeOf(s))
              THEN Put(spans, s, ScopeSpan(t, Scopes[s].within, Scopes[s].ref, ScopeOf(s))) ELSE spans
  /\ scopeCalls' = Put(scopeCalls, s, 0)
  /\ errorTypes' = Put(errorTypes, s, None)
  /\ UNCHANGED <<hosting, turns, parentRefs, sends>>

recordOnScope(s) ==
  /\ s \in DOMAIN spans /\ scopeCalls[s] < Len(Scopes[s].records)
  /\ LET call == Scopes[s].records[scopeCalls[s] + 1] IN
       /\ spans' = IF call.record \in {"error", "cancellation", "finding"} THEN spans
                   ELSE [spans EXCEPT ![s] = WithAttributes(@, Recorded(call))]
       /\ errorTypes' = [errorTypes EXCEPT ![s] = RecordedError(call, @)]
  /\ scopeCalls' = [scopeCalls EXCEPT ![s] = @ + 1]
  /\ UNCHANGED <<hosting, turns, parentRefs, sends>>

\* The error's type is set when the scope ends.
endScope(span, errorType) == Ended(span, Attribute("error.type", errorType))

dispose(s) ==
  /\ IsOpen(s)
  /\ spans' = [spans EXCEPT ![s] = endScope(@, errorTypes[s])]
  /\ UNCHANGED turnVars

-----------------------------------------------------------------------------
(* OutputLoggingMiddleware *)

OutputScopeOf(m) ==
  LET activity == Turns[Sends[m].turn].activity IN
  [operation |-> "output_messages", request |-> RequestOf(activity),
   agent |-> deriveAgentDetails(activity), user |-> deriveCallerDetails(activity),
   output |-> [texts |-> Sends[m].texts]]

\* The handler is registered for a turn that has a recipient and a tenant.
Handles(t) ==
  /\ "output" \in turns[t].middleware
  /\ Turns[t].activity.recipient # << >> /\ Turns[t].activity.tenant # None

\* The reference is read when something is sent; without a handler, or texts, there is no span.
send(m) ==
  LET t == Sends[m].turn IN
  /\ sends[m] = "none" /\ t \in DOMAIN turns /\ Runs365(Sends[m].within)
  /\ spans' = IF Handles(t) /\ Sends[m].texts # <<>>
              THEN Put(spans, m, ScopeSpan(t, Sends[m].within, parentRefs[t], OutputScopeOf(m))) ELSE spans
  /\ sends' = [sends EXCEPT ![m] = "sending"]
  /\ UNCHANGED <<hosting, turns, parentRefs, scopeCalls, errorTypes>>

\* A sending may fail by throwing what is no error and cannot be printed either: it refers to itself.
SendOutcomes == {"sent", "failed", "unprintable"}

\* What was thrown is recorded, unless printing it throws, and the scope disposed of in any case.
SendSettles(m, outcome) ==
  /\ sends[m] = "sending"
  /\ spans' = IF m \in DOMAIN spans
              THEN [spans EXCEPT ![m] = endScope(@, IF outcome = "failed" THEN "Error" ELSE None)] ELSE spans
  /\ sends' = [sends EXCEPT ![m] = outcome]
  /\ UNCHANGED <<hosting, turns, parentRefs, scopeCalls, errorTypes>>

TurnsInit ==
  /\ hosting = NotConfigured /\ turns = << >>
  /\ parentRefs = [t \in DOMAIN Turns |-> None]
  /\ scopeCalls = << >> /\ errorTypes = << >>
  /\ sends = [m \in DOMAIN Sends |-> "none"]
=============================================================================
