--------------------------- MODULE LangChainTracer ---------------------------
(***************************************************************************)
(* LangChainTracer: a span for every run that is an agent's, a tool's or a *)
(* model's.  LangChain calls onRunCreate when a run starts and _endTrace   *)
(* when it ends; a run starts after its parent has, but nothing makes it   *)
(* end before it: an application may leave work running behind.            *)
(***************************************************************************)
EXTENDS GenAISpans

CONSTANTS Runs,      \* the runs of the application, by identifier
          MaxRuns,   \* MAX_RUNS
          MaySuppress, \* bound: <<run, callback>> that may come while tracing is suppressed
          NewFlags   \* bound: the flags that re-instrumentations set

ASSUME LangChainTracerAssumption ==
  /\ MaxRuns \in Nat \ {0} /\ NewFlags \subseteq BOOLEAN
  /\ IsFiniteSet(DOMAIN Runs) /\ \A r \in DOMAIN Runs : Runs[r].parent \in DOMAIN Runs \cup {None}

VARIABLES runs,                \* the runs that have an entry: their spans are open
          parentByRunId,
          enableSensitiveData,
          callbacks            \* which runs LangChain has started or ended
tracerVars == <<runs, parentByRunId, enableSensitiveData, callbacks>>

\* Runs that LangChain makes for itself get no span.
Skipped(r) == Runs[r].hidden \/ Runs[r].branch \/ getOperationType(Runs[r]) = "unknown"

\* The nearest of the runs above r, as far up as parentByRunId tells, that is one of `among`, or None.
Nearest(r, among) ==
  LET up[n \in 0 .. Cardinality(DOMAIN Runs)] ==
        IF n = 0 THEN Runs[r].parent
        ELSE IF up[n - 1] \in DOMAIN parentByRunId THEN parentByRunId[up[n - 1]] ELSE None
      found == {n \in 0 .. Cardinality(DOMAIN Runs) : up[n] \in among}
  IN IF found = {} THEN None ELSE up[Min(found)]

getNearestParentSpan(r) == Nearest(r, runs)

findCallerAgentName(r) ==
  LET caller == Nearest(r, {p \in runs : getOperationType(Runs[p]) = "invoke_agent"})
  IN IF caller = None THEN None ELSE Runs[caller].name

-----------------------------------------------------------------------------
(* onRunCreate *)

\* Mutation: the agent and the session are set when the span ends, only.
IdentityAtEnd(r) == setOperationTypeAttribute(Runs[r])

\* What is set right after the start, for the processors of its children's spans to see.
IdentityAttributes(r) ==
  setOperationTypeAttribute(Runs[r]) @@ setAgentAttributes(Runs[r]) @@ setSessionIdAttribute(Runs[r])

startSpan(r) ==
  Started(getNearestParentSpan(r), Attribute("provider.name", "langchain"), IdentityAttributes(r))

startTracing(r, suppressed) ==
  IF suppressed \/ Skipped(r)
  THEN parentByRunId' = Put(parentByRunId, r, Runs[r].parent) /\ UNCHANGED <<spans, runs>>
  ELSE IF Cardinality(runs) >= MaxRuns
       THEN UNCHANGED <<spans, runs, parentByRunId>>
       ELSE /\ spans' = Put(spans, r, startSpan(r))
            /\ runs' = runs \cup {r}
            /\ parentByRunId' = Put(parentByRunId, r, Runs[r].parent)

Suppressions(r, callback) == IF <<r, callback>> \in MaySuppress THEN BOOLEAN ELSE {FALSE}

onRunCreate(r, suppressed) ==
  /\ callbacks[r] = "none"
  /\ Runs[r].parent # None => callbacks[Runs[r].parent] # "none"
  /\ startTracing(r, suppressed)
  /\ callbacks' = [callbacks EXCEPT ![r] = "started"]
  /\ UNCHANGED enableSensitiveData

-----------------------------------------------------------------------------
(* _endTrace *)

\* What is always recorded.  A tool's name and type are, its arguments and result with the content.
EndAttributes(r) ==
  LET run == Runs[r] IN
  Attribute("error.message", run.error)
    @@ setOperationTypeAttribute(run) @@ setAgentAttributes(run)
    @@ Attribute("caller.agent.name",
                 IF getOperationType(run) = "invoke_agent" THEN findCallerAgentName(r) ELSE None)
    @@ setModelAttribute(run) @@ setChoiceCountAttribute(run) @@ setRequestAttributes(run)
    @@ setResponseIdAttribute(run) @@ setFinishReasonsAttribute(run)
    @@ setProviderNameAttribute(run) @@ setSessionIdAttribute(run) @@ setTokenAttributes(run)
    @@ setToolAttributes(run, enableSensitiveData)

\* Outputs that are malformed make the function that reads them throw.
ContentAttributes(r) ==
  LET run == Runs[r] IN
  IF ~enableSensitiveData THEN << >>
  ELSE setInputMessagesAttribute(run)
         @@ IF run.malformed THEN << >>
            ELSE setOutputMessagesAttribute(run) @@ setSystemInstructionsAttribute(run)

Forget(r) ==
  /\ runs' = runs \ {r}
  /\ parentByRunId' = Restrict(parentByRunId, DOMAIN parentByRunId \ {r})

\* Mutation: what throws leaves the span open.
EndUnlessThrown(r) ==
  IF Runs[r].malformed /\ enableSensitiveData THEN spans[r]
  ELSE Ended(spans[r], ContentAttributes(r) @@ EndAttributes(r))

\* Whatever throws, the span ends.
endSpan(r) == Ended(spans[r], ContentAttributes(r) @@ EndAttributes(r))

\* A run that was suppressed, or came over the limit, has no entry.
_endTrace(r, suppressed) ==
  /\ callbacks[r] = "started"
  /\ callbacks' = [callbacks EXCEPT ![r] = "ended"]
  /\ IF suppressed
     THEN /\ spans' = IF r \in runs THEN [spans EXCEPT ![r] = Ended(@, << >>)] ELSE spans
          /\ Forget(r)
     ELSE IF Skipped(r) \/ r \notin runs
          THEN UNCHANGED <<spans, runs, parentByRunId>>
          ELSE spans' = [spans EXCEPT ![r] = endSpan(r)] /\ Forget(r)
  /\ UNCHANGED enableSensitiveData

\* A re-instrumentation that finds the tracer attached.
setEnableSensitiveData(flag) ==
  /\ enableSensitiveData' = flag
  /\ UNCHANGED <<spans, runs, parentByRunId, callbacks>>

TracerInit ==
  /\ runs = {} /\ parentByRunId = << >>
  /\ enableSensitiveData \in BOOLEAN
  /\ callbacks = [r \in DOMAIN Runs |-> "none"]
=============================================================================
