------------------------- MODULE GenAIInstrumentors -------------------------
(***************************************************************************)
(* The singletons that instrument @openai/agents and @langchain/core, and  *)
(* the tracers that runs of LangChain get.                                 *)
(*                                                                         *)
(* An OpenAI instrumentor makes a processor of spans and registers it with *)
(* the agents' SDK in place of whatever was registered.  A LangChain       *)
(* instrumentor wraps CallbackManager._configureSync, which then attaches  *)
(* a tracer to the handlers of each run that have none.  Resetting a       *)
(* singleton neither removes the processor nor unwraps the function, so an *)
(* instrumentor that nothing refers to any more still acts, until the next *)
(* one takes its place: OpenTelemetry's _wrap takes a wrapper that it      *)
(* finds off first.  Both keep the options they were made with and a       *)
(* tracer of the SDK that was registered when they were made.              *)
(*                                                                         *)
(* Of the handlers that an application passes to its runs, the module      *)
(* follows one object from its first run on; others are like it.           *)
(***************************************************************************)
EXTENDS Naturals, Sequences

CONSTANTS Setups,  \* an SDK and an option: [sdk, flag], where the flag is suppressInvokeAgentInput
                   \* of OpenAI's instrumentor and enableSensitiveData of LangChain's
          MaxRuns  \* bound: runs of LangChain

ASSUME InstrumentorsAssumption == MaxRuns \in Nat

VARIABLES openai,      \* the instance's setup, or <<>> without one
          registered,  \* the setup of the registered processor, or <<>>
          langchain,   \* is there an instance?
          wrapper,     \* the setup of the instrumentor that wraps _configureSync, or <<>>
          tracer,      \* the setup of the tracer attached to the handlers, or <<>>
          since, at,   \* ghosts: the initialisation with an instance of LangChain's instrumentor
                       \* when the tracer was attached, and when the last run began; or 0
          runs         \* runs so far

instrumentorVars == <<openai, registered, langchain, wrapper>>
runVars == <<tracer, since, at, runs>>

InstrumentorsInit ==
  /\ openai = <<>> /\ registered = <<>>
  /\ langchain = FALSE /\ wrapper = <<>>
  /\ tracer = <<>> /\ since = 0 /\ at = 0 /\ runs = 0

\* instrument: the options of an instance that exists are kept, and it has been enabled.
InstrumentOpenAI(setup) ==
  /\ IF openai # <<>> THEN UNCHANGED <<openai, registered>>
     ELSE openai' = <<setup>> /\ registered' = <<setup>>
  /\ UNCHANGED <<langchain, wrapper, runVars>>

\* Mutation: the processor is shut down and the instance kept.
ResetOpenAIProcessor == UNCHANGED <<instrumentorVars, runVars>>

\* resetInstance: the processor forgets its spans, stays registered and starts others.
ResetOpenAI ==
  /\ openai' = <<>>
  /\ UNCHANGED <<registered, langchain, wrapper, runVars>>

\* An instance that exists and has wrapped the function reads the new flag; a new one wraps
\* the function anew.
InstrumentLangChain(setup) ==
  /\ langchain' = TRUE
  /\ wrapper' = IF langchain THEN [wrapper EXCEPT ![1].flag = setup.flag] ELSE <<setup>>
  /\ UNCHANGED <<openai, registered, runVars>>

ResetLangChain ==
  /\ langchain' = FALSE
  /\ UNCHANGED <<openai, registered, wrapper, runVars>>

\* Mutation: a tracer found among the handlers is left as it is.
addTracerOnly(handlers) == IF handlers = <<>> THEN wrapper ELSE handlers

\* A tracer found among the handlers is kept, with its SDK, and takes the flag.
addTracerToHandlers(handlers) ==
  IF handlers = <<>> THEN wrapper ELSE [handlers EXCEPT ![1].flag = wrapper[1].flag]

\* A run is configured, with the handlers of the runs before or with new ones; `now` is the
\* initialisation with an instance of LangChain's instrumentor, or 0.
ConfigureRun(now) ==
  /\ wrapper # <<>> /\ runs < MaxRuns
  /\ \E handlers \in {tracer, <<>>} :
       /\ tracer' = addTracerToHandlers(handlers)
       /\ since' = IF handlers = <<>> THEN now ELSE since
  /\ at' = now
  /\ runs' = runs + 1
  /\ UNCHANGED instrumentorVars

InstrumentorsTypeOK ==
  /\ {openai, registered, wrapper, tracer} \subseteq {<<>>} \cup {<<s>> : s \in Setups}
  /\ langchain \in BOOLEAN /\ (langchain => wrapper # <<>>)
  /\ openai # <<>> => registered = openai
  /\ since \in Nat /\ at \in Nat /\ runs \in 0 .. MaxRuns
=============================================================================
