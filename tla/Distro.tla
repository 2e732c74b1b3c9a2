------------------------------- MODULE Distro -------------------------------
(***************************************************************************)
(* The life cycle of the distribution: useMicrosoftOpenTelemetry, which    *)
(* returns at once and leaves two dynamic imports behind it, and           *)
(* shutdownMicrosoftOpenTelemetry, a chain of promises.  Both work on      *)
(* module-level variables and singletons, and nothing stops a caller from  *)
(* calling either again before the last call has settled.                  *)
(*                                                                         *)
(* SDK i, pipeline i and the options `given[i]` belong to the i-th         *)
(* initialisation.                                                         *)
(***************************************************************************)
EXTENDS SdkStats, GenAIInstrumentors, DistroSetup

CONSTANTS Options,       \* what callers pass, by name
          Statuses,      \* what comes of exporters' requests: an HTTP status or NoResponse
          MaxShutdowns,  \* bound: calls of shutdownMicrosoftOpenTelemetry
          RunsApart      \* bound: are runs of LangChain followed only where calls are orderly and
                         \* without requests, with which they share no variable?

ASSUME DistroAssumption ==
  /\ DOMAIN Options # {} /\ Options \in [DOMAIN Options -> Option]
  /\ Statuses \subseteq Nat /\ MaxShutdowns \in Nat /\ RunsApart \in BOOLEAN
  /\ Setups = [sdk: Inits, flag: BOOLEAN]

VARIABLES inits,       \* initialisations so far; `sdk` is the last one's
          given,       \* the names of their options
          isShutdown,
          sdks,        \* the state of each SDK
          loader,      \* whose browser SDK loader disposeAzureMonitor disposes of, or 0
          activeLoader,\* the loader that injects scripts, or 0
          console,     \* the instrumentation that patches `console`, or 0
          importing,   \* for both instrumentations, what awaits the import of its module, in
                       \* the order in which the imports resolve
          shutdowns,   \* where each call of shutdownMicrosoftOpenTelemetry stands
          orderly      \* was every initialisation made when all had settled, and any but the first
                       \* after a shutdown?

distroVars == <<inits, given, isShutdown, sdks, loader, activeLoader, console>>
vars == <<statsVars, instrumentorVars, runVars, distroVars, importing, shutdowns, orderly>>

Shutdowns == 1 .. MaxShutdowns

\* The stages of a shutdown: awaiting the SDK, the pipeline p of the statistics (with `first`,
\* whether this call is the one that shut it down), and the imports before both resets.
Stages == {"none", "sdk", "stats", "openai", "langchain", "done"}
Shutdown == [at: Stages, sdk: 0 .. MaxInits, p: 0 .. MaxInits, first: BOOLEAN]

\* An initialisation or a shutdown that awaits an import.
Importer == [use: Inits] \cup [reset: Shutdowns]

Settled == /\ \A s \in Shutdowns : shutdowns[s].at \in {"none", "done"}
           /\ \A k \in GenAIKeys : importing[k] = <<>>

\* The options in force.
Opt(i) == Options[given[i]]
Current == Opt(inits)

-----------------------------------------------------------------------------
(* useMicrosoftOpenTelemetry *)

\* initializeGenAIInstrumentations
ImportsOf(o, i) ==
  [k \in GenAIKeys |-> IF o.instrumentation[k] = "off" THEN importing[k]
                       ELSE Append(importing[k], [use |-> i])]

\* The features, for Azure Monitor's exporter to report; AKS only with Azure Monitor.
FeaturesOf(o) ==
       (IF AzureMonitorEnabled(o) /\ o.aks THEN {"aks"} ELSE {})
  \cup (IF o.a365 # "off" THEN {"a365"} ELSE {})
  \cup (IF o.otlp THEN {"otlp"} ELSE {})

useMicrosoftOpenTelemetry(name) ==
  LET i == inits + 1
      o == Options[name]
      loaderOf == IF AzureMonitorEnabled(o) /\ o.browser THEN i ELSE 0
  IN /\ inits < MaxInits
     /\ inits' = i
     /\ given' = [given EXCEPT ![i] = name]
     /\ isShutdown' = FALSE
     /\ loader' = loaderOf
     /\ activeLoader' = IF loaderOf = 0 THEN activeLoader ELSE i
     /\ setSdkStatsFeatures(FeaturesOf(o))
     /\ console' = IF "console" \in createInstrumentations(o) THEN i ELSE 0
     /\ sdks' = [sdks EXCEPT ![i] = "running"]
     /\ initialize(i, AzureMonitorEnabled(o), o.stats)
     /\ importing' = ImportsOf(o, i)
     /\ orderly' = (orderly /\ Settled /\ (inits > 0 => isShutdown))
     /\ UNCHANGED <<countVars, instrumentorVars, runVars, shutdowns>>

\* An instrumentor takes its tracer from the SDK that is registered by now.
OpenAISetup(i)    == [sdk |-> inits, flag |-> Opt(i).suppressInput]
LangChainSetup(i) == [sdk |-> inits, flag |-> Opt(i).sensitive]

\* The rest of the imports' functions, unless a shutdown came first.
InitializeOpenAI(i) ==
  IF isShutdown THEN UNCHANGED <<instrumentorVars, runVars>> ELSE InstrumentOpenAI(OpenAISetup(i))

\* Mutation: LangChain is instrumented after a shutdown, too.
InitializeLangChainAnyway(i) == InstrumentLangChain(LangChainSetup(i))

InitializeLangChain(i) ==
  IF isShutdown THEN UNCHANGED <<instrumentorVars, runVars>>
  ELSE InstrumentLangChain(LangChainSetup(i))

ImportedLangChain ==
  /\ importing["langchain"] # <<>>
  /\ InitializeLangChain(Head(importing["langchain"]).use)
  /\ importing' = [importing EXCEPT !["langchain"] = Tail(@)]
  /\ UNCHANGED <<statsVars, distroVars, shutdowns, orderly>>

ImportedOpenAI ==
  /\ importing["openaiAgents"] # <<>>
  /\ LET importer == Head(importing["openaiAgents"]) IN
     IF "use" \in DOMAIN importer
     THEN InitializeOpenAI(importer.use) /\ UNCHANGED shutdowns
     ELSE ResetOpenAI /\ shutdowns' = [shutdowns EXCEPT ![importer.reset].at = "langchain"]
  /\ importing' = [importing EXCEPT !["openaiAgents"] = Tail(@)]
  /\ UNCHANGED <<statsVars, distroVars, orderly>>

\* A run of LangChain, at any time: before, under or after an initialisation.
LangChainRun ==
  /\ RunsApart => orderly /\ SumOf(requests) = 0
  /\ ConfigureRun(IF langchain THEN inits ELSE 0)
  /\ UNCHANGED <<statsVars, distroVars, importing, shutdowns, orderly>>

-----------------------------------------------------------------------------
(* shutdownMicrosoftOpenTelemetry *)

shutdownMicrosoftOpenTelemetry(s) ==
  /\ shutdowns[s].at = "none" /\ \A r \in Shutdowns : r < s => shutdowns[r].at # "none"
  /\ isShutdown' = TRUE
  /\ console' = 0
  /\ activeLoader' = IF loader = 0 THEN activeLoader ELSE 0
  /\ sdks' = IF inits > 0 /\ sdks[inits] = "running" THEN [sdks EXCEPT ![inits] = "closing"]
             ELSE sdks
  /\ shutdowns' = [shutdowns EXCEPT ![s].at = "sdk", ![s].sdk = inits]
  /\ UNCHANGED <<statsVars, instrumentorVars, runVars, inits, given, loader, importing, orderly>>

\* The providers of an SDK have flushed their processors, or failed to.
SdkClosed(i) ==
  /\ sdks[i] = "closing"
  /\ \E outcome \in {"closed", "failed"} : sdks' = [sdks EXCEPT ![i] = outcome]
  /\ UNCHANGED <<statsVars, instrumentorVars, runVars, inits, given, isShutdown, loader,
                 activeLoader, console, importing, shutdowns, orderly>>

\* resetGenAIInstrumentations imports the module that initialisations import for OpenAI; the
\* one for LangChain, which they import together with LangChain itself, may come sooner.
resetGenAIInstrumentations(s) ==
  importing' = [importing EXCEPT !["openaiAgents"] = Append(@, [reset |-> s])]

\* Mutation: `then`.
SdkSucceeded(sdk) == sdk # 0 => sdks[sdk] = "closed"

\* `finally` goes on after a failure, too.
SdkAnswered(sdk) == sdk # 0 => sdks[sdk] \in {"closed", "failed"}

SdkSettled(s) ==
  /\ shutdowns[s].at = "sdk" /\ SdkAnswered(shutdowns[s].sdk)
  /\ IF pipeline = 0
     THEN /\ shutdowns' = [shutdowns EXCEPT ![s].at = "openai"]
          /\ resetGenAIInstrumentations(s)
          /\ UNCHANGED <<managerVars, pipelines>>
     ELSE /\ shutdownStats
          /\ shutdowns' = [shutdowns EXCEPT ![s].at = "stats", ![s].p = pipeline,
                                            ![s].first = (pipelines[pipeline].state = "open")]
          /\ UNCHANGED importing
  /\ UNCHANGED <<countVars, env, instrumentorVars, runVars, distroVars, orderly>>

\* A meter provider that was shut down already answers the second call at once.
StatsSettled(s) ==
  LET c == shutdowns[s] IN
  /\ c.at = "stats" /\ (c.first => pipelines[c.p].state = "closed")
  /\ cleanup
  /\ shutdowns' = [shutdowns EXCEPT ![s].at = "openai"]
  /\ resetGenAIInstrumentations(s)
  /\ UNCHANGED <<countVars, env, instrumentorVars, runVars, distroVars, orderly>>

LangChainReset(s) ==
  /\ shutdowns[s].at = "langchain"
  /\ ResetLangChain
  /\ shutdowns' = [shutdowns EXCEPT ![s].at = "done"]
  /\ UNCHANGED <<statsVars, distroVars, importing, orderly>>

-----------------------------------------------------------------------------

Init ==
  /\ SdkStatsInit /\ InstrumentorsInit
  /\ inits = 0 /\ given = [i \in Inits |-> CHOOSE name \in DOMAIN Options : TRUE]
  /\ isShutdown = FALSE
  /\ sdks = [i \in Inits |-> "none"]
  /\ loader = 0 /\ activeLoader = 0 /\ console = 0
  /\ importing = [k \in GenAIKeys |-> <<>>]
  /\ shutdowns = [s \in Shutdowns |-> [at |-> "none", sdk |-> 0, p |-> 0, first |-> FALSE]]
  /\ orderly = TRUE

lifeVars == <<instrumentorVars, runVars, distroVars, importing, shutdowns, orderly>>

\* The statistics' own steps, and requests of the exporters.
RequestMade ==
  /\ RunsApart => runs = 0
  /\ \E status \in Statuses : Request(OutcomeOf(status))
  /\ UNCHANGED lifeVars
StatsExport(p) == Collect(p) /\ UNCHANGED lifeVars
StatsClosed(p) == PipelineClosed(p) /\ UNCHANGED lifeVars
TimerFires     == InitialExport /\ UNCHANGED lifeVars

Next ==
  \/ \E name \in DOMAIN Options : useMicrosoftOpenTelemetry(name)
  \/ \E s \in Shutdowns : shutdownMicrosoftOpenTelemetry(s) \/ SdkSettled(s) \/ StatsSettled(s)
                          \/ LangChainReset(s)
  \/ \E i \in Inits : SdkClosed(i) \/ StatsExport(i) \/ StatsClosed(i)
  \/ ImportedOpenAI \/ ImportedLangChain \/ LangChainRun
  \/ RequestMade \/ TimerFires

\* Promises that are settled run what awaits them; providers finish shutting down, or give up.
\* Each of these steps happens a bounded number of times.
Goes(s)   == SdkSettled(s) \/ StatsSettled(s) \/ LangChainReset(s)
Closes(i) == SdkClosed(i) \/ StatsClosed(i)
Imports   == ImportedOpenAI \/ ImportedLangChain

Fairness ==
  /\ WF_vars(Imports)
  /\ \A i \in Inits : WF_vars(Closes(i))
  /\ \A s \in Shutdowns : WF_vars(Goes(s))

Spec == Init /\ [][Next]_vars /\ Fairness

-----------------------------------------------------------------------------

TypeOK ==
  /\ SdkStatsTypeOK /\ InstrumentorsTypeOK
  /\ inits \in 0 .. MaxInits /\ given \in [Inits -> DOMAIN Options]
  /\ isShutdown \in BOOLEAN /\ orderly \in BOOLEAN
  /\ sdks \in [Inits -> {"none", "running", "closing", "closed", "failed"}]
  /\ loader \in 0 .. MaxInits /\ activeLoader \in 0 .. MaxInits /\ console \in 0 .. MaxInits
  /\ importing \in [GenAIKeys -> Seq(Importer)]
  /\ shutdowns \in [Shutdowns -> Shutdown]

\* Whatever calls overlapped: once all has settled and the last call was a shutdown, `console`
\* is itself again, neither instrumentor has an instance left, the statistics are down, and so
\* is the last SDK.  If the calls were orderly there is no SDK, no pipeline and no browser
\* loader of any initialisation left (distro.ts:465, manager.ts:230).  The wrapper of LangChain
\* and the registered processor of spans remain, and go on making spans of a closed SDK.
ShutdownLeavesNothing ==
  isShutdown /\ Settled =>
    /\ console = 0 /\ openai = <<>> /\ ~langchain
    /\ pipeline = 0 /\ ~exportTimer
    /\ inits > 0 => sdks[inits] \in {"closed", "failed"}
    /\ orderly => /\ \A i \in Inits : sdks[i] \in {"none", "closed", "failed"}
                  /\ \A p \in Inits : pipelines[p].state \in {"none", "closed"}
                  /\ activeLoader = 0

\* After orderly calls the last initialisation has what it asked for: its statistics count the
\* features unless its Azure Monitor does, and each instrumentor that it turned on has its
\* options and its SDK: the processor that is registered with the agents' SDK, and the wrapper
\* of LangChain's function, which gives its tracer to handlers that have none
\* (distro.ts:413-460).  Nothing is said of an instrumentor that it turned off: what an earlier
\* one registered or wrapped is still there.
ReinitialisationIsServed ==
  orderly /\ ~isShutdown /\ inits > 0 /\ Settled =>
    /\ Current.stats => /\ pipeline = inits
                        /\ pipelines[pipeline] = [state |-> "open",
                                                  networkOnly |-> AzureMonitorEnabled(Current)]
    /\ IF Current.instrumentation["openaiAgents"] = "off" THEN openai = <<>>
       ELSE /\ openai = <<[sdk |-> inits, flag |-> Current.suppressInput]>>
            /\ registered = openai
    /\ langchain <=> Current.instrumentation["langchain"] # "off"
    /\ langchain => wrapper = <<[sdk |-> inits, flag |-> Current.sensitive]>>

\* After orderly calls, handlers that first ran under an instance of LangChain's instrumentor
\* have a tracer of the SDK of that time, and keep it when they are reused under later ones;
\* and every run under an instance has the flag of the initialisation in force, on new handlers
\* and on old ones (langchainTraceInstrumentor.ts:210).  Nothing is said of runs that begin
\* without an instance: the wrapper that is left gives new handlers a tracer of a closed SDK.
LangChainRunsAreServed ==
  orderly /\ tracer # <<>> =>
    /\ since # 0 => tracer[1].sdk = since
    /\ at # 0 => tracer[1].flag = Opt(at).sensitive

\* Azure Monitor's exporter reports the AKS feature of this process, never one inherited from
\* a parent or an earlier initialisation, while an inherited shim is not lost (sdkStats.ts:26).
FeaturesOfThisProcess ==
  inits > 0 => /\ "aks" \in env.features <=> AzureMonitorEnabled(Current) /\ Current.aks
               /\ {"shim", "distro"} \cap env.features # {}
               /\ FeaturesOf(Current) \subseteq env.features

\* Every variable is of its type; what every initialisation built exports its spans somewhere and
\* keeps the caller's choices (distro.ts:99, 369); and the features are those of this process.
WellFormed ==
  /\ TypeOK
  /\ FeaturesOfThisProcess
  /\ \A i \in 1 .. inits : SpansHaveAnExit(Opt(i)) /\ ChoicesAreKept(Opt(i))

\* A call of shutdownMicrosoftOpenTelemetry settles, whatever fails on the way.
ShutdownsSettle ==
  \A s \in Shutdowns : shutdowns[s].at = "sdk" ~> shutdowns[s].at = "done"
=============================================================================
