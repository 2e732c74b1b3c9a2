---------------------------- MODULE DistroSetup ----------------------------
(***************************************************************************)
(* What useMicrosoftOpenTelemetry builds from its options: the             *)
(* instrumentations, and the chain of span processors.  Pure definitions.  *)
(***************************************************************************)
EXTENDS Naturals, Sequences, SequencesExt

\* Three keys stand for the instrumentations that are on by default (http, and the pair that
\* shares one instrumentation), one for those that are off by default (console), and two for
\* generative AI.
InfraKeys == {"http", "redis", "redis4", "console"}
GenAIKeys == {"openaiAgents", "langchain"}
InstrumentationKeys == InfraKeys \cup GenAIKeys

\* What the caller says of a key; "default" if nothing.
Choice == {"default", "on", "off"}

Option == [azure: {"off", "valid", "invalid"},      \* invalid: without a connection string
           browser: BOOLEAN, aks: BOOLEAN,
           otlp: BOOLEAN,
           a365: {"off", "on", "exporting"},
           custom: BOOLEAN,                         \* processors or readers of the caller
           console: Choice,                        \* enableConsoleExporters
           instrumentation: [InstrumentationKeys -> Choice],
           suppressInput: BOOLEAN,                  \* suppressInvokeAgentInput of openaiAgents
           sensitive: BOOLEAN,                      \* enableSensitiveData, for LangChain
           stats: BOOLEAN]                          \* are the statistics enabled and available?

AzureMonitorEnabled(o) == o.azure = "valid"

-----------------------------------------------------------------------------
(* Instrumentations *)

applyA365Defaults(o) == o.a365 # "off" /\ ~AzureMonitorEnabled(o)

Explicit(o, key) ==
  \/ o.instrumentation[key] # "default"
  \/ key \in {"redis", "redis4"} /\ \E k \in {"redis", "redis4"} : o.instrumentation[k] # "default"

\* The options after the defaults of A365, which turn off what the caller did not mention.
Enabled(o, key) ==
  IF key \in InfraKeys /\ applyA365Defaults(o) /\ ~Explicit(o, key) THEN FALSE
  ELSE CASE o.instrumentation[key] = "on" -> TRUE
         [] o.instrumentation[key] = "off" -> FALSE
         [] OTHER -> key # "console"

createInstrumentations(o) ==
  (IF Enabled(o, "http") THEN {"http"} ELSE {})
  \cup (IF Enabled(o, "redis") \/ Enabled(o, "redis4") THEN {"redis"} ELSE {})
  \cup (IF Enabled(o, "console") THEN {"console"} ELSE {})

-----------------------------------------------------------------------------
(* Span processors *)

If(condition, processor) == IF condition THEN <<processor>> ELSE <<>>

\* Mutation: as if A365 always exported.
ConsoleEnabledWithoutA365(o) ==
  CASE o.console = "on" -> TRUE
    [] o.console = "off" -> FALSE
    [] OTHER -> ~AzureMonitorEnabled(o) /\ ~o.otlp /\ o.a365 = "off" /\ ~o.custom

ConsoleEnabled(o) ==
  CASE o.console = "on" -> TRUE
    [] o.console = "off" -> FALSE
    [] OTHER -> ~AzureMonitorEnabled(o) /\ ~o.otlp /\ o.a365 # "exporting" /\ ~o.custom

SpanProcessors(o) ==
     If(AzureMonitorEnabled(o), "azureMonitor")
  \o If(AzureMonitorEnabled(o), "mainAgent")
  \o If(o.custom, "custom")
  \o If(o.otlp, "otlpBatch")
  \o If(o.a365 # "off", "a365")
  \o If(o.a365 = "exporting", "a365Batch")
  \o If(ConsoleEnabled(o), "consoleSimple")
  \o If(AzureMonitorEnabled(o), "azureMonitorBatch")

Exporting == {"otlpBatch", "a365Batch", "consoleSimple", "azureMonitorBatch"}

-----------------------------------------------------------------------------

\* Unless the caller said otherwise, spans are exported somewhere; the main agent's processor,
\* which still sets attributes when a span ends, comes before everything that takes them then.
SpansHaveAnExit(o) ==
  LET chain == SpanProcessors(o) IN
  /\ o.console # "off" /\ ~o.custom => Exporting \cap ToSet(chain) # {}
  /\ \A i, j \in 1 .. Len(chain) :
       chain[i] = "mainAgent" /\ chain[j] \in Exporting \cup {"custom"} => i < j
  /\ AzureMonitorEnabled(o) => Contains(chain, "mainAgent")

\* What the caller says of an instrumentation is what happens, and asking for one of redis and
\* redis4 is enough.
ChoicesAreKept(o) ==
  /\ \A key \in {"http", "console"} :
       o.instrumentation[key] # "default" =>
         (key \in createInstrumentations(o) <=> o.instrumentation[key] = "on")
  /\ (\E key \in {"redis", "redis4"} : o.instrumentation[key] = "on")
       => "redis" \in createInstrumentations(o)
=============================================================================
