---------------------------- MODULE Distro_proof ----------------------------
(***************************************************************************)
(* Proofs about the life cycle of the distribution: for any options,       *)
(* exporters' requests and numbers of calls, however they overlap.         *)
(*                                                                         *)
(* What makes the invariant inductive is, first, to name the calls that    *)
(* came after the last initialisation (Since): each stage they have passed *)
(* has taken something down that only another initialisation can bring     *)
(* back; and second, for orderly calls, that whatever is not of the last   *)
(* initialisation is gone, so that none of it can act on what replaced it. *)
(***************************************************************************)
EXTENDS Distro, FiniteSetTheorems, SequenceTheorems, WellFoundedInduction, TLAPS

Queue == importing["openaiAgents"]

IsUse(importer) == "use" \in DOMAIN importer

\* What awaits an import is of an initialisation made, or of a shutdown that awaits it, once.
OpenAIQueueOK ==
  /\ \A n \in 1 .. Len(Queue) :
       IF IsUse(Queue[n]) THEN Queue[n].use <= inits
       ELSE shutdowns[Queue[n].reset].at = "openai"
  /\ \A m, n \in 1 .. Len(Queue) :
       ~IsUse(Queue[m]) /\ ~IsUse(Queue[n]) /\ Queue[m].reset = Queue[n].reset => m = n

LangChainQueueOK ==
  /\ importing["langchain"] \in Seq([use: Inits])
  /\ \A n \in 1 .. Len(importing["langchain"]) : importing["langchain"][n].use <= inits

QueuesOK == OpenAIQueueOK /\ LangChainQueueOK

At(s, stages) == shutdowns[s].at \in stages

\* The shutdowns that were called after the last initialisation.
Since == {s \in Shutdowns : shutdowns[s].at # "none" /\ shutdowns[s].sdk = inits}

\* What a shutdown has taken down by the stage that it is at.
Down(s) ==
  /\ inits > 0 /\ ~At(s, {"sdk"}) => sdks[inits] \in {"closed", "failed"}
  /\ At(s, {"openai", "langchain", "done"}) => pipeline = 0
  /\ At(s, {"langchain", "done"}) => openai = <<>>
  /\ At(s, {"done"}) => ~langchain

\* It stays down until the next initialisation.
TakenDown ==
  /\ \A s \in Shutdowns : shutdowns[s].sdk <= inits
  /\ isShutdown <=> Since # {}
  /\ isShutdown => console = 0
  /\ pipeline = 0 => ~exportTimer
  /\ \A s \in Since : Down(s)

\* What is not yet initialised is not there.
NotBefore ==
  /\ pipeline <= inits /\ loader <= inits /\ activeLoader <= inits
  /\ \A i \in Inits : i > inits => sdks[i] = "none" /\ pipelines[i].state = "none"
  /\ inits = 0 => openai = <<>> /\ ~langchain

\* A pipeline that closes has a shutdown that waits for it.
PipelinesOK ==
  /\ pipeline # 0 => pipelines[pipeline].state # "none"
  /\ \A p \in Inits : pipelines[p].state = "closing" =>
       \E s \in Shutdowns : At(s, {"stats"}) /\ shutdowns[s].first /\ shutdowns[s].p = p
  /\ \A s \in Shutdowns : At(s, {"stats"}) =>
       shutdowns[s].p \in Inits /\ pipelines[shutdowns[s].p].state \in {"closing", "closed"}

OpenAIWanted    == [sdk |-> inits, flag |-> Current.suppressInput]
LangChainWanted == [sdk |-> inits, flag |-> Current.sensitive]

\* The last initialisation is served, or will be when its imports resolve.
InService ==
  /\ \A s \in Shutdowns : At(s, {"none", "done"})
  /\ Current.stats => /\ pipeline = inits
                      /\ pipelines[pipeline] = [state |-> "open",
                                                networkOnly |-> AzureMonitorEnabled(Current)]
  /\ IF Current.instrumentation["openaiAgents"] = "off"
     THEN openai = <<>> /\ Queue = <<>>
     ELSE \/ openai = <<>> /\ Queue = <<[use |-> inits]>>
          \/ openai = <<OpenAIWanted>> /\ Queue = <<>>
  /\ IF Current.instrumentation["langchain"] = "off"
     THEN ~langchain /\ importing["langchain"] = <<>>
     ELSE \/ ~langchain /\ importing["langchain"] = <<[use |-> inits]>>
          \/ langchain /\ wrapper = <<LangChainWanted>> /\ importing["langchain"] = <<>>

\* After orderly calls nothing but the last initialisation is at work.
NothingElse ==
  /\ \A s \in Shutdowns : At(s, {"none", "done"}) \/ s \in Since
  /\ \A i \in Inits : i # inits => sdks[i] \in {"none", "closed", "failed"}
  /\ \A p \in Inits : pipelines[p].state = "open" => p = pipeline
  /\ \A s \in Shutdowns : At(s, {"stats"}) => pipeline \in {0, shutdowns[s].p}
  /\ activeLoader \in {0, loader} /\ (isShutdown => activeLoader = 0)
  /\ ~isShutdown /\ inits > 0 => InService

OrderlyOK == orderly => NothingElse

\* After orderly calls the instance of LangChain's instrumentor, if there is one, is that of
\* the last initialisation, and what runs have had of instances is as it should be.
RunsOK ==
  /\ since <= inits /\ at <= inits
  /\ orderly /\ langchain => wrapper = <<LangChainWanted>>
  /\ LangChainRunsAreServed

IInv ==
  /\ TypeOK /\ FeaturesOfThisProcess /\ EachRequestReportedOnce
  /\ QueuesOK /\ TakenDown /\ NotBefore /\ PipelinesOK /\ OrderlyOK /\ RunsOK

-----------------------------------------------------------------------------
(* The sum of the counters *)

Pick(s) == CHOOSE x \in s : TRUE

\* The recursion behind SumOf.
Sums(g, f) ==
  g = [s \in SUBSET Counters |-> IF s = {} THEN 0 ELSE f[Pick(s)] + g[s \ {Pick(s)}]]

Part(f, s, c) == IF c \in s THEN f[c] ELSE 0

Total(f, s) ==
  Part(f, s, "success") + Part(f, s, "retry") + Part(f, s, "throttle")
    + Part(f, s, "failure") + Part(f, s, "exception")

LEMMA CountersAre ==
  Counters = {"success", "retry", "throttle", "failure", "exception"}
BY DEF Counters, Outcomes, StatusKinds

LEMMA CountersFinite == IsFiniteSet(Counters)
<1>1. IsFiniteSet({"success"})
  BY FS_Singleton
<1>2. IsFiniteSet({"success", "retry"})
  BY <1>1, FS_AddElement, {"success", "retry"} = {"success"} \cup {"retry"}
<1>3. IsFiniteSet({"success", "retry", "throttle"})
  BY <1>2, FS_AddElement,
     {"success", "retry", "throttle"} = {"success", "retry"} \cup {"throttle"}
<1>4. IsFiniteSet({"success", "retry", "throttle", "failure"})
  BY <1>3, FS_AddElement, {"success", "retry", "throttle", "failure"}
                            = {"success", "retry", "throttle"} \cup {"failure"}
<1>5. Counters = {"success", "retry", "throttle", "failure"} \cup {"exception"}
  BY CountersAre
<1> QED
  BY <1>4, <1>5, FS_AddElement

\* A nonempty set of subsets of a finite set has a minimal member.
LEMMA MinimalExists ==
  ASSUME NEW U, IsFiniteSet(U), NEW Sets \in SUBSET (SUBSET U), Sets # {}
  PROVE  \E s \in Sets : \A t \in Sets : t \subseteq s => t = s
<1>1. IsWellFoundedOn(StrictSubsetOrdering(U), FiniteSubsetsOf(U))
  BY FS_StrictSubsetOrderingWellFounded
<1>2. FiniteSubsetsOf(U) = SUBSET U
  BY FS_FiniteSubsetsOfFinite
<1>3. PICK s \in Sets : \A t \in Sets : ~ (<<t, s>> \in StrictSubsetOrdering(U))
  BY <1>1, <1>2, WFMin
<1>4. \A t \in Sets : t \subseteq s => t = s
  BY <1>3 DEF StrictSubsetOrdering
<1> QED
  BY <1>3, <1>4

LEMMA TotalStep ==
  ASSUME NEW f \in [Counters -> Nat], NEW s \in SUBSET Counters, NEW x \in s
  PROVE  Total(f, s) = f[x] + Total(f, s \ {x})
<1>1. x \in {"success", "retry", "throttle", "failure", "exception"}
  BY CountersAre
<1>2. \A c \in Counters : f[c] \in Nat
  OBVIOUS
<1> QED
  BY <1>1, <1>2, CountersAre DEF Total, Part

\* Whatever order the fold takes them in, the five counters are added up.
LEMMA SumIsTotal ==
  ASSUME NEW f \in [Counters -> Nat]
  PROVE  SumOf(f) = f["success"] + f["retry"] + f["throttle"] + f["failure"] + f["exception"]
<1> DEFINE h == [s \in SUBSET Counters |-> Total(f, s)]
<1>1. Sums(h, f)
  <2>1. \A s \in SUBSET Counters :
          h[s] = IF s = {} THEN 0 ELSE f[Pick(s)] + h[s \ {Pick(s)}]
    <3>1. SUFFICES ASSUME NEW s \in SUBSET Counters
                   PROVE  h[s] = IF s = {} THEN 0 ELSE f[Pick(s)] + h[s \ {Pick(s)}]
      OBVIOUS
    <3>2. CASE s = {}
      BY <3>2 DEF Total, Part
    <3>3. CASE s # {}
      <4>1. Pick(s) \in s
        BY <3>3 DEF Pick
      <4>2. Total(f, s) = f[Pick(s)] + Total(f, s \ {Pick(s)})
        BY <4>1, TotalStep
      <4> QED
        BY <3>3, <4>2
    <3> QED
      BY <3>2, <3>3
  <2> QED
    BY <2>1 DEF Sums
<1>2. SumOf(f) = (CHOOSE g : Sums(g, f))[Counters]
  BY DEF SumOf, SumFunction, SumFunctionOnSet, FoldFunctionOnSet, MapThenFoldSet, Sums, Pick
<1>3. PICK g : Sums(g, f) /\ SumOf(f) = g[Counters]
  BY <1>1, <1>2
<1> HIDE DEF h
<1> DEFINE Bad == {s \in SUBSET Counters : g[s] # h[s]}
<1>4. Bad = {}
  <2>1. SUFFICES ASSUME Bad # {} PROVE FALSE
    OBVIOUS
  <2>2. Bad \in SUBSET (SUBSET Counters)
    OBVIOUS
  <2>3. PICK s \in Bad : \A t \in Bad : t \subseteq s => t = s
    <3> HIDE DEF Bad
    <3> QED
      BY <2>1, <2>2, CountersFinite, MinimalExists
  <2>4. s \in SUBSET Counters /\ s # {} /\ Pick(s) \in s
    BY <1>1, <1>3, <2>3 DEF Sums, Pick
  <2>5. g[s \ {Pick(s)}] = h[s \ {Pick(s)}]
    BY <2>3, <2>4
  <2> QED
    BY <1>1, <1>3, <2>3, <2>4, <2>5 DEF Sums
<1>5. SumOf(f) = Total(f, Counters)
  BY <1>3, <1>4 DEF h
<1> QED
  BY <1>5, CountersAre DEF Total, Part

-----------------------------------------------------------------------------
(* What an initialisation builds *)

Later == {"custom", "otlpBatch", "a365", "a365Batch", "consoleSimple", "azureMonitorBatch"}

Processors == Later \cup {"azureMonitor", "mainAgent"}

Has(s, x) == \E i \in 1 .. Len(s) : s[i] = x

\* Azure Monitor's first processors, and then others.
Chain(s, head) ==
  /\ s \in Seq(Processors) /\ Len(head) <= Len(s)
  /\ \A i \in 1 .. Len(s) : IF i <= Len(head) THEN s[i] = head[i] ELSE s[i] \in Later

\* One more processor, or none, comes after those that are there.
LEMMA Extended ==
  ASSUME NEW head \in Seq(Processors), NEW s, Chain(s, head), NEW c \in BOOLEAN, NEW x \in Later
  PROVE  /\ Chain(s \o If(c, x), head)
         /\ c => Has(s \o If(c, x), x)
         /\ \A y : Has(s, y) => Has(s \o If(c, x), y)
<1>1. s \in Seq(Processors) /\ x \in Processors
  BY DEF Chain, Processors
<1>2. CASE c
  <2>1. If(c, x) = <<x>>
    BY <1>2 DEF If
  <2>2. /\ s \o <<x>> \in Seq(Processors) /\ Len(s \o <<x>>) = Len(s) + 1
        /\ \A i \in 1 .. Len(s) : (s \o <<x>>)[i] = s[i]
        /\ (s \o <<x>>)[Len(s) + 1] = x
    <3>1. <<x>> \in Seq(Processors) /\ Len(<<x>>) = 1 /\ <<x>>[1] = x
      BY <1>1
    <3>2. Len(s) \in Nat
      BY <1>1
    <3> QED
      BY <1>1, <3>1, <3>2, ConcatProperties
  <2>3. Len(s) \in Nat /\ Len(head) \in Nat
    BY <1>1
  <2> QED
    BY <2>1, <2>2, <2>3 DEF Chain, Has
<1>3. CASE ~c
  <2>1. If(c, x) = <<>>
    BY <1>3 DEF If
  <2>2. s \o <<>> = s
    BY <1>1
  <2> QED
    BY <1>3, <2>1, <2>2
<1> QED
  BY <1>2, <1>3

LEMMA SpansLeave ==
  ASSUME NEW o \in Option
  PROVE  SpansHaveAnExit(o)
<1> DEFINE azure == AzureMonitorEnabled(o)
           head == If(azure, "azureMonitor") \o If(azure, "mainAgent")
           c1 == head \o If(o.custom, "custom")
           c2 == c1 \o If(o.otlp, "otlpBatch")
           c3 == c2 \o If(o.a365 # "off", "a365")
           c4 == c3 \o If(o.a365 = "exporting", "a365Batch")
           c5 == c4 \o If(ConsoleEnabled(o), "consoleSimple")
           c6 == c5 \o If(azure, "azureMonitorBatch")
<1>1. /\ azure \in BOOLEAN /\ o.custom \in BOOLEAN /\ o.otlp \in BOOLEAN
      /\ ConsoleEnabled(o) \in BOOLEAN
  BY DEF Option, AzureMonitorEnabled, ConsoleEnabled
<1>2. /\ head \in Seq(Processors)
      /\ \A n \in 1 .. Len(head) : head[n] \in {"azureMonitor", "mainAgent"}
      /\ azure => Has(head, "mainAgent")
  <2>1. /\ <<"azureMonitor">> \in Seq(Processors) /\ Len(<<"azureMonitor">>) = 1
        /\ <<"mainAgent">> \in Seq(Processors) /\ Len(<<"mainAgent">>) = 1
        /\ <<>> \in Seq(Processors) /\ Len(<<>>) = 0
    BY DEF Processors
  <2>2. CASE azure
    <3>1. head = <<"azureMonitor">> \o <<"mainAgent">>
      BY <2>2 DEF If
    <3> HIDE DEF azure, head
    <3>2. /\ head \in Seq(Processors) /\ Len(head) = 2
          /\ head[1] = "azureMonitor" /\ head[2] = "mainAgent"
      BY <2>1, <3>1, ConcatProperties
    <3> QED
      BY <3>2 DEF Has
  <2>3. CASE ~azure
    <3>1. head = <<>> \o <<>>
      BY <2>3 DEF If
    <3> HIDE DEF azure, head
    <3>2. head \in Seq(Processors) /\ Len(head) = 0
      BY <2>1, <3>1, ConcatProperties
    <3> QED
      BY <2>3, <3>2
  <2> QED
    BY <2>2, <2>3
<1>3. SpanProcessors(o) = c6
  BY DEF SpanProcessors
<1> HIDE DEF azure, head
<1>4. head \in Seq(Processors) /\ Chain(head, head)
  BY <1>2 DEF Chain
<1>5. Chain(c1, head) /\ \A y : Has(head, y) => Has(c1, y)
  BY <1>1, <1>4, Extended DEF Later
<1> HIDE DEF c1
<1>6. /\ Chain(c2, head) /\ (o.otlp => Has(c2, "otlpBatch"))
      /\ \A y : Has(c1, y) => Has(c2, y)
  BY <1>1, <1>4, <1>5, Extended DEF Later
<1> HIDE DEF c2
<1>7. Chain(c3, head) /\ \A y : Has(c2, y) => Has(c3, y)
  BY <1>1, <1>4, <1>6, Extended DEF Later
<1> HIDE DEF c3
<1>8. /\ Chain(c4, head) /\ (o.a365 = "exporting" => Has(c4, "a365Batch"))
      /\ \A y : Has(c3, y) => Has(c4, y)
  BY <1>1, <1>4, <1>7, Extended DEF Later
<1> HIDE DEF c4
<1>9. /\ Chain(c5, head) /\ (ConsoleEnabled(o) => Has(c5, "consoleSimple"))
      /\ \A y : Has(c4, y) => Has(c5, y)
  BY <1>1, <1>4, <1>8, Extended DEF Later
<1> HIDE DEF c5
<1>10. /\ Chain(c6, head) /\ (azure => Has(c6, "azureMonitorBatch"))
       /\ \A y : Has(c5, y) => Has(c6, y)
  BY <1>1, <1>4, <1>9, Extended DEF Later
<1> HIDE DEF c6
<1>11. o.console # "off" /\ ~o.custom => Exporting \cap ToSet(c6) # {}
  <2>1. SUFFICES ASSUME o.console # "off", ~o.custom PROVE \E y \in Exporting : Has(c6, y)
    BY DEF ToSet, Has
  <2>2. o.otlp \/ o.a365 = "exporting" \/ ConsoleEnabled(o) \/ azure
    BY <2>1 DEF ConsoleEnabled, azure, Option
  <2> QED
    BY <2>2, <1>6, <1>7, <1>8, <1>9, <1>10 DEF Exporting
<1>12. \A i, j \in 1 .. Len(c6) :
         c6[i] = "mainAgent" /\ c6[j] \in Exporting \cup {"custom"} => i < j
  <2>1. SUFFICES ASSUME NEW i \in 1 .. Len(c6), NEW j \in 1 .. Len(c6),
                        c6[i] = "mainAgent", c6[j] \in Exporting \cup {"custom"}
                 PROVE  i < j
    OBVIOUS
  <2>2. i <= Len(head)
    BY <1>10, <2>1 DEF Chain, Later
  <2>3. ~ (j <= Len(head))
    BY <1>2, <1>4, <1>10, <2>1 DEF Chain, Exporting
  <2> QED
    BY <2>2, <2>3, <1>4
<1>13. azure => Contains(c6, "mainAgent")
  <2>1. azure => Has(c6, "mainAgent")
    BY <1>2, <1>5, <1>6, <1>7, <1>8, <1>9, <1>10
  <2> QED
    BY <2>1 DEF Has, Contains
<1> QED
  BY <1>3, <1>11, <1>12, <1>13 DEF SpansHaveAnExit, azure

LEMMA ChoicesKept ==
  ASSUME NEW o \in Option
  PROVE  ChoicesAreKept(o)
<1>1. \A key \in InstrumentationKeys : o.instrumentation[key] \in Choice
  BY DEF Option
<1>2. \A key \in InfraKeys :
        o.instrumentation[key] # "default" => (Enabled(o, key) <=> o.instrumentation[key] = "on")
  BY <1>1 DEF Enabled, Explicit, Choice, InstrumentationKeys
<1>3. /\ "http" \in createInstrumentations(o) <=> Enabled(o, "http")
      /\ "console" \in createInstrumentations(o) <=> Enabled(o, "console")
      /\ "redis" \in createInstrumentations(o) <=> Enabled(o, "redis") \/ Enabled(o, "redis4")
  BY DEF createInstrumentations
<1> QED
  BY <1>2, <1>3 DEF ChoicesAreKept, InfraKeys

LEMMA OutcomeType ==
  ASSUME NEW status \in Nat
  PROVE  OutcomeOf(status) \in Outcomes
BY DEF OutcomeOf, classifyStatusCode, Outcomes, StatusKinds

-----------------------------------------------------------------------------
(* Initially *)

LEMMA InitInvariant == Init => IInv
<1> SUFFICES ASSUME Init PROVE IInv
  OBVIOUS
<1> USE DEF Init
<1>1. inits = 0 /\ MaxInits \in Nat /\ MaxShutdowns \in Nat
  BY SdkStatsAssumption, DistroAssumption
<1>2. NoCounts \in [Counters -> Nat] /\ \A c \in Counters : NoCounts[c] = 0
  BY DEF NoCounts
<1>3. SdkStatsTypeOK
  <2>1. pipelines \in [Inits -> Pipeline]
    BY DEF SdkStatsInit, Pipeline
  <2>2. env \in Environment
    BY InheritedAssumption DEF SdkStatsInit
  <2>3. requests \in [Outcomes -> Nat]
    BY DEF SdkStatsInit
  <2>4. exportTimer \in BOOLEAN /\ statsShutdown \in BOOLEAN
    BY DEF SdkStatsInit
  <2>5. pipeline \in 0 .. MaxInits /\ durations \in Nat /\ counts = NoCounts
        /\ reported = NoCounts
    BY <1>1 DEF SdkStatsInit
  <2> QED
    BY <1>2, <2>1, <2>2, <2>3, <2>4, <2>5 DEF SdkStatsTypeOK
<1>4. InstrumentorsTypeOK
  <2>1. runs = 0 /\ MaxRuns \in Nat
    BY InstrumentorsAssumption DEF InstrumentorsInit
  <2>2. runs \in 0 .. MaxRuns
    BY <2>1
  <2> QED
    BY <2>2 DEF InstrumentorsInit, InstrumentorsTypeOK
<1>5. given \in [Inits -> DOMAIN Options]
  BY DistroAssumption
<1>6. shutdowns \in [Shutdowns -> Shutdown]
  BY <1>1 DEF Shutdown, Stages
<1>7. TypeOK
  <2>1. importing \in [GenAIKeys -> Seq(Importer)]
    OBVIOUS
  <2>2. sdks \in [Inits -> {"none", "running", "closing", "closed", "failed"}]
    OBVIOUS
  <2>3. isShutdown \in BOOLEAN /\ orderly \in BOOLEAN
    OBVIOUS
  <2>4. /\ inits \in 0 .. MaxInits /\ loader \in 0 .. MaxInits
        /\ activeLoader \in 0 .. MaxInits /\ console \in 0 .. MaxInits
    BY <1>1
  <2> QED
    BY <1>3, <1>4, <1>5, <1>6, <2>1, <2>2, <2>3, <2>4 DEF TypeOK
<1>8. FeaturesOfThisProcess
  BY <1>1 DEF FeaturesOfThisProcess
<1>9. EachRequestReportedOnce
  <2>1. SumOf(counts) = 0
    BY <1>2, SumIsTotal, CountersAre DEF SdkStatsInit
  <2> QED
    BY <1>2, <2>1 DEF SdkStatsInit, EachRequestReportedOnce, Outcomes, StatusKinds, Counters
<1>10. QueuesOK
  BY DEF QueuesOK, OpenAIQueueOK, LangChainQueueOK, Queue, GenAIKeys
<1>11. TakenDown
  BY <1>1 DEF TakenDown, Down, Since, SdkStatsInit, InstrumentorsInit
<1>12. NotBefore
  BY <1>1 DEF NotBefore, SdkStatsInit, InstrumentorsInit
<1>13. PipelinesOK
  BY DEF PipelinesOK, At, SdkStatsInit
<1>14. OrderlyOK
  BY <1>1 DEF OrderlyOK, NothingElse, At, SdkStatsInit
<1>15. RunsOK
  BY <1>1 DEF RunsOK, LangChainRunsAreServed, InstrumentorsInit
<1> QED
  BY <1>7, <1>8, <1>9, <1>10, <1>11, <1>12, <1>13, <1>14, <1>15 DEF IInv

-----------------------------------------------------------------------------
(* The statistics *)

StatsStep ==
  \/ \E name \in DOMAIN Options : useMicrosoftOpenTelemetry(name)
  \/ \E s \in Shutdowns : SdkSettled(s) \/ StatsSettled(s)
  \/ \E i \in Inits : StatsExport(i) \/ StatsClosed(i)
  \/ RequestMade \/ TimerFires

LEMMA OtherStepsLeaveStats == [Next]_vars => StatsStep \/ UNCHANGED statsVars
BY DEF Next, vars, StatsStep, ImportedOpenAI, ImportedLangChain, LangChainRun,
       shutdownMicrosoftOpenTelemetry, SdkClosed, LangChainReset

LEMMA StatsTyped ==
  ASSUME IInv, [Next]_vars
  PROVE  SdkStatsTypeOK'
<1> USE DEF SdkStatsTypeOK
<1>1. SdkStatsTypeOK /\ inits \in 0 .. MaxInits /\ MaxInits \in Nat
  BY SdkStatsAssumption DEF IInv, TypeOK
<1>2. NoCounts \in [Counters -> Nat]
  BY DEF NoCounts
<1>3. ASSUME drain PROVE counts' \in [Counters -> Nat] /\ durations' \in Nat
                         /\ reported' \in [Counters -> Nat] /\ requests' \in [Outcomes -> Nat]
  BY <1>1, <1>2, <1>3 DEF drain
<1>4. ASSUME NEW name \in DOMAIN Options, useMicrosoftOpenTelemetry(name)
      PROVE  SdkStatsTypeOK'
  <2>1. inits + 1 \in Inits /\ Options[name] \in Option
    BY <1>1, <1>4, DistroAssumption DEF useMicrosoftOpenTelemetry, Inits
  <2>2. env' \in Environment
    <3>1. FeaturesOf(Options[name]) \subseteq Features
      BY DEF FeaturesOf, Features
    <3> QED
      BY <1>1, <1>4, <3>1 DEF useMicrosoftOpenTelemetry, setSdkStatsFeatures, Environment,
                              stripPerProcessFeatures, Features
  <2>3. AzureMonitorEnabled(Options[name]) \in BOOLEAN
    BY DEF AzureMonitorEnabled
  <2>4. pipeline' \in 0 .. MaxInits /\ exportTimer' \in BOOLEAN /\ statsShutdown' \in BOOLEAN
        /\ pipelines' \in [Inits -> Pipeline]
    <3>1. CASE UNCHANGED <<managerVars, pipelines>>
      BY <1>1, <3>1 DEF managerVars
    <3>2. CASE ~ UNCHANGED <<managerVars, pipelines>>
      <4>1. /\ pipeline' = inits + 1 /\ exportTimer' = TRUE /\ statsShutdown' = FALSE
            /\ pipelines' = [pipelines EXCEPT ![inits + 1] =
                               [state |-> "open",
                                networkOnly |-> AzureMonitorEnabled(Options[name])]]
        BY <1>4, <3>2 DEF useMicrosoftOpenTelemetry, initialize
      <4>2. [state |-> "open", networkOnly |-> AzureMonitorEnabled(Options[name])] \in Pipeline
        BY <2>3 DEF Pipeline
      <4>3. pipelines' \in [Inits -> Pipeline]
        BY <1>1, <2>1, <4>1, <4>2
      <4>4. exportTimer' \in BOOLEAN /\ statsShutdown' \in BOOLEAN
        BY <4>1
      <4>5. pipeline' \in 0 .. MaxInits
        BY <1>1, <2>1, <4>1 DEF Inits
      <4> QED
        BY <4>3, <4>4, <4>5
    <3> QED
      BY <3>1, <3>2
  <2> QED
    BY <1>1, <1>4, <2>2, <2>4 DEF useMicrosoftOpenTelemetry, countVars
<1>5. ASSUME NEW s \in Shutdowns, SdkSettled(s)
      PROVE  SdkStatsTypeOK'
  <2>1. UNCHANGED <<countVars, env>>
    BY <1>5 DEF SdkSettled
  <2>2. pipeline' = pipeline /\ statsShutdown' = statsShutdown /\ exportTimer' \in BOOLEAN
    BY <1>1, <1>5 DEF SdkSettled, shutdownStats, managerVars
  <2>3. \/ pipelines' = pipelines
        \/ pipeline # 0 /\ pipelines' = [pipelines EXCEPT ![pipeline].state = "closing"]
    BY <1>5 DEF SdkSettled, shutdownStats
  <2>4. pipelines' \in [Inits -> Pipeline]
    <3>1. pipelines \in [Inits -> Pipeline] /\ pipeline \in 0 .. MaxInits
      BY <1>1
    <3>2. \A x \in Pipeline : [x EXCEPT !.state = "closing"] \in Pipeline
      BY DEF Pipeline
    <3>3. pipeline # 0 => pipeline \in Inits /\ pipelines[pipeline] \in Pipeline
      BY <3>1 DEF Inits
    <3> QED
      BY <2>3, <3>1, <3>2, <3>3
  <2> QED
    BY <1>1, <2>1, <2>2, <2>4 DEF countVars
<1>6. ASSUME NEW s \in Shutdowns, StatsSettled(s)
      PROVE  SdkStatsTypeOK'
  <2>1. UNCHANGED <<countVars, env, pipelines>>
    BY <1>6 DEF StatsSettled, cleanup
  <2>2. pipeline' \in 0 .. MaxInits
    BY <1>1, <1>6 DEF StatsSettled, cleanup
  <2>3. exportTimer' \in BOOLEAN /\ statsShutdown' \in BOOLEAN
    BY <1>6 DEF StatsSettled, cleanup
  <2> QED
    BY <1>1, <2>1, <2>2, <2>3 DEF countVars
<1>7. ASSUME NEW i \in Inits, StatsExport(i)
      PROVE  SdkStatsTypeOK'
  BY <1>1, <1>3, <1>7 DEF StatsExport, Collect, managerVars
<1>8. ASSUME NEW i \in Inits, StatsClosed(i)
      PROVE  SdkStatsTypeOK'
  BY <1>1, <1>3, <1>8 DEF StatsClosed, PipelineClosed, managerVars, Pipeline
<1>9. ASSUME RequestMade
      PROVE  SdkStatsTypeOK'
  <2>1. PICK status \in Statuses : Request(OutcomeOf(status))
    BY <1>9 DEF RequestMade
  <2>2. OutcomeOf(status) \in Outcomes
    BY DistroAssumption, OutcomeType
  <2> QED
    BY <1>1, <2>1, <2>2 DEF Request, managerVars
<1>10. ASSUME TimerFires
       PROVE  SdkStatsTypeOK'
  BY <1>1, <1>3, <1>10 DEF TimerFires, InitialExport, countVars
<1>11. ASSUME UNCHANGED statsVars
       PROVE  SdkStatsTypeOK'
  BY <1>1, <1>11 DEF statsVars
<1> QED
  BY <1>4, <1>5, <1>6, <1>7, <1>8, <1>9, <1>10, <1>11, OtherStepsLeaveStats DEF StatsStep

LEMMA CountsKept ==
  ASSUME IInv, [Next]_vars
  PROVE  EachRequestReportedOnce'
<1> USE DEF EachRequestReportedOnce
<1>1. EachRequestReportedOnce /\ SdkStatsTypeOK /\ SdkStatsTypeOK'
  BY StatsTyped DEF IInv, TypeOK
<1>2. /\ counts \in [Counters -> Nat] /\ counts' \in [Counters -> Nat] /\ durations \in Nat
      /\ reported \in [Counters -> Nat] /\ requests \in [Outcomes -> Nat]
  BY <1>1 DEF SdkStatsTypeOK
<1>3. SumOf(counts) = counts["success"] + counts["retry"] + counts["throttle"]
                        + counts["failure"] + counts["exception"]
  BY <1>2, SumIsTotal
<1>4. SumOf(counts)' = counts'["success"] + counts'["retry"] + counts'["throttle"]
                         + counts'["failure"] + counts'["exception"]
  BY <1>2, SumIsTotal DEF SumOf
<1>5. "ignored" \in Outcomes /\ \A c \in Counters : c \in Outcomes
  BY DEF Outcomes, StatusKinds, Counters
<1>6. ASSUME drain PROVE EachRequestReportedOnce'
  <2>1. \A c \in Counters : counts'[c] = 0 /\ reported'[c] = reported[c] + counts[c]
    BY <1>6 DEF drain, NoCounts
  <2>2. SumOf(counts)' = 0
    BY <1>4, <2>1, CountersAre
  <2> QED
    BY <1>1, <1>2, <1>5, <1>6, <2>1, <2>2 DEF drain
<1>7. ASSUME UNCHANGED countVars PROVE EachRequestReportedOnce'
  BY <1>1, <1>3, <1>4, <1>7 DEF countVars
<1>8. ASSUME RequestMade
      PROVE  EachRequestReportedOnce'
  <2>1. PICK status \in Statuses : Request(OutcomeOf(status))
    BY <1>8 DEF RequestMade
  <2> DEFINE outcome == OutcomeOf(status)
  <2>2. outcome \in Outcomes
    BY DistroAssumption, OutcomeType
  <2> HIDE DEF outcome
  <2>3. /\ requests' = [requests EXCEPT ![outcome] = @ + 1]
        /\ durations' = durations + 1 /\ reported' = reported
        /\ \A c \in Counters : counts'[c] = IF c = outcome THEN counts[c] + 1 ELSE counts[c]
    BY <2>1 DEF Request, outcome
  <2>4. \A c \in Counters : requests'[c] = counts'[c] + reported'[c]
    BY <1>1, <1>2, <1>5, <2>2, <2>3
  <2>5. CASE outcome = "ignored"
    BY <1>1, <1>2, <1>3, <1>4, <1>5, <2>3, <2>4, <2>5, CountersAre
  <2>6. CASE outcome # "ignored"
    <3>1. outcome \in Counters
      BY <2>2, <2>6 DEF Counters
    <3>2. SumOf(counts)' = SumOf(counts) + 1
      BY <1>2, <1>3, <1>4, <2>3, <3>1, CountersAre
    <3>3. requests'["ignored"] = requests["ignored"] /\ requests["ignored"] \in Nat
      BY <1>2, <1>5, <2>2, <2>3, <2>6
    <3>4. SumOf(counts) \in Nat
      BY <1>2, <1>3, CountersAre
    <3> QED
      BY <1>1, <1>2, <2>3, <2>4, <3>2, <3>3, <3>4
  <2> QED
    BY <2>5, <2>6
<1>9. StatsStep => drain \/ RequestMade \/ UNCHANGED countVars
  BY DEF StatsStep, useMicrosoftOpenTelemetry, SdkSettled, StatsSettled, StatsExport, Collect,
         StatsClosed, PipelineClosed, TimerFires, InitialExport, drain
<1>10. UNCHANGED statsVars => UNCHANGED countVars
  BY DEF statsVars, countVars
<1> QED
  BY <1>6, <1>7, <1>8, <1>9, <1>10, OtherStepsLeaveStats

LEMMA FeaturesKept ==
  ASSUME IInv, [Next]_vars
  PROVE  FeaturesOfThisProcess'
<1> USE DEF FeaturesOfThisProcess
<1>1. FeaturesOfThisProcess /\ TypeOK
  BY DEF IInv
<1>2. inits \in 0 .. MaxInits /\ MaxInits \in Nat /\ env \in Environment
      /\ given \in [Inits -> DOMAIN Options]
  BY <1>1, SdkStatsAssumption DEF TypeOK, SdkStatsTypeOK
<1>3. ASSUME NEW name \in DOMAIN Options, useMicrosoftOpenTelemetry(name)
      PROVE  FeaturesOfThisProcess'
  <2>1. inits' = inits + 1 /\ inits' \in Inits
    BY <1>2, <1>3 DEF useMicrosoftOpenTelemetry, Inits
  <2>2. Current' = Options[name]
    BY <1>2, <1>3, <2>1 DEF useMicrosoftOpenTelemetry, Current, Opt
  <2>3. env'.features = (env.features \ {"aks"}) \cup FeaturesOf(Options[name])
                          \cup {IF env.shim THEN "shim" ELSE "distro"}
    BY <1>2, <1>3 DEF useMicrosoftOpenTelemetry, setSdkStatsFeatures, stripPerProcessFeatures,
                      Environment
  <2>4. "aks" \in FeaturesOf(Options[name])
          <=> AzureMonitorEnabled(Options[name]) /\ Options[name].aks
    BY DEF FeaturesOf
  <2> QED
    BY <2>2, <2>3, <2>4
<1>4. CASE UNCHANGED <<env, inits, given>>
  BY <1>1, <1>4 DEF Current, Opt
<1>5. (\E name \in DOMAIN Options : useMicrosoftOpenTelemetry(name))
        \/ UNCHANGED <<env, inits, given>>
  BY DEF Next, vars, distroVars, statsVars, shutdownMicrosoftOpenTelemetry, SdkSettled,
         StatsSettled, LangChainReset, SdkClosed, StatsExport, Collect, StatsClosed,
         PipelineClosed, ImportedOpenAI, ImportedLangChain, RequestMade, Request, TimerFires,
         InitialExport, lifeVars, LangChainRun
<1> QED
  BY <1>3, <1>4, <1>5

-----------------------------------------------------------------------------
(* The imports *)

LEMMA ImporterIs ==
  ASSUME NEW x \in Importer
  PROVE  IF IsUse(x) THEN x.use \in Inits ELSE x.reset \in Shutdowns
<1>1. CASE x \in [use: Inits]
  BY <1>1 DEF IsUse
<1>2. CASE x \in [reset: Shutdowns]
  BY <1>2 DEF IsUse
<1> QED
  BY <1>1, <1>2 DEF Importer

\* What is first in a queue, and what is left then.
LEMMA FirstImporter ==
  ASSUME TypeOK, QueuesOK, NEW k \in GenAIKeys, importing[k] # <<>>
  PROVE  /\ Head(importing[k]) = importing[k][1] /\ Len(importing[k]) >= 1
         /\ Head(importing[k]) \in Importer
         /\ Len(importing[k]) \in Nat
         /\ Tail(importing[k]) \in Seq(Importer)
         /\ Len(Tail(importing[k])) = Len(importing[k]) - 1
         /\ \A n \in 1 .. Len(importing[k]) - 1 : Tail(importing[k])[n] = importing[k][n + 1]
<1>1. importing[k] \in Seq(Importer)
  BY DEF TypeOK
<1>2. Len(importing[k]) \in Nat /\ Len(importing[k]) >= 1
  BY <1>1
<1> QED
  BY <1>1, <1>2, HeadTailProperties

LEMMA LastImporter ==
  ASSUME TypeOK, NEW k \in GenAIKeys, NEW x \in Importer
  PROVE  /\ Append(importing[k], x) \in Seq(Importer)
         /\ Len(importing[k]) \in Nat
         /\ Len(Append(importing[k], x)) = Len(importing[k]) + 1
         /\ \A n \in 1 .. Len(importing[k]) : Append(importing[k], x)[n] = importing[k][n]
         /\ Append(importing[k], x)[Len(importing[k]) + 1] = x
<1>1. importing[k] \in Seq(Importer)
  BY DEF TypeOK
<1> QED
  BY <1>1, AppendProperties

LEMMA SetupTyped ==
  ASSUME TypeOK, NEW i \in Inits, i <= inits
  PROVE  OpenAISetup(i) \in Setups /\ LangChainSetup(i) \in Setups
<1>1. inits \in Inits
  BY SdkStatsAssumption DEF TypeOK, Inits
<1>2. Opt(i) \in Option
  BY DistroAssumption DEF TypeOK, Opt
<1>3. Opt(i).suppressInput \in BOOLEAN /\ Opt(i).sensitive \in BOOLEAN
  BY <1>2 DEF Option
<1> QED
  BY <1>1, <1>3, DistroAssumption DEF OpenAISetup, LangChainSetup

InstrumentorStep ==
  ImportedOpenAI \/ ImportedLangChain \/ LangChainRun \/ \E s \in Shutdowns : LangChainReset(s)

LEMMA OtherStepsLeaveInstrumentors ==
  [Next]_vars => InstrumentorStep \/ UNCHANGED <<instrumentorVars, runVars>>
BY DEF Next, vars, InstrumentorStep, useMicrosoftOpenTelemetry, shutdownMicrosoftOpenTelemetry,
       SdkClosed, SdkSettled, StatsSettled, StatsExport, StatsClosed, RequestMade, TimerFires,
       lifeVars

\* The head of the queue for @langchain/core is an initialisation.
LEMMA FirstLangChain ==
  ASSUME TypeOK, QueuesOK, importing["langchain"] # <<>>
  PROVE  /\ Head(importing["langchain"]).use \in Inits
         /\ Head(importing["langchain"]).use <= inits
<1>1. importing["langchain"] \in Seq([use: Inits]) /\ "langchain" \in GenAIKeys
  BY DEF QueuesOK, LangChainQueueOK, GenAIKeys
<1>2. Len(importing["langchain"]) >= 1 /\ Len(importing["langchain"]) \in Nat
      /\ Head(importing["langchain"]) = importing["langchain"][1]
  BY <1>1, FirstImporter
<1>3. importing["langchain"][1] \in [use: Inits]
  <2> DEFINE q == importing["langchain"]
             S == [use: Inits]
  <2>1. q \in Seq(S) /\ 1 \in 1 .. Len(q)
    BY <1>1, <1>2
  <2> HIDE DEF q, S
  <2>2. q[1] \in S
    BY <2>1, ElementOfSeq
  <2> QED
    BY <2>2 DEF q, S
<1>4. importing["langchain"][1].use <= inits
  BY <1>2 DEF QueuesOK, LangChainQueueOK
<1> QED
  BY <1>2, <1>3, <1>4

LEMMA FirstOpenAI ==
  ASSUME TypeOK, QueuesOK, Queue # <<>>
  PROVE  IF IsUse(Head(Queue)) THEN Head(Queue).use \in Inits /\ Head(Queue).use <= inits
         ELSE Head(Queue).reset \in Shutdowns /\ shutdowns[Head(Queue).reset].at = "openai"
<1>1. /\ Len(Queue) >= 1 /\ Len(Queue) \in Nat
      /\ Head(Queue) = Queue[1] /\ Head(Queue) \in Importer
  BY FirstImporter DEF Queue, GenAIKeys
<1>2. IF IsUse(Head(Queue)) THEN Head(Queue).use \in Inits ELSE Head(Queue).reset \in Shutdowns
  BY <1>1, ImporterIs
<1>3. IF IsUse(Queue[1]) THEN Queue[1].use <= inits ELSE shutdowns[Queue[1].reset].at = "openai"
  BY <1>1 DEF QueuesOK, OpenAIQueueOK
<1> QED
  BY <1>1, <1>2, <1>3

\* A setup with the flag of another one is a setup.
LEMMA FlagSet ==
  ASSUME NEW x \in Setups, NEW y \in Setups
  PROVE  /\ [<<x>> EXCEPT ![1].flag = y.flag] = <<[x EXCEPT !.flag = y.flag]>>
         /\ [x EXCEPT !.flag = y.flag] \in Setups
BY DistroAssumption

\* A second initialisation of LangChain's instrumentor only sets its flag.
LEMMA WrapperTyped ==
  ASSUME InstrumentorsTypeOK, NEW setup \in Setups, InstrumentLangChain(setup)
  PROVE  \E x \in Setups : wrapper' = <<x>>
<1>1. CASE ~langchain
  BY <1>1 DEF InstrumentLangChain
<1>2. CASE langchain
  <2>1. PICK x \in Setups : wrapper = <<x>>
    BY <1>2 DEF InstrumentorsTypeOK
  <2>2. wrapper' = [wrapper EXCEPT ![1].flag = setup.flag]
    BY <1>2 DEF InstrumentLangChain
  <2> QED
    BY <2>1, <2>2, FlagSet
<1> QED
  BY <1>1, <1>2

\* A run gets the wrapper's tracer, or the one found with the wrapper's flag.
LEMMA TracerAttached ==
  ASSUME InstrumentorsTypeOK, wrapper # <<>>, NEW handlers \in {tracer, <<>>}
  PROVE  \E w, x \in Setups :
           /\ wrapper = <<w>>
           /\ addTracerToHandlers(handlers) = <<x>> /\ x.flag = w.flag
           /\ IF handlers = <<>> THEN x = w
              ELSE handlers = tracer /\ tracer # <<>> /\ x.sdk = tracer[1].sdk
<1>1. PICK w \in Setups : wrapper = <<w>>
  BY DEF InstrumentorsTypeOK
<1>2. CASE handlers = <<>>
  BY <1>1, <1>2 DEF addTracerToHandlers
<1>3. CASE handlers # <<>>
  <2>1. PICK y \in Setups : tracer = <<y>> /\ handlers = tracer
    BY <1>3 DEF InstrumentorsTypeOK
  <2> DEFINE x == [y EXCEPT !.flag = w.flag]
  <2>2. addTracerToHandlers(handlers) = <<x>> /\ x \in Setups
    BY <1>1, <1>3, <2>1, FlagSet DEF addTracerToHandlers
  <2>3. x.flag = w.flag /\ x.sdk = y.sdk
    BY DistroAssumption
  <2> HIDE DEF x
  <2> QED
    BY <1>1, <1>3, <2>1, <2>2, <2>3
<1> QED
  BY <1>2, <1>3

LEMMA InstrumentorsTyped ==
  ASSUME IInv, [Next]_vars
  PROVE  InstrumentorsTypeOK'
<1>1. TypeOK /\ QueuesOK /\ InstrumentorsTypeOK
  BY DEF IInv, TypeOK
<1>2. ASSUME ImportedLangChain PROVE InstrumentorsTypeOK'
  <2> DEFINE i == Head(importing["langchain"]).use
  <2>1. i \in Inits /\ i <= inits
    BY <1>1, <1>2, FirstLangChain DEF ImportedLangChain
  <2> HIDE DEF i
  <2>2. LangChainSetup(i) \in Setups
    BY <1>1, <2>1, SetupTyped
  <2>3. CASE UNCHANGED <<instrumentorVars, runVars>>
    BY <1>1, <2>3 DEF InstrumentorsTypeOK, instrumentorVars, runVars
  <2>4. CASE InstrumentLangChain(LangChainSetup(i))
    <3>1. PICK x \in Setups : wrapper' = <<x>>
      BY <1>1, <2>2, <2>4, WrapperTyped
    <3>2. UNCHANGED <<openai, registered, runVars>> /\ langchain' \in BOOLEAN
      BY <2>4 DEF InstrumentLangChain
    <3> QED
      BY <1>1, <3>1, <3>2 DEF InstrumentorsTypeOK, runVars
  <2> QED
    BY <1>2, <2>3, <2>4 DEF ImportedLangChain, InitializeLangChain, i
<1>3. ASSUME ImportedOpenAI PROVE InstrumentorsTypeOK'
  <2> DEFINE importer == Head(Queue)
  <2>1. IsUse(importer) => importer.use \in Inits /\ importer.use <= inits
    BY <1>1, <1>3, FirstOpenAI DEF ImportedOpenAI, Queue
  <2>2. IF IsUse(importer) THEN InitializeOpenAI(importer.use) ELSE ResetOpenAI
    BY <1>3 DEF ImportedOpenAI, Queue, IsUse
  <2> HIDE DEF importer
  <2>3. CASE UNCHANGED <<instrumentorVars, runVars>>
    BY <1>1, <2>3 DEF InstrumentorsTypeOK, instrumentorVars, runVars
  <2>4. CASE IsUse(importer) /\ InstrumentOpenAI(OpenAISetup(importer.use))
    <3>1. OpenAISetup(importer.use) \in Setups
      BY <1>1, <2>1, <2>4, SetupTyped
    <3> QED
      BY <1>1, <2>4, <3>1 DEF InstrumentOpenAI, InstrumentorsTypeOK, runVars
  <2>5. CASE ResetOpenAI
    BY <1>1, <2>5 DEF ResetOpenAI, InstrumentorsTypeOK, runVars
  <2> QED
    BY <2>2, <2>3, <2>4, <2>5 DEF InitializeOpenAI
<1>4. ASSUME NEW s \in Shutdowns, LangChainReset(s) PROVE InstrumentorsTypeOK'
  BY <1>1, <1>4 DEF LangChainReset, ResetLangChain, InstrumentorsTypeOK, runVars
<1>5. ASSUME UNCHANGED <<instrumentorVars, runVars>> PROVE InstrumentorsTypeOK'
  BY <1>1, <1>5 DEF instrumentorVars, runVars, InstrumentorsTypeOK
<1>6. ASSUME LangChainRun PROVE InstrumentorsTypeOK'
  <2>1. PICK handlers \in {tracer, <<>>} :
          /\ tracer' = addTracerToHandlers(handlers)
          /\ since' \in {since, inits, 0} /\ at' \in {inits, 0}
    BY <1>6 DEF LangChainRun, ConfigureRun
  <2>2. /\ wrapper # <<>> /\ runs < MaxRuns /\ runs' = runs + 1
        /\ UNCHANGED <<openai, registered, langchain, wrapper>>
    BY <1>6 DEF LangChainRun, ConfigureRun, instrumentorVars
  <2>3. \E x \in Setups : tracer' = <<x>>
    BY <1>1, <2>1, <2>2, TracerAttached
  <2>4. inits \in Nat /\ since' \in Nat /\ at' \in Nat /\ runs' \in 0 .. MaxRuns
    BY <1>1, <2>1, <2>2, SdkStatsAssumption, InstrumentorsAssumption DEF TypeOK, InstrumentorsTypeOK
  <2> QED
    BY <1>1, <2>2, <2>3, <2>4 DEF InstrumentorsTypeOK
<1> QED
  BY <1>2, <1>3, <1>4, <1>5, <1>6, OtherStepsLeaveInstrumentors DEF InstrumentorStep

-----------------------------------------------------------------------------
(* The calls of shutdownMicrosoftOpenTelemetry *)

\* A call goes from one stage to another, and the other calls stay where they are.
Moves(s, from, to) ==
  /\ s \in Shutdowns /\ shutdowns[s].at = from /\ shutdowns'[s].at = to
  /\ \A r \in Shutdowns : r # s => shutdowns'[r] = shutdowns[r]
  /\ shutdowns' \in [Shutdowns -> Shutdown]

LEMMA CallMoves ==
  ASSUME TypeOK, NEW s \in Shutdowns, shutdownMicrosoftOpenTelemetry(s)
  PROVE  Moves(s, "none", "sdk") /\ shutdowns'[s].sdk = inits
BY DEF TypeOK, shutdownMicrosoftOpenTelemetry, Moves, Shutdown, Stages

LEMMA SdkSettledMoves ==
  ASSUME TypeOK, NEW s \in Shutdowns, SdkSettled(s)
  PROVE  /\ shutdowns'[s].sdk = shutdowns[s].sdk
         /\ pipeline = 0 => /\ Moves(s, "sdk", "openai") /\ resetGenAIInstrumentations(s)
                            /\ UNCHANGED <<managerVars, pipelines>>
         /\ pipeline # 0 => /\ Moves(s, "sdk", "stats") /\ shutdownStats /\ UNCHANGED importing
                            /\ shutdowns'[s].p = pipeline
                            /\ shutdowns'[s].first <=> pipelines[pipeline].state = "open"
<1>1. shutdowns \in [Shutdowns -> Shutdown] /\ pipeline \in 0 .. MaxInits
  BY DEF TypeOK, SdkStatsTypeOK
<1>2. CASE pipeline = 0
  BY <1>1, <1>2 DEF SdkSettled, Moves, Shutdown, Stages
<1>3. CASE pipeline # 0
  <2> DEFINE open == pipelines[pipeline].state = "open"
  <2>1. /\ shutdowns[s].at = "sdk"
        /\ shutdowns' = [shutdowns EXCEPT ![s].at = "stats", ![s].p = pipeline, ![s].first = open]
    BY <1>3 DEF SdkSettled
  <2>2. open \in BOOLEAN
    OBVIOUS
  <2> HIDE DEF open
  <2>3. Moves(s, "sdk", "stats") /\ shutdowns'[s].p = pipeline /\ shutdowns'[s].first = open
        /\ shutdowns'[s].sdk = shutdowns[s].sdk
    BY <1>1, <2>1, <2>2 DEF Moves, Shutdown, Stages
  <2> QED
    BY <1>3, <2>3 DEF SdkSettled, open
<1> QED
  BY <1>2, <1>3

LEMMA StatsSettledMoves ==
  ASSUME TypeOK, NEW s \in Shutdowns, StatsSettled(s)
  PROVE  Moves(s, "stats", "openai") /\ shutdowns'[s].sdk = shutdowns[s].sdk
BY DEF TypeOK, StatsSettled, Moves, Shutdown, Stages

LEMMA LangChainResetMoves ==
  ASSUME TypeOK, NEW s \in Shutdowns, LangChainReset(s)
  PROVE  Moves(s, "langchain", "done") /\ shutdowns'[s].sdk = shutdowns[s].sdk
BY DEF TypeOK, LangChainReset, Moves, Shutdown, Stages

LEMMA OpenAIResetMoves ==
  ASSUME TypeOK, QueuesOK, ImportedOpenAI, ~IsUse(Head(Queue))
  PROVE  /\ Moves(Head(Queue).reset, "openai", "langchain")
         /\ shutdowns'[Head(Queue).reset].sdk = shutdowns[Head(Queue).reset].sdk
         /\ ResetOpenAI
<1> DEFINE s == Head(Queue).reset
<1>1. s \in Shutdowns /\ shutdowns[s].at = "openai"
  BY FirstOpenAI DEF ImportedOpenAI, Queue
<1>2. shutdowns' = [shutdowns EXCEPT ![s].at = "langchain"] /\ ResetOpenAI
  BY DEF ImportedOpenAI, Queue, IsUse
<1> HIDE DEF s
<1>3. Moves(s, "openai", "langchain") /\ shutdowns'[s].sdk = shutdowns[s].sdk
  BY <1>1, <1>2 DEF TypeOK, Moves, Shutdown, Stages
<1> QED
  BY <1>2, <1>3 DEF s

ShutdownStep ==
  \/ \E s \in Shutdowns : \/ shutdownMicrosoftOpenTelemetry(s) \/ SdkSettled(s)
                          \/ StatsSettled(s) \/ LangChainReset(s)
  \/ ImportedOpenAI /\ ~IsUse(Head(Queue))

LEMMA OtherStepsLeaveShutdowns == [Next]_vars => ShutdownStep \/ UNCHANGED shutdowns
BY DEF Next, vars, ShutdownStep, useMicrosoftOpenTelemetry, SdkClosed, StatsExport, StatsClosed,
       RequestMade, TimerFires, lifeVars, ImportedOpenAI, ImportedLangChain, LangChainRun, IsUse,
       Queue

LEMMA ShutdownsTyped ==
  ASSUME IInv, [Next]_vars
  PROVE  shutdowns' \in [Shutdowns -> Shutdown]
<1>1. TypeOK /\ QueuesOK
  BY DEF IInv
<1>2. CASE UNCHANGED shutdowns
  BY <1>1, <1>2 DEF TypeOK
<1>3. CASE ShutdownStep
  BY <1>1, <1>3, CallMoves, SdkSettledMoves, StatsSettledMoves, LangChainResetMoves,
     OpenAIResetMoves DEF ShutdownStep, Moves
<1> QED
  BY <1>2, <1>3, OtherStepsLeaveShutdowns

-----------------------------------------------------------------------------
(* The queues *)

\* A shutdown joins the queue once.
LEMMA JoinsQueue ==
  ASSUME TypeOK, OpenAIQueueOK, NEW s \in Shutdowns, NEW from \in Stages \ {"openai"},
         Moves(s, from, "openai"), resetGenAIInstrumentations(s), inits' = inits
  PROVE  OpenAIQueueOK'
<1> DEFINE x == [reset |-> s]
<1>1. x \in Importer /\ ~IsUse(x) /\ x.reset = s
  BY DEF Importer, IsUse
<1> HIDE DEF x
<1>2. "openaiAgents" \in GenAIKeys
  BY DEF GenAIKeys
<1>3. Queue' = Append(Queue, x)
  BY <1>2 DEF resetGenAIInstrumentations, TypeOK, Queue, x
<1>4. /\ Len(Queue') = Len(Queue) + 1 /\ Len(Queue) \in Nat
      /\ \A n \in 1 .. Len(Queue) : Queue'[n] = Queue[n]
      /\ Queue'[Len(Queue) + 1] = x
  BY <1>1, <1>2, <1>3, LastImporter DEF Queue
<1>5. \A n \in 1 .. Len(Queue) :
        Queue[n] \in Importer /\ (~IsUse(Queue[n]) => Queue[n].reset \in Shutdowns \ {s})
  <2>1. Queue \in Seq(Importer)
    BY <1>2 DEF TypeOK, Queue
  <2>2. SUFFICES ASSUME NEW n \in 1 .. Len(Queue)
                 PROVE  Queue[n] \in Importer
                          /\ (~IsUse(Queue[n]) => Queue[n].reset \in Shutdowns \ {s})
    OBVIOUS
  <2>3. Queue[n] \in Importer
    BY <2>1, ElementOfSeq
  <2> QED
    BY <2>3, ImporterIs DEF OpenAIQueueOK, Moves
<1>6. ASSUME NEW n \in 1 .. Len(Queue')
      PROVE  IF IsUse(Queue'[n]) THEN Queue'[n].use <= inits
             ELSE shutdowns'[Queue'[n].reset].at = "openai"
  <2>1. n = Len(Queue) + 1 \/ n \in 1 .. Len(Queue)
    BY <1>4
  <2> QED
    BY <2>1, <1>1, <1>4, <1>5 DEF OpenAIQueueOK, Moves
<1>7. ASSUME NEW m \in 1 .. Len(Queue'), NEW n \in 1 .. Len(Queue'),
             ~IsUse(Queue'[m]), ~IsUse(Queue'[n]), Queue'[m].reset = Queue'[n].reset
      PROVE  m = n
  <2>1. m = Len(Queue) + 1 \/ m \in 1 .. Len(Queue)
    BY <1>4
  <2>2. n = Len(Queue) + 1 \/ n \in 1 .. Len(Queue)
    BY <1>4
  <2> QED
    BY <2>1, <2>2, <1>1, <1>4, <1>5, <1>7 DEF OpenAIQueueOK
<1> QED
  BY <1>6, <1>7 DEF OpenAIQueueOK, IsUse

\* Initialisations join both queues.
LEMMA UseJoinsOpenAI ==
  ASSUME TypeOK, OpenAIQueueOK, NEW i \in Inits, i = inits + 1, inits' = i,
         UNCHANGED shutdowns, Queue' = Append(Queue, [use |-> i])
  PROVE  OpenAIQueueOK'
<1> DEFINE x == [use |-> i]
<1>1. x \in Importer /\ IsUse(x) /\ x.use = i
  BY DEF Importer, IsUse
<1> HIDE DEF x
<1>2. "openaiAgents" \in GenAIKeys
  BY DEF GenAIKeys
<1>3. Queue' = Append(Queue, x)
  BY DEF x
<1>4. /\ Len(Queue') = Len(Queue) + 1 /\ Len(Queue) \in Nat
      /\ \A n \in 1 .. Len(Queue) : Queue'[n] = Queue[n]
      /\ Queue'[Len(Queue) + 1] = x
  BY <1>1, <1>2, <1>3, LastImporter DEF Queue
<1>5. Queue \in Seq(Importer) /\ inits \in Nat /\ i \in Nat
  BY <1>2, SdkStatsAssumption DEF TypeOK, Queue, Inits
<1>6. ASSUME NEW n \in 1 .. Len(Queue')
      PROVE  IF IsUse(Queue'[n]) THEN Queue'[n].use <= i
             ELSE shutdowns[Queue'[n].reset].at = "openai"
  <2>1. CASE n = Len(Queue) + 1
    BY <2>1, <1>1, <1>4, <1>5
  <2>2. CASE n \in 1 .. Len(Queue)
    <3>1. Queue[n] \in Importer
      BY <2>2, <1>5, ElementOfSeq
    <3>2. IsUse(Queue[n]) => Queue[n].use \in Nat
      BY <3>1, ImporterIs DEF Inits
    <3> QED
      BY <2>2, <3>2, <1>4, <1>5 DEF OpenAIQueueOK
  <2> QED
    BY <2>1, <2>2, <1>4
<1>7. ASSUME NEW m \in 1 .. Len(Queue'), NEW n \in 1 .. Len(Queue'),
             ~IsUse(Queue'[m]), ~IsUse(Queue'[n]), Queue'[m].reset = Queue'[n].reset
      PROVE  m = n
  <2>1. m \in 1 .. Len(Queue) /\ n \in 1 .. Len(Queue)
    BY <1>1, <1>4, <1>7
  <2> QED
    BY <2>1, <1>4, <1>7 DEF OpenAIQueueOK
<1> QED
  BY <1>6, <1>7 DEF OpenAIQueueOK, IsUse

\* The first leaves; if it is a shutdown, it was the only place of that call.
LEMMA FirstLeaves ==
  ASSUME TypeOK, QueuesOK, ImportedOpenAI
  PROVE  OpenAIQueueOK'
<1>1. "openaiAgents" \in GenAIKeys /\ Queue # <<>>
  BY DEF GenAIKeys, ImportedOpenAI, Queue
<1>2. Queue' = Tail(Queue) /\ inits' = inits
  BY <1>1 DEF ImportedOpenAI, Queue, TypeOK, distroVars
<1>3. /\ Head(Queue) = Queue[1] /\ Len(Queue) >= 1 /\ Len(Queue) \in Nat
      /\ Len(Queue') = Len(Queue) - 1
      /\ \A n \in 1 .. Len(Queue) - 1 : Queue'[n] = Queue[n + 1]
  BY <1>1, <1>2, FirstImporter DEF Queue
<1>4. ASSUME NEW n \in 1 .. Len(Queue'), ~IsUse(Queue'[n])
      PROVE  shutdowns'[Queue'[n].reset].at = "openai"
  <2>1. n + 1 \in 1 .. Len(Queue) /\ Queue'[n] = Queue[n + 1]
    BY <1>3
  <2>2. Queue \in Seq(Importer)
    BY <1>1 DEF TypeOK, Queue
  <2>3. Queue[n + 1].reset \in Shutdowns /\ shutdowns[Queue[n + 1].reset].at = "openai"
    <3>1. Queue[n + 1] \in Importer
      BY <2>1, <2>2, ElementOfSeq
    <3> QED
      BY <1>4, <2>1, <3>1, ImporterIs DEF QueuesOK, OpenAIQueueOK
  <2>4. CASE IsUse(Head(Queue))
    <3>1. UNCHANGED shutdowns
      BY <2>4 DEF ImportedOpenAI, Queue, IsUse
    <3> QED
      BY <2>1, <2>3, <3>1
  <2>5. CASE ~IsUse(Head(Queue))
    <3>1. Moves(Head(Queue).reset, "openai", "langchain")
      BY <2>5, OpenAIResetMoves
    <3>2. Queue[n + 1].reset # Queue[1].reset
      BY <1>3, <1>4, <2>1, <2>5 DEF QueuesOK, OpenAIQueueOK
    <3> QED
      BY <1>3, <2>1, <2>3, <3>1, <3>2 DEF Moves
  <2> QED
    BY <2>4, <2>5
<1>5. ASSUME NEW n \in 1 .. Len(Queue'), IsUse(Queue'[n])
      PROVE  Queue'[n].use <= inits
  <2>1. n + 1 \in 1 .. Len(Queue) /\ Queue'[n] = Queue[n + 1]
    BY <1>3
  <2> QED
    BY <1>5, <2>1 DEF QueuesOK, OpenAIQueueOK
<1>6. ASSUME NEW m \in 1 .. Len(Queue'), NEW n \in 1 .. Len(Queue'),
             ~IsUse(Queue'[m]), ~IsUse(Queue'[n]), Queue'[m].reset = Queue'[n].reset
      PROVE  m = n
  <2>1. /\ m + 1 \in 1 .. Len(Queue) /\ Queue'[m] = Queue[m + 1]
        /\ n + 1 \in 1 .. Len(Queue) /\ Queue'[n] = Queue[n + 1]
    BY <1>3
  <2>2. m + 1 = n + 1
    BY <1>6, <2>1 DEF QueuesOK, OpenAIQueueOK
  <2> QED
    BY <1>3, <2>2
<1> QED
  BY <1>2, <1>4, <1>5, <1>6 DEF OpenAIQueueOK, IsUse

\* Where the queue stays, so do the calls that are in it.
LEMMA OpenAIQueueStays ==
  ASSUME TypeOK, OpenAIQueueOK, Queue' = Queue, inits' = inits,
         UNCHANGED shutdowns
           \/ \E s \in Shutdowns, from \in Stages \ {"openai"}, to \in Stages : Moves(s, from, to)
  PROVE  OpenAIQueueOK'
<1>1. ASSUME NEW n \in 1 .. Len(Queue), ~IsUse(Queue[n])
      PROVE  shutdowns'[Queue[n].reset].at = "openai"
  <2>1. Queue \in Seq(Importer)
    BY DEF TypeOK, Queue, GenAIKeys
  <2>2. Queue[n] \in Importer
    BY <2>1, ElementOfSeq
  <2>3. Queue[n].reset \in Shutdowns /\ shutdowns[Queue[n].reset].at = "openai"
    BY <1>1, <2>2, ImporterIs DEF OpenAIQueueOK
  <2> QED
    BY <2>3 DEF Moves
<1> QED
  BY <1>1 DEF OpenAIQueueOK, IsUse

LEMMA OpenAIQueueKept ==
  ASSUME IInv, [Next]_vars
  PROVE  OpenAIQueueOK'
<1>1. TypeOK /\ QueuesOK /\ OpenAIQueueOK
  BY DEF IInv, QueuesOK
<1>2. ASSUME NEW name \in DOMAIN Options, useMicrosoftOpenTelemetry(name)
      PROVE  OpenAIQueueOK'
  <2> DEFINE i == inits + 1
  <2>1. i \in Inits /\ inits' = i /\ UNCHANGED shutdowns
    BY <1>1, <1>2, SdkStatsAssumption DEF useMicrosoftOpenTelemetry, TypeOK, Inits
  <2>2. Queue' = Queue \/ Queue' = Append(Queue, [use |-> i])
    BY <1>2 DEF useMicrosoftOpenTelemetry, ImportsOf, Queue, GenAIKeys
  <2> HIDE DEF i
  <2>3. CASE Queue' = Append(Queue, [use |-> i])
    BY <1>1, <2>1, <2>3, UseJoinsOpenAI DEF i
  <2>4. CASE Queue' = Queue
    <3>1. Queue \in Seq(Importer) /\ inits \in Nat
      BY <1>1, SdkStatsAssumption DEF TypeOK, Queue, GenAIKeys
    <3>2. ASSUME NEW n \in 1 .. Len(Queue), IsUse(Queue[n]) PROVE Queue[n].use <= inits + 1
      <4>1. Queue[n] \in Importer
        BY <3>1, ElementOfSeq
      <4>2. Queue[n].use \in Nat
        BY <3>2, <4>1, ImporterIs DEF Inits
      <4> QED
        BY <1>1, <3>1, <3>2, <4>2 DEF OpenAIQueueOK
    <3> QED
      BY <1>1, <2>1, <2>4, <3>2 DEF OpenAIQueueOK, IsUse, i
  <2> QED
    BY <2>2, <2>3, <2>4
<1>3. ASSUME NEW s \in Shutdowns, shutdownMicrosoftOpenTelemetry(s) PROVE OpenAIQueueOK'
  <2>1. Queue' = Queue /\ inits' = inits /\ Moves(s, "none", "sdk")
    BY <1>1, <1>3, CallMoves DEF shutdownMicrosoftOpenTelemetry, Queue
  <2> QED
    BY <1>1, <2>1, OpenAIQueueStays DEF Stages
<1>4. ASSUME NEW s \in Shutdowns, SdkSettled(s) PROVE OpenAIQueueOK'
  <2>1. inits' = inits
    BY <1>4 DEF SdkSettled, distroVars
  <2>2. CASE pipeline = 0
    <3>1. Moves(s, "sdk", "openai") /\ resetGenAIInstrumentations(s)
      BY <1>1, <1>4, <2>2, SdkSettledMoves
    <3> QED
      BY <1>1, <2>1, <3>1, JoinsQueue DEF Stages
  <2>3. CASE pipeline # 0
    <3>1. Moves(s, "sdk", "stats") /\ Queue' = Queue
      BY <1>1, <1>4, <2>3, SdkSettledMoves DEF Queue
    <3> QED
      BY <1>1, <2>1, <3>1, OpenAIQueueStays DEF Stages
  <2> QED
    BY <2>2, <2>3
<1>5. ASSUME NEW s \in Shutdowns, StatsSettled(s) PROVE OpenAIQueueOK'
  <2>1. inits' = inits /\ resetGenAIInstrumentations(s) /\ Moves(s, "stats", "openai")
    BY <1>1, <1>5, StatsSettledMoves DEF StatsSettled, distroVars
  <2> QED
    BY <1>1, <2>1, JoinsQueue DEF Stages
<1>6. ASSUME NEW s \in Shutdowns, LangChainReset(s) PROVE OpenAIQueueOK'
  <2>1. Queue' = Queue /\ inits' = inits /\ Moves(s, "langchain", "done")
    BY <1>1, <1>6, LangChainResetMoves DEF LangChainReset, Queue, distroVars
  <2> QED
    BY <1>1, <2>1, OpenAIQueueStays DEF Stages
<1>7. ASSUME ImportedLangChain PROVE OpenAIQueueOK'
  <2>1. Queue' = Queue /\ inits' = inits /\ UNCHANGED shutdowns
    BY <1>1, <1>7 DEF ImportedLangChain, Queue, distroVars, TypeOK, GenAIKeys
  <2> QED
    BY <1>1, <2>1, OpenAIQueueStays
<1>8. ASSUME UNCHANGED <<Queue, inits, shutdowns>> PROVE OpenAIQueueOK'
  BY <1>1, <1>8, OpenAIQueueStays
<1>9. ASSUME NEW i \in Inits, SdkClosed(i) \/ StatsExport(i) \/ StatsClosed(i)
      PROVE  OpenAIQueueOK'
  BY <1>8, <1>9 DEF SdkClosed, StatsExport, StatsClosed, lifeVars, distroVars, Queue
<1>10. ASSUME RequestMade \/ TimerFires \/ LangChainRun \/ UNCHANGED vars PROVE OpenAIQueueOK'
  BY <1>8, <1>10 DEF RequestMade, TimerFires, LangChainRun, vars, lifeVars, distroVars, Queue
<1> QED
  BY <1>1, <1>2, <1>3, <1>4, <1>5, <1>6, <1>7, <1>9, <1>10, FirstLeaves DEF Next

LEMMA LangChainQueueKept ==
  ASSUME IInv, [Next]_vars
  PROVE  LangChainQueueOK'
<1> DEFINE q == importing["langchain"]
           S == [use: Inits]
<1>1. TypeOK /\ QueuesOK
  BY DEF IInv
<1>2. /\ q \in Seq(S) /\ \A n \in 1 .. Len(q) : q[n].use <= inits
      /\ inits \in Nat /\ importing \in [GenAIKeys -> Seq(Importer)]
  BY <1>1, SdkStatsAssumption DEF QueuesOK, LangChainQueueOK, TypeOK
<1>3. SUFFICES ASSUME TRUE
               PROVE  q' \in Seq(S) /\ \A n \in 1 .. Len(q') : q'[n].use <= inits'
  BY DEF LangChainQueueOK
<1>4. \A n \in 1 .. Len(q) : q[n].use \in Nat
  <2>1. SUFFICES ASSUME NEW n \in 1 .. Len(q) PROVE q[n].use \in Nat
    OBVIOUS
  <2> HIDE DEF q
  <2>2. q[n] \in S
    <3> HIDE DEF S
    <3> QED
      BY <1>2, <2>1, ElementOfSeq
  <2> QED
    BY <2>2 DEF Inits
<1>5. ASSUME q' = q, inits' \in Nat, inits <= inits'
      PROVE  q' \in Seq(S) /\ \A n \in 1 .. Len(q') : q'[n].use <= inits'
  <2> HIDE DEF q, S
  <2> QED
    BY <1>2, <1>4, <1>5
<1>6. ASSUME NEW name \in DOMAIN Options, useMicrosoftOpenTelemetry(name)
      PROVE  q' \in Seq(S) /\ \A n \in 1 .. Len(q') : q'[n].use <= inits'
  <2> DEFINE x == [use |-> inits + 1]
  <2>1. inits + 1 \in Inits /\ inits' = inits + 1
    BY <1>1, <1>6, SdkStatsAssumption DEF useMicrosoftOpenTelemetry, TypeOK, Inits
  <2>2. x \in S /\ x.use = inits + 1
    BY <2>1
  <2>3. q' = q \/ q' = Append(q, x)
    BY <1>6 DEF useMicrosoftOpenTelemetry, ImportsOf, GenAIKeys
  <2> HIDE DEF q, S, x
  <2>4. CASE q' = q
    BY <1>2, <1>5, <2>1, <2>4
  <2>5. CASE q' = Append(q, x)
    <3>1. /\ q' \in Seq(S) /\ Len(q') = Len(q) + 1 /\ Len(q) \in Nat
          /\ \A n \in 1 .. Len(q) : q'[n] = q[n]
          /\ q'[Len(q) + 1] = x
      BY <1>2, <2>2, <2>5, AppendProperties
    <3> QED
      BY <1>2, <1>4, <2>1, <2>2, <3>1
  <2> QED
    BY <2>3, <2>4, <2>5
<1>7. ASSUME ImportedLangChain
      PROVE  q' \in Seq(S) /\ \A n \in 1 .. Len(q') : q'[n].use <= inits'
  <2>1. q' = Tail(q) /\ q # <<>> /\ inits' = inits
    BY <1>2, <1>7 DEF ImportedLangChain, distroVars, GenAIKeys
  <2> HIDE DEF q, S
  <2>2. /\ q' \in Seq(S) /\ Len(q') = Len(q) - 1 /\ Len(q) \in Nat
        /\ \A n \in 1 .. Len(q') : q'[n] = q[n + 1]
    BY <1>2, <2>1, HeadTailProperties
  <2> QED
    BY <1>2, <2>1, <2>2
<1>8. (\E name \in DOMAIN Options : useMicrosoftOpenTelemetry(name)) \/ ImportedLangChain
        \/ UNCHANGED <<q, inits>>
  <2>1. \A s \in Shutdowns : resetGenAIInstrumentations(s) => UNCHANGED q
    BY <1>2 DEF resetGenAIInstrumentations
  <2>2. \A s \in Shutdowns : SdkSettled(s) \/ StatsSettled(s) => UNCHANGED <<q, inits>>
    BY <2>1 DEF SdkSettled, StatsSettled, distroVars
  <2>3. ImportedOpenAI => UNCHANGED <<q, inits>>
    BY <1>2 DEF ImportedOpenAI, distroVars
  <2> QED
    BY <2>2, <2>3 DEF Next, vars, distroVars, shutdownMicrosoftOpenTelemetry, LangChainReset,
       SdkClosed, StatsExport, StatsClosed, RequestMade, TimerFires, lifeVars, LangChainRun
<1> QED
  BY <1>2, <1>5, <1>6, <1>7, <1>8

LEMMA QueuesTyped ==
  ASSUME IInv, [Next]_vars
  PROVE  importing' \in [GenAIKeys -> Seq(Importer)]
<1>1. TypeOK /\ QueuesOK /\ importing \in [GenAIKeys -> Seq(Importer)]
  BY DEF IInv, TypeOK
<1>2. ASSUME NEW name \in DOMAIN Options, useMicrosoftOpenTelemetry(name)
      PROVE  importing' \in [GenAIKeys -> Seq(Importer)]
  <2>1. [use |-> inits + 1] \in Importer
    BY <1>1, <1>2, SdkStatsAssumption DEF useMicrosoftOpenTelemetry, TypeOK, Inits, Importer
  <2>2. \A k \in GenAIKeys : Append(importing[k], [use |-> inits + 1]) \in Seq(Importer)
    BY <1>1, <2>1, LastImporter
  <2> QED
    BY <1>1, <1>2, <2>2 DEF useMicrosoftOpenTelemetry, ImportsOf
<1>3. ASSUME NEW s \in Shutdowns, resetGenAIInstrumentations(s)
      PROVE  importing' \in [GenAIKeys -> Seq(Importer)]
  <2>1. [reset |-> s] \in Importer
    BY DEF Importer
  <2>2. Append(importing["openaiAgents"], [reset |-> s]) \in Seq(Importer)
    BY <1>1, <2>1, LastImporter DEF GenAIKeys
  <2> QED
    BY <1>1, <1>3, <2>2 DEF resetGenAIInstrumentations
<1>4. ASSUME NEW k \in GenAIKeys, importing[k] # <<>>,
             importing' = [importing EXCEPT ![k] = Tail(@)]
      PROVE  importing' \in [GenAIKeys -> Seq(Importer)]
  BY <1>1, <1>4, FirstImporter
<1>5. CASE UNCHANGED importing
  BY <1>1, <1>5
<1>6. \/ \E name \in DOMAIN Options : useMicrosoftOpenTelemetry(name)
      \/ \E s \in Shutdowns : resetGenAIInstrumentations(s)
      \/ \E k \in GenAIKeys : importing[k] # <<>> /\ importing' = [importing EXCEPT ![k] = Tail(@)]
      \/ UNCHANGED importing
  BY DEF Next, vars, shutdownMicrosoftOpenTelemetry, SdkSettled, StatsSettled, LangChainReset,
         SdkClosed, StatsExport, StatsClosed, RequestMade, TimerFires, lifeVars, ImportedOpenAI,
         ImportedLangChain, LangChainRun, GenAIKeys
<1> QED
  BY <1>2, <1>3, <1>4, <1>5, <1>6

LEMMA DistroVarsTyped ==
  ASSUME IInv, [Next]_vars
  PROVE  /\ inits' \in 0 .. MaxInits /\ given' \in [Inits -> DOMAIN Options]
         /\ isShutdown' \in BOOLEAN /\ orderly' \in BOOLEAN
         /\ sdks' \in [Inits -> {"none", "running", "closing", "closed", "failed"}]
         /\ loader' \in 0 .. MaxInits /\ activeLoader' \in 0 .. MaxInits
         /\ console' \in 0 .. MaxInits
<1> DEFINE Goal == /\ inits' \in 0 .. MaxInits /\ given' \in [Inits -> DOMAIN Options]
                   /\ isShutdown' \in BOOLEAN /\ orderly' \in BOOLEAN
                   /\ sdks' \in [Inits -> {"none", "running", "closing", "closed", "failed"}]
                   /\ loader' \in 0 .. MaxInits /\ activeLoader' \in 0 .. MaxInits
                   /\ console' \in 0 .. MaxInits
<1>1. TypeOK
  BY DEF IInv
<1>2. ASSUME NEW name \in DOMAIN Options, useMicrosoftOpenTelemetry(name) PROVE Goal
  <2>1. inits + 1 \in Inits /\ inits + 1 \in 0 .. MaxInits /\ inits' = inits + 1
        /\ 0 \in 0 .. MaxInits
    BY <1>1, <1>2, SdkStatsAssumption DEF useMicrosoftOpenTelemetry, TypeOK, Inits
  <2>2. isShutdown' \in BOOLEAN /\ orderly' \in BOOLEAN
    BY <1>2 DEF useMicrosoftOpenTelemetry
  <2>3. /\ given' \in [Inits -> DOMAIN Options]
        /\ sdks' \in [Inits -> {"none", "running", "closing", "closed", "failed"}]
    BY <1>1, <1>2, <2>1 DEF useMicrosoftOpenTelemetry, TypeOK
  <2>4. /\ loader' \in {0, inits + 1} /\ activeLoader' \in {activeLoader, inits + 1}
        /\ console' \in {0, inits + 1}
    BY <1>2 DEF useMicrosoftOpenTelemetry
  <2> QED
    BY <1>1, <2>1, <2>2, <2>3, <2>4 DEF TypeOK
<1>3. ASSUME NEW s \in Shutdowns, shutdownMicrosoftOpenTelemetry(s) PROVE Goal
  <2>1. isShutdown' \in BOOLEAN /\ orderly' \in BOOLEAN
    BY <1>1, <1>3 DEF shutdownMicrosoftOpenTelemetry, TypeOK
  <2>2. sdks' \in [Inits -> {"none", "running", "closing", "closed", "failed"}]
    BY <1>1, <1>3 DEF shutdownMicrosoftOpenTelemetry, TypeOK
  <2>3. console' = 0 /\ activeLoader' \in {0, activeLoader} /\ 0 \in 0 .. MaxInits
    BY <1>1, <1>3, SdkStatsAssumption DEF shutdownMicrosoftOpenTelemetry
  <2> QED
    BY <1>1, <1>3, <2>1, <2>2, <2>3 DEF shutdownMicrosoftOpenTelemetry, TypeOK
<1>4. ASSUME NEW i \in Inits, SdkClosed(i) PROVE Goal
  <2>1. sdks' \in [Inits -> {"none", "running", "closing", "closed", "failed"}]
    BY <1>1, <1>4 DEF SdkClosed, TypeOK
  <2> QED
    BY <1>1, <1>4, <2>1 DEF SdkClosed, TypeOK
<1>5. CASE UNCHANGED <<distroVars, orderly>>
  BY <1>1, <1>5 DEF distroVars, TypeOK
<1>6. \/ \E name \in DOMAIN Options : useMicrosoftOpenTelemetry(name)
      \/ \E s \in Shutdowns : shutdownMicrosoftOpenTelemetry(s)
      \/ \E i \in Inits : SdkClosed(i)
      \/ UNCHANGED <<distroVars, orderly>>
  BY DEF Next, vars, SdkSettled, StatsSettled, LangChainReset, StatsExport, StatsClosed,
         RequestMade, TimerFires, lifeVars, ImportedOpenAI, ImportedLangChain, LangChainRun
<1> QED
  BY <1>2, <1>3, <1>4, <1>5, <1>6

LEMMA TypesKept ==
  ASSUME IInv, [Next]_vars
  PROVE  TypeOK'
BY StatsTyped, InstrumentorsTyped, ShutdownsTyped, QueuesTyped, DistroVarsTyped DEF TypeOK

-----------------------------------------------------------------------------
(* What is not there yet, and what has been taken down *)

keptVars == <<instrumentorVars, distroVars, importing, shutdowns, orderly>>

\* The steps of the statistics and of LangChain that are not of a call.
Background ==
  \/ \E i \in Inits : StatsExport(i) \/ StatsClosed(i)
  \/ RequestMade \/ TimerFires \/ LangChainRun \/ UNCHANGED vars

LEMMA InBackground ==
  ASSUME Background
  PROVE  /\ UNCHANGED <<pipeline, keptVars>>
         /\ exportTimer' => exportTimer
         /\ pipelines' = pipelines
              \/ \E p \in Inits : /\ pipelines[p].state = "closing"
                                  /\ pipelines' = [pipelines EXCEPT ![p].state = "closed"]
<1>1. ASSUME NEW i \in Inits, StatsExport(i)
      PROVE  UNCHANGED <<pipeline, keptVars, exportTimer, pipelines>>
  BY <1>1 DEF StatsExport, Collect, managerVars, lifeVars, keptVars
<1>2. ASSUME NEW i \in Inits, StatsClosed(i)
      PROVE  /\ UNCHANGED <<pipeline, keptVars, exportTimer>>
             /\ pipelines[i].state = "closing"
             /\ pipelines' = [pipelines EXCEPT ![i].state = "closed"]
  BY <1>2 DEF StatsClosed, PipelineClosed, managerVars, lifeVars, keptVars
<1>3. ASSUME RequestMade PROVE UNCHANGED <<pipeline, keptVars, exportTimer, pipelines>>
  BY <1>3 DEF RequestMade, Request, managerVars, lifeVars, keptVars
<1>4. ASSUME TimerFires PROVE UNCHANGED <<pipeline, keptVars, pipelines>> /\ ~exportTimer'
  BY <1>4 DEF TimerFires, InitialExport, lifeVars, keptVars
<1>5. ASSUME UNCHANGED vars PROVE UNCHANGED <<pipeline, keptVars, exportTimer, pipelines>>
  BY <1>5 DEF vars, statsVars, keptVars
<1>6. ASSUME LangChainRun PROVE UNCHANGED <<pipeline, keptVars, exportTimer, pipelines>>
  BY <1>6 DEF LangChainRun, ConfigureRun, statsVars, keptVars
<1> QED
  BY <1>1, <1>2, <1>3, <1>4, <1>5, <1>6 DEF Background

LEMMA NotBeforeKept ==
  ASSUME IInv, [Next]_vars
  PROVE  NotBefore'
<1>1. TypeOK /\ QueuesOK /\ NotBefore /\ TypeOK'
  BY TypesKept DEF IInv
<1>2. /\ inits \in Nat /\ pipeline \in Nat /\ loader \in Nat /\ activeLoader \in Nat
      /\ Inits \subseteq Nat \ {0}
      /\ sdks \in [Inits -> {"none", "running", "closing", "closed", "failed"}]
      /\ pipelines \in [Inits -> Pipeline]
  BY <1>1, SdkStatsAssumption DEF TypeOK, SdkStatsTypeOK, Inits
<1>3. ASSUME NEW name \in DOMAIN Options, useMicrosoftOpenTelemetry(name) PROVE NotBefore'
  <2>1. inits' = inits + 1
    BY <1>3 DEF useMicrosoftOpenTelemetry
  <2>2. loader' \in {0, inits + 1} /\ activeLoader' \in {activeLoader, inits + 1}
    BY <1>3 DEF useMicrosoftOpenTelemetry
  <2>3. pipeline' \in {pipeline, inits + 1}
    BY <1>3 DEF useMicrosoftOpenTelemetry, initialize, managerVars
  <2>4. \A i \in Inits : i > inits + 1 => sdks'[i] = sdks[i] /\ pipelines'[i] = pipelines[i]
    BY <1>2, <1>3 DEF useMicrosoftOpenTelemetry, initialize
  <2> QED
    BY <1>1, <1>2, <2>1, <2>2, <2>3, <2>4 DEF NotBefore
<1>4. ASSUME NEW s \in Shutdowns, shutdownMicrosoftOpenTelemetry(s) PROVE NotBefore'
  <2>1. /\ UNCHANGED <<inits, loader, pipeline, pipelines, openai, langchain>>
        /\ activeLoader' \in {0, activeLoader}
    BY <1>4 DEF shutdownMicrosoftOpenTelemetry, statsVars, instrumentorVars
  <2>2. \A i \in Inits : i > inits => sdks'[i] = sdks[i]
    BY <1>2, <1>4 DEF shutdownMicrosoftOpenTelemetry
  <2> QED
    BY <1>1, <1>2, <2>1, <2>2 DEF NotBefore
<1>5. ASSUME NEW i \in Inits, SdkClosed(i) PROVE NotBefore'
  <2>1. UNCHANGED <<inits, loader, activeLoader, pipeline, pipelines, openai, langchain>>
    BY <1>5 DEF SdkClosed, statsVars, instrumentorVars
  <2>2. sdks[i] = "closing" /\ \A j \in Inits : j # i => sdks'[j] = sdks[j]
    BY <1>2, <1>5 DEF SdkClosed
  <2> QED
    BY <1>1, <1>2, <2>1, <2>2 DEF NotBefore
<1>6. ASSUME NEW s \in Shutdowns, SdkSettled(s) PROVE NotBefore'
  <2>1. UNCHANGED <<inits, loader, activeLoader, sdks, pipeline, openai, langchain>>
    BY <1>6 DEF SdkSettled, distroVars, instrumentorVars, managerVars, shutdownStats
  <2>2. \/ pipelines' = pipelines
        \/ pipeline # 0 /\ pipelines' = [pipelines EXCEPT ![pipeline].state = "closing"]
    BY <1>6 DEF SdkSettled, shutdownStats
  <2>3. \A i \in Inits : i > inits => pipelines'[i] = pipelines[i]
    BY <1>1, <1>2, <2>2 DEF NotBefore
  <2> QED
    BY <1>1, <1>2, <2>1, <2>3 DEF NotBefore
<1>7. ASSUME NEW s \in Shutdowns, StatsSettled(s) PROVE NotBefore'
  <2>1. UNCHANGED <<inits, loader, activeLoader, sdks, pipelines, openai, langchain>>
        /\ pipeline' = 0
    BY <1>7 DEF StatsSettled, cleanup, distroVars, instrumentorVars
  <2> QED
    BY <1>1, <1>2, <2>1 DEF NotBefore
<1>8. ASSUME NEW s \in Shutdowns, LangChainReset(s) PROVE NotBefore'
  <2>1. UNCHANGED <<inits, loader, activeLoader, sdks, pipelines, pipeline, openai>>
        /\ ~langchain'
    BY <1>8 DEF LangChainReset, ResetLangChain, distroVars, statsVars
  <2> QED
    BY <1>1, <1>2, <2>1 DEF NotBefore
<1>9. ASSUME ImportedLangChain PROVE NotBefore'
  <2>1. UNCHANGED <<inits, loader, activeLoader, sdks, pipelines, pipeline>>
    BY <1>9 DEF ImportedLangChain, distroVars, statsVars
  <2>2. inits # 0
    <3> DEFINE i == Head(importing["langchain"]).use
    <3>1. i \in Inits /\ i <= inits
      BY <1>1, <1>9, FirstLangChain DEF ImportedLangChain
    <3> HIDE DEF i
    <3> QED
      BY <1>2, <3>1
  <2> QED
    BY <1>1, <1>2, <2>1, <2>2 DEF NotBefore
<1>10. ASSUME ImportedOpenAI PROVE NotBefore'
  <2>1. UNCHANGED <<inits, loader, activeLoader, sdks, pipelines, pipeline>>
    BY <1>10 DEF ImportedOpenAI, distroVars, statsVars
  <2>2. CASE IsUse(Head(Queue))
    <3>1. inits # 0
      BY <1>1, <1>2, <1>10, <2>2, FirstOpenAI DEF ImportedOpenAI, Queue
    <3> QED
      BY <1>1, <1>2, <2>1, <3>1 DEF NotBefore
  <2>3. CASE ~IsUse(Head(Queue))
    <3>1. openai' = <<>> /\ UNCHANGED langchain
      BY <1>10, <2>3 DEF ImportedOpenAI, Queue, IsUse, ResetOpenAI
    <3> QED
      BY <1>1, <1>2, <2>1, <3>1 DEF NotBefore
  <2> QED
    BY <2>2, <2>3
<1>11. ASSUME Background PROVE NotBefore'
  <2>1. UNCHANGED <<inits, loader, activeLoader, sdks, pipeline, openai, langchain>>
    BY <1>11, InBackground DEF keptVars, distroVars, instrumentorVars
  <2>2. \A i \in Inits : pipelines[i].state = "none" => pipelines'[i] = pipelines[i]
    BY <1>2, <1>11, InBackground
  <2> QED
    BY <1>1, <1>2, <2>1, <2>2 DEF NotBefore
<1> QED
  BY <1>3, <1>4, <1>5, <1>6, <1>7, <1>8, <1>9, <1>10, <1>11 DEF Next, Background

\* A call under way that moves on stays one of the calls since the last initialisation, or not.
LEMMA SinceStays ==
  ASSUME NEW s, NEW from \in Stages \ {"none"}, NEW to \in Stages \ {"none"}, Moves(s, from, to),
         shutdowns'[s].sdk = shutdowns[s].sdk, inits' = inits
  PROVE  Since' = Since /\ \A r \in Shutdowns : shutdowns'[r].sdk = shutdowns[r].sdk
BY DEF Since, Moves

LEMMA TakenDownKept ==
  ASSUME IInv, [Next]_vars
  PROVE  TakenDown'
<1>1. TypeOK /\ QueuesOK /\ NotBefore /\ TakenDown /\ TypeOK'
  BY TypesKept DEF IInv
<1>2. /\ inits \in Nat /\ pipeline \in Nat /\ Inits \subseteq Nat \ {0}
      /\ inits > 0 => inits \in Inits
      /\ sdks \in [Inits -> {"none", "running", "closing", "closed", "failed"}]
      /\ \A s \in Shutdowns : shutdowns[s].at \in Stages /\ shutdowns[s].sdk \in Nat
  BY <1>1, SdkStatsAssumption DEF TypeOK, SdkStatsTypeOK, Inits, Shutdown
<1>3. ASSUME NEW name \in DOMAIN Options, useMicrosoftOpenTelemetry(name) PROVE TakenDown'
  <2>1. inits' = inits + 1 /\ UNCHANGED <<shutdowns, openai>> /\ isShutdown' = FALSE
    BY <1>3 DEF useMicrosoftOpenTelemetry, instrumentorVars
  <2>2. pipeline' = 0 => pipeline = 0 /\ exportTimer' = exportTimer
    BY <1>2, <1>3 DEF useMicrosoftOpenTelemetry, initialize, managerVars
  <2>3. \A s \in Shutdowns : shutdowns'[s].sdk <= inits /\ shutdowns[s].sdk # inits + 1
    BY <1>1, <1>2, <2>1 DEF TakenDown
  <2>4. Since' = {}
    BY <2>1, <2>3 DEF Since
  <2>5. \A s \in Shutdowns : shutdowns'[s].sdk <= inits'
    BY <1>2, <2>1, <2>3
  <2> QED
    BY <1>1, <2>1, <2>2, <2>4, <2>5 DEF TakenDown
<1>4. ASSUME NEW s \in Shutdowns, shutdownMicrosoftOpenTelemetry(s) PROVE TakenDown'
  <2>1. /\ UNCHANGED <<inits, pipeline, exportTimer, openai, langchain>>
        /\ isShutdown' = TRUE /\ console' = 0
    BY <1>4 DEF shutdownMicrosoftOpenTelemetry, statsVars, instrumentorVars
  <2>2. Moves(s, "none", "sdk") /\ shutdowns'[s].sdk = inits
    BY <1>1, <1>4, CallMoves
  <2>3. Since' = Since \cup {s} /\ s \notin Since
    BY <2>1, <2>2 DEF Since, Moves
  <2>4. inits > 0 => sdks'[inits] = sdks[inits] \/ sdks[inits] = "running"
    BY <1>2, <1>4 DEF shutdownMicrosoftOpenTelemetry
  <2>5. ASSUME NEW r \in Since' PROVE Down(r)'
    <3>1. CASE r = s
      BY <2>2, <3>1 DEF Down, At, Moves
    <3>2. CASE r # s
      <4>1. r \in Since /\ Down(r) /\ shutdowns'[r] = shutdowns[r]
        BY <1>1, <2>2, <2>3, <3>2 DEF TakenDown, Moves, Since
      <4> QED
        BY <2>1, <2>4, <4>1 DEF Down, At
    <3> QED
      BY <3>1, <3>2
  <2>6. \A r \in Shutdowns : shutdowns'[r].sdk <= inits
    BY <1>1, <1>2, <2>2 DEF TakenDown, Moves
  <2> QED
    BY <1>1, <2>1, <2>3, <2>5, <2>6 DEF TakenDown
<1>5. ASSUME NEW i \in Inits, SdkClosed(i) PROVE TakenDown'
  <2>1. UNCHANGED <<inits, pipeline, exportTimer, openai, langchain, shutdowns,
                    isShutdown, console>>
    BY <1>5 DEF SdkClosed, statsVars, instrumentorVars
  <2>2. inits > 0 /\ sdks[inits] \in {"closed", "failed"} => sdks'[inits] \in {"closed", "failed"}
    BY <1>2, <1>5 DEF SdkClosed
  <2>3. Since' = Since
    BY <2>1 DEF Since
  <2>4. \A r \in Shutdowns : Down(r) => Down(r)'
    BY <2>1, <2>2 DEF Down, At
  <2> QED
    BY <1>1, <2>1, <2>3, <2>4 DEF TakenDown, Since
<1>6. ASSUME NEW s \in Shutdowns, SdkSettled(s) PROVE TakenDown'
  <2>1. UNCHANGED <<inits, isShutdown, console, sdks, pipeline, openai, langchain>>
    BY <1>6 DEF SdkSettled, distroVars, instrumentorVars, managerVars, shutdownStats
  <2>2. exportTimer' => exportTimer
    BY <1>6 DEF SdkSettled, managerVars, shutdownStats
  <2>3. \E to \in {"openai", "stats"} : Moves(s, "sdk", to) /\ (to = "openai" => pipeline = 0)
    BY <1>1, <1>6, SdkSettledMoves
  <2>4. shutdowns'[s].sdk = shutdowns[s].sdk
    BY <1>1, <1>6, SdkSettledMoves
  <2>5. Since' = Since /\ \A r \in Shutdowns : shutdowns'[r].sdk = shutdowns[r].sdk
    BY <2>1, <2>3, <2>4, SinceStays DEF Stages
  <2>6. s \in Since /\ inits > 0 => sdks[inits] \in {"closed", "failed"}
    BY <1>2, <1>6 DEF SdkSettled, SdkAnswered, Since
  <2>7. ASSUME NEW r \in Since PROVE Down(r)'
    <3>1. CASE r = s
      BY <2>1, <2>3, <2>6, <3>1 DEF Down, At, Moves
    <3>2. CASE r # s
      BY <1>1, <2>1, <2>3, <3>2 DEF Down, At, Moves, TakenDown, Since
    <3> QED
      BY <3>1, <3>2
  <2> QED
    BY <1>1, <2>1, <2>2, <2>5, <2>7 DEF TakenDown
<1>7. ASSUME NEW s \in Shutdowns, StatsSettled(s) PROVE TakenDown'
  <2>1. /\ UNCHANGED <<inits, isShutdown, console, sdks, openai, langchain>>
        /\ pipeline' = 0 /\ ~exportTimer'
    BY <1>7 DEF StatsSettled, distroVars, instrumentorVars, cleanup
  <2>2. Moves(s, "stats", "openai") /\ shutdowns'[s].sdk = shutdowns[s].sdk
    BY <1>1, <1>7, StatsSettledMoves
  <2>3. Since' = Since /\ \A r \in Shutdowns : shutdowns'[r].sdk = shutdowns[r].sdk
    BY <2>1, <2>2, SinceStays DEF Stages
  <2>4. ASSUME NEW r \in Since PROVE Down(r)'
    BY <1>1, <2>1, <2>2 DEF Down, At, Moves, TakenDown, Since
  <2> QED
    BY <1>1, <2>1, <2>3, <2>4 DEF TakenDown
<1>8. ASSUME NEW s \in Shutdowns, LangChainReset(s) PROVE TakenDown'
  <2>1. /\ UNCHANGED <<inits, isShutdown, console, sdks, pipeline, exportTimer, openai>>
        /\ ~langchain'
    BY <1>8 DEF LangChainReset, ResetLangChain, distroVars, statsVars
  <2>2. Moves(s, "langchain", "done") /\ shutdowns'[s].sdk = shutdowns[s].sdk
    BY <1>1, <1>8, LangChainResetMoves
  <2>3. Since' = Since /\ \A r \in Shutdowns : shutdowns'[r].sdk = shutdowns[r].sdk
    BY <2>1, <2>2, SinceStays DEF Stages
  <2>4. ASSUME NEW r \in Since PROVE Down(r)'
    BY <1>1, <2>1, <2>2 DEF Down, At, Moves, TakenDown, Since
  <2> QED
    BY <1>1, <2>1, <2>3, <2>4 DEF TakenDown
<1>9. ASSUME ImportedLangChain PROVE TakenDown'
  <2>1. UNCHANGED <<inits, isShutdown, console, sdks, pipeline, exportTimer, shutdowns>>
    BY <1>9 DEF ImportedLangChain, distroVars, statsVars
  <2>2. UNCHANGED openai /\ (isShutdown => UNCHANGED langchain)
    BY <1>9 DEF ImportedLangChain, InitializeLangChain, InstrumentLangChain, instrumentorVars
  <2>3. Since' = Since
    BY <2>1 DEF Since
  <2>4. ASSUME NEW r \in Since PROVE Down(r)'
    BY <1>1, <2>1, <2>2 DEF Down, At, TakenDown
  <2> QED
    BY <1>1, <2>1, <2>2, <2>3, <2>4 DEF TakenDown
<1>10. ASSUME ImportedOpenAI PROVE TakenDown'
  <2>1. UNCHANGED <<inits, isShutdown, console, sdks, pipeline, exportTimer>>
    BY <1>10 DEF ImportedOpenAI, distroVars, statsVars
  <2>2. CASE IsUse(Head(Queue))
    <3>1. /\ UNCHANGED <<shutdowns, langchain>>
          /\ isShutdown => UNCHANGED openai
      BY <1>10, <2>2 DEF ImportedOpenAI, Queue, IsUse, InitializeOpenAI, InstrumentOpenAI,
                         instrumentorVars
    <3>2. Since' = Since
      BY <2>1, <3>1 DEF Since
    <3>3. ASSUME NEW r \in Since PROVE Down(r)'
      BY <1>1, <2>1, <3>1 DEF Down, At, TakenDown
    <3> QED
      BY <1>1, <2>1, <3>1, <3>2, <3>3 DEF TakenDown
  <2>3. CASE ~IsUse(Head(Queue))
    <3> DEFINE s == Head(Queue).reset
    <3>1. /\ Moves(s, "openai", "langchain") /\ shutdowns'[s].sdk = shutdowns[s].sdk
          /\ ResetOpenAI
      BY <1>1, <1>10, <2>3, OpenAIResetMoves
    <3> HIDE DEF s
    <3>2. openai' = <<>> /\ UNCHANGED langchain
      BY <3>1 DEF ResetOpenAI
    <3>3. Since' = Since /\ \A r \in Shutdowns : shutdowns'[r].sdk = shutdowns[r].sdk
      BY <2>1, <3>1, SinceStays DEF Stages
    <3>4. ASSUME NEW r \in Since PROVE Down(r)'
      BY <1>1, <2>1, <3>1, <3>2 DEF Down, At, Moves, TakenDown, Since
    <3> QED
      BY <1>1, <2>1, <3>2, <3>3, <3>4 DEF TakenDown
  <2> QED
    BY <2>2, <2>3
<1>11. ASSUME Background PROVE TakenDown'
  <2>1. /\ UNCHANGED <<inits, isShutdown, console, sdks, pipeline, openai, langchain,
                       shutdowns>>
        /\ exportTimer' => exportTimer
    BY <1>11, InBackground DEF keptVars, distroVars, instrumentorVars
  <2>2. Since' = Since
    BY <2>1 DEF Since
  <2>3. ASSUME NEW r \in Since PROVE Down(r)'
    BY <1>1, <2>1 DEF Down, At, TakenDown
  <2> QED
    BY <1>1, <2>1, <2>2, <2>3 DEF TakenDown
<1> QED
  BY <1>3, <1>4, <1>5, <1>6, <1>7, <1>8, <1>9, <1>10, <1>11 DEF Next, Background

-----------------------------------------------------------------------------
(* The pipelines *)

LEMMA PipelinesKept ==
  ASSUME IInv, [Next]_vars
  PROVE  PipelinesOK'
<1>1. TypeOK /\ QueuesOK /\ NotBefore /\ PipelinesOK /\ TypeOK'
  BY TypesKept DEF IInv
<1>2. /\ inits \in Nat /\ pipeline \in Nat /\ Inits \subseteq Nat \ {0}
      /\ pipeline # 0 => pipeline \in Inits
      /\ pipelines \in [Inits -> Pipeline]
      /\ shutdowns \in [Shutdowns -> Shutdown]
  BY <1>1, SdkStatsAssumption DEF TypeOK, SdkStatsTypeOK, Inits
<1>3. ASSUME NEW name \in DOMAIN Options, useMicrosoftOpenTelemetry(name) PROVE PipelinesOK'
  <2>1. UNCHANGED shutdowns /\ inits + 1 \in Inits
    BY <1>1, <1>3, SdkStatsAssumption DEF useMicrosoftOpenTelemetry, TypeOK, Inits
  <2>2. CASE UNCHANGED <<managerVars, pipelines>>
    BY <1>1, <2>1, <2>2 DEF PipelinesOK, At, managerVars
  <2>3. CASE ~ UNCHANGED <<managerVars, pipelines>>
    <3> DEFINE x == [state |-> "open", networkOnly |-> AzureMonitorEnabled(Options[name])]
    <3>1. pipeline' = inits + 1 /\ pipelines' = [pipelines EXCEPT ![inits + 1] = x]
      BY <1>3, <2>3 DEF useMicrosoftOpenTelemetry, initialize
    <3>2. x.state = "open"
      OBVIOUS
    <3> HIDE DEF x
    <3>3. pipelines[inits + 1].state = "none"
      BY <1>1, <1>2, <2>1 DEF NotBefore
    <3>4. \A p \in Inits : p # inits + 1 => pipelines'[p] = pipelines[p]
      BY <1>2, <3>1
    <3>5. pipelines'[inits + 1].state = "open"
      BY <1>2, <2>1, <3>1, <3>2
    <3> QED
      BY <1>1, <1>2, <2>1, <3>1, <3>3, <3>4, <3>5 DEF PipelinesOK, At
  <2> QED
    BY <2>2, <2>3
<1>4. ASSUME NEW s, NEW from \in Stages \ {"stats"}, NEW to \in Stages \ {"stats"},
             Moves(s, from, to), UNCHANGED <<pipeline, pipelines>>
      PROVE  PipelinesOK'
  <2>1. \A r \in Shutdowns : At(r, {"stats"})' <=> At(r, {"stats"})
    BY <1>4 DEF Moves, At
  <2>2. \A r \in Shutdowns : At(r, {"stats"}) => shutdowns'[r] = shutdowns[r]
    BY <1>4 DEF Moves, At
  <2> QED
    BY <1>1, <1>4, <2>1, <2>2 DEF PipelinesOK
<1>5. ASSUME UNCHANGED <<pipeline, pipelines, shutdowns>> PROVE PipelinesOK'
  BY <1>1, <1>5 DEF PipelinesOK, At
<1>6. ASSUME NEW s \in Shutdowns, shutdownMicrosoftOpenTelemetry(s) PROVE PipelinesOK'
  <2>1. Moves(s, "none", "sdk") /\ UNCHANGED <<pipeline, pipelines>>
    BY <1>1, <1>6, CallMoves DEF shutdownMicrosoftOpenTelemetry, statsVars
  <2> QED
    BY <2>1, <1>4 DEF Stages
<1>7. ASSUME NEW s \in Shutdowns, LangChainReset(s) PROVE PipelinesOK'
  <2>1. Moves(s, "langchain", "done") /\ UNCHANGED <<pipeline, pipelines>>
    BY <1>1, <1>7, LangChainResetMoves DEF LangChainReset, statsVars
  <2> QED
    BY <2>1, <1>4 DEF Stages
<1>8. ASSUME ImportedOpenAI PROVE PipelinesOK'
  <2>1. UNCHANGED <<pipeline, pipelines>>
    BY <1>8 DEF ImportedOpenAI, statsVars
  <2>2. CASE IsUse(Head(Queue))
    BY <1>5, <1>8, <2>1, <2>2 DEF ImportedOpenAI, Queue, IsUse
  <2>3. CASE ~IsUse(Head(Queue))
    BY <1>1, <1>4, <1>8, <2>1, <2>3, OpenAIResetMoves DEF Stages
  <2> QED
    BY <2>2, <2>3
<1>9. ASSUME NEW s \in Shutdowns, SdkSettled(s) PROVE PipelinesOK'
  <2>1. CASE pipeline = 0
    <3>1. Moves(s, "sdk", "openai") /\ UNCHANGED <<pipeline, pipelines>>
      BY <1>1, <1>9, <2>1, SdkSettledMoves DEF managerVars
    <3> QED
      BY <3>1, <1>4 DEF Stages
  <2>2. CASE pipeline # 0
    <3>1. /\ Moves(s, "sdk", "stats") /\ shutdownStats
          /\ shutdowns'[s].p = pipeline
          /\ shutdowns'[s].first <=> pipelines[pipeline].state = "open"
      BY <1>1, <1>9, <2>2, SdkSettledMoves
    <3>2. pipeline' = pipeline /\ pipeline \in Inits
      BY <1>2, <2>2, <3>1 DEF shutdownStats
    <3>3. \A p \in Inits : p # pipeline => pipelines'[p] = pipelines[p]
      BY <1>2, <3>1, <3>2 DEF shutdownStats
    <3>4. /\ pipelines[pipeline].state = "open" => pipelines'[pipeline].state = "closing"
          /\ pipelines[pipeline].state # "open" => pipelines'[pipeline] = pipelines[pipeline]
      BY <1>2, <3>1, <3>2 DEF shutdownStats
    <3>5. pipelines[pipeline].state \in {"open", "closing", "closed"}
      BY <1>1, <1>2, <3>2 DEF Pipeline, PipelinesOK
    <3>6. pipelines'[pipeline].state \in {"closing", "closed"}
      BY <3>4, <3>5
    <3>7. \A r \in Shutdowns : At(r, {"stats"}) => r # s /\ shutdowns'[r] = shutdowns[r]
      BY <3>1 DEF At, Moves
    <3>8. At(s, {"stats"})' /\ \A r \in Shutdowns : r # s /\ At(r, {"stats"})' => At(r, {"stats"})
      BY <3>1 DEF At, Moves
    <3>9. ASSUME NEW p \in Inits, pipelines'[p].state = "closing"
          PROVE  \E r \in Shutdowns : At(r, {"stats"})' /\ shutdowns'[r].first
                                        /\ shutdowns'[r].p = p
      <4>1. CASE pipelines[p].state = "closing"
        <5>1. PICK r \in Shutdowns : At(r, {"stats"}) /\ shutdowns[r].first
                                       /\ shutdowns[r].p = p
          BY <1>1, <4>1 DEF PipelinesOK
        <5>2. shutdowns'[r] = shutdowns[r] /\ At(r, {"stats"})'
          BY <5>1, <3>7 DEF At
        <5> QED
          BY <5>1, <5>2
      <4>2. CASE pipelines[p].state # "closing"
        <5>1. p = pipeline /\ pipelines[pipeline].state = "open"
          BY <3>3, <3>4, <3>9, <4>2
        <5> QED
          BY <5>1, <3>1, <3>8
      <4> QED
        BY <4>1, <4>2
    <3>10. ASSUME NEW r \in Shutdowns, At(r, {"stats"})'
           PROVE  shutdowns'[r].p \in Inits
                    /\ pipelines'[shutdowns'[r].p].state \in {"closing", "closed"}
      <4>1. CASE r = s
        BY <3>1, <3>2, <3>6, <4>1
      <4>2. CASE r # s
        <5>1. At(r, {"stats"}) /\ shutdowns'[r] = shutdowns[r]
          BY <3>7, <3>8, <3>10, <4>2
        <5>2. shutdowns[r].p \in Inits /\ pipelines[shutdowns[r].p].state \in {"closing", "closed"}
          BY <1>1, <5>1 DEF PipelinesOK
        <5> QED
          BY <5>1, <5>2, <3>3, <3>6
      <4> QED
        BY <4>1, <4>2
    <3>11. pipeline' # 0 => pipelines'[pipeline'].state # "none"
      BY <3>2, <3>6
    <3> QED
      BY <3>9, <3>10, <3>11 DEF PipelinesOK
  <2> QED
    BY <2>1, <2>2
<1>10. ASSUME NEW s \in Shutdowns, StatsSettled(s) PROVE PipelinesOK'
  <2>1. /\ pipeline' = 0 /\ pipelines' = pipelines
        /\ shutdowns[s].first => pipelines[shutdowns[s].p].state = "closed"
    BY <1>10 DEF StatsSettled, cleanup
  <2>2. Moves(s, "stats", "openai")
    BY <1>1, <1>10, StatsSettledMoves
  <2>3. \A r \in Shutdowns : At(r, {"stats"})' <=> r # s /\ At(r, {"stats"})
    BY <2>2 DEF At, Moves
  <2>4. \A r \in Shutdowns : r # s => shutdowns'[r] = shutdowns[r]
    BY <2>2 DEF Moves
  <2> QED
    BY <1>1, <2>1, <2>3, <2>4 DEF PipelinesOK
<1>11. ASSUME ImportedLangChain \/ \E i \in Inits : SdkClosed(i) PROVE PipelinesOK'
  <2>1. UNCHANGED <<pipeline, pipelines, shutdowns>>
    BY <1>11 DEF ImportedLangChain, SdkClosed, statsVars
  <2> QED
    BY <1>5, <2>1
<1>12. ASSUME Background PROVE PipelinesOK'
  <2>1. UNCHANGED <<pipeline, shutdowns>>
    BY <1>12, InBackground DEF keptVars
  <2>2. CASE pipelines' = pipelines
    BY <1>5, <2>1, <2>2
  <2>3. ASSUME NEW q \in Inits, pipelines[q].state = "closing",
               pipelines' = [pipelines EXCEPT ![q].state = "closed"]
        PROVE  PipelinesOK'
    <3>1. pipelines'[q].state = "closed" /\ \A p \in Inits : p # q => pipelines'[p] = pipelines[p]
      BY <1>2, <2>3 DEF Pipeline
    <3>2. \A r \in Shutdowns : At(r, {"stats"})' <=> At(r, {"stats"})
      BY <2>1 DEF At
    <3> QED
      BY <1>1, <1>2, <2>1, <3>1, <3>2 DEF PipelinesOK
  <2> QED
    BY <1>12, <2>2, <2>3, InBackground
<1> QED
  BY <1>3, <1>6, <1>7, <1>8, <1>9, <1>10, <1>11, <1>12 DEF Next, Background

-----------------------------------------------------------------------------
(* Orderly calls *)

LEMMA LeavesNothing == IInv => ShutdownLeavesNothing
<1> SUFFICES ASSUME IInv, isShutdown, Settled
             PROVE  /\ console = 0 /\ openai = <<>> /\ ~langchain
                    /\ pipeline = 0 /\ ~exportTimer
                    /\ inits > 0 => sdks[inits] \in {"closed", "failed"}
                    /\ orderly => /\ \A i \in Inits : sdks[i] \in {"none", "closed", "failed"}
                                  /\ \A p \in Inits : pipelines[p].state \in {"none", "closed"}
                                  /\ activeLoader = 0
  BY DEF ShutdownLeavesNothing
<1>1. TypeOK /\ TakenDown /\ PipelinesOK /\ OrderlyOK
  BY DEF IInv
<1>2. PICK s \in Since : TRUE
  BY <1>1 DEF TakenDown
<1>3. At(s, {"done"}) /\ Down(s)
  BY <1>1, <1>2 DEF TakenDown, Since, Settled, At
<1>4. /\ console = 0 /\ openai = <<>> /\ ~langchain
      /\ pipeline = 0 /\ ~exportTimer
      /\ inits > 0 => sdks[inits] \in {"closed", "failed"}
  BY <1>1, <1>3 DEF TakenDown, Down, At
<1>5. ASSUME orderly PROVE \A i \in Inits : sdks[i] \in {"none", "closed", "failed"}
  BY <1>1, <1>4, <1>5 DEF OrderlyOK, NothingElse, Inits
<1>6. ASSUME orderly PROVE \A p \in Inits : pipelines[p].state \in {"none", "closed"}
  <2>1. SUFFICES ASSUME NEW p \in Inits PROVE pipelines[p].state \in {"none", "closed"}
    OBVIOUS
  <2>2. pipelines[p].state \in {"none", "open", "closing", "closed"}
    BY <1>1 DEF TypeOK, SdkStatsTypeOK, Pipeline
  <2>3. pipelines[p].state # "open"
    BY <1>1, <1>4, <1>6 DEF OrderlyOK, NothingElse, Inits
  <2>4. pipelines[p].state # "closing"
    BY <1>1 DEF PipelinesOK, Settled, At
  <2> QED
    BY <2>2, <2>3, <2>4
<1>7. orderly => activeLoader = 0
  BY <1>1 DEF OrderlyOK, NothingElse
<1> QED
  BY <1>4, <1>5, <1>6, <1>7

\* When an orderly initialisation begins nothing is there.
LEMMA BeforeOrderlyUse ==
  ASSUME IInv, orderly, Settled, inits > 0 => isShutdown
  PROVE  /\ openai = <<>> /\ ~langchain /\ pipeline = 0 /\ activeLoader = 0
         /\ \A i \in Inits : sdks[i] \in {"none", "closed", "failed"}
         /\ \A p \in Inits : pipelines[p].state \in {"none", "closed"}
<1>1. inits \in Nat /\ pipeline \in Nat /\ activeLoader \in Nat
  BY SdkStatsAssumption DEF IInv, TypeOK, SdkStatsTypeOK
<1>2. CASE inits > 0
  BY <1>2, LeavesNothing DEF ShutdownLeavesNothing
<1>3. CASE inits = 0
  BY <1>1, <1>3 DEF IInv, NotBefore, Inits
<1> QED
  BY <1>1, <1>2, <1>3

LEMMA OrderlyUse ==
  ASSUME IInv, NEW name \in DOMAIN Options, useMicrosoftOpenTelemetry(name)
  PROVE  OrderlyOK'
<1>1. SUFFICES ASSUME orderly' PROVE NothingElse'
  BY DEF OrderlyOK
<1>2. orderly /\ Settled /\ (inits > 0 => isShutdown)
  BY <1>1 DEF useMicrosoftOpenTelemetry
<1>3. /\ openai = <<>> /\ ~langchain /\ pipeline = 0 /\ activeLoader = 0
      /\ \A i \in Inits : sdks[i] \in {"none", "closed", "failed"}
      /\ \A p \in Inits : pipelines[p].state \in {"none", "closed"}
  BY <1>2, BeforeOrderlyUse
<1> DEFINE i == inits + 1
           o == Options[name]
           x == [state |-> "open", networkOnly |-> AzureMonitorEnabled(o)]
<1>4. TypeOK /\ i \in Inits /\ inits' = i /\ isShutdown' = FALSE
      /\ UNCHANGED <<shutdowns, openai, langchain>>
  BY SdkStatsAssumption DEF IInv, TypeOK, useMicrosoftOpenTelemetry, Inits, instrumentorVars
<1>5. /\ sdks \in [Inits -> {"none", "running", "closing", "closed", "failed"}]
      /\ pipelines \in [Inits -> Pipeline] /\ given \in [Inits -> DOMAIN Options]
      /\ Inits \subseteq Nat \ {0}
  BY <1>4 DEF TypeOK, SdkStatsTypeOK, Inits
<1>6. Current' = o
  BY <1>4, <1>5 DEF useMicrosoftOpenTelemetry, Current, Opt
<1>7. IF o.stats THEN pipeline' = i /\ pipelines' = [pipelines EXCEPT ![i] = x]
      ELSE pipeline' = 0 /\ pipelines' = pipelines
  BY <1>3 DEF useMicrosoftOpenTelemetry, initialize, managerVars
<1>8. \A j \in Inits : j # i => sdks'[j] = sdks[j]
  BY <1>5 DEF useMicrosoftOpenTelemetry
<1>9. activeLoader' \in {0, loader'}
  BY <1>3 DEF useMicrosoftOpenTelemetry
<1>10. /\ Queue' = IF o.instrumentation["openaiAgents"] = "off" THEN <<>> ELSE <<[use |-> i]>>
       /\ importing'["langchain"] = IF o.instrumentation["langchain"] = "off" THEN <<>>
                                    ELSE <<[use |-> i]>>
  <2>1. \A k \in GenAIKeys : importing[k] = <<>>
    BY <1>2 DEF Settled
  <2>2. \A k \in GenAIKeys :
          importing'[k] = IF o.instrumentation[k] = "off" THEN importing[k]
                          ELSE Append(importing[k], [use |-> i])
    BY DEF useMicrosoftOpenTelemetry, ImportsOf
  <2>3. Append(<<>>, [use |-> i]) = <<[use |-> i]>>
    OBVIOUS
  <2> QED
    BY <2>1, <2>2, <2>3 DEF GenAIKeys, Queue
<1>11. x.state = "open"
  OBVIOUS
<1> HIDE DEF i, o, x
<1>12. \A s \in Shutdowns : At(s, {"none", "done"})'
  BY <1>2, <1>4 DEF Settled, At
<1>13. \A s \in Shutdowns : ~ At(s, {"stats"})'
  BY <1>12 DEF At
<1>14. \A p \in Inits : pipelines'[p].state = "open" => p = pipeline'
  <2>1. SUFFICES ASSUME NEW p \in Inits, pipelines'[p].state = "open" PROVE p = pipeline'
    OBVIOUS
  <2>2. p # i => pipelines'[p] = pipelines[p]
    BY <1>5, <1>7
  <2> QED
    BY <1>3, <1>4, <1>7, <2>1, <2>2
<1>15. InService'
  <2>1. o.stats => pipeline' = i /\ pipelines'[i] = x
    BY <1>4, <1>5, <1>7
  <2>2. Current'.stats => /\ pipeline' = inits'
                          /\ pipelines'[pipeline'] = [state |-> "open",
                               networkOnly |-> AzureMonitorEnabled(Current)']
    BY <1>4, <1>6, <2>1 DEF x, AzureMonitorEnabled
  <2> QED
    BY <1>3, <1>4, <1>6, <1>10, <1>12, <2>2 DEF InService
<1> QED
  BY <1>3, <1>4, <1>8, <1>9, <1>12, <1>13, <1>14, <1>15 DEF NothingElse

\* A call under way is one since the last initialisation, which is then no longer in service.
LEMMA UnderWay ==
  ASSUME IInv, orderly, NEW s \in Shutdowns, shutdowns[s].at \notin {"none", "done"}
  PROVE  s \in Since /\ isShutdown
BY DEF IInv, OrderlyOK, NothingElse, TakenDown, At

LEMMA OrderlyKept ==
  ASSUME IInv, [Next]_vars
  PROVE  OrderlyOK'
<1>1. TypeOK /\ QueuesOK /\ NotBefore /\ TakenDown /\ PipelinesOK /\ OrderlyOK /\ TypeOK'
  BY TypesKept DEF IInv
<1>2. /\ inits \in Nat /\ pipeline \in Nat /\ Inits \subseteq Nat \ {0}
      /\ pipeline # 0 => pipeline \in Inits
      /\ pipelines \in [Inits -> Pipeline]
      /\ sdks \in [Inits -> {"none", "running", "closing", "closed", "failed"}]
      /\ importing \in [GenAIKeys -> Seq(Importer)]
  BY <1>1, SdkStatsAssumption DEF TypeOK, SdkStatsTypeOK, Inits
<1>3. ASSUME NEW s \in Shutdowns, shutdownMicrosoftOpenTelemetry(s), orderly' PROVE NothingElse'
  <2>1. /\ UNCHANGED <<inits, pipeline, pipelines, loader>> /\ orderly /\ isShutdown' = TRUE
        /\ activeLoader' = IF loader = 0 THEN activeLoader ELSE 0
    BY <1>3 DEF shutdownMicrosoftOpenTelemetry, statsVars
  <2>2. NothingElse
    BY <1>1, <2>1 DEF OrderlyOK
  <2>3. Moves(s, "none", "sdk") /\ shutdowns'[s].sdk = inits
    BY <1>1, <1>3, CallMoves
  <2>4. \A i \in Inits : i # inits => sdks'[i] = sdks[i]
    BY <1>2, <1>3 DEF shutdownMicrosoftOpenTelemetry
  <2>5. \A r \in Shutdowns : At(r, {"none", "done"})' \/ r \in Since'
    BY <2>1, <2>2, <2>3 DEF NothingElse, Moves, At, Since
  <2>6. \A r \in Shutdowns : At(r, {"stats"})' => At(r, {"stats"}) /\ shutdowns'[r] = shutdowns[r]
    BY <2>3 DEF Moves, At
  <2>7. activeLoader' = 0
    BY <2>1, <2>2 DEF NothingElse
  <2> QED
    BY <2>1, <2>2, <2>4, <2>5, <2>6, <2>7 DEF NothingElse
<1>4. ASSUME NEW i \in Inits, SdkClosed(i), orderly' PROVE NothingElse'
  <2>1. UNCHANGED <<inits, pipeline, pipelines, loader, activeLoader, orderly, isShutdown,
                    shutdowns, importing, given, openai, langchain, wrapper>>
    BY <1>4 DEF SdkClosed, statsVars, instrumentorVars
  <2>2. NothingElse
    BY <1>1, <1>4, <2>1 DEF OrderlyOK
  <2>3. \A j \in Inits : sdks'[j] = sdks[j] \/ sdks'[j] \in {"closed", "failed"}
    BY <1>2, <1>4 DEF SdkClosed
  <2>4. \A j \in Inits : j # inits => sdks'[j] \in {"none", "closed", "failed"}
    BY <2>2, <2>3 DEF NothingElse
  <2>5. InService => InService'
    BY <2>1 DEF InService, At, Queue, Current, Opt, OpenAIWanted, LangChainWanted
  <2> QED
    BY <2>1, <2>2, <2>4, <2>5 DEF NothingElse, At, Since
<1>5. ASSUME NEW s \in Shutdowns, SdkSettled(s), orderly' PROVE NothingElse'
  <2>1. UNCHANGED <<inits, loader, activeLoader, orderly, isShutdown, sdks, pipeline>>
    BY <1>5 DEF SdkSettled, distroVars, managerVars, shutdownStats
  <2>2. NothingElse
    BY <1>1, <1>5, <2>1 DEF OrderlyOK
  <2>3. s \in Since /\ isShutdown
    BY <1>5, <2>1, UnderWay DEF SdkSettled
  <2>4. \E to \in {"openai", "stats"} : Moves(s, "sdk", to)
    BY <1>1, <1>5, SdkSettledMoves
  <2>5. shutdowns'[s].sdk = shutdowns[s].sdk
        /\ (At(s, {"stats"})' => shutdowns'[s].p = pipeline)
    BY <1>1, <1>5, SdkSettledMoves DEF At, Moves
  <2>6. Since' = Since
    BY <2>1, <2>4, <2>5, SinceStays DEF Stages
  <2>7. \A r \in Shutdowns : r # s => shutdowns'[r] = shutdowns[r]
    BY <2>4 DEF Moves
  <2>8. \A p \in Inits : pipelines'[p].state = "open" => pipelines[p].state = "open"
    <3>1. \/ pipelines' = pipelines
          \/ pipeline # 0 /\ pipelines' = [pipelines EXCEPT ![pipeline].state = "closing"]
      BY <1>5 DEF SdkSettled, shutdownStats
    <3> QED
      BY <1>2, <3>1 DEF Pipeline
  <2>9. \A r \in Shutdowns : At(r, {"none", "done"})' \/ r \in Since'
    BY <2>2, <2>3, <2>6, <2>7 DEF NothingElse, At
  <2>10. \A r \in Shutdowns : At(r, {"stats"})' => pipeline \in {0, shutdowns'[r].p}
    BY <2>2, <2>5, <2>7 DEF NothingElse, At
  <2> QED
    BY <2>1, <2>2, <2>3, <2>8, <2>9, <2>10 DEF NothingElse
<1>6. ASSUME NEW s \in Shutdowns, StatsSettled(s), orderly' PROVE NothingElse'
  <2>1. /\ UNCHANGED <<inits, loader, activeLoader, orderly, isShutdown, sdks, pipelines>>
        /\ pipeline' = 0
    BY <1>6 DEF StatsSettled, distroVars, cleanup
  <2>2. NothingElse
    BY <1>1, <1>6, <2>1 DEF OrderlyOK
  <2>3. s \in Since /\ isShutdown /\ At(s, {"stats"})
    BY <1>6, <2>1, UnderWay DEF StatsSettled, At
  <2>4. Moves(s, "stats", "openai") /\ shutdowns'[s].sdk = shutdowns[s].sdk
    BY <1>1, <1>6, StatsSettledMoves
  <2>5. Since' = Since
    BY <2>1, <2>4, SinceStays DEF Stages
  <2>6. \A p \in Inits : pipelines[p].state # "open"
    <3>1. pipeline \in {0, shutdowns[s].p}
            /\ pipelines[shutdowns[s].p].state \in {"closing", "closed"}
      BY <1>1, <2>2, <2>3 DEF NothingElse, PipelinesOK
    <3> QED
      BY <1>2, <2>2, <3>1 DEF NothingElse
  <2>7. \A r \in Shutdowns : At(r, {"none", "done"})' \/ r \in Since'
    BY <2>2, <2>3, <2>4, <2>5 DEF NothingElse, At, Moves
  <2> QED
    BY <2>1, <2>2, <2>3, <2>6, <2>7 DEF NothingElse
<1>7. ASSUME NEW s \in Shutdowns, NEW from \in {"openai", "langchain"},
             NEW to \in {"langchain", "done"}, Moves(s, from, to),
             shutdowns'[s].sdk = shutdowns[s].sdk, UNCHANGED <<distroVars, statsVars, orderly>>,
             orderly'
      PROVE  NothingElse'
  <2>1. UNCHANGED <<inits, loader, activeLoader, orderly, isShutdown, sdks, pipelines, pipeline>>
    BY <1>7 DEF distroVars, statsVars
  <2>2. NothingElse
    BY <1>1, <1>7, <2>1 DEF OrderlyOK
  <2>3. s \in Since /\ isShutdown
    BY <1>7, <2>1, UnderWay DEF Moves
  <2>4. Since' = Since
    BY <1>7, <2>1, SinceStays DEF Stages
  <2>5. \A r \in Shutdowns : At(r, {"none", "done"})' \/ r \in Since'
    BY <1>7, <2>2, <2>3, <2>4 DEF NothingElse, At, Moves
  <2>6. \A r \in Shutdowns : At(r, {"stats"})' => At(r, {"stats"}) /\ shutdowns'[r] = shutdowns[r]
    BY <1>7 DEF Moves, At
  <2> QED
    BY <2>1, <2>2, <2>3, <2>5, <2>6 DEF NothingElse
<1>8. ASSUME NEW s \in Shutdowns, LangChainReset(s), orderly' PROVE NothingElse'
  BY <1>1, <1>7, <1>8, LangChainResetMoves DEF LangChainReset
<1>9. ASSUME UNCHANGED <<distroVars, statsVars, orderly, shutdowns>>, orderly',
             InService /\ ~isShutdown => InService'
      PROVE  NothingElse'
  <2>1. UNCHANGED <<inits, loader, activeLoader, orderly, isShutdown, sdks, pipelines, pipeline>>
    BY <1>9 DEF distroVars, statsVars
  <2>2. NothingElse
    BY <1>1, <1>9, <2>1 DEF OrderlyOK
  <2>3. Since' = Since /\ \A r \in Shutdowns : \A stages \in SUBSET Stages : At(r, stages)' = At(r, stages)
    BY <1>9, <2>1 DEF Since, At
  <2> QED
    BY <1>9, <2>1, <2>2, <2>3 DEF NothingElse, At
<1>10. ASSUME ImportedLangChain, orderly' PROVE NothingElse'
  <2>1. UNCHANGED <<distroVars, statsVars, orderly, shutdowns>>
    BY <1>10 DEF ImportedLangChain
  <2>2. ASSUME InService, ~isShutdown PROVE InService'
    <3>1. /\ importing["langchain"] = <<[use |-> inits]>> /\ ~langchain
          /\ Current.instrumentation["langchain"] # "off"
      BY <1>10, <2>2 DEF InService, ImportedLangChain
    <3>2. Head(importing["langchain"]).use = inits /\ Tail(importing["langchain"]) = <<>>
      BY <3>1
    <3>3. InstrumentLangChain(LangChainWanted)
      BY <1>10, <2>2, <3>2 DEF ImportedLangChain, InitializeLangChain, LangChainSetup, LangChainWanted,
                               Current
    <3>4. langchain' /\ wrapper' = <<LangChainWanted>> /\ openai' = openai
      BY <3>1, <3>3 DEF InstrumentLangChain
    <3>5. importing'["langchain"] = <<>> /\ Queue' = Queue
      BY <1>2, <1>10, <3>2 DEF ImportedLangChain, GenAIKeys, Queue
    <3>6. UNCHANGED <<inits, given, pipeline, pipelines, shutdowns>>
      BY <2>1 DEF distroVars, statsVars
    <3>7. Current' = Current /\ UNCHANGED <<OpenAIWanted, LangChainWanted>>
      BY <3>6 DEF Current, Opt, OpenAIWanted, LangChainWanted
    <3> QED
      BY <2>2, <3>1, <3>4, <3>5, <3>6, <3>7 DEF InService, At, AzureMonitorEnabled
  <2> QED
    BY <1>9, <1>10, <2>1, <2>2
<1>11. ASSUME ImportedOpenAI, orderly' PROVE NothingElse'
  <2>1. UNCHANGED <<distroVars, statsVars, orderly>>
    BY <1>11 DEF ImportedOpenAI
  <2>2. CASE IsUse(Head(Queue))
    <3>1. UNCHANGED shutdowns /\ InitializeOpenAI(Head(Queue).use)
      BY <1>11, <2>2 DEF ImportedOpenAI, Queue, IsUse
    <3>2. ASSUME InService, ~isShutdown PROVE InService'
      <4>1. /\ Queue = <<[use |-> inits]>> /\ openai = <<>>
            /\ Current.instrumentation["openaiAgents"] # "off"
        BY <1>11, <3>2 DEF InService, ImportedOpenAI, Queue
      <4>2. Head(Queue).use = inits /\ Tail(Queue) = <<>>
        BY <4>1
      <4>3. InstrumentOpenAI(OpenAIWanted)
        BY <3>1, <3>2, <4>2 DEF InitializeOpenAI, OpenAISetup, OpenAIWanted, Current
      <4>4. openai' = <<OpenAIWanted>> /\ langchain' = langchain /\ wrapper' = wrapper
        BY <4>1, <4>3 DEF InstrumentOpenAI
      <4>5. Queue' = <<>> /\ importing'["langchain"] = importing["langchain"]
        BY <1>2, <1>11, <4>2 DEF ImportedOpenAI, GenAIKeys, Queue
      <4>6. UNCHANGED <<inits, given, pipeline, pipelines, shutdowns>>
        BY <2>1, <3>1 DEF distroVars, statsVars
      <4>7. Current' = Current /\ UNCHANGED <<OpenAIWanted, LangChainWanted>>
        BY <4>6 DEF Current, Opt, OpenAIWanted, LangChainWanted
      <4> QED
        BY <3>2, <4>1, <4>4, <4>5, <4>6, <4>7 DEF InService, At, AzureMonitorEnabled
    <3> QED
      BY <1>9, <1>11, <2>1, <3>1, <3>2
  <2>3. CASE ~IsUse(Head(Queue))
    <3> DEFINE s == Head(Queue).reset
    <3>1. Moves(s, "openai", "langchain") /\ shutdowns'[s].sdk = shutdowns[s].sdk
      BY <1>1, <1>11, <2>3, OpenAIResetMoves
    <3> HIDE DEF s
    <3> QED
      BY <1>7, <1>11, <2>1, <3>1 DEF Moves
  <2> QED
    BY <2>2, <2>3
<1>12. ASSUME Background, orderly' PROVE NothingElse'
  <2>1. UNCHANGED <<inits, loader, activeLoader, orderly, isShutdown, sdks, pipeline, shutdowns,
                    importing, given, openai, langchain, wrapper>>
    BY <1>12, InBackground DEF keptVars, distroVars, instrumentorVars
  <2>2. NothingElse
    BY <1>1, <1>12, <2>1 DEF OrderlyOK
  <2>3. \A p \in Inits : \/ pipelines'[p] = pipelines[p]
                         \/ pipelines[p].state = "closing" /\ pipelines'[p].state = "closed"
    BY <1>2, <1>12, InBackground DEF Pipeline
  <2>4. \A p \in Inits : pipelines'[p].state = "open" => p = pipeline
    BY <2>2, <2>3 DEF NothingElse
  <2>5. ASSUME InService, inits > 0 PROVE InService'
    <3>1. \A p \in Inits : pipelines[p].state # "closing"
      BY <1>1, <2>5 DEF PipelinesOK, InService, At
    <3>2. pipeline # 0 => pipelines'[pipeline] = pipelines[pipeline]
      BY <1>2, <2>3, <3>1
    <3>3. Current' = Current /\ UNCHANGED <<OpenAIWanted, LangChainWanted>>
      BY <2>1 DEF Current, Opt, OpenAIWanted, LangChainWanted
    <3>4. Current.stats => pipelines'[pipeline] = pipelines[pipeline]
      BY <1>2, <2>5, <3>2 DEF InService
    <3> QED
      BY <2>1, <2>5, <3>3, <3>4 DEF InService, At, Queue, AzureMonitorEnabled
  <2> QED
    BY <2>1, <2>2, <2>4, <2>5 DEF NothingElse, At, Since
<1> QED
  BY <1>3, <1>4, <1>5, <1>6, <1>8, <1>10, <1>11, <1>12, OrderlyUse DEF Next, Background, OrderlyOK

-----------------------------------------------------------------------------
(* The runs of LangChain *)

LEMMA RunsKept ==
  ASSUME IInv, [Next]_vars
  PROVE  RunsOK'
<1>1. TypeOK /\ QueuesOK /\ OrderlyOK /\ RunsOK /\ InstrumentorsTypeOK
  BY DEF IInv, TypeOK
<1>2. inits \in Nat /\ since \in Nat /\ at \in Nat /\ given \in [Inits -> DOMAIN Options]
  BY <1>1, SdkStatsAssumption DEF TypeOK, InstrumentorsTypeOK
<1>3. ASSUME UNCHANGED <<inits, given, runVars, wrapper>>, orderly' => orderly,
             langchain' => langchain
      PROVE  RunsOK'
  BY <1>1, <1>3 DEF RunsOK, LangChainRunsAreServed, LangChainWanted, Current, Opt, runVars
<1>4. ASSUME NEW name \in DOMAIN Options, useMicrosoftOpenTelemetry(name) PROVE RunsOK'
  <2>1. /\ inits' = inits + 1 /\ UNCHANGED <<langchain, wrapper, tracer, since, at>>
        /\ orderly' => orderly /\ Settled /\ (inits > 0 => isShutdown)
    BY <1>4 DEF useMicrosoftOpenTelemetry, instrumentorVars, runVars
  <2>2. orderly' => ~langchain'
    BY <2>1, BeforeOrderlyUse
  <2>3. at # 0 => given'[at] = given[at]
    BY <1>1, <1>2, <1>4 DEF useMicrosoftOpenTelemetry, RunsOK
  <2>4. LangChainRunsAreServed'
    BY <1>1, <2>1, <2>3 DEF RunsOK, LangChainRunsAreServed, Opt
  <2>5. since' <= inits' /\ at' <= inits'
    BY <1>1, <1>2, <2>1 DEF RunsOK
  <2> QED
    BY <2>2, <2>4, <2>5 DEF RunsOK
<1>5. ASSUME ImportedLangChain PROVE RunsOK'
  <2>1. UNCHANGED <<inits, given, isShutdown, orderly>>
    BY <1>5 DEF ImportedLangChain, distroVars
  <2>2. CASE UNCHANGED <<instrumentorVars, runVars>>
    BY <1>3, <2>1, <2>2 DEF instrumentorVars
  <2>3. CASE ~isShutdown /\ orderly
    <3> DEFINE i == Head(importing["langchain"]).use
    <3>1. i \in Inits /\ i <= inits /\ importing["langchain"] # <<>>
      BY <1>1, <1>5, FirstLangChain DEF ImportedLangChain
    <3>2. InService
      BY <1>1, <1>2, <2>3, <3>1 DEF OrderlyOK, NothingElse, Inits
    <3>3. ~langchain /\ i = inits
      BY <3>1, <3>2 DEF InService
    <3>4. InstrumentLangChain(LangChainSetup(inits))
      BY <1>5, <2>3, <3>3 DEF ImportedLangChain, InitializeLangChain
    <3>5. UNCHANGED runVars /\ wrapper' = <<LangChainWanted>>
      BY <3>3, <3>4 DEF InstrumentLangChain, LangChainSetup, LangChainWanted, Current
    <3>6. LangChainWanted' = LangChainWanted /\ LangChainRunsAreServed'
      BY <1>1, <2>1, <3>5 DEF RunsOK, LangChainRunsAreServed, LangChainWanted, Current, Opt, runVars
    <3> QED
      BY <1>1, <2>1, <3>5, <3>6 DEF RunsOK, runVars
  <2>4. CASE ~orderly
    <3>1. UNCHANGED runVars
      BY <1>5 DEF ImportedLangChain, InitializeLangChain, InstrumentLangChain
    <3> QED
      BY <1>1, <2>1, <2>4, <3>1 DEF RunsOK, LangChainRunsAreServed, runVars
  <2> QED
    BY <1>5, <2>2, <2>3, <2>4 DEF ImportedLangChain, InitializeLangChain
<1>6. ASSUME LangChainRun PROVE RunsOK'
  <2> DEFINE now == IF langchain THEN inits ELSE 0
  <2>1. PICK handlers \in {tracer, <<>>} :
          /\ wrapper # <<>> /\ tracer' = addTracerToHandlers(handlers)
          /\ since' = IF handlers = <<>> THEN now ELSE since
          /\ at' = now
    BY <1>6 DEF LangChainRun, ConfigureRun
  <2>2. UNCHANGED <<inits, given, orderly, langchain, wrapper>>
    BY <1>6 DEF LangChainRun, ConfigureRun, distroVars, instrumentorVars
  <2>3. PICK w, x \in Setups :
          /\ wrapper = <<w>>
          /\ tracer' = <<x>> /\ x.flag = w.flag
          /\ IF handlers = <<>> THEN x = w
             ELSE handlers = tracer /\ tracer # <<>> /\ x.sdk = tracer[1].sdk
    BY <1>1, <2>1, TracerAttached
  <2>4. orderly /\ langchain => w = LangChainWanted
    BY <1>1, <2>3 DEF RunsOK
  <2>5. since' <= inits /\ at' <= inits
    BY <1>1, <1>2, <2>1 DEF RunsOK
  <2>6. tracer'[1] = x
    BY <2>3
  <2>7. ASSUME orderly, since' # 0 PROVE x.sdk = since'
    BY <1>1, <2>1, <2>3, <2>4, <2>7 DEF RunsOK, LangChainRunsAreServed, LangChainWanted
  <2>8. ASSUME orderly, at' # 0 PROVE x.flag = Opt(at').sensitive
    BY <2>1, <2>3, <2>4, <2>8 DEF LangChainWanted, Current
  <2>9. LangChainRunsAreServed'
    BY <2>2, <2>6, <2>7, <2>8 DEF LangChainRunsAreServed, Opt
  <2>10. orderly /\ langchain => wrapper' = <<LangChainWanted>>'
    BY <1>1, <2>2 DEF RunsOK, LangChainWanted, Current, Opt
  <2> QED
    BY <2>2, <2>5, <2>9, <2>10 DEF RunsOK
<1>7. ASSUME NEW s \in Shutdowns, LangChainReset(s) PROVE RunsOK'
  BY <1>3, <1>7 DEF LangChainReset, ResetLangChain, distroVars
<1>8. ASSUME ImportedOpenAI PROVE RunsOK'
  BY <1>3, <1>8 DEF ImportedOpenAI, InitializeOpenAI, InstrumentOpenAI, ResetOpenAI, distroVars,
                    instrumentorVars
<1>9. ASSUME UNCHANGED <<inits, given, runVars, instrumentorVars, orderly>> PROVE RunsOK'
  BY <1>3, <1>9 DEF instrumentorVars
<1>10. ASSUME NEW s \in Shutdowns, shutdownMicrosoftOpenTelemetry(s) \/ SdkSettled(s) \/ StatsSettled(s)
       PROVE  RunsOK'
  BY <1>9, <1>10 DEF shutdownMicrosoftOpenTelemetry, SdkSettled, StatsSettled, distroVars
<1>11. ASSUME NEW i \in Inits, SdkClosed(i) \/ StatsExport(i) \/ StatsClosed(i) PROVE RunsOK'
  BY <1>9, <1>11 DEF SdkClosed, StatsExport, StatsClosed, lifeVars, distroVars
<1>12. ASSUME RequestMade \/ TimerFires \/ UNCHANGED vars PROVE RunsOK'
  BY <1>9, <1>12 DEF RequestMade, TimerFires, vars, lifeVars, distroVars
<1> QED
  BY <1>4, <1>5, <1>6, <1>7, <1>8, <1>10, <1>11, <1>12 DEF Next

-----------------------------------------------------------------------------
(* The invariant and the theorems *)

LEMMA NextInvariant ==
  ASSUME IInv, [Next]_vars
  PROVE  IInv'
BY TypesKept, FeaturesKept, CountsKept, OpenAIQueueKept, LangChainQueueKept, TakenDownKept,
   NotBeforeKept, PipelinesKept, OrderlyKept, RunsKept DEF IInv, QueuesOK

LEMMA Invariance == Spec => []IInv
<1>1. Init => IInv
  BY InitInvariant
<1>2. IInv /\ [Next]_vars => IInv'
  BY NextInvariant
<1> QED
  BY <1>1, <1>2, PTL DEF Spec

LEMMA BuiltWell == IInv => WellFormed
<1> SUFFICES ASSUME IInv PROVE WellFormed
  OBVIOUS
<1>1. TypeOK /\ FeaturesOfThisProcess
  BY DEF IInv
<1>2. ASSUME NEW i \in 1 .. inits
      PROVE  SpansHaveAnExit(Opt(i)) /\ ChoicesAreKept(Opt(i))
  <2>1. inits \in 0 .. MaxInits /\ MaxInits \in Nat /\ given \in [Inits -> DOMAIN Options]
    BY <1>1, SdkStatsAssumption DEF TypeOK
  <2>2. i \in Inits
    BY <2>1 DEF Inits
  <2>3. Opt(i) \in Option
    BY <2>1, <2>2, DistroAssumption DEF Opt
  <2> QED
    BY <2>3, SpansLeave, ChoicesKept
<1> QED
  BY <1>1, <1>2 DEF WellFormed

LEMMA OrderlyIsServed == IInv => ReinitialisationIsServed
<1> SUFFICES ASSUME IInv, orderly, ~isShutdown, inits > 0, Settled
             PROVE  /\ Current.stats =>
                         /\ pipeline = inits
                         /\ pipelines[pipeline] = [state |-> "open",
                                                   networkOnly |-> AzureMonitorEnabled(Current)]
                    /\ IF Current.instrumentation["openaiAgents"] = "off" THEN openai = <<>>
                       ELSE openai = <<OpenAIWanted>> /\ registered = openai
                    /\ langchain <=> Current.instrumentation["langchain"] # "off"
                    /\ langchain => wrapper = <<LangChainWanted>>
  BY DEF ReinitialisationIsServed, OpenAIWanted, LangChainWanted
<1>1. InService
  BY DEF IInv, OrderlyOK, NothingElse
<1>2. Queue = <<>> /\ importing["langchain"] = <<>>
  BY DEF Settled, Queue, GenAIKeys
<1>3. <<[use |-> inits]>> # <<>>
  OBVIOUS
<1>4. IF Current.instrumentation["openaiAgents"] = "off" THEN openai = <<>>
      ELSE openai = <<OpenAIWanted>> /\ registered = openai
  BY <1>1, <1>2, <1>3 DEF InService, IInv, TypeOK, InstrumentorsTypeOK
<1>5. (langchain <=> Current.instrumentation["langchain"] # "off")
        /\ (langchain => wrapper = <<LangChainWanted>>)
  BY <1>1, <1>2, <1>3 DEF InService
<1> QED
  BY <1>1, <1>4, <1>5 DEF InService

\* Whatever the options, every variable keeps its type, the features are those of this
\* process, every span has somewhere to go and the caller's choices of instrumentations hold.
THEOREM Spec_WellFormed == Spec => []WellFormed
BY Invariance, BuiltWell, PTL

\* Whatever initialisations and shutdowns overlapped, once all has settled after a shutdown
\* nothing that instruments, patches, counts or exports is left of the last initialisation,
\* and nothing of any earlier one if the calls were orderly.
THEOREM Spec_ShutdownLeavesNothing == Spec => []ShutdownLeavesNothing
BY Invariance, LeavesNothing, PTL

\* However often the application shuts down and initialises again in good order, the last
\* initialisation has its own statistics, and where it turned them on its own processor of
\* spans with the agents' SDK and its own wrapper around LangChain's function.
THEOREM Spec_ReinitialisationIsServed == Spec => []ReinitialisationIsServed
BY Invariance, OrderlyIsServed, PTL

\* For any options, any number of initialisations and any runs, in good order: handlers keep
\* the tracer of the instance under which they first ran, and a run under an instance has the
\* flag of the initialisation in force, whether its handlers are new or not.
THEOREM Spec_LangChainRunsAreServed == Spec => []LangChainRunsAreServed
<1>1. IInv => LangChainRunsAreServed
  BY DEF IInv, RunsOK
<1> QED
  BY <1>1, Invariance, PTL

\* For any requests, pipelines and timers, every request that has a counter is exported exactly
\* once or still waits in it, and the durations that are averaged are those of the requests.
THEOREM Spec_EachRequestReportedOnce == Spec => []EachRequestReportedOnce
<1>1. IInv => EachRequestReportedOnce
  BY DEF IInv
<1> QED
  BY <1>1, Invariance, PTL
=============================================================================
