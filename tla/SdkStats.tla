------------------------------ MODULE SdkStats ------------------------------
(***************************************************************************)
(* Statistics about the distribution itself: a singleton manager starts a  *)
(* pipeline that exports the features in use at long intervals (unless     *)
(* Azure Monitor's exporter does) and, at short intervals, the counts of   *)
(* the requests that exporters made; networkStats keeps the counts between *)
(* two exports.  The module has the manager, the pipelines it ever         *)
(* started, the counts, and the feature flags that are also handed on to   *)
(* Azure Monitor's exporter through an environment variable.               *)
(*                                                                         *)
(* A pipeline is named after the initialisation that started it; its two   *)
(* meter providers are started and shut down together and are one here.    *)
(* All requests go to one endpoint and host.                               *)
(***************************************************************************)
EXTENDS Naturals, FiniteSets, Functions, FiniteSetsExt

CONSTANTS MaxInits,     \* bound: initialisations of the distribution
          MaxRequests,  \* bound: requests counted
          Inherited     \* `env` when the process starts

ASSUME SdkStatsAssumption == MaxInits \in Nat \ {0} /\ MaxRequests \in Nat

VARIABLES pipeline,      \* the one the manager has; 0: it is not initialized
          exportTimer,   \* is the timer of the first long export armed?
          pipelines,     \* all that were ever started
          statsShutdown, \* the global flag
          counts,        \* REQUESTS_MAP
          durations,     \* DURATION_MAP: how many it has added up
          reported,      \* requests in the counts that were exported
          requests,      \* requests made, by what became of them
          env            \* AZURE_MONITOR_STATSBEAT_FEATURES

managerVars == <<pipeline, exportTimer, statsShutdown>>
countVars   == <<counts, durations, reported, requests>>
statsVars   == <<pipeline, exportTimer, pipelines, statsShutdown, counts, durations, reported,
                 requests, env>>

Inits == 1 .. MaxInits

\* A pipeline exports while it is open; once it was told to shut down it does so a last time.
Pipeline == [state: {"none", "open", "closing", "closed"}, networkOnly: BOOLEAN]

-----------------------------------------------------------------------------
(* networkStats *)

StatusKinds == {"success", "retry", "throttle", "failure", "ignored"}

\* What became of a request, and the counter it goes to; "ignored" (206 and redirects) has none.
Outcomes == StatusKinds \cup {"exception"}
Counters == Outcomes \ {"ignored"}

classifyStatusCode(status) ==
  CASE status \in 200 .. 299 \ {206} -> "success"
    [] status \in {206, 307, 308} -> "ignored"
    [] status \in {402, 439} -> "throttle"
    [] status \in {401, 403, 408, 429, 500, 502, 503, 504} -> "retry"
    [] OTHER -> "failure"

NoResponse == 0
OutcomeOf(status) == IF status = NoResponse THEN "exception" ELSE classifyStatusCode(status)

NoCounts == [c \in Counters |-> 0]
SumOf(f) == SumFunction(f)

\* One request of an exporter and its statistics: its duration and at most one counter.
Request(outcome) ==
  /\ SumOf(requests) < MaxRequests
  /\ requests' = [requests EXCEPT ![outcome] = @ + 1]
  /\ durations' = durations + 1
  /\ counts' = [c \in Counters |-> IF c = outcome THEN counts[c] + 1 ELSE counts[c]]
  /\ UNCHANGED <<reported, managerVars, pipelines, env>>

\* Mutation: the counters are read and not cleared.
drainKeeping ==
  /\ reported' = [c \in Counters |-> reported[c] + counts[c]]
  /\ durations' = 0
  /\ UNCHANGED <<counts, requests>>

\* An export of the short interval: every gauge takes what it counted.
drain ==
  /\ reported' = [c \in Counters |-> reported[c] + counts[c]]
  /\ counts' = NoCounts
  /\ durations' = 0
  /\ UNCHANGED requests

Collect(p) ==
  /\ pipelines[p].state = "open" /\ counts # NoCounts
  /\ drain
  /\ UNCHANGED <<managerVars, pipelines, env>>

\* 15 s after the start.
InitialExport ==
  /\ exportTimer /\ exportTimer' = FALSE
  /\ IF pipeline = 0 THEN UNCHANGED countVars ELSE drain
  /\ UNCHANGED <<pipeline, statsShutdown, pipelines, env>>

-----------------------------------------------------------------------------
(* The manager *)

\* initialize of the i-th initialisation; not `available`: statistics are disabled, or the
\* exporter's package has no such module.
initialize(i, networkOnly, available) ==
  IF pipeline # 0 \/ ~available
  THEN UNCHANGED <<managerVars, pipelines>>
  ELSE /\ pipeline' = i
       /\ pipelines' = [pipelines EXCEPT ![i] = [state |-> "open", networkOnly |-> networkOnly]]
       /\ exportTimer' = TRUE
       /\ statsShutdown' = FALSE

\* shutdown, up to its await: the pipeline is told once.
shutdownStats ==
  /\ exportTimer' = FALSE
  /\ pipelines' = IF pipeline # 0 /\ pipelines[pipeline].state = "open"
                  THEN [pipelines EXCEPT ![pipeline].state = "closing"] ELSE pipelines
  /\ UNCHANGED <<pipeline, statsShutdown>>

\* A meter provider exports once more before it is closed.
PipelineClosed(p) ==
  /\ pipelines[p].state = "closing"
  /\ pipelines' = [pipelines EXCEPT ![p].state = "closed"]
  /\ drain
  /\ UNCHANGED <<managerVars, env>>

\* ... and from there, whatever pipeline the manager has by now.
cleanup ==
  /\ pipeline' = 0
  /\ exportTimer' = FALSE
  /\ statsShutdown' = TRUE
  /\ UNCHANGED pipelines

-----------------------------------------------------------------------------
(* The features in the environment variable *)

Features == {"distro", "shim", "aks", "a365", "otlp"}

\* The features, and whether the singleton found the shim's among them.
Environment == [shim: BOOLEAN, features: SUBSET Features]

ASSUME InheritedAssumption == Inherited \in Environment

stripPerProcessFeatures(features) == features \ {"aks"}

\* setSdkStatsFeatures: what this initialisation has is added to what was inherited.  The shim
\* was looked for once, when the singleton was made, and only in an object, not in a number.
setSdkStatsFeatures(own) ==
  env' = [env EXCEPT !.features =
            stripPerProcessFeatures(@) \cup own \cup {IF env.shim THEN "shim" ELSE "distro"}]

-----------------------------------------------------------------------------

SdkStatsInit ==
  /\ pipeline = 0 /\ exportTimer = FALSE /\ statsShutdown = FALSE
  /\ pipelines = [p \in Inits |-> [state |-> "none", networkOnly |-> FALSE]]
  /\ counts = NoCounts /\ durations = 0 /\ reported = NoCounts
  /\ requests = [o \in Outcomes |-> 0]
  /\ env = Inherited

SdkStatsTypeOK ==
  /\ pipeline \in 0 .. MaxInits
  /\ exportTimer \in BOOLEAN /\ statsShutdown \in BOOLEAN
  /\ pipelines \in [Inits -> Pipeline]
  /\ counts \in [Counters -> Nat] /\ durations \in Nat
  /\ reported \in [Counters -> Nat] /\ requests \in [Outcomes -> Nat]
  /\ env \in Environment

\* Every request that has a counter is counted and exported once, whatever pipelines, timers
\* and shutdowns export; between exports as many durations are averaged as requests were
\* counted, and the ignored ones.
EachRequestReportedOnce ==
  /\ \A c \in Counters : requests[c] = counts[c] + reported[c]
  /\ SumOf(counts) <= durations /\ durations <= SumOf(counts) + requests["ignored"]
=============================================================================
