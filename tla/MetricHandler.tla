---------------------------- MODULE MetricHandler ----------------------------
(***************************************************************************)
(* The metric handler passes every span that ends and every log record to  *)
(* the standard metrics, to live metrics and to the performance counters,  *)
(* in this order.  Live metrics, while it collects, turns them into        *)
(* documents, derived metrics and rates, which each post of its provider   *)
(* takes along; the subscription and the configuration change as in        *)
(* LiveMetrics, between any two items.                                     *)
(*                                                                         *)
(* The meter's reader collects the rates and exports in one step; what a   *)
(* gauge reports is the count since its last collection, without the       *)
(* division by the time.                                                   *)
(***************************************************************************)
EXTENDS LiveMetrics, QuickpulseFilter, SequencesExt

CONSTANTS Configurations,  \* the configuration of each etag
          Spans, Logs,     \* the items
          DocumentLimit,   \* 20 in the code
          MaxItems         \* bound: items recorded

IsFilter(filter) ==
  DOMAIN filter = {"field", "predicate", "comparand"} /\ DOMAIN filter.field = {"kind", "name"}

IsMetric(metric) ==
  /\ DOMAIN metric = {"id", "telemetryType", "groups", "projection", "aggregation"}
  /\ \A i \in DOMAIN metric.groups :
       \A j \in DOMAIN metric.groups[i] : IsFilter(metric.groups[i][j])

\* Configurations have the shape of the client's types, durations are numbers, and every number
\* is below Number.MAX_VALUE.
ASSUME MetricHandlerAssumption ==
  /\ MaxValue \in Int /\ 1 < MaxValue
  /\ \A text \in DOMAIN Numbers : Numbers[text] \in Int /\ Numbers[text] < MaxValue
  /\ \A e \in Etags :
       /\ Len(Configurations[e].metrics) \in Nat
       /\ DOMAIN Configurations[e].metrics = 1 .. Len(Configurations[e].metrics)
       /\ \A i \in DOMAIN Configurations[e].metrics : IsMetric(Configurations[e].metrics[i])
       /\ \A i \in DOMAIN Configurations[e].streams :
            \A j \in DOMAIN Configurations[e].streams[i].groups :
              \A k \in DOMAIN Configurations[e].streams[i].groups[j].filters :
                IsFilter(Configurations[e].streams[i].groups[j].filters[k])
  /\ \A span \in Spans :
       /\ span.duration \in Nat /\ span.duration < MaxValue /\ span.otherEvents \in Nat /\ span.failed \in BOOLEAN
       /\ Len(span.exceptions) \in Nat /\ DOMAIN span.exceptions = 1 .. Len(span.exceptions)

VARIABLES documents, projections, runTimeErrors,
          totals, last,           \* live metrics' counters, now and at the last collection
          standard, performance,  \* the other two handlers' counters
          recorded,               \* history: the items, and whether live metrics took them
          rateMark, valueMark     \* history: how many of them before the current intervals

telemetryVars == <<documents, projections, runTimeErrors, totals, last>>
handlerVars   == <<standard, performance, recorded>>
allVars       == <<vars, telemetryVars, handlerVars, rateMark, valueMark>>

Counters == {"requests", "failedRequests", "requestDuration", "dependencies",
             "failedDependencies", "dependencyDuration", "exceptions"}
StandardCounters == {"requests", "dependencies", "exceptions", "traces"}

Zero(counters) == [c \in counters |-> 0]

-----------------------------------------------------------------------------
(* Recording, as functions of the telemetry so far *)

Telemetry == [documents |-> documents, projections |-> projections, errors |-> runTimeErrors,
              totals |-> totals, thrown |-> FALSE]

\* What the client has parsed of each configuration.
ParsedMetrics ==
  [e \in Etags |-> [type \in DOMAIN KnownColumns |->
                      parseMetricFilterConfiguration(Configurations[e], type)]]
ParsedStreams ==
  [e \in Etags |-> [type \in DOMAIN KnownColumns |->
                      parseDocumentFilterConfiguration(Configurations[e], type)]]

validDerivedMetrics(type) == IF config = None THEN <<>> ELSE ParsedMetrics[config][type]

DocumentStreams(type) == IF config = None THEN <<>> ELSE ParsedStreams[config][type]

\* Beyond the limit the oldest document goes.
addDocument(old, document) ==
  Append(IF Len(old) > DocumentLimit THEN Tail(old) ELSE old, document)

\* A document for the streams that the item matches, or, without any stream for items of
\* its type, for none in particular.
applyDocumentFilters(t, type, data, documentType) ==
  LET streams == DocumentStreams(type)
      matching == {id \in DOMAIN streams :
                     \E group \in streams[id] : checkFilterConjunctionGroup(group, data)}
      throws == \E id \in DOMAIN streams : \E group \in streams[id] : GroupThrows(group, data)
  IN  IF t.thrown \/ throws THEN [t EXCEPT !.thrown = TRUE]
      ELSE IF matching = {} /\ DOMAIN streams # {} THEN t
      ELSE [t EXCEPT !.documents = addDocument(@, [type |-> documentType, streams |-> matching])]

\* Errors other than a projection's own are swallowed: a metric without a projection.
CreateProjection(t, metric, data) ==
  LET throws == t.thrown \/ MetricThrows(metric, data)
      counts == ~throws /\ checkMetricFilters(metric, data)
  IN  CASE throws -> [t EXCEPT !.thrown = TRUE]
        [] counts /\ ~Projectable(metric, data) -> [t EXCEPT !.errors = @ \cup {metric.id}]
        [] counts /\ Projectable(metric, data) /\ metric.id \in DOMAIN t.projections ->
             [t EXCEPT !.projections[metric.id] =
                calculateAggregation(metric.aggregation, @, IncrementBy(metric, data))]
        [] OTHER -> t

checkMetricFilterAndCreateProjection(t, type, data) ==
  FoldLeft(LAMBDA t1, metric : CreateProjection(t1, metric, data), t, validDerivedMetrics(type))

\* Counters go up unless something has been thrown before.
Count(t, increments) ==
  IF t.thrown THEN t
  ELSE [t EXCEPT !.totals = [c \in Counters |->
          @[c] + (IF c \in DOMAIN increments THEN increments[c] ELSE 0)]]

Failures(span) == IF span.failed THEN 1 ELSE 0

CountSpan(t, span) ==
  Count(t, IF IsRequest(span)
           THEN [requests |-> 1, failedRequests |-> Failures(span),
                 requestDuration |-> span.duration]
           ELSE [dependencies |-> 1, failedDependencies |-> Failures(span),
                 dependencyDuration |-> span.duration])

\* An exception's document says so if the exception's type is known.
ExceptionDocument(data, hasType) ==
  IF isExceptionData(data) /\ hasType THEN "Exception" ELSE "Trace"

RecordEvent(t, event, span) ==
  LET data == getSpanExceptionColumns(event, span)
      document == ExceptionDocument(data, "Type" \in DOMAIN event)
      t1 == applyDocumentFilters(t, "Exception", data, document)
      t2 == checkMetricFilterAndCreateProjection(t1, "Exception", data)
  IN  Count(t2, [exceptions |-> 1])

\* The span itself, then its exceptions, until a filter throws.
recordSpan(t, span) ==
  LET data == getSpanData(span)
      type == IF isRequestData(data) THEN "Request" ELSE "Dependency"
      document == IF isRequestData(data) THEN "Request" ELSE "RemoteDependency"
      t1 == applyDocumentFilters(t, type, data, document)
      t2 == checkMetricFilterAndCreateProjection(t1, type, data)
  IN  FoldLeft(LAMBDA t3, event : RecordEvent(t3, event, span), CountSpan(t2, span),
               span.exceptions)

recordLog(t, log) ==
  LET data == getLogData(log)
      type == IF isExceptionData(data) THEN "Exception" ELSE "Trace"
      document == ExceptionDocument(data, Text(log.attributes, "exceptionType") # {})
      t1 == applyDocumentFilters(t, type, data, document)
      t2 == IF isExceptionData(data) THEN Count(t1, [exceptions |-> 1]) ELSE t1
  IN  checkMetricFilterAndCreateProjection(t2, type, data)

-----------------------------------------------------------------------------
(* The other two handlers *)

Incremented(counters, increments) ==
  [c \in DOMAIN counters |-> counters[c] + (IF c \in DOMAIN increments THEN increments[c] ELSE 0)]

StandardSpan(span) ==
  IF span.kind = "SERVER"
  THEN [requests |-> 1, exceptions |-> Len(span.exceptions), traces |-> span.otherEvents]
  ELSE [dependencies |-> 1, exceptions |-> Len(span.exceptions), traces |-> span.otherEvents]

StandardLog(log) ==
  CASE isExceptionTelemetry(log) -> [exceptions |-> 1]
    [] ~isExceptionTelemetry(log) /\ isTraceTelemetry(log) -> [traces |-> 1]
    [] OTHER -> Zero({})

PerformanceSpan(span) ==
  IF span.kind = "SERVER" THEN [requests |-> 1, exceptions |-> Len(span.exceptions)]
  ELSE Zero({})

PerformanceLog(log) == IF isExceptionData(getLogData(log)) THEN [exceptions |-> 1] ELSE Zero({})

-----------------------------------------------------------------------------
(* Actions *)

Apply(t) ==
  /\ documents' = t.documents /\ projections' = t.projections
  /\ runTimeErrors' = t.errors /\ totals' = t.totals
  /\ UNCHANGED last

\* Live metrics takes an item while it collects; what it throws reaches whoever ended the
\* span, and the performance counters miss it.
RecordSpan ==
  \E span \in Spans :
    LET t == IF isCollectingData THEN recordSpan(Telemetry, span) ELSE Telemetry
    IN  /\ Len(recorded) < MaxItems
        /\ Apply(t)
        /\ standard' = Incremented(standard, StandardSpan(span))
        /\ performance' = IF t.thrown THEN performance
                          ELSE Incremented(performance, PerformanceSpan(span))
        /\ recorded' = Append(recorded, [item |-> span, log |-> FALSE, thrown |-> t.thrown,
                                         taken |-> isCollectingData])
        /\ UNCHANGED <<vars, rateMark, valueMark>>

RecordLog ==
  \E log \in Logs :
    LET t == IF isCollectingData THEN recordLog(Telemetry, log) ELSE Telemetry
    IN  /\ Len(recorded) < MaxItems
        /\ Apply(t)
        /\ standard' = Incremented(standard, StandardLog(log))
        /\ performance' = Incremented(performance, PerformanceLog(log))
        /\ recorded' = Append(recorded, [item |-> log, log |-> TRUE, thrown |-> FALSE,
                                         taken |-> isCollectingData])
        /\ UNCHANGED <<vars, rateMark, valueMark>>

MetricsOf(c) ==
  IF c = None THEN {} ELSE UNION {ToSet(ParsedMetrics[c][type]) : type \in DOMAIN KnownColumns}

\* The metric of an id.
Named(metrics, id) == CHOOSE metric \in metrics : metric.id = id

InitialProjections(c) ==
  [id \in {metric.id : metric \in MetricsOf(c)} |->
     initDerivedMetricProjection(Named(MetricsOf(c), id))]

\* The gauges' callbacks.
Collect ==
  /\ last' = totals
  /\ rateMark' = Len(recorded)

\* The exporter takes the documents, the errors and the projections.
Export ==
  /\ Post /\ Collect
  /\ documents' = <<>> /\ runTimeErrors' = {}
  /\ projections' = [id \in DOMAIN projections |->
                       ResetProjection(Named(MetricsOf(config), id), projections[id])]
  /\ valueMark' = Len(recorded)
  /\ UNCHANGED <<totals, handlerVars>>

\* Mutation: the counters are reset, but not what they were at the last collection.
ResetTotals ==
  /\ totals' = Zero(Counters)
  /\ UNCHANGED last
  /\ rateMark' = Len(recorded)

\* activateMetrics, if there is no provider.
ResetCounters ==
  /\ totals' = Zero(Counters) /\ last' = Zero(Counters)
  /\ rateMark' = Len(recorded)

\* deactivateMetrics, of a provider that collects once more if there is one.
ClearTelemetry ==
  /\ documents' = <<>> /\ runTimeErrors' = {} /\ projections' = <<>>
  /\ valueMark' = Len(recorded)

\* updateConfiguration: the documents and the errors of items recorded before stay.
StartOver ==
  /\ projections' = InitialProjections(config')
  /\ valueMark' = Len(recorded)
  /\ UNCHANGED <<documents, runTimeErrors>>

\* What a step of the client means for the telemetry, as told by what it did: it started
\* over after a long silence, ended the provider, shut down without one, took a
\* configuration, or made a provider.
Follow(startedOver) ==
  /\ \/ startedOver /\ ClearTelemetry /\ ResetCounters
     \/ /\ ~startedOver /\ meterProvider /\ ~meterProvider'
        /\ ClearTelemetry /\ Collect /\ UNCHANGED totals
     \/ /\ ~startedOver /\ ~meterProvider /\ isShutdown # isShutdown'
        /\ ClearTelemetry /\ UNCHANGED <<totals, last, rateMark>>
     \/ /\ ~startedOver /\ config' \notin {config, None}
        /\ StartOver /\ UNCHANGED <<totals, last, rateMark>>
     \/ /\ ~startedOver /\ ~meterProvider /\ meterProvider'
        /\ ResetCounters /\ UNCHANGED <<documents, runTimeErrors, projections, valueMark>>
     \/ /\ ~startedOver /\ meterProvider = meterProvider' /\ isShutdown = isShutdown'
        /\ config' = config
        /\ UNCHANGED <<telemetryVars, rateMark, valueMark>>
  /\ UNCHANGED handlerVars

\* A request without an answer after a long silence makes a collecting client start over.
StartsOver == isCollectingData /\ ~isShutdown /\ silent /\ silent'

Ping       == GoQuickpulse /\ Follow(FALSE)
PingAnswer == PingDone /\ Follow(StartsOver)
PostAnswer == PostDone /\ Follow(StartsOver)
GoOn       == Resume /\ Follow(FALSE)
End        == Shutdown /\ Follow(FALSE)
Silence  == SilenceLasts /\ UNCHANGED <<telemetryVars, handlerVars, rateMark, valueMark>>

HandlerInit ==
  /\ Init
  /\ documents = <<>> /\ projections = <<>> /\ runTimeErrors = {}
  /\ totals = Zero(Counters) /\ last = Zero(Counters)
  /\ standard = Zero(StandardCounters) /\ performance = Zero({"requests", "exceptions"})
  /\ recorded = <<>> /\ rateMark = 0 /\ valueMark = 0

HandlerNext ==
  \/ Ping \/ PingAnswer \/ PostAnswer \/ GoOn \/ End \/ Silence
  \/ Export \/ RecordSpan \/ RecordLog

HandlerFairness == WF_allVars(Ping) /\ WF_allVars(PingAnswer) /\ WF_allVars(GoOn)

HandlerSpec == HandlerInit /\ [][HandlerNext]_allVars /\ HandlerFairness

-----------------------------------------------------------------------------
(* Properties *)

Item(i) == recorded[i].item
Since(mark) == {i \in DOMAIN recorded : i > mark /\ recorded[i].taken}

Requests(S) == {i \in S : ~recorded[i].log /\ IsRequest(Item(i))}
Dependencies(S) == {i \in S : ~recorded[i].log /\ ~IsRequest(Item(i))}
Served(S) == {i \in S : ~recorded[i].log /\ Item(i).kind = "SERVER"}
NotThrown(S) == {i \in S : ~recorded[i].thrown}
Failed(S) == {i \in S : Item(i).failed}
Durations(S) == [i \in S |-> Item(i).duration]
Exceptions(S) == [i \in S |-> IF ~recorded[i].log THEN Len(Item(i).exceptions)
                              ELSE IF isExceptionTelemetry(Item(i)) THEN 1 ELSE 0]

\* What the gauges of live metrics would report now.
LiveRatesAreExact ==
  LET items == Since(rateMark)
      now(c) == totals[c] - last[c]
  IN  /\ now("requests") = Cardinality(Requests(items))
      /\ now("failedRequests") = Cardinality(Failed(Requests(items)))
      /\ now("requestDuration") = SumFunction(Durations(Requests(items)))
      /\ now("dependencies") = Cardinality(Dependencies(items))
      /\ now("failedDependencies") = Cardinality(Failed(Dependencies(items)))
      /\ now("dependencyDuration") = SumFunction(Durations(Dependencies(items)))
      /\ now("exceptions") \in
           SumFunction(Exceptions(NotThrown(items))) .. SumFunction(Exceptions(items))

\* No item is counted twice or missed: the next report's requests, dependencies and
\* durations are those of the items since the last one, or since the provider was made,
\* whatever restarts lie between; the standard metrics have counted every item, and the
\* performance counters every server span, but for those whose recording live metrics'
\* filters ended with an exception.
RatesAreExact ==
  /\ LiveRatesAreExact
  /\ standard["requests"] = Cardinality(Served(DOMAIN recorded))
  /\ standard["exceptions"] = SumFunction(Exceptions(DOMAIN recorded))
  /\ performance["requests"] = Cardinality(NotThrown(Served(DOMAIN recorded)))

\* The rows that an item offers to derived metrics of a type.
Rows(i, type) ==
  LET item == Item(i) IN
  CASE recorded[i].log -> IF isExceptionTelemetry(item) = (type = "Exception")
                             /\ type \in {"Exception", "Trace"}
                          THEN <<getLogData(item)>> ELSE <<>>
    [] ~recorded[i].log /\ type = "Exception" ->
         [j \in DOMAIN item.exceptions |-> getSpanExceptionColumns(item.exceptions[j], item)]
    [] ~recorded[i].log /\ type = (IF IsRequest(item) THEN "Request" ELSE "Dependency") ->
         <<getSpanData(item)>>
    [] OTHER -> <<>>

\* Those that count, of the items that this interval's value is made of.
Samples(metric) ==
  {s \in UNION {{i} \X DOMAIN Rows(i, metric.telemetryType) : i \in Since(valueMark)} :
     LET row == Rows(s[1], metric.telemetryType)[s[2]]
     IN  checkMetricFilters(metric, row) /\ Projectable(metric, row)}
SampleOf(metric, s) == IncrementBy(metric, Rows(s[1], metric.telemetryType)[s[2]])

Aggregate(metric, samples) ==
  LET values == [s \in samples |-> SampleOf(metric, s)]
  IN  IF samples = {} THEN 0
      ELSE CASE metric.aggregation = "Min" -> Min(Range(values))
             [] metric.aggregation = "Max" -> Max(Range(values))
             [] metric.aggregation = "Sum" -> SumFunction(values)
             [] OTHER                      -> SumFunction(values) \div Cardinality(samples)

\* The next report has a value for each derived metric of the configuration in force and for
\* no other: the aggregate of exactly the matching items since the last report or the
\* configuration's arrival, none left from an earlier interval or configuration (a maximum
\* below zero, which is reported as zero, excepted).
DerivedMetricsAreExact ==
  /\ DOMAIN projections = {metric.id : metric \in MetricsOf(config)}
  /\ \A metric \in MetricsOf(config) :
       LET exact == Aggregate(metric, Samples(metric))
           negative == metric.aggregation = "Max" /\ exact < 0
       IN  \/ \E i \in Since(valueMark) : recorded[i].thrown
           \/ Reported(metric, projections[metric.id]) = IF negative THEN 0 ELSE exact
=============================================================================
