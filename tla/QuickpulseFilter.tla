-------------------------- MODULE QuickpulseFilter --------------------------
(***************************************************************************)
(* The filters and derived metrics of a live metrics configuration: what   *)
(* is valid, which items match, and how the matching items' values become  *)
(* one value per metric and interval.                                      *)
(*                                                                         *)
(* A configuration is [streams, metrics], two sequences.  A stream has an  *)
(* id and groups, each of a telemetry type and a sequence of filters; a    *)
(* metric has an id, a telemetry type, groups, a projection and an         *)
(* aggregation.  A filter's field is a column, a custom dimension or "*";  *)
(* its comparand is a text.                                                *)
(***************************************************************************)
EXTENDS QuickpulseData, Sequences, FiniteSets

CONSTANTS Numbers,     \* the texts that are numbers, with their values
          Timestamps,  \* the texts that are durations, with their parts
          MaxValue     \* Number.MAX_VALUE

parseFloat(text) == IF text \in DOMAIN Numbers THEN Numbers[text] ELSE NaN

\* [days].[hours]:[minutes]:[seconds], the seconds with a fraction.
getMsFromFilterTimestampString(text) ==
  IF text \notin DOMAIN Timestamps THEN NaN
  ELSE LET part == Timestamps[text]
       IN  part.ms + 60000 * (part.minutes + 60 * (part.hours + 24 * part.days))

-----------------------------------------------------------------------------
(* Validation *)

KnownColumns ==
  [Request    |-> {"Url", "Duration", "ResponseCode", "Success", "Name"},
   Dependency |-> {"Target", "Duration", "Success", "Name", "ResultCode", "Type", "Data"},
   Exception  |-> {"Message", "StackTrace"},
   Trace      |-> {"Message"}]

\* Event, Metric and PerformanceCounter are types, but not of this client.
validateTelemetryType(type) == type \in DOMAIN KnownColumns

NumericColumns == {"ResultCode", "ResponseCode", "Duration"}

\* In a configuration an exception's columns, and only they, are named "Exception.".
validateFieldNames(field, type) ==
  \/ field.kind \in {"custom", "any"}
  \/ /\ field.kind = (IF type = "Exception" THEN "exception" ELSE "column")
     /\ field.name \in KnownColumns[type]

Orders == {"GreaterThan", "GreaterThanOrEqual", "LessThan", "LessThanOrEqual"}
Containments == {"Contains", "DoesNotContain"}
Predicates == {"Equal", "NotEqual"} \cup Orders \cup Containments

IsColumn(field, names) == field.kind = "column" /\ field.name \in names

Comparable(filter) ==
  CASE filter.field.kind = "any"                -> filter.predicate \in Containments
    [] IsColumn(filter.field, {"Duration"})     ->
         /\ filter.predicate \notin Containments
         /\ getMsFromFilterTimestampString(filter.comparand) # NaN
    [] IsColumn(filter.field, NumericColumns \ {"Duration"}) ->
         filter.predicate \notin Containments /\ parseFloat(filter.comparand) # NaN
    [] IsColumn(filter.field, {"Success"})      ->
         /\ filter.predicate \in {"Equal", "NotEqual"}
         /\ filter.comparand \in {{"true"}, {"false"}}
    [] OTHER                                    -> filter.predicate \notin Orders

validatePredicateAndComparand(filter) ==
  filter.predicate \in Predicates /\ filter.comparand # {} /\ Comparable(filter)

ValidFilters(filters, type) ==
  \A i \in DOMAIN filters : /\ validateFieldNames(filters[i].field, type)
                            /\ validatePredicateAndComparand(filters[i])

\* The telemetry type, the projection and every filter of every group.
ValidMetric(metric) ==
  /\ validateTelemetryType(metric.telemetryType)
  /\ metric.projection.kind # "customMetric"
  /\ \A i \in DOMAIN metric.groups : ValidFilters(metric.groups[i], metric.telemetryType)

ValidGroup(group) ==
  validateTelemetryType(group.telemetryType) /\ ValidFilters(group.filters, group.telemetryType)

\* Once valid, an exception's columns go by their own names.
renameExceptionFieldNamesForFiltering(filters) ==
  [i \in DOMAIN filters |->
     IF filters[i].field.kind = "exception"
     THEN [filters[i] EXCEPT !.field.kind = "column"] ELSE filters[i]]

\* The streams that have valid groups of a type, each with the groups' filters.
parseDocumentFilterConfiguration(configuration, type) ==
  LET valid(i) == {j \in DOMAIN configuration.streams[i].groups :
                     LET group == configuration.streams[i].groups[j]
                     IN  group.telemetryType = type /\ ValidGroup(group)}
      streams == {i \in DOMAIN configuration.streams : valid(i) # {}}
  IN  [id \in {configuration.streams[i].id : i \in streams} |->
         UNION {{renameExceptionFieldNamesForFiltering(configuration.streams[i].groups[j].filters) :
                   j \in valid(i)} : i \in {s \in streams : configuration.streams[s].id = id}}]

\* A metric's id counts as seen even if the metric turns out to be invalid.
IsFirstOfItsId(metrics, i) == \A j \in 1 .. i - 1 : metrics[j].id # metrics[i].id

\* The valid metrics of a type, in order, the first of each id only.
parseMetricFilterConfiguration(configuration, type) ==
  LET metrics == configuration.metrics
      kept == {i \in DOMAIN metrics : /\ metrics[i].telemetryType = type
                                     /\ ValidMetric(metrics[i]) /\ IsFirstOfItsId(metrics, i)}
      nth(n) == CHOOSE i \in kept : Cardinality({j \in kept : j <= i}) = n
  IN  [n \in 1 .. Cardinality(kept) |->
         [metrics[nth(n)] EXCEPT !.groups =
            [g \in DOMAIN @ |-> renameExceptionFieldNamesForFiltering(@[g])]]]

-----------------------------------------------------------------------------
(* Matching *)

stringCompare(value, comparand, predicate) ==
  CASE predicate = "Equal"          -> value = comparand
    [] predicate = "NotEqual"       -> value # comparand
    [] predicate = "Contains"       -> comparand \subseteq value
    [] predicate = "DoesNotContain" -> ~(comparand \subseteq value)
    [] OTHER                        -> FALSE

\* Nothing but "not equal" holds of a value that is not a number.
numberCompare(value, comparand, predicate) ==
  \/ predicate = "Equal" /\ value = comparand
  \/ predicate = "NotEqual" /\ value # comparand
  \/ value # NaN /\ \/ predicate = "GreaterThan" /\ value > comparand
                    \/ predicate = "GreaterThanOrEqual" /\ value >= comparand
                    \/ predicate = "LessThan" /\ value < comparand
                    \/ predicate = "LessThanOrEqual" /\ value <= comparand

\* String() of a column: a number is printed as one of the texts that have its value.
Printed(name, value) ==
  CASE name = "Success"        -> {IF value THEN "true" ELSE "false"}
    [] name \in NumericColumns -> IF value = NaN THEN {"NaN"}
                                  ELSE UNION {text \in DOMAIN Numbers : Numbers[text] = value}
    [] OTHER                   -> value

\* Some column, or some custom dimension, satisfies the predicate, whatever its type.
checkAnyFieldFilter(filter, data) ==
  LET matches(text) == stringCompare(text, filter.comparand, filter.predicate)
  IN  \/ \E name \in DOMAIN data.CustomDimensions : matches(data.CustomDimensions[name])
      \/ \E name \in DOMAIN data.fields : matches(Printed(name, data.fields[name]))
      \/ data.undefined # {} /\ matches({"undefined"})

checkCustomDimFilter(filter, data) ==
  /\ filter.field.name \in DOMAIN data.CustomDimensions
  /\ stringCompare(data.CustomDimensions[filter.field.name], filter.comparand, filter.predicate)

checkColumn(filter, data) ==
  LET value == data.fields[filter.field.name]
  IN  CASE filter.field.name = "Success" ->
             (value = (filter.comparand = {"true"})) = (filter.predicate = "Equal")
        [] filter.field.name = "Duration" ->
             numberCompare(value, getMsFromFilterTimestampString(filter.comparand),
                           filter.predicate)
        [] filter.field.name \in NumericColumns \ {"Duration"} ->
             numberCompare(value, parseFloat(filter.comparand), filter.predicate)
        [] OTHER -> stringCompare(value, filter.comparand, filter.predicate)

\* An item that is of none of the four kinds matches no filter of a column.
HasKind(data) ==
  isRequestData(data) \/ isDependencyData(data) \/ isExceptionData(data) \/ isTraceData(data)

\* A text that an exception event lacks cannot be searched: toLowerCase of undefined.
Throws(filter, data) ==
  /\ filter.field.kind = "column" /\ HasKind(data)
  /\ filter.field.name \notin DOMAIN data.fields
  /\ filter.predicate \in Containments

\* A column that is undefined differs from every comparand.
checkFilter(filter, data) ==
  \/ filter.field.kind = "any" /\ checkAnyFieldFilter(filter, data)
  \/ filter.field.kind = "custom" /\ checkCustomDimFilter(filter, data)
  \/ /\ filter.field.kind = "column" /\ HasKind(data)
     /\ IF filter.field.name \notin DOMAIN data.fields THEN filter.predicate = "NotEqual"
        ELSE checkColumn(filter, data)

\* All filters of a group match.
checkFilterConjunctionGroup(filters, data) ==
  \A i \in DOMAIN filters : ~Throws(filters[i], data) /\ checkFilter(filters[i], data)

\* The first filter that does not match throws.
GroupThrows(filters, data) ==
  \E i \in DOMAIN filters : /\ Throws(filters[i], data)
                            /\ \A j \in 1 .. i - 1 : checkFilter(filters[j], data)

\* Some group of a metric matches, or it has none.
checkMetricFilters(metric, data) ==
  \/ metric.groups = <<>>
  \/ \E i \in DOMAIN metric.groups : checkFilterConjunctionGroup(metric.groups[i], data)

\* No group before it has matched.
MetricThrows(metric, data) ==
  \E i \in DOMAIN metric.groups :
    /\ GroupThrows(metric.groups[i], data)
    /\ \A j \in 1 .. i - 1 : ~checkFilterConjunctionGroup(metric.groups[j], data)

-----------------------------------------------------------------------------
(* Projections *)

\* Number.MIN_VALUE is the smallest number above zero: no whole number lies between.
MinValue == 0

Initial(aggregation) ==
  CASE aggregation = "Min" -> MaxValue
    [] aggregation = "Max" -> MinValue
    [] OTHER               -> 0

initDerivedMetricProjection(metric) ==
  [value |-> Initial(metric.aggregation), sum |-> 0, count |-> 0]

\* A projection the item has no value for is an error of its own.
Projectable(metric, data) ==
  /\ metric.aggregation \in {"Sum", "Min", "Max", "Avg"}
  /\ CASE metric.projection.kind = "count"    -> TRUE
       [] metric.projection.kind = "duration" -> isRequestData(data) \/ isDependencyData(data)
       [] metric.projection.kind = "custom"   ->
            /\ metric.projection.name \in DOMAIN data.CustomDimensions
            /\ data.CustomDimensions[metric.projection.name] \in DOMAIN Numbers
       [] OTHER                               -> FALSE

IncrementBy(metric, data) ==
  CASE metric.projection.kind = "count"    -> 1
    [] metric.projection.kind = "duration" -> data.fields["Duration"]
    [] OTHER -> parseFloat(data.CustomDimensions[metric.projection.name])

\* Means are taken in whole units.
calculateAggregation(aggregation, old, by) ==
  CASE aggregation = "Sum" -> [old EXCEPT !.value = @ + by]
    [] aggregation = "Min" -> [old EXCEPT !.value = IF by < @ THEN by ELSE @]
    [] aggregation = "Max" -> [old EXCEPT !.value = IF by > @ THEN by ELSE @]
    [] OTHER -> [value |-> (old.sum + by) \div (old.count + 1),
                 sum |-> old.sum + by, count |-> old.count + 1]

\* Mutation: the sum and the count behind a mean are kept.
ResetValue(metric, old) == [old EXCEPT !.value = Initial(metric.aggregation)]

\* After a report every projection starts again.
ResetProjection(metric, old) ==
  CASE metric.aggregation = "Avg" -> [value |-> 0, sum |-> 0, count |-> 0]
    [] OTHER                      -> [old EXCEPT !.value = Initial(metric.aggregation)]

\* What is reported: zero if there was no item.
Reported(metric, projection) ==
  IF metric.aggregation = "Min" /\ projection.value = MaxValue THEN 0 ELSE projection.value
=============================================================================
