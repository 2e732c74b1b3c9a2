--------------------------- MODULE MCMetricHandler ---------------------------
(* The metric handler on a few spans and records and two configurations. *)
EXTENDS MetricHandler, TLC

No == <<>>
Filter(field, predicate, comparand) ==
  [field |-> field, predicate |-> predicate, comparand |-> comparand]
Column(name) == [kind |-> "column", name |-> name]
Ex(name) == [kind |-> "exception", name |-> name]
Custom(name) == [kind |-> "custom", name |-> name]
AnyField == [kind |-> "any", name |-> "*"]
Metric(id, type, groups, projection, aggregation) ==
  [id |-> id, telemetryType |-> type, groups |-> groups, projection |-> projection,
   aggregation |-> aggregation]
Stream(id, groups) == [id |-> id, groups |-> groups]
Group(type, filters) == [telemetryType |-> type, filters |-> filters]

CountOf == [kind |-> "count", name |-> "Count()"]
DurationOf == [kind |-> "duration", name |-> "Duration"]
CostOf == [kind |-> "custom", name |-> "cost"]

MCNumbers == ({"-5"} :> -5) @@ ({"7"} :> 7) @@ ({"400"} :> 400)
MCTimestamps == ({"0.0:0:0.005"} :> [days |-> 0, hours |-> 0, minutes |-> 0, ms |-> 5])
MCPaths == {"/cart"}

\* A mean twice under one id, a maximum, exceptions by message, and an invalid metric.
First ==
  [streams |-> <<Stream("failures",
                   <<Group("Request", <<Filter(Column("Success"), "Equal", {"false"})>>),
                     Group("Exception", <<Filter(Ex("Message"), "Contains", {"boom"})>>)>>),
                 Stream("all", <<Group("Event", <<>>),
                                 Group("Dependency", <<Filter(AnyField, "Contains", {"http"})>>)>>)>>,
   metrics |-> <<Metric("mean", "Dependency", <<<<>>>>, DurationOf, "Avg"),
                 Metric("mean", "Request", <<<<>>>>, CountOf, "Sum"),
                 Metric("cost", "Dependency",
                        <<<<Filter(Custom("cost"), "NotEqual", {"0"})>>>>, CostOf, "Max"),
                 Metric("late", "Request",
                        <<<<Filter(Column("Duration"), "Contains", {"5"})>>>>, CountOf, "Sum"),
                 Metric("booms", "Exception",
                        <<<<Filter(Ex("Message"), "Contains", {"boom"})>>>>, CountOf, "Sum")>>]

\* The same ids with other meanings.
Second ==
  [streams |-> <<>>,
   metrics |-> <<Metric("mean", "Dependency",
                        <<<<Filter(Column("Duration"), "GreaterThan", {"0.0:0:0.005"})>>>>,
                        DurationOf, "Min"),
                 Metric("errors", "Exception", <<>>, DurationOf, "Sum"),
                 Metric("bad", "Request",
                        <<<<Filter(Column("ResponseCode"), "GreaterThanOrEqual", {"400"})>>>>,
                        CountOf, "Sum")>>]

CONSTANTS e1, e2
MCConfigurations == (e1 :> First) @@ (e2 :> Second)

Span(kind, failed, duration, attributes, exceptions) ==
  [kind |-> kind, failed |-> failed, hasParent |-> FALSE, duration |-> duration,
   name |-> {"span"}, attributes |-> attributes, exceptions |-> exceptions, otherEvents |-> 0]

Boom == [Message |-> {"boom"}, StackTrace |-> {"at"}, Type |-> {"Error"}]
Mute == [StackTrace |-> {"at"}, Type |-> {"Error"}]

MCSpans ==
  {Span("SERVER", TRUE, 2, <<>>, <<Mute>>),
   Span("CLIENT", FALSE, 4, [db |-> {"mysql"}, cost |-> {"-5"}], No),
   Span("PRODUCER", FALSE, 8, [method |-> {"GET"}, url |-> {"http", "/cart"}, cost |-> {"7"}],
        <<Boom>>)}

MCLogs ==
  {[body |-> {}, attributes |-> [exceptionMessage |-> {"boom"}, exceptionType |-> {"Error"}]]}
=============================================================================
