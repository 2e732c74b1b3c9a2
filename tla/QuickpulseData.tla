--------------------------- MODULE QuickpulseData ---------------------------
(***************************************************************************)
(* What live metrics and the standard metrics read from a span or a log    *)
(* record: the columns that filters and derived metrics refer to.          *)
(*                                                                         *)
(* A text is the set of its words, the empty text {}; the attributes of a  *)
(* span map names to texts ("status" and "grpcStatus" to numbers), one     *)
(* name standing for the stable and the legacy semantic convention, of     *)
(* which the first that is not empty counts.                               *)
(***************************************************************************)
EXTENDS Integers

CONSTANTS Paths  \* the words that are paths of URLs

\* Not a number: a filter compares it with numbers only, which are not negative here.
NaN == -1

Text(attributes, name) == IF name \in DOMAIN attributes THEN attributes[name] ELSE {}

\* String(attribute): the getters of the HTTP attributes return it even if there is none.
StringOf(attributes, name) ==
  IF Text(attributes, name) = {} THEN {"undefined"} ELSE attributes[name]

getHttpMethod(attributes) == StringOf(attributes, "method")
getHttpScheme(attributes) == StringOf(attributes, "scheme")
getHttpHost(attributes) == StringOf(attributes, "host")

\* Number(String(attribute)): not a number if there is none.
getHttpStatusCode(attributes) ==
  IF "status" \in DOMAIN attributes THEN attributes["status"] ELSE NaN

getHttpTarget(attributes) ==
  CASE Text(attributes, "path") # {}  -> attributes["path"]
    [] Text(attributes, "path") = {} /\ Text(attributes, "query") # {} -> attributes["query"]
    [] OTHER -> Text(attributes, "target")

\* The attribute; or a URL made of its parts.
getUrl(attributes) ==
  CASE getHttpMethod(attributes) = {}  -> {}
    [] Text(attributes, "url") # {}    -> attributes["url"]
    [] /\ Text(attributes, "url") = {}
       /\ getHttpScheme(attributes) # {} /\ getHttpTarget(attributes) # {}
       /\ getHttpHost(attributes) # {} ->
         getHttpScheme(attributes) \cup getHttpHost(attributes) \cup getHttpTarget(attributes)
    [] OTHER -> {}

SemanticNames ==
  {"method", "url", "scheme", "host", "status", "path", "query", "target", "peerService",
   "peerName", "port", "db", "dbStatement", "dbOperation", "dbName", "rpc", "grpcStatus",
   "exceptionMessage", "exceptionType", "exceptionStack", "baseType", "processed"}

\* Every attribute that is not one of the conventions' nor of Azure Monitor.
createCustomDimsFromAttributes(attributes) ==
  [name \in DOMAIN attributes \ SemanticNames |-> attributes[name]]

\* The columns, and those of them that are undefined.
PartialColumns(fields, undefined, attributes) ==
  [fields |-> fields, undefined |-> undefined,
   CustomDimensions |-> createCustomDimsFromAttributes(attributes)]
Columns(fields, attributes) == PartialColumns(fields, {}, attributes)

\* The method and the path, if the URL is one; otherwise the span's name.
NameOf(span, url) ==
  IF url = {} THEN span.name ELSE getHttpMethod(span.attributes) \cup (url \cap Paths)

\* grpc.status_code counts only for a span without a method.
RequestCode(attributes) ==
  CASE getHttpMethod(attributes) # {} -> getHttpStatusCode(attributes)
    [] getHttpMethod(attributes) = {} /\ "grpcStatus" \in DOMAIN attributes ->
         attributes["grpcStatus"]
    [] OTHER -> 0

getRequestData(span) ==
  LET url == getUrl(span.attributes)
      code == RequestCode(span.attributes)
  IN  Columns([Url |-> url, Name |-> NameOf(span, url), Duration |-> span.duration,
               ResponseCode |-> code, Success |-> ~span.failed /\ code # NaN /\ code < 400],
              span.attributes)

\* The peer's service, or its name, with the port if there is one.
getDependencyTarget(attributes) ==
  CASE Text(attributes, "peerService") # {} -> attributes["peerService"]
    [] Text(attributes, "peerService") = {} /\ Text(attributes, "peerName") # {} ->
         attributes["peerName"] \cup Text(attributes, "port")
    [] OTHER -> {}

NativeDatabases == {"mysql", "postgresql", "mongodb", "redis"}
SqlDatabases ==
  {"db2", "derby", "mariadb", "mssql", "oracle", "sqlite", "other_sql", "hsqldb", "h2"}

DatabaseType(system) ==
  CASE system \cap NativeDatabases # {} -> system
    [] system \cap SqlDatabases # {}    -> {"sql"}
    [] OTHER                            -> system

FirstText(texts) ==
  IF \E i \in DOMAIN texts : texts[i] # {}
  THEN texts[CHOOSE i \in DOMAIN texts : texts[i] # {} /\ \A j \in 1 .. i - 1 : texts[j] = {}]
  ELSE {}

\* The type by the span's kind, which the branches below overrule.
KindType(span) ==
  CASE span.kind = "PRODUCER"                      -> {"queue"}
    [] span.kind = "INTERNAL" /\ span.hasParent    -> {"inproc"}
    [] OTHER                                       -> {}

HttpDependency(span) ==
  [Target |-> getDependencyTarget(span.attributes), Type |-> {"http"},
   Data |-> getUrl(span.attributes),
   Name |-> IF Text(span.attributes, "url") = {} THEN span.name
            ELSE NameOf(span, span.attributes["url"]),
   ResultCode |-> getHttpStatusCode(span.attributes)]

DatabaseDependency(span) ==
  LET system == Text(span.attributes, "db")
      target == getDependencyTarget(span.attributes)
      name == Text(span.attributes, "dbName")
  IN  [Target |-> IF target \cup name = {} THEN system ELSE target \cup name,
       Type |-> DatabaseType(system),
       Data |-> FirstText(<<Text(span.attributes, "dbStatement"),
                            Text(span.attributes, "dbOperation")>>),
       Name |-> span.name, ResultCode |-> 0]

GrpcDependency(span) ==
  [Target |-> FirstText(<<getDependencyTarget(span.attributes), Text(span.attributes, "rpc")>>),
   Type |-> IF Text(span.attributes, "rpc") = {"wcf"} THEN {"wcf"} ELSE {"grpc"},
   Data |-> {}, Name |-> span.name,
   ResultCode |-> IF "grpcStatus" \in DOMAIN span.attributes
                  THEN span.attributes["grpcStatus"] ELSE 0]

PlainDependency(span) ==
  [Target |-> {}, Type |-> KindType(span), Data |-> {}, Name |-> span.name, ResultCode |-> 0]

\* An HTTP call, a database's, a remote procedure's or another: in this order.
getDependencyData(span) ==
  LET kinds == CASE getHttpMethod(span.attributes) # {} -> HttpDependency(span)
                 [] /\ getHttpMethod(span.attributes) = {}
                    /\ Text(span.attributes, "db") # {} -> DatabaseDependency(span)
                 [] /\ getHttpMethod(span.attributes) = {}
                    /\ Text(span.attributes, "db") = {}
                    /\ Text(span.attributes, "rpc") # {} -> GrpcDependency(span)
                 [] OTHER -> PlainDependency(span)
  IN  Columns([field \in DOMAIN kinds \cup {"Duration", "Success"} |->
                 CASE field = "Duration" -> span.duration
                   [] field = "Success"  -> ~span.failed
                   [] OTHER              -> kinds[field]],
              span.attributes)

IsRequest(span) == span.kind \in {"SERVER", "CONSUMER"}

getSpanData(span) == IF IsRequest(span) THEN getRequestData(span) ELSE getDependencyData(span)

\* The message and the stack of an exception event; one that it lacks is undefined.
getSpanExceptionColumns(event, span) ==
  LET known == {f \in {"Message", "StackTrace"} : f \in DOMAIN event}
  IN  PartialColumns([field \in known |-> event[field]], {"Message", "StackTrace"} \ known,
                     span.attributes)

\* A record of the legacy Application Insights logs, or one with exception attributes.
isExceptionTelemetry(log) ==
  \/ Text(log.attributes, "baseType") = {"ExceptionData"}
  \/ Text(log.attributes, "exceptionMessage") # {}
  \/ Text(log.attributes, "exceptionType") # {}

isTraceTelemetry(log) ==
  \/ Text(log.attributes, "baseType") = {"MessageData"}
  \/ /\ Text(log.attributes, "exceptionMessage") = {}
     /\ Text(log.attributes, "exceptionType") = {}

getLogData(log) ==
  IF isExceptionTelemetry(log)
  THEN Columns([Message |-> StringOf(log.attributes, "exceptionMessage"),
                StackTrace |-> StringOf(log.attributes, "exceptionStack")], log.attributes)
  ELSE Columns([Message |-> log.body], log.attributes)

isRequestData(data) == "Url" \in DOMAIN data.fields
isDependencyData(data) == "Target" \in DOMAIN data.fields
isExceptionData(data) == "StackTrace" \in DOMAIN data.fields
isTraceData(data) == "Message" \in DOMAIN data.fields /\ ~isExceptionData(data)
=============================================================================
