----------------------------- MODULE ToolPayload -----------------------------
(***************************************************************************)
(* What a365/message-utils.ts records of the messages and of the tools'    *)
(* arguments and results that an application hands over: values that share *)
(* objects, or that are circular, or that JSON does not know.              *)
(*                                                                         *)
(* Objects are a heap: [type, fields], where the type is "record" (a plain *)
(* object), "array", "set", "instance" (of a class) or "typed" (one of the *)
(* two payload classes, with its `kind`), and fields maps keys, or indices *)
(* to values.  A value is an object's identifier or an atom; the atoms     *)
(* tell apart what the code does.  Dates and byte arrays are texts here.   *)
(*                                                                         *)
(* A serialization is <<tree>>, or << >> where the code throws.            *)
(***************************************************************************)
EXTENDS LangChainRun

CONSTANT Objects      \* the objects of the application, by identifier

Thrown == << >>
Leaf(value) == [leaf |-> value]
Node(members) == [members |-> members]

\* What is not there, and atoms with which the code throws.
Nullish == {"null", "undefined"}
Unsupported == {"undefined", "NaN", "bigint", "function", "hole"}

IsObject(value) == value \in DOMAIN Objects
isPlainRecord(value) == IsObject(value) /\ Objects[value].type = "record"
Fields(o) == Objects[o].fields

\* The values that a serialization comes to, and the containers that may be around one of them.
Serialized == DOMAIN Objects \cup UNION {Range(Fields(o)) : o \in DOMAIN Objects}
Actives == SUBSET DOMAIN Objects

\* All members, or an exception.
AllOf(results) ==
  IF \E k \in DOMAIN results : results[k] = Thrown THEN Thrown
  ELSE <<Node([k \in DOMAIN results |-> results[k][1]])>>

-----------------------------------------------------------------------------
(* The serialization of typed payloads; `active` are the containers around. *)

toJsonValue[value \in Serialized, active \in Actives] ==
  IF ~IsObject(value) THEN IF value \in Unsupported THEN Thrown ELSE <<Leaf(value)>>
  ELSE IF value \in active \/ Objects[value].type \notin {"record", "array", "set"} THEN Thrown
  ELSE AllOf([k \in DOMAIN Fields(value) |-> toJsonValue[Fields(value)[k], active \cup {value}]])

toJsonRecord(value, active) == IF isPlainRecord(value) THEN toJsonValue[value, active] ELSE Thrown

\* The declared fields of each kind of object: any value, a mapping, one of a set of texts, one
\* object, or an array of objects.
Value == [is |-> "value"]
Mapping == [is |-> "mapping"]
Enum(texts) == [is |-> "enum", of |-> texts]
One(schema) == [is |-> "one", of |-> schema]
Many(schema) == [is |-> "many", of |-> schema]
Values(names) == [n \in names |-> Value]

ResourceFields ==
  ("identifiers" :> Many("identifier")) @@ ("container" :> One("container"))
    @@ Values({"id", "uri", "name", "type", "provider"})
Schemas ==
  [arguments |-> ("resources" :> Many("resource")) @@ ("action" :> Enum({"read", "create", "update", "delete"}))
                   @@ ("parameters" :> Mapping) @@ Values({"schema_version"}),
   result |-> ("outcome" :> One("outcome")) @@ ("resources" :> Many("resultResource"))
                @@ ("data" :> Mapping) @@ ("pagination" :> One("pagination")) @@ Values({"schema_version"}),
   resource |-> ResourceFields,
   resultResource |-> ("outcome" :> One("outcome")) @@ ("sensitivity" :> One("sensitivity"))
                        @@ ("policy" :> One("policy")) @@ ("security" :> One("security"))
                        @@ ("data" :> Mapping) @@ ResourceFields,
   identifier |-> Values({"type", "value"}),
   container |-> Values({"id", "uri", "type"}),
   outcome |-> ("status" :> Enum({"success", "failure"}))
                 @@ Values({"code", "provider_code", "message"}),
   sensitivity |-> Values({"label_id"}),
   policy |-> ("decision" :> Enum({"allow", "deny"})) @@ Values({"id", "name"}),
   security |-> Values({"xpia_detected"}),
   pagination |-> Values({"has_more", "next_cursor", "total_count"})]

validateOptionalEnum(value, texts) == IF value \in texts THEN <<Leaf(value)>> ELSE Thrown

\* The declared fields that are there, and the extension data under the name of `metadata`.
Declared(schema, o) ==
  {f \in (DOMAIN Schemas[schema] \cup {"extension_data"}) \cap DOMAIN Fields(o) : Fields(o)[f] \notin Nullish}
NamedInJson(f) == IF f = "extension_data" THEN "metadata" ELSE f
KindOf(schema, f) == IF f = "extension_data" THEN Mapping ELSE Schemas[schema][f]

withMetadata[schema \in DOMAIN Schemas, o \in DOMAIN Objects, active \in Actives] ==
  LET within == active \cup {o}
      serializeSchemaObject(of, value, around) ==
        IF ~isPlainRecord(value) \/ value \in around THEN Thrown ELSE withMetadata[of, value, around]
      serializeOptionalSchemaArray(of, value) ==
        IF ~IsObject(value) THEN Thrown
        ELSE IF Objects[value].type # "array" \/ value \in within THEN Thrown
        ELSE AllOf([i \in DOMAIN Fields(value) |->
                      serializeSchemaObject(of, Fields(value)[i], within \cup {value})])
      serializeField(kind, value) ==
        CASE kind.is = "value" -> toJsonValue[value, within]
          [] kind.is = "mapping" -> toJsonRecord(value, within)
          [] kind.is = "enum" -> validateOptionalEnum(value, kind.of)
          [] kind.is = "one" -> serializeSchemaObject(kind.of, value, within)
          [] kind.is = "many" -> serializeOptionalSchemaArray(kind.of, value)
      names == Declared(schema, o)
      json == [f \in names |-> serializeField(KindOf(schema, f), Fields(o)[f])]
  IN AllOf([n \in {NamedInJson(f) : f \in names} |-> json[CHOOSE f \in names : NamedInJson(f) = n]])

isTypedExecuteToolPayload(value) == Objects[value].type = "typed"

\* A typed payload is an instance of its class.
serializeTypedToolPayload(o) == withMetadata[Objects[o].kind, o, {}]

-----------------------------------------------------------------------------
(* JSON.stringify *)

Omitted == {"undefined", "function"}

Stringify[value \in Serialized, active \in Actives] ==
  IF ~IsObject(value)
  THEN CASE value = "bigint" -> Thrown
         [] value \in Omitted \cup {"NaN", "hole"} -> <<Leaf("null")>>
         [] OTHER -> <<Leaf(value)>>
  ELSE IF value \in active THEN Thrown
  ELSE LET fields == CASE Objects[value].type = "set" -> << >>
                       [] Objects[value].type = "array" -> Fields(value)
                       [] OTHER -> [k \in {f \in DOMAIN Fields(value) : Fields(value)[f] \notin Omitted}
                                      |-> Fields(value)[k]]
       IN AllOf([k \in DOMAIN fields |-> Stringify[fields[k], active \cup {value}]])

Or(result, fallback) == IF result = Thrown THEN fallback ELSE result[1]

-----------------------------------------------------------------------------
(* What is recorded *)

SerializationError == Leaf("serialization_error")

\* Of an object: a text that is JSON already stays, another is wrapped.
safeSerializeToJson(value, key) ==
  IF IsObject(value) THEN Or(Stringify[value, {}], SerializationError)
  ELSE IF value = "json" THEN Leaf("json") ELSE Node(key :> Leaf(value))

serializeToolPayload(value) ==
  IF isTypedExecuteToolPayload(value) THEN Or(serializeTypedToolPayload(value), SerializationError)
  ELSE safeSerializeToJson(value, "payload")

\* Of arguments or a result: the attribute, if there is one.
PayloadAttribute(name, value, key) ==
  IF value \in Nullish THEN << >>
  ELSE name :> IF IsObject(value) THEN serializeToolPayload(value) ELSE safeSerializeToJson(value, key)

\* Messages are [texts], or [wrapped], an array of message objects, or for output [dict], any object.
Part(content) == Node(("type" :> Leaf("text")) @@ ("content" :> Leaf(content)))
toInputMessages(texts) ==
  [i \in DOMAIN texts |-> Node(("role" :> Leaf("user")) @@ ("parts" :> Node(<<Part(texts[i])>>)))]
toOutputMessages(texts) ==
  [i \in DOMAIN texts |-> Node(("role" :> Leaf("assistant")) @@ ("parts" :> Node(<<Part(texts[i])>>))
                                  @@ ("finish_reason" :> Leaf("stop")))]
normalizeInputMessages(messages) ==
  IF "texts" \in DOMAIN messages THEN [converted |-> toInputMessages(messages.texts)] ELSE messages
normalizeOutputMessages(messages) ==
  IF "texts" \in DOMAIN messages THEN [converted |-> toOutputMessages(messages.texts)] ELSE messages
serializeMessages(wrapper) ==
  IF "converted" \in DOMAIN wrapper THEN Node(wrapper.converted)
  ELSE Or(Stringify[wrapper.wrapped, {}], SerializationError)
recordInputMessages(messages) == "input.messages" :> serializeMessages(normalizeInputMessages(messages))
serializeSystemInstructions(parts) == Or(Stringify[parts, {}], SerializationError)
_setOutput(messages) ==
  "output.messages" :> IF "dict" \in DOMAIN messages THEN Or(Stringify[messages.dict, {}], SerializationError)
                       ELSE serializeMessages(normalizeOutputMessages(messages))
=============================================================================
