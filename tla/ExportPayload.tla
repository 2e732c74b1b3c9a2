---------------------------- MODULE ExportPayload ----------------------------
(***************************************************************************)
(* What the Agent365 exporter makes of a batch of spans: groups by         *)
(* identity, spans cut down to the service's limit, chunks by estimated    *)
(* size, and one envelope per chunk.                                       *)
(*                                                                         *)
(* Sizes are byte counts, with the code's limits; the fixed parts of the   *)
(* JSON are rounded.  A text is its length, the width of its code points   *)
(* and the factor by which one JSON.stringify lengthens it (2 for quotes,  *)
(* 1 for plain letters); messages are JSON in JSON, so their texts grow by *)
(* that factor twice.  Identifiers are sequences of characters, since the  *)
(* key of a group joins two of them with a colon.                          *)
(***************************************************************************)
EXTENDS Integers, Sequences, FiniteSets, SequencesExt

MAX_SPAN_SIZE_BYTES          == 250 * 1024
MIN_SHRINKABLE_STRING_BYTES  == 50
TRUNCATED_SUFFIX_BYTES       == 15    \* "… [truncated]"
BLOB_SENTINEL_BYTES          == 16    \* "[blob truncated]"
JSON_SENTINEL_BYTES          == 11    \* "[truncated]"
OVERLIMIT_SENTINEL_BYTES     == 11    \* "[overlimit]"
OVERFLOW_SENTINEL            == [bytes |-> 96, quotes |-> 14]

Total(sizes) == FoldLeft(LAMBDA a, b : a + b, 0, sizes)

Mapped(Op(_), seq) == [i \in DOMAIN seq |-> Op(seq[i])]

\* Op(x), with x evaluated once.
With(x, Op(_)) == CHOOSE y \in {Op(v) : v \in {x}} : TRUE

-----------------------------------------------------------------------------
(* Grouping *)

GEN_AI_OPERATION_NAMES ==
  {"invoke_agent", "execute_tool", "output_messages", "apply_guardrail", "chat",
   "text_completion", "generate_content", "Chat", "TextCompletion", "GenerateContent"}

\* asStr: blank is missing.
Blank(id) == \A i \in DOMAIN id : id[i] = " "

Eligible(span) == /\ span.operation \in GEN_AI_OPERATION_NAMES
                  /\ ~Blank(span.tenant) /\ ~Blank(span.agent)

IdentityKey(span) == span.tenant \o <<":">> \o span.agent

\* The elements of S in ascending order.
InOrder(S) == [n \in 1 .. Cardinality(S) |->
                 CHOOSE i \in S : Cardinality({j \in S : j <= i}) = n]

\* The items at the positions S, in order.
Picked(items, S) == LET at == InOrder(S) IN [n \in DOMAIN at |-> items[at[n]]]

\* The entries of a Map filled in order, keys[i] the key of items[i]: each key, with all
\* the items that have it.
GroupedBy(keys, items) ==
  LET Having(key) == {j \in DOMAIN items : keys[j] = key}
      firsts      == {i \in DOMAIN items : \A j \in 1 .. i - 1 : keys[j] # keys[i]}
  IN  Mapped(LAMBDA key : [key |-> key, items |-> Picked(items, Having(key))],
             Picked(keys, firsts))

partitionByIdentity(spans) ==
  LET eligible == Picked(spans, {i \in DOMAIN spans : Eligible(spans[i])})
  IN  GroupedBy(Mapped(IdentityKey, eligible), eligible)

\* Mutation: the last colon ends the tenant.
ParseAtLastColon(key) ==
  LET colon == CHOOSE i \in DOMAIN key : /\ key[i] = ":"
                                         /\ \A j \in i + 1 .. Len(key) : key[j] # ":"
  IN  [tenantId |-> SubSeq(key, 1, colon - 1), agentId |-> SubSeq(key, colon + 1, Len(key))]

\* The first colon ends the tenant.
parseIdentityKey(key) ==
  LET colon == CHOOSE i \in DOMAIN key : /\ key[i] = ":"
                                         /\ \A j \in 1 .. i - 1 : key[j] # ":"
  IN  [tenantId |-> SubSeq(key, 1, colon - 1), agentId |-> SubSeq(key, colon + 1, Len(key))]

-----------------------------------------------------------------------------
(* Sizes *)

TextBytes(text) == text.bytes + IF text.suffix THEN TRUNCATED_SUFFIX_BYTES ELSE 0

\* A text within `depth` levels of JSON.stringify.
EncodedBytes(text, depth) ==
  text.bytes * text.escape ^ depth + IF text.suffix THEN TRUNCATED_SUFFIX_BYTES ELSE 0

\* {"type":"text","content":"..."}, and {"role":"user","parts":[...]},
PartBytes    == [bytes |-> 32, quotes |-> 8]
MessageBytes == [bytes |-> 27, quotes |-> 6]

\* JSON.stringify(messages), itself stringified again when depth is 2.
StructureBytes(structure, depth) ==
  structure.bytes + IF depth = 2 THEN structure.quotes ELSE 0

\* A tool payload is measured, and stored, as JSON already.
PartContentBytes(part, depth) ==
  EncodedBytes(part.content, IF part.kind = "json" THEN depth - 1 ELSE depth)

MessagesBytes(messages, depth) ==
  2 + Total(Mapped(LAMBDA message :
              StructureBytes(MessageBytes, depth) +
                Total(Mapped(LAMBDA part : StructureBytes(PartBytes, depth) +
                                             PartContentBytes(part, depth),
                             message.parts)),
            messages))

\* The length of an attribute's value: its bytes if it is a string.
ValueBytes(value) ==
  CASE value.type = "string"   -> TextBytes(value.text)
    [] value.type = "messages" -> MessagesBytes(value.messages, 1)
    [] value.type = "overflow" -> OVERFLOW_SENTINEL.bytes
    [] value.type = "strings"  -> Total(value.lengths)
    [] value.type = "values"   -> 6 * value.count
    [] value.type = "scalar"   -> 6

SerializedValueBytes(value) ==
  CASE value.type = "string"   -> 2 + EncodedBytes(value.text, 1)
    [] value.type = "messages" -> 2 + MessagesBytes(value.messages, 2)
    [] value.type = "overflow" -> 2 + OVERFLOW_SENTINEL.bytes + OVERFLOW_SENTINEL.quotes
    [] value.type = "strings"  -> 2 + Total(value.lengths) + 3 * Len(value.lengths)
    [] value.type = "values"   -> 2 + ValueBytes(value) + value.count
    [] value.type = "scalar"   -> ValueBytes(value)

SerializedAttributes(attributes) ==
  Total(Mapped(LAMBDA attribute : attribute.key.bytes + 4
                                    + SerializedValueBytes(attribute.value), attributes))

\* The fixed fields of a span take some 300 bytes, those of an event 60.
getSerializedSize(span) ==
  300 + span.nameBytes + SerializedAttributes(span.attributes)
    + Total(Mapped(LAMBDA event : 60 + event.nameBytes
                                    + SerializedAttributes(event.attributes), span.events))

IsString(value) == value.type \in {"string", "messages", "overflow"}

estimateValueBytes(value) ==
  CASE IsString(value)          -> 40 + ValueBytes(value)
    [] value.type = "strings"   -> 60 + 40 * Len(value.lengths) + Total(value.lengths)
    [] value.type = "values"    -> 60 + 50 * value.count
    [] value.type = "scalar"    -> 40

EstimatedAttributes(attributes) ==
  Total(Mapped(LAMBDA attribute : 80 + attribute.key.bytes
                                    + estimateValueBytes(attribute.value), attributes))

estimateSpanBytes(span) ==
  2000 + span.nameBytes + EstimatedAttributes(span.attributes)
    + Total(Mapped(LAMBDA event : 200 + event.nameBytes
                                    + EstimatedAttributes(event.attributes), span.events))

-----------------------------------------------------------------------------
(* Truncation *)

PlainText(bytes) == [bytes |-> bytes, width |-> 1, escape |-> 1, suffix |-> FALSE]

\* Mutation: no room is left for the suffix.
TrimToTarget(text, bytesToShed) ==
  LET target == TextBytes(text) - bytesToShed
      kept   == IF target <= 0 THEN 0 ELSE (target \div text.width) * text.width
  IN  [text EXCEPT !.bytes = kept, !.suffix = TRUE]

\* Whole code points of the text, and the suffix.
trimString(text, bytesToShed) ==
  LET shed   == IF bytesToShed > 1 THEN bytesToShed ELSE 1
      target == TextBytes(text) - shed - TRUNCATED_SUFFIX_BYTES
      kept   == IF target <= 0 THEN 0 ELSE (target \div text.width) * text.width
  IN  [text EXCEPT !.bytes = kept, !.suffix = TRUE]

\* A place is <<attribute>> for a string, <<attribute, message, part>> for a part.
At(span, place) ==
  LET value == span.attributes[place[1]].value
  IN  IF Len(place) = 1 THEN [kind |-> "text", content |-> value.text]
                        ELSE value.messages[place[2]].parts[place[3]]

WithPart(span, place, part) ==
  IF Len(place) = 1
  THEN [span EXCEPT !.attributes[place[1]].value.text = part.content]
  ELSE [span EXCEPT !.attributes[place[1]].value.messages[place[2]].parts[place[3]] = part]

\* Blobs, tool payloads and longer texts shrink, but no sentinel does.
Shrinkable(part) ==
  CASE part.kind = "blob" -> TextBytes(part.content) > 0
    [] part.kind = "json" -> TRUE
    [] part.kind = "text" -> TextBytes(part.content) > MIN_SHRINKABLE_STRING_BYTES
    [] OTHER              -> FALSE

\* The places of an attribute, in order.  A string has one; messages as many as parts.
PlacesIn(span, a) ==
  LET value == span.attributes[a].value
  IN  CASE value.type = "string"   -> << <<a>> >>
        [] value.type = "messages" ->
             FlattenSeq([m \in DOMAIN value.messages |->
                           [p \in DOMAIN value.messages[m].parts |-> <<a, m, p>>]])
        [] OTHER                   -> << >>

collectShrinkActions(span) ==
  SelectSeq(FlattenSeq([a \in DOMAIN span.attributes |-> PlacesIn(span, a)]),
            LAMBDA place : Shrinkable(At(span, place)))

Sentinel(bytes) == [kind |-> "sentinel", content |-> PlainText(bytes)]

Apply(part, bytesToShed) ==
  CASE part.kind = "blob" -> Sentinel(BLOB_SENTINEL_BYTES)
    [] part.kind = "json" -> Sentinel(JSON_SENTINEL_BYTES)
    [] part.kind = "text" -> [part EXCEPT !.content = trimString(@, bytesToShed)]

OverLimit(span) == getSerializedSize(span) > MAX_SPAN_SIZE_BYTES

\* One round of the loop: the largest action, the first of them, which stays only while
\* it makes progress and more than 50 bytes of it are left.
ShrinkRound(state) ==
  LET span     == state.span
      Bytes(i) == TextBytes(At(span, state.actions[i]).content)
      largest  == CHOOSE i \in DOMAIN state.actions :
                    /\ \A j \in DOMAIN state.actions : Bytes(j) <= Bytes(i)
                    /\ \A j \in 1 .. i - 1 : Bytes(j) < Bytes(i)
      place    == state.actions[largest]
      size     == getSerializedSize(span)
      part     == Apply(At(span, place), size - MAX_SPAN_SIZE_BYTES)
      next     == WithPart(span, place, part)
      stays    == /\ getSerializedSize(next) < size
                  /\ part.kind = "text"
                  /\ TextBytes(part.content) > MIN_SHRINKABLE_STRING_BYTES
  IN  [span    |-> next,
       actions |-> IF stays THEN state.actions ELSE RemoveAt(state.actions, largest)]

\* A trim sheds the whole excess or leaves the suffix alone: a round an action is enough.
runShrinkPhase(span) ==
  LET actions == collectShrinkActions(span)
      Round(state, i) == IF state.actions # << >> /\ OverLimit(state.span)
                         THEN ShrinkRound(state) ELSE state
  IN  FoldLeft(Round, [span |-> span, actions |-> actions], [i \in DOMAIN actions |-> i]).span

IsOverlimitSentinel(value) ==
  value.type = "string" /\ value.text = PlainText(OVERLIMIT_SENTINEL_BYTES)

\* Phase 2: the string attributes, the longest first, until the span fits.
ReplaceRound(span, a) ==
  IF ~OverLimit(span) THEN span
  ELSE [span EXCEPT !.attributes[a].value =
          IF span.attributes[a].key.message
          THEN [type |-> "overflow"]
          ELSE [type |-> "string", text |-> PlainText(OVERLIMIT_SENTINEL_BYTES)]]

replaceStrings(span) ==
  LET strings == SelectSeq([a \in DOMAIN span.attributes |-> a],
                           LAMBDA a : /\ IsString(span.attributes[a].value)
                                      /\ ~IsOverlimitSentinel(span.attributes[a].value))
      Longer(a, b) == LET x == ValueBytes(span.attributes[a].value)
                          y == ValueBytes(span.attributes[b].value)
                      IN  x > y \/ (x = y /\ a < b)
  IN  FoldLeft(ReplaceRound, span, SetToSortSeq(ToSet(strings), Longer))

\* An element of the messages that is not an object makes the truncation throw.
Throws(span) ==
  \E a \in DOMAIN span.attributes :
     /\ span.attributes[a].value.type = "messages"
     /\ \E m \in DOMAIN span.attributes[a].value.messages :
          span.attributes[a].value.messages[m].null

\* The span with other attributes, if it is too long.  What throws is caught, and the span
\* goes as it is.
truncateSpan(span) ==
  IF ~OverLimit(span) \/ Throws(span) THEN span
  ELSE LET Fallback(shrunk) == IF OverLimit(shrunk) THEN replaceStrings(shrunk) ELSE shrunk
       IN  [span EXCEPT !.attributes = With(runShrinkPhase(span), Fallback).attributes]

-----------------------------------------------------------------------------
(* Envelopes *)

\* The fields of the span that the payload properties speak of; status, links, kind and
\* times are copied one by one.
mapSpan(span) ==
  [id |-> span.id, parent |-> span.parent, nameBytes |-> span.nameBytes,
   attributes |-> span.attributes, events |-> span.events]

mapAndTruncateSpans(spans) ==
  Mapped(LAMBDA span : [span     |-> With(mapSpan(span), truncateSpan),
                        scopeKey |-> span.scope.name \o <<":">> \o span.scope.version,
                        scope    |-> span.scope], spans)

\* Mutation: a chunk is closed once it is over the limit.
ChunkUntilOver(items, size, maxChunkBytes) ==
  LET Push(state, item) ==
        IF state.current # << >> /\ state.bytes > maxChunkBytes
        THEN [chunks |-> Append(state.chunks, state.current), current |-> <<item>>,
              bytes |-> size[item]]
        ELSE [state EXCEPT !.current = Append(@, item), !.bytes = @ + size[item]]
      end == FoldLeft(Push, [chunks |-> << >>, current |-> << >>, bytes |-> 0], items)
  IN  IF end.current = << >> THEN end.chunks ELSE Append(end.chunks, end.current)

chunkBySize(items, size, maxChunkBytes) ==
  LET Push(state, item) ==
        IF state.current # << >> /\ state.bytes + size[item] > maxChunkBytes
        THEN [chunks |-> Append(state.chunks, state.current), current |-> <<item>>,
              bytes |-> size[item]]
        ELSE [state EXCEPT !.current = Append(@, item), !.bytes = @ + size[item]]
      end == FoldLeft(Push, [chunks |-> << >>, current |-> << >>, bytes |-> 0], items)
  IN  IF end.current = << >> THEN end.chunks ELSE Append(end.chunks, end.current)

\* One entry per scope key, with the scope of the first span that has it.
buildEnvelope(mapped, resource) ==
  [resource   |-> resource,
   scopeSpans |-> Mapped(LAMBDA entry : [scope |-> entry.items[1].scope,
                                         spans |-> Mapped(LAMBDA m : m.span, entry.items)],
                         GroupedBy(Mapped(LAMBDA m : m.scopeKey, mapped), mapped))]

getResourceAttributes(spans) == spans[1].resource

getAgenticUserId(spans) == spans[1].user

\* exportGroup: the requests of one group, each with the identity of its address, its
\* headers and its token.
exportGroup(key, spans, maxPayloadBytes) ==
  LET RequestOf(chunk) == [identity |-> parseIdentityKey(key),
                          user     |-> getAgenticUserId(spans),
                          chunk    |-> chunk,
                          body     |-> buildEnvelope(chunk, getResourceAttributes(spans))]
      ChunksOf(mapped) == chunkBySize(mapped, [m \in ToSet(mapped) |-> estimateSpanBytes(m.span)],
                                     maxPayloadBytes)
      RequestsOf(chunks) == [c \in DOMAIN chunks |-> With(chunks[c], RequestOf)]
  IN  With(With(mapAndTruncateSpans(spans), ChunksOf), RequestsOf)
=============================================================================
