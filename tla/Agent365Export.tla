---------------------------- MODULE Agent365Export ----------------------------
(***************************************************************************)
(* The exporter with real batches: Agent365Exporter says when each chunk   *)
(* of a group is handed over, ExportPayload what the chunk is.             *)
(***************************************************************************)
EXTENDS Agent365Exporter, ExportPayload

CONSTANTS Batch,            \* Batch[e]: the spans of an export
          MaxPayloadBytes   \* options.maxPayloadBytes

\* Tenants have no colon in them: a tenant identifier is a GUID.
ASSUME TenantAssumption ==
  \A e \in Exports : \A i \in DOMAIN Batch[e] :
     \A j \in DOMAIN Batch[e][i].tenant : Batch[e][i].tenant[j] # ":"

\* A text of characters.
IsText(text) == text \in Seq(ToSet(text))

\* What the SDK's spans are: their identifiers are distinct, since a span ends, and is
\* exported, once; a scope is a name and a version, which has no colon; and a size is a
\* number.
ASSUME SpansAssumption ==
  /\ MaxPayloadBytes \in Nat
  /\ \A e \in Exports :
       /\ Batch[e] \in Seq(ToSet(Batch[e]))
       /\ \A i, j \in DOMAIN Batch[e] : Batch[e][i].id = Batch[e][j].id => i = j
       /\ \A span \in ToSet(Batch[e]) :
            /\ IsText(span.tenant) /\ IsText(span.agent)
            /\ IsText(span.scope.name) /\ IsText(span.scope.version)
            /\ span.scope = [name |-> span.scope.name, version |-> span.scope.version]
            /\ \A j \in DOMAIN span.scope.version : span.scope.version[j] # ":"
            /\ estimateSpanBytes(truncateSpan(mapSpan(span))) \in Nat

\* The entries of the partition of each batch, and the requests each one becomes.
Entries == [e \in Exports |-> partitionByIdentity(Batch[e])]

Requests ==
  [g \in Groups |-> exportGroup(Entries[g[1]][g[2]].key, Entries[g[1]][g[2]].items,
                                MaxPayloadBytes)]

\* The groups of a batch are named by the export and their place in its partition.
ASSUME BatchAssumption ==
  /\ GroupsOf = [e \in Exports |-> {e} \X DOMAIN Entries[e]]
  /\ Chunks = [g \in Groups |-> Len(Requests[g])]

-----------------------------------------------------------------------------
(* Properties *)

\* How many requests of a group the service, or the durable store, has taken.
HandedOver(g) == IF group[g].pc = "exported" THEN group[g].chunk ELSE group[g].chunk - 1

\* The spans of each envelope, with what its address and its scope say of them.
SpansIn(request) ==
  UNION {{[id |-> span.id, scope |-> entry.scope, identity |-> request.identity] :
            span \in ToSet(entry.spans)} :
         entry \in ToSet(request.body.scopeSpans)}

Contents ==
  With(Requests, LAMBDA all : [g \in Groups |-> [c \in DOMAIN all[g] |-> SpansIn(all[g][c])]])

\* Where a span went.
SentAs(e, span) ==
  LET Sent(g, c) == {<<g, c, sent>> : sent \in {x \in Contents[g][c] : x.id = span.id}}
  IN  UNION {UNION {Sent(g, c) : c \in 1 .. HandedOver(g)} : g \in GroupsOf[e]}

\* SUCCESS is never reported for a batch of which a group failed, was refused or was not
\* handed over completely: every span of a known operation that has an identity was sent
\* once, under its own tenant and agent and in its own scope, unless its group was
\* skipped for want of a token.
SuccessIsComplete ==
  \A e \in Exports : result[e] = "SUCCESS" =>
    \A i \in DOMAIN Batch[e] :
      \E sent \in {SentAs(e, Batch[e][i])} :
      LET span == Batch[e][i]
          skipped == \E g \in GroupsOf[e] : /\ group[g].pc = "skipped"
                                            /\ Entries[g[1]][g[2]].key = IdentityKey(span)
      IN  IF ~Eligible(span) \/ skipped THEN sent = {}
          ELSE /\ Cardinality(sent) = 1
               /\ \A x \in sent :
                    x[3] = [id |-> span.id, scope |-> span.scope,
                            identity |-> [tenantId |-> span.tenant, agentId |-> span.agent]]

\* What a span was, given what was sent of it.
SpanOf(g, sent) ==
  mapSpan(CHOOSE span \in ToSet(Batch[g[1]]) : span.id = sent.id)

\* The span with everything that shrinks at its shortest: texts are suffixes, blobs and
\* tool payloads sentinels.
Shortest(span) ==
  LET Shorten(s, place) ==
        WithPart(s, place, Apply(At(s, place), TextBytes(At(s, place).content)))
  IN  FoldLeft(Shorten, span, collectShrinkActions(span))

Overwritten(value) == value.type = "overflow" \/ IsOverlimitSentinel(value)

\* A span within the limit is sent as it is.  A longer one is cut down to the limit, or
\* to where nothing is left to cut; an attribute is overwritten as a whole only if the
\* span would not fit with every text at its shortest; and what is no string, and the
\* events, stay.
CutOnlyAsNeeded(was, sent) ==
  IF ~OverLimit(was) \/ Throws(was) THEN sent = was
  ELSE /\ OverLimit(sent) => \A a \in DOMAIN sent.attributes :
            IsString(sent.attributes[a].value) => Overwritten(sent.attributes[a].value)
       /\ (\E a \in DOMAIN sent.attributes : Overwritten(sent.attributes[a].value)) =>
            OverLimit(Shortest(was))
       /\ \A a \in DOMAIN was.attributes :
            ~IsString(was.attributes[a].value) => sent.attributes[a] = was.attributes[a]
       /\ sent.events = was.events

\* Are the spans of a request cut down so?
SpansCutAsNeeded ==
  With(Requests, LAMBDA all : [g \in Groups |-> [c \in DOMAIN all[g] |->
    \A i \in DOMAIN all[g][c].chunk :
      \E sent \in {all[g][c].chunk[i].span} :
        \A was \in {SpanOf(g, sent)} : CutOnlyAsNeeded(was, sent)]])

\* No span is cut down further than the limit of a span demands, nor, where there is something
\* left to cut, less.
SpansAreCutAsNeeded ==
  \A g \in Groups : \A c \in 1 .. HandedOver(g) : SpansCutAsNeeded[g][c]

EstimatedBytes(chunk) == Total(Mapped(LAMBDA m : estimateSpanBytes(m.span), chunk))

\* The spans of a group's first n requests, as their chunks have them, in order.
SpansOfFirst ==
  With(Requests, LAMBDA all : [g \in Groups |-> [n \in 0 .. Len(all[g]) |->
    FlattenSeq([c \in 1 .. n |-> Mapped(LAMBDA m : m.span.id, all[g][c].chunk)])]])

\* Is a request, alone, not empty and, as estimated, within the limit unless it is a single span?
RequestFits ==
  With(Requests, LAMBDA all : [g \in Groups |-> [c \in DOMAIN all[g] |->
    \E chunk \in {all[g][c].chunk} :
      Len(chunk) = 1 \/ (chunk # << >> /\ EstimatedBytes(chunk) <= MaxPayloadBytes)]])

\* The payloads of a group: none is empty, none is larger (as estimated) than the limit
\* unless it is a single span, and what has been handed over at any time is a first part of
\* the group's spans, in the order of the batch, without a gap.
PayloadsFit ==
  \A g \in Groups :
    /\ \A c \in 1 .. HandedOver(g) : RequestFits[g][c]
    /\ IsPrefix(SpansOfFirst[g][HandedOver(g)],
                Mapped(LAMBDA span : span.id, Entries[g[1]][g[2]].items))
=============================================================================
