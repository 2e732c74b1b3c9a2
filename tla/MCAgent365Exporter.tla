-------------------------- MODULE MCAgent365Exporter --------------------------
(***************************************************************************)
(* Model checking of the exporter: a batch of two identities, of which one *)
(* agent has a colon in its name, a batch of one, and one of spans that    *)
(* are not exported at all.  The spans of the first identity need two      *)
(* chunks and every way of cutting down; two scopes share a payload.       *)
(***************************************************************************)
EXTENDS Agent365Export

KiB == 1024

Text(bytes, width, escape) ==
  [bytes |-> bytes, width |-> width, escape |-> escape, suffix |-> FALSE]

Str(key, text) == [key |-> [bytes |-> key, message |-> FALSE],
                   value |-> [type |-> "string", text |-> text]]

Part(kind, text) == [kind |-> kind, content |-> text]

Messages(messages) == [key |-> [bytes |-> 21, message |-> TRUE],
                       value |-> [type |-> "messages", messages |-> messages]]

Message(parts) == [null |-> FALSE, parts |-> parts]

Scopes == [a |-> [name |-> <<"a">>, version |-> <<"1">>],
           b |-> [name |-> <<"b">>, version |-> << >>]]

\* A span of identity T:A, one of T:A:1 and one that is not exported.
SpanA(id, scope, attributes) ==
  [id |-> id, parent |-> 0, operation |-> "chat", tenant |-> <<"T">>, agent |-> <<"A">>,
   user |-> <<"u">>, scope |-> Scopes[scope], resource |-> "r", nameBytes |-> 20,
   attributes |-> attributes, events |-> << >>]

SpanB(id, attributes) ==
  [SpanA(id, "b", attributes) EXCEPT !.agent = <<"A", ":", "1">>]

Other(id) == [SpanA(id, "a", << >>) EXCEPT !.operation = "http"]

\* Two long texts, a blob and a tool payload: a blob goes first, then the texts, of
\* wide letters or of quotes, are trimmed.
Conversation ==
  << Messages(<< Message(<<Part("text", Text(90 * KiB, 3, 1)), Part("blob", Text(80 * KiB, 1, 1))>>),
                 Message(<<Part("json", Text(5, 1, 2)), Part("text", Text(60 * KiB, 1, 2))>>) >>),
     Str(30, Text(100 * KiB, 1, 1)) >>

\* What cannot be shortened fills the span: its strings are overwritten, to no avail.
Unshrinkable ==
  << Str(30, Text(40, 1, 1)),
     [key |-> [bytes |-> 10, message |-> FALSE], value |-> [type |-> "values", count |-> 40 * KiB]],
     Messages(<<Message(<<Part("text", Text(30, 1, 1))>>)>>) >>

\* An array of strings leaves room for some: the second phase ends when the span fits.
Crowded ==
  << Str(30, Text(48, 1, 2)), Str(20, Text(49, 1, 2)),
     [key |-> [bytes |-> 10, message |-> FALSE],
      value |-> [type |-> "strings", lengths |-> <<100 * KiB, 150 * KiB - 528>>]] >>

\* JSON that is not an array of objects: the truncation throws.
Malformed ==
  << Messages(<<[null |-> TRUE, parts |-> << >>]>>), Str(30, Text(260 * KiB, 1, 1)) >>

Plain == << Str(8, Text(260 * KiB, 1, 1)) >>

Event == [nameBytes |-> 10, attributes |-> <<Str(5, Text(100, 1, 1))>>]

Batches ==
  [e \in Exports |->
     CASE e = 1 -> << SpanA("s1", "a", Conversation), Other("s2"),
                      SpanB("s3", Unshrinkable), SpanA("s4", "b", Plain),
                      SpanA("s5", "a", Malformed), SpanA("s10", "b", << >>) >>
       [] e = 2 -> << SpanB("s6", Crowded), [SpanB("s7", << >>) EXCEPT !.events = <<Event>>] >>
       [] e = 3 -> << Other("s8"), [SpanA("s9", "a", << >>) EXCEPT !.tenant = <<" ">>] >>]

BatchGroups == [e \in Exports |-> CASE e = 1 -> {<<1, 1>>, <<1, 2>>}
                                    [] e = 2 -> {<<2, 1>>}
                                    [] e = 3 -> {}]

ChunkCounts == [g \in {<<1, 1>>, <<1, 2>>, <<2, 1>>} |-> IF g = <<1, 1>> THEN 2 ELSE 1]
=============================================================================
