----------------------------- MODULE GenAI_proof -----------------------------
(***************************************************************************)
(* For any runs, spans of the OpenAI SDK, turns, scopes and sends, and any *)
(* limits: the maps of the tracer and of the processor are kept, and a     *)
(* span that stays open can be found to be ended, or its end threw on a    *)
(* null block, or a shutdown of the processor forgot it.                   *)
(*                                                                         *)
(* Every step starts or changes the span of one run, SDK's span, scope or  *)
(* send (Only), which leaves what the others know of theirs as it was      *)
(* (the lemmas ...Stays).                                                  *)
(***************************************************************************)
EXTENDS GenAI, FiniteSetTheorems, WellFoundedInduction, TLAPS

IsSpan(x) == x = [parent |-> x.parent, attributes |-> x.attributes, ended |-> x.ended]

Identifiers == DOMAIN Runs \cup DOMAIN AgentsSpans \cup DOMAIN Scopes \cup DOMAIN Sends

\* A span's parent has been started, or it has none.
SpanIn(x, names) == IsSpan(x) /\ x.parent \in names \cup {None} /\ x.ended \in BOOLEAN
SpansOK ==
  /\ DOMAIN spans \subseteq Identifiers
  /\ \A s \in DOMAIN spans : SpanIn(spans[s], DOMAIN spans)

\* The tracer: the runs with an entry are those whose spans are open.
TracerOK ==
  /\ runs \subseteq DOMAIN Runs /\ DOMAIN parentByRunId \subseteq DOMAIN Runs
  /\ enableSensitiveData \in BOOLEAN
  /\ callbacks \in [DOMAIN Runs -> {"none", "started", "ended"}]
  /\ IsFiniteSet(runs) /\ Cardinality(runs) <= MaxRuns
  /\ \A r \in runs : IsOpen(r) /\ callbacks[r] = "started" /\ ~Skipped(r)
  /\ \A r \in DOMAIN Runs : IsOpen(r) => r \in runs

\* What reverseHandoffsDict maps, and that it has a key once.
Entry == [key : {Key(Data(s).to, s) : s \in DOMAIN AgentsSpans}, from : {Data(s).from : s \in DOMAIN AgentsSpans}]
KeysOnce(dict) == \A i, j \in DOMAIN dict : dict[i].key = dict[j].key => i = j
HandoffsOK(dict) == dict \in Seq(Entry) /\ Len(dict) <= MaxHandoffs /\ KeysOnce(dict)

\* The processor: it looks up spans in progress only, and an open span that it does not is one that
\* a shutdown forgot or whose end threw.
ProcessorOK ==
  /\ otelSpans \subseteq DOMAIN AgentsSpans
  /\ rootSpans \in [Traces -> DOMAIN AgentsSpans \cup {None}]
  /\ progress \in [DOMAIN AgentsSpans -> {"none", "started", "ended"}]
  /\ traceEnds \subseteq Traces /\ processorShutdown \subseteq DOMAIN AgentsSpans
  /\ HandoffsOK(reverseHandoffsDict)
  /\ IsFiniteSet(otelSpans) /\ Cardinality(otelSpans) <= MaxSpans
  /\ \A t \in Traces : rootSpans[t] # None => IsOpen(rootSpans[t]) /\ AgentsSpans[rootSpans[t]].trace = t
  /\ \A s \in otelSpans : s \in DOMAIN spans /\ progress[s] = "started"
  /\ \A s \in DOMAIN AgentsSpans : IsOpen(s) => IsLost(s) \/ s \in otelSpans

\* Turns, scopes and sends: the spans that they refer to have been started.
TurnsOK ==
  /\ DOMAIN turns \subseteq DOMAIN Turns /\ DOMAIN scopeCalls = DOMAIN errorTypes
  /\ sends \in [DOMAIN Sends -> {"none", "sending"} \cup SendOutcomes]
  /\ \A t \in DOMAIN turns : Turns[t].within \in DOMAIN spans \cup {None}
  /\ parentRefs \in [DOMAIN Turns -> DOMAIN spans \cup {None, InvalidRef}]
  /\ \A s \in DOMAIN Scopes \cap DOMAIN spans : s \in DOMAIN scopeCalls
  /\ \A m \in DOMAIN Sends : IsOpen(m) => sends[m] = "sending"

IInv == SpansOK /\ TracerOK /\ ProcessorOK /\ TurnsOK

-----------------------------------------------------------------------------
(* Spans *)

\* A step that adds or changes the span of s and no other.
Only(s) ==
  /\ SpansOK'
  /\ DOMAIN spans \subseteq DOMAIN spans' /\ DOMAIN spans' \subseteq DOMAIN spans \cup {s}
  /\ \A t \in DOMAIN spans : t # s => spans'[t] = spans[t]

LEMMA PutFacts ==
  ASSUME NEW f, NEW x, NEW v
  PROVE  /\ DOMAIN Put(f, x, v) = DOMAIN f \cup {x}
         /\ Put(f, x, v)[x] = v
         /\ \A y \in DOMAIN f : y # x => Put(f, x, v)[y] = f[y]
BY DEF Put

LEMMA StartedSpan ==
  ASSUME NEW p, NEW a, NEW b
  PROVE  /\ IsSpan(Started(p, a, b)) /\ Started(p, a, b).parent = p
         /\ Started(p, a, b).ended = FALSE
BY DEF Started, IsSpan

LEMMA EndedSpan ==
  ASSUME NEW x, NEW a, IsSpan(x), x.ended \in BOOLEAN
  PROVE  /\ IsSpan(Ended(x, a)) /\ Ended(x, a).parent = x.parent
         /\ Ended(x, a).ended = TRUE
<1>1. CASE x.ended
  BY <1>1 DEF Ended
<1>2. CASE ~x.ended
  <2> DEFINE e == onEnd(a @@ x.attributes)
  <2>1. Ended(x, a) = [x EXCEPT !.attributes = e, !.ended = TRUE]
    BY <1>2 DEF Ended
  <2> HIDE DEF e
  <2>2. Ended(x, a) = [parent |-> x.parent, attributes |-> e, ended |-> TRUE]
    BY <2>1 DEF IsSpan
  <2> QED
    BY <2>2 DEF IsSpan
<1> QED
  BY <1>1, <1>2

\* Starting a span below one that has been, or below none.
LEMMA SpanStarts ==
  ASSUME SpansOK, NEW s \in Identifiers, NEW x, IsSpan(x), x.ended = FALSE,
         x.parent \in DOMAIN spans \cup {None}, spans' = Put(spans, s, x)
  PROVE  Only(s) /\ IsOpen(s)' /\ DOMAIN spans' = DOMAIN spans \cup {s}
<1>1. /\ DOMAIN spans' = DOMAIN spans \cup {s} /\ spans'[s] = x
      /\ \A y \in DOMAIN spans : y # s => spans'[y] = spans[y]
  BY DEF Put
<1>2. ASSUME NEW y \in DOMAIN spans'
      PROVE  SpanIn(spans'[y], DOMAIN spans')
  <2>1. CASE y = s
    BY <1>1, <2>1 DEF SpanIn
  <2>2. CASE y # s
    BY <1>1, <2>2 DEF SpansOK, SpanIn
  <2> QED
    BY <2>1, <2>2
<1>3. SpansOK'
  BY <1>1, <1>2 DEF SpansOK
<1> QED
  BY <1>1, <1>3 DEF Only, IsOpen

\* Changing a span, that keeps its parent.
LEMMA SpanChanges ==
  ASSUME SpansOK, NEW s \in DOMAIN spans, NEW x, IsSpan(x), x.parent = spans[s].parent,
         x.ended \in BOOLEAN, spans' = [spans EXCEPT ![s] = x]
  PROVE  Only(s) /\ DOMAIN spans' = DOMAIN spans /\ spans'[s] = x
<1>1. /\ DOMAIN spans' = DOMAIN spans /\ spans'[s] = x
      /\ \A y \in DOMAIN spans : y # s => spans'[y] = spans[y]
  OBVIOUS
<1>2. \A y \in DOMAIN spans' : SpanIn(spans'[y], DOMAIN spans')
  BY <1>1 DEF SpansOK, SpanIn
<1> QED
  BY <1>1, <1>2 DEF SpansOK, Only

\* Ending one.
LEMMA SpanEnds ==
  ASSUME SpansOK, NEW s \in DOMAIN spans, NEW a, spans' = [spans EXCEPT ![s] = Ended(@, a)]
  PROVE  Only(s) /\ DOMAIN spans' = DOMAIN spans /\ ~IsOpen(s)'
<1>1. IsSpan(spans[s]) /\ spans[s].ended \in BOOLEAN
  BY DEF SpansOK, SpanIn
<1> DEFINE x == Ended(spans[s], a)
<1>2. IsSpan(x) /\ x.parent = spans[s].parent /\ x.ended = TRUE
  BY <1>1, EndedSpan
<1>3. spans' = [spans EXCEPT ![s] = x]
  OBVIOUS
<1> HIDE DEF x
<1>4. Only(s) /\ DOMAIN spans' = DOMAIN spans /\ spans'[s] = x
  BY <1>2, <1>3, SpanChanges
<1> QED
  BY <1>2, <1>4 DEF IsOpen

\* Setting attributes on one.
LEMMA SpanIsMarked ==
  ASSUME SpansOK, NEW s \in DOMAIN spans, NEW a, spans' = [spans EXCEPT ![s] = WithAttributes(@, a)]
  PROVE  Only(s) /\ DOMAIN spans' = DOMAIN spans
<1>1. IsSpan(spans[s]) /\ spans[s].ended \in BOOLEAN
  BY DEF SpansOK, SpanIn
<1> DEFINE x == WithAttributes(spans[s], a)
           all == a @@ spans[s].attributes
<1>2. x = spans[s] \/ x = [spans[s] EXCEPT !.attributes = all]
  BY DEF WithAttributes
<1> HIDE DEF all
<1>3. IsSpan(x) /\ x.parent = spans[s].parent /\ x.ended \in BOOLEAN
  <2>1. CASE x = spans[s]
    BY <1>1, <2>1
  <2>2. CASE x = [spans[s] EXCEPT !.attributes = all]
    <3>1. x = [parent |-> spans[s].parent, attributes |-> all, ended |-> spans[s].ended]
      BY <1>1, <2>2 DEF IsSpan
    <3> QED
      BY <1>1, <3>1 DEF IsSpan
  <2> QED
    BY <1>2, <2>1, <2>2
<1>4. spans' = [spans EXCEPT ![s] = x]
  OBVIOUS
<1> HIDE DEF x
<1> QED
  BY <1>3, <1>4, SpanChanges

LEMMA SameSpans ==
  ASSUME SpansOK, UNCHANGED spans, NEW s
  PROVE  Only(s)
BY DEF SpansOK, Only

LEMMA TracerStays ==
  ASSUME TracerOK, NEW s, s \notin DOMAIN Runs, Only(s), UNCHANGED tracerVars
  PROVE  TracerOK'
<1>1. \A r \in DOMAIN Runs : IsOpen(r)' <=> IsOpen(r)
  BY DEF Only, IsOpen
<1>2. runs' = runs /\ parentByRunId' = parentByRunId /\ callbacks' = callbacks
      /\ enableSensitiveData' = enableSensitiveData
  BY DEF tracerVars
<1> QED
  BY <1>1, <1>2 DEF TracerOK, Skipped

LEMMA ProcessorStays ==
  ASSUME ProcessorOK, NEW s, s \notin DOMAIN AgentsSpans, Only(s), UNCHANGED processorVars
  PROVE  ProcessorOK'
<1>1. \A a \in DOMAIN AgentsSpans : IsOpen(a)' <=> IsOpen(a)
  BY DEF Only, IsOpen
<1>2. /\ otelSpans' = otelSpans /\ rootSpans' = rootSpans /\ progress' = progress
      /\ reverseHandoffsDict' = reverseHandoffsDict /\ traceEnds' = traceEnds
      /\ processorShutdown' = processorShutdown
  BY DEF processorVars
<1>3. \A a \in otelSpans : a \in DOMAIN spans'
  BY DEF ProcessorOK, Only
<1>4. \A t \in Traces : rootSpans[t] # None => rootSpans[t] \in DOMAIN AgentsSpans
  BY DEF ProcessorOK
<1>5. \A a \in DOMAIN AgentsSpans : IsLost(a)' <=> IsLost(a)
  BY <1>2 DEF IsLost
<1> QED
  BY <1>1, <1>2, <1>3, <1>4, <1>5 DEF ProcessorOK

LEMMA TurnsStay ==
  ASSUME TurnsOK, NEW s, s \notin DOMAIN Scopes, s \notin DOMAIN Sends, Only(s), UNCHANGED turnVars
  PROVE  TurnsOK'
<1>1. \A m \in DOMAIN Sends : IsOpen(m)' <=> IsOpen(m)
  BY DEF Only, IsOpen
<1>2. /\ turns' = turns /\ parentRefs' = parentRefs /\ scopeCalls' = scopeCalls
      /\ errorTypes' = errorTypes /\ sends' = sends
  BY DEF turnVars
<1>3. DOMAIN spans \subseteq DOMAIN spans' /\ DOMAIN Scopes \cap DOMAIN spans' \subseteq DOMAIN spans
  BY DEF Only
<1>4. parentRefs \in [DOMAIN Turns -> DOMAIN spans' \cup {None, InvalidRef}]
  BY <1>3 DEF TurnsOK
<1> QED
  BY <1>1, <1>2, <1>3, <1>4 DEF TurnsOK

LEMMA NamesDiffer ==
  /\ \A s \in DOMAIN Runs : s \notin DOMAIN AgentsSpans /\ s \notin DOMAIN Scopes /\ s \notin DOMAIN Sends
  /\ \A s \in DOMAIN AgentsSpans : s \notin DOMAIN Runs /\ s \notin DOMAIN Scopes /\ s \notin DOMAIN Sends
  /\ \A s \in DOMAIN Scopes : s \notin DOMAIN Runs /\ s \notin DOMAIN AgentsSpans /\ s \notin DOMAIN Sends
  /\ \A s \in DOMAIN Sends : s \notin DOMAIN Runs /\ s \notin DOMAIN AgentsSpans /\ s \notin DOMAIN Scopes
BY GenAIAssumption
-----------------------------------------------------------------------------
(* The tracer *)

LEMMA MinIsMember ==
  ASSUME NEW S \in SUBSET Nat, S # {}
  PROVE  Min(S) \in S
<1> DEFINE R == OpToRel(<, Nat)
<1>1. IsWellFoundedOn(R, Nat)
  BY NatLessThanWellFounded
<1>2. \A x, y \in Nat : <<y, x>> \in R <=> y < x
  BY DEF OpToRel
<1> HIDE DEF R
<1>3. PICK x \in S : \A y \in S : ~ (<<y, x>> \in R)
  BY <1>1, WFMin
<1>4. \A y \in S : x <= y
  <2>1. TAKE y \in S
  <2>2. ~ (y < x)
    BY <1>2, <1>3
  <2> QED
    BY <2>2
<1> QED
  BY <1>3, <1>4 DEF Min

\* What is found above a run is one of those asked for.
LEMMA NearestIsAmong ==
  ASSUME NEW r, NEW among
  PROVE  Nearest(r, among) \in among \cup {None}
<1> DEFINE K == Cardinality(DOMAIN Runs)
           up[n \in 0 .. K] ==
             IF n = 0 THEN Runs[r].parent
             ELSE IF up[n - 1] \in DOMAIN parentByRunId THEN parentByRunId[up[n - 1]] ELSE None
           found == {n \in 0 .. K : up[n] \in among}
<1>1. Nearest(r, among) = IF found = {} THEN None ELSE up[Min(found)]
  BY DEF Nearest
<1>2. K \in Nat
  BY LangChainTracerAssumption, FS_CardinalityType
<1> HIDE DEF K, up
<1>3. found \in SUBSET Nat
  BY <1>2
<1>4. CASE found # {}
  <2>1. Min(found) \in found
    BY <1>3, <1>4, MinIsMember
  <2> QED
    BY <1>1, <1>4, <2>1
<1> QED
  BY <1>1, <1>4

LEMMA RunStarts ==
  ASSUME IInv, NEW r \in DOMAIN Runs, NEW suppressed, onRunCreate(r, suppressed)
  PROVE  Only(r) /\ TracerOK'
<1>0. SpansOK /\ TracerOK /\ r \in Identifiers
  BY DEF IInv, Identifiers
<1>1. /\ callbacks[r] = "none" /\ callbacks' = [callbacks EXCEPT ![r] = "started"]
      /\ enableSensitiveData' = enableSensitiveData /\ startTracing(r, suppressed)
  BY DEF onRunCreate
<1>2. callbacks' \in [DOMAIN Runs -> {"none", "started", "ended"}] /\ callbacks'[r] = "started"
      /\ \A p \in DOMAIN Runs : p # r => callbacks'[p] = callbacks[p]
  BY <1>0, <1>1 DEF TracerOK
<1>3. r \notin runs /\ ~IsOpen(r)
  BY <1>0, <1>1 DEF TracerOK
<1>4. DOMAIN parentByRunId' \subseteq DOMAIN Runs
  BY <1>0, <1>1 DEF TracerOK, startTracing, Put
<1>5. CASE UNCHANGED <<spans, runs>>
  <2>1. Only(r)
    BY <1>0, <1>5, SameSpans
  <2>2. \A p \in DOMAIN Runs : IsOpen(p)' <=> IsOpen(p)
    BY <1>5 DEF IsOpen
  <2>3. \A p \in runs : p \in DOMAIN Runs /\ p # r
    BY <1>0, <1>3 DEF TracerOK
  <2> QED
    BY <1>0, <1>1, <1>2, <1>4, <1>5, <2>1, <2>2, <2>3 DEF TracerOK, Skipped
<1>6. CASE /\ ~Skipped(r) /\ Cardinality(runs) < MaxRuns
           /\ spans' = Put(spans, r, startSpan(r)) /\ runs' = runs \cup {r}
  <2>1. getNearestParentSpan(r) \in runs \cup {None}
    BY NearestIsAmong DEF getNearestParentSpan
  <2>2. \A p \in runs : p \in DOMAIN spans
    BY <1>0 DEF TracerOK, IsOpen
  <2>3. /\ IsSpan(startSpan(r)) /\ startSpan(r).ended = FALSE
        /\ startSpan(r).parent = getNearestParentSpan(r)
    BY StartedSpan DEF startSpan
  <2>4. Only(r) /\ IsOpen(r)'
    BY <1>0, <1>6, <2>1, <2>2, <2>3, SpanStarts
  <2>5. \A p \in DOMAIN Runs : p # r => (IsOpen(p)' <=> IsOpen(p))
    BY <2>4 DEF Only, IsOpen
  <2>6. IsFiniteSet(runs') /\ Cardinality(runs') = Cardinality(runs) + 1 /\ Cardinality(runs) \in Nat
    BY <1>0, <1>3, <1>6, FS_AddElement, FS_CardinalityType DEF TracerOK
  <2>7. Cardinality(runs') <= MaxRuns
    BY <1>6, <2>6, LangChainTracerAssumption
  <2>8. \A p \in runs' : IsOpen(p)' /\ callbacks'[p] = "started" /\ ~Skipped(p)
    BY <1>0, <1>2, <1>6, <2>4, <2>5 DEF TracerOK
  <2>9. \A p \in DOMAIN Runs : IsOpen(p)' => p \in runs'
    BY <1>0, <1>6, <2>5 DEF TracerOK
  <2>10. runs' \subseteq DOMAIN Runs
    BY <1>0, <1>6 DEF TracerOK
  <2>11. \A p \in runs' : ~Skipped(p)'
    BY <2>8 DEF Skipped
  <2> QED
    BY <1>0, <1>1, <1>2, <1>4, <2>4, <2>6, <2>7, <2>8, <2>9, <2>10, <2>11 DEF TracerOK
<1>7. Cardinality(runs) \in Nat
  BY <1>0, FS_CardinalityType DEF TracerOK
<1> QED
  BY <1>1, <1>5, <1>6, <1>7, LangChainTracerAssumption DEF startTracing

LEMMA RunEnds ==
  ASSUME IInv, NEW r \in DOMAIN Runs, NEW suppressed, _endTrace(r, suppressed)
  PROVE  Only(r) /\ TracerOK'
<1>0. SpansOK /\ TracerOK
  BY DEF IInv
<1>1. /\ callbacks[r] = "started" /\ callbacks' = [callbacks EXCEPT ![r] = "ended"]
      /\ enableSensitiveData' = enableSensitiveData
  BY DEF _endTrace
<1>2. callbacks' \in [DOMAIN Runs -> {"none", "started", "ended"}]
      /\ \A p \in DOMAIN Runs : p # r => callbacks'[p] = callbacks[p]
  BY <1>0, <1>1 DEF TracerOK
<1>3. \/ r \in runs /\ \E a : spans' = [spans EXCEPT ![r] = Ended(@, a)] /\ Forget(r)
      \/ r \notin runs /\ UNCHANGED spans
           /\ (Forget(r) \/ UNCHANGED <<runs, parentByRunId>>)
  <2>1. r \in runs => ~Skipped(r)
    BY <1>0 DEF TracerOK
  <2>2. CASE suppressed
    BY <2>2 DEF _endTrace
  <2>3. CASE ~suppressed
    <3>1. CASE r \in runs
      <4>1. spans' = [spans EXCEPT ![r] = endSpan(r)] /\ Forget(r)
        BY <2>1, <2>3, <3>1 DEF _endTrace
      <4>2. endSpan(r) = Ended(spans[r], ContentAttributes(r) @@ EndAttributes(r))
        BY DEF endSpan
      <4> QED
        BY <3>1, <4>1, <4>2
    <3>2. CASE r \notin runs
      BY <2>3, <3>2 DEF _endTrace
    <3> QED
      BY <3>1, <3>2
  <2> QED
    BY <2>2, <2>3
<1>4. CASE r \in runs /\ \E a : spans' = [spans EXCEPT ![r] = Ended(@, a)] /\ Forget(r)
  <2>1. PICK a : spans' = [spans EXCEPT ![r] = Ended(@, a)] /\ Forget(r)
    BY <1>4
  <2>2. r \in DOMAIN spans
    BY <1>0, <1>4 DEF TracerOK, IsOpen
  <2>3. Only(r) /\ ~IsOpen(r)'
    BY <1>0, <2>1, <2>2, SpanEnds
  <2>4. runs' = runs \ {r} /\ DOMAIN parentByRunId' \subseteq DOMAIN Runs
    BY <1>0, <2>1 DEF Forget, Restrict, TracerOK
  <2>5. \A p \in DOMAIN Runs : p # r => (IsOpen(p)' <=> IsOpen(p))
    BY <2>3 DEF Only, IsOpen
  <2>6. IsFiniteSet(runs') /\ Cardinality(runs') = Cardinality(runs) - 1 /\ Cardinality(runs) \in Nat
    BY <1>0, <1>4, <2>4, FS_RemoveElement, FS_CardinalityType DEF TracerOK
  <2>7. \A p \in runs' : IsOpen(p)' /\ callbacks'[p] = "started" /\ ~Skipped(p)'
    BY <1>0, <1>2, <2>4, <2>5 DEF TracerOK, Skipped
  <2>8. \A p \in DOMAIN Runs : IsOpen(p)' => p \in runs'
    BY <1>0, <2>3, <2>4, <2>5 DEF TracerOK
  <2>9. Cardinality(runs') <= MaxRuns
    BY <1>0, <2>6, LangChainTracerAssumption DEF TracerOK
  <2> QED
    BY <1>0, <1>1, <1>2, <2>3, <2>4, <2>6, <2>7, <2>8, <2>9 DEF TracerOK
<1>5. CASE r \notin runs /\ UNCHANGED spans /\ (Forget(r) \/ UNCHANGED <<runs, parentByRunId>>)
  <2>1. Only(r)
    BY <1>0, <1>5, SameSpans
  <2>2. runs' = runs /\ DOMAIN parentByRunId' \subseteq DOMAIN Runs
    BY <1>0, <1>5 DEF Forget, Restrict, TracerOK
  <2>3. \A p \in DOMAIN Runs : IsOpen(p)' <=> IsOpen(p)
    BY <1>5 DEF IsOpen
  <2>4. \A p \in runs : p \in DOMAIN Runs /\ p # r
    BY <1>0, <1>5 DEF TracerOK
  <2> QED
    BY <1>0, <1>1, <1>2, <2>1, <2>2, <2>3, <2>4 DEF TracerOK, Skipped
<1> QED
  BY <1>3, <1>4, <1>5

LEMMA FlagIsSet ==
  ASSUME IInv, NEW flag \in NewFlags, setEnableSensitiveData(flag)
  PROVE  SpansOK' /\ UNCHANGED spans /\ TracerOK'
<1>1. /\ spans' = spans /\ runs' = runs /\ parentByRunId' = parentByRunId /\ callbacks' = callbacks
      /\ enableSensitiveData' = flag
  BY DEF setEnableSensitiveData
<1>2. flag \in BOOLEAN
  BY LangChainTracerAssumption
<1> QED
  BY <1>1, <1>2 DEF IInv, SpansOK, TracerOK, IsOpen, Skipped
-----------------------------------------------------------------------------
(* The handoffs *)

LEMMA DropFacts ==
  ASSUME NEW S, NEW d \in Seq(S), NEW n \in 1 .. Len(d)
  PROVE  /\ SubSeq(d, n + 1, Len(d)) \in Seq(S) /\ Len(SubSeq(d, n + 1, Len(d))) = Len(d) - n
         /\ \A j \in 1 .. Len(d) - n : SubSeq(d, n + 1, Len(d))[j] = d[n + j]
<1>1. Len(d) \in Nat
  OBVIOUS
<1> QED
  BY <1>1

LEMMA LaterPart ==
  ASSUME NEW S, NEW a \in Seq(S), NEW b \in Seq(S), NEW j \in 1 .. Len(a) + Len(b), j > Len(a)
  PROVE  (a \o b)[j] = b[j - Len(a)]
OBVIOUS

LEMMA RemoveAtFacts ==
  ASSUME NEW S, NEW d \in Seq(S), NEW i \in DOMAIN d
  PROVE  /\ RemoveAt(d, i) \in Seq(S) /\ Len(RemoveAt(d, i)) = Len(d) - 1
         /\ \A j \in 1 .. Len(d) - 1 : RemoveAt(d, i)[j] = IF j < i THEN d[j] ELSE d[j + 1]
<1>1. i \in 1 .. Len(d) /\ Len(d) \in Nat
  OBVIOUS
<1> DEFINE a == SubSeq(d, 1, i - 1)
           b == SubSeq(d, i + 1, Len(d))
<1>2. /\ a \in Seq(S) /\ Len(a) = i - 1
      /\ \A j \in 1 .. i - 1 : a[j] = d[j]
  BY <1>1
<1>3. /\ b \in Seq(S) /\ Len(b) = Len(d) - i
      /\ \A j \in 1 .. Len(d) - i : b[j] = d[i + j]
  BY <1>1
<1>4. RemoveAt(d, i) = a \o b
  BY DEF RemoveAt
<1> HIDE DEF a, b
<1>5. a \o b \in Seq(S) /\ Len(a \o b) = Len(d) - 1
  BY <1>1, <1>2, <1>3
<1>6. ASSUME NEW j \in 1 .. Len(d) - 1
      PROVE  (a \o b)[j] = IF j < i THEN d[j] ELSE d[j + 1]
  <2>1. CASE j < i
    BY <1>1, <1>2, <1>3, <2>1
  <2>2. CASE ~ (j < i)
    <3>0. j \in 1 .. Len(a) + Len(b) /\ j > Len(a)
      BY <1>1, <1>2, <1>3, <2>2
    <3>1. (a \o b)[j] = b[j - (i - 1)]
      <4>1. (a \o b)[j] = b[j - Len(a)]
        BY <1>2, <1>3, <3>0, LaterPart
      <4> QED
        BY <1>2, <4>1
    <3>2. j - (i - 1) \in 1 .. Len(d) - i
      BY <1>1, <2>2
    <3>3. b[j - (i - 1)] = d[i + (j - (i - 1))]
      BY <1>3, <3>2
    <3>4. i + (j - (i - 1)) = j + 1
      BY <1>1
    <3> QED
      BY <2>2, <3>1, <3>3, <3>4
  <2> QED
    BY <2>1, <2>2
<1> QED
  BY <1>4, <1>5, <1>6

LEMMA WithoutKeeps ==
  ASSUME NEW d, HandoffsOK(d), NEW key
  PROVE  HandoffsOK(Without(d, key))
<1>1. CASE ~HasKey(d, key)
  BY <1>1 DEF Without
<1>2. CASE HasKey(d, key)
  <2> DEFINE i == PlaceOf(d, key)
             e == RemoveAt(d, i)
  <2>1. i \in DOMAIN d
    BY <1>2 DEF HasKey, PlaceOf
  <2>2. d \in Seq(Entry) /\ Len(d) \in Nat /\ Len(d) <= MaxHandoffs /\ DOMAIN d = 1 .. Len(d)
    BY DEF HandoffsOK
  <2> HIDE DEF i
  <2>3. /\ e \in Seq(Entry) /\ Len(e) = Len(d) - 1
        /\ \A j \in 1 .. Len(d) - 1 : e[j] = IF j < i THEN d[j] ELSE d[j + 1]
    BY <2>1, <2>2, RemoveAtFacts
  <2>4. Without(d, key) = e
    BY <1>2 DEF Without, i
  <2> HIDE DEF e
  <2>5. DOMAIN e = 1 .. Len(d) - 1
    BY <2>3
  <2>6. ASSUME NEW j \in DOMAIN e, NEW k \in DOMAIN e, e[j].key = e[k].key
        PROVE  j = k
    <3> DEFINE at(n) == IF n < i THEN n ELSE n + 1
    <3>1. i \in 1 .. Len(d) /\ j \in 1 .. Len(d) - 1 /\ k \in 1 .. Len(d) - 1
      BY <2>1, <2>2, <2>5
    <3>2. e[j] = d[at(j)] /\ e[k] = d[at(k)]
      BY <2>3, <3>1
    <3>3. at(j) \in DOMAIN d /\ at(k) \in DOMAIN d
      BY <2>2, <3>1
    <3>4. d[at(j)].key = d[at(k)].key
      BY <2>6, <3>2
    <3> HIDE DEF at
    <3>5. at(j) = at(k)
      BY <3>3, <3>4 DEF HandoffsOK, KeysOnce
    <3> QED
      BY <2>2, <3>1, <3>5 DEF at
  <2>7. Len(e) <= MaxHandoffs
    BY <2>2, <2>3, ProcessorAssumption
  <2> QED
    BY <2>3, <2>4, <2>6, <2>7 DEF HandoffsOK, KeysOnce
<1> QED
  BY <1>1, <1>2

LEMMA RememberKeeps ==
  ASSUME NEW d, HandoffsOK(d), NEW key, NEW from, [key |-> key, from |-> from] \in Entry
  PROVE  HandoffsOK(Remember(d, key, from))
<1> DEFINE entry == [key |-> key, from |-> from]
           set == IF HasKey(d, key) THEN [d EXCEPT ![PlaceOf(d, key)] = entry] ELSE Append(d, entry)
           excess == Len(set) - MaxHandoffs
<1>1. d \in Seq(Entry) /\ Len(d) \in Nat /\ Len(d) <= MaxHandoffs /\ DOMAIN d = 1 .. Len(d) /\ KeysOnce(d)
  BY DEF HandoffsOK
<1>2. entry \in Entry /\ entry.key = key
  OBVIOUS
<1>3. Remember(d, key, from) = IF excess > 0 THEN SubSeq(set, excess + 1, Len(set)) ELSE set
  BY DEF Remember
<1> HIDE DEF entry
<1>4. set \in Seq(Entry) /\ KeysOnce(set)
  <2>1. CASE HasKey(d, key)
    <3> DEFINE i == PlaceOf(d, key)
    <3>1. i \in DOMAIN d /\ d[i].key = key
      BY <2>1 DEF HasKey, PlaceOf
    <3>2. set = [d EXCEPT ![i] = entry]
      BY <2>1
    <3> HIDE DEF i, set
    <3>3. set \in Seq(Entry) /\ DOMAIN set = DOMAIN d
      BY <1>1, <1>2, <3>1, <3>2
    <3>4. \A j \in DOMAIN d : set[j].key = d[j].key
      BY <1>2, <3>1, <3>2
    <3> QED
      BY <1>1, <3>3, <3>4 DEF KeysOnce
  <2>2. CASE ~HasKey(d, key)
    <3>1. set = Append(d, entry)
      BY <2>2
    <3> HIDE DEF set
    <3>2. /\ set \in Seq(Entry) /\ DOMAIN set = 1 .. Len(d) + 1 /\ set[Len(d) + 1] = entry
          /\ \A j \in 1 .. Len(d) : set[j] = d[j]
      BY <1>1, <1>2, <3>1
    <3>3. \A j \in 1 .. Len(d) : d[j].key # key
      BY <1>1, <2>2 DEF HasKey
    <3>4. ASSUME NEW j \in DOMAIN set, NEW k \in DOMAIN set, set[j].key = set[k].key
          PROVE  j = k
      <4>1. CASE j \in 1 .. Len(d) /\ k \in 1 .. Len(d)
        BY <1>1, <3>2, <3>4, <4>1 DEF KeysOnce
      <4>2. CASE j = Len(d) + 1
        BY <1>1, <1>2, <3>2, <3>3, <3>4, <4>2
      <4>3. CASE k = Len(d) + 1
        BY <1>1, <1>2, <3>2, <3>3, <3>4, <4>3
      <4> QED
        BY <1>1, <3>2, <4>1, <4>2, <4>3
    <3> QED
      BY <3>2, <3>4 DEF KeysOnce
  <2> QED
    BY <2>1, <2>2
<1> HIDE DEF set
<1>5. Len(set) \in Nat /\ MaxHandoffs \in Nat /\ DOMAIN set = 1 .. Len(set)
  BY <1>4, ProcessorAssumption
<1>6. CASE ~ (excess > 0)
  BY <1>3, <1>4, <1>5, <1>6 DEF HandoffsOK
<1>7. CASE excess > 0
  <2> DEFINE rest == SubSeq(set, excess + 1, Len(set))
  <2>1. excess \in 1 .. Len(set) /\ Len(set) - excess = MaxHandoffs
    BY <1>5, <1>7
  <2> HIDE DEF excess
  <2>2. /\ rest \in Seq(Entry) /\ Len(rest) = Len(set) - excess
        /\ \A j \in 1 .. Len(set) - excess : rest[j] = set[excess + j]
    BY <1>4, <2>1, DropFacts
  <2>3. Remember(d, key, from) = rest
    BY <1>3, <1>7
  <2> HIDE DEF rest
  <2>4. DOMAIN rest = 1 .. Len(set) - excess /\ Len(rest) <= MaxHandoffs
    BY <1>5, <2>1, <2>2
  <2>5. ASSUME NEW j \in DOMAIN rest, NEW k \in DOMAIN rest, rest[j].key = rest[k].key
        PROVE  j = k
    <3>1. j \in 1 .. Len(set) - excess /\ k \in 1 .. Len(set) - excess
      BY <2>4
    <3>2. set[excess + j].key = set[excess + k].key
      BY <2>2, <2>5, <3>1
    <3>3. excess + j \in DOMAIN set /\ excess + k \in DOMAIN set
      BY <1>5, <2>1, <3>1
    <3>4. excess + j = excess + k
      BY <1>4, <3>2, <3>3 DEF KeysOnce
    <3> QED
      BY <1>5, <2>1, <3>1, <3>4
  <2> QED
    BY <2>2, <2>3, <2>4, <2>5 DEF HandoffsOK, KeysOnce
<1> QED
  BY <1>6, <1>7

LEMMA HandoffsAreKept ==
  ASSUME ProcessorOK, NEW s \in DOMAIN AgentsSpans
  PROVE  HandoffsOK(HandoffsAfter(s))
<1>1. HandoffsOK(reverseHandoffsDict)
  BY DEF ProcessorOK
<1>2. CASE Handed(s)
  <2>1. [key |-> Key(Data(s).to, s), from |-> Data(s).from] \in Entry
    BY DEF Entry
  <2>2. HandoffsOK(WithHandoff(s))
    BY <1>1, <2>1, RememberKeeps DEF WithHandoff
  <2> QED
    BY <1>2, <2>2 DEF HandoffsAfter, Handed
<1>3. CASE ~Handed(s) /\ AgentsSpans[s].type = "agent"
  <2>1. HandoffsOK(Without(reverseHandoffsDict, Key(Data(s).name, s)))
    BY <1>1, WithoutKeeps
  <2> QED
    BY <1>3, <2>1 DEF HandoffsAfter
<1>4. CASE ~Handed(s) /\ AgentsSpans[s].type # "agent"
  BY <1>1, <1>4 DEF HandoffsAfter
<1> QED
  BY <1>2, <1>3, <1>4
-----------------------------------------------------------------------------
(* The processor *)

\* Spans of the SDK's are lost for good.
LEMMA LostStays ==
  ASSUME NEW s \in DOMAIN AgentsSpans, IsLost(s), progress[s] = "ended" => progress'[s] = "ended",
         processorShutdown \subseteq processorShutdown'
  PROVE  IsLost(s)'
BY DEF IsLost

LEMMA AgentsSpanStarts ==
  ASSUME IInv, NEW s \in DOMAIN AgentsSpans, onSpanStart(s)
  PROVE  Only(s) /\ ProcessorOK'
<1>0. SpansOK /\ ProcessorOK /\ s \in Identifiers
  BY DEF IInv, Identifiers
<1>1. /\ progress[s] = "none" /\ progress' = [progress EXCEPT ![s] = "started"]
      /\ reverseHandoffsDict' = reverseHandoffsDict /\ traceEnds' = traceEnds
      /\ processorShutdown' = processorShutdown
  BY DEF onSpanStart
<1>2. progress' \in [DOMAIN AgentsSpans -> {"none", "started", "ended"}] /\ progress'[s] = "started"
      /\ \A a \in DOMAIN AgentsSpans : a # s => progress'[a] = progress[a]
  BY <1>0, <1>1 DEF ProcessorOK
<1>3. s \notin otelSpans
  BY <1>0, <1>1 DEF ProcessorOK
<1>6. \A a \in DOMAIN AgentsSpans : IsLost(a) => IsLost(a)'
  BY <1>1, <1>2, LostStays
<1>4. CASE UNCHANGED <<spans, rootSpans, otelSpans>>
  <2>1. Only(s)
    BY <1>0, <1>4, SameSpans
  <2>2. \A a \in DOMAIN AgentsSpans : IsOpen(a)' <=> IsOpen(a)
    BY <1>4 DEF IsOpen
  <2>3. \A a \in otelSpans : a \in DOMAIN AgentsSpans /\ a # s
    BY <1>0, <1>3 DEF ProcessorOK
  <2>4. \A t \in Traces : rootSpans[t] # None => rootSpans[t] \in DOMAIN AgentsSpans
    BY <1>0 DEF ProcessorOK
  <2>5. \A a \in DOMAIN AgentsSpans : IsOpen(a)' => IsLost(a)' \/ a \in otelSpans'
    BY <1>0, <1>1, <1>4, <1>6, <2>2 DEF ProcessorOK
  <2> QED
    BY <1>0, <1>1, <1>2, <1>4, <2>1, <2>2, <2>3, <2>4, <2>5 DEF ProcessorOK
<1>5. CASE Cardinality(otelSpans) < MaxSpans /\ startAgentsSpan(s)
  <2> DEFINE p == ParentSpan(s)
             x == Started(p, Attribute("operation.name", getOperationName(AgentsSpans[s].type))
                               @@ Attribute("provider.name", "openai"), << >>)
  <2>1. spans' = Put(spans, s, x) /\ otelSpans' = otelSpans \cup {s}
        /\ rootSpans' = IF p # None THEN rootSpans ELSE [rootSpans EXCEPT ![AgentsSpans[s].trace] = s]
    BY <1>5 DEF startAgentsSpan
  <2>2. AgentsSpans[s].trace \in Traces
    BY DEF Traces
  <2>3. p \in DOMAIN spans \cup {None}
    BY <1>0, <2>2 DEF ParentSpan, ProcessorOK, IsOpen
  <2>4. IsSpan(x) /\ x.ended = FALSE /\ x.parent = p
    BY StartedSpan
  <2> HIDE DEF p, x
  <2>5. Only(s) /\ IsOpen(s)' /\ DOMAIN spans' = DOMAIN spans \cup {s}
    BY <1>0, <2>1, <2>3, <2>4, SpanStarts
  <2>6. \A a \in DOMAIN AgentsSpans : a # s => (IsOpen(a)' <=> IsOpen(a))
    BY <2>5 DEF Only, IsOpen
  <2>7. IsFiniteSet(otelSpans') /\ Cardinality(otelSpans') = Cardinality(otelSpans) + 1
        /\ Cardinality(otelSpans) \in Nat
    BY <1>0, <1>3, <2>1, FS_AddElement, FS_CardinalityType DEF ProcessorOK
  <2>8. Cardinality(otelSpans') <= MaxSpans
    BY <1>5, <2>7, ProcessorAssumption
  <2>9. rootSpans' \in [Traces -> DOMAIN AgentsSpans \cup {None}]
    BY <1>0, <2>1 DEF ProcessorOK
  <2>10. ASSUME NEW t \in Traces, rootSpans'[t] # None
         PROVE  IsOpen(rootSpans[t])' /\ AgentsSpans[rootSpans'[t]].trace = t
    <3>1. CASE rootSpans'[t] = s
      <4>1. CASE rootSpans[t] = s
        BY <1>0, <2>5, <2>10, <3>1, <4>1 DEF ProcessorOK
      <4>2. CASE rootSpans[t] # s
        BY <1>0, <2>1, <2>5, <3>1, <4>2 DEF ProcessorOK
      <4> QED
        BY <4>1, <4>2
    <3>2. CASE rootSpans'[t] # s
      <4>1. rootSpans'[t] = rootSpans[t]
        BY <1>0, <2>1, <3>2 DEF ProcessorOK
      <4>2. rootSpans[t] \in DOMAIN AgentsSpans /\ IsOpen(rootSpans[t]) /\ AgentsSpans[rootSpans[t]].trace = t
        BY <1>0, <2>10, <4>1 DEF ProcessorOK
      <4>3. spans'[rootSpans[t]] = spans[rootSpans[t]] /\ rootSpans[t] \in DOMAIN spans'
        BY <2>5, <3>2, <4>1, <4>2 DEF Only, IsOpen
      <4> QED
        BY <4>1, <4>2, <4>3 DEF IsOpen
    <3> QED
      BY <3>1, <3>2
  <2>11. \A a \in otelSpans' : a \in DOMAIN spans' /\ progress'[a] = "started"
    BY <1>0, <1>2, <2>1, <2>5 DEF ProcessorOK
  <2>12. \A a \in DOMAIN AgentsSpans : IsOpen(a)' => IsLost(a)' \/ a \in otelSpans'
    BY <1>0, <1>6, <2>1, <2>6 DEF ProcessorOK
  <2>13. otelSpans' \subseteq DOMAIN AgentsSpans
    BY <1>0, <2>1 DEF ProcessorOK
  <2> QED
    BY <1>0, <1>1, <1>2, <2>5, <2>7, <2>8, <2>9, <2>10, <2>11, <2>12, <2>13 DEF ProcessorOK
<1> QED
  BY <1>4, <1>5 DEF onSpanStart

LEMMA AgentsSpanEnds ==
  ASSUME IInv, NEW s \in DOMAIN AgentsSpans, onSpanEnd(s)
  PROVE  Only(s) /\ ProcessorOK'
<1>0. SpansOK /\ ProcessorOK
  BY DEF IInv
<1>1. /\ progress[s] = "started" /\ progress' = [progress EXCEPT ![s] = "ended"]
      /\ traceEnds' = traceEnds /\ processorShutdown' = processorShutdown
  BY DEF onSpanEnd
<1>2. progress' \in [DOMAIN AgentsSpans -> {"none", "started", "ended"}]
      /\ \A a \in DOMAIN AgentsSpans : a # s => progress'[a] = progress[a]
  BY <1>0, <1>1 DEF ProcessorOK
<1>5. \A a \in DOMAIN AgentsSpans : IsLost(a) => IsLost(a)'
  BY <1>0, <1>1, <1>2, LostStays DEF ProcessorOK
<1>3. CASE s \notin otelSpans
  <2>1. UNCHANGED <<otelSpans, rootSpans, spans, reverseHandoffsDict>>
    BY <1>3 DEF onSpanEnd
  <2>2. Only(s)
    BY <1>0, <2>1, SameSpans
  <2>3. \A a \in DOMAIN AgentsSpans : IsOpen(a)' <=> IsOpen(a)
    BY <2>1 DEF IsOpen
  <2>4. \A a \in otelSpans : a \in DOMAIN AgentsSpans /\ a # s
    BY <1>0, <1>3 DEF ProcessorOK
  <2>5. \A t \in Traces : rootSpans[t] # None => rootSpans[t] \in DOMAIN AgentsSpans
    BY <1>0 DEF ProcessorOK
  <2>6. \A a \in DOMAIN AgentsSpans : IsOpen(a)' => IsLost(a)' \/ a \in otelSpans'
    BY <1>0, <1>5, <2>1, <2>3 DEF ProcessorOK
  <2> QED
    BY <1>0, <1>1, <1>2, <2>1, <2>2, <2>3, <2>4, <2>5, <2>6 DEF ProcessorOK
<1>4. CASE s \in otelSpans
  <2>1. /\ otelSpans' = otelSpans \ {s} /\ rootSpans' = RootsAfter(s)
        /\ reverseHandoffsDict' = HandoffsAfter(s)
        /\ spans' = [spans EXCEPT ![s] = ProcessedSpan(s)]
    BY <1>4 DEF onSpanEnd
  <2>2. s \in DOMAIN spans
    BY <1>0, <1>4 DEF ProcessorOK
  <2>3. Only(s) /\ DOMAIN spans' = DOMAIN spans /\ (IsOpen(s)' => IsLost(s)')
    <3>1. CASE ThrowsAtItsEnd(s)
      <4>1. \E a : spans' = [spans EXCEPT ![s] = WithAttributes(@, a)]
        BY <2>1, <3>1 DEF ProcessedSpan
      <4>2. NullBlockIn(s)
        BY <3>1 DEF ThrowsAtItsEnd, ResponseThrows, Throws, NullBlockIn
      <4>3. progress'[s] = "ended"
        BY <1>0, <1>1 DEF ProcessorOK
      <4>4. IsLost(s)'
        BY <4>2, <4>3 DEF IsLost
      <4> QED
        BY <1>0, <2>2, <4>1, <4>4, SpanIsMarked
    <3>2. CASE ~ThrowsAtItsEnd(s)
      <4>1. \E a : spans' = [spans EXCEPT ![s] = Ended(@, a)]
        BY <2>1, <3>2 DEF ProcessedSpan
      <4> QED
        BY <1>0, <2>2, <4>1, SpanEnds
    <3> QED
      BY <3>1, <3>2
  <2>4. \A a \in DOMAIN AgentsSpans : a # s => (IsOpen(a)' <=> IsOpen(a))
    BY <2>3 DEF Only, IsOpen
  <2>5. IsFiniteSet(otelSpans') /\ Cardinality(otelSpans') = Cardinality(otelSpans) - 1
        /\ Cardinality(otelSpans) \in Nat
    BY <1>0, <1>4, <2>1, FS_RemoveElement, FS_CardinalityType DEF ProcessorOK
  <2>6. Cardinality(otelSpans') <= MaxSpans
    BY <1>0, <2>5, ProcessorAssumption DEF ProcessorOK
  <2>7. HandoffsOK(reverseHandoffsDict')
    BY <1>0, <2>1, HandoffsAreKept
  <2>8. rootSpans' \in [Traces -> DOMAIN AgentsSpans \cup {None}]
    BY <1>0, <2>1 DEF ProcessorOK, RootsAfter
  <2>9. ASSUME NEW t \in Traces, rootSpans'[t] # None
        PROVE  IsOpen(rootSpans[t])' /\ AgentsSpans[rootSpans'[t]].trace = t
    <3>1. rootSpans'[t] = rootSpans[t] /\ rootSpans[t] # s
      BY <2>1, <2>9 DEF RootsAfter
    <3>2. rootSpans[t] \in DOMAIN AgentsSpans /\ IsOpen(rootSpans[t]) /\ AgentsSpans[rootSpans[t]].trace = t
      BY <1>0, <2>9, <3>1 DEF ProcessorOK
    <3>3. spans'[rootSpans[t]] = spans[rootSpans[t]] /\ rootSpans[t] \in DOMAIN spans'
      BY <2>3, <3>1, <3>2 DEF Only, IsOpen
    <3> QED
      BY <3>1, <3>2, <3>3 DEF IsOpen
  <2>10. \A a \in otelSpans' : a \in DOMAIN spans' /\ progress'[a] = "started"
    BY <1>0, <1>2, <2>1, <2>3 DEF ProcessorOK
  <2>11. \A a \in DOMAIN AgentsSpans : IsOpen(a)' => IsLost(a)' \/ a \in otelSpans'
    BY <1>0, <1>5, <2>1, <2>3, <2>4 DEF ProcessorOK
  <2>12. otelSpans' \subseteq DOMAIN AgentsSpans
    BY <1>0, <2>1 DEF ProcessorOK
  <2> QED
    BY <1>0, <1>1, <1>2, <2>3, <2>5, <2>6, <2>7, <2>8, <2>9, <2>10, <2>11, <2>12 DEF ProcessorOK
<1> QED
  BY <1>3, <1>4

LEMMA TraceEnds ==
  ASSUME IInv, NEW t \in Traces, onTraceEnd(t)
  PROVE  /\ \E s \in DOMAIN AgentsSpans : Only(s)
         /\ ProcessorOK'
<1>0. SpansOK /\ ProcessorOK
  BY DEF IInv
<1>1. /\ traceEnds' = traceEnds \cup {t} /\ rootSpans' = [rootSpans EXCEPT ![t] = None]
      /\ otelSpans' = otelSpans /\ reverseHandoffsDict' = reverseHandoffsDict
      /\ progress' = progress /\ processorShutdown' = processorShutdown
      /\ spans' = IF rootSpans[t] = None THEN spans ELSE [spans EXCEPT ![rootSpans[t]] = Ended(@, << >>)]
  BY DEF onTraceEnd
<1>2. PICK s \in DOMAIN AgentsSpans :
        /\ Only(s) /\ DOMAIN spans' = DOMAIN spans
        /\ IsOpen(s)' => IsOpen(s)
        /\ rootSpans[t] \in {s, None}
  <2>1. CASE rootSpans[t] = None
    <3>1. PICK s \in DOMAIN AgentsSpans : AgentsSpans[s].trace = t
      BY DEF Traces
    <3>2. spans' = spans
      BY <1>1, <2>1
    <3> QED
      BY <1>0, <2>1, <3>2, SameSpans DEF IsOpen
  <2>2. CASE rootSpans[t] # None
    <3>1. rootSpans[t] \in DOMAIN AgentsSpans /\ rootSpans[t] \in DOMAIN spans
      BY <1>0, <2>2 DEF ProcessorOK, IsOpen
    <3>2. PICK s \in DOMAIN AgentsSpans : s = rootSpans[t] /\ s \in DOMAIN spans
      BY <3>1
    <3>3. spans' = [spans EXCEPT ![s] = Ended(@, << >>)]
      BY <1>1, <2>2, <3>2
    <3>4. Only(s) /\ DOMAIN spans' = DOMAIN spans /\ ~IsOpen(s)'
      BY <1>0, <3>2, <3>3, SpanEnds
    <3> QED
      BY <3>2, <3>4
  <2> QED
    BY <2>1, <2>2
<1>3. \A a \in DOMAIN AgentsSpans : a # s => (IsOpen(a)' <=> IsOpen(a))
  BY <1>2 DEF Only, IsOpen
<1>4. rootSpans' \in [Traces -> DOMAIN AgentsSpans \cup {None}] /\ traceEnds' \subseteq Traces
  BY <1>0, <1>1 DEF ProcessorOK
<1>5. ASSUME NEW u \in Traces, rootSpans'[u] # None
      PROVE  IsOpen(rootSpans[u])' /\ AgentsSpans[rootSpans'[u]].trace = u
  <2>1. rootSpans'[u] = rootSpans[u] /\ u # t
    BY <1>0, <1>1, <1>5 DEF ProcessorOK
  <2>2. rootSpans[u] \in DOMAIN AgentsSpans /\ IsOpen(rootSpans[u]) /\ AgentsSpans[rootSpans[u]].trace = u
    BY <1>0, <1>5, <2>1 DEF ProcessorOK
  <2>3. CASE rootSpans[t] = s
    <3>1. rootSpans[u] # s
      <4>1. CASE s = None
        BY <1>5, <2>1, <4>1
      <4>2. CASE s # None
        BY <1>0, <2>1, <2>2, <2>3, <4>2 DEF ProcessorOK
      <4> QED
        BY <4>1, <4>2
    <3>2. spans'[rootSpans[u]] = spans[rootSpans[u]] /\ rootSpans[u] \in DOMAIN spans'
      BY <1>2, <2>2, <3>1 DEF Only, IsOpen
    <3> QED
      BY <2>1, <2>2, <3>2 DEF IsOpen
  <2>4. CASE rootSpans[t] = None
    <3>1. spans' = spans
      BY <1>1, <2>4
    <3> QED
      BY <2>1, <2>2, <3>1 DEF IsOpen
  <2> QED
    BY <1>2, <2>3, <2>4
<1>6. \A a \in otelSpans' : a \in DOMAIN spans' /\ progress'[a] = "started"
  BY <1>0, <1>1, <1>2 DEF ProcessorOK
<1>7. \A a \in DOMAIN AgentsSpans : IsOpen(a)' => IsLost(a)' \/ a \in otelSpans'
  <2>1. \A a \in DOMAIN AgentsSpans : IsLost(a) => IsLost(a)'
    BY <1>1, LostStays
  <2> QED
    BY <1>0, <1>1, <1>2, <1>3, <2>1 DEF ProcessorOK
<1> QED
  BY <1>0, <1>1, <1>2, <1>4, <1>5, <1>6, <1>7 DEF ProcessorOK

LEMMA ProcessorShutsDown ==
  ASSUME IInv, shutdownProcessor
  PROVE  UNCHANGED spans /\ ProcessorOK'
<1>0. ProcessorOK
  BY DEF IInv
<1>1. /\ processorShutdown = {} /\ processorShutdown' = {s \in otelSpans : IsOpen(s)}
      /\ otelSpans' = {} /\ rootSpans' = [t \in Traces |-> None] /\ reverseHandoffsDict' = <<>>
      /\ spans' = spans /\ progress' = progress /\ traceEnds' = traceEnds
  BY DEF shutdownProcessor
<1>2. HandoffsOK(<<>>)
  BY ProcessorAssumption DEF HandoffsOK, KeysOnce
<1>3. IsFiniteSet({}) /\ Cardinality({}) = 0
  BY FS_EmptySet
<1>4. \A a \in DOMAIN AgentsSpans : IsOpen(a)' => IsLost(a)'
  BY <1>0, <1>1 DEF ProcessorOK, IsOpen, IsLost
<1> QED
  BY <1>0, <1>1, <1>2, <1>3, <1>4, ProcessorAssumption DEF ProcessorOK
-----------------------------------------------------------------------------
(* Turns, scopes and sends *)

\* What a scope's span refers to as its parent has been started.
LEMMA ScopeStarts ==
  ASSUME IInv, NEW s \in Identifiers, NEW t \in DOMAIN turns, NEW within, NEW ref, NEW scope,
         Runs365(within), ref \in DOMAIN spans \cup {None, InvalidRef},
         spans' = Put(spans, s, ScopeSpan(t, within, ref, scope))
  PROVE  Only(s) /\ IsOpen(s)' /\ DOMAIN spans' = DOMAIN spans \cup {s}
<1>0. SpansOK /\ TurnsOK
  BY DEF IInv
<1> DEFINE refers == ref \notin {None, InvalidRef}
           active == ActiveSpan(t, within)
           p == IF refers THEN None ELSE active
           attributes == Stamped("operation.name" :> scope.operation, turns[t].baggage)
           span == Started(p, attributes, ScopeTags(scope))
           x == IF refers THEN [span EXCEPT !.parent = ref] ELSE span
<1>1. ScopeSpan(t, within, ref, scope) = x
  BY DEF ScopeSpan
<1>2. active \in DOMAIN spans \cup {None}
  BY <1>0 DEF ActiveSpan, Runs365, IsOpen, TurnsOK
<1> HIDE DEF active
<1>3. IsSpan(span) /\ span.ended = FALSE /\ span.parent = p
  BY StartedSpan
<1> HIDE DEF span
<1>4. IsSpan(x) /\ x.ended = FALSE /\ x.parent \in DOMAIN spans \cup {None}
  <2>1. CASE refers
    <3>1. x = [span EXCEPT !.parent = ref]
      BY <2>1
    <3>2. x = [parent |-> ref, attributes |-> span.attributes, ended |-> FALSE]
      BY <1>3, <3>1 DEF IsSpan
    <3> QED
      BY <2>1, <3>2 DEF IsSpan
  <2>2. CASE ~refers
    BY <1>2, <1>3, <2>2
  <2> QED
    BY <2>1, <2>2
<1> HIDE DEF x
<1> QED
  BY <1>0, <1>1, <1>4, SpanStarts

LEMMA TurnBegins ==
  ASSUME IInv, NEW t \in DOMAIN Turns, onTurn(t)
  PROVE  UNCHANGED spans /\ TurnsOK'
<1>0. TurnsOK
  BY DEF IInv
<1>1. /\ Runs365(Turns[t].within) /\ spans' = spans /\ parentRefs' = parentRefs
      /\ scopeCalls' = scopeCalls /\ errorTypes' = errorTypes /\ sends' = sends
      /\ \E v : turns' = Put(turns, t, v)
  BY DEF onTurn
<1>2. DOMAIN turns' = DOMAIN turns \cup {t}
  BY <1>1, PutFacts
<1>3. \A u \in DOMAIN turns' : Turns[u].within \in DOMAIN spans \cup {None}
  BY <1>0, <1>1, <1>2 DEF TurnsOK, Runs365, IsOpen
<1>4. \A m \in DOMAIN Sends : IsOpen(m)' <=> IsOpen(m)
  BY <1>1 DEF IsOpen
<1> QED
  BY <1>0, <1>1, <1>2, <1>3, <1>4 DEF TurnsOK

LEMMA ParentIsSet ==
  ASSUME IInv, NEW t \in DOMAIN Turns, SetParentSpan(t)
  PROVE  UNCHANGED spans /\ TurnsOK'
<1>0. TurnsOK
  BY DEF IInv
<1>1. /\ spans' = spans /\ turns' = turns /\ scopeCalls' = scopeCalls /\ errorTypes' = errorTypes
      /\ sends' = sends /\ parentRefs' = [parentRefs EXCEPT ![t] = Turns[t].ref]
      /\ Turns[t].ref \in DOMAIN spans \cup {InvalidRef}
  BY DEF SetParentSpan
<1>2. parentRefs' \in [DOMAIN Turns -> DOMAIN spans \cup {None, InvalidRef}]
  BY <1>0, <1>1 DEF TurnsOK
<1>3. \A m \in DOMAIN Sends : IsOpen(m)' <=> IsOpen(m)
  BY <1>1 DEF IsOpen
<1> QED
  BY <1>0, <1>1, <1>2, <1>3 DEF TurnsOK

\* A step that changes the span of a scope, and no turn or send.
LEMMA ScopesStay ==
  ASSUME TurnsOK, NEW s \in DOMAIN Scopes, Only(s), UNCHANGED <<turns, parentRefs, sends>>,
         DOMAIN scopeCalls' = DOMAIN errorTypes', DOMAIN scopeCalls \cup {s} \subseteq DOMAIN scopeCalls'
  PROVE  TurnsOK'
<1>1. DOMAIN spans \subseteq DOMAIN spans' /\ DOMAIN spans' \subseteq DOMAIN spans \cup {s}
  BY DEF Only
<1>2. \A m \in DOMAIN Sends : IsOpen(m)' <=> IsOpen(m)
  BY NamesDiffer DEF Only, IsOpen
<1>3. parentRefs' \in [DOMAIN Turns -> DOMAIN spans' \cup {None, InvalidRef}]
  BY <1>1 DEF TurnsOK
<1>4. \A u \in DOMAIN Scopes \cap DOMAIN spans' : u \in DOMAIN scopeCalls'
  BY <1>1 DEF TurnsOK
<1>5. \A u \in DOMAIN turns' : Turns[u].within \in DOMAIN spans' \cup {None}
  BY <1>1 DEF TurnsOK
<1> QED
  BY <1>2, <1>3, <1>4, <1>5 DEF TurnsOK

\* A step that changes the span of a send, and no scope or turn.
LEMMA SendsStay ==
  ASSUME TurnsOK, NEW m \in DOMAIN Sends, Only(m), UNCHANGED <<turns, parentRefs, scopeCalls, errorTypes>>,
         NEW state \in {"sending"} \cup SendOutcomes, sends' = [sends EXCEPT ![m] = state],
         IsOpen(m)' => state = "sending"
  PROVE  TurnsOK'
<1>1. DOMAIN spans \subseteq DOMAIN spans' /\ DOMAIN spans' \subseteq DOMAIN spans \cup {m}
  BY DEF Only
<1>2. \A n \in DOMAIN Sends : n # m => (IsOpen(n)' <=> IsOpen(n))
  BY DEF Only, IsOpen
<1>3. parentRefs' \in [DOMAIN Turns -> DOMAIN spans' \cup {None, InvalidRef}]
  BY <1>1 DEF TurnsOK
<1>4. \A u \in DOMAIN Scopes \cap DOMAIN spans' : u \in DOMAIN scopeCalls'
  BY <1>1, NamesDiffer DEF TurnsOK
<1>5. \A u \in DOMAIN turns' : Turns[u].within \in DOMAIN spans' \cup {None}
  BY <1>1 DEF TurnsOK
<1>6. sends' \in [DOMAIN Sends -> {"none", "sending"} \cup SendOutcomes]
  BY DEF TurnsOK
<1>7. \A n \in DOMAIN Sends : IsOpen(n)' => sends'[n] = "sending"
  BY <1>2 DEF TurnsOK
<1> QED
  BY <1>3, <1>4, <1>5, <1>6, <1>7 DEF TurnsOK

LEMMA ScopeIsStarted ==
  ASSUME IInv, NEW s \in DOMAIN Scopes, startScope(s)
  PROVE  Only(s) /\ TurnsOK'
<1>0. SpansOK /\ TurnsOK /\ s \in Identifiers
  BY DEF IInv, Identifiers
<1> DEFINE t == Scopes[s].turn
<1>1. /\ t \in DOMAIN turns /\ Runs365(Scopes[s].within)
      /\ Scopes[s].ref \in DOMAIN spans \cup {None, InvalidRef}
      /\ scopeCalls' = Put(scopeCalls, s, 0) /\ errorTypes' = Put(errorTypes, s, None)
      /\ UNCHANGED <<turns, parentRefs, sends>>
      /\ \/ spans' = Put(spans, s, ScopeSpan(t, Scopes[s].within, Scopes[s].ref, ScopeOf(s)))
         \/ spans' = spans
  BY DEF startScope
<1> HIDE DEF t
<1>2. Only(s)
  BY <1>0, <1>1, SameSpans, ScopeStarts
<1>3. DOMAIN scopeCalls' = DOMAIN scopeCalls \cup {s} /\ DOMAIN errorTypes' = DOMAIN errorTypes \cup {s}
  BY <1>1, PutFacts
<1>4. DOMAIN scopeCalls = DOMAIN errorTypes
  BY <1>0 DEF TurnsOK
<1> QED
  BY <1>0, <1>1, <1>2, <1>3, <1>4, ScopesStay

LEMMA ScopeRecords ==
  ASSUME IInv, NEW s \in DOMAIN Scopes, recordOnScope(s)
  PROVE  Only(s) /\ TurnsOK'
<1>0. SpansOK /\ TurnsOK
  BY DEF IInv
<1>1. /\ s \in DOMAIN spans /\ UNCHANGED <<turns, parentRefs, sends>>
      /\ DOMAIN errorTypes' = DOMAIN errorTypes /\ DOMAIN scopeCalls' = DOMAIN scopeCalls
      /\ \/ spans' = spans
         \/ \E a : spans' = [spans EXCEPT ![s] = WithAttributes(@, a)]
  BY DEF recordOnScope
<1>2. Only(s)
  <2>1. CASE spans' = spans
    BY <1>0, <2>1, SameSpans
  <2>2. CASE \E a : spans' = [spans EXCEPT ![s] = WithAttributes(@, a)]
    BY <1>0, <1>1, <2>2, SpanIsMarked
  <2> QED
    BY <1>1, <2>1, <2>2
<1>3. DOMAIN scopeCalls = DOMAIN errorTypes /\ s \in DOMAIN scopeCalls
  BY <1>0, <1>1 DEF TurnsOK
<1> QED
  BY <1>0, <1>1, <1>2, <1>3, ScopesStay

LEMMA ScopeIsDisposed ==
  ASSUME IInv, NEW s \in DOMAIN Scopes, dispose(s)
  PROVE  Only(s) /\ TurnsOK'
<1>0. SpansOK /\ TurnsOK
  BY DEF IInv
<1>1. /\ s \in DOMAIN spans /\ UNCHANGED <<turns, parentRefs, sends, scopeCalls, errorTypes>>
      /\ spans' = [spans EXCEPT ![s] = Ended(@, Attribute("error.type", errorTypes[s]))]
  BY DEF dispose, endScope, IsOpen, turnVars
<1>2. Only(s)
  BY <1>0, <1>1, SpanEnds
<1>3. DOMAIN scopeCalls = DOMAIN errorTypes /\ s \in DOMAIN scopeCalls
  BY <1>0, <1>1 DEF TurnsOK
<1> QED
  BY <1>0, <1>1, <1>2, <1>3, ScopesStay

LEMMA SendStarts ==
  ASSUME IInv, NEW m \in DOMAIN Sends, send(m)
  PROVE  Only(m) /\ TurnsOK'
<1>0. SpansOK /\ TurnsOK /\ m \in Identifiers
  BY DEF IInv, Identifiers
<1> DEFINE t == Sends[m].turn
<1>1. /\ t \in DOMAIN turns /\ Runs365(Sends[m].within) /\ sends' = [sends EXCEPT ![m] = "sending"]
      /\ UNCHANGED <<turns, parentRefs, scopeCalls, errorTypes>>
      /\ \/ spans' = Put(spans, m, ScopeSpan(t, Sends[m].within, parentRefs[t], OutputScopeOf(m)))
         \/ spans' = spans
  BY DEF send
<1> HIDE DEF t
<1>2. parentRefs[t] \in DOMAIN spans \cup {None, InvalidRef}
  BY <1>0, <1>1 DEF TurnsOK
<1>3. Only(m)
  BY <1>0, <1>1, <1>2, SameSpans, ScopeStarts
<1> QED
  BY <1>0, <1>1, <1>3, SendsStay

LEMMA SendIsSettled ==
  ASSUME IInv, NEW m \in DOMAIN Sends, NEW outcome \in SendOutcomes, SendSettles(m, outcome)
  PROVE  Only(m) /\ TurnsOK'
<1>0. SpansOK /\ TurnsOK
  BY DEF IInv
<1>1. /\ sends' = [sends EXCEPT ![m] = outcome]
      /\ UNCHANGED <<turns, parentRefs, scopeCalls, errorTypes>>
  BY DEF SendSettles
<1>2. Only(m) /\ ~IsOpen(m)'
  <2>1. CASE m \in DOMAIN spans
    <3>1. PICK a : spans' = [spans EXCEPT ![m] = Ended(@, a)]
      BY <2>1 DEF SendSettles, endScope
    <3> QED
      BY <1>0, <2>1, <3>1, SpanEnds
  <2>2. CASE m \notin DOMAIN spans
    <3>1. spans' = spans
      BY <2>2 DEF SendSettles
    <3> QED
      BY <1>0, <2>2, <3>1, SameSpans DEF IsOpen
  <2> QED
    BY <2>1, <2>2
<1> QED
  BY <1>0, <1>1, <1>2, SendsStay
-----------------------------------------------------------------------------
(* The invariant *)

LEMMA InitIInv == Init => IInv
<1> SUFFICES ASSUME Init
             PROVE  IInv
  OBVIOUS
<1>1. spans = << >> /\ DOMAIN spans = {}
  BY DEF Init
<1>2. IsFiniteSet({}) /\ Cardinality({}) = 0
  BY FS_EmptySet
<1>3. TracerOK
  BY <1>1, <1>2, LangChainTracerAssumption DEF Init, TracerInit, TracerOK, IsOpen
<1>4. ProcessorOK
  <2>1. HandoffsOK(<<>>)
    BY ProcessorAssumption DEF HandoffsOK, KeysOnce
  <2> QED
    BY <1>1, <1>2, <2>1, ProcessorAssumption DEF Init, ProcessorInit, ProcessorOK, IsOpen
<1>5. TurnsOK
  BY <1>1 DEF Init, TurnsInit, TurnsOK, IsOpen
<1> QED
  BY <1>1, <1>3, <1>4, <1>5 DEF IInv, SpansOK

LEMMA Unaffected ==
  ASSUME IInv, UNCHANGED spans
  PROVE  /\ SpansOK'
         /\ UNCHANGED tracerVars => TracerOK'
         /\ UNCHANGED processorVars => ProcessorOK'
         /\ UNCHANGED turnVars => TurnsOK'
<1>1. \A s : IsOpen(s)' <=> IsOpen(s)
  BY DEF IsOpen
<1>2. SpansOK'
  BY DEF IInv, SpansOK
<1>3. ASSUME UNCHANGED tracerVars
      PROVE  TracerOK'
  BY <1>1, <1>3 DEF IInv, TracerOK, tracerVars, Skipped
<1>4. ASSUME UNCHANGED processorVars
      PROVE  ProcessorOK'
  BY <1>1, <1>4 DEF IInv, ProcessorOK, IsLost, processorVars
<1>5. ASSUME UNCHANGED turnVars
      PROVE  TurnsOK'
  BY <1>1, <1>5 DEF IInv, TurnsOK, turnVars
<1> QED
  BY <1>2, <1>3, <1>4, <1>5

\* Steps of the tracer, of the processor, and of turns: each keeps its own part, the others stay.
LEMMA TracerKeeps ==
  ASSUME IInv, NEW r \in DOMAIN Runs, Only(r), TracerOK', UNCHANGED <<processorVars, turnVars>>
  PROVE  IInv'
<1>1. ProcessorOK' /\ TurnsOK'
  BY NamesDiffer, ProcessorStays, TurnsStay DEF IInv
<1> QED
  BY <1>1 DEF IInv, Only

LEMMA ProcessorKeeps ==
  ASSUME IInv, NEW s \in DOMAIN AgentsSpans, Only(s), ProcessorOK', UNCHANGED <<tracerVars, turnVars>>
  PROVE  IInv'
<1>1. TracerOK' /\ TurnsOK'
  BY NamesDiffer, TracerStays, TurnsStay DEF IInv
<1> QED
  BY <1>1 DEF IInv, Only

LEMMA TurnsKeep ==
  ASSUME IInv, NEW s \in DOMAIN Scopes \cup DOMAIN Sends, Only(s), TurnsOK',
         UNCHANGED <<tracerVars, processorVars>>
  PROVE  IInv'
<1>1. TracerOK' /\ ProcessorOK'
  BY NamesDiffer, TracerStays, ProcessorStays DEF IInv
<1> QED
  BY <1>1 DEF IInv, Only

LEMMA NextIInv == IInv /\ [Next]_vars => IInv'
<1> SUFFICES ASSUME IInv, [Next]_vars
             PROVE  IInv'
  OBVIOUS
<1>1. CASE OnRunCreate
  <2>1. PICK r \in DOMAIN Runs : \E suppressed \in Suppressions(r, "start") : onRunCreate(r, suppressed)
    BY <1>1 DEF OnRunCreate
  <2>2. UNCHANGED <<processorVars, turnVars>>
    BY <1>1 DEF OnRunCreate
  <2> QED
    BY <2>1, <2>2, RunStarts, TracerKeeps
<1>2. CASE EndTrace
  <2>1. PICK r \in DOMAIN Runs : \E suppressed \in Suppressions(r, "end") : _endTrace(r, suppressed)
    BY <1>2 DEF EndTrace
  <2>2. UNCHANGED <<processorVars, turnVars>>
    BY <1>2 DEF EndTrace
  <2> QED
    BY <2>1, <2>2, RunEnds, TracerKeeps
<1>3. CASE Reinstrument
  <2>1. UNCHANGED spans /\ TracerOK'
    BY <1>3, FlagIsSet DEF Reinstrument
  <2>2. UNCHANGED processorVars /\ UNCHANGED turnVars
    BY <1>3 DEF Reinstrument
  <2> QED
    BY <2>1, <2>2, Unaffected DEF IInv
<1>4. CASE OnSpanStart
  <2>1. PICK s \in DOMAIN AgentsSpans : onSpanStart(s)
    BY <1>4 DEF OnSpanStart
  <2>2. UNCHANGED <<tracerVars, turnVars>>
    BY <1>4 DEF OnSpanStart
  <2> QED
    BY <2>1, <2>2, AgentsSpanStarts, ProcessorKeeps
<1>5. CASE OnSpanEnd
  <2>1. PICK s \in DOMAIN AgentsSpans : onSpanEnd(s)
    BY <1>5 DEF OnSpanEnd
  <2>2. UNCHANGED <<tracerVars, turnVars>>
    BY <1>5 DEF OnSpanEnd
  <2> QED
    BY <2>1, <2>2, AgentsSpanEnds, ProcessorKeeps
<1>6. CASE OnTraceEnd
  <2>1. PICK t \in Traces : onTraceEnd(t)
    BY <1>6 DEF OnTraceEnd
  <2>2. UNCHANGED <<tracerVars, turnVars>>
    BY <1>6 DEF OnTraceEnd
  <2> QED
    BY <2>1, <2>2, TraceEnds, ProcessorKeeps
<1>7. CASE ShutdownProcessor
  <2>1. UNCHANGED spans /\ ProcessorOK'
    BY <1>7, ProcessorShutsDown DEF ShutdownProcessor
  <2>2. UNCHANGED tracerVars /\ UNCHANGED turnVars
    BY <1>7 DEF ShutdownProcessor
  <2> QED
    BY <2>1, <2>2, Unaffected DEF IInv
<1>8. CASE Configure
  <2>1. UNCHANGED <<spans, turns, parentRefs, scopeCalls, errorTypes, sends, tracerVars, processorVars>>
    BY <1>8 DEF Configure, configure, Others
  <2>2. \A m \in DOMAIN Sends : IsOpen(m)' <=> IsOpen(m)
    BY <2>1 DEF IsOpen
  <2>3. TurnsOK'
    BY <2>1, <2>2 DEF IInv, TurnsOK
  <2> QED
    BY <2>1, <2>3, Unaffected DEF IInv
<1>9. CASE OnTurn
  <2>1. UNCHANGED spans /\ TurnsOK'
    BY <1>9, TurnBegins DEF OnTurn
  <2>2. UNCHANGED tracerVars /\ UNCHANGED processorVars
    BY <1>9 DEF OnTurn, Others
  <2> QED
    BY <2>1, <2>2, Unaffected DEF IInv
<1>10. CASE SetParent
  <2>1. UNCHANGED spans /\ TurnsOK'
    BY <1>10, ParentIsSet DEF SetParent
  <2>2. UNCHANGED tracerVars /\ UNCHANGED processorVars
    BY <1>10 DEF SetParent, Others
  <2> QED
    BY <2>1, <2>2, Unaffected DEF IInv
<1>11. CASE StartScope
  BY <1>11, ScopeIsStarted, TurnsKeep DEF StartScope, Others
<1>12. CASE RecordOnScope
  BY <1>12, ScopeRecords, TurnsKeep DEF RecordOnScope, Others
<1>13. CASE Dispose
  BY <1>13, ScopeIsDisposed, TurnsKeep DEF Dispose, Others
<1>14. CASE Send
  BY <1>14, SendStarts, TurnsKeep DEF Send, Others
<1>15. CASE SendEnds
  BY <1>15, SendIsSettled, TurnsKeep DEF SendEnds, Others
<1>16. CASE UNCHANGED vars
  BY <1>16, Unaffected DEF IInv, vars
<1> QED
  BY <1>1, <1>2, <1>3, <1>4, <1>5, <1>6, <1>7, <1>8, <1>9, <1>10, <1>11, <1>12, <1>13, <1>14, <1>15,
     <1>16 DEF Next

LEMMA IInvTracks == IInv => OpenSpansAreTracked
<1> SUFFICES ASSUME IInv
             PROVE  OpenSpansAreTracked
  OBVIOUS
<1>1. TypeOK
  BY DEF IInv, SpansOK, SpanIn, Identifiers, TracerOK, ProcessorOK, TurnsOK, TypeOK
<1>2. MapsAreKept
  BY <1>1 DEF MapsAreKept, IInv, TracerOK, ProcessorOK, HandoffsOK, KeysOnce
<1>3. ASSUME NEW s \in DOMAIN spans, IsOpen(s)
      PROVE  CASE s \in DOMAIN Runs -> s \in runs /\ callbacks[s] = "started"
               [] s \in DOMAIN Scopes -> s \in DOMAIN scopeCalls
               [] s \in DOMAIN Sends -> sends[s] = "sending"
               [] s \in DOMAIN AgentsSpans ->
                    IsLost(s) \/ (s \in otelSpans /\ progress[s] = "started")
  <2>1. CASE s \in DOMAIN Runs
    BY <1>3, <2>1, NamesDiffer DEF IInv, TracerOK
  <2>2. CASE s \in DOMAIN Scopes
    BY <1>3, <2>2, NamesDiffer DEF IInv, TurnsOK
  <2>3. CASE s \in DOMAIN Sends
    BY <1>3, <2>3, NamesDiffer DEF IInv, TurnsOK
  <2>4. CASE s \in DOMAIN AgentsSpans
    BY <1>3, <2>4, NamesDiffer DEF IInv, ProcessorOK
  <2> QED
    BY <2>1, <2>2, <2>3, <2>4 DEF IInv, SpansOK, Identifiers
<1> QED
  BY <1>2, <1>3 DEF OpenSpansAreTracked

LEMMA SpecIInv == Spec => []IInv
BY InitIInv, NextIInv, PTL DEF Spec

\* The maps of the tracer and the processor stay within their limits and true to what is open; and a
\* span is left open that nothing would end only if it is a scope's not disposed of, a shutdown of the
\* processor forgot it, or its end threw on a null block.
THEOREM OpenSpansStayTracked == Spec => []OpenSpansAreTracked
BY SpecIInv, IInvTracks, PTL
=============================================================================
