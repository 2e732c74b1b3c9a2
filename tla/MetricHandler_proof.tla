------------------------- MODULE MetricHandler_proof -------------------------
(***************************************************************************)
(* Live metrics for every set of etags, configurations and items and all   *)
(* bounds: first the client's protocol (LiveMetrics), then the counters    *)
(* and the derived metrics of the handler (MetricHandler).                 *)
(*                                                                         *)
(* HandlerInv relates live metrics' counters to the items recorded since   *)
(* the last collection; DerivedInv relates each projection to the samples  *)
(* since the last report.  Both rest on lemmas about what is parsed of a   *)
(* configuration, about the folds that pass an item from metric to metric  *)
(* and from exception to exception, and about sums over finite sets.       *)
(***************************************************************************)
EXTENDS MetricHandler, FiniteSetTheorems, SequenceTheorems, WellFoundedInduction, TLAPS

-----------------------------------------------------------------------------
(* The client's protocol *)

\* A step of quickPulseDone, of whichever request, with n posts left in flight.
Done(r, n) == QuickPulseDone(r, n) /\ UNCHANGED isShutdown

-----------------------------------------------------------------------------

LEMMA InitTypeOK == Init => TypeOK
<1> SUFFICES ASSUME Init PROVE TypeOK
  OBVIOUS
<1>1. {isShutdown, isCollectingData, meterProvider, silent} \subseteq BOOLEAN
  BY DEF Init
<1>2. /\ handle = 1 /\ orphans = 0 /\ pings = 0 /\ pinged = 0 /\ posts = 0
      /\ etag = NoEtag /\ exporterEtag = NoEtag /\ config = None
  BY DEF Init
<1>3. MaxChains \in Nat \ {0} /\ MaxPosts \in Nat
  BY LiveMetricsAssumption DEF LiveMetricsAssumption
<1> QED
  BY <1>1, <1>2, <1>3 DEF TypeOK, Chains

\* A flush keeps the number of posts within its bound.
LEMMA FlushedType ==
  ASSUME TypeOK, NEW n \in 0 .. MaxPosts
  PROVE  Flushed(n) \in 0 .. MaxPosts
  BY LiveMetricsAssumption DEF LiveMetricsAssumption, Flushed, TypeOK

\* What quickPulseDone leaves behind is of its type, and at most one chain longer.
LEMMA DoneType ==
  ASSUME TypeOK, NEW r \in Response, NEW n \in 0 .. MaxPosts, QuickPulseDone(r, n)
  PROVE  /\ {isCollectingData', meterProvider', silent'} \subseteq BOOLEAN
         /\ {etag', exporterEtag'} \subseteq Etags \cup {NoEtag}
         /\ config' \in Etags \cup {None}
         /\ posts' \in 0 .. MaxPosts
         /\ \/ handle' = handle /\ orphans' = orphans
            \/ Chains < MaxChains /\ handle' = 1 /\ orphans' = orphans + handle
<1>1. CASE isShutdown
  BY <1>1 DEF TypeOK, QuickPulseDone, timerVars, configVars
<1>2. CASE ~isShutdown /\ r = None
  <2>1. Unanswered(n)
    BY <1>2 DEF QuickPulseDone
  <2> QED
    BY <2>1, FlushedType DEF TypeOK, Unanswered, timerVars
<1>3. CASE ~isShutdown /\ r # None
  <2>1. Answered(r, n)
    BY <1>3 DEF QuickPulseDone
  <2>2. r.subscribed \in BOOLEAN /\ r.etag \in Etags \cup {NoEtag}
    BY <1>3 DEF Response
  <2>3. CASE ~r.subscribed /\ meterProvider
    BY <2>1, <2>2, <2>3, FlushedType DEF TypeOK, Answered, Updated, Stop, Deactivate, ArmTimer
  <2>4. CASE ~(~r.subscribed /\ meterProvider)
    BY <2>1, <2>2, <2>4 DEF TypeOK, Answered, Updated
  <2> QED
    BY <2>3, <2>4
<1> QED
  BY <1>1, <1>2, <1>3

LEMMA NextTypeOK == TypeOK /\ [Next]_vars => TypeOK'
<1> SUFFICES ASSUME TypeOK, [Next]_vars
             PROVE  TypeOK'
  OBVIOUS
<1> USE LiveMetricsAssumption DEF LiveMetricsAssumption
<1>1. CASE GoQuickpulse
  BY <1>1 DEF TypeOK, Chains, GoQuickpulse, ActivateIfCollecting, Fire, configVars
<1>2. CASE PingDone
  <2>1. PICK r \in Response : QuickPulseDone(r, posts)
    BY <1>2 DEF PingDone
  <2>2. posts \in 0 .. MaxPosts
    BY DEF TypeOK
  <2> QED
    BY <1>2, <2>1, <2>2, DoneType DEF TypeOK, Chains, PingDone
<1>3. CASE Resume
  BY <1>3 DEF TypeOK, Chains, Resume, ActivateIfCollecting, ArmTimer, timerVars, configVars
<1>4. CASE Post
  BY <1>4 DEF TypeOK, Chains, Post, timerVars, configVars
<1>5. CASE PostDone
  <2>1. PICK r \in Response : QuickPulseDone(r, posts - 1)
    BY <1>5 DEF PostDone
  <2>2. posts - 1 \in 0 .. MaxPosts
    BY <1>5 DEF TypeOK, PostDone
  <2> QED
    BY <1>5, <2>1, <2>2, DoneType DEF TypeOK, Chains, PostDone
<1>6. CASE SilenceLasts
  BY <1>6 DEF TypeOK, Chains, SilenceLasts, timerVars, configVars
<1>7. CASE Shutdown
  <2>1. posts' \in 0 .. MaxPosts
    BY <1>7, FlushedType DEF TypeOK, Shutdown, Deactivate
  <2>2. {isShutdown, isCollectingData, meterProvider, silent}' \subseteq BOOLEAN
    BY <1>7 DEF TypeOK, Shutdown, Deactivate
  <2>3. /\ handle' \in 0 .. 1 /\ orphans' = orphans /\ pings' = pings /\ pinged' = pinged
        /\ Chains' <= Chains
    BY <1>7 DEF TypeOK, Chains, Shutdown
  <2>4. {etag', exporterEtag'} \subseteq Etags \cup {NoEtag} /\ config' \in Etags \cup {None}
    BY <1>7 DEF TypeOK, Shutdown, Deactivate
  <2>5. orphans \in Nat /\ pings \in Nat /\ pinged \in Nat /\ Chains' <= MaxChains
    BY <1>7, <2>3 DEF TypeOK, Chains, Shutdown
  <2> QED
    BY <2>1, <2>2, <2>3, <2>4, <2>5 DEF TypeOK
<1>8. CASE UNCHANGED vars
  BY <1>8 DEF TypeOK, Chains, vars
<1> QED
  BY <1>1, <1>2, <1>3, <1>4, <1>5, <1>6, <1>7, <1>8 DEF Next

LEMMA TypeHolds == Init /\ [][Next]_vars => []TypeOK
  BY InitTypeOK, NextTypeOK, PTL

\* TypeOK: every reachable state is well typed, and the bounds on posts and chains hold.
THEOREM LiveMetricsTypeCorrect == Spec => []TypeOK
BY TypeHolds, PTL DEF Spec

-----------------------------------------------------------------------------

LEMMA NoProviderStrays == Init /\ [][Next]_vars => []ProviderOnlyWhileSubscribed
<1>1. Init => ProviderOnlyWhileSubscribed
  BY DEF Init, ProviderOnlyWhileSubscribed
<1>2. TypeOK /\ ProviderOnlyWhileSubscribed /\ [Next]_vars => ProviderOnlyWhileSubscribed'
  <2> SUFFICES ASSUME TypeOK, ProviderOnlyWhileSubscribed, [Next]_vars
               PROVE  ProviderOnlyWhileSubscribed'
    OBVIOUS
  <2>1. ASSUME NEW r \in Response, NEW n, Done(r, n)
        PROVE  ProviderOnlyWhileSubscribed'
    <3>1. CASE isShutdown
      BY <2>1, <3>1 DEF ProviderOnlyWhileSubscribed, Done, QuickPulseDone
    <3>2. CASE ~isShutdown /\ r = None
      BY <2>1, <3>2 DEF ProviderOnlyWhileSubscribed, Done, QuickPulseDone, Unanswered
    <3>3. CASE ~isShutdown /\ r # None
      <4>1. Answered(r, n) /\ r.subscribed \in BOOLEAN /\ ~isShutdown'
        BY <2>1, <3>3 DEF Done, QuickPulseDone, Response
      <4>2. CASE ~r.subscribed /\ meterProvider
        BY <4>1, <4>2 DEF ProviderOnlyWhileSubscribed, Answered, Updated, Stop, Deactivate
      <4>3. CASE ~(~r.subscribed /\ meterProvider)
        BY <4>1, <4>3 DEF ProviderOnlyWhileSubscribed, Answered, Updated
      <4> QED
        BY <4>2, <4>3
    <3> QED
      BY <3>1, <3>2, <3>3
  <2>2. CASE GoQuickpulse
    BY <2>2 DEF TypeOK, ProviderOnlyWhileSubscribed, GoQuickpulse, ActivateIfCollecting
  <2>3. CASE PingDone
    BY <2>1, <2>3 DEF PingDone, Done
  <2>4. CASE Resume
    BY <2>4 DEF TypeOK, ProviderOnlyWhileSubscribed, Resume, ActivateIfCollecting
  <2>5. CASE Post
    BY <2>5 DEF ProviderOnlyWhileSubscribed, Post
  <2>6. CASE PostDone
    BY <2>1, <2>6 DEF PostDone, Done
  <2>7. CASE SilenceLasts
    BY <2>7 DEF ProviderOnlyWhileSubscribed, SilenceLasts
  <2>8. CASE Shutdown
    BY <2>8 DEF ProviderOnlyWhileSubscribed, Shutdown, Deactivate
  <2>9. CASE UNCHANGED vars
    BY <2>9 DEF ProviderOnlyWhileSubscribed, vars
  <2> QED
    BY <2>2, <2>3, <2>4, <2>5, <2>6, <2>7, <2>8, <2>9 DEF Next
<1> QED
  BY <1>1, <1>2, TypeHolds, PTL

\* ProviderOnlyWhileSubscribed: no late answer and no forgotten timer brings a provider
\* back after the subscriber left or the client was shut down.
THEOREM NoStrayProvider == Spec => []ProviderOnlyWhileSubscribed
BY NoProviderStrays, PTL DEF Spec

LEMMA SomethingGoesOn == Init /\ [][Next]_vars => []NeverAsleep
<1>1. Init => NeverAsleep
  BY DEF Init, NeverAsleep, Chains
<1>2. TypeOK /\ NeverAsleep /\ [Next]_vars => NeverAsleep'
  <2> SUFFICES ASSUME TypeOK, NeverAsleep, [Next]_vars, ~isShutdown'
               PROVE  meterProvider' \/ Chains' > 0
    BY DEF NeverAsleep
  <2> USE DEF TypeOK
  <2>1. CASE GoQuickpulse
    BY <2>1 DEF GoQuickpulse, ActivateIfCollecting, Fire, Chains
  <2>2. CASE PingDone
    <3>1. PICK r \in Response : QuickPulseDone(r, posts)
      BY <2>2 DEF PingDone
    <3>2. posts \in 0 .. MaxPosts
      OBVIOUS
    <3>3. \/ handle' = handle /\ orphans' = orphans
          \/ handle' = 1 /\ orphans' = orphans + handle
      BY <3>1, <3>2, DoneType
    <3> QED
      BY <2>2, <3>3 DEF PingDone, Chains
  <2>3. CASE Resume
    BY <2>3 DEF Resume, ActivateIfCollecting, ArmTimer, Chains
  <2>4. CASE Post
    BY <2>4 DEF Post, Chains, NeverAsleep, timerVars
  <2>5. CASE PostDone
    <3>1. PICK r \in Response : QuickPulseDone(r, posts - 1)
      BY <2>5 DEF PostDone
    <3>2. /\ pings' = pings /\ pinged' = pinged /\ ~isShutdown
          /\ r # None => r.subscribed \in BOOLEAN
      BY <2>5 DEF PostDone, Response
    <3>3. CASE r = None
      BY <3>1, <3>2, <3>3 DEF QuickPulseDone, Unanswered, NeverAsleep, Chains, timerVars
    <3>4. CASE r # None /\ ~r.subscribed /\ meterProvider
      BY <3>1, <3>2, <3>4 DEF QuickPulseDone, Answered, Updated, Stop, ArmTimer, Chains
    <3>5. CASE r # None /\ ~(~r.subscribed /\ meterProvider)
      BY <3>1, <3>2, <3>5 DEF QuickPulseDone, Answered, Updated, NeverAsleep, Chains
    <3> QED
      BY <3>3, <3>4, <3>5
  <2>6. CASE SilenceLasts
    BY <2>6 DEF SilenceLasts, Chains, NeverAsleep, timerVars
  <2>7. CASE Shutdown
    BY <2>7 DEF Shutdown
  <2>8. CASE UNCHANGED vars
    BY <2>8 DEF vars, Chains, NeverAsleep
  <2> QED
    BY <2>1, <2>2, <2>3, <2>4, <2>5, <2>6, <2>7, <2>8 DEF Next
<1> QED
  BY <1>1, <1>2, TypeHolds, PTL

\* NeverAsleep: before shutdown there is always a provider or a chain of pings.
THEOREM ChainsGoOn == Spec => []NeverAsleep
BY SomethingGoesOn, PTL DEF Spec

LEMMA ConfigurationIsOwn == Init /\ [][Next]_vars => []ReportsOwnConfiguration
<1>1. Init => ReportsOwnConfiguration
  BY DEF Init, ReportsOwnConfiguration
<1>2. ReportsOwnConfiguration /\ [Next]_vars => ReportsOwnConfiguration'
  <2> SUFFICES ASSUME ReportsOwnConfiguration, [Next]_vars
               PROVE  ReportsOwnConfiguration'
    OBVIOUS
  <2> USE DEF ReportsOwnConfiguration
  <2>1. ASSUME NEW r, NEW n, QuickPulseDone(r, n)
        PROVE  ReportsOwnConfiguration'
    <3>1. CASE isShutdown
      BY <2>1, <3>1 DEF QuickPulseDone, configVars
    <3>2. CASE ~isShutdown /\ r = None
      BY <2>1, <3>2 DEF QuickPulseDone, Unanswered
    <3>3. CASE ~isShutdown /\ r # None
      BY <2>1, <3>3 DEF QuickPulseDone, Answered, Updated, Stop, Deactivate
    <3> QED
      BY <3>1, <3>2, <3>3
  <2>2. CASE PingDone \/ PostDone
    BY <2>1, <2>2 DEF PingDone, PostDone
  <2>3. CASE Shutdown
    BY <2>3 DEF Shutdown, Deactivate
  <2>4. CASE GoQuickpulse \/ Resume \/ Post \/ SilenceLasts
    BY <2>4 DEF GoQuickpulse, Resume, ActivateIfCollecting, Post, SilenceLasts, configVars
  <2>5. CASE UNCHANGED vars
    BY <2>5 DEF vars
  <2> QED
    BY <2>2, <2>3, <2>4, <2>5 DEF Next
<1> QED
  BY <1>1, <1>2, PTL

\* ReportsOwnConfiguration: the configuration in force is the one reported.
THEOREM OwnConfiguration == Spec => []ReportsOwnConfiguration
BY ConfigurationIsOwn, PTL DEF Spec
-----------------------------------------------------------------------------
(* Sums over finite sets *)

Pick(s) == CHOOSE x \in s : TRUE

\* The sum of f's values on S, and the recursion behind it, on the sets of D.
Total(f, S) == SumFunctionOnSet(f, S)

Sums(g, f, D) ==
  g = [s \in D |-> IF s = {} THEN 0 ELSE f[Pick(s)] + g[s \ {Pick(s)}]]

\* A nonempty set of naturals has a least element.
LEMMA LeastExists ==
  ASSUME NEW S \in SUBSET Nat, S # {}
  PROVE  \E x \in S : \A y \in S : x <= y
<1> DEFINE R == OpToRel(<, Nat)
<1>1. IsWellFoundedOn(R, Nat)
  BY NatLessThanWellFounded
<1>2. \A x, y \in Nat : <<y, x>> \in R <=> y < x
  BY DEF OpToRel
<1> HIDE DEF R
<1>3. PICK x \in S : \A y \in S : ~ (<<y, x>> \in R)
  BY <1>1, WFMin
<1>4. \A y \in S : x <= y
  <2>1. TAKE y \in S
  <2>2. x \in Nat /\ y \in Nat
    BY <1>3
  <2>3. ~ (y < x)
    BY <1>2, <1>3, <2>2
  <2> QED
    BY <2>2, <2>3
<1> QED
  BY <1>3, <1>4

\* A nonempty set of subsets of a finite set has a minimal member.
LEMMA MinimalExists ==
  ASSUME NEW U, IsFiniteSet(U), NEW Sets \in SUBSET (SUBSET U), Sets # {}
  PROVE  \E s \in Sets : \A t \in Sets : t \subseteq s => t = s
<1>1. IsWellFoundedOn(StrictSubsetOrdering(U), FiniteSubsetsOf(U))
  BY FS_StrictSubsetOrderingWellFounded
<1>2. FiniteSubsetsOf(U) = SUBSET U
  BY FS_FiniteSubsetsOfFinite
<1>3. PICK s \in Sets : \A t \in Sets : ~ (<<t, s>> \in StrictSubsetOrdering(U))
  BY <1>1, <1>2, WFMin
<1>4. \A t \in Sets : t \subseteq s => t = s
  BY <1>3 DEF StrictSubsetOrdering
<1> QED
  BY <1>3, <1>4

\* The recursion has a solution on the subsets of a finite set.
LEMMA SumsExist ==
  ASSUME NEW S, IsFiniteSet(S), NEW f
  PROVE  \E g : Sums(g, f, SUBSET S)
<1> DEFINE UpTo(n) == {s \in SUBSET S : Cardinality(s) <= n}
           Bad     == {n \in Nat : ~ \E g : Sums(g, f, UpTo(n))}
<1>1. \A s \in SUBSET S : IsFiniteSet(s) /\ Cardinality(s) \in Nat
                            /\ Cardinality(s) <= Cardinality(S)
  BY FS_Subset, FS_CardinalityType
<1>2. SUFFICES ASSUME Bad # {} PROVE FALSE
  <2>1. Cardinality(S) \in Nat
    BY FS_CardinalityType
  <2>2. UpTo(Cardinality(S)) = SUBSET S
    BY <1>1
  <2> QED
    BY <2>1, <2>2
<1>3. PICK m \in Bad : \A n \in Bad : m <= n
  BY <1>2, LeastExists
<1>4. CASE m = 0
  <2>1. \A s \in UpTo(0) : s = {}
    BY <1>1, FS_EmptySet
  <2>2. Sums([s \in UpTo(0) |-> 0], f, UpTo(0))
    BY <2>1 DEF Sums
  <2> QED
    BY <1>3, <1>4, <2>2
<1>5. CASE m # 0
  <2>1. m - 1 \in Nat /\ m - 1 \notin Bad
    <3>1. m \in Nat
      OBVIOUS
    <3> HIDE DEF Bad
    <3> QED
      BY <1>3, <1>5, <3>1
  <2>2. PICK g : Sums(g, f, UpTo(m - 1))
    BY <2>1
  <2> DEFINE h == [s \in UpTo(m) |-> IF s = {} THEN 0
                                     ELSE f[Pick(s)] + g[s \ {Pick(s)}]]
  <2>3. \A s \in UpTo(m) : s # {} => s \ {Pick(s)} \in UpTo(m - 1)
    <3>1. SUFFICES ASSUME NEW s \in UpTo(m), s # {} PROVE s \ {Pick(s)} \in UpTo(m - 1)
      OBVIOUS
    <3>2. Pick(s) \in s
      BY <3>1 DEF Pick
    <3>3. Cardinality(s \ {Pick(s)}) = Cardinality(s) - 1
      BY <1>1, <3>2, FS_RemoveElement
    <3> QED
      BY <1>1, <1>3, <3>3
  <2>4. \A s \in UpTo(m - 1) : h[s] = g[s]
    <3>1. \A s \in UpTo(m - 1) : s \in UpTo(m)
      BY <1>1, <1>3
    <3> QED
      BY <2>2, <3>1 DEF Sums
  <2>5. Sums(h, f, UpTo(m))
    <3> HIDE DEF UpTo
    <3> QED
      BY <2>3, <2>4 DEF Sums
  <2> QED
    BY <1>3, <2>5
<1> QED
  BY <1>4, <1>5

LEMMA TotalSums ==
  ASSUME NEW S, IsFiniteSet(S), NEW f
  PROVE  \E g : Sums(g, f, SUBSET S) /\ Total(f, S) = g[S]
<1>1. Total(f, S) = (CHOOSE g : Sums(g, f, SUBSET S))[S]
  BY DEF Total, SumFunctionOnSet, FoldFunctionOnSet, MapThenFoldSet, Sums, Pick
<1> QED
  BY <1>1, SumsExist

\* Solutions for functions that agree on S agree on its subsets.
LEMMA SumsAgree ==
  ASSUME NEW S, IsFiniteSet(S), NEW D, NEW E, S \in SUBSET D, S \in SUBSET E,
         NEW f, NEW g, \A x \in S : f[x] = g[x],
         NEW p, NEW q, Sums(p, f, SUBSET D), Sums(q, g, SUBSET E)
  PROVE  p[S] = q[S]
<1> DEFINE Bad == {s \in SUBSET S : p[s] # q[s]}
<1>1. SUFFICES ASSUME Bad # {} PROVE FALSE
  OBVIOUS
<1>2. PICK s \in Bad : \A t \in Bad : t \subseteq s => t = s
  <2>1. Bad \in SUBSET (SUBSET S)
    OBVIOUS
  <2> HIDE DEF Bad
  <2> QED
    BY <2>1, <1>1, MinimalExists
<1>3. s \in SUBSET S /\ s \in SUBSET D /\ s \in SUBSET E /\ p[s] # q[s]
  BY <1>2
<1>4. s # {}
  BY <1>3 DEF Sums
<1>5. Pick(s) \in s
  BY <1>4 DEF Pick
<1>6. p[s \ {Pick(s)}] = q[s \ {Pick(s)}]
  BY <1>2, <1>5
<1>7. p[s] = f[Pick(s)] + p[s \ {Pick(s)}] /\ q[s] = g[Pick(s)] + q[s \ {Pick(s)}]
  BY <1>3, <1>4 DEF Sums
<1>8. f[Pick(s)] = g[Pick(s)]
  BY <1>3, <1>5
<1> QED
  BY <1>3, <1>6, <1>7, <1>8

\* Only the values on the set count.
LEMMA TotalSame ==
  ASSUME NEW S, IsFiniteSet(S), NEW f, NEW g, \A x \in S : f[x] = g[x]
  PROVE  Total(f, S) = Total(g, S)
<1>1. PICK p : Sums(p, f, SUBSET S) /\ Total(f, S) = p[S]
  BY TotalSums
<1>2. PICK q : Sums(q, g, SUBSET S) /\ Total(g, S) = q[S]
  BY TotalSums
<1>3. p[S] = q[S]
  BY <1>1, <1>2, SumsAgree
<1> QED
  BY <1>1, <1>2, <1>3

LEMMA SumsOfSubset ==
  ASSUME NEW S, IsFiniteSet(S), NEW T \in SUBSET S, NEW f,
         NEW p, NEW q, Sums(p, f, SUBSET S), Sums(q, f, SUBSET T)
  PROVE  p[T] = q[T]
<1>1. IsFiniteSet(T) /\ T \in SUBSET T
  BY FS_Subset
<1>2. ASSUME NEW g, g = f PROVE p[T] = q[T]
  <2>1. \A x \in T : f[x] = g[x]
    BY <1>2
  <2>2. Sums(q, g, SUBSET T)
    BY <1>2
  <2> QED
    BY ONLY <1>1, <2>1, <2>2, T \in SUBSET S, Sums(p, f, SUBSET S), SumsAgree
<1> QED
  BY <1>2

LEMMA TotalStep ==
  ASSUME NEW S, IsFiniteSet(S), NEW f
  PROVE  Total(f, S) = IF S = {} THEN 0 ELSE f[Pick(S)] + Total(f, S \ {Pick(S)})
<1>1. PICK g : Sums(g, f, SUBSET S) /\ Total(f, S) = g[S]
  BY TotalSums
<1> DEFINE T == S \ {Pick(S)}
<1>2. T \in SUBSET S /\ IsFiniteSet(T)
  BY FS_Subset
<1>3. PICK h : Sums(h, f, SUBSET T) /\ Total(f, T) = h[T]
  BY <1>2, TotalSums
<1>4. g[T] = h[T]
  <2> HIDE DEF T
  <2> QED
    BY <1>1, <1>2, <1>3, SumsOfSubset
<1>5. g[S] = IF S = {} THEN 0 ELSE f[Pick(S)] + g[T]
  BY <1>1 DEF Sums
<1> QED
  BY <1>1, <1>3, <1>4, <1>5

\* Sums of integers are integers, of naturals naturals.
LEMMA TotalType ==
  ASSUME NEW S, IsFiniteSet(S), NEW f, NEW N \in {Nat, Int}, \A x \in S : f[x] \in N
  PROVE  Total(f, S) \in N
<1> DEFINE Bad == {s \in SUBSET S : Total(f, s) \notin N}
<1>1. SUFFICES ASSUME Bad # {} PROVE FALSE
  OBVIOUS
<1>2. PICK s \in Bad : \A t \in Bad : t \subseteq s => t = s
  <2>1. Bad \in SUBSET (SUBSET S)
    OBVIOUS
  <2> HIDE DEF Bad
  <2> QED
    BY <2>1, <1>1, MinimalExists
<1>3. IsFiniteSet(s) /\ s \in SUBSET S
  BY <1>2, FS_Subset
<1>4. Total(f, s) = IF s = {} THEN 0 ELSE f[Pick(s)] + Total(f, s \ {Pick(s)})
  BY <1>3, TotalStep
<1>5. 0 \in N /\ \A x, y \in N : x + y \in N
  OBVIOUS
<1>6. s # {} /\ Pick(s) \in s
  BY <1>2, <1>4, <1>5 DEF Pick
<1>7. Total(f, s \ {Pick(s)}) \in N
  BY <1>2, <1>6
<1>8. f[Pick(s)] \in N
  BY <1>3, <1>6
<1> QED
  BY <1>2, <1>4, <1>5, <1>6, <1>7, <1>8

\* Whatever element is taken away first, the sum of the others is left.
LEMMA TotalRemove ==
  ASSUME NEW S, IsFiniteSet(S), NEW f, \A x \in S : f[x] \in Int, NEW r \in S
  PROVE  Total(f, S) = f[r] + Total(f, S \ {r})
<1> DEFINE Bad == {s \in SUBSET S : \E x \in s : Total(f, s) # f[x] + Total(f, s \ {x})}
<1>1. SUFFICES ASSUME Bad # {} PROVE FALSE
  OBVIOUS
<1>2. PICK s \in Bad : \A t \in Bad : t \subseteq s => t = s
  <2>1. Bad \in SUBSET (SUBSET S)
    OBVIOUS
  <2> HIDE DEF Bad
  <2> QED
    BY <2>1, <1>1, MinimalExists
<1>3. PICK x \in s : Total(f, s) # f[x] + Total(f, s \ {x})
  BY <1>2
<1> DEFINE p == Pick(s)
           rest == s \ {p, x}
<1>4. p \in s
  BY <1>3 DEF Pick
<1>5. \A t \in SUBSET s : IsFiniteSet(t) /\ Total(f, t) \in Int
  <2>1. TAKE t \in SUBSET s
  <2>2. t \in SUBSET S /\ IsFiniteSet(t)
    BY <1>2, FS_Subset
  <2>3. \A y \in t : f[y] \in Int
    BY <2>2
  <2> QED
    BY <2>2, <2>3, TotalType
<1>6. Total(f, s) = f[p] + Total(f, s \ {p})
  BY <1>3, <1>5, TotalStep
<1>7. p # x
  BY <1>3, <1>6
<1>8. Total(f, s \ {p}) = f[x] + Total(f, rest)
  <2>1. s \ {p} \notin Bad /\ x \in s \ {p} /\ s \ {p} \in SUBSET S
    BY <1>2, <1>4, <1>7
  <2>2. (s \ {p}) \ {x} = rest
    OBVIOUS
  <2> HIDE DEF p, rest
  <2> QED
    BY <2>1, <2>2
<1>9. Total(f, s \ {x}) = f[p] + Total(f, rest)
  <2>1. s \ {x} \notin Bad /\ p \in s \ {x} /\ s \ {x} \in SUBSET S
    BY <1>2, <1>3, <1>4, <1>7
  <2>2. (s \ {x}) \ {p} = rest
    OBVIOUS
  <2> HIDE DEF p, rest
  <2> QED
    BY <2>1, <2>2
<1>10. Total(f, rest) \in Int /\ f[p] \in Int /\ f[x] \in Int
  BY <1>2, <1>4, <1>5
<1> HIDE DEF p, rest
<1> QED
  BY <1>3, <1>6, <1>8, <1>9, <1>10

LEMMA SumIsTotal ==
  ASSUME NEW f
  PROVE  SumFunction(f) = Total(f, DOMAIN f)
BY DEF SumFunction, Total

LEMMA SumOfNone ==
  ASSUME NEW f, DOMAIN f = {}
  PROVE  SumFunction(f) = 0
BY SumIsTotal, TotalStep, FS_EmptySet

\* One more element, and the sum grows by its value.
LEMMA SumOfOneMore ==
  ASSUME NEW f, NEW g, IsFiniteSet(DOMAIN f), NEW x, x \notin DOMAIN f,
         DOMAIN g = DOMAIN f \cup {x}, \A y \in DOMAIN f : g[y] = f[y],
         \A y \in DOMAIN f : f[y] \in Int, g[x] \in Int
  PROVE  SumFunction(g) = SumFunction(f) + g[x] /\ SumFunction(f) \in Int
<1> DEFINE D == DOMAIN f
           E == DOMAIN g
<1>1. IsFiniteSet(E) /\ E \ {x} = D /\ x \in E
  BY FS_AddElement
<1>2. \A y \in E : g[y] \in Int
  OBVIOUS
<1>3. Total(g, E) = g[x] + Total(g, E \ {x})
  <2> HIDE DEF E
  <2> QED
    BY <1>1, <1>2, TotalRemove
<1>4. Total(g, D) = Total(f, D)
  BY TotalSame
<1>5. Total(f, D) \in Int
  BY TotalType
<1> HIDE DEF D, E
<1>6. Total(g, E) = g[x] + Total(f, D)
  BY <1>1, <1>3, <1>4
<1>7. Total(g, E) = Total(f, D) + g[x]
  BY <1>5, <1>6
<1> QED
  BY <1>5, <1>7, SumIsTotal DEF D, E

-----------------------------------------------------------------------------
(* What is parsed of a configuration *)

Types == {"Request", "Dependency", "Exception", "Trace"}

\* Filters that refer to no columns but those of a type.
OfType(filters, type) ==
  \A i \in DOMAIN filters :
    filters[i].field.kind = "column" => filters[i].field.name \in KnownColumns[type]

Counting(S, i) == Cardinality({j \in S : j <= i})

LEMMA UpToNFinite ==
  ASSUME NEW N \in Nat, NEW S \in SUBSET (1 .. N)
  PROVE  /\ IsFiniteSet(S) /\ Cardinality(S) \in Nat
         /\ \A j \in S : j \in Nat /\ 1 <= j /\ j <= N
<1>1. IsFiniteSet(1 .. N)
  BY FS_Interval
<1>2. \A j \in 1 .. N : j \in Nat /\ 1 <= j /\ j <= N
  OBVIOUS
<1> QED
  BY <1>1, <1>2, FS_Subset, FS_CardinalityType

LEMMA CountingSteps ==
  ASSUME NEW N \in Nat, NEW S \in SUBSET (1 .. N), NEW i \in 1 .. N
  PROVE  /\ Counting(S, i) \in Nat /\ Counting(S, i - 1) \in Nat
         /\ Counting(S, i) = Counting(S, i - 1) + (IF i \in S THEN 1 ELSE 0)
<1> DEFINE A == {j \in S : j <= i - 1}
           B == {j \in S : j <= i}
<1>1. IsFiniteSet(S) /\ \A j \in S : j \in Nat
  BY UpToNFinite
<1>2. IsFiniteSet(A) /\ IsFiniteSet(B)
  BY <1>1, FS_Subset
<1>3. Cardinality(A) \in Nat /\ Cardinality(B) \in Nat
  BY <1>2, FS_CardinalityType
<1>4. CASE i \in S
  <2>1. B = A \cup {i} /\ i \notin A
    <3>1. \A j \in S : j <= i <=> (j <= i - 1 \/ j = i)
      BY <1>1
    <3>2. i <= i /\ ~(i <= i - 1)
      OBVIOUS
    <3> QED
      BY <1>4, <3>1, <3>2
  <2>2. Cardinality(A \cup {i}) = Cardinality(A) + 1
    <3> HIDE DEF A, B
    <3> QED
      BY <1>2, <2>1, FS_AddElement
  <2> QED
    BY <1>3, <1>4, <2>1, <2>2 DEF Counting
<1>5. CASE i \notin S
  <2>1. B = A
    <3>1. \A j \in S : j <= i <=> (j <= i - 1 \/ j = i)
      BY <1>1
    <3> QED
      BY <1>5, <3>1
  <2> QED
    BY <1>3, <1>5, <2>1 DEF Counting
<1> QED
  BY <1>4, <1>5

\* Every rank up to the cardinality is that of an element.
LEMMA NthExists ==
  ASSUME NEW N \in Nat, NEW S \in SUBSET (1 .. N), NEW n \in 1 .. Cardinality(S)
  PROVE  \E i \in S : Counting(S, i) = n
<1> DEFINE reach == {i \in 0 .. N : n <= Counting(S, i)}
<1>1. Cardinality(S) \in Nat /\ \A j \in S : j \in Nat /\ 1 <= j /\ j <= N
  BY UpToNFinite
<1>2. Counting(S, N) = Cardinality(S) /\ Counting(S, 0) = 0
  <2>1. \A j \in S : j <= N /\ ~(j <= 0)
    BY <1>1
  <2>2. {j \in S : j <= N} = S /\ {j \in S : j <= 0} = {}
    BY <2>1
  <2> QED
    BY <2>2, FS_EmptySet DEF Counting
<1>3. PICK i \in reach : \A j \in reach : i <= j
  <2>1. N \in reach
    BY <1>1, <1>2
  <2>2. reach \in SUBSET Nat
    OBVIOUS
  <2> HIDE DEF reach
  <2> QED
    BY <2>1, <2>2, LeastExists
<1>4. i \in 1 .. N
  BY <1>1, <1>2, <1>3
<1>5. i - 1 \notin reach /\ i - 1 \in 0 .. N
  BY <1>3, <1>4
<1>6. /\ Counting(S, i) \in Nat /\ Counting(S, i - 1) \in Nat
      /\ Counting(S, i) = Counting(S, i - 1) + (IF i \in S THEN 1 ELSE 0)
  BY <1>4, CountingSteps
<1>7. n <= Counting(S, i) /\ ~(n <= Counting(S, i - 1))
  BY <1>3, <1>5
<1> QED
  BY <1>6, <1>7

\* A valid metric as it is kept.
Renamed(metric) ==
  [metric EXCEPT !.groups =
     [g \in DOMAIN @ |-> renameExceptionFieldNamesForFiltering(@[g])]]

Kept(metrics, type) ==
  {i \in DOMAIN metrics : /\ metrics[i].telemetryType = type
                          /\ ValidMetric(metrics[i]) /\ IsFirstOfItsId(metrics, i)}

\* Where each metric of a list comes from: at keeps the order.
Comes(list, at, metrics, type) ==
  /\ Len(list) \in Nat /\ DOMAIN list = 1 .. Len(list)
  /\ \A n \in 1 .. Len(list) :
       at[n] \in Kept(metrics, type) /\ list[n] = Renamed(metrics[at[n]])
  /\ \A i \in Kept(metrics, type) : \E n \in 1 .. Len(list) : at[n] = i
  /\ \A m, n \in 1 .. Len(list) : at[m] = at[n] => m = n

LEMMA ParsedComes ==
  ASSUME NEW c, Len(c.metrics) \in Nat, DOMAIN c.metrics = 1 .. Len(c.metrics), NEW type
  PROVE  \E at : Comes(parseMetricFilterConfiguration(c, type), at, c.metrics, type)
<1> DEFINE metrics == c.metrics
           N == Len(metrics)
           S == Kept(metrics, type)
           nth(n) == CHOOSE i \in S : Counting(S, i) = n
           list == parseMetricFilterConfiguration(c, type)
           C == Cardinality(S)
           at == [n \in 1 .. C |-> nth(n)]
<1>1. N \in Nat /\ S \in SUBSET (1 .. N)
  BY DEF Kept
<1>2. IsFiniteSet(S) /\ C \in Nat
  <2> HIDE DEF S, N
  <2> QED
    BY <1>1, UpToNFinite
<1>3. list = [n \in 1 .. C |-> Renamed(metrics[nth(n)])]
  BY DEF parseMetricFilterConfiguration, Kept, Counting, Renamed
<1>4. ASSUME NEW n \in 1 .. C PROVE nth(n) \in S /\ Counting(S, nth(n)) = n
  <2> HIDE DEF S, N
  <2>1. \E i \in S : Counting(S, i) = n
    BY <1>1, NthExists
  <2> QED
    BY <2>1
<1>5. ASSUME NEW i \in S PROVE \E n \in 1 .. C : nth(n) = i
  <2>1. Counting(S, i) \in 1 .. C
    <3>1. {j \in S : j <= i} \in SUBSET S /\ i \in {j \in S : j <= i}
      BY <1>1
    <3>2. IsFiniteSet({j \in S : j <= i})
      BY <1>2, <3>1, FS_Subset
    <3>3. Counting(S, i) \in Nat /\ Counting(S, i) <= C
      BY <1>2, <3>1, FS_Subset, FS_CardinalityType DEF Counting
    <3>4. Counting(S, i) # 0
      BY <3>1, <3>2, FS_EmptySet DEF Counting
    <3> QED
      BY <1>2, <3>3, <3>4
  <2> DEFINE k == nth(Counting(S, i))
  <2>2. k \in S /\ Counting(S, k) = Counting(S, i)
    BY <2>1, <1>4
  <2>3. ASSUME NEW x \in S, NEW y \in S, x < y PROVE Counting(S, x) # Counting(S, y)
    <3> DEFINE X == {j \in S : j <= x}
               Y == {j \in S : j <= y}
    <3>1. X \in SUBSET Y /\ y \in Y /\ y \notin X
      BY <1>1, <2>3
    <3>2. IsFiniteSet(Y)
      BY <1>2, FS_Subset
    <3>3. Cardinality(X) < Cardinality(Y)
      <4> HIDE DEF X, Y
      <4>1. X # Y
        BY <3>1
      <4>2. Cardinality(X) <= Cardinality(Y) /\ IsFiniteSet(X)
            /\ (Cardinality(X) = Cardinality(Y) => X = Y)
        BY <3>1, <3>2, FS_Subset
      <4>3. Cardinality(X) \in Nat /\ Cardinality(Y) \in Nat
        BY <3>2, <4>2, FS_CardinalityType
      <4> QED
        BY <4>1, <4>2, <4>3
    <3>4. Cardinality(X) \in Nat /\ Cardinality(Y) \in Nat
      <4>1. IsFiniteSet(X)
        BY <1>2, FS_Subset
      <4> QED
        BY <3>2, <4>1, FS_CardinalityType
    <3> QED
      BY <3>3, <3>4 DEF Counting
  <2>4. k = i
    <3>1. k \in Nat /\ i \in Nat
      BY <1>1, <2>2
    <3> HIDE DEF k, S
    <3> QED
      BY <3>1, <2>2, <2>3
  <2> QED
    BY <2>1, <2>4
<1>6. Len(list) = C /\ DOMAIN list = 1 .. C
  BY <1>2, <1>3
<1>7. ASSUME NEW m \in 1 .. C, NEW n \in 1 .. C, nth(m) = nth(n) PROVE m = n
  BY <1>4, <1>7
<1>8. \A n \in 1 .. C : at[n] = nth(n) /\ list[n] = Renamed(metrics[nth(n)])
  BY <1>3
<1> HIDE DEF list, S, nth, C, at, metrics
<1>9. \A i \in S : \E n \in 1 .. C : at[n] = i
  BY <1>5, <1>8
<1>10. Comes(list, at, metrics, type)
  <2>1. \A n \in 1 .. Len(list) : at[n] \in S /\ list[n] = Renamed(metrics[at[n]])
    BY <1>4, <1>6, <1>8
  <2>2. \A m, n \in 1 .. Len(list) : at[m] = at[n] => m = n
    BY <1>6, <1>7, <1>8
  <2> QED
    BY <1>2, <1>6, <1>9, <2>1, <2>2 DEF Comes, S
<1> QED
  BY <1>10 DEF list, metrics

\* Renaming leaves the columns of the type only.
LEMMA RenamedOfType ==
  ASSUME NEW filters, \A i \in DOMAIN filters : IsFilter(filters[i]), NEW type \in Types,
         ValidFilters(filters, type)
  PROVE  OfType(renameExceptionFieldNamesForFiltering(filters), type)
<1> DEFINE renamed == renameExceptionFieldNamesForFiltering(filters)
<1>1. DOMAIN renamed = DOMAIN filters
  BY DEF renameExceptionFieldNamesForFiltering
<1>2. ASSUME NEW i \in DOMAIN filters, renamed[i].field.kind = "column"
      PROVE  renamed[i].field.name \in KnownColumns[type]
  <2>1. /\ DOMAIN filters[i] = {"field", "predicate", "comparand"}
        /\ DOMAIN filters[i].field = {"kind", "name"}
    BY DEF IsFilter
  <2>2. validateFieldNames(filters[i].field, type)
    BY DEF ValidFilters
  <2>3. CASE filters[i].field.kind = "exception"
    <3>1. renamed[i] = [filters[i] EXCEPT !.field.kind = "column"]
      BY <2>3 DEF renameExceptionFieldNamesForFiltering
    <3>2. renamed[i].field.name = filters[i].field.name
      BY <2>1, <3>1
    <3> QED
      BY <2>2, <2>3, <3>2 DEF validateFieldNames
  <2>4. CASE filters[i].field.kind # "exception"
    <3>1. renamed[i] = filters[i]
      BY <2>4 DEF renameExceptionFieldNamesForFiltering
    <3> QED
      BY <2>2, <3>1, <1>2 DEF validateFieldNames
  <2> QED
    BY <2>3, <2>4
<1> HIDE DEF renamed
<1> QED
  BY <1>1, <1>2 DEF OfType, renamed

LEMMA NeverThrows ==
  ASSUME NEW filters, NEW type, OfType(filters, type), NEW data,
         KnownColumns[type] \subseteq DOMAIN data.fields
  PROVE  ~GroupThrows(filters, data)
BY DEF OfType, GroupThrows, Throws

LEMMA StreamsOfType ==
  ASSUME NEW e \in Etags, NEW type \in Types, NEW id \in DOMAIN ParsedStreams[e][type],
         NEW group \in ParsedStreams[e][type][id]
  PROVE  OfType(group, type)
<1> DEFINE c == Configurations[e]
<1>1. type \in DOMAIN KnownColumns
  BY DEF Types, KnownColumns
<1>2. ParsedStreams[e][type] = parseDocumentFilterConfiguration(c, type)
  BY <1>1 DEF ParsedStreams
<1> DEFINE valid(i) == {j \in DOMAIN c.streams[i].groups :
                           /\ c.streams[i].groups[j].telemetryType = type
                           /\ ValidGroup(c.streams[i].groups[j])}
           named(n) == {i \in DOMAIN c.streams : valid(i) # {} /\ c.streams[i].id = n}
           parsed(i) == {renameExceptionFieldNamesForFiltering(c.streams[i].groups[j].filters) :
                           j \in valid(i)}
<1>3. ParsedStreams[e][type][id] = UNION {parsed(i) : i \in named(id)}
  <2>1. {s \in {i \in DOMAIN c.streams : valid(i) # {}} : c.streams[s].id = id} = named(id)
    OBVIOUS
  <2> HIDE DEF c
  <2> QED
    BY <1>2, <2>1 DEF parseDocumentFilterConfiguration
<1>4. PICK i \in named(id) : group \in parsed(i)
  <2> HIDE DEF named, parsed
  <2> QED
    BY <1>3
<1>5. PICK j \in DOMAIN c.streams[i].groups :
        /\ c.streams[i].groups[j].telemetryType = type /\ ValidGroup(c.streams[i].groups[j])
        /\ group = renameExceptionFieldNamesForFiltering(c.streams[i].groups[j].filters)
  BY <1>4
<1> DEFINE filters == c.streams[i].groups[j].filters
<1>6. \A k \in DOMAIN filters : IsFilter(filters[k])
  BY MetricHandlerAssumption DEF MetricHandlerAssumption
<1>7. ValidFilters(filters, type)
  BY <1>5 DEF ValidGroup
<1> HIDE DEF filters
<1>8. OfType(renameExceptionFieldNamesForFiltering(filters), type)
  BY <1>6, <1>7, RenamedOfType
<1> QED
  BY <1>5, <1>8 DEF filters

LEMMA MetricsCome ==
  ASSUME NEW e \in Etags, NEW type \in Types
  PROVE  \E at : Comes(ParsedMetrics[e][type], at, Configurations[e].metrics, type)
<1>1. ParsedMetrics[e][type] = parseMetricFilterConfiguration(Configurations[e], type)
  BY DEF ParsedMetrics, Types, KnownColumns
<1>2. /\ Len(Configurations[e].metrics) \in Nat
      /\ DOMAIN Configurations[e].metrics = 1 .. Len(Configurations[e].metrics)
  BY MetricHandlerAssumption DEF MetricHandlerAssumption
<1> QED
  BY <1>1, <1>2, ParsedComes

\* A metric that is kept differs from the configuration's in its filters only.
LEMMA RenamedMetric ==
  ASSUME NEW metric, IsMetric(metric), ValidMetric(metric), NEW type \in Types,
         metric.telemetryType = type
  PROVE  /\ Renamed(metric).id = metric.id /\ Renamed(metric).telemetryType = type
         /\ \A g \in DOMAIN Renamed(metric).groups : OfType(Renamed(metric).groups[g], type)
<1> DEFINE groups == [g \in DOMAIN metric.groups |->
                        renameExceptionFieldNamesForFiltering(metric.groups[g])]
<1>1. Renamed(metric) = [metric EXCEPT !.groups = groups]
  BY DEF Renamed
<1>2. DOMAIN metric = {"id", "telemetryType", "groups", "projection", "aggregation"}
  BY DEF IsMetric
<1>3. /\ Renamed(metric).id = metric.id /\ Renamed(metric).telemetryType = type
      /\ Renamed(metric).groups = groups
  <2> HIDE DEF groups
  <2> QED
    BY <1>1, <1>2
<1>4. ASSUME NEW g \in DOMAIN metric.groups PROVE OfType(groups[g], type)
  <2>1. ValidFilters(metric.groups[g], type)
    BY DEF ValidMetric
  <2>2. \A j \in DOMAIN metric.groups[g] : IsFilter(metric.groups[g][j])
    BY DEF IsMetric
  <2> QED
    BY <2>1, <2>2, RenamedOfType
<1> QED
  BY <1>3, <1>4

-----------------------------------------------------------------------------
(* Folds *)

\* What holds of 0, and of n + 1 if of n, holds of all up to N: `held` are those it holds of.
LEMMA Upwards ==
  ASSUME NEW N \in Nat, NEW held, 0 \in held, \A n \in 1 .. N : n - 1 \in held => n \in held
  PROVE  \A n \in 0 .. N : n \in held
<1> DEFINE bad == {n \in 0 .. N : n \notin held}
<1>1. SUFFICES ASSUME bad # {} PROVE FALSE
  OBVIOUS
<1>2. bad \in SUBSET Nat
  OBVIOUS
<1>3. PICK n \in bad : \A m \in bad : n <= m
  <2> HIDE DEF bad
  <2> QED
    BY <1>1, <1>2, LeastExists
<1>4. n \in 1 .. N /\ n - 1 \in 0 .. N /\ ~(n <= n - 1)
  OBVIOUS
<1>5. n - 1 \notin bad
  BY <1>3, <1>4
<1> QED
  BY <1>3, <1>4, <1>5

\* The greatest of the first n positions.
LEMMA MaxOfFirst ==
  ASSUME NEW n \in Nat \ {0}
  PROVE  Max(1 .. n) = n /\ (1 .. n) \ {n} = 1 .. (n - 1)
<1>1. n \in 1 .. n /\ \A y \in 1 .. n : n >= y
  OBVIOUS
<1>2. \A x \in 1 .. n : (\A y \in 1 .. n : x >= y) => x = n
  OBVIOUS
<1> QED
  BY <1>1, <1>2 DEF Max

\* One step of either fold: over derived metrics, for a row, or over the exceptions of a span.
Step(kind, t, x, of) ==
  IF kind = "metric" THEN CreateProjection(t, x, of) ELSE RecordEvent(t, x, of)

\* The recursion behind a fold over the first n of the items.
Steps(f, kind, base, items, of, n) ==
  f = [s \in SUBSET (1 .. n) |->
         IF s = {} THEN base ELSE Step(kind, f[s \ {Max(s)}], items[Max(s)], of)]

LEMMA StepsExist ==
  ASSUME NEW kind, NEW base, NEW items, NEW of, NEW N \in Nat
  PROVE  \E f : Steps(f, kind, base, items, of, N)
<1> DEFINE held == {n \in 0 .. N : \E f : Steps(f, kind, base, items, of, n)}
<1>1. 0 \in held
  <2> DEFINE f == [s \in SUBSET (1 .. 0) |-> base]
  <2>1. \A s \in SUBSET (1 .. 0) : s = {}
    OBVIOUS
  <2>2. Steps(f, kind, base, items, of, 0)
    BY <2>1 DEF Steps
  <2> QED
    BY <2>2
<1>2. ASSUME NEW n \in 1 .. N, n - 1 \in held PROVE n \in held
  <2>1. PICK f : Steps(f, kind, base, items, of, n - 1)
    BY <1>2
  <2> DEFINE g == [s \in SUBSET (1 .. n) |->
                     IF n \in s THEN Step(kind, f[s \ {n}], items[n], of) ELSE f[s]]
  <2>2. ASSUME NEW s \in SUBSET (1 .. n)
        PROVE  g[s] = IF s = {} THEN base ELSE Step(kind, g[s \ {Max(s)}], items[Max(s)], of)
    <3>1. CASE n \in s
      <4>1. Max(s) = n
        <5>1. \A y \in s : n >= y
          OBVIOUS
        <5>2. \A x \in s : (\A y \in s : x >= y) => x = n
          BY <3>1
        <5> QED
          BY <3>1, <5>1, <5>2 DEF Max
      <4>2. g[s \ {n}] = f[s \ {n}]
        OBVIOUS
      <4>3. g[s] = Step(kind, f[s \ {n}], items[n], of)
        BY <3>1
      <4> HIDE DEF g
      <4> QED
        BY <3>1, <4>1, <4>2, <4>3
    <3>2. CASE n \notin s
      <4>1. s \in SUBSET (1 .. (n - 1))
        BY <3>2
      <4>2. f[s] = IF s = {} THEN base
                   ELSE Step(kind, f[s \ {Max(s)}], items[Max(s)], of)
        BY <2>1, <4>1 DEF Steps
      <4>3. g[s] = f[s] /\ g[s \ {Max(s)}] = f[s \ {Max(s)}]
        BY <3>2
      <4> HIDE DEF g
      <4> QED
        BY <4>2, <4>3
    <3> QED
      BY <3>1, <3>2
  <2>3. Steps(g, kind, base, items, of, n)
    BY <2>2 DEF Steps
  <2> QED
    BY <2>3
<1>3. \A n \in 0 .. N : n \in held
  <2> HIDE DEF held
  <2> QED
    BY <1>1, <1>2, Upwards
<1> QED
  BY <1>3

\* The telemetry after each of the items.
OneByOne(at, kind, base, items, of) ==
  /\ at[0] = base
  /\ \A n \in 1 .. Len(items) : at[n] = Step(kind, at[n - 1], items[n], of)

IsList(items) == Len(items) \in Nat /\ DOMAIN items = 1 .. Len(items)

\* The telemetry at the end.
Folded(kind, base, items, of) ==
  (CHOOSE f : Steps(f, kind, base, items, of, Len(items)))[1 .. Len(items)]

LEMMA SteppedOneByOne ==
  ASSUME NEW kind, NEW base, NEW items, NEW of, IsList(items)
  PROVE  \E at : OneByOne(at, kind, base, items, of) /\ Folded(kind, base, items, of) = at[Len(items)]
<1> DEFINE N == Len(items)
           end == Folded(kind, base, items, of)
<1>1. N \in Nat
  BY DEF IsList
<1>2. PICK f : Steps(f, kind, base, items, of, N) /\ end = f[1 .. N]
  BY <1>1, StepsExist DEF Folded
<1> DEFINE at == [n \in 0 .. N |-> f[1 .. n]]
<1>3. at[0] = base /\ at[N] = end
  BY <1>1, <1>2 DEF Steps
<1>4. ASSUME NEW n \in 1 .. N PROVE at[n] = Step(kind, at[n - 1], items[n], of)
  <2>1. Max(1 .. n) = n /\ (1 .. n) \ {n} = 1 .. (n - 1)
    BY <1>1, MaxOfFirst
  <2>2. f[1 .. n] = Step(kind, f[(1 .. n) \ {Max(1 .. n)}], items[Max(1 .. n)], of)
    <3>1. 1 .. n \in SUBSET (1 .. N) /\ 1 .. n # {}
      <4>1. N \in Nat /\ n \in 1 .. n /\ \A x \in 1 .. n : x \in 1 .. N
        BY <1>1
      <4> HIDE DEF N
      <4> QED
        BY <4>1
    <3> QED
      BY <1>2, <3>1 DEF Steps
  <2>3. n \in 0 .. N /\ n - 1 \in 0 .. N
    BY <1>1
  <2>4. at[n] = f[1 .. n] /\ at[n - 1] = f[1 .. (n - 1)]
    BY <2>3
  <2> HIDE DEF at
  <2> QED
    BY <2>1, <2>2, <2>4
<1> HIDE DEF at
<1>5. OneByOne(at, kind, base, items, of)
  BY <1>3, <1>4 DEF OneByOne
<1> QED
  BY <1>3, <1>5

LEMMA MetricsOneByOne ==
  ASSUME NEW t, NEW type, NEW data, IsList(validDerivedMetrics(type))
  PROVE  \E at : /\ OneByOne(at, "metric", t, validDerivedMetrics(type), data)
                 /\ checkMetricFilterAndCreateProjection(t, type, data)
                      = at[Len(validDerivedMetrics(type))]
<1> DEFINE items == validDerivedMetrics(type)
           end == checkMetricFilterAndCreateProjection(t, type, data)
<1>1. DOMAIN items = 1 .. Len(items)
  BY DEF IsList
<1> HIDE DEF items
<1>2. end = Folded("metric", t, items, data)
  BY <1>1 DEF Folded, checkMetricFilterAndCreateProjection, FoldLeft, MapThenFoldSet, Steps,
              Step, items
<1> HIDE DEF end
<1>3. \E at : OneByOne(at, "metric", t, items, data) /\ end = at[Len(items)]
  BY <1>2, SteppedOneByOne DEF items
<1> QED
  BY <1>3 DEF items, end

\* A span's exceptions, after the span itself.
EventsRecorded(t, span) ==
  FoldLeft(LAMBDA t3, event : RecordEvent(t3, event, span), t, span.exceptions)

LEMMA EventsOneByOne ==
  ASSUME NEW t, NEW span, IsList(span.exceptions)
  PROVE  \E at : /\ OneByOne(at, "exception", t, span.exceptions, span)
                 /\ EventsRecorded(t, span) = at[Len(span.exceptions)]
<1> DEFINE items == span.exceptions
           end == EventsRecorded(t, span)
<1>1. DOMAIN items = 1 .. Len(items)
  BY DEF IsList
<1>2. end = Folded("exception", t, items, span)
  BY <1>1 DEF Folded, EventsRecorded, FoldLeft, MapThenFoldSet, Steps, Step
<1> HIDE DEF end
<1>3. \E at : OneByOne(at, "exception", t, items, span) /\ end = at[Len(items)]
  BY <1>2, SteppedOneByOne
<1> QED
  BY <1>3 DEF end

-----------------------------------------------------------------------------
(* Filters never touch the counters *)

IsTelemetry(t) ==
  /\ DOMAIN t = {"documents", "projections", "errors", "totals", "thrown"}
  /\ t.thrown \in BOOLEAN

\* What filters may make of telemetry: the counters stay, and what was thrown.
Filtered(t, u) == IsTelemetry(u) /\ u.totals = t.totals /\ (t.thrown => u.thrown)

\* Nothing is thrown if nothing throws.
FilteredBy(t, u, quiet) == Filtered(t, u) /\ (quiet => u.thrown = t.thrown)

LEMMA FilteredNot ==
  ASSUME NEW t, IsTelemetry(t), NEW quiet
  PROVE  FilteredBy(t, t, quiet)
BY DEF IsTelemetry, Filtered, FilteredBy

LEMMA FilteredThrown ==
  ASSUME NEW t, IsTelemetry(t), NEW quiet, quiet => t.thrown
  PROVE  FilteredBy(t, [t EXCEPT !.thrown = TRUE], quiet)
BY DEF IsTelemetry, Filtered, FilteredBy

LEMMA FilteredDocuments ==
  ASSUME NEW t, IsTelemetry(t), NEW quiet, NEW x
  PROVE  FilteredBy(t, [t EXCEPT !.documents = x], quiet)
BY DEF IsTelemetry, Filtered, FilteredBy

LEMMA FilteredErrors ==
  ASSUME NEW t, IsTelemetry(t), NEW quiet, NEW x
  PROVE  FilteredBy(t, [t EXCEPT !.errors = x], quiet)
BY DEF IsTelemetry, Filtered, FilteredBy

LEMMA FilteredProjections ==
  ASSUME NEW t, IsTelemetry(t), NEW quiet, NEW x
  PROVE  FilteredBy(t, [t EXCEPT !.projections = x], quiet)
BY DEF IsTelemetry, Filtered, FilteredBy

LEMMA FilteredTwice ==
  ASSUME NEW t, NEW u, NEW w, Filtered(t, u), Filtered(u, w)
  PROVE  Filtered(t, w)
BY DEF Filtered

\* No filter of the configuration throws on the data of an item of the type.
QuietStreams(type, data) ==
  \A id \in DOMAIN DocumentStreams(type) : \A group \in DocumentStreams(type)[id] :
    ~GroupThrows(group, data)

QuietMetrics(type, data) ==
  \A n \in DOMAIN validDerivedMetrics(type) : ~MetricThrows(validDerivedMetrics(type)[n], data)

LEMMA Quiet ==
  ASSUME config \in Etags \cup {None}, NEW type \in Types, NEW data,
         KnownColumns[type] \subseteq DOMAIN data.fields
  PROVE  QuietStreams(type, data) /\ QuietMetrics(type, data)
<1>1. CASE config = None
  <2>1. DOMAIN DocumentStreams(type) = {} /\ DOMAIN validDerivedMetrics(type) = {}
    BY <1>1 DEF DocumentStreams, validDerivedMetrics
  <2> QED
    BY <2>1 DEF QuietStreams, QuietMetrics
<1>2. CASE config \in Etags /\ config # None
  <2>1. /\ DocumentStreams(type) = ParsedStreams[config][type]
        /\ validDerivedMetrics(type) = ParsedMetrics[config][type]
    BY <1>2 DEF DocumentStreams, validDerivedMetrics
  <2>2. QuietStreams(type, data)
    <3>1. ASSUME NEW id \in DOMAIN DocumentStreams(type), NEW group \in DocumentStreams(type)[id]
          PROVE  ~GroupThrows(group, data)
      <4>1. OfType(group, type)
        BY <1>2, <2>1, StreamsOfType
      <4> QED
        BY <4>1, NeverThrows
    <3> QED
      BY <3>1 DEF QuietStreams
  <2>3. QuietMetrics(type, data)
    <3> DEFINE metrics == Configurations[config].metrics
               list == ParsedMetrics[config][type]
    <3>1. PICK at : Comes(list, at, metrics, type)
      BY <1>2, MetricsCome
    <3>2. ASSUME NEW n \in DOMAIN list PROVE ~MetricThrows(list[n], data)
      <4>1. at[n] \in Kept(metrics, type) /\ list[n] = Renamed(metrics[at[n]])
        BY <3>1 DEF Comes
      <4>2. /\ IsMetric(metrics[at[n]]) /\ ValidMetric(metrics[at[n]])
            /\ metrics[at[n]].telemetryType = type
        BY <1>2, <4>1, MetricHandlerAssumption DEF MetricHandlerAssumption, Kept
      <4>3. \A g \in DOMAIN list[n].groups : OfType(list[n].groups[g], type)
        BY <4>1, <4>2, RenamedMetric
      <4>4. \A g \in DOMAIN list[n].groups : ~GroupThrows(list[n].groups[g], data)
        BY <4>3, NeverThrows
      <4> QED
        BY <4>4 DEF MetricThrows
    <3> QED
      BY <2>1, <3>2 DEF QuietMetrics
  <2> QED
    BY <2>2, <2>3
<1> QED
  BY <1>1, <1>2

LEMMA MetricsList ==
  ASSUME config \in Etags \cup {None}, NEW type \in Types
  PROVE  IsList(validDerivedMetrics(type))
<1>1. CASE config = None
  BY <1>1 DEF validDerivedMetrics, IsList
<1>2. CASE config \in Etags /\ config # None
  <2>1. validDerivedMetrics(type) = ParsedMetrics[config][type]
    BY <1>2 DEF validDerivedMetrics
  <2> QED
    BY <1>2, <2>1, MetricsCome DEF Comes, IsList
<1> QED
  BY <1>1, <1>2

LEMMA DocumentsFiltered ==
  ASSUME NEW t, IsTelemetry(t), NEW type, NEW data, NEW document
  PROVE  FilteredBy(t, applyDocumentFilters(t, type, data, document), QuietStreams(type, data))
<1> DEFINE u == applyDocumentFilters(t, type, data, document)
           streams == DocumentStreams(type)
           matching == {id \in DOMAIN streams :
                          \E group \in streams[id] : checkFilterConjunctionGroup(group, data)}
           more == addDocument(t.documents, [type |-> document, streams |-> matching])
           throws == \E id \in DOMAIN streams : \E group \in streams[id] : GroupThrows(group, data)
           quiet == QuietStreams(type, data)
<1>1. u = IF t.thrown \/ throws THEN [t EXCEPT !.thrown = TRUE]
          ELSE IF matching = {} /\ DOMAIN streams # {} THEN t
          ELSE [t EXCEPT !.documents = more]
  BY DEF applyDocumentFilters
<1>2. throws => ~quiet
  BY DEF QuietStreams
<1> HIDE DEF u, streams, matching, more, throws, quiet
<1>3. CASE t.thrown \/ throws
  <2>1. quiet => t.thrown
    BY <1>2, <1>3
  <2>2. \/ u = [t EXCEPT !.thrown = TRUE] \/ u = [t EXCEPT !.documents = more]
    BY <1>1, <1>3
  <2> QED
    BY <2>1, <2>2, FilteredThrown, FilteredDocuments DEF u, quiet
<1>4. CASE ~(t.thrown \/ throws)
  <2>1. u = [t EXCEPT !.documents = more] \/ u = t
    BY <1>1, <1>4
  <2> QED
    BY <2>1, FilteredDocuments, FilteredNot DEF u, quiet
<1> QED
  BY <1>3, <1>4

LEMMA ProjectionFiltered ==
  ASSUME NEW t, IsTelemetry(t), NEW metric, NEW data
  PROVE  FilteredBy(t, CreateProjection(t, metric, data), ~MetricThrows(metric, data))
<1> DEFINE u == CreateProjection(t, metric, data)
           errors == t.errors \cup {metric.id}
           projected == [t.projections EXCEPT ![metric.id] =
                   calculateAggregation(metric.aggregation, @, IncrementBy(metric, data))]
           quiet == ~MetricThrows(metric, data)
           throws == t.thrown \/ ~quiet
           counts == ~throws /\ checkMetricFilters(metric, data)
<1>1. u = CASE throws -> [t EXCEPT !.thrown = TRUE]
            [] counts /\ ~Projectable(metric, data) -> [t EXCEPT !.errors = errors]
            [] counts /\ Projectable(metric, data) /\ metric.id \in DOMAIN t.projections ->
                 [t EXCEPT !.projections = projected]
            [] OTHER -> t
  BY DEF CreateProjection
<1> HIDE DEF u, errors, projected, quiet
<1>2. FilteredBy(t, t, quiet) /\ FilteredBy(t, [t EXCEPT !.errors = errors], quiet)
      /\ FilteredBy(t, [t EXCEPT !.projections = projected], quiet)
  BY FilteredNot, FilteredErrors, FilteredProjections
<1>3. CASE t.thrown \/ ~quiet
  <2>1. FilteredBy(t, [t EXCEPT !.thrown = TRUE], quiet)
    BY <1>3, FilteredThrown
  <2>2. \/ u = [t EXCEPT !.thrown = TRUE] \/ u = t \/ u = [t EXCEPT !.errors = errors]
        \/ u = [t EXCEPT !.projections = projected]
    BY <1>1
  <2> QED
    BY <1>2, <2>1, <2>2 DEF u, quiet
<1>4. CASE ~(t.thrown \/ ~quiet)
  <2>1. \/ u = t \/ u = [t EXCEPT !.errors = errors]
        \/ u = [t EXCEPT !.projections = projected]
    BY <1>1, <1>4
  <2> QED
    BY <1>2, <2>1 DEF u, quiet
<1> QED
  BY <1>3, <1>4

LEMMA MetricsFiltered ==
  ASSUME NEW t, IsTelemetry(t), NEW type, IsList(validDerivedMetrics(type)), NEW data
  PROVE  FilteredBy(t, checkMetricFilterAndCreateProjection(t, type, data),
                    QuietMetrics(type, data))
<1> DEFINE metrics == validDerivedMetrics(type)
           N == Len(metrics)
           u == checkMetricFilterAndCreateProjection(t, type, data)
           quiet == QuietMetrics(type, data)
<1>1. N \in Nat /\ DOMAIN metrics = 1 .. N
  BY DEF IsList
<1>2. PICK at : OneByOne(at, "metric", t, metrics, data) /\ u = at[N]
  BY MetricsOneByOne
<1> DEFINE held == {n \in 0 .. N : FilteredBy(t, at[n], quiet)}
<1>3. 0 \in held
  <2>1. at[0] = t
    BY <1>2 DEF OneByOne
  <2>2. FilteredBy(t, at[0], quiet)
    BY <2>1, FilteredNot
  <2> QED
    BY <1>1, <2>2
<1>4. ASSUME NEW n \in 1 .. N, n - 1 \in held PROVE n \in held
  <2>1. at[n] = CreateProjection(at[n - 1], metrics[n], data)
    BY <1>2 DEF OneByOne, Step
  <2>2. Filtered(t, at[n - 1]) /\ (quiet => at[n - 1].thrown = t.thrown)
    BY <1>4 DEF FilteredBy
  <2>3. IsTelemetry(at[n - 1])
    BY <2>2 DEF Filtered
  <2>4. /\ Filtered(at[n - 1], at[n])
        /\ ~MetricThrows(metrics[n], data) => at[n].thrown = at[n - 1].thrown
    BY <2>1, <2>3, ProjectionFiltered DEF FilteredBy
  <2>5. Filtered(t, at[n])
    BY <2>2, <2>4, FilteredTwice
  <2>6. quiet => ~MetricThrows(metrics[n], data)
    BY <1>1 DEF QuietMetrics
  <2>7. FilteredBy(t, at[n], quiet)
    BY <2>2, <2>4, <2>5, <2>6 DEF FilteredBy
  <2> QED
    BY <1>1, <2>7
<1>5. N \in held
  <2> HIDE DEF held, u, N
  <2>1. \A n \in 0 .. N : n \in held
    BY <1>1, <1>3, <1>4, Upwards
  <2> QED
    BY <1>1, <2>1
<1> QED
  BY <1>2, <1>5

-----------------------------------------------------------------------------
(* What recording an item counts *)

Totals == [Counters -> Int]

\* More of the counters.
Raised(old, gain) == [c \in Counters |-> old[c] + gain[c]]

SpanGain(span, k) ==
  [requests           |-> IF IsRequest(span) THEN 1 ELSE 0,
   failedRequests     |-> IF IsRequest(span) /\ span.failed THEN 1 ELSE 0,
   requestDuration    |-> IF IsRequest(span) THEN span.duration ELSE 0,
   dependencies       |-> IF IsRequest(span) THEN 0 ELSE 1,
   failedDependencies |-> IF ~IsRequest(span) /\ span.failed THEN 1 ELSE 0,
   dependencyDuration |-> IF IsRequest(span) THEN 0 ELSE span.duration,
   exceptions         |-> k]

ExceptionGain(k) == [c \in Counters |-> IF c = "exceptions" THEN k ELSE 0]

LEMMA CountIs ==
  ASSUME NEW t, IsTelemetry(t), t.totals \in Totals, NEW increments, NEW gain,
         \A c \in Counters : gain[c] = IF c \in DOMAIN increments THEN increments[c] ELSE 0
  PROVE  LET u == Count(t, increments)
         IN  /\ IsTelemetry(u) /\ u.thrown = t.thrown
             /\ u.totals = IF t.thrown THEN t.totals ELSE Raised(t.totals, gain)
<1> DEFINE more == [c \in Counters |->
                      t.totals[c] + (IF c \in DOMAIN increments THEN increments[c] ELSE 0)]
           u == Count(t, increments)
<1>1. more = Raised(t.totals, gain)
  BY DEF Raised
<1>2. u = IF t.thrown THEN t ELSE [t EXCEPT !.totals = more]
  BY DEF Count
<1> HIDE DEF more, u
<1>3. CASE t.thrown
  BY <1>2, <1>3 DEF u
<1>4. CASE ~t.thrown
  <2>1. u = [t EXCEPT !.totals = more]
    BY <1>2, <1>4
  <2>2. IsTelemetry(u) /\ u.thrown = t.thrown /\ u.totals = more
    BY <2>1 DEF IsTelemetry
  <2> QED
    BY <1>1, <1>4, <2>2 DEF u
<1> QED
  BY <1>3, <1>4

LEMMA RaisedType ==
  ASSUME NEW old \in Totals, NEW gain \in Totals
  PROVE  Raised(old, gain) \in Totals
BY DEF Totals, Raised

LEMMA RaisedTwice ==
  ASSUME NEW old \in Totals, NEW k \in Nat
  PROVE  /\ Raised(old, ExceptionGain(k)) \in Totals
         /\ Raised(old, ExceptionGain(0)) = old
         /\ Raised(Raised(old, ExceptionGain(k)), ExceptionGain(1))
              = Raised(old, ExceptionGain(k + 1))
BY DEF Totals, Raised, ExceptionGain

\* An exception is counted unless a filter has thrown.
LEMMA EventCounted ==
  ASSUME config \in Etags \cup {None}, NEW t, IsTelemetry(t), t.totals \in Totals,
         NEW event, NEW span
  PROVE  LET u == RecordEvent(t, event, span)
         IN  /\ IsTelemetry(u) /\ (t.thrown => u.thrown)
             /\ u.totals = IF u.thrown THEN t.totals ELSE Raised(t.totals, ExceptionGain(1))
<1> DEFINE data == getSpanExceptionColumns(event, span)
           document == ExceptionDocument(data, "Type" \in DOMAIN event)
           t1 == applyDocumentFilters(t, "Exception", data, document)
           t2 == checkMetricFilterAndCreateProjection(t1, "Exception", data)
           u == Count(t2, [exceptions |-> 1])
<1>1. u = RecordEvent(t, event, span)
  BY DEF RecordEvent
<1>2. Filtered(t, t1)
  BY DocumentsFiltered DEF FilteredBy
<1> HIDE DEF t1, data
<1>3. Filtered(t1, t2)
  <2>1. IsList(validDerivedMetrics("Exception")) /\ IsTelemetry(t1)
    BY <1>2, MetricsList DEF Types, Filtered
  <2> QED
    BY <2>1, MetricsFiltered DEF FilteredBy
<1> HIDE DEF t2
<1>4. /\ IsTelemetry(t2) /\ t2.totals = t.totals /\ (t.thrown => t2.thrown)
  BY <1>2, <1>3 DEF Filtered
<1> DEFINE increments == [exceptions |-> 1]
           gain == ExceptionGain(1)
<1>5. \A c \in Counters : gain[c] = IF c \in DOMAIN increments THEN increments[c] ELSE 0
  BY DEF ExceptionGain
<1> HIDE DEF gain, increments
<1>6. /\ IsTelemetry(u) /\ u.thrown = t2.thrown
      /\ u.totals = IF t2.thrown THEN t2.totals ELSE Raised(t2.totals, gain)
  BY <1>4, <1>5, CountIs DEF increments
<1> HIDE DEF u
<1> QED
  BY <1>1, <1>4, <1>6 DEF gain

\* Of a span's exceptions the first k are counted, all of them if no filter throws.
LEMMA EventsCounted ==
  ASSUME config \in Etags \cup {None}, NEW t, IsTelemetry(t), t.totals \in Totals,
         NEW span, IsList(span.exceptions)
  PROVE  \E k \in 0 .. Len(span.exceptions) :
           /\ IsTelemetry(EventsRecorded(t, span))
           /\ EventsRecorded(t, span).totals = Raised(t.totals, ExceptionGain(k))
           /\ ~EventsRecorded(t, span).thrown => k = Len(span.exceptions)
<1> DEFINE events == span.exceptions
           N == Len(events)
           old == t.totals
           Counts(u, n, k) == /\ IsTelemetry(u) /\ u.totals = Raised(old, ExceptionGain(k))
                              /\ ~u.thrown => k = n
<1>1. N \in Nat
  BY DEF IsList
<1>2. PICK at : OneByOne(at, "exception", t, events, span) /\ EventsRecorded(t, span) = at[N]
  BY EventsOneByOne
<1> DEFINE held == {n \in 0 .. N : \E k \in 0 .. n : Counts(at[n], n, k)}
<1>3. 0 \in held
  <2>1. at[0] = t /\ Raised(old, ExceptionGain(0)) = old
    BY <1>2, RaisedTwice DEF OneByOne
  <2>2. Counts(at[0], 0, 0)
    BY <2>1
  <2> QED
    BY <1>1, <2>2
<1>4. ASSUME NEW n \in 1 .. N, n - 1 \in held PROVE n \in held
  <2>1. PICK k \in 0 .. n - 1 : Counts(at[n - 1], n - 1, k)
    BY <1>4
  <2> DEFINE v == at[n - 1]
             w == at[n]
  <2>2. w = RecordEvent(v, events[n], span)
    BY <1>2 DEF OneByOne, Step
  <2>3. IsTelemetry(v) /\ v.totals = Raised(old, ExceptionGain(k)) /\ (~v.thrown => k = n - 1)
    BY <2>1
  <2>4. v.totals \in Totals
    <3>1. k \in Nat
      OBVIOUS
    <3> HIDE DEF v, old
    <3>2. Raised(old, ExceptionGain(k)) \in Totals
      BY <3>1, RaisedTwice DEF old
    <3> QED
      BY <2>3, <3>2
  <2>5. /\ IsTelemetry(w) /\ (v.thrown => w.thrown)
        /\ w.totals = IF w.thrown THEN v.totals ELSE Raised(v.totals, ExceptionGain(1))
    <3> HIDE DEF v, w
    <3> QED
      BY <2>2, <2>3, <2>4, EventCounted
  <2> HIDE DEF v, w
  <2>6. CASE w.thrown
    <3>1. Counts(w, n, k)
      BY <2>3, <2>5, <2>6
    <3> QED
      BY <3>1, <1>1 DEF w
  <2>7. CASE ~w.thrown
    <3>1. ~v.thrown
      BY <2>3, <2>5, <2>7 DEF IsTelemetry
    <3>2. k + 1 = n
      BY <2>3, <3>1
    <3>3. w.totals = Raised(old, ExceptionGain(k + 1))
      <4>1. k \in Nat
        OBVIOUS
      <4> HIDE DEF old
      <4>2. old \in Totals
        BY DEF old
      <4>3. Raised(Raised(old, ExceptionGain(k)), ExceptionGain(1))
              = Raised(old, ExceptionGain(k + 1))
        BY <4>1, <4>2, RaisedTwice
      <4> QED
        BY <2>3, <2>5, <2>7, <4>3
    <3>4. Counts(w, n, n)
      BY <2>5, <3>2, <3>3
    <3> QED
      BY <3>4, <1>1 DEF w
  <2> QED
    BY <2>6, <2>7, <2>5 DEF IsTelemetry
<1>5. N \in held
  <2> HIDE DEF held, N
  <2>1. \A n \in 0 .. N : n \in held
    BY <1>1, <1>3, <1>4, Upwards
  <2> QED
    BY <1>1, <2>1
<1> QED
  BY <1>2, <1>5

-----------------------------------------------------------------------------
(* Spans and log records as a whole *)

\* A span has every column that filters of its type may refer to.
LEMMA SpanColumns ==
  ASSUME NEW span
  PROVE  LET data == getSpanData(span)
             type == IF isRequestData(data) THEN "Request" ELSE "Dependency"
         IN  KnownColumns[type] \subseteq DOMAIN data.fields
<1> DEFINE data == getSpanData(span)
<1>1. CASE IsRequest(span)
  <2>1. DOMAIN data.fields = {"Url", "Name", "Duration", "ResponseCode", "Success"}
    BY <1>1 DEF getSpanData, getRequestData, PartialColumns, Columns
  <2> HIDE DEF data
  <2>2. isRequestData(data)
    BY <2>1 DEF isRequestData
  <2> QED
    BY <2>1, <2>2 DEF KnownColumns, data
<1>2. CASE ~IsRequest(span)
  <2> DEFINE kinds ==
        CASE getHttpMethod(span.attributes) # {} -> HttpDependency(span)
          [] /\ getHttpMethod(span.attributes) = {}
             /\ Text(span.attributes, "db") # {} -> DatabaseDependency(span)
          [] /\ getHttpMethod(span.attributes) = {}
             /\ Text(span.attributes, "db") = {}
             /\ Text(span.attributes, "rpc") # {} -> GrpcDependency(span)
          [] OTHER -> PlainDependency(span)
  <2>1. DOMAIN data.fields = DOMAIN kinds \cup {"Duration", "Success"}
    BY <1>2 DEF getSpanData, getDependencyData, PartialColumns, Columns
  <2>2. \/ kinds = HttpDependency(span) \/ kinds = DatabaseDependency(span)
        \/ kinds = GrpcDependency(span) \/ kinds = PlainDependency(span)
    OBVIOUS
  <2>3. /\ DOMAIN HttpDependency(span) = {"Target", "Type", "Data", "Name", "ResultCode"}
        /\ DOMAIN DatabaseDependency(span) = {"Target", "Type", "Data", "Name", "ResultCode"}
        /\ DOMAIN GrpcDependency(span) = {"Target", "Type", "Data", "Name", "ResultCode"}
        /\ DOMAIN PlainDependency(span) = {"Target", "Type", "Data", "Name", "ResultCode"}
    BY DEF HttpDependency, DatabaseDependency, GrpcDependency, PlainDependency
  <2> HIDE DEF kinds, data
  <2>4. DOMAIN data.fields
          = {"Target", "Type", "Data", "Name", "ResultCode"} \cup {"Duration", "Success"}
    BY <2>1, <2>2, <2>3
  <2>5. ~isRequestData(data)
    BY <2>4 DEF isRequestData
  <2> QED
    BY <2>4, <2>5 DEF KnownColumns, data
<1> QED
  BY <1>1, <1>2

LEMMA LogColumns ==
  ASSUME NEW log
  PROVE  LET data == getLogData(log)
             type == IF isExceptionData(data) THEN "Exception" ELSE "Trace"
         IN  /\ KnownColumns[type] \subseteq DOMAIN data.fields
             /\ isExceptionData(data) <=> isExceptionTelemetry(log)
<1> DEFINE data == getLogData(log)
<1>1. DOMAIN data.fields = IF isExceptionTelemetry(log) THEN {"Message", "StackTrace"}
                           ELSE {"Message"}
  BY DEF getLogData, PartialColumns, Columns
<1> HIDE DEF data
<1>2. isExceptionData(data) <=> isExceptionTelemetry(log)
  BY <1>1 DEF isExceptionData
<1> QED
  BY <1>1, <1>2 DEF KnownColumns, data

\* A span raises the counters as it should, but for exceptions that a filter cut off.
LEMMA SpanCounted ==
  ASSUME config \in Etags \cup {None}, NEW t, IsTelemetry(t), t.totals \in Totals, ~t.thrown,
         NEW span \in Spans
  PROVE  \E k \in 0 .. Len(span.exceptions) :
           /\ IsTelemetry(recordSpan(t, span))
           /\ recordSpan(t, span).totals = Raised(t.totals, SpanGain(span, k))
           /\ ~recordSpan(t, span).thrown => k = Len(span.exceptions)
<1> DEFINE data == getSpanData(span)
           type == IF isRequestData(data) THEN "Request" ELSE "Dependency"
           document == IF isRequestData(data) THEN "Request" ELSE "RemoteDependency"
           t1 == applyDocumentFilters(t, type, data, document)
           t2 == checkMetricFilterAndCreateProjection(t1, type, data)
           t3 == CountSpan(t2, span)
<1>1. recordSpan(t, span) = EventsRecorded(t3, span)
  BY DEF recordSpan, EventsRecorded
<1>2. type \in Types /\ QuietStreams(type, data) /\ QuietMetrics(type, data)
  <2>1. type \in Types /\ KnownColumns[type] \subseteq DOMAIN data.fields
    BY SpanColumns DEF Types
  <2> HIDE DEF type, data
  <2> QED
    BY <2>1, Quiet
<1> HIDE DEF type, data
<1>3. Filtered(t, t1) /\ t1.thrown = t.thrown
  BY <1>2, DocumentsFiltered DEF FilteredBy
<1> HIDE DEF t1
<1>4. Filtered(t1, t2) /\ t2.thrown = t1.thrown
  <2>1. IsList(validDerivedMetrics(type)) /\ IsTelemetry(t1)
    BY <1>2, <1>3, MetricsList DEF Filtered
  <2> QED
    BY <1>2, <2>1, MetricsFiltered DEF FilteredBy
<1> HIDE DEF t2
<1>5. IsTelemetry(t2) /\ t2.totals = t.totals /\ ~t2.thrown
  BY <1>3, <1>4 DEF Filtered
<1>6. /\ span.duration \in Nat /\ span.failed \in BOOLEAN /\ IsList(span.exceptions)
  BY MetricHandlerAssumption DEF MetricHandlerAssumption, IsList
<1> DEFINE increments ==
      IF IsRequest(span)
      THEN [requests |-> 1, failedRequests |-> Failures(span), requestDuration |-> span.duration]
      ELSE [dependencies |-> 1, failedDependencies |-> Failures(span),
            dependencyDuration |-> span.duration]
           gain == SpanGain(span, 0)
<1>7. \A c \in Counters : gain[c] = IF c \in DOMAIN increments THEN increments[c] ELSE 0
  BY <1>6 DEF Counters, SpanGain, Failures
<1>8. t3 = Count(t2, increments)
  BY DEF CountSpan
<1> HIDE DEF increments, gain, t3
<1>9. IsTelemetry(t3) /\ t3.totals = Raised(t.totals, gain) /\ ~t3.thrown
  BY <1>5, <1>7, <1>8, CountIs
<1>10. gain \in Totals
  BY <1>6 DEF gain, SpanGain, Totals, Counters
<1>11. t3.totals \in Totals
  BY <1>9, <1>10, RaisedType
<1>12. PICK k \in 0 .. Len(span.exceptions) :
        /\ IsTelemetry(EventsRecorded(t3, span))
        /\ EventsRecorded(t3, span).totals = Raised(t3.totals, ExceptionGain(k))
        /\ ~EventsRecorded(t3, span).thrown => k = Len(span.exceptions)
  BY <1>6, <1>9, <1>11, EventsCounted
<1>13. Raised(Raised(t.totals, gain), ExceptionGain(k)) = Raised(t.totals, SpanGain(span, k))
  <2>1. k \in Nat
    BY <1>6 DEF IsList
  <2>2. \A c \in Counters : /\ gain[c] + ExceptionGain(k)[c] = SpanGain(span, k)[c]
                            /\ gain[c] \in Int /\ ExceptionGain(k)[c] \in Int
    BY <1>6, <2>1 DEF gain, SpanGain, ExceptionGain, Counters
  <2>3. \A c \in Counters : t.totals[c] \in Int
    BY DEF Totals
  <2> QED
    BY <2>2, <2>3 DEF Raised
<1> QED
  BY <1>1, <1>9, <1>12, <1>13

\* A log record counts as an exception if it is one.
LEMMA LogCounted ==
  ASSUME config \in Etags \cup {None}, NEW t, IsTelemetry(t), t.totals \in Totals, ~t.thrown,
         NEW log
  PROVE  /\ IsTelemetry(recordLog(t, log)) /\ ~recordLog(t, log).thrown
         /\ recordLog(t, log).totals
              = Raised(t.totals, ExceptionGain(IF isExceptionTelemetry(log) THEN 1 ELSE 0))
<1> DEFINE data == getLogData(log)
           type == IF isExceptionData(data) THEN "Exception" ELSE "Trace"
           document == ExceptionDocument(data, Text(log.attributes, "exceptionType") # {})
           t1 == applyDocumentFilters(t, type, data, document)
           t2 == IF isExceptionData(data) THEN Count(t1, [exceptions |-> 1]) ELSE t1
           t3 == checkMetricFilterAndCreateProjection(t2, type, data)
           k == IF isExceptionTelemetry(log) THEN 1 ELSE 0
<1>1. recordLog(t, log) = t3
  BY DEF recordLog
<1>2. /\ type \in Types /\ QuietStreams(type, data) /\ QuietMetrics(type, data)
      /\ isExceptionData(data) <=> isExceptionTelemetry(log)
  <2>1. /\ type \in Types /\ KnownColumns[type] \subseteq DOMAIN data.fields
        /\ isExceptionData(data) <=> isExceptionTelemetry(log)
    BY LogColumns DEF Types
  <2> HIDE DEF type, data
  <2> QED
    BY <2>1, Quiet
<1> HIDE DEF type, data
<1>3. Filtered(t, t1) /\ t1.thrown = t.thrown
  BY <1>2, DocumentsFiltered DEF FilteredBy
<1> HIDE DEF t1
<1>4. IsTelemetry(t1) /\ t1.totals = t.totals /\ ~t1.thrown
  BY <1>3 DEF Filtered
<1>5. IsTelemetry(t2) /\ ~t2.thrown /\ t2.totals = Raised(t.totals, ExceptionGain(k))
  <2>1. CASE isExceptionTelemetry(log)
    <3> DEFINE increments == [exceptions |-> 1]
               gain == ExceptionGain(1)
    <3>1. \A c \in Counters : gain[c] = IF c \in DOMAIN increments THEN increments[c] ELSE 0
      BY DEF ExceptionGain
    <3>2. t2 = Count(t1, increments) /\ k = 1
      BY <1>2, <2>1
    <3> HIDE DEF increments, gain, t2
    <3>3. IsTelemetry(t2) /\ ~t2.thrown /\ t2.totals = Raised(t.totals, gain)
      BY <1>4, <3>1, <3>2, CountIs
    <3> QED
      BY <3>2, <3>3 DEF gain
  <2>2. CASE ~isExceptionTelemetry(log)
    BY <1>2, <1>4, <2>2, RaisedTwice
  <2> QED
    BY <2>1, <2>2
<1> HIDE DEF t2
<1>6. Filtered(t2, t3) /\ t3.thrown = t2.thrown
  <2>1. IsList(validDerivedMetrics(type))
    BY <1>2, MetricsList
  <2> QED
    BY <1>2, <1>5, <2>1, MetricsFiltered DEF FilteredBy
<1> HIDE DEF t3
<1> QED
  BY <1>1, <1>5, <1>6 DEF Filtered

-----------------------------------------------------------------------------
(* One more item of history *)

Grows(S, T, c, x) == T = IF c THEN S \cup {x} ELSE S

LEMMA CardinalityGrows ==
  ASSUME NEW S, IsFiniteSet(S), NEW x, x \notin S, NEW c \in BOOLEAN, NEW T, Grows(S, T, c, x)
  PROVE  /\ Cardinality(S) \in Nat
         /\ Cardinality(T) = Cardinality(S) + (IF c THEN 1 ELSE 0)
<1>1. Cardinality(S) \in Nat
  BY FS_CardinalityType
<1>2. CASE c
  <2>1. T = S \cup {x}
    BY <1>2 DEF Grows
  <2> QED
    BY <1>1, <1>2, <2>1, FS_AddElement
<1>3. CASE ~c
  BY <1>1, <1>3 DEF Grows
<1> QED
  BY <1>2, <1>3

LEMMA SumGrows ==
  ASSUME NEW f, NEW g, IsFiniteSet(DOMAIN f), NEW x, x \notin DOMAIN f, NEW c \in BOOLEAN,
         Grows(DOMAIN f, DOMAIN g, c, x), \A y \in DOMAIN f : g[y] = f[y],
         \A y \in DOMAIN f : f[y] \in Int, NEW more \in Int, c => g[x] = more
  PROVE  SumFunction(f) \in Int /\ SumFunction(g) = SumFunction(f) + (IF c THEN more ELSE 0)
<1>1. CASE c
  <2>1. DOMAIN g = DOMAIN f \cup {x} /\ g[x] \in Int
    BY <1>1 DEF Grows
  <2> QED
    BY <1>1, <2>1, SumOfOneMore
<1>2. CASE ~c
  <2>1. DOMAIN g = DOMAIN f
    BY <1>2 DEF Grows
  <2>2. Total(g, DOMAIN f) = Total(f, DOMAIN f)
    BY TotalSame
  <2>3. Total(f, DOMAIN f) \in Int
    BY TotalType
  <2>4. SumFunction(g) = SumFunction(f) /\ SumFunction(f) \in Int
    BY <2>1, <2>2, <2>3, SumIsTotal
  <2> QED
    BY <1>2, <2>4
<1> QED
  BY <1>1, <1>2

Entries ==
  [item : Spans, log : {FALSE}, thrown : BOOLEAN, taken : BOOLEAN]
    \cup [item : Logs, log : {TRUE}, thrown : {FALSE}, taken : BOOLEAN]

HistoryOK == recorded \in Seq(Entries) /\ rateMark \in 0 .. Len(recorded)

ExceptionsIn(e) ==
  IF ~e.log THEN Len(e.item.exceptions) ELSE IF isExceptionTelemetry(e.item) THEN 1 ELSE 0

LEMMA EntryFacts ==
  ASSUME NEW e \in Entries
  PROVE  /\ e.log \in BOOLEAN /\ e.thrown \in BOOLEAN /\ e.taken \in BOOLEAN
         /\ ~e.log => /\ e.item \in Spans /\ e.item.duration \in Nat
                      /\ e.item.failed \in BOOLEAN /\ IsList(e.item.exceptions)
         /\ ExceptionsIn(e) \in Nat
<1>1. e.log \in BOOLEAN /\ e.thrown \in BOOLEAN /\ e.taken \in BOOLEAN
      /\ (~e.log => e.item \in Spans)
  BY DEF Entries
<1> QED
  BY <1>1, MetricHandlerAssumption DEF MetricHandlerAssumption, ExceptionsIn, IsList

\* The history after an item.
LEMMA OneMoreItem ==
  ASSUME NEW r \in Seq(Entries), NEW e \in Entries, NEW q, q = Append(r, e)
  PROVE  /\ q \in Seq(Entries) /\ Len(q) = Len(r) + 1 /\ Len(r) \in Nat
         /\ DOMAIN r = 1 .. Len(r) /\ IsFiniteSet(DOMAIN r)
         /\ Len(q) \notin DOMAIN r /\ DOMAIN q = DOMAIN r \cup {Len(q)}
         /\ \A i \in DOMAIN r : r[i] \in Entries /\ q[i] = r[i]
         /\ q[Len(q)] = e
<1>1. /\ q \in Seq(Entries) /\ Len(q) = Len(r) + 1 /\ Len(r) \in Nat
      /\ DOMAIN r = 1 .. Len(r) /\ DOMAIN q = 1 .. (Len(r) + 1)
      /\ q[Len(r) + 1] = e
      /\ \A i \in 1 .. Len(r) : r[i] \in Entries /\ q[i] = r[i]
  OBVIOUS
<1>2. IsFiniteSet(1 .. Len(r))
  BY <1>1, FS_Interval
<1>3. ASSUME NEW N \in Nat PROVE 1 .. (N + 1) = (1 .. N) \cup {N + 1} /\ N + 1 \notin 1 .. N
  OBVIOUS
<1> QED
  BY <1>1, <1>2, <1>3

\* The same of `recorded` itself.
LEMMA HistoryGrows ==
  ASSUME HistoryOK, NEW e \in Entries, recorded' = Append(recorded, e)
  PROVE  LET n == Len(recorded') IN
         /\ n = Len(recorded) + 1 /\ Len(recorded) \in Nat
         /\ IsFiniteSet(DOMAIN recorded) /\ n \notin DOMAIN recorded
         /\ DOMAIN recorded' = DOMAIN recorded \cup {n}
         /\ \A i \in DOMAIN recorded : recorded[i] \in Entries /\ recorded'[i] = recorded[i]
         /\ recorded'[n] = e
<1>1. recorded \in Seq(Entries)
  BY DEF HistoryOK
<1>2. recorded' = Append(recorded, e) /\ e \in Entries
  OBVIOUS
<1>3. Len(recorded') = Len(recorded) + 1 /\ Len(recorded) \in Nat
  BY ONLY <1>1, <1>2, OneMoreItem
<1>4. IsFiniteSet(DOMAIN recorded) /\ Len(recorded') \notin DOMAIN recorded
  BY ONLY <1>1, <1>2, OneMoreItem
<1>5. DOMAIN recorded' = DOMAIN recorded \cup {Len(recorded')}
  BY ONLY <1>1, <1>2, OneMoreItem
<1>6. \A i \in DOMAIN recorded : recorded[i] \in Entries /\ recorded'[i] = recorded[i]
  BY ONLY <1>1, <1>2, OneMoreItem
<1>7. recorded'[Len(recorded')] = e
  BY ONLY <1>1, <1>2, OneMoreItem
<1> QED
  BY <1>3, <1>4, <1>5, <1>6, <1>7

\* What an item adds to the counters of live metrics.
EntryGain(e, gain) ==
  /\ gain \in Totals
  /\ gain["requests"] = (IF ~e.log /\ IsRequest(e.item) THEN 1 ELSE 0)
  /\ gain["failedRequests"] = (IF ~e.log /\ IsRequest(e.item) /\ e.item.failed THEN 1 ELSE 0)
  /\ gain["requestDuration"] = (IF ~e.log /\ IsRequest(e.item) THEN e.item.duration ELSE 0)
  /\ gain["dependencies"] = (IF ~e.log /\ ~IsRequest(e.item) THEN 1 ELSE 0)
  /\ gain["failedDependencies"] = (IF ~e.log /\ ~IsRequest(e.item) /\ e.item.failed THEN 1 ELSE 0)
  /\ gain["dependencyDuration"] = (IF ~e.log /\ ~IsRequest(e.item) THEN e.item.duration ELSE 0)
  /\ gain["exceptions"] <= ExceptionsIn(e)
  /\ (IF e.thrown THEN 0 ELSE ExceptionsIn(e)) <= gain["exceptions"]

LEMMA RatesStayExact ==
  ASSUME HistoryOK, totals \in Totals, last \in Totals, LiveRatesAreExact,
         NEW e \in Entries, recorded' = Append(recorded, e), UNCHANGED <<last, rateMark>>,
         NEW gain, EntryGain(e, gain),
         totals' = IF e.taken THEN Raised(totals, gain) ELSE totals
  PROVE  LiveRatesAreExact'
<1> DEFINE n == Len(recorded')
<1>1. n = Len(recorded')
  OBVIOUS
<1> HIDE DEF n
<1>2. /\ n = Len(recorded) + 1 /\ Len(recorded) \in Nat
      /\ IsFiniteSet(DOMAIN recorded) /\ n \notin DOMAIN recorded
      /\ DOMAIN recorded' = DOMAIN recorded \cup {n}
      /\ \A i \in DOMAIN recorded : recorded[i] \in Entries /\ recorded'[i] = recorded[i]
      /\ recorded'[n] = e
  BY <1>1, HistoryGrows
<1> DEFINE A == Since(rateMark)
           A2 == Since(rateMark)'
           Q == Requests(A)
           Q2 == Requests(Since(rateMark))'
           D == Dependencies(A)
           D2 == Dependencies(Since(rateMark))'
           FQ == Failed(Q)
           FQ2 == Failed(Requests(Since(rateMark)))'
           FD == Failed(D)
           FD2 == Failed(Dependencies(Since(rateMark)))'
           NT == NotThrown(A)
           NT2 == NotThrown(Since(rateMark))'
           dq == Durations(Q)
           dq2 == Durations(Requests(Since(rateMark)))'
           dd == Durations(D)
           dd2 == Durations(Dependencies(Since(rateMark)))'
           xa == Exceptions(A)
           xa2 == Exceptions(Since(rateMark))'
           xn == Exceptions(NT)
           xn2 == Exceptions(NotThrown(Since(rateMark)))'
           isQ == e.taken /\ ~e.log /\ IsRequest(e.item)
           isD == e.taken /\ ~e.log /\ ~IsRequest(e.item)
           X == ExceptionsIn(e)
<1>3. rateMark \in Nat /\ rateMark < n /\ rateMark' = rateMark
  BY <1>2 DEF HistoryOK
<1>4. Grows(A, A2, e.taken, n)
  BY <1>2, <1>3 DEF Since, Grows
<1>5. A \subseteq DOMAIN recorded
  BY DEF Since
<1>6. Grows(Q, Q2, isQ, n) /\ Grows(D, D2, isD, n)
  BY <1>2, <1>4, <1>5 DEF Grows, Requests, Dependencies, Item
<1>7. Grows(NT, NT2, e.taken /\ ~e.thrown, n)
  BY <1>2, <1>4, <1>5 DEF Grows, NotThrown
<1>8. /\ Q \subseteq A /\ D \subseteq A /\ NT \subseteq A /\ FQ \subseteq Q /\ FD \subseteq D
      /\ \A i \in Q \cup D : ~recorded[i].log
  BY DEF Requests, Dependencies, NotThrown, Failed
<1> HIDE DEF A, A2, Q, Q2, D, D2, NT, NT2
<1>9. Grows(FQ, FQ2, isQ /\ e.item.failed, n) /\ Grows(FD, FD2, isD /\ e.item.failed, n)
  BY <1>2, <1>5, <1>6, <1>8 DEF Grows, Failed, Item, Q2, D2
<1>10. /\ IsFiniteSet(A) /\ IsFiniteSet(Q) /\ IsFiniteSet(D) /\ IsFiniteSet(NT)
      /\ IsFiniteSet(FQ) /\ IsFiniteSet(FD)
  <2> HIDE DEF FQ, FD
  <2>1. IsFiniteSet(A)
    BY <1>2, <1>5, FS_Subset
  <2>2. IsFiniteSet(Q) /\ IsFiniteSet(D) /\ IsFiniteSet(NT)
    BY <1>8, <2>1, FS_Subset
  <2> QED
    BY <1>8, <2>1, <2>2, FS_Subset
<1>11. n \notin A /\ n \notin Q /\ n \notin D /\ n \notin NT /\ n \notin FQ /\ n \notin FD
  BY <1>2, <1>5, <1>8
<1>12. /\ e.taken \in BOOLEAN /\ isQ \in BOOLEAN /\ isD \in BOOLEAN /\ X \in Nat
       /\ (~e.log => e.item.failed \in BOOLEAN /\ e.item.duration \in Nat)
       /\ e.thrown \in BOOLEAN /\ e.log \in BOOLEAN
  BY EntryFacts
<1> DEFINE failedQ == isQ /\ e.item.failed
           failedD == isD /\ e.item.failed
           countedX == e.taken /\ ~e.thrown
<1>13. failedQ \in BOOLEAN /\ failedD \in BOOLEAN /\ countedX \in BOOLEAN
  BY <1>12
<1> HIDE DEF X
<1>14. /\ DOMAIN dq = Q /\ DOMAIN dd = D /\ DOMAIN xa = A /\ DOMAIN xn = NT
       /\ DOMAIN dq2 = Q2 /\ DOMAIN dd2 = D2 /\ DOMAIN xa2 = A2 /\ DOMAIN xn2 = NT2
  BY DEF Durations, Exceptions, Q2, D2, A2, NT2
<1>15. /\ \A i \in Q : dq[i] = recorded[i].item.duration
       /\ \A i \in D : dd[i] = recorded[i].item.duration
       /\ \A i \in A : xa[i] = ExceptionsIn(recorded[i])
       /\ \A i \in NT : xn[i] = ExceptionsIn(recorded[i])
       /\ \A i \in Q2 : dq2[i] = recorded'[i].item.duration
       /\ \A i \in D2 : dd2[i] = recorded'[i].item.duration
       /\ \A i \in A2 : xa2[i] = ExceptionsIn(recorded'[i])
       /\ \A i \in NT2 : xn2[i] = ExceptionsIn(recorded'[i])
  BY DEF Durations, Exceptions, ExceptionsIn, Item, Q2, D2, A2, NT2
<1> HIDE DEF dq, dd, xa, xn, dq2, dd2, xa2, xn2, isQ, isD, failedQ, failedD, countedX, FQ, FD,
             FQ2, FD2
<1>16. \A i \in A : /\ ExceptionsIn(recorded[i]) \in Int
                    /\ ~recorded[i].log => recorded[i].item.duration \in Int
  <2>1. ASSUME NEW i \in A
        PROVE  /\ ExceptionsIn(recorded[i]) \in Nat
               /\ ~recorded[i].log => recorded[i].item.duration \in Nat
    BY <1>2, <1>5, EntryFacts
  <2> QED
    BY <2>1
<1>17. /\ \A i \in Q : i \in Q2 /\ dq2[i] = dq[i] /\ dq[i] \in Int
       /\ \A i \in D : i \in D2 /\ dd2[i] = dd[i] /\ dd[i] \in Int
       /\ \A i \in A : i \in A2 /\ xa2[i] = xa[i] /\ xa[i] \in Int
       /\ \A i \in NT : i \in NT2 /\ xn2[i] = xn[i] /\ xn[i] \in Int
  <2>1. Q \subseteq Q2 /\ D \subseteq D2 /\ A \subseteq A2 /\ NT \subseteq NT2
    BY <1>4, <1>6, <1>7 DEF Grows
  <2>2. \A i \in A : recorded'[i] = recorded[i]
    BY <1>2, <1>5
  <2>3. \A i \in Q : i \in Q2 /\ dq2[i] = dq[i] /\ dq[i] \in Int
    BY ONLY <1>8, <1>15, <1>16, <2>1, <2>2, ZenonT(60)
  <2>4. \A i \in D : i \in D2 /\ dd2[i] = dd[i] /\ dd[i] \in Int
    BY ONLY <1>8, <1>15, <1>16, <2>1, <2>2, ZenonT(60)
  <2>5. \A i \in A : i \in A2 /\ xa2[i] = xa[i] /\ xa[i] \in Int
    BY ONLY <1>15, <1>16, <2>1, <2>2, ZenonT(60)
  <2>6. \A i \in NT : i \in NT2 /\ xn2[i] = xn[i] /\ xn[i] \in Int
    BY ONLY <1>8, <1>15, <1>16, <2>1, <2>2, ZenonT(60)
  <2> QED
    BY <2>3, <2>4, <2>5, <2>6
<1>18. /\ isQ => dq2[n] = e.item.duration
       /\ isD => dd2[n] = e.item.duration
       /\ e.taken => xa2[n] = X
       /\ countedX => xn2[n] = X
  BY <1>2, <1>4, <1>6, <1>7, <1>15 DEF Grows, X, countedX
<1>19. /\ Cardinality(Q) \in Nat /\ Cardinality(Q2) = Cardinality(Q) + (IF isQ THEN 1 ELSE 0)
       /\ Cardinality(D) \in Nat /\ Cardinality(D2) = Cardinality(D) + (IF isD THEN 1 ELSE 0)
  BY <1>6, <1>10, <1>11, <1>12, CardinalityGrows
<1>20. /\ Cardinality(FQ) \in Nat
       /\ Cardinality(FQ2) = Cardinality(FQ) + (IF failedQ THEN 1 ELSE 0)
       /\ Cardinality(FD) \in Nat
       /\ Cardinality(FD2) = Cardinality(FD) + (IF failedD THEN 1 ELSE 0)
  <2>1. Grows(FQ, FQ2, failedQ, n) /\ Grows(FD, FD2, failedD, n)
    BY <1>9 DEF failedQ, failedD
  <2> QED
    BY <2>1, <1>10, <1>11, <1>13, CardinalityGrows
<1> DEFINE lasts == IF ~e.log THEN e.item.duration ELSE 0
<1>21. lasts \in Int /\ (isQ => dq2[n] = lasts) /\ (isD => dd2[n] = lasts)
  BY <1>12, <1>18 DEF isQ, isD
<1> HIDE DEF lasts
<1>22. /\ SumFunction(dq) \in Int
       /\ SumFunction(dq2) = SumFunction(dq) + (IF isQ THEN lasts ELSE 0)
  <2>1. /\ IsFiniteSet(DOMAIN dq) /\ n \notin DOMAIN dq /\ Grows(DOMAIN dq, DOMAIN dq2, isQ, n)
        /\ \A i \in DOMAIN dq : dq2[i] = dq[i] /\ dq[i] \in Int
    BY <1>6, <1>10, <1>11, <1>14, <1>17
  <2> QED
    BY ONLY <2>1, <1>12, <1>21, SumGrows
<1>23. /\ SumFunction(dd) \in Int
       /\ SumFunction(dd2) = SumFunction(dd) + (IF isD THEN lasts ELSE 0)
  BY <1>6, <1>10, <1>11, <1>12, <1>14, <1>17, <1>21, SumGrows
<1>24. /\ SumFunction(xa) \in Int
       /\ SumFunction(xa2) = SumFunction(xa) + (IF e.taken THEN X ELSE 0)
  BY <1>4, <1>10, <1>11, <1>12, <1>14, <1>17, <1>18, SumGrows
<1>25. /\ SumFunction(xn) \in Int
       /\ SumFunction(xn2) = SumFunction(xn) + (IF countedX THEN X ELSE 0)
  <2>1. Grows(NT, NT2, countedX, n)
    BY <1>7 DEF countedX
  <2>2. /\ IsFiniteSet(DOMAIN xn) /\ n \notin DOMAIN xn
        /\ Grows(DOMAIN xn, DOMAIN xn2, countedX, n)
        /\ \A i \in DOMAIN xn : xn2[i] = xn[i] /\ xn[i] \in Int
    BY <2>1, <1>10, <1>11, <1>14, <1>17
  <2>3. X \in Int
    BY <1>12
  <2> QED
    BY ONLY <2>2, <2>3, <1>13, <1>18, SumGrows
<1> DEFINE now(c) == totals[c] - last[c]
           now2(c) == totals'[c] - last'[c]
<1>26. \A c \in Counters : /\ totals[c] \in Int /\ last[c] \in Int /\ gain[c] \in Int
                           /\ now2(c) = now(c) + (IF e.taken THEN gain[c] ELSE 0)
  <2>1. \A c \in Counters : totals[c] \in Int /\ last[c] \in Int /\ gain[c] \in Int
    BY DEF EntryGain, Totals
  <2>2. \A c \in Counters : totals'[c] = totals[c] + (IF e.taken THEN gain[c] ELSE 0)
    BY <1>12, <2>1 DEF Raised
  <2> QED
    BY <2>1, <2>2
<1>27. /\ now("requests") = Cardinality(Q) /\ now("failedRequests") = Cardinality(FQ)
       /\ now("requestDuration") = SumFunction(dq)
       /\ now("dependencies") = Cardinality(D) /\ now("failedDependencies") = Cardinality(FD)
       /\ now("dependencyDuration") = SumFunction(dd)
       /\ now("exceptions") \in SumFunction(xn) .. SumFunction(xa)
  BY DEF LiveRatesAreExact, Q, D, FQ, FD, dq, dd, xn, xa, NT, A
<1>28. \A c \in {"requests", "failedRequests", "requestDuration", "dependencies",
                 "failedDependencies", "dependencyDuration", "exceptions"} : c \in Counters
  BY DEF Counters
<1>29. now("exceptions") \in Int
  BY <1>26, <1>28
<1>30. /\ now2("requests") = now("requests") + (IF e.taken THEN gain["requests"] ELSE 0)
       /\ now2("failedRequests") = now("failedRequests")
                                     + (IF e.taken THEN gain["failedRequests"] ELSE 0)
       /\ now2("requestDuration") = now("requestDuration")
                                     + (IF e.taken THEN gain["requestDuration"] ELSE 0)
       /\ now2("dependencies") = now("dependencies")
                                   + (IF e.taken THEN gain["dependencies"] ELSE 0)
       /\ now2("failedDependencies") = now("failedDependencies")
                                         + (IF e.taken THEN gain["failedDependencies"] ELSE 0)
       /\ now2("dependencyDuration") = now("dependencyDuration")
                                         + (IF e.taken THEN gain["dependencyDuration"] ELSE 0)
       /\ now2("exceptions") = now("exceptions")
                                 + (IF e.taken THEN gain["exceptions"] ELSE 0)
       /\ gain["exceptions"] \in Int
  BY <1>26, <1>28
<1> HIDE DEF now, now2
<1>31. /\ now2("requests") = Cardinality(Q2) /\ now2("failedRequests") = Cardinality(FQ2)
       /\ now2("requestDuration") = SumFunction(dq2)
  BY <1>12, <1>19, <1>20, <1>22, <1>27, <1>30 DEF EntryGain, isQ, failedQ, lasts
<1>32. /\ now2("dependencies") = Cardinality(D2) /\ now2("failedDependencies") = Cardinality(FD2)
       /\ now2("dependencyDuration") = SumFunction(dd2)
  BY <1>12, <1>19, <1>20, <1>23, <1>27, <1>30 DEF EntryGain, isD, failedD, lasts
<1>33. now2("exceptions") \in SumFunction(xn2) .. SumFunction(xa2)
  <2>1. /\ now("exceptions") <= SumFunction(xa) /\ SumFunction(xn) <= now("exceptions")
        /\ gain["exceptions"] <= X
        /\ (IF e.thrown THEN 0 ELSE X) <= gain["exceptions"]
    BY <1>24, <1>25, <1>27, <1>29 DEF EntryGain, X
  <2> QED
    BY <2>1, <1>12, <1>24, <1>25, <1>29, <1>30 DEF countedX
<1> QED
  BY <1>31, <1>32, <1>33
     DEF LiveRatesAreExact, now2, Q2, D2, FQ2, FD2, dq2, dd2, xn2, xa2, NT2, A2

-----------------------------------------------------------------------------
(* The other two handlers' counters *)

OtherRatesAreExact ==
  /\ standard["requests"] = Cardinality(Served(DOMAIN recorded))
  /\ standard["exceptions"] = SumFunction(Exceptions(DOMAIN recorded))
  /\ performance["requests"] = Cardinality(NotThrown(Served(DOMAIN recorded)))

OthersOK ==
  /\ standard \in [StandardCounters -> Int]
  /\ performance \in [{"requests", "exceptions"} -> Int]

StandardGain(e) == IF e.log THEN StandardLog(e.item) ELSE StandardSpan(e.item)
PerformanceGain(e) == IF e.log THEN PerformanceLog(e.item) ELSE PerformanceSpan(e.item)

\* What an item adds to them.
LEMMA OtherGains ==
  ASSUME NEW e \in Entries
  PROVE  LET s == StandardGain(e)
             p == PerformanceGain(e)
             served == ~e.log /\ e.item.kind = "SERVER"
         IN  /\ \A c \in DOMAIN s : s[c] \in Nat
             /\ \A c \in DOMAIN p : p[c] \in Nat
             /\ "requests" \in DOMAIN s <=> served
             /\ "requests" \in DOMAIN p <=> served
             /\ served => s["requests"] = 1 /\ p["requests"] = 1
             /\ (IF "exceptions" \in DOMAIN s THEN s["exceptions"] ELSE 0) = ExceptionsIn(e)
<1>1. /\ e.log \in BOOLEAN
      /\ ~e.log => e.item \in Spans
  BY EntryFacts
<1>2. CASE e.log
  BY <1>2 DEF StandardGain, PerformanceGain, StandardLog, PerformanceLog, Zero, ExceptionsIn
<1>3. CASE ~e.log
  <2>1. Len(e.item.exceptions) \in Nat /\ e.item.otherEvents \in Nat
    BY <1>1, <1>3, MetricHandlerAssumption DEF MetricHandlerAssumption
  <2> QED
    BY <1>3, <2>1
       DEF StandardGain, PerformanceGain, StandardSpan, PerformanceSpan, Zero, ExceptionsIn
<1> QED
  BY <1>1, <1>2, <1>3

LEMMA IncrementedType ==
  ASSUME NEW S, NEW counters \in [S -> Int], NEW more, \A c \in DOMAIN more : more[c] \in Nat
  PROVE  /\ Incremented(counters, more) \in [S -> Int]
         /\ \A c \in S : Incremented(counters, more)[c]
                           = counters[c] + (IF c \in DOMAIN more THEN more[c] ELSE 0)
BY DEF Incremented

LEMMA OthersStayExact ==
  ASSUME HistoryOK, OthersOK, OtherRatesAreExact,
         NEW e \in Entries, recorded' = Append(recorded, e),
         standard' = Incremented(standard, StandardGain(e)),
         performance' = IF e.thrown THEN performance
                        ELSE Incremented(performance, PerformanceGain(e))
  PROVE  OthersOK' /\ OtherRatesAreExact'
<1> DEFINE n == Len(recorded')
           s == StandardGain(e)
           p == PerformanceGain(e)
           served == ~e.log /\ e.item.kind = "SERVER"
<1>1. n = Len(recorded')
  OBVIOUS
<1>2. /\ e.thrown \in BOOLEAN /\ e.log \in BOOLEAN /\ served \in BOOLEAN
      /\ ExceptionsIn(e) \in Nat
  BY EntryFacts
<1>3. /\ \A c \in DOMAIN s : s[c] \in Nat
      /\ \A c \in DOMAIN p : p[c] \in Nat
      /\ "requests" \in DOMAIN s <=> served
      /\ "requests" \in DOMAIN p <=> served
      /\ served => s["requests"] = 1 /\ p["requests"] = 1
      /\ (IF "exceptions" \in DOMAIN s THEN s["exceptions"] ELSE 0) = ExceptionsIn(e)
  BY OtherGains
<1> HIDE DEF n, s, p
<1>4. /\ IsFiniteSet(DOMAIN recorded) /\ n \notin DOMAIN recorded
      /\ DOMAIN recorded' = DOMAIN recorded \cup {n}
      /\ \A i \in DOMAIN recorded : recorded[i] \in Entries /\ recorded'[i] = recorded[i]
      /\ recorded'[n] = e
  BY <1>1, HistoryGrows
<1>5. /\ standard' \in [StandardCounters -> Int]
      /\ standard'["requests"] = standard["requests"] + (IF served THEN 1 ELSE 0)
      /\ standard'["exceptions"] = standard["exceptions"] + ExceptionsIn(e)
  <2>1. standard' = Incremented(standard, s) /\ standard \in [StandardCounters -> Int]
    BY DEF s, OthersOK
  <2>2. /\ standard' \in [StandardCounters -> Int]
        /\ \A c \in StandardCounters :
             standard'[c] = standard[c] + (IF c \in DOMAIN s THEN s[c] ELSE 0)
    BY <1>3, <2>1, IncrementedType
  <2>3. "requests" \in StandardCounters /\ "exceptions" \in StandardCounters
    BY DEF StandardCounters
  <2> QED
    BY <1>3, <2>2, <2>3
<1>6. /\ performance' \in [{"requests", "exceptions"} -> Int]
      /\ performance'["requests"]
           = performance["requests"] + (IF served /\ ~e.thrown THEN 1 ELSE 0)
  <2>1. performance \in [{"requests", "exceptions"} -> Int]
    BY DEF OthersOK
  <2>2. CASE e.thrown
    BY <2>1, <2>2
  <2>3. CASE ~e.thrown
    <3>1. performance' = Incremented(performance, p)
      BY <2>3 DEF p
    <3> DEFINE counters == {"requests", "exceptions"}
    <3>2. performance \in [counters -> Int]
      BY <2>1
    <3> HIDE DEF counters
    <3>3. /\ performance' \in [counters -> Int]
          /\ \A c \in counters :
               performance'[c] = performance[c] + (IF c \in DOMAIN p THEN p[c] ELSE 0)
      BY ONLY <1>3, <3>1, <3>2, IncrementedType
    <3>4. /\ performance' \in [{"requests", "exceptions"} -> Int]
          /\ \A c \in {"requests", "exceptions"} :
               performance'[c] = performance[c] + (IF c \in DOMAIN p THEN p[c] ELSE 0)
      BY <3>3 DEF counters
    <3> QED
      BY <1>3, <2>3, <3>4
  <2> QED
    BY <1>2, <2>2, <2>3
<1> DEFINE R == DOMAIN recorded
           R2 == DOMAIN recorded'
           S == Served(R)
           S2 == Served(DOMAIN recorded)'
           K == NotThrown(S)
           K2 == NotThrown(Served(DOMAIN recorded))'
           x == Exceptions(R)
           x2 == Exceptions(DOMAIN recorded)'
<1>7. Grows(S, S2, served, n)
  BY <1>4 DEF Grows, Served, Item
<1>8. S \subseteq R /\ K \subseteq S
  BY DEF Served, NotThrown
<1>9. Grows(K, K2, served /\ ~e.thrown, n)
  BY <1>4, <1>7, <1>8 DEF Grows, NotThrown
<1>10. DOMAIN x = R /\ DOMAIN x2 = R2 /\ Grows(R, R2, TRUE, n)
  BY <1>4 DEF Exceptions, Grows
<1>11. /\ \A i \in R : x[i] = ExceptionsIn(recorded[i])
       /\ \A i \in R2 : x2[i] = ExceptionsIn(recorded'[i])
  BY DEF Exceptions, ExceptionsIn, Item
<1> HIDE DEF R, R2, S, S2, K, K2, x, x2
<1>12. /\ IsFiniteSet(R) /\ n \notin R /\ R2 = R \cup {n}
       /\ \A i \in R : recorded[i] \in Entries /\ recorded'[i] = recorded[i]
  BY <1>4 DEF R, R2
<1>13. IsFiniteSet(S) /\ IsFiniteSet(K) /\ n \notin S /\ n \notin K
  BY <1>8, <1>12, FS_Subset
<1>14. Cardinality(S2) = Cardinality(S) + (IF served THEN 1 ELSE 0)
  BY <1>2, <1>7, <1>13, CardinalityGrows
<1>15. Cardinality(K2) = Cardinality(K) + (IF served /\ ~e.thrown THEN 1 ELSE 0)
  <2>1. (served /\ ~e.thrown) \in BOOLEAN
    BY <1>2
  <2> QED
    BY <1>9, <1>13, <2>1, CardinalityGrows
<1>16. SumFunction(x2) = SumFunction(x) + ExceptionsIn(e)
  <2>1. ASSUME NEW i \in DOMAIN x PROVE x2[i] = x[i] /\ x[i] \in Int
    <3>1. recorded'[i] = recorded[i] /\ recorded[i] \in Entries /\ i \in R /\ i \in R2
      BY <1>10, <1>12
    <3>2. ExceptionsIn(recorded[i]) \in Int
      BY <3>1, EntryFacts
    <3>3. x2[i] = ExceptionsIn(recorded'[i]) /\ x[i] = ExceptionsIn(recorded[i])
      BY <1>11, <3>1
    <3> QED
      BY ONLY <3>1, <3>2, <3>3
  <2>2. x2[n] = ExceptionsIn(e)
    BY <1>4, <1>11, <1>12
  <2>3. IsFiniteSet(DOMAIN x) /\ n \notin DOMAIN x /\ Grows(DOMAIN x, DOMAIN x2, TRUE, n)
    BY <1>10, <1>12
  <2>4. ExceptionsIn(e) \in Int
    BY <1>2
  <2> QED
    BY ONLY <2>1, <2>2, <2>3, <2>4, SumGrows
<1>17. OtherRatesAreExact'
  <2>1. /\ standard["requests"] = Cardinality(S) /\ standard["exceptions"] = SumFunction(x)
        /\ performance["requests"] = Cardinality(K)
    BY DEF OtherRatesAreExact, S, K, x, R
  <2>2. /\ standard'["requests"] = Cardinality(S2) /\ standard'["exceptions"] = SumFunction(x2)
        /\ performance'["requests"] = Cardinality(K2)
    BY <1>5, <1>6, <1>14, <1>15, <1>16, <2>1
  <2> QED
    BY <2>2 DEF OtherRatesAreExact, S2, K2, x2
<1> QED
  BY <1>5, <1>6, <1>17 DEF OthersOK
-----------------------------------------------------------------------------
(* Every step *)

\* A step of the handler is one of the client's, or leaves the client alone.
LEMMA HandlerStepsAreClientSteps == [HandlerNext]_allVars => [Next]_vars
BY DEF HandlerNext, allVars, Next, Ping, PingAnswer, PostAnswer, GoOn, End, Silence, Export,
       RecordSpan, RecordLog

LEMMA ConfigurationType ==
  TypeOK => config \in Etags \cup {None} /\ isCollectingData \in BOOLEAN
BY DEF TypeOK

HandlerInv ==
  /\ TypeOK /\ HistoryOK /\ OthersOK
  /\ totals \in Totals /\ last \in Totals
  /\ LiveRatesAreExact /\ OtherRatesAreExact

\* Right after a collection nothing has been counted and no item has come.
LEMMA EmptyInterval ==
  recorded \in Seq(Entries) /\ rateMark = Len(recorded) /\ totals \in Totals /\ last = totals
    => LiveRatesAreExact
<1> SUFFICES ASSUME recorded \in Seq(Entries), rateMark = Len(recorded), totals \in Totals,
                    last = totals
             PROVE  LiveRatesAreExact
  OBVIOUS
<1>1. Since(rateMark) = {}
  BY DEF Since
<1>2. /\ Requests({}) = {} /\ Dependencies({}) = {} /\ NotThrown({}) = {} /\ Failed({}) = {}
  BY DEF Requests, Dependencies, NotThrown, Failed
<1>3. DOMAIN Durations({}) = {} /\ DOMAIN Exceptions({}) = {}
  BY DEF Durations, Exceptions
<1>4. SumFunction(Durations({})) = 0 /\ SumFunction(Exceptions({})) = 0
  BY <1>3, SumOfNone
<1>5. Cardinality({}) = 0
  BY FS_EmptySet
<1>6. \A c \in Counters : totals[c] - last[c] = 0
  BY DEF Totals
<1>7. \A c \in {"requests", "failedRequests", "requestDuration", "dependencies",
                "failedDependencies", "dependencyDuration", "exceptions"} :
         totals[c] - last[c] = 0
  BY <1>6 DEF Counters
<1> DEFINE items == Since(rateMark)
<1>8. /\ Cardinality(Requests(items)) = 0 /\ Cardinality(Failed(Requests(items))) = 0
      /\ Cardinality(Dependencies(items)) = 0 /\ Cardinality(Failed(Dependencies(items))) = 0
  BY <1>1, <1>2, <1>5
<1>9. /\ SumFunction(Durations(Requests(items))) = 0
      /\ SumFunction(Durations(Dependencies(items))) = 0
      /\ SumFunction(Exceptions(NotThrown(items))) = 0
      /\ SumFunction(Exceptions(items)) = 0
  BY <1>1, <1>2, <1>4
<1>10. 0 \in 0 .. 0
  OBVIOUS
<1> HIDE DEF items
<1> QED
  BY <1>7, <1>8, <1>9, <1>10 DEF LiveRatesAreExact, items

LEMMA EmptyIntervalNext ==
  (recorded \in Seq(Entries) /\ rateMark = Len(recorded) /\ totals \in Totals /\ last = totals)'
    => LiveRatesAreExact'
BY EmptyInterval, PTL

\* The history and what it is made of.
LEMMA SameHistory ==
  ASSUME recorded' = recorded, NEW m
  PROVE  /\ Since(m)' = Since(m)
         /\ \A S : /\ Requests(S)' = Requests(S) /\ Dependencies(S)' = Dependencies(S)
                   /\ Served(S)' = Served(S) /\ NotThrown(S)' = NotThrown(S)
                   /\ Failed(S)' = Failed(S)
                   /\ Durations(S)' = Durations(S) /\ Exceptions(S)' = Exceptions(S)
BY DEF Since, Requests, Dependencies, Served, NotThrown, Failed, Durations, Exceptions, Item

LEMMA RatesUntouched ==
  ASSUME LiveRatesAreExact, OtherRatesAreExact, OthersOK, HistoryOK,
         UNCHANGED <<recorded, standard, performance>>
  PROVE  /\ OtherRatesAreExact' /\ OthersOK' /\ (rateMark' = rateMark => HistoryOK')
         /\ UNCHANGED <<totals, last, rateMark>> => LiveRatesAreExact'
<1>1. /\ \A m : Since(m)' = Since(m)
      /\ \A S : /\ Requests(S)' = Requests(S) /\ Dependencies(S)' = Dependencies(S)
                /\ Served(S)' = Served(S) /\ NotThrown(S)' = NotThrown(S)
                /\ Failed(S)' = Failed(S)
                /\ Durations(S)' = Durations(S) /\ Exceptions(S)' = Exceptions(S)
  BY SameHistory
<1>2. OtherRatesAreExact' /\ OthersOK'
  BY <1>1 DEF OtherRatesAreExact, OthersOK
<1>3. rateMark' = rateMark => HistoryOK'
  BY DEF HistoryOK
<1>4. ASSUME UNCHANGED <<totals, last, rateMark>> PROVE LiveRatesAreExact'
  BY <1>1, <1>4 DEF LiveRatesAreExact
<1> QED
  BY <1>2, <1>3, <1>4

\* A step that records nothing and touches the counters only by collecting or by starting
\* again at zero.
LEMMA NoItem ==
  ASSUME HandlerInv, UNCHANGED handlerVars,
         \/ UNCHANGED <<totals, last, rateMark>>
         \/ totals' \in Totals /\ last' = totals' /\ rateMark' = Len(recorded)
  PROVE  /\ HistoryOK' /\ OthersOK' /\ totals' \in Totals /\ last' \in Totals
         /\ LiveRatesAreExact' /\ OtherRatesAreExact'
<1>1. UNCHANGED <<recorded, standard, performance>>
  BY DEF handlerVars
<1>2. OtherRatesAreExact' /\ OthersOK'
  BY <1>1, RatesUntouched DEF HandlerInv
<1>3. CASE UNCHANGED <<totals, last, rateMark>>
  BY <1>1, <1>2, <1>3, RatesUntouched DEF HandlerInv
<1>4. CASE totals' \in Totals /\ last' = totals' /\ rateMark' = Len(recorded)
  <2>1. recorded \in Seq(Entries)
    BY DEF HandlerInv, HistoryOK
  <2>2. HistoryOK'
    BY <1>1, <1>4, <2>1 DEF HistoryOK
  <2>3. LiveRatesAreExact'
    BY <1>1, <1>4, <2>1, EmptyIntervalNext
  <2> QED
    BY <1>2, <1>4, <2>2, <2>3
<1> QED
  BY <1>3, <1>4

LEMMA ZeroType == Zero(Counters) \in Totals
BY DEF Zero, Totals

\* A step of the client makes the telemetry follow.
LEMMA FollowCounts ==
  ASSUME HandlerInv, NEW startedOver, Follow(startedOver)
  PROVE  /\ UNCHANGED handlerVars
         /\ \/ UNCHANGED <<totals, last, rateMark>>
            \/ totals' \in Totals /\ last' = totals' /\ rateMark' = Len(recorded)
<1>1. UNCHANGED handlerVars
  BY DEF Follow
<1>2. \/ ClearTelemetry /\ ResetCounters
      \/ ClearTelemetry /\ Collect /\ UNCHANGED totals
      \/ ClearTelemetry /\ UNCHANGED <<totals, last, rateMark>>
      \/ StartOver /\ UNCHANGED <<totals, last, rateMark>>
      \/ ResetCounters /\ UNCHANGED <<documents, runTimeErrors, projections, valueMark>>
      \/ UNCHANGED <<telemetryVars, rateMark, valueMark>>
  BY DEF Follow
<1>3. ResetCounters => totals' \in Totals /\ last' = totals' /\ rateMark' = Len(recorded)
  BY ZeroType DEF ResetCounters
<1>4. Collect /\ UNCHANGED totals
        => totals' \in Totals /\ last' = totals' /\ rateMark' = Len(recorded)
  BY DEF Collect, HandlerInv
<1>5. UNCHANGED <<telemetryVars, rateMark, valueMark>> => UNCHANGED <<totals, last, rateMark>>
  BY DEF telemetryVars
<1> QED
  BY <1>1, <1>2, <1>3, <1>4, <1>5

LEMMA SpanEntryGain ==
  ASSUME NEW e \in Entries, ~e.log, NEW k \in 0 .. Len(e.item.exceptions),
         ~e.thrown => k = Len(e.item.exceptions)
  PROVE  EntryGain(e, SpanGain(e.item, k))
<1>1. e.item.duration \in Nat /\ e.item.failed \in BOOLEAN /\ Len(e.item.exceptions) \in Nat
      /\ e.thrown \in BOOLEAN
  BY EntryFacts DEF IsList
<1>2. ExceptionsIn(e) = Len(e.item.exceptions)
  BY DEF ExceptionsIn
<1> DEFINE gain == SpanGain(e.item, k)
<1>3. gain \in Totals
  BY <1>1 DEF SpanGain, Totals, Counters
<1>4. /\ gain["requests"] = (IF IsRequest(e.item) THEN 1 ELSE 0)
      /\ gain["failedRequests"] = (IF IsRequest(e.item) /\ e.item.failed THEN 1 ELSE 0)
      /\ gain["requestDuration"] = (IF IsRequest(e.item) THEN e.item.duration ELSE 0)
      /\ gain["dependencies"] = (IF ~IsRequest(e.item) THEN 1 ELSE 0)
      /\ gain["failedDependencies"] = (IF ~IsRequest(e.item) /\ e.item.failed THEN 1 ELSE 0)
      /\ gain["dependencyDuration"] = (IF ~IsRequest(e.item) THEN e.item.duration ELSE 0)
      /\ gain["exceptions"] = k
  BY DEF SpanGain
<1> HIDE DEF gain
<1>5. k <= Len(e.item.exceptions) /\ (IF e.thrown THEN 0 ELSE Len(e.item.exceptions)) <= k
  BY <1>1
<1> QED
  BY <1>2, <1>3, <1>4, <1>5 DEF EntryGain, gain

LEMMA LogEntryGain ==
  ASSUME NEW e \in Entries, e.log
  PROVE  EntryGain(e, ExceptionGain(IF isExceptionTelemetry(e.item) THEN 1 ELSE 0))
<1> DEFINE k == IF isExceptionTelemetry(e.item) THEN 1 ELSE 0
           gain == ExceptionGain(k)
<1>1. ExceptionsIn(e) = k /\ k \in Nat
  BY DEF ExceptionsIn
<1> HIDE DEF k
<1>2. /\ gain \in Totals /\ gain["exceptions"] = k
      /\ \A c \in Counters \ {"exceptions"} : gain[c] = 0
  BY <1>1 DEF ExceptionGain, Totals, Counters
<1> HIDE DEF gain
<1>3. /\ gain["requests"] = 0 /\ gain["failedRequests"] = 0 /\ gain["requestDuration"] = 0
      /\ gain["dependencies"] = 0 /\ gain["failedDependencies"] = 0
      /\ gain["dependencyDuration"] = 0
  BY <1>2 DEF Counters
<1>4. EntryGain(e, gain)
  BY <1>1, <1>2, <1>3, EntryFacts DEF EntryGain
<1> QED
  BY <1>4 DEF gain, k

LEMMA EntryCounted ==
  ASSUME HandlerInv, NEW e \in Entries, recorded' = Append(recorded, e),
         UNCHANGED <<vars, last, rateMark>>,
         NEW gain, EntryGain(e, gain),
         totals' = IF e.taken THEN Raised(totals, gain) ELSE totals,
         standard' = Incremented(standard, StandardGain(e)),
         performance' = IF e.thrown THEN performance
                        ELSE Incremented(performance, PerformanceGain(e))
  PROVE  HandlerInv'
<1>1. TypeOK'
  <2>1. TypeOK /\ [Next]_vars
    BY DEF HandlerInv
  <2> QED
    BY <2>1, NextTypeOK
<1>2. HistoryOK'
  <2>1. recorded \in Seq(Entries) /\ rateMark \in 0 .. Len(recorded) /\ Len(recorded) \in Nat
    BY DEF HandlerInv, HistoryOK
  <2>2. recorded' \in Seq(Entries) /\ Len(recorded') = Len(recorded) + 1
    BY ONLY <2>1, recorded' = Append(recorded, e), e \in Entries, OneMoreItem
  <2>3. rateMark' \in 0 .. Len(recorded')
    BY <2>1, <2>2
  <2> QED
    BY <2>2, <2>3 DEF HistoryOK
<1>3. totals' \in Totals /\ last' \in Totals
  <2>1. totals \in Totals /\ gain \in Totals
    BY DEF HandlerInv, EntryGain
  <2>2. Raised(totals, gain) \in Totals
    BY <2>1, RaisedType
  <2> QED
    BY <2>1, <2>2 DEF HandlerInv
<1>4. LiveRatesAreExact'
  <2>1. HistoryOK /\ totals \in Totals /\ last \in Totals /\ LiveRatesAreExact
        /\ UNCHANGED <<last, rateMark>>
    BY DEF HandlerInv
  <2> QED
    BY <2>1, RatesStayExact
<1>5. OthersOK' /\ OtherRatesAreExact'
  <2>1. HistoryOK /\ OthersOK /\ OtherRatesAreExact
    BY DEF HandlerInv
  <2> QED
    BY <2>1, OthersStayExact
<1> QED
  BY <1>1, <1>2, <1>3, <1>4, <1>5 DEF HandlerInv

LEMMA SpanStep == HandlerInv /\ RecordSpan => HandlerInv'
<1> SUFFICES ASSUME HandlerInv, RecordSpan PROVE HandlerInv'
  OBVIOUS
<1>1. PICK span \in Spans :
        LET t == IF isCollectingData THEN recordSpan(Telemetry, span) ELSE Telemetry
        IN  /\ Apply(t)
            /\ standard' = Incremented(standard, StandardSpan(span))
            /\ performance' = IF t.thrown THEN performance
                              ELSE Incremented(performance, PerformanceSpan(span))
            /\ recorded' = Append(recorded, [item |-> span, log |-> FALSE, thrown |-> t.thrown,
                                             taken |-> isCollectingData])
            /\ UNCHANGED <<vars, rateMark, valueMark>>
  BY DEF RecordSpan
<1> DEFINE t == IF isCollectingData THEN recordSpan(Telemetry, span) ELSE Telemetry
           e == [item |-> span, log |-> FALSE, thrown |-> t.thrown, taken |-> isCollectingData]
<1>2. /\ totals' = t.totals /\ last' = last
      /\ standard' = Incremented(standard, StandardSpan(span))
      /\ performance' = IF t.thrown THEN performance
                        ELSE Incremented(performance, PerformanceSpan(span))
      /\ recorded' = Append(recorded, e)
      /\ UNCHANGED <<vars, rateMark>>
  BY <1>1 DEF Apply
<1>3. config \in Etags \cup {None} /\ isCollectingData \in BOOLEAN
  BY ConfigurationType DEF HandlerInv
<1>4. IsTelemetry(Telemetry) /\ Telemetry.totals = totals /\ ~Telemetry.thrown
  BY DEF IsTelemetry, Telemetry
<1>5. totals \in Totals
  BY DEF HandlerInv
<1>6. Len(span.exceptions) \in Nat
  BY MetricHandlerAssumption DEF MetricHandlerAssumption
<1>7. PICK k \in 0 .. Len(span.exceptions) :
        /\ t.thrown \in BOOLEAN
        /\ t.totals = IF isCollectingData THEN Raised(totals, SpanGain(span, k)) ELSE totals
        /\ ~t.thrown => k = Len(span.exceptions)
  <2>1. CASE isCollectingData
    <3>1. t = recordSpan(Telemetry, span)
      BY <2>1
    <3>2. \E k \in 0 .. Len(span.exceptions) :
            /\ IsTelemetry(recordSpan(Telemetry, span))
            /\ recordSpan(Telemetry, span).totals = Raised(Telemetry.totals, SpanGain(span, k))
            /\ ~recordSpan(Telemetry, span).thrown => k = Len(span.exceptions)
      BY <1>3, <1>4, <1>5, SpanCounted
    <3> HIDE DEF t
    <3> QED
      BY <1>4, <2>1, <3>1, <3>2 DEF IsTelemetry
  <2>2. CASE ~isCollectingData
    <3>1. t = Telemetry
      BY <2>2
    <3> HIDE DEF t
    <3>2. Len(span.exceptions) \in 0 .. Len(span.exceptions)
      BY <1>6
    <3> QED
      BY <1>4, <2>2, <3>1, <3>2 DEF IsTelemetry
  <2> QED
    BY <1>3, <2>1, <2>2
<1> HIDE DEF t
<1>8. /\ e \in Entries /\ e.item = span /\ e.log = FALSE /\ e.thrown = t.thrown
      /\ e.taken = isCollectingData
  BY <1>3, <1>7 DEF Entries
<1>9. StandardGain(e) = StandardSpan(span) /\ PerformanceGain(e) = PerformanceSpan(span)
  BY <1>8 DEF StandardGain, PerformanceGain
<1> HIDE DEF e
<1>10. EntryGain(e, SpanGain(span, k))
  BY <1>7, <1>8, SpanEntryGain
<1> QED
  BY <1>2, <1>7, <1>8, <1>9, <1>10, EntryCounted

LEMMA LogStep == HandlerInv /\ RecordLog => HandlerInv'
<1> SUFFICES ASSUME HandlerInv, RecordLog PROVE HandlerInv'
  OBVIOUS
<1>1. PICK log \in Logs :
        LET t == IF isCollectingData THEN recordLog(Telemetry, log) ELSE Telemetry
        IN  /\ Apply(t)
            /\ standard' = Incremented(standard, StandardLog(log))
            /\ performance' = Incremented(performance, PerformanceLog(log))
            /\ recorded' = Append(recorded, [item |-> log, log |-> TRUE, thrown |-> FALSE,
                                             taken |-> isCollectingData])
            /\ UNCHANGED <<vars, rateMark, valueMark>>
  BY DEF RecordLog
<1> DEFINE t == IF isCollectingData THEN recordLog(Telemetry, log) ELSE Telemetry
           e == [item |-> log, log |-> TRUE, thrown |-> FALSE, taken |-> isCollectingData]
           gain == ExceptionGain(IF isExceptionTelemetry(log) THEN 1 ELSE 0)
<1>2. /\ totals' = t.totals /\ last' = last
      /\ standard' = Incremented(standard, StandardLog(log))
      /\ performance' = Incremented(performance, PerformanceLog(log))
      /\ recorded' = Append(recorded, e)
      /\ UNCHANGED <<vars, rateMark>>
  BY <1>1 DEF Apply
<1>3. config \in Etags \cup {None} /\ isCollectingData \in BOOLEAN
  BY ConfigurationType DEF HandlerInv
<1>4. IsTelemetry(Telemetry) /\ Telemetry.totals = totals /\ ~Telemetry.thrown
  BY DEF IsTelemetry, Telemetry
<1>5. totals \in Totals
  BY DEF HandlerInv
<1>6. t.totals = IF isCollectingData THEN Raised(totals, gain) ELSE totals
  <2>1. CASE isCollectingData
    <3>1. t = recordLog(Telemetry, log)
      BY <2>1
    <3>2. recordLog(Telemetry, log).totals = Raised(Telemetry.totals, gain)
      BY <1>3, <1>4, <1>5, LogCounted
    <3> HIDE DEF t, gain
    <3> QED
      BY <1>4, <2>1, <3>1, <3>2
  <2>2. CASE ~isCollectingData
    BY <1>4, <2>2
  <2> QED
    BY <1>3, <2>1, <2>2
<1> HIDE DEF t
<1>7. /\ e \in Entries /\ e.item = log /\ e.log = TRUE /\ e.thrown = FALSE
      /\ e.taken = isCollectingData
  BY <1>3 DEF Entries
<1>8. StandardGain(e) = StandardLog(log) /\ PerformanceGain(e) = PerformanceLog(log)
  BY <1>7 DEF StandardGain, PerformanceGain
<1> HIDE DEF e
<1>9. EntryGain(e, gain)
  BY <1>7, LogEntryGain
<1> HIDE DEF gain
<1> QED
  BY <1>2, <1>6, <1>7, <1>8, <1>9, EntryCounted

LEMMA InitHandlerInv == HandlerInit => HandlerInv
<1> SUFFICES ASSUME HandlerInit PROVE HandlerInv
  OBVIOUS
<1>1. /\ Init /\ totals = Zero(Counters) /\ last = Zero(Counters)
      /\ standard = Zero(StandardCounters) /\ performance = Zero({"requests", "exceptions"})
      /\ recorded = <<>> /\ rateMark = 0
  BY DEF HandlerInit
<1>2. TypeOK
  BY <1>1, InitTypeOK
<1>3. HistoryOK /\ recorded \in Seq(Entries) /\ rateMark = Len(recorded)
  BY <1>1 DEF HistoryOK
<1>4. totals \in Totals /\ last = totals
  BY <1>1, ZeroType
<1>5. LiveRatesAreExact
  BY <1>3, <1>4, EmptyInterval
<1>6. OthersOK
  BY <1>1 DEF OthersOK, Zero
<1>7. OtherRatesAreExact
  <2>1. DOMAIN recorded = {} /\ Served({}) = {} /\ NotThrown({}) = {}
    BY <1>1 DEF Served, NotThrown
  <2>2. SumFunction(Exceptions({})) = 0
    <3>1. DOMAIN Exceptions({}) = {}
      BY DEF Exceptions
    <3> QED
      BY <3>1, SumOfNone
  <2>3. Cardinality({}) = 0
    BY FS_EmptySet
  <2>4. standard["requests"] = 0 /\ standard["exceptions"] = 0 /\ performance["requests"] = 0
    BY <1>1 DEF Zero, StandardCounters
  <2> QED
    BY <2>1, <2>2, <2>3, <2>4 DEF OtherRatesAreExact
<1> QED
  BY <1>2, <1>3, <1>4, <1>5, <1>6, <1>7 DEF HandlerInv

LEMMA NextHandlerInv == HandlerInv /\ [HandlerNext]_allVars => HandlerInv'
<1> SUFFICES ASSUME HandlerInv, [HandlerNext]_allVars PROVE HandlerInv'
  OBVIOUS
<1>1. TypeOK'
  <2>1. TypeOK
    BY DEF HandlerInv
  <2> QED
    BY <2>1, HandlerStepsAreClientSteps, NextTypeOK
<1>2. ASSUME UNCHANGED handlerVars,
             \/ UNCHANGED <<totals, last, rateMark>>
             \/ totals' \in Totals /\ last' = totals' /\ rateMark' = Len(recorded)
      PROVE  HandlerInv'
  <2>1. /\ HistoryOK' /\ OthersOK' /\ totals' \in Totals /\ last' \in Totals
        /\ LiveRatesAreExact' /\ OtherRatesAreExact'
    BY <1>2, NoItem
  <2> QED
    BY <1>1, <2>1 DEF HandlerInv
<1>3. CASE Ping \/ PingAnswer \/ PostAnswer \/ GoOn \/ End
  <2>1. PICK startedOver : Follow(startedOver)
    BY <1>3 DEF Ping, PingAnswer, PostAnswer, GoOn, End
  <2> QED
    BY <1>2, <2>1, FollowCounts
<1>4. CASE Silence
  BY <1>2, <1>4 DEF Silence, telemetryVars
<1>5. CASE Export
  <2>1. totals' = totals /\ last' = totals /\ rateMark' = Len(recorded) /\ UNCHANGED handlerVars
    BY <1>5 DEF Export, Collect
  <2>2. totals \in Totals
    BY DEF HandlerInv
  <2> QED
    BY <1>2, <2>1, <2>2
<1>6. CASE RecordSpan
  BY <1>6, SpanStep
<1>7. CASE RecordLog
  BY <1>7, LogStep
<1>8. CASE UNCHANGED allVars
  BY <1>2, <1>8 DEF allVars, telemetryVars
<1> QED
  BY <1>3, <1>4, <1>5, <1>6, <1>7, <1>8 DEF HandlerNext

\* RatesAreExact: whatever items arrive between whatever answers, timers, restarts and
\* shutdowns, each report's requests, dependencies and durations are those of the items since
\* the last one, and the other two handlers have missed only what a filter cut off.
THEOREM RatesExact == HandlerSpec => []RatesAreExact
<1>1. HandlerInv => RatesAreExact
  BY DEF HandlerInv, OtherRatesAreExact, RatesAreExact
<1> QED
  BY <1>1, InitHandlerInv, NextHandlerInv, PTL DEF HandlerSpec

\* HandlerSpec's steps are LiveMetrics': what is proved of the client's protocol holds while
\* items are recorded and reports are taken.
THEOREM HandlerFollowsClient == HandlerSpec => Init /\ [][Next]_vars
<1>1. HandlerInit => Init
  BY DEF HandlerInit
<1> QED
  BY <1>1, HandlerStepsAreClientSteps, PTL DEF HandlerSpec

\* ProviderOnlyWhileSubscribed, NeverAsleep and ReportsOwnConfiguration of the composition.
THEOREM HandlerKeepsProtocol ==
  HandlerSpec => [](TypeOK /\ ProviderOnlyWhileSubscribed /\ NeverAsleep
                      /\ ReportsOwnConfiguration)
BY HandlerFollowsClient, TypeHolds, NoProviderStrays, SomethingGoesOn, ConfigurationIsOwn, PTL

-----------------------------------------------------------------------------
(* Derived metrics: which of them a row moves *)

Ids == {metric.id : metric \in MetricsOf(config)}

LEMMA MetricsOfConfiguration ==
  ASSUME config \in Etags \cup {None}, NEW metric \in MetricsOf(config)
  PROVE  /\ config \in Etags /\ metric.telemetryType \in Types
         /\ \E n \in DOMAIN validDerivedMetrics(metric.telemetryType) :
              validDerivedMetrics(metric.telemetryType)[n] = metric
         /\ \E i \in DOMAIN Configurations[config].metrics :
              /\ IsFirstOfItsId(Configurations[config].metrics, i)
              /\ Configurations[config].metrics[i].id = metric.id
              /\ metric = Renamed(Configurations[config].metrics[i])
<1> DEFINE metrics == Configurations[config].metrics
<1>1. config # None /\ config \in Etags
  BY DEF MetricsOf
<1>2. PICK type \in DOMAIN KnownColumns : metric \in ToSet(ParsedMetrics[config][type])
  BY <1>1 DEF MetricsOf
<1> DEFINE list == ParsedMetrics[config][type]
<1>3. type \in Types /\ list = validDerivedMetrics(type)
  BY <1>1 DEF KnownColumns, Types, validDerivedMetrics
<1>4. PICK n \in DOMAIN list : list[n] = metric
  BY <1>2 DEF ToSet
<1>5. PICK at : Comes(list, at, metrics, type)
  BY <1>1, <1>3, MetricsCome
<1>6. at[n] \in Kept(metrics, type) /\ list[n] = Renamed(metrics[at[n]])
  BY <1>5 DEF Comes
<1>7. /\ at[n] \in DOMAIN metrics /\ IsFirstOfItsId(metrics, at[n])
      /\ metrics[at[n]].telemetryType = type /\ ValidMetric(metrics[at[n]])
  BY <1>6 DEF Kept
<1>8. IsMetric(metrics[at[n]])
  BY <1>1, <1>7, MetricHandlerAssumption DEF MetricHandlerAssumption
<1>9. metric.id = metrics[at[n]].id /\ metric.telemetryType = type
  BY <1>3, <1>4, <1>6, <1>7, <1>8, RenamedMetric
<1> QED
  BY <1>1, <1>3, <1>4, <1>6, <1>7, <1>9

LEMMA FirstsOfAnId ==
  ASSUME NEW metrics, NEW N \in Nat, NEW i \in 1 .. N, NEW j \in 1 .. N,
         IsFirstOfItsId(metrics, i), IsFirstOfItsId(metrics, j), metrics[i].id = metrics[j].id
  PROVE  i = j
<1>1. CASE i < j
  <2>1. i \in 1 .. j - 1
    BY <1>1
  <2> QED
    BY <2>1 DEF IsFirstOfItsId
<1>2. CASE j < i
  <2>1. j \in 1 .. i - 1
    BY <1>2
  <2> QED
    BY <2>1 DEF IsFirstOfItsId
<1> QED
  BY <1>1, <1>2

\* An id names one metric.
LEMMA IdsDiffer ==
  ASSUME config \in Etags \cup {None}, NEW one \in MetricsOf(config),
         NEW other \in MetricsOf(config), one.id = other.id
  PROVE  one = other
<1> DEFINE metrics == Configurations[config].metrics
<1>1. config \in Etags
  BY MetricsOfConfiguration
<1>2. PICK i \in DOMAIN metrics : IsFirstOfItsId(metrics, i) /\ metrics[i].id = one.id
                                  /\ one = Renamed(metrics[i])
  BY MetricsOfConfiguration
<1>3. PICK j \in DOMAIN metrics : IsFirstOfItsId(metrics, j) /\ metrics[j].id = other.id
                                  /\ other = Renamed(metrics[j])
  BY MetricsOfConfiguration
<1>4. Len(metrics) \in Nat /\ DOMAIN metrics = 1 .. Len(metrics)
  BY <1>1, MetricHandlerAssumption DEF MetricHandlerAssumption
<1>5. i = j
  <2> HIDE DEF metrics
  <2> QED
    BY <1>2, <1>3, <1>4, FirstsOfAnId
<1> QED
  BY <1>2, <1>3, <1>5

\* The list of a type holds the type's metrics, each once.
LEMMA ListedMetrics ==
  ASSUME config \in Etags \cup {None}, NEW type \in Types,
         NEW m \in DOMAIN validDerivedMetrics(type)
  PROVE  /\ validDerivedMetrics(type)[m] \in MetricsOf(config)
         /\ validDerivedMetrics(type)[m].telemetryType = type
         /\ \A n \in DOMAIN validDerivedMetrics(type) :
              validDerivedMetrics(type)[m].id = validDerivedMetrics(type)[n].id => m = n
<1> DEFINE metrics == Configurations[config].metrics
           list == ParsedMetrics[config][type]
<1>1. config # None /\ config \in Etags /\ validDerivedMetrics(type) = list
  BY DEF validDerivedMetrics
<1>2. PICK at : Comes(list, at, metrics, type)
  BY <1>1, MetricsCome
<1>3. ASSUME NEW n \in DOMAIN list
      PROVE  /\ at[n] \in DOMAIN metrics /\ IsFirstOfItsId(metrics, at[n])
             /\ list[n].id = metrics[at[n]].id /\ list[n].telemetryType = type
  <2>1. at[n] \in Kept(metrics, type) /\ list[n] = Renamed(metrics[at[n]])
    BY <1>2 DEF Comes
  <2>2. /\ at[n] \in DOMAIN metrics /\ IsFirstOfItsId(metrics, at[n])
        /\ metrics[at[n]].telemetryType = type /\ ValidMetric(metrics[at[n]])
    BY <2>1 DEF Kept
  <2>3. IsMetric(metrics[at[n]])
    BY <1>1, <2>2, MetricHandlerAssumption DEF MetricHandlerAssumption
  <2> QED
    BY <2>1, <2>2, <2>3, RenamedMetric
<1>4. Len(metrics) \in Nat /\ DOMAIN metrics = 1 .. Len(metrics)
  BY <1>1, MetricHandlerAssumption DEF MetricHandlerAssumption
<1>5. ASSUME NEW n \in DOMAIN list, list[m].id = list[n].id PROVE m = n
  <2>1. /\ at[m] \in DOMAIN metrics /\ at[n] \in DOMAIN metrics
        /\ IsFirstOfItsId(metrics, at[m]) /\ IsFirstOfItsId(metrics, at[n])
        /\ metrics[at[m]].id = metrics[at[n]].id
    BY <1>1, <1>3, <1>5
  <2>2. at[m] = at[n]
    <3> HIDE DEF metrics
    <3> QED
      BY <1>4, <2>1, FirstsOfAnId
  <2> QED
    BY <1>1, <1>2, <2>2 DEF Comes
<1>6. list[m] \in MetricsOf(config)
  <2>1. type \in DOMAIN KnownColumns /\ list[m] \in ToSet(list)
    BY <1>1 DEF KnownColumns, Types, ToSet
  <2> QED
    BY <1>1, <2>1 DEF MetricsOf
<1> QED
  BY <1>1, <1>3, <1>5, <1>6

Counts(metric, data) == checkMetricFilters(metric, data) /\ Projectable(metric, data)

Moved(metric, old, data) ==
  IF Counts(metric, data)
  THEN calculateAggregation(metric.aggregation, old, IncrementBy(metric, data)) ELSE old

IsProjection(p) == DOMAIN p = {"value", "sum", "count"}

\* The projections of a telemetry, for the configuration in force.
HasProjections(t) ==
  DOMAIN t.projections = Ids /\ \A id \in Ids : IsProjection(t.projections[id])

LEMMA MovedShape ==
  ASSUME NEW old, IsProjection(old), NEW aggregation, NEW by
  PROVE  IsProjection(calculateAggregation(aggregation, old, by))
BY DEF IsProjection, calculateAggregation

LEMMA ProjectionMoved ==
  ASSUME NEW t, IsTelemetry(t), HasProjections(t), NEW metric \in MetricsOf(config), NEW data,
         NEW u, u = CreateProjection(t, metric, data)
  PROVE  /\ HasProjections(u) /\ (t.thrown => u.thrown)
         /\ \A id \in Ids : id # metric.id => u.projections[id] = t.projections[id]
         /\ ~u.thrown => u.projections[metric.id] = Moved(metric, t.projections[metric.id], data)
<1> DEFINE old == t.projections[metric.id]
           new == calculateAggregation(metric.aggregation, old, IncrementBy(metric, data))
           moved == [t.projections EXCEPT ![metric.id] = new]
           errors == t.errors \cup {metric.id}
           C == checkMetricFilters(metric, data)
           P == Projectable(metric, data)
           X == MetricThrows(metric, data)
           throws == t.thrown \/ X
           counts == ~throws /\ C
<1>1. metric.id \in Ids
  BY DEF Ids
<1>2. u = CASE throws -> [t EXCEPT !.thrown = TRUE]
            [] counts /\ ~P -> [t EXCEPT !.errors = errors]
            [] counts /\ P /\ metric.id \in DOMAIN t.projections ->
                 [t EXCEPT !.projections = moved]
            [] OTHER -> t
  BY DEF CreateProjection
<1>3. metric.id \in DOMAIN t.projections
  BY <1>1 DEF HasProjections
<1>4. /\ DOMAIN moved = DOMAIN t.projections /\ moved[metric.id] = new
      /\ \A id \in Ids : id # metric.id => moved[id] = t.projections[id]
  BY <1>3 DEF HasProjections
<1>5. IsProjection(new) /\ IsProjection(old)
  BY <1>1, MovedShape DEF HasProjections
<1> HIDE DEF new, moved, errors, C, P, X, old
<1>6. /\ [t EXCEPT !.thrown = TRUE].thrown = TRUE
      /\ [t EXCEPT !.thrown = TRUE].projections = t.projections
      /\ [t EXCEPT !.errors = errors].projections = t.projections
      /\ [t EXCEPT !.errors = errors].thrown = t.thrown
      /\ [t EXCEPT !.projections = moved].projections = moved
      /\ [t EXCEPT !.projections = moved].thrown = t.thrown
  BY DEF IsTelemetry
<1>7. \/ u.thrown /\ u.projections = t.projections
      \/ u.thrown = t.thrown /\ ~(C /\ P) /\ u.projections = t.projections
      \/ u.thrown = t.thrown /\ C /\ P /\ u.projections = moved
  BY <1>2, <1>3, <1>6
<1>8. u.projections \in {t.projections, moved}
  BY <1>7
<1>9. HasProjections(u)
  <2>1. \A id \in Ids : IsProjection(moved[id])
    BY <1>4, <1>5 DEF HasProjections
  <2> QED
    BY <1>4, <1>8, <2>1 DEF HasProjections
<1>10. \A id \in Ids : id # metric.id => u.projections[id] = t.projections[id]
  BY <1>4, <1>8
<1>11. Moved(metric, old, data) = IF C /\ P THEN new ELSE old
  BY DEF Moved, Counts, C, P, new
<1>12. ~u.thrown => u.projections[metric.id] = Moved(metric, old, data)
  BY <1>4, <1>7, <1>11 DEF old
<1>13. t.thrown => u.thrown
  BY <1>7
<1> QED
  BY <1>9, <1>10, <1>12, <1>13 DEF old

\* A row moves the projections of the metrics of its type that it counts for, and no other.
RowMoves(t, u, type, data) ==
  /\ HasProjections(u) /\ (t.thrown => u.thrown)
  /\ ~u.thrown => \A metric \in MetricsOf(config) :
       u.projections[metric.id] =
         IF metric.telemetryType = type THEN Moved(metric, t.projections[metric.id], data)
         ELSE t.projections[metric.id]

LEMMA MetricsMoved ==
  ASSUME config \in Etags \cup {None}, NEW type \in Types,
         NEW t, IsTelemetry(t), HasProjections(t), NEW data
  PROVE  RowMoves(t, checkMetricFilterAndCreateProjection(t, type, data), type, data)
<1> DEFINE list == validDerivedMetrics(type)
           N == Len(list)
           u == checkMetricFilterAndCreateProjection(t, type, data)
<1>1. IsList(list) /\ N \in Nat /\ DOMAIN list = 1 .. N
  BY MetricsList DEF IsList
<1>2. PICK at : OneByOne(at, "metric", t, list, data) /\ u = at[N]
  BY <1>1, MetricsOneByOne
<1>3. \A n \in 1 .. N : /\ list[n] \in MetricsOf(config) /\ list[n].telemetryType = type
                        /\ \A m \in 1 .. N : list[m].id = list[n].id => m = n
  BY <1>1, ListedMetrics
<1>4. at[0] = t /\ \A n \in 1 .. N : at[n] = CreateProjection(at[n - 1], list[n], data)
  BY <1>2 DEF OneByOne, Step
<1> HIDE DEF list, N, u
<1> DEFINE Untouched(n, id) == \A m \in 1 .. n : list[m].id # id
           After(n) ==
             /\ IsTelemetry(at[n]) /\ HasProjections(at[n]) /\ (t.thrown => at[n].thrown)
             /\ ~at[n].thrown =>
                  /\ \A m \in 1 .. n : at[n].projections[list[m].id]
                                         = Moved(list[m], t.projections[list[m].id], data)
                  /\ \A id \in Ids : Untouched(n, id) => at[n].projections[id] = t.projections[id]
           held == {n \in 0 .. N : After(n)}
<1>5. 0 \in held
  <2>1. After(0)
    BY <1>4
  <2> QED
    BY <1>1, <2>1
<1>6. ASSUME NEW n \in 1 .. N, n - 1 \in held PROVE n \in held
  <2>1. After(n - 1)
    BY <1>6
  <2> DEFINE v == at[n - 1]
             w == at[n]
             metric == list[n]
  <2>2. w = CreateProjection(v, metric, data) /\ metric \in MetricsOf(config)
    BY <1>3, <1>4
  <2>3. IsTelemetry(v) /\ HasProjections(v) /\ (t.thrown => v.thrown)
    BY <2>1
  <2>4. IsTelemetry(w)
    <3> HIDE DEF v, w, metric
    <3>1. FilteredBy(v, w, ~MetricThrows(metric, data))
      BY <2>2, <2>3, ProjectionFiltered
    <3> QED
      BY <3>1 DEF FilteredBy, Filtered
  <2>5. /\ HasProjections(w) /\ (v.thrown => w.thrown)
        /\ \A id \in Ids : id # metric.id => w.projections[id] = v.projections[id]
        /\ ~w.thrown => w.projections[metric.id] = Moved(metric, v.projections[metric.id], data)
    <3> HIDE DEF v, w, metric
    <3> QED
      BY <2>2, <2>3, ProjectionMoved
  <2>6. n - 1 \in Nat /\ \A m \in 1 .. n : m \in 1 .. n - 1 \/ m = n
    BY <1>1
  <2>7. \A m \in 1 .. n - 1 : m \in 1 .. n /\ m \in 1 .. N /\ m # n
    BY <1>1
  <2>8. ASSUME ~w.thrown, NEW m \in 1 .. n
        PROVE  w.projections[list[m].id] = Moved(list[m], t.projections[list[m].id], data)
    <3>1. \A id \in Ids : Untouched(n - 1, id) => v.projections[id] = t.projections[id]
      BY <2>1, <2>5, <2>8
    <3>2. metric.id \in Ids
      BY <2>2 DEF Ids
    <3>3. CASE m = n
      <4>1. Untouched(n - 1, metric.id)
        BY <1>3, <2>7
      <4>2. v.projections[metric.id] = t.projections[metric.id]
        BY <3>1, <3>2, <4>1
      <4> QED
        BY <2>5, <2>8, <3>3, <4>2
    <3>4. CASE m \in 1 .. n - 1
      <4>1. list[m].id # metric.id /\ list[m].id \in Ids
        BY <1>3, <2>7, <3>4 DEF Ids
      <4>2. v.projections[list[m].id] = Moved(list[m], t.projections[list[m].id], data)
        BY <2>1, <2>5, <2>8, <3>4
      <4> QED
        BY <2>5, <4>1, <4>2
    <3> QED
      BY <2>6, <3>3, <3>4
  <2>9. ASSUME ~w.thrown, NEW id \in Ids, Untouched(n, id)
        PROVE  w.projections[id] = t.projections[id]
    <3>1. Untouched(n - 1, id)
      BY <2>7, <2>9
    <3>2. id # metric.id
      BY <2>9
    <3>3. v.projections[id] = t.projections[id]
      BY <2>1, <2>5, <2>9, <3>1
    <3> QED
      BY <2>5, <3>2, <3>3
  <2>10. After(n)
    BY <2>3, <2>4, <2>5, <2>8, <2>9
  <2> QED
    BY <1>1, <2>10
<1>7. After(N)
  <2> HIDE DEF held, After
  <2>1. \A n \in 0 .. N : n \in held
    BY <1>1, <1>5, <1>6, Upwards
  <2> QED
    BY <1>1, <2>1 DEF held
<1>8. ASSUME ~u.thrown, NEW metric \in MetricsOf(config)
      PROVE  u.projections[metric.id] =
               IF metric.telemetryType = type THEN Moved(metric, t.projections[metric.id], data)
               ELSE t.projections[metric.id]
  <2>1. metric.id \in Ids
    BY DEF Ids
  <2>2. CASE metric.telemetryType = type
    <3>1. PICK n \in DOMAIN validDerivedMetrics(metric.telemetryType) :
            validDerivedMetrics(metric.telemetryType)[n] = metric
      BY MetricsOfConfiguration
    <3>2. n \in 1 .. N /\ list[n] = metric
      BY <1>1, <2>2, <3>1 DEF list
    <3> QED
      BY <1>2, <1>7, <1>8, <2>2, <3>2
  <2>3. CASE metric.telemetryType # type
    <3>1. Untouched(N, metric.id)
      <4>1. ASSUME NEW m \in 1 .. N, list[m].id = metric.id PROVE FALSE
        <5>1. list[m] = metric
          BY <1>3, <4>1, IdsDiffer
        <5> QED
          BY <1>3, <2>3, <5>1
      <4> QED
        BY <4>1
    <3> QED
      BY <1>2, <1>7, <1>8, <2>1, <2>3, <3>1
  <2> QED
    BY <2>2, <2>3
<1>9. HasProjections(u) /\ (t.thrown => u.thrown)
  BY <1>2, <1>7
<1> QED
  BY <1>8, <1>9 DEF RowMoves, u

\* Documents and counters leave the projections alone.
LEMMA OthersMoveNothing ==
  ASSUME NEW t, IsTelemetry(t), HasProjections(t), NEW type, NEW data, NEW document, NEW increments
  PROVE  /\ HasProjections(applyDocumentFilters(t, type, data, document))
         /\ applyDocumentFilters(t, type, data, document).projections = t.projections
         /\ HasProjections(Count(t, increments))
         /\ Count(t, increments).projections = t.projections
<1> DEFINE u == applyDocumentFilters(t, type, data, document)
           v == Count(t, increments)
           streams == DocumentStreams(type)
           more == addDocument(t.documents,
                     [type |-> document,
                      streams |-> {id \in DOMAIN streams :
                                     \E group \in streams[id] :
                                       checkFilterConjunctionGroup(group, data)}])
<1>1. u = [t EXCEPT !.thrown = TRUE] \/ u = [t EXCEPT !.documents = more] \/ u = t
  BY DEF applyDocumentFilters
<1> HIDE DEF more
<1>2. PICK raised : v = [t EXCEPT !.totals = raised] \/ v = t
  BY DEF Count
<1> HIDE DEF u, v
<1>3. u.projections = t.projections
  BY <1>1 DEF IsTelemetry
<1>4. v.projections = t.projections
  BY <1>2 DEF IsTelemetry
<1>5. HasProjections(u) /\ HasProjections(v)
  BY <1>3, <1>4 DEF HasProjections
<1> QED
  BY <1>3, <1>4, <1>5 DEF u, v

LEMMA SpanDataFields ==
  ASSUME NEW span
  PROVE  LET data == getSpanData(span) IN
         /\ isRequestData(data) <=> IsRequest(span)
         /\ data.fields["Duration"] = span.duration
<1> DEFINE data == getSpanData(span)
<1>1. CASE IsRequest(span)
  <2>1. DOMAIN data.fields = {"Url", "Name", "Duration", "ResponseCode", "Success"}
        /\ data.fields["Duration"] = span.duration
    BY <1>1 DEF getSpanData, getRequestData, PartialColumns, Columns
  <2> HIDE DEF data
  <2> QED
    BY <1>1, <2>1 DEF isRequestData, data
<1>2. CASE ~IsRequest(span)
  <2> DEFINE kinds ==
        CASE getHttpMethod(span.attributes) # {} -> HttpDependency(span)
          [] /\ getHttpMethod(span.attributes) = {}
             /\ Text(span.attributes, "db") # {} -> DatabaseDependency(span)
          [] /\ getHttpMethod(span.attributes) = {}
             /\ Text(span.attributes, "db") = {}
             /\ Text(span.attributes, "rpc") # {} -> GrpcDependency(span)
          [] OTHER -> PlainDependency(span)
  <2>1. /\ DOMAIN data.fields = DOMAIN kinds \cup {"Duration", "Success"}
        /\ data.fields["Duration"] = span.duration
    BY <1>2 DEF getSpanData, getDependencyData, PartialColumns, Columns
  <2>2. \/ kinds = HttpDependency(span) \/ kinds = DatabaseDependency(span)
        \/ kinds = GrpcDependency(span) \/ kinds = PlainDependency(span)
    OBVIOUS
  <2>3. /\ DOMAIN HttpDependency(span) = {"Target", "Type", "Data", "Name", "ResultCode"}
        /\ DOMAIN DatabaseDependency(span) = {"Target", "Type", "Data", "Name", "ResultCode"}
        /\ DOMAIN GrpcDependency(span) = {"Target", "Type", "Data", "Name", "ResultCode"}
        /\ DOMAIN PlainDependency(span) = {"Target", "Type", "Data", "Name", "ResultCode"}
    BY DEF HttpDependency, DatabaseDependency, GrpcDependency, PlainDependency
  <2> HIDE DEF data, kinds
  <2>4. "Url" \notin DOMAIN data.fields
    BY <2>1, <2>2, <2>3
  <2> QED
    BY <1>2, <2>1, <2>4 DEF isRequestData, data
<1> QED
  BY <1>1, <1>2

\* The rows that an item offers to derived metrics of a type.
RowsOf(e, type) ==
  CASE e.log -> IF isExceptionTelemetry(e.item) = (type = "Exception")
                   /\ type \in {"Exception", "Trace"}
                THEN <<getLogData(e.item)>> ELSE <<>>
    [] ~e.log /\ type = "Exception" ->
         [j \in DOMAIN e.item.exceptions |->
            getSpanExceptionColumns(e.item.exceptions[j], e.item)]
    [] ~e.log /\ type = (IF IsRequest(e.item) THEN "Request" ELSE "Dependency") ->
         <<getSpanData(e.item)>>
    [] OTHER -> <<>>

\* Each row moves a projection, one after the other.
RowByRow(q, metric, old, new, rows) ==
  /\ q[0] = old /\ q[Len(rows)] = new
  /\ \A j \in 1 .. Len(rows) : q[j] = Moved(metric, q[j - 1], rows[j])

ItemMoves(t, u, e) ==
  /\ HasProjections(u)
  /\ ~u.thrown => \A metric \in MetricsOf(config) :
       \E q : RowByRow(q, metric, t.projections[metric.id], u.projections[metric.id],
                       RowsOf(e, metric.telemetryType))

LEMMA NoRow ==
  ASSUME NEW metric, NEW old
  PROVE  \E q : RowByRow(q, metric, old, old, <<>>)
<1> DEFINE q == [j \in {0} |-> old]
<1>1. q[0] = old /\ Len(<<>>) = 0
  OBVIOUS
<1>2. RowByRow(q, metric, old, old, <<>>)
  BY <1>1 DEF RowByRow
<1> QED
  BY <1>2

LEMMA OneRow ==
  ASSUME NEW metric, NEW old, NEW data, NEW new, new = Moved(metric, old, data)
  PROVE  \E q : RowByRow(q, metric, old, new, <<data>>)
<1> DEFINE q == [j \in {0, 1} |-> IF j = 0 THEN old ELSE new]
           rows == <<data>>
<1>1. q[0] = old /\ q[1] = new /\ Len(rows) = 1 /\ rows[1] = data
  OBVIOUS
<1>2. \A j \in 1 .. 1 : j = 1 /\ j - 1 = 0
  OBVIOUS
<1> HIDE DEF q, rows
<1>3. RowByRow(q, metric, old, new, rows)
  BY <1>1, <1>2 DEF RowByRow
<1> QED
  BY <1>3 DEF rows

LEMMA EventMoves ==
  ASSUME config \in Etags \cup {None}, NEW t, IsTelemetry(t), HasProjections(t),
         NEW event, NEW span
  PROVE  /\ IsTelemetry(RecordEvent(t, event, span))
         /\ RowMoves(t, RecordEvent(t, event, span), "Exception",
                     getSpanExceptionColumns(event, span))
<1> DEFINE data == getSpanExceptionColumns(event, span)
           document == ExceptionDocument(data, "Type" \in DOMAIN event)
           t1 == applyDocumentFilters(t, "Exception", data, document)
           t2 == checkMetricFilterAndCreateProjection(t1, "Exception", data)
           u == Count(t2, [exceptions |-> 1])
<1>1. u = RecordEvent(t, event, span)
  BY DEF RecordEvent
<1>2. Filtered(t, t1)
  BY DocumentsFiltered DEF FilteredBy
<1>3. HasProjections(t1) /\ t1.projections = t.projections
  BY OthersMoveNothing
<1> HIDE DEF t1, data
<1>4. "Exception" \in Types
  BY DEF Types
<1>5. IsTelemetry(t1)
  BY <1>2 DEF Filtered
<1>6. Filtered(t1, t2)
  BY <1>4, <1>5, MetricsList, MetricsFiltered DEF FilteredBy
<1>7. RowMoves(t1, t2, "Exception", data)
  BY <1>3, <1>4, <1>5, MetricsMoved
<1> HIDE DEF t2
<1>8. IsTelemetry(t2) /\ (t.thrown => t2.thrown)
  BY <1>2, <1>6 DEF Filtered
<1>9. HasProjections(t2)
  BY <1>7 DEF RowMoves
<1> DEFINE increments == [exceptions |-> 1]
<1>10. u = Count(t2, increments)
  OBVIOUS
<1> HIDE DEF u, increments
<1>11. HasProjections(u) /\ u.projections = t2.projections
  BY <1>8, <1>9, <1>10, OthersMoveNothing
<1>12. IsTelemetry(u) /\ u.thrown = t2.thrown
  <2>1. PICK raised : u = [t2 EXCEPT !.totals = raised] \/ u = t2
    BY <1>10 DEF Count
  <2> QED
    BY <1>8, <2>1 DEF IsTelemetry
<1>13. RowMoves(t, u, "Exception", data)
  BY <1>3, <1>7, <1>8, <1>11, <1>12 DEF RowMoves
<1> QED
  BY <1>1, <1>12, <1>13 DEF data

\* A span's exceptions move the metrics of exceptions only.
LEMMA EventsMove ==
  ASSUME config \in Etags \cup {None}, NEW t, IsTelemetry(t), HasProjections(t),
         NEW span, IsList(span.exceptions)
  PROVE  LET u == EventsRecorded(t, span)
             rows == [j \in DOMAIN span.exceptions |->
                        getSpanExceptionColumns(span.exceptions[j], span)]
         IN  /\ HasProjections(u) /\ (t.thrown => u.thrown)
             /\ ~u.thrown => \A metric \in MetricsOf(config) :
                  IF metric.telemetryType = "Exception"
                  THEN \E q : RowByRow(q, metric, t.projections[metric.id],
                                       u.projections[metric.id], rows)
                  ELSE u.projections[metric.id] = t.projections[metric.id]
<1> DEFINE events == span.exceptions
           N == Len(events)
           u == EventsRecorded(t, span)
           rows == [j \in DOMAIN events |-> getSpanExceptionColumns(events[j], span)]
<1>1. N \in Nat /\ DOMAIN events = 1 .. N
  BY DEF IsList
<1>2. PICK at : OneByOne(at, "exception", t, events, span) /\ u = at[N]
  BY EventsOneByOne
<1>3. at[0] = t /\ \A n \in 1 .. N : at[n] = RecordEvent(at[n - 1], events[n], span)
  BY <1>2 DEF OneByOne, Step
<1>4. Len(rows) = N /\ \A n \in 1 .. N : rows[n] = getSpanExceptionColumns(events[n], span)
  BY <1>1
<1> HIDE DEF N, events, rows, u
<1> DEFINE After(n) ==
             /\ IsTelemetry(at[n]) /\ HasProjections(at[n]) /\ (t.thrown => at[n].thrown)
             /\ \A m \in 0 .. n : at[m].thrown => at[n].thrown
             /\ ~at[n].thrown => \A metric \in MetricsOf(config) :
                  IF metric.telemetryType = "Exception"
                  THEN \A j \in 1 .. n : at[j].projections[metric.id]
                         = Moved(metric, at[j - 1].projections[metric.id], rows[j])
                  ELSE at[n].projections[metric.id] = t.projections[metric.id]
           held == {n \in 0 .. N : After(n)}
<1>5. 0 \in held
  <2>1. \A m \in 0 .. 0 : m = 0
    OBVIOUS
  <2>2. After(0)
    BY <1>3, <2>1
  <2> QED
    BY <1>1, <2>2
<1>6. ASSUME NEW n \in 1 .. N, n - 1 \in held PROVE n \in held
  <2>1. After(n - 1)
    BY <1>6
  <2> DEFINE v == at[n - 1]
             w == at[n]
             data == getSpanExceptionColumns(events[n], span)
  <2>2. w = RecordEvent(v, events[n], span) /\ rows[n] = data
    BY <1>3, <1>4
  <2>3. IsTelemetry(v) /\ HasProjections(v) /\ (t.thrown => v.thrown)
    BY <2>1
  <2>4. IsTelemetry(w) /\ RowMoves(v, w, "Exception", data)
    <3> HIDE DEF v, w
    <3> QED
      BY <2>2, <2>3, EventMoves
  <2>5. /\ HasProjections(w) /\ (v.thrown => w.thrown)
        /\ ~w.thrown => \A metric \in MetricsOf(config) :
             w.projections[metric.id] =
               IF metric.telemetryType = "Exception"
               THEN Moved(metric, v.projections[metric.id], data)
               ELSE v.projections[metric.id]
    BY <2>4 DEF RowMoves
  <2>6. /\ \A m \in 0 .. n : m \in 0 .. n - 1 \/ m = n
        /\ \A j \in 1 .. n : j \in 1 .. n - 1 \/ j = n
    BY <1>1
  <2>7. \A m \in 0 .. n : at[m].thrown => w.thrown
    BY <2>1, <2>5, <2>6
  <2>8. ASSUME ~w.thrown, NEW metric \in MetricsOf(config)
        PROVE  IF metric.telemetryType = "Exception"
               THEN \A j \in 1 .. n : at[j].projections[metric.id]
                      = Moved(metric, at[j - 1].projections[metric.id], rows[j])
               ELSE w.projections[metric.id] = t.projections[metric.id]
    <3>1. ~v.thrown
      BY <2>5, <2>8
    <3>2. CASE metric.telemetryType = "Exception"
      <4>1. \A j \in 1 .. n - 1 : at[j].projections[metric.id]
              = Moved(metric, at[j - 1].projections[metric.id], rows[j])
        BY <2>1, <3>1, <3>2
      <4>2. w.projections[metric.id] = Moved(metric, v.projections[metric.id], rows[n])
        BY <2>2, <2>5, <2>8, <3>2
      <4> QED
        BY <2>6, <3>2, <4>1, <4>2
    <3>3. CASE metric.telemetryType # "Exception"
      BY <2>1, <2>5, <2>8, <3>1, <3>3
    <3> QED
      BY <3>2, <3>3
  <2>9. After(n)
    BY <2>3, <2>4, <2>5, <2>7, <2>8
  <2> QED
    BY <1>1, <2>9
<1>7. After(N)
  <2> HIDE DEF held, After
  <2>1. \A n \in 0 .. N : n \in held
    BY <1>1, <1>5, <1>6, Upwards
  <2> QED
    BY <1>1, <2>1 DEF held
<1>8. ASSUME ~u.thrown, NEW metric \in MetricsOf(config)
      PROVE  IF metric.telemetryType = "Exception"
             THEN \E q : RowByRow(q, metric, t.projections[metric.id],
                                  u.projections[metric.id], rows)
             ELSE u.projections[metric.id] = t.projections[metric.id]
  <2>1. CASE metric.telemetryType = "Exception"
    <3> DEFINE q == [j \in 0 .. N |-> at[j].projections[metric.id]]
    <3>1. \A j \in 1 .. N : at[j].projections[metric.id]
            = Moved(metric, at[j - 1].projections[metric.id], rows[j])
      BY <1>2, <1>7, <1>8, <2>1
    <3>2. \A j \in 1 .. N : j \in 0 .. N /\ j - 1 \in 0 .. N
      BY <1>1
    <3>3. 0 \in 0 .. N /\ N \in 0 .. N
      BY <1>1
    <3>4. \A j \in 0 .. N : q[j] = at[j].projections[metric.id]
      OBVIOUS
    <3> HIDE DEF q
    <3>5. q[0] = t.projections[metric.id] /\ q[N] = u.projections[metric.id]
      BY <1>2, <1>3, <3>3, <3>4
    <3>6. \A j \in 1 .. N : q[j] = Moved(metric, q[j - 1], rows[j])
      BY <3>1, <3>2, <3>4
    <3>7. RowByRow(q, metric, t.projections[metric.id], u.projections[metric.id], rows)
      BY <1>4, <3>5, <3>6 DEF RowByRow
    <3> QED
      BY <2>1, <3>7
  <2>2. CASE metric.telemetryType # "Exception"
    BY <1>2, <1>7, <1>8, <2>2
  <2> QED
    BY <2>1, <2>2
<1>9. HasProjections(u) /\ (t.thrown => u.thrown)
  BY <1>2, <1>7
<1> QED
  BY <1>8, <1>9 DEF u, rows, events

LEMMA SpanMoves ==
  ASSUME config \in Etags \cup {None}, NEW t, IsTelemetry(t), HasProjections(t), ~t.thrown,
         NEW e, ~e.log, e.item \in Spans
  PROVE  ItemMoves(t, recordSpan(t, e.item), e)
<1> DEFINE span == e.item
           data == getSpanData(span)
           type == IF isRequestData(data) THEN "Request" ELSE "Dependency"
           document == IF isRequestData(data) THEN "Request" ELSE "RemoteDependency"
           t1 == applyDocumentFilters(t, type, data, document)
           t2 == checkMetricFilterAndCreateProjection(t1, type, data)
           t3 == CountSpan(t2, span)
           u == recordSpan(t, span)
           kind == IF IsRequest(span) THEN "Request" ELSE "Dependency"
<1>1. u = EventsRecorded(t3, span)
  BY DEF recordSpan, EventsRecorded
<1>2. type = kind /\ type \in Types /\ kind # "Exception"
  BY SpanDataFields DEF Types
<1>3. /\ RowsOf(e, kind) = <<data>>
      /\ RowsOf(e, "Exception") = [j \in DOMAIN span.exceptions |->
                                     getSpanExceptionColumns(span.exceptions[j], span)]
      /\ \A other \in Types \ {kind, "Exception"} : RowsOf(e, other) = <<>>
  BY DEF RowsOf
<1>4. IsList(span.exceptions)
  BY MetricHandlerAssumption DEF MetricHandlerAssumption, IsList
<1> HIDE DEF data, type, document, kind
<1>5. Filtered(t, t1)
  BY DocumentsFiltered DEF FilteredBy
<1>6. HasProjections(t1) /\ t1.projections = t.projections
  BY OthersMoveNothing
<1> HIDE DEF t1
<1>7. IsTelemetry(t1)
  BY <1>5 DEF Filtered
<1>8. Filtered(t1, t2)
  BY <1>2, <1>7, MetricsList, MetricsFiltered DEF FilteredBy
<1>9. RowMoves(t1, t2, type, data)
  BY <1>2, <1>6, <1>7, MetricsMoved
<1> HIDE DEF t2
<1>10. IsTelemetry(t2) /\ HasProjections(t2)
  BY <1>8, <1>9 DEF Filtered, RowMoves
<1>11. PICK increments : t3 = Count(t2, increments)
  BY DEF CountSpan
<1> HIDE DEF t3
<1>12. HasProjections(t3) /\ t3.projections = t2.projections
  BY <1>10, <1>11, OthersMoveNothing
<1>13. IsTelemetry(t3) /\ t3.thrown = t2.thrown
  <2>1. PICK raised : t3 = [t2 EXCEPT !.totals = raised] \/ t3 = t2
    BY <1>11 DEF Count
  <2> QED
    BY <1>10, <2>1 DEF IsTelemetry
<1> DEFINE rows == [j \in DOMAIN span.exceptions |->
                      getSpanExceptionColumns(span.exceptions[j], span)]
<1> HIDE DEF u, span
<1>14. /\ HasProjections(u) /\ (t3.thrown => u.thrown)
       /\ ~u.thrown => \A metric \in MetricsOf(config) :
            IF metric.telemetryType = "Exception"
            THEN \E q : RowByRow(q, metric, t3.projections[metric.id],
                                 u.projections[metric.id], rows)
            ELSE u.projections[metric.id] = t3.projections[metric.id]
  BY <1>1, <1>4, <1>12, <1>13, EventsMove
<1> HIDE DEF rows
<1>15. ASSUME ~u.thrown, NEW metric \in MetricsOf(config)
       PROVE  \E q : RowByRow(q, metric, t.projections[metric.id], u.projections[metric.id],
                              RowsOf(e, metric.telemetryType))
  <2>1. metric.telemetryType \in Types
    BY MetricsOfConfiguration
  <2>2. t2.projections[metric.id] =
          IF metric.telemetryType = kind THEN Moved(metric, t.projections[metric.id], data)
          ELSE t.projections[metric.id]
    BY <1>2, <1>6, <1>9, <1>13, <1>14, <1>15 DEF RowMoves
  <2>3. CASE metric.telemetryType = "Exception"
    <3>1. t3.projections[metric.id] = t.projections[metric.id]
      BY <1>2, <1>12, <2>2, <2>3
    <3>2. RowsOf(e, metric.telemetryType) = rows
      BY <1>3, <2>3 DEF rows, span
    <3> QED
      BY <1>14, <1>15, <2>3, <3>1, <3>2
  <2>4. CASE metric.telemetryType = kind
    <3>1. u.projections[metric.id] = Moved(metric, t.projections[metric.id], data)
      BY <1>2, <1>12, <1>14, <1>15, <2>2, <2>4
    <3>2. RowsOf(e, metric.telemetryType) = <<data>>
      BY <1>3, <2>4
    <3> QED
      BY <3>1, <3>2, OneRow
  <2>5. CASE metric.telemetryType \notin {kind, "Exception"}
    <3>1. u.projections[metric.id] = t.projections[metric.id]
      BY <1>12, <1>14, <1>15, <2>2, <2>5
    <3>2. RowsOf(e, metric.telemetryType) = <<>>
      BY <1>3, <2>1, <2>5
    <3> QED
      BY <3>1, <3>2, NoRow
  <2> QED
    BY <2>3, <2>4, <2>5
<1> QED
  BY <1>14, <1>15 DEF ItemMoves, u, span

LEMMA LogMoves ==
  ASSUME config \in Etags \cup {None}, NEW t, IsTelemetry(t), HasProjections(t), NEW e, e.log
  PROVE  ItemMoves(t, recordLog(t, e.item), e)
<1> DEFINE log == e.item
           data == getLogData(log)
           type == IF isExceptionData(data) THEN "Exception" ELSE "Trace"
           document == ExceptionDocument(data, Text(log.attributes, "exceptionType") # {})
           t1 == applyDocumentFilters(t, type, data, document)
           t2 == IF isExceptionData(data) THEN Count(t1, [exceptions |-> 1]) ELSE t1
           u == checkMetricFilterAndCreateProjection(t2, type, data)
<1>1. recordLog(t, log) = u
  BY DEF recordLog
<1>2. /\ type \in Types /\ (type = "Exception" <=> isExceptionTelemetry(log))
      /\ type \in {"Exception", "Trace"}
  BY LogColumns DEF Types
<1>3. /\ RowsOf(e, type) = <<data>>
      /\ \A other \in Types \ {type} : RowsOf(e, other) = <<>>
  <2>1. isExceptionTelemetry(log) \in BOOLEAN
    BY DEF isExceptionTelemetry
  <2>2. \A other : RowsOf(e, other) = IF /\ isExceptionTelemetry(log) <=> (other = "Exception")
                                        /\ other \in {"Exception", "Trace"}
                                     THEN <<data>> ELSE <<>>
    BY <2>1 DEF RowsOf
  <2> HIDE DEF type, data, log
  <2>3. \A other \in Types : (/\ isExceptionTelemetry(log) <=> (other = "Exception")
                              /\ other \in {"Exception", "Trace"}) <=> other = type
    BY <1>2
  <2> QED
    BY <1>2, <2>2, <2>3
<1> HIDE DEF data, type, document
<1>4. Filtered(t, t1)
  BY DocumentsFiltered DEF FilteredBy
<1>5. HasProjections(t1) /\ t1.projections = t.projections
  BY OthersMoveNothing
<1> HIDE DEF t1
<1>6. IsTelemetry(t1)
  BY <1>4 DEF Filtered
<1> DEFINE increments == [exceptions |-> 1]
<1>7. t2 = Count(t1, increments) \/ t2 = t1
  OBVIOUS
<1> HIDE DEF t2, increments
<1>8. HasProjections(t2) /\ t2.projections = t.projections
  BY <1>5, <1>6, <1>7, OthersMoveNothing
<1>9. IsTelemetry(t2)
  <2>1. PICK raised : t2 = [t1 EXCEPT !.totals = raised] \/ t2 = t1
    BY <1>7 DEF Count
  <2> QED
    BY <1>6, <2>1 DEF IsTelemetry
<1>10. RowMoves(t2, u, type, data)
  BY <1>2, <1>8, <1>9, MetricsMoved
<1> HIDE DEF u
<1>11. ASSUME ~u.thrown, NEW metric \in MetricsOf(config)
       PROVE  \E q : RowByRow(q, metric, t.projections[metric.id], u.projections[metric.id],
                              RowsOf(e, metric.telemetryType))
  <2>1. metric.telemetryType \in Types
    BY MetricsOfConfiguration
  <2>2. u.projections[metric.id] =
          IF metric.telemetryType = type THEN Moved(metric, t.projections[metric.id], data)
          ELSE t.projections[metric.id]
    BY <1>8, <1>10, <1>11 DEF RowMoves
  <2>3. CASE metric.telemetryType = type
    <3>1. RowsOf(e, metric.telemetryType) = <<data>>
      BY <1>3, <2>3
    <3> QED
      BY <2>2, <2>3, <3>1, OneRow
  <2>4. CASE metric.telemetryType # type
    <3>1. RowsOf(e, metric.telemetryType) = <<>>
      BY <1>3, <2>1, <2>4
    <3> QED
      BY <2>2, <2>4, <3>1, NoRow
  <2> QED
    BY <2>3, <2>4
<1>12. HasProjections(u)
  BY <1>10 DEF RowMoves
<1> QED
  BY <1>1, <1>11, <1>12 DEF ItemMoves

-----------------------------------------------------------------------------
(* Derived metrics: what their projections stand for *)

\* The value of a projection is that of its samples, f.
Tallied(aggregation, p, f) ==
  /\ aggregation = "Sum" => p.value = SumFunction(f)
  /\ aggregation = "Min" =>
       IF DOMAIN f = {} THEN p.value = MaxValue
       ELSE /\ \E s \in DOMAIN f : p.value = f[s]
            /\ \A s \in DOMAIN f : p.value <= f[s]
  /\ aggregation = "Max" =>
       /\ p.value = 0 \/ \E s \in DOMAIN f : p.value = f[s]
       /\ 0 <= p.value /\ \A s \in DOMAIN f : f[s] <= p.value
  /\ aggregation = "Avg" =>
       /\ p.sum = SumFunction(f) /\ p.count = Cardinality(DOMAIN f)
       /\ p.value = IF DOMAIN f = {} THEN 0 ELSE p.sum \div p.count
  /\ aggregation \notin {"Sum", "Min", "Max", "Avg"} => p.value = 0 /\ DOMAIN f = {}

Values(f) == IsFiniteSet(DOMAIN f) /\ \A s \in DOMAIN f : f[s] \in Int /\ f[s] < MaxValue

Tally(aggregation, p, f) == Values(f) /\ Tallied(aggregation, p, f)

LEMMA OneMoreValue ==
  ASSUME NEW f, Values(f), NEW g, NEW x, x \notin DOMAIN f, DOMAIN g = DOMAIN f \cup {x},
         \A s \in DOMAIN f : g[s] = f[s], g[x] \in Int, g[x] < MaxValue
  PROVE  /\ Values(g) /\ DOMAIN g # {}
         /\ SumFunction(f) \in Int /\ SumFunction(g) = SumFunction(f) + g[x]
         /\ Cardinality(DOMAIN f) \in Nat
         /\ Cardinality(DOMAIN g) = Cardinality(DOMAIN f) + 1
<1>1. IsFiniteSet(DOMAIN f) /\ \A s \in DOMAIN f : f[s] \in Int
  BY DEF Values
<1>2. SumFunction(f) \in Int /\ SumFunction(g) = SumFunction(f) + g[x]
  BY <1>1, SumOfOneMore
<1>3. /\ IsFiniteSet(DOMAIN g) /\ Cardinality(DOMAIN f) \in Nat
      /\ Cardinality(DOMAIN g) = Cardinality(DOMAIN f) + 1
  BY <1>1, FS_AddElement, FS_CardinalityType
<1>4. \A s \in DOMAIN g : g[s] \in Int /\ g[s] < MaxValue
  BY DEF Values
<1> QED
  BY <1>2, <1>3, <1>4 DEF Values

LEMMA TallyOneMore ==
  ASSUME NEW f, NEW g, NEW x, x \notin DOMAIN f, DOMAIN g = DOMAIN f \cup {x},
         \A s \in DOMAIN f : g[s] = f[s], NEW by \in Int, by < MaxValue, g[x] = by,
         NEW aggregation \in {"Sum", "Min", "Max", "Avg"},
         NEW p, IsProjection(p), Tally(aggregation, p, f)
  PROVE  Tally(aggregation, calculateAggregation(aggregation, p, by), g)
<1> DEFINE new == calculateAggregation(aggregation, p, by)
<1>1. Values(f) /\ Tallied(aggregation, p, f)
  BY DEF Tally
<1>2. /\ Values(g) /\ DOMAIN g # {}
      /\ SumFunction(f) \in Int /\ SumFunction(g) = SumFunction(f) + by
      /\ Cardinality(DOMAIN f) \in Nat
      /\ Cardinality(DOMAIN g) = Cardinality(DOMAIN f) + 1
  BY <1>1, OneMoreValue
<1>3. \A s \in DOMAIN f : f[s] \in Int /\ f[s] < MaxValue /\ s \in DOMAIN g
  BY <1>1 DEF Values
<1>4. x \in DOMAIN g /\ \A s \in DOMAIN g : s \in DOMAIN f \/ s = x
  OBVIOUS
<1>5. MaxValue \in Int
  BY MetricHandlerAssumption DEF MetricHandlerAssumption
<1>6. CASE aggregation = "Sum"
  <2>1. new.value = p.value + by
    BY <1>6 DEF calculateAggregation, IsProjection
  <2> HIDE DEF new
  <2>2. new.value = SumFunction(g)
    BY <1>1, <1>2, <1>6, <2>1 DEF Tallied
  <2>3. Tallied(aggregation, new, g)
    BY <1>6, <2>2 DEF Tallied
  <2> QED
    BY <1>2, <2>3 DEF Tally, new
<1>7. CASE aggregation = "Min"
  <2>1. new.value = IF by < p.value THEN by ELSE p.value
    BY <1>7 DEF calculateAggregation, IsProjection
  <2> HIDE DEF new
  <2>2. /\ DOMAIN f = {} => p.value = MaxValue
        /\ DOMAIN f # {} => /\ \E s \in DOMAIN f : p.value = f[s]
                            /\ \A s \in DOMAIN f : p.value <= f[s]
    BY <1>1, <1>7 DEF Tallied
  <2>3. CASE DOMAIN f = {}
    <3>1. new.value = by
      BY <2>1, <2>2, <2>3
    <3>2. \A s \in DOMAIN g : g[s] = by
      BY <1>4, <2>3
    <3>3. Tallied(aggregation, new, g)
      BY <1>2, <1>4, <1>7, <3>1, <3>2 DEF Tallied
    <3> QED
      BY <1>2, <3>3 DEF Tally, new
  <2>4. CASE DOMAIN f # {}
    <3>1. PICK s0 \in DOMAIN f : p.value = f[s0]
      BY <2>2, <2>4
    <3>2. p.value \in Int
      BY <1>3, <3>1
    <3>3. \E s \in DOMAIN g : new.value = g[s]
      BY <1>3, <1>4, <2>1, <3>1
    <3>4. ASSUME NEW s \in DOMAIN g PROVE new.value <= g[s]
      <4>1. CASE s = x
        BY <2>1, <3>2, <4>1
      <4>2. CASE s \in DOMAIN f
        <5>1. p.value <= f[s] /\ f[s] \in Int /\ g[s] = f[s]
          BY <1>3, <2>2, <2>4, <4>2
        <5> QED
          BY <2>1, <3>2, <5>1
      <4> QED
        BY <1>4, <4>1, <4>2
    <3>5. Tallied(aggregation, new, g)
      BY <1>2, <1>7, <3>3, <3>4 DEF Tallied
    <3> QED
      BY <1>2, <3>5 DEF Tally, new
  <2> QED
    BY <2>3, <2>4
<1>8. CASE aggregation = "Max"
  <2>1. new.value = IF by > p.value THEN by ELSE p.value
    BY <1>8 DEF calculateAggregation, IsProjection
  <2> HIDE DEF new
  <2>2. /\ p.value = 0 \/ \E s \in DOMAIN f : p.value = f[s]
        /\ 0 <= p.value /\ \A s \in DOMAIN f : f[s] <= p.value
    BY <1>1, <1>8 DEF Tallied
  <2>3. p.value \in Int
    BY <1>3, <2>2
  <2>4. new.value = 0 \/ \E s \in DOMAIN g : new.value = g[s]
    BY <1>3, <1>4, <2>1, <2>2
  <2>5. 0 <= new.value
    BY <2>1, <2>2, <2>3
  <2>6. ASSUME NEW s \in DOMAIN g PROVE g[s] <= new.value
    <3>1. CASE s = x
      BY <2>1, <2>3, <3>1
    <3>2. CASE s \in DOMAIN f
      <4>1. f[s] <= p.value /\ f[s] \in Int /\ g[s] = f[s]
        BY <1>3, <2>2, <3>2
      <4> QED
        BY <2>1, <2>3, <4>1
    <3> QED
      BY <1>4, <3>1, <3>2
  <2>7. Tallied(aggregation, new, g)
    BY <1>8, <2>4, <2>5, <2>6 DEF Tallied
  <2> QED
    BY <1>2, <2>7 DEF Tally, new
<1>9. CASE aggregation = "Avg"
  <2>1. /\ new.sum = p.sum + by /\ new.count = p.count + 1
        /\ new.value = (p.sum + by) \div (p.count + 1)
    BY <1>9 DEF calculateAggregation
  <2> HIDE DEF new
  <2>2. p.sum = SumFunction(f) /\ p.count = Cardinality(DOMAIN f)
    BY <1>1, <1>9 DEF Tallied
  <2>3. /\ new.sum = SumFunction(g) /\ new.count = Cardinality(DOMAIN g)
        /\ new.value = new.sum \div new.count
    BY <1>2, <2>1, <2>2
  <2>4. Tallied(aggregation, new, g)
    BY <1>2, <1>9, <2>3 DEF Tallied
  <2> QED
    BY <1>2, <2>4 DEF Tally, new
<1> QED
  BY <1>6, <1>7, <1>8, <1>9

\* The samples of a metric in a history, and their values.
SamplesIn(h, mark, metric) ==
  {s \in UNION {{i} \X DOMAIN RowsOf(h[i], metric.telemetryType) :
                  i \in {k \in DOMAIN h : k > mark /\ h[k].taken}} :
     Counts(metric, RowsOf(h[s[1]], metric.telemetryType)[s[2]])}

ValuesIn(h, mark, metric) ==
  [s \in SamplesIn(h, mark, metric) |->
     IncrementBy(metric, RowsOf(h[s[1]], metric.telemetryType)[s[2]])]

LEMMA SampleIs ==
  ASSUME NEW h, NEW mark, NEW metric, NEW s
  PROVE  s \in SamplesIn(h, mark, metric) <=>
           \E i \in DOMAIN h : \E j \in DOMAIN RowsOf(h[i], metric.telemetryType) :
             /\ s = <<i, j>> /\ i > mark /\ h[i].taken
             /\ Counts(metric, RowsOf(h[i], metric.telemetryType)[j])
<1> DEFINE rows(i) == RowsOf(h[i], metric.telemetryType)
           since == {k \in DOMAIN h : k > mark /\ h[k].taken}
<1>1. s \in SamplesIn(h, mark, metric) <=>
        (\E i \in since : s \in {i} \X DOMAIN rows(i)) /\ Counts(metric, rows(s[1])[s[2]])
  BY DEF SamplesIn
<1>2. ASSUME NEW i
      PROVE  s \in {i} \X DOMAIN rows(i) <=> \E j \in DOMAIN rows(i) : s = <<i, j>>
  <2> HIDE DEF rows
  <2> QED
    OBVIOUS
<1>3. \A i, j : <<i, j>>[1] = i /\ <<i, j>>[2] = j
  OBVIOUS
<1> HIDE DEF rows
<1>4. (\E i \in since : s \in {i} \X DOMAIN rows(i)) /\ Counts(metric, rows(s[1])[s[2]])
      <=> \E i \in DOMAIN h : \E j \in DOMAIN rows(i) :
            s = <<i, j>> /\ i > mark /\ h[i].taken /\ Counts(metric, rows(i)[j])
  BY <1>2, <1>3
<1> QED
  BY <1>1, <1>4 DEF rows

\* One more item, e, adds its rows' samples.
Extended(h, e, q, n, mark, metric) ==
  LET rows == RowsOf(e, metric.telemetryType)
      S == SamplesIn(h, mark, metric)
      T == SamplesIn(q, mark, metric)
  IN  /\ T = S \cup {s \in {n} \X DOMAIN rows : e.taken /\ Counts(metric, rows[s[2]])}
      /\ \A j : <<n, j>> \notin S
      /\ \A s \in S : ValuesIn(q, mark, metric)[s] = ValuesIn(h, mark, metric)[s]
      /\ \A j \in DOMAIN rows :
           <<n, j>> \in T => ValuesIn(q, mark, metric)[<<n, j>>] = IncrementBy(metric, rows[j])

LEMMA SamplesGrow ==
  ASSUME NEW h \in Seq(Entries), NEW e \in Entries, NEW q, q = Append(h, e), NEW n, n = Len(h) + 1,
         NEW mark \in 0 .. Len(h), NEW metric
  PROVE  Extended(h, e, q, n, mark, metric)
<1> DEFINE type == metric.telemetryType
           rows == RowsOf(e, type)
           S == SamplesIn(h, mark, metric)
           T == SamplesIn(q, mark, metric)
           New == {s \in {n} \X DOMAIN rows : e.taken /\ Counts(metric, rows[s[2]])}
<1>1. Len(h) \in Nat /\ DOMAIN h = 1 .. Len(h)
  OBVIOUS
<1>2. DOMAIN q = DOMAIN h \cup {n} /\ n \notin DOMAIN h
  <2>1. DOMAIN q = DOMAIN h \cup {Len(q)}
    BY OneMoreItem
  <2>2. Len(q) \notin DOMAIN h
    BY OneMoreItem
  <2>3. Len(q) = n
    BY OneMoreItem
  <2> QED
    BY <2>1, <2>2, <2>3
<1>3. q[n] = e
  <2>1. q[Len(q)] = e
    BY OneMoreItem
  <2>2. Len(q) = n
    BY OneMoreItem
  <2> QED
    BY <2>1, <2>2
<1>4. \A i \in DOMAIN h : q[i] = h[i]
  BY OneMoreItem
<1>5. n > mark
  BY <1>1
<1>6. \A s : s \in S <=>
        \E i \in DOMAIN h : \E j \in DOMAIN RowsOf(h[i], type) :
          s = <<i, j>> /\ i > mark /\ h[i].taken /\ Counts(metric, RowsOf(h[i], type)[j])
  BY SampleIs
<1>7. \A s : s \in T <=>
        \E i \in DOMAIN q : \E j \in DOMAIN RowsOf(q[i], type) :
          s = <<i, j>> /\ i > mark /\ q[i].taken /\ Counts(metric, RowsOf(q[i], type)[j])
  BY SampleIs
<1>8. \A s : s \in New <=> \E j \in DOMAIN rows : s = <<n, j>> /\ e.taken /\ Counts(metric, rows[j])
  <2> HIDE DEF rows
  <2>1. \A s : s \in {n} \X DOMAIN rows <=> \E j \in DOMAIN rows : s = <<n, j>>
    OBVIOUS
  <2>2. \A j : <<n, j>>[2] = j
    OBVIOUS
  <2> QED
    BY <2>1, <2>2
<1> HIDE DEF S, T, New, rows, type
<1>9. T = S \cup New
  <2>1. ASSUME NEW s PROVE s \in T <=> s \in S \/ s \in New
    <3>1. s \in T => s \in S \/ s \in New
      <4>1. SUFFICES ASSUME s \in T PROVE s \in S \/ s \in New
        OBVIOUS
      <4>2. PICK i \in DOMAIN q : \E j \in DOMAIN RowsOf(q[i], type) :
              s = <<i, j>> /\ i > mark /\ q[i].taken /\ Counts(metric, RowsOf(q[i], type)[j])
        BY <1>7, <4>1
      <4>3. CASE i = n
        BY <1>3, <1>8, <4>2, <4>3 DEF rows
      <4>4. CASE i \in DOMAIN h
        BY <1>4, <1>6, <4>2, <4>4
      <4> QED
        BY <1>2, <4>3, <4>4
    <3>2. s \in S => s \in T
      BY <1>2, <1>4, <1>6, <1>7
    <3>3. s \in New => s \in T
      <4>1. SUFFICES ASSUME s \in New PROVE s \in T
        OBVIOUS
      <4>2. PICK j \in DOMAIN rows : s = <<n, j>> /\ e.taken /\ Counts(metric, rows[j])
        BY <1>8, <4>1
      <4>3. rows = RowsOf(q[n], type) /\ n \in DOMAIN q /\ q[n] = e
        BY <1>2, <1>3 DEF rows
      <4> QED
        BY <1>5, <1>7, <4>2, <4>3
    <3> QED
      BY <3>1, <3>2, <3>3
  <2> QED
    BY <2>1
<1>10. ASSUME NEW s \in S
       PROVE  /\ \A j : s # <<n, j>>
              /\ ValuesIn(q, mark, metric)[s] = ValuesIn(h, mark, metric)[s]
  <2>1. PICK i \in DOMAIN h : \E j \in DOMAIN RowsOf(h[i], type) : s = <<i, j>>
    BY <1>6
  <2>2. PICK j \in DOMAIN RowsOf(h[i], type) : s = <<i, j>>
    BY <2>1
  <2>3. s[1] = i /\ s[2] = j /\ q[i] = h[i] /\ i # n
    BY <1>2, <1>4, <2>2
  <2>4. \A k : s # <<n, k>>
    <3>1. \A k : <<n, k>>[1] = n
      OBVIOUS
    <3> QED
      BY <2>3, <3>1
  <2>5. s \in T
    BY <1>9
  <2>6. ValuesIn(q, mark, metric)[s] = IncrementBy(metric, RowsOf(q[s[1]], type)[s[2]])
    BY <2>5 DEF ValuesIn, T, type
  <2>7. ValuesIn(h, mark, metric)[s] = IncrementBy(metric, RowsOf(h[s[1]], type)[s[2]])
    BY DEF ValuesIn, S, type
  <2> QED
    BY <2>3, <2>4, <2>6, <2>7
<1>11. ASSUME NEW j, <<n, j>> \in T
       PROVE  ValuesIn(q, mark, metric)[<<n, j>>] = IncrementBy(metric, rows[j])
  <2> DEFINE s == <<n, j>>
  <2>1. s[1] = n /\ s[2] = j /\ s \in T
    BY <1>11
  <2> HIDE DEF s
  <2>2. ValuesIn(q, mark, metric)[s] = IncrementBy(metric, RowsOf(q[s[1]], type)[s[2]])
    BY <2>1 DEF ValuesIn, T, type
  <2> QED
    BY <1>3, <2>1, <2>2 DEF s, rows
<1> QED
  BY <1>9, <1>10, <1>11 DEF Extended, S, T, New, rows, type

\* What each value of an item's rows may be.
IncrementsOK(e) ==
  \A type \in Types : \A metric : \A j \in DOMAIN RowsOf(e, type) :
    LET by == IncrementBy(metric, RowsOf(e, type)[j])
    IN  Projectable(metric, RowsOf(e, type)[j]) => by \in Int /\ by < MaxValue

LEMMA IncrementType ==
  ASSUME NEW data, NEW duration, duration \in Int /\ duration < MaxValue,
         isRequestData(data) \/ isDependencyData(data) => data.fields["Duration"] = duration,
         NEW metric, Projectable(metric, data)
  PROVE  IncrementBy(metric, data) \in Int /\ IncrementBy(metric, data) < MaxValue
<1>1. /\ 1 < MaxValue
      /\ \A text \in DOMAIN Numbers : Numbers[text] \in Int /\ Numbers[text] < MaxValue
  BY MetricHandlerAssumption DEF MetricHandlerAssumption
<1>2. CASE metric.projection.kind = "count"
  BY <1>1, <1>2 DEF IncrementBy
<1>3. CASE metric.projection.kind = "duration"
  BY <1>3 DEF IncrementBy, Projectable
<1>4. CASE metric.projection.kind \notin {"count", "duration"}
  <2> DEFINE text == data.CustomDimensions[metric.projection.name]
  <2>1. metric.projection.kind = "custom" /\ text \in DOMAIN Numbers
    BY <1>4 DEF Projectable
  <2>2. IncrementBy(metric, data) = Numbers[text]
    BY <1>4, <2>1 DEF IncrementBy, parseFloat
  <2> QED
    BY <1>1, <2>1, <2>2
<1> QED
  BY <1>2, <1>3, <1>4

LEMMA IncrementsAreNumbers ==
  ASSUME NEW e \in Entries
  PROVE  IncrementsOK(e)
<1> SUFFICES ASSUME NEW type \in Types, NEW metric, NEW j \in DOMAIN RowsOf(e, type),
                    Projectable(metric, RowsOf(e, type)[j])
             PROVE  /\ IncrementBy(metric, RowsOf(e, type)[j]) \in Int
                    /\ IncrementBy(metric, RowsOf(e, type)[j]) < MaxValue
  BY DEF IncrementsOK
<1> DEFINE data == RowsOf(e, type)[j]
<1>1. e.log \in BOOLEAN /\ (~e.log => e.item \in Spans)
  BY EntryFacts
<1>2. PICK duration : /\ duration \in Int /\ duration < MaxValue
                      /\ ~e.log => e.item.duration = duration
  <2>1. CASE e.log
    <3>1. 1 \in Int /\ 1 < MaxValue
      BY MetricHandlerAssumption DEF MetricHandlerAssumption
    <3> QED
      BY <2>1, <3>1
  <2>2. CASE ~e.log
    <3>1. e.item.duration \in Nat /\ e.item.duration < MaxValue
      BY <1>1, <2>2, MetricHandlerAssumption DEF MetricHandlerAssumption
    <3> QED
      BY <3>1
  <2> QED
    BY <2>1, <2>2
<1>3. isRequestData(data) \/ isDependencyData(data) => data.fields["Duration"] = duration
  <2>1. CASE e.log
    <3>1. data = getLogData(e.item)
      BY <2>1 DEF RowsOf
    <3>2. "Url" \notin DOMAIN getLogData(e.item).fields
          /\ "Target" \notin DOMAIN getLogData(e.item).fields
      BY DEF getLogData, PartialColumns, Columns
    <3> HIDE DEF data
    <3> QED
      BY <3>1, <3>2 DEF isRequestData, isDependencyData
  <2>2. CASE ~e.log /\ type = "Exception"
    <3>1. data = getSpanExceptionColumns(e.item.exceptions[j], e.item)
      BY <2>2 DEF RowsOf
    <3>2. DOMAIN data.fields \subseteq {"Message", "StackTrace"}
      BY <3>1 DEF getSpanExceptionColumns, PartialColumns, Columns
    <3> HIDE DEF data
    <3> QED
      BY <3>2 DEF isRequestData, isDependencyData
  <2>3. CASE ~e.log /\ type # "Exception"
    <3>1. data = getSpanData(e.item)
      BY <2>3 DEF RowsOf
    <3> HIDE DEF data
    <3> QED
      BY <1>2, <2>3, <3>1, SpanDataFields
  <2> QED
    BY <1>1, <2>1, <2>2, <2>3
<1> HIDE DEF data
<1>4. Projectable(metric, data)
  BY DEF data
<1>5. IncrementBy(metric, data) \in Int /\ IncrementBy(metric, data) < MaxValue
  BY <1>2, <1>3, <1>4, IncrementType
<1> QED
  BY <1>5 DEF data

LEMMA RowsList ==
  ASSUME NEW e \in Entries, NEW type \in Types
  PROVE  IsList(RowsOf(e, type))
<1>1. e.log \in BOOLEAN /\ (~e.log => IsList(e.item.exceptions))
  BY EntryFacts
<1>2. CASE ~e.log /\ type = "Exception"
  BY <1>1, <1>2 DEF IsList, RowsOf
<1>3. CASE ~(~e.log /\ type = "Exception")
  <2>1. PICK data : RowsOf(e, type) = <<data>> \/ RowsOf(e, type) = <<>>
    BY <1>1, <1>3 DEF RowsOf
  <2> QED
    BY <2>1 DEF IsList
<1> QED
  BY <1>1, <1>2, <1>3

\* Row by row, the projection comes to stand for the samples of one more item.
LEMMA RowsTallied ==
  ASSUME NEW h \in Seq(Entries), NEW e \in Entries, e.taken, NEW q, q = Append(h, e),
         NEW mark \in 0 .. Len(h), NEW metric, metric.telemetryType \in Types,
         NEW old, IsProjection(old), NEW new, NEW w,
         RowByRow(w, metric, old, new, RowsOf(e, metric.telemetryType)),
         Tally(metric.aggregation, old, ValuesIn(h, mark, metric))
  PROVE  Tally(metric.aggregation, new, ValuesIn(q, mark, metric))
<1>1. PICK n : n = Len(h) + 1
  OBVIOUS
<1> DEFINE rows == RowsOf(e, metric.telemetryType)
           N == Len(rows)
           S == SamplesIn(h, mark, metric)
           T == SamplesIn(q, mark, metric)
           f == ValuesIn(h, mark, metric)
           g == ValuesIn(q, mark, metric)
           aggregation == metric.aggregation
<1>2. N \in Nat /\ DOMAIN rows = 1 .. N
  BY RowsList DEF IsList
<1>3. /\ T = S \cup {s \in {n} \X DOMAIN rows : e.taken /\ Counts(metric, rows[s[2]])}
      /\ \A j : <<n, j>> \notin S
      /\ \A s \in S : g[s] = f[s]
      /\ \A j \in DOMAIN rows : <<n, j>> \in T => g[<<n, j>>] = IncrementBy(metric, rows[j])
  <2>1. Extended(h, e, q, n, mark, metric)
    BY <1>1, SamplesGrow
  <2> QED
    BY <2>1 DEF Extended
<1>4. /\ w[0] = old /\ w[N] = new
      /\ \A j \in 1 .. N : w[j] = Moved(metric, w[j - 1], rows[j])
  BY DEF RowByRow
<1>5. \A j \in 1 .. N : Counts(metric, rows[j]) =>
        /\ IncrementBy(metric, rows[j]) \in Int /\ IncrementBy(metric, rows[j]) < MaxValue
        /\ aggregation \in {"Sum", "Min", "Max", "Avg"}
  <2>1. IncrementsOK(e)
    BY IncrementsAreNumbers
  <2> QED
    BY <1>2, <2>1 DEF IncrementsOK, Counts, Projectable
<1>6. f = [s \in S |-> f[s]] /\ g = [s \in T |-> g[s]]
  BY DEF ValuesIn
<1>7. Tally(aggregation, old, f)
  OBVIOUS
<1> HIDE DEF rows, N, S, T, f, g, aggregation
<1>8. S \subseteq T /\ \A j \in 1 .. N : <<n, j>> \in T <=> Counts(metric, rows[j])
  <2>1. \A j \in 1 .. N : <<n, j>> \in {n} \X DOMAIN rows /\ <<n, j>>[2] = j
    BY <1>2
  <2> QED
    BY <1>3, <2>1
<1>9. \A s \in T : s \in S \/ \E j \in 1 .. N : s = <<n, j>>
  <2>1. \A s \in {n} \X DOMAIN rows : \E j \in 1 .. N : s = <<n, j>>
    BY <1>2
  <2> QED
    BY <1>3, <2>1
<1> DEFINE D(j) == {s \in T : s \in S \/ \E k \in 1 .. j : s = <<n, k>>}
           part(j) == [s \in D(j) |-> g[s]]
           held == {j \in 0 .. N : IsProjection(w[j]) /\ Tally(aggregation, w[j], part(j))}
<1>10. 0 \in held
  <2>1. D(0) = S
    BY <1>8
  <2>2. [s \in S |-> g[s]] = f
    <3>1. [s \in S |-> g[s]] = [s \in S |-> f[s]]
      BY <1>3
    <3> QED
      BY <1>6, <3>1
  <2>3. part(0) = f
    <3> HIDE DEF D
    <3> QED
      BY <2>1, <2>2
  <2> HIDE DEF part
  <2> QED
    BY <1>2, <1>4, <1>7, <2>3
<1>11. ASSUME NEW j \in 1 .. N, j - 1 \in held PROVE j \in held
  <2> DEFINE v == w[j - 1]
             x == <<n, j>>
  <2>1. IsProjection(v) /\ Tally(aggregation, v, part(j - 1))
    BY <1>11
  <2>2. w[j] = Moved(metric, v, rows[j])
    BY <1>4
  <2>3. \A k : k \in 1 .. j <=> k \in 1 .. j - 1 \/ k = j
    BY <1>2
  <2>4. j \notin 1 .. j - 1 /\ \A k : <<n, k>> = <<n, j>> => k = j
    BY <1>2
  <2>5. DOMAIN part(j - 1) = D(j - 1) /\ DOMAIN part(j) = D(j)
    OBVIOUS
  <2>6. \A s \in D(j - 1) : s \in D(j) /\ part(j)[s] = part(j - 1)[s]
    BY <2>3
  <2>7. x \notin D(j - 1)
    BY <1>3, <2>4
  <2>8. CASE Counts(metric, rows[j])
    <3>1. D(j) = D(j - 1) \cup {x}
      BY <1>8, <2>3, <2>8
    <3>2. x \in T /\ g[x] = IncrementBy(metric, rows[j])
      BY <1>2, <1>3, <1>8, <2>8
    <3>3. x \in D(j)
      BY <3>1
    <3>4. part(j)[x] = IncrementBy(metric, rows[j])
      BY <3>2, <3>3
    <3> DEFINE by == IncrementBy(metric, rows[j])
    <3>5. by \in Int /\ by < MaxValue /\ aggregation \in {"Sum", "Min", "Max", "Avg"}
      BY <1>5, <2>8
    <3>6. w[j] = calculateAggregation(aggregation, v, by)
      BY <2>2, <2>8 DEF Moved, aggregation
    <3> HIDE DEF part, D, by, x, v
    <3>7. part(j)[x] = by
      BY <3>4 DEF by
    <3>8. Tally(aggregation, calculateAggregation(aggregation, v, by), part(j))
      BY <2>1, <2>5, <2>6, <2>7, <3>1, <3>5, <3>7, TallyOneMore
    <3>9. IsProjection(w[j])
      BY <2>1, <3>6, MovedShape
    <3> QED
      BY <1>2, <3>6, <3>8, <3>9
  <2>9. CASE ~Counts(metric, rows[j])
    <3>1. D(j) = D(j - 1)
      BY <1>8, <2>3, <2>9
    <3>2. part(j) = part(j - 1)
      <4> HIDE DEF D
      <4> QED
        BY <3>1
    <3>3. w[j] = v
      BY <2>2, <2>9 DEF Moved
    <3> HIDE DEF part, v
    <3> QED
      BY <1>2, <2>1, <3>2, <3>3
  <2> QED
    BY <2>8, <2>9
<1>12. N \in held
  <2> HIDE DEF held
  <2>1. \A j \in 0 .. N : j \in held
    BY <1>2, <1>10, <1>11, Upwards
  <2> QED
    BY <1>2, <2>1
<1>13. part(N) = g
  <2>1. D(N) = T
    BY <1>9
  <2> HIDE DEF D
  <2> QED
    BY <1>6, <2>1
<1> HIDE DEF part
<1> QED
  BY <1>4, <1>12, <1>13 DEF g, aggregation

-----------------------------------------------------------------------------
(* Derived metrics: every step *)

DerivedInv ==
  /\ valueMark \in 0 .. Len(recorded)
  /\ DOMAIN projections = Ids /\ \A id \in Ids : IsProjection(projections[id])
  /\ (\A i \in Since(valueMark) : ~recorded[i].thrown) =>
       \A metric \in MetricsOf(config) :
         Tally(metric.aggregation, projections[metric.id], ValuesIn(recorded, valueMark, metric))

LEMMA SamplesAreThese ==
  ASSUME NEW metric
  PROVE  /\ Samples(metric) = SamplesIn(recorded, valueMark, metric)
         /\ [s \in Samples(metric) |-> SampleOf(metric, s)] = ValuesIn(recorded, valueMark, metric)
<1> DEFINE type == metric.telemetryType
<1>1. \A i : Rows(i, type) = RowsOf(recorded[i], type)
  BY DEF Rows, RowsOf, Item
<1>2. Since(valueMark) = {k \in DOMAIN recorded : k > valueMark /\ recorded[k].taken}
  BY DEF Since
<1>3. Samples(metric) = SamplesIn(recorded, valueMark, metric)
  BY <1>1, <1>2 DEF Samples, SamplesIn, Counts
<1>4. \A s : SampleOf(metric, s) = IncrementBy(metric, RowsOf(recorded[s[1]], type)[s[2]])
  BY <1>1 DEF SampleOf
<1> QED
  BY <1>3, <1>4 DEF ValuesIn

LEMMA LeastIs ==
  ASSUME NEW f, NEW v, \E s \in DOMAIN f : v = f[s], \A s \in DOMAIN f : v <= f[s],
         \A s \in DOMAIN f : f[s] \in Int
  PROVE  Min(Range(f)) = v
<1>1. v \in Range(f) /\ \A y \in Range(f) : v <= y /\ y \in Int
  BY DEF Range
<1> HIDE DEF Range
<1>2. \A x \in Range(f) : (\A y \in Range(f) : x <= y) => x = v
  BY <1>1
<1> QED
  BY <1>1, <1>2 DEF Min

LEMMA GreatestIs ==
  ASSUME NEW f, IsFiniteSet(DOMAIN f), DOMAIN f # {}, \A s \in DOMAIN f : f[s] \in Int
  PROVE  /\ \E s \in DOMAIN f : Max(Range(f)) = f[s]
         /\ \A s \in DOMAIN f : f[s] <= Max(Range(f))
<1> DEFINE below(s) == {r \in DOMAIN f : f[r] > f[s]}
           Sets == {below(s) : s \in DOMAIN f}
<1>1. Sets \in SUBSET (SUBSET DOMAIN f) /\ Sets # {}
  OBVIOUS
<1>2. PICK B \in Sets : \A C \in Sets : C \subseteq B => C = B
  <2> HIDE DEF Sets
  <2> QED
    BY <1>1, MinimalExists
<1>3. PICK s \in DOMAIN f : B = below(s)
  BY <1>2
<1>4. ASSUME NEW r \in DOMAIN f PROVE f[r] <= f[s]
  <2>1. SUFFICES ASSUME f[r] > f[s] PROVE FALSE
    OBVIOUS
  <2>2. below(r) \subseteq below(s) /\ r \in below(s) /\ r \notin below(r)
    BY <2>1
  <2>3. below(r) \in Sets
    OBVIOUS
  <2> HIDE DEF below, Sets
  <2> QED
    BY <1>2, <1>3, <2>2, <2>3
<1>5. f[s] \in Range(f) /\ \A y \in Range(f) : f[s] >= y /\ y \in Int
  BY <1>4 DEF Range
<1> HIDE DEF Range
<1>6. \A x \in Range(f) : (\A y \in Range(f) : x >= y) => x = f[s]
  BY <1>5
<1>7. Max(Range(f)) = f[s]
  BY <1>5, <1>6 DEF Max
<1> QED
  BY <1>4, <1>7

\* What is reported of a projection that stands for its samples.
LEMMA ReportedIs ==
  ASSUME NEW metric, NEW p, NEW samples, NEW f, f = [s \in samples |-> SampleOf(metric, s)],
         Tally(metric.aggregation, p, f)
  PROVE  LET exact == Aggregate(metric, samples)
             negative == metric.aggregation = "Max" /\ exact < 0
         IN  Reported(metric, p) = IF negative THEN 0 ELSE exact
<1> DEFINE exact == Aggregate(metric, samples)
           aggregation == metric.aggregation
           shown == Reported(metric, p)
<1>1. /\ DOMAIN f = samples /\ IsFiniteSet(samples)
      /\ \A s \in samples : f[s] \in Int /\ f[s] < MaxValue
  BY DEF Tally, Values
<1>2. MaxValue \in Int
  BY MetricHandlerAssumption DEF MetricHandlerAssumption
<1>3. exact = IF samples = {} THEN 0
              ELSE CASE aggregation = "Min" -> Min(Range(f))
                     [] aggregation = "Max" -> Max(Range(f))
                     [] aggregation = "Sum" -> SumFunction(f)
                     [] OTHER               -> SumFunction(f) \div Cardinality(samples)
  BY DEF Aggregate
<1>4. shown = IF aggregation = "Min" /\ p.value = MaxValue THEN 0 ELSE p.value
  BY DEF Reported
<1>5. Tallied(aggregation, p, f)
  BY DEF Tally
<1> HIDE DEF exact, aggregation, shown
<1>6. CASE aggregation = "Sum"
  <2>1. p.value = SumFunction(f) /\ shown = p.value
    BY <1>4, <1>5, <1>6 DEF Tallied
  <2>2. samples = {} => SumFunction(f) = 0
    BY <1>1, SumOfNone
  <2> QED
    BY <1>3, <1>6, <2>1, <2>2 DEF exact, aggregation, shown
<1>7. CASE aggregation = "Min"
  <2>1. CASE samples = {}
    <3>1. p.value = MaxValue
      BY <1>1, <1>5, <1>7, <2>1 DEF Tallied
    <3>2. shown = 0 /\ exact = 0
      BY <1>3, <1>4, <1>7, <2>1, <3>1
    <3> QED
      BY <1>7, <3>2 DEF exact, aggregation, shown
  <2>2. CASE samples # {}
    <3>1. (\E s \in DOMAIN f : p.value = f[s]) /\ \A s \in DOMAIN f : p.value <= f[s]
      BY <1>1, <1>5, <1>7, <2>2 DEF Tallied
    <3>2. Min(Range(f)) = p.value
      BY <1>1, <3>1, LeastIs
    <3>3. p.value # MaxValue
      BY <1>1, <1>2, <3>1
    <3> QED
      BY <1>3, <1>4, <1>7, <2>2, <3>2, <3>3 DEF exact, aggregation, shown
  <2> QED
    BY <2>1, <2>2
<1>8. CASE aggregation = "Max"
  <2>1. /\ p.value = 0 \/ \E s \in DOMAIN f : p.value = f[s]
        /\ 0 <= p.value /\ \A s \in DOMAIN f : f[s] <= p.value
    BY <1>5, <1>8 DEF Tallied
  <2>2. shown = p.value
    BY <1>4, <1>8
  <2>3. CASE samples = {}
    <3>1. exact = 0
      BY <1>3, <2>3
    <3>2. p.value = 0
      BY <1>1, <2>1, <2>3
    <3> QED
      BY <2>2, <3>1, <3>2 DEF exact, aggregation, shown
  <2>4. CASE samples # {}
    <3>1. /\ \E s \in DOMAIN f : Max(Range(f)) = f[s]
          /\ \A s \in DOMAIN f : f[s] <= Max(Range(f))
      BY <1>1, <2>4, GreatestIs
    <3>2. exact = Max(Range(f))
      BY <1>3, <1>8, <2>4
    <3>3. exact \in Int /\ p.value \in Int
      BY <1>1, <2>1, <3>1, <3>2
    <3>4. exact <= p.value /\ (p.value = 0 \/ p.value <= exact)
      BY <1>1, <2>1, <3>1, <3>2
    <3>5. p.value = IF exact < 0 THEN 0 ELSE exact
      BY <2>1, <3>3, <3>4
    <3> QED
      BY <1>8, <2>2, <3>5 DEF exact, aggregation, shown
  <2> QED
    BY <2>3, <2>4
<1>9. CASE aggregation = "Avg"
  <2>1. /\ p.sum = SumFunction(f) /\ p.count = Cardinality(samples)
        /\ p.value = IF samples = {} THEN 0 ELSE p.sum \div p.count
    BY <1>1, <1>5, <1>9 DEF Tallied
  <2>2. shown = p.value
    BY <1>4, <1>9
  <2>3. exact = p.value
    BY <1>3, <1>9, <2>1
  <2> QED
    BY <1>9, <2>2, <2>3 DEF exact, aggregation, shown
<1>10. CASE aggregation \notin {"Sum", "Min", "Max", "Avg"}
  <2>1. p.value = 0 /\ samples = {}
    BY <1>1, <1>5, <1>10 DEF Tallied
  <2>2. shown = 0 /\ exact = 0
    BY <1>3, <1>4, <1>10, <2>1
  <2> QED
    BY <1>10, <2>2 DEF exact, aggregation, shown
<1> QED
  BY <1>6, <1>7, <1>8, <1>9, <1>10

LEMMA DerivedInvSuffices == DerivedInv => DerivedMetricsAreExact
<1> SUFFICES ASSUME DerivedInv PROVE DerivedMetricsAreExact
  OBVIOUS
<1>1. DOMAIN projections = {metric.id : metric \in MetricsOf(config)}
  BY DEF DerivedInv, Ids
<1>2. ASSUME NEW metric \in MetricsOf(config), \A i \in Since(valueMark) : ~recorded[i].thrown
      PROVE  LET exact == Aggregate(metric, Samples(metric))
                 negative == metric.aggregation = "Max" /\ exact < 0
             IN  Reported(metric, projections[metric.id]) = IF negative THEN 0 ELSE exact
  <2> DEFINE f == ValuesIn(recorded, valueMark, metric)
  <2>1. f = [s \in Samples(metric) |-> SampleOf(metric, s)]
    BY SamplesAreThese
  <2>2. Tally(metric.aggregation, projections[metric.id], f)
    BY <1>2 DEF DerivedInv
  <2> HIDE DEF f
  <2> QED
    BY <2>1, <2>2, ReportedIs
<1> QED
  BY <1>1, <1>2 DEF DerivedMetricsAreExact

\* A projection without samples.
Fresh(aggregation, p) ==
  /\ IsProjection(p) /\ p.value = Initial(aggregation)
  /\ aggregation = "Avg" => p.sum = 0 /\ p.count = 0

LEMMA FreshTally ==
  ASSUME NEW aggregation, NEW p, Fresh(aggregation, p), NEW f, DOMAIN f = {}
  PROVE  Tally(aggregation, p, f)
<1>1. Values(f) /\ Cardinality(DOMAIN f) = 0 /\ SumFunction(f) = 0
  BY FS_EmptySet, SumOfNone DEF Values
<1>2. p.value = IF aggregation = "Min" THEN MaxValue ELSE 0
  BY DEF Fresh, Initial, MinValue
<1>3. aggregation = "Avg" => p.sum = 0 /\ p.count = 0
  BY DEF Fresh
<1>4. Tallied(aggregation, p, f)
  BY <1>1, <1>2, <1>3 DEF Tallied
<1> QED
  BY <1>1, <1>4 DEF Tally

LEMMA InitialFresh ==
  ASSUME NEW metric
  PROVE  Fresh(metric.aggregation, initDerivedMetricProjection(metric))
BY DEF Fresh, initDerivedMetricProjection, IsProjection

LEMMA ResetFresh ==
  ASSUME NEW metric, NEW old, IsProjection(old)
  PROVE  Fresh(metric.aggregation, ResetProjection(metric, old))
<1>1. CASE metric.aggregation = "Avg"
  BY <1>1 DEF Fresh, ResetProjection, IsProjection, Initial
<1>2. CASE metric.aggregation # "Avg"
  BY <1>2 DEF Fresh, ResetProjection, IsProjection
<1> QED
  BY <1>1, <1>2

\* All projections are without samples.
AllFresh ==
  /\ valueMark = Len(recorded)
  /\ DOMAIN projections = Ids
  /\ \A metric \in MetricsOf(config) : Fresh(metric.aggregation, projections[metric.id])

LEMMA FreshDerived == recorded \in Seq(Entries) /\ AllFresh => DerivedInv
<1> SUFFICES ASSUME recorded \in Seq(Entries), AllFresh PROVE DerivedInv
  OBVIOUS
<1>1. Len(recorded) \in Nat /\ DOMAIN recorded = 1 .. Len(recorded)
  OBVIOUS
<1>2. valueMark \in 0 .. Len(recorded)
  BY <1>1 DEF AllFresh
<1>3. \A id \in Ids : IsProjection(projections[id])
  BY DEF AllFresh, Ids, Fresh
<1>4. ASSUME NEW metric \in MetricsOf(config)
      PROVE  Tally(metric.aggregation, projections[metric.id],
                   ValuesIn(recorded, valueMark, metric))
  <2>1. SamplesIn(recorded, valueMark, metric) = {}
    <3>1. \A i \in DOMAIN recorded : ~(i > valueMark)
      BY <1>1 DEF AllFresh
    <3> QED
      BY <3>1, SampleIs
  <2>2. DOMAIN ValuesIn(recorded, valueMark, metric) = {}
    BY <2>1 DEF ValuesIn
  <2>3. Fresh(metric.aggregation, projections[metric.id])
    BY DEF AllFresh
  <2> QED
    BY <2>2, <2>3, FreshTally
<1> QED
  BY <1>2, <1>3, <1>4 DEF AllFresh, DerivedInv

LEMMA FreshDerivedNext == (recorded \in Seq(Entries) /\ AllFresh)' => DerivedInv'
BY FreshDerived, PTL

LEMMA NamedMetric ==
  config \in Etags \cup {None} =>
    \A metric \in MetricsOf(config) : Named(MetricsOf(config), metric.id) = metric
<1> SUFFICES ASSUME config \in Etags \cup {None}, NEW metric \in MetricsOf(config)
             PROVE  Named(MetricsOf(config), metric.id) = metric
  OBVIOUS
<1>1. \A other \in MetricsOf(config) : other.id = metric.id => other = metric
  BY IdsDiffer
<1> QED
  BY <1>1 DEF Named

LEMMA NamedMetricNext ==
  (config \in Etags \cup {None})' =>
    (\A metric \in MetricsOf(config) : Named(MetricsOf(config), metric.id) = metric)'
BY NamedMetric, PTL

\* An item that is recorded moves the projections to what they have to stand for.
LEMMA ItemDerived ==
  ASSUME HistoryOK, DerivedInv, config \in Etags \cup {None}, UNCHANGED <<config, valueMark>>,
         NEW e \in Entries, recorded' = Append(recorded, e),
         NEW u, projections' = u.projections, u.thrown = e.thrown,
         IF e.taken THEN ItemMoves(Telemetry, u, e) ELSE u = Telemetry
  PROVE  DerivedInv'
<1>1. PICK n : n = Len(recorded) + 1
  OBVIOUS
<1>2. recorded \in Seq(Entries) /\ Len(recorded) \in Nat /\ valueMark \in 0 .. Len(recorded)
  BY DEF HistoryOK, DerivedInv
<1>3. /\ DOMAIN recorded' = DOMAIN recorded \cup {n} /\ Len(recorded') = n
      /\ n \notin DOMAIN recorded /\ recorded'[n] = e /\ n > valueMark
      /\ \A i \in DOMAIN recorded : recorded'[i] = recorded[i]
  BY <1>1, <1>2, HistoryGrows
<1>4. valueMark' \in 0 .. Len(recorded')
  BY <1>1, <1>2, <1>3
<1>5. /\ DOMAIN projections = Ids /\ \A id \in Ids : IsProjection(projections[id])
      /\ Telemetry.projections = projections /\ ~Telemetry.thrown
  BY DEF DerivedInv, Telemetry
<1>6. MetricsOf(config)' = MetricsOf(config) /\ Ids' = Ids
  BY DEF MetricsOf, Ids
<1>7. (DOMAIN projections = Ids /\ \A id \in Ids : IsProjection(projections[id]))'
  <2>1. HasProjections(u)
    <3>1. CASE e.taken
      BY <3>1 DEF ItemMoves
    <3>2. CASE ~e.taken
      BY <1>5, <3>2 DEF HasProjections
    <3> QED
      BY <3>1, <3>2
  <2> QED
    BY <1>6, <2>1 DEF HasProjections
<1>8. ASSUME (\A i \in Since(valueMark) : ~recorded[i].thrown)', NEW metric \in MetricsOf(config)
      PROVE  Tally(metric.aggregation, projections'[metric.id],
                   ValuesIn(recorded', valueMark, metric))
  <2>1. \A i \in Since(valueMark) : ~recorded[i].thrown
    <3>1. ASSUME NEW i \in Since(valueMark)
          PROVE  i \in Since(valueMark)' /\ recorded'[i] = recorded[i]
      BY <1>3 DEF Since
    <3> QED
      BY <1>8, <3>1
  <2>2. Tally(metric.aggregation, projections[metric.id], ValuesIn(recorded, valueMark, metric))
    BY <2>1 DEF DerivedInv
  <2>3. CASE e.taken
    <3>1. n \in Since(valueMark)'
      BY <1>3, <2>3 DEF Since
    <3>2. ~u.thrown
      BY <1>3, <1>8, <3>1
    <3>3. PICK q : RowByRow(q, metric, projections[metric.id], projections'[metric.id],
                            RowsOf(e, metric.telemetryType))
      BY <1>5, <2>3, <3>2 DEF ItemMoves
    <3>4. metric.telemetryType \in Types
      BY MetricsOfConfiguration
    <3>5. metric.id \in Ids /\ IsProjection(projections[metric.id])
      BY <1>5 DEF Ids
    <3>6. PICK old, new : old = projections[metric.id] /\ new = projections'[metric.id]
      OBVIOUS
    <3>7. IsProjection(old) /\ RowByRow(q, metric, old, new, RowsOf(e, metric.telemetryType))
      BY <3>3, <3>5, <3>6
    <3>8. Tally(metric.aggregation, old, ValuesIn(recorded, valueMark, metric))
      BY <2>2, <3>6
    <3>9. e \in Entries /\ recorded' = Append(recorded, e)
      OBVIOUS
    <3>10. Tally(metric.aggregation, new, ValuesIn(recorded', valueMark, metric))
      BY ONLY <1>2, <2>3, <3>4, <3>7, <3>8, <3>9, RowsTallied
    <3> QED
      BY <3>6, <3>10
  <2>4. CASE ~e.taken
    <3> DEFINE f == ValuesIn(recorded, valueMark, metric)
               g == ValuesIn(recorded', valueMark, metric)
               S == SamplesIn(recorded, valueMark, metric)
               T == SamplesIn(recorded', valueMark, metric)
    <3>1. Extended(recorded, e, recorded', n, valueMark, metric)
      BY <1>1, <1>2, SamplesGrow
    <3>2. T = S /\ \A s \in S : g[s] = f[s]
      BY <2>4, <3>1 DEF Extended
    <3>3. g = [s \in T |-> g[s]] /\ f = [s \in S |-> f[s]]
      BY DEF ValuesIn
    <3>4. g = f
      <4> HIDE DEF f, g, S, T
      <4> QED
        BY <3>2, <3>3
    <3>5. projections' = projections
      BY <1>5, <2>4
    <3> QED
      BY <2>2, <3>4, <3>5
  <2> QED
    BY <2>3, <2>4
<1>9. ((\A i \in Since(valueMark) : ~recorded[i].thrown) =>
         \A metric \in MetricsOf(config) :
           Tally(metric.aggregation, projections[metric.id],
                 ValuesIn(recorded, valueMark, metric)))'
  BY <1>6, <1>8 DEF ValuesIn, SamplesIn
<1> QED
  BY <1>4, <1>7, <1>9 DEF DerivedInv

\* A step that neither records nor touches the projections leaves them standing for the same.
LEMMA SameDerived ==
  ASSUME DerivedInv, UNCHANGED <<config, recorded, projections, valueMark>>
  PROVE  DerivedInv'
<1>1. MetricsOf(config)' = MetricsOf(config) /\ Ids' = Ids
  BY DEF MetricsOf, Ids
<1>2. Since(valueMark)' = Since(valueMark)
  BY DEF Since
<1>3. \A metric : ValuesIn(recorded, valueMark, metric)' = ValuesIn(recorded, valueMark, metric)
  BY DEF ValuesIn, SamplesIn
<1> QED
  BY <1>1, <1>2, <1>3 DEF DerivedInv

\* The client's steps, by what they make of the projections.
ClientStep(startedOver) ==
  \/ startedOver /\ config' = None
  \/ ~startedOver /\ meterProvider /\ ~meterProvider' /\ config' = None
  \/ ~startedOver /\ ~meterProvider /\ ~meterProvider' /\ isShutdown # isShutdown' /\ config' = None
  \/ /\ ~startedOver /\ isShutdown = isShutdown' /\ ~(meterProvider /\ ~meterProvider')
     /\ config' = config \/ (meterProvider' = meterProvider /\ config' \in Etags)

LEMMA QuickPulseDoneIs ==
  ASSUME TypeOK, NEW r \in Response, NEW n, QuickPulseDone(r, n), UNCHANGED isShutdown
  PROVE  ClientStep(StartsOver)
<1>1. /\ isShutdown \in BOOLEAN /\ isCollectingData \in BOOLEAN /\ meterProvider \in BOOLEAN
      /\ silent \in BOOLEAN
  BY DEF TypeOK
<1>2. CASE isShutdown
  BY <1>1, <1>2 DEF QuickPulseDone, ClientStep, StartsOver, configVars
<1>3. CASE ~isShutdown /\ r = None
  <2>1. Unanswered(n)
    BY <1>3 DEF QuickPulseDone
  <2> QED
    BY <1>1, <1>3, <2>1 DEF Unanswered, ClientStep, StartsOver
<1>4. CASE ~isShutdown /\ r # None
  <2>1. Answered(r, n)
    BY <1>4 DEF QuickPulseDone
  <2>2. ~StartsOver /\ r.subscribed \in BOOLEAN /\ r.etag \in Etags \cup {NoEtag}
    BY <1>4, <2>1 DEF Answered, StartsOver, Response
  <2>3. CASE ~r.subscribed /\ meterProvider
    <3>1. config' = None /\ meterProvider' = FALSE
      BY <2>1, <2>3 DEF Answered, Stop, Deactivate
    <3> QED
      BY <2>2, <2>3, <3>1 DEF ClientStep
  <2>4. CASE ~(~r.subscribed /\ meterProvider)
    <3>1. config' = Updated(r, config) /\ meterProvider' = meterProvider
      BY <2>1, <2>4 DEF Answered
    <3>2. Updated(r, config) = config \/ Updated(r, config) \in Etags
      BY <2>2 DEF Updated
    <3> QED
      BY <1>1, <2>2, <3>1, <3>2 DEF ClientStep
  <2> QED
    BY <2>3, <2>4
<1> QED
  BY <1>1, <1>2, <1>3, <1>4

LEMMA ClientStepIs ==
  ASSUME TypeOK, NEW startedOver,
         \/ GoQuickpulse /\ startedOver = FALSE
         \/ PingDone /\ startedOver = StartsOver
         \/ PostDone /\ startedOver = StartsOver
         \/ Resume /\ startedOver = FALSE
         \/ Shutdown /\ startedOver = FALSE
  PROVE  ClientStep(startedOver)
<1>1. meterProvider \in BOOLEAN
  BY DEF TypeOK
<1>2. CASE GoQuickpulse /\ startedOver = FALSE
  BY <1>1, <1>2 DEF GoQuickpulse, ActivateIfCollecting, configVars, ClientStep
<1>3. CASE Resume /\ startedOver = FALSE
  BY <1>1, <1>3 DEF Resume, ActivateIfCollecting, configVars, ClientStep
<1>4. CASE PingDone /\ startedOver = StartsOver
  <2>1. PICK r \in Response : QuickPulseDone(r, posts)
    BY <1>4 DEF PingDone
  <2>2. UNCHANGED isShutdown
    BY <1>4 DEF PingDone
  <2> QED
    BY <1>4, <2>1, <2>2, QuickPulseDoneIs
<1>5. CASE PostDone /\ startedOver = StartsOver
  <2>1. PICK r \in Response : QuickPulseDone(r, posts - 1)
    BY <1>5 DEF PostDone
  <2>2. UNCHANGED isShutdown
    BY <1>5 DEF PostDone
  <2> QED
    BY <1>5, <2>1, <2>2, QuickPulseDoneIs
<1>6. CASE Shutdown /\ startedOver = FALSE
  BY <1>1, <1>6 DEF Shutdown, Deactivate, ClientStep
<1> QED
  BY <1>2, <1>3, <1>4, <1>5, <1>6

LEMMA FollowDerived ==
  ASSUME TypeOK, TypeOK', recorded \in Seq(Entries), DerivedInv,
         NEW startedOver, ClientStep(startedOver), Follow(startedOver)
  PROVE  DerivedInv'
<1>1. recorded' = recorded
  BY DEF Follow, handlerVars
<1>2. None \notin Etags
  BY LiveMetricsAssumption DEF LiveMetricsAssumption
<1>3. \/ ClearTelemetry /\ config' = None
      \/ StartOver
      \/ UNCHANGED <<projections, valueMark, config>>
  BY <1>2 DEF TypeOK, Follow, ClientStep, telemetryVars
<1>4. CASE ClearTelemetry /\ config' = None
  <2>1. MetricsOf(config)' = {} /\ Ids' = {}
    BY <1>4 DEF MetricsOf, Ids
  <2>2. valueMark' = Len(recorded') /\ DOMAIN projections' = {}
    BY <1>1, <1>4 DEF ClearTelemetry
  <2>3. AllFresh'
    BY <2>1, <2>2 DEF AllFresh
  <2> QED
    BY <1>1, <2>3, FreshDerivedNext
<1>5. CASE StartOver
  <2>1. projections' = InitialProjections(config') /\ valueMark' = Len(recorded')
    BY <1>1, <1>5 DEF StartOver
  <2>2. (config \in Etags \cup {None})'
    BY DEF TypeOK
  <2>3. (\A metric \in MetricsOf(config) : Named(MetricsOf(config), metric.id) = metric)'
    BY <2>2, NamedMetricNext
  <2>4. DOMAIN projections' = Ids'
    BY <2>1 DEF InitialProjections, Ids
  <2>5. \A metric \in MetricsOf(config') :
          projections'[metric.id] = initDerivedMetricProjection(metric)
    BY <2>1, <2>3 DEF InitialProjections
  <2>6. \A metric \in MetricsOf(config') :
          Fresh(metric.aggregation, projections'[metric.id])
    BY <2>5, InitialFresh
  <2>7. AllFresh'
    BY <2>1, <2>4, <2>6 DEF AllFresh
  <2> QED
    BY <1>1, <2>7, FreshDerivedNext
<1>6. CASE UNCHANGED <<projections, valueMark, config>>
  BY <1>1, <1>6, SameDerived
<1> QED
  BY <1>3, <1>4, <1>5, <1>6

LEMMA ExportDerived ==
  ASSUME config \in Etags \cup {None}, recorded \in Seq(Entries), DerivedInv, Export
  PROVE  DerivedInv'
<1>1. /\ recorded' = recorded /\ valueMark' = Len(recorded') /\ config' = config
      /\ projections' = [id \in DOMAIN projections |->
                           ResetProjection(Named(MetricsOf(config), id), projections[id])]
  BY DEF Export, handlerVars, Post, configVars
<1>2. MetricsOf(config)' = MetricsOf(config) /\ Ids' = Ids
  BY <1>1 DEF MetricsOf, Ids
<1>3. DOMAIN projections = Ids /\ \A id \in Ids : IsProjection(projections[id])
  BY DEF DerivedInv
<1>4. ASSUME NEW metric \in MetricsOf(config)
      PROVE  Fresh(metric.aggregation, projections'[metric.id])
  <2>1. metric.id \in Ids /\ Named(MetricsOf(config), metric.id) = metric
    BY NamedMetric DEF Ids
  <2>2. projections'[metric.id] = ResetProjection(metric, projections[metric.id])
    BY <1>1, <1>3, <2>1
  <2> QED
    BY <1>3, <2>1, <2>2, ResetFresh
<1>5. AllFresh'
  BY <1>1, <1>2, <1>3, <1>4 DEF AllFresh
<1> QED
  BY <1>1, <1>5, FreshDerivedNext

LEMMA SpanDerived ==
  ASSUME HandlerInv, DerivedInv, RecordSpan
  PROVE  DerivedInv'
<1>1. PICK span \in Spans :
        LET t == IF isCollectingData THEN recordSpan(Telemetry, span) ELSE Telemetry
        IN  /\ Apply(t)
            /\ recorded' = Append(recorded, [item |-> span, log |-> FALSE, thrown |-> t.thrown,
                                             taken |-> isCollectingData])
            /\ UNCHANGED <<vars, rateMark, valueMark>>
  BY DEF RecordSpan
<1> DEFINE t == IF isCollectingData THEN recordSpan(Telemetry, span) ELSE Telemetry
           e == [item |-> span, log |-> FALSE, thrown |-> t.thrown, taken |-> isCollectingData]
<1>2. /\ projections' = t.projections /\ recorded' = Append(recorded, e)
      /\ UNCHANGED <<config, valueMark>>
  BY <1>1 DEF Apply, vars
<1>3. config \in Etags \cup {None} /\ isCollectingData \in BOOLEAN /\ HistoryOK
  BY ConfigurationType DEF HandlerInv
<1>4. IsTelemetry(Telemetry) /\ ~Telemetry.thrown /\ Telemetry.totals = totals
  BY DEF IsTelemetry, Telemetry
<1>5. HasProjections(Telemetry)
  BY DEF HasProjections, Telemetry, DerivedInv
<1>6. /\ e.item = span /\ e.log = FALSE /\ e.thrown = t.thrown /\ e.taken = isCollectingData
      /\ e.item \in Spans
  OBVIOUS
<1>7. e.taken => t = recordSpan(Telemetry, e.item)
  OBVIOUS
<1>8. ~e.taken => t = Telemetry
  OBVIOUS
<1>9. t.thrown \in BOOLEAN
  <2>1. totals \in Totals
    BY DEF HandlerInv
  <2>2. IsTelemetry(recordSpan(Telemetry, span))
    BY <1>3, <1>4, <2>1, SpanCounted
  <2> HIDE DEF e
  <2>3. IsTelemetry(t)
    BY <1>4, <2>2
  <2> HIDE DEF t
  <2> QED
    BY <2>3 DEF IsTelemetry
<1>10. e \in Entries
  <2> HIDE DEF t
  <2> QED
    BY <1>3, <1>9 DEF Entries
<1> HIDE DEF e
<1>11. IF e.taken THEN ItemMoves(Telemetry, t, e) ELSE t = Telemetry
  <2>1. ItemMoves(Telemetry, recordSpan(Telemetry, e.item), e)
    BY <1>3, <1>4, <1>5, <1>6, SpanMoves
  <2> HIDE DEF t
  <2> QED
    BY <1>7, <1>8, <2>1
<1> HIDE DEF t
<1> QED
  BY <1>2, <1>3, <1>6, <1>10, <1>11, ItemDerived

LEMMA LogDerived ==
  ASSUME HandlerInv, DerivedInv, RecordLog
  PROVE  DerivedInv'
<1>1. PICK log \in Logs :
        LET t == IF isCollectingData THEN recordLog(Telemetry, log) ELSE Telemetry
        IN  /\ Apply(t)
            /\ recorded' = Append(recorded, [item |-> log, log |-> TRUE, thrown |-> FALSE,
                                             taken |-> isCollectingData])
            /\ UNCHANGED <<vars, rateMark, valueMark>>
  BY DEF RecordLog
<1> DEFINE t == IF isCollectingData THEN recordLog(Telemetry, log) ELSE Telemetry
           e == [item |-> log, log |-> TRUE, thrown |-> FALSE, taken |-> isCollectingData]
<1>2. /\ projections' = t.projections /\ recorded' = Append(recorded, e)
      /\ UNCHANGED <<config, valueMark>>
  BY <1>1 DEF Apply, vars
<1>3. config \in Etags \cup {None} /\ isCollectingData \in BOOLEAN /\ HistoryOK
  BY ConfigurationType DEF HandlerInv
<1>4. IsTelemetry(Telemetry) /\ Telemetry.thrown = FALSE /\ Telemetry.totals = totals
  BY DEF IsTelemetry, Telemetry
<1>5. HasProjections(Telemetry)
  BY DEF HasProjections, Telemetry, DerivedInv
<1>6. /\ e.item = log /\ e.log = TRUE /\ e.thrown = FALSE /\ e.taken = isCollectingData
      /\ e \in Entries
  BY <1>3 DEF Entries
<1>7. e.taken => t = recordLog(Telemetry, e.item)
  OBVIOUS
<1>8. ~e.taken => t = Telemetry
  OBVIOUS
<1> HIDE DEF e, t
<1>9. /\ IsTelemetry(recordLog(Telemetry, log)) /\ ~recordLog(Telemetry, log).thrown
  <2>1. totals \in Totals
    BY DEF HandlerInv
  <2> QED
    BY <1>3, <1>4, <2>1, LogCounted
<1>10. t.thrown = e.thrown
  <2>1. recordLog(Telemetry, log).thrown = FALSE
    BY <1>9 DEF IsTelemetry
  <2> QED
    BY <1>3, <1>4, <1>6, <1>7, <1>8, <2>1
<1>11. IF e.taken THEN ItemMoves(Telemetry, t, e) ELSE t = Telemetry
  <2>1. ItemMoves(Telemetry, recordLog(Telemetry, e.item), e)
    BY <1>3, <1>4, <1>5, <1>6, LogMoves
  <2> QED
    BY <1>7, <1>8, <2>1
<1> QED
  BY <1>2, <1>3, <1>6, <1>10, <1>11, ItemDerived

LEMMA InitDerivedInv == HandlerInit => DerivedInv
<1> SUFFICES ASSUME HandlerInit PROVE DerivedInv
  OBVIOUS
<1>1. config = None /\ recorded = <<>> /\ valueMark = 0 /\ projections = <<>>
  BY DEF HandlerInit, Init
<1>2. MetricsOf(config) = {} /\ Ids = {} /\ DOMAIN projections = {} /\ Len(recorded) = 0
  BY <1>1 DEF MetricsOf, Ids
<1>3. AllFresh /\ recorded \in Seq(Entries)
  BY <1>1, <1>2 DEF AllFresh
<1> QED
  BY <1>3, FreshDerived

LEMMA NextDerivedInv ==
  HandlerInv /\ HandlerInv' /\ DerivedInv /\ [HandlerNext]_allVars => DerivedInv'
<1> SUFFICES ASSUME HandlerInv, HandlerInv', DerivedInv, [HandlerNext]_allVars
             PROVE  DerivedInv'
  OBVIOUS
<1>1. TypeOK /\ TypeOK' /\ recorded \in Seq(Entries) /\ config \in Etags \cup {None}
  BY ConfigurationType DEF HandlerInv, HistoryOK
<1>2. CASE Ping \/ PingAnswer \/ PostAnswer \/ GoOn \/ End
  <2>1. PICK startedOver :
          /\ Follow(startedOver)
          /\ \/ GoQuickpulse /\ startedOver = FALSE
             \/ PingDone /\ startedOver = StartsOver
             \/ PostDone /\ startedOver = StartsOver
             \/ Resume /\ startedOver = FALSE
             \/ Shutdown /\ startedOver = FALSE
    BY <1>2 DEF Ping, PingAnswer, PostAnswer, GoOn, End
  <2>2. ClientStep(startedOver)
    BY <1>1, <2>1, ClientStepIs
  <2> QED
    BY <1>1, <2>1, <2>2, FollowDerived
<1>3. CASE Silence
  <2>1. UNCHANGED <<config, recorded, projections, valueMark>>
    BY <1>3 DEF Silence, SilenceLasts, configVars, telemetryVars, handlerVars
  <2> QED
    BY <2>1, SameDerived
<1>4. CASE Export
  BY <1>1, <1>4, ExportDerived
<1>5. CASE RecordSpan
  BY <1>5, SpanDerived
<1>6. CASE RecordLog
  BY <1>6, LogDerived
<1>7. CASE UNCHANGED allVars
  <2>1. UNCHANGED <<config, recorded, projections, valueMark>>
    BY <1>7 DEF allVars, vars, telemetryVars, handlerVars
  <2> QED
    BY <2>1, SameDerived
<1> QED
  BY <1>2, <1>3, <1>4, <1>5, <1>6, <1>7 DEF HandlerNext

\* DerivedMetricsAreExact: whatever configurations come and go between the items, each report
\* has the aggregate of exactly the matching items of its interval, of every metric of the
\* configuration in force and of no other.
THEOREM DerivedMetricsExact == HandlerSpec => []DerivedMetricsAreExact
BY InitHandlerInv, NextHandlerInv, InitDerivedInv, NextDerivedInv, DerivedInvSuffices, PTL
   DEF HandlerSpec
=============================================================================
