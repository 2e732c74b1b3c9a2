----------------------- MODULE AgenticTokenCache_proof -----------------------
(***************************************************************************)
(* The safety of the token cache for every set of keys, any number of      *)
(* refreshes, every size of the cache and all times: exchanges of one key  *)
(* exclude each other, what is served is fresh, invalidateAll is final,    *)
(* and the map keeps within its size.  The order of use only says which    *)
(* entry is evicted, so only the last of these depends on it.              *)
(***************************************************************************)
EXTENDS AgenticTokenCache, SequenceTheorems, TLAPS

Object == [token: Calls \cup {None}, expiresOn: Nat, acquiredOn: Nat, claim: Nat]

Call == [pc: {"new", "waiting", "exchanging", "sleeping", "done"}, key: Keys \cup {None},
         after: Calls \cup {None}, obj: Calls \cup {None}, attempt: Int]

\* Refreshes that have the lock of their key, or wait for it.
Pending(c) == call[c].pc \in {"waiting", "exchanging", "sleeping"}

Typed ==
  /\ entry \in [Keys -> Calls \cup {None}]
  /\ object \in [Calls -> Object]
  /\ call \in [Calls -> Call]
  /\ tail \in [Keys -> Calls \cup {None}]
  /\ now \in Nat \ {0}
  /\ voided \subseteq Calls
  /\ \A c \in Calls : /\ Pending(c) => call[c].key \in Keys
                      /\ Running(c) => call[c].obj \in Calls

-----------------------------------------------------------------------------
(* What steps do to entries and objects *)

\* Whatever is written, an object is as it was written, or garbage.
LEMMA WrittenObjects ==
  ASSUME NEW obj \in [Calls -> Object], Written(obj)
  PROVE  /\ object' \in [Calls -> Object]
         /\ \A o \in Calls : object'[o] \in {obj[o], NewObject}
<1>1. NewObject \in Object
  BY DEF NewObject, Object
<1>2. \A o \in Calls : object'[o] \in {obj[o], NewObject}
  BY DEF Written
<1>3. object' \in [Calls -> Object]
  BY <1>1 DEF Written
<1> QED
  BY <1>2, <1>3

\* When a refresh has the lock it makes the entry of its key, or finds it; others may go.
LEMMA BeginEntries ==
  ASSUME Typed, NEW c \in Calls, Begin(c)
  PROVE  /\ call[c].key \in Keys
         /\ entry' \in [Keys -> Calls \cup {None}]
         /\ \A k \in Keys : \/ entry'[k] \in {entry[k], None}
                            \/ k = call[c].key /\ entry[k] = None /\ entry'[k] = c
         /\ entry'[call[c].key] \in Calls
<1>1. call[c].key \in Keys
  BY DEF Begin, Typed, Pending
<1>2. CASE entry[call[c].key] = None
  <2>1. \E room : entry' = [j \in Keys |-> CASE j = call[c].key -> c
                                        [] j # call[c].key /\ j \in Range(room) -> entry[j]
                                        [] OTHER -> None]
    BY <1>2 DEF Begin
  <2>2. PICK room : entry' = [j \in Keys |-> IF j = call[c].key THEN c
                                             ELSE IF j \in Range(room) THEN entry[j] ELSE None]
    BY <2>1
  <2> QED
    BY <1>1, <1>2, <2>2 DEF Typed
<1>3. CASE entry[call[c].key] # None
  BY <1>1, <1>3 DEF Begin, Typed
<1> QED
  BY <1>1, <1>2, <1>3

\* And then it is done, or exchanges a token for the entry's object.
LEMMA BeginCall ==
  ASSUME Typed, NEW c \in Calls, Begin(c)
  PROVE  \/ Done(c)
         \/ /\ call' = [call EXCEPT ![c].pc = "exchanging", ![c].obj = entry'[call[c].key]]
            /\ UNCHANGED tail
  BY DEF Begin

\* A token as an exchange of c writes it, or what is left when the exchange fails.
Obtained(c, o) ==
  /\ o.token = c /\ o.acquiredOn = now
  /\ \/ o.claim = 0 /\ o.expiresOn = object[call[c].obj].expiresOn
     \/ 0 < o.expiresOn /\ o.expiresOn <= o.claim /\ o.expiresOn <= now + MaxExp

\* The exchange of c writes the object that c found or made when it began, and no other.
LEMMA ExchangedObjects ==
  ASSUME Typed, NEW c \in Calls, ExchangeSucceeds(c) \/ ExchangeFails(c)
  PROVE  /\ object' \in [Calls -> Object]
         /\ call[c].obj \in Calls
         /\ \A o \in Calls : o # call[c].obj => object'[o] \in {object[o], NewObject}
         /\ LET o == object'[call[c].obj] IN
              \/ o = NewObject
              \/ o.token = None /\ o.expiresOn = 0 /\ o.acquiredOn = object[call[c].obj].acquiredOn
              \/ Obtained(c, o)
<1> DEFINE mine == call[c].obj
<1>1. mine \in Calls
  BY DEF ExchangeSucceeds, ExchangeFails, Typed, Running
<1>2. CASE ExchangeFails(c)
  <2> DEFINE failed == [object EXCEPT ![mine].token = None, ![mine].expiresOn = 0]
  <2>1. /\ failed \in [Calls -> Object]
        /\ \A o \in Calls : o # mine => failed[o] = object[o]
        /\ failed[mine].token = None /\ failed[mine].expiresOn = 0
        /\ failed[mine].acquiredOn = object[mine].acquiredOn
    BY <1>1 DEF Typed, Object
  <2>2. Written(failed)
    BY <1>2 DEF ExchangeFails
  <2> HIDE DEF failed
  <2> QED
    BY <1>1, <2>1, <2>2, WrittenObjects
<1>3. CASE ExchangeSucceeds(c)
  <2>1. ASSUME NEW expiresOn \in Nat, NEW claim \in Nat
        PROVE  /\ TokenWith(c, expiresOn, claim) \in [Calls -> Object]
               /\ \A o \in Calls : o # mine => TokenWith(c, expiresOn, claim)[o] = object[o]
               /\ TokenWith(c, expiresOn, claim)[mine]
                    = [token |-> c, acquiredOn |-> now, expiresOn |-> expiresOn, claim |-> claim]
    BY <1>1, <2>1 DEF TokenWith, Typed, Object
  <2>2. PICK expiresOn \in Nat, claim \in Nat :
          /\ Written(TokenWith(c, expiresOn, claim))
          /\ \/ claim = 0 /\ expiresOn = object[mine].expiresOn
             \/ 0 < expiresOn /\ expiresOn <= claim /\ expiresOn <= now + MaxExp
    <3>1. CASE Written(TokenWith(c, object[mine].expiresOn, 0))
      <4>1. object[mine].expiresOn \in Nat
        BY <1>1 DEF Typed, Object
      <4> QED
        BY <3>1, <4>1
    <3>2. CASE \E life \in Lifetimes :
                 Written(TokenWith(c, now + IF life < MaxExp THEN life ELSE MaxExp, now + life))
      <4>1. PICK life \in Lifetimes :
                 Written(TokenWith(c, now + IF life < MaxExp THEN life ELSE MaxExp, now + life))
        BY <3>2
      <4>2. PICK e : e = now + IF life < MaxExp THEN life ELSE MaxExp
        OBVIOUS
      <4>3. life \in Nat /\ MaxExp \in Nat /\ now \in Nat \ {0}
        BY CacheAssumption DEF CacheAssumption, Typed
      <4>4. /\ e \in Nat /\ now + life \in Nat
            /\ 0 < e /\ e <= now + life /\ e <= now + MaxExp
        BY <4>2, <4>3
      <4> QED
        BY <4>1, <4>2, <4>4
    <3> QED
      BY <1>3, <3>1, <3>2 DEF ExchangeSucceeds
  <2>3. /\ object' \in [Calls -> Object]
        /\ \A o \in Calls : object'[o] \in {TokenWith(c, expiresOn, claim)[o], NewObject}
    BY <2>1, <2>2, WrittenObjects
  <2>4. \A o \in Calls : o # mine => object'[o] \in {object[o], NewObject}
    <3>1. \A o \in Calls : o # mine => TokenWith(c, expiresOn, claim)[o] = object[o]
      BY <1>1 DEF TokenWith, Typed
    <3> QED
      BY <2>3, <3>1
  <2>5. object'[mine] = NewObject \/ Obtained(c, object'[mine])
    <3>1. ASSUME NEW o,
                 o = [token |-> c, acquiredOn |-> now, expiresOn |-> expiresOn, claim |-> claim]
          PROVE  Obtained(c, o)
      BY <2>2, <3>1 DEF Obtained
    <3> QED
      BY <1>1, <2>1, <2>3, <3>1
  <2> QED
    BY <1>1, <2>3, <2>4, <2>5
<1> QED
  BY <1>2, <1>3

-----------------------------------------------------------------------------
(* Types *)

LEMMA InitTyped == Init => Typed
<1> SUFFICES ASSUME Init PROVE Typed
  OBVIOUS
<1>1. NewObject \in Object /\ NewCall \in Call
  BY DEF NewObject, Object, NewCall, Call
<1>2. \A c \in Calls : ~Pending(c) /\ ~Running(c)
  BY DEF Init, NewCall, Pending, Running
<1> QED
  BY <1>1, <1>2 DEF Init, Typed

\* A refresh that is done has the record of a new one, but for its pc.
LEMMA DoneTyped ==
  ASSUME Typed, NEW c \in Calls, Done(c), call[c].key \in Keys
  PROVE  /\ call' \in [Calls -> Call] /\ tail' \in [Keys -> Calls \cup {None}]
         /\ call'[c] = [NewCall EXCEPT !.pc = "done"]
         /\ \A d \in Calls : d # c => call'[d] = call[d]
<1>1. [NewCall EXCEPT !.pc = "done"] \in Call
  BY DEF NewCall, Call
<1> QED
  BY <1>1 DEF Typed, Done, Unlocked

\* A retry changes nothing but the pc and the attempt of a running refresh.
TriesAgain(c) ==
  /\ Running(c) /\ call'[c].pc \in {"exchanging", "sleeping"}
  /\ call'[c].key = call[c].key /\ call'[c].after = call[c].after
  /\ call'[c].obj = call[c].obj
  /\ \A d \in Calls : d # c => call'[d] = call[d]
  /\ call' \in [Calls -> Call]
  /\ UNCHANGED <<entry, object, tail, now, voided>>

LEMMA RetryTyped ==
  ASSUME Typed, NEW c \in Calls, ExchangeTimesOut(c) \/ WakeUp(c), ~ExchangeFails(c)
  PROVE  TriesAgain(c)
<1>1. CASE WakeUp(c)
  BY <1>1 DEF WakeUp, TriesAgain, Typed, Call, Running
<1>2. CASE ExchangeTimesOut(c)
  <2>1. /\ call[c].pc = "exchanging"
        /\ call' = [call EXCEPT ![c].pc = "sleeping", ![c].attempt = @ + 1]
        /\ UNCHANGED <<entry, object, tail, now, voided>>
    BY <1>2 DEF ExchangeTimesOut
  <2>2. [call[c] EXCEPT !.pc = "sleeping", !.attempt = @ + 1] \in Call
    <3>1. ASSUME NEW r \in Call, NEW n \in Int
          PROVE  [r EXCEPT !.pc = "sleeping", !.attempt = n] \in Call
      BY DEF Call
    <3>2. call[c] \in Call /\ call[c].attempt + 1 \in Int
      BY DEF Typed, Call
    <3> QED
      BY <3>1, <3>2
  <2>3. call' = [call EXCEPT ![c] = [call[c] EXCEPT !.pc = "sleeping", !.attempt = @ + 1]]
    BY <2>1
  <2>4. /\ call' \in [Calls -> Call]
        /\ \A d \in Calls : d # c => call'[d] = call[d]
    BY <2>2, <2>3 DEF Typed
  <2>5. /\ call'[c].pc = "sleeping" /\ call'[c].key = call[c].key
        /\ call'[c].after = call[c].after /\ call'[c].obj = call[c].obj
    BY <2>3 DEF Typed, Call
  <2> QED
    BY <2>1, <2>4, <2>5 DEF TriesAgain, Running
<1> QED
  BY <1>1, <1>2

LEMMA Exchanging ==
  ASSUME NEW one \in Call, NEW o \in Calls
  PROVE  [one EXCEPT !.pc = "exchanging", !.obj = o] \in Call
<1> DEFINE at == [one EXCEPT !.pc = "exchanging"]
<1>1. at \in Call
  BY DEF Call
<1>2. [at EXCEPT !.obj = o] \in Call
  BY <1>1 DEF Call
<1>3. [one EXCEPT !.pc = "exchanging", !.obj = o] = [at EXCEPT !.obj = o]
  BY DEF Call
<1> QED
  BY <1>2, <1>3

LEMMA NextTyped == Typed /\ [Next]_vars => Typed'
<1> SUFFICES ASSUME Typed, [Next]_vars PROVE Typed'
  OBVIOUS
<1>1. ASSUME NEW c \in Calls, NEW k \in Keys, Refresh(c, k) PROVE Typed'
  <2>1. [NewCall EXCEPT !.pc = "waiting", !.key = k, !.after = tail[k]] \in Call
    <3>1. tail[k] \in Calls \cup {None}
      BY DEF Typed
    <3>2. NewCall \in Call
      BY DEF NewCall, Call
    <3> QED
      BY <3>1, <3>2 DEF Call
  <2>2. call' \in [Calls -> Call] /\ tail' \in [Keys -> Calls \cup {None}]
    BY <1>1, <2>1 DEF Typed, Refresh
  <2>3. \A d \in Calls : /\ Pending(d)' => call'[d].key \in Keys
                         /\ Running(d)' => call'[d].obj \in Calls
    BY <1>1 DEF Typed, Refresh, Pending, Running, NewCall
  <2> QED
    BY <1>1, <2>2, <2>3 DEF Typed, Refresh
<1>2. ASSUME NEW c \in Calls, Begin(c) PROVE Typed'
  <2>1. /\ call[c].key \in Keys /\ entry' \in [Keys -> Calls \cup {None}]
        /\ entry'[call[c].key] \in Calls
    BY <1>2, BeginEntries
  <2>2. object' \in [Calls -> Object]
    BY <1>2, WrittenObjects DEF Typed, Begin
  <2>3. /\ call' \in [Calls -> Call] /\ tail' \in [Keys -> Calls \cup {None}]
        /\ \A d \in Calls : /\ Pending(d)' => call'[d].key \in Keys
                            /\ Running(d)' => call'[d].obj \in Calls
    <3>1. CASE Done(c)
      BY <2>1, <3>1, DoneTyped DEF Typed, Pending, Running, NewCall
    <3>2. CASE /\ call' = [call EXCEPT ![c].pc = "exchanging", ![c].obj = entry'[call[c].key]]
               /\ UNCHANGED tail
      <4>1. [call[c] EXCEPT !.pc = "exchanging", !.obj = entry'[call[c].key]] \in Call
        BY <2>1, Exchanging DEF Typed
      <4>2. call' = [call EXCEPT ![c] = [call[c] EXCEPT !.pc = "exchanging",
                                                        !.obj = entry'[call[c].key]]]
        BY <3>2
      <4>3. call' \in [Calls -> Call]
        BY <4>1, <4>2 DEF Typed
      <4>4. \A d \in Calls : d # c => call'[d] = call[d]
        BY <4>2 DEF Typed
      <4>5. call'[c].key = call[c].key /\ call'[c].obj = entry'[call[c].key]
        BY <4>2 DEF Typed, Call
      <4> QED
        BY <2>1, <3>2, <4>3, <4>4, <4>5 DEF Typed, Pending, Running
    <3> QED
      BY <1>2, <3>1, <3>2, BeginCall
  <2> QED
    BY <1>2, <2>1, <2>2, <2>3 DEF Typed, Begin
<1>3. ASSUME NEW c \in Calls, ExchangeSucceeds(c) \/ ExchangeFails(c) PROVE Typed'
  <2>1. call[c].key \in Keys /\ Done(c) /\ UNCHANGED <<entry, now, voided>>
    BY <1>3 DEF ExchangeSucceeds, ExchangeFails, Typed, Pending
  <2>2. object' \in [Calls -> Object]
    BY <1>3, ExchangedObjects
  <2> QED
    BY <2>1, <2>2, DoneTyped DEF Typed, Pending, Running, NewCall
<1>4. ASSUME NEW c \in Calls, ExchangeTimesOut(c) \/ WakeUp(c) PROVE Typed'
  <2>1. CASE ExchangeFails(c)
    BY <1>3, <2>1
  <2>2. CASE ~ExchangeFails(c)
    <3>1. TriesAgain(c)
      BY <1>4, <2>2, RetryTyped
    <3> QED
      BY <3>1 DEF TriesAgain, Typed, Pending, Running
  <2> QED
    BY <2>1, <2>2
<1>5. ASSUME NEW k \in Keys, InvalidateToken(k) PROVE Typed'
  BY <1>5 DEF InvalidateToken, Typed, Object, Pending, Running
<1>6. CASE InvalidateAll
  <2>1. object' \in [Calls -> Object]
    BY <1>6, WrittenObjects DEF InvalidateAll, Typed
  <2> QED
    BY <1>6, <2>1 DEF InvalidateAll, Typed, Pending, Running
<1>7. CASE Tick \/ (\E k \in Keys : GetToken(k)) \/ UNCHANGED vars
  BY <1>7 DEF Tick, GetToken, vars, Typed, Pending, Running
<1> QED
  BY <1>1, <1>2, <1>3, <1>4, <1>5, <1>6, <1>7 DEF Next

\* Entries, objects, refreshes and locks have their types in every reachable state.
THEOREM TokenCacheTyped == Spec => []Typed
  BY InitTyped, NextTyped, PTL DEF Spec

-----------------------------------------------------------------------------
(* The lock of a key *)

\* Nobody before c in its queue holds the lock.
AtHead(c) == call[c].after # None => ~Pending(call[c].after)

\* What a step may do to the queues.
Ends(c) ==
  /\ Pending(c) /\ (Running(c) \/ AtHead(c))
  /\ call'[c].pc = "done" /\ call'[c].after = None
  /\ \A d \in Calls : d # c => call'[d] = call[d]
  /\ tail' = Unlocked(c)

Advances(c) ==
  /\ Pending(c) /\ (Running(c) \/ AtHead(c))
  /\ call'[c].pc \in {"exchanging", "sleeping"}
  /\ call'[c].key = call[c].key /\ call'[c].after = call[c].after
  /\ \A d \in Calls : d # c => call'[d] = call[d]
  /\ UNCHANGED tail

LEMMA LockSteps ==
  ASSUME Typed, [Next]_vars
  PROVE  \/ \E c \in Calls, k \in Keys : Refresh(c, k)
         \/ \E c \in Calls : Ends(c) \/ Advances(c)
         \/ UNCHANGED <<call, tail>>
<1>1. ASSUME NEW c \in Calls, Begin(c) PROVE Ends(c) \/ Advances(c)
  <2>1. Pending(c) /\ AtHead(c) /\ call[c].key \in Keys
    BY <1>1 DEF Begin, Pending, AtHead, Typed
  <2>2. CASE Done(c)
    BY <2>1, <2>2, DoneTyped DEF Ends, Done, NewCall
  <2>3. CASE /\ call' = [call EXCEPT ![c].pc = "exchanging", ![c].obj = entry'[call[c].key]]
             /\ UNCHANGED tail
    <3>1. call' = [call EXCEPT ![c] = [call[c] EXCEPT !.pc = "exchanging",
                                                      !.obj = entry'[call[c].key]]]
      BY <2>3
    <3>2. \A d \in Calls : d # c => call'[d] = call[d]
      BY <3>1 DEF Typed
    <3>3. /\ call'[c].pc = "exchanging" /\ call'[c].key = call[c].key
          /\ call'[c].after = call[c].after
      BY <3>1 DEF Typed, Call
    <3> QED
      BY <2>1, <2>3, <3>2, <3>3 DEF Advances
  <2> QED
    BY <1>1, <2>2, <2>3, BeginCall
<1>2. ASSUME NEW c \in Calls, ExchangeSucceeds(c) \/ ExchangeFails(c) PROVE Ends(c)
  <2>1. Running(c) /\ Pending(c) /\ Done(c) /\ call[c].key \in Keys
    BY <1>2 DEF ExchangeSucceeds, ExchangeFails, Running, Pending, Typed
  <2> QED
    BY <2>1, DoneTyped DEF Ends, Done, NewCall
<1>3. ASSUME NEW c \in Calls, ExchangeTimesOut(c) \/ WakeUp(c) PROVE Ends(c) \/ Advances(c)
  <2>1. CASE ExchangeFails(c)
    BY <1>2, <2>1
  <2>2. CASE ~ExchangeFails(c)
    BY <1>3, <2>2, RetryTyped DEF TriesAgain, Advances, Running, Pending
  <2> QED
    BY <2>1, <2>2
<1>4. CASE \/ \E k \in Keys : GetToken(k) \/ InvalidateToken(k)
           \/ InvalidateAll \/ Tick \/ UNCHANGED vars
  BY <1>4 DEF GetToken, InvalidateToken, InvalidateAll, Tick, vars
<1> QED
  BY <1>1, <1>2, <1>3, <1>4 DEF Next

Peers(c, d) == Pending(c) /\ Pending(d) /\ call[c].key = call[d].key

\* The refreshes of a key stand in one line, in the order of their ranks: each behind the
\* one it waits for, the last at the key's tail, and only the first may run.
DistinctRanks(rank) == \A c, d \in Calls : Peers(c, d) /\ rank[c] = rank[d] => c = d

TailIsLast(rank) ==
  \A c \in Calls : Pending(c) => /\ tail[call[c].key] # None
                                 /\ rank[c] <= rank[tail[call[c].key]]

TailIsPending ==
  \A k \in Keys : tail[k] # None => Pending(tail[k]) /\ call[tail[k]].key = k

BehindOne(rank) ==
  \A c \in Calls : Pending(c) /\ ~AtHead(c) => LET before == call[c].after IN
    /\ Peers(c, before) /\ rank[before] < rank[c]
    /\ \A d \in Calls : Peers(c, d) => rank[d] <= rank[before] \/ rank[c] <= rank[d]

HeadIsFirst(rank) == \A c, d \in Calls : Peers(c, d) /\ AtHead(c) => rank[c] <= rank[d]

RunningAtHead == \A c \in Calls : Running(c) => AtHead(c)

AfterHasBegun == \A c \in Calls : call[c].after # None => call[call[c].after].pc # "new"

Queued(rank) ==
  /\ DistinctRanks(rank) /\ TailIsLast(rank) /\ TailIsPending /\ BehindOne(rank)
  /\ HeadIsFirst(rank) /\ RunningAtHead /\ AfterHasBegun

InLine == \E rank \in [Calls -> Int] : Queued(rank)

LEMMA InitInLine == Init => InLine
<1> SUFFICES ASSUME Init PROVE InLine
  OBVIOUS
<1>1. \A c \in Calls : ~Pending(c) /\ ~Running(c) /\ call[c].after = None
  BY DEF Init, Pending, Running, NewCall
<1>2. \A k \in Keys : tail[k] = None
  BY DEF Init
<1>3. Queued([c \in Calls |-> 0])
  BY <1>1, <1>2 DEF Queued, Peers, DistinctRanks, TailIsLast, TailIsPending, BehindOne,
                    HeadIsFirst, RunningAtHead, AfterHasBegun
<1>4. [c \in Calls |-> 0] \in [Calls -> Int]
  OBVIOUS
<1> QED
  BY <1>3, <1>4 DEF InLine

LEMMA NextInLine == Typed /\ Typed' /\ InLine /\ [Next]_vars => InLine'
<1> SUFFICES ASSUME Typed, Typed', [Next]_vars, NEW rank \in [Calls -> Int], Queued(rank)
             PROVE  InLine'
  BY DEF InLine
<1>1. ASSUME NEW c \in Calls, NEW k \in Keys, Refresh(c, k) PROVE InLine'
  <2>1. /\ ~Pending(c) /\ ~Running(c) /\ call[c].pc = "new" /\ Pending(c)' /\ ~Running(c)'
        /\ call'[c].pc = "waiting" /\ call'[c].key = k /\ call'[c].after = tail[k]
        /\ \A d \in Calls : d # c => call'[d] = call[d]
        /\ \A j \in Keys : tail'[j] = IF j = k THEN c ELSE tail[j]
    BY <1>1 DEF Refresh, Typed, Pending, Running, NewCall
  <2>2. tail[k] # None => /\ tail[k] \in Calls /\ tail[k] # c /\ Pending(tail[k])
                          /\ call[tail[k]].key = k /\ call'[tail[k]] = call[tail[k]]
    BY <2>1 DEF Queued, TailIsPending, Typed
  <2>3. PICK ranks \in [Calls -> Int] :
          /\ ranks[c] = IF tail[k] = None THEN 0 ELSE rank[tail[k]] + 1
          /\ \A d \in Calls : d # c => ranks[d] = rank[d]
    <3> DEFINE r == [rank EXCEPT ![c] = IF tail[k] = None THEN 0 ELSE rank[tail[k]] + 1]
    <3>1. r \in [Calls -> Int] /\ r[c] = IF tail[k] = None THEN 0 ELSE rank[tail[k]] + 1
      BY <2>2
    <3>2. \A d \in Calls : d # c => r[d] = rank[d]
      OBVIOUS
    <3> QED
      BY <3>1, <3>2
  <2>4. \A d \in Calls : d # c => /\ Pending(d)' <=> Pending(d)
                                  /\ Running(d)' <=> Running(d)
    BY <2>1 DEF Pending, Running
  <2>5. \A d \in Calls : d # c => (AtHead(d)' <=> AtHead(d))
    BY <2>1, <2>4 DEF Queued, AfterHasBegun, AtHead, Typed, Call
  <2>6. AtHead(c)' <=> tail[k] = None
    BY <2>1, <2>2, <2>4 DEF AtHead
  <2>7. \A d \in Calls : Pending(d) /\ call[d].key = k => tail[k] # None /\ ranks[d] < ranks[c]
    BY <2>1, <2>2, <2>3 DEF Queued, TailIsLast
  <2>8. DistinctRanks(ranks)'
    BY <2>1, <2>3, <2>4, <2>7 DEF Queued, DistinctRanks, Peers
  <2>9. TailIsLast(ranks)'
    <3>1. ASSUME NEW d \in Calls, d # c, Pending(d), call[d].key # k
          PROVE  /\ tail'[call[d].key] = tail[call[d].key] /\ tail[call[d].key] \in Calls
                 /\ tail[call[d].key] # c /\ rank[d] <= rank[tail[call[d].key]]
      BY <2>1, <3>1 DEF Queued, TailIsLast, TailIsPending, Typed
    <3>2. ASSUME NEW d \in Calls, d # c, Pending(d), call[d].key # k
          PROVE  /\ tail'[call[d].key] # None
                 /\ ranks[d] <= ranks[tail'[call[d].key]]
      BY <2>3, <3>1, <3>2, CacheAssumption DEF CacheAssumption
    <3>3. tail'[k] = c /\ c # None
      BY <2>1, CacheAssumption DEF CacheAssumption
    <3> QED
      BY <2>1, <2>3, <2>4, <2>7, <3>2, <3>3 DEF TailIsLast
  <2>10. TailIsPending'
    BY <2>1, <2>4 DEF Queued, TailIsPending, Typed
  <2>11. BehindOne(ranks)'
    <3>1. ASSUME NEW d \in Calls, Pending(d)', ~AtHead(d)', d # c,
                 NEW b \in Calls, b = call'[d].after
          PROVE  /\ Peers(d, b)' /\ ranks[b] < ranks[d]
                 /\ \A e \in Calls : Peers(d, e)' => ranks[e] <= ranks[b] \/ ranks[d] <= ranks[e]
      <4>1. Pending(d) /\ ~AtHead(d) /\ call[d].after = b
        BY <2>1, <2>4, <2>5, <3>1
      <4>2. b # c
        BY <2>1, <4>1 DEF AtHead
      <4>3. \A e \in Calls : e # c => (Peers(d, e)' <=> Peers(d, e))
        BY <2>1, <2>4, <3>1 DEF Peers
      <4>4. Peers(d, c)' => ranks[d] < ranks[c]
        BY <2>1, <2>4, <2>7, <3>1, <4>1 DEF Peers
      <4>5. /\ Peers(d, b) /\ rank[b] < rank[d]
            /\ \A e \in Calls : Peers(d, e) => rank[e] <= rank[b] \/ rank[d] <= rank[e]
        BY <4>1 DEF Queued, BehindOne
      <4>6. Peers(d, b)' /\ ranks[b] < ranks[d]
        BY <2>3, <3>1, <4>2, <4>3, <4>5
      <4>7. ASSUME NEW e \in Calls, Peers(d, e)'
            PROVE  ranks[e] <= ranks[b] \/ ranks[d] <= ranks[e]
        BY <2>3, <3>1, <4>2, <4>3, <4>4, <4>5, <4>7
      <4> QED
        BY <4>6, <4>7
    <3>2. ASSUME ~AtHead(c)', NEW b \in Calls, b = call'[c].after
          PROVE  /\ Peers(c, b)' /\ ranks[b] < ranks[c]
                 /\ \A e \in Calls : Peers(c, e)' => ranks[e] <= ranks[b] \/ ranks[c] <= ranks[e]
      <4>1. tail[k] # None /\ b = tail[k]
        BY <2>1, <2>6, <3>2
      <4>2. \A e \in Calls : Peers(c, e)' /\ e # c => ranks[e] <= ranks[b]
        BY <2>1, <2>2, <2>3, <2>4, <4>1 DEF Peers, Queued, TailIsLast
      <4>3. Peers(c, b)'
        BY <2>1, <2>2, <2>4, <4>1 DEF Peers
      <4> QED
        BY <2>1, <2>2, <2>3, <2>4, <4>1, <4>2, <4>3
    <3>3. ASSUME NEW d \in Calls, ~AtHead(d)' PROVE call'[d].after \in Calls
      BY <3>3 DEF AtHead, Typed, Call
    <3> QED
      BY <3>1, <3>2, <3>3 DEF BehindOne
  <2>12. HeadIsFirst(ranks)'
    BY <2>1, <2>3, <2>4, <2>5, <2>6, <2>7 DEF Queued, HeadIsFirst, Peers
  <2>13. RunningAtHead'
    BY <2>1, <2>4, <2>5 DEF Queued, RunningAtHead
  <2>14. AfterHasBegun'
    BY <2>1, <2>2 DEF Queued, AfterHasBegun, Pending, Typed, Call
  <2> QED
    BY <2>8, <2>9, <2>10, <2>11, <2>12, <2>13, <2>14 DEF InLine, Queued
<1>2. ASSUME NEW c \in Calls, Ends(c) PROVE InLine'
  <2>1. /\ Pending(c) /\ AtHead(c) /\ ~Pending(c)' /\ ~Running(c)' /\ AtHead(c)'
        /\ call[c].key \in Keys /\ call'[c].after = None /\ call'[c].pc = "done"
        /\ \A d \in Calls : d # c => call'[d] = call[d]
        /\ \A j \in Keys : tail'[j] = IF j = call[c].key /\ tail[j] = c THEN None ELSE tail[j]
    BY <1>2 DEF Ends, Unlocked, Typed, Pending, Running, AtHead, Queued, RunningAtHead
  <2>2. \A d \in Calls : d # c => /\ Pending(d)' <=> Pending(d)
                                  /\ Running(d)' <=> Running(d)
                                  /\ AtHead(d) => AtHead(d)'
    BY <2>1 DEF Pending, Running, AtHead, Typed, Call
  <2>3. \A d, e \in Calls : Peers(d, e)' <=> Peers(d, e) /\ d # c /\ e # c
    BY <2>1, <2>2 DEF Peers
  <2>4. \A d \in Calls : Peers(c, d) /\ d # c => rank[c] < rank[d]
    BY <2>1 DEF Queued, HeadIsFirst, DistinctRanks
  <2>5. DistinctRanks(rank)'
    BY <2>3 DEF Queued, DistinctRanks
  <2>6. TailIsLast(rank)'
    <3>1. ASSUME NEW d \in Calls, d # c, Pending(d)
          PROVE  /\ tail'[call[d].key] # None /\ tail'[call[d].key] = tail[call[d].key]
      <4>1. tail[call[d].key] = c => Peers(c, d) /\ rank[d] <= rank[c]
        BY <2>1, <3>1 DEF Queued, TailIsLast, TailIsPending, Typed, Peers
      <4>2. tail[call[d].key] # c
        BY <2>4, <3>1, <4>1
      <4> QED
        BY <2>1, <3>1, <4>2 DEF Queued, TailIsLast, Typed
    <3> QED
      BY <2>1, <2>2, <3>1 DEF Queued, TailIsLast
  <2>7. TailIsPending'
    BY <2>1, <2>2 DEF Queued, TailIsPending, Typed
  <2>8. BehindOne(rank)'
    BY <2>1, <2>2, <2>3 DEF Queued, BehindOne, AtHead, Typed, Call
  <2>9. HeadIsFirst(rank)'
    <3>1. ASSUME NEW d \in Calls, NEW e \in Calls, Peers(d, e)', AtHead(d)'
          PROVE  rank[d] <= rank[e]
      <4>1. Peers(d, e) /\ d # c /\ e # c /\ call'[d] = call[d]
        BY <2>1, <2>3, <3>1
      <4>2. CASE AtHead(d)
        BY <4>1, <4>2 DEF Queued, HeadIsFirst
      <4>3. CASE ~AtHead(d)
        <5>1. call[d].after = c
          BY <2>2, <3>1, <4>1, <4>3 DEF AtHead, Typed, Call
        <5>2. /\ Peers(c, e)
              /\ rank[e] <= rank[c] \/ rank[d] <= rank[e]
          BY <4>1, <4>3, <5>1 DEF Queued, BehindOne, Peers
        <5> QED
          BY <2>4, <4>1, <5>2
      <4> QED
        BY <4>2, <4>3
    <3> QED
      BY <3>1 DEF HeadIsFirst
  <2>10. RunningAtHead'
    BY <2>1, <2>2 DEF Queued, RunningAtHead
  <2>11. AfterHasBegun'
    BY <2>1 DEF Queued, AfterHasBegun, Typed, Call
  <2> QED
    BY <2>5, <2>6, <2>7, <2>8, <2>9, <2>10, <2>11 DEF InLine, Queued
<1>3. ASSUME NEW c \in Calls, Advances(c) PROVE InLine'
  <2>1. /\ Pending(c) /\ AtHead(c) /\ Pending(c)' /\ call'[c].pc # "new"
        /\ call'[c].key = call[c].key /\ call'[c].after = call[c].after
        /\ \A d \in Calls : d # c => call'[d] = call[d]
        /\ tail' = tail
    BY <1>3 DEF Advances, Pending, Queued, RunningAtHead
  <2>2. \A d \in Calls : /\ Pending(d)' <=> Pending(d)
                         /\ call'[d].after = call[d].after
                         /\ call'[d].key = call[d].key
    BY <2>1 DEF Pending
  <2>3. \A d \in Calls : AtHead(d)' <=> AtHead(d)
    BY <2>2 DEF AtHead, Typed, Call
  <2>4. \A d, e \in Calls : Peers(d, e)' <=> Peers(d, e)
    BY <2>2 DEF Peers
  <2>5. DistinctRanks(rank)' /\ HeadIsFirst(rank)'
    BY <2>3, <2>4 DEF Queued, DistinctRanks, HeadIsFirst
  <2>6. TailIsLast(rank)' /\ TailIsPending'
    BY <2>1, <2>2 DEF Queued, TailIsLast, TailIsPending, Typed
  <2>7. BehindOne(rank)'
    BY <2>2, <2>3, <2>4 DEF Queued, BehindOne, AtHead, Typed, Call
  <2>8. RunningAtHead'
    BY <2>1, <2>3 DEF Queued, RunningAtHead, Running
  <2>9. AfterHasBegun'
    BY <2>1, <2>2 DEF Queued, AfterHasBegun, Typed, Call
  <2> QED
    BY <2>5, <2>6, <2>7, <2>8, <2>9 DEF InLine, Queued
<1>4. CASE UNCHANGED <<call, tail>>
  BY <1>4 DEF InLine, Queued, Peers, AtHead, Pending, Running, DistinctRanks, TailIsLast,
              TailIsPending, BehindOne, HeadIsFirst, RunningAtHead, AfterHasBegun
<1> QED
  BY <1>1, <1>2, <1>3, <1>4, LockSteps

\* Two refreshes of one key never exchange at the same time, for any number of refreshes
\* queued on the key's lock and however they fail, time out and retry.
THEOREM OneExchange == Spec => []OneExchangePerKey
<1>1. Typed /\ InLine => OneExchangePerKey
  <2> SUFFICES ASSUME NEW rank \in [Calls -> Int], Queued(rank), Typed,
                      NEW c \in Calls, NEW d \in Calls,
                      Running(c), Running(d), call[c].key = call[d].key
               PROVE  c = d
    BY DEF InLine, OneExchangePerKey
  <2>1. Peers(c, d) /\ Peers(d, c) /\ AtHead(c) /\ AtHead(d)
    BY DEF Peers, Pending, Running, Queued, RunningAtHead
  <2>2. rank[c] = rank[d]
    BY <2>1 DEF Queued, HeadIsFirst
  <2> QED
    BY <2>1, <2>2 DEF Queued, DistinctRanks
<1> QED
  BY <1>1, InitTyped, NextTyped, InitInLine, NextInLine, PTL DEF Spec

-----------------------------------------------------------------------------
(* invalidateAll *)

\* Refreshes that have not begun: no entry is theirs, and no token.
Fresh(c) == call[c].pc \in {"new", "waiting"}

NotServed == \A k \in Keys : entry[k] # None => object[entry[k]].token \notin voided

VoidedApart == \A c \in voided : Running(c) => \A k \in Keys : entry[k] # call[c].obj

VoidedHaveBegun == \A c \in voided : ~Fresh(c)

FreshHaveNothing ==
  \A c \in Calls : Fresh(c) => /\ object[c].token = None
                               /\ \A k \in Keys : entry[k] # c
                               /\ \A d \in Calls : Running(d) => call[d].obj # c

Final == NotServed /\ VoidedApart /\ VoidedHaveBegun /\ FreshHaveNothing

LEMMA InitFinal == Init => Final
  BY CacheAssumption DEF CacheAssumption, Init, NewObject, NewCall, Final, NotServed,
       VoidedApart, VoidedHaveBegun, FreshHaveNothing, Running

\* What the object of a refresh is like after each kind of step but beginning.
LEMMA FinalKept ==
  ASSUME Typed, Final, UNCHANGED <<entry, voided>>, object' \in [Calls -> Object],
         \A d \in Calls : /\ Fresh(d)' => Fresh(d)
                          /\ Running(d)' => Running(d) /\ call'[d].obj = call[d].obj,
         \A o \in Calls : \/ object'[o].token \in {object[o].token, None}
                          \/ /\ object'[o].token \in Calls
                             /\ ~Fresh(o)
                             /\ Running(object'[o].token)
                             /\ call[object'[o].token].obj = o
  PROVE  Final'
<1>1. NotServed'
  <2>1. ASSUME NEW k \in Keys, entry[k] # None PROVE object'[entry[k]].token \notin voided
    BY <2>1, CacheAssumption DEF CacheAssumption, Typed, Final, NotServed, VoidedApart
  <2> QED
    BY <2>1 DEF NotServed
<1>2. VoidedApart'
  BY DEF Typed, Final, VoidedApart
<1>3. VoidedHaveBegun'
  BY DEF Typed, Final, VoidedHaveBegun
<1>4. FreshHaveNothing'
  BY DEF Final, FreshHaveNothing
<1> QED
  BY <1>1, <1>2, <1>3, <1>4 DEF Final

LEMMA NextFinal == Typed /\ Final /\ Typed' /\ [Next]_vars => Final'
<1> SUFFICES ASSUME Typed, Final, Typed', [Next]_vars PROVE Final'
  OBVIOUS
<1> USE CacheAssumption DEF CacheAssumption
<1>1. ASSUME NEW c \in Calls, NEW k \in Keys, Refresh(c, k) PROVE Final'
  <2>1. /\ call[c].pc = "new" /\ ~Running(c)'
        /\ \A d \in Calls : d # c => call'[d] = call[d]
    BY <1>1 DEF Refresh, Typed, Running, NewCall
  <2> QED
    BY <1>1, <2>1, FinalKept DEF Refresh, Fresh, Running, Typed
<1>2. ASSUME NEW c \in Calls, Begin(c) PROVE Final'
  <2>1. /\ Fresh(c) /\ ~Running(c) /\ call[c].key \in Keys /\ c \notin voided
        /\ voided' = voided
    BY <1>2, BeginEntries DEF Begin, Fresh, Running, Final, VoidedHaveBegun
  <2>2. /\ \A k \in Keys : entry'[k] \in {entry[k], None, c}
        /\ entry'[call[c].key] \in Calls
        /\ entry'[call[c].key] \in {entry[call[c].key], c}
    BY <1>2, BeginEntries
  <2>3. /\ \A d \in Calls : d # c => call'[d] = call[d]
        /\ ~Fresh(c)' /\ (Running(c)' => call'[c].obj = entry'[call[c].key])
    <3>1. CASE Done(c)
      BY <2>1, <3>1, DoneTyped DEF Fresh, Running, NewCall
    <3>2. CASE call' = [call EXCEPT ![c].pc = "exchanging", ![c].obj = entry'[call[c].key]]
      BY <3>2 DEF Fresh, Running, Typed, Call
    <3> QED
      BY <1>2, <3>1, <3>2, BeginCall
  <2>4. \A o \in Calls : object'[o].token \in {object[o].token, None}
    BY <1>2, WrittenObjects DEF Begin, Typed, NewObject
  <2>5. NotServed'
    <3>1. object'[c].token = None
      BY <2>1, <2>4 DEF Final, FreshHaveNothing
    <3>2. ASSUME NEW k \in Keys, entry'[k] # None PROVE object'[entry'[k]].token \notin voided
      BY <2>2, <2>4, <3>1, <3>2 DEF Typed, Final, NotServed
    <3> QED
      BY <2>1, <3>2 DEF NotServed
  <2>6. VoidedApart'
    <3>1. ASSUME NEW d \in voided, Running(d)', NEW k \in Keys PROVE entry'[k] # call'[d].obj
      <4>1. d # c /\ d \in Calls /\ Running(d) /\ call'[d].obj = call[d].obj
        BY <2>1, <2>3, <3>1 DEF Typed, Running
      <4>2. call[d].obj # c /\ call[d].obj \in Calls /\ entry[k] # call[d].obj
        BY <2>1, <3>1, <4>1 DEF Final, FreshHaveNothing, VoidedApart, Typed
      <4> QED
        BY <2>2, <4>1, <4>2
    <3> QED
      BY <2>1, <3>1 DEF VoidedApart
  <2>7. VoidedHaveBegun'
    BY <2>1, <2>3 DEF Final, VoidedHaveBegun, Fresh, Typed
  <2>8. FreshHaveNothing'
    <3>1. ASSUME NEW d \in Calls, Fresh(d)'
          PROVE  /\ d # c /\ Fresh(d) /\ object[d].token = None
                 /\ \A k \in Keys : entry[k] # d
                 /\ \A e \in Calls : Running(e) => call[e].obj # d
      BY <2>3, <3>1 DEF Final, FreshHaveNothing, Fresh
    <3>2. ASSUME NEW d \in Calls, Fresh(d)', NEW e \in Calls, Running(e)'
          PROVE  call'[e].obj # d
      BY <2>1, <2>2, <2>3, <3>1, <3>2 DEF Running
    <3> QED
      BY <2>2, <2>4, <3>1, <3>2 DEF FreshHaveNothing
  <2> QED
    BY <2>5, <2>6, <2>7, <2>8 DEF Final
<1>3. ASSUME NEW c \in Calls, ExchangeSucceeds(c) \/ ExchangeFails(c) PROVE Final'
  <2>1. /\ Running(c) /\ call[c].key \in Keys /\ call[c].obj \in Calls /\ Done(c)
        /\ UNCHANGED <<entry, voided>>
    BY <1>3 DEF ExchangeSucceeds, ExchangeFails, Running, Typed, Pending
  <2>2. \A d \in Calls : /\ Fresh(d)' => Fresh(d)
                         /\ Running(d)' => Running(d) /\ call'[d].obj = call[d].obj
    BY <2>1, DoneTyped DEF Fresh, Running, NewCall
  <2>3. ~Fresh(call[c].obj)
    BY <2>1 DEF Final, FreshHaveNothing
  <2>4. \A o \in Calls : /\ o # call[c].obj => object'[o].token \in {object[o].token, None}
                         /\ object'[call[c].obj].token \in {c, None}
    BY <1>3, ExchangedObjects DEF NewObject, Obtained
  <2> QED
    BY <1>3, <2>1, <2>2, <2>3, <2>4, FinalKept, ExchangedObjects DEF Typed
<1>4. ASSUME NEW c \in Calls, ExchangeTimesOut(c) \/ WakeUp(c) PROVE Final'
  <2>1. CASE ExchangeFails(c)
    BY <1>3, <2>1
  <2>2. CASE ~ExchangeFails(c)
    <3>1. TriesAgain(c)
      BY <1>4, <2>2, RetryTyped
    <3>2. \A d \in Calls : /\ Fresh(d)' => Fresh(d)
                           /\ Running(d)' => Running(d) /\ call'[d].obj = call[d].obj
      BY <3>1 DEF TriesAgain, Fresh, Running
    <3> QED
      BY <3>1, <3>2, FinalKept DEF TriesAgain, Typed
  <2> QED
    BY <2>1, <2>2
<1>5. ASSUME NEW k \in Keys, InvalidateToken(k) PROVE Final'
  <2>1. /\ \A o \in Calls : object'[o].token \in {object[o].token, None}
        /\ UNCHANGED <<entry, voided, call>>
    BY <1>5 DEF InvalidateToken, Typed, Object
  <2> QED
    BY <2>1, FinalKept DEF Fresh, Running, Typed
<1>6. CASE InvalidateAll
  <2>1. /\ \A k \in Keys : entry'[k] = None
        /\ voided' = {c \in Calls : Running(c)} /\ call' = call
        /\ \A o \in Calls : object'[o].token \in {object[o].token, None}
    BY <1>6, WrittenObjects DEF InvalidateAll, Typed, NewObject
  <2> QED
    BY <2>1 DEF Typed, Final, NotServed, VoidedApart, VoidedHaveBegun, FreshHaveNothing,
         Running, Fresh
<1>7. CASE Tick \/ (\E k \in Keys : GetToken(k)) \/ UNCHANGED vars
  <2>1. UNCHANGED <<entry, object, call, voided>>
    BY <1>7 DEF Tick, GetToken, vars
  <2> QED
    BY <2>1, FinalKept DEF Fresh, Running, Typed
<1> QED
  BY <1>1, <1>2, <1>3, <1>4, <1>5, <1>6, <1>7 DEF Next

\* invalidateAll is final: no token of a refresh that was in progress when it was called is
\* served after it, whenever the exchange answers and whatever is refreshed in between.
THEOREM InvalidationIsFinal == Spec => []InvalidateAllIsFinal
<1>1. Typed /\ Final => InvalidateAllIsFinal
  BY CacheAssumption
    DEF CacheAssumption, InvalidateAllIsFinal, Served, Typed, Final, NotServed
<1> QED
  BY <1>1, InitTyped, NextTyped, InitFinal, NextFinal, PTL DEF Spec

-----------------------------------------------------------------------------
(* Freshness *)

\* An expiry is never further ahead than the cut, nor than the exp claim it comes from.
Dated(o) ==
  /\ o.acquiredOn <= now
  /\ o.expiresOn <= o.acquiredOn + MaxExp
  /\ o.token # None /\ o.claim # 0 => 0 < o.expiresOn /\ o.expiresOn <= o.claim

AllDated == \A o \in Calls : Dated(object[o])

LEMMA NewDated == Typed => Dated(NewObject)
  BY CacheAssumption DEF CacheAssumption, Dated, NewObject, Typed

LEMMA NextDated == Typed /\ AllDated /\ Typed' /\ [Next]_vars => AllDated'
<1> SUFFICES ASSUME Typed, AllDated, Typed', [Next]_vars,
                    NEW o \in Calls
             PROVE  Dated(object[o])'
  BY DEF AllDated
<1> USE CacheAssumption DEF CacheAssumption
<1>1. /\ object[o] \in Object /\ Dated(object[o]) /\ Dated(NewObject)
      /\ now \in Nat /\ now' \in Nat
  BY NewDated DEF Typed, AllDated
<1>2. now <= now' /\ object'[o] \in {object[o], NewObject} => Dated(object[o])'
  BY <1>1 DEF Dated, Object, NewObject
<1>3. ASSUME NEW c \in Calls, NEW k \in Keys, Refresh(c, k) PROVE Dated(object[o])'
  BY <1>1, <1>2, <1>3 DEF Refresh
<1>4. ASSUME NEW c \in Calls, Begin(c) PROVE Dated(object[o])'
  BY <1>1, <1>2, <1>4, WrittenObjects DEF Begin, Typed
<1>5. ASSUME NEW c \in Calls, ExchangeSucceeds(c) \/ ExchangeFails(c) PROVE Dated(object[o])'
  <2>1. now' = now
    BY <1>5 DEF ExchangeSucceeds, ExchangeFails
  <2>2. CASE o # call[c].obj
    BY <1>1, <1>2, <1>5, <2>1, <2>2, ExchangedObjects
  <2>3. CASE o = call[c].obj
    <3>1. object'[o] \in Object
      BY <1>5, ExchangedObjects
    <3>2. CASE object'[o].token = None /\ object'[o].expiresOn = 0
               /\ object'[o].acquiredOn = object[o].acquiredOn
      BY <1>1, <2>1, <3>1, <3>2 DEF Dated, Object
    <3>3. CASE Obtained(c, object'[o])
      BY <1>1, <2>1, <2>3, <3>1, <3>3 DEF Dated, Object, Obtained
    <3> QED
      BY <1>1, <1>2, <1>5, <2>1, <2>3, <3>2, <3>3, ExchangedObjects
  <2> QED
    BY <2>2, <2>3
<1>6. ASSUME NEW c \in Calls, ExchangeTimesOut(c) \/ WakeUp(c) PROVE Dated(object[o])'
  BY <1>1, <1>2, <1>5, <1>6, RetryTyped DEF TriesAgain
<1>7. ASSUME NEW k \in Keys, InvalidateToken(k) PROVE Dated(object[o])'
  <2>1. /\ now' = now
        /\ \/ object'[o] = object[o]
           \/ object'[o].token = None /\ object'[o].expiresOn = 0
              /\ object'[o].acquiredOn = object[o].acquiredOn
    BY <1>7 DEF InvalidateToken, Typed, Object
  <2> QED
    BY <1>1, <1>2, <2>1 DEF Dated, Object
<1>8. CASE InvalidateAll
  BY <1>1, <1>2, <1>8, WrittenObjects DEF InvalidateAll, Typed
<1>9. CASE Tick \/ (\E k \in Keys : GetToken(k)) \/ UNCHANGED vars
  BY <1>1, <1>2, <1>9 DEF Tick, GetToken, vars
<1> QED
  BY <1>3, <1>4, <1>5, <1>6, <1>7, <1>8, <1>9 DEF Next

\* A token is never served within the skew of its exp claim or after it, nor longer than the
\* cache lets any token live, whoever else refreshes or invalidates its key meanwhile.
THEOREM ServedFresh == Spec => []ServedIsFresh
<1>1. Init => AllDated
  BY InitTyped, NewDated DEF Init, AllDated
<1>2. Typed /\ AllDated => ServedIsFresh
  <2> SUFFICES ASSUME Typed, AllDated, NEW k \in Keys, Served(k) # None
               PROVE  LET o == object[entry[k]] IN
                      /\ o.claim # 0 => now < o.claim - Skew
                      /\ now < o.acquiredOn
                                 + (IF MaxExp > MaxTokenAge THEN MaxExp ELSE MaxTokenAge)
    BY DEF ServedIsFresh
  <2>1. entry[k] \in Calls /\ Usable(object[entry[k]])
    BY DEF Served, Typed
  <2>2. object[entry[k]] \in Object /\ Dated(object[entry[k]]) /\ now \in Nat
    BY <2>1 DEF Typed, AllDated
  <2> QED
    BY <2>1, <2>2, CacheAssumption DEF CacheAssumption, Usable, IsExpired, Dated, Object
<1> QED
  BY <1>1, <1>2, InitTyped, NextTyped, NextDated, PTL DEF Spec

-----------------------------------------------------------------------------
(* The order of use *)

\* The map's order holds each key with an entry once.
Ordered ==
  /\ order \in Seq(Keys) /\ Len(order) <= MaxCacheSize
  /\ IsInjective(order) /\ Range(order) = {k \in Keys : entry[k] # None}

LEMMA OrderIs ==
  ASSUME NEW s \in Seq(Keys)
  PROVE  /\ Len(s) \in Nat /\ DOMAIN s = 1 .. Len(s)
         /\ \A i \in 1 .. Len(s) : s[i] \in Keys
         /\ Range(s) = {s[i] : i \in 1 .. Len(s)}
         /\ IsInjective(s) <=> \A i, j \in 1 .. Len(s) : s[i] = s[j] => i = j
BY DEF Range, IsInjective

LEMMA EmptyOrder ==
  /\ <<>> \in Seq(Keys) /\ Len(<<>>) = 0
  /\ IsInjective(<<>>) /\ Range(<<>>) = {}
<1>1. <<>> \in Seq(Keys) /\ Len(<<>>) = 0 /\ DOMAIN <<>> = {}
  BY EmptySeq
<1> QED
  BY <1>1 DEF IsInjective, Range

LEMMA TouchedOrder ==
  ASSUME NEW s \in Seq(Keys), IsInjective(s), NEW k \in Range(s)
  PROVE  /\ Touched(s, k) \in Seq(Keys) /\ Len(Touched(s, k)) = Len(s)
         /\ IsInjective(Touched(s, k)) /\ Range(Touched(s, k)) = Range(s)
<1> DEFINE n == CHOOSE n \in DOMAIN s : s[n] = k
           t == [i \in DOMAIN s |-> IF i < n THEN s[i] ELSE IF i < Len(s) THEN s[i + 1] ELSE k]
<1>1. /\ Len(s) \in Nat /\ DOMAIN s = 1 .. Len(s)
      /\ \A i \in 1 .. Len(s) : s[i] \in Keys
      /\ Range(s) = {s[i] : i \in 1 .. Len(s)}
      /\ \A i, j \in 1 .. Len(s) : s[i] = s[j] => i = j
  BY OrderIs
<1>2. n \in 1 .. Len(s) /\ s[n] = k
  BY <1>1
<1>3. Touched(s, k) = t
  BY DEF Touched
<1> HIDE DEF n
<1>4. \A i \in 1 .. Len(s) : t[i] = IF i < n THEN s[i] ELSE IF i < Len(s) THEN s[i + 1] ELSE k
  BY <1>1
<1>5. \A i \in 1 .. Len(s) : t[i] \in Keys
  <2>1. \A i \in 1 .. Len(s) : i < Len(s) => i + 1 \in 1 .. Len(s)
    BY <1>1
  <2> QED
    BY <1>1, <1>2, <1>4, <2>1
<1>6. t \in Seq(Keys) /\ Len(t) = Len(s)
  <2>1. t \in [1 .. Len(s) -> Keys]
    BY <1>1, <1>5
  <2> QED
    BY <1>1, <2>1, LenProperties
<1>7. \A i, j \in 1 .. Len(s) : t[i] = t[j] => i = j
  <2>1. \A i \in 1 .. Len(s) :
          \E m \in 1 .. Len(s) :
            /\ t[i] = s[m]
            /\ m = IF i < n THEN i ELSE IF i < Len(s) THEN i + 1 ELSE n
    BY <1>1, <1>2, <1>4
  <2>2. SUFFICES ASSUME NEW i \in 1 .. Len(s), NEW j \in 1 .. Len(s), t[i] = t[j]
                 PROVE  i = j
    OBVIOUS
  <2>3. PICK a \in 1 .. Len(s) :
          t[i] = s[a] /\ a = IF i < n THEN i ELSE IF i < Len(s) THEN i + 1 ELSE n
    BY <2>1
  <2>4. PICK b \in 1 .. Len(s) :
          t[j] = s[b] /\ b = IF j < n THEN j ELSE IF j < Len(s) THEN j + 1 ELSE n
    BY <2>1
  <2>5. a = b
    BY <1>1, <2>2, <2>3, <2>4
  <2> HIDE DEF t
  <2> QED
    BY <1>1, <1>2, <2>3, <2>4, <2>5
<1>8. Range(t) = Range(s)
  <2>1. ASSUME NEW x \in Range(t) PROVE x \in Range(s)
    <3>1. PICK i \in 1 .. Len(s) : x = t[i]
      BY <1>1, <1>6, <2>1, OrderIs
    <3> QED
      BY <1>1, <1>2, <1>4, <3>1
  <2>2. ASSUME NEW x \in Range(s) PROVE x \in Range(t)
    <3>1. PICK m \in 1 .. Len(s) : x = s[m]
      BY <1>1, <2>2
    <3>2. \E i \in 1 .. Len(s) : t[i] = x
      <4>1. CASE m < n
        BY <1>4, <3>1, <4>1
      <4>2. CASE m = n
        <5>1. t[Len(s)] = k
          BY <1>1, <1>2, <1>4
        <5> QED
          BY <1>1, <1>2, <3>1, <4>2, <5>1
      <4>3. CASE m > n
        <5>1. m - 1 \in 1 .. Len(s) /\ ~(m - 1 < n) /\ m - 1 < Len(s) /\ (m - 1) + 1 = m
          BY <1>1, <1>2, <4>3
        <5>2. t[m - 1] = s[(m - 1) + 1]
          BY <1>4, <5>1
        <5> QED
          BY <3>1, <5>1, <5>2
      <4> QED
        BY <1>1, <1>2, <4>1, <4>2, <4>3
    <3> QED
      BY <1>1, <3>2 DEF Range
  <2> QED
    BY <2>1, <2>2
<1>9. IsInjective(t)
  BY <1>1, <1>6, <1>7, OrderIs
<1> QED
  BY <1>3, <1>6, <1>8, <1>9

\* Room is made by dropping the first key of a full order.
LEMMA RoomOrder ==
  ASSUME NEW s \in Seq(Keys), IsInjective(s), Len(s) <= MaxCacheSize
  PROVE  /\ MakeRoom(s) \in Seq(Keys) /\ Len(MakeRoom(s)) < MaxCacheSize
         /\ IsInjective(MakeRoom(s)) /\ Range(MakeRoom(s)) \subseteq Range(s)
<1>1. MaxCacheSize \in Nat \ {0} /\ Len(s) \in Nat
  BY CacheAssumption, OrderIs
<1>2. CASE Len(s) < MaxCacheSize
  BY <1>1, <1>2 DEF MakeRoom
<1>3. CASE Len(s) = MaxCacheSize
  <2> DEFINE t == Tail(s)
  <2>1. s # <<>> /\ MakeRoom(s) = t
    BY <1>1, <1>3 DEF MakeRoom
  <2>2. /\ t \in Seq(Keys) /\ Len(t) = Len(s) - 1
        /\ \A i \in 1 .. Len(t) : t[i] = s[i + 1]
    BY <2>1, HeadTailProperties
  <2> HIDE DEF t
  <2>3. \A i \in 1 .. Len(t) : i + 1 \in 1 .. Len(s)
    BY <1>1, <2>2
  <2>4. IsInjective(t)
    <3>1. ASSUME NEW i \in 1 .. Len(t), NEW j \in 1 .. Len(t), t[i] = t[j]
          PROVE  i = j
      <4>1. s[i + 1] = s[j + 1]
        BY <2>2, <3>1
      <4>2. i + 1 = j + 1
        BY <2>3, <4>1, OrderIs
      <4> QED
        BY <1>1, <2>2, <4>2
    <3> QED
      BY <2>2, <3>1, OrderIs
  <2>5. Range(t) \subseteq Range(s)
    BY <2>2, <2>3, OrderIs
  <2> QED
    BY <1>1, <1>3, <2>1, <2>2, <2>4, <2>5
<1> QED
  BY <1>1, <1>2, <1>3

\* A key that is not there is set at the end.
LEMMA ExtendedOrder ==
  ASSUME NEW s \in Seq(Keys), IsInjective(s), NEW k \in Keys \ Range(s)
  PROVE  /\ Append(s, k) \in Seq(Keys) /\ Len(Append(s, k)) = Len(s) + 1
         /\ IsInjective(Append(s, k)) /\ Range(Append(s, k)) = Range(s) \cup {k}
<1> DEFINE t == Append(s, k)
<1>1. /\ t \in Seq(Keys) /\ Len(t) = Len(s) + 1 /\ Len(s) \in Nat
      /\ \A i \in 1 .. Len(s) : t[i] = s[i]
      /\ t[Len(s) + 1] = k
  BY AppendProperties
<1> HIDE DEF t
<1>2. \A i \in 1 .. Len(t) : i \in 1 .. Len(s) \/ i = Len(s) + 1
  BY <1>1
<1>3. \A i \in 1 .. Len(s) : s[i] # k
  BY OrderIs
<1>4. IsInjective(t)
  <2>1. \A i, j \in 1 .. Len(t) : t[i] = t[j] => i = j
    BY <1>1, <1>2, <1>3, OrderIs
  <2> QED
    BY <1>1, <2>1, OrderIs
<1>5. Range(t) = Range(s) \cup {k}
  <2>1. 1 .. Len(t) = 1 .. Len(s) \cup {Len(s) + 1}
    BY <1>1
  <2> QED
    BY <1>1, <2>1, OrderIs
<1> QED
  BY <1>1, <1>4, <1>5 DEF t

LEMMA NextOrdered ==
  ASSUME Typed, Ordered, [Next]_vars
  PROVE  Ordered'
<1> DEFINE Entered == {k \in Keys : entry[k] # None}
<1>1. /\ order \in Seq(Keys) /\ Len(order) <= MaxCacheSize /\ IsInjective(order)
      /\ Range(order) = Entered
  BY DEF Ordered
<1>2. Len(order) \in Nat /\ MaxCacheSize \in Nat \ {0} /\ None \notin Calls
  BY <1>1, OrderIs, CacheAssumption
<1>3. ASSUME NEW k \in Keys, entry[k] # None, order' = Touched(order, k), UNCHANGED entry
      PROVE  Ordered'
  BY <1>1, <1>3, TouchedOrder DEF Ordered
<1>4. ASSUME NEW c \in Calls, Begin(c) PROVE Ordered'
  <2> DEFINE k == call[c].key
             room == MakeRoom(order)
  <2>1. k \in Keys
    BY <1>4, BeginEntries
  <2>2. CASE entry[k] = None
    <3>1. /\ order' = Append(room, k)
          /\ entry' = [j \in Keys |-> IF j = k THEN c
                                      ELSE IF j \in Range(room) THEN entry[j] ELSE None]
      <4>1. /\ order' = Append(room, k)
            /\ entry' = [j \in Keys |-> CASE j = k -> c
                                          [] j # k /\ j \in Range(room) -> entry[j]
                                          [] OTHER -> None]
        BY <1>4, <2>2 DEF Begin
      <4> QED
        BY <4>1
    <3>2. /\ room \in Seq(Keys) /\ Len(room) < MaxCacheSize /\ IsInjective(room)
          /\ Range(room) \subseteq Entered
      BY <1>1, RoomOrder
    <3>3. k \notin Range(room)
      BY <2>2, <3>2
    <3> HIDE DEF k, room
    <3>4. /\ order' \in Seq(Keys) /\ Len(order') = Len(room) + 1 /\ IsInjective(order')
          /\ Range(order') = Range(room) \cup {k}
      BY <2>1, <3>1, <3>2, <3>3, ExtendedOrder
    <3>5. Len(order') <= MaxCacheSize
      BY <1>2, <3>2, <3>4, OrderIs
    <3>6. Range(order') = {j \in Keys : entry'[j] # None}
      BY <1>2, <2>1, <3>1, <3>2, <3>4
    <3> QED
      BY <3>4, <3>5, <3>6 DEF Ordered
  <2>3. CASE entry[k] # None
    BY <1>3, <1>4, <2>1, <2>3 DEF Begin
  <2> QED
    BY <2>2, <2>3
<1>5. ASSUME NEW k \in Keys, GetToken(k) PROVE Ordered'
  BY <1>3, <1>5 DEF GetToken
<1>6. CASE InvalidateAll
  <2>1. order' = <<>> /\ \A k \in Keys : entry'[k] = None
    BY <1>6 DEF InvalidateAll
  <2>2. order' \in Seq(Keys) /\ Len(order') = 0 /\ IsInjective(order') /\ Range(order') = {}
    BY <2>1, EmptyOrder
  <2> QED
    BY <1>2, <2>1, <2>2 DEF Ordered
<1>7. ASSUME UNCHANGED <<order, entry>> PROVE Ordered'
  BY <1>1, <1>7 DEF Ordered
<1> QED
  BY <1>4, <1>5, <1>6, <1>7 DEF Next, Refresh, ExchangeSucceeds, ExchangeFails, ExchangeTimesOut,
     WakeUp, InvalidateToken, Tick, vars

\* Whatever is touched, evicted or dropped while exchanges are in progress, the map holds no
\* more keys than it may, each once, and just those that have an entry.
THEOREM CacheKeepsItsSize == Spec => []CacheIsBounded
<1>1. Init => Ordered
  <2> SUFFICES ASSUME Init PROVE Ordered
    OBVIOUS
  <2>1. order = <<>> /\ \A k \in Keys : entry[k] = None
    BY DEF Init
  <2>2. order \in Seq(Keys) /\ Len(order) = 0 /\ IsInjective(order) /\ Range(order) = {}
    BY <2>1, EmptyOrder
  <2> QED
    BY <2>1, <2>2, CacheAssumption DEF Ordered
<1>2. Ordered => CacheIsBounded
  BY DEF Ordered, CacheIsBounded
<1> QED
  BY <1>1, <1>2, InitTyped, NextTyped, NextOrdered, PTL DEF Spec

\* The cache keeps its limits: no key beyond its size, each in the order of use once, and no
\* token within the skew of its expiry or beyond the age any token may have.
THEOREM KeepsItsLimits == Spec => []LimitsAreKept
<1>1. CacheIsBounded /\ ServedIsFresh => LimitsAreKept
  BY DEF LimitsAreKept
<1> QED
  BY <1>1, ServedFresh, CacheKeepsItsSize, PTL
=============================================================================
