-------------------------- MODULE AgenticTokenCache --------------------------
(***************************************************************************)
(* The cache of agentic tokens.  Refreshes of one key run one after        *)
(* another (withKeyLock); a refresh that finds no usable token exchanges   *)
(* one, with a timeout and retries, and writes the outcome into the entry  *)
(* object it found or made when it began.  While it waits the entry may    *)
(* have been invalidated, evicted as the least recently used, or dropped   *)
(* with the rest by invalidateAll.                                         *)
(*                                                                         *)
(* A token is named after the refresh that obtained it, and an entry       *)
(* object after the refresh that made it.  The scopes are left out: they   *)
(* are never empty here and no property depends on them.                   *)
(***************************************************************************)
EXTENDS Integers, Sequences, FiniteSets, Functions

CONSTANTS Keys,        \* agentId:tenantId
          Calls,       \* the calls of refreshObservabilityToken
          MaxCacheSize,
          MaxRetries,
          Skew,        \* _defaultRefreshSkewMs
          MaxTokenAge, \* _defaultMaxTokenAgeMs, the fallback TTL
          MaxExp,      \* _maxExpSeconds: an exp claim further away is cut to this
          Lifetimes,   \* how far ahead of its issue the exp claim of a token lies
          MaxTime,     \* bound: largest clock reading
          None

ASSUME CacheAssumption ==
  /\ None \notin Keys \cup Calls
  /\ MaxCacheSize \in Nat \ {0} /\ MaxRetries \in Nat
  /\ {Skew, MaxTokenAge, MaxExp, MaxTime} \subseteq Nat /\ Lifetimes \subseteq Nat

VARIABLES order,  \* the keys of the map, least recently used first
          entry,  \* entry[k]: the object under k, or None
          object, \* object[c]: the entry object made by c
          call,   \* call[c]: a refresh
          tail,   \* tail[k]: the last refresh chained on the key's lock, or None
          now,
          voided  \* ghost: refreshes in progress when invalidateAll was called

vars == <<order, entry, object, call, tail, now, voided>>

\* 0 stands for an absent time, as in the code, where both are falsy.  `claim` is a
\* ghost: the exp claim of the token, 0 for none.
NewObject == [token |-> None, expiresOn |-> 0, acquiredOn |-> 0, claim |-> 0]

NewCall == [pc |-> "new", key |-> None, after |-> None, obj |-> None, attempt |-> 0]

Init ==
  /\ order = <<>> /\ entry = [k \in Keys |-> None]
  /\ object = [c \in Calls |-> NewObject]
  /\ call = [c \in Calls |-> NewCall]
  /\ tail = [k \in Keys |-> None]
  /\ now = 1
  /\ voided = {}

Running(c) == call[c].pc \in {"exchanging", "sleeping"}

\* Mutation: the age of a token is all that counts.
IsExpiredByAge(o) == o.acquiredOn = 0 \/ now >= o.acquiredOn + MaxTokenAge

IsExpired(o) ==
  CASE o.expiresOn # 0                      -> now >= o.expiresOn - Skew
    [] o.expiresOn = 0 /\ o.acquiredOn # 0  -> now >= o.acquiredOn + MaxTokenAge
    [] OTHER                                -> TRUE

Usable(o) == o.token # None /\ ~IsExpired(o)

\* What getObservabilityToken returns.
Served(k) ==
  IF entry[k] # None /\ Usable(object[entry[k]]) THEN object[entry[k]].token ELSE None

\* The entry objects after a step that writes `obj`; what nothing refers to is garbage.
Written(obj) ==
  object' = [o \in Calls |-> IF o \in Range(entry') \cup {call'[c].obj : c \in Calls}
                             THEN obj[o] ELSE NewObject]

\* The key is deleted and set again, which puts it at the end of the map.
Touched(seq, k) ==
  LET n == CHOOSE n \in DOMAIN seq : seq[n] = k IN
  [i \in DOMAIN seq |-> IF i < n THEN seq[i] ELSE IF i < Len(seq) THEN seq[i + 1] ELSE k]

-----------------------------------------------------------------------------
(* refreshObservabilityToken *)

\* The call chains itself behind whoever holds or waits for the key's lock.
Refresh(c, k) ==
  /\ call[c].pc = "new"
  /\ call' = [call EXCEPT ![c] = [NewCall EXCEPT !.pc = "waiting", !.key = k,
                                                 !.after = tail[k]]]
  /\ tail' = [tail EXCEPT ![k] = c]
  /\ UNCHANGED <<order, entry, object, now, voided>>

\* Mutation: the lock is cleaned up although others have chained on it.
UnlockedAlways(c) == [tail EXCEPT ![call[c].key] = None]

\* The chain is forgotten if nobody has extended it.
Unlocked(c) == [tail EXCEPT ![call[c].key] = IF @ = c THEN None ELSE @]

Done(c) ==
  /\ call' = [call EXCEPT ![c] = [NewCall EXCEPT !.pc = "done"]]
  /\ tail' = Unlocked(c)

\* Room for one more entry: the least recently used makes way.
MakeRoom(seq) == IF Len(seq) >= MaxCacheSize THEN Tail(seq) ELSE seq

\* The lock is c's: find the entry or make one, and return if its token is usable.
Begin(c) ==
  LET k == call[c].key IN
  /\ call[c].pc = "waiting"
  /\ call[c].after # None => call[call[c].after].pc = "done"
  /\ LET room == IF entry[k] = None THEN MakeRoom(order) ELSE Touched(order, k) IN
     IF entry[k] = None
     THEN /\ order' = Append(room, k)
          /\ entry' = [j \in Keys |-> CASE j = k -> c
                                        [] j # k /\ j \in Range(room) -> entry[j]
                                        [] OTHER -> None]
     ELSE order' = room /\ UNCHANGED entry
  /\ IF entry[k] # None /\ Usable(object[entry[k]])
     THEN Done(c)
     ELSE /\ call' = [call EXCEPT ![c].pc = "exchanging", ![c].obj = entry'[k]]
          /\ UNCHANGED tail
  /\ Written(object)
  /\ UNCHANGED <<now, voided>>

TokenWith(c, expiresOn, claim) ==
  [object EXCEPT ![call[c].obj] = [token |-> c, acquiredOn |-> now, expiresOn |-> expiresOn,
                                   claim |-> claim]]

\* Mutation: the token is put into the cache again, whatever became of its entry.
ReinsertingExchange(c) ==
  /\ call[c].pc = "exchanging"
  /\ entry' = [entry EXCEPT ![call[c].key] = call[c].obj]
  /\ order' = IF entry[call[c].key] = None THEN Append(order, call[c].key)
              ELSE Touched(order, call[c].key)
  /\ Done(c)
  /\ \E life \in Lifetimes : Written(TokenWith(c, now + life, now + life))
  /\ UNCHANGED <<now, voided>>

\* The exchange answers a token with an exp claim, or without, when the entry keeps the
\* expiresOn it had.
ExchangeSucceeds(c) ==
  /\ call[c].pc = "exchanging"
  /\ Done(c) /\ UNCHANGED <<order, entry, now, voided>>
  /\ \/ \E life \in Lifetimes :
          Written(TokenWith(c, now + IF life < MaxExp THEN life ELSE MaxExp, now + life))
     \/ Written(TokenWith(c, object[call[c].obj].expiresOn, 0))

\* No token, or an error that is final: the entry loses the token it had.
ExchangeFails(c) ==
  /\ call[c].pc = "exchanging"
  /\ Done(c) /\ UNCHANGED <<order, entry, now, voided>>
  /\ Written([object EXCEPT ![call[c].obj].token = None, ![call[c].obj].expiresOn = 0])

\* Mutation: only the first attempt is guarded by a timeout.
TimesOutOnce(c) ==
  /\ call[c].pc = "exchanging" /\ call[c].attempt = 0
  /\ call' = [call EXCEPT ![c].pc = "sleeping", ![c].attempt = 1]
  /\ UNCHANGED <<order, entry, object, tail, now, voided>>

\* The timeout, or another retriable error: try again after a pause, or give up.
ExchangeTimesOut(c) ==
  \/ /\ call[c].pc = "exchanging" /\ call[c].attempt < MaxRetries
     /\ call' = [call EXCEPT ![c].pc = "sleeping", ![c].attempt = @ + 1]
     /\ UNCHANGED <<order, entry, object, tail, now, voided>>
  \/ call[c].attempt = MaxRetries /\ ExchangeFails(c)

WakeUp(c) ==
  /\ call[c].pc = "sleeping"
  /\ call' = [call EXCEPT ![c].pc = "exchanging"]
  /\ UNCHANGED <<order, entry, object, tail, now, voided>>

-----------------------------------------------------------------------------
(* The other operations *)

\* getObservabilityToken touches the entry it finds.
GetToken(k) ==
  /\ entry[k] # None
  /\ order' = Touched(order, k)
  /\ UNCHANGED <<entry, object, call, tail, now, voided>>

InvalidateToken(k) ==
  /\ entry[k] # None
  /\ object' = [object EXCEPT ![entry[k]].token = None, ![entry[k]].expiresOn = 0]
  /\ UNCHANGED <<order, entry, call, tail, now, voided>>

InvalidateAll ==
  /\ order' = <<>> /\ entry' = [k \in Keys |-> None]
  /\ voided' = {c \in Calls : Running(c)}
  /\ UNCHANGED <<call, tail, now>>
  /\ Written(object)

Tick ==
  /\ now < MaxTime
  /\ now' = now + 1
  /\ UNCHANGED <<order, entry, object, call, tail, voided>>

Next ==
  \/ \E c \in Calls : \/ \E k \in Keys : Refresh(c, k)
                      \/ Begin(c) \/ ExchangeSucceeds(c) \/ ExchangeFails(c)
                      \/ ExchangeTimesOut(c) \/ WakeUp(c)
  \/ \E k \in Keys : GetToken(k) \/ InvalidateToken(k)
  \/ InvalidateAll \/ Tick

\* The timers fire and the lock's promises settle; the token service need not answer.
Fairness ==
  \A c \in Calls : WF_vars(Begin(c)) /\ WF_vars(ExchangeTimesOut(c)) /\ WF_vars(WakeUp(c))

Spec == Init /\ [][Next]_vars /\ Fairness

-----------------------------------------------------------------------------
(* Properties *)

TypeOK ==
  /\ order \in Seq(Keys)
  /\ entry \in [Keys -> Calls \cup {None}]
  /\ object \in [Calls -> [token: Calls \cup {None}, expiresOn: Nat, acquiredOn: Nat,
                             claim: Nat]]
  /\ \A c \in Calls : /\ call[c].pc \in {"new", "waiting", "exchanging", "sleeping", "done"}
                      /\ call[c].attempt \in 0 .. MaxRetries
                      /\ Running(c) => call[c].obj \in Calls
  /\ tail \in [Keys -> Calls \cup {None}]
  /\ now \in Nat /\ voided \subseteq Calls

\* The map holds no more keys than it may, each once, and just those that have an entry,
\* whatever is touched, evicted or dropped while exchanges are in progress.
CacheIsBounded ==
  /\ Len(order) <= MaxCacheSize
  /\ IsInjective(order) /\ Range(order) = {k \in Keys : entry[k] # None}

\* Two refreshes of one key never exchange at the same time, however the lock's chain is
\* extended while it is being cleaned up.
OneExchangePerKey ==
  \A c, d \in Calls :
    (Running(c) /\ Running(d) /\ call[c].key = call[d].key) => c = d

\* A token is never served within the skew of its exp claim or after it, nor longer than
\* the cache lets any token live.
ServedIsFresh ==
  \A k \in Keys : LET o == object[entry[k]] IN Served(k) # None =>
    /\ o.claim # 0 => now < o.claim - Skew
    /\ now < o.acquiredOn
               + (IF MaxExp > MaxTokenAge THEN MaxExp ELSE MaxTokenAge)

\* The cache's limits of size and of time, whoever refreshes, evicts or invalidates meanwhile.
LimitsAreKept == CacheIsBounded /\ ServedIsFresh

\* invalidateAll is final: no token that a refresh begun before it obtains, even later,
\* is served after it.
InvalidateAllIsFinal ==
  \A k \in Keys : Served(k) \notin voided

\* Every refresh ends even if the token service never answers, and so does every refresh
\* queued behind it.
RefreshesEnd ==
  \A c \in Calls : call[c].pc = "waiting" ~> call[c].pc = "done"

\* What the log line "No exp claim, fallback TTL" says: a token without an exp claim is
\* good for the fallback TTL.
FallbackTtl ==
  \A k \in Keys : entry[k] # None =>
    LET o == object[entry[k]] IN
    (o.token # None /\ o.claim = 0 /\ now < o.acquiredOn + MaxTokenAge)
      => Served(k) = o.token
=============================================================================
