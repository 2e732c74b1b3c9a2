-------------------- MODULE TransmissionGateRegistry_proof --------------------
(***************************************************************************)
(* The registry for any tenants, sends, capacity and delays: a tenant in   *)
(* use has one gate that counts its leases, a backoff holds for the whole  *)
(* tenant until its deadline, and a call leaves the registry within its    *)
(* capacity as far as entries may be evicted.  And the one gate under any  *)
(* set of senders and a clock that may be set back: one probe, no stale    *)
(* success, one escalation per burst.                                      *)
(*                                                                         *)
(* A registry call changes the registry several times before it returns.   *)
(* Sound says of a registry reg, a heap hp, leases lss and deadlines dl    *)
(* what is true before and after each of those changes.                    *)
(***************************************************************************)
EXTENDS TransmissionGate, TransmissionGateRegistry, FiniteSetTheorems, WellFoundedInduction, TLAPS

Present(reg) == {t \in Tenants : reg[t] # None}

Holders(lss, id) == {s \in Sends : lss[s] # None /\ lss[s].id = id}

Types(reg, hp, lss, dl) ==
  /\ reg \in [Tenants -> Ids \cup {None}]
  /\ hp \in [Ids -> Entry \cup {None}]
  /\ lss \in [Sends -> Lease \cup {None}]
  /\ dl \in [Tenants -> Nat]
  /\ now \in Nat

\* A tenant's key maps to an object of its own.
OwnEntries(reg, hp) ==
  \A t \in Tenants : reg[t] # None =>
    reg[t] \in {t} \X Incarnations /\ hp[reg[t]] \in Entry

LeasesAreCurrent(reg, lss) ==
  \A s \in Sends : lss[s] # None => reg[lss[s].tenant] = lss[s].id

LeaseCounts(reg, hp, lss) ==
  \A t \in Tenants : reg[t] # None =>
    hp[reg[t]].activeLeases = Cardinality(Holders(lss, reg[t]))

\* The gate of a tenant whose deadline lies ahead is registered and blocked until then.
DeadlinesHold(reg, hp, dl) ==
  \A t \in Tenants : dl[t] > now =>
    reg[t] # None /\ hp[reg[t]].gate.blockedUntil >= dl[t]

Sound(reg, hp, lss, dl) ==
  /\ Types(reg, hp, lss, dl)
  /\ OwnEntries(reg, hp)
  /\ LeasesAreCurrent(reg, lss)
  /\ LeaseCounts(reg, hp, lss)
  /\ DeadlinesHold(reg, hp, dl)
  /\ IsFiniteSet(Present(reg))

\* The inductive invariant.
IInv == Sound(registry, heap, leases, deadline)

-----------------------------------------------------------------------------
(* Gates and entries *)

\* Every delay a failure can impose is a natural number (the clamp of
\* computeFallbackDelay, the cap on a Retry-After).
LEMMA RetryDelayNat ==
  ASSUME NEW fails \in Nat, NEW retryAfter \in Nat,
         NEW delay \in RetryDelays(fails, retryAfter)
  PROVE  delay \in Nat /\ delay > 0
<1>1. CASE retryAfter > 0
  BY <1>1, DelayAssumption DEF RetryDelays
<1>2. CASE ~(retryAfter > 0)
  <2>1. delay \in FallbackDelays(fails)
    BY <1>2 DEF RetryDelays
  <2>2. PICK j \in Int : delay = Clamp(j)
    BY <2>1 DEF FallbackDelays
  <2>3. QED
    BY <2>2, DelayAssumption DEF Clamp
<1>3. QED
  BY <1>1, <1>2

LEMMA AcquiredGate ==
  ASSUME NEW g \in Gate
  PROVE  Acquired(g) \in Gate /\ Acquired(g).blockedUntil = g.blockedUntil
BY DEF Acquired, Gate

LEMMA SuccessGate ==
  ASSUME NEW g \in Gate, NEW p \in Permit
  PROVE  /\ RecordSuccess(g, p) \in Gate
         /\ p.generation # g.generation => RecordSuccess(g, p) = g
<1> DEFINE a == [g EXCEPT !.blockedUntil = 0]
           b == [a EXCEPT !.probeInFlight = FALSE]
           c == [b EXCEPT !.consecutiveFailures = 0]
<1>1. a \in Gate
  BY DEF Gate
<1>2. b \in Gate
  <2> HIDE DEF a
  <2> QED
    BY <1>1 DEF Gate
<1>3. c \in Gate
  <2> HIDE DEF b
  <2> QED
    BY <1>2 DEF Gate
<1>4. RecordSuccess(g, p) = IF p.generation # g.generation THEN g ELSE c
  BY DEF RecordSuccess, Gate
<1> QED
  BY <1>3, <1>4

LEMMA FailureGate ==
  ASSUME NEW g \in Gate, NEW p \in Permit, NEW time \in Nat, NEW delay \in Nat
  PROVE  /\ RecordRetryableFailure(g, p, time, delay) \in Gate
         /\ p.generation # g.generation => RecordRetryableFailure(g, p, time, delay) = g
         /\ p.generation = g.generation =>
              RecordRetryableFailure(g, p, time, delay).blockedUntil = time + delay
BY DEF RecordRetryableFailure, Gate

LEMMA LeasedEntry ==
  ASSUME NEW e \in Entry, now \in Nat
  PROVE  /\ Leased(e) \in Entry /\ Leased(e).gate = e.gate
         /\ Leased(e).activeLeases = e.activeLeases + 1
<1> DEFINE a == [e EXCEPT !.activeLeases = @ + 1]
<1>1. a \in Entry /\ a.gate = e.gate /\ a.activeLeases = e.activeLeases + 1
  BY DEF Entry
<1>2. Leased(e) = [a EXCEPT !.lastAccess = now]
  BY DEF Leased, Entry
<1> HIDE DEF a
<1>3. Leased(e) \in Entry
  BY <1>1, <1>2 DEF Entry
<1>4. Leased(e).gate = e.gate /\ Leased(e).activeLeases = e.activeLeases + 1
  BY <1>1, <1>2 DEF Entry
<1> QED
  BY <1>3, <1>4

LEMMA UnleasedEntry ==
  ASSUME NEW e \in Entry, NEW g \in Gate, e.activeLeases > 0, now \in Nat
  PROVE  LET after == Unleased([e EXCEPT !.gate = g]) IN
         after \in Entry /\ after.gate = g /\ after.activeLeases = e.activeLeases - 1
<1> DEFINE a == [e EXCEPT !.gate = g]
           b == [a EXCEPT !.activeLeases = @ - 1]
           c == [b EXCEPT !.lastAccess = now]
<1>1. a \in Entry /\ a.gate = g /\ a.activeLeases = e.activeLeases
  BY DEF Entry
<1> HIDE DEF a
<1>2. b \in Entry /\ b.gate = g /\ b.activeLeases = e.activeLeases - 1
  BY <1>1 DEF Entry
<1>3. Unleased(a) = c
  BY <1>1 DEF Unleased, Entry
<1> HIDE DEF b
<1>4. c \in Entry
  BY <1>2 DEF Entry
<1>5. c.gate = g /\ c.activeLeases = e.activeLeases - 1
  BY <1>2 DEF Entry
<1> QED
  BY <1>3, <1>4, <1>5 DEF a

LEMMA NewEntryIsIdle ==
  ASSUME now \in Nat
  PROVE  NewEntry \in Entry /\ NewEntry.activeLeases = 0 /\ NewEntry.gate.blockedUntil = 0
BY DEF NewEntry, Entry, NewGate, Gate

-----------------------------------------------------------------------------
(* What each change of a call preserves *)

LEMMA NoneIsDistinct == None \notin Ids /\ None \notin Entry /\ None \notin Lease /\ None \notin Permit
BY RegistryAssumption DEF RegistryAssumption

LEMMA HoldersAreFinite ==
  ASSUME NEW lss, NEW id
  PROVE  IsFiniteSet(Holders(lss, id)) /\ Cardinality(Holders(lss, id)) \in Nat
<1>1. IsFiniteSet(Holders(lss, id))
  <2>1. IsFiniteSet(Sends) /\ Holders(lss, id) \in SUBSET Sends
    BY RegistryAssumption DEF RegistryAssumption, Holders
  <2> QED
    BY <2>1, FS_Subset
<1> QED
  BY <1>1, FS_CardinalityType

\* A lease pins the entry of its tenant.
LEMMA LeasePins ==
  ASSUME NEW reg, NEW hp, NEW lss, NEW dl, Sound(reg, hp, lss, dl),
         NEW s \in Sends, lss[s] # None
  PROVE  /\ lss[s] \in Lease /\ reg[lss[s].tenant] = lss[s].id /\ lss[s].id # None
         /\ hp[lss[s].id] \in Entry /\ hp[lss[s].id].activeLeases > 0
<1>1. lss[s] \in Lease /\ reg[lss[s].tenant] = lss[s].id
  BY DEF Sound, Types, LeasesAreCurrent
<1>2. lss[s].id \in Ids /\ lss[s].tenant \in Tenants
  BY <1>1 DEF Lease
<1>3. lss[s].id # None
  BY <1>2, NoneIsDistinct
<1>4. hp[lss[s].id] \in Entry
  BY <1>1, <1>2, <1>3 DEF Sound, OwnEntries
<1>5. hp[lss[s].id].activeLeases = Cardinality(Holders(lss, lss[s].id))
  BY <1>1, <1>2, <1>3 DEF Sound, LeaseCounts
<1>6. s \in Holders(lss, lss[s].id)
  BY DEF Holders
<1>7. Cardinality(Holders(lss, lss[s].id)) # 0
  BY <1>6, HoldersAreFinite, FS_EmptySet
<1>8. Cardinality(Holders(lss, lss[s].id)) \in Nat
  BY HoldersAreFinite
<1> QED
  BY <1>1, <1>3, <1>4, <1>5, <1>7, <1>8

\* Only entries neither leased nor in backoff are dropped, and the others stay as they are.
LEMMA VictimsAreIdle ==
  ASSUME NEW reg, NEW hp, NEW t \in Tenants
  PROVE  /\ t \in Victims(reg, hp) => reg[t] # None /\ ~Pinned(hp[reg[t]]) /\ Trim(reg, hp)[t] = None
         /\ t \notin Victims(reg, hp) => Trim(reg, hp)[t] = reg[t]
BY DEF Victims, Trim

LEMMA TrimIsSound ==
  ASSUME NEW reg, NEW hp, NEW lss, NEW dl, Sound(reg, hp, lss, dl)
  PROVE  Sound(Trim(reg, hp), hp, lss, dl)
<1> DEFINE trimmed == Trim(reg, hp)
<1>1. \A t \in Tenants : trimmed[t] = reg[t] \/ (trimmed[t] = None /\ ~Pinned(hp[reg[t]]) /\ reg[t] # None)
  BY VictimsAreIdle
<1>2. trimmed \in [Tenants -> Ids \cup {None}]
  BY DEF Trim, Sound, Types
<1> HIDE DEF trimmed
<1>3. OwnEntries(trimmed, hp) /\ LeaseCounts(trimmed, hp, lss)
  BY <1>1 DEF Sound, OwnEntries, LeaseCounts
<1>4. LeasesAreCurrent(trimmed, lss)
  <2>1. SUFFICES ASSUME NEW s \in Sends, lss[s] # None
                 PROVE  trimmed[lss[s].tenant] = lss[s].id
    BY DEF LeasesAreCurrent
  <2>2. /\ lss[s].tenant \in Tenants /\ reg[lss[s].tenant] = lss[s].id
        /\ hp[lss[s].id].activeLeases > 0
    BY <2>1, LeasePins DEF Lease
  <2>3. Pinned(hp[reg[lss[s].tenant]])
    BY <2>2 DEF Pinned
  <2> QED
    BY <1>1, <2>2, <2>3
<1>5. DeadlinesHold(trimmed, hp, dl)
  <2>1. SUFFICES ASSUME NEW t \in Tenants, dl[t] > now
                 PROVE  trimmed[t] # None /\ hp[trimmed[t]].gate.blockedUntil >= dl[t]
    BY DEF DeadlinesHold
  <2>2. reg[t] # None /\ hp[reg[t]].gate.blockedUntil >= dl[t]
    BY <2>1 DEF Sound, DeadlinesHold
  <2>3. hp[reg[t]].gate.blockedUntil \in Nat /\ now \in Nat /\ dl[t] \in Nat
    BY <2>2 DEF Sound, OwnEntries, Types, Entry, Gate
  <2>4. Pinned(hp[reg[t]])
    BY <2>1, <2>2, <2>3 DEF Pinned, HasPendingBackoff
  <2> QED
    BY <1>1, <2>2, <2>4
<1>6. IsFiniteSet(Present(trimmed))
  <2>1. Present(trimmed) \in SUBSET Present(reg)
    BY <1>1 DEF Present
  <2> QED
    BY <2>1, FS_Subset DEF Sound
<1> QED
  BY <1>2, <1>3, <1>4, <1>5, <1>6 DEF Sound, Types, trimmed

\* Collecting the garbage loses no registered entry.
LEMMA CollectIsSound ==
  ASSUME NEW reg, NEW hp, NEW lss, NEW dl, Sound(reg, hp, lss, dl)
  PROVE  /\ Sound(reg, Collect(hp, reg, lss), lss, dl)
         /\ \A t \in Tenants : reg[t] # None => Collect(hp, reg, lss)[reg[t]] = hp[reg[t]]
<1> DEFINE kept == Collect(hp, reg, lss)
<1>1. \A t \in Tenants : reg[t] # None => kept[reg[t]] = hp[reg[t]]
  <2>1. TAKE t \in Tenants
  <2>2. HAVE reg[t] # None
  <2>3. reg[t] \in InUse(reg, lss)
    BY DEF InUse
  <2>4. reg[t] \in Ids
    BY <2>2 DEF Sound, Types
  <2> QED
    BY <2>3, <2>4 DEF Collect
<1>2. kept \in [Ids -> Entry \cup {None}]
  BY DEF Collect, Sound, Types
<1> HIDE DEF kept
<1>3. OwnEntries(reg, kept) /\ LeaseCounts(reg, kept, lss) /\ DeadlinesHold(reg, kept, dl)
  BY <1>1 DEF Sound, OwnEntries, LeaseCounts, DeadlinesHold
<1> QED
  BY <1>1, <1>2, <1>3 DEF Sound, Types, kept

\* There is an object for a tenant without an entry that nothing refers to: whoever holds
\* a lease of a tenant's entry keeps the entry registered.
LEMMA FreshIdIsNew ==
  ASSUME NEW reg, NEW hp, NEW dl, Sound(reg, hp, leases, dl), NEW t \in Tenants, reg[t] = None
  PROVE  LET id == FreshId(reg, t) IN
         /\ id \in {t} \X Incarnations /\ id \in Ids /\ id # None
         /\ \A u \in Tenants : reg[u] # id
         /\ Holders(leases, id) = {}
<1> DEFINE id == FreshId(reg, t)
<1>1. \A i \in {t} \X Incarnations : i \notin InUse(reg, leases)
  <2>1. SUFFICES ASSUME NEW i \in {t} \X Incarnations, i \in InUse(reg, leases)
                 PROVE  FALSE
    OBVIOUS
  <2>2. i # None /\ i[1] = t
    <3>1. i \in Ids
      BY DEF Ids
    <3> QED
      BY <3>1, NoneIsDistinct
  <2>3. ASSUME NEW u \in Tenants, i = reg[u] PROVE FALSE
    <3>1. reg[u] \in {u} \X Incarnations
      BY <2>2, <2>3 DEF Sound, OwnEntries
    <3>2. u = t
      BY <2>2, <2>3, <3>1
    <3> QED
      BY <2>2, <2>3, <3>2
  <2>4. ASSUME NEW s \in Sends, leases[s] # None, i = leases[s].id PROVE FALSE
    <3>1. /\ leases[s].tenant \in Tenants /\ reg[leases[s].tenant] = leases[s].id
      BY <2>4, LeasePins DEF Lease
    <3> QED
      BY <2>3, <2>4, <3>1
  <2> QED
    BY <2>1, <2>3, <2>4 DEF InUse
<1>2. id \in {t} \X Incarnations
  <2>1. PICK n \in Incarnations : TRUE
    BY RegistryAssumption DEF RegistryAssumption
  <2>2. <<t, n>> \in ({t} \X Incarnations) \ InUse(reg, leases)
    BY <1>1
  <2> QED
    BY <2>2 DEF FreshId
<1>3. id \in Ids /\ id # None
  <2>1. id \in Ids
    BY <1>2 DEF Ids
  <2> QED
    BY <2>1, NoneIsDistinct
<1>4. \A u \in Tenants : reg[u] # id
  <2>1. id \notin InUse(reg, leases)
    BY <1>1, <1>2
  <2> QED
    BY <2>1 DEF InUse
<1>5. Holders(leases, id) = {}
  <2>1. id \notin InUse(reg, leases)
    BY <1>1, <1>2
  <2> QED
    BY <2>1 DEF InUse, Holders
<1> QED
  BY <1>2, <1>3, <1>4, <1>5

\* acquire makes an entry for a tenant that has none.
LEMMA MakingIsSound ==
  ASSUME NEW reg, NEW hp, NEW dl, Sound(reg, hp, leases, dl), NEW t \in Tenants, reg[t] = None
  PROVE  LET id == FreshId(reg, t) IN
         Sound([reg EXCEPT ![t] = id], [hp EXCEPT ![id] = NewEntry], leases, dl)
<1> DEFINE id == FreshId(reg, t)
           made == [reg EXCEPT ![t] = id]
           hp1 == [hp EXCEPT ![id] = NewEntry]
<1>1. /\ id \in {t} \X Incarnations /\ id \in Ids /\ id # None
      /\ \A u \in Tenants : reg[u] # id
      /\ Holders(leases, id) = {}
  BY FreshIdIsNew
<1> HIDE DEF id
<1>2. /\ made \in [Tenants -> Ids \cup {None}] /\ made[t] = id
      /\ \A u \in Tenants : u # t => made[u] = reg[u]
  BY <1>1 DEF Sound, Types
<1>3. /\ hp1 \in [Ids -> Entry \cup {None}] /\ hp1[id] = NewEntry
      /\ \A i \in Ids : i # id => hp1[i] = hp[i]
  BY <1>1, NewEntryIsIdle DEF Sound, Types
<1> HIDE DEF made, hp1
<1>4. \A u \in Tenants : u # t /\ reg[u] # None => hp1[made[u]] = hp[reg[u]] /\ made[u] = reg[u]
  <2>1. TAKE u \in Tenants
  <2>2. HAVE u # t /\ reg[u] # None
  <2>3. reg[u] \in Ids
    BY <2>2 DEF Sound, Types
  <2> QED
    BY <1>1, <1>2, <1>3, <2>2, <2>3
<1>5. OwnEntries(made, hp1)
  BY <1>1, <1>2, <1>3, <1>4, NewEntryIsIdle DEF Sound, Types, OwnEntries
<1>6. LeasesAreCurrent(made, leases)
  <2>1. SUFFICES ASSUME NEW s \in Sends, leases[s] # None
                 PROVE  made[leases[s].tenant] = leases[s].id
    BY DEF LeasesAreCurrent
  <2>2. /\ leases[s].tenant \in Tenants /\ reg[leases[s].tenant] = leases[s].id
        /\ leases[s].id # None
    BY <2>1, LeasePins DEF Lease
  <2> QED
    BY <1>2, <2>2
<1>7. LeaseCounts(made, hp1, leases)
  <2>1. Cardinality(Holders(leases, id)) = 0
    BY <1>1, FS_EmptySet
  <2> QED
    BY <1>2, <1>3, <1>4, <2>1, NewEntryIsIdle DEF Sound, Types, LeaseCounts
<1>8. DeadlinesHold(made, hp1, dl)
  BY <1>2, <1>4 DEF Sound, DeadlinesHold
<1>9. IsFiniteSet(Present(made))
  <2>1. Present(made) = Present(reg) \cup {t}
    BY <1>1, <1>2 DEF Present
  <2> QED
    BY <2>1, FS_AddElement DEF Sound
<1> QED
  BY <1>2, <1>3, <1>5, <1>6, <1>7, <1>8, <1>9 DEF Sound, Types, made, hp1, id

\* A send takes a lease of the entry registered for its tenant.
LEMMA LeasingIsSound ==
  ASSUME NEW reg, NEW hp, NEW dl, Sound(reg, hp, leases, dl), NEW t \in Tenants, reg[t] # None,
         NEW s \in Sends, leases[s] = None
  PROVE  Sound(reg, [hp EXCEPT ![reg[t]] = Leased(hp[reg[t]])],
               [leases EXCEPT ![s] = [tenant |-> t, id |-> reg[t], permit |-> None]], dl)
<1> DEFINE id == reg[t]
           lease == [tenant |-> t, id |-> id, permit |-> None]
           hp1 == [hp EXCEPT ![id] = Leased(hp[id])]
           lss == [leases EXCEPT ![s] = lease]
<1>1. id \in Ids /\ hp[id] \in Entry /\ now \in Nat /\ id \in {t} \X Incarnations
  BY DEF Sound, Types, OwnEntries
<1>2. lease \in Lease /\ lease # None /\ lease.id = id /\ lease.tenant = t
  BY <1>1, NoneIsDistinct DEF Lease
<1>3. /\ lss \in [Sends -> Lease \cup {None}] /\ lss[s] = lease
      /\ \A r \in Sends : r # s => lss[r] = leases[r]
  BY <1>2 DEF Sound, Types
<1>4. /\ hp1 \in [Ids -> Entry \cup {None}]
      /\ hp1[id] \in Entry /\ hp1[id].gate = hp[id].gate
      /\ hp1[id].activeLeases = hp[id].activeLeases + 1
      /\ \A i \in Ids : i # id => hp1[i] = hp[i]
  BY <1>1, LeasedEntry DEF Sound, Types
<1>5. \A u \in Tenants : u # t /\ reg[u] # None => reg[u] # id /\ reg[u] \in Ids
  BY <1>1 DEF Sound, Types, OwnEntries
<1> HIDE DEF lss, hp1, lease
<1>6. OwnEntries(reg, hp1)
  BY <1>1, <1>4, <1>5 DEF Sound, OwnEntries
<1>7. LeasesAreCurrent(reg, lss)
  BY <1>2, <1>3 DEF Sound, LeasesAreCurrent
<1>8. LeaseCounts(reg, hp1, lss)
  <2>1. SUFFICES ASSUME NEW u \in Tenants, reg[u] # None
                 PROVE  hp1[reg[u]].activeLeases = Cardinality(Holders(lss, reg[u]))
    BY DEF LeaseCounts
  <2>2. hp[reg[u]].activeLeases = Cardinality(Holders(leases, reg[u]))
    BY <2>1 DEF Sound, LeaseCounts
  <2>3. CASE u = t
    <3>1. Holders(lss, id) = Holders(leases, id) \cup {s} /\ s \notin Holders(leases, id)
      BY <1>2, <1>3 DEF Holders
    <3>2. Cardinality(Holders(lss, id)) = Cardinality(Holders(leases, id)) + 1
      <4>1. IsFiniteSet(Holders(leases, id))
        BY HoldersAreFinite
      <4> QED
        BY <3>1, <4>1, FS_AddElement
    <3> QED
      BY <1>4, <2>2, <2>3, <3>2
  <2>4. CASE u # t
    <3>1. Holders(lss, reg[u]) = Holders(leases, reg[u])
      BY <1>2, <1>3, <1>5, <2>1, <2>4 DEF Holders
    <3> QED
      BY <1>4, <1>5, <2>1, <2>2, <2>4, <3>1
  <2> QED
    BY <2>3, <2>4
<1>9. DeadlinesHold(reg, hp1, dl)
  BY <1>1, <1>4, <1>5 DEF Sound, DeadlinesHold
<1> QED
  BY <1>3, <1>4, <1>6, <1>7, <1>8, <1>9 DEF Sound, Types, lss, hp1, lease

\* A send records its gate and gives its lease back; its tenant's deadline is what the
\* gate says, or has passed.
LEMMA ReleasingIsSound ==
  ASSUME IInv, NEW s \in Sends, leases[s] # None, NEW g \in Gate, NEW dl \in [Tenants -> Nat],
         \A u \in Tenants : u # leases[s].tenant => dl[u] = deadline[u],
         dl[leases[s].tenant] > now => g.blockedUntil >= dl[leases[s].tenant]
  PROVE  Sound(registry,
               [heap EXCEPT ![leases[s].id] = Unleased([heap[leases[s].id] EXCEPT !.gate = g])],
               [leases EXCEPT ![s] = None], dl)
<1> DEFINE id == leases[s].id
           t == leases[s].tenant
           hp1 == [heap EXCEPT ![id] = Unleased([heap[id] EXCEPT !.gate = g])]
           lss == [leases EXCEPT ![s] = None]
<1>1. Sound(registry, heap, leases, deadline)
  BY DEF IInv
<1>2. /\ leases[s] \in Lease /\ registry[t] = id /\ id # None
      /\ heap[id] \in Entry /\ heap[id].activeLeases > 0 /\ now \in Nat
  BY <1>1, LeasePins DEF Sound, Types
<1>3. id \in Ids /\ t \in Tenants /\ id \in {t} \X Incarnations
  BY <1>1, <1>2 DEF Lease, Sound, OwnEntries
<1>4. /\ lss \in [Sends -> Lease \cup {None}] /\ lss[s] = None
      /\ \A r \in Sends : r # s => lss[r] = leases[r]
  BY <1>1 DEF Sound, Types
<1>5. /\ hp1 \in [Ids -> Entry \cup {None}]
      /\ hp1[id] \in Entry /\ hp1[id].gate = g
      /\ hp1[id].activeLeases = heap[id].activeLeases - 1
      /\ \A i \in Ids : i # id => hp1[i] = heap[i]
  BY <1>1, <1>2, <1>3, UnleasedEntry DEF Sound, Types
<1>6. \A u \in Tenants : u # t /\ registry[u] # None => registry[u] # id /\ registry[u] \in Ids
  BY <1>1, <1>3 DEF Sound, Types, OwnEntries
<1> HIDE DEF lss, hp1
<1>7. OwnEntries(registry, hp1)
  BY <1>1, <1>2, <1>5, <1>6 DEF Sound, OwnEntries
<1>8. LeasesAreCurrent(registry, lss)
  BY <1>1, <1>4 DEF Sound, LeasesAreCurrent
<1>9. LeaseCounts(registry, hp1, lss)
  <2>1. SUFFICES ASSUME NEW u \in Tenants, registry[u] # None
                 PROVE  hp1[registry[u]].activeLeases = Cardinality(Holders(lss, registry[u]))
    BY DEF LeaseCounts
  <2>2. heap[registry[u]].activeLeases = Cardinality(Holders(leases, registry[u]))
    BY <1>1, <2>1 DEF Sound, LeaseCounts
  <2>3. CASE u = t
    <3>1. Holders(lss, id) = Holders(leases, id) \ {s} /\ s \in Holders(leases, id)
      BY <1>4 DEF Holders
    <3>2. Cardinality(Holders(lss, id)) = Cardinality(Holders(leases, id)) - 1
      <4>1. IsFiniteSet(Holders(leases, id))
        BY HoldersAreFinite
      <4>2. Cardinality(Holders(leases, id) \ {s}) = Cardinality(Holders(leases, id)) - 1
        BY <3>1, <4>1, FS_RemoveElement, Zenon
      <4> QED
        BY <3>1, <4>2
    <3> QED
      BY <1>2, <1>5, <2>2, <2>3, <3>2
  <2>4. CASE u # t
    <3>1. Holders(lss, registry[u]) = Holders(leases, registry[u])
      BY <1>4, <1>6, <2>1, <2>4 DEF Holders
    <3> QED
      BY <1>5, <1>6, <2>1, <2>2, <2>4, <3>1
  <2> QED
    BY <2>3, <2>4
<1>10. DeadlinesHold(registry, hp1, dl)
  BY <1>1, <1>2, <1>5, <1>6 DEF Sound, DeadlinesHold
<1> QED
  BY <1>1, <1>4, <1>5, <1>7, <1>8, <1>9, <1>10 DEF Sound, Types, lss, hp1

-----------------------------------------------------------------------------
(* The steps *)

LEMMA InitIInv == Init => IInv
<1> SUFFICES ASSUME Init
             PROVE  IInv
  OBVIOUS
<1>1. Types(registry, heap, leases, deadline)
  BY DEF Init, Types
<1>2. Present(registry) = {}
  BY DEF Init, Present
<1>3. DeadlinesHold(registry, heap, deadline)
  BY DEF Init, DeadlinesHold
<1>4. /\ OwnEntries(registry, heap) /\ LeasesAreCurrent(registry, leases)
      /\ LeaseCounts(registry, heap, leases)
  BY DEF Init, OwnEntries, LeasesAreCurrent, LeaseCounts
<1> QED
  BY <1>1, <1>2, <1>3, <1>4, FS_EmptySet DEF IInv, Sound

\* The call goes through sound changes to reg and hp and then trims.
Settles(reg, hp) ==
  /\ Sound(reg, hp, leases', deadline')
  /\ registry' = Trim(reg, hp)
  /\ heap' = Collect(hp, registry', leases')
  /\ UNCHANGED now

LEMMA AcquireLeaseSettles ==
  ASSUME IInv, NEW s \in Sends, NEW t \in Tenants, AcquireLease(s, t)
  PROVE  /\ \E reg, hp : Settles(reg, hp)
         /\ leases'[s].permit = None /\ \A r \in Sends : r # s => leases'[r] = leases[r]
<1> DEFINE trimmed == Trim(registry, heap)
           id == IF trimmed[t] # None THEN trimmed[t] ELSE FreshId(trimmed, t)
           entry == IF trimmed[t] # None THEN heap[id] ELSE NewEntry
           reg == [trimmed EXCEPT ![t] = id]
           hp == [heap EXCEPT ![id] = Leased(entry)]
<1>1. /\ leases[s] = None
      /\ leases' = [leases EXCEPT ![s] = [tenant |-> t, id |-> id, permit |-> None]]
      /\ registry' = Trim(reg, hp)
      /\ heap' = Collect(hp, registry', leases')
      /\ UNCHANGED <<now, deadline>>
  BY Zenon DEF AcquireLease
<1>2. Sound(trimmed, heap, leases, deadline)
  BY TrimIsSound DEF IInv
<1>3. trimmed \in [Tenants -> Ids \cup {None}] /\ heap \in [Ids -> Entry \cup {None}]
      /\ leases \in [Sends -> Lease \cup {None}]
  BY <1>2 DEF Sound, Types
<1>4. Sound(reg, hp, leases', deadline)
  <2>1. CASE trimmed[t] # None
    <3>1. id = trimmed[t] /\ entry = heap[trimmed[t]]
      BY <2>1
    <3>2. reg = trimmed
      BY <1>3, <3>1
    <3>3. Sound(trimmed, [heap EXCEPT ![trimmed[t]] = Leased(heap[trimmed[t]])],
                [leases EXCEPT ![s] = [tenant |-> t, id |-> trimmed[t], permit |-> None]], deadline)
      BY <1>1, <1>2, <2>1, LeasingIsSound
    <3> QED
      BY <1>1, <3>1, <3>2, <3>3
  <2>2. CASE trimmed[t] = None
    <3> DEFINE hp1 == [heap EXCEPT ![id] = NewEntry]
    <3>1. id = FreshId(trimmed, t) /\ entry = NewEntry
      BY <2>2
    <3>2. Sound(reg, hp1, leases, deadline)
      BY <1>2, <2>2, <3>1, MakingIsSound
    <3>3. reg[t] = id
      BY <1>3
    <3>4. id # None
      BY <1>2, <2>2, <3>1, FreshIdIsNew
    <3>5. Sound(reg, [hp1 EXCEPT ![id] = Leased(hp1[id])],
                [leases EXCEPT ![s] = [tenant |-> t, id |-> id, permit |-> None]], deadline)
      <4> HIDE DEF reg, hp1, id
      <4> QED
        BY <1>1, <3>2, <3>3, <3>4, LeasingIsSound
    <3>6. hp = [hp1 EXCEPT ![id] = Leased(hp1[id])]
      BY <1>3, <3>1, <3>4
    <3> QED
      BY <1>1, <3>5, <3>6
  <2> QED
    BY <2>1, <2>2
<1>5. Settles(reg, hp)
  BY <1>1, <1>4 DEF Settles
<1>6. leases'[s].permit = None /\ \A r \in Sends : r # s => leases'[r] = leases[r]
  BY <1>1, <1>3
<1> QED
  BY <1>5, <1>6

LEMMA ReleaseSettles ==
  ASSUME IInv, NEW s \in Sends, leases[s] # None, NEW g \in Gate,
         deadline' \in [Tenants -> Nat],
         \A u \in Tenants : u # leases[s].tenant => deadline'[u] = deadline[u],
         deadline'[leases[s].tenant] > now => g.blockedUntil >= deadline'[leases[s].tenant],
         Release(s, g)
  PROVE  /\ \E reg, hp : Settles(reg, hp)
         /\ leases'[s] = None /\ \A r \in Sends : r # s => leases'[r] = leases[r]
<1> DEFINE hp == [heap EXCEPT ![leases[s].id] = Unleased([heap[leases[s].id] EXCEPT !.gate = g])]
<1>1. leases \in [Sends -> Lease \cup {None}] /\ heap \in [Ids -> Entry \cup {None}]
      /\ leases[s].id \in Ids
  BY DEF IInv, Sound, Types, Lease
<1>2. /\ leases' = [leases EXCEPT ![s] = None]
      /\ registry' = Trim(registry, hp)
      /\ heap' = Collect(hp, registry', leases')
      /\ UNCHANGED now
  BY <1>1 DEF Release
<1>3. Sound(registry, hp, leases', deadline')
  BY <1>2, ReleasingIsSound
<1>4. Settles(registry, hp)
  BY <1>2, <1>3 DEF Settles
<1> QED
  BY <1>1, <1>2, <1>4

LEMMA SettlingIsSound ==
  ASSUME NEW reg, NEW hp, Settles(reg, hp)
  PROVE  IInv'
<1>1. Sound(registry', hp, leases', deadline')
  BY TrimIsSound DEF Settles
<1>2. Sound(registry', heap', leases', deadline')
  BY <1>1, CollectIsSound DEF Settles
<1>3. now' = now
  BY DEF Settles
<1> QED
  BY <1>2, <1>3 DEF IInv, Sound, Types, OwnEntries, LeasesAreCurrent, LeaseCounts, DeadlinesHold,
                    Holders, Present

\* What a send in progress knows of its gate.
LEMMA SendersGate ==
  ASSUME IInv, NEW s \in Sends, leases[s] # None
  PROVE  /\ leases[s] \in Lease /\ leases[s].tenant \in Tenants /\ leases[s].id \in Ids
         /\ registry[leases[s].tenant] = leases[s].id /\ leases[s].id # None
         /\ heap[leases[s].id] \in Entry /\ GateOf(s) \in Gate
         /\ deadline[leases[s].tenant] > now =>
              GateOf(s).blockedUntil >= deadline[leases[s].tenant]
         /\ now \in Nat /\ deadline \in [Tenants -> Nat]
<1>1. Sound(registry, heap, leases, deadline)
  BY DEF IInv
<1>2. /\ leases[s] \in Lease /\ registry[leases[s].tenant] = leases[s].id /\ leases[s].id # None
      /\ heap[leases[s].id] \in Entry
  BY <1>1, LeasePins
<1>3. leases[s].tenant \in Tenants /\ leases[s].id \in Ids
  BY <1>2 DEF Lease
<1>4. GateOf(s) \in Gate
  BY <1>2 DEF GateOf, Entry
<1>5. now \in Nat /\ deadline \in [Tenants -> Nat]
  BY <1>1 DEF Sound, Types
<1>6. deadline[leases[s].tenant] > now => GateOf(s).blockedUntil >= deadline[leases[s].tenant]
  BY <1>1, <1>2, <1>3 DEF Sound, DeadlinesHold, GateOf
<1> QED
  BY <1>2, <1>3, <1>4, <1>5, <1>6

\* A send ends: its lease is gone, and the others' stay.
Ends(s) ==
  /\ leases[s] # None
  /\ \E reg, hp : Settles(reg, hp)
  /\ leases'[s] = None /\ \A r \in Sends : r # s => leases'[r] = leases[r]

LEMMA GiveUpEnds ==
  ASSUME IInv, NEW s \in Sends, GiveUp(s)
  PROVE  Ends(s)
<1>1. leases[s] # None /\ Release(s, GateOf(s)) /\ UNCHANGED deadline
  BY DEF GiveUp
<1> QED
  BY <1>1, SendersGate, ReleaseSettles DEF Ends

LEMMA SucceedEnds ==
  ASSUME IInv, NEW s \in Sends, Succeed(s)
  PROVE  Ends(s)
<1> DEFINE t == leases[s].tenant
           g == RecordSuccess(GateOf(s), leases[s].permit)
<1>1. /\ leases[s] # None /\ leases[s].permit # None /\ Release(s, g)
      /\ deadline' = IF Accepted(s) THEN [deadline EXCEPT ![t] = 0] ELSE deadline
  BY DEF Succeed, Sending
<1>2. /\ t \in Tenants /\ GateOf(s) \in Gate /\ now \in Nat /\ deadline \in [Tenants -> Nat]
      /\ deadline[t] > now => GateOf(s).blockedUntil >= deadline[t]
  BY <1>1, SendersGate
<1>3. leases[s].permit \in Permit
  BY <1>1, SendersGate DEF Lease
<1>4. g \in Gate /\ (~Accepted(s) => g = GateOf(s))
  BY <1>2, <1>3, SuccessGate DEF Accepted
<1>5. /\ deadline' \in [Tenants -> Nat]
      /\ \A u \in Tenants : u # t => deadline'[u] = deadline[u]
      /\ deadline'[t] > now => g.blockedUntil >= deadline'[t]
  BY <1>1, <1>2, <1>4
<1> HIDE DEF g
<1> QED
  BY <1>1, <1>4, <1>5, ReleaseSettles DEF Ends

LEMMA FailEnds ==
  ASSUME IInv, NEW s \in Sends, Fail(s)
  PROVE  Ends(s)
<1> DEFINE t == leases[s].tenant
<1>1. PICK retryAfter \in RetryAfters :
        \E delay \in RetryDelays(GateOf(s).consecutiveFailures + 1, retryAfter) :
          /\ Release(s, RecordRetryableFailure(GateOf(s), leases[s].permit, now, delay))
          /\ deadline' = IF Accepted(s) THEN [deadline EXCEPT ![t] = now + delay] ELSE deadline
  BY DEF Fail
<1>2. PICK delay \in RetryDelays(GateOf(s).consecutiveFailures + 1, retryAfter) :
        /\ Release(s, RecordRetryableFailure(GateOf(s), leases[s].permit, now, delay))
        /\ deadline' = IF Accepted(s) THEN [deadline EXCEPT ![t] = now + delay] ELSE deadline
  BY <1>1
<1> DEFINE g == RecordRetryableFailure(GateOf(s), leases[s].permit, now, delay)
<1>3. leases[s] # None /\ leases[s].permit # None
  BY DEF Fail, Sending
<1>4. /\ t \in Tenants /\ GateOf(s) \in Gate /\ now \in Nat /\ deadline \in [Tenants -> Nat]
      /\ deadline[t] > now => GateOf(s).blockedUntil >= deadline[t]
  BY <1>3, SendersGate
<1>5. leases[s].permit \in Permit
  BY <1>3, SendersGate DEF Lease
<1>6. delay \in Nat
  <2>1. GateOf(s).consecutiveFailures + 1 \in Nat /\ retryAfter \in Nat
    BY <1>4, BoundsAssumption DEF Gate, BoundsAssumption
  <2> QED
    BY <2>1, RetryDelayNat
<1>7. /\ g \in Gate /\ (~Accepted(s) => g = GateOf(s))
      /\ Accepted(s) => g.blockedUntil = now + delay
  <2>1. /\ g \in Gate
        /\ leases[s].permit.generation # GateOf(s).generation => g = GateOf(s)
        /\ leases[s].permit.generation = GateOf(s).generation => g.blockedUntil = now + delay
    BY <1>4, <1>5, <1>6, FailureGate
  <2> HIDE DEF g
  <2> QED
    BY <2>1 DEF Accepted
<1> HIDE DEF g
<1>8. /\ deadline' \in [Tenants -> Nat]
      /\ \A u \in Tenants : u # t => deadline'[u] = deadline[u]
      /\ deadline'[t] > now => g.blockedUntil >= deadline'[t]
  BY <1>2, <1>4, <1>6, <1>7
<1>9. Release(s, g)
  BY <1>2 DEF g
<1> QED
  BY <1>3, <1>7, <1>8, <1>9, ReleaseSettles DEF Ends

\* A send begins: only its permit and the probe flag of its gate change.
LEMMA StartSendIsSound ==
  ASSUME IInv, NEW s \in Sends, StartSend(s)
  PROVE  /\ IInv' /\ leases'[s] # None
         /\ \A r \in Sends : r # s => leases'[r] = leases[r]
<1> DEFINE id == leases[s].id
           permitted == [leases[s] EXCEPT !.permit = PermitOf(GateOf(s))]
           entry == [heap[id] EXCEPT !.gate = Acquired(heap[id].gate)]
<1>1. /\ leases[s] # None /\ Sound(registry, heap, leases, deadline)
      /\ leases' = [leases EXCEPT ![s].permit = PermitOf(GateOf(s))]
      /\ heap' = [heap EXCEPT ![id].gate = Acquired(@)]
      /\ UNCHANGED <<registry, now, deadline>>
  BY DEF StartSend, IInv
<1>2. /\ leases[s] \in Lease /\ id \in Ids /\ heap[id] \in Entry /\ GateOf(s) \in Gate
      /\ leases \in [Sends -> Lease \cup {None}] /\ heap \in [Ids -> Entry \cup {None}]
  BY <1>1, SendersGate DEF Sound, Types
<1>3. permitted \in Lease /\ permitted # None
      /\ permitted.id = id /\ permitted.tenant = leases[s].tenant
  <2>1. PermitOf(GateOf(s)) \in Permit
    BY <1>2 DEF PermitOf, Permit, Gate
  <2>2. permitted \in Lease
    BY <1>2, <2>1 DEF Lease
  <2>3. permitted.id = id /\ permitted.tenant = leases[s].tenant
    BY <1>2 DEF Lease
  <2> QED
    BY <2>2, <2>3, NoneIsDistinct
<1>4. entry \in Entry /\ entry.activeLeases = heap[id].activeLeases
      /\ entry.gate.blockedUntil = heap[id].gate.blockedUntil
  <2>1. heap[id].gate \in Gate
    BY <1>2 DEF Entry
  <2>2. Acquired(heap[id].gate) \in Gate
    BY <2>1, AcquiredGate
  <2>3. entry \in Entry
    BY <1>2, <2>2 DEF Entry
  <2>4. entry.activeLeases = heap[id].activeLeases /\ entry.gate = Acquired(heap[id].gate)
    BY <1>2 DEF Entry
  <2> QED
    BY <2>1, <2>3, <2>4, AcquiredGate
<1>5. /\ leases' = [leases EXCEPT ![s] = permitted]
      /\ heap' = [heap EXCEPT ![id] = entry]
  BY <1>1, <1>2
<1> HIDE DEF permitted, entry
<1>6. /\ leases' \in [Sends -> Lease \cup {None}] /\ leases'[s] = permitted
      /\ \A r \in Sends : r # s => leases'[r] = leases[r]
  BY <1>2, <1>3, <1>5
<1>7. /\ heap' \in [Ids -> Entry \cup {None}] /\ heap'[id] = entry
      /\ \A i \in Ids : i # id => heap'[i] = heap[i]
  BY <1>2, <1>4, <1>5
<1>8. \A t \in Tenants : registry[t] # None =>
        /\ heap'[registry[t]] \in Entry
        /\ heap'[registry[t]].activeLeases = heap[registry[t]].activeLeases
        /\ heap'[registry[t]].gate.blockedUntil = heap[registry[t]].gate.blockedUntil
  <2>1. TAKE t \in Tenants
  <2>2. HAVE registry[t] # None
  <2>3. registry[t] \in Ids /\ heap[registry[t]] \in Entry
    BY <1>1, <2>2 DEF Sound, Types, OwnEntries
  <2> QED
    BY <1>4, <1>7, <2>3
<1>9. \A i : Holders(leases', i) = Holders(leases, i)
  BY <1>1, <1>3, <1>6 DEF Holders
<1>10. Sound(registry, heap', leases', deadline)
  <2>1. OwnEntries(registry, heap') /\ DeadlinesHold(registry, heap', deadline)
    BY <1>1, <1>8 DEF Sound, OwnEntries, DeadlinesHold
  <2>2. LeaseCounts(registry, heap', leases')
    BY <1>1, <1>8, <1>9 DEF Sound, LeaseCounts
  <2>3. LeasesAreCurrent(registry, leases')
    BY <1>1, <1>3, <1>6 DEF Sound, LeasesAreCurrent
  <2> QED
    BY <1>1, <1>6, <1>7, <2>1, <2>2, <2>3 DEF Sound, Types
<1>11. IInv'
  <2>1. registry' = registry /\ deadline' = deadline /\ now' = now
    BY <1>1
  <2> QED
    BY <1>10, <2>1 DEF IInv, Sound, Types, OwnEntries, LeasesAreCurrent, LeaseCounts, DeadlinesHold,
                     Holders, Present
<1> QED
  BY <1>3, <1>6, <1>11

LEMMA TickIsSound == IInv /\ Tick => IInv'
<1> SUFFICES ASSUME IInv, Tick
             PROVE  IInv'
  OBVIOUS
<1>1. now' = now + 1 /\ UNCHANGED <<registry, heap, leases, deadline>>
  BY DEF Tick
<1>2. Types(registry, heap, leases, deadline)' /\ now' \in Nat
  BY <1>1 DEF IInv, Sound, Types
<1>3. DeadlinesHold(registry, heap, deadline)'
  BY <1>1 DEF IInv, Sound, Types, DeadlinesHold
<1>4. /\ OwnEntries(registry, heap)' /\ LeasesAreCurrent(registry, leases)'
      /\ LeaseCounts(registry, heap, leases)' /\ IsFiniteSet(Present(registry))'
  BY <1>1 DEF IInv, Sound, OwnEntries, LeasesAreCurrent, LeaseCounts, Present, Holders
<1> QED
  BY <1>2, <1>3, <1>4 DEF IInv, Sound

LEMMA NextIInv == IInv /\ [Next]_vars => IInv'
<1> SUFFICES ASSUME IInv, [Next]_vars
             PROVE  IInv'
  OBVIOUS
<1>1. ASSUME NEW s \in Sends, NEW t \in Tenants, AcquireLease(s, t)
      PROVE  IInv'
  BY <1>1, AcquireLeaseSettles, SettlingIsSound
<1>2. ASSUME NEW s \in Sends, GiveUp(s) \/ Succeed(s) \/ Fail(s)
      PROVE  IInv'
  BY <1>2, GiveUpEnds, SucceedEnds, FailEnds, SettlingIsSound DEF Ends
<1>3. ASSUME NEW s \in Sends, StartSend(s)
      PROVE  IInv'
  BY <1>3, StartSendIsSound
<1>4. CASE Tick
  BY <1>4, TickIsSound
<1>5. CASE UNCHANGED vars
  BY <1>5 DEF vars, IInv, Sound, Types, OwnEntries, LeasesAreCurrent, LeaseCounts, DeadlinesHold,
              Holders, Present
<1> QED
  BY <1>1, <1>2, <1>3, <1>4, <1>5 DEF Next

LEMMA Invariance == Spec => []IInv
BY InitIInv, NextIInv, PTL DEF Spec

-----------------------------------------------------------------------------
(* The theorems *)

\* Every send of a tenant works on the gate the registry would hand to the next one, and
\* the entry's count of leases never drifts from the leases that are out.
THEOREM Spec_RegistryInv == Spec => []RegistryInv
<1>1. IInv => RegistryInv
  <2> SUFFICES ASSUME IInv
               PROVE  RegistryInv
    OBVIOUS
  <2>1. TypeOK
    BY DEF IInv, Sound, Types, TypeOK
  <2>2. OneGatePerTenant
    BY DEF IInv, Sound, LeasesAreCurrent, OneGatePerTenant
  <2>3. LeasesCounted
    BY DEF IInv, Sound, LeaseCounts, LeasesCounted, Holders, Registered
  <2> QED
    BY <2>1, <2>2, <2>3 DEF RegistryInv
<1> QED
  BY <1>1, Invariance, PTL

\* No send of a tenant begins before the deadline of a backoff imposed on the tenant, by
\* whichever send, under whichever lease, and whatever the registry dropped in between.
THEOREM Spec_NoSendDuringBackoff == Spec => NoSendDuringBackoff
<1>1. ASSUME IInv, [Next]_vars
      PROVE  [\A s \in Sends : (~Sending(s) /\ Sending(s)') => now >= deadline[leases[s].tenant]]_vars
  <2> SUFFICES ASSUME NEW s \in Sends, ~Sending(s), Sending(s)'
               PROVE  now >= deadline[leases[s].tenant]
    OBVIOUS
  <2>1. leases'[s] # None /\ leases'[s].permit # None /\ leases'[s] # leases[s]
    BY DEF Sending
  <2>2. StartSend(s)
    <3>1. ASSUME NEW r \in Sends, NEW t \in Tenants, AcquireLease(r, t)
          PROVE  FALSE
      BY <1>1, <2>1, <3>1, AcquireLeaseSettles
    <3>2. ASSUME NEW r \in Sends, GiveUp(r) \/ Succeed(r) \/ Fail(r)
          PROVE  FALSE
      <4>1. Ends(r)
        BY <1>1, <3>2, GiveUpEnds, SucceedEnds, FailEnds
      <4> QED
        BY <2>1, <4>1 DEF Ends
    <3>3. ASSUME NEW r \in Sends, StartSend(r), r # s
          PROVE  FALSE
      BY <1>1, <2>1, <3>3, StartSendIsSound
    <3>4. ~Tick /\ ~UNCHANGED vars
      BY <2>1 DEF Tick, vars
    <3> QED
      BY <1>1, <3>1, <3>2, <3>3, <3>4 DEF Next
  <2>3. leases[s] # None /\ CanAcquire(GateOf(s), now)
    BY <2>2 DEF StartSend
  <2>4. /\ GateOf(s) \in Gate /\ now \in Nat /\ deadline[leases[s].tenant] \in Nat
        /\ deadline[leases[s].tenant] > now =>
             GateOf(s).blockedUntil >= deadline[leases[s].tenant]
    BY <1>1, <2>3, SendersGate
  <2>5. GateOf(s).blockedUntil \in Nat /\ ~(now < GateOf(s).blockedUntil)
    BY <2>3, <2>4 DEF CanAcquire, HasPendingBackoff, Gate
  <2> QED
    BY <2>4, <2>5
<1> QED
  BY <1>1, Invariance, PTL DEF Spec, NoSendDuringBackoff

-----------------------------------------------------------------------------
(* The capacity *)

\* A nonempty set of naturals has a least element.
LEMMA LeastExists ==
  ASSUME NEW S \in SUBSET Nat, S # {}
  PROVE  \E x \in S : \A y \in S : x <= y
<1> DEFINE R == OpToRel(<, Nat)
<1>1. IsWellFoundedOn(R, Nat)
  BY NatLessThanWellFounded
<1>2. \A x, y \in Nat : <<y, x>> \in R <=> y < x
  BY DEF OpToRel
<1> HIDE DEF R
<1>3. PICK x \in S : \A y \in S : ~ (<<y, x>> \in R)
  BY <1>1, WFMin
<1>4. \A y \in S : x <= y
  <2>1. TAKE y \in S
  <2>2. x \in Nat /\ y \in Nat
    BY <1>3
  <2>3. ~ (y < x)
    BY <1>2, <1>3, <2>2
  <2> QED
    BY <2>2, <2>3
<1> QED
  BY <1>3, <1>4

\* below[x] are the predecessors of x in a strict order on a finite set.  All the elements
\* have fewer than n predecessors, or at least n elements do.
LEMMA RankedBelow ==
  ASSUME NEW S, IsFiniteSet(S), NEW n \in Nat, NEW below \in [S -> SUBSET S],
         \A x, y \in S : y \in below[x] => below[y] \subseteq below[x],
         \A x \in S : x \notin below[x],
         NEW first \in SUBSET S, \A x \in S : x \in first <=> Cardinality(below[x]) < n
  PROVE  first = S \/ Cardinality(first) >= n
<1> DEFINE ranks == {Cardinality(below[x]) : x \in S \ first}
<1>1. \A x \in S : IsFiniteSet(below[x]) /\ Cardinality(below[x]) \in Nat
  <2>1. TAKE x \in S
  <2>2. IsFiniteSet(below[x])
    BY FS_Subset
  <2> QED
    BY <2>2, FS_CardinalityType
<1>2. IsFiniteSet(first) /\ Cardinality(first) \in Nat
  <2>1. IsFiniteSet(first)
    BY FS_Subset
  <2> QED
    BY <2>1, FS_CardinalityType
<1>3. ASSUME first # S
      PROVE  Cardinality(first) >= n
  <2>1. ranks \in SUBSET Nat /\ ranks # {}
    BY <1>1, <1>3
  <2>2. PICK rank \in ranks : \A other \in ranks : rank <= other
    <3> HIDE DEF ranks
    <3> QED
      BY <2>1, LeastExists
  <2>3. PICK x \in S \ first : rank = Cardinality(below[x])
    OBVIOUS
  <2>4. Cardinality(below[x]) >= n /\ Cardinality(below[x]) \in Nat
    BY <1>1, <2>3
  <2>5. \A y \in below[x] : y \in first
    <3>1. TAKE y \in below[x]
    <3>2. y \in S /\ y \notin below[y] /\ below[y] \subseteq below[x]
      OBVIOUS
    <3>3. below[y] \in SUBSET below[x] /\ below[y] # below[x]
      BY <3>1, <3>2
    <3>4. Cardinality(below[y]) < Cardinality(below[x])
      BY <1>1, <2>3, <3>2, <3>3, FS_Subset
    <3>5. SUFFICES ASSUME y \notin first PROVE FALSE
      OBVIOUS
    <3>6. Cardinality(below[y]) \in ranks
      BY <3>2, <3>5
    <3>7. Cardinality(below[y]) \in Nat
      BY <1>1, <3>2
    <3>8. rank <= Cardinality(below[y])
      BY <2>2, <3>6, Zenon
    <3> HIDE DEF ranks
    <3> QED
      BY <2>3, <2>4, <3>4, <3>7, <3>8
  <2>6. below[x] \in SUBSET first
    BY <2>5
  <2>7. Cardinality(below[x]) <= Cardinality(first)
    BY <1>2, <2>6, FS_Subset
  <2> QED
    BY <1>2, <2>4, <2>7
<1> QED
  BY <1>3

\* One trim suffices: what exceeds the capacity after it is pinned.
LEMMA TrimFits ==
  ASSUME NEW reg, NEW hp, IsFiniteSet(Present(reg)),
         \A t \in Present(reg) : hp[reg[t]].lastAccess \in Nat
  PROVE  \/ Cardinality(Present(Trim(reg, hp))) <= Capacity
         \/ \A t \in Present(Trim(reg, hp)) : Pinned(hp[reg[t]])
<1> DEFINE present  == Present(reg)
           inactive == {t \in present : ~Pinned(hp[reg[t]])}
           expired  == {t \in inactive : now - hp[reg[t]].lastAccess >= IdleTimeout}
           kept     == inactive \ expired
           left     == present \ expired
           excess   == Cardinality(left) - Capacity
           older(t) == {u \in kept : Before(hp, reg, u, t)}
           dropped  == {t \in kept : Cardinality(older(t)) < excess}
<1>1. Victims(reg, hp) = expired \cup dropped
  BY DEF Victims, Present
<1>2. Present(Trim(reg, hp)) = left \ dropped
  BY <1>1 DEF Trim, Present
<1>3. \A t \in present : reg[t] # None => t \in Tenants
  BY DEF Present
<1>4. IsFiniteSet(left) /\ Cardinality(left) \in Nat /\ IsFiniteSet(kept) /\ IsFiniteSet(dropped)
  <2>1. left \in SUBSET present /\ kept \in SUBSET present /\ dropped \in SUBSET present
    OBVIOUS
  <2>2. IsFiniteSet(left) /\ IsFiniteSet(kept) /\ IsFiniteSet(dropped)
    <3> HIDE DEF left, kept, dropped
    <3> QED
      BY <2>1, FS_Subset
  <2> QED
    BY <2>2, FS_CardinalityType
<1>5. Capacity \in Nat /\ kept \in SUBSET Nat
      /\ \A t \in kept : hp[reg[t]].lastAccess \in Nat
  BY RegistryAssumption DEF RegistryAssumption, Present
<1>6. dropped \in SUBSET left /\ kept \in SUBSET left
  OBVIOUS
<1>7. /\ Cardinality(Present(Trim(reg, hp))) = Cardinality(left) - Cardinality(dropped)
      /\ Cardinality(dropped) \in Nat
  <2>1. left \cap dropped = dropped
    BY <1>6
  <2> HIDE DEF left, dropped
  <2>2. Cardinality(left \ dropped) = Cardinality(left) - Cardinality(left \cap dropped)
    BY <1>4, FS_Difference
  <2>3. Cardinality(dropped) \in Nat
    BY <1>4, FS_CardinalityType
  <2> QED
    BY <1>2, <2>1, <2>2, <2>3
<1>8. CASE Cardinality(left) <= Capacity
  <2> HIDE DEF left, dropped
  <2> QED
    BY <1>4, <1>5, <1>7, <1>8
<1>9. CASE ~(Cardinality(left) <= Capacity)
  <2> DEFINE below == [t \in kept |-> older(t)]
  <2>1. excess \in Nat
    BY <1>4, <1>5, <1>9
  <2>2. \A x, y, z \in kept : Before(hp, reg, x, y) /\ Before(hp, reg, y, z) => Before(hp, reg, x, z)
    <3>1. TAKE x, y, z \in kept
    <3>2. /\ hp[reg[x]].lastAccess \in Nat /\ hp[reg[y]].lastAccess \in Nat
          /\ hp[reg[z]].lastAccess \in Nat /\ x \in Nat /\ y \in Nat /\ z \in Nat
      BY <1>5
    <3> HIDE DEF kept
    <3> QED
      BY <3>2 DEF Before
  <2>3. \A x \in kept : ~Before(hp, reg, x, x)
    <3> HIDE DEF kept
    <3> QED
      BY <1>5 DEF Before
  <2>4. /\ below \in [kept -> SUBSET kept]
        /\ \A x, y \in kept : y \in below[x] <=> Before(hp, reg, y, x)
        /\ \A x \in kept : below[x] = older(x)
    <3> HIDE DEF kept
    <3> QED
      OBVIOUS
  <2>5. /\ \A x, y \in kept : y \in below[x] => below[y] \subseteq below[x]
        /\ \A x \in kept : x \notin below[x]
    <3> HIDE DEF kept, below
    <3> QED
      BY <2>2, <2>3, <2>4
  <2>6. dropped \in SUBSET kept /\ \A x \in kept : x \in dropped <=> Cardinality(below[x]) < excess
    <3> HIDE DEF kept, below, excess, older
    <3> QED
      BY <2>4
  <2>7. dropped = kept \/ Cardinality(dropped) >= excess
    <3> HIDE DEF below, kept, excess, dropped
    <3> QED
      BY <1>4, <2>1, <2>4, <2>5, <2>6, RankedBelow
  <2>8. CASE dropped = kept
    <3>1. \A t \in Present(Trim(reg, hp)) : Pinned(hp[reg[t]])
      <4>1. Present(Trim(reg, hp)) = left \ kept
        BY <1>2, <2>8
      <4> HIDE DEF dropped
      <4> QED
        BY <4>1
    <3> QED
      BY <3>1
  <2>9. CASE Cardinality(dropped) >= excess
    <3> HIDE DEF left, dropped
    <3> QED
      BY <1>4, <1>5, <1>7, <2>9
  <2> QED
    BY <2>7, <2>8, <2>9
<1> QED
  BY <1>8, <1>9

\* A call that takes or gives back a lease leaves the registry within its capacity, unless
\* every entry that is left is pinned by a send in progress or a pending backoff.
THEOREM Spec_CapacityAfterEachCall == Spec => CapacityAfterEachCall
<1> DEFINE Fits == \/ Cardinality(Registered') <= Capacity
                   \/ \A t \in Registered' : Pinned(heap[registry[t]])'
<1>1. ASSUME NEW reg, NEW hp, Settles(reg, hp)
      PROVE  Fits
  <2>1. Sound(reg, hp, leases', deadline') /\ registry' = Trim(reg, hp) /\ UNCHANGED now
    BY <1>1 DEF Settles
  <2>2. \A t \in Present(reg) : hp[reg[t]].lastAccess \in Nat
    BY <2>1 DEF Sound, OwnEntries, Present, Entry
  <2>3. \/ Cardinality(Present(registry')) <= Capacity
        \/ \A t \in Present(registry') : Pinned(hp[reg[t]])
    BY <2>1, <2>2, TrimFits DEF Sound
  <2>4. \A t \in Present(registry') : heap'[registry'[t]] = hp[reg[t]]
    <3>1. Sound(registry', hp, leases', deadline') /\ heap' = Collect(hp, registry', leases')
      BY <1>1, <2>1, TrimIsSound DEF Settles
    <3>2. \A t \in Tenants : registry'[t] # None => heap'[registry'[t]] = hp[registry'[t]]
      BY <3>1, CollectIsSound
    <3>3. \A t \in Tenants : registry'[t] # None => registry'[t] = reg[t]
      BY <2>1, VictimsAreIdle
    <3> QED
      BY <3>2, <3>3 DEF Present
  <2>5. Registered' = Present(registry')
    BY DEF Registered, Present
  <2>6. ASSUME \A t \in Present(registry') : Pinned(hp[reg[t]])
        PROVE  \A t \in Registered' : Pinned(heap[registry[t]])'
    <3>1. SUFFICES ASSUME NEW t \in Present(registry')
                   PROVE  Pinned(heap[registry[t]])'
      BY <2>5
    <3>2. Pinned(hp[reg[t]]) /\ heap'[registry'[t]] = hp[reg[t]] /\ now' = now
      BY <2>1, <2>4, <2>6
    <3> QED
      BY <3>2 DEF Pinned, HasPendingBackoff
  <2> QED
    BY <2>3, <2>5, <2>6
<1>2. ASSUME IInv, [Next]_vars
      PROVE  [(\E s \in Sends : (leases[s] = None) # (leases'[s] = None)) => Fits]_vars
  <2>1. ASSUME NEW s \in Sends, NEW t \in Tenants, AcquireLease(s, t)
        PROVE  Fits
    BY <1>1, <1>2, <2>1, AcquireLeaseSettles
  <2>2. ASSUME NEW s \in Sends, GiveUp(s) \/ Succeed(s) \/ Fail(s)
        PROVE  Fits
    <3>1. Ends(s)
      BY <1>2, <2>2, GiveUpEnds, SucceedEnds, FailEnds
    <3> QED
      BY <1>1, <3>1 DEF Ends
  <2>3. ASSUME NEW s \in Sends, StartSend(s)
        PROVE  ~\E r \in Sends : (leases[r] = None) # (leases'[r] = None)
    <3>1. leases[s] # None /\ leases'[s] # None /\ \A r \in Sends : r # s => leases'[r] = leases[r]
      BY <1>2, <2>3, StartSendIsSound DEF StartSend
    <3> QED
      BY <3>1
  <2>4. CASE Tick \/ UNCHANGED vars
    BY <2>4 DEF Tick, vars
  <2> HIDE DEF Fits
  <2> QED
    BY <1>2, <2>1, <2>2, <2>3, <2>4 DEF Next
<1> QED
  BY <1>2, Invariance, PTL DEF Spec, CapacityAfterEachCall

-----------------------------------------------------------------------------
(* One gate under concurrent senders *)

\* A permit never comes from the future: generations only grow.
PermitsAreOld ==
  \A s \in Senders : InFlight(s) => permits[s].generation <= gate.generation

\* While the gate has a deadline, an outcome it accepts is that of the flagged probe,
\* which began at or after the deadline.
CurrentIsTheProbe ==
  gate.blockedUntil > 0 =>
    \A s \in Current : gate.probeInFlight /\ permits[s].startedAt >= gate.blockedUntil

\* The probe flag is only ever set on a gate with a deadline.
ProbeNeedsDeadline == gate.probeInFlight => gate.blockedUntil > 0

\* The inductive invariant.
GateIInv ==
  /\ GateTypeOK
  /\ PermitsAreOld
  /\ CurrentIsTheProbe
  /\ ProbeNeedsDeadline
  /\ SingleProbe
  /\ ProbeIsOutstanding

-----------------------------------------------------------------------------

LEMMA InitGateIInv == GateInit => GateIInv
BY GateAssumption
   DEF GateInit, GateIInv, GateTypeOK, Gate, NewGate, PermitsAreOld, CurrentIsTheProbe,
       ProbeNeedsDeadline, SingleProbe, ProbeIsOutstanding, Current, InFlight

\* What an acquisition does to the gate and to the permits.
LEMMA AcquireStep ==
  ASSUME GateIInv, NEW s \in Senders, Acquire(s)
  PROVE  GateIInv'
<1> DEFINE p == [generation |-> gate.generation, probe |-> gate.blockedUntil > 0,
                 startedAt |-> clock]
<1>1. /\ gate \in Gate /\ clock \in Nat
      /\ permits \in [Senders -> HeldPermit \cup {NoPermit}]
  BY DEF GateIInv, GateTypeOK
<1>2. /\ permits' = [permits EXCEPT ![s] = p]
      /\ gate' = Acquired(gate) /\ clock' = clock
  BY DEF Acquire, PermitOf
<1>3. p \in HeldPermit /\ p # NoPermit
  <2>1. gate.generation \in Nat /\ (gate.blockedUntil > 0) \in BOOLEAN
    BY <1>1 DEF Gate
  <2>2. p \in HeldPermit
    BY <1>1, <2>1 DEF HeldPermit
  <2>3. QED
    BY <2>2, GateAssumption DEF HeldPermit
<1>4. /\ gate'.generation = gate.generation
      /\ gate'.blockedUntil = gate.blockedUntil
      /\ gate'.probeInFlight = (gate.probeInFlight \/ gate.blockedUntil > 0)
      /\ gate' \in Gate
  BY <1>1, <1>2 DEF Acquired, Gate
<1>5. gate.blockedUntil > 0 => Current = {}
  BY DEF Acquire, CanAcquire, GateIInv, CurrentIsTheProbe
<1>6. Current' = Current \cup {s}
  BY <1>1, <1>2, <1>3, <1>4 DEF Current, InFlight
<1>7. \A t \in Senders : t # s => permits'[t] = permits[t]
  BY <1>1, <1>2
<1>8. permits'[s] = p
  BY <1>1, <1>2
<1>9. clock >= gate.blockedUntil
  BY <1>1 DEF Acquire, CanAcquire, HasPendingBackoff, Gate
<1>10. GateTypeOK'
  BY <1>1, <1>2, <1>3, <1>4 DEF GateTypeOK
<1>11. PermitsAreOld'
  BY <1>1, <1>4, <1>7, <1>8 DEF GateIInv, PermitsAreOld, InFlight, Gate
<1>12. CurrentIsTheProbe'
  <2>1. gate.blockedUntil > 0 => gate'.probeInFlight
    BY <1>4
  <2>2. permits'[s].startedAt >= gate.blockedUntil
    BY <1>8, <1>9
  <2>3. QED
    BY <1>4, <1>5, <1>6, <2>1, <2>2 DEF CurrentIsTheProbe
<1>13. ProbeNeedsDeadline'
  BY <1>4 DEF GateIInv, ProbeNeedsDeadline
<1>14. SingleProbe'
  BY <1>4, <1>5, <1>6 DEF SingleProbe
<1>15. ProbeIsOutstanding'
  <2>1. CASE gate.blockedUntil > 0
    <3>1. p.probe = (gate.blockedUntil > 0)
      OBVIOUS
    <3>2. permits'[s].probe = TRUE
      BY <2>1, <1>8, <3>1
    <3>3. QED
      BY <1>6, <3>2 DEF ProbeIsOutstanding
  <2>2. CASE ~(gate.blockedUntil > 0)
    BY <2>2, <1>4 DEF GateIInv, ProbeNeedsDeadline, ProbeIsOutstanding
  <2>3. QED
    BY <2>1, <2>2
<1>16. QED
  BY <1>10, <1>11, <1>12, <1>13, <1>14, <1>15 DEF GateIInv

\* A permit is given back and the gate did not accept its outcome.
LEMMA StaleOutcomeStep ==
  ASSUME GateIInv, NEW s \in Senders, s \notin Current,
         gate' = gate, clock' = clock, permits' = [permits EXCEPT ![s] = NoPermit]
  PROVE  GateIInv'
<1>1. permits \in [Senders -> HeldPermit \cup {NoPermit}]
  BY DEF GateIInv, GateTypeOK
<1>2. Current' = Current /\ \A t \in Current : permits'[t] = permits[t]
  BY <1>1 DEF Current, InFlight
<1>3. GateTypeOK'
  BY <1>1 DEF GateIInv, GateTypeOK
<1>4. PermitsAreOld'
  BY <1>1 DEF GateIInv, PermitsAreOld, InFlight
<1>5. QED
  BY <1>2, <1>3, <1>4 DEF GateIInv, CurrentIsTheProbe, ProbeNeedsDeadline, SingleProbe,
     ProbeIsOutstanding

LEMMA SendSucceedsStep ==
  ASSUME GateIInv, NEW s \in Senders, SendSucceeds(s)
  PROVE  GateIInv'
<1>1. /\ gate \in Gate /\ permits \in [Senders -> HeldPermit \cup {NoPermit}]
      /\ clock \in Nat
  BY DEF GateIInv, GateTypeOK
<1>2. CASE s \notin Current
  BY <1>2, StaleOutcomeStep DEF SendSucceeds, RecordSuccess, Current
<1>3. CASE s \in Current
  <2>1. /\ gate' \in Gate /\ gate'.generation = gate.generation
        /\ gate'.blockedUntil = 0 /\ gate'.probeInFlight = FALSE
    BY <1>1, <1>3 DEF SendSucceeds, RecordSuccess, Current, Gate
  <2>2. GateTypeOK'
    BY <1>1, <2>1 DEF SendSucceeds, GateTypeOK
  <2>3. PermitsAreOld'
    BY <1>1, <2>1 DEF GateIInv, PermitsAreOld, InFlight, SendSucceeds
  <2>4. QED
    BY <2>1, <2>2, <2>3 DEF GateIInv, CurrentIsTheProbe, ProbeNeedsDeadline, SingleProbe,
       ProbeIsOutstanding
<1>4. QED
  BY <1>2, <1>3

\* A failure the gate accepts leaves no current permit behind.
LEMMA AcceptedFailure ==
  ASSUME GateIInv, NEW s \in Current, SendFails(s)
  PROVE  /\ gate' \in Gate
         /\ gate'.generation = gate.generation + 1
         /\ gate'.probeInFlight = FALSE
         /\ Current' = {}
<1>1. /\ gate \in Gate /\ permits \in [Senders -> HeldPermit \cup {NoPermit}]
      /\ clock \in Nat
  BY DEF GateIInv, GateTypeOK
<1>2. PICK retryAfter \in RetryAfters :
        \E delay \in RetryDelays(gate.consecutiveFailures + 1, retryAfter) :
          gate' = RecordRetryableFailure(gate, permits[s], clock, delay)
  BY DEF SendFails
<1>3. PICK delay \in RetryDelays(gate.consecutiveFailures + 1, retryAfter) :
        gate' = RecordRetryableFailure(gate, permits[s], clock, delay)
  BY <1>2
<1>4. gate.consecutiveFailures + 1 \in Nat /\ retryAfter \in Nat
  BY <1>1, BoundsAssumption DEF Gate, BoundsAssumption
<1>5. delay \in Nat
  BY <1>3, <1>4, RetryDelayNat
<1>6. gate' = [generation          |-> gate.generation + 1,
               blockedUntil        |-> clock + delay,
               probeInFlight       |-> FALSE,
               consecutiveFailures |-> gate.consecutiveFailures + 1]
  BY <1>3 DEF RecordRetryableFailure, Current
<1>7. /\ gate' \in Gate /\ gate'.generation = gate.generation + 1
      /\ gate'.probeInFlight = FALSE
  BY <1>1, <1>5, <1>6 DEF Gate
<1>8. permits' = [permits EXCEPT ![s] = NoPermit]
  BY DEF SendFails
<1>9. Current' = {}
  BY <1>1, <1>7, <1>8 DEF GateIInv, PermitsAreOld, Current, InFlight, Gate, HeldPermit
<1>10. QED
  BY <1>7, <1>9

LEMMA SendFailsStep ==
  ASSUME GateIInv, NEW s \in Senders, SendFails(s)
  PROVE  GateIInv'
<1>1. /\ gate \in Gate /\ permits \in [Senders -> HeldPermit \cup {NoPermit}]
      /\ clock \in Nat
  BY DEF GateIInv, GateTypeOK
<1>2. /\ permits' = [permits EXCEPT ![s] = NoPermit] /\ clock' = clock
  BY DEF SendFails
<1>3. CASE s \notin Current
  <2>1. gate' = gate
    BY <1>3 DEF SendFails, RecordRetryableFailure, Current
  <2>2. QED
    BY <1>2, <1>3, <2>1, StaleOutcomeStep
<1>4. CASE s \in Current
  <2>1. /\ gate' \in Gate /\ gate'.generation = gate.generation + 1
        /\ gate'.probeInFlight = FALSE /\ Current' = {}
    BY <1>4, AcceptedFailure
  <2>2. GateTypeOK'
    BY <1>1, <1>2, <2>1 DEF GateTypeOK
  <2>3. PermitsAreOld'
    BY <1>1, <1>2, <2>1 DEF GateIInv, PermitsAreOld, InFlight, Gate, HeldPermit
  <2>4. QED
    BY <2>1, <2>2, <2>3 DEF GateIInv, CurrentIsTheProbe, ProbeNeedsDeadline, SingleProbe,
       ProbeIsOutstanding
<1>5. QED
  BY <1>3, <1>4

LEMMA NextGateIInv == GateIInv /\ [GateNext]_gateVars => GateIInv'
<1> SUFFICES ASSUME GateIInv, [GateNext]_gateVars
             PROVE  GateIInv'
  OBVIOUS
<1>1. CASE \E s \in Senders : Acquire(s)
  BY <1>1, AcquireStep
<1>2. CASE \E s \in Senders : SendSucceeds(s)
  BY <1>2, SendSucceedsStep
<1>3. CASE \E s \in Senders : SendFails(s)
  BY <1>3, SendFailsStep
<1>4. CASE ClockMoves
  BY <1>4, BoundsAssumption
     DEF ClockMoves, GateIInv, GateTypeOK, PermitsAreOld, CurrentIsTheProbe, ProbeNeedsDeadline,
         SingleProbe, ProbeIsOutstanding, Current, InFlight
<1>5. CASE UNCHANGED gateVars
  BY <1>5 DEF gateVars, GateIInv, GateTypeOK, PermitsAreOld, CurrentIsTheProbe, ProbeNeedsDeadline,
              SingleProbe, ProbeIsOutstanding, Current, InFlight
<1>6. QED
  BY <1>1, <1>2, <1>3, <1>4, <1>5 DEF GateNext

LEMMA SpecGateIInv == GateSpec => []GateIInv
BY InitGateIInv, NextGateIInv, PTL DEF GateSpec

-----------------------------------------------------------------------------

\* Gate, permits and clock keep their types.
THEOREM GateTypeCorrect == GateSpec => []GateTypeOK
<1>1. GateIInv => GateTypeOK
  BY DEF GateIInv
<1>2. QED
  BY <1>1, SpecGateIInv, PTL

\* While a tenant has a deadline, one accepted outcome at most is outstanding, and a set
\* probe flag always has the sender that will clear it.
THEOREM OneProbe == GateSpec => []ProbeIsOneSend
<1>1. GateIInv => ProbeIsOneSend
  BY DEF GateIInv, ProbeIsOneSend
<1>2. QED
  BY <1>1, SpecGateIInv, PTL

\* Only a send that began at or after the deadline lifts a backoff.
THEOREM NoStaleLift == GateSpec => BackoffLiftedByLaterSend
<1> DEFINE Lift == (gate.blockedUntil > 0 /\ gate'.blockedUntil = 0)
                     => \E s \in Senders : /\ InFlight(s) /\ permits'[s] = NoPermit
                                           /\ permits[s].startedAt >= gate.blockedUntil
<1>1. GateIInv /\ [GateNext]_gateVars => [Lift]_gateVars
  <2> SUFFICES ASSUME GateIInv, GateNext, gate.blockedUntil > 0, gate'.blockedUntil = 0
               PROVE  \E s \in Senders : /\ InFlight(s) /\ permits'[s] = NoPermit
                                         /\ permits[s].startedAt >= gate.blockedUntil
    BY DEF Lift
  <2>1. gate \in Gate /\ permits \in [Senders -> HeldPermit \cup {NoPermit}] /\ clock \in Nat
    BY DEF GateIInv, GateTypeOK
  <2>2. CASE \E s \in Senders : Acquire(s)
    BY <2>1, <2>2 DEF Acquire, Acquired, Gate
  <2>3. ASSUME NEW s \in Senders, SendSucceeds(s)
        PROVE  /\ InFlight(s) /\ permits'[s] = NoPermit
               /\ permits[s].startedAt >= gate.blockedUntil
    <3>1. s \in Current
      BY <2>3 DEF SendSucceeds, RecordSuccess, Current
    <3>2. QED
      BY <2>1, <2>3, <3>1 DEF SendSucceeds, GateIInv, CurrentIsTheProbe
  <2>4. ASSUME NEW s \in Senders, SendFails(s)
        PROVE  FALSE
    <3>1. PICK retryAfter \in RetryAfters :
            \E delay \in RetryDelays(gate.consecutiveFailures + 1, retryAfter) :
              gate' = RecordRetryableFailure(gate, permits[s], clock, delay)
      BY <2>4 DEF SendFails
    <3>2. PICK delay \in RetryDelays(gate.consecutiveFailures + 1, retryAfter) :
            gate' = RecordRetryableFailure(gate, permits[s], clock, delay)
      BY <3>1
    <3>3. gate.consecutiveFailures + 1 \in Nat /\ retryAfter \in Nat
      BY <2>1, BoundsAssumption DEF Gate, BoundsAssumption
    <3>4. delay \in Nat /\ delay > 0
      BY <3>2, <3>3, RetryDelayNat
    <3>5. gate'.blockedUntil = gate.blockedUntil \/ gate'.blockedUntil = clock + delay
      BY <3>2 DEF RecordRetryableFailure
    <3>6. QED
      BY <2>1, <3>4, <3>5 DEF Gate
  <2>5. CASE ClockMoves
    BY <2>5 DEF ClockMoves
  <2>6. QED
    BY <2>2, <2>3, <2>4, <2>5 DEF GateNext
<1>2. QED
  BY <1>1, SpecGateIInv, PTL DEF GateSpec, BackoffLiftedByLaterSend

\* A burst of failures escalates the backoff once.
THEOREM BurstCountsOnce == GateSpec => BurstEscalatesOnce
<1> DEFINE Once == gate'.consecutiveFailures > gate.consecutiveFailures => Current' = {}
<1>1. GateIInv /\ [GateNext]_gateVars => [Once]_gateVars
  <2> SUFFICES ASSUME GateIInv, GateNext, gate'.consecutiveFailures > gate.consecutiveFailures
               PROVE  Current' = {}
    BY DEF Once
  <2>1. gate \in Gate
    BY DEF GateIInv, GateTypeOK
  <2>2. CASE \E s \in Senders : Acquire(s)
    BY <2>1, <2>2 DEF Acquire, Acquired, Gate
  <2>3. CASE \E s \in Senders : SendSucceeds(s)
    BY <2>1, <2>3 DEF SendSucceeds, RecordSuccess, Gate
  <2>4. ASSUME NEW s \in Senders, SendFails(s)
        PROVE  Current' = {}
    <3>1. s \in Current
      BY <2>1, <2>4 DEF SendFails, RecordRetryableFailure, Current, Gate
    <3>2. QED
      BY <2>4, <3>1, AcceptedFailure
  <2>5. CASE ClockMoves
    BY <2>1, <2>5 DEF ClockMoves, Gate
  <2>6. QED
    BY <2>2, <2>3, <2>4, <2>5 DEF GateNext
<1>2. QED
  BY <1>1, SpecGateIInv, PTL DEF GateSpec, BurstEscalatesOnce
=============================================================================
