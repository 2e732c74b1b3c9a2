---------------------- MODULE TransmissionGateRegistry ----------------------
(***************************************************************************)
(* The registry that gives every tenant its TransmissionGate, and the      *)
(* sends (attemptSend of the delivery manager) that lease gates from it.   *)
(* A send leases its tenant's entry, may wait for a token, may acquire a   *)
(* permit and wait for the network, and releases the lease in the same     *)
(* turn in which it records its outcome.  Every acquire and release trims  *)
(* the registry.                                                           *)
(*                                                                         *)
(* Entries are objects: a lease keeps the object it was given even if the  *)
(* registry has dropped it and made another for the tenant.  `heap` holds  *)
(* the objects, `registry` says which one a tenant's key maps to.          *)
(***************************************************************************)
EXTENDS GateOps, FiniteSets

CONSTANTS Tenants,       \* tenant identifiers, ordered as the code orders their strings
          Sends,         \* the calls of attemptSend that can be in progress at once
          Incarnations,  \* tells apart the entry objects made for one tenant
          Capacity,      \* entries kept when nothing pins them
          IdleTimeout,   \* idle time after which an entry is dropped
          None           \* no entry, no object, no lease, no permit

Ids == Tenants \X Incarnations

Entry == [gate: Gate, activeLeases: Nat, lastAccess: Nat]

Lease == [tenant: Tenants, id: Ids, permit: Permit \cup {None}]

ASSUME RegistryAssumption ==
  /\ Tenants \subseteq Nat
  /\ IsFiniteSet(Sends)
  /\ Incarnations # {}
  /\ Capacity \in Nat \ {0}
  /\ IdleTimeout \in Nat \ {0}
  /\ None \notin Ids \cup Entry \cup Lease \cup Permit

VARIABLES registry, \* registry[t]: the object under the tenant's key, or None
          heap,     \* heap[i]: the entry object i, None when nothing refers to it
          leases,   \* leases[s]: the lease of a send in progress, or None
          now,      \* the clock
          deadline  \* ghost: deadline[t], the last backoff imposed on t and not lifted

vars == <<registry, heap, leases, now, deadline>>

Registered == {t \in Tenants : registry[t] # None}

Init ==
  /\ registry = [t \in Tenants |-> None]
  /\ heap = [i \in Ids |-> None]
  /\ leases = [s \in Sends |-> None]
  /\ now = 0
  /\ deadline = [t \in Tenants |-> 0]

-----------------------------------------------------------------------------
(* The registry's own operations *)

\* Mutation: only leases pin an entry, a pending backoff does not.
PinnedByLeaseOnly(entry) == entry.activeLeases > 0

\* Mutation: only a pending backoff pins an entry.
PinnedByBackoffOnly(entry) == HasPendingBackoff(entry.gate, now)

\* Entries trim never considers.
Pinned(entry) == entry.activeLeases > 0 \/ HasPendingBackoff(entry.gate, now)

\* Least recently used first, then by identifier.
Before(hp, reg, t, u) ==
  \/ hp[reg[t]].lastAccess < hp[reg[u]].lastAccess
  \/ hp[reg[t]].lastAccess = hp[reg[u]].lastAccess /\ t < u

\* Mutation: the capacity pass stops one entry early.
VictimsOffByOne(reg, hp) ==
  LET present  == {t \in Tenants : reg[t] # None}
      inactive == {t \in present : ~Pinned(hp[reg[t]])}
      expired  == {t \in inactive : now - hp[reg[t]].lastAccess >= IdleTimeout}
      kept     == inactive \ expired
      excess   == Cardinality(present \ expired) - Capacity - 1
  IN  expired \cup {t \in kept : Cardinality({u \in kept : Before(hp, reg, u, t)}) < excess}

\* The tenants one trim drops: the inactive ones idle for too long, and then, least
\* recently used first, as many of the others as exceed the capacity.
Victims(reg, hp) ==
  LET present  == {t \in Tenants : reg[t] # None}
      inactive == {t \in present : ~Pinned(hp[reg[t]])}
      expired  == {t \in inactive : now - hp[reg[t]].lastAccess >= IdleTimeout}
      kept     == inactive \ expired
      excess   == Cardinality(present \ expired) - Capacity
  IN  expired \cup {t \in kept : Cardinality({u \in kept : Before(hp, reg, u, t)}) < excess}

Trim(reg, hp) == [t \in Tenants |-> IF t \in Victims(reg, hp) THEN None ELSE reg[t]]

\* The objects something still refers to; the others are garbage.
InUse(reg, lss) ==
  {reg[t] : t \in Tenants} \cup {lss[s].id : s \in {x \in Sends : lss[x] # None}}

Collect(hp, reg, lss) == [i \in Ids |-> IF i \in InUse(reg, lss) THEN hp[i] ELSE None]

FreshId(reg, t) == CHOOSE i \in ({t} \X Incarnations) \ InUse(reg, leases) : TRUE

NewEntry == [gate |-> NewGate, activeLeases |-> 0, lastAccess |-> now]

Leased(entry) == [entry EXCEPT !.activeLeases = @ + 1, !.lastAccess = now]

Unleased(entry) == [entry EXCEPT !.activeLeases = @ - 1, !.lastAccess = now]

-----------------------------------------------------------------------------
(* A send *)

\* gates.acquire(tenantId): trim, find or create, pin, trim.
AcquireLease(s, t) ==
  LET trimmed == Trim(registry, heap)
      id      == IF trimmed[t] # None THEN trimmed[t] ELSE FreshId(trimmed, t)
      entry   == IF trimmed[t] # None THEN heap[id] ELSE NewEntry
      hp      == [heap EXCEPT ![id] = Leased(entry)]
      reg     == Trim([trimmed EXCEPT ![t] = id], hp)
  IN  /\ leases[s] = None
      /\ leases' = [leases EXCEPT ![s] = [tenant |-> t, id |-> id, permit |-> None]]
      /\ registry' = reg
      /\ heap' = Collect(hp, reg, leases')
      /\ UNCHANGED <<now, deadline>>

\* The send records `gate` in its entry and releases its lease.
Release(s, gate) ==
  LET id  == leases[s].id
      hp  == [heap EXCEPT ![id] = Unleased([@ EXCEPT !.gate = gate])]
      reg == Trim(registry, hp)
  IN  /\ leases' = [leases EXCEPT ![s] = None]
      /\ registry' = reg
      /\ heap' = Collect(hp, reg, leases')
      /\ UNCHANGED now

Sending(s) == leases[s] # None /\ leases[s].permit # None

GateOf(s) == heap[leases[s].id].gate

\* The send ends without a permit: deferred, no token, or a replay check that failed.
GiveUp(s) ==
  /\ leases[s] # None /\ ~Sending(s)
  /\ Release(s, GateOf(s))
  /\ UNCHANGED deadline

StartSend(s) ==
  /\ leases[s] # None /\ ~Sending(s)
  /\ CanAcquire(GateOf(s), now)
  /\ leases' = [leases EXCEPT ![s].permit = PermitOf(GateOf(s))]
  /\ heap' = [heap EXCEPT ![leases[s].id].gate = Acquired(@)]
  /\ UNCHANGED <<registry, now, deadline>>

\* Does the gate accept the outcome of s?
Accepted(s) == leases[s].permit.generation = GateOf(s).generation

Succeed(s) ==
  /\ Sending(s)
  /\ Release(s, RecordSuccess(GateOf(s), leases[s].permit))
  /\ deadline' = IF Accepted(s) THEN [deadline EXCEPT ![leases[s].tenant] = 0] ELSE deadline

Fail(s) ==
  /\ Sending(s)
  /\ Accepted(s) => GateOf(s).generation < MaxGeneration
  /\ \E retryAfter \in RetryAfters :
       \E delay \in RetryDelays(GateOf(s).consecutiveFailures + 1, retryAfter) :
         /\ Release(s, RecordRetryableFailure(GateOf(s), leases[s].permit, now, delay))
         /\ deadline' = IF Accepted(s)
                        THEN [deadline EXCEPT ![leases[s].tenant] = now + delay]
                        ELSE deadline

Tick ==
  /\ now < MaxTime
  /\ now' = now + 1
  /\ UNCHANGED <<registry, heap, leases, deadline>>

Next ==
  \/ \E s \in Sends : \/ \E t \in Tenants : AcquireLease(s, t)
                      \/ GiveUp(s) \/ StartSend(s) \/ Succeed(s) \/ Fail(s)
  \/ Tick

Spec == Init /\ [][Next]_vars

-----------------------------------------------------------------------------
(* Properties *)

TypeOK ==
  /\ registry \in [Tenants -> Ids \cup {None}]
  /\ heap \in [Ids -> Entry \cup {None}]
  /\ leases \in [Sends -> Lease \cup {None}]
  /\ now \in Nat
  /\ deadline \in [Tenants -> Nat]

\* Every send of a tenant works on the gate the registry would hand to the next one:
\* trim never splits a tenant over two gates.
OneGatePerTenant ==
  \A s \in Sends : leases[s] # None => registry[leases[s].tenant] = leases[s].id

\* An entry counts exactly the leases that are out, however often it was trimmed
\* around: the count that keeps it from being evicted never drifts.
LeasesCounted ==
  \A t \in Registered :
    heap[registry[t]].activeLeases
      = Cardinality({s \in Sends : leases[s] # None /\ leases[s].id = registry[t]})

\* The registry is well formed: one gate for each tenant in use, with as many leases as
\* are out.
RegistryInv == TypeOK /\ OneGatePerTenant /\ LeasesCounted

\* A backoff imposed on a tenant holds for the whole tenant until its deadline: no
\* send to it begins before, through whatever leases, evictions and new entries.
NoSendDuringBackoff ==
  [][\A s \in Sends :
       (~Sending(s) /\ Sending(s)') => now >= deadline[leases[s].tenant]]_vars

\* A call leaves the registry within its capacity unless everything that exceeds it is
\* pinned by a send in progress or a pending backoff.
CapacityAfterEachCall ==
  [][(\E s \in Sends : (leases[s] = None) # (leases'[s] = None))
       => \/ Cardinality(Registered') <= Capacity
          \/ \A t \in Registered' : Pinned(heap[registry[t]])']_vars
=============================================================================
