------------------------------ MODULE GateOps ------------------------------
(***************************************************************************)
(* The methods of one TransmissionGate as operators on a gate record and   *)
(* a clock reading.  A gate is what every sender of a tenant shares: the   *)
(* instant until which the tenant is blocked, whether the one half-open    *)
(* probe is out, the run of failures, and a generation that tells a late   *)
(* outcome from a current one.                                             *)
(***************************************************************************)
EXTENDS Integers

CONSTANTS MinFallbackDelay,   \* MIN_FALLBACK_DELAY_MS, in clock units
          MaxFallbackDelay,   \* MAX_FALLBACK_DELAY_MS, in clock units
          RetryAfters,        \* retryAfterMs values of a response; 0 is "no usable header"
          MaxTime,            \* bound: largest clock reading
          MaxGeneration       \* bound: failures one gate counts

ASSUME DelayAssumption ==
  /\ MinFallbackDelay \in Nat \ {0}
  /\ MaxFallbackDelay \in Nat
  /\ MinFallbackDelay <= MaxFallbackDelay

ASSUME BoundsAssumption ==
  /\ RetryAfters \subseteq Nat
  /\ MaxTime \in Nat
  /\ MaxGeneration \in Nat

Gate == [generation: Nat, blockedUntil: Nat, probeInFlight: BOOLEAN, consecutiveFailures: Nat]

Permit == [generation: Nat, probe: BOOLEAN]

NewGate == [generation |-> 0, blockedUntil |-> 0, probeInFlight |-> FALSE,
            consecutiveFailures |-> 0]

HasPendingBackoff(g, now) == now < g.blockedUntil

\* A gate that failed and whose delay is over is half open: one probe may pass.
CanAcquire(g, now) ==
  /\ ~HasPendingBackoff(g, now)
  /\ g.blockedUntil > 0 => ~g.probeInFlight

\* What acquire() returns, and the gate it leaves, when CanAcquire holds.
PermitOf(g) == [generation |-> g.generation, probe |-> g.blockedUntil > 0]

Acquired(g) == [g EXCEPT !.probeInFlight = @ \/ g.blockedUntil > 0]

\* Mutation: the probe flag is left set.
RecordSuccessKeepingProbe(g, permit) ==
  IF permit.generation # g.generation
  THEN g
  ELSE [g EXCEPT !.blockedUntil = 0, !.consecutiveFailures = 0]

\* Mutation: the generation test is dropped, so a stale success counts.
RecordAnySuccess(g, permit) ==
  [g EXCEPT !.blockedUntil = 0, !.probeInFlight = FALSE, !.consecutiveFailures = 0]

RecordSuccess(g, permit) ==
  IF permit.generation # g.generation
  THEN g
  ELSE [g EXCEPT !.blockedUntil = 0, !.probeInFlight = FALSE, !.consecutiveFailures = 0]

Clamp(d) == IF d < MinFallbackDelay THEN MinFallbackDelay
            ELSE IF d > MaxFallbackDelay THEN MaxFallbackDelay ELSE d

\* The delays computeFallbackDelay can draw after `fails` consecutive failures:
\* floor(e * (0.8 + r * 0.4)) for r in [0, 1), clamped, where e doubles per failure.
FallbackDelays(fails) ==
  LET exponent    == IF fails > 31 THEN 30 ELSE IF fails > 0 THEN fails - 1 ELSE 0
      exponential == MinFallbackDelay * 2 ^ exponent
      jittered    == {j \in (4 * exponential) \div 5 .. (6 * exponential) \div 5 :
                        5 * j < 6 * exponential}
  IN  {Clamp(j) : j \in jittered}

\* The delays a failure may impose; retryAfter = 0 stands for an absent header.
RetryDelays(fails, retryAfter) ==
  IF retryAfter > 0
  THEN {IF retryAfter < MaxFallbackDelay THEN retryAfter ELSE MaxFallbackDelay}
  ELSE FallbackDelays(fails)

\* Mutation: a failure keeps the generation, so its contemporaries count too.
RecordFailureInGeneration(g, permit, now, delay) ==
  IF permit.generation # g.generation
  THEN g
  ELSE [generation          |-> g.generation,
        blockedUntil        |-> now + delay,
        probeInFlight       |-> FALSE,
        consecutiveFailures |-> g.consecutiveFailures + 1]

RecordRetryableFailure(g, permit, now, delay) ==
  IF permit.generation # g.generation
  THEN g
  ELSE [generation          |-> g.generation + 1,
        blockedUntil        |-> now + delay,
        probeInFlight       |-> FALSE,
        consecutiveFailures |-> g.consecutiveFailures + 1]
=============================================================================
