-------------------------- MODULE TransmissionGate --------------------------
(***************************************************************************)
(* One TransmissionGate shared by concurrent senders.  A sender acquires a *)
(* permit, awaits the network for as long as it likes, and then reports    *)
(* success or a retryable failure; nothing orders the reports of different *)
(* senders.  The clock is Date.now(): it may also be set back.             *)
(*                                                                         *)
(* The ghost field startedAt of an outstanding permit is the clock reading *)
(* at which it was acquired.                                               *)
(***************************************************************************)
EXTENDS GateOps

CONSTANTS Senders,  \* the sends that can be in flight at once
          NoPermit  \* what a sender that is not sending holds

ASSUME GateAssumption ==
  NoPermit \notin [generation: Nat, probe: BOOLEAN, startedAt: Nat]

VARIABLES gate,    \* the gate record
          permits, \* permits[s]: the outstanding permit of sender s
          clock    \* the clock

gateVars == <<gate, permits, clock>>

HeldPermit == [generation: Nat, probe: BOOLEAN, startedAt: Nat]

InFlight(s) == permits[s] # NoPermit

GateInit ==
  /\ gate = NewGate
  /\ permits = [s \in Senders |-> NoPermit]
  /\ clock = 0

-----------------------------------------------------------------------------

\* acquire() returns a permit; when it returns undefined nothing changes.
Acquire(s) ==
  /\ ~InFlight(s)
  /\ CanAcquire(gate, clock)
  /\ permits' = [permits EXCEPT ![s] = [generation |-> PermitOf(gate).generation,
                                        probe      |-> PermitOf(gate).probe,
                                        startedAt  |-> clock]]
  /\ gate' = Acquired(gate)
  /\ UNCHANGED clock

\* A success or a permanent failure: both are recorded with recordSuccess.
SendSucceeds(s) ==
  /\ InFlight(s)
  /\ gate' = RecordSuccess(gate, permits[s])
  /\ permits' = [permits EXCEPT ![s] = NoPermit]
  /\ UNCHANGED clock

\* A retryable response, or a send that threw: the delay comes from the response
\* or is drawn at random.
SendFails(s) ==
  /\ InFlight(s)
  /\ permits[s].generation = gate.generation => gate.generation < MaxGeneration
  /\ \E retryAfter \in RetryAfters :
       \E delay \in RetryDelays(gate.consecutiveFailures + 1, retryAfter) :
         gate' = RecordRetryableFailure(gate, permits[s], clock, delay)
  /\ permits' = [permits EXCEPT ![s] = NoPermit]
  /\ UNCHANGED clock

\* The wall clock moves on, or is corrected backwards.
ClockMoves ==
  /\ clock' \in 0 .. MaxTime
  /\ UNCHANGED <<gate, permits>>

GateNext ==
  \/ \E s \in Senders : Acquire(s) \/ SendSucceeds(s) \/ SendFails(s)
  \/ ClockMoves

GateSpec == GateInit /\ [][GateNext]_gateVars

-----------------------------------------------------------------------------
(* Properties *)

GateTypeOK ==
  /\ gate \in Gate
  /\ permits \in [Senders -> HeldPermit \cup {NoPermit}]
  /\ clock \in Nat

\* The senders whose outcome the gate would still accept.
Current == {s \in Senders : InFlight(s) /\ permits[s].generation = gate.generation}

\* After a failure the tenant is probed by one send at a time: while the gate has a
\* deadline, past or pending, at most one outcome that it would accept is
\* outstanding, however many senders raced for it (acquire, recordRetryableFailure).
SingleProbe ==
  gate.blockedUntil > 0 => \A s, t \in Current : s = t

\* The probe flag is never left behind: when it blocks every sender, some sender is
\* out whose outcome will clear it (otherwise the tenant would be wedged forever).
ProbeIsOutstanding ==
  gate.probeInFlight => \E s \in Current : permits[s].probe

\* A tenant in backoff is probed by one send, whose outcome decides.
ProbeIsOneSend == SingleProbe /\ ProbeIsOutstanding

\* A backoff ends early for nobody: only a send that began at or after the deadline
\* can lift it, so the late success of a send admitted before the failure never
\* erases the newer backoff (recordSuccess's generation test).
BackoffLiftedByLaterSend ==
  [][(gate.blockedUntil > 0 /\ gate'.blockedUntil = 0)
       => \E s \in Senders : /\ InFlight(s) /\ permits'[s] = NoPermit
                             /\ permits[s].startedAt >= gate.blockedUntil]_gateVars

\* A burst counts once: when a failure escalates the backoff, none of the sends
\* still in flight, admitted before it, can escalate or shorten it again.
BurstEscalatesOnce ==
  [][gate'.consecutiveFailures > gate.consecutiveFailures
       => Current' = {}]_gateVars
=============================================================================
