----------------------- MODULE DurableDeliveryManager -----------------------
(***************************************************************************)
(* The delivery manager of one process over its store: live deliveries,    *)
(* serialised replay passes started by the timer, by startReplay and by    *)
(* forceFlush, the tenants' transmission gates, and shutdown.  The process *)
(* may crash or exit at any time and start again over the same store.      *)
(*                                                                         *)
(* A step runs from one await to the next.  Each await on the network, a   *)
(* token or the store ends in an outcome chosen by the environment; those  *)
(* outcomes that a healthy environment does not produce are faults, and at *)
(* most as many of them happen as the scenario says.                       *)
(*                                                                         *)
(* A gate is abstracted to what its clock and counters decide: open,       *)
(* blocked until some time, halfOpen, or probing.  A permit is current     *)
(* until its tenant's gate counts a failure, then it is stale.             *)
(***************************************************************************)
EXTENDS Integers, Sequences, FiniteSets

CONSTANTS Records,            \* records, numbered in the order in which claims are tried
          Tenants,
          NoToken,            \* tenants for which no token can be resolved
          MaxReplayBatchSize,
          ScanFactor,         \* a pass claims at most this many times its batch size
          NoAnswer,           \* deliver(r) has not resolved
          NoRecord,           \* a pass has no record in hand
          Scenarios           \* bound: to whom the records belong, the faults of the
                              \* environment and the restarts of the process

ASSUME ManagerAssumption ==
  /\ Records \subseteq Nat /\ NoRecord \notin Records
  /\ \A sc \in Scenarios : sc \in [tenantOf: [Records -> Tenants], faults: Nat, restarts: Nat]
  /\ NoToken \subseteq Tenants
  /\ MaxReplayBatchSize \in Nat \ {0} /\ ScanFactor \in Nat \ {0}
  /\ NoAnswer \notin BOOLEAN

VARIABLES tenantOf, \* tenantOf[r]: the tenant of a record
          live,     \* live[r]: where deliver(r) stands
          answer,   \* answer[r]: what deliver(r) resolved to
          place,    \* place[r]: "none", "pending", "leased" or "expired" in the store
          gate,     \* gate[t]: the state of the tenant's gate
          permit,   \* permit[r]: the permit of the send of r in progress
          pass,     \* the replay pass in progress
          queue,    \* who waits for a pass of its own, in order
          timer,    \* is the replay timer armed?
          flush,    \* forceFlush: "idle", "waiting", "replaying"
          awaited,  \* ghost: the deliveries in progress when forceFlush was called
          stopped,  \* replayStopped, and the abort signal
          closed,
          shutdown, \* "no", "waiting", "complete", "failed"
          received, \* ghost: records the endpoint received
          refused,  \* ghost: records the endpoint refused for good
          faults, restarts \* what is left of them

vars == <<tenantOf, live, answer, place, gate, permit, pass, queue, timer, flush, awaited,
          stopped, closed, shutdown, received, refused, faults, restarts>>

liveVars == <<live, answer>>
passVars == <<pass, queue, timer>>
callVars == <<flush, awaited, stopped, closed, shutdown>>
ghosts   == <<received, refused>>

NoPass == [pc |-> "idle", owner |-> "none", rec |-> NoRecord, attempted |-> 0, scanned |-> 0,
           skipped |-> {}, deferred |-> {}, outcome |-> "none"]

Min(S) == CHOOSE x \in S : \A y \in S : x <= y

CanAcquire(t) == gate[t] \in {"open", "halfOpen"}

Deferred == {t \in Tenants : ~CanAcquire(t)}   \* getDeferredTenantIds

Live == {r \in Records : live[r] \in {"token", "sending", "persisting"}}

\* The promises in `active`: live deliveries and replay passes, queued or running.
Busy == Live # {} \/ pass.pc # "idle" \/ queue # <<>>

\* A fault is spent, or the outcome is no fault.
Fault == faults > 0 /\ faults' = faults - 1
NoFault == UNCHANGED faults

\* A wait that ended because shutdown aborted it is no fault.
FaultOrAbort == IF stopped THEN NoFault ELSE Fault

\* The process starts: the constructor arms the timer, the exporter calls startReplay.
Init ==
  /\ \E sc \in Scenarios :
       tenantOf = sc.tenantOf /\ faults = sc.faults /\ restarts = sc.restarts
  /\ live = [r \in Records |-> "new"]
  /\ answer = [r \in Records |-> NoAnswer]
  /\ place = [r \in Records |-> "none"]
  /\ gate = [t \in Tenants |-> "open"]
  /\ permit = [r \in Records |-> "none"]
  /\ pass = NoPass /\ queue = <<"start">> /\ timer = TRUE
  /\ flush = "idle" /\ awaited = {}
  /\ stopped = FALSE /\ closed = FALSE /\ shutdown = "no"
  /\ received = {} /\ refused = {}

-----------------------------------------------------------------------------
(* The gates *)

\* gate.acquire(), when CanAcquire holds.
AcquirePermit(r) ==
  /\ gate' = [gate EXCEPT ![tenantOf[r]] = IF @ = "halfOpen" THEN "probing" ELSE @]
  /\ permit' = [permit EXCEPT ![r] = "current"]

\* recordSuccess: a current permit reopens the gate.
SendSucceeded(r) ==
  /\ gate' = IF permit[r] = "current" THEN [gate EXCEPT ![tenantOf[r]] = "open"] ELSE gate
  /\ permit' = [permit EXCEPT ![r] = "none"]

\* recordRetryableFailure: a current permit blocks the gate, and every other permit of
\* the tenant becomes stale.
SendFailed(r) ==
  IF permit[r] = "current"
  THEN /\ gate' = [gate EXCEPT ![tenantOf[r]] = "blocked"]
       /\ permit' = [q \in Records |->
                       CASE q = r -> "none"
                         [] q # r /\ tenantOf[q] = tenantOf[r] /\ permit[q] # "none" -> "stale"
                         [] OTHER -> permit[q]]
  ELSE /\ permit' = [permit EXCEPT ![r] = "none"]
       /\ UNCHANGED gate

NoGateChange == UNCHANGED <<gate, permit>>

\* The backoff of a tenant runs out.
BackoffEnds(t) ==
  /\ gate[t] = "blocked"
  /\ gate' = [gate EXCEPT ![t] = "halfOpen"]
  /\ UNCHANGED <<liveVars, place, permit, passVars, callVars, ghosts, faults, restarts, tenantOf>>

\* The registry drops the entry of a tenant idle since its backoff ran out.
GateForgotten(t) ==
  /\ gate[t] = "halfOpen"
  /\ \A r \in Live : tenantOf[r] # t
  /\ pass.rec # NoRecord => tenantOf[pass.rec] # t
  /\ gate' = [gate EXCEPT ![t] = "open"]
  /\ UNCHANGED <<liveVars, place, permit, passVars, callVars, ghosts, faults, restarts, tenantOf>>

-----------------------------------------------------------------------------
(* Live delivery *)

LiveAt(r, pc) == live' = [live EXCEPT ![r] = pc]

Answer(r, b) == LiveAt(r, "returned") /\ answer' = [answer EXCEPT ![r] = b]

\* Mutation: a closed manager still takes records.
DeliverWhenClosed(r) ==
  /\ live[r] = "new"
  /\ LiveAt(r, IF CanAcquire(tenantOf[r]) THEN "token" ELSE "persisting") /\ UNCHANGED answer
  /\ UNCHANGED <<place, gate, permit, passVars, callVars, ghosts, faults, restarts, tenantOf>>

\* deliver(r): refused once closed; deferred to the store if the gate is shut.
Deliver(r) ==
  /\ live[r] = "new"
  /\ IF closed THEN Answer(r, FALSE)
     ELSE /\ LiveAt(r, IF CanAcquire(tenantOf[r]) THEN "token" ELSE "persisting")
          /\ UNCHANGED answer
  /\ UNCHANGED <<place, gate, permit, passVars, callVars, ghosts, faults, restarts, tenantOf>>

\* The token wait ends: a token and a permit, a token and a gate shut meanwhile, or no
\* token (none, an error, a timeout, the abort).
LiveToken(r) ==
  /\ live[r] = "token"
  /\ \/ /\ tenantOf[r] \notin NoToken /\ CanAcquire(tenantOf[r])
        /\ AcquirePermit(r) /\ LiveAt(r, "sending") /\ NoFault
     \/ /\ tenantOf[r] \notin NoToken /\ ~CanAcquire(tenantOf[r])
        /\ NoGateChange /\ LiveAt(r, "persisting") /\ NoFault
     \/ /\ NoGateChange /\ LiveAt(r, "persisting")
        /\ IF tenantOf[r] \in NoToken THEN NoFault ELSE FaultOrAbort
  /\ UNCHANGED <<answer, place, passVars, callVars, ghosts, restarts, tenantOf>>

\* Mutation: a retryable failure is answered as if the record had been stored.
LiveSendNotPersisted(r) ==
  /\ live[r] = "sending"
  /\ SendFailed(r) /\ Answer(r, TRUE) /\ FaultOrAbort
  /\ UNCHANGED <<place, passVars, callVars, ghosts, restarts, tenantOf>>

\* Mutation: a send that throws does not report to the gate.
LiveSendUnreported(r) ==
  /\ live[r] = "sending"
  /\ permit' = [permit EXCEPT ![r] = "none"] /\ UNCHANGED gate
  /\ LiveAt(r, "persisting") /\ FaultOrAbort
  /\ UNCHANGED <<answer, place, passVars, callVars, ghosts, restarts, tenantOf>>

\* The send ends: received, refused for good, or a retryable failure, after which the
\* endpoint may have received it nevertheless.
LiveSend(r) ==
  /\ live[r] = "sending"
  /\ \/ /\ SendSucceeded(r) /\ Answer(r, TRUE) /\ NoFault
        /\ received' = received \cup {r} /\ UNCHANGED refused
     \/ /\ SendSucceeded(r) /\ Answer(r, FALSE) /\ Fault
        /\ refused' = refused \cup {r} /\ UNCHANGED received
     \/ /\ SendFailed(r) /\ LiveAt(r, "persisting") /\ FaultOrAbort
        /\ received' \in {received, received \cup {r}} /\ UNCHANGED <<refused, answer>>
  /\ UNCHANGED <<place, passVars, callVars, restarts, tenantOf>>

\* persist ends: stored, or failed, or stored although the last sync failed.  It may have
\* evicted pending records, for their age or to make room.
LivePersist(r) ==
  /\ live[r] = "persisting"
  /\ \E evicted \in SUBSET {q \in Records : place[q] = "pending"} :
     \E stored, synced \in BOOLEAN :
       /\ synced => stored
       /\ place' = [q \in Records |-> CASE q = r /\ stored -> "pending"
                                        [] q # r /\ q \in evicted -> "none"
                                        [] OTHER -> place[q]]
       /\ Answer(r, synced)
       /\ IF synced /\ evicted = {} THEN NoFault ELSE Fault
  /\ UNCHANGED <<gate, permit, passVars, callVars, ghosts, restarts, tenantOf>>

-----------------------------------------------------------------------------
(* Replay *)

Rearmed == pass.owner = "timer" /\ ~closed /\ ~stopped

\* The pass ends, and its owner goes on: the timer is armed again, forceFlush returns.
PassEnds ==
  /\ pass' = NoPass
  /\ timer' = (timer \/ Rearmed)
  /\ flush' = IF pass.owner = "flush" THEN "idle" ELSE flush
  /\ UNCHANGED <<queue, awaited, stopped, closed, shutdown>>

\* The top of the loop with the pass at p: claim once more, or end.
Continue(p) ==
  IF /\ p.attempted < MaxReplayBatchSize
     /\ p.scanned < MaxReplayBatchSize * ScanFactor
     /\ ~closed /\ ~stopped
  THEN /\ pass' = [p EXCEPT !.pc = "claiming", !.rec = NoRecord, !.outcome = "none",
                            !.deferred = Deferred]
       /\ UNCHANGED <<queue, timer, callVars>>
  ELSE PassEnds

\* The pass stays with its record and goes on to another await.
PassAt(pc, outcome) ==
  /\ pass' = [pass EXCEPT !.pc = pc, !.outcome = outcome]
  /\ UNCHANGED <<queue, timer, callVars>>

\* The next pass of the queue begins, or ends at once when replay has stopped.
PassBegins ==
  /\ pass.pc = "idle" /\ queue # <<>>
  /\ queue' = Tail(queue)
  /\ IF closed \/ stopped
     THEN /\ timer' = timer
          /\ flush' = IF Head(queue) = "flush" THEN "idle" ELSE flush
          /\ UNCHANGED pass
     ELSE /\ pass' = [NoPass EXCEPT !.pc = "claiming", !.owner = Head(queue),
                                    !.deferred = Deferred]
          /\ UNCHANGED <<timer, flush>>
  /\ UNCHANGED <<liveVars, place, gate, permit, awaited, stopped, closed, shutdown, ghosts,
                 faults, restarts, tenantOf>>

\* Leases past their term, pending again once claimBatch has recovered them.
Recovered == [r \in Records |-> IF place[r] = "expired" THEN "pending" ELSE place[r]]

Claimable == {r \in Records : /\ Recovered[r] = "pending" /\ r \notin pass.skipped
                              /\ tenantOf[r] \notin pass.deferred}

Leased(r) == [Recovered EXCEPT ![r] = "leased"]

\* claimBatch(1) fails and ends the pass: by then it has recovered some expired leases, or
\* all of them and leased a record, which nobody holds now.
ClaimFails ==
  /\ PassEnds /\ Fault
  /\ \/ \E back \in SUBSET {r \in Records : place[r] = "expired"} :
          place' = [r \in Records |-> IF r \in back THEN "pending" ELSE place[r]]
     \/ Claimable # {} /\ place' = Leased(Min(Claimable))

\* claimBatch(1) returns: an error or nothing ends the pass; a record whose gate shut
\* since is released; any other has its replay endpoint validated.
Claim ==
  /\ pass.pc = "claiming"
  /\ \/ ClaimFails
     \/ Claimable = {} /\ PassEnds /\ NoFault /\ place' = Recovered
     \/ /\ Claimable # {}
        /\ LET r == Min(Claimable) IN
             /\ place' = Leased(r)
             /\ pass' = [pass EXCEPT !.rec = r,
                           !.pc = IF CanAcquire(tenantOf[r]) THEN "validating" ELSE "releasing",
                           !.outcome = IF CanAcquire(tenantOf[r]) THEN "none" ELSE "deferred"]
        /\ UNCHANGED <<queue, timer, callVars>> /\ NoFault
  /\ UNCHANGED <<liveVars, gate, permit, ghosts, restarts, tenantOf>>

\* validateReplay: valid, an invalid endpoint, or an error; both failures stop the pass.
Validate ==
  /\ pass.pc = "validating"
  /\ \/ PassAt("token", "none") /\ NoFault
     \/ PassAt("releasing", "stop") /\ Fault
  /\ UNCHANGED <<liveVars, place, gate, permit, ghosts, restarts, tenantOf>>

ReplayToken ==
  LET t == tenantOf[pass.rec] IN
  /\ pass.pc = "token"
  /\ \/ t \notin NoToken /\ CanAcquire(t) /\ AcquirePermit(pass.rec)
          /\ PassAt("sending", "none") /\ NoFault
     \/ t \notin NoToken /\ ~CanAcquire(t) /\ NoGateChange
          /\ PassAt("releasing", "deferred") /\ NoFault
     \/ /\ NoGateChange /\ PassAt("releasing", "exclude")
        /\ IF t \in NoToken THEN NoFault ELSE FaultOrAbort
  /\ UNCHANGED <<liveVars, place, ghosts, restarts, tenantOf>>

\* A retryable response excludes the record from this pass; a send that throws stops it.
ReplaySend ==
  /\ pass.pc = "sending"
  /\ \/ /\ SendSucceeded(pass.rec) /\ PassAt("completing", "advance") /\ NoFault
        /\ received' = received \cup {pass.rec} /\ UNCHANGED refused
     \/ /\ SendSucceeded(pass.rec) /\ PassAt("completing", "advance") /\ Fault
        /\ refused' = refused \cup {pass.rec} /\ UNCHANGED received
     \/ /\ SendFailed(pass.rec) /\ FaultOrAbort
        /\ \E outcome \in {"exclude", "stop"} : PassAt("releasing", outcome)
        /\ received' \in {received, received \cup {pass.rec}} /\ UNCHANGED refused
  /\ UNCHANGED <<liveVars, place, restarts, tenantOf>>

\* What the pass does about a settled record.
AfterOutcome(outcome) ==
  IF outcome = "stop" THEN PassEnds
  ELSE Continue([pass EXCEPT
         !.scanned   = @ + 1,
         !.attempted = IF outcome = "deferred" THEN @ ELSE @ + 1,
         !.skipped   = IF outcome \in {"exclude", "deferred"} THEN @ \cup {pass.rec} ELSE @])

\* complete: a failure, before the file is gone or after, is logged and no more.
Complete ==
  /\ pass.pc = "completing"
  /\ \/ place' = [place EXCEPT ![pass.rec] = "none"] /\ (NoFault \/ Fault)
     \/ UNCHANGED place /\ Fault
  /\ AfterOutcome("advance")
  /\ UNCHANGED <<liveVars, gate, permit, ghosts, restarts, tenantOf>>

\* Mutation: a released record is not excluded from the rest of the pass.
ReleaseNotExcluded ==
  /\ pass.pc = "releasing"
  /\ place' = [place EXCEPT ![pass.rec] = "pending"] /\ NoFault
  /\ AfterOutcome(IF pass.outcome = "exclude" THEN "advance" ELSE pass.outcome)
  /\ UNCHANGED <<liveVars, gate, permit, ghosts, restarts, tenantOf>>

\* release: a failure stops the pass, and leaves the record leased or, when only the sync
\* after the rename failed, pending.
Release ==
  /\ pass.pc = "releasing"
  /\ \/ place' = [place EXCEPT ![pass.rec] = "pending"] /\ NoFault
          /\ AfterOutcome(pass.outcome)
     \/ /\ place' \in {place, [place EXCEPT ![pass.rec] = "pending"]} /\ Fault
        /\ AfterOutcome("stop")
  /\ UNCHANGED <<liveVars, gate, permit, ghosts, restarts, tenantOf>>

\* The replay timer fires.
TimerFires ==
  /\ timer
  /\ timer' = FALSE /\ queue' = Append(queue, "timer")
  /\ UNCHANGED <<liveVars, place, gate, permit, pass, callVars, ghosts, faults, restarts, tenantOf>>

\* A lease nobody holds any more runs out.
LeaseExpires(r) ==
  /\ place[r] = "leased" /\ pass.rec # r
  /\ place' = [place EXCEPT ![r] = "expired"]
  /\ UNCHANGED <<liveVars, gate, permit, passVars, callVars, ghosts, faults, restarts, tenantOf>>

-----------------------------------------------------------------------------
(* forceFlush, shutdown, restart *)

CallFlush ==
  /\ flush = "idle" /\ ~closed
  /\ flush' = "waiting" /\ awaited' = Live
  /\ UNCHANGED <<liveVars, place, gate, permit, passVars, stopped, closed, shutdown, ghosts,
                 faults, restarts, tenantOf>>

\* Mutation: forceFlush goes on after the deliveries in progress, or some of them, ended.
FlushEarly ==
  /\ flush = "waiting" /\ queue = <<>>
  /\ IF closed THEN flush' = "idle" /\ UNCHANGED queue
               ELSE flush' = "replaying" /\ queue' = Append(queue, "flush")
  /\ UNCHANGED <<liveVars, place, gate, permit, pass, timer, awaited, stopped, closed,
                 shutdown, ghosts, faults, restarts, tenantOf>>

\* Nothing is active: forceFlush queues its pass, or returns if closed meanwhile.
FlushReplays ==
  /\ flush = "waiting" /\ ~Busy
  /\ IF closed THEN flush' = "idle" /\ UNCHANGED queue
               ELSE flush' = "replaying" /\ queue' = Append(queue, "flush")
  /\ UNCHANGED <<liveVars, place, gate, permit, pass, timer, awaited, stopped, closed,
                 shutdown, ghosts, faults, restarts, tenantOf>>

\* beginShutdown, called by the exporter before its own drain.
BeginShutdown ==
  /\ ~stopped
  /\ stopped' = TRUE /\ timer' = FALSE
  /\ UNCHANGED <<liveVars, place, gate, permit, pass, queue, flush, awaited, closed, shutdown,
                 ghosts, faults, restarts, tenantOf>>

CallShutdown ==
  /\ shutdown = "no"
  /\ closed' = TRUE /\ stopped' = TRUE /\ timer' = FALSE /\ shutdown' = "waiting"
  /\ UNCHANGED <<liveVars, place, gate, permit, pass, queue, flush, awaited, ghosts, faults,
                 restarts, tenantOf>>

\* All active work ended, or the deadline came first.
ShutdownEnds ==
  /\ shutdown = "waiting"
  /\ \/ ~Busy /\ shutdown' = "complete"
     \/ Busy /\ shutdown' = "failed"
  /\ UNCHANGED <<liveVars, place, gate, permit, passVars, flush, awaited, stopped, closed,
                 ghosts, faults, restarts, tenantOf>>

\* The process crashes or exits, and starts again: only the store survives.
Restart ==
  /\ restarts > 0
  /\ restarts' = restarts - 1
  /\ live' = [r \in Records |-> IF r \in Live THEN "lost" ELSE live[r]]
  /\ gate' = [t \in Tenants |-> "open"]
  /\ permit' = [r \in Records |-> "none"]
  /\ pass' = NoPass /\ queue' = <<"start">> /\ timer' = TRUE
  /\ flush' = "idle" /\ awaited' = {}
  /\ stopped' = FALSE /\ closed' = FALSE /\ shutdown' = "no"
  /\ UNCHANGED <<answer, place, ghosts, faults, tenantOf>>

-----------------------------------------------------------------------------

LiveStep(r) == LiveToken(r) \/ LiveSend(r) \/ LivePersist(r)

PassStep == PassBegins \/ Claim \/ Validate \/ ReplayToken \/ ReplaySend \/ Complete \/ Release

Next ==
  \/ \E r \in Records : Deliver(r) \/ LiveStep(r) \/ LeaseExpires(r)
  \/ \E t \in Tenants : BackoffEnds(t) \/ GateForgotten(t)
  \/ PassStep \/ TimerFires
  \/ CallFlush \/ FlushReplays \/ BeginShutdown \/ CallShutdown \/ ShutdownEnds \/ Restart

\* Every wait ends (tokens and sends have time-outs, store operations return), the timer
\* fires, and backoffs and leases run out.
Fairness ==
  /\ \A r \in Records : WF_vars(LiveStep(r)) /\ WF_vars(LeaseExpires(r))
  /\ \A t \in Tenants : WF_vars(BackoffEnds(t))
  /\ WF_vars(PassStep) /\ WF_vars(TimerFires)

Spec == Init /\ [][Next]_vars /\ Fairness

-----------------------------------------------------------------------------
(* Properties *)

TypeOK ==
  /\ tenantOf \in [Records -> Tenants] /\ faults \in Nat /\ restarts \in Nat
  /\ live \in [Records -> {"new", "token", "sending", "persisting", "returned", "lost"}]
  /\ answer \in [Records -> BOOLEAN \cup {NoAnswer}]
  /\ place \in [Records -> {"none", "pending", "leased", "expired"}]
  /\ gate \in [Tenants -> {"open", "blocked", "halfOpen", "probing"}]
  /\ permit \in [Records -> {"none", "current", "stale"}]
  /\ pass.rec \in Records \cup {NoRecord}
  /\ pass.rec # NoRecord => place[pass.rec] = "leased"
  /\ pass.attempted <= pass.scanned /\ pass.scanned <= MaxReplayBatchSize * ScanFactor
  /\ queue \in Seq({"start", "timer", "flush"})
  /\ flush \in {"idle", "waiting", "replaying"}
  /\ {timer, stopped, closed} \subseteq BOOLEAN
  /\ shutdown \in {"no", "waiting", "complete", "failed"}

\* A tenant is never wedged: while its gate is probing, a send holds the current permit
\* and will report (every path of attemptSend after acquire records an outcome).
ProbeIsHeld ==
  \A t \in Tenants : gate[t] = "probing" =>
    \E r \in Records : /\ tenantOf[r] = t /\ permit[r] = "current"
                       /\ live[r] = "sending" \/ (pass.rec = r /\ pass.pc = "sending")

\* The manager is well formed, and no tenant is wedged.
ManagerInv == TypeOK /\ ProbeIsHeld

\* When shutdown has resolved, nothing of the manager is running any more: no delivery
\* slipped in behind the drain, no pass and no timer is left to touch the store.
ShutdownIsQuiet ==
  shutdown = "complete" => ~Busy /\ ~timer

\* forceFlush's own replay pass begins only after every delivery accepted before the
\* call has resolved, so what those deliveries stored is in reach of that pass.
FlushCoversDeliveries ==
  flush = "replaying" => awaited \cap Live = {}

Promise == INSTANCE DurableDelivery WITH custody <- {r \in Records : place[r] # "none"}

\* The manager keeps the promise of at-least-once delivery, across restarts.
AtLeastOnce == Promise!Spec

\* A stored record whose tenant has tokens leaves the store in the end, whatever other
\* tenants' records are stored before it, unless replay is stopped (processClaim keeps a
\* released record out of the rest of its pass for this).
HealthyRecordsLeave ==
  \A r \in Records :
    tenantOf[r] \notin NoToken =>
      (place[r] # "none" ~> (place[r] = "none" \/ stopped))
=============================================================================
