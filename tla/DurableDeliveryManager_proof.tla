---------------------- MODULE DurableDeliveryManager_proof ----------------------
(***************************************************************************)
(* The safety of the delivery manager for any records, tenants, batch size *)
(* and scenario: it is well formed and wedges no tenant, a shutdown that   *)
(* has resolved leaves nothing running, forceFlush's pass comes after the  *)
(* deliveries it waited for, and every step of it keeps the promise of     *)
(* DurableDelivery, restarts included.                                     *)
(***************************************************************************)
EXTENDS DurableDeliveryManager, WellFoundedInduction, TLAPS

Holding == {"validating", "token", "sending", "completing", "releasing"}

PassRecord == [pc: {"idle", "claiming"} \cup Holding,
               owner: {"none", "start", "timer", "flush"},
               rec: Records \cup {NoRecord}, attempted: Nat, scanned: Nat,
               skipped: SUBSET Records, deferred: SUBSET Tenants,
               outcome: {"none", "stop", "deferred", "exclude", "advance"}]

ScanLimit == MaxReplayBatchSize * ScanFactor

\* A pass has a record in hand exactly between its claim and the record's settlement,
\* scans within its limit, and completes only what the endpoint received or refused.
PassInv ==
  /\ pass \in PassRecord
  /\ pass.rec # NoRecord <=> pass.pc \in Holding
  /\ pass.attempted <= pass.scanned /\ pass.scanned < ScanLimit
  /\ pass.pc = "completing" => pass.rec \in received \cup refused

\* A record is stored only after its delivery returned, and answered only then.
CustodyInv ==
  \A r \in Records : /\ place[r] # "none" => live[r] = "returned"
                     /\ live[r] # "returned" => answer[r] = NoAnswer

\* Shutdown closes the manager, closing stops replay, and stopping disarms the timer.
DrainInv ==
  /\ shutdown # "no" => closed
  /\ closed => stopped
  /\ stopped => ~timer
  /\ ShutdownIsQuiet

FlushInv ==
  /\ \A r \in awaited \cap Records : live[r] # "new"
  /\ FlushCoversDeliveries

IInv == TypeOK /\ ProbeIsHeld /\ PassInv /\ CustodyInv /\ DrainInv /\ FlushInv
-----------------------------------------------------------------------------
(* What the steps of a pass do to its record *)

LEMMA ScanLimitIsPositive == ScanLimit \in Nat /\ 0 < ScanLimit
<1>1. ASSUME NEW m \in Nat \ {0}, NEW n \in Nat \ {0} PROVE m * n \in Nat /\ 0 < m * n
  OBVIOUS
<1> QED
  BY <1>1, ManagerAssumption DEF ManagerAssumption, ScanLimit

LEMMA NoPassIsRecord == NoPass \in PassRecord
BY DEF NoPass, PassRecord

\* A pass that moves on with the record in hand.
PassMoves(pc) ==
  /\ pass' \in PassRecord /\ pass'.pc = pc
  /\ pass'.rec = pass.rec /\ pass'.attempted = pass.attempted /\ pass'.scanned = pass.scanned
  /\ pass'.owner = pass.owner
  /\ UNCHANGED <<queue, timer, callVars>>

LEMMA PassAtMoves ==
  ASSUME pass \in PassRecord, NEW pc \in Holding,
         NEW outcome \in {"none", "stop", "deferred", "exclude", "advance"}, PassAt(pc, outcome)
  PROVE  PassMoves(pc)
<1> DEFINE moved == [pass EXCEPT !.pc = pc]
<1>1. /\ moved \in PassRecord /\ moved.pc = pc
      /\ moved.rec = pass.rec /\ moved.attempted = pass.attempted
      /\ moved.scanned = pass.scanned /\ moved.owner = pass.owner
  BY DEF PassRecord
<1>2. pass' = [moved EXCEPT !.outcome = outcome] /\ UNCHANGED <<queue, timer, callVars>>
  BY DEF PassAt, PassRecord
<1> HIDE DEF moved
<1>3. pass' \in PassRecord
  BY <1>1, <1>2 DEF PassRecord
<1>4. /\ pass'.pc = pc
      /\ pass'.rec = pass.rec /\ pass'.attempted = pass.attempted
      /\ pass'.scanned = pass.scanned /\ pass'.owner = pass.owner
  BY <1>1, <1>2 DEF PassRecord
<1> QED
  BY <1>2, <1>3, <1>4 DEF PassMoves

\* A pass without a record: it claims, or it is over and its owner goes on.
PassSettles ==
  /\ pass' \in PassRecord /\ pass'.pc \in {"idle", "claiming"} /\ pass'.rec = NoRecord
  /\ pass'.attempted <= pass'.scanned /\ pass'.scanned < ScanLimit
  /\ timer' \in BOOLEAN /\ (stopped => timer' = timer)
  /\ flush' \in {flush, "idle"}
  /\ UNCHANGED <<queue, awaited, stopped, closed, shutdown>>

LEMMA PassEndsSettles ==
  ASSUME TypeOK, PassEnds
  PROVE  PassSettles
<1>1. pass' = NoPass /\ flush' \in {flush, "idle"}
      /\ UNCHANGED <<queue, awaited, stopped, closed, shutdown>>
  BY DEF PassEnds
<1>2. /\ NoPass.pc = "idle" /\ NoPass.rec = NoRecord
      /\ NoPass.attempted = 0 /\ NoPass.scanned = 0
  BY DEF NoPass
<1>3. timer' \in BOOLEAN
  BY DEF PassEnds, Rearmed
<1>4. stopped => timer' = timer
  BY DEF PassEnds, Rearmed, TypeOK
<1> QED
  BY <1>1, <1>2, <1>3, <1>4, NoPassIsRecord, ScanLimitIsPositive DEF PassSettles

LEMMA ContinueSettles ==
  ASSUME TypeOK, NEW p \in PassRecord, p.attempted <= p.scanned, Continue(p)
  PROVE  PassSettles
<1>1. CASE PassEnds
  BY <1>1, PassEndsSettles
<1>2. CASE /\ p.scanned < ScanLimit
           /\ pass' = [p EXCEPT !.pc = "claiming", !.rec = NoRecord, !.outcome = "none",
                                !.deferred = Deferred]
           /\ UNCHANGED <<queue, timer, callVars>>
  <2> DEFINE a == [p EXCEPT !.pc = "claiming"]
             b == [a EXCEPT !.rec = NoRecord]
             c == [b EXCEPT !.outcome = "none"]
  <2>1. a \in PassRecord /\ a.pc = "claiming" /\ a.attempted = p.attempted /\ a.scanned = p.scanned
    BY DEF PassRecord
  <2>2. /\ b \in PassRecord /\ b.pc = "claiming" /\ b.rec = NoRecord
        /\ b.attempted = p.attempted /\ b.scanned = p.scanned
    <3> HIDE DEF a
    <3> QED
      BY <2>1 DEF PassRecord
  <2>3. /\ c \in PassRecord /\ c.pc = "claiming" /\ c.rec = NoRecord
        /\ c.attempted = p.attempted /\ c.scanned = p.scanned
    <3> HIDE DEF b
    <3> QED
      BY <2>2 DEF PassRecord
  <2>4. pass' = [c EXCEPT !.deferred = Deferred]
    BY <1>2 DEF PassRecord
  <2> HIDE DEF c
  <2>5. pass' \in PassRecord
    BY <2>3, <2>4 DEF PassRecord, Deferred
  <2>6. /\ pass'.pc = "claiming" /\ pass'.rec = NoRecord
        /\ pass'.attempted = p.attempted /\ pass'.scanned = p.scanned
    BY <2>3, <2>4 DEF PassRecord
  <2>7. timer' \in BOOLEAN
    BY <1>2 DEF TypeOK
  <2> QED
    BY <1>2, <2>5, <2>6, <2>7 DEF PassSettles, callVars
<1> QED
  BY <1>1, <1>2 DEF Continue, ScanLimit

LEMMA AfterOutcomeSettles ==
  ASSUME TypeOK, PassInv, pass.pc \in Holding,
         NEW outcome \in {"none", "stop", "deferred", "exclude", "advance"},
         AfterOutcome(outcome)
  PROVE  PassSettles
<1>1. CASE outcome = "stop"
  BY <1>1, PassEndsSettles DEF AfterOutcome
<1>2. CASE outcome # "stop"
  <2> DEFINE a == [pass EXCEPT !.scanned = @ + 1]
             attempted == IF outcome = "deferred" THEN pass.attempted ELSE pass.attempted + 1
             b == [a EXCEPT !.attempted = attempted]
             skipped == IF outcome \in {"exclude", "deferred"} THEN pass.skipped \cup {pass.rec}
                                                              ELSE pass.skipped
             c == [b EXCEPT !.skipped = skipped]
  <2>1. /\ pass \in PassRecord /\ pass.rec \in Records
        /\ pass.attempted \in Nat /\ pass.scanned \in Nat /\ pass.attempted <= pass.scanned
    BY DEF PassInv, PassRecord
  <2>2. a \in PassRecord /\ a.scanned = pass.scanned + 1
    BY <2>1 DEF PassRecord
  <2>3. attempted \in Nat /\ attempted <= pass.scanned + 1
    BY <2>1
  <2>4. b \in PassRecord /\ b.scanned = pass.scanned + 1 /\ b.attempted = attempted
    <3> HIDE DEF a, attempted
    <3> QED
      BY <2>2, <2>3 DEF PassRecord
  <2>5. skipped \in SUBSET Records
    BY <2>1 DEF PassRecord
  <2>6. c \in PassRecord /\ c.attempted <= c.scanned
    <3> HIDE DEF b, attempted, skipped
    <3>1. c \in PassRecord
      BY <2>4, <2>5 DEF PassRecord
    <3>2. c.attempted = attempted /\ c.scanned = pass.scanned + 1
      BY <2>4 DEF PassRecord
    <3> QED
      BY <2>3, <3>1, <3>2
  <2>7. Continue(c)
    <3>1. c = [pass EXCEPT
                !.scanned   = @ + 1,
                !.attempted = IF outcome = "deferred" THEN @ ELSE @ + 1,
                !.skipped   = IF outcome \in {"exclude", "deferred"} THEN @ \cup {pass.rec} ELSE @]
      BY <2>1 DEF PassRecord
    <3> HIDE DEF c
    <3> QED
      BY <1>2, <3>1 DEF AfterOutcome
  <2> HIDE DEF c
  <2> QED
    BY <2>6, <2>7, ContinueSettles
<1> QED
  BY <1>1, <1>2

-----------------------------------------------------------------------------
(* What the steps do to the gates *)

GateTypes ==
  /\ gate \in [Tenants -> {"open", "blocked", "halfOpen", "probing"}]
  /\ permit \in [Records -> {"none", "current", "stale"}]

\* Acquiring makes the acquirer the holder of a probe; every other probe stays held.
Acquires(r) ==
  /\ GateTypes' /\ permit'[r] = "current"
  /\ \A t \in Tenants : gate'[t] = "probing" => gate[t] = "probing" \/ tenantOf[r] = t
  /\ \A q \in Records : q # r => permit'[q] = permit[q]

\* A report of r ends the probe r holds; every other probe stays held.
Reports(r) ==
  /\ GateTypes'
  /\ \A t \in Tenants : gate'[t] = "probing" =>
       /\ gate[t] = "probing"
       /\ \A q \in Records : tenantOf[q] = t /\ permit[q] = "current" =>
                               q # r /\ permit'[q] = "current"

LEMMA AcquirePermitAcquires ==
  ASSUME TypeOK, NEW r \in Records, AcquirePermit(r)
  PROVE  Acquires(r)
BY DEF AcquirePermit, Acquires, GateTypes, TypeOK

LEMMA SendSucceededReports ==
  ASSUME TypeOK, NEW r \in Records, SendSucceeded(r)
  PROVE  Reports(r)
<1>1. tenantOf[r] \in Tenants /\ GateTypes
  BY DEF TypeOK, GateTypes
<1>2. GateTypes'
  BY <1>1 DEF SendSucceeded, GateTypes
<1> QED
  BY <1>1, <1>2 DEF SendSucceeded, Reports, GateTypes

LEMMA SendFailedReports ==
  ASSUME TypeOK, NEW r \in Records, SendFailed(r)
  PROVE  Reports(r)
<1>1. tenantOf[r] \in Tenants /\ GateTypes
  BY DEF TypeOK, GateTypes
<1>2. CASE permit[r] = "current"
  <2>1. gate' = [gate EXCEPT ![tenantOf[r]] = "blocked"]
    BY <1>2 DEF SendFailed
  <2>2. \A q \in Records :
          /\ permit'[q] \in {"none", "current", "stale"}
          /\ tenantOf[q] # tenantOf[r] => permit'[q] = permit[q]
    BY <1>1, <1>2 DEF SendFailed, GateTypes
  <2>3. permit' \in [Records -> {"none", "current", "stale"}]
    <3>1. permit' = [q \in Records |-> permit'[q]]
      BY <1>2 DEF SendFailed
    <3> QED
      BY <2>2, <3>1
  <2> QED
    BY <1>1, <2>1, <2>2, <2>3 DEF Reports, GateTypes
<1>3. CASE permit[r] # "current"
  BY <1>1, <1>3 DEF SendFailed, Reports, GateTypes
<1> QED
  BY <1>2, <1>3

-----------------------------------------------------------------------------
(* Every step preserves the invariant *)

LEMMA InitIInv == Init => IInv
<1> SUFFICES ASSUME Init
             PROVE  IInv
  OBVIOUS
<1>1. PICK sc \in Scenarios : tenantOf = sc.tenantOf /\ faults = sc.faults /\ restarts = sc.restarts
  BY DEF Init
<1>2. tenantOf \in [Records -> Tenants] /\ faults \in Nat /\ restarts \in Nat
  <2>1. sc \in [tenantOf: [Records -> Tenants], faults: Nat, restarts: Nat]
    BY ManagerAssumption DEF ManagerAssumption
  <2> QED
    BY <1>1, <2>1
<1>3. PassInv
  BY NoPassIsRecord, ScanLimitIsPositive DEF Init, PassInv, NoPass, Holding
<1>4. TypeOK
  <2>1. queue \in Seq({"start", "timer", "flush"})
    BY DEF Init
  <2>2. pass.rec = NoRecord /\ pass.attempted = 0 /\ pass.scanned = 0
    BY DEF Init, NoPass
  <2>3. 0 <= MaxReplayBatchSize * ScanFactor
    BY ScanLimitIsPositive DEF ScanLimit
  <2>4. {timer, stopped, closed} \subseteq BOOLEAN
    BY DEF Init
  <2> QED
    BY <1>2, <2>1, <2>2, <2>3, <2>4 DEF Init, TypeOK
<1>5. ProbeIsHeld
  BY DEF Init, ProbeIsHeld
<1>6. CustodyInv
  BY DEF Init, CustodyInv
<1>7. DrainInv /\ FlushInv
  BY DEF Init, DrainInv, FlushInv, ShutdownIsQuiet, FlushCoversDeliveries
<1> QED
  BY <1>3, <1>4, <1>5, <1>6, <1>7 DEF IInv

LEMMA MinIsMember ==
  ASSUME NEW S \in SUBSET Nat, S # {}
  PROVE  Min(S) \in S
<1> DEFINE R == OpToRel(<, Nat)
<1>1. IsWellFoundedOn(R, Nat)
  BY NatLessThanWellFounded
<1>2. \A x, y \in Nat : <<y, x>> \in R <=> y < x
  BY DEF OpToRel
<1> HIDE DEF R
<1>3. PICK x \in S : \A y \in S : ~ (<<y, x>> \in R)
  BY <1>1, WFMin
<1>4. \A y \in S : x <= y
  <2>1. TAKE y \in S
  <2>2. x \in Nat /\ y \in Nat
    BY <1>3
  <2>3. ~ (y < x)
    BY <1>2, <1>3, <2>2
  <2> QED
    BY <2>2, <2>3
<1> QED
  BY <1>3, <1>4 DEF Min

\* claimBatch returns nothing, or a record that was pending or had an expired lease.
ClaimsRecord(r) ==
  /\ place[r] \in {"pending", "expired"}
  /\ place' = Leased(r)
  /\ pass' \in PassRecord /\ pass'.rec = r /\ pass'.pc \in {"validating", "releasing"}
  /\ pass'.attempted = pass.attempted /\ pass'.scanned = pass.scanned
  /\ UNCHANGED <<queue, timer, callVars>>

LEMMA RecoveredPlaces ==
  ASSUME TypeOK
  PROVE  /\ Recovered \in [Records -> {"none", "pending", "leased", "expired"}]
         /\ \A r \in Records : /\ Recovered[r] = "none" <=> place[r] = "none"
                               /\ place[r] = "leased" => Recovered[r] = "leased"
BY DEF Recovered, TypeOK

\* Records move within the store: none comes, none goes.
MovesWithinStore ==
  /\ place' \in [Records -> {"none", "pending", "leased", "expired"}]
  /\ \A r \in Records : place'[r] = "none" <=> place[r] = "none"

LEMMA ClaimSettlesOrHolds ==
  ASSUME TypeOK, PassInv, Claim
  PROVE  \/ PassSettles /\ MovesWithinStore
         \/ \E r \in Records : ClaimsRecord(r)
<1>1. CASE PassEnds /\ place' = Recovered
  BY <1>1, PassEndsSettles, RecoveredPlaces DEF MovesWithinStore
<1>3. CASE ClaimFails
  <2>1. PassSettles
    BY <1>3, PassEndsSettles DEF ClaimFails
  <2>2. ASSUME NEW back \in SUBSET {r \in Records : place[r] = "expired"},
               place' = [r \in Records |-> IF r \in back THEN "pending" ELSE place[r]]
        PROVE  MovesWithinStore
    BY <2>2 DEF MovesWithinStore, TypeOK
  <2>3. ASSUME Claimable # {}, place' = Leased(Min(Claimable))
        PROVE  MovesWithinStore
    <3>1. Claimable \in SUBSET Nat
      BY ManagerAssumption DEF ManagerAssumption, Claimable
    <3>2. PICK r \in Claimable : r = Min(Claimable)
      BY <2>3, <3>1, MinIsMember
    <3>3. r \in Records /\ place[r] # "none" /\ place' = [Recovered EXCEPT ![r] = "leased"]
      BY <2>3, <3>2 DEF Claimable, Recovered, Leased
    <3> QED
      BY <3>3, RecoveredPlaces DEF MovesWithinStore
  <2> QED
    BY <1>3, <2>1, <2>2, <2>3 DEF ClaimFails
<1>2. ASSUME Claimable # {}, place' = Leased(Min(Claimable)),
             NEW next \in {"validating", "releasing"}, NEW outcome \in {"none", "deferred"},
             pass' = [pass EXCEPT !.rec = Min(Claimable), !.pc = next, !.outcome = outcome],
             UNCHANGED <<queue, timer, callVars>>
      PROVE  \E r \in Records : ClaimsRecord(r)
  <2>1. Claimable \in SUBSET Nat
    BY ManagerAssumption DEF ManagerAssumption, Claimable
  <2>2. PICK r \in Claimable : r = Min(Claimable)
    BY <1>2, <2>1, MinIsMember
  <2>3. r \in Records /\ place[r] \in {"pending", "expired"}
    BY <2>2 DEF Claimable, Recovered, TypeOK
  <2> DEFINE a == [pass EXCEPT !.rec = r]
             b == [a EXCEPT !.pc = next]
  <2>4. /\ a \in PassRecord /\ a.rec = r
        /\ a.attempted = pass.attempted /\ a.scanned = pass.scanned
    BY <2>3 DEF PassInv, PassRecord
  <2>5. /\ b \in PassRecord /\ b.rec = r /\ b.pc = next
        /\ b.attempted = pass.attempted /\ b.scanned = pass.scanned
    <3> HIDE DEF a
    <3> QED
      BY <2>4 DEF PassRecord, Holding
  <2>6. pass' = [b EXCEPT !.outcome = outcome]
    BY <1>2, <2>2 DEF PassInv, PassRecord
  <2> HIDE DEF b
  <2>7. pass' \in PassRecord
    BY <2>5, <2>6 DEF PassRecord
  <2>8. /\ pass'.rec = r /\ pass'.pc = next
        /\ pass'.attempted = pass.attempted /\ pass'.scanned = pass.scanned
    BY <2>5, <2>6 DEF PassRecord
  <2> QED
    BY <1>2, <2>2, <2>3, <2>7, <2>8 DEF ClaimsRecord
<1> QED
  BY <1>1, <1>2, <1>3, Zenon DEF Claim

LEMMA PassBeginsSettles ==
  ASSUME TypeOK, PassInv, PassBegins
  PROVE  /\ pass' \in PassRecord /\ pass'.pc \in {"idle", "claiming"} /\ pass'.rec = NoRecord
         /\ pass'.attempted <= pass'.scanned /\ pass'.scanned < ScanLimit
         /\ queue' \in Seq({"start", "timer", "flush"})
         /\ flush' \in {flush, "idle"}
         /\ UNCHANGED <<liveVars, place, gate, permit, timer, awaited, stopped, closed, shutdown,
                        ghosts, faults, restarts, tenantOf>>
<1>1. queue \in Seq({"start", "timer", "flush"}) /\ queue # <<>> /\ queue' = Tail(queue)
  BY DEF PassBegins, TypeOK
<1>2. Head(queue) \in {"start", "timer", "flush"} /\ queue' \in Seq({"start", "timer", "flush"})
  BY <1>1
<1>3. CASE UNCHANGED pass
  BY <1>2, <1>3 DEF PassBegins, PassInv, PassRecord, Holding
<1>4. CASE /\ pass' = [NoPass EXCEPT !.pc = "claiming", !.owner = Head(queue),
                                    !.deferred = Deferred]
           /\ UNCHANGED <<timer, flush>>
  <2> DEFINE a == [NoPass EXCEPT !.pc = "claiming"]
             b == [a EXCEPT !.owner = Head(queue)]
  <2>1. /\ a \in PassRecord /\ a.pc = "claiming" /\ a.rec = NoRecord
        /\ a.attempted = 0 /\ a.scanned = 0
    BY DEF NoPass, PassRecord
  <2>2. /\ b \in PassRecord /\ b.pc = "claiming" /\ b.rec = NoRecord
        /\ b.attempted = 0 /\ b.scanned = 0
    <3> HIDE DEF a
    <3> QED
      BY <1>2, <2>1 DEF PassRecord
  <2>3. pass' = [b EXCEPT !.deferred = Deferred]
    BY <1>4 DEF NoPass
  <2> HIDE DEF b
  <2>4. pass' \in PassRecord
    BY <2>2, <2>3 DEF PassRecord, Deferred
  <2>5. /\ pass'.pc = "claiming" /\ pass'.rec = NoRecord
        /\ pass'.attempted = 0 /\ pass'.scanned = 0
    BY <2>2, <2>3 DEF PassRecord
  <2> QED
    BY <1>2, <1>4, <2>4, <2>5, ScanLimitIsPositive DEF PassBegins
<1> QED
  BY <1>3, <1>4 DEF PassBegins

LEMMA PassStepKinds ==
  ASSUME TypeOK, PassInv, PassStep
  PROVE  \/ PassBegins
         \/ /\ pass.pc = "claiming"
            /\ \/ PassSettles /\ MovesWithinStore
               \/ \E r \in Records : ClaimsRecord(r)
            /\ UNCHANGED <<liveVars, gate, permit, ghosts, tenantOf>>
         \/ /\ pass.pc = "validating" /\ (PassMoves("token") \/ PassMoves("releasing"))
            /\ UNCHANGED <<liveVars, place, gate, permit, ghosts, tenantOf>>
         \/ /\ pass.pc = "token"
            /\ \/ PassMoves("sending") /\ Acquires(pass.rec)
               \/ PassMoves("releasing") /\ NoGateChange
            /\ UNCHANGED <<liveVars, place, ghosts, tenantOf>>
         \/ /\ pass.pc = "sending" /\ Reports(pass.rec)
            /\ \/ /\ PassMoves("completing")
                  /\ \/ received' = received \cup {pass.rec} /\ UNCHANGED refused
                     \/ refused' = refused \cup {pass.rec} /\ UNCHANGED received
               \/ /\ PassMoves("releasing")
                  /\ received' \in {received, received \cup {pass.rec}} /\ UNCHANGED refused
            /\ UNCHANGED <<liveVars, place, tenantOf>>
         \/ /\ pass.pc = "completing" /\ PassSettles
            /\ place' \in {place, [place EXCEPT ![pass.rec] = "none"]}
            /\ UNCHANGED <<liveVars, gate, permit, ghosts, tenantOf>>
         \/ /\ pass.pc = "releasing" /\ PassSettles
            /\ place' \in {place, [place EXCEPT ![pass.rec] = "pending"]}
            /\ UNCHANGED <<liveVars, gate, permit, ghosts, tenantOf>>
<1>1. pass \in PassRecord /\ (pass.pc \in Holding => pass.rec \in Records)
  BY DEF PassInv, PassRecord
<1>2. CASE Claim
  BY <1>2, ClaimSettlesOrHolds DEF Claim
<1>3. CASE Validate
  BY <1>1, <1>3, PassAtMoves DEF Validate, Holding
<1>4. CASE ReplayToken
  <2>1. pass.rec \in Records
    BY <1>1, <1>4 DEF ReplayToken, Holding
  <2>2. CASE AcquirePermit(pass.rec) /\ PassAt("sending", "none")
    BY <1>1, <1>4, <2>1, <2>2, PassAtMoves, AcquirePermitAcquires DEF ReplayToken, Holding
  <2>3. CASE NoGateChange /\ \E outcome \in {"deferred", "exclude"} : PassAt("releasing", outcome)
    BY <1>1, <1>4, <2>3, PassAtMoves DEF ReplayToken, Holding
  <2> QED
    BY <1>4, <2>2, <2>3 DEF ReplayToken
<1>5. CASE ReplaySend
  <2>1. pass.rec \in Records
    BY <1>1, <1>5 DEF ReplaySend, Holding
  <2>2. Reports(pass.rec)
    BY <1>5, <2>1, SendSucceededReports, SendFailedReports DEF ReplaySend
  <2>3. ASSUME PassAt("completing", "advance") PROVE PassMoves("completing")
    BY <1>1, <2>3, PassAtMoves DEF Holding
  <2>4. ASSUME NEW outcome \in {"exclude", "stop"}, PassAt("releasing", outcome)
        PROVE  PassMoves("releasing")
    BY <1>1, <2>4, PassAtMoves DEF Holding
  <2> QED
    BY <1>5, <2>2, <2>3, <2>4 DEF ReplaySend
<1>6. CASE Complete
  BY <1>6, AfterOutcomeSettles DEF Complete, Holding
<1>7. CASE Release
  <2>1. pass.outcome \in {"none", "stop", "deferred", "exclude", "advance"}
    BY <1>1 DEF PassRecord
  <2>2. pass.pc \in Holding
    BY <1>7 DEF Release, Holding
  <2>3. PassSettles
    BY <1>7, <2>1, <2>2, AfterOutcomeSettles DEF Release
  <2> QED
    BY <1>7, <2>3 DEF Release
<1> QED
  BY <1>2, <1>3, <1>4, <1>5, <1>6, <1>7 DEF PassStep

LEMMA PassInvPreserved ==
  ASSUME IInv, [Next]_vars
  PROVE  PassInv'
<1>1. TypeOK /\ PassInv
  BY DEF IInv
<1>2. pass \in PassRecord /\ NoRecord \notin Records
  BY <1>1, ManagerAssumption DEF PassInv, ManagerAssumption
<1>3. ASSUME pass' \in PassRecord, pass'.pc \in {"idle", "claiming"}, pass'.rec = NoRecord,
             pass'.attempted <= pass'.scanned, pass'.scanned < ScanLimit
      PROVE  PassInv'
  BY <1>3 DEF PassInv, Holding
<1>4. ASSUME NEW pc \in Holding, PassMoves(pc), pass.pc \in Holding,
             pc = "completing" => pass.rec \in received' \cup refused'
      PROVE  PassInv'
  BY <1>1, <1>4 DEF PassInv, PassMoves
<1>5. CASE PassStep
  <2>1. CASE PassBegins
    BY <1>1, <1>3, <2>1, PassBeginsSettles
  <2>2. ASSUME PassSettles PROVE PassInv'
    BY <1>3, <2>2 DEF PassSettles
  <2>3. ASSUME NEW r \in Records, ClaimsRecord(r) PROVE PassInv'
    BY <1>1, <1>2, <2>3 DEF ClaimsRecord, PassInv, Holding
  <2>4. CASE pass.pc = "validating" /\ (PassMoves("token") \/ PassMoves("releasing"))
    BY <1>4, <2>4 DEF Holding
  <2>5. CASE pass.pc = "token" /\ (PassMoves("sending") \/ PassMoves("releasing"))
    BY <1>4, <2>5 DEF Holding
  <2>6. CASE /\ pass.pc = "sending" /\ PassMoves("completing")
             /\ \/ received' = received \cup {pass.rec}
                \/ refused' = refused \cup {pass.rec}
    BY <1>4, <2>6 DEF Holding
  <2>7. CASE pass.pc = "sending" /\ PassMoves("releasing")
    BY <1>4, <2>7 DEF Holding
  <2> QED
    BY <1>1, <1>5, <2>1, <2>2, <2>3, <2>4, <2>5, <2>6, <2>7, PassStepKinds
<1>6. CASE Restart
  BY <1>3, <1>6, NoPassIsRecord, ScanLimitIsPositive DEF Restart, NoPass
<1>7. ASSUME UNCHANGED pass, received \subseteq received', refused \subseteq refused'
      PROVE  PassInv'
  BY <1>1, <1>7 DEF PassInv
<1>8. ASSUME NEW r \in Records, Deliver(r) \/ LiveStep(r) \/ LeaseExpires(r)
      PROVE  UNCHANGED pass /\ received \subseteq received' /\ refused \subseteq refused'
  BY <1>8 DEF Deliver, LiveStep, LiveToken, LiveSend, LivePersist, LeaseExpires, passVars, ghosts
<1>9. ASSUME NEW t \in Tenants, BackoffEnds(t) \/ GateForgotten(t)
      PROVE  UNCHANGED <<pass, received, refused>>
  BY <1>9 DEF BackoffEnds, GateForgotten, passVars, ghosts
<1>10. CASE TimerFires \/ CallFlush \/ FlushReplays \/ BeginShutdown \/ CallShutdown \/ ShutdownEnds
  BY <1>7, <1>10
     DEF TimerFires, CallFlush, FlushReplays, BeginShutdown, CallShutdown, ShutdownEnds, passVars, ghosts
<1>11. CASE UNCHANGED vars
  BY <1>7, <1>11 DEF vars
<1> QED
  BY <1>5, <1>6, <1>7, <1>8, <1>9, <1>10, <1>11 DEF Next

\* The types of what the store and deliveries keep, and the lease of the record in hand.
LiveInv ==
  /\ live \in [Records -> {"new", "token", "sending", "persisting", "returned", "lost"}]
  /\ answer \in [Records -> BOOLEAN \cup {NoAnswer}]
  /\ place \in [Records -> {"none", "pending", "leased", "expired"}]
  /\ pass.rec # NoRecord => place[pass.rec] = "leased"
  /\ CustodyInv

LEMMA LiveInvPreserved ==
  ASSUME IInv, [Next]_vars
  PROVE  LiveInv'
<1>1. TypeOK /\ PassInv /\ CustodyInv /\ LiveInv
  BY DEF IInv, LiveInv, TypeOK
<1>2. NoRecord \notin Records /\ pass.rec \in Records \cup {NoRecord}
  BY <1>1, ManagerAssumption DEF TypeOK, ManagerAssumption
<1>3. ASSUME UNCHANGED <<live, answer, place>>, pass'.rec \in {pass.rec, NoRecord}
      PROVE  LiveInv'
  BY <1>1, <1>3 DEF LiveInv, CustodyInv
<1>4. ASSUME NEW r \in Records, Deliver(r)
      PROVE  LiveInv'
  <2>1. UNCHANGED <<place, pass>>
    BY <1>4 DEF Deliver, passVars
  <2>2. /\ live' \in [Records -> {"new", "token", "sending", "persisting", "returned", "lost"}]
        /\ \A q \in Records \ {r} : live'[q] = live[q]
        /\ live[r] = "new"
    BY <1>1, <1>4 DEF Deliver, Answer, LiveAt, LiveInv
  <2>3. /\ answer' \in [Records -> BOOLEAN \cup {NoAnswer}]
        /\ \A q \in Records \ {r} : answer'[q] = answer[q]
        /\ live'[r] # "returned" => answer'[r] = answer[r]
    BY <1>1, <1>4 DEF Deliver, Answer, LiveAt, LiveInv
  <2> QED
    BY <1>1, <2>1, <2>2, <2>3 DEF LiveInv, CustodyInv
<1>5. ASSUME NEW r \in Records, LiveToken(r) \/ LiveSend(r)
      PROVE  LiveInv'
  <2>1. UNCHANGED <<place, pass>>
    BY <1>5 DEF LiveToken, LiveSend, passVars
  <2>2. /\ live' \in [Records -> {"new", "token", "sending", "persisting", "returned", "lost"}]
        /\ \A q \in Records \ {r} : live'[q] = live[q]
        /\ live[r] \in {"token", "sending"}
    BY <1>1, <1>5 DEF LiveToken, LiveSend, Answer, LiveAt, LiveInv
  <2>3. /\ answer' \in [Records -> BOOLEAN \cup {NoAnswer}]
        /\ \A q \in Records \ {r} : answer'[q] = answer[q]
        /\ live'[r] # "returned" => answer'[r] = answer[r]
    BY <1>1, <1>5 DEF LiveToken, LiveSend, Answer, LiveAt, LiveInv
  <2> QED
    BY <1>1, <2>1, <2>2, <2>3 DEF LiveInv, CustodyInv
<1>6. ASSUME NEW r \in Records, LivePersist(r)
      PROVE  LiveInv'
  <2>1. PICK evicted \in SUBSET {q \in Records : place[q] = "pending"},
             stored \in BOOLEAN, synced \in BOOLEAN :
          /\ place' = [q \in Records |-> CASE q = r /\ stored -> "pending"
                                           [] q # r /\ q \in evicted -> "none"
                                           [] OTHER -> place[q]]
          /\ Answer(r, synced)
    BY <1>6 DEF LivePersist
  <2>2. \A q \in Records :
          /\ place'[q] \in {"none", "pending", "leased", "expired"}
          /\ q # r => \/ place'[q] = place[q]
                      \/ place[q] = "pending" /\ place'[q] = "none"
    <3>1. TAKE q \in Records
    <3>2. place[q] \in {"none", "pending", "leased", "expired"}
      BY <1>1 DEF LiveInv
    <3>3. CASE q = r /\ stored
      BY <2>1, <3>3
    <3>4. CASE q # r /\ q \in evicted
      <4>1. place[q] = "pending"
        BY <3>4
      <4> QED
        BY <2>1, <3>4, <4>1
    <3>5. CASE ~(q = r /\ stored) /\ ~(q # r /\ q \in evicted)
      BY <2>1, <3>2, <3>5
    <3> QED
      BY <3>3, <3>4, <3>5
  <2>3. place' \in [Records -> {"none", "pending", "leased", "expired"}]
    <3>1. place' = [q \in Records |-> place'[q]]
      BY <2>1
    <3> QED
      BY <2>2, <3>1
  <2>4. /\ live' = [live EXCEPT ![r] = "returned"] /\ live[r] = "persisting"
        /\ answer' = [answer EXCEPT ![r] = synced] /\ UNCHANGED pass
    BY <1>6, <2>1 DEF LivePersist, Answer, LiveAt, passVars
  <2>5. pass.rec # r
    BY <1>1, <1>2, <2>4 DEF LiveInv, CustodyInv
  <2> QED
    BY <1>1, <1>2, <2>2, <2>3, <2>4, <2>5 DEF LiveInv, CustodyInv
<1>7. ASSUME NEW r \in Records, LeaseExpires(r)
      PROVE  LiveInv'
  <2>1. /\ place[r] = "leased" /\ pass.rec # r /\ place' = [place EXCEPT ![r] = "expired"]
        /\ UNCHANGED <<live, answer, pass>>
    BY <1>7 DEF LeaseExpires, liveVars, passVars
  <2> QED
    BY <1>1, <1>2, <2>1 DEF LiveInv, CustodyInv
<1>8. CASE PassStep
  <2>1. ASSUME PassBegins PROVE LiveInv'
    BY <1>1, <1>3, <2>1, PassBeginsSettles DEF liveVars
  <2>2. ASSUME PassSettles, UNCHANGED liveVars, MovesWithinStore
        PROVE  LiveInv'
    BY <1>1, <2>2 DEF PassSettles, MovesWithinStore, liveVars, LiveInv, CustodyInv
  <2>3. ASSUME NEW r \in Records, ClaimsRecord(r), UNCHANGED liveVars
        PROVE  LiveInv'
    <3>1. place' = [Recovered EXCEPT ![r] = "leased"] /\ pass'.rec = r /\ place[r] # "none"
      BY <2>3 DEF ClaimsRecord, Leased
    <3> QED
      BY <1>1, <2>3, <3>1, RecoveredPlaces DEF liveVars, LiveInv, CustodyInv
  <2>4. ASSUME NEW pc \in Holding, PassMoves(pc), UNCHANGED <<liveVars, place>>
        PROVE  LiveInv'
    BY <1>3, <2>4 DEF PassMoves, liveVars
  <2>5. ASSUME PassSettles, UNCHANGED liveVars, pass.pc \in Holding,
               NEW next \in {"none", "pending"},
               place' \in {place, [place EXCEPT ![pass.rec] = next]}
        PROVE  LiveInv'
    <3>1. pass.rec \in Records /\ place[pass.rec] = "leased" /\ pass'.rec = NoRecord
      BY <1>1, <1>2, <2>5 DEF PassInv, LiveInv, PassSettles
    <3> QED
      BY <1>1, <2>5, <3>1 DEF liveVars, LiveInv, CustodyInv
  <2> QED
    BY <1>1, <1>8, <2>1, <2>2, <2>3, <2>4, <2>5, PassStepKinds DEF Holding
<1>9. CASE Restart
  BY <1>1, <1>9 DEF Restart, LiveInv, CustodyInv, NoPass, Live
<1>10. ASSUME NEW t \in Tenants, BackoffEnds(t) \/ GateForgotten(t)
       PROVE  LiveInv'
  BY <1>3, <1>10 DEF BackoffEnds, GateForgotten, passVars, liveVars
<1>11. CASE TimerFires \/ CallFlush \/ FlushReplays \/ BeginShutdown \/ CallShutdown \/ ShutdownEnds
  BY <1>3, <1>11 DEF TimerFires, CallFlush, FlushReplays, BeginShutdown, CallShutdown,
                     ShutdownEnds, passVars, liveVars
<1>12. CASE UNCHANGED vars
  BY <1>3, <1>12 DEF vars
<1> QED
  BY <1>4, <1>5, <1>6, <1>7, <1>8, <1>9, <1>10, <1>11, <1>12 DEF Next, LiveStep

\* A step that changes neither gates nor permits nor ends a send keeps every probe held.
SendsGoOn ==
  /\ UNCHANGED <<gate, permit, tenantOf>>
  /\ \A r \in Records : live[r] = "sending" => live'[r] = "sending"
  /\ pass.pc = "sending" => UNCHANGED pass

LEMMA ProbeStaysHeld ==
  ASSUME TypeOK, ProbeIsHeld, SendsGoOn
  PROVE  GateTypes' /\ ProbeIsHeld'
<1>1. GateTypes'
  BY DEF SendsGoOn, TypeOK, GateTypes
<1>2. ASSUME NEW t \in Tenants, gate'[t] = "probing"
      PROVE  \E r \in Records : /\ tenantOf'[r] = t /\ permit'[r] = "current"
                                /\ live'[r] = "sending" \/ (pass'.rec = r /\ pass'.pc = "sending")
  BY <1>2 DEF ProbeIsHeld, SendsGoOn
<1> QED
  BY <1>1, <1>2 DEF ProbeIsHeld

LEMMA ProbeIsHeldPreserved ==
  ASSUME IInv, [Next]_vars
  PROVE  GateTypes' /\ ProbeIsHeld'
<1>1. TypeOK /\ PassInv /\ ProbeIsHeld /\ GateTypes
  BY DEF IInv, TypeOK, GateTypes
<1>2. ASSUME NEW r \in Records, Acquires(r), UNCHANGED tenantOf,
             live'[r] = "sending" \/ (pass'.rec = r /\ pass'.pc = "sending"),
             \A q \in Records : live[q] = "sending" => live'[q] = "sending",
             pass.pc = "sending" => UNCHANGED pass
      PROVE  GateTypes' /\ ProbeIsHeld'
  <2>1. SUFFICES ASSUME NEW t \in Tenants, gate'[t] = "probing"
                 PROVE  \E q \in Records :
                          /\ tenantOf'[q] = t /\ permit'[q] = "current"
                          /\ live'[q] = "sending" \/ (pass'.rec = q /\ pass'.pc = "sending")
    BY <1>2 DEF Acquires, ProbeIsHeld
  <2>2. CASE tenantOf[r] = t
    BY <1>2, <2>2 DEF Acquires
  <2>3. CASE tenantOf[r] # t
    <3>1. gate[t] = "probing"
      BY <1>2, <2>1, <2>3 DEF Acquires
    <3>2. PICK q \in Records :
            /\ tenantOf[q] = t /\ permit[q] = "current"
            /\ live[q] = "sending" \/ (pass.rec = q /\ pass.pc = "sending")
      BY <1>1, <3>1 DEF ProbeIsHeld
    <3> QED
      BY <1>2, <2>3, <3>2 DEF Acquires
  <2> QED
    BY <2>2, <2>3
<1>3. ASSUME NEW r \in Records, Reports(r), UNCHANGED tenantOf,
             \A q \in Records \ {r} : live[q] = "sending" => live'[q] = "sending",
             pass.pc = "sending" /\ pass.rec # r => UNCHANGED pass
      PROVE  GateTypes' /\ ProbeIsHeld'
  <2>1. SUFFICES ASSUME NEW t \in Tenants, gate'[t] = "probing"
                 PROVE  \E q \in Records :
                          /\ tenantOf'[q] = t /\ permit'[q] = "current"
                          /\ live'[q] = "sending" \/ (pass'.rec = q /\ pass'.pc = "sending")
    BY <1>3 DEF Reports, ProbeIsHeld
  <2>2. gate[t] = "probing"
    BY <1>3, <2>1 DEF Reports
  <2>3. PICK q \in Records :
          /\ tenantOf[q] = t /\ permit[q] = "current"
          /\ live[q] = "sending" \/ (pass.rec = q /\ pass.pc = "sending")
    BY <1>1, <2>2 DEF ProbeIsHeld
  <2>4. q # r /\ permit'[q] = "current"
    BY <1>3, <2>1, <2>3 DEF Reports
  <2> QED
    BY <1>3, <2>3, <2>4
<1>4. ASSUME NEW r \in Records, Deliver(r)
      PROVE  SendsGoOn
  <2>1. live[r] = "new" /\ \A q \in Records \ {r} : live'[q] = live[q]
    BY <1>1, <1>4 DEF Deliver, Answer, LiveAt, TypeOK
  <2> QED
    BY <1>4, <2>1 DEF Deliver, SendsGoOn, passVars
<1>5. ASSUME NEW r \in Records, LiveToken(r)
      PROVE  GateTypes' /\ ProbeIsHeld'
  <2>1. live[r] = "token" /\ UNCHANGED <<pass, tenantOf>>
    BY <1>5 DEF LiveToken, passVars
  <2>2. \A q \in Records \ {r} : live'[q] = live[q]
    BY <1>1, <1>5 DEF LiveToken, LiveAt, TypeOK
  <2>3. CASE AcquirePermit(r) /\ LiveAt(r, "sending")
    <3>1. live'[r] = "sending"
      BY <1>1, <2>3 DEF LiveAt, TypeOK
    <3> QED
      BY <1>1, <1>2, <2>1, <2>2, <2>3, <3>1, AcquirePermitAcquires
  <2>4. CASE NoGateChange
    BY <1>1, <2>1, <2>2, <2>4, ProbeStaysHeld DEF SendsGoOn, NoGateChange
  <2> QED
    BY <1>5, <2>3, <2>4 DEF LiveToken
<1>6. ASSUME NEW r \in Records, LiveSend(r)
      PROVE  GateTypes' /\ ProbeIsHeld'
  <2>1. Reports(r)
    BY <1>1, <1>6, SendSucceededReports, SendFailedReports DEF LiveSend
  <2>2. UNCHANGED <<pass, tenantOf>> /\ \A q \in Records \ {r} : live'[q] = live[q]
    BY <1>1, <1>6 DEF LiveSend, Answer, LiveAt, passVars, TypeOK
  <2> QED
    BY <1>3, <2>1, <2>2
<1>7. ASSUME NEW r \in Records, LivePersist(r)
      PROVE  SendsGoOn
  <2>1. live[r] = "persisting" /\ \A q \in Records \ {r} : live'[q] = live[q]
    BY <1>1, <1>7 DEF LivePersist, Answer, LiveAt, TypeOK
  <2> QED
    BY <1>7, <2>1 DEF LivePersist, SendsGoOn, passVars
<1>8. ASSUME NEW r \in Records, LeaseExpires(r)
      PROVE  SendsGoOn
  BY <1>8 DEF LeaseExpires, SendsGoOn, passVars, liveVars
<1>9. ASSUME NEW t \in Tenants, BackoffEnds(t) \/ GateForgotten(t)
      PROVE  GateTypes' /\ ProbeIsHeld'
  <2>1. /\ \E state \in {"open", "halfOpen"} : gate' = [gate EXCEPT ![t] = state]
        /\ UNCHANGED <<live, permit, pass, tenantOf>>
    BY <1>9 DEF BackoffEnds, GateForgotten, liveVars, passVars
  <2> QED
    BY <1>1, <2>1 DEF GateTypes, ProbeIsHeld
<1>10. CASE PassStep
  <2>1. CASE PassBegins
    <3>1. UNCHANGED <<gate, permit, live, tenantOf>>
      BY <1>1, <2>1, PassBeginsSettles DEF liveVars
    <3> QED
      BY <1>1, <2>1, <3>1, ProbeStaysHeld DEF SendsGoOn, PassBegins
  <2>2. CASE pass.pc # "sending" /\ UNCHANGED <<gate, permit, live, tenantOf>>
    BY <1>1, <2>2, ProbeStaysHeld DEF SendsGoOn
  <2>3. ASSUME pass.pc \in Holding
        PROVE  pass.rec \in Records
    BY <1>1, <2>3 DEF PassInv, PassRecord
  <2>4. CASE /\ pass.pc = "token" /\ PassMoves("sending") /\ Acquires(pass.rec)
             /\ UNCHANGED <<live, tenantOf>>
    <3>1. pass.rec \in Records /\ pass'.rec = pass.rec /\ pass'.pc = "sending"
      BY <2>3, <2>4 DEF Holding, PassMoves
    <3> QED
      BY <1>2, <2>4, <3>1
  <2>5. CASE pass.pc = "sending" /\ Reports(pass.rec) /\ UNCHANGED <<live, tenantOf>>
    BY <1>3, <2>3, <2>5 DEF Holding
  <2> QED
    BY <1>1, <1>10, <2>1, <2>2, <2>4, <2>5, PassStepKinds DEF liveVars, NoGateChange
<1>11. CASE Restart
  BY <1>11 DEF Restart, GateTypes, ProbeIsHeld
<1>12. CASE TimerFires \/ CallFlush \/ FlushReplays \/ BeginShutdown \/ CallShutdown \/ ShutdownEnds
            \/ UNCHANGED vars
  <2>1. SendsGoOn
    BY <1>12 DEF TimerFires, CallFlush, FlushReplays, BeginShutdown, CallShutdown, ShutdownEnds,
                 vars, passVars, liveVars, SendsGoOn
  <2> QED
    BY <1>1, <2>1, ProbeStaysHeld
<1> QED
  BY <1>1, <1>4, <1>5, <1>6, <1>7, <1>8, <1>9, <1>10, <1>11, <1>12, ProbeStaysHeld DEF Next, LiveStep

\* The types of the manager's calls.
CallTypes ==
  /\ queue \in Seq({"start", "timer", "flush"})
  /\ flush \in {"idle", "waiting", "replaying"}
  /\ timer \in BOOLEAN /\ stopped \in BOOLEAN /\ closed \in BOOLEAN
  /\ shutdown \in {"no", "waiting", "complete", "failed"}

LEMMA CallInvPreserved ==
  ASSUME IInv, [Next]_vars
  PROVE  CallTypes' /\ DrainInv' /\ FlushInv'
<1> USE DEF ShutdownIsQuiet, FlushCoversDeliveries
<1>1. TypeOK /\ PassInv /\ CallTypes /\ DrainInv /\ FlushInv
  BY DEF IInv, TypeOK, CallTypes
<1>2. live \in [Records -> {"new", "token", "sending", "persisting", "returned", "lost"}]
  BY <1>1 DEF TypeOK
\* A step of deliveries: none starts once the manager is closed.
<1>3. ASSUME Live' \subseteq Live \cup {r \in Records : live[r] = "new"}, closed => Live' \subseteq Live,
             \A r \in Records : live[r] # "new" => live'[r] # "new",
             UNCHANGED <<pass, queue, timer, callVars>>
      PROVE  CallTypes' /\ DrainInv' /\ FlushInv'
  <2>1. CallTypes'
    BY <1>1, <1>3 DEF CallTypes, callVars
  <2>2. DrainInv'
    BY <1>1, <1>3 DEF DrainInv, Busy, callVars
  <2>3. FlushInv'
    BY <1>1, <1>3 DEF FlushInv, Live, callVars
  <2> QED
    BY <2>1, <2>2, <2>3
<1>4. ASSUME NEW r \in Records, Deliver(r) \/ LiveStep(r) \/ LeaseExpires(r)
      PROVE  CallTypes' /\ DrainInv' /\ FlushInv'
  <2>1. UNCHANGED <<pass, queue, timer, callVars>>
    BY <1>4 DEF Deliver, LiveStep, LiveToken, LiveSend, LivePersist, LeaseExpires, passVars
  <2>2. /\ \A q \in Records \ {r} : live'[q] = live[q]
        /\ live'[r] = live[r] \/ /\ live[r] \in {"new", "token", "sending", "persisting"}
                                 /\ live'[r] \in {"token", "sending", "persisting", "returned"}
                                 /\ live[r] = "new" /\ closed => live'[r] = "returned"
    BY <1>2, <1>4 DEF Deliver, LiveStep, LiveToken, LiveSend, LivePersist, LeaseExpires, Answer,
                      LiveAt, liveVars
  <2> QED
    BY <1>3, <2>1, <2>2 DEF Live
\* A step of the pass: it goes on only if it was running.
<1>5. ASSUME pass.pc # "idle" \/ queue # <<>>, UNCHANGED <<live, awaited, stopped, closed, shutdown>>,
             queue' \in Seq({"start", "timer", "flush"}),
             timer' \in BOOLEAN, stopped => timer' = timer, flush' \in {flush, "idle"}
      PROVE  CallTypes' /\ DrainInv' /\ FlushInv'
  <2>1. CallTypes'
    BY <1>1, <1>5 DEF CallTypes
  <2>2. DrainInv'
    BY <1>1, <1>5 DEF DrainInv, Busy
  <2>3. FlushInv'
    BY <1>1, <1>5 DEF FlushInv, Live
  <2> QED
    BY <2>1, <2>2, <2>3
<1>6. CASE PassStep
  <2>1. CASE PassBegins
    <3>1. queue # <<>> /\ timer' = timer
      BY <1>1, <2>1, PassBeginsSettles DEF PassBegins
    <3> QED
      BY <1>1, <1>5, <2>1, <3>1, PassBeginsSettles DEF liveVars, CallTypes
  <2>2. CASE pass.pc # "idle" /\ PassSettles /\ UNCHANGED liveVars
    BY <1>1, <1>5, <2>2 DEF PassSettles, liveVars, CallTypes
  <2>3. CASE pass.pc # "idle" /\ UNCHANGED <<queue, timer, callVars, liveVars>>
    BY <1>1, <1>5, <2>3 DEF callVars, liveVars, CallTypes
  <2> QED
    BY <1>1, <1>6, <2>1, <2>2, <2>3, PassStepKinds DEF ClaimsRecord, PassMoves
<1>7. ASSUME NEW t \in Tenants, BackoffEnds(t) \/ GateForgotten(t)
      PROVE  CallTypes' /\ DrainInv' /\ FlushInv'
  BY <1>3, <1>7 DEF BackoffEnds, GateForgotten, passVars, liveVars, Live
<1>8. CASE TimerFires
  <2>1. ~stopped /\ ~closed /\ shutdown = "no"
    BY <1>1, <1>8 DEF TimerFires, DrainInv
  <2>2. /\ queue' \in Seq({"start", "timer", "flush"}) /\ timer' = FALSE
        /\ UNCHANGED <<live, flush, awaited, stopped, closed, shutdown>>
    BY <1>1, <1>8 DEF TimerFires, CallTypes, callVars, liveVars
  <2> QED
    BY <1>1, <2>1, <2>2 DEF CallTypes, DrainInv, FlushInv, Live
<1>9. CASE CallFlush
  <2>1. UNCHANGED <<live, pass, queue, timer, stopped, closed, shutdown>> /\ flush' = "waiting"
        /\ awaited' = Live
    BY <1>9 DEF CallFlush, passVars, liveVars
  <2>2. FlushInv'
    BY <2>1 DEF FlushInv, Live
  <2> QED
    BY <1>1, <2>1, <2>2 DEF CallTypes, DrainInv, Busy, Live
<1>10. CASE FlushReplays
  <2>1. UNCHANGED <<live, pass, timer, awaited, stopped, closed, shutdown>> /\ ~Busy
    BY <1>10 DEF FlushReplays, liveVars
  <2>2. \/ closed /\ flush' = "idle" /\ UNCHANGED queue
        \/ ~closed /\ flush' = "replaying" /\ queue' = Append(queue, "flush")
    BY <1>10 DEF FlushReplays
  <2>3. CallTypes'
    BY <1>1, <2>1, <2>2 DEF CallTypes
  <2>4. DrainInv'
    BY <1>1, <2>1, <2>2 DEF DrainInv, Busy, Live
  <2>5. FlushInv'
    BY <1>1, <2>1, <2>2 DEF FlushInv, Busy, Live
  <2> QED
    BY <2>3, <2>4, <2>5
<1>11. CASE BeginShutdown
  BY <1>1, <1>11 DEF BeginShutdown, CallTypes, DrainInv, FlushInv, Busy, Live, liveVars
<1>12. CASE CallShutdown
  BY <1>1, <1>12 DEF CallShutdown, CallTypes, DrainInv, FlushInv, Busy, Live, liveVars
<1>13. CASE ShutdownEnds
  BY <1>1, <1>13 DEF ShutdownEnds, CallTypes, DrainInv, FlushInv, Busy, Live, liveVars, passVars
<1>14. CASE Restart
  <2>1. queue' \in Seq({"start", "timer", "flush"})
    BY <1>14 DEF Restart
  <2> QED
    BY <1>14, <2>1 DEF Restart, CallTypes, DrainInv, FlushInv
<1>15. CASE UNCHANGED vars
  BY <1>3, <1>15 DEF vars, callVars, Live
<1> QED
  BY <1>4, <1>6, <1>7, <1>8, <1>9, <1>10, <1>11, <1>12, <1>13, <1>14, <1>15 DEF Next

\* The scenario's bounds only shrink, and records keep their tenants.
LEMMA ScenarioPreserved ==
  ASSUME TypeOK, [Next]_vars
  PROVE  tenantOf' \in [Records -> Tenants] /\ faults' \in Nat /\ restarts' \in Nat
<1>1. tenantOf \in [Records -> Tenants] /\ faults \in Nat /\ restarts \in Nat
  BY DEF TypeOK
<1>2. faults > 0 => faults - 1 \in Nat
  BY <1>1
<1>3. restarts > 0 => restarts - 1 \in Nat
  BY <1>1
<1>4. ASSUME Fault \/ NoFault \/ FaultOrAbort
      PROVE  faults' \in Nat
  BY <1>1, <1>2, <1>4 DEF Fault, NoFault, FaultOrAbort
<1>5. ASSUME NEW r \in Records, Deliver(r) \/ LiveStep(r) \/ LeaseExpires(r)
      PROVE  UNCHANGED <<tenantOf, restarts>> /\ faults' \in Nat
  <2>1. CASE Deliver(r) \/ LeaseExpires(r)
    BY <1>1, <2>1 DEF Deliver, LeaseExpires
  <2>2. CASE LiveToken(r)
    BY <1>4, <2>2 DEF LiveToken
  <2>3. CASE LiveSend(r)
    BY <1>4, <2>3 DEF LiveSend
  <2>4. CASE LivePersist(r)
    BY <1>4, <2>4 DEF LivePersist
  <2> QED
    BY <1>5, <2>1, <2>2, <2>3, <2>4 DEF LiveStep
<1>6. ASSUME NEW t \in Tenants, BackoffEnds(t) \/ GateForgotten(t)
      PROVE  UNCHANGED <<tenantOf, restarts, faults>>
  BY <1>6 DEF BackoffEnds, GateForgotten
<1>7. CASE PassStep
  <2>1. CASE PassBegins
    BY <1>1, <2>1 DEF PassBegins
  <2>2. CASE Claim
    BY <1>1, <1>4, <2>2 DEF Claim, ClaimFails
  <2>3. CASE Validate \/ ReplayToken
    BY <1>1, <1>4, <2>3 DEF Validate, ReplayToken
  <2>4. CASE ReplaySend
    BY <1>1, <1>4, <2>4 DEF ReplaySend
  <2>5. CASE Complete \/ Release
    BY <1>1, <1>4, <2>5 DEF Complete, Release
  <2> QED
    BY <1>7, <2>1, <2>2, <2>3, <2>4, <2>5 DEF PassStep
<1>8. CASE TimerFires \/ CallFlush \/ FlushReplays \/ BeginShutdown \/ CallShutdown \/ ShutdownEnds
           \/ UNCHANGED vars
  BY <1>1, <1>8 DEF TimerFires, CallFlush, FlushReplays, BeginShutdown, CallShutdown, ShutdownEnds,
                    vars
<1>9. CASE Restart
  BY <1>1, <1>3, <1>9 DEF Restart
<1> QED
  BY <1>1, <1>5, <1>6, <1>7, <1>8, <1>9 DEF Next

LEMMA NextIInv == IInv /\ [Next]_vars => IInv'
<1> SUFFICES ASSUME IInv, [Next]_vars
             PROVE  IInv'
  OBVIOUS
<1>1. PassInv'
  BY PassInvPreserved
<1>2. LiveInv'
  BY LiveInvPreserved
<1>3. GateTypes' /\ ProbeIsHeld'
  BY ProbeIsHeldPreserved
<1>4. CallTypes' /\ DrainInv' /\ FlushInv'
  BY CallInvPreserved
<1>5. tenantOf' \in [Records -> Tenants] /\ faults' \in Nat /\ restarts' \in Nat
  BY ScenarioPreserved DEF IInv
<1>6. /\ pass'.rec \in Records \cup {NoRecord} /\ pass'.attempted <= pass'.scanned
      /\ pass'.scanned <= MaxReplayBatchSize * ScanFactor
  <2>1. pass'.scanned \in Nat /\ pass'.rec \in Records \cup {NoRecord}
    BY <1>1 DEF PassInv, PassRecord
  <2> QED
    BY <1>1, <2>1, ScanLimitIsPositive DEF PassInv, ScanLimit
<1>7. {timer', stopped', closed'} \subseteq BOOLEAN
  BY <1>4 DEF CallTypes
<1>8. TypeOK'
  BY <1>2, <1>3, <1>4, <1>5, <1>6, <1>7 DEF TypeOK, LiveInv, GateTypes, CallTypes
<1> QED
  BY <1>1, <1>2, <1>3, <1>4, <1>8 DEF IInv, LiveInv

LEMMA Invariance == Spec => []IInv
BY InitIInv, NextIInv, PTL DEF Spec

\* For any records, tenants and scenario the manager is well formed: a record in a pass is
\* leased by it, a pass keeps within its scan limit, and no gate is left probing without a
\* send that holds its permit and will report (attemptSend records an outcome on every
\* path after acquire).
THEOREM Spec_ManagerInv == Spec => []ManagerInv
<1>1. IInv => ManagerInv
  BY DEF IInv, ManagerInv
<1> QED
  BY <1>1, Invariance, PTL

\* When shutdown has resolved, no delivery, pass or timer of the manager is left, whatever
\* calls, timers and sends were under way when it was called.
THEOREM Spec_ShutdownIsQuiet == Spec => []ShutdownIsQuiet
<1>1. IInv => ShutdownIsQuiet
  BY DEF IInv, DrainInv
<1> QED
  BY <1>1, Invariance, PTL

\* forceFlush's own pass begins after every delivery it found in progress has resolved.
THEOREM Spec_FlushCoversDeliveries == Spec => []FlushCoversDeliveries
<1>1. IInv => FlushCoversDeliveries
  BY DEF IInv, FlushInv
<1> QED
  BY <1>1, Invariance, PTL

-----------------------------------------------------------------------------
(* The manager implements DurableDelivery *)

Custody == {r \in Records : place[r] # "none"}

LEMMA StepsKeepThePromise ==
  ASSUME IInv, IInv', [Next]_vars
  PROVE  [Promise!Next]_(Promise!vars)
<1> DEFINE Stutters == UNCHANGED <<answer, received, refused, Custody>>
<1>1. /\ TypeOK /\ PassInv /\ CustodyInv /\ LiveInv
      /\ NoRecord \notin Records
  BY ManagerAssumption DEF IInv, LiveInv, TypeOK, ManagerAssumption
<1>2. Stutters => UNCHANGED Promise!vars
  BY DEF Promise!vars, Custody
<1>3. UNCHANGED place => UNCHANGED Custody
  BY DEF Custody
<1>4. ASSUME NEW r \in Records, Deliver(r)
      PROVE  Stutters \/ Promise!GiveUp(r)
  <2>1. UNCHANGED <<place, received, refused>> /\ answer[r] = NoAnswer
    BY <1>1, <1>4 DEF Deliver, ghosts, CustodyInv
  <2>2. CASE UNCHANGED answer
    BY <1>3, <2>1, <2>2
  <2>3. CASE answer' = [answer EXCEPT ![r] = FALSE]
    BY <2>1, <2>3 DEF Promise!GiveUp
  <2> QED
    BY <1>4, <2>2, <2>3 DEF Deliver, Answer
<1>5. ASSUME NEW r \in Records, LiveToken(r) \/ LeaseExpires(r)
      PROVE  Stutters
  <2>1. CASE LiveToken(r)
    BY <1>3, <2>1 DEF LiveToken, ghosts
  <2>2. CASE LeaseExpires(r)
    <3>1. place[r] = "leased" /\ place' = [place EXCEPT ![r] = "expired"]
      BY <2>2 DEF LeaseExpires
    <3>2. UNCHANGED Custody
      BY <1>1, <3>1 DEF Custody, LiveInv
    <3> QED
      BY <2>2, <3>2 DEF LeaseExpires, liveVars, ghosts
  <2> QED
    BY <1>5, <2>1, <2>2
<1>6. ASSUME NEW r \in Records, LiveSend(r)
      PROVE  \/ Stutters \/ Promise!Receive(r) \/ Promise!ReceiveAndAnswer(r) \/ Promise!Refuse(r)
  <2>1. UNCHANGED Custody /\ answer[r] = NoAnswer
    BY <1>1, <1>3, <1>6 DEF LiveSend, CustodyInv
  <2>2. CASE /\ answer' = [answer EXCEPT ![r] = TRUE]
             /\ received' = received \cup {r} /\ UNCHANGED refused
    BY <2>1, <2>2 DEF Promise!ReceiveAndAnswer, Custody
  <2>3. CASE /\ answer' = [answer EXCEPT ![r] = FALSE]
             /\ refused' = refused \cup {r} /\ UNCHANGED received
    BY <2>1, <2>3 DEF Promise!Refuse, Custody
  <2>4. CASE received' \in {received, received \cup {r}} /\ UNCHANGED <<refused, answer>>
    BY <2>1, <2>4 DEF Promise!Receive, Custody
  <2> QED
    BY <1>6, <2>2, <2>3, <2>4 DEF LiveSend, Answer
<1>7. ASSUME NEW r \in Records, LivePersist(r)
      PROVE  Promise!TakeOver(r) \/ Promise!GiveUp(r)
  <2>1. PICK evicted \in SUBSET {q \in Records : place[q] = "pending"},
             stored \in BOOLEAN, synced \in BOOLEAN :
          /\ synced => stored
          /\ place' = [q \in Records |-> CASE q = r /\ stored -> "pending"
                                           [] q # r /\ q \in evicted -> "none"
                                           [] OTHER -> place[q]]
          /\ Answer(r, synced)
    BY <1>7 DEF LivePersist
  <2>2. /\ answer[r] = NoAnswer /\ place[r] = "none" /\ UNCHANGED <<received, refused>>
        /\ answer' = [answer EXCEPT ![r] = synced]
    BY <1>1, <1>7, <2>1 DEF LivePersist, Answer, ghosts, CustodyInv
  <2>3. r \notin Custody /\ evicted \in SUBSET Custody /\ r \notin evicted
    BY <2>2 DEF Custody
  <2>4. CASE stored
    <3>1. \A q \in Records : place'[q] # "none" <=> q = r \/ (place[q] # "none" /\ q \notin evicted)
      <4>1. TAKE q \in Records
      <4>2. CASE q = r
        BY <2>1, <2>4, <4>2
      <4>3. CASE q # r /\ q \in evicted
        BY <2>1, <4>3
      <4>4. CASE q # r /\ q \notin evicted
        BY <2>1, <4>4
      <4> QED
        BY <4>2, <4>3, <4>4
    <3>2. Custody' = (Custody \ evicted) \cup {r}
      BY <3>1 DEF Custody
    <3> QED
      BY <2>2, <2>3, <3>2 DEF Promise!TakeOver, Custody
  <2>5. CASE ~stored
    <3>1. \A q \in Records : place'[q] # "none" <=> place[q] # "none" /\ q \notin evicted
      <4>1. TAKE q \in Records
      <4>2. CASE q \in evicted
        BY <2>1, <2>3, <2>5, <4>2
      <4>3. CASE q \notin evicted
        BY <2>1, <2>5, <4>3
      <4> QED
        BY <4>2, <4>3
    <3>2. Custody' = Custody \ evicted
      BY <3>1 DEF Custody
    <3>3. synced = FALSE
      BY <2>1, <2>5
    <3> QED
      BY <2>2, <2>3, <3>2, <3>3 DEF Promise!GiveUp, Custody
  <2> QED
    BY <2>4, <2>5
<1>8. CASE PassStep
  <2>1. UNCHANGED answer
    BY <1>8 DEF PassStep, PassBegins, Claim, Validate, ReplayToken, ReplaySend, Complete, Release,
                liveVars
  <2>2. ASSUME pass.pc \in Holding
        PROVE  pass.rec \in Records /\ pass.rec \in Custody /\ place[pass.rec] = "leased"
    BY <1>1, <2>2 DEF PassInv, PassRecord, LiveInv, Custody
  <2>3. CASE MovesWithinStore /\ UNCHANGED ghosts
    <3>1. UNCHANGED Custody
      BY <2>3 DEF MovesWithinStore, Custody
    <3> QED
      BY <1>2, <2>1, <2>3, <3>1 DEF ghosts
  <2>4. ASSUME NEW r \in Records, ClaimsRecord(r), UNCHANGED ghosts
        PROVE  Stutters
    <3>1. place' = [Recovered EXCEPT ![r] = "leased"] /\ place[r] # "none"
      BY <2>4 DEF ClaimsRecord, Leased
    <3>2. UNCHANGED Custody
      BY <1>1, <3>1, RecoveredPlaces DEF Custody
    <3> QED
      BY <2>1, <2>4, <3>2 DEF ghosts
  <2>5. CASE /\ pass.pc = "sending" /\ UNCHANGED place
             /\ \/ received' \in {received, received \cup {pass.rec}} /\ UNCHANGED refused
                \/ refused' = refused \cup {pass.rec} /\ UNCHANGED received
    <3>1. UNCHANGED Custody /\ pass.rec \in Records
      BY <1>3, <2>2, <2>5 DEF Holding
    <3>2. Stutters \/ Promise!Receive(pass.rec) \/ Promise!Refuse(pass.rec)
      BY <2>1, <2>5, <3>1 DEF Promise!Receive, Promise!Refuse, Custody
    <3> QED
      BY <1>2, <3>1, <3>2 DEF Promise!Next
  <2>6. CASE /\ pass.pc = "completing" /\ UNCHANGED ghosts
             /\ place' = [place EXCEPT ![pass.rec] = "none"]
    <3>1. PICK r \in Records : /\ r = pass.rec
                               /\ r \in Custody /\ r \in received \cup refused
      BY <1>1, <2>2, <2>6 DEF Holding, PassInv
    <3>2. Custody' = Custody \ {r}
      BY <1>1, <2>6, <3>1 DEF Custody, LiveInv
    <3>3. Promise!LetGo(r)
      BY <2>1, <2>6, <3>1, <3>2 DEF Promise!LetGo, ghosts, Custody
    <3> QED
      BY <3>3 DEF Promise!Next
  <2>7. CASE /\ pass.pc = "releasing" /\ UNCHANGED ghosts
             /\ place' = [place EXCEPT ![pass.rec] = "pending"]
    <3>1. UNCHANGED Custody
      BY <1>1, <2>2, <2>7 DEF Custody, Holding, LiveInv
    <3> QED
      BY <1>2, <2>1, <2>7, <3>1 DEF ghosts
  <2>8. CASE UNCHANGED <<place, ghosts>>
    BY <1>2, <1>3, <2>1, <2>8 DEF ghosts
  <2>9. CASE PassBegins
    BY <2>8, <2>9 DEF PassBegins
  <2> QED
    BY <1>1, <1>2, <1>8, <2>3, <2>4, <2>5, <2>6, <2>7, <2>8, <2>9, PassStepKinds DEF PassMoves
<1>9. ASSUME NEW t \in Tenants, BackoffEnds(t) \/ GateForgotten(t)
      PROVE  Stutters
  BY <1>3, <1>9 DEF BackoffEnds, GateForgotten, liveVars, ghosts
<1>10. CASE TimerFires \/ CallFlush \/ FlushReplays \/ BeginShutdown \/ CallShutdown \/ ShutdownEnds
            \/ Restart \/ UNCHANGED vars
  BY <1>2, <1>3, <1>10 DEF TimerFires, CallFlush, FlushReplays, BeginShutdown, CallShutdown,
                           ShutdownEnds, Restart, vars, liveVars, ghosts
<1> QED
  BY <1>2, <1>4, <1>5, <1>6, <1>7, <1>8, <1>9, <1>10 DEF Next, LiveStep, Promise!Next

\* The manager, with its passes, gates, evictions, aborted waits and restarts, implements
\* at-least-once delivery: what it answers true for was received or is stored, and the
\* store lets go only of what the endpoint received or refused, or evicts it for another.
THEOREM Spec_AtLeastOnce == Spec => AtLeastOnce
<1>1. Init => Promise!Init
  BY DEF Init, Promise!Init
<1> QED
  BY <1>1, Invariance, StepsKeepThePromise, PTL DEF Spec, AtLeastOnce, Promise!Spec
=============================================================================
