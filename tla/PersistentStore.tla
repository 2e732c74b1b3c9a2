--------------------------- MODULE PersistentStore ---------------------------
(***************************************************************************)
(* The directory of durable records, shared by every process of one        *)
(* application.  Each process has one lane that persists (the static       *)
(* per-root lock admits one persist at a time) and one that claims, sends  *)
(* and settles (the claim lock, and the serialised replay passes above     *)
(* it).  Every await is a point where the other lanes may run, where the   *)
(* process may crash, and where the call awaited may throw: before it had  *)
(* its effect, or after it, when the directory sync that follows fails.    *)
(*                                                                         *)
(* A record has at most one file: every operation renames or unlinks one   *)
(* exact path.  A path is (record, kind, version): the version stands for  *)
(* the time stamp, pid and UUID in the name, so a new name never equals    *)
(* one that anybody still remembers, and an operation on a remembered path *)
(* that is gone meets ENOENT.  readManagedFiles is two steps: the readdir, *)
(* and the stats of what it listed.                                        *)
(***************************************************************************)
EXTENDS Integers, FiniteSets, FiniteSetsExt

CONSTANTS Processes,
          Records,     \* records, numbered in the order of createdAt-id
          Size,        \* Size[r]: bytes of the serialised record
          MaxBytes,    \* maxStorageBytes
          Scenarios,   \* bound: what the explored behaviours may use
          MaxVersion   \* bound: versions of one record's name remembered at once

\* The processes that persist and those that claim, the records an older version left
\* leased without a time stamp, those persisted, those that may outlive
\* maxRecordAgeMilliseconds or be damaged or replaced from outside, and how many crashes
\* and failing calls there may be.
Scenario == [persist: SUBSET Processes, claim: SUBSET Processes, legacy: SUBSET Records,
             new: SUBSET Records, ages: SUBSET Records, spoils: SUBSET Records,
             crashes: Nat, faults: Nat]

ASSUME StoreAssumption ==
  /\ Records \subseteq Nat /\ IsFiniteSet(Records) /\ IsFiniteSet(Processes)
  /\ Size \in [Records -> Nat \ {0}]
  /\ MaxBytes \in Nat \ {0}
  /\ \A sc \in Scenarios : sc \in Scenario /\ sc.legacy \cap sc.new = {}
  /\ MaxVersion \in Nat /\ MaxVersion > 3 * Cardinality(Processes)

VARIABLES file,      \* file[r]: [kind, version], kind "none" when r has no file
          old,       \* records whose file name is past maxRecordAgeMilliseconds
          stale,     \* leased records whose lease is past leaseDurationMilliseconds
          bad,       \* records whose content no longer parses
          persister, \* persister[p]: the persisting lane
          claimer,   \* claimer[p]: the claiming lane
          mishaps,   \* crashes and failed calls so far, and the records whose temporary
                     \* file they left: its writer crashed, or could not remove it
          offered,   \* records handed to persist so far
          scenario   \* the scenario of this behaviour

vars == <<file, old, stale, bad, persister, claimer, mishaps, offered, scenario>>

Versions == 0 .. MaxVersion

Kinds == {"none", "tmp", "pending", "lease", "legacy", "quarantine"}

NoFile == [kind |-> "none", version |-> 0]

\* A path as one lane remembers it, with what its name says of its age.
Name == [rec: Records, version: Versions, kind: Kinds \ {"none"}, old: BOOLEAN]

NameOf(r) == [rec |-> r, version |-> file[r].version, kind |-> file[r].kind,
              old |-> r \in old]

Stored == {r \in Records : file[r].kind # "none"}

Exists(n) == file[n.rec] = [kind |-> n.kind, version |-> n.version]

Listed(kinds) == {NameOf(r) : r \in {x \in Stored : file[x].kind \in kinds}}

Active == {"lease", "legacy"}         \* isActiveLeaseFileName
Evictable == {"pending", "quarantine"} \* isEvictableFileName

BytesOf(records) == MapThenSumSet(LAMBDA r : Size[r], records)

\* Mutation: only what could be evicted is counted.
SumBytesOfEvictable(names) ==
  BytesOf({n.rec : n \in {m \in names : m.kind \in Evictable}})

\* The names are of different records.
SumBytes(names) == BytesOf({n.rec : n \in names})

TotalBytes == BytesOf(Stored)

Idle == [pc |-> "idle", names |-> {}]

IdlePersister == [pc |-> "idle", rec |-> 0, incoming |-> 0, round |-> 0, names |-> {},
                  used |-> 0, own |-> 0, moved |-> FALSE]

\* The paths of r somebody remembers.
Remembered(r) ==
  {n.version : n \in {m \in UNION {persister[p].names \cup claimer[p].names : p \in Processes} :
                        m.rec = r}}
    \cup {persister[p].own : p \in {q \in Processes : persister[q].rec = r}}

NewVersion(r) == CHOOSE v \in Versions \ (Remembered(r) \cup {file[r].version}) :
                   \A w \in Versions \ (Remembered(r) \cup {file[r].version}) : v <= w

\* A rename gives r's file another kind under a new name.
RenamedTo(r, kind) == [file EXCEPT ![r] = [kind |-> kind, version |-> NewVersion(r)]]

Unlinked(n) == IF Exists(n) THEN [file EXCEPT ![n.rec] = NoFile] ELSE file

Oldest(names) == CHOOSE n \in names : \A m \in names : n.rec <= m.rec

\* Ghost: every persist in progress sees the directory change under it.
Disturb ==
  persister' = [q \in Processes |->
                  [persister[q] EXCEPT !.moved = @ \/ persister[q].pc # "idle"]]

Init ==
  /\ scenario \in Scenarios
  /\ file = [r \in Records |-> IF r \in scenario.legacy
                               THEN [kind |-> "legacy", version |-> 0] ELSE NoFile]
  /\ old = {} /\ stale = {} /\ bad = {}
  /\ persister = [p \in Processes |-> IdlePersister]
  /\ claimer = [p \in Processes |-> Idle]
  /\ mishaps = [crashes |-> 0, faults |-> 0, abandoned |-> {}]
  /\ offered = {}

-----------------------------------------------------------------------------
(* persist *)

\* pruneForCapacity begins, before the record is written or, with nothing incoming, after.
Pruner(r, incoming, own, moved) ==
  [pc |-> "list", rec |-> r, incoming |-> incoming, round |-> 1, names |-> {},
   used |-> 0, own |-> own, moved |-> moved]

\* A record larger than the whole store is refused at once (RangeError).
StartPersist(p, r) ==
  /\ p \in scenario.persist /\ persister[p].pc = "idle"
  /\ r \in scenario.new \ offered
  /\ offered' = offered \cup {r}
  /\ persister' = IF Size[r] > MaxBytes THEN persister
                  ELSE [persister EXCEPT ![p] = Pruner(r, Size[r], 0, FALSE)]
  /\ UNCHANGED <<file, old, stale, bad, claimer, mishaps, scenario>>

\* readdir of pruneForCapacity's first, second or surviving-files scan.
ListFiles(p) ==
  /\ persister[p].pc = "list"
  /\ persister' = [persister EXCEPT ![p].names = Listed(Kinds), ![p].pc = "stat"]
  /\ UNCHANGED <<file, old, stale, bad, claimer, mishaps, offered, scenario>>

\* Room was made: write the temporary file, or, the second time, publish it.
Room(p) == IF persister[p].incoming > 0 THEN "write" ELSE "publish"

\* Mutation: an expired lease file is removed like any other.
ExpiredWithLeases(names) == {n \in names : n.old}

\* Expired files, save active leases.
Expired(names) == {n \in names : n.old /\ n.kind \notin Active}

CanEvict(names) == {n \in names : n.kind \in Evictable}

\* Where pruneForCapacity stands with these files left to look at and this many bytes
\* in use: in the expiry loop, in the eviction loop, or past one of its three checks.
Pruning(p, round, names, used) ==
  LET fits     == used + persister[p].incoming <= MaxBytes
      at(pc)   == [persister[p] EXCEPT !.pc = pc, !.round = round, !.names = names,
                                       !.used = used]
      on(pc, r) == [persister[p] EXCEPT !.pc = pc, !.round = r, !.names = {}, !.used = 0]
  IN  CASE round = 1 /\ Expired(names) # {}          -> at("expire")
        [] round = 1 /\ Expired(names) = {} /\ ~fits -> on("list", 2)
        [] round = 2 /\ ~fits /\ CanEvict(names) # {} -> at("evict")
        [] round = 2 /\ ~fits /\ CanEvict(names) = {} -> on("list", 3)
        [] round = 3 /\ ~fits                        -> on("fail", 0)
        [] OTHER                                     -> on(Room(p), 1)

\* The stats: a file renamed or removed since the readdir is not counted.
StatFiles(p) ==
  LET seen == {n \in persister[p].names : Exists(n)} IN
  /\ persister[p].pc = "stat"
  /\ persister' = [persister EXCEPT ![p] = Pruning(p, @.round, seen, SumBytes(seen))]
  /\ UNCHANGED <<file, old, stale, bad, claimer, mishaps, offered, scenario>>

\* Its size is subtracted whether or not the unlink found it.
UnlinkNext(p, n) ==
  /\ file' = Unlinked(n)
  /\ persister' = [persister EXCEPT
                     ![p] = Pruning(p, @.round, @.names \ {n}, @.used - Size[n.rec])]
  /\ UNCHANGED <<old, stale, bad, claimer, mishaps, offered, scenario>>

ExpireFile(p) ==
  /\ persister[p].pc = "expire"
  /\ UnlinkNext(p, Oldest(Expired(persister[p].names)))

EvictFile(p) ==
  /\ persister[p].pc = "evict"
  /\ UnlinkNext(p, Oldest(CanEvict(persister[p].names)))

\* open(wx), write, sync, close; then pruneForCapacity(0).
WriteTemporary(p) ==
  LET r == persister[p].rec IN
  /\ persister[p].pc = "write"
  /\ file' = RenamedTo(r, "tmp")
  /\ persister' = [q \in Processes |->
                     IF q = p
                     THEN Pruner(r, 0, NewVersion(r), persister[p].moved)
                     ELSE [persister[q] EXCEPT !.moved = persister[q].pc # "idle"]]
  /\ old' = old \ {r}
  /\ UNCHANGED <<stale, bad, claimer, mishaps, offered, scenario>>

\* The path of the temporary file p wrote.
Temporary(p) == [rec |-> persister[p].rec, kind |-> "tmp", version |-> persister[p].own]

\* Mutation: what throws is not caught, and persist ends at once.
Uncaught(p) == IdlePersister

\* p's persist, on its way into the error path.
Failing(p) == [persister[p] EXCEPT !.pc = "fail", !.round = 0]

\* rename(tmp, pending).  ENOENT, when another process expired the file, is an error.
Publish(p) ==
  LET r == persister[p].rec IN
  /\ persister[p].pc = "publish"
  /\ IF Exists(Temporary(p))
     THEN /\ file' = RenamedTo(r, "pending")
          /\ persister' = [q \in Processes |->
                             IF q = p THEN IdlePersister
                             ELSE [persister[q] EXCEPT !.moved = persister[q].pc # "idle"]]
     ELSE /\ persister' = [persister EXCEPT ![p] = Failing(p)]
          /\ UNCHANGED file
  /\ UNCHANGED <<old, stale, bad, claimer, mishaps, offered, scenario>>

\* The error path: remove the temporary file, if there is one, and report the failure.
FailPersist(p) ==
  /\ persister[p].pc = "fail"
  /\ file' = Unlinked(Temporary(p))
  /\ persister' = [persister EXCEPT ![p] = IdlePersister]
  /\ UNCHANGED <<old, stale, bad, claimer, mishaps, offered, scenario>>

-----------------------------------------------------------------------------
(* claimBatch(1), and what the caller does with the claim *)

Claimer(p, pc, names) == claimer' = [claimer EXCEPT ![p] = [pc |-> pc, names |-> names]]

\* A claimer renames a file it knows: no lease of the record is stale any more.
Rename(n, kind) ==
  /\ file' = RenamedTo(n.rec, kind)
  /\ stale' = stale \ {n.rec}
  /\ Disturb

Untouched == UNCHANGED <<file, stale, persister>>

\* The loops over listed names: go on, or go past the last one.
Recovering(p, names) == Claimer(p, IF names = {} THEN "list" ELSE "recover", names)

Scanning(p, names) == Claimer(p, IF names = {} THEN "idle" ELSE "scan", names)

\* Mutation: claimBatch goes straight to the pending files.
BeginClaimWithoutRecovery(p) ==
  /\ p \in scenario.claim /\ claimer[p].pc = "idle"
  /\ Recovering(p, {})
  /\ UNCHANGED <<file, old, stale, bad, persister, mishaps, offered, scenario>>

\* recoverStaleLeases: list the leases; those too old, and the legacy ones, are moved.
BeginClaim(p) ==
  /\ p \in scenario.claim /\ claimer[p].pc = "idle"
  /\ Recovering(p, {n \in Listed(Active) : n.kind = "legacy" \/ n.rec \in stale})
  /\ UNCHANGED <<file, old, stale, bad, persister, mishaps, offered, scenario>>

\* A stale lease becomes pending again; a legacy lease starts a lease term.
RecoveredKind(n) == IF n.kind = "legacy" THEN "lease" ELSE "pending"

RecoverLease(p) ==
  /\ claimer[p].pc = "recover"
  /\ \E n \in claimer[p].names :
       /\ IF Exists(n) THEN Rename(n, RecoveredKind(n)) ELSE Untouched
       /\ Recovering(p, claimer[p].names \ {n})
  /\ UNCHANGED <<old, bad, mishaps, offered, scenario>>

\* With nothing pending, claimBatch returns no claim.
ListPending(p) ==
  /\ claimer[p].pc = "list"
  /\ Scanning(p, Listed({"pending"}))
  /\ UNCHANGED <<file, old, stale, bad, persister, mishaps, offered, scenario>>

\* A damaged file is moved aside under a fresh name, or, from a lease, under the
\* record's own.
Quarantine(n, newName) ==
  /\ Rename(n, "quarantine")
  /\ old' = IF newName THEN old \ {n.rec} ELSE old

\* Preflight read of the first name listed: gone, excluded by the caller, damaged, or
\* worth renaming.
Preflight(p) ==
  LET n == Oldest(claimer[p].names) IN
  /\ claimer[p].pc = "scan"
  /\ \/ /\ Exists(n) /\ n.rec \notin bad
        /\ Claimer(p, "rename", claimer[p].names)
        /\ Untouched /\ UNCHANGED old
     \/ /\ n.rec \in bad => ~Exists(n)
        /\ Scanning(p, claimer[p].names \ {n})
        /\ Untouched /\ UNCHANGED old
     \/ /\ Exists(n) /\ n.rec \in bad
        /\ Scanning(p, claimer[p].names \ {n})
        /\ Quarantine(n, TRUE)
  /\ UNCHANGED <<bad, mishaps, offered, scenario>>

\* rename(pending, lease), the claim itself.
RenameToLease(p) ==
  LET n == Oldest(claimer[p].names)
      v == NewVersion(n.rec)
  IN
  /\ claimer[p].pc = "rename"
  /\ IF Exists(n)
     THEN /\ Rename(n, "lease")
          /\ Claimer(p, "reread", (claimer[p].names \ {n})
                                    \cup {[n EXCEPT !.kind = "lease", !.version = v]})
     ELSE Untouched /\ Scanning(p, claimer[p].names \ {n})
  /\ UNCHANGED <<old, bad, mishaps, offered, scenario>>

\* The lease is read again: gone (recovered by another), damaged, claimed, or, if the
\* content was replaced since the preflight, excluded by the caller and released.
Reread(p) ==
  LET n == CHOOSE m \in claimer[p].names : m.kind = "lease" IN
  /\ claimer[p].pc = "reread"
  /\ \/ /\ Exists(n) /\ n.rec \notin bad
        /\ Claimer(p, "claimed", {n})
        /\ Untouched /\ UNCHANGED old
     \/ /\ Exists(n) /\ n.rec \in scenario.spoils \ bad
        /\ Scanning(p, claimer[p].names \ {n})
        /\ Rename(n, "pending") /\ UNCHANGED old
     \/ /\ Exists(n) /\ n.rec \in bad
        /\ Scanning(p, claimer[p].names \ {n})
        /\ Quarantine(n, FALSE)
     \/ /\ ~Exists(n)
        /\ Scanning(p, claimer[p].names \ {n})
        /\ Untouched /\ UNCHANGED old
  /\ UNCHANGED <<bad, mishaps, offered, scenario>>

Claim(p) == CHOOSE n \in claimer[p].names : TRUE

Holds(p, r) == claimer[p].pc = "claimed" /\ Claim(p).rec = r

\* complete: unlink the lease, if it is still there.
Remove(n) ==
  /\ file' = Unlinked(n)
  /\ stale' = IF Exists(n) THEN stale \ {n.rec} ELSE stale
  /\ UNCHANGED persister

Complete(p) ==
  /\ claimer[p].pc = "claimed"
  /\ Remove(Claim(p))
  /\ Claimer(p, "idle", {})
  /\ UNCHANGED <<old, bad, mishaps, offered, scenario>>

\* release: rename the lease, if it is still there, to a new pending name.
ReleaseClaim(p) ==
  /\ claimer[p].pc = "claimed"
  /\ IF Exists(Claim(p)) THEN Rename(Claim(p), "pending") ELSE Untouched
  /\ Claimer(p, "idle", {})
  /\ UNCHANGED <<old, bad, mishaps, offered, scenario>>

-----------------------------------------------------------------------------
(* Calls that fail *)

\* A call throws; bound: the scenario says how many do.
Fault(abandoned) ==
  /\ mishaps.faults < scenario.faults
  /\ mishaps' = [mishaps EXCEPT !.faults = @ + 1, !.abandoned = @ \cup abandoned]

\* A call of a persist fails with nothing done: readdir, a stat, an unlink, the open of the
\* temporary file (nothing is written then), or the rename that publishes it.
PersistFails(p) ==
  /\ Fault({})
  /\ persister[p].pc \notin {"idle", "fail"}
  /\ persister' = [persister EXCEPT ![p] = Failing(p)]
  /\ UNCHANGED <<file, old, stale, bad, claimer, offered, scenario>>

\* writeFile, sync or close fails: the temporary file is there.
WriteFails(p) ==
  LET r == persister[p].rec IN
  /\ Fault({})
  /\ persister[p].pc = "write"
  /\ file' = RenamedTo(r, "tmp")
  /\ persister' = [q \in Processes |->
                     IF q = p THEN [Failing(p) EXCEPT !.own = NewVersion(r), !.incoming = 0]
                     ELSE [persister[q] EXCEPT !.moved = persister[q].pc # "idle"]]
  /\ old' = old \ {r}
  /\ UNCHANGED <<stale, bad, claimer, offered, scenario>>

\* The directory sync after the rename fails: the record is pending, yet persist throws.
PublishSyncFails(p) ==
  /\ Fault({})
  /\ persister[p].pc = "publish" /\ Exists(Temporary(p))
  /\ file' = RenamedTo(persister[p].rec, "pending")
  /\ persister' = [q \in Processes |->
                     IF q = p THEN Failing(p)
                     ELSE [persister[q] EXCEPT !.moved = persister[q].pc # "idle"]]
  /\ UNCHANGED <<old, stale, bad, claimer, offered, scenario>>

\* The error path cannot remove the temporary file: its unlink throws in turn.
RemovalFails(p) ==
  /\ persister[p].pc = "fail" /\ Exists(Temporary(p))
  /\ Fault({persister[p].rec})
  /\ persister' = [persister EXCEPT ![p] = IdlePersister]
  /\ UNCHANGED <<file, old, stale, bad, claimer, offered, scenario>>

\* The directory sync of p's call fails, after the rename or the unlink of n.
FailsAfter(p, n) ==
  LET pc == claimer[p].pc IN
  /\ Exists(n)
  /\ pc \in {"scan", "rename"} => n = Oldest(claimer[p].names)
  /\ pc \in {"reread", "claimed"} => n.kind = "lease"
  /\ \/ pc = "recover" /\ Rename(n, RecoveredKind(n)) /\ UNCHANGED old
     \/ pc = "scan" /\ n.rec \in bad /\ Quarantine(n, TRUE)
     \/ pc = "rename" /\ Rename(n, "lease") /\ UNCHANGED old
     \/ pc = "reread" /\ n.rec \in bad /\ Quarantine(n, FALSE)
     \/ pc = "reread" /\ n.rec \in scenario.spoils \ bad /\ Rename(n, "pending") /\ UNCHANGED old
     \/ pc = "claimed" /\ Rename(n, "pending") /\ UNCHANGED old
     \/ pc = "claimed" /\ Remove(n) /\ UNCHANGED old

\* A call of claimBatch, complete or release fails, with nothing done or after its effect.
\* The batch or the settling ends; a record that is leased then stays so until its lease
\* is recovered.
ClaimFails(p) ==
  /\ Fault({})
  /\ claimer[p].pc # "idle"
  /\ \/ Untouched /\ UNCHANGED old
     \/ \E n \in claimer[p].names : FailsAfter(p, n)
  /\ Claimer(p, "idle", {})
  /\ UNCHANGED <<bad, offered, scenario>>

-----------------------------------------------------------------------------
(* Time, damage and crashes *)

FileAges(r) ==
  /\ r \in scenario.ages \ old /\ r \in Stored
  /\ old' = old \cup {r}
  /\ UNCHANGED <<file, stale, bad, persister, claimer, mishaps, offered, scenario>>

LeaseExpires(r) ==
  /\ file[r].kind = "lease" /\ r \notin stale
  /\ stale' = stale \cup {r}
  /\ UNCHANGED <<file, old, bad, persister, claimer, mishaps, offered, scenario>>

Spoil(r) ==
  /\ r \in scenario.spoils \ bad
  /\ file[r].kind \in {"pending", "lease"}
  /\ bad' = bad \cup {r}
  /\ UNCHANGED <<file, old, stale, persister, claimer, mishaps, offered, scenario>>

\* The process stops between any two steps and starts again with empty lanes.
Crash(p) ==
  /\ mishaps.crashes < scenario.crashes
  /\ persister[p].pc # "idle" \/ claimer[p].pc # "idle"
  /\ mishaps' = [mishaps EXCEPT
                   !.crashes = @ + 1,
                   !.abandoned = @ \cup (IF persister[p].pc = "idle" THEN {}
                                         ELSE {persister[p].rec})]
  /\ persister' = [persister EXCEPT ![p] = IdlePersister]
  /\ claimer' = [claimer EXCEPT ![p] = Idle]
  /\ UNCHANGED <<file, old, stale, bad, offered, scenario>>

PersistStep(p) ==
  \/ ListFiles(p) \/ StatFiles(p) \/ ExpireFile(p) \/ EvictFile(p)
  \/ WriteTemporary(p) \/ Publish(p) \/ FailPersist(p)

ClaimStep(p) ==
  \/ BeginClaim(p) \/ RecoverLease(p) \/ ListPending(p)
  \/ Preflight(p) \/ RenameToLease(p) \/ Reread(p) \/ Complete(p) \/ ReleaseClaim(p)

Next ==
  \/ \E p \in Processes : \/ \E r \in Records : StartPersist(p, r)
                          \/ PersistStep(p) \/ ClaimStep(p)
                          \/ PersistFails(p) \/ WriteFails(p) \/ PublishSyncFails(p)
                          \/ RemovalFails(p) \/ ClaimFails(p) \/ Crash(p)
  \/ \E r \in Records : FileAges(r) \/ LeaseExpires(r) \/ Spoil(r)

Spec == Init /\ [][Next]_vars

\* The lanes of a running process make progress and leases run out.
Fairness ==
  /\ \A p \in Processes : WF_vars(PersistStep(p)) /\ WF_vars(ClaimStep(p))
  /\ \A r \in Records : WF_vars(LeaseExpires(r))

FairSpec == Spec /\ Fairness

-----------------------------------------------------------------------------
(* Properties *)

TypeOK ==
  /\ file \in [Records -> [kind: Kinds, version: Versions]]
  /\ old \subseteq Records /\ stale \subseteq Records /\ bad \subseteq Records
  /\ \A p \in Processes : /\ persister[p].names \subseteq Name
                          /\ claimer[p].names \subseteq Name
                          /\ persister[p].used \in Nat
                          /\ claimer[p].pc \in {"reread", "claimed"}
                               => \E n \in claimer[p].names : n.kind = "lease"
  /\ offered \subseteq Records
  /\ mishaps \in [crashes: Nat, faults: Nat, abandoned: SUBSET Records]
  /\ scenario \in Scenarios

\* A record is sent by one process at a time: two claimers never hold the current
\* lease of the same record, however leases expire, are recovered and taken again.
OneValidClaim ==
  \A p, q \in Processes : \A r \in Records :
    (Holds(p, r) /\ Holds(q, r) /\ Exists(Claim(p)) /\ Exists(Claim(q))) => p = q

\* A persist that fails leaves no temporary file, whichever of its calls threw: one exists
\* only while its writer is at work, unless that writer crashed or could not remove it.
NoAbandonedTemporary ==
  \A r \in Records \ mishaps.abandoned : file[r].kind = "tmp" =>
    \E p \in Processes : persister[p].pc # "idle" /\ persister[p].rec = r

\* The directory is well formed: no record has two holders, and no temporary file is
\* without its writer.
StoreInv == TypeOK /\ OneValidClaim /\ NoAbandonedTemporary

\* While a claimer holds a lease that has not run out, nobody else moves or removes the
\* record: not expiry, not eviction, not the recovery of stale leases, not the late
\* complete or release of a previous holder.
HeldRecordIsSafe ==
  [][\A p \in Processes : \A r \in Records :
       (Holds(p, r) /\ Exists(Claim(p)) /\ r \notin stale /\ claimer'[p] = claimer[p])
         => file'[r] = file[r]]_vars

\* A persist that nothing disturbed leaves the directory within maxStorageBytes,
\* whatever earlier races left in it.
UndisturbedPersistFits ==
  [][\A p \in Processes :
       (persister[p].pc = "publish" /\ persister'[p].pc = "idle" /\ ~persister[p].moved
          /\ mishaps' = mishaps)
         => TotalBytes' <= MaxBytes]_vars

\* No record stays leased for ever: a lease is completed, released or, after its term,
\* recovered by whichever process claims next.
LeasesEnd ==
  \A r \in Records : file[r].kind \in Active ~> file[r].kind \notin Active

\* The bound the documentation states for maxStorageBytes, between persists.
StorageBounded ==
  (\A p \in Processes : persister[p].pc = "idle") => TotalBytes <= MaxBytes
=============================================================================
