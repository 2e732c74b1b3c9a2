-------------------------- MODULE Agent365Exporter --------------------------
(***************************************************************************)
(* The life cycle of one Agent365 exporter: exports that fan out over      *)
(* identity groups, the one initialisation of durable delivery they all    *)
(* wait for, the two paths a group can take (over the network with         *)
(* retries, or through the durable manager), forceFlush, and shutdown with *)
(* a deadline that may pass at any time, even before durable delivery has  *)
(* been initialised.                                                       *)
(*                                                                         *)
(* Of the delivery manager only its life is kept: running, stopping (after *)
(* beginShutdown), closing (after shutdown), complete or failed.  What it  *)
(* does with a record is DurableDeliveryManager's subject.                 *)
(***************************************************************************)
EXTENDS Integers, FiniteSets

CONSTANTS Exports,    \* the calls of export
          GroupsOf,   \* GroupsOf[e]: the identity groups of its batch
          Chunks,     \* Chunks[g]: how many chunks a group is split into
          MaxRetries  \* DEFAULT_MAX_RETRIES

Groups == UNION {GroupsOf[e] : e \in Exports}

ASSUME ExporterAssumption ==
  /\ \A e, f \in Exports : e # f => GroupsOf[e] \cap GroupsOf[f] = {}
  /\ IsFiniteSet(Groups)
  /\ Chunks \in [Groups -> Nat \ {0}] /\ MaxRetries \in Nat

VARIABLES durable,   \* durableDelivery.enabled
          init,      \* the initialisation: "off", "started", "done", "failed"
          manager,   \* "none", or where its life stands
          replaying, \* is a replay pass running in it?
          accepted,  \* activeExports
          result,    \* result[e]: what resultCallback was given, "none" before
          group,     \* group[g]: [pc, chunk, attempt]
          closed, shutdown, finalized,
          flush      \* forceFlush: "idle", "exports", "initializing", "manager"

vars == <<durable, init, manager, replaying, accepted, result, group, closed, shutdown,
          finalized, flush>>

exportVars   == <<accepted, result, group>>
managerVars  == <<init, manager, replaying>>
shutdownVars == <<closed, shutdown, finalized>>

GroupAt(pc) == [pc |-> pc, chunk |-> 1, attempt |-> 0]

\* How a group can end: exported, skipped for want of a token, failed, or refused by a
\* manager that has shut down (a failure too).
Ended == {"exported", "skipped", "failed", "refused"}

Init ==
  /\ durable \in BOOLEAN
  /\ init = IF durable THEN "started" ELSE "off"
  /\ manager = "none" /\ replaying = FALSE
  /\ accepted = {} /\ result = [e \in Exports |-> "none"]
  /\ group = [g \in Groups |-> GroupAt("new")]
  /\ closed = FALSE /\ shutdown = "no" /\ finalized = FALSE
  /\ flush = "idle"

-----------------------------------------------------------------------------
(* Export *)

GroupsAt(e, entry) == [g \in Groups |-> IF g \in GroupsOf[e] THEN entry ELSE group[g]]

\* export(): refused once closed; a batch without a group succeeds at once; the groups of
\* any other wait for the initialisation, if there is one.
Export(e) ==
  /\ result[e] = "none" /\ e \notin accepted
  /\ \/ /\ closed
        /\ result' = [result EXCEPT ![e] = "FAILED"]
        /\ UNCHANGED <<accepted, group>>
     \/ /\ ~closed /\ GroupsOf[e] = {}
        /\ result' = [result EXCEPT ![e] = "SUCCESS"]
        /\ UNCHANGED <<accepted, group>>
     \/ /\ ~closed /\ GroupsOf[e] # {}
        /\ accepted' = accepted \cup {e}
        /\ group' = GroupsAt(e, GroupAt(IF durable THEN "init" ELSE "token"))
        /\ UNCHANGED result
  /\ UNCHANGED <<durable, managerVars, shutdownVars, flush>>

\* manager.deliver(record) of one chunk: a closed manager answers false.
DeliverChunk(g, chunk) ==
  group' = [group EXCEPT
              ![g] = [GroupAt(IF manager \in {"running", "stopping"} THEN "delivering"
                                                                      ELSE "refused")
                        EXCEPT !.chunk = chunk]]

\* The initialisation has ended: deliver durably, or over the network if it failed.
GroupProceeds(g) ==
  /\ group[g].pc = "init"
  /\ \/ init = "done" /\ DeliverChunk(g, 1)
     \/ init = "failed" /\ group' = [group EXCEPT ![g].pc = "token"]
  /\ UNCHANGED <<durable, managerVars, accepted, result, shutdownVars, flush>>

\* deliver() answers: true, and the next chunk follows, or false, and the group fails.
ChunkDelivered(g) ==
  /\ group[g].pc = "delivering"
  /\ \/ group[g].chunk < Chunks[g] /\ DeliverChunk(g, group[g].chunk + 1)
     \/ group[g].chunk = Chunks[g] /\ group' = [group EXCEPT ![g].pc = "exported"]
     \/ group' = [group EXCEPT ![g].pc = "failed"]
  /\ UNCHANGED <<durable, managerVars, accepted, result, shutdownVars, flush>>

\* The token resolver answers a token, nothing, or throws.
ResolveToken(g) ==
  /\ group[g].pc = "token"
  /\ \E pc \in {"posting", "skipped", "failed"} : group' = [group EXCEPT ![g].pc = pc]
  /\ UNCHANGED <<durable, managerVars, accepted, result, shutdownVars, flush>>

\* One POST of postWithRetries: accepted, and the next chunk follows; transient or an
\* exception, and another attempt follows while there are any; or final.
Post(g) ==
  /\ group[g].pc = "posting"
  /\ \/ /\ group[g].chunk < Chunks[g]
        /\ group' = [group EXCEPT ![g].chunk = @ + 1, ![g].attempt = 0]
     \/ group[g].chunk = Chunks[g] /\ group' = [group EXCEPT ![g].pc = "exported"]
     \/ group[g].attempt < MaxRetries /\ group' = [group EXCEPT ![g].attempt = @ + 1]
     \/ group' = [group EXCEPT ![g].pc = "failed"]
  /\ UNCHANGED <<durable, managerVars, accepted, result, shutdownVars, flush>>

ResultOf(e) ==
  IF \E g \in GroupsOf[e] : group[g].pc \in {"failed", "refused"} THEN "FAILED"
                                                                  ELSE "SUCCESS"

\* All groups have ended: resultCallback is called and the export leaves activeExports.
Settle(e) ==
  /\ e \in accepted /\ \A g \in GroupsOf[e] : group[g].pc \in Ended
  /\ result' = [result EXCEPT ![e] = ResultOf(e)]
  /\ accepted' = accepted \ {e}
  /\ UNCHANGED <<durable, managerVars, group, shutdownVars, flush>>

-----------------------------------------------------------------------------
(* The manager *)

Delivering == {g \in Groups : group[g].pc = "delivering"}

\* Mutation: a manager created after the deadline is stopped but never shut down.
InitSucceedsLateUnclosed ==
  /\ init = "started" /\ init' = "done"
  /\ manager' = IF closed THEN "stopping" ELSE "running"
  /\ replaying' = ~closed
  /\ UNCHANGED <<durable, exportVars, shutdownVars, flush>>

\* The store is open: a manager for it, which starts to replay, or is stopped at once
\* and, after the end of shutdown, shut down.
InitSucceeds ==
  /\ init = "started" /\ init' = "done"
  /\ manager' = CASE finalized            -> "closing"
                  [] closed /\ ~finalized -> "stopping"
                  [] OTHER                -> "running"
  /\ replaying' = ~closed
  /\ UNCHANGED <<durable, exportVars, shutdownVars, flush>>

InitFails ==
  /\ init = "started" /\ init' = "failed"
  /\ UNCHANGED <<durable, manager, replaying, exportVars, shutdownVars, flush>>

\* The timer starts a replay pass.
ReplayStarts ==
  /\ manager = "running" /\ ~replaying
  /\ replaying' = TRUE
  /\ UNCHANGED <<durable, init, manager, exportVars, shutdownVars, flush>>

ReplayEnds ==
  /\ replaying
  /\ replaying' = FALSE
  /\ UNCHANGED <<durable, init, manager, exportVars, shutdownVars, flush>>

\* manager.shutdown() resolves when nothing is active, or rejects at its own deadline.
ManagerCloses ==
  /\ manager = "closing"
  /\ IF Delivering = {} /\ ~replaying THEN manager' = "complete" ELSE manager' = "failed"
  /\ UNCHANGED <<durable, init, replaying, exportVars, shutdownVars, flush>>

-----------------------------------------------------------------------------
(* forceFlush and shutdown *)

CallFlush ==
  /\ flush = "idle"
  /\ flush' = "exports"
  /\ UNCHANGED <<durable, managerVars, exportVars, shutdownVars>>

\* forceFlush: wait for the exports, then for the initialisation, then for the manager,
\* whose own forceFlush waits for its active work, replays, and returns at once if shut.
FlushStep ==
  /\ \/ /\ flush = "exports" /\ accepted = {}
        /\ flush' = IF closed \/ ~durable THEN "idle" ELSE "initializing"
     \/ /\ flush = "initializing" /\ init # "started"
        /\ flush' = IF init = "failed" THEN "idle" ELSE "manager"
     \/ /\ flush = "manager"
        /\ (Delivering = {} /\ ~replaying) \/ manager \notin {"running", "stopping"}
        /\ flush' = "idle"
  /\ UNCHANGED <<durable, managerVars, exportVars, shutdownVars>>

Stopped(m) == IF m = "running" THEN "stopping" ELSE m      \* beginShutdown

Closing(m) == IF m \in {"running", "stopping"} THEN "closing" ELSE m  \* shutdown, memoised

\* Mutation: shutdown shuts the manager down at once instead of stopping it.
CallShutdownClosing ==
  /\ shutdown = "no"
  /\ closed' = TRUE /\ shutdown' = "exports"
  /\ manager' = Closing(manager)
  /\ UNCHANGED <<durable, init, replaying, exportVars, finalized, flush>>

CallShutdown ==
  /\ shutdown = "no"
  /\ closed' = TRUE /\ shutdown' = "exports"
  /\ manager' = Stopped(manager)
  /\ UNCHANGED <<durable, init, replaying, exportVars, finalized, flush>>

\* The finally clause: a manager there may be is shut down, whatever happened.
Finalize(outcome) ==
  /\ shutdown' = outcome /\ finalized' = TRUE
  /\ manager' = Closing(manager)
  /\ UNCHANGED closed

\* The accepted exports have settled within the deadline.
ExportsDrained ==
  /\ shutdown = "exports" /\ accepted = {}
  /\ IF durable THEN shutdown' = "initializing" /\ UNCHANGED <<manager, closed, finalized>>
                ELSE Finalize("resolved")
  /\ UNCHANGED <<durable, init, replaying, exportVars, flush>>

\* The initialisation has ended within the deadline: shut the manager down, if any.
Initialized ==
  /\ shutdown = "initializing" /\ init # "started"
  /\ IF manager # "none"
     THEN /\ shutdown' = "manager" /\ manager' = Closing(Stopped(manager))
          /\ UNCHANGED <<closed, finalized>>
     ELSE Finalize("resolved")
  /\ UNCHANGED <<durable, init, replaying, exportVars, flush>>

ManagerClosed ==
  /\ shutdown = "manager" /\ manager \in {"complete", "failed"}
  /\ Finalize(IF manager = "complete" THEN "resolved" ELSE "rejected")
  /\ UNCHANGED <<durable, init, replaying, exportVars, flush>>

\* The deadline passes during one of the three waits.
DeadlinePasses ==
  /\ shutdown \in {"exports", "initializing", "manager"}
  /\ Finalize("rejected")
  /\ UNCHANGED <<durable, init, replaying, exportVars, flush>>

-----------------------------------------------------------------------------

GroupStep(g) == GroupProceeds(g) \/ ChunkDelivered(g) \/ ResolveToken(g) \/ Post(g)

ShutdownStep == ExportsDrained \/ Initialized \/ ManagerClosed \/ DeadlinePasses

Next ==
  \/ \E e \in Exports : Export(e) \/ Settle(e)
  \/ \E g \in Groups : GroupStep(g)
  \/ InitSucceeds \/ InitFails \/ ReplayStarts \/ ReplayEnds \/ ManagerCloses
  \/ CallFlush \/ FlushStep \/ CallShutdown \/ ShutdownStep

\* Awaited calls return: the token resolver, fetch (it has a timeout), deliver, the file
\* operations of the initialisation; and the timers of shutdown fire.
Fairness ==
  /\ \A e \in Exports : WF_vars(Settle(e))
  /\ \A g \in Groups : WF_vars(GroupStep(g))
  /\ WF_vars(InitSucceeds \/ InitFails) /\ WF_vars(ReplayEnds) /\ WF_vars(ManagerCloses)
  /\ WF_vars(ShutdownStep) /\ WF_vars(FlushStep)

Spec == Init /\ [][Next]_vars /\ Fairness

-----------------------------------------------------------------------------
(* Properties *)

TypeOK ==
  /\ durable \in BOOLEAN
  /\ init \in {"off", "started", "done", "failed"}
  /\ (init = "off") = ~durable
  /\ manager \in {"none", "running", "stopping", "closing", "complete", "failed"}
  /\ (manager # "none") = (init = "done")
  /\ accepted \subseteq Exports
  /\ result \in [Exports -> {"none", "SUCCESS", "FAILED"}]
  /\ group \in [Groups -> [pc: Ended \cup {"new", "init", "token", "posting", "delivering"},
                           chunk: Nat, attempt: 0 .. MaxRetries]]
  /\ \A g \in Groups : group[g].chunk \in 1 .. Chunks[g]
  /\ shutdown \in {"no", "exports", "initializing", "manager", "resolved", "rejected"}
  /\ flush \in {"idle", "exports", "initializing", "manager"}
  /\ {replaying, closed, finalized} \subseteq BOOLEAN

\* A manager created while shutdown is under way, or long after it gave up, never goes
\* on to replay, and none outlives a finished shutdown open (closeLateDurableManager).
NoManagerLeftOpen ==
  /\ closed => manager # "running"
  /\ finalized => manager \notin {"running", "stopping"}

\* An export accepted before shutdown is handed to a manager that still takes it: only
\* after the deadline may the manager refuse ("Accepted exports settle before shutdown
\* completes when they finish before the configured shutdown deadline").
AcceptedIsNotRefused ==
  (\E g \in Groups : group[g].pc = "refused") => shutdown = "rejected"

\* A shutdown leaves nothing open behind and takes the manager from no export it accepted
\* before its deadline; and one that resolves left nothing unfinished: every accepted
\* export has called its callback and the manager has finished.
CleanShutdown ==
  /\ NoManagerLeftOpen
  /\ AcceptedIsNotRefused
  /\ shutdown = "resolved" => accepted = {} /\ manager \in {"none", "complete"}

\* Whatever becomes of the initialisation, the deadline and the manager, every accepted
\* export answers its caller, and once shutdown was called, a manager that exists, or
\* comes to exist, is shut down.
EverythingEnds ==
  /\ (closed /\ manager # "none") ~> manager \in {"complete", "failed"}
  /\ \A e \in Exports : e \in accepted ~> result[e] # "none"
=============================================================================
