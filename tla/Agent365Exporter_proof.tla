------------------------ MODULE Agent365Exporter_proof ------------------------
(***************************************************************************)
(* The exporter for any exports, groups, chunks and retries: shutdown      *)
(* leaves no manager open, no accepted export meets a manager that refuses *)
(* it before the deadline, a shutdown that resolves has left nothing       *)
(* unfinished; an answer to a caller is final, and SUCCESS means that      *)
(* every request of every group that was not skipped was handed over.      *)
(* For any batch: chunkBySize cuts a group into its chunks without a gap   *)
(* and within the limit, the key of a group gives its identity back, and   *)
(* so SUCCESS means that each eligible span was sent once, under its       *)
(* own identity and in its own scope.  The requests of a group are within  *)
(* the limit and hold its spans in order.                                  *)
(***************************************************************************)
EXTENDS Agent365Export, FiniteSetTheorems, SequenceTheorems, WellFoundedInduction, TLAPS

Pcs == Ended \cup {"new", "init", "token", "posting", "delivering"}

Entry == [pc: Pcs, chunk: Nat, attempt: 0 .. MaxRetries]

\* What a step of a group does to its entry.
Moves(g) ==
  /\ group' \in [Groups -> Entry] /\ group'[g].chunk \in 1 .. Chunks[g]
  /\ \A h \in Groups : h # g => group'[h] = group[h]
  /\ group[g].pc \in {"init", "delivering", "token", "posting"}
  /\ group'[g].pc \notin {"new", "init"}
  /\ group'[g].pc = "refused" => /\ manager \notin {"running", "stopping"}
                                 /\ init = "done" \/ group[g].pc = "delivering"
  /\ group'[g].pc = "delivering" => manager # "none"
  /\ group'[g].pc = "exported" => group'[g].chunk = Chunks[g]
  /\ UNCHANGED <<durable, managerVars, accepted, result, shutdownVars, flush>>

LEMMA GroupSteps ==
  ASSUME TypeOK, NEW g \in Groups, GroupStep(g)
  PROVE  Moves(g)
<1>1. /\ group[g] \in Entry /\ group[g].chunk \in 1 .. Chunks[g]
      /\ Chunks[g] \in Nat \ {0} /\ MaxRetries \in Nat
      /\ group \in [Groups -> Entry]
  BY ExporterAssumption DEF ExporterAssumption, TypeOK, Entry, Pcs
<1>2. ASSUME NEW entry \in Entry, group' = [group EXCEPT ![g] = entry],
             entry.chunk \in 1 .. Chunks[g], entry.pc \notin {"new", "init"},
             group[g].pc \in {"init", "delivering", "token", "posting"},
             entry.pc = "refused" => /\ manager \notin {"running", "stopping"}
                                     /\ init = "done" \/ group[g].pc = "delivering",
             entry.pc = "delivering" => manager # "none",
             entry.pc = "exported" => entry.chunk = Chunks[g],
             UNCHANGED <<durable, managerVars, accepted, result, shutdownVars, flush>>
      PROVE  Moves(g)
  BY <1>1, <1>2 DEF Moves
<1>3. ASSUME NEW pc \in {"token", "exported", "skipped", "failed", "posting"},
             group' = [group EXCEPT ![g].pc = pc],
             pc = "exported" => group[g].chunk = Chunks[g],
             group[g].pc \in {"init", "delivering", "token", "posting"},
             UNCHANGED <<durable, managerVars, accepted, result, shutdownVars, flush>>
      PROVE  Moves(g)
  <2>1. [group[g] EXCEPT !.pc = pc] \in Entry
    BY <1>1, <1>3 DEF Entry, Pcs, Ended
  <2>2. /\ [group[g] EXCEPT !.pc = pc].pc = pc
        /\ [group[g] EXCEPT !.pc = pc].chunk = group[g].chunk
    BY <1>1 DEF Entry
  <2>3. group' = [group EXCEPT ![g] = [group[g] EXCEPT !.pc = pc]]
    BY <1>1, <1>3
  <2> QED
    BY <1>1, <1>2, <1>3, <2>1, <2>2, <2>3
<1>4. ASSUME NEW chunk \in 1 .. Chunks[g], DeliverChunk(g, chunk),
             group[g].pc = "delivering" \/ (group[g].pc = "init" /\ init = "done"),
             UNCHANGED <<durable, managerVars, accepted, result, shutdownVars, flush>>
      PROVE  Moves(g)
  <2>1. PICK pc \in {"delivering", "refused"} :
          /\ group' = [group EXCEPT ![g] = [GroupAt(pc) EXCEPT !.chunk = chunk]]
          /\ pc = IF manager \in {"running", "stopping"} THEN "delivering" ELSE "refused"
    BY <1>4 DEF DeliverChunk
  <2>2. GroupAt(pc) \in Entry
    BY <1>1 DEF GroupAt, Entry, Pcs, Ended
  <2>3. [GroupAt(pc) EXCEPT !.chunk = chunk] \in Entry
    BY <2>2 DEF Entry
  <2>4. /\ [GroupAt(pc) EXCEPT !.chunk = chunk].pc = pc
        /\ [GroupAt(pc) EXCEPT !.chunk = chunk].chunk = chunk
    BY DEF GroupAt
  <2> HIDE DEF GroupAt
  <2> QED
    BY <1>1, <1>2, <1>4, <2>1, <2>3, <2>4
<1>5. CASE GroupProceeds(g)
  BY <1>1, <1>3, <1>4, <1>5 DEF GroupProceeds
<1>6. CASE ChunkDelivered(g)
  <2>1. group[g].chunk < Chunks[g] => group[g].chunk + 1 \in 1 .. Chunks[g]
    BY <1>1
  <2> QED
    BY <1>1, <1>3, <1>4, <1>6, <2>1 DEF ChunkDelivered
<1>7. CASE ResolveToken(g)
  BY <1>1, <1>3, <1>7 DEF ResolveToken
<1>8. CASE Post(g)
  <2>1. ASSUME NEW r \in Entry, NEW c \in Nat, NEW n \in 0 .. MaxRetries
        PROVE  /\ [r EXCEPT !.chunk = c, !.attempt = n] \in Entry
               /\ [r EXCEPT !.chunk = c, !.attempt = n].pc = r.pc
               /\ [r EXCEPT !.chunk = c, !.attempt = n].chunk = c
               /\ [r EXCEPT !.attempt = n] \in Entry
               /\ [r EXCEPT !.attempt = n].pc = r.pc
               /\ [r EXCEPT !.attempt = n].chunk = r.chunk
    BY DEF Entry
  <2>2. CASE /\ group[g].chunk < Chunks[g]
             /\ group' = [group EXCEPT ![g].chunk = @ + 1, ![g].attempt = 0]
    <3>1. PICK c \in Nat : c = group[g].chunk + 1
      BY <1>1
    <3>2. PICK entry : entry = [group[g] EXCEPT !.chunk = c, !.attempt = 0]
      OBVIOUS
    <3>3. group' = [group EXCEPT ![g] = entry]
      BY <1>1, <2>2, <3>1, <3>2
    <3>4. 0 \in 0 .. MaxRetries /\ c \in 1 .. Chunks[g]
      BY <1>1, <2>2, <3>1
    <3>5. entry \in Entry /\ entry.pc = group[g].pc /\ entry.chunk = c
      <4>1. group[g] \in Entry /\ c \in Nat
        BY <1>1, <3>1
      <4>2. entry \in Entry
        BY <3>2, <3>4, <4>1 DEF Entry
      <4>3. entry.pc = group[g].pc /\ entry.chunk = c
        BY <3>2, <4>1 DEF Entry
      <4> QED
        BY <4>2, <4>3
    <3> QED
      BY <1>2, <1>8, <3>3, <3>4, <3>5 DEF Post
  <2>3. CASE /\ group[g].attempt < MaxRetries
             /\ group' = [group EXCEPT ![g].attempt = @ + 1]
    <3> DEFINE n == group[g].attempt + 1
               next == [group[g] EXCEPT !.attempt = n]
    <3>1. n \in 0 .. MaxRetries
      BY <1>1, <2>3 DEF Entry
    <3>2. group' = [group EXCEPT ![g] = next]
      BY <1>1, <2>3
    <3>3. next \in Entry /\ next.pc = group[g].pc /\ next.chunk = group[g].chunk
      BY <1>1, <2>1, <3>1 DEF Entry
    <3> HIDE DEF next, n
    <3> QED
      BY <1>1, <1>2, <1>8, <3>1, <3>2, <3>3 DEF Post
  <2> QED
    BY <1>3, <1>8, <2>2, <2>3 DEF Post
<1> QED
  BY <1>5, <1>6, <1>7, <1>8 DEF GroupStep

-----------------------------------------------------------------------------
(* The inductive invariant *)

\* The phases of shutdown.
Phases ==
  /\ closed <=> shutdown # "no"
  /\ finalized <=> shutdown \in {"resolved", "rejected"}
  /\ manager \in {"closing", "complete", "failed"} => shutdown \in {"manager", "resolved", "rejected"}
  /\ shutdown = "manager" => manager \notin {"none", "running", "stopping"}
  /\ shutdown \in {"initializing", "manager", "resolved"} => accepted = {}
  /\ shutdown = "resolved" => manager \in {"none", "complete"} /\ init # "started"

\* Groups are under way only for an accepted export.
Active(g) == group[g].pc \in {"init", "token", "posting", "delivering"}

GroupsFollow ==
  /\ \A e \in Exports : \A g \in GroupsOf[e] : Active(g) => e \in accepted
  /\ \A g \in Groups : group[g].pc = "delivering" => manager # "none"
  /\ \A g \in Groups : group[g].pc = "refused" => shutdown = "rejected"

Inv == TypeOK /\ NoManagerLeftOpen /\ Phases /\ GroupsFollow

LEMMA InitInv == Init => Inv
<1> SUFFICES ASSUME Init PROVE Inv
  OBVIOUS
<1>1. \A g \in Groups : 1 \in 1 .. Chunks[g] /\ 0 \in 0 .. MaxRetries
  BY ExporterAssumption DEF ExporterAssumption
<1>2. /\ group \in [Groups -> [pc: Ended \cup {"new", "init", "token", "posting", "delivering"},
                               chunk: Nat, attempt: 0 .. MaxRetries]]
      /\ \A g \in Groups : group[g].chunk = 1 /\ group[g].pc = "new"
  BY <1>1 DEF Init, GroupAt
<1>3. TypeOK
  BY <1>1, <1>2 DEF Init, TypeOK
<1>4. GroupsFollow
  BY <1>2 DEF GroupsFollow, Active, Groups
<1> QED
  BY <1>3, <1>4 DEF Init, Inv, NoManagerLeftOpen, Phases

\* Steps that leave exports and groups alone.
LEMMA OthersKept ==
  ASSUME Inv, UNCHANGED exportVars, manager # "none" => manager' # "none",
         shutdown = "rejected" => shutdown' = "rejected"
  PROVE  GroupsFollow'
  BY DEF Inv, exportVars, GroupsFollow, Active

LEMMA NextInv == Inv /\ [Next]_vars => Inv'
<1> SUFFICES ASSUME Inv, [Next]_vars PROVE Inv'
  OBVIOUS
<1>1. ASSUME NEW e \in Exports, Export(e) PROVE Inv'
  <2>1. UNCHANGED <<durable, managerVars, shutdownVars, flush>>
    BY <1>1 DEF Export
  <2>2. CASE UNCHANGED <<accepted, group>>
    <3>1. TypeOK'
      BY <1>1, <2>1, <2>2 DEF Inv, TypeOK, Export, managerVars, shutdownVars
    <3> QED
      BY <2>1, <2>2, <3>1 DEF Inv, NoManagerLeftOpen, Phases, GroupsFollow, Active,
                              managerVars, shutdownVars
  <2>3. CASE /\ ~closed /\ accepted' = accepted \cup {e} /\ UNCHANGED result
             /\ group' = GroupsAt(e, GroupAt(IF durable THEN "init" ELSE "token"))
    <3>1. PICK entry : /\ entry = GroupAt(IF durable THEN "init" ELSE "token")
                       /\ group' = GroupsAt(e, entry)
      BY <2>3
    <3>2. /\ entry \in [pc: Ended \cup {"new", "init", "token", "posting", "delivering"},
                        chunk: Nat, attempt: 0 .. MaxRetries]
          /\ entry.pc \in {"init", "token"} /\ entry.chunk = 1
      BY <3>1, ExporterAssumption DEF ExporterAssumption, GroupAt
    <3>3. \A g \in Groups : /\ g \in GroupsOf[e] => group'[g] = entry
                            /\ g \notin GroupsOf[e] => group'[g] = group[g]
      BY <3>1 DEF GroupsAt
    <3>4. TypeOK'
      <4>1. \A g \in Groups : group'[g].chunk \in 1 .. Chunks[g]
        BY <3>2, <3>3, ExporterAssumption DEF ExporterAssumption, Inv, TypeOK
      <4>2. group' \in [Groups -> [pc: Ended \cup {"new", "init", "token", "posting", "delivering"},
                                   chunk: Nat, attempt: 0 .. MaxRetries]]
        BY <3>1, <3>2 DEF GroupsAt, Inv, TypeOK
      <4> QED
        BY <2>1, <2>3, <4>1, <4>2 DEF Inv, TypeOK, managerVars, shutdownVars
    <3>5. GroupsFollow'
      <4>1. \A f \in Exports : \A g \in GroupsOf[f] : g \in Groups
        BY DEF Groups
      <4> QED
        BY <2>1, <2>3, <3>2, <3>3, <4>1, ExporterAssumption
          DEF ExporterAssumption, Inv, GroupsFollow, Active, managerVars, shutdownVars
    <3> QED
      BY <2>1, <2>3, <3>4, <3>5 DEF Inv, NoManagerLeftOpen, Phases, managerVars, shutdownVars
  <2> QED
    BY <1>1, <2>2, <2>3 DEF Export
<1>2. ASSUME NEW e \in Exports, Settle(e) PROVE Inv'
  <2>1. /\ e \in accepted /\ \A g \in GroupsOf[e] : group[g].pc \in Ended
        /\ accepted' = accepted \ {e} /\ result' = [result EXCEPT ![e] = ResultOf(e)]
        /\ UNCHANGED <<durable, init, manager, replaying, group, closed, shutdown, finalized, flush>>
    BY <1>2 DEF Settle, managerVars, shutdownVars
  <2>2. ResultOf(e) \in {"none", "SUCCESS", "FAILED"}
    BY DEF ResultOf
  <2>3. TypeOK'
    BY <2>1, <2>2 DEF Inv, TypeOK
  <2>4. GroupsFollow'
    BY <2>1 DEF Inv, GroupsFollow, Active, Ended
  <2> QED
    BY <2>1, <2>3, <2>4 DEF Inv, NoManagerLeftOpen, Phases
<1>3. ASSUME NEW g \in Groups, GroupStep(g) PROVE Inv'
  <2>1. Moves(g)
    BY <1>3, GroupSteps DEF Inv
  <2>2. TypeOK'
    BY <2>1 DEF Moves, Inv, TypeOK, managerVars, shutdownVars, Entry, Pcs
  <2>3. PICK e \in Exports : g \in GroupsOf[e]
    BY DEF Groups
  <2>4. e \in accepted
    BY <2>1, <2>3 DEF Inv, GroupsFollow, Active, Moves
  <2>5. group'[g].pc = "refused" => shutdown = "rejected"
    <3>1. group'[g].pc = "refused" => manager \in {"closing", "complete", "failed"}
      BY <2>1 DEF Moves, Inv, TypeOK, GroupsFollow
    <3> QED
      BY <2>4, <3>1 DEF Inv, Phases
  <2>6. GroupsFollow'
    BY <2>1, <2>5 DEF Moves, Inv, GroupsFollow, Active, managerVars, shutdownVars, Groups
  <2> QED
    BY <2>1, <2>2, <2>6 DEF Moves, Inv, NoManagerLeftOpen, Phases, managerVars, shutdownVars
<1>4. CASE InitSucceeds \/ InitFails
  BY <1>4, OthersKept DEF InitSucceeds, InitFails, Inv, TypeOK, NoManagerLeftOpen, Phases,
       exportVars, shutdownVars
<1>5. CASE ReplayStarts \/ ReplayEnds \/ ManagerCloses
  <2>1. CASE ReplayStarts \/ ReplayEnds
    <3>1. /\ replaying' \in BOOLEAN
          /\ UNCHANGED <<durable, init, manager, exportVars, shutdownVars, flush>>
      BY <2>1 DEF ReplayStarts, ReplayEnds
    <3> QED
      BY <3>1, OthersKept DEF Inv, TypeOK, NoManagerLeftOpen, Phases, exportVars, shutdownVars
  <2>2. CASE ManagerCloses
    <3>1. /\ manager = "closing" /\ manager' \in {"complete", "failed"}
          /\ UNCHANGED <<durable, init, replaying, exportVars, shutdownVars, flush>>
      BY <2>2 DEF ManagerCloses
    <3> QED
      BY <3>1, OthersKept DEF Inv, TypeOK, NoManagerLeftOpen, Phases, exportVars, shutdownVars
  <2> QED
    BY <1>5, <2>1, <2>2
<1>6. CASE CallFlush \/ FlushStep \/ UNCHANGED vars
  BY <1>6, OthersKept DEF CallFlush, FlushStep, vars, Inv, TypeOK, NoManagerLeftOpen, Phases,
       exportVars, managerVars, shutdownVars
<1>7. CASE CallShutdown
  BY <1>7, OthersKept DEF CallShutdown, Stopped, Inv, TypeOK, NoManagerLeftOpen, Phases,
       exportVars
<1>8. CASE ShutdownStep
  <2>1. CASE ExportsDrained
    BY <2>1, OthersKept DEF ExportsDrained, Finalize, Closing, Inv, TypeOK, NoManagerLeftOpen,
         Phases, exportVars
  <2>2. CASE Initialized
    BY <2>2, OthersKept DEF Initialized, Finalize, Closing, Stopped, Inv, TypeOK,
         NoManagerLeftOpen, Phases, exportVars
  <2>3. CASE ManagerClosed
    BY <2>3, OthersKept DEF ManagerClosed, Finalize, Closing, Inv, TypeOK, NoManagerLeftOpen,
         Phases, exportVars
  <2>4. CASE DeadlinePasses
    BY <2>4, OthersKept DEF DeadlinePasses, Finalize, Closing, Inv, TypeOK, NoManagerLeftOpen,
         Phases, exportVars
  <2> QED
    BY <1>8, <2>1, <2>2, <2>3, <2>4 DEF ShutdownStep
<1> QED
  BY <1>1, <1>2, <1>3, <1>4, <1>5, <1>6, <1>7, <1>8 DEF Next

\* Every reachable state of the exporter is well typed; in particular there is a manager
\* exactly when the initialisation has succeeded, and no group goes beyond its chunks.
THEOREM ExporterTypeCorrect == Spec => []TypeOK
<1>1. Inv => TypeOK
  BY DEF Inv
<1> QED
  BY <1>1, InitInv, NextInv, PTL DEF Spec

\* shutdown leaves no manager open, even one that an initialisation brings up after the
\* deadline; until the deadline no accepted export meets a manager that has been shut down;
\* and when shutdown resolves, all accepted exports and the manager have finished.
THEOREM ShutdownIsClean == Spec => []CleanShutdown
<1>1. Inv => CleanShutdown
  BY DEF Inv, CleanShutdown, AcceptedIsNotRefused, GroupsFollow, Phases
<1> QED
  BY <1>1, InitInv, NextInv, PTL DEF Spec

-----------------------------------------------------------------------------
(* What the callers are told *)

\* An accepted export has not answered yet, an exported group is at its last chunk, and of
\* a batch that succeeded every group was exported or skipped.
Answers ==
  /\ \A e \in accepted : result[e] = "none"
  /\ \A g \in Groups : group[g].pc = "exported" => group[g].chunk = Chunks[g]
  /\ \A e \in Exports : result[e] = "SUCCESS" =>
       \A g \in GroupsOf[e] : group[g].pc \in {"exported", "skipped"}

LEMMA InitAnswers == Init => Answers
  BY DEF Init, Answers, GroupAt

\* Steps that leave exports alone.
LEMMA AnswersKept ==
  ASSUME Answers, UNCHANGED exportVars
  PROVE  Answers'
  BY DEF Answers, exportVars

LEMMA NextAnswers == Inv /\ Answers /\ [Next]_vars => Answers'
<1> SUFFICES ASSUME Inv, Answers, [Next]_vars PROVE Answers'
  OBVIOUS
<1>1. \A e \in Exports : \A g \in GroupsOf[e] : g \in Groups
  BY DEF Groups
<1>2. ASSUME NEW e \in Exports, Export(e) PROVE Answers'
  <2>1. CASE UNCHANGED <<accepted, group>>
    <3>1. /\ result[e] = "none" /\ e \notin accepted
          /\ \A f \in Exports : f # e => result'[f] = result[f]
          /\ result'[e] = "SUCCESS" => GroupsOf[e] = {}
          /\ result'[e] = "none" \/ accepted' = accepted
      BY <1>2, <2>1 DEF Export, Inv, TypeOK
    <3>2. \A f \in accepted : f # e /\ f \in Exports
      BY <3>1 DEF Inv, TypeOK
    <3> QED
      BY <2>1, <3>1, <3>2 DEF Answers
  <2>2. CASE /\ accepted' = accepted \cup {e} /\ UNCHANGED result
             /\ group' = GroupsAt(e, GroupAt(IF durable THEN "init" ELSE "token"))
    <3>1. result[e] = "none" /\ e \notin accepted
      BY <1>2 DEF Export
    <3>2. \A g \in Groups : /\ g \in GroupsOf[e] => group'[g].pc \in {"init", "token"}
                            /\ g \notin GroupsOf[e] => group'[g] = group[g]
      BY <2>2 DEF GroupsAt, GroupAt
    <3>3. \A f \in Exports : \A g \in GroupsOf[f] : f # e => g \notin GroupsOf[e]
      BY ExporterAssumption DEF ExporterAssumption
    <3> QED
      BY <1>1, <2>2, <3>1, <3>2, <3>3 DEF Answers
  <2> QED
    BY <1>2, <2>1, <2>2 DEF Export
<1>3. ASSUME NEW e \in Exports, Settle(e) PROVE Answers'
  <2>1. /\ \A g \in GroupsOf[e] : group[g].pc \in Ended
        /\ accepted' = accepted \ {e} /\ group' = group
        /\ result'[e] = ResultOf(e) /\ \A f \in Exports : f # e => result'[f] = result[f]
    BY <1>3 DEF Settle, Inv, TypeOK
  <2>2. result'[e] = "SUCCESS" => \A g \in GroupsOf[e] : group[g].pc \in {"exported", "skipped"}
    BY <2>1 DEF ResultOf, Ended
  <2>3. \A f \in accepted' : f # e /\ f \in accepted /\ f \in Exports
    BY <2>1 DEF Inv, TypeOK
  <2> QED
    BY <2>1, <2>2, <2>3 DEF Answers
<1>4. ASSUME NEW g \in Groups, GroupStep(g) PROVE Answers'
  <2>1. Moves(g)
    BY <1>4, GroupSteps DEF Inv
  <2>2. /\ group[g].pc \notin {"exported", "skipped"}
        /\ \A h \in Groups : h # g => group'[h] = group[h]
        /\ group'[g].pc = "exported" => group'[g].chunk = Chunks[g]
        /\ result' = result /\ accepted' = accepted
    BY <2>1 DEF Moves
  <2> QED
    BY <1>1, <2>2 DEF Answers
<1>5. CASE InitSucceeds \/ InitFails \/ ReplayStarts \/ ReplayEnds \/ ManagerCloses
  BY <1>5, AnswersKept DEF InitSucceeds, InitFails, ReplayStarts, ReplayEnds, ManagerCloses
<1>6. CASE CallFlush \/ FlushStep \/ CallShutdown \/ ShutdownStep \/ UNCHANGED vars
  BY <1>6, AnswersKept DEF CallFlush, FlushStep, CallShutdown, ShutdownStep, ExportsDrained,
       Initialized, ManagerClosed, DeadlinePasses, vars, exportVars
<1> QED
  BY <1>2, <1>3, <1>4, <1>5, <1>6 DEF Next

\* resultCallback is called at most once with a batch: an answer, once given, stands
\* through later exports, flushes, shutdowns and deadlines.
THEOREM AnswerIsFinal ==
  Spec => [][\A e \in Exports : result[e] # "none" => result'[e] = result[e]]_vars
<1>1. ASSUME Inv, Answers, [Next]_vars
      PROVE  [\A e \in Exports : result[e] # "none" => result'[e] = result[e]]_vars
  <2>1. ASSUME NEW e \in Exports, result[e] # "none", result'[e] # result[e] PROVE FALSE
    <3>1. \A g \in Groups : GroupStep(g) => result' = result
      BY <1>1, GroupSteps DEF Inv, Moves
    <3>2. \A f \in Exports : Export(f) => f # e /\ result'[e] = result[e]
      BY <1>1, <2>1 DEF Export, Inv, TypeOK
    <3>3. \A f \in Exports : Settle(f) => f # e /\ result'[e] = result[e]
      BY <1>1, <2>1 DEF Settle, Answers, Inv, TypeOK
    <3>4. InitSucceeds \/ InitFails \/ ReplayStarts \/ ReplayEnds \/ ManagerCloses
            => result' = result
      BY DEF InitSucceeds, InitFails, ReplayStarts, ReplayEnds, ManagerCloses, exportVars
    <3>5. CallFlush \/ FlushStep \/ CallShutdown \/ ShutdownStep \/ UNCHANGED vars
            => result' = result
      BY DEF CallFlush, FlushStep, CallShutdown, ShutdownStep, ExportsDrained,
           Initialized, ManagerClosed, DeadlinePasses, vars, exportVars
    <3> QED
      BY <1>1, <2>1, <3>1, <3>2, <3>3, <3>4, <3>5 DEF Next
  <2> QED
    BY <2>1
<1>2. Inv /\ Answers /\ [Next]_vars
        => [\A e \in Exports : result[e] # "none" => result'[e] = result[e]]_vars
  BY <1>1
<1> QED
  BY <1>2, InitInv, NextInv, InitAnswers, NextAnswers, PTL DEF Spec

\* SUCCESS means that of every group that was not skipped for want of a token, each
\* request was handed over, to the service or the durable store.
THEOREM SuccessIsHandedOver ==
  Spec => [](\A e \in Exports : result[e] = "SUCCESS" =>
               \A g \in GroupsOf[e] : \/ group[g].pc = "skipped"
                                      \/ HandedOver(g) = Len(Requests[g]))
<1> DEFINE Complete == \A e \in Exports : result[e] = "SUCCESS" =>
                         \A g \in GroupsOf[e] : \/ group[g].pc = "skipped"
                                                \/ HandedOver(g) = Len(Requests[g])
<1>1. Answers => Complete
  <2> SUFFICES ASSUME Answers, NEW e \in Exports, result[e] = "SUCCESS", NEW g \in GroupsOf[e],
                      group[g].pc # "skipped"
               PROVE  HandedOver(g) = Len(Requests[g])
    OBVIOUS
  <2>1. g \in Groups
    BY DEF Groups
  <2>2. group[g].pc = "exported" /\ group[g].chunk = Chunks[g]
    BY <2>1 DEF Answers
  <2>3. Chunks[g] = Len(Requests[g])
    BY <2>1, BatchAssumption DEF BatchAssumption
  <2> QED
    BY <2>2, <2>3 DEF HandedOver
<1> HIDE DEF Complete
<1>2. Spec => []Complete
  BY <1>1, InitInv, NextInv, InitAnswers, NextAnswers, PTL DEF Spec
<1> QED
  BY <1>2 DEF Complete

-----------------------------------------------------------------------------
(* Folds *)

\* What holds of 0, and of n + 1 if of n, holds of all up to N: `held` are those it holds of.
LEMMA Upwards ==
  ASSUME NEW N \in Nat, NEW held, 0 \in held, \A n \in 1 .. N : n - 1 \in held => n \in held
  PROVE  \A n \in 0 .. N : n \in held
<1> DEFINE bad == {n \in 0 .. N : n \notin held}
           R == OpToRel(<, Nat)
<1>1. SUFFICES ASSUME bad # {} PROVE FALSE
  OBVIOUS
<1>2. IsWellFoundedOn(R, Nat)
  BY NatLessThanWellFounded
<1>3. bad \in SUBSET Nat
  OBVIOUS
<1>4. PICK n \in bad : \A m \in bad : ~(<<m, n>> \in R)
  <2> HIDE DEF R, bad
  <2> QED
    BY <1>1, <1>2, <1>3, WFMin
<1>5. n \in 1 .. N /\ n - 1 \in 0 .. N /\ n - 1 < n
  <2> HIDE DEF R
  <2> QED
    OBVIOUS
<1>6. n - 1 \notin bad
  <2>1. <<n - 1, n>> \in R
    BY <1>5 DEF OpToRel
  <2> HIDE DEF R
  <2> QED
    BY <1>4, <2>1
<1> QED
  BY <1>4, <1>5, <1>6

\* The greatest of the first n positions.
LEMMA MaxOfFirst ==
  ASSUME NEW n \in Nat \ {0}
  PROVE  Max(1 .. n) = n /\ (1 .. n) \ {n} = 1 .. (n - 1)
<1>1. n \in 1 .. n /\ \A y \in 1 .. n : n >= y
  OBVIOUS
<1>2. \A x \in 1 .. n : (\A y \in 1 .. n : x >= y) => x = n
  OBVIOUS
<1> QED
  BY <1>1, <1>2 DEF Max

Pushed(state, item, size, max) ==
  IF state.current # << >> /\ state.bytes + size[item] > max
  THEN [chunks |-> Append(state.chunks, state.current), current |-> <<item>>,
        bytes |-> size[item]]
  ELSE [state EXCEPT !.current = Append(@, item), !.bytes = @ + size[item]]

NoChunks == [chunks |-> << >>, current |-> << >>, bytes |-> 0]

\* The recursion behind the fold over the first n items.
Pushes(f, items, size, max, n) ==
  f = [s \in SUBSET (1 .. n) |->
         IF s = {} THEN NoChunks
         ELSE Pushed(f[s \ {Max(s)}], items[Max(s)], size, max)]

\* The next state, field by field.
Filled(next, chunks, current, bytes, item, size, max) ==
  /\ current # << >> /\ bytes + size[item] > max =>
       next = [chunks |-> Append(chunks, current), current |-> <<item>>, bytes |-> size[item]]
  /\ ~(current # << >> /\ bytes + size[item] > max) =>
       next = [chunks |-> chunks, current |-> Append(current, item),
               bytes |-> bytes + size[item]]

\* The chunks at the end, with the one that is being filled.
Closed(end) == IF end.current = << >> THEN end.chunks ELSE Append(end.chunks, end.current)

LEMMA PushedIs ==
  ASSUME NEW chunks, NEW current, NEW bytes, NEW state, NEW item, NEW size, NEW max,
         state = [chunks |-> chunks, current |-> current, bytes |-> bytes]
  PROVE  Filled(Pushed(state, item, size, max), chunks, current, bytes, item, size, max)
<1>1. state.chunks = chunks /\ state.current = current /\ state.bytes = bytes
  OBVIOUS
<1> DEFINE longer == Append(current, item)
           more == bytes + size[item]
           next == [state EXCEPT !.current = longer, !.bytes = more]
<1>2. next = [chunks |-> chunks, current |-> longer, bytes |-> more]
  <2> HIDE DEF longer, more
  <2>1. next \in [chunks : {chunks}, current : {current, longer}, bytes : {bytes, more}]
    OBVIOUS
  <2>2. next.chunks = chunks /\ next.current = longer /\ next.bytes = more
    OBVIOUS
  <2> HIDE DEF next
  <2> QED
    BY <2>1, <2>2
<1>3. [state EXCEPT !.current = Append(@, item), !.bytes = @ + size[item]] = next
  BY <1>1
<1> HIDE DEF next
<1> QED
  BY <1>1, <1>2, <1>3 DEF Pushed, Filled

LEMMA PushesExist ==
  ASSUME NEW items, NEW size, NEW max, NEW N \in Nat
  PROVE  \E f : Pushes(f, items, size, max, N)
<1> DEFINE held == {n \in 0 .. N : \E f : Pushes(f, items, size, max, n)}
<1>1. 0 \in held
  <2> DEFINE f == [s \in SUBSET (1 .. 0) |-> NoChunks]
  <2>1. \A s \in SUBSET (1 .. 0) : s = {}
    OBVIOUS
  <2>2. Pushes(f, items, size, max, 0)
    BY <2>1 DEF Pushes
  <2> QED
    BY <2>2
<1>2. ASSUME NEW n \in 1 .. N, n - 1 \in held PROVE n \in held
  <2>1. PICK f : Pushes(f, items, size, max, n - 1)
    BY <1>2
  <2> DEFINE g == [s \in SUBSET (1 .. n) |->
                     IF n \in s THEN Pushed(f[s \ {n}], items[n], size, max) ELSE f[s]]
  <2>2. ASSUME NEW s \in SUBSET (1 .. n)
        PROVE  g[s] = IF s = {} THEN NoChunks
                      ELSE Pushed(g[s \ {Max(s)}], items[Max(s)], size, max)
    <3>1. CASE n \in s
      <4>1. Max(s) = n
        <5>1. \A y \in s : n >= y
          OBVIOUS
        <5>2. \A x \in s : (\A y \in s : x >= y) => x = n
          BY <3>1
        <5> QED
          BY <3>1, <5>1, <5>2 DEF Max
      <4>2. g[s \ {n}] = f[s \ {n}]
        OBVIOUS
      <4>3. g[s] = Pushed(f[s \ {n}], items[n], size, max)
        BY <3>1
      <4> HIDE DEF g
      <4> QED
        BY <3>1, <4>1, <4>2, <4>3
    <3>2. CASE n \notin s
      <4>1. s \in SUBSET (1 .. (n - 1))
        BY <3>2
      <4>2. f[s] = IF s = {} THEN NoChunks
                   ELSE Pushed(f[s \ {Max(s)}], items[Max(s)], size, max)
        BY <2>1, <4>1 DEF Pushes
      <4>3. g[s] = f[s] /\ g[s \ {Max(s)}] = f[s \ {Max(s)}]
        BY <3>2
      <4> HIDE DEF g
      <4> QED
        BY <4>2, <4>3
    <3> QED
      BY <3>1, <3>2
  <2>3. Pushes(g, items, size, max, n)
    BY <2>2 DEF Pushes
  <2> QED
    BY <2>3
<1>3. \A n \in 0 .. N : n \in held
  <2> HIDE DEF held
  <2> QED
    BY <1>1, <1>2, Upwards
<1> QED
  BY <1>3

\* The chunks after each of the items.
OneByOne(at, items, size, max) ==
  /\ at[0] = NoChunks
  /\ \A n \in 1 .. Len(items) : at[n] = Pushed(at[n - 1], items[n], size, max)

LEMMA PushedOneByOne ==
  ASSUME NEW S, NEW items \in Seq(S), NEW size, NEW max
  PROVE  \E at : /\ OneByOne(at, items, size, max)
                 /\ chunkBySize(items, size, max) = Closed(at[Len(items)])
<1> DEFINE N == Len(items)
<1>1. N \in Nat /\ DOMAIN items = 1 .. N
  OBVIOUS
<1> DEFINE end == (CHOOSE f : Pushes(f, items, size, max, N))[1 .. N]
<1>2. chunkBySize(items, size, max) = Closed(end)
  BY <1>1 DEF chunkBySize, FoldLeft, MapThenFoldSet, Pushes, Pushed, NoChunks, Closed
<1>3. PICK f : Pushes(f, items, size, max, N) /\ end = f[1 .. N]
  BY <1>1, PushesExist
<1> DEFINE at == [n \in 0 .. N |-> f[1 .. n]]
<1>4. at[0] = NoChunks /\ at[N] = end
  BY <1>1, <1>3 DEF Pushes
<1>5. ASSUME NEW n \in 1 .. N PROVE at[n] = Pushed(at[n - 1], items[n], size, max)
  <2>1. Max(1 .. n) = n /\ (1 .. n) \ {n} = 1 .. (n - 1)
    BY <1>1, MaxOfFirst
  <2>2. f[1 .. n] = Pushed(f[(1 .. n) \ {Max(1 .. n)}], items[Max(1 .. n)], size, max)
    <3>1. 1 .. n \in SUBSET (1 .. N) /\ 1 .. n # {}
      <4>1. N \in Nat /\ n \in 1 .. n /\ \A x \in 1 .. n : x \in 1 .. N
        BY <1>1
      <4> HIDE DEF N
      <4> QED
        BY <4>1
    <3> HIDE DEF end
    <3> QED
      BY <1>3, <3>1 DEF Pushes
  <2> QED
    BY <1>1, <2>1, <2>2
<1> HIDE DEF at, end
<1>6. OneByOne(at, items, size, max)
  BY <1>4, <1>5 DEF OneByOne
<1> QED
  BY <1>2, <1>4, <1>6

\* The recursion behind Total, over the first n numbers.
Adds(f, numbers, n) ==
  f = [s \in SUBSET (1 .. n) |-> IF s = {} THEN 0 ELSE f[s \ {Max(s)}] + numbers[Max(s)]]

LEMMA AddsExist ==
  ASSUME NEW numbers, NEW N \in Nat
  PROVE  \E f : Adds(f, numbers, N)
<1> DEFINE held == {n \in 0 .. N : \E f : Adds(f, numbers, n)}
<1>1. 0 \in held
  <2> DEFINE f == [s \in SUBSET (1 .. 0) |-> 0]
  <2>1. \A s \in SUBSET (1 .. 0) : s = {}
    OBVIOUS
  <2>2. Adds(f, numbers, 0)
    BY <2>1 DEF Adds
  <2> QED
    BY <2>2
<1>2. ASSUME NEW n \in 1 .. N, n - 1 \in held PROVE n \in held
  <2>1. PICK f : Adds(f, numbers, n - 1)
    BY <1>2
  <2> DEFINE g == [s \in SUBSET (1 .. n) |->
                     IF n \in s THEN f[s \ {n}] + numbers[n] ELSE f[s]]
  <2>2. ASSUME NEW s \in SUBSET (1 .. n)
        PROVE  g[s] = IF s = {} THEN 0 ELSE g[s \ {Max(s)}] + numbers[Max(s)]
    <3>1. CASE n \in s
      <4>1. Max(s) = n
        <5>1. \A y \in s : n >= y
          OBVIOUS
        <5>2. \A x \in s : (\A y \in s : x >= y) => x = n
          BY <3>1
        <5> QED
          BY <3>1, <5>1, <5>2 DEF Max
      <4>2. g[s \ {n}] = f[s \ {n}]
        OBVIOUS
      <4>3. g[s] = f[s \ {n}] + numbers[n]
        BY <3>1
      <4> HIDE DEF g
      <4> QED
        BY <3>1, <4>1, <4>2, <4>3
    <3>2. CASE n \notin s
      <4>1. s \in SUBSET (1 .. (n - 1))
        BY <3>2
      <4>2. f[s] = IF s = {} THEN 0 ELSE f[s \ {Max(s)}] + numbers[Max(s)]
        BY <2>1, <4>1 DEF Adds
      <4>3. g[s] = f[s] /\ g[s \ {Max(s)}] = f[s \ {Max(s)}]
        BY <3>2
      <4> HIDE DEF g
      <4> QED
        BY <4>2, <4>3
    <3> QED
      BY <3>1, <3>2
  <2>3. Adds(g, numbers, n)
    BY <2>2 DEF Adds
  <2> QED
    BY <2>3
<1>3. \A n \in 0 .. N : n \in held
  <2> HIDE DEF held
  <2> QED
    BY <1>1, <1>2, Upwards
<1> QED
  BY <1>3

\* `sum` has the sums of the first numbers.
Sums(sum, numbers) ==
  /\ sum \in [0 .. Len(numbers) -> Nat] /\ sum[0] = 0
  /\ \A n \in 1 .. Len(numbers) : sum[n] = sum[n - 1] + numbers[n]

LEMMA SumsExist ==
  ASSUME NEW numbers \in Seq(Nat)
  PROVE  \E sum : Sums(sum, numbers) /\ Total(numbers) = sum[Len(numbers)]
<1> DEFINE N == Len(numbers)
<1>1. N \in Nat /\ DOMAIN numbers = 1 .. N /\ \A n \in 1 .. N : numbers[n] \in Nat
  OBVIOUS
<1>2. Total(numbers) = (CHOOSE f : Adds(f, numbers, N))[1 .. N]
  BY <1>1 DEF Total, FoldLeft, MapThenFoldSet, Adds
<1>3. PICK f : Adds(f, numbers, N) /\ Total(numbers) = f[1 .. N]
  BY <1>1, <1>2, AddsExist
<1> DEFINE sum == [n \in 0 .. N |-> f[1 .. n]]
<1>4. sum[0] = 0 /\ sum[N] = Total(numbers)
  BY <1>1, <1>3 DEF Adds
<1>5. ASSUME NEW n \in 1 .. N PROVE sum[n] = sum[n - 1] + numbers[n]
  <2>1. Max(1 .. n) = n /\ (1 .. n) \ {n} = 1 .. (n - 1)
    BY <1>1, MaxOfFirst
  <2>2. f[1 .. n] = f[(1 .. n) \ {Max(1 .. n)}] + numbers[Max(1 .. n)]
    <3>1. 1 .. n \in SUBSET (1 .. N) /\ 1 .. n # {}
      <4>1. N \in Nat /\ n \in 1 .. n /\ \A x \in 1 .. n : x \in 1 .. N
        BY <1>1
      <4> HIDE DEF N
      <4> QED
        BY <4>1
    <3> QED
      BY <1>3, <3>1 DEF Adds
  <2>3. f[1 .. n] = f[1 .. (n - 1)] + numbers[n]
    BY <2>1, <2>2
  <2>4. sum[n] = f[1 .. n] /\ sum[n - 1] = f[1 .. (n - 1)]
    BY <1>1
  <2> HIDE DEF sum
  <2> QED
    BY <2>3, <2>4
<1>6. \A n \in 0 .. N : sum[n] \in Nat
  <2> DEFINE held == {n \in 0 .. N : sum[n] \in Nat}
  <2> HIDE DEF sum
  <2>1. 0 \in held
    BY <1>1, <1>4
  <2>2. \A n \in 1 .. N : n - 1 \in held => n \in held
    BY <1>1, <1>5
  <2>3. \A n \in 0 .. N : n \in held
    <3> HIDE DEF held
    <3> QED
      BY <1>1, <2>1, <2>2, Upwards
  <2> QED
    BY <2>3
<1>7. sum \in [0 .. N -> Nat]
  BY <1>6
<1> HIDE DEF sum
<1>8. Sums(sum, numbers)
  BY <1>4, <1>5, <1>7 DEF Sums
<1> QED
  BY <1>4, <1>8

LEMMA SumsAreTotal ==
  ASSUME NEW numbers \in Seq(Nat), NEW sum, Sums(sum, numbers)
  PROVE  Total(numbers) = sum[Len(numbers)]
<1>1. PICK other : Sums(other, numbers) /\ Total(numbers) = other[Len(numbers)]
  BY SumsExist
<1> DEFINE N == Len(numbers)
           held == {n \in 0 .. N : sum[n] = other[n]}
<1>2. N \in Nat
  OBVIOUS
<1>3. 0 \in held /\ \A n \in 1 .. N : n - 1 \in held => n \in held
  BY <1>1, <1>2 DEF Sums
<1>4. \A n \in 0 .. N : n \in held
  <2> HIDE DEF held
  <2> QED
    BY <1>2, <1>3, Upwards
<1> QED
  BY <1>1, <1>2, <1>4

-----------------------------------------------------------------------------
(* Chunks *)

SizesOf(items, size) == [i \in 1 .. Len(items) |-> size[items[i]]]

\* The items after the first m, up to the n-th.
Slice(s, items, m, n) ==
  /\ Len(s) = n - m
  /\ \A i \in 1 .. n - m : s[i] = items[m + i]

\* A chunk between two places of the items: one item, or few enough bytes.
ChunkOK(items, sum, max, m, n) == m < n /\ (n = m + 1 \/ sum[n] - sum[m] <= max)

\* The chunks cut a start of the items at `cut`, within the first n of them.
Cut(cut, k, chunks, items, sum, max, n, S) ==
  /\ k \in Nat /\ Len(chunks) = k /\ chunks \in Seq(Seq(S))
  /\ cut \in [0 .. k -> 0 .. n] /\ cut[0] = 0
  /\ \A c \in 1 .. k : /\ ChunkOK(items, sum, max, cut[c - 1], cut[c])
                       /\ Slice(chunks[c], items, cut[c - 1], cut[c])

\* The first n items, up to those that are not yet in a chunk.
CutBy(cut, k, chunks, current, bytes, items, sum, max, n, S) ==
  /\ Cut(cut, k, chunks, items, sum, max, n, S)
  /\ current \in Seq(S) /\ Slice(current, items, cut[k], n)
  /\ bytes = sum[n] - sum[cut[k]]
  /\ n = 0 \/ ChunkOK(items, sum, max, cut[k], n)

LEMMA SliceGrows ==
  ASSUME NEW S, NEW s \in Seq(S), NEW item \in S, NEW items, NEW m \in Nat, NEW n \in Nat, m < n,
         item = items[n], Slice(s, items, m, n - 1)
  PROVE  Append(s, item) \in Seq(S) /\ Slice(Append(s, item), items, m, n)
<1> DEFINE t == Append(s, item)
<1>1. /\ t \in Seq(S) /\ Len(t) = Len(s) + 1
      /\ \A i \in 1 .. Len(s) : t[i] = s[i]
      /\ t[Len(s) + 1] = item
  BY AppendProperties
<1> HIDE DEF t
<1>2. Len(s) = (n - 1) - m /\ \A i \in 1 .. (n - 1) - m : s[i] = items[m + i]
  BY DEF Slice
<1>3. \A i \in 1 .. n - m : i \in 1 .. (n - 1) - m \/ (i = n - m /\ m + i = n)
  OBVIOUS
<1>4. Len(s) \in Nat /\ Len(s) + 1 = n - m /\ 1 .. (n - 1) - m = 1 .. Len(s)
  BY <1>2
<1>5. ASSUME NEW i \in 1 .. n - m PROVE t[i] = items[m + i]
  <2>1. CASE i \in 1 .. (n - 1) - m
    BY <1>1, <1>2, <1>4, <2>1
  <2>2. CASE i = n - m /\ m + i = n
    BY <1>1, <1>4, <2>2
  <2> QED
    BY <1>3, <2>1, <2>2
<1> QED
  BY <1>1, <1>4, <1>5 DEF Slice, t

\* The current chunk is not empty: it becomes one of the chunks.
LEMMA CutGrows ==
  ASSUME NEW S, NEW items, NEW sum, NEW max, NEW n \in Nat,
         NEW cut, NEW k, NEW chunks, NEW current, NEW bytes,
         CutBy(cut, k, chunks, current, bytes, items, sum, max, n, S), current # << >>
  PROVE  \E new : /\ Cut(new, k + 1, Append(chunks, current), items, sum, max, n, S)
                  /\ new[k + 1] = n
<1>1. /\ k \in Nat /\ Len(chunks) = k /\ chunks \in Seq(Seq(S)) /\ current \in Seq(S)
      /\ cut \in [0 .. k -> 0 .. n] /\ cut[0] = 0
  BY DEF CutBy, Cut
<1>2. \A c \in 1 .. k : /\ ChunkOK(items, sum, max, cut[c - 1], cut[c])
                        /\ Slice(chunks[c], items, cut[c - 1], cut[c])
  BY DEF CutBy, Cut
<1>3. Slice(current, items, cut[k], n) /\ cut[k] \in 0 .. n
  BY <1>1 DEF CutBy
<1>4. n # 0 /\ ChunkOK(items, sum, max, cut[k], n)
  <2>1. Len(current) = n - cut[k] /\ Len(current) \in Nat \ {0}
    BY <1>1, <1>3, EmptySeq DEF Slice
  <2>2. n # 0
    BY <1>3, <2>1
  <2> QED
    BY <2>2 DEF CutBy
<1> DEFINE more == Append(chunks, current)
           new == [c \in 0 .. k + 1 |-> IF c <= k THEN cut[c] ELSE n]
<1>5. /\ more \in Seq(Seq(S)) /\ Len(more) = k + 1
      /\ \A c \in 1 .. k : more[c] = chunks[c]
      /\ more[k + 1] = current
  <2> DEFINE T == Seq(S)
  <2>1. current \in T /\ chunks \in Seq(T)
    BY <1>1
  <2> HIDE DEF T
  <2>2. /\ Append(chunks, current) \in Seq(T) /\ Len(Append(chunks, current)) = Len(chunks) + 1
        /\ \A c \in 1 .. Len(chunks) : Append(chunks, current)[c] = chunks[c]
        /\ Append(chunks, current)[Len(chunks) + 1] = current
    BY <2>1, AppendProperties
  <2> QED
    BY <1>1, <2>2 DEF T
<1>6. /\ \A c \in 0 .. k : new[c] = cut[c]
      /\ new[k + 1] = n
  BY <1>1
<1>7. new \in [0 .. k + 1 -> 0 .. n] /\ new[0] = 0
  <2>1. \A c \in 0 .. k : cut[c] \in 0 .. n
    BY <1>1
  <2>2. \A c \in 0 .. k + 1 : (IF c <= k THEN cut[c] ELSE n) \in 0 .. n
    BY <1>1, <2>1
  <2> QED
    BY <1>1, <2>2
<1> HIDE DEF new, more
<1>8. ASSUME NEW c \in 1 .. k + 1
      PROVE  /\ ChunkOK(items, sum, max, new[c - 1], new[c])
             /\ Slice(more[c], items, new[c - 1], new[c])
  <2>1. CASE c = k + 1
    <3>1. c - 1 = k /\ k \in 0 .. k
      BY <1>1, <2>1
    <3>2. new[c - 1] = cut[k] /\ new[c] = n /\ more[c] = current
      BY <1>5, <1>6, <2>1, <3>1
    <3> QED
      BY <1>3, <1>4, <3>2
  <2>2. CASE c # k + 1
    <3>1. c \in 1 .. k /\ c - 1 \in 0 .. k /\ c \in 0 .. k
      BY <1>1, <2>2
    <3>2. new[c - 1] = cut[c - 1] /\ new[c] = cut[c] /\ more[c] = chunks[c]
      BY <1>5, <1>6, <3>1
    <3> QED
      BY <1>2, <3>1, <3>2
  <2> QED
    BY <2>1, <2>2
<1>9. k + 1 \in Nat
  BY <1>1
<1>10. Cut(new, k + 1, more, items, sum, max, n, S)
  BY <1>5, <1>7, <1>8, <1>9 DEF Cut
<1> QED
  BY <1>6, <1>10 DEF more

\* The chunk is full: the item begins the next one.
LEMMA ChunkCloses ==
  ASSUME NEW S, NEW items, NEW sum, NEW max, NEW n \in Nat \ {0}, NEW item \in S,
         item = items[n], NEW cut, NEW k, NEW chunks, NEW current, NEW bytes,
         CutBy(cut, k, chunks, current, bytes, items, sum, max, n - 1, S), current # << >>
  PROVE  \E new : CutBy(new, k + 1, Append(chunks, current), <<item>>, sum[n] - sum[n - 1],
                       items, sum, max, n, S)
<1>1. PICK new : /\ Cut(new, k + 1, Append(chunks, current), items, sum, max, n - 1, S)
                 /\ new[k + 1] = n - 1
  <2>1. n - 1 \in Nat
    OBVIOUS
  <2> QED
    BY <2>1, CutGrows
<1>2. Cut(new, k + 1, Append(chunks, current), items, sum, max, n, S)
  <2>1. \A x \in 0 .. (n - 1) : x \in 0 .. n
    OBVIOUS
  <2>2. new \in [0 .. k + 1 -> 0 .. n]
    BY <1>1, <2>1 DEF Cut
  <2> QED
    BY <1>1, <2>2 DEF Cut
<1>3. <<item>> \in Seq(S) /\ Slice(<<item>>, items, n - 1, n)
  <2>1. <<item>> \in Seq(S) /\ Len(<<item>>) = 1 /\ <<item>>[1] = items[n]
    OBVIOUS
  <2>2. n - (n - 1) = 1 /\ \A i \in 1 .. 1 : i = 1 /\ (n - 1) + i = n
    OBVIOUS
  <2> QED
    BY <2>1, <2>2 DEF Slice
<1>4. ChunkOK(items, sum, max, n - 1, n)
  BY DEF ChunkOK
<1> QED
  BY <1>1, <1>2, <1>3, <1>4 DEF CutBy

\* The item fits, or is the first of its chunk.
LEMMA ChunkGrows ==
  ASSUME NEW S, NEW items, NEW sum, NEW max, NEW n \in Nat \ {0}, NEW item \in S,
         item = items[n], NEW cut, NEW k, NEW chunks, NEW current, NEW bytes,
         CutBy(cut, k, chunks, current, bytes, items, sum, max, n - 1, S),
         current = << >> \/ sum[n] - sum[cut[k]] <= max
  PROVE  CutBy(cut, k, chunks, Append(current, item), sum[n] - sum[cut[k]],
               items, sum, max, n, S)
<1>1. /\ k \in Nat /\ Len(chunks) = k /\ chunks \in Seq(Seq(S)) /\ current \in Seq(S)
      /\ cut \in [0 .. k -> 0 .. (n - 1)] /\ cut[0] = 0
  BY DEF CutBy, Cut
<1>2. \A c \in 1 .. k : /\ ChunkOK(items, sum, max, cut[c - 1], cut[c])
                        /\ Slice(chunks[c], items, cut[c - 1], cut[c])
  BY DEF CutBy, Cut
<1>3. Slice(current, items, cut[k], n - 1) /\ cut[k] \in 0 .. (n - 1)
  BY <1>1 DEF CutBy
<1>4. Append(current, item) \in Seq(S) /\ Slice(Append(current, item), items, cut[k], n)
  <2>1. cut[k] \in Nat /\ n \in Nat /\ cut[k] < n
    BY <1>3
  <2> QED
    BY <1>1, <1>3, <2>1, SliceGrows
<1>5. ChunkOK(items, sum, max, cut[k], n)
  <2>1. CASE current = << >>
    <3>1. Len(current) = 0 /\ Len(current) = (n - 1) - cut[k]
      BY <1>3, <2>1 DEF Slice
    <3>2. n = cut[k] + 1 /\ cut[k] < n
      BY <1>3, <3>1
    <3> QED
      BY <3>2 DEF ChunkOK
  <2>2. CASE sum[n] - sum[cut[k]] <= max
    <3>1. cut[k] < n
      BY <1>3
    <3> QED
      BY <2>2, <3>1 DEF ChunkOK
  <2> QED
    BY <2>1, <2>2
<1>6. cut \in [0 .. k -> 0 .. n]
  <2>1. \A x \in 0 .. (n - 1) : x \in 0 .. n
    OBVIOUS
  <2> QED
    BY <1>1, <2>1
<1> QED
  BY <1>1, <1>2, <1>4, <1>5, <1>6 DEF CutBy, Cut

\* After each item, the chunks so far and the one that is filled cut the items up to it.
LEMMA CutsExist ==
  ASSUME NEW S, NEW items \in Seq(S), NEW size \in [S -> Nat], NEW max \in Nat,
         NEW sum, Sums(sum, SizesOf(items, size)),
         NEW at, OneByOne(at, items, size, max)
  PROVE  \A n \in 0 .. Len(items) : \E cut, k, chunks, current, bytes :
           /\ at[n] = [chunks |-> chunks, current |-> current, bytes |-> bytes]
           /\ CutBy(cut, k, chunks, current, bytes, items, sum, max, n, S)
<1> DEFINE N == Len(items)
           Good(n) == \E cut, k, chunks, current, bytes :
                        /\ at[n] = [chunks |-> chunks, current |-> current, bytes |-> bytes]
                        /\ CutBy(cut, k, chunks, current, bytes, items, sum, max, n, S)
           held == {n \in 0 .. N : Good(n)}
<1>1. N \in Nat /\ \A n \in 1 .. N : items[n] \in S /\ size[items[n]] \in Nat
  OBVIOUS
<1>2. /\ sum[0] = 0 /\ \A n \in 0 .. N : sum[n] \in Nat
      /\ \A n \in 1 .. N : sum[n] = sum[n - 1] + size[items[n]]
  <2>1. Len([i \in 1 .. N |-> size[items[i]]]) = N
    BY <1>1
  <2> HIDE DEF N
  <2> QED
    BY <2>1 DEF Sums, N, SizesOf
<1>3. 0 \in held
  <2> DEFINE cut == [c \in 0 .. 0 |-> 0]
  <2>1. cut \in [0 .. 0 -> 0 .. 0] /\ cut[0] = 0
    OBVIOUS
  <2>2. << >> \in Seq(Seq(S)) /\ << >> \in Seq(S) /\ Len(<< >>) = 0
    BY EmptySeq
  <2>3. Slice(<< >>, items, 0, 0)
    BY <2>2 DEF Slice
  <2>4. 0 = sum[0] - sum[0]
    BY <1>2
  <2> HIDE DEF cut
  <2>5. CutBy(cut, 0, << >>, << >>, 0, items, sum, max, 0, S)
    BY <2>1, <2>2, <2>3, <2>4 DEF CutBy, Cut
  <2> QED
    BY <1>1, <2>5 DEF NoChunks, OneByOne
<1>4. ASSUME NEW n \in 1 .. N, n - 1 \in held PROVE n \in held
  <2>1. PICK cut, k, chunks, current, bytes :
          /\ at[n - 1] = [chunks |-> chunks, current |-> current, bytes |-> bytes]
          /\ CutBy(cut, k, chunks, current, bytes, items, sum, max, n - 1, S)
    BY <1>4
  <2> DEFINE item == items[n]
  <2>2. /\ n \in Nat \ {0} /\ item \in S /\ item = items[n]
        /\ size[item] \in Nat /\ sum[n] \in Nat /\ sum[n - 1] \in Nat
        /\ sum[n] = sum[n - 1] + size[item]
    BY <1>1, <1>2
  <2>3. bytes = sum[n - 1] - sum[cut[k]] /\ sum[cut[k]] \in Nat
    <3>1. k \in Nat /\ cut \in [0 .. k -> 0 .. (n - 1)] /\ bytes = sum[n - 1] - sum[cut[k]]
      BY <2>1 DEF CutBy, Cut
    <3>2. cut[k] \in 0 .. (n - 1) /\ \A x \in 0 .. (n - 1) : x \in 0 .. N
      BY <1>1, <3>1
    <3> QED
      BY <1>2, <3>1, <3>2
  <2>4. Filled(at[n], chunks, current, bytes, item, size, max)
    <3> DEFINE state == at[n - 1]
    <3>1. at[n] = Pushed(state, item, size, max)
      BY DEF OneByOne
    <3>2. state = [chunks |-> chunks, current |-> current, bytes |-> bytes]
      BY <2>1
    <3> HIDE DEF item, state
    <3> QED
      BY <3>1, <3>2, PushedIs
  <2> HIDE DEF item
  <2>5. CASE current # << >> /\ bytes + size[item] > max
    <3>1. size[item] = sum[n] - sum[n - 1]
      BY <2>2
    <3>2. \E new : CutBy(new, k + 1, Append(chunks, current), <<item>>, sum[n] - sum[n - 1],
                         items, sum, max, n, S)
      BY <2>1, <2>2, <2>5, ChunkCloses
    <3>3. at[n] = [chunks |-> Append(chunks, current), current |-> <<item>>,
                   bytes |-> sum[n] - sum[n - 1]]
      BY <2>4, <2>5, <3>1 DEF Filled
    <3>4. Good(n)
      <4> HIDE DEF held
      <4> QED
        BY <3>2, <3>3
    <3> QED
      BY <1>1, <3>4
  <2>6. CASE ~(current # << >> /\ bytes + size[item] > max)
    <3>1. bytes + size[item] = sum[n] - sum[cut[k]] /\ bytes + size[item] \in Int
      <4>1. \A x, y, z \in Nat : (x - y) + z = (x + z) - y /\ (x - y) + z \in Int
        OBVIOUS
      <4> DEFINE before == sum[n - 1]
                 base == sum[cut[k]]
                 more == size[item]
      <4>2. /\ before \in Nat /\ base \in Nat /\ more \in Nat
            /\ bytes = before - base /\ sum[n] = before + more
        BY <2>2, <2>3
      <4> HIDE DEF before, base, more
      <4>3. bytes + more = sum[n] - base /\ bytes + more \in Int
        BY <4>1, <4>2
      <4> QED
        BY <4>3 DEF base, more
    <3>2. current = << >> \/ sum[n] - sum[cut[k]] <= max
      BY <2>6, <3>1
    <3>3. CutBy(cut, k, chunks, Append(current, item), sum[n] - sum[cut[k]],
                items, sum, max, n, S)
      BY <2>1, <2>2, <3>2, ChunkGrows
    <3>4. at[n] = [chunks |-> chunks, current |-> Append(current, item),
                   bytes |-> sum[n] - sum[cut[k]]]
      BY <2>4, <2>6, <3>1 DEF Filled
    <3>5. Good(n)
      <4> HIDE DEF held
      <4> QED
        BY <3>3, <3>4
    <3> QED
      BY <1>1, <3>5
  <2> QED
    BY <2>5, <2>6
<1> HIDE DEF held
<1>5. \A n \in 0 .. N : n \in held
  BY <1>1, <1>3, <1>4, Upwards
<1> QED
  BY <1>5 DEF held

Bytes(size, s) == Total([i \in DOMAIN s |-> size[s[i]]])

\* The bytes of a slice are what its items add up to.
LEMMA SliceTotal ==
  ASSUME NEW S, NEW items \in Seq(S), NEW size \in [S -> Nat], NEW sum,
         Sums(sum, SizesOf(items, size)),
         NEW n \in 0 .. Len(items), NEW m \in 0 .. n, NEW s \in Seq(S), Slice(s, items, m, n)
  PROVE  Bytes(size, s) = sum[n] - sum[m]
<1> DEFINE numbers == [i \in 1 .. Len(s) |-> size[s[i]]]
           part == [j \in 0 .. Len(s) |-> sum[m + j] - sum[m]]
<1>1. /\ Len(s) = n - m /\ Len(s) \in Nat /\ m \in Nat /\ n \in Nat /\ Len(items) \in Nat
      /\ n <= Len(items) /\ m <= n
      /\ \A i \in 1 .. Len(s) : s[i] = items[m + i] /\ s[i] \in S
  BY DEF Slice
<1>2. \A i \in 1 .. Len(s) : size[s[i]] \in Nat
  BY <1>1
<1>3. numbers \in Seq(Nat) /\ Len(numbers) = Len(s)
      /\ \A i \in 1 .. Len(s) : numbers[i] = size[s[i]]
  BY <1>1, <1>2
<1>4. /\ \A i \in 0 .. Len(items) : sum[i] \in Nat
      /\ \A i \in 1 .. Len(items) : sum[i] = sum[i - 1] + size[items[i]]
  <2>1. Len([i \in 1 .. Len(items) |-> size[items[i]]]) = Len(items)
    BY <1>1
  <2>2. \A i \in 1 .. Len(items) : [j \in 1 .. Len(items) |-> size[items[j]]][i] = size[items[i]]
    OBVIOUS
  <2> QED
    BY <2>1, <2>2 DEF Sums, SizesOf
<1>5. ASSUME NEW j \in 1 .. Len(s)
      PROVE  /\ sum[m + j] = sum[m + (j - 1)] + numbers[j]
             /\ sum[m + j] \in Nat /\ sum[m + (j - 1)] \in Nat /\ numbers[j] \in Nat
  <2>1. m + j \in 1 .. Len(items) /\ (m + j) - 1 = m + (j - 1) /\ m + (j - 1) \in 0 .. Len(items)
    BY <1>1
  <2>2. sum[m + j] = sum[(m + j) - 1] + size[items[m + j]]
    BY <1>4, <2>1
  <2>3. numbers[j] = size[s[j]] /\ s[j] = items[m + j] /\ size[s[j]] \in Nat
    BY <1>1, <1>2
  <2>4. sum[m + j] \in Nat /\ sum[m + (j - 1)] \in Nat
    BY <1>1, <1>4, <2>1
  <2> HIDE DEF numbers
  <2> QED
    BY <2>1, <2>2, <2>3, <2>4
<1> HIDE DEF numbers
<1>6. sum[m] \in Nat
  BY <1>1, <1>4
<1>7. ASSUME NEW j \in 1 .. Len(s) PROVE part[j] = part[j - 1] + numbers[j]
  <2>1. part[j] = sum[m + j] - sum[m] /\ part[j - 1] = sum[m + (j - 1)] - sum[m]
    <3>1. j \in 0 .. Len(s) /\ j - 1 \in 0 .. Len(s)
      BY <1>1
    <3>2. \A i \in 0 .. Len(s) : part[i] = sum[m + i] - sum[m]
      OBVIOUS
    <3> HIDE DEF part
    <3> QED
      BY <3>1, <3>2
  <2>2. /\ sum[m + j] = sum[m + (j - 1)] + numbers[j]
        /\ sum[m + j] \in Nat /\ sum[m + (j - 1)] \in Nat /\ numbers[j] \in Nat
    BY <1>5
  <2> DEFINE here == sum[m + j]
             before == sum[m + (j - 1)]
             base == sum[m]
             more == numbers[j]
  <2>3. /\ here = before + more /\ here \in Nat /\ before \in Nat /\ base \in Nat /\ more \in Nat
        /\ part[j] = here - base /\ part[j - 1] = before - base
    BY <1>6, <2>1, <2>2
  <2> HIDE DEF part, here, before, base, more
  <2>4. part[j] = part[j - 1] + more
    BY <2>3
  <2> QED
    BY <2>4 DEF more
<1>8. part[0] = 0 /\ part[Len(s)] = sum[n] - sum[m]
  <2>1. part[0] = sum[m + 0] - sum[m] /\ part[Len(s)] = sum[m + Len(s)] - sum[m]
    BY <1>1
  <2>2. m + 0 = m /\ m + Len(s) = n
    BY <1>1
  <2> HIDE DEF part
  <2> QED
    BY <1>6, <2>1, <2>2
<1>9. \A j \in 0 .. Len(s) : part[j] \in Nat
  <2> DEFINE held == {j \in 0 .. Len(s) : part[j] \in Nat}
  <2> HIDE DEF part
  <2>1. 0 \in held
    BY <1>1, <1>8
  <2>2. ASSUME NEW j \in 1 .. Len(s), j - 1 \in held PROVE j \in held
    <3>1. part[j - 1] \in Nat /\ part[j] = part[j - 1] + numbers[j] /\ numbers[j] \in Nat
      BY <1>5, <1>7, <2>2
    <3>2. part[j] \in Nat
      BY <3>1
    <3> QED
      BY <1>1, <3>2
  <2>3. \A j \in 0 .. Len(s) : j \in held
    <3> HIDE DEF held
    <3> QED
      BY <1>1, <2>1, <2>2, Upwards
  <2> QED
    BY <2>3
<1>10. part \in [0 .. Len(s) -> Nat]
  BY <1>9
<1> HIDE DEF part
<1>11. Sums(part, numbers)
  BY <1>3, <1>7, <1>8, <1>10 DEF Sums
<1>12. Total(numbers) = part[Len(s)]
  BY <1>3, <1>11, SumsAreTotal
<1>13. numbers = [i \in DOMAIN s |-> size[s[i]]]
  BY DEF numbers
<1> QED
  BY <1>8, <1>12, <1>13 DEF Bytes

\* What a subsequence holds.
LEMMA SliceOf ==
  ASSUME NEW S, NEW items \in Seq(S), NEW n \in 0 .. Len(items), NEW m \in 0 .. n,
         NEW t, t = SubSeq(items, m + 1, n)
  PROVE  t \in Seq(S) /\ Len(t) = n - m /\ \A i \in 1 .. n - m : t[i] = items[m + i]
<1>1. /\ m + 1 \in 1 .. Len(items) + 1 /\ n \in m + 1 - 1 .. Len(items)
      /\ n - (m + 1) + 1 = n - m /\ m \in Nat /\ n \in Nat
  OBVIOUS
<1>2. /\ t \in Seq(S) /\ Len(t) = n - m
      /\ \A i \in 1 .. n - m : t[i] = items[(m + 1) + i - 1]
  BY <1>1, SubSeqProperties
<1>3. \A i \in 1 .. n - m : (m + 1) + i - 1 = m + i
  BY <1>1
<1> QED
  BY <1>2, <1>3

\* A slice is a subsequence.
LEMMA SliceIs ==
  ASSUME NEW S, NEW items \in Seq(S), NEW n \in 0 .. Len(items), NEW m \in 0 .. n,
         NEW s \in Seq(S), Slice(s, items, m, n)
  PROVE  s = SubSeq(items, m + 1, n)
<1>1. Len(s) = n - m /\ \A i \in 1 .. n - m : s[i] = items[m + i]
  BY DEF Slice
<1> DEFINE t == SubSeq(items, m + 1, n)
<1>2. t \in Seq(S) /\ Len(t) = n - m /\ \A i \in 1 .. n - m : t[i] = items[m + i]
  BY SliceOf
<1> HIDE DEF t
<1>3. Len(s) \in Nat /\ \A i \in 1 .. Len(s) : s[i] = t[i]
  BY <1>1, <1>2
<1>4. s = t
  BY <1>1, <1>2, <1>3, SeqEqual
<1> QED
  BY <1>4 DEF t

\* A cut whose last place is the end is what the theorem says.
Fits(cut, chunks, items, size, max) ==
  /\ cut \in [0 .. Len(chunks) -> 0 .. Len(items)]
  /\ cut[0] = 0 /\ cut[Len(chunks)] = Len(items)
  /\ \A c \in DOMAIN chunks :
       /\ cut[c - 1] < cut[c]
       /\ chunks[c] = SubSeq(items, cut[c - 1] + 1, cut[c])
       /\ \/ Len(chunks[c]) = 1
          \/ Bytes(size, chunks[c]) <= max

LEMMA CutFits ==
  ASSUME NEW S, NEW items \in Seq(S), NEW size \in [S -> Nat], NEW max \in Nat,
         NEW sum, Sums(sum, SizesOf(items, size)),
         NEW cut, NEW k, NEW chunks, Cut(cut, k, chunks, items, sum, max, Len(items), S),
         cut[k] = Len(items)
  PROVE  chunks \in Seq(Seq(S)) /\ Fits(cut, chunks, items, size, max)
<1> DEFINE N == Len(items)
<1>1. N \in Nat
  OBVIOUS
<1>2. /\ k \in Nat /\ Len(chunks) = k /\ chunks \in Seq(Seq(S))
      /\ cut \in [0 .. k -> 0 .. N] /\ cut[0] = 0
  BY DEF Cut
<1>3. \A c \in 1 .. k : /\ ChunkOK(items, sum, max, cut[c - 1], cut[c])
                        /\ Slice(chunks[c], items, cut[c - 1], cut[c])
  BY DEF Cut
<1>4. DOMAIN chunks = 1 .. k
  <2> DEFINE T == Seq(S)
  <2>1. chunks \in Seq(T) /\ Len(chunks) = k
    BY <1>2
  <2> HIDE DEF T
  <2> QED
    BY <2>1
<1>5. ASSUME NEW c \in 1 .. k
      PROVE  /\ cut[c - 1] < cut[c]
             /\ chunks[c] = SubSeq(items, cut[c - 1] + 1, cut[c])
             /\ \/ Len(chunks[c]) = 1
                \/ Bytes(size, chunks[c]) <= max
  <2>1. c - 1 \in 0 .. k /\ c \in 0 .. k
    BY <1>2
  <2> DEFINE m == cut[c - 1]
             n == cut[c]
             s == chunks[c]
  <2>2. m \in 0 .. N /\ n \in 0 .. N
    BY <1>2, <2>1
  <2>3. s \in Seq(S)
    <3> DEFINE T == Seq(S)
    <3>1. chunks \in Seq(T) /\ Len(chunks) = k
      BY <1>2
    <3> HIDE DEF T
    <3>2. chunks[c] \in T
      BY <3>1
    <3> QED
      BY <3>2 DEF T
  <2>4. ChunkOK(items, sum, max, m, n) /\ Slice(s, items, m, n)
    BY <1>3
  <2> HIDE DEF m, n, s
  <2>5. m < n /\ m \in 0 .. n /\ n \in 0 .. Len(items)
    BY <2>2, <2>4 DEF ChunkOK
  <2>6. s = SubSeq(items, m + 1, n)
    BY <2>3, <2>4, <2>5, SliceIs
  <2>7. Bytes(size, s) = sum[n] - sum[m]
    BY <2>3, <2>4, <2>5, SliceTotal
  <2>8. Len(s) = n - m
    BY <2>4 DEF Slice
  <2>9. Len(s) = 1 \/ Bytes(size, s) <= max
    BY <2>2, <2>4, <2>7, <2>8 DEF ChunkOK
  <2> QED
    BY <2>5, <2>6, <2>9 DEF m, n, s
<1> QED
  BY <1>2, <1>4, <1>5 DEF Fits

\* chunkBySize, for every sequence of items, sizes and limit: the chunks are the items cut
\* at increasing places, in order and without a gap, none is empty, and none is larger
\* than the limit unless it is a single item.
THEOREM ChunksFit ==
  ASSUME NEW S, NEW items \in Seq(S), NEW size \in [S -> Nat], NEW max \in Nat
  PROVE  LET chunks == chunkBySize(items, size, max)
         IN  chunks \in Seq(Seq(S)) /\ \E cut : Fits(cut, chunks, items, size, max)
<1> DEFINE N == Len(items)
           numbers == SizesOf(items, size)
           chunks == chunkBySize(items, size, max)
<1>1. N \in Nat /\ numbers \in Seq(Nat)
  BY DEF SizesOf
<1>2. PICK sum : Sums(sum, numbers)
  <2> HIDE DEF numbers
  <2> QED
    BY <1>1, SumsExist
<1>3. PICK at : OneByOne(at, items, size, max) /\ chunks = Closed(at[N])
  BY PushedOneByOne
<1>4. PICK cut, k, done, current, bytes :
        /\ at[N] = [chunks |-> done, current |-> current, bytes |-> bytes]
        /\ CutBy(cut, k, done, current, bytes, items, sum, max, N, S)
  <2>1. N \in 0 .. N
    BY <1>1
  <2> HIDE DEF chunks
  <2> QED
    BY <1>2, <1>3, <2>1, CutsExist
<1>5. chunks = IF current = << >> THEN done ELSE Append(done, current)
  <2> DEFINE end == at[N]
  <2>1. chunks = Closed(end)
    BY <1>3
  <2>2. end.current = current /\ end.chunks = done
    BY <1>4
  <2> HIDE DEF chunks, end
  <2> QED
    BY <2>1, <2>2 DEF Closed
<1> HIDE DEF chunks
<1>6. \E new, n : Cut(new, n, chunks, items, sum, max, N, S) /\ new[n] = N
  <2>1. CASE current = << >>
    <3>1. k \in Nat /\ cut \in [0 .. k -> 0 .. N] /\ Slice(current, items, cut[k], N)
      BY <1>4 DEF CutBy, Cut
    <3>2. N - cut[k] = 0 /\ cut[k] \in 0 .. N
      <4>1. Len(current) = 0 /\ Len(current) = N - cut[k]
        BY <2>1, <3>1 DEF Slice
      <4> QED
        BY <3>1, <4>1
    <3>3. cut[k] = N
      <4> HIDE DEF N
      <4> QED
        BY <1>1, <3>2
    <3> QED
      BY <1>4, <1>5, <2>1, <3>3 DEF CutBy
  <2>2. CASE current # << >>
    <3> DEFINE grown == Append(done, current)
    <3>1. \E new : Cut(new, k + 1, grown, items, sum, max, N, S) /\ new[k + 1] = N
      <4> HIDE DEF N
      <4> QED
        BY <1>1, <1>4, <2>2, CutGrows
    <3>2. chunks = grown
      BY <1>5, <2>2
    <3> HIDE DEF grown
    <3> QED
      BY <3>1, <3>2
  <2> QED
    BY <2>1, <2>2
<1>7. PICK new, n : Cut(new, n, chunks, items, sum, max, N, S) /\ new[n] = N
  BY <1>6
<1>8. chunks \in Seq(Seq(S)) /\ Fits(new, chunks, items, size, max)
  BY <1>2, <1>7, CutFits
<1> QED
  BY <1>8 DEF chunks

-----------------------------------------------------------------------------
(* Identities *)

\* Two texts with a colon between them.
LEMMA Joined ==
  ASSUME NEW S, ":" \in S, NEW a \in Seq(S), NEW b \in Seq(S)
  PROVE  /\ a \o <<":">> \o b \in Seq(S)
         /\ Len(a \o <<":">> \o b) = Len(a) + 1 + Len(b)
         /\ \A i \in 1 .. Len(a) : (a \o <<":">> \o b)[i] = a[i]
         /\ (a \o <<":">> \o b)[Len(a) + 1] = ":"
         /\ \A i \in 1 .. Len(b) : (a \o <<":">> \o b)[Len(a) + 1 + i] = b[i]
<1> DEFINE T == Len(a)
           A == Len(b)
           head == a \o <<":">>
           all == head \o b
<1>1. T \in Nat /\ A \in Nat
  OBVIOUS
<1>2. /\ head \in Seq(S) /\ Len(head) = T + 1
      /\ \A i \in 1 .. T : head[i] = a[i]
      /\ head[T + 1] = ":"
  <2>1. <<":">> \in Seq(S) /\ Len(<<":">>) = 1 /\ <<":">>[1] = ":"
    OBVIOUS
  <2> QED
    BY <1>1, <2>1, ConcatProperties
<1> HIDE DEF head, T, A
<1>3. /\ all \in Seq(S) /\ Len(all) = T + 1 + A
      /\ \A i \in 1 .. T + 1 + A : all[i] = IF i <= T + 1 THEN head[i] ELSE b[i - (T + 1)]
  <2>1. /\ head \o b \in Seq(S) /\ Len(head \o b) = Len(head) + Len(b)
        /\ \A i \in 1 .. Len(head) + Len(b) :
             (head \o b)[i] = IF i <= Len(head) THEN head[i] ELSE b[i - Len(head)]
    BY <1>2, ConcatProperties, Zenon
  <2> QED
    BY <1>2, <2>1 DEF A
<1> HIDE DEF all
<1>4. ASSUME NEW i \in 1 .. T PROVE all[i] = a[i]
  <2>1. i \in 1 .. T + 1 + A /\ i <= T + 1
    BY <1>1
  <2> QED
    BY <1>2, <1>3, <2>1
<1>5. all[T + 1] = ":"
  <2>1. T + 1 \in 1 .. T + 1 + A /\ T + 1 <= T + 1
    BY <1>1
  <2> QED
    BY <1>2, <1>3, <2>1
<1>6. ASSUME NEW i \in 1 .. A PROVE all[T + 1 + i] = b[i]
  <2>1. /\ T + 1 + i \in 1 .. T + 1 + A /\ ~(T + 1 + i <= T + 1)
        /\ (T + 1 + i) - (T + 1) = i
    BY <1>1
  <2> QED
    BY <1>3, <2>1
<1>7. /\ all \in Seq(S) /\ Len(all) = T + 1 + A
      /\ \A i \in 1 .. T : all[i] = a[i]
      /\ all[T + 1] = ":"
      /\ \A i \in 1 .. A : all[T + 1 + i] = b[i]
  BY <1>3, <1>4, <1>5, <1>6
<1> QED
  BY <1>7 DEF all, head, T, A

\* The key of a group gives its identity back: an agent may have colons, and a tenant,
\* which has none, ends at the first.
THEOREM IdentityIsKept ==
  ASSUME NEW S, ":" \in S, NEW span, span.tenant \in Seq(S), span.agent \in Seq(S),
         \A j \in DOMAIN span.tenant : span.tenant[j] # ":"
  PROVE  parseIdentityKey(IdentityKey(span))
           = [tenantId |-> span.tenant, agentId |-> span.agent]
<1> DEFINE tenant == span.tenant
           agent == span.agent
           key == (tenant \o <<":">>) \o agent
           T == Len(tenant)
           A == Len(agent)
<1>1. /\ tenant \in Seq(S) /\ agent \in Seq(S) /\ <<":">> \in Seq(S) /\ Len(<<":">>) = 1
      /\ <<":">>[1] = ":" /\ \A j \in DOMAIN tenant : tenant[j] # ":"
  OBVIOUS
<1> HIDE DEF tenant, agent
<1>2. T \in Nat /\ A \in Nat
  BY <1>1
<1>3. /\ key \in Seq(S) /\ Len(key) = T + 1 + A
      /\ \A i \in 1 .. T : key[i] = tenant[i]
      /\ key[T + 1] = ":"
      /\ \A i \in 1 .. A : key[T + 1 + i] = agent[i]
  <2>1. /\ tenant \o <<":">> \o agent \in Seq(S)
        /\ Len(tenant \o <<":">> \o agent) = Len(tenant) + 1 + Len(agent)
        /\ \A i \in 1 .. Len(tenant) : (tenant \o <<":">> \o agent)[i] = tenant[i]
        /\ (tenant \o <<":">> \o agent)[Len(tenant) + 1] = ":"
        /\ \A i \in 1 .. Len(agent) : (tenant \o <<":">> \o agent)[Len(tenant) + 1 + i] = agent[i]
    BY <1>1, Joined
  <2> QED
    BY <2>1
<1> HIDE DEF key
<1>4. DOMAIN key = 1 .. T + 1 + A
  BY <1>2, <1>3
<1> DEFINE colon == CHOOSE i \in DOMAIN key : /\ key[i] = ":"
                                              /\ \A j \in 1 .. i - 1 : key[j] # ":"
<1>5. \A j \in 1 .. T : key[j] # ":"
  <2>1. DOMAIN tenant = 1 .. T
    BY <1>1
  <2> QED
    BY <1>1, <1>3, <2>1
<1>6. colon = T + 1
  <2>1. T + 1 \in DOMAIN key /\ (T + 1) - 1 = T
    BY <1>2, <1>4
  <2>2. ASSUME NEW i \in DOMAIN key, key[i] = ":", \A j \in 1 .. i - 1 : key[j] # ":"
        PROVE  i = T + 1
    <3>1. i \in Nat /\ i \notin 1 .. T /\ i >= 1
      BY <1>4, <1>5, <2>2
    <3>2. T + 1 \notin 1 .. i - 1
      BY <1>3, <2>2
    <3> HIDE DEF T
    <3> QED
      BY <1>2, <3>1, <3>2
  <2> HIDE DEF T
  <2> QED
    BY <1>3, <1>5, <2>1, <2>2
<1>7. SubSeq(key, 1, T) = tenant
  <2>1. \A i \in 1 .. T : key[i] \in S
    BY <1>1, <1>2, <1>3
  <2>2. /\ SubSeq(key, 1, T) \in Seq(S) /\ Len(SubSeq(key, 1, T)) = T
        /\ \A i \in 1 .. T : SubSeq(key, 1, T)[i] = key[i]
    BY <1>2, <2>1, SubSeqProperties
  <2> QED
    BY <1>1, <1>3, <2>2, SeqEqual
<1>8. SubSeq(key, T + 2, Len(key)) = agent
  <2> DEFINE rest == SubSeq(key, T + 2, Len(key))
  <2>1. \A i \in T + 2 .. Len(key) : key[i] \in S
    BY <1>2, <1>3
  <2>2. T + 2 \in Int /\ Len(key) \in Int /\ Len(key) - (T + 2) + 1 = A
    BY <1>2, <1>3
  <2>3. rest \in Seq(S) /\ Len(rest) = A /\ \A i \in 1 .. A : rest[i] = key[(T + 2) + i - 1]
    BY <1>2, <2>1, <2>2, SubSeqProperties
  <2>4. \A i \in 1 .. A : (T + 2) + i - 1 = T + 1 + i
    BY <1>2
  <2> HIDE DEF rest
  <2>5. \A i \in 1 .. A : rest[i] = agent[i]
    BY <1>3, <2>3, <2>4
  <2>6. rest = agent
    BY <1>1, <2>3, <2>5, SeqEqual
  <2> QED
    BY <2>6 DEF rest
<1>9. parseIdentityKey(key) = [tenantId |-> SubSeq(key, 1, colon - 1),
                               agentId |-> SubSeq(key, colon + 1, Len(key))]
  BY DEF parseIdentityKey
<1> HIDE DEF colon
<1>10. colon - 1 = T /\ colon + 1 = T + 2
  <2> HIDE DEF T
  <2> QED
    BY <1>2, <1>6
<1>11. parseIdentityKey(key) = [tenantId |-> tenant, agentId |-> agent]
  BY <1>7, <1>8, <1>9, <1>10
<1>12. IdentityKey(span) = key
  BY DEF IdentityKey, key, tenant, agent
<1> QED
  BY <1>11, <1>12 DEF tenant, agent

-----------------------------------------------------------------------------
(* Items picked in order *)

LEMMA LeastExists ==
  ASSUME NEW S \in SUBSET Nat, S # {}
  PROVE  \E x \in S : \A y \in S : x <= y
<1> DEFINE R == OpToRel(<, Nat)
<1>1. IsWellFoundedOn(R, Nat)
  BY NatLessThanWellFounded
<1>2. \A x, y \in Nat : <<y, x>> \in R <=> y < x
  BY DEF OpToRel
<1> HIDE DEF R
<1>3. PICK x \in S : \A y \in S : ~ (<<y, x>> \in R)
  BY <1>1, WFMin
<1>4. \A y \in S : x <= y
  <2>1. TAKE y \in S
  <2>2. x \in Nat /\ y \in Nat
    BY <1>3
  <2>3. ~ (y < x)
    BY <1>2, <1>3, <2>2
  <2> QED
    BY <2>2, <2>3
<1> QED
  BY <1>3, <1>4

Counting(S, i) == Cardinality({j \in S : j <= i})

LEMMA UpToNFinite ==
  ASSUME NEW N \in Nat, NEW S \in SUBSET (1 .. N)
  PROVE  /\ IsFiniteSet(S) /\ Cardinality(S) \in Nat
         /\ \A j \in S : j \in Nat /\ 1 <= j /\ j <= N
<1>1. IsFiniteSet(1 .. N)
  BY FS_Interval
<1>2. \A j \in 1 .. N : j \in Nat /\ 1 <= j /\ j <= N
  OBVIOUS
<1> QED
  BY <1>1, <1>2, FS_Subset, FS_CardinalityType

LEMMA CountingSteps ==
  ASSUME NEW N \in Nat, NEW S \in SUBSET (1 .. N), NEW i \in 1 .. N
  PROVE  /\ Counting(S, i) \in Nat /\ Counting(S, i - 1) \in Nat
         /\ Counting(S, i) = Counting(S, i - 1) + (IF i \in S THEN 1 ELSE 0)
<1> DEFINE A == {j \in S : j <= i - 1}
           B == {j \in S : j <= i}
<1>1. IsFiniteSet(S) /\ \A j \in S : j \in Nat
  BY UpToNFinite
<1>2. IsFiniteSet(A) /\ IsFiniteSet(B)
  BY <1>1, FS_Subset
<1>3. Cardinality(A) \in Nat /\ Cardinality(B) \in Nat
  BY <1>2, FS_CardinalityType
<1>4. CASE i \in S
  <2>1. B = A \cup {i} /\ i \notin A
    <3>1. \A j \in S : j <= i <=> (j <= i - 1 \/ j = i)
      BY <1>1
    <3>2. i <= i /\ ~(i <= i - 1)
      OBVIOUS
    <3> QED
      BY <1>4, <3>1, <3>2
  <2>2. Cardinality(A \cup {i}) = Cardinality(A) + 1
    <3> HIDE DEF A, B
    <3> QED
      BY <1>2, <2>1, FS_AddElement
  <2> QED
    BY <1>3, <1>4, <2>1, <2>2 DEF Counting
<1>5. CASE i \notin S
  <2>1. B = A
    <3>1. \A j \in S : j <= i <=> (j <= i - 1 \/ j = i)
      BY <1>1
    <3> QED
      BY <1>5, <3>1
  <2> QED
    BY <1>3, <1>5, <2>1 DEF Counting
<1> QED
  BY <1>4, <1>5

\* Every rank up to the cardinality is that of an element.
LEMMA NthExists ==
  ASSUME NEW N \in Nat, NEW S \in SUBSET (1 .. N), NEW n \in 1 .. Cardinality(S)
  PROVE  \E i \in S : Counting(S, i) = n
<1> DEFINE reach == {i \in 0 .. N : n <= Counting(S, i)}
<1>1. Cardinality(S) \in Nat /\ \A j \in S : j \in Nat /\ 1 <= j /\ j <= N
  BY UpToNFinite
<1>2. Counting(S, N) = Cardinality(S) /\ Counting(S, 0) = 0
  <2>1. \A j \in S : j <= N /\ ~(j <= 0)
    BY <1>1
  <2>2. {j \in S : j <= N} = S /\ {j \in S : j <= 0} = {}
    BY <2>1
  <2> QED
    BY <2>2, FS_EmptySet DEF Counting
<1>3. PICK i \in reach : \A j \in reach : i <= j
  <2>1. N \in reach
    BY <1>1, <1>2
  <2>2. reach \in SUBSET Nat
    OBVIOUS
  <2> HIDE DEF reach
  <2> QED
    BY <2>1, <2>2, LeastExists
<1>4. i \in 1 .. N
  BY <1>1, <1>2, <1>3
<1>5. i - 1 \notin reach /\ i - 1 \in 0 .. N
  BY <1>3, <1>4
<1>6. /\ Counting(S, i) \in Nat /\ Counting(S, i - 1) \in Nat
      /\ Counting(S, i) = Counting(S, i - 1) + (IF i \in S THEN 1 ELSE 0)
  BY <1>4, CountingSteps
<1>7. n <= Counting(S, i) /\ ~(n <= Counting(S, i - 1))
  BY <1>3, <1>5
<1> QED
  BY <1>6, <1>7


\* The elements of S, each at its rank.
LEMMA InOrderIs ==
  ASSUME NEW N \in Nat, NEW S \in SUBSET (1 .. N)
  PROVE  /\ Cardinality(S) \in Nat /\ DOMAIN InOrder(S) = 1 .. Cardinality(S)
         /\ \A n \in 1 .. Cardinality(S) :
              InOrder(S)[n] \in S /\ Counting(S, InOrder(S)[n]) = n
         /\ \A i \in S : \E n \in 1 .. Cardinality(S) : InOrder(S)[n] = i
<1> DEFINE nth(n) == CHOOSE i \in S : Counting(S, i) = n
           C == Cardinality(S)
<1>1. IsFiniteSet(S) /\ C \in Nat /\ \A j \in S : j \in Nat
  <2> HIDE DEF C
  <2> QED
    BY UpToNFinite DEF C
<1>2. InOrder(S) = [n \in 1 .. C |-> nth(n)]
  BY DEF InOrder, Counting
<1>3. ASSUME NEW n \in 1 .. C PROVE nth(n) \in S /\ Counting(S, nth(n)) = n
  <2>1. \E i \in S : Counting(S, i) = n
    BY NthExists
  <2> QED
    BY <2>1
<1>4. ASSUME NEW i \in S PROVE \E n \in 1 .. C : nth(n) = i
  <2>1. Counting(S, i) \in 1 .. C
    <3>1. {j \in S : j <= i} \in SUBSET S /\ i \in {j \in S : j <= i}
      BY <1>1
    <3>2. IsFiniteSet({j \in S : j <= i})
      BY <1>1, <3>1, FS_Subset
    <3>3. Counting(S, i) \in Nat /\ Counting(S, i) <= C
      BY <1>1, <3>1, FS_Subset, FS_CardinalityType DEF Counting
    <3>4. Counting(S, i) # 0
      BY <3>1, <3>2, FS_EmptySet DEF Counting
    <3> QED
      BY <1>1, <3>3, <3>4
  <2> DEFINE k == nth(Counting(S, i))
  <2>2. k \in S /\ Counting(S, k) = Counting(S, i)
    BY <2>1, <1>3
  <2>3. ASSUME NEW x \in S, NEW y \in S, x < y PROVE Counting(S, x) # Counting(S, y)
    <3> DEFINE X == {j \in S : j <= x}
               Y == {j \in S : j <= y}
    <3>1. X \in SUBSET Y /\ y \in Y /\ y \notin X
      <4>1. x \in Nat /\ y \in Nat /\ y <= y /\ ~(y <= x)
        BY <1>1, <2>3
      <4>2. \A j \in S : j <= x => j <= y
        BY <1>1, <2>3
      <4> QED
        BY <4>1, <4>2
    <3>2. IsFiniteSet(Y)
      BY <1>1, FS_Subset
    <3>3. Cardinality(X) < Cardinality(Y)
      <4> HIDE DEF X, Y
      <4>1. X # Y
        BY <3>1
      <4>2. Cardinality(X) <= Cardinality(Y) /\ IsFiniteSet(X)
            /\ (Cardinality(X) = Cardinality(Y) => X = Y)
        BY <3>1, <3>2, FS_Subset
      <4>3. Cardinality(X) \in Nat /\ Cardinality(Y) \in Nat
        BY <3>2, <4>2, FS_CardinalityType
      <4> QED
        BY <4>1, <4>2, <4>3
    <3>4. Cardinality(X) \in Nat /\ Cardinality(Y) \in Nat
      <4>1. IsFiniteSet(X)
        BY <1>1, FS_Subset
      <4> QED
        BY <3>2, <4>1, FS_CardinalityType
    <3> QED
      BY <3>3, <3>4 DEF Counting
  <2>4. k = i
    <3>1. k \in Nat /\ i \in Nat
      BY <1>1, <2>2
    <3> HIDE DEF k
    <3> QED
      BY <3>1, <2>2, <2>3
  <2> QED
    BY <2>1, <2>4
<1> HIDE DEF nth, C
<1>5. DOMAIN InOrder(S) = 1 .. C /\ \A n \in 1 .. C : InOrder(S)[n] = nth(n)
  BY <1>2
<1>6. \A i \in S : \E n \in 1 .. C : InOrder(S)[n] = i
  BY <1>4, <1>5
<1> QED
  BY <1>1, <1>3, <1>5, <1>6 DEF C

\* A sequence in which no item occurs twice.
Once(s) == \A i, j \in DOMAIN s : s[i] = s[j] => i = j

\* Picking keeps each of the items at the positions, and nothing else.
LEMMA PickedIs ==
  ASSUME NEW T, NEW items \in Seq(T), NEW S \in SUBSET (DOMAIN items)
  PROVE  /\ Picked(items, S) \in Seq(T)
         /\ \A n \in DOMAIN Picked(items, S) : \E i \in S : Picked(items, S)[n] = items[i]
         /\ \A i \in S : \E n \in DOMAIN Picked(items, S) : Picked(items, S)[n] = items[i]
         /\ (\A i, j \in S : items[i] = items[j] => i = j) => Once(Picked(items, S))
<1> DEFINE N == Len(items)
           C == Cardinality(S)
           at == InOrder(S)
           picked == Picked(items, S)
<1>1. N \in Nat /\ DOMAIN items = 1 .. N /\ S \in SUBSET (1 .. N) /\ \A i \in 1 .. N : items[i] \in T
  OBVIOUS
<1>2. /\ C \in Nat /\ DOMAIN at = 1 .. C
      /\ \A n \in 1 .. C : at[n] \in S /\ Counting(S, at[n]) = n
      /\ \A i \in S : \E n \in 1 .. C : at[n] = i
  <2> HIDE DEF N
  <2> QED
    BY <1>1, InOrderIs
<1>3. picked = [n \in DOMAIN at |-> items[at[n]]]
  BY DEF Picked
<1> HIDE DEF at, C, N, picked
<1>4. DOMAIN picked = 1 .. C /\ \A n \in 1 .. C : picked[n] = items[at[n]]
  BY <1>2, <1>3
<1>5. picked \in Seq(T)
  <2>1. \A n \in 1 .. C : items[at[n]] \in T
    BY <1>1, <1>2
  <2>2. picked = [n \in 1 .. C |-> items[at[n]]]
    BY <1>2, <1>3
  <2> QED
    BY <1>2, <2>1, <2>2
<1>6. (\A i, j \in S : items[i] = items[j] => i = j) => Once(picked)
  <2> SUFFICES ASSUME \A i, j \in S : items[i] = items[j] => i = j,
                      NEW m \in 1 .. C, NEW n \in 1 .. C, picked[m] = picked[n]
               PROVE  m = n
    BY <1>4 DEF Once
  <2>1. at[m] \in S /\ at[n] \in S
    BY <1>2
  <2>2. at[m] = at[n]
    BY <1>4, <2>1
  <2> QED
    BY <1>2, <2>2
<1>7. \A n \in 1 .. C : \E i \in S : picked[n] = items[i]
  BY <1>2, <1>4
<1>8. \A i \in S : \E n \in 1 .. C : picked[n] = items[i]
  BY <1>2, <1>4
<1> QED
  BY <1>4, <1>5, <1>6, <1>7, <1>8 DEF picked

-----------------------------------------------------------------------------
(* Groups *)

\* The entries of items, each of which has a key: an entry a key, with its items.
Grouped(entries, keys, items, T) ==
  /\ Len(entries) \in Nat /\ DOMAIN entries = 1 .. Len(entries)
  /\ \A a \in DOMAIN entries :
       /\ entries[a].items \in Seq(T) /\ DOMAIN entries[a].items # {}
       /\ \A n \in DOMAIN entries[a].items : \E i \in DOMAIN items :
            entries[a].items[n] = items[i] /\ keys[i] = entries[a].key
       /\ \A i \in DOMAIN items : keys[i] = entries[a].key =>
            \E n \in DOMAIN entries[a].items : entries[a].items[n] = items[i]
       /\ Once(items) => Once(entries[a].items)
  /\ \A i \in DOMAIN items : \E a \in DOMAIN entries : entries[a].key = keys[i]
  /\ \A a, b \in DOMAIN entries : entries[a].key = entries[b].key => a = b

LEMMA GroupedByIs ==
  ASSUME NEW T, NEW items \in Seq(T), NEW K, NEW keys \in Seq(K), Len(keys) = Len(items)
  PROVE  Grouped(GroupedBy(keys, items), keys, items, T)
<1> DEFINE Having(key) == {j \in DOMAIN items : keys[j] = key}
           firsts == {i \in DOMAIN items : \A j \in 1 .. i - 1 : keys[j] # keys[i]}
           names == Picked(keys, firsts)
           entries == GroupedBy(keys, items)
           N == Len(items)
<1>1. N \in Nat /\ DOMAIN items = 1 .. N /\ DOMAIN keys = 1 .. N
      /\ firsts \in SUBSET (DOMAIN keys)
      /\ \A key : Having(key) \in SUBSET (DOMAIN items)
  OBVIOUS
<1>2. entries = [a \in DOMAIN names |-> [key |-> names[a], items |-> Picked(items, Having(names[a]))]]
  BY DEF GroupedBy, Mapped
<1>3. /\ names \in Seq(K)
      /\ \A a \in DOMAIN names : \E i \in firsts : names[a] = keys[i]
      /\ \A i \in firsts : \E a \in DOMAIN names : names[a] = keys[i]
  <2> HIDE DEF firsts
  <2> QED
    BY <1>1, PickedIs
<1>4. \A i \in DOMAIN items : \E f \in firsts : keys[f] = keys[i]
  <2> TAKE i \in DOMAIN items
  <2> DEFINE same == Having(keys[i])
  <2>1. same # {} /\ same \in SUBSET Nat
    BY <1>1
  <2>2. PICK f \in same : \A j \in same : f <= j
    <3> HIDE DEF same
    <3> QED
      BY <2>1, LeastExists
  <2>3. f \in DOMAIN items /\ keys[f] = keys[i]
    OBVIOUS
  <2>4. ASSUME NEW j \in 1 .. f - 1, keys[j] = keys[f] PROVE FALSE
    <3>1. j \in DOMAIN items /\ ~(f <= j)
      BY <1>1, <2>3
    <3>2. j \in same
      BY <2>3, <2>4, <3>1
    <3> QED
      BY <2>2, <3>1, <3>2
  <2>5. f \in firsts
    BY <2>3, <2>4
  <2> QED
    BY <2>3, <2>5
<1>5. \A i, j \in firsts : keys[i] = keys[j] => i = j
  <2> SUFFICES ASSUME NEW i \in firsts, NEW j \in firsts, keys[i] = keys[j], i < j PROVE FALSE
    BY <1>1
  <2>1. i \in 1 .. j - 1
    BY <1>1
  <2> QED
    BY <2>1
<1>6. Once(names)
  <2> HIDE DEF firsts
  <2> QED
    BY <1>1, <1>5, PickedIs
<1>7. Len(names) \in Nat /\ DOMAIN names = 1 .. Len(names)
  <2> HIDE DEF names
  <2> QED
    BY <1>3
<1> HIDE DEF names, firsts, N
<1>8. Len(entries) = Len(names) /\ DOMAIN entries = DOMAIN names
  <2> DEFINE C == Len(names)
  <2>1. entries = [a \in 1 .. C |-> [key |-> names[a], items |-> Picked(items, Having(names[a]))]]
    BY <1>2, <1>7
  <2> HIDE DEF entries, C
  <2> QED
    BY <1>7, <2>1 DEF C
<1>9. \A a \in DOMAIN names : entries[a].key = names[a] /\ entries[a].items = Picked(items, Having(names[a]))
  BY <1>2
<1> HIDE DEF entries
<1>10. ASSUME NEW a \in DOMAIN names
       PROVE  /\ entries[a].items \in Seq(T) /\ DOMAIN entries[a].items # {}
              /\ \A n \in DOMAIN entries[a].items : \E i \in DOMAIN items :
                   entries[a].items[n] = items[i] /\ keys[i] = entries[a].key
              /\ \A i \in DOMAIN items : keys[i] = entries[a].key =>
                   \E n \in DOMAIN entries[a].items : entries[a].items[n] = items[i]
              /\ Once(items) => Once(entries[a].items)
  <2> DEFINE key == names[a]
             S == Having(key)
             picked == Picked(items, S)
  <2>1. S \in SUBSET (DOMAIN items) /\ \A i : i \in S <=> (i \in DOMAIN items /\ keys[i] = key)
    OBVIOUS
  <2>2. S # {}
    <3>1. PICK i \in firsts : key = keys[i]
      BY <1>3
    <3>2. i \in DOMAIN items
      BY <1>1
    <3> HIDE DEF key, S
    <3> QED
      BY <2>1, <3>1, <3>2
  <2>3. entries[a].key = key /\ entries[a].items = picked
    BY <1>9
  <2> HIDE DEF key, S
  <2>4. /\ picked \in Seq(T)
        /\ \A n \in DOMAIN picked : \E i \in S : picked[n] = items[i]
        /\ \A i \in S : \E n \in DOMAIN picked : picked[n] = items[i]
        /\ (\A i, j \in S : items[i] = items[j] => i = j) => Once(picked)
    BY <2>1, PickedIs
  <2>5. Once(items) => Once(picked)
    <3>1. Once(items) => \A i, j \in S : items[i] = items[j] => i = j
      BY <2>1 DEF Once
    <3> QED
      BY <2>4, <3>1
  <2> HIDE DEF picked
  <2>6. DOMAIN picked # {}
    BY <2>2, <2>4
  <2>7. \A n \in DOMAIN picked : \E i \in DOMAIN items : picked[n] = items[i] /\ keys[i] = key
    BY <2>1, <2>4
  <2>8. \A i \in DOMAIN items : keys[i] = key => \E n \in DOMAIN picked : picked[n] = items[i]
    BY <2>1, <2>4
  <2> QED
    BY <2>3, <2>4, <2>5, <2>6, <2>7, <2>8
<1>11. \A i \in DOMAIN items : \E a \in DOMAIN names : entries[a].key = keys[i]
  <2> TAKE i \in DOMAIN items
  <2>1. PICK f \in firsts : keys[f] = keys[i]
    BY <1>4
  <2>2. PICK a \in DOMAIN names : names[a] = keys[f]
    BY <1>3
  <2> QED
    BY <1>9, <2>1, <2>2
<1>12. \A a, b \in DOMAIN names : entries[a].key = entries[b].key => a = b
  BY <1>6, <1>9 DEF Once
<1>13. Grouped(entries, keys, items, T)
  BY <1>7, <1>8, <1>10, <1>11, <1>12 DEF Grouped
<1> QED
  BY <1>13 DEF entries

-----------------------------------------------------------------------------
(* Keys *)

\* What follows the last colon is as long in the one as in the other.
LEMMA NoShorter ==
  ASSUME NEW S, ":" \in S, NEW a \in Seq(S), NEW b \in Seq(S), NEW c \in Seq(S), NEW d \in Seq(S),
         a \o <<":">> \o b = c \o <<":">> \o d, \A j \in DOMAIN d : d[j] # ":"
  PROVE  ~(Len(b) < Len(d))
<1> SUFFICES ASSUME Len(b) < Len(d) PROVE FALSE
  OBVIOUS
<1> DEFINE all == a \o <<":">> \o b
           other == c \o <<":">> \o d
           i == Len(a) - Len(c)
<1>1. /\ Len(all) = Len(a) + 1 + Len(b) /\ all[Len(a) + 1] = ":"
  BY Joined
<1>2. /\ Len(other) = Len(c) + 1 + Len(d)
      /\ \A k \in 1 .. Len(d) : other[Len(c) + 1 + k] = d[k]
  BY Joined
<1>5. all = other
  OBVIOUS
<1>3. Len(a) \in Nat /\ Len(b) \in Nat /\ Len(c) \in Nat /\ Len(d) \in Nat /\ DOMAIN d = 1 .. Len(d)
  OBVIOUS
<1> HIDE DEF all, other
<1>4. i \in 1 .. Len(d) /\ Len(c) + 1 + i = Len(a) + 1
  BY <1>1, <1>2, <1>3, <1>5
<1> HIDE DEF i
<1> QED
  BY <1>1, <1>2, <1>3, <1>4, <1>5

NoColon(text) == \A j \in DOMAIN text : text[j] # ":"

Keyed(first, second) == first \o <<":">> \o second

\* The last colon parts the two, if the second has none.
LEMMA LastColonParts ==
  ASSUME NEW S, ":" \in S, NEW a \in Seq(S), NEW b \in Seq(S), NEW c \in Seq(S), NEW d \in Seq(S),
         Keyed(a, b) = Keyed(c, d), NoColon(b), NoColon(d)
  PROVE  a = c /\ b = d
<1> DEFINE all == a \o <<":">> \o b
           other == c \o <<":">> \o d
<1>1. Len(b) \in Nat /\ Len(d) \in Nat /\ Len(a) \in Nat /\ Len(c) \in Nat
  OBVIOUS
<1>2. Len(b) = Len(d)
  <2>1. ~(Len(b) < Len(d))
    BY NoShorter DEF NoColon, Keyed
  <2>2. ~(Len(d) < Len(b))
    BY NoShorter DEF NoColon, Keyed
  <2> QED
    BY <1>1, <2>1, <2>2
<1>3. /\ Len(all) = Len(a) + 1 + Len(b)
      /\ \A i \in 1 .. Len(a) : all[i] = a[i]
      /\ \A i \in 1 .. Len(b) : all[Len(a) + 1 + i] = b[i]
  BY Joined
<1>4. /\ Len(other) = Len(c) + 1 + Len(d)
      /\ \A i \in 1 .. Len(c) : other[i] = c[i]
      /\ \A i \in 1 .. Len(d) : other[Len(c) + 1 + i] = d[i]
  BY Joined
<1>8. all = other
  BY DEF Keyed
<1> HIDE DEF all, other
<1>5. Len(a) = Len(c)
  BY <1>1, <1>2, <1>3, <1>4, <1>8
<1>6. a = c
  BY <1>3, <1>4, <1>5, <1>8, SeqEqual
<1>7. b = d
  BY <1>2, <1>3, <1>4, <1>5, <1>8, SeqEqual
<1> QED
  BY <1>6, <1>7

LEMMA TextIn ==
  ASSUME NEW text, IsText(text), NEW S, ToSet(text) \subseteq S
  PROVE  text \in Seq(S)
<1>1. text \in Seq(ToSet(text))
  BY DEF IsText
<1>2. /\ Len(text) \in Nat /\ DOMAIN text = 1 .. Len(text) /\ text = [i \in 1 .. Len(text) |-> text[i]]
  BY <1>1
<1>3. \A i \in 1 .. Len(text) : text[i] \in S
  BY <1>2 DEF ToSet
<1> QED
  BY <1>2, <1>3

LEMMA TextsPart ==
  ASSUME NEW a, NEW b, NEW c, NEW d, IsText(a), IsText(b), IsText(c), IsText(d),
         Keyed(a, b) = Keyed(c, d), NoColon(b), NoColon(d)
  PROVE  a = c /\ b = d
<1>1. PICK S : /\ ToSet(a) \subseteq S /\ ToSet(b) \subseteq S /\ ToSet(c) \subseteq S
               /\ ToSet(d) \subseteq S /\ ":" \in S
  <2> WITNESS ToSet(a) \cup ToSet(b) \cup ToSet(c) \cup ToSet(d) \cup {":"}
  <2> QED
    OBVIOUS
<1>2. a \in Seq(S) /\ b \in Seq(S) /\ c \in Seq(S) /\ d \in Seq(S) /\ ":" \in S
  BY <1>1, TextIn
<1> QED
  BY <1>2, LastColonParts, Zenon

\* The spans that the assumptions speak of.
SpanOK(span) ==
  /\ IsText(span.tenant) /\ IsText(span.agent)
  /\ \A j \in DOMAIN span.tenant : span.tenant[j] # ":"
  /\ IsText(span.scope.name) /\ IsText(span.scope.version)
  /\ span.scope = [name |-> span.scope.name, version |-> span.scope.version]
  /\ \A j \in DOMAIN span.scope.version : span.scope.version[j] # ":"
  /\ estimateSpanBytes(truncateSpan(mapSpan(span))) \in Nat

ScopeKey(span) == span.scope.name \o <<":">> \o span.scope.version

\* A scope is known by its key.
LEMMA ScopeIsKept ==
  ASSUME NEW x, NEW y, SpanOK(x), SpanOK(y), ScopeKey(x) = ScopeKey(y)
  PROVE  x.scope = y.scope
<1> DEFINE a == x.scope.name
           b == x.scope.version
           c == y.scope.name
           d == y.scope.version
<1>1. IsText(a) /\ IsText(b) /\ IsText(c) /\ IsText(d)
  BY DEF SpanOK
<1>2. NoColon(b) /\ NoColon(d)
  BY DEF SpanOK, NoColon
<1>3. Keyed(a, b) = Keyed(c, d)
  BY DEF ScopeKey, Keyed
<1>4. x.scope = [name |-> a, version |-> b] /\ y.scope = [name |-> c, version |-> d]
  BY DEF SpanOK
<1> HIDE DEF a, b, c, d
<1>5. a = c /\ b = d
  BY <1>1, <1>2, <1>3, TextsPart, Zenon
<1> QED
  BY <1>4, <1>5

\* A span's identity is known by its key.
LEMMA IdentityIsRight ==
  ASSUME NEW span, SpanOK(span)
  PROVE  parseIdentityKey(IdentityKey(span))
           = [tenantId |-> span.tenant, agentId |-> span.agent]
<1> DEFINE S == ToSet(span.tenant) \cup ToSet(span.agent) \cup {":"}
<1>1. IsText(span.tenant) /\ IsText(span.agent) /\ \A j \in DOMAIN span.tenant : span.tenant[j] # ":"
  BY DEF SpanOK
<1>2. ToSet(span.tenant) \subseteq S /\ ToSet(span.agent) \subseteq S /\ ":" \in S
  OBVIOUS
<1> HIDE DEF S
<1>3. span.tenant \in Seq(S) /\ span.agent \in Seq(S)
  BY <1>1, <1>2, TextIn
<1> QED
  BY <1>1, <1>2, <1>3, IdentityIsKept

-----------------------------------------------------------------------------
(* Envelopes *)

\* Truncation replaces attributes: the span is still the same.
LEMMA TruncatedIsSame ==
  ASSUME NEW span
  PROVE  /\ With(mapSpan(span), truncateSpan) = truncateSpan(mapSpan(span))
         /\ truncateSpan(mapSpan(span)).id = span.id
<1> DEFINE was == mapSpan(span)
<1>1. With(was, truncateSpan) = truncateSpan(was)
  BY DEF With
<1>2. truncateSpan(was) = was \/ \E attributes : truncateSpan(was) = [was EXCEPT !.attributes = attributes]
  BY DEF truncateSpan
<1>3. was.id = span.id /\ DOMAIN was = {"id", "parent", "nameBytes", "attributes", "events"}
  BY DEF mapSpan
<1> HIDE DEF was
<1>4. \A attributes : [was EXCEPT !.attributes = attributes].id = span.id
  BY <1>3
<1> QED
  BY <1>1, <1>2, <1>3, <1>4 DEF was

\* A mapped span, as its envelope has it.
Sent(m, identity) == [id |-> m.span.id, scope |-> m.scope, identity |-> identity]

\* An envelope has the spans of its chunk and no other, each in its scope, if the scopes
\* are known by their keys.
LEMMA EnvelopeIs ==
  ASSUME NEW M, NEW chunk \in Seq(M), NEW resource, NEW request,
         request.body = buildEnvelope(chunk, resource),
         \A i, j \in DOMAIN chunk :
           chunk[i].scopeKey = chunk[j].scopeKey => chunk[i].scope = chunk[j].scope
  PROVE  SpansIn(request) = {Sent(chunk[k], request.identity) : k \in DOMAIN chunk}
<1> DEFINE keys == [k \in DOMAIN chunk |-> chunk[k].scopeKey]
           K == {chunk[k].scopeKey : k \in DOMAIN chunk}
           entries == GroupedBy(keys, chunk)
           scopeSpans == request.body.scopeSpans
           identity == request.identity
           spans(a) == [n \in DOMAIN entries[a].items |-> entries[a].items[n].span]
<1>1. keys \in Seq(K) /\ Len(keys) = Len(chunk) /\ \A k \in DOMAIN chunk : keys[k] = chunk[k].scopeKey
  <2>1. Len(chunk) \in Nat /\ DOMAIN chunk = 1 .. Len(chunk)
    OBVIOUS
  <2>2. keys = [k \in 1 .. Len(chunk) |-> chunk[k].scopeKey]
    BY <2>1
  <2> QED
    BY <2>1, <2>2
<1>2. scopeSpans = [a \in DOMAIN entries |-> [scope |-> entries[a].items[1].scope,
                                             spans |-> spans(a)]]
  <2>1. Mapped(LAMBDA m : m.scopeKey, chunk) = keys
    BY DEF Mapped
  <2> DEFINE built == Mapped(LAMBDA entry : [scope |-> entry.items[1].scope,
                                             spans |-> Mapped(LAMBDA m : m.span, entry.items)],
                             entries)
  <2>2. buildEnvelope(chunk, resource).scopeSpans = built
    BY <2>1 DEF buildEnvelope
  <2>3. built = [a \in DOMAIN entries |-> [scope |-> entries[a].items[1].scope,
                                          spans |-> spans(a)]]
    <3> HIDE DEF entries
    <3> QED
      BY DEF Mapped
  <2> HIDE DEF built
  <2> QED
    BY <2>2, <2>3
<1>3. Grouped(entries, keys, chunk, M)
  <2> HIDE DEF keys, K
  <2> QED
    BY <1>1, GroupedByIs
<1> HIDE DEF keys, K, entries, scopeSpans, identity
<1>4. ASSUME NEW a \in DOMAIN entries
      PROVE  /\ 1 \in DOMAIN entries[a].items
             /\ \A n \in DOMAIN entries[a].items : \E k \in DOMAIN chunk :
                  entries[a].items[n] = chunk[k] /\ chunk[k].scopeKey = entries[a].key
             /\ \A k \in DOMAIN chunk : chunk[k].scopeKey = entries[a].key =>
                  \E n \in DOMAIN entries[a].items : entries[a].items[n] = chunk[k]
  <2>1. entries[a].items \in Seq(M) /\ DOMAIN entries[a].items # {}
    BY <1>3 DEF Grouped
  <2>2. 1 \in DOMAIN entries[a].items
    <3> DEFINE s == entries[a].items
    <3>1. s \in Seq(M) /\ DOMAIN s # {}
      BY <2>1
    <3> HIDE DEF s
    <3>2. 1 \in DOMAIN s
      BY <3>1
    <3> QED
      BY <3>2 DEF s
  <2> DEFINE s == entries[a].items
             key == entries[a].key
  <2>3. /\ \A n \in DOMAIN s : \E k \in DOMAIN chunk : s[n] = chunk[k] /\ keys[k] = key
        /\ \A k \in DOMAIN chunk : keys[k] = key => \E n \in DOMAIN s : s[n] = chunk[k]
    BY <1>3 DEF Grouped
  <2> HIDE DEF s, key
  <2>4. /\ \A n \in DOMAIN s : \E k \in DOMAIN chunk : s[n] = chunk[k] /\ chunk[k].scopeKey = key
        /\ \A k \in DOMAIN chunk : chunk[k].scopeKey = key => \E n \in DOMAIN s : s[n] = chunk[k]
    BY <1>1, <2>3
  <2> QED
    BY <2>2, <2>4 DEF s, key
<1>5. SpansIn(request) = UNION {{[id |-> span.id, scope |-> entry.scope, identity |-> identity] :
                                  span \in ToSet(entry.spans)} : entry \in ToSet(scopeSpans)}
  BY DEF SpansIn, identity, scopeSpans
<1>6. ASSUME NEW x \in SpansIn(request)
      PROVE  \E k \in DOMAIN chunk : x = Sent(chunk[k], identity)
  <2>7. PICK entry \in ToSet(scopeSpans) : \E span \in ToSet(entry.spans) :
          x = [id |-> span.id, scope |-> entry.scope, identity |-> identity]
    BY <1>5
  <2>1. PICK span \in ToSet(entry.spans) :
          x = [id |-> span.id, scope |-> entry.scope, identity |-> identity]
    BY <2>7
  <2>2. PICK a \in DOMAIN entries : entry = [scope |-> entries[a].items[1].scope, spans |-> spans(a)]
    BY <1>2, <2>7 DEF ToSet
  <2>3. PICK n \in DOMAIN entries[a].items : span = entries[a].items[n].span
    <3>1. entry.spans = spans(a)
      BY <2>2
    <3> QED
      BY <2>1, <3>1 DEF ToSet
  <2>4. PICK k \in DOMAIN chunk : entries[a].items[n] = chunk[k] /\ chunk[k].scopeKey = entries[a].key
    BY <1>4
  <2>5. PICK f \in DOMAIN chunk : entries[a].items[1] = chunk[f] /\ chunk[f].scopeKey = entries[a].key
    BY <1>4
  <2>6. entry.scope = chunk[k].scope
    BY <2>2, <2>4, <2>5
  <2> QED
    BY <2>1, <2>3, <2>4, <2>6 DEF Sent
<1>7. ASSUME NEW k \in DOMAIN chunk
      PROVE  Sent(chunk[k], identity) \in SpansIn(request)
  <2>1. PICK a \in DOMAIN entries : entries[a].key = chunk[k].scopeKey
    BY <1>1, <1>3 DEF Grouped
  <2>2. PICK n \in DOMAIN entries[a].items : entries[a].items[n] = chunk[k]
    BY <1>4, <2>1
  <2>3. PICK f \in DOMAIN chunk : entries[a].items[1] = chunk[f] /\ chunk[f].scopeKey = entries[a].key
    BY <1>4
  <2> DEFINE entry == [scope |-> entries[a].items[1].scope, spans |-> spans(a)]
  <2>4. entry \in ToSet(scopeSpans)
    BY <1>2 DEF ToSet
  <2>5. entry.scope = chunk[k].scope
    BY <2>1, <2>3
  <2>6. chunk[k].span \in ToSet(entry.spans)
    <3>1. entry.spans = spans(a)
      OBVIOUS
    <3>2. chunk[k].span = spans(a)[n] /\ n \in DOMAIN spans(a)
      BY <2>2
    <3> HIDE DEF spans, entry
    <3> QED
      BY <3>1, <3>2 DEF ToSet
  <2> HIDE DEF entry
  <2> QED
    BY <1>5, <2>4, <2>5, <2>6 DEF Sent
<1> QED
  BY <1>6, <1>7 DEF identity

-----------------------------------------------------------------------------
(* Chunks *)

\* Places at which a sequence of N is cut into n parts, none empty.
Cuts(cut, n, N) ==
  /\ cut \in [0 .. n -> 0 .. N] /\ cut[0] = 0 /\ cut[n] = N
  /\ \A c \in 1 .. n : cut[c - 1] < cut[c]

LEMMA CutsRise ==
  ASSUME NEW n \in Nat, NEW N \in Nat, NEW cut, Cuts(cut, n, N), NEW c \in 0 .. n
  PROVE  \A d \in 0 .. n : c <= d => cut[c] <= cut[d]
<1> DEFINE held == {d \in 0 .. n : c <= d => cut[c] <= cut[d]}
<1>1. \A d \in 0 .. n : cut[d] \in Nat
  BY DEF Cuts
<1>2. 0 \in held
  BY <1>1
<1>3. ASSUME NEW d \in 1 .. n, d - 1 \in held PROVE d \in held
  <2>1. cut[d - 1] < cut[d]
    BY DEF Cuts
  <2>2. cut[c] \in Nat /\ cut[d] \in Nat /\ cut[d - 1] \in Nat
    BY <1>1
  <2>3. CASE c <= d - 1
    BY <1>3, <2>1, <2>2, <2>3
  <2>4. CASE c = d
    BY <2>2, <2>4
  <2>5. CASE ~(c <= d)
    BY <2>5
  <2> QED
    BY <2>3, <2>4, <2>5
<1>4. \A d \in 0 .. n : d \in held
  <2> HIDE DEF held
  <2> QED
    BY <1>2, <1>3, Upwards
<1> QED
  BY <1>4

\* Every item is in one part.
LEMMA OnePart ==
  ASSUME NEW n \in Nat, NEW N \in Nat, NEW cut, Cuts(cut, n, N), NEW k \in 1 .. N
  PROVE  /\ \E c \in 1 .. n : cut[c - 1] < k /\ k <= cut[c]
         /\ \A c, d \in 1 .. n :
              (cut[c - 1] < k /\ k <= cut[c] /\ cut[d - 1] < k /\ k <= cut[d]) => c = d
<1>1. \A d \in 0 .. n : cut[d] \in Nat
  BY DEF Cuts
<1>2. \E c \in 1 .. n : cut[c - 1] < k /\ k <= cut[c]
  <2> DEFINE reach == {c \in 0 .. n : k <= cut[c]}
  <2>1. n \in reach
    BY DEF Cuts
  <2>2. reach \in SUBSET Nat
    OBVIOUS
  <2>3. PICK c \in reach : \A d \in reach : c <= d
    <3> HIDE DEF reach
    <3> QED
      BY <2>1, <2>2, LeastExists
  <2>4. c # 0
    BY DEF Cuts
  <2>5. c \in 1 .. n /\ c - 1 \in 0 .. n /\ c - 1 \notin reach
    BY <2>3, <2>4
  <2>6. ~(k <= cut[c - 1]) /\ k <= cut[c] /\ cut[c - 1] \in Nat
    BY <1>1, <2>5
  <2> QED
    BY <2>5, <2>6
<1>3. ASSUME NEW c \in 1 .. n, NEW d \in 1 .. n, c < d, k <= cut[c], cut[d - 1] < k PROVE FALSE
  <2>1. c \in 0 .. n /\ d - 1 \in 0 .. n /\ c <= d - 1
    BY <1>3
  <2>2. cut[c] <= cut[d - 1]
    BY <2>1, CutsRise
  <2> QED
    BY <1>1, <1>3, <2>1, <2>2
<1>4. ASSUME NEW c \in 1 .. n, NEW d \in 1 .. n,
             cut[c - 1] < k /\ k <= cut[c] /\ cut[d - 1] < k /\ k <= cut[d]
      PROVE  c = d
  BY <1>3, <1>4
<1> QED
  BY <1>2, <1>4

-----------------------------------------------------------------------------
(* The requests of a group *)

SizesIn(mapped) == [m \in ToSet(mapped) |-> estimateSpanBytes(m.span)]

ChunksOf(mapped, max) == chunkBySize(mapped, SizesIn(mapped), max)

RequestOf(key, spans, chunk) ==
  [identity |-> parseIdentityKey(key), user |-> getAgenticUserId(spans), chunk |-> chunk,
   body |-> buildEnvelope(chunk, getResourceAttributes(spans))]

LEMMA RequestsAre ==
  ASSUME NEW key, NEW spans, NEW max
  PROVE  exportGroup(key, spans, max) =
           [c \in DOMAIN ChunksOf(mapAndTruncateSpans(spans), max) |->
              RequestOf(key, spans, ChunksOf(mapAndTruncateSpans(spans), max)[c])]
<1> DEFINE Of(chunk) == RequestOf(key, spans, chunk)
           Chunked(mapped) == ChunksOf(mapped, max)
           All(chunks) == [c \in DOMAIN chunks |-> With(chunks[c], Of)]
           mapped == mapAndTruncateSpans(spans)
<1>1. exportGroup(key, spans, max) = With(With(mapped, Chunked), All)
  BY DEF exportGroup, RequestOf, ChunksOf, SizesIn
<1>2. With(mapped, Chunked) = Chunked(mapped)
  BY DEF With
<1>3. With(Chunked(mapped), All) = All(Chunked(mapped))
  BY DEF With
<1>4. \A chunk : With(chunk, Of) = Of(chunk)
  BY DEF With
<1>5. All(Chunked(mapped)) = [c \in DOMAIN Chunked(mapped) |-> Of(Chunked(mapped)[c])]
  BY <1>4
<1> QED
  BY <1>1, <1>2, <1>3, <1>5

\* What is sent of a span.
SentOf(span) ==
  [id |-> span.id, scope |-> span.scope,
   identity |-> [tenantId |-> span.tenant, agentId |-> span.agent]]

\* The chunks of a group are what is sent of its spans, cut at the places.
CutOf(cut, contents, items) ==
  /\ Len(contents) \in Nat /\ DOMAIN contents = 1 .. Len(contents)
  /\ Cuts(cut, Len(contents), Len(items))
  /\ \A c \in 1 .. Len(contents) :
       contents[c] = {SentOf(items[k]) : k \in cut[c - 1] + 1 .. cut[c]}

\* A span as it is mapped.
MappedOf(span) ==
  [span |-> truncateSpan(mapSpan(span)), scopeKey |-> ScopeKey(span), scope |-> span.scope]

LEMMA MappedAre ==
  ASSUME NEW T, NEW items \in Seq(T)
  PROVE  /\ DOMAIN mapAndTruncateSpans(items) = 1 .. Len(items)
         /\ Len(mapAndTruncateSpans(items)) = Len(items)
         /\ mapAndTruncateSpans(items) \in Seq(ToSet(mapAndTruncateSpans(items)))
         /\ \A k \in 1 .. Len(items) : mapAndTruncateSpans(items)[k] = MappedOf(items[k])
<1> DEFINE mapped == mapAndTruncateSpans(items)
           N == Len(items)
<1>1. N \in Nat /\ DOMAIN items = 1 .. N
  OBVIOUS
<1>2. \A span : With(mapSpan(span), truncateSpan) = truncateSpan(mapSpan(span))
  BY TruncatedIsSame
<1>3. mapped = [k \in 1 .. N |-> MappedOf(items[k])]
  BY <1>1, <1>2 DEF mapAndTruncateSpans, Mapped, MappedOf, ScopeKey
<1> HIDE DEF mapped, N
<1>4. DOMAIN mapped = 1 .. N /\ Len(mapped) = N /\ \A k \in 1 .. N : mapped[k] = MappedOf(items[k])
  BY <1>1, <1>3
<1>5. mapped \in Seq(ToSet(mapped))
  <2>1. \A k \in 1 .. N : mapped[k] \in ToSet(mapped)
    BY <1>4 DEF ToSet
  <2>2. mapped = [k \in 1 .. N |-> mapped[k]]
    BY <1>3, <1>4
  <2> QED
    BY <1>1, <2>1, <2>2
<1> QED
  BY <1>4, <1>5 DEF mapped, N

\* The requests of a group: the mapped spans cut at the places, within the limit or a span alone.
GroupCut(cut, requests, key, items, max) ==
  LET mapped == mapAndTruncateSpans(items)
  IN  /\ Len(requests) \in Nat /\ DOMAIN requests = 1 .. Len(requests)
      /\ Cuts(cut, Len(requests), Len(items))
      /\ \A c \in 1 .. Len(requests) :
           LET chunk == SubSeq(mapped, cut[c - 1] + 1, cut[c])
           IN  /\ requests[c] = RequestOf(key, items, chunk)
               /\ Len(chunk) = 1 \/ Bytes(SizesIn(mapped), chunk) <= max

LEMMA GroupIsCut ==
  ASSUME NEW T, NEW items \in Seq(T), NEW key, NEW max \in Nat,
         \A k \in DOMAIN items : SpanOK(items[k])
  PROVE  \E cut : GroupCut(cut, exportGroup(key, items, max), key, items, max)
<1> DEFINE mapped == mapAndTruncateSpans(items)
           M == ToSet(mapped)
           size == SizesIn(mapped)
           chunks == ChunksOf(mapped, max)
           requests == exportGroup(key, items, max)
           N == Len(items)
<1>1. N \in Nat /\ DOMAIN items = 1 .. N
  OBVIOUS
<1>2. /\ DOMAIN mapped = 1 .. N /\ Len(mapped) = N /\ mapped \in Seq(M)
      /\ \A k \in 1 .. N : mapped[k] = MappedOf(items[k])
  BY MappedAre
<1>3. requests = [c \in DOMAIN chunks |-> RequestOf(key, items, chunks[c])]
  BY RequestsAre
<1> HIDE DEF mapped, chunks, requests, N
<1>4. size \in [M -> Nat]
  <2>1. ASSUME NEW m \in M PROVE estimateSpanBytes(m.span) \in Nat
    <3>1. PICK k \in 1 .. N : m = MappedOf(items[k])
      BY <1>2 DEF ToSet
    <3>2. m.span = truncateSpan(mapSpan(items[k]))
      BY <3>1 DEF MappedOf
    <3> QED
      BY <1>1, <3>2 DEF SpanOK
  <2> QED
    BY <2>1 DEF SizesIn
<1> HIDE DEF size, M
<1>5. chunks \in Seq(Seq(M)) /\ \E cut : Fits(cut, chunks, mapped, size, max)
  <2>1. chunks = chunkBySize(mapped, size, max)
    BY DEF chunks, size, ChunksOf
  <2> QED
    BY <1>2, <1>4, <2>1, ChunksFit
<1>6. PICK cut : Fits(cut, chunks, mapped, size, max)
  BY <1>5
<1> DEFINE C == Len(chunks)
<1>7. C \in Nat /\ DOMAIN chunks = 1 .. C
  <2> DEFINE S == Seq(M)
  <2>1. chunks \in Seq(S)
    BY <1>5
  <2> HIDE DEF S
  <2> QED
    BY <2>1
<1> HIDE DEF C
<1>8. /\ cut \in [0 .. C -> 0 .. N] /\ cut[0] = 0 /\ cut[C] = N
      /\ \A c \in 1 .. C : /\ cut[c - 1] < cut[c]
                           /\ chunks[c] = SubSeq(mapped, cut[c - 1] + 1, cut[c])
                           /\ Len(chunks[c]) = 1 \/ Bytes(size, chunks[c]) <= max
  BY <1>2, <1>6, <1>7 DEF Fits, C
<1>9. Len(requests) = C /\ DOMAIN requests = 1 .. C
      /\ \A c \in 1 .. C : requests[c] = RequestOf(key, items, chunks[c])
  <2>1. requests = [c \in 1 .. C |-> RequestOf(key, items, chunks[c])]
    BY <1>3, <1>7
  <2> QED
    BY <1>7, <2>1
<1>10. Cuts(cut, C, N)
  BY <1>8 DEF Cuts
<1>11. ASSUME NEW c \in 1 .. C
       PROVE  LET chunk == SubSeq(mapped, cut[c - 1] + 1, cut[c])
              IN  /\ requests[c] = RequestOf(key, items, chunk)
                  /\ Len(chunk) = 1 \/ Bytes(size, chunk) <= max
  <2>1. PICK chunk : chunk = SubSeq(mapped, cut[c - 1] + 1, cut[c])
    OBVIOUS
  <2>2. /\ requests[c] = RequestOf(key, items, chunk)
        /\ Len(chunk) = 1 \/ Bytes(size, chunk) <= max
    BY <1>8, <1>9, <2>1
  <2> QED
    BY <2>1, <2>2
<1>12. GroupCut(cut, requests, key, items, max)
  BY <1>7, <1>9, <1>10, <1>11 DEF GroupCut, mapped, size, N
<1> QED
  BY <1>12 DEF requests

\* The requests of spans of one identity.
LEMMA GroupIsSent ==
  ASSUME NEW T, NEW items \in Seq(T), NEW key, NEW max \in Nat,
         \A k \in DOMAIN items : SpanOK(items[k]) /\ IdentityKey(items[k]) = key
  PROVE  LET requests == exportGroup(key, items, max)
         IN  /\ Len(requests) \in Nat /\ DOMAIN requests = 1 .. Len(requests)
             /\ \E cut : CutOf(cut, [c \in DOMAIN requests |-> SpansIn(requests[c])], items)
<1> DEFINE mapped == mapAndTruncateSpans(items)
           M == ToSet(mapped)
           requests == exportGroup(key, items, max)
           identity == parseIdentityKey(key)
           N == Len(items)
           C == Len(requests)
<1>1. N \in Nat /\ DOMAIN items = 1 .. N
  OBVIOUS
<1>2. /\ DOMAIN mapped = 1 .. N /\ Len(mapped) = N /\ mapped \in Seq(M)
      /\ \A k \in 1 .. N : mapped[k] = MappedOf(items[k])
  BY MappedAre
<1>3. PICK cut : GroupCut(cut, requests, key, items, max)
  BY GroupIsCut
<1> HIDE DEF requests, identity
<1>4. C \in Nat /\ DOMAIN requests = 1 .. C /\ Cuts(cut, C, N)
  BY <1>3, Zenon DEF GroupCut
<1>5. \A c \in 1 .. C :
        requests[c] = RequestOf(key, items, SubSeq(mapped, cut[c - 1] + 1, cut[c]))
  BY <1>3, Zenon DEF GroupCut
<1> HIDE DEF mapped, M, N, C
<1>6. /\ cut \in [0 .. C -> 0 .. N] /\ cut[0] = 0 /\ cut[C] = N
      /\ \A c \in 1 .. C : cut[c - 1] < cut[c]
  BY <1>4 DEF Cuts
<1>7. ASSUME NEW c \in 1 .. C
      PROVE  SpansIn(requests[c]) = {SentOf(items[k]) : k \in cut[c - 1] + 1 .. cut[c]}
  <2>1. PICK m, n : m = cut[c - 1] /\ n = cut[c]
    OBVIOUS
  <2>2. m \in 0 .. N /\ n \in 0 .. N /\ m < n
    <3>1. c - 1 \in 0 .. C /\ c \in 0 .. C
      BY <1>4
    <3> QED
      BY <1>6, <2>1, <3>1
  <2>3. PICK chunk : chunk = SubSeq(mapped, cut[c - 1] + 1, cut[c])
    OBVIOUS
  <2>4. chunk = SubSeq(mapped, m + 1, n)
    BY <2>1, <2>3
  <2>5. /\ chunk \in Seq(M) /\ Len(chunk) = n - m /\ DOMAIN chunk = 1 .. n - m
        /\ \A i \in 1 .. n - m : m + i \in 1 .. N /\ chunk[i] = MappedOf(items[m + i])
    <3>1. n \in 0 .. Len(mapped) /\ m \in 0 .. n /\ mapped \in Seq(M)
      BY <1>1, <1>2, <2>2
    <3>2. /\ chunk \in Seq(M) /\ Len(chunk) = n - m
          /\ \A i \in 1 .. n - m : chunk[i] = mapped[m + i]
      BY ONLY <2>4, <3>1, SliceOf
    <3>3. \A i \in 1 .. n - m : m + i \in 1 .. N
      BY <1>1, <2>2
    <3>4. DOMAIN chunk = 1 .. n - m
      BY <3>2
    <3> QED
      BY <1>2, <3>2, <3>3, <3>4
  <2>6. \A i, j \in DOMAIN chunk :
          chunk[i].scopeKey = chunk[j].scopeKey => chunk[i].scope = chunk[j].scope
    <3> SUFFICES ASSUME NEW i \in 1 .. n - m, NEW j \in 1 .. n - m,
                        chunk[i].scopeKey = chunk[j].scopeKey
                 PROVE  chunk[i].scope = chunk[j].scope
      BY <2>5
    <3>1. PICK x, y : x = items[m + i] /\ y = items[m + j]
      OBVIOUS
    <3>2. SpanOK(x) /\ SpanOK(y)
      BY <1>1, <2>5, <3>1
    <3>3. /\ chunk[i].scopeKey = ScopeKey(x) /\ chunk[i].scope = x.scope
          /\ chunk[j].scopeKey = ScopeKey(y) /\ chunk[j].scope = y.scope
      BY <2>5, <3>1 DEF MappedOf
    <3>4. ScopeKey(x) = ScopeKey(y)
      BY <3>3
    <3>5. x.scope = y.scope
      BY <3>2, <3>4, ScopeIsKept
    <3> QED
      BY <3>3, <3>5
  <2>7. PICK request : request = requests[c]
    OBVIOUS
  <2>8. /\ request.body = buildEnvelope(chunk, getResourceAttributes(items))
        /\ request.identity = identity
    <3>1. request = RequestOf(key, items, chunk)
      BY <1>5, <2>3, <2>7
    <3> QED
      BY <3>1 DEF RequestOf, identity
  <2>9. SpansIn(request) = {Sent(chunk[i], request.identity) : i \in DOMAIN chunk}
    <3>1. PICK resource : request.body = buildEnvelope(chunk, resource)
      BY <2>8
    <3>2. chunk \in Seq(M)
      BY <2>5
    <3> QED
      BY ONLY <2>6, <3>1, <3>2, EnvelopeIs
  <2>10. ASSUME NEW i \in 1 .. n - m PROVE Sent(chunk[i], request.identity) = SentOf(items[m + i])
    <3>1. PICK span : span = items[m + i]
      OBVIOUS
    <3>2. SpanOK(span) /\ IdentityKey(span) = key
      BY <1>1, <2>5, <3>1
    <3>3. identity = [tenantId |-> span.tenant, agentId |-> span.agent]
      BY <3>2, IdentityIsRight DEF identity
    <3>5. chunk[i] = MappedOf(span)
      BY <2>5, <3>1
    <3>6. MappedOf(span).scope = span.scope /\ MappedOf(span).span.id = span.id
      BY TruncatedIsSame DEF MappedOf
    <3>4. chunk[i].scope = span.scope /\ chunk[i].span.id = span.id
      BY <3>5, <3>6
    <3> QED
      BY <2>8, <3>1, <3>3, <3>4 DEF Sent, SentOf
  <2>11. \A k : k \in m + 1 .. n <=> \E i \in 1 .. n - m : k = m + i
    <3>1. \A k \in m + 1 .. n : k - m \in 1 .. n - m /\ k = m + (k - m)
      BY <2>2
    <3>2. \A i \in 1 .. n - m : m + i \in m + 1 .. n
      BY <2>2
    <3> QED
      BY <3>1, <3>2
  <2>12. {Sent(chunk[i], request.identity) : i \in DOMAIN chunk} = {SentOf(items[k]) : k \in m + 1 .. n}
    <3> DEFINE A == {Sent(chunk[i], request.identity) : i \in 1 .. n - m}
               B == {SentOf(items[k]) : k \in m + 1 .. n}
    <3>1. ASSUME NEW x \in A PROVE x \in B
      <4>1. PICK i \in 1 .. n - m : x = Sent(chunk[i], request.identity)
        OBVIOUS
      <4>2. x = SentOf(items[m + i]) /\ m + i \in m + 1 .. n
        BY <2>10, <2>11, <4>1
      <4> QED
        BY <4>2
    <3>2. ASSUME NEW x \in B PROVE x \in A
      <4>1. PICK k \in m + 1 .. n : x = SentOf(items[k])
        OBVIOUS
      <4>2. PICK i \in 1 .. n - m : k = m + i
        BY <2>11
      <4>3. x = Sent(chunk[i], request.identity)
        BY <2>10, <4>1, <4>2
      <4> QED
        BY <4>3
    <3>3. A = B
      <4> HIDE DEF A, B
      <4> QED
        BY <3>1, <3>2
    <3> QED
      BY <2>5, <3>3
  <2> QED
    BY <2>1, <2>7, <2>9, <2>12
<1> DEFINE contents == [c \in DOMAIN requests |-> SpansIn(requests[c])]
<1>8. Len(contents) = C /\ DOMAIN contents = 1 .. C
       /\ \A c \in 1 .. C : contents[c] = {SentOf(items[k]) : k \in cut[c - 1] + 1 .. cut[c]}
  <2>1. contents = [c \in 1 .. C |-> SpansIn(requests[c])]
    BY <1>4
  <2> QED
    BY <1>4, <1>7, <2>1
<1> HIDE DEF contents
<1>9. CutOf(cut, contents, items)
  BY <1>4, <1>8 DEF CutOf, N
<1> QED
  BY <1>4, <1>9 DEF contents, requests, C

-----------------------------------------------------------------------------
(* What is sent of a batch *)

\* The batch of an export: spans of its own, each once.
LEMMA BatchIs ==
  ASSUME NEW e \in Exports
  PROVE  /\ Batch[e] \in Seq(ToSet(Batch[e]))
         /\ \A i, j \in DOMAIN Batch[e] : Batch[e][i].id = Batch[e][j].id => i = j
         /\ \A i \in DOMAIN Batch[e] : SpanOK(Batch[e][i])
<1>1. /\ Batch[e] \in Seq(ToSet(Batch[e]))
      /\ \A i, j \in DOMAIN Batch[e] : Batch[e][i].id = Batch[e][j].id => i = j
  BY SpansAssumption DEF SpansAssumption
<1>2. ASSUME NEW i \in DOMAIN Batch[e] PROVE SpanOK(Batch[e][i])
  <2>1. PICK span : span = Batch[e][i]
    OBVIOUS
  <2>2. span \in ToSet(Batch[e])
    BY <2>1 DEF ToSet
  <2>3. \A j \in DOMAIN span.tenant : span.tenant[j] # ":"
    BY <2>1, TenantAssumption DEF TenantAssumption
  <2>4. /\ IsText(span.tenant) /\ IsText(span.agent)
        /\ IsText(span.scope.name) /\ IsText(span.scope.version)
        /\ span.scope = [name |-> span.scope.name, version |-> span.scope.version]
        /\ \A j \in DOMAIN span.scope.version : span.scope.version[j] # ":"
        /\ estimateSpanBytes(truncateSpan(mapSpan(span))) \in Nat
    BY <2>2, SpansAssumption DEF SpansAssumption
  <2> QED
    BY <2>1, <2>3, <2>4 DEF SpanOK
<1> QED
  BY <1>1, <1>2

\* The partition of a batch: every eligible span is in one group, once.
LEMMA PartitionIs ==
  ASSUME NEW e \in Exports
  PROVE  /\ \A a \in DOMAIN Entries[e] :
              /\ Entries[e][a].items \in Seq(ToSet(Batch[e])) /\ Once(Entries[e][a].items)
              /\ \A n \in DOMAIN Entries[e][a].items :
                   /\ Eligible(Entries[e][a].items[n])
                   /\ IdentityKey(Entries[e][a].items[n]) = Entries[e][a].key
                   /\ \E i \in DOMAIN Batch[e] : Entries[e][a].items[n] = Batch[e][i]
         /\ \A i \in DOMAIN Batch[e] : Eligible(Batch[e][i]) =>
              \E a \in DOMAIN Entries[e] :
                /\ Entries[e][a].key = IdentityKey(Batch[e][i])
                /\ \E n \in DOMAIN Entries[e][a].items : Entries[e][a].items[n] = Batch[e][i]
         /\ \A a, b \in DOMAIN Entries[e] : Entries[e][a].key = Entries[e][b].key => a = b
<1>1. PICK spans : spans = Batch[e]
  OBVIOUS
<1> DEFINE T == ToSet(spans)
           S == {i \in DOMAIN spans : Eligible(spans[i])}
           eligible == Picked(spans, S)
           keys == Mapped(IdentityKey, eligible)
           K == {IdentityKey(eligible[n]) : n \in DOMAIN eligible}
<1>2. spans \in Seq(T) /\ \A i, j \in DOMAIN spans : spans[i].id = spans[j].id => i = j
  BY <1>1, BatchIs
<1>3. Once(spans)
  BY <1>2 DEF Once
<1>4. S \in SUBSET (DOMAIN spans) /\ \A i : i \in S <=> i \in DOMAIN spans /\ Eligible(spans[i])
  OBVIOUS
<1>5. PICK entries : entries = Entries[e]
  OBVIOUS
<1>6. entries = GroupedBy(keys, eligible)
  BY <1>1, <1>5 DEF Entries, partitionByIdentity
<1>7. keys = [n \in DOMAIN eligible |-> IdentityKey(eligible[n])]
  BY DEF Mapped
<1> HIDE DEF T, S, eligible, keys, K
<1>8. /\ eligible \in Seq(T)
      /\ \A n \in DOMAIN eligible : \E i \in S : eligible[n] = spans[i]
      /\ \A i \in S : \E n \in DOMAIN eligible : eligible[n] = spans[i]
      /\ Once(eligible)
  <2>1. \A i, j \in S : spans[i] = spans[j] => i = j
    BY <1>3, <1>4 DEF Once
  <2> QED
    BY <1>2, <1>4, <2>1, PickedIs DEF eligible
<1>9. keys \in Seq(K) /\ Len(keys) = Len(eligible)
      /\ DOMAIN keys = DOMAIN eligible /\ \A n \in DOMAIN eligible : keys[n] = IdentityKey(eligible[n])
  <2>1. Len(eligible) \in Nat /\ DOMAIN eligible = 1 .. Len(eligible)
    BY <1>8
  <2>2. keys = [n \in 1 .. Len(eligible) |-> IdentityKey(eligible[n])]
    BY <1>7, <2>1
  <2>3. \A n \in 1 .. Len(eligible) : IdentityKey(eligible[n]) \in K
    BY <2>1 DEF K
  <2> QED
    BY <2>1, <2>2, <2>3
<1>10. Grouped(entries, keys, eligible, T)
  BY <1>6, <1>8, <1>9, GroupedByIs
<1>11. ASSUME NEW a \in DOMAIN entries
       PROVE  /\ entries[a].items \in Seq(T) /\ Once(entries[a].items)
              /\ \A n \in DOMAIN entries[a].items :
                   /\ Eligible(entries[a].items[n])
                   /\ IdentityKey(entries[a].items[n]) = entries[a].key
                   /\ \E i \in DOMAIN spans : entries[a].items[n] = spans[i]
  <2>1. /\ entries[a].items \in Seq(T) /\ Once(entries[a].items)
        /\ \A n \in DOMAIN entries[a].items : \E k \in DOMAIN eligible :
             entries[a].items[n] = eligible[k] /\ keys[k] = entries[a].key
    BY <1>8, <1>10 DEF Grouped
  <2>2. ASSUME NEW n \in DOMAIN entries[a].items
        PROVE  /\ Eligible(entries[a].items[n])
               /\ IdentityKey(entries[a].items[n]) = entries[a].key
               /\ \E i \in DOMAIN spans : entries[a].items[n] = spans[i]
    <3>1. PICK k \in DOMAIN eligible : entries[a].items[n] = eligible[k] /\ keys[k] = entries[a].key
      BY <2>1
    <3>2. PICK i \in S : eligible[k] = spans[i]
      BY <1>8
    <3>3. i \in DOMAIN spans /\ Eligible(spans[i])
      BY <1>4
    <3> QED
      BY <1>9, <3>1, <3>2, <3>3
  <2> QED
    BY <2>1, <2>2
<1>12. ASSUME NEW i \in DOMAIN spans, Eligible(spans[i])
       PROVE  \E a \in DOMAIN entries :
                /\ entries[a].key = IdentityKey(spans[i])
                /\ \E n \in DOMAIN entries[a].items : entries[a].items[n] = spans[i]
  <2>1. PICK k \in DOMAIN eligible : eligible[k] = spans[i]
    BY <1>4, <1>8, <1>12
  <2>2. PICK a \in DOMAIN entries : entries[a].key = keys[k]
    BY <1>10 DEF Grouped
  <2>3. \E n \in DOMAIN entries[a].items : entries[a].items[n] = eligible[k]
    BY <1>10, <2>2 DEF Grouped
  <2> QED
    BY <1>9, <2>1, <2>2, <2>3
<1>13. \A a, b \in DOMAIN entries : entries[a].key = entries[b].key => a = b
  BY <1>10 DEF Grouped
<1> QED
  BY <1>1, <1>5, <1>11, <1>12, <1>13 DEF T

\* The requests of a group, with its spans.
LEMMA ContentsAre ==
  ASSUME NEW e \in Exports, NEW a \in DOMAIN Entries[e]
  PROVE  /\ <<e, a>> \in Groups /\ Len(Requests[<<e, a>>]) = Len(Contents[<<e, a>>])
         /\ \E cut : CutOf(cut, Contents[<<e, a>>], Entries[e][a].items)
<1>1. PICK g : g = <<e, a>>
  OBVIOUS
<1>2. g \in Groups /\ g[1] = e /\ g[2] = a
  <2>1. GroupsOf[e] = {e} \X DOMAIN Entries[e]
    BY BatchAssumption DEF BatchAssumption
  <2> QED
    BY <1>1, <2>1 DEF Groups
<1>3. PICK items, key : items = Entries[e][a].items /\ key = Entries[e][a].key
  OBVIOUS
<1>4. Requests[g] = exportGroup(key, items, MaxPayloadBytes)
  BY <1>2, <1>3 DEF Requests
<1>5. Contents = [h \in Groups |-> [c \in DOMAIN Requests[h] |-> SpansIn(Requests[h][c])]]
  BY DEF Contents, With
<1>6. Contents[g] = [c \in DOMAIN Requests[g] |-> SpansIn(Requests[g][c])]
  BY <1>2, <1>5
<1>7. items \in Seq(ToSet(Batch[e]))
      /\ \A k \in DOMAIN items : SpanOK(items[k]) /\ IdentityKey(items[k]) = key
  <2>1. /\ items \in Seq(ToSet(Batch[e]))
        /\ \A k \in DOMAIN items : /\ IdentityKey(items[k]) = key
                                   /\ \E i \in DOMAIN Batch[e] : items[k] = Batch[e][i]
    BY <1>3, PartitionIs
  <2>2. \A i \in DOMAIN Batch[e] : SpanOK(Batch[e][i])
    BY BatchIs
  <2> QED
    BY <2>1, <2>2
<1>8. PICK requests : requests = exportGroup(key, items, MaxPayloadBytes)
  OBVIOUS
<1>9. /\ Len(requests) \in Nat /\ DOMAIN requests = 1 .. Len(requests)
      /\ \E cut : CutOf(cut, [c \in DOMAIN requests |-> SpansIn(requests[c])], items)
  <2>1. MaxPayloadBytes \in Nat
    BY SpansAssumption DEF SpansAssumption
  <2> QED
    BY <1>7, <1>8, <2>1, GroupIsSent
<1>10. Requests[g] = requests /\ Contents[g] = [c \in DOMAIN requests |-> SpansIn(requests[c])]
  BY <1>4, <1>6, <1>8
<1>11. Len(Contents[g]) = Len(requests)
  <2>1. Contents[g] = [c \in 1 .. Len(requests) |-> SpansIn(requests[c])]
    BY <1>9, <1>10
  <2> QED
    BY <1>9, <2>1
<1> QED
  BY <1>1, <1>2, <1>3, <1>9, <1>10, <1>11

\* A span in a request is one of the group's.
LEMMA SentIsOfGroup ==
  ASSUME NEW e \in Exports, NEW a \in DOMAIN Entries[e], NEW c \in DOMAIN Contents[<<e, a>>],
         NEW x \in Contents[<<e, a>>][c], NEW i \in DOMAIN Batch[e], x.id = Batch[e][i].id
  PROVE  /\ Eligible(Batch[e][i]) /\ Entries[e][a].key = IdentityKey(Batch[e][i])
         /\ x = SentOf(Batch[e][i])
<1>1. PICK cut : CutOf(cut, Contents[<<e, a>>], Entries[e][a].items)
  BY ContentsAre
<1>2. PICK contents, items : contents = Contents[<<e, a>>] /\ items = Entries[e][a].items
  OBVIOUS
<1>3. CutOf(cut, contents, items) /\ c \in DOMAIN contents /\ x \in contents[c]
  BY <1>1, <1>2
<1>4. PICK k \in cut[c - 1] + 1 .. cut[c] : x = SentOf(items[k])
  BY <1>3 DEF CutOf
<1>5. k \in DOMAIN items
  <2>1. items \in Seq(ToSet(Batch[e]))
    BY <1>2, PartitionIs
  <2>2. Len(items) \in Nat /\ DOMAIN items = 1 .. Len(items)
    BY <2>1
  <2>3. c \in 1 .. Len(contents) /\ Len(contents) \in Nat /\ Cuts(cut, Len(contents), Len(items))
    BY <1>3 DEF CutOf
  <2>4. c - 1 \in 0 .. Len(contents) /\ c \in 0 .. Len(contents)
    BY <2>3
  <2>5. cut[c - 1] \in 0 .. Len(items) /\ cut[c] \in 0 .. Len(items)
    BY <2>3, <2>4 DEF Cuts
  <2> QED
    BY <2>2, <2>5
<1>6. PICK j \in DOMAIN Batch[e] : items[k] = Batch[e][j]
  BY <1>2, <1>5, PartitionIs
<1>7. x.id = Batch[e][j].id
  BY <1>4, <1>6 DEF SentOf
<1>8. j = i
  BY <1>7, BatchIs
<1>9. Eligible(items[k]) /\ IdentityKey(items[k]) = Entries[e][a].key
  BY <1>2, <1>5, PartitionIs
<1> QED
  BY <1>4, <1>6, <1>8, <1>9

\* And every span of the group is in one request.
LEMMA OneRequest ==
  ASSUME NEW e \in Exports, NEW a \in DOMAIN Entries[e], NEW i \in DOMAIN Batch[e],
         \E n \in DOMAIN Entries[e][a].items : Entries[e][a].items[n] = Batch[e][i]
  PROVE  \E c \in DOMAIN Contents[<<e, a>>] :
           /\ SentOf(Batch[e][i]) \in Contents[<<e, a>>][c]
           /\ \A d \in DOMAIN Contents[<<e, a>>] :
                SentOf(Batch[e][i]) \in Contents[<<e, a>>][d] => d = c
<1>1. PICK contents, items, span :
        contents = Contents[<<e, a>>] /\ items = Entries[e][a].items /\ span = Batch[e][i]
  OBVIOUS
<1>2. PICK cut : CutOf(cut, contents, items)
  BY <1>1, ContentsAre
<1>3. PICK C, N : C = Len(contents) /\ N = Len(items)
  OBVIOUS
<1>4. /\ C \in Nat /\ DOMAIN contents = 1 .. C /\ Cuts(cut, C, N)
      /\ \A c \in 1 .. C : contents[c] = {SentOf(items[k]) : k \in cut[c - 1] + 1 .. cut[c]}
  BY <1>2, <1>3 DEF CutOf
<1>5. N \in Nat /\ DOMAIN items = 1 .. N /\ Once(items)
  <2>1. items \in Seq(ToSet(Batch[e])) /\ Once(items)
    BY <1>1, PartitionIs
  <2> QED
    BY <1>3, <2>1
<1>6. PICK n \in 1 .. N : items[n] = span
  BY <1>1, <1>5
<1>7. /\ \E c \in 1 .. C : cut[c - 1] < n /\ n <= cut[c]
      /\ \A c, d \in 1 .. C :
           (cut[c - 1] < n /\ n <= cut[c] /\ cut[d - 1] < n /\ n <= cut[d]) => c = d
  BY <1>4, <1>5, OnePart
<1>8. ASSUME NEW c \in 1 .. C
      PROVE  SentOf(span) \in contents[c] <=> (cut[c - 1] < n /\ n <= cut[c])
  <2>1. PICK p, q : p = cut[c - 1] /\ q = cut[c]
    OBVIOUS
  <2>2. p \in 0 .. N /\ q \in 0 .. N
    <3>1. c - 1 \in 0 .. C /\ c \in 0 .. C
      BY <1>4
    <3> QED
      BY <1>4, <2>1, <3>1 DEF Cuts
  <2>3. contents[c] = {SentOf(items[k]) : k \in p + 1 .. q}
    BY <1>4, <2>1
  <2>4. ASSUME p < n, n <= q PROVE SentOf(span) \in contents[c]
    <3>1. n \in p + 1 .. q
      BY <1>5, <2>2, <2>4
    <3> QED
      BY <1>6, <2>3, <3>1
  <2>5. ASSUME SentOf(span) \in contents[c] PROVE p < n /\ n <= q
    <3>1. PICK k \in p + 1 .. q : SentOf(span) = SentOf(items[k])
      BY <2>3, <2>5
    <3>2. k \in 1 .. N
      BY <1>5, <2>2
    <3>3. PICK j \in DOMAIN Batch[e] : items[k] = Batch[e][j]
      BY <1>1, <1>5, <3>2, PartitionIs
    <3>4. Batch[e][i].id = Batch[e][j].id
      <4>1. SentOf(span).id = span.id /\ SentOf(items[k]).id = items[k].id
        BY DEF SentOf
      <4> QED
        BY <1>1, <3>1, <3>3, <4>1
    <3>5. i = j
      BY <3>4, BatchIs
    <3>6. items[k] = items[n]
      BY <1>1, <1>6, <3>3, <3>5
    <3>7. k = n
      BY <1>5, <3>2, <3>6 DEF Once
    <3> QED
      BY <2>2, <3>7
  <2> QED
    BY <2>1, <2>4, <2>5
<1>9. PICK c \in 1 .. C : cut[c - 1] < n /\ n <= cut[c]
  BY <1>7
<1>10. /\ SentOf(span) \in contents[c]
       /\ \A d \in DOMAIN contents : SentOf(span) \in contents[d] => d = c
  BY <1>4, <1>7, <1>8, <1>9
<1> QED
  BY <1>1, <1>4, <1>10

-----------------------------------------------------------------------------
(* Success *)

\* A group that has not delivered or posted yet, or never will, is at its first chunk.
AtFirstChunk ==
  \A g \in Groups : group[g].pc \in {"new", "init", "token", "skipped"} => group[g].chunk = 1

LEMMA InitAtFirstChunk == Init => AtFirstChunk
  BY DEF Init, AtFirstChunk, GroupAt

LEMMA NextAtFirstChunk == Inv /\ AtFirstChunk /\ [Next]_vars => AtFirstChunk'
<1> SUFFICES ASSUME Inv, AtFirstChunk, [Next]_vars PROVE AtFirstChunk'
  OBVIOUS
<1>1. ASSUME NEW e \in Exports, Export(e) PROVE AtFirstChunk'
  <2>1. UNCHANGED group \/ group' = GroupsAt(e, GroupAt(IF durable THEN "init" ELSE "token"))
    BY <1>1 DEF Export
  <2>2. ASSUME NEW g \in Groups, group' = GroupsAt(e, GroupAt(IF durable THEN "init" ELSE "token"))
        PROVE  group'[g] = group[g] \/ group'[g].chunk = 1
    BY <2>2 DEF GroupsAt, GroupAt
  <2> QED
    BY <2>1, <2>2 DEF AtFirstChunk
<1>2. ASSUME NEW g \in Groups, GroupStep(g) PROVE AtFirstChunk'
  <2>1. /\ group \in [Groups -> Entry]
        /\ \A h \in Groups : h # g => group'[h] = group[h]
    BY <1>2, GroupSteps DEF Inv, TypeOK, Moves, Entry, Pcs
  <2>2. group'[g].pc \in {"new", "init", "token", "skipped"} =>
          /\ group[g].pc \in {"init", "token"} /\ group'[g].chunk = group[g].chunk
    <3>1. \A chunk : DeliverChunk(g, chunk) => group'[g].pc \in {"delivering", "refused"}
      BY <2>1 DEF DeliverChunk, GroupAt
    <3>2. GroupProceeds(g) => group'[g].pc \in {"delivering", "refused"}
                                \/ (group[g].pc = "init" /\ group'[g].chunk = group[g].chunk)
      BY <2>1, <3>1 DEF GroupProceeds, Entry
    <3>3. ChunkDelivered(g) => group'[g].pc \in {"delivering", "refused", "exported", "failed"}
      BY <2>1, <3>1 DEF ChunkDelivered, Entry
    <3>4. ResolveToken(g) => group[g].pc = "token" /\ group'[g].chunk = group[g].chunk
      BY <2>1 DEF ResolveToken, Entry
    <3>5. Post(g) => group'[g].pc \in {"posting", "exported", "failed"}
      BY <2>1 DEF Post, Entry
    <3> QED
      BY <1>2, <3>2, <3>3, <3>4, <3>5 DEF GroupStep
  <2> QED
    BY <2>1, <2>2 DEF AtFirstChunk
<1>3. (\E e \in Exports : Settle(e)) => UNCHANGED group
  BY DEF Settle
<1>4. InitSucceeds \/ InitFails \/ ReplayStarts \/ ReplayEnds \/ ManagerCloses => UNCHANGED group
  BY DEF InitSucceeds, InitFails, ReplayStarts, ReplayEnds, ManagerCloses, exportVars
<1>5. CallFlush \/ FlushStep \/ CallShutdown \/ ShutdownStep \/ UNCHANGED vars => UNCHANGED group
  BY DEF CallFlush, FlushStep, CallShutdown, ShutdownStep, ExportsDrained, Initialized,
       ManagerClosed, DeadlinePasses, vars, exportVars
<1>6. UNCHANGED group => AtFirstChunk'
  BY DEF AtFirstChunk
<1> QED
  BY <1>1, <1>2, <1>3, <1>4, <1>5, <1>6 DEF Next

\* How much of a group is handed over, by the end of a batch that succeeded.
LEMMA HandedOverIs ==
  ASSUME Inv, Answers, AtFirstChunk, NEW e \in Exports, result[e] = "SUCCESS",
         NEW a \in DOMAIN Entries[e]
  PROVE  /\ <<e, a>> \in GroupsOf[e]
         /\ group[<<e, a>>].pc = "skipped" => HandedOver(<<e, a>>) = 0
         /\ group[<<e, a>>].pc # "skipped" => HandedOver(<<e, a>>) = Len(Contents[<<e, a>>])
<1>1. PICK g : g = <<e, a>>
  OBVIOUS
<1>2. g \in GroupsOf[e] /\ g \in Groups
  BY <1>1, BatchAssumption DEF BatchAssumption, Groups
<1>3. group[g].pc \in {"exported", "skipped"}
  BY <1>2 DEF Answers
<1>4. group[g].pc = "skipped" => HandedOver(g) = 0
  BY <1>2 DEF AtFirstChunk, HandedOver
<1>5. group[g].pc = "exported" => HandedOver(g) = Chunks[g]
  BY <1>2 DEF Answers, HandedOver
<1>6. Chunks[g] = Len(Contents[g])
  <2>1. Chunks[g] = Len(Requests[g])
    BY <1>2, BatchAssumption DEF BatchAssumption
  <2> QED
    BY <1>1, <2>1, ContentsAre
<1> QED
  BY <1>1, <1>2, <1>3, <1>4, <1>5, <1>6

LEMMA SentAsIs ==
  ASSUME NEW e \in Exports, NEW span, NEW y
  PROVE  y \in SentAs(e, span) <=>
           \E g \in GroupsOf[e] : \E c \in 1 .. HandedOver(g) : \E x \in Contents[g][c] :
             x.id = span.id /\ y = <<g, c, x>>
  BY DEF SentAs

\* Once a batch has succeeded.
LEMMA SuccessSent ==
  ASSUME Inv, Answers, AtFirstChunk, NEW e \in Exports, result[e] = "SUCCESS",
         NEW i \in DOMAIN Batch[e]
  PROVE  LET span == Batch[e][i]
             skipped == \E g \in GroupsOf[e] : /\ group[g].pc = "skipped"
                                               /\ Entries[g[1]][g[2]].key = IdentityKey(span)
         IN  /\ ~Eligible(span) \/ skipped => SentAs(e, span) = {}
             /\ Eligible(span) /\ ~skipped =>
                  \E g, c : SentAs(e, span) = {<<g, c, SentOf(span)>>}
<1>1. PICK span : span = Batch[e][i]
  OBVIOUS
<1> DEFINE skipped == \E g \in GroupsOf[e] : /\ group[g].pc = "skipped"
                                             /\ Entries[g[1]][g[2]].key = IdentityKey(span)
<1>2. GroupsOf[e] = {e} \X DOMAIN Entries[e]
  BY BatchAssumption DEF BatchAssumption
<1>3. \A g \in GroupsOf[e] : \E a \in DOMAIN Entries[e] : g = <<e, a>>
  BY <1>2
<1>4. ASSUME NEW y \in SentAs(e, span)
      PROVE  \E a \in DOMAIN Entries[e] : \E c \in DOMAIN Contents[<<e, a>>] :
               /\ Eligible(span) /\ Entries[e][a].key = IdentityKey(span)
               /\ group[<<e, a>>].pc # "skipped"
               /\ SentOf(span) \in Contents[<<e, a>>][c] /\ y = <<<<e, a>>, c, SentOf(span)>>
  <2>1. PICK g \in GroupsOf[e] : \E c \in 1 .. HandedOver(g) : \E x \in Contents[g][c] :
               x.id = span.id /\ y = <<g, c, x>>
    BY <1>4, SentAsIs
  <2>2. PICK a \in DOMAIN Entries[e] : g = <<e, a>>
    BY <1>3
  <2>3. PICK c \in 1 .. HandedOver(g) : \E x \in Contents[g][c] : x.id = span.id /\ y = <<g, c, x>>
    BY <2>1
  <2>4. PICK x \in Contents[g][c] : x.id = span.id /\ y = <<g, c, x>>
    BY <2>3
  <2>5. group[g].pc # "skipped" /\ HandedOver(g) = Len(Contents[g])
    <3>1. HandedOver(g) # 0
      BY <2>3
    <3> QED
      BY <2>2, <3>1, HandedOverIs
  <2>6. c \in DOMAIN Contents[g]
    BY <2>2, <2>3, <2>5, ContentsAre DEF CutOf
  <2>7. Eligible(span) /\ Entries[e][a].key = IdentityKey(span) /\ x = SentOf(span)
    BY <1>1, <2>2, <2>4, <2>6, SentIsOfGroup
  <2> QED
    BY <2>2, <2>4, <2>5, <2>6, <2>7
<1>5. ~Eligible(span) \/ skipped => SentAs(e, span) = {}
  <2> SUFFICES ASSUME ~Eligible(span) \/ skipped, NEW y \in SentAs(e, span) PROVE FALSE
    OBVIOUS
  <2>1. PICK a \in DOMAIN Entries[e] :
          /\ Eligible(span) /\ Entries[e][a].key = IdentityKey(span)
          /\ group[<<e, a>>].pc # "skipped"
    BY <1>4
  <2>2. PICK g \in GroupsOf[e] : group[g].pc = "skipped" /\ Entries[g[1]][g[2]].key = IdentityKey(span)
    BY <2>1
  <2>3. PICK b \in DOMAIN Entries[e] : g = <<e, b>>
    BY <1>3
  <2>4. Entries[e][b].key = Entries[e][a].key
    BY <2>1, <2>2, <2>3
  <2>5. b = a
    BY <2>4, PartitionIs
  <2> QED
    BY <2>1, <2>2, <2>3, <2>5
<1>6. ASSUME Eligible(span), ~skipped
      PROVE  \E g, c : SentAs(e, span) = {<<g, c, SentOf(span)>>}
  <2>1. PICK a \in DOMAIN Entries[e] :
          /\ Entries[e][a].key = IdentityKey(span)
          /\ \E n \in DOMAIN Entries[e][a].items : Entries[e][a].items[n] = span
    BY <1>1, <1>6, PartitionIs
  <2>2. PICK g : g = <<e, a>>
    OBVIOUS
  <2>3. g \in GroupsOf[e] /\ HandedOver(g) = Len(Contents[g])
    <3>1. g \in GroupsOf[e]
      BY <2>2, HandedOverIs
    <3>2. g[1] = e /\ g[2] = a
      BY <2>2
    <3>3. group[g].pc # "skipped"
      BY <1>6, <2>1, <3>1, <3>2
    <3> QED
      BY <2>2, <3>1, <3>3, HandedOverIs
  <2>4. PICK c \in DOMAIN Contents[g] :
          /\ SentOf(span) \in Contents[g][c]
          /\ \A d \in DOMAIN Contents[g] : SentOf(span) \in Contents[g][d] => d = c
    BY <1>1, <2>1, <2>2, OneRequest
  <2>5. <<g, c, SentOf(span)>> \in SentAs(e, span)
    <3>1. c \in 1 .. HandedOver(g)
      BY <2>2, <2>3, <2>4, ContentsAre DEF CutOf
    <3>2. SentOf(span).id = span.id
      BY DEF SentOf
    <3> QED
      BY <2>3, <2>4, <3>1, <3>2, SentAsIs
  <2>6. ASSUME NEW y \in SentAs(e, span) PROVE y = <<g, c, SentOf(span)>>
    <3>1. PICK b \in DOMAIN Entries[e] : \E d \in DOMAIN Contents[<<e, b>>] :
             /\ Entries[e][b].key = IdentityKey(span)
             /\ SentOf(span) \in Contents[<<e, b>>][d] /\ y = <<<<e, b>>, d, SentOf(span)>>
      BY <1>4
    <3>2. Entries[e][b].key = Entries[e][a].key
      BY <2>1, <3>1
    <3>3. b = a
      BY <3>2, PartitionIs
    <3> QED
      BY <2>2, <2>4, <3>1, <3>3
  <2>7. SentAs(e, span) = {<<g, c, SentOf(span)>>}
    BY <2>5, <2>6
  <2> QED
    BY <2>7
<1> QED
  BY <1>1, <1>5, <1>6

LEMMA CompleteFollows == Inv /\ Answers /\ AtFirstChunk => SuccessIsComplete
<1> SUFFICES ASSUME Inv, Answers, AtFirstChunk, NEW e \in Exports, result[e] = "SUCCESS",
                    NEW i \in DOMAIN Batch[e]
             PROVE  \E sent \in {SentAs(e, Batch[e][i])} :
                      LET span == Batch[e][i]
                          skipped == \E g \in GroupsOf[e] :
                                       /\ group[g].pc = "skipped"
                                       /\ Entries[g[1]][g[2]].key = IdentityKey(span)
                      IN  IF ~Eligible(span) \/ skipped THEN sent = {}
                          ELSE /\ Cardinality(sent) = 1
                               /\ \A x \in sent : x[3] = SentOf(span)
  BY DEF SuccessIsComplete, SentOf
<1> DEFINE span == Batch[e][i]
           sent == SentAs(e, span)
           skipped == \E g \in GroupsOf[e] : /\ group[g].pc = "skipped"
                                             /\ Entries[g[1]][g[2]].key = IdentityKey(span)
<1>1. /\ ~Eligible(span) \/ skipped => sent = {}
      /\ Eligible(span) /\ ~skipped => \E g, c : sent = {<<g, c, SentOf(span)>>}
  BY SuccessSent
<1>2. ASSUME NEW g, NEW c, sent = {<<g, c, SentOf(span)>>}
      PROVE  Cardinality(sent) = 1 /\ \A x \in sent : x[3] = SentOf(span)
  <2>1. \A x \in sent : x[3] = SentOf(span)
    BY <1>2
  <2>2. Cardinality({<<g, c, SentOf(span)>>}) = 1
    BY FS_Singleton
  <2> QED
    BY <1>2, <2>1, <2>2
<1> HIDE DEF sent, skipped
<1>3. IF ~Eligible(span) \/ skipped THEN sent = {}
      ELSE Cardinality(sent) = 1 /\ \A x \in sent : x[3] = SentOf(span)
  BY <1>1, <1>2
<1> QED
  BY <1>3 DEF sent, skipped

\* SuccessIsComplete: whatever is exported, flushed and shut down meanwhile, an export that
\* reports SUCCESS has had each eligible span sent once, in one request of one group, under its
\* own tenant and agent and in its own scope, unless its group was skipped; and no other span.
THEOREM SuccessMeansComplete == Spec => []SuccessIsComplete
BY InitInv, NextInv, InitAnswers, NextAnswers, InitAtFirstChunk, NextAtFirstChunk,
   CompleteFollows, PTL DEF Spec

-----------------------------------------------------------------------------
(* Payloads *)

\* What starts at 1 is the whole up to n; and a further part carries on where it ends.
LEMMA FirstAndNext ==
  ASSUME NEW S, NEW all \in Seq(S), NEW m \in 0 .. Len(all), NEW n \in m .. Len(all)
  PROVE  SubSeq(all, 1, m) \o SubSeq(all, m + 1, n) = SubSeq(all, 1, n)
<1>1. m \in Nat /\ n \in Nat /\ Len(all) \in Nat /\ m <= n /\ n <= Len(all)
  OBVIOUS
<1>2. PICK first, next, both : /\ first = SubSeq(all, 1, m) /\ next = SubSeq(all, m + 1, n)
                               /\ both = SubSeq(all, 1, n)
  OBVIOUS
<1>3. first \in Seq(S) /\ Len(first) = m /\ \A i \in 1 .. m : first[i] = all[i]
  <2>1. m \in 0 .. Len(all) /\ 0 \in 0 .. m /\ first = SubSeq(all, 0 + 1, m)
    BY <1>1, <1>2
  <2>2. first \in Seq(S) /\ Len(first) = m - 0 /\ \A i \in 1 .. m - 0 : first[i] = all[0 + i]
    BY <2>1, SliceOf
  <2> QED
    BY <1>1, <2>2
<1>4. both \in Seq(S) /\ Len(both) = n /\ \A i \in 1 .. n : both[i] = all[i]
  <2>1. n \in 0 .. Len(all) /\ 0 \in 0 .. n /\ both = SubSeq(all, 0 + 1, n)
    BY <1>1, <1>2
  <2>2. both \in Seq(S) /\ Len(both) = n - 0 /\ \A i \in 1 .. n - 0 : both[i] = all[0 + i]
    BY <2>1, SliceOf
  <2> QED
    BY <1>1, <2>2
<1>5. next \in Seq(S) /\ Len(next) = n - m /\ \A i \in 1 .. n - m : next[i] = all[m + i]
  <2>1. n \in 0 .. Len(all) /\ m \in 0 .. n
    BY <1>1
  <2> QED
    BY <1>2, <2>1, SliceOf
<1>6. /\ first \o next \in Seq(S) /\ Len(first \o next) = n
      /\ \A i \in 1 .. n : (first \o next)[i] = IF i <= m THEN first[i] ELSE next[i - m]
  <2>1. /\ first \o next \in Seq(S) /\ Len(first \o next) = Len(first) + Len(next)
        /\ \A i \in 1 .. Len(first) + Len(next) :
             (first \o next)[i] = IF i <= Len(first) THEN first[i] ELSE next[i - Len(first)]
    BY <1>3, <1>5, ConcatProperties, Zenon
  <2>2. Len(first) + Len(next) = n
    BY <1>1, <1>3, <1>5
  <2> QED
    BY <1>3, <2>1, <2>2
<1>7. ASSUME NEW i \in 1 .. n PROVE (first \o next)[i] = both[i]
  <2>1. CASE i <= m
    <3>1. i \in 1 .. m
      BY <1>1, <2>1
    <3> QED
      BY <1>3, <1>4, <1>6, <2>1, <3>1
  <2>2. CASE ~(i <= m)
    <3>1. i - m \in 1 .. n - m /\ m + (i - m) = i
      BY <1>1, <2>2
    <3> QED
      BY <1>4, <1>5, <1>6, <2>2, <3>1
  <2> QED
    BY <2>1, <2>2
<1>8. first \o next = both
  <2> DEFINE joined == first \o next
  <2>1. joined \in Seq(S) /\ Len(joined) = n /\ \A i \in 1 .. n : joined[i] = both[i]
    BY <1>6, <1>7
  <2> HIDE DEF joined
  <2>2. joined = both
    BY <1>4, <2>1, SeqEqual
  <2> QED
    BY <2>2 DEF joined
<1> QED
  BY <1>2, <1>8

\* The parts of a sequence cut at n places, one after the other, are the sequence up to the n-th.
LEMMA PartsJoin ==
  ASSUME NEW S, NEW all \in Seq(S), NEW n \in Nat, NEW cut \in [0 .. n -> 0 .. Len(all)],
         cut[0] = 0, \A c \in 1 .. n : cut[c - 1] <= cut[c],
         NEW parts, parts = [c \in 1 .. n |-> SubSeq(all, cut[c - 1] + 1, cut[c])]
  PROVE  FlattenSeq(parts) = SubSeq(all, 1, cut[n])
<1>1. Len(parts) = n
  OBVIOUS
<1>2. CASE n = 0
  <2>1. FlattenSeq(parts) = parts
    BY <1>1, <1>2 DEF FlattenSeq
  <2>2. parts = << >>
    BY <1>2
  <2>3. cut[n] = 0
    BY <1>2
  <2>4. SubSeq(all, 1, 0) = << >>
    OBVIOUS
  <2> QED
    BY <2>1, <2>2, <2>3, <2>4
<1>3. CASE n # 0
  <2> DEFINE Is(f) == f = [i \in 1 .. n |-> IF i = 1 THEN parts[i] ELSE f[i - 1] \o parts[i]]
             upTo == [i \in 1 .. n |-> SubSeq(all, 1, cut[i])]
             flatten == CHOOSE f : Is(f)
  <2>1. FlattenSeq(parts) = flatten[n]
    BY <1>1, <1>3 DEF FlattenSeq
  <2>2. ASSUME NEW i \in 1 .. n
        PROVE  /\ i = 1 => parts[i] = SubSeq(all, 1, cut[i])
               /\ i # 1 => SubSeq(all, 1, cut[i - 1]) \o parts[i] = SubSeq(all, 1, cut[i])
    <3>1. parts[i] = SubSeq(all, cut[i - 1] + 1, cut[i])
      OBVIOUS
    <3>2. i = 1 => cut[i - 1] = 0
      OBVIOUS
    <3>3. cut[i - 1] \in 0 .. Len(all) /\ cut[i] \in cut[i - 1] .. Len(all)
      <4>1. i - 1 \in 0 .. n /\ i \in 0 .. n
        OBVIOUS
      <4>2. cut[i - 1] \in 0 .. Len(all) /\ cut[i] \in 0 .. Len(all) /\ cut[i - 1] <= cut[i]
        BY <4>1
      <4> QED
        BY <4>2
    <3>4. SubSeq(all, 1, cut[i - 1]) \o SubSeq(all, cut[i - 1] + 1, cut[i]) = SubSeq(all, 1, cut[i])
      BY <3>3, FirstAndNext
    <3>5. i = 1 => cut[i - 1] + 1 = 1
      BY <3>2
    <3> QED
      BY <3>1, <3>4, <3>5
  <2>3. Is(upTo)
    <3>1. ASSUME NEW i \in 1 .. n
          PROVE  SubSeq(all, 1, cut[i]) = IF i = 1 THEN parts[i] ELSE upTo[i - 1] \o parts[i]
      <4>1. i # 1 => i - 1 \in 1 .. n
        OBVIOUS
      <4>2. i # 1 => upTo[i - 1] = SubSeq(all, 1, cut[i - 1])
        BY <4>1
      <4> HIDE DEF upTo
      <4> QED
        BY <2>2, <4>2
    <3>2. upTo = [i \in 1 .. n |-> IF i = 1 THEN parts[i] ELSE upTo[i - 1] \o parts[i]]
      <4> DEFINE next(i) == IF i = 1 THEN parts[i] ELSE upTo[i - 1] \o parts[i]
      <4>1. \A i \in 1 .. n : SubSeq(all, 1, cut[i]) = next(i)
        BY <3>1
      <4> HIDE DEF next
      <4>2. [i \in 1 .. n |-> SubSeq(all, 1, cut[i])] = [i \in 1 .. n |-> next(i)]
        BY <4>1
      <4> QED
        BY <4>2 DEF next
    <3> QED
      BY <3>2
  <2>4. Is(flatten)
    <3> HIDE DEF Is, upTo
    <3> QED
      BY <2>3
  <2> HIDE DEF flatten
  <2> DEFINE held == {i \in 0 .. n : i = 0 \/ flatten[i] = SubSeq(all, 1, cut[i])}
  <2>5. ASSUME NEW i \in 1 .. n, i - 1 \in held PROVE i \in held
    <3>1. flatten[i] = IF i = 1 THEN parts[i] ELSE flatten[i - 1] \o parts[i]
      BY <2>4
    <3>2. i # 1 => flatten[i - 1] = SubSeq(all, 1, cut[i - 1])
      BY <2>5
    <3>3. flatten[i] = SubSeq(all, 1, cut[i])
      BY <2>2, <3>1, <3>2
    <3> QED
      BY <3>3
  <2>6. 0 \in held
    OBVIOUS
  <2>7. n \in held
    <3>1. \A i \in 0 .. n : i \in held
      <4> HIDE DEF held
      <4> QED
        BY <2>5, <2>6, Upwards
    <3> QED
      BY <3>1
  <2> QED
    BY <1>3, <2>1, <2>7
<1> QED
  BY <1>2, <1>3

\* The identifiers of a group's spans.
Ids(items) == Mapped(LAMBDA span : span.id, items)

IdsOf(chunk) == Mapped(LAMBDA m : m.span.id, chunk)

\* What a chunk, cut from the mapped spans between two places, is.
CutBetween(chunk, items, m, n) ==
  /\ Ids(items) \in Seq(ToSet(Ids(items))) /\ Len(Ids(items)) = Len(items)
  /\ DOMAIN chunk = 1 .. n - m /\ Len(chunk) = n - m
  /\ \A i \in DOMAIN chunk : chunk[i] \in ToSet(mapAndTruncateSpans(items))
  /\ IdsOf(chunk) = SubSeq(Ids(items), m + 1, n)

\* A chunk, cut from the mapped spans, has the identifiers that are cut from the group's.
LEMMA ChunkIds ==
  ASSUME NEW T, NEW items \in Seq(T), NEW n \in 0 .. Len(items), NEW m \in 0 .. n,
         NEW chunk, chunk = SubSeq(mapAndTruncateSpans(items), m + 1, n)
  PROVE  CutBetween(chunk, items, m, n)
<1> DEFINE mapped == mapAndTruncateSpans(items)
           M == ToSet(mapped)
           ids == Ids(items)
           S == ToSet(ids)
           N == Len(items)
<1>1. N \in Nat /\ DOMAIN items = 1 .. N
  OBVIOUS
<1>2. Len(mapped) = N /\ mapped \in Seq(M) /\ \A k \in 1 .. N : mapped[k] = MappedOf(items[k])
  BY MappedAre
<1>3. ids = [k \in 1 .. N |-> items[k].id]
  BY <1>1 DEF Ids, Mapped
<1>4. ids \in Seq(S) /\ Len(ids) = N
  <2>1. \A k \in 1 .. N : items[k].id \in S
    <3>1. \A k \in 1 .. N : ids[k] = items[k].id /\ k \in DOMAIN ids
      BY <1>3
    <3> QED
      BY <3>1 DEF ToSet
  <2> HIDE DEF S
  <2> QED
    BY <1>1, <1>3, <2>1
<1> HIDE DEF mapped, M, ids, S, N
<1>5. m \in Nat /\ n \in Nat /\ n \in 0 .. N /\ \A i \in 1 .. n - m : m + i \in 1 .. N
  BY <1>1 DEF N
<1>6. /\ chunk \in Seq(M) /\ Len(chunk) = n - m
      /\ \A i \in 1 .. n - m : chunk[i] = mapped[m + i]
  <2>1. chunk = SubSeq(mapped, m + 1, n) /\ n \in 0 .. Len(mapped) /\ m \in 0 .. n
    BY <1>2, <1>5 DEF mapped
  <2> QED
    BY <1>2, <2>1, SliceOf
<1>7. DOMAIN chunk = 1 .. n - m /\ \A i \in 1 .. n - m : chunk[i] \in M
  BY <1>6
<1>8. ASSUME NEW i \in 1 .. n - m PROVE chunk[i].span.id = items[m + i].id
  <2>1. chunk[i] = MappedOf(items[m + i])
    BY <1>2, <1>5, <1>6
  <2>2. MappedOf(items[m + i]).span.id = items[m + i].id
    BY TruncatedIsSame DEF MappedOf
  <2> QED
    BY <2>1, <2>2
<1> DEFINE part == SubSeq(ids, m + 1, n)
<1>9. part \in Seq(S) /\ Len(part) = n - m /\ \A i \in 1 .. n - m : part[i] = ids[m + i]
  <2>1. n \in 0 .. Len(ids)
    BY <1>4, <1>5
  <2> QED
    BY <1>4, <2>1, SliceOf
<1>10. IdsOf(chunk) = [i \in 1 .. n - m |-> chunk[i].span.id]
  BY <1>7 DEF IdsOf, Mapped
<1>11. IdsOf(chunk) = part
  <2> HIDE DEF part
  <2>1. \A i \in 1 .. n - m : part[i] = chunk[i].span.id
    BY <1>3, <1>5, <1>8, <1>9
  <2>2. part = [i \in 1 .. n - m |-> part[i]]
    BY <1>9
  <2> QED
    BY <1>10, <2>1, <2>2
<1> QED
  BY <1>4, <1>6, <1>7, <1>11 DEF CutBetween, part, ids, S, N, mapped, M

\* The requests of a group fit, and the first of them hold its first spans.
LEMMA RequestsFit ==
  ASSUME NEW e \in Exports, NEW a \in DOMAIN Entries[e]
  PROVE  /\ <<e, a>> \in Groups /\ Len(Requests[<<e, a>>]) \in Nat
         /\ \A c \in 1 .. Len(Requests[<<e, a>>]) : RequestFits[<<e, a>>][c]
         /\ \A n \in 0 .. Len(Requests[<<e, a>>]) :
              IsPrefix(SpansOfFirst[<<e, a>>][n], Ids(Entries[e][a].items))
<1>1. PICK g : g = <<e, a>>
  OBVIOUS
<1>2. g \in Groups /\ g[1] = e /\ g[2] = a
  BY <1>1, ContentsAre
<1>3. PICK items, key : items = Entries[e][a].items /\ key = Entries[e][a].key
  OBVIOUS
<1>4. Requests[g] = exportGroup(key, items, MaxPayloadBytes)
  BY <1>2, <1>3 DEF Requests
<1>5. items \in Seq(ToSet(Batch[e])) /\ \A k \in DOMAIN items : SpanOK(items[k])
  <2>1. /\ items \in Seq(ToSet(Batch[e]))
        /\ \A k \in DOMAIN items : \E i \in DOMAIN Batch[e] : items[k] = Batch[e][i]
    BY <1>3, PartitionIs
  <2> QED
    BY <2>1, BatchIs
<1>6. PICK requests : requests = Requests[g]
  OBVIOUS
<1>7. PICK cut : GroupCut(cut, requests, key, items, MaxPayloadBytes)
  <2>1. MaxPayloadBytes \in Nat
    BY SpansAssumption DEF SpansAssumption
  <2>2. \E c : GroupCut(c, exportGroup(key, items, MaxPayloadBytes), key, items, MaxPayloadBytes)
    BY <1>5, <2>1, GroupIsCut
  <2> QED
    BY <1>4, <1>6, <2>2
<1> DEFINE mapped == mapAndTruncateSpans(items)
           chunk(c) == SubSeq(mapped, cut[c - 1] + 1, cut[c])
           C == Len(requests)
           N == Len(items)
           ids == Ids(items)
           S == ToSet(ids)
<1>8. /\ C \in Nat /\ DOMAIN requests = 1 .. C /\ N \in Nat
      /\ cut \in [0 .. C -> 0 .. N] /\ cut[0] = 0 /\ \A c \in 1 .. C : cut[c - 1] < cut[c]
      /\ \A c \in 1 .. C : /\ requests[c] = RequestOf(key, items, chunk(c))
                           /\ \/ Len(chunk(c)) = 1
                              \/ Bytes(SizesIn(mapped), chunk(c)) <= MaxPayloadBytes
  <2>1. /\ C \in Nat /\ DOMAIN requests = 1 .. C /\ Cuts(cut, C, N)
        /\ \A c \in 1 .. C : /\ requests[c] = RequestOf(key, items, chunk(c))
                             /\ \/ Len(chunk(c)) = 1
                                \/ Bytes(SizesIn(mapped), chunk(c)) <= MaxPayloadBytes
    BY <1>7, Zenon DEF GroupCut
  <2>2. N \in Nat
    BY <1>5
  <2> HIDE DEF mapped, chunk, C, N
  <2> QED
    BY <2>1, <2>2 DEF Cuts
<1> HIDE DEF mapped, C, N, ids, S
<1>9. ASSUME NEW c \in 1 .. C
      PROVE  /\ requests[c].chunk = chunk(c)
             /\ \/ Len(chunk(c)) = 1
                \/ chunk(c) # << >> /\ EstimatedBytes(chunk(c)) <= MaxPayloadBytes
             /\ IdsOf(chunk(c)) = SubSeq(ids, cut[c - 1] + 1, cut[c])
             /\ ids \in Seq(S) /\ Len(ids) = N
  <2>1. PICK m, n, part : m = cut[c - 1] /\ n = cut[c] /\ part = chunk(c)
    OBVIOUS
  <2>2. m \in 0 .. n /\ n \in 0 .. N /\ m < n
    <3>1. c - 1 \in 0 .. C /\ c \in 0 .. C
      BY <1>8
    <3>2. m \in 0 .. N /\ n \in 0 .. N /\ m < n
      BY <1>8, <2>1, <3>1
    <3> QED
      BY <3>2
  <2>3. part = SubSeq(mapped, m + 1, n)
    BY <2>1
  <2>4. /\ ids \in Seq(S) /\ Len(ids) = N
        /\ DOMAIN part = 1 .. n - m /\ Len(part) = n - m
        /\ \A i \in DOMAIN part : part[i] \in ToSet(mapped)
        /\ IdsOf(part) = SubSeq(ids, m + 1, n)
    <3>1. n \in 0 .. Len(items) /\ part = SubSeq(mapAndTruncateSpans(items), m + 1, n)
      BY <2>2, <2>3 DEF mapped, N
    <3>2. CutBetween(part, items, m, n)
      <4>1. PICK T : items \in Seq(T)
        BY <1>5
      <4>2. m \in 0 .. n
        BY <2>2
      <4> QED
        BY ONLY <3>1, <4>1, <4>2, ChunkIds
    <3> QED
      BY <3>2 DEF CutBetween, mapped, ids, S, N
  <2>5. /\ requests[c].chunk = part
        /\ Len(part) = 1 \/ Bytes(SizesIn(mapped), part) <= MaxPayloadBytes
    <3>1. /\ requests[c] = RequestOf(key, items, part)
          /\ Len(part) = 1 \/ Bytes(SizesIn(mapped), part) <= MaxPayloadBytes
      BY <1>8, <2>1
    <3>2. RequestOf(key, items, part).chunk = part
      BY DEF RequestOf
    <3> QED
      BY <3>1, <3>2
  <2>6. part # << >>
    BY <2>2, <2>4
  <2>7. EstimatedBytes(part) = Bytes(SizesIn(mapped), part)
    <3>1. \A i \in DOMAIN part : SizesIn(mapped)[part[i]] = estimateSpanBytes(part[i].span)
      BY <2>4 DEF SizesIn
    <3>2. [i \in DOMAIN part |-> SizesIn(mapped)[part[i]]]
            = [i \in DOMAIN part |-> estimateSpanBytes(part[i].span)]
      BY <3>1
    <3> QED
      BY <3>2 DEF EstimatedBytes, Bytes, Mapped
  <2> QED
    BY <2>1, <2>4, <2>5, <2>6, <2>7
<1>10. ASSUME NEW c \in 1 .. C PROVE RequestFits[g][c]
  <2>1. RequestFits[g][c] = (\E part \in {requests[c].chunk} :
          Len(part) = 1 \/ (part # << >> /\ EstimatedBytes(part) <= MaxPayloadBytes))
    <3>1. RequestFits = [h \in Groups |-> [d \in DOMAIN Requests[h] |->
            \E part \in {Requests[h][d].chunk} :
              Len(part) = 1 \/ (part # << >> /\ EstimatedBytes(part) <= MaxPayloadBytes)]]
      BY DEF RequestFits, With
    <3>2. c \in DOMAIN Requests[g]
      BY <1>6, <1>8
    <3> QED
      BY <1>2, <1>6, <3>1, <3>2
  <2>2. PICK part : part = requests[c].chunk
    OBVIOUS
  <2>3. Len(part) = 1 \/ (part # << >> /\ EstimatedBytes(part) <= MaxPayloadBytes)
    BY <1>9, <2>2
  <2> QED
    BY <2>1, <2>2, <2>3
<1>11. ASSUME NEW n \in 0 .. C PROVE IsPrefix(SpansOfFirst[g][n], ids)
  <2> DEFINE parts == [c \in 1 .. n |-> SubSeq(ids, cut[c - 1] + 1, cut[c])]
  <2>1. SpansOfFirst[g][n] = FlattenSeq([c \in 1 .. n |-> IdsOf(requests[c].chunk)])
    <3>1. SpansOfFirst = [h \in Groups |-> [d \in 0 .. Len(Requests[h]) |->
            FlattenSeq([c \in 1 .. d |-> IdsOf(Requests[h][c].chunk)])]]
      BY DEF SpansOfFirst, With, IdsOf
    <3>2. n \in 0 .. Len(Requests[g])
      BY <1>6 DEF C
    <3> QED
      BY <1>2, <1>6, <3>1, <3>2
  <2>2. [c \in 1 .. n |-> IdsOf(requests[c].chunk)] = parts
    <3>1. \A c \in 1 .. n : c \in 1 .. C
      BY <1>8
    <3>2. \A c \in 1 .. n : IdsOf(requests[c].chunk) = SubSeq(ids, cut[c - 1] + 1, cut[c])
      BY <1>9, <3>1
    <3> QED
      BY <3>2
  <2>3. ids \in Seq(S) /\ Len(ids) = N
    <3>1. 0 \in 0 .. 0 /\ 0 \in 0 .. N
      BY <1>8
    <3>2. Ids(items) \in Seq(ToSet(Ids(items))) /\ Len(Ids(items)) = Len(items)
      BY <1>5, <3>1, ChunkIds DEF CutBetween, N
    <3> QED
      BY <3>2 DEF ids, S, N
  <2>4. FlattenSeq(parts) = SubSeq(ids, 1, cut[n])
    <3> DEFINE places == [c \in 0 .. n |-> cut[c]]
    <3>1. \A c \in 0 .. n : c \in 0 .. C
      BY <1>8
    <3>2. places \in [0 .. n -> 0 .. Len(ids)] /\ places[0] = 0 /\ n \in Nat
      BY <1>8, <2>3, <3>1
    <3>3. \A c \in 1 .. n : places[c - 1] <= places[c]
      <4> SUFFICES ASSUME NEW c \in 1 .. n PROVE places[c - 1] <= places[c]
        OBVIOUS
      <4>1. c \in 1 .. C /\ c - 1 \in 0 .. n /\ c \in 0 .. n /\ c - 1 \in 0 .. C /\ c \in 0 .. C
        BY <1>8
      <4>2. cut[c - 1] < cut[c] /\ cut[c - 1] \in Nat /\ cut[c] \in Nat
        BY <1>8, <4>1
      <4> QED
        BY <4>1, <4>2
    <3>4. parts = [c \in 1 .. n |-> SubSeq(ids, places[c - 1] + 1, places[c])]
      <4>1. \A c \in 1 .. n : places[c - 1] = cut[c - 1] /\ places[c] = cut[c]
        <5>1. \A c \in 1 .. n : c - 1 \in 0 .. n /\ c \in 0 .. n
          BY <3>2
        <5> QED
          BY <5>1
      <4> HIDE DEF places
      <4> QED
        BY <4>1
    <3>5. places[n] = cut[n]
      BY <3>2
    <3> HIDE DEF parts, places
    <3>6. FlattenSeq(parts) = SubSeq(ids, 1, places[n])
      BY <2>3, <3>2, <3>3, <3>4, PartsJoin
    <3> QED
      BY <3>5, <3>6
  <2>5. cut[n] \in 0 .. N
    BY <1>8
  <2>6. PICK k, first : k = cut[n] /\ first = SubSeq(ids, 1, k)
    OBVIOUS
  <2>7. first \in Seq(S) /\ Len(first) = k
    <3>1. k \in 0 .. Len(ids) /\ 0 \in 0 .. k /\ first = SubSeq(ids, 0 + 1, k)
      BY <1>8, <2>3, <2>5, <2>6
    <3>2. first \in Seq(S) /\ Len(first) = k - 0
      BY <2>3, <3>1, SliceOf
    <3> QED
      BY <2>5, <2>6, <3>2
  <2>8. SubSeq(first, 1, Len(first)) = first
    BY <2>7
  <2>9. IsPrefix(first, ids)
    BY <2>3, <2>5, <2>6, <2>7, <2>8 DEF IsPrefix
  <2> HIDE DEF parts
  <2> QED
    BY <2>1, <2>2, <2>4, <2>6, <2>9
<1> QED
  BY <1>1, <1>2, <1>3, <1>6, <1>8, <1>10, <1>11 DEF C, ids

LEMMA FitFollows == Inv => PayloadsFit
<1> SUFFICES ASSUME Inv, NEW g \in Groups
             PROVE  /\ \A c \in 1 .. HandedOver(g) : RequestFits[g][c]
                    /\ IsPrefix(SpansOfFirst[g][HandedOver(g)], Ids(Entries[g[1]][g[2]].items))
  BY DEF PayloadsFit, Ids
<1>1. PICK e \in Exports : g \in GroupsOf[e]
  BY DEF Groups
<1>2. PICK a \in DOMAIN Entries[e] : g = <<e, a>>
  <2>1. GroupsOf[e] = {e} \X DOMAIN Entries[e]
    BY BatchAssumption DEF BatchAssumption
  <2> QED
    BY <1>1, <2>1
<1>3. Chunks[g] = Len(Requests[g])
  BY BatchAssumption DEF BatchAssumption
<1>4. HandedOver(g) \in 0 .. Len(Requests[g])
  <2>1. Chunks[g] \in Nat /\ group[g].chunk \in 1 .. Chunks[g]
    BY ExporterAssumption DEF ExporterAssumption, Inv, TypeOK
  <2> QED
    BY <1>3, <2>1 DEF HandedOver
<1>5. \A c \in 1 .. HandedOver(g) : c \in 1 .. Len(Requests[g])
  BY <1>2, <1>4, RequestsFit
<1>6. g[1] = e /\ g[2] = a
  BY <1>2
<1> QED
  BY <1>2, <1>4, <1>5, <1>6, RequestsFit

\* PayloadsFit: whatever the batch, no request is empty or, as estimated, over the limit unless
\* it is a single span; and what has been handed over of a group at any time is a first part of
\* its spans, in order and without a gap.
THEOREM PayloadsAreWithinLimit == Spec => []PayloadsFit
BY InitInv, NextInv, FitFollows, PTL DEF Spec
=============================================================================
