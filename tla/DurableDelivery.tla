--------------------------- MODULE DurableDelivery ---------------------------
(***************************************************************************)
(* What durable delivery promises, and nothing of how: a record answered   *)
(* with true has reached the endpoint or is in the custody of the store,   *)
(* and custody ends only for a record the endpoint received or refused for *)
(* good, or one removed to make room for another that is being stored.     *)
(* The endpoint may receive a record more than once.                       *)
(***************************************************************************)
CONSTANTS Records,
          NoAnswer  \* deliver(r) has not answered

VARIABLES custody,  \* the records the store holds
          received, \* the records the endpoint has received
          refused,  \* the records the endpoint refused for good
          answer    \* answer[r]: what deliver(r) resolved to, or NoAnswer

vars == <<custody, received, refused, answer>>

Init ==
  /\ custody = {} /\ received = {} /\ refused = {}
  /\ answer = [r \in Records |-> NoAnswer]

\* The endpoint receives r; the sender may not learn of it.
Receive(r) ==
  /\ received' = received \cup {r}
  /\ UNCHANGED <<custody, refused, answer>>

\* The endpoint receives r and deliver(r) says so.
ReceiveAndAnswer(r) ==
  /\ answer[r] = NoAnswer
  /\ received' = received \cup {r}
  /\ answer' = [answer EXCEPT ![r] = TRUE]
  /\ UNCHANGED <<custody, refused>>

\* The endpoint refuses r for good; a deliver(r) in progress answers false.
Refuse(r) ==
  /\ refused' = refused \cup {r}
  /\ \/ answer[r] = NoAnswer /\ answer' = [answer EXCEPT ![r] = FALSE]
     \/ UNCHANGED answer
  /\ UNCHANGED <<custody, received>>

\* The store takes r over, at the expense of others perhaps; deliver(r) answers true, or
\* false if the store could not be sure of it.
TakeOver(r) ==
  /\ answer[r] = NoAnswer
  /\ \E evicted \in SUBSET (custody \ {r}) : custody' = (custody \ evicted) \cup {r}
  /\ \E b \in BOOLEAN : answer' = [answer EXCEPT ![r] = b]
  /\ UNCHANGED <<received, refused>>

\* deliver(r) gives up, perhaps after others made room for it.
GiveUp(r) ==
  /\ answer[r] = NoAnswer
  /\ \E evicted \in SUBSET custody : custody' = custody \ evicted
  /\ answer' = [answer EXCEPT ![r] = FALSE]
  /\ UNCHANGED <<received, refused>>

\* The store is done with r.
LetGo(r) ==
  /\ r \in custody /\ r \in received \cup refused
  /\ custody' = custody \ {r}
  /\ UNCHANGED <<received, refused, answer>>

Next ==
  \E r \in Records :
    \/ Receive(r) \/ ReceiveAndAnswer(r) \/ Refuse(r) \/ TakeOver(r) \/ GiveUp(r) \/ LetGo(r)

Spec == Init /\ [][Next]_vars
=============================================================================
