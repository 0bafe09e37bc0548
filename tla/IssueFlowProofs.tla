-------------------------- MODULE IssueFlowProofs --------------------------
(***************************************************************************)
(* Proofs about the flow of issues, for any calls, keys and limit, and any *)
(* number of faults and redeliveries.  Each safety property of IssueFlow   *)
(* holds of one half of the state: admission (the calls, their requests    *)
(* and the jobs) and the outbox (the rows and their dispatchers).          *)
(***************************************************************************)
EXTENDS IssueFlow, TLAPS

\* A request that holds an answer holds the job of its own key.
HeldAnswers == \A c \in Call : req[c] \in Call => req[c] \in JobsOf(KeyOf[c])

AdmitInv == OneJobPerKey /\ HeldAnswers

\* A process that reports a success has had the handler's answer.
AnswerWasTold == \A e \in Call : oban[e] = "ok" => e \in told

\* A process that is about to leave has left its row at an end.
AckMeansOver ==
  \A e \in Call : oban[e] = "ack" /\ e \notin requeued => row[e] \notin {"pending", "failed"}

\* Nobody writes a row back to pending who has not asked for it.
WriterHasAsked == \A e \in Call : operator[e] # "none" => e \in requeued

OutboxInv ==
  /\ AnswerWasTold /\ DeliveredWasTold
  /\ WriterHasAsked /\ AckMeansOver /\ WaitingHasDispatcher

IInv == ITypeOK /\ AdmitInv /\ OutboxInv

-----------------------------------------------------------------------------
(* Types *)

\* The flow starts with every variable in its domain.
LEMMA InitITypeOK == IInit => ITypeOK
BY IssueAssumption DEF IssueAssumption, IInit, ITypeOK, Incomplete, Executing

\* Each action keeps every variable in its domain.
LEMMA ITypeOKStep == ITypeOK /\ [INext]_ivars => ITypeOK'
<1> SUFFICES ASSUME ITypeOK, [INext]_ivars PROVE ITypeOK'
  OBVIOUS
<1> USE DEF ITypeOK, github_vars, admit_vars, asked_vars, outbox_vars
<1>1. ASSUME NEW c \in Call, Github(c) PROVE ITypeOK'
  BY <1>1 DEF Github
<1>2. ASSUME NEW c \in Call, AnswerGithub(c) PROVE ITypeOK'
  BY <1>2 DEF AnswerGithub
<1>3. ASSUME NEW c \in Call, SubmitTimesOut(c) PROVE ITypeOK'
  BY <1>3 DEF SubmitTimesOut
<1>4. ASSUME NEW c \in Call, FindExisting(c) PROVE ITypeOK'
  BY <1>4 DEF FindExisting, JobsOf
<1>5. ASSUME NEW c \in Call, InsertSingle(c) PROVE ITypeOK'
  BY <1>5 DEF InsertSingle
<1>6. ASSUME NEW c \in Call, FetchAfterRace(c) PROVE ITypeOK'
  BY <1>6 DEF FetchAfterRace, JobsOf
<1>7. ASSUME NEW j \in Call, JobEnds(j) PROVE ITypeOK'
  BY <1>7 DEF JobEnds, Incomplete
<1>8. ASSUME NEW e \in Call, ClaimDelivery(e) PROVE ITypeOK'
  BY <1>8 DEF ClaimDelivery, Dispatcher, Incomplete, Executing
<1>9. ASSUME NEW e \in Call, PostDelivery(e) PROVE ITypeOK'
  BY <1>9 DEF PostDelivery, Incomplete, Executing
<1>10. ASSUME NEW e \in Call, FinishDelivered(e) PROVE ITypeOK'
  BY <1>10 DEF FinishDelivered, Dispatcher, Incomplete, Executing
<1>11. ASSUME NEW e \in Call, FinishFailure(e) PROVE ITypeOK'
  BY <1>11 DEF FinishFailure, Dispatcher, Incomplete, Executing
<1>12. ASSUME NEW e \in Call, Ack(e) PROVE ITypeOK'
  BY <1>12 DEF Ack
<1>13. ASSUME NEW e \in Call, FinishBusy(e) PROVE ITypeOK'
  BY <1>13, IssueAssumption DEF FinishBusy, Incomplete, IssueAssumption
<1>14. ASSUME NEW e \in Call, Rescue(e) PROVE ITypeOK'
  BY <1>14 DEF Rescue, Incomplete
<1>15. ASSUME NEW e \in Call, Ages(e) PROVE ITypeOK'
  BY <1>15 DEF Ages
<1>16. ASSUME NEW e \in Call, RequeueRead(e) PROVE ITypeOK'
  BY <1>16, IssueAssumption DEF RequeueRead, IssueAssumption
<1>17. ASSUME NEW e \in Call, Requeue(e) PROVE ITypeOK'
  BY <1>17 DEF Requeue, Incomplete
<1>18. ASSUME HouseCrashes PROVE ITypeOK'
  BY <1>18, IssueAssumption DEF HouseCrashes, Incomplete, IssueAssumption
<1>19. ASSUME UNCHANGED ivars PROVE ITypeOK'
  BY <1>19 DEF ivars
<1>20. QED
  BY <1>1, <1>2, <1>3, <1>4, <1>5, <1>6, <1>7, <1>8, <1>9, <1>10, <1>11, <1>12, <1>13,
     <1>14, <1>15, <1>16, <1>17, <1>18, <1>19 DEF INext, Handle, Perform

-----------------------------------------------------------------------------
(* Admission *)

\* What a step does not touch stays true.
LEMMA AdmitUntouched == AdmitInv /\ UNCHANGED <<github_vars, admit_vars>> => AdmitInv'
BY DEF AdmitInv, OneJobPerKey, HeldAnswers, JobsOf, github_vars, admit_vars

\* A job that ends keeps its key.
LEMMA SameJobs ==
  ASSUME NEW key, \A c \in Call : (job[c] # "none") <=> (job'[c] # "none")
  PROVE  JobsOf(key)' = JobsOf(key)
BY DEF JobsOf

\* Only the insertion adds to the jobs of a key, and only to a key that has none.
LEMMA AdmitStep == ITypeOK /\ AdmitInv /\ [INext]_ivars => AdmitInv'
<1> SUFFICES ASSUME ITypeOK, AdmitInv, [INext]_ivars PROVE AdmitInv'
  OBVIOUS
<1>0. /\ Call \intersect {"none", "look", "insert", "race", "refused"} = {}
      /\ call \in [Call -> {"idle", "waiting", "admitted", "closed"}]
      /\ answer \in [Call -> Call \union {None}]
      /\ req \in [Call -> {"none", "look", "insert", "race", "refused"} \union Call]
      /\ job \in [Call -> {"none", "active", "ended"}]
  BY IssueAssumption DEF IssueAssumption, ITypeOK
<1>1. ASSUME NEW c \in Call, Github(c) PROVE AdmitInv'
  BY <1>0, <1>1 DEF Github, AdmitInv, OneJobPerKey, HeldAnswers, JobsOf, outbox_vars
<1>2. ASSUME NEW c \in Call, AnswerGithub(c) PROVE AdmitInv'
  <2>1. HeldAnswers' /\ \A k \in Call : JobsOf(KeyOf[k])' = JobsOf(KeyOf[k])
    BY <1>2 DEF AnswerGithub, AdmitInv, HeldAnswers, JobsOf, admit_vars
  <2>2. ASSUME NEW k \in Call, call'[k] = "admitted" PROVE answer'[k] \in JobsOf(KeyOf[k])
    <3>1. CASE k = c /\ req[c] \in Call
      <4>1. answer'[k] = req[c]
        BY <1>0, <1>2, <3>1 DEF AnswerGithub
      <4>2. QED
        BY <3>1, <4>1 DEF AdmitInv, HeldAnswers
    <3>2. CASE ~(k = c /\ req[c] \in Call)
      <4>1. call[k] = "admitted" /\ answer'[k] = answer[k]
        BY <1>0, <1>2, <2>2, <3>2 DEF AnswerGithub
      <4>2. QED
        BY <4>1 DEF AdmitInv, OneJobPerKey
    <3>3. QED
      BY <3>1, <3>2
  <2>3. QED
    BY <2>1, <2>2 DEF AdmitInv, OneJobPerKey
<1>3. ASSUME NEW c \in Call, SubmitTimesOut(c) PROVE AdmitInv'
  BY <1>0, <1>3 DEF SubmitTimesOut, AdmitInv, OneJobPerKey, HeldAnswers, JobsOf, admit_vars
<1>4. ASSUME NEW c \in Call, FindExisting(c) PROVE AdmitInv'
  <2>1. PICK r \in {"refused"} \union (IF JobsOf(KeyOf[c]) = {} THEN {"insert"} ELSE JobsOf(KeyOf[c])) :
          req' = [req EXCEPT ![c] = r]
    BY <1>4 DEF FindExisting
  <2>2. r \in Call => r \in JobsOf(KeyOf[c])
    BY <1>0
  <2>3. HeldAnswers'
    BY <1>0, <1>4, <2>1, <2>2 DEF FindExisting, AdmitInv, HeldAnswers, JobsOf
  <2>4. OneJobPerKey'
    BY <1>4 DEF FindExisting, AdmitInv, OneJobPerKey, JobsOf, github_vars
  <2>5. QED
    BY <2>3, <2>4 DEF AdmitInv
<1>5. ASSUME NEW c \in Call, InsertSingle(c) PROVE AdmitInv'
  <2>1. CASE job' = job
    <3>1. req' = [req EXCEPT ![c] = "refused"] \/ req' = [req EXCEPT ![c] = "race"]
      BY <1>0, <1>5, <2>1 DEF InsertSingle, JobsOf
    <3>2. HeldAnswers'
      BY <1>0, <2>1, <3>1 DEF AdmitInv, HeldAnswers, JobsOf
    <3>3. OneJobPerKey'
      BY <1>5, <2>1 DEF InsertSingle, AdmitInv, OneJobPerKey, JobsOf, github_vars
    <3>4. QED
      BY <3>2, <3>3 DEF AdmitInv
  <2>2. CASE job' # job
    <3>1. /\ JobsOf(KeyOf[c]) = {}
          /\ req' = [req EXCEPT ![c] = c] /\ job' = [job EXCEPT ![c] = "active"]
          /\ UNCHANGED <<call, answer>>
      BY <1>5, <2>2 DEF InsertSingle, github_vars
    <3>2. \A k \in Call : JobsOf(KeyOf[k])' = IF KeyOf[k] = KeyOf[c] THEN {c} ELSE JobsOf(KeyOf[k])
      BY <1>0, <3>1 DEF JobsOf
    <3>3. \A k \in Call : JobsOf(KeyOf[k]) # {} => JobsOf(KeyOf[k])' = JobsOf(KeyOf[k])
      BY <3>1, <3>2
    <3>4. HeldAnswers'
      BY <1>0, <3>1, <3>2, <3>3 DEF AdmitInv, HeldAnswers
    <3>5. OneJobPerKey'
      BY <3>1, <3>2, <3>3 DEF AdmitInv, OneJobPerKey
    <3>6. QED
      BY <3>4, <3>5 DEF AdmitInv
  <2>3. QED
    BY <2>1, <2>2
<1>6. ASSUME NEW c \in Call, FetchAfterRace(c) PROVE AdmitInv'
  <2>1. PICK j \in JobsOf(KeyOf[c]) : req' = [req EXCEPT ![c] = j]
    BY <1>6 DEF FetchAfterRace
  <2>2. HeldAnswers'
    BY <1>0, <1>6, <2>1 DEF FetchAfterRace, AdmitInv, HeldAnswers, JobsOf
  <2>3. OneJobPerKey'
    BY <1>6 DEF FetchAfterRace, AdmitInv, OneJobPerKey, JobsOf, github_vars
  <2>4. QED
    BY <2>2, <2>3 DEF AdmitInv
<1>7. ASSUME NEW j \in Call, JobEnds(j) PROVE AdmitInv'
  <2>1. \A c \in Call : (job[c] # "none") <=> (job'[c] # "none")
    BY <1>0, <1>7 DEF JobEnds
  <2>2. \A c \in Call : JobsOf(KeyOf[c])' = JobsOf(KeyOf[c])
    BY <2>1, SameJobs
  <2>3. QED
    BY <1>7, <2>2 DEF JobEnds, AdmitInv, OneJobPerKey, HeldAnswers, github_vars
<1>8. ASSUME HouseCrashes PROVE AdmitInv'
  BY <1>0, <1>8 DEF HouseCrashes, AdmitInv, OneJobPerKey, HeldAnswers, JobsOf, github_vars
<1>9. ASSUME NEW e \in Call,
             Perform(e) \/ FinishBusy(e) \/ Rescue(e) \/ Ages(e) \/ RequeueRead(e) \/ Requeue(e)
      PROVE  AdmitInv'
  BY <1>9, AdmitUntouched
  DEF Perform, ClaimDelivery, PostDelivery, FinishDelivered, FinishFailure, Ack, FinishBusy,
      Rescue, Ages, RequeueRead, Requeue
<1>10. ASSUME UNCHANGED ivars PROVE AdmitInv'
  BY <1>10, AdmitUntouched DEF ivars
<1>11. QED
  BY <1>1, <1>2, <1>3, <1>4, <1>5, <1>6, <1>7, <1>8, <1>9, <1>10 DEF INext, Handle

-----------------------------------------------------------------------------
(* The outbox *)

\* A step outside the outbox keeps its half of the invariant.
LEMMA OutboxUntouched == OutboxInv /\ UNCHANGED outbox_vars => OutboxInv'
BY DEF OutboxInv, AnswerWasTold, DeliveredWasTold, WriterHasAsked, AckMeansOver,
       WaitingHasDispatcher, outbox_vars, asked_vars

\* A row and its process move together, except between perform's return and Oban's
\* completion, when the row is over, and where an operator has asked.
LEMMA OutboxStep == ITypeOK /\ OutboxInv /\ [INext]_ivars => OutboxInv'
<1> SUFFICES ASSUME ITypeOK, OutboxInv, [INext]_ivars PROVE OutboxInv'
  OBVIOUS
<1>0. /\ row \in [Call -> {"none", "pending", "delivering", "delivered", "failed", "dead"}]
      /\ oban \in [Call -> {"none", "done"} \union Incomplete]
      /\ age \in [Call -> 0..2]
      /\ operator \in [Call -> {"none", "pending", "failed", "dead"}]
  BY DEF ITypeOK
<1> USE DEF OutboxInv, AnswerWasTold, DeliveredWasTold, WriterHasAsked, AckMeansOver,
            WaitingHasDispatcher, Incomplete, Executing, asked_vars
<1>1. ASSUME NEW j \in Call, JobEnds(j) PROVE OutboxInv'
  BY <1>0, <1>1 DEF JobEnds
<1>2. ASSUME NEW e \in Call, ClaimDelivery(e) PROVE OutboxInv'
  BY <1>0, <1>2 DEF ClaimDelivery, Dispatcher
<1>3. ASSUME NEW e \in Call, PostDelivery(e) PROVE OutboxInv'
  BY <1>0, <1>3 DEF PostDelivery
<1>4. ASSUME NEW e \in Call, FinishDelivered(e) PROVE OutboxInv'
  BY <1>0, <1>4 DEF FinishDelivered, Dispatcher
<1>5. ASSUME NEW e \in Call, FinishFailure(e) PROVE OutboxInv'
  BY <1>0, <1>5 DEF FinishFailure, Dispatcher
<1>6. ASSUME NEW e \in Call, Ack(e) PROVE OutboxInv'
  BY <1>0, <1>6 DEF Ack
<1>7. ASSUME NEW e \in Call, FinishBusy(e) PROVE OutboxInv'
  BY <1>0, <1>7 DEF FinishBusy
<1>8. ASSUME NEW e \in Call, Rescue(e) PROVE OutboxInv'
  BY <1>0, <1>8 DEF Rescue
<1>9. ASSUME NEW e \in Call, Ages(e) PROVE OutboxInv'
  BY <1>9 DEF Ages
<1>10. ASSUME NEW e \in Call, RequeueRead(e) PROVE OutboxInv'
  BY <1>0, <1>10 DEF RequeueRead
<1>11. ASSUME NEW e \in Call, Requeue(e) PROVE OutboxInv'
  BY <1>0, <1>11 DEF Requeue
<1>12. ASSUME HouseCrashes PROVE OutboxInv'
  BY <1>0, <1>12 DEF HouseCrashes
<1>13. ASSUME NEW c \in Call,
              \/ Github(c) \/ AnswerGithub(c) \/ SubmitTimesOut(c)
              \/ FindExisting(c) \/ InsertSingle(c) \/ FetchAfterRace(c)
       PROVE  OutboxInv'
  BY <1>13, OutboxUntouched
  DEF Github, AnswerGithub, SubmitTimesOut, FindExisting, InsertSingle, FetchAfterRace
<1>14. ASSUME UNCHANGED ivars PROVE OutboxInv'
  BY <1>14, OutboxUntouched DEF ivars
<1>15. QED
  BY <1>1, <1>2, <1>3, <1>4, <1>5, <1>6, <1>7, <1>8, <1>9, <1>10, <1>11, <1>12, <1>13, <1>14
  DEF INext, Handle, Perform

-----------------------------------------------------------------------------
(* The inductive invariant *)

\* The invariant holds before the first call.
LEMMA InitIInv == IInit => IInv
<1> SUFFICES ASSUME IInit PROVE AdmitInv /\ OutboxInv
  BY InitITypeOK DEF IInv
<1>1. AdmitInv
  BY IssueAssumption DEF IssueAssumption, IInit, AdmitInv, OneJobPerKey, HeldAnswers, JobsOf
<1>2. OutboxInv
  BY DEF IInit, OutboxInv, AnswerWasTold, DeliveredWasTold, WriterHasAsked, AckMeansOver,
         WaitingHasDispatcher
<1>3. QED
  BY <1>1, <1>2

\* Every step keeps both halves of the invariant.
LEMMA IInvStep == IInv /\ [INext]_ivars => IInv'
BY ITypeOKStep, AdmitStep, OutboxStep DEF IInv

\* The strengthened invariant holds of every state of the flow.
THEOREM IssueInvariant == ISpec => []IInv
BY InitIInv, IInvStep, PTL DEF ISpec

\* Every variable stays in its domain.
THEOREM IssueTypeCorrect == ISpec => []ITypeOK
<1>1. IInv => ITypeOK
  BY DEF IInv
<1>2. QED
  BY IssueInvariant, <1>1, PTL

\* Whatever the calls, redeliveries, crashes and races, a key has one job, and GitHub
\* is told of that one (Admission.admit_once and the handler's submit).
THEOREM OneJobForEveryKey == ISpec => []OneJobPerKey
<1>1. IInv => OneJobPerKey
  BY DEF IInv, AdmitInv
<1>2. QED
  BY IssueInvariant, <1>1, PTL

\* A row says delivered only of an event that the handler has acted on
\* (WebhookDeliveryWorker.finish_delivered).
THEOREM DeliveryIsTrue == ISpec => []DeliveredWasTold
<1>1. IInv => DeliveredWasTold
  BY DEF IInv, OutboxInv
<1>2. QED
  BY IssueInvariant, <1>1, PTL

\* A waiting row that no operator has requeued keeps an Oban job that will take it
\* (WebhookDeliveryWorker.perform under retries, busy transactions and rescues).
THEOREM NoRowIsStranded == ISpec => []WaitingHasDispatcher
<1>1. IInv => WaitingHasDispatcher
  BY DEF IInv, OutboxInv
<1>2. QED
  BY IssueInvariant, <1>1, PTL

=============================================================================
