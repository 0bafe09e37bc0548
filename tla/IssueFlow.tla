----------------------------- MODULE IssueFlow -----------------------------
(***************************************************************************)
(* An issue becomes a job, and its end comes back: the example handler of  *)
(* GitHub events, the house's admission by idempotency key, and the outbox *)
(* of terminal webhooks with its Oban worker.                              *)
(*                                                                         *)
(* A call is one HTTP request of GitHub to the handler; a redelivery is a  *)
(* call with the same key.  A job, and the event of its end, is named by   *)
(* the request that created it; a retried job has further events, whose    *)
(* rows are independent of this one.  Signatures are taken to be genuine:  *)
(* what is left of them is the age of the timestamp they cover.            *)
(***************************************************************************)
EXTENDS Integers, FiniteSets

CONSTANTS
  Call,         \* requests of GitHub
  KeyOf,        \* the idempotency key of each: repository, issue and label
  None,         \* no job
  ActiveLimit,  \* max_active_jobs of the handler's token
  MaxFaults,    \* bound: crashes, and transactions that end busy
  MaxRequeues   \* bound: redeliveries an operator asks for

ASSUME IssueAssumption ==
  /\ IsFiniteSet(Call) /\ None \notin Call
  /\ Call \intersect {"none", "look", "insert", "race", "refused"} = {}
  /\ ActiveLimit \in Nat
  /\ MaxFaults \in Nat /\ MaxRequeues \in Nat

VARIABLES
  call,     \* where the handler is with each call
  answer,   \* the job a call was answered with
  req,      \* the POST of each call in the house
  job,      \* the job each request has created
  row,      \* webhook_deliveries.status of each event
  oban,     \* its dispatcher: the Oban job and the step of its process
  age,      \* 0: within 300 s of the event, 1: later, 2: past the retry window
  operator, \* the status an operator's redelivery has read
  requeued, \* the events a redelivery was asked for
  requeues, \* how many were
  told,     \* the events on_terminal has acted on
  faults

github_vars == <<call, answer>>
admit_vars  == <<req, job>>
asked_vars  == <<operator, requeued, requeues>>
outbox_vars == <<row, oban, age, asked_vars, told>>
ivars       == <<github_vars, admit_vars, outbox_vars, faults>>


\* The Oban states that WebhookDeliveryWorker's uniqueness counts as incomplete.
\* An executing process posts, has an answer, or is about to report its result.
Executing  == {"post", "ok", "fail", "ack"}
Incomplete == Executing \union {"ready", "orphan"}

JobsOf(key) == {j \in Call : job[j] # "none" /\ KeyOf[j] = key}
ActiveJobs  == {j \in Call : job[j] = "active"}

ITypeOK ==
  /\ faults \in 0..MaxFaults
  /\ call \in [Call -> {"idle", "waiting", "admitted", "closed"}]
  /\ answer \in [Call -> Call \union {None}]
  /\ req \in [Call -> {"none", "look", "insert", "race", "refused"} \union Call]
  /\ job \in [Call -> {"none", "active", "ended"}]
  /\ row \in [Call -> {"none", "pending", "delivering", "delivered", "failed", "dead"}]
  /\ oban \in [Call -> {"none", "done"} \union Incomplete]
  /\ age \in [Call -> 0..2]
  /\ operator \in [Call -> {"none", "pending", "failed", "dead"}]
  /\ requeued \subseteq Call /\ requeues \in 0..MaxRequeues
  /\ told \subseteq Call

IInit ==
  /\ faults = 0
  /\ call = [c \in Call |-> "idle"] /\ answer = [c \in Call |-> None]
  /\ req = [c \in Call |-> "none"]
  /\ job = [c \in Call |-> "none"]
  /\ row = [e \in Call |-> "none"] /\ oban = [e \in Call |-> "none"]
  /\ age = [e \in Call |-> 0] /\ operator = [e \in Call |-> "none"]
  /\ requeued = {} /\ requeues = 0 /\ told = {}

-----------------------------------------------------------------------------
(* POST /github *)

\* envelope_for: only the configured trigger is work; a ping and everything else
\* is acknowledged.  A closed call was answered without a job, or not at all.
Github(c) ==
  /\ call[c] = "idle"
  /\ \/ call' = [call EXCEPT ![c] = "waiting"] /\ req' = [req EXCEPT ![c] = "look"]
     \/ call' = [call EXCEPT ![c] = "closed"] /\ UNCHANGED req
  /\ UNCHANGED <<answer, job, outbox_vars, faults>>

\* Faulty form: an answer is an answer, whatever its status.
AnswerAnything(c) ==
  /\ call[c] = "waiting" /\ req[c] \in Call \union {"refused"}
  /\ call' = [call EXCEPT ![c] = "admitted"] /\ answer' = [answer EXCEPT ![c] = req[c]]
  /\ UNCHANGED <<admit_vars, outbox_vars, faults>>

\* The house has answered: 202 with the job, or 502.
AnswerGithub(c) ==
  /\ call[c] = "waiting"
  /\ \/ /\ req[c] \in Call
        /\ call' = [call EXCEPT ![c] = "admitted"] /\ answer' = [answer EXCEPT ![c] = req[c]]
     \/ /\ req[c] = "refused"
        /\ call' = [call EXCEPT ![c] = "closed"] /\ UNCHANGED answer
  /\ UNCHANGED <<admit_vars, outbox_vars, faults>>

\* 15 s without an answer, a connection that breaks, a handler that stops: GitHub
\* has no job, and the house goes on with the request.
SubmitTimesOut(c) ==
  /\ call[c] = "waiting"
  /\ call' = [call EXCEPT ![c] = "closed"]
  /\ UNCHANGED <<answer, admit_vars, outbox_vars, faults>>

-----------------------------------------------------------------------------
(* Admission.admit_once *)

\* Validation, the token, the configuration or a drain may refuse instead, and the
\* house may not be reached.
FindExisting(c) ==
  /\ req[c] = "look"
  /\ \E r \in {"refused"} \union (IF JobsOf(KeyOf[c]) = {} THEN {"insert"} ELSE JobsOf(KeyOf[c])) :
       req' = [req EXCEPT ![c] = r]
  /\ UNCHANGED <<github_vars, job, outbox_vars, faults>>

\* Faulty form: the table has no unique index on the key.
InsertUnchecked(c) ==
  /\ req[c] = "insert"
  /\ IF Cardinality(ActiveJobs) >= ActiveLimit
     THEN req' = [req EXCEPT ![c] = "refused"] /\ UNCHANGED job
     ELSE /\ req' = [req EXCEPT ![c] = c]
          /\ job' = [job EXCEPT ![c] = "active"]
  /\ UNCHANGED <<github_vars, outbox_vars, faults>>

\* One transaction that holds the token's row: the limit is asked before the key.
InsertSingle(c) ==
  /\ req[c] = "insert"
  /\ IF Cardinality(ActiveJobs) >= ActiveLimit
     THEN req' = [req EXCEPT ![c] = "refused"] /\ UNCHANGED job
     ELSE IF JobsOf(KeyOf[c]) # {}
     THEN req' = [req EXCEPT ![c] = "race"] /\ UNCHANGED job
     ELSE /\ req' = [req EXCEPT ![c] = c]
          /\ job' = [job EXCEPT ![c] = "active"]
  /\ UNCHANGED <<github_vars, outbox_vars, faults>>

\* Faulty form: the answer names the job that was rolled back.
AnswerAfterRace(c) ==
  /\ req[c] = "race"
  /\ req' = [req EXCEPT ![c] = c]
  /\ UNCHANGED <<github_vars, job, outbox_vars, faults>>

FetchAfterRace(c) ==
  /\ req[c] = "race"
  /\ \E j \in JobsOf(KeyOf[c]) : req' = [req EXCEPT ![c] = j]
  /\ UNCHANGED <<github_vars, job, outbox_vars, faults>>

-----------------------------------------------------------------------------
(* The job: record_event! enqueues in the transaction that ends it *)

JobEnds(j) ==
  /\ job[j] = "active"
  /\ job' = [job EXCEPT ![j] = "ended"]
  /\ row' = [row EXCEPT ![j] = "pending"] /\ oban' = [oban EXCEPT ![j] = "ready"]
  /\ UNCHANGED <<github_vars, req, age, asked_vars, told, faults>>

-----------------------------------------------------------------------------
(* WebhookDeliveryWorker.perform: claim, dispatch, finish *)

Dispatcher(e, r, o) ==
  /\ row' = [row EXCEPT ![e] = r] /\ oban' = [oban EXCEPT ![e] = o]

\* A row that is not due is snoozed, which changes nothing here.
ClaimDelivery(e) ==
  /\ oban[e] = "ready"
  /\ \/ row[e] \in {"delivered", "dead", "delivering"} /\ Dispatcher(e, row[e], "ack")
     \/ row[e] \in {"pending", "failed"} /\ age[e] = 2 /\ Dispatcher(e, "dead", "ack")
     \/ row[e] \in {"pending", "failed"} /\ age[e] < 2 /\ Dispatcher(e, "delivering", "post")
  /\ UNCHANGED <<github_vars, admit_vars, age, asked_vars, told, faults>>

\* The handler acts on an event of the last 300 s, whether its answer arrives or
\* not, and refuses an older one.
PostDelivery(e) ==
  /\ oban[e] = "post"
  /\ \/ /\ age[e] = 0
        /\ told' = told \union {e}
        /\ \E a \in {"ok", "fail"} : oban' = [oban EXCEPT ![e] = a]
     \/ oban' = [oban EXCEPT ![e] = "fail"] /\ UNCHANGED told
  /\ UNCHANGED <<github_vars, admit_vars, row, age, asked_vars, faults>>

FinishDelivered(e) ==
  /\ oban[e] = "ok"
  /\ Dispatcher(e, "delivered", "ack")
  /\ UNCHANGED <<github_vars, admit_vars, age, asked_vars, told, faults>>

\* Faulty form: any answer of the handler is a delivery.
FinishAnswered(e) ==
  /\ oban[e] = "fail"
  /\ \E r \in {"delivered", "failed"} :
       Dispatcher(e, r, IF r = "failed" THEN "ready" ELSE "ack")
  /\ UNCHANGED <<github_vars, admit_vars, age, asked_vars, told, faults>>

\* Faulty form: the worker does not ask Oban to come back.
FinishForGood(e) ==
  /\ oban[e] = "fail"
  /\ Dispatcher(e, IF age[e] = 2 THEN "dead" ELSE "failed", "ack")
  /\ UNCHANGED <<github_vars, admit_vars, age, asked_vars, told, faults>>

\* finish_failure: dead when the next try, at most an hour later, is past the window.
FinishFailure(e) ==
  /\ oban[e] = "fail"
  /\ \/ age[e] < 2 /\ Dispatcher(e, "failed", "ready")
     \/ age[e] > 0 /\ Dispatcher(e, "dead", "ack")
  /\ UNCHANGED <<github_vars, admit_vars, age, asked_vars, told, faults>>

\* Tx.run answers busy: the worker snoozes and the row stays as it is.
FinishBusy(e) ==
  /\ oban[e] \in {"ok", "fail"} /\ faults < MaxFaults
  /\ oban' = [oban EXCEPT ![e] = "ready"] /\ faults' = faults + 1
  /\ UNCHANGED <<github_vars, admit_vars, row, age, asked_vars, told>>

\* Oban completes the job after perform has returned.
Ack(e) ==
  /\ oban[e] = "ack"
  /\ oban' = [oban EXCEPT ![e] = "done"]
  /\ UNCHANGED <<github_vars, admit_vars, row, age, asked_vars, told, faults>>

\* The house dies and comes back: its requests and its processes are gone.
HouseCrashes ==
  /\ faults < MaxFaults
  /\ faults' = faults + 1
  /\ req' = [c \in Call |-> IF req[c] \in {"look", "insert", "race"} THEN "refused" ELSE req[c]]
  /\ oban' = [e \in Call |-> IF oban[e] \in Executing THEN "orphan" ELSE oban[e]]
  /\ operator' = [e \in Call |-> "none"]
  /\ UNCHANGED <<github_vars, job, row, age, requeued, requeues, told>>

\* Lifeline, an hour later.
Rescue(e) ==
  /\ oban[e] = "orphan"
  /\ oban' = [oban EXCEPT ![e] = "ready"]
  /\ UNCHANGED <<github_vars, admit_vars, row, age, asked_vars, told, faults>>

Ages(e) ==
  /\ row[e] # "none" /\ age[e] < 2
  /\ age' = [age EXCEPT ![e] = @ + 1]
  /\ UNCHANGED <<github_vars, admit_vars, row, oban, asked_vars, told, faults>>

-----------------------------------------------------------------------------
(* Webhooks.redeliver: the row is read without a lock and written later *)

RequeueRead(e) ==
  /\ operator[e] = "none" /\ requeues < MaxRequeues
  /\ row[e] \in {"failed", "dead", "pending"}
  /\ operator' = [operator EXCEPT ![e] = row[e]]
  /\ requeued' = requeued \union {e} /\ requeues' = requeues + 1
  /\ UNCHANGED <<github_vars, admit_vars, row, oban, age, told, faults>>

\* The update writes the fields that differ from what was read; Oban.insert
\* keeps an incomplete job of the same row.
Requeue(e) ==
  /\ operator[e] # "none"
  /\ row' = IF operator[e] = "pending" THEN row ELSE [row EXCEPT ![e] = "pending"]
  /\ oban' = IF oban[e] \in Incomplete THEN oban ELSE [oban EXCEPT ![e] = "ready"]
  /\ operator' = [operator EXCEPT ![e] = "none"]
  /\ UNCHANGED <<github_vars, admit_vars, age, requeued, requeues, told, faults>>

-----------------------------------------------------------------------------
Handle(c) ==
  \/ Github(c) \/ AnswerGithub(c) \/ SubmitTimesOut(c)
  \/ FindExisting(c) \/ InsertSingle(c) \/ FetchAfterRace(c)
  \/ JobEnds(c)

Perform(e) ==
  ClaimDelivery(e) \/ PostDelivery(e) \/ FinishDelivered(e) \/ FinishFailure(e) \/ Ack(e)

INext ==
  \/ \E c \in Call : Handle(c)
  \/ \E e \in Call : Perform(e) \/ FinishBusy(e) \/ Rescue(e) \/ Ages(e) \/ RequeueRead(e) \/ Requeue(e)
  \/ HouseCrashes

\* Oban runs its queue and Lifeline, and time passes.  Nothing is assumed of
\* GitHub, of the handler or of the jobs.
IFairness == \A e \in Call : WF_ivars(Perform(e)) /\ WF_ivars(Rescue(e)) /\ WF_ivars(Ages(e))

ISpec == IInit /\ [][INext]_ivars /\ IFairness

-----------------------------------------------------------------------------
(* Properties *)

\* However the calls, their redeliveries and the two reads of admit_once fall, an
\* issue's key has one job, and that is the job that GitHub is answered, also by the
\* loser of a race.
OneJobPerKey ==
  /\ \A c \in Call : \A i, j \in JobsOf(KeyOf[c]) : i = j
  /\ \A c \in Call : call[c] = "admitted" => answer[c] \in JobsOf(KeyOf[c])

\* A delivery is recorded as made only when the handler has acted on the event,
\* although the row is written in a transaction after the answer.
DeliveredWasTold == \A e \in Call : row[e] = "delivered" => e \in told

\* A row that waits has an Oban job that will take it, after every retry, busy
\* transaction, crash and rescue, as long as no operator has requeued it: a requeue
\* that meets the process of the row's end inserts nothing.
WaitingHasDispatcher ==
  \A e \in Call : row[e] \in {"pending", "failed"} /\ e \notin requeued => oban[e] \in Incomplete

\* A row marked delivering by a process that is gone.
Abandoned(e) == row[e] = "delivering" /\ oban[e] \notin {"post", "ok", "fail"}

\* Every terminal event is delivered or given up, unless a fault falls between the
\* claim of its row and the end of it, or an operator requeues it.
EventSettles ==
  \A e \in Call :
    row[e] = "pending" ~> (row[e] \in {"delivered", "dead"} \/ Abandoned(e) \/ e \in requeued)

\* "Delivery is at-least-once" (webhooks.ex:6): every terminal event is delivered
\* or given up, whatever faults there are.
AtLeastOnce == \A e \in Call : row[e] = "pending" ~> row[e] \in {"delivered", "dead"}

=============================================================================
