----------------------------- MODULE WorkerNode -----------------------------
(***************************************************************************)
(* One worker of a manager, on top of the job store: the poller with its   *)
(* slots and its table of executions in flight, the executors and the      *)
(* tasks that send their completions, and the sweeper of output held for   *)
(* review.                                                                 *)
(*                                                                         *)
(* An execution <<j, n, k>> is a claim of attempt n of job j under token k.*)
(* The poller waits for the answer of each of its requests, so a request   *)
(* and its answer are one step of it.  When no answer comes the request    *)
(* may arrive at any later moment, or never.  Every step that touches the  *)
(* store is an operation of Jobs.                                          *)
(***************************************************************************)
EXTENDS Jobs

CONSTANTS
  SlotMax,        \* max of Slots
  CompleteTries,  \* @complete_attempts
  MayReview,      \* jobs whose environment holds refused output for review
  NoOffer,        \* no execution
  MaxFaults       \* bound: answers lost, refusals, requests that raise, deaths, unenrolments

ASSUME WorkerAssumption ==
  /\ SlotMax \in Nat \ {0} /\ CompleteTries \in Nat \ {0} /\ MaxFaults \in Nat
  /\ MayReview \subseteq Job
  /\ NoOffer \notin Job \X Attempt \X Token

VARIABLES
  pc,        \* the poller: idle, or where it is in a tick
  todo,      \* the executions whose heartbeat this tick has not sent
  offer,     \* the execution the poller is taking on
  used,      \* Slots
  inFlight,  \* the poller's in_flight
  task,      \* each execution: where its executor, then its completion, is (at),
             \* what the complete says, and how often it will still be tried (left)
  ran,       \* history: the executions whose executor returned a success
  record,    \* the record of held output on disk
  sweep,     \* the sweeper's task for the record
  complete,  \* the complete the record keeps, or the sweeper has made
  published, \* history: the executions whose held output was published
  wire,      \* requests that nobody waits for and that may still arrive
  leaked,    \* history: slots held by pollers that died
  dropped,   \* history: executions an idle poller has forgotten
  faults

poller_vars == <<pc, todo, offer, used, inFlight, leaked, dropped>>
task_vars   == <<task, ran>>
held_vars   == <<record, sweep, complete, published>>
net_vars    == <<wire, faults>>
wvars       == <<vars, poller_vars, task_vars, held_vars, net_vars>>

Exec == Job \X Attempt \X Token

Executor == {"run", "held"}                   \* held: the record is written
Mail     == {"done", "ok", "again", "drop"}   \* a message waits for the poller
Posting  == {"send", "resend"}
Working  == Executor \union Mail \union Posting \union {"wait"}

NoTask == [at |-> "none", says |-> "none", left |-> 0]
Over   == [NoTask EXCEPT !.at = "over"]

\* The record of held output; without it, why the output went.
Record == {"none", "kept", "complete", "gone", "refused", "expired"}

Request == [op : {"beat", "reject", "succeeded", "failed", "review"}, e : Exec]

AttemptOf(e)      == att[e[1]][e[2]]
Live(e)           == HoldsLease(AttemptOf(e), e[3])
InReview(e)       == AttemptOf(e).status = "review" /\ AttemptOf(e).token = e[3]
SameAttempt(e, f) == e[1] = f[1] /\ e[2] = f[2]

\* Map.fetch(in_flight, attempt_id)
Tracked(e) == \E f \in inFlight : SameAttempt(e, f)
Without(e) == {f \in inFlight : ~SameAttempt(e, f)}

Fault == faults < MaxFaults /\ faults' = faults + 1

\* 401 and 403, for the token of the worker; or a files complete without its blob,
\* whose upload has failed: 409.
TurnedAway == Fault /\ UNCHANGED <<vars, wire>>

Unanswered(op, e) == Fault /\ wire' = wire \union {[op |-> op, e |-> e]}

-----------------------------------------------------------------------------
(* What the manager does with a request: Inbox and Jobs *)

Renewed(e)  == Heartbeat(e[1], e[2], e[3])
Rejected(e) == \E h \in Gate : Unclaim(h, e[1], e[2], e[3])
Rejectable(e) == Live(e) /\ AttemptOf(e).status = "provisioning" /\ job[e[1]].status = "provisioning"

\* A refusal changes nothing.
Refuses(e, s) ==
  IF s = "review" THEN ~Live(e) /\ ~InReview(e)
  ELSE AttemptOf(e).status \notin Terminal /\ ~MayComplete(e[1], e[2], e[3])

\* Inbox.complete answers an attempt that is over, or held already, as it is.
Completed(e, s) ==
  \/ s = "review" /\ \E h \in Gate : Hold(h, e[1], e[2], e[3])
  \/ s # "review" /\ \E h \in Gate : Complete(h, e[1], e[2], e[3], s)
  \/ /\ \/ s = "review" /\ InReview(e)
        \/ s # "review" /\ AttemptOf(e).status \in Terminal
     /\ UNCHANGED vars

\* Faulty form: output whose attempt is not in review yet is not wanted.
CommandEager(e) ==
  LET a == AttemptOf(e)
  IN IF a.token = e[3] /\ a.status = "review"
     THEN IF job[e[1]].decision = "approve" THEN "publish" ELSE "ok"
     ELSE "cancel"

\* Faulty form: a review is a permission.
CommandUndecided(e) ==
  LET a == AttemptOf(e)
  IN IF a.token # e[3] \/ a.status \notin Active \union {"review"} THEN "cancel"
     ELSE IF a.status = "review" THEN "publish" ELSE "ok"

\* held_command
Command(e) ==
  LET a == AttemptOf(e)
  IN IF a.token # e[3] \/ a.status \notin Active \union {"review"} THEN "cancel"
     ELSE IF a.status = "review" /\ job[e[1]].decision = "approve" THEN "publish"
     ELSE "ok"

\* A request that nobody waits for any more.
Arrives(m) ==
  /\ m \in wire /\ wire' = wire \ {m}
  /\ \/ m.op = "beat" /\ Renewed(m.e)
     \/ m.op = "reject" /\ Rejected(m.e)
     \/ m.op \notin {"beat", "reject"} /\ Completed(m.e, m.op)
  /\ UNCHANGED <<poller_vars, task_vars, held_vars, faults>>

\* A poll whose answer is lost has claimed a job for nobody.
LostPoll(j) ==
  /\ pc # "idle" /\ Fault
  /\ \E h \in Gate, w \in Worker : ClaimNext(h, w, j)
  /\ UNCHANGED <<poller_vars, task_vars, held_vars, wire>>

-----------------------------------------------------------------------------
(* A tick: heartbeats, then a poll when a slot is free *)

Poller(next) == pc' = next /\ UNCHANGED <<leaked, dropped>>

\* Faulty form: one slot too many.
ThenPollOnceMore(slots) == IF slots <= SlotMax THEN "poll" ELSE "ready"

ThenPoll(slots) == IF slots < SlotMax THEN "poll" ELSE "ready"

Tick ==
  /\ pc = "ready"
  /\ todo' = inFlight
  /\ Poller(IF inFlight # {} THEN "beat" ELSE ThenPoll(used)) /\ pc' # "ready"
  /\ UNCHANGED <<vars, offer, used, inFlight, task_vars, held_vars, net_vars>>

\* Faulty form: a cancelled execution stays in the table.
CancelledAndKept(e) ==
  /\ AttemptOf(e).status \notin Active
  /\ task' = [task EXCEPT ![e] = IF @.at \in Executor THEN Over ELSE @]
  /\ used' = IF used = 0 THEN 0 ELSE used - 1
  /\ UNCHANGED <<vars, inFlight, ran, net_vars>>

\* The manager says that the attempt is no longer active: the executor is killed,
\* a completion under way is not.  A release at 0 stays 0.
Cancelled(e) ==
  /\ AttemptOf(e).status \notin Active
  /\ task' = [task EXCEPT ![e] = IF @.at \in Executor THEN Over ELSE @]
  /\ used' = IF used = 0 THEN 0 ELSE used - 1
  /\ inFlight' = Without(e)
  /\ UNCHANGED <<vars, ran, net_vars>>

\* Any other answer than cancel is ignored.
Beat(e) ==
  /\ pc = "beat" /\ e \in todo /\ todo' = todo \ {e}
  /\ \/ Cancelled(e)
     \/ /\ \/ Renewed(e) /\ UNCHANGED net_vars
           \/ AttemptOf(e).status \in Active /\ ~Live(e) /\ UNCHANGED <<vars, net_vars>>
           \/ Unanswered("beat", e) /\ UNCHANGED vars
        /\ UNCHANGED <<used, inFlight, task_vars>>
  /\ Poller(IF todo' = {} THEN ThenPoll(used') ELSE "beat")
  /\ UNCHANGED <<offer, held_vars>>

\* The poller alone takes slots, and polls only while one is free.
Poll ==
  /\ pc = "poll"
  /\ \/ /\ \E h \in Gate, w \in Worker, j \in Job :
             /\ ClaimNext(h, w, j)
             /\ offer' = <<j, job[j].cur, claims'[j]>>
        /\ used' = used + 1 /\ Poller("accept")
     \/ Poller("ready") /\ UNCHANGED <<vars, offer, used>>
  /\ UNCHANGED <<todo, inFlight, task_vars, held_vars, net_vars>>

\* handle_offer: the slot is taken before the answer to accept is known.
Accept ==
  LET e == offer
  IN /\ pc = "accept"
     /\ \/ /\ Renewed(e)
           /\ task' = [task EXCEPT ![e].at = "run"] /\ inFlight' = Without(e) \union {e}
           /\ offer' = NoOffer
           /\ Poller("ready") /\ UNCHANGED <<used, net_vars>>
        \/ /\ \/ /\ AttemptOf(e).status \notin Active
                 /\ offer' = NoOffer
                 /\ Poller("ready") /\ UNCHANGED net_vars
              \/ /\ AttemptOf(e).status \in Active /\ ~Live(e)
                 /\ Poller("reject") /\ UNCHANGED <<offer, net_vars>>
              \/ Unanswered("beat", e) /\ Poller("reject") /\ UNCHANGED offer
           /\ used' = IF used = 0 THEN 0 ELSE used - 1
           /\ UNCHANGED <<vars, inFlight, task>>
     /\ UNCHANGED <<todo, ran, held_vars>>

RejectOffer ==
  /\ pc = "reject" /\ offer' = NoOffer /\ Poller("ready")
  /\ \/ Rejected(offer) /\ UNCHANGED net_vars
     \/ ~Rejectable(offer) /\ UNCHANGED <<vars, net_vars>>
     \/ Unanswered("reject", offer) /\ UNCHANGED vars
  /\ UNCHANGED <<todo, used, inFlight, task_vars, held_vars>>

-----------------------------------------------------------------------------
(* The executor, and the completion of what it returns *)

Becomes(e, t) == task' = [task EXCEPT ![e].at = t]
Ends(e)       == task' = [task EXCEPT ![e] = Over]

ExecutorReturns(e) ==
  /\ task[e].at = "run"
  /\ \E s \in {"succeeded", "failed"} :
       /\ task' = [task EXCEPT ![e].at = "done", ![e].says = s]
       /\ ran' = IF s = "succeeded" THEN ran \union {e} ELSE ran
  /\ UNCHANGED <<vars, poller_vars, held_vars, net_vars>>

\* HeldOutput.hold writes the record before the container goes.
ExecutorHolds(e) ==
  /\ task[e].at = "run" /\ e[1] \in MayReview
  /\ task' = [task EXCEPT ![e].at = "held", ![e].says = "review"]
  /\ record' = [record EXCEPT ![e] = "kept"]
  /\ UNCHANGED <<vars, poller_vars, ran, sweep, complete, published, net_vars>>

ContainerGone(e) ==
  /\ task[e].at = "held" /\ Becomes(e, "done")
  /\ UNCHANGED <<vars, poller_vars, ran, held_vars, net_vars>>

\* The poller reads its mailbox between two ticks.
Reads == pc \in {"idle", "ready"}

\* An execution that is no longer in flight is ignored.
JobFinished(e) ==
  /\ Reads /\ task[e].at = "done"
  /\ \/ Tracked(e) /\ task' = [task EXCEPT ![e].at = "send", ![e].left = CompleteTries]
     \/ ~Tracked(e) /\ Ends(e)
  /\ UNCHANGED <<vars, poller_vars, ran, held_vars, net_vars>>

PostComplete(e) ==
  /\ task[e].at \in Posting
  /\ \/ Completed(e, task[e].says) /\ Becomes(e, "ok") /\ UNCHANGED net_vars
     \/ Refuses(e, task[e].says) /\ Becomes(e, "drop") /\ UNCHANGED <<vars, net_vars>>
     \/ TurnedAway /\ Becomes(e, "drop")
     \/ Unanswered(task[e].says, e) /\ Becomes(e, "again") /\ UNCHANGED vars
  /\ UNCHANGED <<poller_vars, ran, held_vars>>

\* A request that raises is replaced, once, by an error complete.
PostRaises(e) ==
  /\ Fault
  /\ \/ task[e].at = "send" /\ task' = [task EXCEPT ![e].at = "resend", ![e].says = "failed"]
     \/ task[e].at = "resend" /\ Becomes(e, "drop")
  /\ UNCHANGED <<vars, poller_vars, ran, held_vars, wire>>

Finish(e) ==
  /\ Ends(e) /\ used' = (IF used = 0 THEN 0 ELSE used - 1) /\ inFlight' = Without(e)

Waits(e) == task' = [task EXCEPT ![e].at = "wait", ![e].left = @ - 1]

\* Faulty form: a result is not asked whether its execution is still in flight.
ResultUnchecked(e) ==
  /\ Reads /\ task[e].at \in {"ok", "again", "drop"}
  /\ \/ task[e].at = "again" /\ task[e].left > 1 /\ Waits(e) /\ UNCHANGED <<used, inFlight>>
     \/ (task[e].at \in {"ok", "drop"} \/ task[e].left <= 1) /\ Finish(e)
  /\ UNCHANGED <<vars, pc, todo, offer, leaked, dropped, ran, held_vars, net_vars>>

\* Faulty form: a complete that is given up leaves its execution in flight.
ResultDropped(e) ==
  /\ Reads /\ task[e].at \in {"ok", "again", "drop"}
  /\ \/ /\ Tracked(e) /\ task[e].at = "again" /\ task[e].left > 1
        /\ Waits(e) /\ UNCHANGED <<used, inFlight>>
     \/ Tracked(e) /\ task[e].at = "ok" /\ Finish(e)
     \/ /\ ~Tracked(e) \/ task[e].at = "drop" \/ task[e].left <= 1
        /\ Ends(e) /\ UNCHANGED <<used, inFlight>>
  /\ UNCHANGED <<vars, pc, todo, offer, leaked, dropped, ran, held_vars, net_vars>>

\* handle_complete_result
CompleteResult(e) ==
  /\ Reads /\ task[e].at \in {"ok", "again", "drop"}
  /\ \/ ~Tracked(e) /\ Ends(e) /\ UNCHANGED <<used, inFlight>>
     \/ /\ Tracked(e) /\ task[e].at = "again" /\ task[e].left > 1
        /\ Waits(e) /\ UNCHANGED <<used, inFlight>>
     \/ Tracked(e) /\ (task[e].at \in {"ok", "drop"} \/ task[e].left <= 1) /\ Finish(e)
  /\ UNCHANGED <<vars, pc, todo, offer, leaked, dropped, ran, held_vars, net_vars>>

CompleteRetry(e) ==
  /\ Reads /\ task[e].at = "wait"
  /\ IF Tracked(e) THEN Becomes(e, "send") ELSE Ends(e)
  /\ UNCHANGED <<vars, poller_vars, ran, held_vars, net_vars>>

-----------------------------------------------------------------------------
(* HeldOutput.Sweeper.settle *)

Sweeps(e, s) == sweep' = [sweep EXCEPT ![e] = s]
Recorded(e, r) == record' = [record EXCEPT ![e] = r]
NoHeldChange == UNCHANGED <<vars, poller_vars, task_vars>>

\* An answer that keeps the output, and none at all, change nothing.  A manager that
\* refuses the token of the worker will never decide.
Ask(e) ==
  /\ record[e] = "kept" /\ sweep[e] = "idle" /\ pc # "idle"
  /\ \/ Command(e) # "ok" /\ Sweeps(e, Command(e)) /\ UNCHANGED <<vars, net_vars>>
     \/ TurnedAway /\ Sweeps(e, "refused")
  /\ UNCHANGED <<poller_vars, task_vars, record, complete, published>>

\* publish/1: the finalization may fail for good, and its failure is the complete.
Publish(e) ==
  /\ sweep[e] = "publish" /\ Sweeps(e, "write")
  /\ \/ /\ complete' = [complete EXCEPT ![e] = "succeeded"]
        /\ published' = published \union {e}
     \/ complete' = [complete EXCEPT ![e] = "failed"] /\ UNCHANGED published
  /\ NoHeldChange /\ UNCHANGED <<record, net_vars>>

\* A complete that cannot be written is made again.
WriteComplete(e) ==
  /\ sweep[e] = "write"
  /\ \/ Recorded(e, "complete") /\ Sweeps(e, "idle") /\ UNCHANGED faults
     \/ Fault /\ Sweeps(e, "idle") /\ UNCHANGED record
  /\ NoHeldChange /\ UNCHANGED <<complete, published, wire>>

\* deliver/1: the output goes when its complete is accepted, and when it is refused
\* for good, whatever the attempt is then.
Deliver(e) ==
  /\ record[e] = "complete" /\ sweep[e] = "idle" /\ pc # "idle"
  /\ \/ Completed(e, complete[e]) /\ Recorded(e, "gone") /\ UNCHANGED net_vars
     \/ Refuses(e, complete[e]) /\ Recorded(e, "gone") /\ UNCHANGED <<vars, net_vars>>
     \/ TurnedAway /\ Recorded(e, "refused")
     \/ Unanswered(complete[e], e) /\ UNCHANGED <<vars, record>>
  /\ UNCHANGED <<poller_vars, task_vars, sweep, complete, published>>

Discard(e) ==
  /\ \/ sweep[e] = "cancel" /\ Recorded(e, "gone")
     \/ sweep[e] = "refused" /\ Recorded(e, "refused")
  /\ Sweeps(e, "idle")
  /\ NoHeldChange /\ UNCHANGED <<complete, published, net_vars>>

\* Faulty form: the hour is counted from the hold.
RecordExpiresEarly(e) ==
  /\ record[e] \in {"kept", "complete"} /\ sweep[e] = "idle" /\ ~Live(e)
  /\ Recorded(e, "expired")
  /\ NoHeldChange /\ UNCHANGED <<sweep, complete, published, net_vars>>

\* An hour past the record's deadline the output goes, whatever the house says and
\* whether it was asked.  The hour covers the way of the hold and the skew of the clocks,
\* so the lease has ended by then and a review is past its own deadline; that the house
\* has failed the job is not sure: its recovery may be late.
RecordExpires(e) ==
  /\ record[e] \in {"kept", "complete"} /\ sweep[e] = "idle"
  /\ ~Live(e) /\ (InReview(e) => job[e[1]].due)
  /\ Recorded(e, "expired")
  /\ NoHeldChange /\ UNCHANGED <<sweep, complete, published, net_vars>>

-----------------------------------------------------------------------------
(* Deaths and enrolment *)

\* A request that raises in the poller takes it down; Slots, executors and tasks
\* live on, and the new poller hears none of them.
PollerDies ==
  /\ pc # "idle" /\ Fault
  /\ leaked' = leaked + Cardinality(inFlight) + (IF pc = "accept" THEN 1 ELSE 0)
  /\ inFlight' = {} /\ todo' = {} /\ offer' = NoOffer /\ pc' = "ready"
  /\ task' = [e \in Exec |-> IF task[e].at \in Mail \union {"wait"} THEN Over ELSE task[e]]
  /\ UNCHANGED <<vars, used, dropped, ran, held_vars, wire>>

\* Only what is on disk survives, and what is on the wire.
WorkerDies ==
  /\ Fault
  /\ pc' = "ready" /\ todo' = {} /\ offer' = NoOffer /\ used' = 0 /\ inFlight' = {}
  /\ leaked' = 0 /\ dropped' = {}
  /\ task' = [e \in Exec |-> IF task[e].at \in Working THEN Over ELSE task[e]]
  /\ sweep' = [e \in Exec |-> "idle"]
  /\ UNCHANGED <<vars, ran, record, complete, published, wire>>

\* The last house is removed: the poller forgets its executions and gives their
\* slots back; the executors run on.
Unenroll ==
  /\ pc = "ready" /\ Fault
  /\ pc' = "idle"
  /\ used' = used - Cardinality(inFlight) /\ inFlight' = {} /\ todo' = {}
  /\ dropped' = dropped \union inFlight
  /\ UNCHANGED <<vars, offer, leaked, task_vars, held_vars, wire>>

Enroll ==
  /\ pc = "idle" /\ pc' = "ready"
  /\ UNCHANGED <<vars, todo, offer, used, inFlight, leaked, dropped,
                 task_vars, held_vars, net_vars>>

-----------------------------------------------------------------------------

NodeKept == UNCHANGED <<poller_vars, task_vars, held_vars, net_vars>>

\* The manager's own operations.  The orphan grace has no effect on a manager,
\* whose dispatch rows stay as they are.
HouseMoves ==
  /\ \/ \E j \in Job : Approve(j) \/ Retry(j) \/ LeaseAges(j) \/ ReviewDue(j)
     \/ \E h \in Gate, j \in Job : House(h, j)
     \/ \E h \in Gate : RecoverStale(h)
  /\ NodeKept

PollerStep == Tick \/ (\E e \in Exec : Beat(e)) \/ Poll \/ Accept \/ RejectOffer

Receive(e) == JobFinished(e) \/ CompleteResult(e) \/ CompleteRetry(e)

TaskStep(e) == ExecutorReturns(e) \/ ExecutorHolds(e) \/ ContainerGone(e) \/ PostComplete(e)

SweeperStep(e) ==
  Ask(e) \/ Publish(e) \/ WriteComplete(e) \/ Deliver(e) \/ Discard(e) \/ RecordExpires(e)

WInit ==
  /\ Init
  /\ pc = "ready" /\ todo = {} /\ offer = NoOffer /\ used = 0 /\ inFlight = {}
  /\ task = [e \in Exec |-> NoTask] /\ ran = {}
  /\ record = [e \in Exec |-> "none"] /\ sweep = [e \in Exec |-> "idle"]
  /\ complete = [e \in Exec |-> "none"] /\ published = {}
  /\ wire = {} /\ leaked = 0 /\ dropped = {} /\ faults = 0

WNext ==
  \/ PollerStep \/ HouseMoves
  \/ \E e \in Exec : Receive(e) \/ TaskStep(e) \/ PostRaises(e) \/ SweeperStep(e)
  \/ \E m \in wire : Arrives(m)
  \/ \E j \in Job : LostPoll(j)
  \/ PollerDies \/ WorkerDies \/ Unenroll \/ Enroll

WSpec == WInit /\ [][WNext]_wvars

\* The poller ticks and reads its mailbox in order; steps and requests have time
\* limits; the sweeper asks every few seconds; the house sweeps and time passes.
WFairness ==
  /\ WF_wvars(PollerStep)
  /\ \A e \in Exec :
       SF_wvars(Receive(e)) /\ WF_wvars(TaskStep(e)) /\ WF_wvars(SweeperStep(e))
  /\ WF_wvars(NodeKept /\ \E h \in Gate : RecoverStale(h))
  /\ \A j \in Job :
       WF_wvars(/\ NodeKept
                /\ LeaseAges(j) \/ ReviewDue(j) \/ \E h \in Gate : ExpireReview(h, j))

WFairSpec == WSpec /\ WFairness

-----------------------------------------------------------------------------
(* Properties *)

WTypeOK ==
  /\ TypeOK
  /\ pc \in {"idle", "ready", "beat", "poll", "accept", "reject"}
  /\ todo \subseteq Exec /\ offer \in Exec \union {NoOffer}
  /\ used \in 0..SlotMax /\ inFlight \subseteq Exec
  /\ task \in [Exec -> [at : Working \union {"none", "over"}, left : 0..CompleteTries,
                       says : {"none", "succeeded", "failed", "review"}]]
  /\ ran \subseteq Exec
  /\ record \in [Exec -> Record]
  /\ sweep \in [Exec -> {"idle", "publish", "write", "cancel", "refused"}]
  /\ complete \in [Exec -> {"none", "succeeded", "failed"}]
  /\ published \subseteq Exec /\ dropped \subseteq Exec
  /\ wire \subseteq Request /\ leaked \in 0..SlotMax /\ faults \in 0..MaxFaults

\* Although a slot is not tied to who took it, and a cancellation, a completion and
\* its retries race for it, each is given back once: the slots in use are those of
\* the executions in flight, of the offer in hand, and of pollers that died.  So the
\* executors that run never outnumber the slots, except those of a house that was
\* unenrolled meanwhile, and no attempt is executed twice at once.
SlotsConserved ==
  /\ used = Cardinality(inFlight) + leaked + (IF pc = "accept" THEN 1 ELSE 0)
  /\ Cardinality({e \in Exec \ dropped : task[e].at \in Executor}) <= SlotMax
  /\ \A e, f \in Exec : task[e].at \in Working /\ task[f].at \in Working /\ SameAttempt(e, f) => e = f

\* The house never believes in a success that did not happen: an attempt of this
\* worker succeeded only if the executor of its last claim said so or its held output
\* was published, and nothing is published while the review is undecided.
OutcomeIsReal ==
  \A e \in Exec :
    /\ AttemptOf(e).status = "succeeded" /\ hist[e[1]][e[2]].by = e[3]
         => e \in ran \union published
    /\ e \in published
         => AttemptOf(e).status \in Terminal \/ job[e[1]].decision = "approve"

\* A job in review has its output: the record is written before the hold, and no
\* answer about the attempt, crash, late or repeated request removes it while the house
\* may still approve.  Two things do: the manager turns the worker away, or a complete
\* without its blob; and the worker's own clock, though never before the review's
\* deadline.
ReviewKeepsOutput ==
  \A e \in Exec :
    InReview(e) => \/ record[e] \in {"kept", "complete", "refused"}
                   \/ record[e] = "expired" /\ job[e[1]].due

Busy(e) == e \in inFlight \/ record[e] \in {"kept", "complete"}

\* Every execution ends and gives its slot back, and held output goes, published or
\* not, whatever is lost on the way.
WorkEnds == \A e \in Exec : Busy(e) ~> ~Busy(e)

=============================================================================
