-------------------------------- MODULE Jobs --------------------------------
(***************************************************************************)
(* The job store of an Omashiki house: the rows of jobs, job_attempts,     *)
(* execution_capacity, job_dependencies, the dispatch rows of Oban and the *)
(* outbox of terminal events, with every operation of Omashiki.Jobs and    *)
(* Omashiki.Jobs.Dependencies that changes them.                           *)
(*                                                                         *)
(* An operation runs in one database transaction that locks the job row    *)
(* before it decides, so it is one atomic step here; a rollback changes    *)
(* nothing and is a stuttering step.  Time is not a clock: a lease counts  *)
(* down with LeaseAges, and a review deadline or the orphan grace passes   *)
(* at an arbitrary moment.                                                 *)
(*                                                                         *)
(* Callers are not trusted.  Any lease token a claim ever issued may be    *)
(* presented at any later moment, for any attempt of its job: that covers  *)
(* a delayed, repeated or reordered call of a worker and a runner that     *)
(* outlived its lease.  Dispatch rows move as they please in this module   *)
(* (DispatchMoves); module Dispatch replaces that by the dispatcher.       *)
(***************************************************************************)
EXTENDS Naturals, FiniteSets

CONSTANTS
  NJobs,         \* jobs admitted by one batch, numbered in admission order
  Edge,          \* <<c, d>>: job c depends on job d
  OnFailure,     \* the policy of each edge
  Orders,        \* orders by priority, inserted_at and id the jobs may have been
                 \* admitted in: the priority is the submitter's choice
  Node,          \* house nodes that share the database
  Direct,        \* the nodes that claim for themselves
  Gate,          \* the nodes that answer the polls of remote workers
  Worker,        \* remote workers
  NoMachine,     \* machine_id of an attempt nobody claimed
  Budget,        \* values [limits].max_concurrent_containers may have at boot
  MaxActiveJobs, \* max_active_jobs of the token that owns the jobs
  LeaseTTL,      \* ticks a fresh lease lasts
  MaxAttempt,    \* bound: attempts of a job
  MaxClaim,      \* bound: claims of a job
  MaxRow         \* bound: dispatch rows of a job

Job     == 1..NJobs
Attempt == 1..MaxAttempt
Token   == 1..MaxClaim
Row     == 1..MaxRow
NoToken == 0

Terminal     == {"succeeded", "failed", "cancelled"}
Active       == {"provisioning", "running"}
Unsuccessful == {"failed", "cancelled"}
Status       == {"blocked", "queued", "review"} \union Active \union Terminal

ASSUME JobsAssumption ==
  /\ NJobs \in Nat /\ MaxActiveJobs \in Nat
  /\ LeaseTTL \in Nat \ {0} /\ MaxAttempt \in Nat \ {0}
  /\ MaxClaim \in Nat /\ MaxRow \in Nat \ {0}
  /\ Edge \subseteq {e \in Job \X Job : e[2] < e[1]}
  /\ OnFailure \in [Edge -> {"cancel", "block", "proceed"}]
  /\ Orders \subseteq {o \in [Job -> Nat] : \A c, d \in Job : o[c] = o[d] => c = d}
  /\ IsFiniteSet(Node) /\ Direct \subseteq Node /\ Gate \subseteq Node
  /\ Worker \intersect Node = {} /\ NoMachine \notin Node \union Worker
  /\ Budget \subseteq Nat \ {0} /\ Budget # {}

VARIABLES
  job,       \* jobs: place in the order, status, current_attempt, the review decision,
             \* and whether its deadline (due) or the grace of queued_at (aged) passed
  att,       \* job_attempts
  claims,    \* lease tokens issued for a job so far
  capacity,  \* execution_capacity.capacity of each node
  active,    \* execution_capacity.active of each node
  dispatch,  \* Oban rows of DispatchWorker, per job
  outbox,    \* terminal events recorded, per job and attempt
  hist       \* history: what no row keeps but the properties speak of

vars == <<job, att, claims, capacity, active, dispatch, outbox, hist>>

-----------------------------------------------------------------------------
(* Rows *)

NoAttempt == [status |-> "none", machine |-> NoMachine, token |-> NoToken,
              lease |-> 0, reserved |-> FALSE]

\* issued: the last token a claim of the attempt issued; home: the node whose
\* row that claim reserved; how and by: what ended the attempt, and the token
\* of the call when a call did.
NoHistory == [issued |-> NoToken, home |-> NoMachine, how |-> "none", by |-> NoToken]

JobRow  == [place : Nat, status : Status, cur : Attempt,
            decision : {"none", "undecided", "approve"},
            due : BOOLEAN, aged : BOOLEAN]
AttRow  == [status : Status \union {"none"},
            machine : Node \union Worker \union {NoMachine},
            token : Token \union {NoToken}, lease : 0..LeaseTTL, reserved : BOOLEAN]
HistRow == [issued : Token \union {NoToken}, home : Node \union {NoMachine},
            how : {"none", "call", "operator", "sweep", "cascade"},
            by : Token \union {NoToken}]
RowState == {"none", "available", "executing", "done"}

\* Faulty form: a dispatch that is over still counts.
IncompleteOrOver(rows) == {r \in Row : rows[r] # "none"}

\* The states Oban calls incomplete: the row still counts as the job's dispatch.
Incomplete(rows) == {r \in Row : rows[r] \in {"available", "executing"}}

CanEnqueue(rows) == Incomplete(rows) # {} \/ \E r \in Row : rows[r] = "none"

\* DispatchWorker is unique per job over the incomplete states: an insert that
\* meets such a row is dropped, and Oban answers {:ok, the old row}.
Enqueued(rows) ==
  IF Incomplete(rows) # {} THEN rows
  ELSE LET new == CHOOSE r \in Row : rows[r] = "none"
       IN [rows EXCEPT ![new] = "available"]

\* Statuses.active/terminal of the jobs of one token: reject_over_capacity!.
Unfinished == {j \in Job : job[j].status \notin Terminal}

\* Faulty form: the lease is live, but nobody compares the token.
HoldsLeaseOfAnyone(a, k) == a.status \in Active /\ a.lease > 0

\* assert_lease!: the attempt is active, the token is its token, the lease is live.
HoldsLease(a, k) == a.status \in Active /\ a.token = k /\ a.lease > 0

\* Faulty form: the slot is given back on the row of the node that sweeps.
ReleaseRowOfCaller(h, a) == h

\* capacity_machine_for: a worker's claim was reserved by its manager, so its
\* slot is given back to the row of the node that runs the transaction.
ReleaseRow(h, a) == IF a.machine \in Worker THEN h ELSE a.machine

\* release_capacity! rolls back when the row would go below zero.
CanRelease(h, a) == a.reserved => active[ReleaseRow(h, a)] > 0

\* Faulty form: the slot is given back twice.
ReleasedTwice(h, a) ==
  IF a.reserved THEN [active EXCEPT ![ReleaseRow(h, a)] = @ - 2] ELSE active

Released(h, a) == IF a.reserved THEN [active EXCEPT ![ReleaseRow(h, a)] = @ - 1] ELSE active

\* Where a call about attempt a arrives: a worker calls a node that answers
\* workers, a direct runner calls its own node.
CallNode(a) == IF a.machine \in Worker THEN Gate ELSE {a.machine} \intersect Node

\* Faulty form: the ended attempt keeps its token.
EndedWithToken(a, s) == [a EXCEPT !.status = s, !.lease = 0, !.reserved = FALSE]

Ended(a, s) == [a EXCEPT !.status = s, !.token = NoToken, !.lease = 0, !.reserved = FALSE]

-----------------------------------------------------------------------------
(* Dependencies: notify_dependents!, within the transaction that ended job j *)

DependsOn(c) == {d \in Job : <<c, d>> \in Edge}

\* Faulty form: dependents are notified whatever their own status.
DependentsInAnyStatus(j) == {c \in Job : <<c, j>> \in Edge}

Dependents(j) == {c \in Job : <<c, j>> \in Edge /\ job[c].status = "blocked"}

\* Faulty form: a proceed edge does not wait for its prerequisite.
PermitsAtOnce(s, policy) == s = "succeeded" \/ policy = "proceed"

Permits(s, policy) == s = "succeeded" \/ (s \in Unsuccessful /\ policy = "proceed")

\* Faulty form: every dependent sees the other jobs as they were before.
ResolutionAtOnce(j, s) ==
  [c \in Job |->
     LET seen(d) == IF d = j THEN s ELSE job[d].status
     IN IF c = j THEN s
        ELSE IF c \notin Dependents(j) THEN job[c].status
        ELSE IF \E d \in DependsOn(c) :
                  seen(d) \in Unsuccessful /\ OnFailure[<<c, d>>] = "cancel"
             THEN "cancelled"
        ELSE IF \A d \in DependsOn(c) : Permits(seen(d), OnFailure[<<c, d>>]) THEN "queued"
        ELSE "blocked"]

\* The status of every job once job j has status s and its blocked dependents
\* were evaluated one after the other.  Each sees the outcome of those before it in
\* the order, which need not be that of the edges: one that comes before a
\* prerequisite of its own still sees that one blocked, and is not evaluated again.
Resolution(j, s) ==
  LET after[c \in Job] ==
        LET seen(d) == IF d = j \/ job[d].place < job[c].place THEN after[d] ELSE job[d].status
        IN IF c = j THEN s
           ELSE IF c \notin Dependents(j) THEN job[c].status
           ELSE IF \E d \in DependsOn(c) :
                     seen(d) \in Unsuccessful /\ OnFailure[<<c, d>>] = "cancel"
                THEN "cancelled"
           ELSE IF \A d \in DependsOn(c) : Permits(seen(d), OnFailure[<<c, d>>]) THEN "queued"
           ELSE "blocked"
  IN after

CancelledBy(j, s) == {c \in Dependents(j) : Resolution(j, s)[c] = "cancelled"}

\* Faulty form: only a success is evaluated for an unlock.
UnlockedBySuccess(j, s) ==
  IF s = "succeeded" THEN {c \in Dependents(j) : Resolution(j, s)[c] = "queued"} ELSE {}

UnlockedBy(j, s)  == {c \in Dependents(j) : Resolution(j, s)[c] = "queued"}

-----------------------------------------------------------------------------
(* complete_locked: the one way a job and its attempt end together.  The   *)
(* transaction runs on node h; how and by only feed the history.           *)

CompleteLocked(h, j, n, s, how, by) ==
  LET gone == CancelledBy(j, s)
      free == UnlockedBy(j, s)
  IN /\ CanRelease(h, att[j][n])
     /\ \A c \in free : CanEnqueue(dispatch[c])
     /\ active' = Released(h, att[j][n])
     /\ job' = [i \in Job |->
          IF i = j THEN [job[i] EXCEPT !.status = s]
          ELSE IF i \in gone THEN [job[i] EXCEPT !.status = "cancelled"]
          ELSE IF i \in free THEN [job[i] EXCEPT !.status = "queued", !.aged = FALSE]
          ELSE job[i]]
     /\ att' = [i \in Job |->
          IF i = j THEN [att[i] EXCEPT ![n] = Ended(@, s)]
          ELSE IF i \in gone THEN [att[i] EXCEPT ![job[i].cur] = Ended(@, "cancelled")]
          ELSE IF i \in free THEN [att[i] EXCEPT ![job[i].cur].status = "queued"]
          ELSE att[i]]
     /\ dispatch' = [i \in Job |-> IF i \in free THEN Enqueued(dispatch[i]) ELSE dispatch[i]]
     /\ outbox' = [i \in Job |->
          IF i \in gone \union {j} THEN [outbox[i] EXCEPT ![job[i].cur] = @ + 1] ELSE outbox[i]]
     /\ hist' = [i \in Job |->
          IF i = j THEN [hist[i] EXCEPT ![n].how = how, ![n].by = by]
          ELSE IF i \in gone THEN [hist[i] EXCEPT ![job[i].cur].how = "cascade"]
          ELSE hist[i]]
     /\ UNCHANGED <<claims, capacity>>

-----------------------------------------------------------------------------
(* Claims and leases *)

\* claim_locked: runner is the node itself or the worker that polled it.
Claim(h, j, runner) ==
  LET n == job[j].cur
      k == claims[j] + 1
  IN /\ job[j].status = "queued"
     /\ claims[j] < MaxClaim
     /\ active[h] < capacity[h]
     /\ active' = [active EXCEPT ![h] = @ + 1]
     /\ claims' = [claims EXCEPT ![j] = k]
     /\ job' = [job EXCEPT ![j].status = "provisioning"]
     /\ att' = [att EXCEPT ![j][n] = [status |-> "provisioning", machine |-> runner,
                                      token |-> k, lease |-> LeaseTTL, reserved |-> TRUE]]
     /\ hist' = [hist EXCEPT ![j][n].issued = k, ![j][n].home = h]
     /\ UNCHANGED <<capacity, dispatch, outbox>>

ClaimDirect(h, j) == Claim(h, j, h)

\* Inbox.poll of a worker with a free slot.  SKIP LOCKED may pass over the
\* oldest queued job, so any queued job may be the one.
ClaimNext(h, w, j) == h \in Gate /\ Claim(h, j, w)

Heartbeat(j, n, k) ==
  /\ HoldsLease(att[j][n], k)
  /\ att' = [att EXCEPT ![j][n].lease = LeaseTTL]
  /\ UNCHANGED <<job, claims, capacity, active, dispatch, outbox, hist>>

\* LeaseRenewer: a conditional update that does not ask whether the lease has
\* lapsed.  Only a coordinator on a house node registers with it.
Renew(j, n, k) ==
  /\ att[j][n].status \in Active
  /\ att[j][n].token = k
  /\ att[j][n].machine \in Node
  /\ att' = [att EXCEPT ![j][n].lease = LeaseTTL]
  /\ UNCHANGED <<job, claims, capacity, active, dispatch, outbox, hist>>

\* unclaim: the attempt returns to the queue; queued_at keeps its old value and
\* no dispatch is inserted.
Unclaim(h, j, n, k) ==
  LET a == att[j][n]
  IN /\ HoldsLease(a, k)
     /\ a.status = "provisioning" /\ job[j].status = "provisioning"
     /\ CanRelease(h, a)
     /\ active' = Released(h, a)
     /\ att' = [att EXCEPT ![j][n] = Ended(a, "queued")]
     /\ job' = [job EXCEPT ![j].status = "queued"]
     /\ UNCHANGED <<claims, capacity, dispatch, outbox, hist>>

\* Faulty form: the attempt row is not moved along with the job.
MarkOnlyJobRunning(j, n, k) ==
  /\ HoldsLease(att[j][n], k)
  /\ att[j][n].status = "provisioning" /\ job[j].status = "provisioning"
  /\ job' = [job EXCEPT ![j].status = "running"]
  /\ UNCHANGED <<att, claims, capacity, active, dispatch, outbox, hist>>

MarkRunning(j, n, k) ==
  /\ HoldsLease(att[j][n], k)
  /\ att[j][n].status = "provisioning" /\ job[j].status = "provisioning"
  /\ att' = [att EXCEPT ![j][n].status = "running"]
  /\ job' = [job EXCEPT ![j].status = "running"]
  /\ UNCHANGED <<claims, capacity, active, dispatch, outbox, hist>>

\* Faulty form: held output needs the token, and no approval.
MayCompleteUnapproved(j, n, k) ==
  IF att[j][n].status = "review" THEN att[j][n].token = k ELSE HoldsLease(att[j][n], k)

\* complete: an ended attempt is returned as it is; a held one needs its token
\* and an approval; any other needs a live lease.
MayComplete(j, n, k) ==
  IF att[j][n].status = "review"
  THEN att[j][n].token = k /\ job[j].decision = "approve"
  ELSE HoldsLease(att[j][n], k)

Complete(h, j, n, k, s) ==
  /\ att[j][n].status \notin Terminal
  /\ MayComplete(j, n, k)
  /\ CompleteLocked(h, j, n, s, "call", k)

-----------------------------------------------------------------------------
(* Output held for review *)

Hold(h, j, n, k) ==
  LET a == att[j][n]
  IN /\ HoldsLease(a, k)
     /\ CanRelease(h, a)
     /\ active' = Released(h, a)
     /\ att' = [att EXCEPT ![j][n] = [a EXCEPT !.status = "review", !.lease = 0,
                                               !.reserved = FALSE]]
     /\ job' = [job EXCEPT ![j] = [@ EXCEPT !.status = "review", !.decision = "undecided",
                                            !.due = FALSE]]
     /\ UNCHANGED <<claims, capacity, dispatch, outbox, hist>>

Approve(j) ==
  /\ job[j].status = "review" /\ job[j].decision # "approve"
  /\ job' = [job EXCEPT ![j].decision = "approve"]
  /\ UNCHANGED <<att, claims, capacity, active, dispatch, outbox, hist>>

\* fail_review!.  The decision a rejection leaves in the ended row is never read.
Reject(h, j) ==
  /\ job[j].status = "review"
  /\ CompleteLocked(h, j, job[j].cur, "failed", "operator", NoToken)

\* Faulty form: a job somebody approved does not expire.
ExpireUndecided(h, j) ==
  /\ job[j].status = "review" /\ job[j].due /\ job[j].decision = "undecided"
  /\ CompleteLocked(h, j, job[j].cur, "failed", "operator", NoToken)

ExpireReview(h, j) ==
  /\ job[j].status = "review" /\ job[j].due
  /\ CompleteLocked(h, j, job[j].cur, "failed", "operator", NoToken)

-----------------------------------------------------------------------------
(* Operators *)

\* Faulty form: a job that is over is cancelled again.
CancelAgain(h, j) ==
  CompleteLocked(h, j, job[j].cur, "cancelled", "operator", NoToken)

Cancel(h, j) ==
  /\ job[j].status \notin Terminal
  /\ CompleteLocked(h, j, job[j].cur, "cancelled", "operator", NoToken)

\* Jobs.fail: complete the active attempt of the job, whichever it is, with the
\* token its row holds.
FailCurrent(h, j) ==
  \E n \in Attempt :
    /\ att[j][n].status \in Active
    /\ Complete(h, j, n, att[j][n].token, "failed")

\* retry: a new attempt is queued whatever the dependency edges say.
Retry(j) ==
  LET n == job[j].cur + 1
  IN /\ job[j].status \in Unsuccessful
     /\ n <= MaxAttempt
     /\ Cardinality(Unfinished) + 1 <= MaxActiveJobs
     /\ CanEnqueue(dispatch[j])
     /\ job' = [job EXCEPT ![j] = [@ EXCEPT !.status = "queued", !.cur = n,
                          !.decision = "none", !.due = FALSE, !.aged = FALSE]]
     /\ att' = [att EXCEPT ![j][n] = [NoAttempt EXCEPT !.status = "queued"]]
     /\ dispatch' = [dispatch EXCEPT ![j] = Enqueued(@)]
     /\ UNCHANGED <<claims, capacity, active, outbox, hist>>

-----------------------------------------------------------------------------
(* Jobs.Recovery, on any node of the house *)

\* Faulty form: a job that never started running is not swept.
StaleRunning(j) ==
  LET a == att[j][job[j].cur]
  IN a.status = "running" /\ a.lease = 0 /\ job[j].status = "running"

Stale(j) ==
  LET a == att[j][job[j].cur]
  IN a.status \in Active /\ a.lease = 0 /\ job[j].status \in Active

\* recover_stale: one transaction for every expired lease; an underflow of one
\* release rolls all of them back.  Dependents are not notified.
RecoverStale(h) ==
  LET S       == {j \in Job : Stale(j)}
      on(m)   == {j \in S : LET a == att[j][job[j].cur]
                            IN a.reserved /\ ReleaseRow(h, a) = m}
  IN /\ S # {}
     /\ \A m \in Node : Cardinality(on(m)) <= active[m]
     /\ active' = [m \in Node |-> active[m] - Cardinality(on(m))]
     /\ job' = [j \in Job |-> IF j \in S THEN [job[j] EXCEPT !.status = "failed"] ELSE job[j]]
     /\ att' = [j \in Job |->
          IF j \in S THEN [att[j] EXCEPT ![job[j].cur] = Ended(@, "failed")] ELSE att[j]]
     /\ dispatch' = [j \in Job |->
          IF j \in S
          THEN [r \in Row |-> IF dispatch[j][r] = "executing" THEN "done" ELSE dispatch[j][r]]
          ELSE dispatch[j]]
     /\ outbox' = [j \in Job |->
          IF j \in S THEN [outbox[j] EXCEPT ![job[j].cur] = @ + 1] ELSE outbox[j]]
     /\ hist' = [j \in Job |->
          IF j \in S THEN [hist[j] EXCEPT ![job[j].cur].how = "sweep"] ELSE hist[j]]
     /\ UNCHANGED <<claims, capacity>>

\* recover_orphaned_dispatches: a queued job past the grace whose dispatch is
\* gone is cancelled.  Dependents are not notified.
RecoverOrphan(h, j) ==
  LET n == job[j].cur
      a == att[j][n]
  IN /\ job[j].status = "queued" /\ job[j].aged
     /\ Incomplete(dispatch[j]) = {}
     /\ a.status = "queued"
     /\ CanRelease(h, a)
     /\ active' = Released(h, a)
     /\ job' = [job EXCEPT ![j].status = "cancelled"]
     /\ att' = [att EXCEPT ![j][n] = Ended(a, "cancelled")]
     /\ outbox' = [outbox EXCEPT ![j][n] = @ + 1]
     /\ hist' = [hist EXCEPT ![j][n].how = "sweep"]
     /\ UNCHANGED <<claims, capacity, dispatch>>

\* Faulty form: the configured budget is taken although more slots are in use.
SetCapacityBlindly(h, c) ==
  /\ capacity' = [capacity EXCEPT ![h] = c]
  /\ UNCHANGED <<job, att, claims, active, dispatch, outbox, hist>>

\* set_capacity, at the boot of node h: clamped up to the slots in use.
SetCapacity(h, c) ==
  /\ capacity' = [capacity EXCEPT ![h] = IF c >= active[h] THEN c ELSE active[h]]
  /\ UNCHANGED <<job, att, claims, active, dispatch, outbox, hist>>

-----------------------------------------------------------------------------
(* Time and the queue *)

LeaseAges(j) ==
  LET n == job[j].cur
  IN /\ att[j][n].status \in Active /\ att[j][n].lease > 0
     /\ att' = [att EXCEPT ![j][n].lease = @ - 1]
     /\ UNCHANGED <<job, claims, capacity, active, dispatch, outbox, hist>>

ReviewDue(j) ==
  /\ job[j].status = "review" /\ ~job[j].due
  /\ job' = [job EXCEPT ![j].due = TRUE]
  /\ UNCHANGED <<att, claims, capacity, active, dispatch, outbox, hist>>

GracePasses(j) ==
  /\ job[j].status = "queued" /\ ~job[j].aged
  /\ job' = [job EXCEPT ![j].aged = TRUE]
  /\ UNCHANGED <<att, claims, capacity, active, dispatch, outbox, hist>>

\* What a scheduler queue may do to a row: start it, end it, or put it back.
DispatchMoves(j, r) ==
  /\ Direct # {}
  /\ dispatch[j][r] # "none"
  /\ \E s \in {"available", "executing", "done"} : dispatch' = [dispatch EXCEPT ![j][r] = s]
  /\ UNCHANGED <<job, att, claims, capacity, active, outbox, hist>>

-----------------------------------------------------------------------------

\* Admission: a job with prerequisites starts blocked, any other queued with its
\* dispatch; every job has attempt 1 in the status of the job.
InitStatus(j) == IF DependsOn(j) = {} THEN "queued" ELSE "blocked"

Init ==
  /\ \E o \in Orders :
       job = [j \in Job |-> [place |-> o[j], status |-> InitStatus(j), cur |-> 1,
                             decision |-> "none", due |-> FALSE, aged |-> FALSE]]
  /\ att = [j \in Job |-> [n \in Attempt |->
              IF n = 1 THEN [NoAttempt EXCEPT !.status = InitStatus(j)] ELSE NoAttempt]]
  /\ claims = [j \in Job |-> 0]
  /\ capacity \in [Node -> Budget]
  /\ active = [h \in Node |-> 0]
  /\ dispatch = [j \in Job |-> [r \in Row |->
                   IF r = 1 /\ DependsOn(j) = {} THEN "available" ELSE "none"]]
  /\ outbox = [j \in Job |-> [n \in Attempt |-> 0]]
  /\ hist = [j \in Job |-> [n \in Attempt |-> NoHistory]]

\* A call that presents token k for attempt n.
Call(j, n, k) ==
  \/ Heartbeat(j, n, k)
  \/ Renew(j, n, k)
  \/ MarkRunning(j, n, k)
  \/ \E h \in CallNode(att[j][n]) :
       \/ att[j][n].machine \in Worker /\ Unclaim(h, j, n, k)  \* Inbox.reject
       \/ Hold(h, j, n, k)
       \/ \E s \in {"succeeded", "failed"} : Complete(h, j, n, k, s)

\* An operation on the job as a whole, by an operator or a sweep on node h.
House(h, j) ==
  \/ Reject(h, j)
  \/ ExpireReview(h, j)
  \/ Cancel(h, j)
  \/ RecoverOrphan(h, j)

Time(j) == LeaseAges(j) \/ ReviewDue(j) \/ GracePasses(j)

\* Everything but what the dispatcher does and the moves of its queue.
StoreNext ==
  \/ \E j \in Job : \E n \in Attempt, k \in Token : k <= claims[j] /\ Call(j, n, k)
  \/ \E j \in Job : Approve(j) \/ Retry(j) \/ Time(j)
  \/ \E h \in Node, j \in Job : House(h, j)
  \/ \E h \in Node : RecoverStale(h)
  \/ \E h \in Node, c \in Budget : SetCapacity(h, c)
  \/ \E h \in Node, w \in Worker, j \in Job : ClaimNext(h, w, j)

Next ==
  \/ StoreNext
  \/ \E h \in Direct, j \in Job : ClaimDirect(h, j) \/ FailCurrent(h, j)
  \/ \E j \in Job, r \in Row : DispatchMoves(j, r)

Spec == Init /\ [][Next]_vars

\* The reaper sweeps every second, and time passes.  Nothing obliges a worker
\* to call again, nor an operator to decide.
Fairness ==
  /\ WF_vars(\E h \in Node : RecoverStale(h))
  /\ \A j \in Job :
       /\ WF_vars(LeaseAges(j))
       /\ WF_vars(ReviewDue(j))
       /\ WF_vars(\E h \in Node : ExpireReview(h, j))

FairSpec == Spec /\ Fairness

-----------------------------------------------------------------------------
(* Properties *)

\* The rows stay in their columns' domains.
TypeOK ==
  /\ job \in [Job -> JobRow]
  /\ att \in [Job -> [Attempt -> AttRow]]
  /\ claims \in [Job -> 0..MaxClaim]
  /\ capacity \in [Node -> Nat \ {0}]
  /\ active \in [Node -> Nat]
  /\ dispatch \in [Job -> [Row -> RowState]]
  /\ outbox \in [Job -> [Attempt -> Nat]]
  /\ hist \in [Job -> [Attempt -> HistRow]]

\* A job and its current attempt always tell the same story, earlier attempts
\* ended without success, and later ones do not exist: no interleaving of
\* claims, sweeps, cascades and late calls tears the two rows apart.
JobMirrorsAttempt ==
  \A j \in Job : \A n \in Attempt :
    /\ n = job[j].cur => att[j][n].status = job[j].status
    /\ n < job[j].cur => att[j][n].status \in Unsuccessful
    /\ n > job[j].cur => att[j][n].status = "none"

\* The fence and the slot go together: an attempt holds a token, a lease and a
\* reserved slot exactly while it is active; one held for review keeps only its
\* token; every other attempt holds nothing.
LeaseShape ==
  \A j \in Job : \A n \in Attempt :
    LET a == att[j][n]
    IN /\ a.reserved <=> a.status \in Active
       /\ a.token # NoToken <=> a.status \in Active \union {"review"}
       /\ a.lease > 0 => a.status \in Active
       /\ a.token # NoToken => a.token = hist[j][n].issued /\ a.token <= claims[j]

\* A worker or runner whose attempt was taken back and claimed again cannot
\* decide the attempt: the call that ended an attempt presented the last token
\* issued for it.
FencedOutcome ==
  \A j \in Job : \A n \in Attempt :
    hist[j][n].how = "call" => hist[j][n].by = hist[j][n].issued

\* Every node's active count is the number of slots its claims still hold, and
\* never exceeds its capacity: no slot leaks and none is given back twice.
SlotsHeld(h) ==
  {p \in Job \X Attempt : att[p[1]][p[2]].reserved /\ hist[p[1]][p[2]].home = h}

CapacityConserved ==
  \A h \in Node : active[h] = Cardinality(SlotsHeld(h)) /\ active[h] <= capacity[h]

\* Each ended attempt is announced by exactly one terminal event, an attempt
\* that has not ended by none: retried calls and racing sweeps do not repeat it.
AnnouncedOnce ==
  \A j \in Job : \A n \in Attempt :
    outbox[j][n] = IF att[j][n].status \in Terminal THEN 1 ELSE 0

\* The outcome of an attempt is final: no later call, sweep or cascade changes
\* the row of an attempt that has ended.
OutcomeIsFinal ==
  [][\A j \in Job : \A n \in Attempt :
       att[j][n].status \in Terminal =>
         att'[j][n] = att[j][n] /\ hist'[j][n] = hist[j][n]]_vars

\* Output held for review is published only on an approval, by the node whose
\* claim produced it, and the job leaves review for nothing else than an end.
ReviewFence ==
  [][\A j \in Job : job[j].status = "review" /\ job'[j].status # "review" =>
       /\ job'[j].status \in Terminal
       /\ job'[j].status = "succeeded" =>
            /\ job[j].decision = "approve"
            /\ hist'[j][job[j].cur].by = att[j][job[j].cur].token]_vars

\* A job stays blocked by an edge whose policy resolves it only if a sweep or a
\* cascade ended that prerequisite, which notify nobody.
SettledDependents ==
  \A c \in Job : job[c].status = "blocked" =>
    LET told(d) == hist[d][job[d].cur].how \in {"call", "operator"}
    IN /\ \A d \in DependsOn(c) :
            job[d].status \in Unsuccessful /\ told(d) => OnFailure[<<c, d>>] # "cancel"
       /\ \/ \E d \in DependsOn(c) : job[d].status \in Terminal /\ ~told(d)
          \/ \E d \in DependsOn(c) : ~(\/ job[d].status = "succeeded"
                                       \/ /\ job[d].status \in Unsuccessful
                                          /\ OnFailure[<<c, d>>] = "proceed")

\* The step ends job j by a call or an operator, which notifies its dependents.
Notifies(j) ==
  /\ job[j].status \notin Terminal /\ job'[j].status \in Terminal
  /\ hist'[j][job'[j].cur].how \in {"call", "operator"}

\* A job that is evaluated and stays blocked is kept so by an edge, as it stands after
\* the outcomes of the jobs evaluated before it, and no edge demands its end.
LeftBlocked(c) ==
  \A j \in DependsOn(c) :
    Notifies(j) /\ job[c].status = "blocked" /\ job'[c].status = "blocked" =>
      LET seen(d) == IF d = j \/ job[d].place < job[c].place THEN job'[d].status ELSE job[d].status
      IN /\ \A d \in DependsOn(c) :
              seen(d) \in Unsuccessful => OnFailure[<<c, d>>] # "cancel"
         /\ \E d \in DependsOn(c) :
              seen(d) # "succeeded" /\ (seen(d) \in Unsuccessful => OnFailure[<<c, d>>] # "proceed")

\* A blocked job is queued only in the step that settled its last edge: every
\* prerequisite has then succeeded, or ended otherwise under a proceed edge.  What a
\* call or an operator decides reaches the direct dependents at once, and each of
\* them is decided in view of those decided before it in the same transaction.
DependentsFollow ==
  /\ []SettledDependents
  /\ [][\A c \in Job :
         /\ LeftBlocked(c)
         /\ job[c].status = "blocked" /\ job'[c].status = "queued" =>
              \A d \in DependsOn(c) :
                \/ job'[d].status = "succeeded"
                \/ /\ job'[d].status \in {"failed", "cancelled"}
                   /\ OnFailure[<<c, d>>] = "proceed"]_vars

\* A worker that falls silent cannot hold a job for ever: every job leaves
\* provisioning and running again and again, or its lease is renewed again and
\* again.  And a review always ends, decided or not, also when it was approved and
\* the node that holds the output never comes back.
JobsMoveOn ==
  \A j \in Job :
    /\ \/ []<>(job[j].status \notin Active)
       \/ []<><<\E n \in Attempt : 0 < att[j][n].token /\ att[j][n].lease < att'[j][n].lease>>_vars
    /\ job[j].status = "review" ~> job[j].status # "review"

-----------------------------------------------------------------------------
(* The promise of module JobLifecycle *)

Life == [j \in Job |-> [status |-> job[j].status, attempt |-> job[j].cur,
                        owner |-> att[j][job[j].cur].token, owners |-> claims[j]]]

Lifecycle == INSTANCE JobLifecycle WITH life <- Life

\* Every operation moves each job by at most one move of JobLifecycle, the documented
\* ones and the three that no document has, and an attempt changes hands only
\* through the queue.
ImplementsLifecycle == Lifecycle!LifeSpec

=============================================================================
