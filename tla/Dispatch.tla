------------------------------ MODULE Dispatch ------------------------------
(***************************************************************************)
(* The dispatcher of an embedded house: Omashiki.Jobs.DispatchWorker, one  *)
(* Oban job per queued job, on top of the job store.  Oban fetches a row,  *)
(* runs perform/1 in a process of the fetching node and records its result *)
(* in the row.  perform/1 claims the job, waits for the runner, and when   *)
(* the runner reports an error settles the job before Oban hears of it.    *)
(*                                                                         *)
(* perform/1 is several transactions, so a process has a phase, and every  *)
(* operation of the store may happen between two of them.  A node may die  *)
(* at any moment and takes its processes along.  Oban's Lifeline puts a    *)
(* row back that has been executing for long, dead process or not, so that *)
(* a row may have several processes at work.                               *)
(***************************************************************************)
EXTENDS Jobs

CONSTANT MaxTries  \* max_attempts of a dispatch

ASSUME DispatchAssumption == MaxTries \in Nat \ {0}

Slot == 1..MaxTries
Run  == Row \X Slot

VARIABLES
  proc,   \* the processes of each job, by the row they were fetched from and a slot:
          \* node, phase, the attempt claimed, and the row's tries when it was fetched
  tries   \* how often Oban started each row

dvars == <<job, att, claims, capacity, active, dispatch, outbox, hist, proc, tries>>

Phase == {"idle", "dispatch", "run", "done", "error", "fail", "cancel", "nack", "unsettled"}

Idle == [node |-> NoMachine, phase |-> "idle", n |-> 0, t |-> 0]

ToPhase(j, p, f) == proc' = [proc EXCEPT ![j][p].phase = f]

Exits(j, p) == proc' = [proc EXCEPT ![j][p] = Idle]

RowBecomes(j, r, s) == dispatch' = [dispatch EXCEPT ![j][r] = s]

NoJobChange == UNCHANGED <<job, att, claims, capacity, active, outbox, hist>>

-----------------------------------------------------------------------------
(* Oban *)

\* Faulty form: a row is fetched although its tries are used up.
FetchSpent(h, j, p) ==
  /\ dispatch[j][p[1]] = "available" /\ proc[j][p] = Idle
  /\ RowBecomes(j, p[1], "executing")
  /\ tries' = [tries EXCEPT ![j][p[1]] = @ + 1]
  /\ proc' = [proc EXCEPT ![j][p] = [node |-> h, phase |-> "dispatch", n |-> 0,
                                     t |-> tries[j][p[1]] + 1]]
  /\ NoJobChange

\* A row whose tries are used up is not fetched.
Fetch(h, j, p) ==
  LET r == p[1]
  IN /\ dispatch[j][r] = "available" /\ tries[j][r] < MaxTries
     /\ proc[j][p] = Idle
     /\ \A s \in Slot : s < p[2] => proc[j][<<r, s>>] # Idle
     /\ RowBecomes(j, r, "executing")
     /\ tries' = [tries EXCEPT ![j][r] = @ + 1]
     /\ proc' = [proc EXCEPT ![j][p] = [node |-> h, phase |-> "dispatch", n |-> 0,
                                        t |-> tries[j][r] + 1]]
     /\ NoJobChange

\* The row is no longer the one the process was fetched from: recover_stale
\* cancelled it, or Lifeline put it back.
Superseded(j, p) == dispatch[j][p[1]] # "executing" \/ tries[j][p[1]] # proc[j][p].t

\* The result of a process is recorded in its row.  What has become of the row
\* since is overwritten, or stays.
Records(j, p, s, k) ==
  /\ \/ RowBecomes(j, p[1], s) /\ tries' = [tries EXCEPT ![j][p[1]] = k]
     \/ Superseded(j, p) /\ UNCHANGED <<dispatch, tries>>
  /\ Exits(j, p)
  /\ NoJobChange

\* :ok and {:cancel, _} both end the row.
Ack(j, p) ==
  /\ proc[j][p].phase = "done"
  /\ Records(j, p, "done", tries[j][p[1]])

\* What Oban does with a row whose t-th try failed: retry it, or discard it.
AfterFailure(t) == IF t < MaxTries THEN "available" ELSE "done"

Nack(j, p) ==
  /\ proc[j][p].phase \in {"nack", "unsettled"}
  /\ Records(j, p, AfterFailure(proc[j][p].t), tries[j][p[1]])

\* Lifeline goes by the age of the start alone: the process may have died with its
\* node, or be at work still.
Rescue(j, r) ==
  /\ dispatch[j][r] = "executing"
  /\ RowBecomes(j, r, AfterFailure(tries[j][r]))
  /\ UNCHANGED <<proc, tries>>
  /\ NoJobChange

NodeDies(h) ==
  /\ \E j \in Job, p \in Run : proc[j][p].node = h
  /\ proc' = [j \in Job |-> [p \in Run |-> IF proc[j][p].node = h THEN Idle ELSE proc[j][p]]]
  /\ UNCHANGED <<dispatch, tries>>
  /\ NoJobChange

-----------------------------------------------------------------------------
(* dispatch/1 *)

\* Faulty form: a rescued dispatch joins the attempt it finds under way.
ClaimOrJoin(j, p) ==
  /\ proc[j][p].phase = "dispatch"
  /\ \/ ClaimDirect(proc[j][p].node, j)
     \/ job[j].status \in Active /\ UNCHANGED vars
  /\ proc' = [proc EXCEPT ![j][p] = [@ EXCEPT !.phase = "run", !.n = job[j].cur]]
  /\ UNCHANGED tries

ClaimRuns(j, p) ==
  /\ proc[j][p].phase = "dispatch"
  /\ ClaimDirect(proc[j][p].node, j)
  /\ proc' = [proc EXCEPT ![j][p] = [@ EXCEPT !.phase = "run", !.n = job[j].cur]]
  /\ UNCHANGED tries

NoSlot(h, j) == job[j].status = "queued" /\ active[h] >= capacity[h]

\* {:snooze, 1}: the row waits again and the run does not count as a try.
Snooze(j, p) ==
  /\ proc[j][p].phase = "dispatch" /\ NoSlot(proc[j][p].node, j)
  /\ Records(j, p, "available", tries[j][p[1]] - 1)

NotQueued(j, p) ==
  /\ proc[j][p].phase = "dispatch" /\ job[j].status # "queued"
  /\ ToPhase(j, p, "done")
  /\ UNCHANGED <<dispatch, tries>>
  /\ NoJobChange

\* The claim itself failed: the database was busy, or it raised.
ClaimErrs(j, p) ==
  /\ proc[j][p].phase = "dispatch" /\ job[j].status = "queued"
  /\ ToPhase(j, p, "error")
  /\ UNCHANGED <<dispatch, tries>>
  /\ NoJobChange

\* Worker.Local.run_offer: the runner came back and the job, whatever attempt
\* it is on, is over or in review.
RunnerReturns(j, p) ==
  /\ proc[j][p].phase = "run"
  /\ job[j].status \in Terminal \union {"review"}
  /\ ToPhase(j, p, "done")
  /\ UNCHANGED <<dispatch, tries>>
  /\ NoJobChange

\* The runner failed, timed out, exited, or came back to a job that is not over.
RunnerErrs(j, p) ==
  /\ proc[j][p].phase = "run"
  /\ ToPhase(j, p, "error")
  /\ UNCHANGED <<dispatch, tries>>
  /\ NoJobChange

-----------------------------------------------------------------------------
(* settle/2 *)

\* Faulty form: the last try is not recognised as the last one.
SettleLate(j, p) ==
  /\ proc[j][p].phase = "error"
  /\ ToPhase(j, p,
       IF job[j].status \in Terminal THEN "nack"
       ELSE IF job[j].status \in Active THEN "fail"
       ELSE IF proc[j][p].t > MaxTries THEN "cancel" ELSE "nack")
  /\ UNCHANGED <<dispatch, tries>>
  /\ NoJobChange

\* terminate_stranded reads the job and decides on its status alone.
Settle(j, p) ==
  /\ proc[j][p].phase = "error"
  /\ ToPhase(j, p,
       IF job[j].status \in Terminal THEN "nack"
       ELSE IF job[j].status \in Active THEN "fail"
       ELSE IF proc[j][p].t >= MaxTries THEN "cancel" ELSE "nack")
  /\ UNCHANGED <<dispatch, tries>>
  /\ NoJobChange

\* Faulty form: the current attempt fails whether or not its lease is live.
ForceFailUnfenced(j, p) ==
  /\ proc[j][p].phase = "fail"
  /\ job[j].status \in Active
  /\ CompleteLocked(proc[j][p].node, j, job[j].cur, "failed", "call", att[j][job[j].cur].token)
  /\ ToPhase(j, p, "nack")
  /\ UNCHANGED tries

\* force_terminal of an active job: Jobs.fail.
ForceFail(j, p) ==
  /\ proc[j][p].phase = "fail"
  /\ FailCurrent(proc[j][p].node, j)
  /\ ToPhase(j, p, "nack")
  /\ UNCHANGED tries

\* Jobs.fail was refused (the lease has expired, nothing is active any more, or the
\* database was busy), so the job is cancelled instead.
FailRefused(j, p) ==
  /\ proc[j][p].phase = "fail"
  /\ ToPhase(j, p, "cancel")
  /\ UNCHANGED <<dispatch, tries>>
  /\ NoJobChange

\* force_cancel; a job that is over stays as it is.
ForceCancel(j, p) ==
  /\ proc[j][p].phase = "cancel"
  /\ \/ Cancel(proc[j][p].node, j)
     \/ job[j].status \in Terminal /\ UNCHANGED vars
  /\ ToPhase(j, p, "nack")
  /\ UNCHANGED tries

\* The cancellation was refused, which is only logged, or a query raised: Oban
\* records the error and nothing has settled the job.
SettleFails(j, p) ==
  /\ proc[j][p].phase \in {"error", "fail", "cancel"}
  /\ ToPhase(j, p, "unsettled")
  /\ UNCHANGED <<dispatch, tries>>
  /\ NoJobChange

-----------------------------------------------------------------------------

Perform(j, p) ==
  \/ ClaimRuns(j, p) \/ Snooze(j, p) \/ NotQueued(j, p) \/ ClaimErrs(j, p)
  \/ RunnerReturns(j, p) \/ RunnerErrs(j, p)
  \/ Settle(j, p) \/ ForceFail(j, p) \/ FailRefused(j, p) \/ ForceCancel(j, p)
  \/ SettleFails(j, p)
  \/ Ack(j, p) \/ Nack(j, p)

DInit ==
  /\ Init
  /\ proc = [j \in Job |-> [p \in Run |-> Idle]]
  /\ tries = [j \in Job |-> [r \in Row |-> 0]]

DNext ==
  \/ StoreNext /\ UNCHANGED <<proc, tries>>
  \/ \E h \in Direct, j \in Job, p \in Run : Fetch(h, j, p)
  \/ \E j \in Job, p \in Run : Perform(j, p)
  \/ \E j \in Job, r \in Row : Rescue(j, r)
  \/ \E h \in Direct : NodeDies(h)

DSpec == DInit /\ [][DNext]_dvars

\* The sweeps tick every second, Oban polls its queue and its Lifeline runs, and
\* a process takes its next step: the wait for a runner ends with await_timeout_ms.
DFairness ==
  /\ \A j \in Job : WF_dvars((\E h \in Node : RecoverOrphan(h, j)) /\ UNCHANGED <<proc, tries>>)
  /\ \A j \in Job : WF_dvars(GracePasses(j) /\ UNCHANGED <<proc, tries>>)
  /\ \A j \in Job, r \in Row :
       /\ WF_dvars(\E h \in Direct, s \in Slot : Fetch(h, j, <<r, s>>))
       /\ WF_dvars(Rescue(j, r))
  /\ \A j \in Job, p \in Run : WF_dvars(Perform(j, p))

DFairSpec == DSpec /\ DFairness

-----------------------------------------------------------------------------
(* Properties *)

\* Phases and nodes stay in their domains, and no row is started more often than
\* MaxTries, however often it is snoozed, rescued and retried.
DTypeOK ==
  /\ TypeOK
  /\ proc \in [Job -> [Run -> [node : Node \union {NoMachine}, phase : Phase,
                               n : 0..MaxAttempt, t : 0..MaxTries]]]
  /\ tries \in [Job -> [Row -> 0..MaxTries]]

\* The dispatcher and its crashes do nothing the job store does not allow.
ImplementsStore == Spec

\* config.exs: "A premature rescue is not a double container run".  Two processes
\* never wait for the runner of the same attempt, whatever Oban rescues beside a
\* process that is still at work, fetches again or retries.
OneRunPerAttempt ==
  \A j \in Job : \A p, q \in Run :
    proc[j][p].phase = "run" /\ proc[j][q].phase = "run" /\ proc[j][p].n = proc[j][q].n => p = q

\* The last process of a row reports its failure of a job that is over; one that could
\* not settle the job has not changed it.
Settles(j, p) ==
  proc[j][p].phase \in {"error", "fail", "cancel"} =>
    /\ proc'[j][p].phase = "nack" => proc[j][p].t < MaxTries \/ job'[j].status \in Terminal
    /\ proc'[j][p].phase = "unsettled" => job'[j] = job[j]

\* A process that has settled the job of its last try leaves nothing behind that could
\* still move: the job is over in the state the error is recorded on.  A settlement
\* that was refused or raised changes nothing, so that the sweeps find the job.
DiscardIsVisible == [][\A j \in Job, p \in Run : Settles(j, p)]_dvars

\* The row waits, but its tries are used up: a process that was given up for dead
\* recorded the failure of an earlier try in it.
Unfetchable(j) == \E r \in Row : dispatch[j][r] = "available" /\ tries[j][r] = MaxTries

\* A queued job waits for a slot and for nothing else: it is claimed, or it ends
\* visibly even when its dispatch is lost with a node, by a race or because the write
\* that should have ended it was refused.  Two things may keep it waiting: the slots
\* of a node are found taken again and again, or its row is Unfetchable.
QueuedMovesOn ==
  \A j \in Job :
    \/ []<>(job[j].status # "queued")
    \/ []<>(job[j].status = "queued" /\ \E h \in Direct : active[h] >= capacity[h])
    \/ []<>Unfetchable(j)

\* distributed-execution.md: "A stale completion cannot replace the result of a
\* later attempt."  A process that settles the error of the attempt it claimed
\* leaves a later attempt that is under way alone.
StaleDispatchHarmless ==
  [][\A j \in Job, p \in Run :
       proc[j][p].phase \in {"fail", "cancel"} /\ proc'[j][p].phase = "nack" /\ proc[j][p].n > 0
         => \A m \in Attempt :
              m > proc[j][p].n /\ att[j][m].status \in Active => att'[j][m] = att[j][m]]_dvars

=============================================================================
