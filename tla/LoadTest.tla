------------------------------ MODULE LoadTest ------------------------------
(***************************************************************************)
(* A load test: .scripts/loadtest/drive.py submits jobs to a house from a  *)
(* pool of threads, polls each to its end and samples how many run; the    *)
(* attempts talk to .scripts/loadtest/fake_llm.py, which counts them.      *)
(*                                                                         *)
(* The house is the environment: it admits a request it has received, even *)
(* when the client has stopped waiting, and runs at most Slots jobs.  One  *)
(* handler thread of the stub serves one request and counts it out after   *)
(* the answer is sent, so that the next request may overtake.              *)
(***************************************************************************)
EXTENDS Integers, FiniteSets

CONSTANTS
  Job,          \* the indexes of the driver's jobs, a set of integers
  Concurrency,  \* threads of the driver's pool
  Slots,        \* attempts the house runs at a time
  Turns,        \* tool-call turns of each job before the stub stops it
  Page,         \* jobs on a page of GET /api/v1/jobs
  Samples       \* bound: samples the sampler's thread takes

ASSUME LoadTestAssumption ==
  /\ IsFiniteSet(Job) /\ Job \subseteq Nat /\ Turns \in [Job -> Nat] /\ Samples \in Nat
  /\ {Concurrency, Slots, Page} \subseteq Nat \ {0}

VARIABLES
  house,    \* the status of each job in the house
  request,  \* the POST of each job: none, open, admitted, refused
  born,     \* inserted_at: the order in which the house has admitted the jobs
  drv,      \* where the driver's thread of each job is
  outcome,  \* Outcome.status
  main,     \* drive.main
  sampler,  \* Sampler: the status and cursor it asks for, the rows so far, its peak
  thread,   \* the stub's handler threads: one for each job and turn
  stats,    \* Stats
  truth     \* history: the real peak of the house, and whether Stats was reset

house_vars == <<house, request, born>>
drive_vars == <<drv, outcome, main>>
stub_vars  == <<thread, stats>>
lvars      == <<house_vars, drive_vars, sampler, stub_vars, truth>>

Final  == {"succeeded", "failed"}  \* the driver tells cancelled from failed only in its tables
Active == {"provisioning", "running"}

\* The request of each job and turn.
Requests == UNION {{j} \X (0..Turns[j]) : j \in Job}

\* The request that is answered with "stop": the job's turns are over.
LastRequest(j) == <<j, Turns[j]>>

Peak(x, y) == IF x < y THEN y ELSE x

Open(t)   == {x \in Requests : t[x] \in {"asleep", "sent"}}
Asking(t) == {x \in Requests : t[x] = "asleep"}
Busy(h)   == {j \in Job : h[j] \in Active}

ZeroStats ==
  [in_flight |-> 0, peak |-> 0, active |-> {}]

LTypeOK ==
  /\ house \in [Job -> {"none", "queued"} \union Active \union Final]
  /\ request \in [Job -> {"none", "open", "admitted", "refused"}]
  /\ drv \in [Job -> {"pending", "post", "poll", "done"}]
  /\ outcome \in [Job -> {"none", "rejected", "timeout", "crashed"} \union Final]
  /\ main \in {"driving", "ok", "not_ok", "crashed"}
  /\ born \in [Job -> 0..Cardinality(Job)]
  /\ sampler \in [at : Active, cursor : 0..Cardinality(Job), rows : 0..Cardinality(Job),
                  first : 0..Cardinality(Job), peak : 0..(2 * Cardinality(Job)), taken : 0..Samples]
  /\ thread \in [Requests -> {"none", "asleep", "sent", "left"}]
  /\ stats \in [in_flight : Int, peak : Int, active : SUBSET Job]

LInit ==
  /\ house = [j \in Job |-> "none"] /\ request = [j \in Job |-> "none"]
  /\ born = [j \in Job |-> 0]
  /\ drv = [j \in Job |-> "pending"]
  /\ outcome = [j \in Job |-> "none"]
  /\ main = "driving"
  /\ sampler = [at |-> "provisioning", cursor |-> 0, rows |-> 0, first |-> 0, peak |-> 0, taken |-> 0]
  /\ thread = [x \in Requests |-> "none"] /\ stats = ZeroStats
  /\ truth = [busy |-> 0, reset |-> FALSE]

-----------------------------------------------------------------------------
(* The house: its admission, and the attempts it runs *)

Admitted == {j \in Job : born[j] # 0}

HouseAnswers(j) ==
  /\ request[j] = "open"
  /\ \/ /\ request' = [request EXCEPT ![j] = "admitted"] /\ house' = [house EXCEPT ![j] = "queued"]
        /\ born' = [born EXCEPT ![j] = Cardinality(Admitted) + 1]
     \/ request' = [request EXCEPT ![j] = "refused"] /\ UNCHANGED <<house, born>>
  /\ UNCHANGED <<drive_vars, sampler, stub_vars, truth>>

HouseStarts(j) ==
  /\ house[j] = "queued" /\ Cardinality(Busy(house)) < Slots
  /\ house' = [house EXCEPT ![j] = "provisioning"]
  /\ truth' = [truth EXCEPT !.busy = Peak(@, Cardinality(Busy(house')))]
  /\ UNCHANGED <<request, born, drive_vars, sampler, stub_vars>>

HouseRuns(j) ==
  /\ house[j] = "provisioning"
  /\ house' = [house EXCEPT ![j] = "running"]
  /\ UNCHANGED <<request, born, drive_vars, sampler, stub_vars, truth>>

\* A job succeeds when the stub has told its agent to stop.
HouseEnds(j) ==
  /\ \/ house[j] \in Active \union {"queued"} /\ house' = [house EXCEPT ![j] = "failed"]
     \/ /\ house[j] = "running" /\ thread[LastRequest(j)] \in {"sent", "left"}
        /\ house' = [house EXCEPT ![j] = "succeeded"]
  /\ UNCHANGED <<request, born, drive_vars, sampler, stub_vars, truth>>

-----------------------------------------------------------------------------
(* The stub: do_POST, and Stats, whose methods hold one lock *)

\* Faulty form: the peak is taken before the request is counted.
EnterLate(s, j) ==
  [s EXCEPT !.in_flight = @ + 1, !.peak = Peak(@, s.in_flight), !.active = @ \union {j}]

Enter(s, j) ==
  [s EXCEPT !.in_flight = @ + 1, !.peak = Peak(@, s.in_flight + 1), !.active = @ \union {j}]

\* Faulty form: the marker stays.
LeaveMarked(s, j) == [s EXCEPT !.in_flight = @ - 1]

\* The totals of answers by finish_reason and the peak of the markers are left out.
Leave(s, j) == [s EXCEPT !.in_flight = @ - 1, !.active = @ \ {j}]

\* The attempt of a running job asks again when it has the last turn's answer.
StubEnters(j, t) ==
  /\ house[j] = "running" /\ thread[<<j, t>>] = "none"
  /\ t > 0 => thread[<<j, t - 1>>] \in {"sent", "left"}
  /\ thread' = [thread EXCEPT ![<<j, t>>] = "asleep"]
  /\ stats' = Enter(stats, j)
  /\ UNCHANGED <<house_vars, drive_vars, sampler, truth>>

StubSends(j, t) ==
  /\ thread[<<j, t>>] = "asleep" /\ house[j] = "running"
  /\ thread' = [thread EXCEPT ![<<j, t>>] = "sent"]
  /\ UNCHANGED <<house_vars, drive_vars, sampler, stats, truth>>

\* Faulty form: a request whose client has vanished is not counted out.
StubLeavesAnswered(j, t) ==
  /\ \/ thread[<<j, t>>] = "sent" /\ stats' = Leave(stats, j)
     \/ thread[<<j, t>>] = "asleep" /\ house[j] \in Final /\ UNCHANGED stats
  /\ thread' = [thread EXCEPT ![<<j, t>>] = "left"]
  /\ UNCHANGED <<house_vars, drive_vars, sampler, truth>>

\* finally: after the answer, or when the client has vanished.
StubLeaves(j, t) ==
  /\ thread[<<j, t>>] = "sent" \/ (thread[<<j, t>>] = "asleep" /\ house[j] \in Final)
  /\ stats' = Leave(stats, j)
  /\ thread' = [thread EXCEPT ![<<j, t>>] = "left"]
  /\ UNCHANGED <<house_vars, drive_vars, sampler, truth>>

\* GET /__stats?reset=1: once, to bound what it can zero.
ResetStats ==
  /\ ~truth.reset
  /\ stats' = ZeroStats
  /\ truth' = [truth EXCEPT !.reset = TRUE]
  /\ UNCHANGED <<house_vars, drive_vars, sampler, thread>>

-----------------------------------------------------------------------------
(* run_job, in a thread of the pool *)

Working == {j \in Job : drv[j] \notin {"pending", "done"}}

Ends(j, status) ==
  /\ outcome' = [outcome EXCEPT ![j] = status]
  /\ drv' = [drv EXCEPT ![j] = "done"]

\* A thread of the pool takes the next job.
Post(j) ==
  /\ drv[j] = "pending" /\ Cardinality(Working) < Concurrency
  /\ \A k \in Job : k < j => drv[k] # "pending"
  /\ drv' = [drv EXCEPT ![j] = "post"]
  /\ request' = [request EXCEPT ![j] = "open"]
  /\ UNCHANGED <<house, born, outcome, main, sampler, stub_vars, truth>>

PostAnswered(j) ==
  /\ drv[j] = "post"
  /\ \/ request[j] = "admitted" /\ drv' = [drv EXCEPT ![j] = "poll"] /\ UNCHANGED outcome
     \/ request[j] = "refused" /\ Ends(j, "rejected")
  /\ UNCHANGED <<house_vars, main, sampler, stub_vars, truth>>

\* transport_error and client_timeout: the request may still be at the house.
PostLost(j) ==
  /\ drv[j] = "post"
  /\ Ends(j, "rejected")
  /\ UNCHANGED <<house_vars, main, sampler, stub_vars, truth>>

\* Faulty form: whatever is no longer queued has ended.
PollStarted(j) ==
  /\ drv[j] = "poll" /\ house[j] # "queued"
  /\ Ends(j, house[j])
  /\ UNCHANGED <<house_vars, main, sampler, stub_vars, truth>>

\* A poll that finds the job under way, or fails, changes nothing but the error code.
PollEnded(j) ==
  /\ drv[j] = "poll" /\ house[j] \in Final
  /\ Ends(j, house[j])
  /\ UNCHANGED <<house_vars, main, sampler, stub_vars, truth>>

\* Faulty form: the deadline is for a job that has not started.
PollTimesOutQueued(j) ==
  /\ drv[j] = "poll" /\ house[j] \notin Active
  /\ Ends(j, "timeout")
  /\ UNCHANGED <<house_vars, main, sampler, stub_vars, truth>>

\* Faulty form: a job that takes too long has failed.
PollTimesOutFailed(j) ==
  /\ drv[j] = "poll"
  /\ Ends(j, "failed")
  /\ UNCHANGED <<house_vars, main, sampler, stub_vars, truth>>

\* while ... else: the job's time is over.
PollTimesOut(j) ==
  /\ drv[j] = "poll"
  /\ Ends(j, "timeout")
  /\ UNCHANGED <<house_vars, main, sampler, stub_vars, truth>>

\* An exception request does not translate: the future raises it.
ThreadCrashes(j) ==
  /\ drv[j] \in {"post", "poll"}
  /\ Ends(j, "crashed")
  /\ UNCHANGED <<house_vars, main, sampler, stub_vars, truth>>

-----------------------------------------------------------------------------
(* Sampler *)

\* sample_once: the jobs provisioning now, page by page, and then the jobs running.
Sampling(status) == main = "driving" /\ sampler.taken < Samples /\ sampler.at = status

\* Faulty form: a page begins with the row the last one ended with.
ListedFrom(status) ==
  {j \in Job : house[j] = status /\ (sampler.cursor = 0 \/ born[j] <= sampler.cursor)}

\* Newest first, past the cursor.
Listed(status) ==
  {j \in Job : house[j] = status /\ (sampler.cursor = 0 \/ born[j] < sampler.cursor)}

\* A page that is full, with more behind it: the cursor is its last job.
TurnPage(status) ==
  /\ Sampling(status) /\ Cardinality(Listed(status)) > Page
  /\ \E j \in Listed(status) :
       /\ Cardinality({k \in Listed(status) : born[k] >= born[j]}) = Page
       /\ sampler' = [sampler EXCEPT !.cursor = born[j], !.rows = @ + Page]
  /\ UNCHANGED <<house_vars, drive_vars, stub_vars, truth>>

LastPage(status) ==
  /\ Sampling(status) /\ Cardinality(Listed(status)) <= Page
  /\ UNCHANGED <<house_vars, drive_vars, stub_vars, truth>>

\* Faulty form: the jobs that wait are counted with those provisioning.
SampleFirstQueued ==
  /\ LastPage("provisioning")
  /\ sampler' = [sampler EXCEPT !.at = "running", !.cursor = 0, !.rows = 0,
                   !.first = sampler.rows + Cardinality(Listed("provisioning") \union Listed("queued"))]

SampleFirst ==
  /\ LastPage("provisioning")
  /\ sampler' = [sampler EXCEPT !.at = "running", !.cursor = 0, !.rows = 0,
                   !.first = sampler.rows + Cardinality(Listed("provisioning"))]

NextSample(peak) ==
  [at |-> "provisioning", cursor |-> 0, rows |-> 0, first |-> 0, peak |-> peak,
   taken |-> sampler.taken + 1]

SampleSecond ==
  LET active == sampler.first + sampler.rows + Cardinality(Listed("running"))
  IN LastPage("running") /\ sampler' = NextSample(Peak(sampler.peak, active))

\* A request that fails is a sample that is not taken.
SampleFails ==
  /\ \E status \in Active : Sampling(status)
  /\ sampler' = NextSample(sampler.peak)
  /\ UNCHANGED <<house_vars, drive_vars, stub_vars, truth>>

-----------------------------------------------------------------------------
(* main *)

\* The pool is left when every job has been driven; a thread's exception is
\* raised again then.
Driven == main = "driving" /\ \A j \in Job : drv[j] = "done"

Traceback == \E j \in Job : outcome[j] = "crashed"

\* Faulty form: a run without a failed job is a success.
ReportUnfailed ==
  /\ Driven
  /\ main' = IF Traceback THEN "crashed"
             ELSE IF \E j \in Job : outcome[j] = "failed" THEN "not_ok" ELSE "ok"
  /\ UNCHANGED <<house_vars, drv, outcome, sampler, stub_vars, truth>>

\* The join has a time limit, so the report does not wait for the sampler.
Report ==
  /\ Driven
  /\ main' = IF Traceback THEN "crashed"
             ELSE IF \A j \in Job : outcome[j] = "succeeded" THEN "ok" ELSE "not_ok"
  /\ UNCHANGED <<house_vars, drv, outcome, sampler, stub_vars, truth>>

-----------------------------------------------------------------------------
House(j) == HouseAnswers(j) \/ HouseStarts(j) \/ HouseRuns(j) \/ HouseEnds(j)

Stub == ResetStats \/ \E x \in Requests : StubEnters(x[1], x[2]) \/ StubSends(x[1], x[2]) \/ StubLeaves(x[1], x[2])

RunJob(j) ==
  \/ Post(j) \/ PostAnswered(j) \/ PostLost(j) \/ PollEnded(j) \/ PollTimesOut(j)

Sample == (\E status \in Active : TurnPage(status)) \/ SampleFirst \/ SampleSecond \/ SampleFails

LNext == (\E j \in Job : House(j) \/ RunJob(j) \/ ThreadCrashes(j)) \/ Stub \/ Sample \/ Report

\* Every request of the driver has a time limit and every job a deadline; the
\* stub's sleep ends.  Nothing is assumed of the house.
LFairness ==
  /\ \A j \in Job : WF_lvars(RunJob(j))
  /\ \A x \in Requests : WF_lvars(StubLeaves(x[1], x[2]))
  /\ WF_lvars(Report)

LSpec == LInit /\ [][LNext]_lvars /\ LFairness

-----------------------------------------------------------------------------
(* Properties *)

\* What the report says of a job that has ended is what became of it in the
\* house, however the polls, their failures and the deadline fell; and with the exit
\* code 0 every job was admitted, ran and succeeded.
ReportTrue ==
  /\ \A j \in Job : outcome[j] \in Final => outcome[j] = house[j]
  /\ main = "ok" => \A j \in Job : house[j] = "succeeded"

\* Each request at the stub is counted once, from its arrival until its thread has
\* left, whether its client is still there or not, and the peak covers those that wait
\* for their answer at any time; a reset, which forgets what is in flight, makes the stub
\* count fewer and never more.  A marker counted as active is that of a request in
\* flight, although a request that leaves late takes out the marker of the one that
\* overtook it.  The queries of a sample are so many moments: a job that starts to run
\* between two counts twice.  The sampled peak may overstate the real one, by a factor
\* of two and no more as long as all that is active fits on a page.  Beyond a page there
\* is no such factor, for what ends while the pages are turned has been counted; a job
\* still counts twice at most.
FiguresRight ==
  /\ stats.in_flight <= Cardinality(Open(thread))
  /\ ~truth.reset => stats.in_flight = Cardinality(Open(thread)) /\ stats.peak >= Cardinality(Asking(thread))
  /\ stats.active \subseteq {x[1] : x \in Open(thread)}
  /\ sampler.peak <= 2 * (IF truth.busy <= Page THEN truth.busy ELSE Cardinality(Job))

\* Whatever the house does, the driver comes to its report or its traceback.
DriverEnds == <>(main \in {"ok", "not_ok", "crashed"})

=============================================================================
