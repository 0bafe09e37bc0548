--------------------------- MODULE JobsLifeProofs ---------------------------
(***************************************************************************)
(* The life of a job: the store implements the life cycle of module        *)
(* JobLifecycle, output held for review is fenced, and the jobs that wait  *)
(* for others are unlocked by the end of the last of them and not before.  *)
(* All three rest on the invariant IInv of module JobsProofs and go        *)
(* through the operations one by one.                                      *)
(***************************************************************************)
EXTENDS JobsProofs

\* What one job shows of its rows b and a, and of the tokens issued for it.
Shown(b, a, c) == [status |-> b.status, attempt |-> b.cur, owner |-> a.token, owners |-> c]

\* The step takes job i at most one step along the life cycle.
Lives(i) ==
  LET now   == Shown(job[i], att[i][job[i].cur], claims[i])
      after == Shown(job'[i], att'[i][job'[i].cur], claims'[i])
  IN after = now \/ Lifecycle!Move(now, after)

-----------------------------------------------------------------------------
(* The moves *)

\* The moves, drawn in the documentation or not.
LEMMA MoveIs ==
  ASSUME NEW b, NEW a
  PROVE  Lifecycle!Move(b, a) <=>
           \/ Lifecycle!Unlock(b, a) \/ Lifecycle!Own(b, a) \/ Lifecycle!StartRun(b, a)
           \/ Lifecycle!GiveBack(b, a) \/ Lifecycle!Park(b, a) \/ Lifecycle!Finish(b, a)
           \/ Lifecycle!Drop(b, a) \/ Lifecycle!Again(b, a)
BY DEF Lifecycle!Move, Lifecycle!Drawn, Lifecycle!Undrawn

Field == {"status", "attempt", "owner", "owners"}

IsShown(x) == x = [f \in Field |-> x[f]]

\* Two such records are equal when their fields are.
LEMMA SameShown ==
  ASSUME NEW x, NEW y, IsShown(x), IsShown(y), x.status = y.status, x.attempt = y.attempt,
         x.owner = y.owner, x.owners = y.owners
  PROVE  x = y
<1>1. \A f \in Field : x[f] = y[f]
  BY DEF Field
<1>2. QED
  BY <1>1, Zenon DEF IsShown

\* The fields of what a job shows.
LEMMA ShownFields ==
  ASSUME NEW b, NEW a, NEW c
  PROVE  /\ IsShown(Shown(b, a, c))
         /\ Shown(b, a, c).status = b.status /\ Shown(b, a, c).attempt = b.cur
         /\ Shown(b, a, c).owner = a.token /\ Shown(b, a, c).owners = c
BY DEF Shown, IsShown, Field

\* The moves, by the fields of the two rows.
LEMMA FinishByFields ==
  ASSUME NEW x, NEW y, IsShown(x), IsShown(y), x.status \in {"provisioning", "running", "review"},
         y.status \in {"succeeded", "failed"}, y.attempt = x.attempt, y.owner = 0,
         y.owners = x.owners
  PROVE  Lifecycle!Finish(x, y)
<1> DEFINE z == [x EXCEPT !.status = y.status, !.owner = 0]
<1>1. /\ IsShown(z) /\ z.status = y.status /\ z.attempt = x.attempt
      /\ z.owner = 0 /\ z.owners = x.owners
  BY DEF IsShown, Field
<1> HIDE DEF z
<1>2. y = z
  BY <1>1, SameShown
<1>3. QED
  BY <1>2 DEF z, Lifecycle!Finish, Lifecycle!Live

\* The move to cancelled.
LEMMA DropByFields ==
  ASSUME NEW x, NEW y, IsShown(x), IsShown(y), x.status \notin Terminal,
         y.status = "cancelled", y.attempt = x.attempt, y.owner = 0, y.owners = x.owners
  PROVE  Lifecycle!Drop(x, y)
<1> DEFINE z == [x EXCEPT !.status = "cancelled", !.owner = 0]
<1>1. /\ IsShown(z) /\ z.status = "cancelled" /\ z.attempt = x.attempt
      /\ z.owner = 0 /\ z.owners = x.owners
  BY DEF IsShown, Field
<1> HIDE DEF z
<1>2. y = z
  BY <1>1, SameShown
<1>3. QED
  BY <1>2 DEF z, Lifecycle!Drop, Lifecycle!Finished, Terminal

\* The move back to the queue.
LEMMA GiveBackByFields ==
  ASSUME NEW x, NEW y, IsShown(x), IsShown(y), x.status = "provisioning",
         y.status = "queued", y.attempt = x.attempt, y.owner = 0, y.owners = x.owners
  PROVE  Lifecycle!GiveBack(x, y)
<1> DEFINE z == [x EXCEPT !.status = "queued", !.owner = 0]
<1>1. /\ IsShown(z) /\ z.status = "queued" /\ z.attempt = x.attempt
      /\ z.owner = 0 /\ z.owners = x.owners
  BY DEF IsShown, Field
<1> HIDE DEF z
<1>2. y = z
  BY <1>1, SameShown
<1>3. QED
  BY <1>2 DEF z, Lifecycle!GiveBack

\* The move to a new owner.
LEMMA OwnByFields ==
  ASSUME NEW x, NEW y, IsShown(x), IsShown(y), x.status = "queued",
         y.status = "provisioning", y.attempt = x.attempt, y.owner = x.owners + 1,
         y.owners = x.owners + 1
  PROVE  Lifecycle!Own(x, y)
<1> DEFINE z == [x EXCEPT !.status = "provisioning",
                          !.owner = x.owners + 1, !.owners = x.owners + 1]
<1>1. /\ IsShown(z) /\ z.status = "provisioning" /\ z.attempt = x.attempt
      /\ z.owner = x.owners + 1 /\ z.owners = x.owners + 1
  BY DEF IsShown, Field
<1> HIDE DEF z
<1>2. y = z
  BY <1>1, SameShown
<1>3. QED
  BY <1>2 DEF z, Lifecycle!Own

\* The move to running.
LEMMA StartByFields ==
  ASSUME NEW x, NEW y, IsShown(x), IsShown(y), x.status = "provisioning",
         y.status = "running", y.attempt = x.attempt, y.owner = x.owner, y.owners = x.owners
  PROVE  Lifecycle!StartRun(x, y)
<1> DEFINE z == [x EXCEPT !.status = "running"]
<1>1. /\ IsShown(z) /\ z.status = "running" /\ z.attempt = x.attempt
      /\ z.owner = x.owner /\ z.owners = x.owners
  BY DEF IsShown, Field
<1> HIDE DEF z
<1>2. y = z
  BY <1>1, SameShown
<1>3. QED
  BY <1>2 DEF z, Lifecycle!StartRun

\* The move to review.
LEMMA ParkByFields ==
  ASSUME NEW x, NEW y, IsShown(x), IsShown(y), x.status \in {"provisioning", "running"},
         y.status = "review", y.attempt = x.attempt, y.owner = x.owner, y.owners = x.owners
  PROVE  Lifecycle!Park(x, y)
<1> DEFINE z == [x EXCEPT !.status = "review"]
<1>1. /\ IsShown(z) /\ z.status = "review" /\ z.attempt = x.attempt
      /\ z.owner = x.owner /\ z.owners = x.owners
  BY DEF IsShown, Field
<1> HIDE DEF z
<1>2. y = z
  BY <1>1, SameShown
<1>3. QED
  BY <1>2 DEF z, Lifecycle!Park, Lifecycle!Live

\* The move to a new attempt.
LEMMA AgainByFields ==
  ASSUME NEW x, NEW y, IsShown(x), IsShown(y), x.status \in {"failed", "cancelled"},
         y.status = "queued", y.attempt = x.attempt + 1, y.owner = x.owner,
         y.owners = x.owners
  PROVE  Lifecycle!Again(x, y)
<1> DEFINE z == [x EXCEPT !.status = "queued", !.attempt = x.attempt + 1]
<1>1. /\ IsShown(z) /\ z.status = "queued" /\ z.attempt = x.attempt + 1
      /\ z.owner = x.owner /\ z.owners = x.owners
  BY DEF IsShown, Field
<1> HIDE DEF z
<1>2. y = z
  BY <1>1, SameShown
<1>3. QED
  BY <1>2 DEF z, Lifecycle!Again

\* An end: from anywhere but an end by cancellation, from provisioning, running and
\* review also by an outcome.
LEMMA EndMoves ==
  ASSUME NEW b, NEW b2, NEW a, NEW a2, NEW c, b2.status \in Terminal, b2.cur = b.cur,
         a2.token = NoToken, b.status \notin Terminal,
         b2.status = "cancelled" \/ b.status \in Active \union {"review"}
  PROVE  Lifecycle!Move(Shown(b, a, c), Shown(b2, a2, c))
<1> DEFINE x == Shown(b, a, c)
           y == Shown(b2, a2, c)
<1>1. /\ IsShown(x) /\ IsShown(y) /\ y.status = b2.status /\ y.attempt = x.attempt
      /\ y.owner = 0 /\ y.owners = x.owners /\ x.status = b.status
  BY ShownFields DEF NoToken
<1> HIDE DEF x, y
<1>2. Lifecycle!Move(x, y)
  <2>1. CASE b2.status = "cancelled"
    BY <1>1, <2>1, DropByFields, MoveIs
  <2>2. CASE b2.status # "cancelled"
    BY <1>1, <2>2, FinishByFields, MoveIs DEF Terminal, Active
  <2>3. QED
    BY <2>1, <2>2
<1>3. QED
  BY <1>2 DEF x, y

\* The job of a step that changes neither its status nor its owner stands still.
LEMMA StandsStill ==
  ASSUME NEW i \in Job, job'[i].status = job[i].status, job'[i].cur = job[i].cur,
         att'[i][job[i].cur].token = att[i][job[i].cur].token, claims'[i] = claims[i]
  PROVE  Lives(i)
BY DEF Lives, Shown

\* Ending a job ends it, cancels or queues blocked dependents, and no more.
LEMMA CompleteLockedLives ==
  ASSUME IInv, NEW h \in Node, NEW j \in Job, NEW s \in Terminal,
         job[j].status \notin Terminal,
         s = "cancelled" \/ job[j].status \in Active \union {"review"},
         NEW how, NEW by,
         CompleteLocked(h, j, job[j].cur, s, how, by), NEW i \in Job
  PROVE  Lives(i)
<1> DEFINE gone == CancelledBy(j, s)
           free == UnlockedBy(j, s)
           n    == job[i].cur
<1>0. /\ job[i] \in JobRow /\ n \in Attempt /\ att[i] \in [Attempt -> AttRow]
      /\ claims'[i] = claims[i] /\ att[i][n] \in AttRow
  BY RowTypes DEF IInv, CompleteLocked
<1>1. ASSUME NEW t \in Terminal, job[i].status \notin Terminal,
             t = "cancelled" \/ job[i].status \in Active \union {"review"},
             job'[i] = [job[i] EXCEPT !.status = t],
             att'[i] = [att[i] EXCEPT ![n] = Ended(@, t)]
      PROVE  Lives(i)
  <2>1. /\ job'[i].cur = n /\ job'[i].status = t
        /\ att'[i][n] = Ended(att[i][n], t)
    BY <1>0, <1>1 DEF JobRow
  <2>2. att'[i][n].token = NoToken
    <3>1. t \in Status /\ att[i][n] \in AttRow
      BY <1>0, <1>1 DEF Status
    <3>2. Ended(att[i][n], t).token = NoToken
      BY <3>1, EndedType
    <3>3. QED
      BY <2>1, <3>2
  <2>3. QED
    BY <1>0, <1>1, <2>1, <2>2, EndMoves DEF Lives
<1>2. CASE i = j
  BY <1>1, <1>2 DEF CompleteLocked
<1>3. CASE i # j /\ i \in gone
  BY <1>1, <1>3, NotifiedAreBlocked DEF CompleteLocked, Terminal
<1>4. CASE i # j /\ i \notin gone /\ i \in free
  <2>1. /\ job'[i] = [job[i] EXCEPT !.status = "queued", !.aged = FALSE]
        /\ att'[i] = [att[i] EXCEPT ![n].status = "queued"]
        /\ job[i].status = "blocked"
    BY <1>4, NotifiedAreBlocked DEF CompleteLocked
  <2>2. /\ job'[i].status = "queued" /\ job'[i].cur = n
        /\ att'[i][n].token = att[i][n].token
    BY <1>0, <2>1 DEF JobRow, AttRow
  <2>3. Lifecycle!Unlock(Shown(job[i], att[i][n], claims[i]),
                         Shown(job'[i], att'[i][n], claims'[i]))
    BY <1>0, <2>1, <2>2 DEF Lifecycle!Unlock, Shown
  <2>4. QED
    BY <2>2, <2>3, MoveIs DEF Lives
<1>5. CASE i # j /\ i \notin gone /\ i \notin free
  BY <1>0, <1>5, StandsStill DEF CompleteLocked
<1>6. QED
  BY <1>2, <1>3, <1>4, <1>5

\* A step that leaves every job but j alone.
OthersAlone(j) ==
  \A i \in Job \ {j} : job'[i] = job[i] /\ att'[i] = att[i] /\ claims'[i] = claims[i]

\* When a step is about job j alone, only j moves.
LEMMA OthersLive ==
  ASSUME IInv, NEW j \in Job, OthersAlone(j), Lives(j), NEW i \in Job
  PROVE  Lives(i)
BY StandsStill DEF OthersAlone

\* What a step on job j starts from.
LEMMA HereAndNow ==
  ASSUME IInv, NEW j \in Job
  PROVE  /\ job \in [Job -> JobRow] /\ att \in [Job -> [Attempt -> AttRow]]
         /\ claims \in [Job -> 0..MaxClaim]
         /\ job[j] \in JobRow /\ job[j].cur \in Attempt
         /\ att[j] \in [Attempt -> AttRow] /\ att[j][job[j].cur] \in AttRow
         /\ att[j][job[j].cur].status = job[j].status
BY RowTypes, Now DEF IInv, TypeOK, Good

\* A claim gives a queued job its next owner.
LEMMA ClaimLives ==
  ASSUME IInv, NEW h, NEW j \in Job, NEW runner, Claim(h, j, runner), NEW i \in Job
  PROVE  Lives(i)
<1> DEFINE n == job[j].cur
           k == claims[j] + 1
           a == [status |-> "provisioning", machine |-> runner, token |-> k,
                 lease |-> LeaseTTL, reserved |-> TRUE]
           x == Shown(job[j], att[j][n], claims[j])
           y == Shown(job'[j], att'[j][n], claims'[j])
<1>1. /\ job' = [job EXCEPT ![j].status = "provisioning"]
      /\ att' = [att EXCEPT ![j][n] = a]
      /\ claims' = [claims EXCEPT ![j] = k]
      /\ job[j].status = "queued"
  BY DEF Claim
<1>2. /\ job \in [Job -> JobRow] /\ att \in [Job -> [Attempt -> AttRow]]
      /\ claims \in [Job -> 0..MaxClaim] /\ n \in Attempt
  BY HereAndNow
<1>3. OthersAlone(j)
  BY <1>1, <1>2 DEF OthersAlone
<1>4. /\ job'[j].status = "provisioning" /\ job'[j].cur = n
      /\ att'[j][n].token = k /\ claims'[j] = k /\ job[j].status = "queued"
  BY <1>1, <1>2 DEF JobRow
<1>5. /\ IsShown(x) /\ IsShown(y) /\ x.status = "queued" /\ y.status = "provisioning"
      /\ y.attempt = x.attempt /\ y.owner = x.owners + 1 /\ y.owners = x.owners + 1
  BY <1>4, ShownFields
<1> HIDE DEF x, y
<1>6. Lifecycle!Move(x, y)
  BY <1>5, OwnByFields, MoveIs
<1>7. Lives(j)
  BY <1>4, <1>6 DEF Lives, x, y
<1>8. QED
  BY <1>3, <1>7, OthersLive

\* A call of a runner starts, parks, gives back or ends its job, or moves nothing.
LEMMA CallLives ==
  ASSUME IInv, NEW j \in Job, NEW m \in Attempt, NEW k \in Token, Call(j, m, k), NEW i \in Job
  PROVE  Lives(i)
<1> DEFINE n == job[j].cur
           x == Shown(job[j], att[j][n], claims[j])
           y == Shown(job'[j], att'[j][n], claims'[j])
<1>1. /\ job \in [Job -> JobRow] /\ att \in [Job -> [Attempt -> AttRow]]
      /\ n \in Attempt /\ job[j] \in JobRow /\ att[j][n] \in AttRow
  BY HereAndNow
<1>2. att[j][m].status \in Active \union {"review"} => m = n /\ job[j].status = att[j][m].status
  BY LiveIsCurrent
<1>3. /\ IsShown(x) /\ IsShown(y) /\ x.status = job[j].status /\ y.status = job'[j].status
      /\ x.attempt = n /\ y.attempt = job'[j].cur
      /\ x.owner = att[j][n].token /\ y.owner = att'[j][n].token
      /\ x.owners = claims[j] /\ y.owners = claims'[j]
  BY ShownFields
<1>4. job'[j].cur = n /\ Lifecycle!Move(x, y) => Lives(j)
  BY DEF Lives
<1> HIDE DEF x, y
<1>5. CASE Heartbeat(j, m, k) \/ Renew(j, m, k)
  <2>1. /\ m = n /\ job' = job /\ claims' = claims
        /\ att' = [att EXCEPT ![j][m].lease = LeaseTTL]
    BY <1>2, <1>5 DEF Heartbeat, Renew, HoldsLease
  <2>2. OthersAlone(j) /\ att'[j][n].token = att[j][n].token
    BY <1>1, <2>1 DEF OthersAlone, AttRow
  <2>3. QED
    BY <2>1, <2>2, StandsStill, OthersLive
<1>6. CASE MarkRunning(j, m, k)
  <2>1. /\ m = n /\ claims' = claims /\ job[j].status = "provisioning"
        /\ att' = [att EXCEPT ![j][m].status = "running"]
        /\ job' = [job EXCEPT ![j].status = "running"]
    BY <1>2, <1>6 DEF MarkRunning, Active
  <2>2. /\ OthersAlone(j) /\ att'[j][n].token = att[j][n].token
        /\ job'[j].cur = n /\ job'[j].status = "running"
    BY <1>1, <2>1 DEF OthersAlone, AttRow, JobRow
  <2>3. Lifecycle!StartRun(x, y)
    BY <1>3, <2>1, <2>2, StartByFields
  <2>4. QED
    BY <1>4, <2>2, <2>3, OthersLive, MoveIs
<1>7. ASSUME NEW h, Unclaim(h, j, m, k) PROVE Lives(i)
  <2>1. /\ m = n /\ claims' = claims /\ job[j].status = "provisioning"
        /\ att' = [att EXCEPT ![j][m] = Ended(att[j][m], "queued")]
        /\ job' = [job EXCEPT ![j].status = "queued"]
    BY <1>2, <1>7 DEF Unclaim, Active
  <2>2. /\ OthersAlone(j) /\ att'[j][n] = Ended(att[j][n], "queued")
        /\ job'[j].cur = n /\ job'[j].status = "queued"
    BY <1>1, <2>1 DEF OthersAlone, JobRow
  <2>3. att'[j][n].token = 0
    <3>1. Ended(att[j][n], "queued").token = NoToken
      BY <1>1, EndedType DEF Status
    <3>2. QED
      BY <2>2, <3>1 DEF NoToken
  <2>4. Lifecycle!GiveBack(x, y)
    BY <1>3, <2>1, <2>2, <2>3, GiveBackByFields
  <2>5. QED
    BY <1>4, <2>2, <2>4, OthersLive, MoveIs
<1>8. ASSUME NEW h, Hold(h, j, m, k) PROVE Lives(i)
  <2>1. /\ m = n /\ claims' = claims /\ job[j].status \in Active
        /\ att' = [att EXCEPT ![j][m] = [att[j][m] EXCEPT !.status = "review", !.lease = 0,
                                                          !.reserved = FALSE]]
        /\ job' = [job EXCEPT ![j] = [@ EXCEPT !.status = "review", !.decision = "undecided",
                                               !.due = FALSE]]
    BY <1>2, <1>8 DEF Hold, HoldsLease
  <2>2. /\ OthersAlone(j) /\ att'[j][n].token = att[j][n].token
        /\ job'[j].cur = n /\ job'[j].status = "review"
    BY <1>1, <2>1 DEF OthersAlone, AttRow, JobRow
  <2>3. Lifecycle!Park(x, y)
    BY <1>3, <2>1, <2>2, ParkByFields DEF Active
  <2>4. QED
    BY <1>4, <2>2, <2>3, OthersLive, MoveIs
<1>9. ASSUME NEW h \in Node, NEW s \in {"succeeded", "failed"}, Complete(h, j, m, k, s)
      PROVE  Lives(i)
  <2>1. /\ att[j][m].status \in Active \union {"review"}
        /\ CompleteLocked(h, j, m, s, "call", k)
    BY <1>9 DEF Complete, MayComplete, HoldsLease
  <2>2. /\ m = n /\ job[j].status \in Active \union {"review"} /\ job[j].status \notin Terminal
        /\ s \in Terminal
    BY <1>2, <2>1 DEF Active, Terminal
  <2>3. QED
    BY <2>1, <2>2, CompleteLockedLives
<1>10. CallNode(att[j][m]) \subseteq Node
  BY JobsAssumption DEF CallNode, JobsAssumption
<1>11. QED
  BY <1>5, <1>6, <1>7, <1>8, <1>9, <1>10 DEF Call

\* An operator, or the sweep of an orphan, ends the job.
LEMMA HouseLives ==
  ASSUME IInv, NEW h \in Node, NEW j \in Job, House(h, j), NEW i \in Job
  PROVE  Lives(i)
<1> DEFINE n == job[j].cur
<1>1. CASE Reject(h, j) \/ ExpireReview(h, j)
  BY <1>1, CompleteLockedLives DEF Reject, ExpireReview, Terminal
<1>2. CASE Cancel(h, j)
  BY <1>2, CompleteLockedLives DEF Cancel, Terminal
<1>3. CASE RecoverOrphan(h, j)
  <2>1. /\ job' = [job EXCEPT ![j].status = "cancelled"]
        /\ att' = [att EXCEPT ![j][n] = Ended(att[j][n], "cancelled")]
        /\ claims' = claims /\ job[j].status = "queued"
    BY <1>3 DEF RecoverOrphan
  <2>2. /\ job \in [Job -> JobRow] /\ att \in [Job -> [Attempt -> AttRow]]
        /\ n \in Attempt /\ job[j] \in JobRow /\ att[j][n] \in AttRow
    BY HereAndNow
  <2>3. /\ OthersAlone(j) /\ job'[j].cur = n /\ job'[j].status = "cancelled"
        /\ att'[j][n] = Ended(att[j][n], "cancelled")
    BY <2>1, <2>2 DEF OthersAlone, JobRow
  <2>4. Ended(att[j][n], "cancelled").token = NoToken
    BY <2>2, EndedType DEF Status, Terminal
  <2>5. /\ att'[j][n].token = NoToken /\ job[j].status \notin Terminal
        /\ job'[j].status \in Terminal /\ claims'[j] = claims[j]
    BY <2>1, <2>3, <2>4 DEF Terminal
  <2>6. Lives(j)
    BY <2>3, <2>5, EndMoves DEF Lives
  <2>7. QED
    BY <2>3, <2>6, OthersLive
<1>4. QED
  BY <1>1, <1>2, <1>3 DEF House

\* A retry begins the next attempt of a job that ended without success.
LEMMA RetryLives ==
  ASSUME IInv, NEW j \in Job, Retry(j), NEW i \in Job
  PROVE  Lives(i)
<1> DEFINE n == job[j].cur
           b == [job[j] EXCEPT !.status = "queued", !.cur = n + 1, !.decision = "none",
                               !.due = FALSE, !.aged = FALSE]
           a == [NoAttempt EXCEPT !.status = "queued"]
           x == Shown(job[j], att[j][n], claims[j])
           y == Shown(b, a, claims[j])
<1>1. /\ job' = [job EXCEPT ![j] = b] /\ att' = [att EXCEPT ![j][n + 1] = a]
      /\ claims' = claims /\ job[j].status \in Unsuccessful /\ n + 1 <= MaxAttempt
  BY DEF Retry
<1>2. /\ job \in [Job -> JobRow] /\ att \in [Job -> [Attempt -> AttRow]]
      /\ n \in Attempt /\ n + 1 \in Attempt
  BY <1>1, HereAndNow, JobsAssumption DEF Attempt, JobsAssumption
<1>3. OthersAlone(j) /\ job'[j] = b /\ att'[j][n + 1] = a
  BY <1>1, <1>2 DEF OthersAlone
<1>4. a.token = 0 /\ b.cur = n + 1 /\ b.status = "queued"
  BY <1>2 DEF NoAttempt, NoToken, JobRow
<1>5. att[j][n].token = 0 /\ n \in Nat
  <2>1. Good(job[j], n, att[j][n], claims[j], outbox[j][n], hist[j][n]) /\ n \in Nat
    BY <1>2, Now
  <2>2. QED
    BY <1>1, <2>1 DEF Good, Unsuccessful, Active, NoToken
<1> HIDE DEF a, b
<1>6. /\ IsShown(x) /\ IsShown(y) /\ x.status \in {"failed", "cancelled"}
      /\ y.status = "queued" /\ y.attempt = x.attempt + 1 /\ y.owner = x.owner
      /\ y.owners = x.owners
  BY <1>1, <1>4, <1>5, ShownFields DEF Unsuccessful
<1>7. Lives(j)
  <2> HIDE DEF x, y
  <2>1. Lifecycle!Move(x, y)
    BY <1>6, AgainByFields, MoveIs
  <2>2. QED
    BY <1>1, <1>3, <1>4, <2>1 DEF Lives, x, y
<1>8. QED
  BY <1>3, <1>7, OthersLive

\* Approvals and the passing of time move no job.
LEMMA MomentLives ==
  ASSUME IInv, NEW j \in Job, Approve(j) \/ Time(j), NEW i \in Job
  PROVE  Lives(i)
<1> DEFINE n == job[j].cur
<1>1. /\ job \in [Job -> JobRow] /\ att \in [Job -> [Attempt -> AttRow]] /\ n \in Attempt
  BY HereAndNow
<1>2. CASE Approve(j) \/ ReviewDue(j) \/ GracePasses(j)
  <2>1. att' = att /\ claims' = claims /\ OthersAlone(j)
    BY <1>1, <1>2 DEF Approve, ReviewDue, GracePasses, OthersAlone
  <2>2. job'[j].status = job[j].status /\ job'[j].cur = n
    BY <1>1, <1>2 DEF Approve, ReviewDue, GracePasses, JobRow
  <2>3. QED
    BY <2>1, <2>2, StandsStill, OthersLive
<1>3. CASE LeaseAges(j)
  <2>1. /\ job' = job /\ claims' = claims
        /\ att' = [att EXCEPT ![j][n].lease = @ - 1]
    BY <1>3 DEF LeaseAges
  <2>2. OthersAlone(j) /\ att'[j][n].token = att[j][n].token
    BY <1>1, <2>1 DEF OthersAlone, AttRow
  <2>3. QED
    BY <2>1, <2>2, StandsStill, OthersLive
<1>4. QED
  BY <1>2, <1>3 DEF Time

\* The sweep of expired leases ends each job it finds.
LEMMA RecoverStaleLives ==
  ASSUME IInv, NEW h \in Node, RecoverStale(h), NEW i \in Job
  PROVE  Lives(i)
<1> DEFINE n == job[i].cur
<1>1. /\ job[i] \in JobRow /\ n \in Attempt /\ att[i] \in [Attempt -> AttRow]
      /\ att[i][n] \in AttRow /\ claims'[i] = claims[i]
  BY HereAndNow DEF RecoverStale
<1>2. CASE Stale(i)
  <2>1. /\ job'[i] = [job[i] EXCEPT !.status = "failed"]
        /\ att'[i] = [att[i] EXCEPT ![n] = Ended(@, "failed")]
        /\ job[i].status \in Active
    BY <1>2 DEF RecoverStale, Stale
  <2>2. /\ job'[i].status = "failed" /\ job'[i].cur = n
        /\ att'[i][n] = Ended(att[i][n], "failed")
    BY <1>1, <2>1 DEF JobRow
  <2>3. Ended(att[i][n], "failed").token = NoToken
    BY <1>1, EndedType DEF Status, Terminal
  <2>4. /\ att'[i][n].token = NoToken /\ job[i].status \notin Terminal
        /\ job'[i].status \in Terminal
    BY <2>1, <2>2, <2>3 DEF Terminal, Active
  <2>5. QED
    BY <1>1, <2>1, <2>2, <2>4, EndMoves DEF Lives
<1>3. CASE ~Stale(i)
  BY <1>1, <1>3, StandsStill DEF RecoverStale
<1>4. QED
  BY <1>2, <1>3

\* The dispatcher claims a job or fails its current attempt.
LEMMA DispatcherLives ==
  ASSUME IInv, NEW h \in Direct, NEW j \in Job, ClaimDirect(h, j) \/ FailCurrent(h, j),
         NEW i \in Job
  PROVE  Lives(i)
<1>1. CASE ClaimDirect(h, j)
  BY <1>1, ClaimLives DEF ClaimDirect
<1>2. CASE FailCurrent(h, j)
  <2>1. PICK n \in Attempt : /\ att[j][n].status \in Active
                             /\ Complete(h, j, n, att[j][n].token, "failed")
    BY <1>2 DEF FailCurrent
  <2>2. /\ n = job[j].cur /\ job[j].status \in Active \union {"review"}
        /\ job[j].status \notin Terminal /\ h \in Node
    BY <2>1, LiveIsCurrent, JobsAssumption DEF Active, Terminal, JobsAssumption
  <2>3. CompleteLocked(h, j, n, "failed", "call", att[j][n].token) /\ "failed" \in Terminal
    BY <2>1 DEF Complete, Terminal
  <2>4. QED
    BY <2>2, <2>3, CompleteLockedLives
<1>3. QED
  BY <1>1, <1>2

\* Every step of the store takes every job at most one move.
LEMMA NextLives ==
  ASSUME IInv, [Next]_vars, NEW i \in Job
  PROVE  Lives(i)
<1>1. CASE UNCHANGED <<job, att, claims>>
  BY <1>1 DEF Lives
<1>2. ASSUME NEW h \in Node, NEW c \in Budget, SetCapacity(h, c) PROVE Lives(i)
  BY <1>1, <1>2 DEF SetCapacity
<1>3. ASSUME NEW h \in Node, NEW w \in Worker, NEW j \in Job, ClaimNext(h, w, j)
      PROVE  Lives(i)
  BY <1>3, ClaimLives DEF ClaimNext
<1>4. CASE StoreNext
  BY <1>2, <1>3, <1>4, CallLives, RetryLives, MomentLives, HouseLives, RecoverStaleLives
     DEF StoreNext
<1>5. ASSUME NEW j \in Job, NEW r \in Row, DispatchMoves(j, r) PROVE Lives(i)
  BY <1>1, <1>5 DEF DispatchMoves
<1>6. CASE UNCHANGED vars
  BY <1>1, <1>6 DEF vars
<1>7. QED
  BY <1>4, <1>5, <1>6, DispatcherLives DEF Next

\* Jobs are admitted blocked or queued, with their first attempt and no owner.
LEMMA InitLives == Init => Lifecycle!LifeInit
<1> SUFFICES ASSUME Init PROVE Lifecycle!LifeInit
  OBVIOUS
<1>1. ASSUME NEW i \in Job
      PROVE  Life[i] \in [status : {"blocked", "queued"}, attempt : {1}, owner : {0}, owners : {0}]
  <2>1. /\ job[i].status = InitStatus(i) /\ job[i].cur = 1 /\ claims[i] = 0
        /\ att[i][1] = [NoAttempt EXCEPT !.status = InitStatus(i)]
    BY JobsAssumption DEF Init, Attempt, JobsAssumption
  <2>2. att[i][1].token = 0
    BY <2>1 DEF NoAttempt, NoToken
  <2>3. InitStatus(i) \in {"blocked", "queued"}
    BY DEF InitStatus
  <2>4. QED
    BY <2>1, <2>2, <2>3 DEF Life
<1>2. Life = [i \in Job |-> Life[i]]
  BY DEF Life
<1>3. QED
  BY <1>1, <1>2 DEF Lifecycle!LifeInit

\* The job store implements the life cycle: seen from outside, each job goes from
\* blocked or queued to its end, one move per step, and every owner of an attempt is
\* a new one.
THEOREM StoreImplementsLifecycle == Spec => ImplementsLifecycle
<1>1. IInv /\ [Next]_vars => [Lifecycle!LifeNext]_Life
  <2> SUFFICES ASSUME IInv, [Next]_vars PROVE Lifecycle!LifeNext
    OBVIOUS
  <2>1. DOMAIN Life' = Job
    BY DEF Life
  <2>2. ASSUME NEW i \in Job PROVE Life'[i] = Life[i] \/ Lifecycle!Move(Life[i], Life'[i])
    BY NextLives DEF Lives, Life, Shown
  <2>3. QED
    BY <2>1, <2>2 DEF Lifecycle!LifeNext
<1>2. QED
  BY <1>1, InitLives, Invariance, PTL DEF Spec, ImplementsLifecycle, Lifecycle!LifeSpec

-----------------------------------------------------------------------------
(* Output held for review *)

\* Job i leaves review by an end, and with success only on an approval and for the
\* owner of the token its attempt kept.
Fence(i) ==
  job[i].status = "review" /\ job'[i].status # "review" =>
    /\ job'[i].status \in Terminal
    /\ job'[i].status = "succeeded" =>
         /\ job[i].decision = "approve"
         /\ hist'[i][job[i].cur].by = att[i][job[i].cur].token

\* Of the jobs an end writes only the one it ends can be in review.
LEMMA CompleteLockedFence ==
  ASSUME IInv, NEW h \in Node, NEW j \in Job, NEW s \in Terminal, NEW how, NEW by,
         CompleteLocked(h, j, job[j].cur, s, how, by),
         job[j].status = "review" /\ s = "succeeded" =>
           job[j].decision = "approve" /\ by = att[j][job[j].cur].token,
         NEW i \in Job
  PROVE  Fence(i)
<1> DEFINE n == job[i].cur
<1>1. /\ job[i] \in JobRow /\ n \in Attempt /\ hist[i] \in [Attempt -> HistRow]
  BY RowTypes DEF IInv
<1>2. CASE i = j
  <2>1. /\ job'[i] = [job[i] EXCEPT !.status = s]
        /\ hist'[i] = [hist[i] EXCEPT ![n].how = how, ![n].by = by]
    BY <1>2 DEF CompleteLocked
  <2>2. job'[i].status = s /\ hist'[i][n].by = by
    BY <1>1, <2>1 DEF JobRow, HistRow
  <2>3. QED
    BY <1>2, <2>2 DEF Fence
<1>3. CASE i # j /\ i \in CancelledBy(j, s) \union UnlockedBy(j, s)
  BY <1>3, NotifiedAreBlocked DEF Fence
<1>4. CASE i # j /\ i \notin CancelledBy(j, s) \union UnlockedBy(j, s)
  BY <1>4 DEF Fence, CompleteLocked
<1>5. QED
  BY <1>2, <1>3, <1>4

\* A step that changes the status of no job but j, and j is not in review.
LEMMA NotInReview ==
  ASSUME IInv, NEW j \in Job, NEW b, job[j].status # "review",
         job' = [job EXCEPT ![j] = b], NEW i \in Job
  PROVE  Fence(i)
<1>1. job \in [Job -> JobRow]
  BY HereAndNow
<1>2. QED
  BY <1>1 DEF Fence

\* A call that ends a job in review presents the token of an approved attempt.
LEMMA CompleteFence ==
  ASSUME IInv, NEW h \in Node, NEW j \in Job, NEW n \in Attempt, NEW k,
         NEW s \in {"succeeded", "failed"}, Complete(h, j, n, k, s), NEW i \in Job
  PROVE  Fence(i)
<1>1. /\ att[j][n].status \in Active \union {"review"} /\ att[j][n].token = k
      /\ att[j][n].status = "review" => job[j].decision = "approve"
      /\ CompleteLocked(h, j, n, s, "call", k)
  BY DEF Complete, MayComplete, HoldsLease
<1>2. n = job[j].cur /\ job[j].status = att[j][n].status /\ s \in Terminal
  BY <1>1, LiveIsCurrent DEF Terminal
<1>3. QED
  BY <1>1, <1>2, CompleteLockedFence

\* Of the calls, only a completion takes a job out of review.
LEMMA CallFence ==
  ASSUME IInv, NEW j \in Job, NEW n \in Attempt, NEW k \in Token, Call(j, n, k), NEW i \in Job
  PROVE  Fence(i)
<1>1. CASE job' = job
  BY <1>1 DEF Fence
<1>2. CASE MarkRunning(j, n, k)
  <2>1. job' = [job EXCEPT ![j] = [job[j] EXCEPT !.status = "running"]]
    BY <1>2, HereAndNow DEF MarkRunning
  <2>2. QED
    BY <1>2, <2>1, NotInReview DEF MarkRunning
<1>3. ASSUME NEW h, Unclaim(h, j, n, k) PROVE Fence(i)
  <2>1. job' = [job EXCEPT ![j] = [job[j] EXCEPT !.status = "queued"]]
    BY <1>3, HereAndNow DEF Unclaim
  <2>2. QED
    BY <1>3, <2>1, NotInReview DEF Unclaim
<1>4. ASSUME NEW h, Hold(h, j, n, k) PROVE Fence(i)
  <2>1. /\ job[j].status # "review"
        /\ job' = [job EXCEPT ![j] = [job[j] EXCEPT !.status = "review",
                                                    !.decision = "undecided", !.due = FALSE]]
    BY <1>4, LiveIsCurrent, HereAndNow DEF Hold, HoldsLease, Active
  <2>2. QED
    BY <2>1, NotInReview
<1>5. CallNode(att[j][n]) \subseteq Node
  BY JobsAssumption DEF CallNode, JobsAssumption
<1>6. QED
  BY <1>1, <1>2, <1>3, <1>4, <1>5, CompleteFence DEF Call, Heartbeat, Renew

\* An operator ends a review without success.
LEMMA HouseFence ==
  ASSUME IInv, NEW h \in Node, NEW j \in Job, House(h, j), NEW i \in Job
  PROVE  Fence(i)
<1>1. CASE Reject(h, j) \/ ExpireReview(h, j) \/ Cancel(h, j)
  BY <1>1, CompleteLockedFence DEF Reject, ExpireReview, Cancel, Terminal
<1>2. CASE RecoverOrphan(h, j)
  <2>1. job' = [job EXCEPT ![j] = [job[j] EXCEPT !.status = "cancelled"]]
    BY <1>2, HereAndNow DEF RecoverOrphan
  <2>2. QED
    BY <1>2, <2>1, NotInReview DEF RecoverOrphan
<1>3. QED
  BY <1>1, <1>2 DEF House

\* Approvals, retries and the passing of time leave a review open.
LEMMA MomentFence ==
  ASSUME IInv, NEW j \in Job, Approve(j) \/ Time(j) \/ Retry(j), NEW i \in Job
  PROVE  Fence(i)
<1>1. job \in [Job -> JobRow]
  BY HereAndNow
<1>2. CASE LeaseAges(j)
  BY <1>2 DEF LeaseAges, Fence
<1>3. CASE Retry(j)
  BY <1>1, <1>3 DEF Retry, Fence, Unsuccessful
<1>4. CASE Approve(j) \/ ReviewDue(j) \/ GracePasses(j)
  <2>1. job'[i].status = job[i].status
    BY <1>1, <1>4 DEF Approve, ReviewDue, GracePasses, JobRow
  <2>2. QED
    BY <2>1 DEF Fence
<1>5. QED
  BY <1>2, <1>3, <1>4 DEF Time

\* The sweep of expired leases finds no job in review.
LEMMA RecoverStaleFence ==
  ASSUME IInv, NEW h \in Node, RecoverStale(h), NEW i \in Job
  PROVE  Fence(i)
<1>1. CASE Stale(i)
  BY <1>1 DEF Stale, Active, Fence
<1>2. CASE ~Stale(i)
  BY <1>2 DEF RecoverStale, Fence
<1>3. QED
  BY <1>1, <1>2

\* A claim finds no job in review.
LEMMA ClaimFence ==
  ASSUME IInv, NEW h, NEW j \in Job, NEW runner, Claim(h, j, runner), NEW i \in Job
  PROVE  Fence(i)
<1>1. job' = [job EXCEPT ![j] = [job[j] EXCEPT !.status = "provisioning"]]
  BY HereAndNow DEF Claim
<1>2. QED
  BY <1>1, NotInReview DEF Claim

\* No step opens the fence otherwise.
LEMMA NextFence ==
  ASSUME IInv, [Next]_vars, NEW i \in Job
  PROVE  Fence(i)
<1>1. CASE job' = job
  BY <1>1 DEF Fence
<1>2. ASSUME NEW h \in Node, NEW c \in Budget, SetCapacity(h, c) PROVE Fence(i)
  BY <1>1, <1>2 DEF SetCapacity
<1>3. ASSUME NEW h \in Node, NEW w \in Worker, NEW j \in Job, ClaimNext(h, w, j)
      PROVE  Fence(i)
  BY <1>3, ClaimFence DEF ClaimNext
<1>4. CASE StoreNext
  BY <1>2, <1>3, <1>4, CallFence, MomentFence, HouseFence, RecoverStaleFence DEF StoreNext
<1>5. ASSUME NEW h \in Direct, NEW j \in Job, ClaimDirect(h, j) \/ FailCurrent(h, j)
      PROVE  Fence(i)
  <2>1. h \in Node
    BY JobsAssumption DEF JobsAssumption
  <2>2. QED
    BY <1>5, <2>1, ClaimFence, CompleteFence DEF ClaimDirect, FailCurrent
<1>6. ASSUME NEW j \in Job, NEW r \in Row, DispatchMoves(j, r) PROVE Fence(i)
  BY <1>1, <1>6 DEF DispatchMoves
<1>7. CASE UNCHANGED vars
  BY <1>1, <1>7 DEF vars
<1>8. QED
  BY <1>4, <1>5, <1>6, <1>7 DEF Next

\* Held output is published only on an approval, by the node whose claim produced it,
\* and a review ends in nothing else than an end of the job.
THEOREM ReviewIsFenced == Spec => ReviewFence
<1>1. IInv /\ [Next]_vars => [\A j \in Job : Fence(j)]_vars
  BY NextFence
<1>2. Spec => [][\A j \in Job : Fence(j)]_vars
  BY <1>1, Invariance, PTL DEF Spec
<1>3. QED
  BY <1>2 DEF Fence, ReviewFence

-----------------------------------------------------------------------------
(* What the resolution of the dependents comes to *)

\* Numbers have a least one: induction, for a set.
LEMMA Least == ASSUME NEW T, T \subseteq Nat, T # {} PROVE \E m \in T : \A k \in T : ~(k < m)
<1>1. PICK m \in T : \A k \in T : ~(<<k, m>> \in OpToRel(<, Nat))
  BY NatLessThanWellFounded, WFMin
<1> QED
  BY <1>1 DEF OpToRel

\* What job c sees of job d when it is evaluated, if g is what comes of those before it.
Seen(g, j, c, d) == IF d = j \/ job[d].place < job[c].place THEN g[d] ELSE job[d].status

\* What the resolution says of job c, if it says g of the jobs before c.
Rule(g, j, s, c) ==
  IF c = j THEN s
  ELSE IF c \notin Dependents(j) THEN job[c].status
  ELSE IF \E d \in DependsOn(c) :
            Seen(g, j, c, d) \in Unsuccessful /\ OnFailure[<<c, d>>] = "cancel"
       THEN "cancelled"
  ELSE IF \A d \in DependsOn(c) : Permits(Seen(g, j, c, d), OnFailure[<<c, d>>]) THEN "queued"
  ELSE "blocked"

\* A prerequisite was admitted before the job that waits for it.
LEMMA EarlierOnly ==
  ASSUME NEW c \in Job, NEW d \in DependsOn(c) PROVE d \in Job /\ d < c /\ c \in Nat /\ d \in Nat
BY JobsAssumption DEF JobsAssumption, DependsOn, Job

\* So the rule looks only at what is said of the jobs before.
LEMMA RuleLooksBack ==
  ASSUME NEW g, NEW k, NEW j, NEW s, NEW c \in Job, \A d \in Job : d < c => g[d] = k[d]
  PROVE  Rule(g, j, s, c) = Rule(k, j, s, c)
<1>1. \A d \in DependsOn(c) : Seen(g, j, c, d) = Seen(k, j, c, d)
  BY EarlierOnly DEF Seen
<1> QED
  BY <1>1 DEF Rule

\* And a resolution of all jobs exists, by induction on their number.
LEMMA ResolutionExists ==
  ASSUME NEW j, NEW s PROVE \E g : g = [c \in Job |-> Rule(g, j, s, c)]
<1> DEFINE Bad == {n \in 0..NJobs : ~ \E g : g = [c \in 1..n |-> Rule(g, j, s, c)]}
<1>0. NJobs \in Nat
  BY JobsAssumption DEF JobsAssumption
<1>1. SUFFICES ASSUME Bad # {} PROVE FALSE
  BY <1>0 DEF Job
<1>2. PICK n \in Bad : \A k \in Bad : ~(k < n)
  <2>1. Bad \subseteq Nat
    BY <1>0
  <2> QED
    BY <1>1, <2>1, Least
<1>3. CASE n = 0
  <2> DEFINE g == [c \in 1..0 |-> s]
  <2>1. g = [c \in 1..0 |-> Rule(g, j, s, c)]
    OBVIOUS
  <2> QED
    BY <1>2, <1>3, <2>1
<1>4. CASE n # 0
  <2>1. n \in 1..NJobs /\ n - 1 \in 0..NJobs /\ n - 1 < n
    BY <1>0, <1>2, <1>4
  <2>2. PICK g : g = [c \in 1..(n - 1) |-> Rule(g, j, s, c)]
    BY <1>2, <2>1
  <2> DEFINE k == [c \in 1..n |-> IF c = n THEN Rule(g, j, s, n) ELSE g[c]]
  <2>3. \A c \in 1..n : c \in Job /\ (c # n => c \in 1..(n - 1))
    BY <2>1, <1>0 DEF Job
  <2>4. \A c \in 1..n : \A d \in Job : d < c => g[d] = k[d]
    BY <2>1, <1>0 DEF Job
  <2>5. \A c \in 1..n : Rule(g, j, s, c) = Rule(k, j, s, c)
    <3> HIDE DEF k
    <3> QED
      BY <2>3, <2>4, RuleLooksBack
  <2>6. \A c \in 1..n : k[c] = Rule(g, j, s, c)
    BY <2>2, <2>3
  <2>7. k = [c \in 1..n |-> Rule(k, j, s, c)]
    <3>1. k = [c \in 1..n |-> k[c]]
      OBVIOUS
    <3> HIDE DEF k
    <3> QED
      BY <2>5, <2>6, <3>1
  <2> QED
    BY <1>2, <2>7
<1> QED
  BY <1>3, <1>4

\* The resolution says of each job what the rule says of it.
LEMMA ResolutionIs ==
  ASSUME NEW j, NEW s, NEW c \in Job
  PROVE  Resolution(j, s)[c] = Rule(Resolution(j, s), j, s, c)
<1>1. Resolution(j, s) = CHOOSE g : g = [i \in Job |-> Rule(g, j, s, i)]
  BY DEF Resolution, Rule, Seen
<1>2. Resolution(j, s) = [i \in Job |-> Rule(Resolution(j, s), j, s, i)]
  BY <1>1, ResolutionExists
<1> QED
  BY <1>2
\* The step that ends job j gives every job the status the resolution says.
LEMMA CompleteLockedResolves ==
  ASSUME TypeOK, NEW h, NEW j \in Job, NEW n, NEW s \in Terminal, NEW how, NEW by,
         CompleteLocked(h, j, n, s, how, by), NEW i \in Job
  PROVE  job'[i].status = Resolution(j, s)[i]
<1>1. job[i] \in JobRow /\ job[j] \in JobRow
  BY DEF TypeOK
<1>2. Resolution(j, s)[i] = Rule(Resolution(j, s), j, s, i)
  BY ResolutionIs
<1>3. job'[i] = IF i = j THEN [job[i] EXCEPT !.status = s]
                ELSE IF i \in CancelledBy(j, s) THEN [job[i] EXCEPT !.status = "cancelled"]
                ELSE IF i \in UnlockedBy(j, s)
                     THEN [job[i] EXCEPT !.status = "queued", !.aged = FALSE]
                ELSE job[i]
  BY DEF CompleteLocked
<1>4. CASE i = j
  BY <1>1, <1>2, <1>3, <1>4 DEF Rule, JobRow
<1>5. CASE i # j /\ i \notin Dependents(j)
  BY <1>2, <1>3, <1>5 DEF Rule, CancelledBy, UnlockedBy
<1>6. CASE i # j /\ i \in Dependents(j)
  <2>1. Resolution(j, s)[i] \in {"cancelled", "queued", "blocked"} /\ job[i].status = "blocked"
    BY <1>2, <1>6 DEF Rule, Dependents
  <2>2. i \in CancelledBy(j, s) <=> Resolution(j, s)[i] = "cancelled"
    BY <1>6 DEF CancelledBy
  <2>3. i \in UnlockedBy(j, s) <=> Resolution(j, s)[i] = "queued"
    BY <1>6 DEF UnlockedBy
  <2>4. /\ [job[i] EXCEPT !.status = "cancelled"].status = "cancelled"
        /\ [job[i] EXCEPT !.status = "queued", !.aged = FALSE].status = "queued"
    BY <1>1 DEF JobRow
  <2> QED
    BY <1>3, <1>6, <2>1, <2>2, <2>3, <2>4
<1> QED
  BY <1>4, <1>5, <1>6

-----------------------------------------------------------------------------
(* Dependents follow *)

\* What ended the current attempt of job d told its dependents.
Told(d) == hist[d][job[d].cur].how \in {"call", "operator"}

\* The part of SettledDependents that is about job c, with the policies by name.
Settled(c) ==
  job[c].status = "blocked" =>
    /\ \A d \in DependsOn(c) :
         job[d].status \in Unsuccessful /\ Told(d) => OnFailure[<<c, d>>] # "cancel"
    /\ \/ \E d \in DependsOn(c) : job[d].status \in Terminal /\ ~Told(d)
       \/ \E d \in DependsOn(c) : ~Permits(job[d].status, OnFailure[<<c, d>>])

\* The part of the action property that is about job c.
Unlock(c) ==
  job[c].status = "blocked" /\ job'[c].status = "queued" =>
    \A d \in DependsOn(c) : Permits(job'[d].status, OnFailure[<<c, d>>])

\* What a step may do to job d without a word to those that wait for it: nothing they
\* look at, or it does not end, or it ends untold.
Calm(d) ==
  \/ job'[d].status = job[d].status /\ hist'[d][job'[d].cur].how = hist[d][job[d].cur].how
  \/ job'[d].status \in Status \ Terminal
  \/ job'[d].status \in Unsuccessful /\ hist'[d][job'[d].cur].how \in {"sweep", "cascade"}

\* A job none of whose prerequisites does more stays settled.
LEMMA CalmSettles ==
  ASSUME NEW c \in Job, Settled(c), job'[c].status = "blocked" => job[c].status = "blocked",
         \A d \in DependsOn(c) : Calm(d)
  PROVE  Settled(c)'
<1> SUFFICES ASSUME job'[c].status = "blocked"
             PROVE  /\ \A d \in DependsOn(c) : job'[d].status \in Unsuccessful /\ Told(d)'
                                                 => OnFailure[<<c, d>>] # "cancel"
                    /\ \/ \E d \in DependsOn(c) : job'[d].status \in Terminal /\ ~Told(d)'
                       \/ \E d \in DependsOn(c) : ~Permits(job'[d].status, OnFailure[<<c, d>>])
  BY DEF Settled
<1>1. ASSUME NEW d \in DependsOn(c), job'[d].status \in Unsuccessful, Told(d)'
      PROVE  OnFailure[<<c, d>>] # "cancel"
  <2>1. job'[d].status = job[d].status /\ hist'[d][job'[d].cur].how = hist[d][job[d].cur].how
    BY <1>1 DEF Calm, Told, Status, Unsuccessful, Terminal
  <2> QED
    BY <1>1, <2>1 DEF Settled, Told
<1>2. PICK d \in DependsOn(c) : \/ job[d].status \in Terminal /\ ~Told(d)
                                \/ ~Permits(job[d].status, OnFailure[<<c, d>>])
  BY DEF Settled
<1>3. \/ job'[d].status \in Terminal /\ ~Told(d)'
      \/ ~Permits(job'[d].status, OnFailure[<<c, d>>])
  BY <1>2 DEF Calm, Told, Permits, Terminal, Unsuccessful
<1> QED
  BY <1>1, <1>3

\* What a step does for one job that waits: it stays settled, is unlocked rightly, and
\* is left blocked rightly.
Follows(c) == Settled(c)' /\ Unlock(c) /\ LeftBlocked(c)

\* A calm step notifies nobody.
LEMMA CalmIsSilent == ASSUME NEW d, Calm(d) PROVE ~Notifies(d)
BY DEF Calm, Notifies, Unsuccessful, Terminal, Status

\* A step that ends nobody with a word, and unlocks nobody.
LEMMA CalmFollows ==
  ASSUME \A i \in Job : Settled(i),
         \A i \in Job : /\ Calm(i)
                        /\ job'[i].status = "blocked" => job[i].status = "blocked"
                        /\ job[i].status = "blocked" => job'[i].status # "queued",
         NEW c \in Job
  PROVE  Follows(c)
<1>1. DependsOn(c) \subseteq Job
  BY DEF DependsOn
<1>2. LeftBlocked(c)
  BY <1>1, CalmIsSilent DEF LeftBlocked
<1> QED
  BY <1>1, <1>2, CalmSettles DEF Follows, Unlock

\* The end of a job by a call or an operator is calm for every job but that one: who is
\* cancelled with it ends by the cascade, and who is unlocked does not end.
LEMMA CompleteLockedCalm ==
  ASSUME IInv, NEW h, NEW j \in Job, NEW n, NEW s \in Terminal, NEW how, NEW by,
         CompleteLocked(h, j, n, s, how, by), NEW d \in Job, d # j
  PROVE  Calm(d)
<1>1. /\ job[d] \in JobRow /\ job[d].cur \in Attempt /\ hist[d] \in [Attempt -> HistRow]
      /\ TypeOK
  BY DEF IInv, TypeOK, JobRow
<1>2. CASE d \in CancelledBy(j, s)
  <2>1. job'[d] = [job[d] EXCEPT !.status = "cancelled"]
        /\ hist'[d] = [hist[d] EXCEPT ![job[d].cur].how = "cascade"]
    BY <1>1, <1>2 DEF CompleteLocked
  <2>2. job'[d].status = "cancelled" /\ job'[d].cur = job[d].cur
    BY <1>1, <2>1 DEF JobRow
  <2>3. hist'[d][job[d].cur].how = "cascade"
    BY <1>1, <2>1 DEF HistRow
  <2> QED
    BY <2>2, <2>3 DEF Calm, Unsuccessful
<1>3. CASE d \in UnlockedBy(j, s)
  <2>1. job'[d].status = "queued"
    BY <1>1, <1>3, CompleteLockedResolves DEF UnlockedBy
  <2> QED
    BY <2>1 DEF Calm, Status, Terminal
<1>4. CASE d \notin CancelledBy(j, s) \union UnlockedBy(j, s)
  <2>1. job'[d] = job[d] /\ hist'[d] = hist[d]
    BY <1>4 DEF CompleteLocked
  <2> QED
    BY <2>1 DEF Calm
<1> QED
  BY <1>2, <1>3, <1>4

\* The end of a job by a call or an operator: its blocked dependents have been
\* resolved, and those of a job the cascade ended look at an end that tells nobody.
LEMMA CompleteLockedFollows ==
  ASSUME IInv, \A i \in Job : Settled(i), NEW h, NEW j \in Job, NEW s \in Terminal, NEW how, NEW by,
         CompleteLocked(h, j, job[j].cur, s, how, by), NEW c \in Job
  PROVE  Follows(c)
<1> DEFINE g == Resolution(j, s)
<1>a. TypeOK
  BY DEF IInv
<1>b. DependsOn(c) \subseteq Job
  BY DEF DependsOn
<1>c. \A d \in DependsOn(c) : d # j => Calm(d)
  BY <1>b, CompleteLockedCalm
<1>1. \A i \in Job : job'[i].status = g[i]
  BY <1>a, CompleteLockedResolves
<1>2. g[c] = Rule(g, j, s, c) /\ g[j] = s
      /\ \A d \in Job \ {j} : d \notin Dependents(j) => g[d] = job[d].status
  BY ResolutionIs DEF Rule
<1>3. s \notin {"blocked", "queued"}
  BY DEF Terminal
<1> HIDE DEF g
<1>4. ASSUME job[c].status = "blocked", job'[c].status = "queued", NEW d \in DependsOn(c)
      PROVE  Permits(job'[d].status, OnFailure[<<c, d>>])
  <2>1. Permits(Seen(g, j, c, d), OnFailure[<<c, d>>])
    BY <1>1, <1>2, <1>3, <1>4 DEF Rule
  <2>2. CASE d = j \/ job[d].place < job[c].place
    BY <1>1, <1>b, <2>1, <2>2 DEF Seen
  <2>3. CASE ~(d = j \/ job[d].place < job[c].place)
    <3>1. Permits(job[d].status, OnFailure[<<c, d>>])
      BY <2>1, <2>3 DEF Seen
    <3>2. d \notin Dependents(j)
      BY <3>1 DEF Permits, Unsuccessful, Dependents
    <3> QED
      BY <1>1, <1>2, <1>b, <2>3, <3>1, <3>2
  <2> QED
    BY <2>2, <2>3
<1>5. job'[c].status = "blocked" => job[c].status = "blocked" /\ c # j
  BY <1>1, <1>2, <1>3 DEF Rule, Dependents
<1>6. ASSUME c \in Dependents(j), job'[c].status = "blocked"
      PROVE  /\ \A d \in DependsOn(c) :
                  Seen(g, j, c, d) \in Unsuccessful => OnFailure[<<c, d>>] # "cancel"
             /\ \E d \in DependsOn(c) : ~Permits(Seen(g, j, c, d), OnFailure[<<c, d>>])
  BY <1>1, <1>2, <1>5, <1>6 DEF Rule
<1>7. ASSUME c \in Dependents(j), job'[c].status = "blocked" PROVE Settled(c)'
  <2>1. ASSUME NEW d \in DependsOn(c), job'[d].status \in Unsuccessful, Told(d)'
        PROVE  OnFailure[<<c, d>>] # "cancel"
    <3>1. CASE d = j
      BY <1>1, <1>2, <1>6, <1>7, <2>1, <3>1 DEF Seen
    <3>2. CASE d # j
      <4>1. job'[d].status = job[d].status /\ hist'[d][job'[d].cur].how = hist[d][job[d].cur].how
        BY <1>c, <2>1, <3>2 DEF Calm, Told, Status, Unsuccessful, Terminal
      <4> QED
        BY <1>5, <1>7, <2>1, <4>1 DEF Settled, Told
    <3> QED
      BY <3>1, <3>2
  <2>2. PICK d \in DependsOn(c) : ~Permits(Seen(g, j, c, d), OnFailure[<<c, d>>])
    BY <1>6, <1>7
  <2>3. \/ job'[d].status \in Terminal /\ ~Told(d)'
        \/ ~Permits(job'[d].status, OnFailure[<<c, d>>])
    <3>1. CASE d = j \/ job[d].place < job[c].place
      BY <1>1, <1>b, <2>2, <3>1 DEF Seen
    <3>2. CASE ~(d = j \/ job[d].place < job[c].place)
      <4>1. Calm(d) /\ ~Permits(job[d].status, OnFailure[<<c, d>>])
        BY <1>c, <2>2, <3>2 DEF Seen
      <4> QED
        BY <4>1 DEF Calm, Told, Permits, Terminal, Unsuccessful
    <3> QED
      BY <3>1, <3>2
  <2> QED
    BY <2>1, <2>3 DEF Settled
<1>8. ASSUME c \notin Dependents(j), job'[c].status = "blocked" PROVE Settled(c)'
  <2>1. job[c].status = "blocked" /\ j \notin DependsOn(c)
    BY <1>5, <1>8 DEF Dependents, DependsOn
  <2> QED
    BY <1>c, <2>1, CalmSettles
<1>9. LeftBlocked(c)
  <2> SUFFICES ASSUME NEW i \in DependsOn(c), Notifies(i), job[c].status = "blocked",
                      job'[c].status = "blocked"
               PROVE  LET seen(d) == IF d = i \/ job[d].place < job[c].place
                                     THEN job'[d].status ELSE job[d].status
                      IN /\ \A d \in DependsOn(c) :
                              seen(d) \in Unsuccessful => OnFailure[<<c, d>>] # "cancel"
                         /\ \E d \in DependsOn(c) :
                              seen(d) # "succeeded"
                              /\ (seen(d) \in Unsuccessful => OnFailure[<<c, d>>] # "proceed")
    BY DEF LeftBlocked
  <2>1. i = j
    BY <1>c, CalmIsSilent
  <2>2. c \in Dependents(j)
    BY <2>1 DEF Dependents, DependsOn
  <2>3. \A d \in DependsOn(c) :
          (IF d = i \/ job[d].place < job[c].place THEN job'[d].status ELSE job[d].status)
            = Seen(g, j, c, d)
    BY <1>1, <1>b, <2>1 DEF Seen
  <2> QED
    BY <1>6, <2>2, <2>3 DEF Permits
<1>10. job'[c].status # "blocked" => Settled(c)'
  BY DEF Settled
<1> QED
  BY <1>4, <1>7, <1>8, <1>9, <1>10 DEF Follows, Unlock

\* A step that writes the row of one job, calmly.
LEMMA OneFollows ==
  ASSUME IInv, \A i \in Job : Settled(i), NEW j \in Job, NEW b,
         job' = [job EXCEPT ![j] = b], \A i \in Job \ {j} : hist'[i] = hist[i], Calm(j),
         b.status # "blocked", job[j].status = "blocked" => b.status # "queued", NEW c \in Job
  PROVE  Follows(c)
<1>1. job \in [Job -> JobRow] /\ job'[j] = b
  BY DEF IInv, TypeOK
<1>2. \A i \in Job \ {j} : job'[i] = job[i] /\ Calm(i)
  BY <1>1 DEF Calm
<1>3. \A i \in Job : /\ Calm(i)
                     /\ job'[i].status = "blocked" => job[i].status = "blocked"
                     /\ job[i].status = "blocked" => job'[i].status # "queued"
  BY <1>1, <1>2
<1> QED
  BY <1>3, CalmFollows

\* A step that leaves status, attempt and causes alone.
LEMMA SameFollows ==
  ASSUME \A i \in Job : Settled(i), hist' = hist,
         \A i \in Job : job'[i].status = job[i].status /\ job'[i].cur = job[i].cur, NEW c \in Job
  PROVE  Follows(c)
BY CalmFollows DEF Calm

\* A claim is of a queued job.
LEMMA ClaimFollows ==
  ASSUME IInv, \A i \in Job : Settled(i), NEW h, NEW j \in Job, NEW runner, Claim(h, j, runner),
         NEW c \in Job
  PROVE  Follows(c)
<1>1. /\ job' = [job EXCEPT ![j] = [job[j] EXCEPT !.status = "provisioning"]]
      /\ job[j] \in JobRow /\ job[j].status = "queued"
  BY HereAndNow DEF Claim
<1>2. [job[j] EXCEPT !.status = "provisioning"].status = "provisioning"
  BY <1>1 DEF JobRow
<1>3. \A i \in Job \ {j} : hist'[i] = hist[i]
  BY DEF Claim, IInv, TypeOK
<1>4. Calm(j)
  BY <1>1, <1>2, HereAndNow DEF Calm, Status, Active, Terminal
<1> QED
  BY <1>1, <1>2, <1>3, <1>4, OneFollows

\* Calls that do not end the attempt move an active job.
LEMMA CallFollows ==
  ASSUME IInv, \A i \in Job : Settled(i), NEW j \in Job, NEW n \in Attempt, NEW k \in Token,
         Call(j, n, k), NEW c \in Job
  PROVE  Follows(c)
<1>a. job \in [Job -> JobRow] /\ job[j] \in JobRow
  BY HereAndNow
<1>1. CASE job' = job /\ hist' = hist
  BY <1>1, SameFollows
<1>2. ASSUME NEW b, job' = [job EXCEPT ![j] = b], hist' = hist, job[j].status # "blocked",
             b.status \in {"running", "queued", "review"}
      PROVE  Follows(c)
  <2>1. Calm(j)
    BY <1>a, <1>2 DEF Calm, Status, Active, Terminal
  <2> QED
    BY <1>2, <2>1, OneFollows
<1>3. CASE MarkRunning(j, n, k)
  <2>1. job' = [job EXCEPT ![j] = [job[j] EXCEPT !.status = "running"]] /\ hist' = hist
    BY <1>3, <1>a DEF MarkRunning
  <2>2. [job[j] EXCEPT !.status = "running"].status = "running" /\ job[j].status # "blocked"
    BY <1>3, <1>a DEF MarkRunning, JobRow
  <2> QED
    BY <1>2, <2>1, <2>2
<1>4. ASSUME NEW h, Unclaim(h, j, n, k) PROVE Follows(c)
  <2>1. job' = [job EXCEPT ![j] = [job[j] EXCEPT !.status = "queued"]] /\ hist' = hist
    BY <1>4, <1>a DEF Unclaim
  <2>2. [job[j] EXCEPT !.status = "queued"].status = "queued" /\ job[j].status # "blocked"
    BY <1>4, <1>a DEF Unclaim, JobRow
  <2> QED
    BY <1>2, <2>1, <2>2
<1>5. ASSUME NEW h, Hold(h, j, n, k) PROVE Follows(c)
  <2> DEFINE b == [job[j] EXCEPT !.status = "review", !.decision = "undecided", !.due = FALSE]
  <2>1. job' = [job EXCEPT ![j] = b] /\ hist' = hist
    BY <1>5, <1>a DEF Hold
  <2>2. b.status = "review" /\ job[j].status # "blocked"
    BY <1>5, <1>a, LiveIsCurrent DEF Hold, HoldsLease, Active, JobRow
  <2> QED
    BY <1>2, <2>1, <2>2
<1>6. ASSUME NEW h \in Node, NEW s \in {"succeeded", "failed"}, Complete(h, j, n, k, s)
      PROVE  Follows(c)
  <2>1. n = job[j].cur /\ s \in Terminal /\ CompleteLocked(h, j, n, s, "call", k)
    BY <1>6, LiveIsCurrent DEF Complete, MayComplete, HoldsLease, Terminal
  <2> QED
    BY <2>1, CompleteLockedFollows
<1>7. CallNode(att[j][n]) \subseteq Node
  BY JobsAssumption DEF CallNode, JobsAssumption
<1> QED
  BY <1>1, <1>3, <1>4, <1>5, <1>6, <1>7 DEF Call, Heartbeat, Renew

\* An operator's end is told; the sweep of an orphan is an end that tells nobody.
LEMMA HouseFollows ==
  ASSUME IInv, \A i \in Job : Settled(i), NEW h \in Node, NEW j \in Job, House(h, j), NEW c \in Job
  PROVE  Follows(c)
<1>1. CASE Reject(h, j) \/ ExpireReview(h, j) \/ Cancel(h, j)
  BY <1>1, CompleteLockedFollows DEF Reject, ExpireReview, Cancel, Terminal
<1>2. CASE RecoverOrphan(h, j)
  <2>1. /\ job' = [job EXCEPT ![j] = [job[j] EXCEPT !.status = "cancelled"]]
        /\ job[j] \in JobRow /\ job[j].cur \in Attempt /\ job[j].status = "queued"
        /\ hist \in [Job -> [Attempt -> HistRow]]
        /\ hist' = [hist EXCEPT ![j][job[j].cur].how = "sweep"]
    BY <1>2, HereAndNow DEF RecoverOrphan, IInv, TypeOK, JobRow
  <2>2. /\ [job[j] EXCEPT !.status = "cancelled"].status = "cancelled"
        /\ [job[j] EXCEPT !.status = "cancelled"].cur = job[j].cur
    BY <2>1 DEF JobRow
  <2>3. job'[j].status = "cancelled" /\ hist'[j][job'[j].cur].how = "sweep"
        /\ \A i \in Job \ {j} : hist'[i] = hist[i]
    BY <2>1, <2>2, HereAndNow DEF HistRow
  <2>4. Calm(j)
    BY <2>3 DEF Calm, Unsuccessful
  <2> QED
    BY <2>1, <2>2, <2>3, <2>4, OneFollows
<1> QED
  BY <1>1, <1>2 DEF House

\* A retry queues a job that had ended; approvals and time end and unlock nobody.
LEMMA MomentFollows ==
  ASSUME IInv, \A i \in Job : Settled(i), NEW j \in Job, Approve(j) \/ Time(j) \/ Retry(j),
         NEW c \in Job
  PROVE  Follows(c)
<1>1. job \in [Job -> JobRow]
  BY HereAndNow
<1>2. CASE Retry(j)
  <2> DEFINE b == [job[j] EXCEPT !.status = "queued", !.cur = job[j].cur + 1,
                                 !.decision = "none", !.due = FALSE, !.aged = FALSE]
  <2>1. /\ job' = [job EXCEPT ![j] = b] /\ hist' = hist /\ job[j].status # "blocked"
        /\ b.status = "queued" /\ job'[j].status = "queued"
    BY <1>1, <1>2 DEF Retry, Unsuccessful, JobRow
  <2>2. Calm(j)
    BY <2>1 DEF Calm, Status, Terminal
  <2> QED
    BY <2>1, <2>2, OneFollows
<1>3. CASE Approve(j) \/ Time(j)
  <2>1. /\ hist' = hist
        /\ \A i \in Job : job'[i].status = job[i].status /\ job'[i].cur = job[i].cur
    BY <1>1, <1>3 DEF Approve, Time, LeaseAges, ReviewDue, GracePasses, JobRow
  <2> QED
    BY <2>1, SameFollows
<1> QED
  BY <1>2, <1>3

\* The sweep of expired leases fails active jobs, and tells nobody.
LEMMA RecoverStaleFollows ==
  ASSUME IInv, \A i \in Job : Settled(i), NEW h \in Node, RecoverStale(h), NEW c \in Job
  PROVE  Follows(c)
<1>1. ASSUME NEW i \in Job
      PROVE  /\ Calm(i)
             /\ job'[i].status = "blocked" => job[i].status = "blocked"
             /\ job[i].status = "blocked" => job'[i].status # "queued"
  <2>1. job[i] \in JobRow /\ job[i].cur \in Attempt /\ hist[i] \in [Attempt -> HistRow]
    BY DEF IInv, TypeOK, JobRow
  <2>2. CASE Stale(i)
    <3>1. job'[i] = [job[i] EXCEPT !.status = "failed"]
          /\ hist'[i] = [hist[i] EXCEPT ![job[i].cur].how = "sweep"]
      BY <2>2 DEF RecoverStale
    <3>2. job'[i].status = "failed" /\ job'[i].cur = job[i].cur
      BY <2>1, <3>1 DEF JobRow
    <3>3. hist'[i][job[i].cur].how = "sweep"
      BY <2>1, <3>1 DEF HistRow
    <3> QED
      BY <3>2, <3>3 DEF Calm, Unsuccessful
  <2>3. CASE ~Stale(i)
    BY <2>3 DEF RecoverStale, Calm
  <2> QED
    BY <2>2, <2>3
<1> QED
  BY <1>1, CalmFollows

\* Every step keeps every job that waits settled, and unlocks it rightly.
LEMMA NextFollows ==
  ASSUME IInv, \A i \in Job : Settled(i), [Next]_vars, NEW c \in Job
  PROVE  Follows(c)
<1>1. CASE job' = job /\ hist' = hist
  BY <1>1, SameFollows
<1>2. ASSUME NEW h \in Node, NEW k \in Budget, SetCapacity(h, k) PROVE Follows(c)
  BY <1>1, <1>2 DEF SetCapacity
<1>3. ASSUME NEW h \in Node, NEW w \in Worker, NEW j \in Job, ClaimNext(h, w, j)
      PROVE  Follows(c)
  BY <1>3, ClaimFollows DEF ClaimNext
<1>4. CASE StoreNext
  BY <1>2, <1>3, <1>4, CallFollows, MomentFollows, HouseFollows, RecoverStaleFollows
     DEF StoreNext
<1>5. ASSUME NEW h \in Direct, NEW j \in Job, ClaimDirect(h, j) PROVE Follows(c)
  BY <1>5, ClaimFollows DEF ClaimDirect
<1>6. ASSUME NEW h \in Direct, NEW j \in Job, FailCurrent(h, j) PROVE Follows(c)
  <2>1. PICK n \in Attempt : att[j][n].status \in Active
                             /\ Complete(h, j, n, att[j][n].token, "failed")
    BY <1>6 DEF FailCurrent
  <2>2. n = job[j].cur /\ "failed" \in Terminal
        /\ CompleteLocked(h, j, n, "failed", "call", att[j][n].token)
    BY <2>1, LiveIsCurrent DEF Complete, Terminal
  <2> QED
    BY <2>2, CompleteLockedFollows
<1>7. ASSUME NEW j \in Job, NEW r \in Row, DispatchMoves(j, r) PROVE Follows(c)
  BY <1>1, <1>7 DEF DispatchMoves
<1>8. CASE UNCHANGED vars
  BY <1>1, <1>8 DEF vars
<1> QED
  BY <1>4, <1>5, <1>6, <1>7, <1>8 DEF Next

\* At admission nothing has ended, and a blocked job waits for something.
LEMMA InitSettled == Init => \A c \in Job : Settled(c)
<1> SUFFICES ASSUME Init, NEW c \in Job, job[c].status = "blocked"
             PROVE  /\ \A d \in DependsOn(c) : job[d].status \notin Unsuccessful
                    /\ \E d \in DependsOn(c) : ~Permits(job[d].status, OnFailure[<<c, d>>])
  BY DEF Settled
<1>0. \A d \in Job : job[d].status = InitStatus(d)
  BY DEF Init
<1>1. \A d \in Job : job[d].status \in {"queued", "blocked"}
  BY <1>0 DEF InitStatus
<1>2. DependsOn(c) # {} /\ DependsOn(c) \subseteq Job
  BY <1>0 DEF InitStatus, DependsOn
<1> QED
  BY <1>1, <1>2 DEF Permits, Unsuccessful

\* A blocked job is queued only by the step that settled its last edge; it stays
\* blocked by a settled edge only when a sweep or a cascade ended that prerequisite; and
\* who is evaluated is decided in view of whoever came before it in the order.
THEOREM DependentsAreFollowed == Spec => DependentsFollow
<1> DEFINE All == \A c \in Job : Settled(c)
           Unlocks == \A c \in Job : LeftBlocked(c) /\ Unlock(c)
<1>1. Init => IInv /\ All
  BY InitIInv, InitSettled
<1>2. IInv /\ All /\ [Next]_vars => IInv' /\ All' /\ [Unlocks]_vars
  BY NextIInv, NextFollows DEF Follows
<1>3. All => SettledDependents
  BY DEF Settled, SettledDependents, Told, Permits
<1>4. Unlocks => \A c \in Job :
         /\ LeftBlocked(c)
         /\ job[c].status = "blocked" /\ job'[c].status = "queued" =>
              \A d \in DependsOn(c) :
                \/ job'[d].status = "succeeded"
                \/ /\ job'[d].status \in {"failed", "cancelled"}
                   /\ OnFailure[<<c, d>>] = "proceed"
  BY DEF Unlock, Permits, Unsuccessful
<1> HIDE DEF All, Unlocks
<1> QED
  BY <1>1, <1>2, <1>3, <1>4, PTL DEF Spec, DependentsFollow

=============================================================================
