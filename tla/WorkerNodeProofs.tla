-------------------------- MODULE WorkerNodeProofs --------------------------
(***************************************************************************)
(* A worker: its slots are conserved and bound its executors, no attempt   *)
(* is executed twice at once, a success the house believes in happened,    *)
(* and a job in review has its output.  All of it for any number of jobs,  *)
(* claims, slots, tries and faults, whatever is lost or late; the output   *)
(* goes early only when the manager turns the worker away.                 *)
(***************************************************************************)
EXTENDS WorkerNode, JobsProofs

\* What the house knows of an execution.
Known(e)   == e[3] <= claims[e[1]]
Lost(e)    == Known(e) /\ AttemptOf(e).token # e[3]
Decided(e) == \/ AttemptOf(e).status \in Terminal
              \/ InReview(e) /\ job[e[1]].decision = "approve"
\* The house takes no hold of it any more, or is past the deadline of its review.
Spent(e)   == Known(e) /\ ~Live(e) /\ (InReview(e) => job[e[1]].due)
Won(e)     == AttemptOf(e).status = "succeeded" /\ hist[e[1]][e[2]].by = e[3]

\* The last claim of its attempt, which did not go back to the queue.
Begun(e)   == /\ hist[e[1]][e[2]].issued = e[3]
              /\ AttemptOf(e).status \in Active \union {"review"} \union Terminal

\* A manager's jobs are claimed by workers, with tokens it counts.
ByWorkers ==
  \A j \in Job : \A n \in Attempt :
    /\ att[j][n].token # NoToken => att[j][n].machine \in Worker
    /\ hist[j][n].issued <= claims[j]

OnDisk(e) == record[e] \in {"kept", "complete"}

\* Its output went for another reason than what the house says of the attempt.
Forsaken(e) == record[e] = "refused" \/ (record[e] = "expired" /\ Spent(e))

Accounted(e) == OnDisk(e) \/ Lost(e) \/ Forsaken(e)

Wire(op, e) == [op |-> op, e |-> e] \in wire

\* Where an execution stands.  One that was started was not rejected and is never
\* rejected later; whatever the node says or has said of it is true.
Stands(e) ==
  /\ task[e].at # "none" => Begun(e)
  /\ offer = e => task[e].at = "none" /\ Known(e)
  /\ offer = e /\ pc = "accept" => ~Wire("reject", e)
  /\ Wire("reject", e) => task[e].at = "none"
  /\ record[e] # "none" \/ sweep[e] # "idle" => Known(e)
  /\ \A op \in {"beat", "reject", "succeeded", "failed", "review"} : Wire(op, e) => Known(e)
  /\ e \in inFlight => task[e].at \in Working
  /\ task[e].at \in Mail \union Posting \union {"wait", "held"} => task[e].says # "none"

Truthful(e) ==
  /\ task[e].says = "succeeded" => e \in ran
  /\ Wire("succeeded", e) => e \in ran \union published
  /\ complete[e] = "succeeded" => e \in published
  /\ Won(e) => e \in ran \union published
  /\ sweep[e] = "write" \/ record[e] = "complete" => complete[e] # "none"
  /\ sweep[e] \in {"publish", "write"} \/ record[e] = "complete" \/ e \in published => Decided(e)
  /\ sweep[e] = "cancel" => Lost(e)
  /\ task[e].says = "review" \/ Wire("review", e) \/ InReview(e) => Accounted(e)

\* The poller's own books.
Orphans == {e \in Exec \ dropped : task[e].at \in Executor /\ e \notin inFlight}

Books ==
  /\ used = Cardinality(inFlight) + leaked + (IF pc = "accept" THEN 1 ELSE 0)
  /\ Cardinality(Orphans) <= leaked
  /\ pc = "poll" => used < SlotMax
  /\ todo \subseteq inFlight
  /\ pc # "beat" => todo = {}
  /\ offer # NoOffer <=> pc \in {"accept", "reject"}

EInv == \A e \in Exec : Stands(e) /\ Truthful(e)

WInv == WTypeOK /\ IInv /\ ByWorkers /\ EInv /\ Books

-----------------------------------------------------------------------------
(* What a step of the house does to the attempt of an execution *)

\* The step decides nothing for the execution, and takes nothing back.
Settled(e) ==
  /\ Known(e) => Known(e)'
  /\ Lost(e) => Lost(e)'
  /\ Decided(e) => Decided(e)'
  /\ Spent(e) => Spent(e)'

Quiet(e) ==
  /\ Settled(e)
  /\ Begun(e) => Begun(e)'
  /\ InReview(e)' => InReview(e)
  /\ Won(e)' => Won(e)

\* An execution names a job, an attempt and a token.
LEMMA ExecParts ==
  ASSUME NEW e \in Exec
  PROVE  /\ e[1] \in Job /\ e[2] \in Attempt /\ e[3] \in Token
         /\ e[3] \in Nat /\ e[3] # NoToken /\ e = <<e[1], e[2], e[3]>>
BY DEF Exec, Token, NoToken

\* What the store's invariant says of the attempt of an execution.
LEMMA ExecRow ==
  ASSUME IInv, NEW e \in Exec
  PROVE  /\ e[1] \in Job /\ e[2] \in Attempt /\ e[3] \in Token
         /\ e[3] \in Nat /\ e[3] # NoToken
         /\ Good(job[e[1]], e[2], AttemptOf(e), claims[e[1]], outbox[e[1]][e[2]], hist[e[1]][e[2]])
         /\ AttemptOf(e) \in AttRow /\ hist[e[1]][e[2]] \in HistRow /\ job[e[1]] \in JobRow
         /\ claims[e[1]] \in Nat /\ job[e[1]].cur \in Attempt
         /\ job \in [Job -> JobRow] /\ att \in [Job -> [Attempt -> AttRow]]
         /\ hist \in [Job -> [Attempt -> HistRow]] /\ claims \in [Job -> 0..MaxClaim]
BY ExecParts, Now DEF AttemptOf, IInv, TypeOK

\* What was decided of a review stays decided, and its deadline stays past.
Remembers(e) ==
  AttemptOf(e).status = "review" =>
    /\ job[e[1]].decision = "approve" => job'[e[1]].decision = "approve"
    /\ job[e[1]].due => job'[e[1]].due

\* An attempt that keeps its status and token.
LEMMA StaysQuiet ==
  ASSUME NEW e \in Exec, Remembers(e), Live(e)' => Live(e),
         AttemptOf(e)'.status = AttemptOf(e).status, AttemptOf(e)'.token = AttemptOf(e).token,
         hist'[e[1]][e[2]].issued = hist[e[1]][e[2]].issued,
         hist'[e[1]][e[2]].by = hist[e[1]][e[2]].by,
         claims'[e[1]] = claims[e[1]]
  PROVE  Quiet(e)
BY DEF Quiet, Settled, Known, Lost, Decided, Begun, InReview, Won, Spent, Remembers

\* An attempt that ends.
LEMMA EndsSettled ==
  ASSUME NEW e \in Exec, AttemptOf(e)'.status \in Terminal, AttemptOf(e)'.token = NoToken,
         claims'[e[1]] = claims[e[1]],
         hist'[e[1]][e[2]].issued = hist[e[1]][e[2]].issued
  PROVE  /\ Settled(e) /\ (Begun(e) => Begun(e)')
         /\ InReview(e)' => InReview(e)
         /\ Won(e)' \/ Quiet(e)
<1>1. e[3] # NoToken /\ "review" \notin Terminal
  BY ExecParts DEF Terminal
<1>2. ~Live(e)' /\ ~InReview(e)'
  BY <1>1 DEF Live, HoldsLease, InReview, Active, Terminal
<1>3. QED
  BY <1>1, <1>2 DEF Quiet, Settled, Known, Lost, Decided, Begun, InReview, Won, Spent

\* An attempt that waits, before and after: in the queue, or to be made.
LEMMA WaitsQuiet ==
  ASSUME IInv, NEW e \in Exec, AttemptOf(e).status \in {"none", "blocked"},
         AttemptOf(e)'.status = "queued",
         AttemptOf(e)'.token \in {AttemptOf(e).token, NoToken}, claims'[e[1]] = claims[e[1]]
  PROVE  Quiet(e)
<1>1. e[3] # NoToken
  BY ExecParts
<1>2. ~Live(e)' /\ ~InReview(e)'
  BY DEF Live, HoldsLease, InReview, Active
<1>3. QED
  BY <1>1, <1>2 DEF Quiet, Settled, Known, Lost, Decided, Begun, InReview, Won, Spent, Terminal, Active

\* A step that writes only the attempt of one execution.
LEMMA OthersQuiet ==
  ASSUME IInv, NEW j \in Job, NEW n \in Attempt, NEW a, att' = [att EXCEPT ![j][n] = a],
         UNCHANGED <<claims, hist>>, NEW e \in Exec, e[1] # j \/ e[2] # n, Remembers(e)
  PROVE  Quiet(e)
<1>1. /\ att \in [Job -> [Attempt -> AttRow]] /\ e[1] \in Job /\ e[2] \in Attempt
  BY ExecRow
<1>2. att'[e[1]][e[2]] = att[e[1]][e[2]]
  BY <1>1
<1>3. QED
  BY <1>2, StaysQuiet DEF AttemptOf, Live

\* A heartbeat moves the lease, and nothing of what the node relies on.
LEMMA HeartbeatQuiet ==
  ASSUME IInv, NEW j \in Job, NEW n \in Attempt, NEW k, Heartbeat(j, n, k), NEW e \in Exec
  PROVE  Quiet(e)
<1>0. /\ att \in [Job -> [Attempt -> AttRow]] /\ att[j][n] \in AttRow
      /\ e[1] \in Job /\ e[2] \in Attempt
  BY ExecRow, Now DEF IInv
<1>1. /\ att' = [att EXCEPT ![j][n] = [att[j][n] EXCEPT !.lease = LeaseTTL]]
      /\ UNCHANGED <<job, claims, hist>> /\ att[j][n].status \in Active /\ att[j][n].lease > 0
  BY <1>0 DEF Heartbeat, HoldsLease
<1>r. Remembers(e)
  BY <1>1 DEF Remembers
<1>2. CASE e[1] = j /\ e[2] = n
  <2>1. att'[e[1]][e[2]] = [att[j][n] EXCEPT !.lease = LeaseTTL]
    BY <1>0, <1>1, <1>2
  <2>2. att'[e[1]][e[2]].status = att[j][n].status /\ att'[e[1]][e[2]].token = att[j][n].token
    BY <1>0, <2>1 DEF AttRow
  <2>3. Live(e)' => Live(e)
    BY <1>1, <1>2, <2>2 DEF Live, HoldsLease, AttemptOf
  <2>4. QED
    BY <1>1, <1>2, <1>r, <2>2, <2>3, StaysQuiet DEF AttemptOf
<1>3. CASE e[1] # j \/ e[2] # n
  BY <1>1, <1>3, <1>r, OthersQuiet
<1>4. QED
  BY <1>2, <1>3

\* A rejection puts the attempt back: of the execution it names, only what was begun
\* is undone.
LEMMA UnclaimQuiet ==
  ASSUME IInv, NEW h, NEW f \in Exec, Unclaim(h, f[1], f[2], f[3]), NEW e \in Exec
  PROVE  Settled(e) /\ (InReview(e)' => InReview(e)) /\ (Won(e)' => Won(e))
         /\ (e # f => Quiet(e))
<1> DEFINE j == f[1]
           n == f[2]
           a == att[j][n]
<1>0. /\ att \in [Job -> [Attempt -> AttRow]] /\ a \in AttRow /\ j \in Job /\ n \in Attempt
      /\ e[1] \in Job /\ e[2] \in Attempt /\ job \in [Job -> JobRow] /\ e[3] # NoToken
  BY ExecRow, Now DEF IInv
<1>1. /\ att' = [att EXCEPT ![j][n] = Ended(a, "queued")]
      /\ job' = [job EXCEPT ![j].status = "queued"]
      /\ UNCHANGED <<claims, hist>> /\ a.status = "provisioning" /\ a.token = f[3]
  BY DEF Unclaim, HoldsLease
<1>2. Remembers(e)
  BY <1>0, <1>1 DEF JobRow, Remembers
<1>3. CASE e[1] = j /\ e[2] = n
  <2>1. AttemptOf(e) = a /\ AttemptOf(e)'.status = "queued" /\ AttemptOf(e)'.token = NoToken
    BY <1>0, <1>1, <1>3, EndedType DEF AttemptOf, Status
  <2>2. /\ Settled(e) /\ ~InReview(e)' /\ ~Won(e)'
    BY <1>0, <1>1, <1>3, <2>1
       DEF Settled, Known, Lost, Decided, InReview, Won, Spent, Live, HoldsLease, Terminal, Active
  <2>3. e # f => ~Begun(e)
    <3>1. Good(job[j], n, a, claims[j], outbox[j][n], hist[j][n])
      BY <1>0, Now
    <3>2. hist[j][n].issued = f[3]
      BY <1>1, <3>1, ExecParts DEF Good
    <3>3. e # f => e[3] # f[3]
      BY <1>3, ExecParts
    <3>4. QED
      BY <1>3, <3>2, <3>3 DEF Begun
  <2>4. QED
    BY <2>2, <2>3 DEF Quiet
<1>4. CASE e[1] # j \/ e[2] # n
  <2>1. Quiet(e)
    BY <1>0, <1>1, <1>2, <1>4, OthersQuiet
  <2>2. QED
    BY <2>1 DEF Quiet
<1>5. QED
  BY <1>3, <1>4

\* An end of a job ends attempts and unlocks waiting ones; only the attempt it is
\* about may be a success, of the execution whose token was presented.
LEMMA CompleteLockedQuiet ==
  ASSUME IInv, NEW h, NEW j \in Job, NEW n \in Attempt, NEW s \in Terminal,
         NEW how, NEW by \in Token \union {NoToken},
         CompleteLocked(h, j, n, s, how, by), NEW e \in Exec
  PROVE  /\ Settled(e) /\ (Begun(e) => Begun(e)')
         /\ InReview(e)' => InReview(e)
         /\ Quiet(e) \/ (e = <<j, n, by>> /\ s = "succeeded")
<1>i. PICK i \in Job, m \in Attempt : i = e[1] /\ m = e[2]
  BY ExecParts
<1> DEFINE a == att[i][m]
<1>0. /\ att[i] \in [Attempt -> AttRow] /\ a \in AttRow /\ i \in Job /\ m \in Attempt
      /\ job[i] \in JobRow /\ hist[i] \in [Attempt -> HistRow] /\ hist[i][m] \in HistRow
      /\ job[i].cur \in Attempt /\ claims'[i] = claims[i]
      /\ Good(job[i], m, a, claims[i], outbox[i][m], hist[i][m])
  BY <1>i, ExecRow, Now, RowTypes DEF IInv, CompleteLocked
<1>1. ASSUME att'[i][m] = a, hist'[i][m] = hist[i][m],
             job'[i].decision = job[i].decision, job'[i].due = job[i].due
      PROVE  Quiet(e)
  BY <1>i, <1>0, <1>1, StaysQuiet DEF AttemptOf, Live, Remembers
<1>2. ASSUME NEW t \in Terminal, att'[i][m] = Ended(a, t),
             hist'[i][m].issued = hist[i][m].issued
      PROVE  /\ Settled(e) /\ (Begun(e) => Begun(e)')
             /\ InReview(e)' => InReview(e)
             /\ Quiet(e) \/ (Won(e)' /\ t = "succeeded")
  <2>1. Ended(a, t).status = t /\ Ended(a, t).token = NoToken
    BY <1>0, EndedType DEF Status
  <2>2. AttemptOf(e)'.status = t /\ AttemptOf(e)'.token = NoToken
    BY <1>i, <1>2, <2>1 DEF AttemptOf
  <2>3. Won(e)' => t = "succeeded"
    BY <2>2 DEF Won
  <2>4. QED
    BY <1>i, <1>0, <1>2, <2>2, <2>3, EndsSettled
<1>3. CASE i = j
  <2>1. /\ job'[i] = [job[i] EXCEPT !.status = s]
        /\ att'[i] = [att[i] EXCEPT ![n] = Ended(@, s)]
        /\ hist'[i] = [hist[i] EXCEPT ![n].how = how, ![n].by = by]
    BY <1>3 DEF CompleteLocked
  <2>2. CASE m = n
    <3>1. att'[i][m] = Ended(a, s)
      BY <1>0, <2>1, <2>2
    <3>2. hist'[i][m] = [hist[i][m] EXCEPT !.how = how, !.by = by]
      BY <1>0, <2>1, <2>2
    <3>3. hist'[i][m].issued = hist[i][m].issued /\ hist'[i][m].by = by
      BY <1>0, <3>2 DEF HistRow
    <3>4. Won(e)' => e = <<j, n, by>>
      BY <1>i, <1>3, <2>2, <3>3, ExecParts DEF Won
    <3>5. QED
      BY <1>2, <3>1, <3>3, <3>4
  <2>3. CASE m # n
    <3>1. att'[i][m] = a /\ hist'[i][m] = hist[i][m]
          /\ job'[i].decision = job[i].decision /\ job'[i].due = job[i].due
      BY <1>0, <2>1, <2>3 DEF JobRow
    <3>2. QED
      BY <1>1, <3>1 DEF Quiet
  <2>4. QED
    BY <2>2, <2>3
<1>4. CASE i # j /\ i \in CancelledBy(j, s)
  <2>1. /\ job'[i] = [job[i] EXCEPT !.status = "cancelled"]
        /\ att'[i] = [att[i] EXCEPT ![job[i].cur] = Ended(@, "cancelled")]
        /\ hist'[i] = [hist[i] EXCEPT ![job[i].cur].how = "cascade"]
    BY <1>0, <1>4 DEF CompleteLocked
  <2>2. CASE m = job[i].cur
    <3>1. att'[i][m] = Ended(a, "cancelled")
      BY <1>0, <2>1, <2>2
    <3>2. hist'[i][m].issued = hist[i][m].issued
      BY <1>0, <2>1, <2>2 DEF HistRow
    <3>3. QED
      BY <1>2, <3>1, <3>2 DEF Terminal, Quiet
  <2>3. CASE m # job[i].cur
    <3>1. att'[i][m] = a /\ hist'[i][m] = hist[i][m]
          /\ job'[i].decision = job[i].decision /\ job'[i].due = job[i].due
      BY <1>0, <2>1, <2>3 DEF JobRow
    <3>2. QED
      BY <1>1, <3>1 DEF Quiet
  <2>4. QED
    BY <2>2, <2>3
<1>5. CASE i # j /\ i \notin CancelledBy(j, s) /\ i \in UnlockedBy(j, s)
  <2>1. /\ job'[i] = [job[i] EXCEPT !.status = "queued", !.aged = FALSE]
        /\ att'[i] = [att[i] EXCEPT ![job[i].cur].status = "queued"]
        /\ hist'[i] = hist[i] /\ job[i].status = "blocked"
    BY <1>0, <1>5, NotifiedAreBlocked DEF CompleteLocked
  <2>2. CASE m = job[i].cur
    <3>1. att'[i][m] = [a EXCEPT !.status = "queued"]
      BY <1>0, <2>1, <2>2
    <3>2. att'[i][m].status = "queued" /\ att'[i][m].token = a.token
      BY <1>0, <3>1 DEF AttRow
    <3>3. a.status = "blocked"
      BY <1>0, <2>1, <2>2 DEF Good
    <3>4. Quiet(e)
      BY <1>i, <1>0, <3>2, <3>3, WaitsQuiet DEF AttemptOf
    <3>5. QED
      BY <3>4 DEF Quiet
  <2>3. CASE m # job[i].cur
    <3>1. att'[i][m] = a /\ hist'[i][m] = hist[i][m]
          /\ job'[i].decision = job[i].decision /\ job'[i].due = job[i].due
      BY <1>0, <2>1, <2>3 DEF JobRow
    <3>2. QED
      BY <1>1, <3>1 DEF Quiet
  <2>4. QED
    BY <2>2, <2>3
<1>6. CASE i # j /\ i \notin CancelledBy(j, s) /\ i \notin UnlockedBy(j, s)
  BY <1>0, <1>1, <1>6 DEF CompleteLocked, Quiet
<1>7. QED
  BY <1>3, <1>4, <1>5, <1>6

\* Output is held for the execution that presents its token, and for no other.
LEMMA HoldQuiet ==
  ASSUME IInv, NEW h, NEW f \in Exec, Hold(h, f[1], f[2], f[3]), NEW e \in Exec
  PROVE  /\ Settled(e) /\ (Begun(e) => Begun(e)')
         /\ Won(e)' => Won(e)
         /\ e # f => Quiet(e)
<1> DEFINE j == f[1]
           n == f[2]
           a == att[j][n]
           b == [a EXCEPT !.status = "review", !.lease = 0, !.reserved = FALSE]
<1>0. /\ att \in [Job -> [Attempt -> AttRow]] /\ a \in AttRow /\ j \in Job /\ n \in Attempt
      /\ e[1] \in Job /\ e[2] \in Attempt /\ job \in [Job -> JobRow]
      /\ att[e[1]][e[2]] \in AttRow
  BY ExecRow, Now DEF IInv
<1>1. /\ att' = [att EXCEPT ![j][n] = b] /\ UNCHANGED <<claims, hist>>
      /\ job' = [job EXCEPT ![j] = [@ EXCEPT !.status = "review", !.decision = "undecided",
                                             !.due = FALSE]]
      /\ a.status \in Active /\ a.token = f[3]
  BY DEF Hold, HoldsLease
<1>2. CASE e[1] = j /\ e[2] = n
  <2>1. att'[e[1]][e[2]] = b
    BY <1>0, <1>1, <1>2
  <2>2. b.status = "review" /\ b.token = a.token
    BY <1>0 DEF AttRow
  <2> HIDE DEF b
  <2>3. /\ AttemptOf(e) = a /\ AttemptOf(e)'.status = "review" /\ AttemptOf(e)'.token = f[3]
        /\ AttemptOf(e).token = f[3]
    BY <1>1, <1>2, <2>1, <2>2 DEF AttemptOf
  <2>4. Settled(e) /\ (Begun(e) => Begun(e)') /\ ~Won(e)'
    <3>1. Spent(e) => e[3] # f[3]
      BY <1>2, <2>3 DEF Hold, Spent, Live, AttemptOf
    <3>2. e[3] # f[3] => ~Live(e)' /\ ~InReview(e)'
      BY <2>3 DEF Live, HoldsLease, InReview
    <3>3. QED
      BY <1>1, <2>3, <3>1, <3>2
         DEF Settled, Known, Lost, Decided, Begun, InReview, Won, Spent, Active, Terminal
  <2>5. e # f => ~InReview(e)'
    BY <1>2, <2>3, ExecParts DEF InReview
  <2>6. QED
    BY <2>4, <2>5 DEF Quiet
<1>3. CASE e[1] # j \/ e[2] # n
  <2>1. AttemptOf(e).status = "review" => e[1] # j
    BY <1>0, <1>1, <1>3, LiveIsCurrent DEF AttemptOf
  <2>2. e[1] # j => job'[e[1]] = job[e[1]]
    BY <1>0, <1>1
  <2>3. Quiet(e)
    BY <1>0, <1>1, <1>3, <2>1, <2>2, OthersQuiet DEF Remembers
  <2>4. QED
    BY <1>3, <2>3 DEF Quiet
<1>4. QED
  BY <1>2, <1>3

\* A claim issues a token that no execution has.
LEMMA ClaimQuiet ==
  ASSUME IInv, ByWorkers, NEW h, NEW j \in Job, NEW runner, Claim(h, j, runner), NEW e \in Exec
  PROVE  Quiet(e)
<1> DEFINE n == job[j].cur
           k == claims[j] + 1
           a == [status |-> "provisioning", machine |-> runner, token |-> k,
                 lease |-> LeaseTTL, reserved |-> TRUE]
<1>0. /\ att \in [Job -> [Attempt -> AttRow]] /\ n \in Attempt /\ att[j][n] \in AttRow
      /\ hist \in [Job -> [Attempt -> HistRow]] /\ claims \in [Job -> 0..MaxClaim]
      /\ claims[j] \in Nat /\ e[1] \in Job /\ e[2] \in Attempt /\ e[3] \in Nat
      /\ job \in [Job -> JobRow] /\ claims[e[1]] \in Nat
      /\ Good(job[j], n, att[j][n], claims[j], outbox[j][n], hist[j][n])
      /\ hist[e[1]][e[2]] \in HistRow
  BY ExecRow, RowTypes, Now DEF IInv
<1>1. /\ att' = [att EXCEPT ![j][n] = a] /\ claims' = [claims EXCEPT ![j] = k]
      /\ job' = [job EXCEPT ![j].status = "provisioning"] /\ job[j].status = "queued"
      /\ hist' = [hist EXCEPT ![j][n].issued = k, ![j][n].home = h]
  BY DEF Claim
<1>2. claims'[e[1]] \in Nat /\ claims'[e[1]] >= claims[e[1]]
  BY <1>0, <1>1
<1>3. CASE e[1] = j /\ e[2] = n
  <2>1. /\ AttemptOf(e).status = "queued"
        /\ AttemptOf(e)'.status = "provisioning" /\ AttemptOf(e)'.token = k
    BY <1>0, <1>1, <1>3 DEF AttemptOf, Good
  <2>2. Known(e) => e[3] # k
    BY <1>0, <1>3 DEF Known
  <2>3. QED
    BY <1>0, <1>2, <2>1, <2>2 DEF Quiet, Settled, Known, Lost, Decided, Begun, InReview, Won,
                                  Spent, Live, HoldsLease, Active, Terminal
<1>4. CASE e[1] # j \/ e[2] # n
  <2>1. att'[e[1]][e[2]] = att[e[1]][e[2]] /\ hist'[e[1]][e[2]] = hist[e[1]][e[2]]
    BY <1>0, <1>1, <1>4
  <2>2. job'[e[1]].decision = job[e[1]].decision /\ job'[e[1]].due = job[e[1]].due
    BY <1>0, <1>1 DEF JobRow
  <2>3. QED
    BY <1>0, <1>2, <2>1, <2>2 DEF Quiet, Settled, Known, Lost, Decided, Begun, InReview, Won,
                                  Spent, Live, AttemptOf
<1>5. QED
  BY <1>3, <1>4

\* An attempt that ends without success.
LEMMA FailsQuiet ==
  ASSUME NEW e \in Exec, AttemptOf(e)'.status \in Unsuccessful, AttemptOf(e)'.token = NoToken,
         claims'[e[1]] = claims[e[1]],
         hist'[e[1]][e[2]].issued = hist[e[1]][e[2]].issued
  PROVE  Quiet(e)
<1>1. ~Won(e)'
  BY DEF Won, Unsuccessful
<1>2. QED
  BY <1>1, EndsSettled DEF Unsuccessful, Terminal

\* No operation on a job as a whole makes a success or holds output.
LEMMA HouseQuiet ==
  ASSUME IInv, NEW h, NEW j \in Job, House(h, j), NEW e \in Exec
  PROVE  Quiet(e)
<1> DEFINE n == job[j].cur
           a == att[j][n]
<1>0. /\ n \in Attempt /\ NoToken \in Token \union {NoToken}
      /\ att \in [Job -> [Attempt -> AttRow]] /\ a \in AttRow
      /\ hist \in [Job -> [Attempt -> HistRow]]
      /\ e[1] \in Job /\ e[2] \in Attempt /\ job \in [Job -> JobRow]
  BY ExecRow, RowTypes DEF IInv
<1>1. ASSUME NEW s \in Unsuccessful, CompleteLocked(h, j, n, s, "operator", NoToken)
      PROVE  Quiet(e)
  BY <1>0, <1>1, CompleteLockedQuiet DEF Unsuccessful, Terminal
<1>2. CASE Reject(h, j) \/ ExpireReview(h, j) \/ Cancel(h, j)
  BY <1>1, <1>2 DEF Reject, ExpireReview, Cancel, Unsuccessful
<1>3. CASE RecoverOrphan(h, j)
  <2>1. /\ att' = [att EXCEPT ![j][n] = Ended(a, "cancelled")] /\ claims' = claims
        /\ hist' = [hist EXCEPT ![j][n].how = "sweep"]
        /\ job' = [job EXCEPT ![j].status = "cancelled"]
    BY <1>3 DEF RecoverOrphan
  <2>2. /\ hist'[e[1]][e[2]].issued = hist[e[1]][e[2]].issued
        /\ hist'[e[1]][e[2]].by = hist[e[1]][e[2]].by
        /\ Remembers(e)
    BY <1>0, <2>1 DEF HistRow, JobRow, Remembers
  <2>3. CASE e[1] = j /\ e[2] = n
    <3>1. Ended(a, "cancelled").status = "cancelled" /\ Ended(a, "cancelled").token = NoToken
      BY <1>0, EndedType DEF Status, Terminal
    <3>2. AttemptOf(e)' = Ended(a, "cancelled")
      BY <1>0, <2>1, <2>3 DEF AttemptOf
    <3>3. QED
      BY <2>1, <2>2, <3>1, <3>2, FailsQuiet DEF Unsuccessful
  <2>4. CASE e[1] # j \/ e[2] # n
    <3>1. att'[e[1]][e[2]] = att[e[1]][e[2]]
      BY <1>0, <2>1, <2>4
    <3>2. QED
      BY <2>1, <2>2, <3>1, StaysQuiet DEF AttemptOf, Live
  <2>5. QED
    BY <2>3, <2>4
<1>4. QED
  BY <1>2, <1>3 DEF House

\* The sweep of expired leases fails attempts.
LEMMA RecoverStaleQuiet ==
  ASSUME IInv, NEW h, RecoverStale(h), NEW e \in Exec
  PROVE  Quiet(e)
<1>i. PICK i \in Job, m \in Attempt : i = e[1] /\ m = e[2]
  BY ExecParts
<1> DEFINE a == att[i][m]
           n == job[i].cur
<1>0. /\ att[i] \in [Attempt -> AttRow] /\ a \in AttRow /\ n \in Attempt
      /\ hist[i] \in [Attempt -> HistRow] /\ claims'[i] = claims[i]
  BY RowTypes DEF IInv, RecoverStale
<1>1. ASSUME att'[i][m] = a, hist'[i][m] = hist[i][m],
             job'[i].decision = job[i].decision, job'[i].due = job[i].due
      PROVE  Quiet(e)
  BY <1>i, <1>0, <1>1, StaysQuiet DEF AttemptOf, Live, Remembers
<1>2. CASE Stale(i)
  <2>1. /\ job'[i] = [job[i] EXCEPT !.status = "failed"]
        /\ att'[i] = [att[i] EXCEPT ![n] = Ended(@, "failed")]
        /\ hist'[i] = [hist[i] EXCEPT ![n].how = "sweep"]
    BY <1>2 DEF RecoverStale
  <2>2. CASE m = n
    <3>1. Ended(a, "failed").status = "failed" /\ Ended(a, "failed").token = NoToken
      BY <1>0, EndedType DEF Status, Terminal
    <3>2. att'[i][m] = Ended(a, "failed")
      BY <1>0, <2>1, <2>2
    <3>3. hist'[i][m].issued = hist[i][m].issued
      BY <1>0, <2>1, <2>2 DEF HistRow
    <3>4. AttemptOf(e)'.status = "failed" /\ AttemptOf(e)'.token = NoToken
      BY <1>i, <3>1, <3>2 DEF AttemptOf
    <3>5. QED
      BY <1>i, <1>0, <3>3, <3>4, FailsQuiet DEF Unsuccessful
  <2>3. CASE m # n
    <3>1. job[i] \in JobRow
      BY RowTypes DEF IInv
    <3>2. att'[i][m] = a /\ hist'[i][m] = hist[i][m]
          /\ job'[i].decision = job[i].decision /\ job'[i].due = job[i].due
      BY <1>0, <2>1, <2>3, <3>1 DEF JobRow
    <3>3. QED
      BY <1>1, <3>2
  <2>4. QED
    BY <2>2, <2>3
<1>3. CASE ~Stale(i)
  BY <1>1, <1>3 DEF RecoverStale
<1>4. QED
  BY <1>2, <1>3

\* Approvals, retries and time.
LEMMA MomentQuiet ==
  ASSUME IInv, NEW j \in Job, Approve(j) \/ Retry(j) \/ LeaseAges(j) \/ ReviewDue(j),
         NEW e \in Exec
  PROVE  Quiet(e)
<1> DEFINE n == job[j].cur
<1>0. /\ att \in [Job -> [Attempt -> AttRow]] /\ n \in Attempt /\ att[j][n] \in AttRow
      /\ e[1] \in Job /\ e[2] \in Attempt /\ job \in [Job -> JobRow] /\ TypeOK
      /\ att[e[1]][e[2]] \in AttRow
      /\ Good(job[e[1]], e[2], att[e[1]][e[2]], claims[e[1]], outbox[e[1]][e[2]], hist[e[1]][e[2]])
  BY ExecRow, RowTypes, Now DEF IInv
<1>1. CASE Approve(j) \/ ReviewDue(j)
  <2>1. att' = att /\ UNCHANGED <<claims, hist>>
    BY <1>1 DEF Approve, ReviewDue
  <2>2. Remembers(e)
    <3>1. CASE Approve(j)
      BY <1>0, <3>1 DEF Approve, JobRow, Remembers
    <3>2. CASE ReviewDue(j)
      BY <1>0, <3>2 DEF ReviewDue, JobRow, Remembers
    <3>3. QED
      BY <1>1, <3>1, <3>2
  <2>3. QED
    BY <2>1, <2>2, StaysQuiet DEF AttemptOf, Live
<1>2. CASE LeaseAges(j)
  <2>1. att' = [att EXCEPT ![j][n].lease = @ - 1] /\ UNCHANGED <<job, claims, hist>>
    BY <1>2 DEF LeaseAges
  <2>2. /\ att'[e[1]][e[2]].status = att[e[1]][e[2]].status
        /\ att'[e[1]][e[2]].token = att[e[1]][e[2]].token
        /\ att'[e[1]][e[2]].lease > 0 => att[e[1]][e[2]].lease > 0
    BY <1>0, <2>1 DEF AttRow
  <2>3. QED
    BY <2>1, <2>2, StaysQuiet DEF AttemptOf, Live, HoldsLease, Remembers
<1>3. CASE Retry(j)
  <2> DEFINE q == n + 1
             a == [NoAttempt EXCEPT !.status = "queued"]
             b == [job[j] EXCEPT !.status = "queued", !.cur = q, !.decision = "none",
                                 !.due = FALSE, !.aged = FALSE]
  <2>1. /\ att' = [att EXCEPT ![j][q] = a] /\ UNCHANGED <<claims, hist>>
        /\ job' = [job EXCEPT ![j] = b] /\ job[j].status \in Unsuccessful /\ q <= MaxAttempt
    BY <1>3 DEF Retry
  <2>2. q \in Attempt /\ q > n
    BY <1>0, <2>1, JobsAssumption DEF Attempt, JobsAssumption
  <2>3. a.status = "queued" /\ a.token = NoToken
    BY DEF NoAttempt
  <2> HIDE DEF a, b
  <2>4. CASE e[1] = j /\ e[2] = q
    <3>1. AttemptOf(e)'.status = "queued" /\ AttemptOf(e)'.token = NoToken
      BY <1>0, <2>1, <2>2, <2>3, <2>4 DEF AttemptOf
    <3>2. AttemptOf(e).status = "none"
      BY <1>0, <2>2, <2>4 DEF AttemptOf, Good
    <3>3. QED
      BY <2>1, <3>1, <3>2, WaitsQuiet
  <2>5. CASE e[1] # j \/ e[2] # q
    <3>1. AttemptOf(e).status = "review" => e[1] # j
      BY <1>0, <2>1, LiveIsCurrent DEF AttemptOf, Unsuccessful
    <3>2. e[1] # j => job'[e[1]] = job[e[1]]
      BY <1>0, <2>1
    <3>3. QED
      BY <1>0, <2>1, <2>2, <2>5, <3>1, <3>2, OthersQuiet DEF Remembers
  <2>6. QED
    BY <2>4, <2>5
<1>4. QED
  BY <1>1, <1>2, <1>3

-----------------------------------------------------------------------------
(* A worker and its manager do nothing the job store does not allow *)

\* A step that writes the attempt and the history of one row.
LEMMA OneByWorker ==
  ASSUME IInv, ByWorkers, NEW j \in Job, NEW n \in Attempt, NEW a,
         att' = [att EXCEPT ![j][n] = a],
         a.token = NoToken \/ (a.token = att[j][n].token /\ a.machine = att[j][n].machine),
         UNCHANGED <<claims, hist>>
  PROVE  ByWorkers'
<1>1. att \in [Job -> [Attempt -> AttRow]]
  BY DEF IInv, TypeOK
<1>2. ASSUME NEW i \in Job, NEW m \in Attempt
      PROVE  att'[i][m] = att[i][m] \/ (i = j /\ m = n /\ att'[i][m] = a)
  BY <1>1
<1>3. QED
  BY <1>2 DEF ByWorkers

\* The end of a job leaves every claim a claim of a worker.
LEMMA CompleteLockedByWorkers ==
  ASSUME IInv, ByWorkers, NEW h, NEW j \in Job, NEW n \in Attempt, NEW s \in Terminal,
         NEW how, NEW by, CompleteLocked(h, j, n, s, how, by)
  PROVE  ByWorkers'
<1>1. ASSUME NEW i \in Job, NEW m \in Attempt
      PROVE  /\ att'[i][m].token # NoToken => att'[i][m].machine \in Worker
             /\ hist'[i][m].issued <= claims'[i]
  <2>0. /\ att[i] \in [Attempt -> AttRow] /\ att[i][m] \in AttRow /\ job[i].cur \in Attempt
        /\ hist[i] \in [Attempt -> HistRow] /\ hist[i][m] \in HistRow /\ claims'[i] = claims[i]
        /\ att[i][m].token # NoToken => att[i][m].machine \in Worker
        /\ hist[i][m].issued <= claims[i]
    BY Now, RowTypes DEF IInv, CompleteLocked, ByWorkers
  <2>1. hist'[i][m].issued = hist[i][m].issued
    <3>1. \/ hist'[i] = [hist[i] EXCEPT ![n].how = how, ![n].by = by]
          \/ hist'[i] = [hist[i] EXCEPT ![job[i].cur].how = "cascade"]
          \/ hist'[i] = hist[i]
      BY DEF CompleteLocked
    <3>2. CASE hist'[i] = [hist[i] EXCEPT ![n].how = how, ![n].by = by]
      BY <2>0, <3>2 DEF HistRow
    <3>3. CASE hist'[i] = [hist[i] EXCEPT ![job[i].cur].how = "cascade"]
      BY <2>0, <3>3 DEF HistRow
    <3>4. QED
      BY <3>1, <3>2, <3>3
  <2>2. ASSUME NEW t \in Terminal, att'[i][m] = Ended(att[i][m], t)
        PROVE  att'[i][m].token = NoToken
    <3>1. Ended(att[i][m], t).token = NoToken
      BY <2>0, EndedType DEF Status
    <3>2. QED
      BY <2>2, <3>1
  <2>3. \/ att'[i] = [att[i] EXCEPT ![n] = Ended(@, s)]
        \/ att'[i] = [att[i] EXCEPT ![job[i].cur] = Ended(@, "cancelled")]
        \/ att'[i] = [att[i] EXCEPT ![job[i].cur].status = "queued"]
        \/ att'[i] = att[i]
    BY DEF CompleteLocked
  <2>4. CASE att'[i] = [att[i] EXCEPT ![job[i].cur].status = "queued"]
    <3>1. att'[i][m].token = att[i][m].token /\ att'[i][m].machine = att[i][m].machine
      BY <2>0, <2>4 DEF AttRow
    <3>2. QED
      BY <2>0, <2>1, <3>1
  <2>5. CASE \E t \in Terminal : att'[i][m] = Ended(att[i][m], t)
    BY <2>0, <2>1, <2>2, <2>5
  <2>6. CASE att'[i][m] = att[i][m]
    BY <2>0, <2>1, <2>6
  <2>7. QED
    BY <2>0, <2>3, <2>4, <2>5, <2>6 DEF Terminal
<1>2. QED
  BY <1>1 DEF ByWorkers

\* The token that a request presents is one a claim issued, to a worker.
LEMMA Presents ==
  ASSUME IInv, ByWorkers, NEW e \in Exec, AttemptOf(e).token = e[3]
  PROVE  /\ e[3] <= claims[e[1]] /\ AttemptOf(e).machine \in Worker
         /\ CallNode(AttemptOf(e)) = Gate
<1>1. Good(job[e[1]], e[2], AttemptOf(e), claims[e[1]], outbox[e[1]][e[2]], hist[e[1]][e[2]])
      /\ e[1] \in Job /\ e[2] \in Attempt /\ e[3] # NoToken
  BY ExecRow
<1>2. QED
  BY <1>1 DEF Good, ByWorkers, AttemptOf, CallNode

\* A call that arrives is one the store may receive.
LEMMA CallStep ==
  ASSUME NEW e \in Exec, e[3] <= claims[e[1]], Call(e[1], e[2], e[3])
  PROVE  Next
BY ExecParts DEF Next, StoreNext

\* A heartbeat that is answered is a step of the store.
LEMMA RenewedStep ==
  ASSUME IInv, ByWorkers, NEW e \in Exec, Renewed(e)
  PROVE  Next /\ ByWorkers'
<1> DEFINE a == [AttemptOf(e) EXCEPT !.lease = LeaseTTL]
<1>1. AttemptOf(e).token = e[3]
  BY DEF Renewed, Heartbeat, HoldsLease, AttemptOf
<1>2. Next
  BY <1>1, Presents, CallStep DEF Renewed, Call
<1>3. /\ e[1] \in Job /\ e[2] \in Attempt /\ AttemptOf(e) \in AttRow
      /\ att \in [Job -> [Attempt -> AttRow]]
  BY ExecRow
<1>4. att' = [att EXCEPT ![e[1]][e[2]] = a] /\ UNCHANGED <<claims, hist>>
  BY <1>3 DEF Renewed, Heartbeat, AttemptOf
<1>5. a.token = AttemptOf(e).token /\ a.machine = AttemptOf(e).machine
  BY <1>3 DEF AttRow
<1> HIDE DEF a
<1>6. ByWorkers'
  BY <1>3, <1>4, <1>5, OneByWorker DEF AttemptOf
<1>7. QED
  BY <1>2, <1>6

\* So is a rejected offer.
LEMMA RejectedStep ==
  ASSUME IInv, ByWorkers, NEW e \in Exec, Rejected(e)
  PROVE  Next /\ ByWorkers'
<1> DEFINE a == Ended(AttemptOf(e), "queued")
<1>1. AttemptOf(e).token = e[3]
  BY DEF Rejected, Unclaim, HoldsLease, AttemptOf
<1>2. Next
  <2>1. Call(e[1], e[2], e[3])
    BY <1>1, Presents DEF Rejected, Call, AttemptOf
  <2>2. QED
    BY <1>1, <2>1, Presents, CallStep
<1>3. e[1] \in Job /\ e[2] \in Attempt /\ AttemptOf(e) \in AttRow
  BY ExecRow
<1>4. att' = [att EXCEPT ![e[1]][e[2]] = a] /\ UNCHANGED <<claims, hist>>
  BY DEF Rejected, Unclaim, AttemptOf
<1>5. a.token = NoToken
  BY <1>3, EndedType DEF Status
<1> HIDE DEF a
<1>6. ByWorkers'
  BY <1>3, <1>4, <1>5, OneByWorker
<1>7. QED
  BY <1>2, <1>6

\* And so is a completion, or it was done before and changes nothing.
LEMMA CompletedStep ==
  ASSUME IInv, ByWorkers, NEW e \in Exec, NEW s \in {"succeeded", "failed", "review"},
         Completed(e, s)
  PROVE  [Next]_vars /\ ByWorkers'
<1>1. CASE UNCHANGED vars
  BY <1>1 DEF vars, ByWorkers
<1>2. ASSUME NEW h \in Gate, Hold(h, e[1], e[2], e[3]) PROVE Next /\ ByWorkers'
  <2> DEFINE a == [AttemptOf(e) EXCEPT !.status = "review", !.lease = 0, !.reserved = FALSE]
  <2>1. AttemptOf(e).token = e[3]
    BY <1>2 DEF Hold, HoldsLease, AttemptOf
  <2>2. Call(e[1], e[2], e[3])
    BY <1>2, <2>1, Presents DEF Call, AttemptOf
  <2>3. e[1] \in Job /\ e[2] \in Attempt /\ AttemptOf(e) \in AttRow
    BY ExecRow
  <2>4. att' = [att EXCEPT ![e[1]][e[2]] = a] /\ UNCHANGED <<claims, hist>>
    BY <1>2 DEF Hold, AttemptOf
  <2>5. a.token = AttemptOf(e).token /\ a.machine = AttemptOf(e).machine
    BY <2>3 DEF AttRow
  <2> HIDE DEF a
  <2>6. ByWorkers'
    BY <2>3, <2>4, <2>5, OneByWorker DEF AttemptOf
  <2>7. QED
    BY <2>1, <2>2, <2>6, Presents, CallStep
<1>3. ASSUME NEW h \in Gate, s # "review", Complete(h, e[1], e[2], e[3], s)
      PROVE  Next /\ ByWorkers'
  <2>1. AttemptOf(e).token = e[3]
    BY <1>3 DEF Complete, MayComplete, HoldsLease, AttemptOf
  <2>2. Call(e[1], e[2], e[3])
    <3>1. h \in CallNode(att[e[1]][e[2]]) /\ s \in {"succeeded", "failed"}
      BY <1>3, <2>1, Presents DEF AttemptOf
    <3>2. QED
      BY <1>3, <3>1 DEF Call
  <2>3. s \in Terminal /\ CompleteLocked(h, e[1], e[2], s, "call", e[3])
    BY <1>3 DEF Complete, Terminal
  <2>4. ByWorkers'
    BY <2>3, ExecParts, CompleteLockedByWorkers
  <2>5. QED
    BY <2>1, <2>2, <2>4, Presents, CallStep
<1>4. QED
  BY <1>1, <1>2, <1>3 DEF Completed

\* A poll that offers a job is a claim of the worker.
LEMMA PollStep ==
  ASSUME IInv, ByWorkers, NEW h \in Gate, NEW w \in Worker, NEW j \in Job, ClaimNext(h, w, j)
  PROVE  Next /\ ByWorkers'
<1> DEFINE n == job[j].cur
           k == claims[j] + 1
           a == [status |-> "provisioning", machine |-> w, token |-> k,
                 lease |-> LeaseTTL, reserved |-> TRUE]
<1>1. Next
  BY JobsAssumption DEF Next, StoreNext, JobsAssumption
<1>2. /\ att \in [Job -> [Attempt -> AttRow]] /\ hist \in [Job -> [Attempt -> HistRow]]
      /\ n \in Attempt /\ claims[j] \in Nat /\ claims \in [Job -> 0..MaxClaim]
  BY RowTypes DEF IInv, TypeOK
<1>3. /\ att' = [att EXCEPT ![j][n] = a] /\ claims' = [claims EXCEPT ![j] = k]
      /\ hist' = [hist EXCEPT ![j][n].issued = k, ![j][n].home = h]
  BY DEF ClaimNext, Claim
<1>4. ASSUME NEW i \in Job, NEW m \in Attempt
      PROVE  /\ att'[i][m].token # NoToken => att'[i][m].machine \in Worker
             /\ hist'[i][m].issued <= claims'[i]
  <2>0. hist[i][m] \in HistRow /\ claims[i] \in Nat /\ hist[i][m].issued \in Nat
    BY Now DEF HistRow, IInv, Token, NoToken
  <2>1. CASE i = j /\ m = n
    <3>1. att'[i][m].machine = w
      BY <1>2, <1>3, <2>1
    <3>2. hist'[i][m].issued = k /\ claims'[i] = k
      BY <1>2, <1>3, <2>0, <2>1 DEF HistRow
    <3>3. QED
      BY <1>2, <3>1, <3>2
  <2>2. CASE i # j \/ m # n
    <3>1. att'[i][m] = att[i][m] /\ hist'[i][m] = hist[i][m] /\ claims'[i] >= claims[i]
          /\ claims'[i] \in Nat
      BY <1>2, <1>3, <2>0, <2>2
    <3>2. QED
      BY <2>0, <3>1 DEF ByWorkers
  <2>3. QED
    BY <2>1, <2>2
<1>5. QED
  BY <1>1, <1>4 DEF ByWorkers

\* Approvals, retries and time claim nothing.
LEMMA MomentByWorkers ==
  ASSUME IInv, ByWorkers, NEW j \in Job, Approve(j) \/ Retry(j) \/ LeaseAges(j) \/ ReviewDue(j)
  PROVE  ByWorkers'
<1> DEFINE n == job[j].cur
<1>0. /\ att \in [Job -> [Attempt -> AttRow]] /\ n \in Attempt /\ att[j][n] \in AttRow
  BY RowTypes DEF IInv, TypeOK
<1>1. CASE Approve(j) \/ ReviewDue(j)
  BY <1>1 DEF Approve, ReviewDue, ByWorkers
<1>2. CASE LeaseAges(j)
  <2> DEFINE a == [att[j][n] EXCEPT !.lease = @ - 1]
  <2>1. att' = [att EXCEPT ![j][n] = a] /\ UNCHANGED <<claims, hist>>
    BY <1>0, <1>2 DEF LeaseAges
  <2>2. a.token = att[j][n].token /\ a.machine = att[j][n].machine
    BY <1>0 DEF AttRow
  <2> HIDE DEF a
  <2>3. QED
    BY <1>0, <2>1, <2>2, OneByWorker
<1>3. CASE Retry(j)
  <2> DEFINE q == n + 1
             a == [NoAttempt EXCEPT !.status = "queued"]
  <2>1. att' = [att EXCEPT ![j][q] = a] /\ UNCHANGED <<claims, hist>> /\ q <= MaxAttempt
    BY <1>3 DEF Retry
  <2>2. q \in Attempt
    BY <1>0, <2>1, JobsAssumption DEF Attempt, JobsAssumption
  <2>3. a.token = NoToken
    BY DEF NoAttempt
  <2> HIDE DEF a, q
  <2>4. QED
    BY <2>1, <2>2, <2>3, OneByWorker
<1>4. QED
  BY <1>1, <1>2, <1>3

\* The sweep of expired leases claims nothing.
LEMMA RecoverStaleByWorkers ==
  ASSUME IInv, ByWorkers, NEW h, RecoverStale(h)
  PROVE  ByWorkers'
<1>1. ASSUME NEW i \in Job, NEW m \in Attempt
      PROVE  /\ att'[i][m].token # NoToken => att'[i][m].machine \in Worker
             /\ hist'[i][m].issued <= claims'[i]
  <2>0. /\ att[i] \in [Attempt -> AttRow] /\ att[i][m] \in AttRow /\ job[i].cur \in Attempt
        /\ hist[i] \in [Attempt -> HistRow] /\ hist[i][m] \in HistRow /\ claims'[i] = claims[i]
        /\ att[i][m].token # NoToken => att[i][m].machine \in Worker
        /\ hist[i][m].issued <= claims[i]
    BY Now, RowTypes DEF IInv, RecoverStale, ByWorkers
  <2>1. \/ hist'[i] = [hist[i] EXCEPT ![job[i].cur].how = "sweep"]
        \/ hist'[i] = hist[i]
    BY DEF RecoverStale
  <2>2. hist'[i][m].issued = hist[i][m].issued
    BY <2>0, <2>1 DEF HistRow
  <2>3. \/ att'[i] = [att[i] EXCEPT ![job[i].cur] = Ended(@, "failed")]
        \/ att'[i] = att[i]
    BY DEF RecoverStale
  <2>4. Ended(att[i][m], "failed").token = NoToken
    BY <2>0, EndedType DEF Status, Terminal
  <2>5. att'[i][m] = Ended(att[i][m], "failed") \/ att'[i][m] = att[i][m]
    BY <2>0, <2>3
  <2>6. QED
    BY <2>0, <2>2, <2>4, <2>5
<1>2. QED
  BY <1>1 DEF ByWorkers

\* Operators and the sweep of orphans claim nothing.
LEMMA HouseByWorkers ==
  ASSUME IInv, ByWorkers, NEW h, NEW j \in Job, House(h, j)
  PROVE  ByWorkers'
<1>0. /\ job[j].cur \in Attempt /\ att[j][job[j].cur] \in AttRow
      /\ att \in [Job -> [Attempt -> AttRow]] /\ hist \in [Job -> [Attempt -> HistRow]]
  BY RowTypes DEF IInv, TypeOK
<1>1. CASE Reject(h, j) \/ ExpireReview(h, j) \/ Cancel(h, j)
  BY <1>0, <1>1, CompleteLockedByWorkers DEF Reject, ExpireReview, Cancel, Terminal
<1>2. CASE RecoverOrphan(h, j)
  <2> DEFINE n == job[j].cur
             a == Ended(att[j][n], "cancelled")
  <2>1. /\ att' = [att EXCEPT ![j][n] = a] /\ hist' = [hist EXCEPT ![j][n].how = "sweep"]
        /\ claims' = claims
    BY <1>2 DEF RecoverOrphan
  <2>2. a.token = NoToken
    BY <1>0, EndedType DEF Status, Terminal
  <2> HIDE DEF a
  <2>3. \A i \in Job : \A m \in Attempt :
          /\ hist'[i][m].issued = hist[i][m].issued
          /\ att'[i][m] = att[i][m] \/ att'[i][m].token = NoToken
    BY <1>0, <2>1, <2>2 DEF HistRow
  <2>4. QED
    BY <2>1, <2>3 DEF ByWorkers
<1>3. QED
  BY <1>1, <1>2 DEF House

\* What the manager does of its own accord.
LEMMA HouseMovesStep ==
  ASSUME IInv, ByWorkers, HouseMoves
  PROVE  Next /\ ByWorkers' /\ \A e \in Exec : Quiet(e)
<1>1. ASSUME NEW j \in Job, Approve(j) \/ Retry(j) \/ LeaseAges(j) \/ ReviewDue(j)
      PROVE  Next /\ ByWorkers' /\ \A e \in Exec : Quiet(e)
  BY <1>1, MomentByWorkers, MomentQuiet DEF Next, StoreNext, Time
<1>2. ASSUME NEW h \in Gate, NEW j \in Job, House(h, j)
      PROVE  Next /\ ByWorkers' /\ \A e \in Exec : Quiet(e)
  <2>1. h \in Node
    BY JobsAssumption DEF JobsAssumption
  <2>2. QED
    BY <1>2, <2>1, HouseByWorkers, HouseQuiet DEF Next, StoreNext
<1>3. ASSUME NEW h \in Gate, RecoverStale(h)
      PROVE  Next /\ ByWorkers' /\ \A e \in Exec : Quiet(e)
  <2>1. h \in Node
    BY JobsAssumption DEF JobsAssumption
  <2>2. QED
    BY <1>3, <2>1, RecoverStaleByWorkers, RecoverStaleQuiet DEF Next, StoreNext
<1>4. QED
  BY <1>1, <1>2, <1>3 DEF HouseMoves

-----------------------------------------------------------------------------
(* What each request does to an execution *)

\* A step of the worker alone is quiet in the house.
LEMMA UnchangedQuiet ==
  ASSUME UNCHANGED vars, NEW e \in Exec
  PROVE  Quiet(e)
BY DEF Quiet, Settled, Known, Lost, Decided, Begun, InReview, Won, Spent, Live, AttemptOf, vars

\* A heartbeat is quiet: it moves a lease and no status.
LEMMA RenewedQuiet ==
  ASSUME IInv, NEW f \in Exec, Renewed(f), NEW e \in Exec
  PROVE  Quiet(e)
BY ExecParts, HeartbeatQuiet DEF Renewed

\* A rejection takes an attempt back, and settles or wins none.
LEMMA RejectedQuiet ==
  ASSUME IInv, NEW f \in Exec, Rejected(f), NEW e \in Exec
  PROVE  /\ Settled(e)
         /\ InReview(e)' => InReview(e)
         /\ Won(e)' => Won(e)
         /\ e # f => Quiet(e)
BY UnclaimQuiet DEF Rejected

\* A complete settles its own execution: a success is one that was said, and output
\* is held only on request.
LEMMA CompletedQuiet ==
  ASSUME IInv, NEW f \in Exec, NEW s \in {"succeeded", "failed", "review"},
         Completed(f, s), NEW e \in Exec
  PROVE  /\ Settled(e)
         /\ Begun(e) => Begun(e)'
         /\ InReview(e)' => InReview(e) \/ (e = f /\ s = "review")
         /\ Won(e)' => Won(e) \/ (e = f /\ s = "succeeded")
<1>1. CASE UNCHANGED vars
  BY <1>1, UnchangedQuiet DEF Quiet
<1>2. ASSUME NEW h, s = "review", Hold(h, f[1], f[2], f[3])
      PROVE  /\ Settled(e)
             /\ Begun(e) => Begun(e)'
             /\ InReview(e)' => InReview(e) \/ (e = f /\ s = "review")
             /\ Won(e)' => Won(e) \/ (e = f /\ s = "succeeded")
  BY <1>2, HoldQuiet DEF Quiet
<1>3. ASSUME NEW h, s # "review", Complete(h, f[1], f[2], f[3], s)
      PROVE  /\ Settled(e)
             /\ Begun(e) => Begun(e)'
             /\ InReview(e)' => InReview(e) \/ (e = f /\ s = "review")
             /\ Won(e)' => Won(e) \/ (e = f /\ s = "succeeded")
  <2>1. /\ s \in Terminal /\ CompleteLocked(h, f[1], f[2], s, "call", f[3])
        /\ f[1] \in Job /\ f[2] \in Attempt /\ f[3] \in Token \union {NoToken}
        /\ f = <<f[1], f[2], f[3]>>
    BY <1>3, ExecParts DEF Complete, Terminal
  <2>2. QED
    BY <2>1, CompleteLockedQuiet DEF Quiet
<1>4. QED
  BY <1>1, <1>2, <1>3 DEF Completed

\* A poll makes an execution that nobody has heard of.
LEMMA PollQuiet ==
  ASSUME IInv, ByWorkers, NEW h, NEW w, NEW j \in Job, ClaimNext(h, w, j), NEW e \in Exec
  PROVE  Quiet(e)
BY ClaimQuiet DEF ClaimNext

-----------------------------------------------------------------------------
(* Where an execution stands: the frame *)

TaskRow == [at : Working \union {"none", "over"}, left : 0..CompleteTries,
            says : {"none", "succeeded", "failed", "review"}]

\* The node leaves an execution as it is.
Same(e) ==
  /\ task'[e] = task[e] /\ record'[e] = record[e] /\ sweep'[e] = sweep[e]
  /\ complete'[e] = complete[e]
  /\ e \in ran => e \in ran'
  /\ e \in published' <=> e \in published
  /\ e \in inFlight' => e \in inFlight
  /\ offer' = e => offer = e /\ (pc' = "accept" => pc = "accept")
  /\ \A op \in {"beat", "reject", "succeeded", "failed", "review"} : Wire(op, e)' => Wire(op, e)

\* What a proof about execution e starts from.
LEMMA Here ==
  ASSUME WInv, NEW e \in Exec
  PROVE  /\ IInv /\ ByWorkers /\ EInv /\ Books /\ TypeOK
         /\ task \in [Exec -> TaskRow] /\ task[e] \in TaskRow
         /\ record \in [Exec -> Record]
         /\ sweep \in [Exec -> {"idle", "publish", "write", "cancel", "refused"}]
         /\ complete \in [Exec -> {"none", "succeeded", "failed"}]
         /\ Stands(e) /\ Truthful(e)
BY DEF WInv, WTypeOK, EInv, TaskRow, IInv

\* An execution that does not move stands where it stood.
LEMMA SameStands ==
  ASSUME NEW e \in Exec, Stands(e), Same(e), Settled(e),
         Begun(e) /\ ~(task[e].at = "none") => Begun(e)'
  PROVE  Stands(e)'
BY DEF Stands, Same, Settled

\* And what is told of it stays true.
LEMMA SameTruthful ==
  ASSUME NEW e \in Exec, Truthful(e), Same(e), Settled(e),
         InReview(e)' => InReview(e) \/ Accounted(e),
         Won(e)' => Won(e) \/ e \in ran \union published
  PROVE  Truthful(e)'
<1>1. OnDisk(e)' <=> OnDisk(e)
  BY DEF Same, OnDisk
<1>2. Accounted(e) => Accounted(e)'
  BY <1>1 DEF Same, Settled, Accounted, Forsaken
<1>3. QED
  BY <1>2 DEF Truthful, Same, Settled

\* A step that is about one execution.
LEMMA Focus ==
  ASSUME WInv, NEW f \in Exec, \A e \in Exec \ {f} : Same(e) /\ Quiet(e),
         Stands(f)' /\ Truthful(f)'
  PROVE  EInv'
<1>1. ASSUME NEW e \in Exec, e # f PROVE Stands(e)' /\ Truthful(e)'
  BY <1>1, Here, SameStands, SameTruthful DEF Quiet
<1>2. QED
  BY <1>1 DEF EInv

\* A step that is about none.
LEMMA Frame ==
  ASSUME WInv, \A e \in Exec : Same(e) /\ Quiet(e)
  PROVE  EInv'
<1>1. ASSUME NEW e \in Exec PROVE Stands(e)' /\ Truthful(e)'
  BY <1>1, Here, SameStands, SameTruthful DEF Quiet
<1>2. QED
  BY <1>1 DEF EInv

\* What is sent is about one execution.
LEMMA WireAdds ==
  ASSUME NEW f, NEW o, wire' \subseteq wire \union {[op |-> o, e |-> f]}, NEW e, NEW p,
         Wire(p, e)'
  PROVE  Wire(p, e) \/ (e = f /\ p = o)
<1>1. CASE [op |-> p, e |-> e] \in wire
  BY <1>1 DEF Wire
<1>2. CASE [op |-> p, e |-> e] = [op |-> o, e |-> f]
  <2>1. [op |-> p, e |-> e].op = [op |-> o, e |-> f].op
    BY <1>2
  <2>2. [op |-> p, e |-> e].e = [op |-> o, e |-> f].e
    BY <1>2
  <2>3. QED
    BY <2>1, <2>2
<1>3. QED
  BY <1>1, <1>2 DEF Wire

-----------------------------------------------------------------------------
(* Where an execution stands: the executor and its completion *)

\* A step of the execution f that sends nothing, between two of the house.
LEMMA OneTask ==
  ASSUME WInv, NEW f \in Exec, NEW t \in TaskRow, task' = [task EXCEPT ![f] = t],
         UNCHANGED vars, UNCHANGED held_vars, wire' = wire, offer' = offer,
         pc' = "accept" => pc = "accept",
         ran \subseteq ran', inFlight' \subseteq inFlight,
         task[f].at # "none",
         f \in inFlight' => t.at \in Working,
         t.at \in Mail \union Posting \union {"wait", "held"} => t.says # "none",
         t.says = "succeeded" => f \in ran',
         t.says = "review" => task[f].says = "review"
  PROVE  EInv'
<1>1. /\ task \in [Exec -> TaskRow] /\ Stands(f) /\ Truthful(f)
  BY Here
<1>2. UNCHANGED <<record, sweep, complete, published>>
  BY DEF held_vars
<1>3. \A e \in Exec : Quiet(e)
  BY UnchangedQuiet
<1>4. \A e \in Exec \ {f} : Same(e)
  BY <1>1, <1>2 DEF Same, Wire
<1>5. task'[f] = t
  BY <1>1
<1>6. Stands(f)'
  <2>1. offer # f /\ ~Wire("reject", f)
    BY <1>1 DEF Stands
  <2>2. \A p \in {"beat", "reject", "succeeded", "failed", "review"} : Wire(p, f)' <=> Wire(p, f)
    BY DEF Wire
  <2>3. Quiet(f)
    BY <1>3
  <2>4. QED
    BY <1>1, <1>2, <1>5, <2>1, <2>2, <2>3 DEF Stands, Quiet, Settled
<1>7. Truthful(f)'
  <2>1. \A p \in {"beat", "reject", "succeeded", "failed", "review"} : Wire(p, f)' <=> Wire(p, f)
    BY DEF Wire
  <2>2. Quiet(f) /\ (OnDisk(f)' <=> OnDisk(f))
    BY <1>2, <1>3 DEF OnDisk
  <2>3. QED
    BY <1>1, <1>2, <1>5, <2>1, <2>2 DEF Truthful, Quiet, Settled, Accounted, Forsaken
<1>8. QED
  BY <1>3, <1>4, <1>6, <1>7, Focus

\* The two constant rows.
LEMMA TaskRows ==
  /\ Over \in TaskRow /\ Over.at = "over" /\ Over.says = "none"
  /\ NoTask \in TaskRow /\ NoTask.at = "none" /\ NoTask.says = "none"
<1>1. 0 \in 0..CompleteTries
  BY WorkerAssumption DEF WorkerAssumption
<1>2. QED
  BY <1>1 DEF TaskRow, Over, NoTask

\* A step of the executor that says something or nothing new.
LEMMA ExecutorStands ==
  ASSUME WInv, NEW f \in Exec, ExecutorReturns(f) \/ ContainerGone(f)
  PROVE  EInv'
<1>0. task \in [Exec -> TaskRow] /\ task[f] \in TaskRow /\ Stands(f) /\ Truthful(f)
  BY Here
<1>1. /\ UNCHANGED <<vars, held_vars, wire, offer, pc, inFlight>> /\ "done" \in Working
  BY DEF ExecutorReturns, ContainerGone, poller_vars, net_vars, Working, Mail
<1>2. CASE ExecutorReturns(f)
  <2>1. PICK s \in {"succeeded", "failed"} :
          /\ task' = [task EXCEPT ![f].at = "done", ![f].says = s]
          /\ ran' = IF s = "succeeded" THEN ran \union {f} ELSE ran
    BY <1>2 DEF ExecutorReturns
  <2> DEFINE t == [task[f] EXCEPT !.at = "done", !.says = s]
  <2>2. task' = [task EXCEPT ![f] = t]
    BY <1>0, <2>1
  <2>3. t \in TaskRow /\ t.at = "done" /\ t.says = s
    BY <1>0, <1>1 DEF TaskRow
  <2> HIDE DEF t
  <2>4. task[f].at # "none"
    BY <1>2 DEF ExecutorReturns
  <2>5. QED
    BY <1>1, <2>1, <2>2, <2>3, <2>4, OneTask
<1>3. CASE ContainerGone(f)
  <2> DEFINE t == [task[f] EXCEPT !.at = "done"]
  <2>1. task' = [task EXCEPT ![f] = t] /\ ran' = ran /\ task[f].at = "held"
    BY <1>0, <1>3 DEF ContainerGone, Becomes
  <2>2. t \in TaskRow /\ t.at = "done" /\ t.says = task[f].says
    BY <1>0, <1>1 DEF TaskRow
  <2> HIDE DEF t
  <2>3. task[f].says # "none" /\ (task[f].says = "succeeded" => f \in ran)
    BY <1>0, <2>1 DEF Stands, Truthful
  <2>4. QED
    BY <1>1, <2>1, <2>2, <2>3, OneTask
<1>4. QED
  BY <1>2, <1>3

\* The poller hears of an execution, or its request raises.
LEMMA ReceiveStands ==
  ASSUME WInv, NEW f \in Exec, Receive(f) \/ PostRaises(f)
  PROVE  EInv'
<1>0. /\ task \in [Exec -> TaskRow] /\ task[f] \in TaskRow /\ Stands(f) /\ Truthful(f)
      /\ CompleteTries \in Nat \ {0}
  BY Here, WorkerAssumption DEF WorkerAssumption
<1>1. /\ UNCHANGED <<vars, held_vars, wire, offer, pc, ran>> /\ inFlight' \subseteq inFlight
  BY DEF Receive, JobFinished, CompleteResult, CompleteRetry, PostRaises, Finish, Without,
         poller_vars, net_vars
<1>2. task[f].at \in Mail \union Posting \union {"wait"}
  BY DEF Receive, JobFinished, CompleteResult, CompleteRetry, PostRaises, Mail, Posting
<1>3. /\ task[f].at # "none" /\ task[f].says # "none"
      /\ task[f].says = "succeeded" => f \in ran
  BY <1>0, <1>2 DEF Stands, Truthful, Mail, Posting
<1>4. ASSUME NEW t \in TaskRow, task' = [task EXCEPT ![f] = t], t.at \in Working,
             t.says \in {task[f].says, "failed"}
      PROVE  EInv'
  BY <1>1, <1>3, <1>4, OneTask
<1>5. ASSUME task' = [task EXCEPT ![f] = Over], f \notin inFlight' PROVE EInv'
  BY <1>1, <1>3, <1>5, OneTask, TaskRows DEF Mail, Posting
<1>6. Working = {"run", "held", "done", "ok", "again", "drop", "send", "resend", "wait"}
  BY DEF Working, Executor, Mail, Posting
<1>7. ~Tracked(f) => f \notin inFlight
  BY DEF Tracked, SameAttempt
<1>8. CASE JobFinished(f)
  <2>1. CASE task' = [task EXCEPT ![f].at = "send", ![f].left = CompleteTries]
    <3> DEFINE t == [task[f] EXCEPT !.at = "send", !.left = CompleteTries]
    <3>1. task' = [task EXCEPT ![f] = t]
      BY <1>0, <2>1
    <3>2. CompleteTries \in 0..CompleteTries
      BY <1>0
    <3>3. t \in TaskRow /\ t.at = "send" /\ t.says = task[f].says
      BY <1>0, <1>6, <3>2 DEF TaskRow
    <3> HIDE DEF t
    <3>4. QED
      BY <1>4, <1>6, <3>1, <3>3
  <2>2. CASE ~Tracked(f) /\ Ends(f)
    <3>1. inFlight' = inFlight
      BY <1>8 DEF JobFinished, poller_vars
    <3>2. QED
      BY <1>5, <1>7, <2>2, <3>1 DEF Ends
  <2>3. QED
    BY <1>8, <2>1, <2>2 DEF JobFinished
<1>9. CASE CompleteResult(f)
  <2>1. CASE ~Tracked(f) /\ Ends(f) /\ UNCHANGED <<used, inFlight>>
    BY <1>5, <1>7, <2>1 DEF Ends
  <2>2. CASE task[f].left > 1 /\ Waits(f)
    <3> DEFINE t == [task[f] EXCEPT !.at = "wait", !.left = task[f].left - 1]
    <3>1. task' = [task EXCEPT ![f] = t]
      BY <1>0, <2>2 DEF Waits
    <3>2. task[f].left \in 0..CompleteTries
      BY <1>0 DEF TaskRow
    <3>3. task[f].left - 1 \in 0..CompleteTries
      BY <1>0, <2>2, <3>2
    <3>4. t \in TaskRow /\ t.at = "wait" /\ t.says = task[f].says
      BY <1>0, <1>6, <3>3 DEF TaskRow
    <3> HIDE DEF t
    <3>5. QED
      BY <1>4, <1>6, <3>1, <3>4
  <2>3. CASE Finish(f)
    <3>1. f \notin inFlight'
      BY <2>3 DEF Finish, Without, SameAttempt
    <3>2. QED
      BY <1>5, <2>3, <3>1 DEF Finish, Ends
  <2>4. QED
    BY <1>9, <2>1, <2>2, <2>3 DEF CompleteResult
<1>10. CASE CompleteRetry(f)
  <2>1. CASE Tracked(f)
    <3> DEFINE t == [task[f] EXCEPT !.at = "send"]
    <3>1. task' = [task EXCEPT ![f] = t]
      BY <1>0, <1>10, <2>1 DEF CompleteRetry, Becomes
    <3>2. t \in TaskRow /\ t.at = "send" /\ t.says = task[f].says
      BY <1>0, <1>6 DEF TaskRow
    <3> HIDE DEF t
    <3>3. QED
      BY <1>4, <1>6, <3>1, <3>2
  <2>2. CASE ~Tracked(f)
    <3>1. inFlight' = inFlight
      BY <1>10 DEF CompleteRetry, poller_vars
    <3>2. QED
      BY <1>5, <1>7, <1>10, <2>2, <3>1 DEF CompleteRetry, Ends
  <2>3. QED
    BY <2>1, <2>2
<1>11. CASE PostRaises(f)
  <2>1. CASE task' = [task EXCEPT ![f].at = "resend", ![f].says = "failed"]
    <3> DEFINE t == [task[f] EXCEPT !.at = "resend", !.says = "failed"]
    <3>1. task' = [task EXCEPT ![f] = t]
      BY <1>0, <2>1
    <3>2. t \in TaskRow /\ t.at = "resend" /\ t.says = "failed"
      BY <1>0, <1>6 DEF TaskRow
    <3> HIDE DEF t
    <3>3. QED
      BY <1>4, <1>6, <3>1, <3>2
  <2>2. CASE Becomes(f, "drop")
    <3> DEFINE t == [task[f] EXCEPT !.at = "drop"]
    <3>1. task' = [task EXCEPT ![f] = t]
      BY <1>0, <2>2 DEF Becomes
    <3>2. t \in TaskRow /\ t.at = "drop" /\ t.says = task[f].says
      BY <1>0, <1>6 DEF TaskRow
    <3> HIDE DEF t
    <3>3. QED
      BY <1>4, <1>6, <3>1, <3>2
  <2>3. QED
    BY <1>11, <2>1, <2>2 DEF PostRaises
<1>12. QED
  BY <1>8, <1>9, <1>10, <1>11 DEF Receive

\* An execution that was started is one the house knows.
LEMMA StartedIsKnown ==
  ASSUME WInv, NEW f \in Exec, Begun(f)
  PROVE  Known(f)
<1>1. f[1] \in Job /\ f[2] \in Attempt /\ ByWorkers
  BY Here, ExecParts
<1>2. QED
  BY <1>1 DEF ByWorkers, Begun, Known

\* The execution f says something to the house, which nobody may hear.
LEMMA Sent ==
  ASSUME NEW f, NEW o, Unanswered(o, f), NEW e, NEW p, Wire(p, e)'
  PROVE  Wire(p, e) \/ (e = f /\ p = o)
BY WireAdds DEF Unanswered

\* The record is written before anything is said of it.
LEMMA HoldsStands ==
  ASSUME WInv, NEW f \in Exec, ExecutorHolds(f)
  PROVE  EInv'
<1>0. /\ task \in [Exec -> TaskRow] /\ task[f] \in TaskRow /\ Stands(f) /\ Truthful(f)
      /\ record \in [Exec -> Record]
  BY Here
<1> DEFINE t == [task[f] EXCEPT !.at = "held", !.says = "review"]
<1>1. /\ task' = [task EXCEPT ![f] = t] /\ record' = [record EXCEPT ![f] = "kept"]
      /\ UNCHANGED <<vars, pc, offer, inFlight, ran, sweep, complete, published, wire>>
      /\ task[f].at = "run"
  BY <1>0 DEF ExecutorHolds, poller_vars, net_vars
<1>2. t.at = "held" /\ t.says = "review"
  BY <1>0 DEF TaskRow
<1> HIDE DEF t
<1>3. task'[f] = t /\ record'[f] = "kept" /\ "held" \in Working
  BY <1>0, <1>1 DEF Working, Executor
<1>4. \A e \in Exec : Quiet(e)
  BY <1>1, UnchangedQuiet
<1>5. \A e \in Exec \ {f} : Same(e)
  BY <1>0, <1>1 DEF Same, Wire
<1>6. \A p : Wire(p, f)' <=> Wire(p, f)
  BY <1>1 DEF Wire
<1>7. Begun(f) /\ Quiet(f) /\ Known(f)
  BY <1>0, <1>1, <1>4, StartedIsKnown DEF Stands
<1>8. Stands(f)'
  BY <1>0, <1>1, <1>2, <1>3, <1>6, <1>7 DEF Stands, Quiet, Settled
<1>9. Truthful(f)'
  BY <1>0, <1>1, <1>2, <1>3, <1>6, <1>7 DEF Truthful, Quiet, Settled, Accounted, Forsaken, OnDisk
<1>10. QED
  BY <1>4, <1>5, <1>8, <1>9, Focus

\* A complete is heard, refused, or lost: what it says was so before.
LEMMA PostStands ==
  ASSUME WInv, NEW f \in Exec, PostComplete(f)
  PROVE  EInv'
<1>0. /\ task \in [Exec -> TaskRow] /\ task[f] \in TaskRow /\ Stands(f) /\ Truthful(f) /\ IInv
  BY Here
<1>1. /\ task[f].at \in {"send", "resend"}
      /\ UNCHANGED <<pc, offer, inFlight, ran, record, sweep, complete, published>>
  BY DEF PostComplete, Posting, poller_vars, held_vars
<1>2. /\ Begun(f) /\ Known(f) /\ task[f].says \in {"succeeded", "failed", "review"}
  BY <1>0, <1>1, StartedIsKnown DEF Stands, TaskRow, Posting
<1>3. Working = {"run", "held", "done", "ok", "again", "drop", "send", "resend", "wait"}
  BY DEF Working, Executor, Mail, Posting
<1> DEFINE t(x) == [task[f] EXCEPT !.at = x]
<1>4. \A x \in {"ok", "drop", "again"} :
        t(x) \in TaskRow /\ t(x).at = x /\ t(x).says = task[f].says /\ x \in Working
  BY <1>0, <1>3 DEF TaskRow
<1>5. \A x : Becomes(f, x) => task' = [task EXCEPT ![f] = t(x)]
  BY <1>0 DEF Becomes
<1> HIDE DEF t
<1>6. CASE Completed(f, task[f].says) /\ Becomes(f, "ok") /\ wire' = wire
  <2>1. task' = [task EXCEPT ![f] = t("ok")] /\ task'[f] = t("ok")
    BY <1>0, <1>5, <1>6
  <2>2. \A e \in Exec \ {f} : Same(e) /\ Quiet(e)
    <3>1. \A e \in Exec \ {f} : Same(e)
      BY <1>0, <1>1, <1>6, <2>1 DEF Same, Wire
    <3>2. \A e \in Exec \ {f} : Quiet(e)
      BY <1>0, <1>2, <1>6, CompletedQuiet DEF Quiet
    <3>3. QED
      BY <3>1, <3>2
  <2>3. /\ Settled(f) /\ Begun(f)'
        /\ InReview(f)' => InReview(f) \/ task[f].says = "review"
        /\ Won(f)' => Won(f) \/ task[f].says = "succeeded"
    BY <1>0, <1>2, <1>6, CompletedQuiet
  <2>4. \A p : Wire(p, f)' <=> Wire(p, f)
    BY <1>6 DEF Wire
  <2>5. Stands(f)'
    BY <1>0, <1>1, <1>2, <1>4, <2>1, <2>3, <2>4 DEF Stands, Settled
  <2>6. Truthful(f)'
    BY <1>0, <1>1, <1>2, <1>4, <2>1, <2>3, <2>4 DEF Truthful, Settled, Accounted, Forsaken, OnDisk
  <2>7. QED
    BY <2>2, <2>5, <2>6, Focus
<1>7. CASE Becomes(f, "drop") /\ UNCHANGED <<vars, wire>>
  <2>1. task' = [task EXCEPT ![f] = t("drop")]
    BY <1>5, <1>7
  <2>2. task[f].says = "succeeded" => f \in ran
    BY <1>0 DEF Truthful
  <2>3. QED
    BY <1>1, <1>2, <1>4, <1>7, <2>1, <2>2, OneTask DEF held_vars
<1>8. CASE Unanswered(task[f].says, f) /\ Becomes(f, "again") /\ UNCHANGED vars
  <2>1. task' = [task EXCEPT ![f] = t("again")] /\ task'[f] = t("again")
    BY <1>0, <1>5, <1>8
  <2>2. \A e \in Exec : Quiet(e)
    BY <1>8, UnchangedQuiet
  <2>3. \A e : \A p : Wire(p, e)' => Wire(p, e) \/ (e = f /\ p = task[f].says)
    BY <1>8, Sent
  <2>4. \A e \in Exec \ {f} : Same(e)
    BY <1>0, <1>1, <2>1, <2>3 DEF Same
  <2>5. Quiet(f)
    BY <2>2
  <2>6. Stands(f)'
    BY <1>0, <1>1, <1>2, <1>4, <2>1, <2>3, <2>5 DEF Stands, Quiet, Settled
  <2>7. Truthful(f)'
    BY <1>0, <1>1, <1>2, <1>4, <2>1, <2>3, <2>5 DEF Truthful, Quiet, Settled, Accounted, Forsaken, OnDisk
  <2>8. QED
    BY <2>2, <2>4, <2>6, <2>7, Focus
<1>9. QED
  BY <1>6, <1>7, <1>8 DEF PostComplete, TurnedAway, net_vars

-----------------------------------------------------------------------------
(* Where an execution stands: its held output *)

\* An attempt that ended, or that the house took back, keeps no token of it.
LEMMA EndedIsLost ==
  ASSUME IInv, NEW f \in Exec, Known(f), AttemptOf(f).status \notin Active \union {"review"}
  PROVE  Lost(f)
BY ExecRow DEF Good, Lost

\* The house has been told the outcome.
LEMMA CompletedEnds ==
  ASSUME IInv, NEW f \in Exec, NEW s \in {"succeeded", "failed"}, Completed(f, s), Known(f)
  PROVE  Lost(f)'
<1>0. /\ AttemptOf(f) \in AttRow /\ f[1] \in Job /\ f[2] \in Attempt /\ f[3] # NoToken
      /\ att \in [Job -> [Attempt -> AttRow]]
  BY ExecRow
<1>1. CASE UNCHANGED vars /\ AttemptOf(f).status \in Terminal
  <2>1. Lost(f)
    BY <1>1, EndedIsLost DEF Active, Terminal
  <2>2. QED
    BY <1>1, <2>1 DEF vars, Lost, Known, AttemptOf
<1>2. ASSUME NEW h, CompleteLocked(h, f[1], f[2], s, "call", f[3]) PROVE Lost(f)'
  <2>1. att'[f[1]] = [att[f[1]] EXCEPT ![f[2]] = Ended(@, s)] /\ claims' = claims
    BY <1>0, <1>2 DEF CompleteLocked
  <2>2. AttemptOf(f)' = Ended(AttemptOf(f), s)
    BY <1>0, <2>1 DEF AttemptOf
  <2>3. Ended(AttemptOf(f), s).token = NoToken
    BY <1>0, EndedType DEF Status, Terminal
  <2>4. QED
    BY <1>0, <2>1, <2>2, <2>3 DEF Lost, Known
<1>3. QED
  BY <1>1, <1>2 DEF Completed, Complete

\* What the sweeper is told is so.
LEMMA AskStands ==
  ASSUME WInv, NEW f \in Exec, Ask(f)
  PROVE  EInv'
<1>0. /\ sweep \in [Exec -> {"idle", "publish", "write", "cancel", "refused"}]
      /\ Stands(f) /\ Truthful(f) /\ IInv
  BY Here
<1>1. /\ UNCHANGED <<vars, pc, offer, inFlight, task, ran, record, complete, published, wire>>
      /\ record[f] = "kept"
  BY DEF Ask, TurnedAway, poller_vars, task_vars, net_vars
<1>2. PICK r : /\ sweep' = [sweep EXCEPT ![f] = r]
               /\ r = "refused" \/ (r = Command(f) /\ r # "ok")
  BY DEF Ask, Sweeps
<1>3. \A e \in Exec : Quiet(e)
  BY <1>1, UnchangedQuiet
<1>4. \A e \in Exec \ {f} : Same(e)
  BY <1>0, <1>1, <1>2 DEF Same, Wire
<1>5. sweep'[f] = r /\ \A p : Wire(p, f)' <=> Wire(p, f)
  BY <1>0, <1>1, <1>2 DEF Wire
<1>6. Known(f) /\ Quiet(f)
  BY <1>0, <1>1, <1>3 DEF Stands
<1>7. \/ r = "refused"
      \/ r = "cancel" /\ Lost(f)
      \/ r = "publish" /\ Decided(f)
  <2>1. CASE r = Command(f) /\ (AttemptOf(f).token # f[3] \/ AttemptOf(f).status \notin Active \union {"review"})
    BY <1>0, <1>6, <2>1, EndedIsLost DEF Command, Lost
  <2>2. CASE r = Command(f) /\ AttemptOf(f).token = f[3] /\ AttemptOf(f).status \in Active \union {"review"}
    BY <1>2, <2>2 DEF Command, Decided, InReview
  <2>3. QED
    BY <1>2, <2>1, <2>2
<1>8. Stands(f)'
  BY <1>0, <1>1, <1>5, <1>6 DEF Stands, Quiet, Settled
<1>9. Truthful(f)'
  BY <1>0, <1>1, <1>5, <1>6, <1>7 DEF Truthful, Quiet, Settled, Accounted, Forsaken, OnDisk
<1>10. QED
  BY <1>3, <1>4, <1>8, <1>9, Focus

\* What is published was approved, and the complete says what became of it.
LEMMA PublishStands ==
  ASSUME WInv, NEW f \in Exec, Publish(f)
  PROVE  EInv'
<1>0. /\ sweep \in [Exec -> {"idle", "publish", "write", "cancel", "refused"}]
      /\ complete \in [Exec -> {"none", "succeeded", "failed"}]
      /\ Stands(f) /\ Truthful(f)
  BY Here
<1>1. /\ UNCHANGED <<vars, pc, offer, inFlight, task, ran, record, wire>>
      /\ sweep' = [sweep EXCEPT ![f] = "write"] /\ sweep[f] = "publish"
  BY DEF Publish, Sweeps, NoHeldChange, poller_vars, task_vars, net_vars
<1>2. PICK r \in {"succeeded", "failed"} :
        /\ complete' = [complete EXCEPT ![f] = r]
        /\ published' = IF r = "succeeded" THEN published \union {f} ELSE published
  BY DEF Publish
<1>3. sweep'[f] = "write" /\ complete'[f] = r
  BY <1>0, <1>1, <1>2
<1>4. \A e \in Exec : Quiet(e)
  BY <1>1, UnchangedQuiet
<1>5. \A e \in Exec \ {f} : Same(e)
  BY <1>0, <1>1, <1>2 DEF Same, Wire
<1>6. \A p : Wire(p, f)' <=> Wire(p, f)
  BY <1>1 DEF Wire
<1>7. Quiet(f)
  BY <1>4
<1>8. Stands(f)'
  BY <1>0, <1>1, <1>3, <1>6, <1>7 DEF Stands, Quiet, Settled
<1>9. Truthful(f)'
  BY <1>0, <1>1, <1>2, <1>3, <1>6, <1>7 DEF Truthful, Quiet, Settled, Accounted, Forsaken, OnDisk
<1>10. QED
  BY <1>4, <1>5, <1>8, <1>9, Focus

\* The complete goes to disk, or is made again.
LEMMA WriteStands ==
  ASSUME WInv, NEW f \in Exec, WriteComplete(f)
  PROVE  EInv'
<1>0. /\ sweep \in [Exec -> {"idle", "publish", "write", "cancel", "refused"}]
      /\ record \in [Exec -> Record]
      /\ Stands(f) /\ Truthful(f)
  BY Here
<1>1. /\ UNCHANGED <<vars, pc, offer, inFlight, task, ran, complete, published, wire>>
      /\ sweep' = [sweep EXCEPT ![f] = "idle"] /\ sweep[f] = "write" /\ sweep'[f] = "idle"
  BY <1>0 DEF WriteComplete, Sweeps, NoHeldChange, poller_vars, task_vars, net_vars
<1>2. record' = [record EXCEPT ![f] = "complete"] \/ record' = record
  BY DEF WriteComplete, Recorded
<1>3. record'[f] \in {record[f], "complete"}
  BY <1>0, <1>2
<1>4. \A e \in Exec : Quiet(e)
  BY <1>1, UnchangedQuiet
<1>5. \A e \in Exec \ {f} : Same(e)
  BY <1>0, <1>1, <1>2 DEF Same, Wire
<1>6. \A p : Wire(p, f)' <=> Wire(p, f)
  BY <1>1 DEF Wire
<1>7. Quiet(f)
  BY <1>4
<1>8. Stands(f)'
  BY <1>0, <1>1, <1>3, <1>6, <1>7 DEF Stands, Quiet, Settled
<1>9. Truthful(f)'
  BY <1>0, <1>1, <1>3, <1>6, <1>7 DEF Truthful, Quiet, Settled, Accounted, Forsaken, OnDisk
<1>10. QED
  BY <1>4, <1>5, <1>8, <1>9, Focus

\* A record goes when the house no longer waits for its output; or because the
\* manager turned the worker away; or on the worker's clock, past every deadline.
LEMMA GoneStands ==
  ASSUME WInv, NEW f \in Exec, Discard(f) \/ RecordExpires(f)
  PROVE  EInv'
<1>0. /\ sweep \in [Exec -> {"idle", "publish", "write", "cancel", "refused"}]
      /\ record \in [Exec -> Record]
      /\ Stands(f) /\ Truthful(f) /\ IInv
  BY Here
<1>1. /\ UNCHANGED <<vars, pc, offer, inFlight, task, ran, complete, published, wire>>
      /\ sweep' = sweep \/ sweep' = [sweep EXCEPT ![f] = "idle"]
  BY DEF Discard, RecordExpires, Sweeps, NoHeldChange, poller_vars, task_vars, net_vars
<1>2. sweep'[f] = "idle"
  BY <1>0, <1>1 DEF Discard, RecordExpires, Sweeps
<1>3. Known(f)
  BY <1>0 DEF Discard, RecordExpires, Stands
<1>4. PICK r : /\ record' = [record EXCEPT ![f] = r]
               /\ \/ r = "gone" /\ Lost(f)
                  \/ r = "refused"
                  \/ r = "expired" /\ Spent(f)
  BY <1>0, <1>3 DEF Discard, RecordExpires, Recorded, Truthful, Spent
<1>5. record'[f] = r
  BY <1>0, <1>4
<1>6. \A e \in Exec : Quiet(e)
  BY <1>1, UnchangedQuiet
<1>7. \A e \in Exec \ {f} : Same(e)
  BY <1>0, <1>1, <1>4 DEF Same, Wire
<1>8. \A p : Wire(p, f)' <=> Wire(p, f)
  BY <1>1 DEF Wire
<1>9. Quiet(f)
  BY <1>6
<1>10. Stands(f)'
  BY <1>0, <1>1, <1>2, <1>3, <1>8, <1>9 DEF Stands, Quiet, Settled
<1>11. Truthful(f)'
  <2>1. Accounted(f)' /\ record'[f] # "complete"
    BY <1>4, <1>5, <1>9 DEF Accounted, Forsaken, Quiet, Settled
  <2>2. QED
    BY <1>0, <1>1, <1>2, <1>8, <1>9, <2>1 DEF Truthful, Quiet, Settled
<1>12. QED
  BY <1>6, <1>7, <1>10, <1>11, Focus

\* The complete on disk is delivered: the record goes when the house has it.
LEMMA DeliverStands ==
  ASSUME WInv, NEW f \in Exec, Deliver(f)
  PROVE  EInv'
<1>0. /\ record \in [Exec -> Record]
      /\ complete \in [Exec -> {"none", "succeeded", "failed"}]
      /\ Stands(f) /\ Truthful(f) /\ IInv
  BY Here
<1>1. /\ UNCHANGED <<pc, offer, inFlight, task, ran, sweep, complete, published>>
      /\ record[f] = "complete" /\ sweep[f] = "idle"
  BY DEF Deliver, poller_vars, task_vars
<1>2. Known(f) /\ complete[f] \in {"succeeded", "failed"}
  BY <1>0, <1>1 DEF Stands, Truthful
<1>3. CASE Completed(f, complete[f]) /\ Recorded(f, "gone") /\ wire' = wire
  <2>1. record' = [record EXCEPT ![f] = "gone"] /\ record'[f] = "gone"
    BY <1>0, <1>3 DEF Recorded
  <2>2. \A e \in Exec \ {f} : Same(e)
    BY <1>0, <1>1, <1>3, <2>1 DEF Same, Wire
  <2>3. \A e \in Exec \ {f} : Quiet(e)
    BY <1>0, <1>2, <1>3, CompletedQuiet DEF Quiet
  <2>4. /\ Settled(f) /\ (Begun(f) => Begun(f)')
        /\ Won(f)' => Won(f) \/ complete[f] = "succeeded"
    BY <1>0, <1>2, <1>3, CompletedQuiet
  <2>5. Lost(f)'
    BY <1>0, <1>2, <1>3, CompletedEnds
  <2>6. \A p : Wire(p, f)' <=> Wire(p, f)
    BY <1>3 DEF Wire
  <2>7. Stands(f)'
    BY <1>0, <1>1, <1>2, <2>1, <2>4, <2>6 DEF Stands, Settled
  <2>8. Truthful(f)'
    BY <1>0, <1>1, <1>2, <2>1, <2>4, <2>5, <2>6 DEF Truthful, Settled, Accounted
  <2>9. QED
    BY <2>2, <2>3, <2>7, <2>8, Focus
<1>4. CASE Unanswered(complete[f], f) /\ UNCHANGED <<vars, record>>
  <2>1. \A e \in Exec : Quiet(e)
    BY <1>4, UnchangedQuiet
  <2>2. \A e : \A p : Wire(p, e)' => Wire(p, e) \/ (e = f /\ p = complete[f])
    BY <1>4, Sent
  <2>3. \A e \in Exec \ {f} : Same(e)
    BY <1>1, <1>4, <2>2 DEF Same
  <2>4. Quiet(f)
    BY <2>1
  <2>5. Stands(f)'
    BY <1>0, <1>1, <1>2, <1>4, <2>2, <2>4 DEF Stands, Quiet, Settled
  <2>6. Truthful(f)'
    BY <1>0, <1>1, <1>2, <1>4, <2>2, <2>4 DEF Truthful, Quiet, Settled, Accounted, Forsaken, OnDisk
  <2>7. QED
    BY <2>1, <2>3, <2>5, <2>6, Focus
<1>5. CASE TurnedAway /\ Recorded(f, "refused")
  <2>1. /\ record' = [record EXCEPT ![f] = "refused"] /\ record'[f] = "refused"
        /\ UNCHANGED <<vars, wire>>
    BY <1>0, <1>5 DEF Recorded, TurnedAway
  <2>2. \A e \in Exec : Quiet(e)
    BY <2>1, UnchangedQuiet
  <2>3. \A e \in Exec \ {f} : Same(e)
    BY <1>0, <1>1, <2>1 DEF Same, Wire
  <2>4. Quiet(f) /\ \A p : Wire(p, f)' <=> Wire(p, f)
    BY <2>1, <2>2 DEF Wire
  <2>5. Stands(f)'
    BY <1>0, <1>1, <1>2, <2>1, <2>4 DEF Stands, Quiet, Settled
  <2>6. Truthful(f)'
    BY <1>0, <1>1, <1>2, <2>1, <2>4 DEF Truthful, Quiet, Settled, Accounted, Forsaken
  <2>7. QED
    BY <2>2, <2>3, <2>5, <2>6, Focus
<1>6. ~Refuses(f, complete[f])
  BY <1>0, <1>1, <1>2 DEF Refuses, Truthful, Decided, InReview, AttemptOf, MayComplete
<1>7. QED
  BY <1>3, <1>4, <1>5, <1>6 DEF Deliver, net_vars

-----------------------------------------------------------------------------
(* Where an execution stands: the wire and the poller *)

\* A step that changes nothing of any execution but the house's part.
LEMMA NodeFrame ==
  ASSUME UNCHANGED <<task_vars, held_vars, inFlight>>, wire' \subseteq wire,
         \A e \in Exec : offer' = e => offer = e /\ (pc' = "accept" => pc = "accept")
  PROVE  \A e \in Exec : Same(e)
BY DEF Same, Wire, task_vars, held_vars

\* A request that arrives late finds the execution where its sender left it.
LEMMA ArrivesStands ==
  ASSUME WInv, NEW m \in wire, Arrives(m)
  PROVE  EInv'
<1> DEFINE f == m.e
<1>0. /\ IInv /\ m \in Request /\ f \in Exec
      /\ m.op \in {"beat", "reject", "succeeded", "failed", "review"}
  BY DEF WInv, WTypeOK, Request
<1>1. Wire(m.op, f) /\ Stands(f) /\ Truthful(f)
  <2>1. m = [op |-> m.op, e |-> m.e]
    BY <1>0 DEF Request
  <2>2. QED
    BY <1>0, <2>1, Here DEF Wire
<1>2. \A e \in Exec : Same(e)
  BY NodeFrame DEF Arrives, poller_vars
<1>3. CASE m.op = "beat" /\ Renewed(f)
  BY <1>0, <1>2, <1>3, RenewedQuiet, Frame
<1>4. CASE m.op = "reject" /\ Rejected(f)
  <2>1. ASSUME NEW e \in Exec PROVE Stands(e)' /\ Truthful(e)'
    <3>1. /\ Settled(e) /\ (InReview(e)' => InReview(e)) /\ (Won(e)' => Won(e))
          /\ e # f => Quiet(e)
      BY <1>0, <1>4, RejectedQuiet
    <3>2. e = f => task[e].at = "none"
      BY <1>1, <1>4 DEF Stands
    <3>3. Begun(e) /\ ~(task[e].at = "none") => Begun(e)'
      BY <3>1, <3>2 DEF Quiet
    <3>4. Stands(e) /\ Truthful(e) /\ Same(e)
      BY <1>2, Here
    <3>5. Stands(e)'
      BY <3>1, <3>3, <3>4, SameStands
    <3>6. Truthful(e)'
      BY <3>1, <3>4, SameTruthful DEF Truthful
    <3>7. QED
      BY <3>5, <3>6
  <2>2. QED
    BY <2>1 DEF EInv
<1>5. CASE m.op \notin {"beat", "reject"} /\ Completed(f, m.op)
  <2>1. ASSUME NEW e \in Exec PROVE Stands(e)' /\ Truthful(e)'
    <3>1. /\ Settled(e) /\ (Begun(e) => Begun(e)')
          /\ InReview(e)' => InReview(e) \/ (e = f /\ m.op = "review")
          /\ Won(e)' => Won(e) \/ (e = f /\ m.op = "succeeded")
      BY <1>0, <1>5, CompletedQuiet
    <3>2. Stands(e) /\ Truthful(e) /\ Same(e)
      BY <1>2, Here
    <3>3. InReview(e)' => InReview(e) \/ Accounted(e)
      BY <1>1, <3>1 DEF Truthful
    <3>4. Won(e)' => Won(e) \/ e \in ran \union published
      BY <1>1, <3>1 DEF Truthful
    <3>5. Stands(e)'
      BY <3>1, <3>2, SameStands
    <3>6. Truthful(e)'
      BY <3>1, <3>2, <3>3, <3>4, SameTruthful
    <3>7. QED
      BY <3>5, <3>6
  <2>2. QED
    BY <2>1 DEF EInv
<1>6. QED
  BY <1>3, <1>4, <1>5 DEF Arrives

\* A poll whose answer is lost is about an execution the node never hears of.
LEMMA LostPollStands ==
  ASSUME WInv, NEW j \in Job, LostPoll(j)
  PROVE  EInv'
<1>1. \A e \in Exec : Same(e)
  BY NodeFrame DEF LostPoll, poller_vars
<1>2. IInv /\ ByWorkers
  BY DEF WInv
<1>3. QED
  BY <1>1, <1>2, PollQuiet, Frame DEF LostPoll

\* The start of a tick.
LEMMA TickStands ==
  ASSUME WInv, Tick
  PROVE  EInv'
<1>1. pc' # "accept" /\ UNCHANGED <<vars, offer, task_vars, held_vars, wire, inFlight>>
  BY DEF Tick, Poller, ThenPoll, net_vars
<1>2. \A e \in Exec : Same(e)
  BY <1>1, NodeFrame
<1>3. QED
  BY <1>1, <1>2, UnchangedQuiet, Frame

\* A heartbeat, heard or not, and the cancellation it may bring.
LEMMA BeatStands ==
  ASSUME WInv, NEW f \in Exec, Beat(f)
  PROVE  EInv'
<1>0. /\ task \in [Exec -> TaskRow] /\ task[f] \in TaskRow /\ Stands(f) /\ Truthful(f) /\ IInv
      /\ f \in inFlight
  BY Here DEF Beat, Books
<1>1. pc' # "accept" /\ UNCHANGED <<offer, held_vars>>
  BY DEF Beat, Poller, ThenPoll
<1>2. task[f].at # "none" /\ Begun(f) /\ Known(f)
  BY <1>0, StartedIsKnown DEF Stands, Working, Executor, Mail, Posting
<1>3. CASE Cancelled(f)
  <2>1. UNCHANGED <<vars, ran, wire>> /\ inFlight' = Without(f)
    BY <1>3 DEF Cancelled, net_vars
  <2>2. inFlight' \subseteq inFlight /\ f \notin inFlight'
    BY <2>1 DEF Without, SameAttempt
  <2>3. /\ task[f].says = "succeeded" => f \in ran
        /\ task[f].at \in Mail \union Posting \union {"wait", "held"} => task[f].says # "none"
    BY <1>0 DEF Stands, Truthful
  <2>4. CASE task[f].at \in Executor
    <3>1. task' = [task EXCEPT ![f] = Over]
      BY <1>0, <1>3, <2>4 DEF Cancelled
    <3>2. QED
      BY <1>1, <1>2, <2>1, <2>2, <3>1, OneTask, TaskRows DEF Mail, Posting
  <2>5. CASE task[f].at \notin Executor
    <3>1. task' = [task EXCEPT ![f] = task[f]]
      BY <1>0, <1>3, <2>5 DEF Cancelled
    <3>2. QED
      BY <1>0, <1>1, <1>2, <2>1, <2>2, <2>3, <3>1, OneTask
  <2>6. QED
    BY <2>4, <2>5
<1>4. CASE Renewed(f) /\ UNCHANGED <<net_vars, inFlight, task_vars>>
  <2>1. \A e \in Exec : Same(e)
    BY <1>1, <1>4, NodeFrame DEF net_vars
  <2>2. QED
    BY <1>0, <1>4, <2>1, RenewedQuiet, Frame
<1>5. CASE UNCHANGED <<vars, net_vars, inFlight, task_vars>>
  <2>1. \A e \in Exec : Same(e)
    BY <1>1, <1>5, NodeFrame DEF net_vars
  <2>2. QED
    BY <1>5, <2>1, UnchangedQuiet, Frame
<1>6. CASE Unanswered("beat", f) /\ UNCHANGED <<vars, inFlight, task_vars>>
  <2>1. \A e \in Exec : Quiet(e)
    BY <1>6, UnchangedQuiet
  <2>2. \A e : \A p : Wire(p, e)' => Wire(p, e) \/ (e = f /\ p = "beat")
    BY <1>6, Sent
  <2>3. UNCHANGED <<task, ran, record, sweep, complete, published, inFlight, offer>>
    BY <1>1, <1>6 DEF task_vars, held_vars
  <2>4. \A e \in Exec \ {f} : Same(e)
    BY <1>1, <2>2, <2>3 DEF Same
  <2>5. Quiet(f)
    BY <2>1
  <2>6. Stands(f)'
    BY <1>0, <1>1, <1>2, <2>2, <2>3, <2>5 DEF Stands, Quiet, Settled
  <2>7. Truthful(f)'
    BY <1>0, <2>2, <2>3, <2>5 DEF Truthful, Quiet, Settled, Accounted, Forsaken, OnDisk
  <2>8. QED
    BY <2>1, <2>4, <2>6, <2>7, Focus
<1>7. QED
  BY <1>3, <1>4, <1>5, <1>6 DEF Beat

\* What the poll offers is an execution that nobody knew.
LEMMA PollStands ==
  ASSUME WInv, Poll
  PROVE  EInv'
<1>0. IInv /\ ByWorkers
  BY DEF WInv
<1>1. UNCHANGED <<inFlight, task_vars, held_vars, wire>>
  BY DEF Poll, net_vars
<1>2. CASE pc' = "ready" /\ UNCHANGED <<vars, offer>>
  <2>1. \A e \in Exec : Same(e)
    BY <1>1, <1>2, NodeFrame
  <2>2. QED
    BY <1>2, <2>1, UnchangedQuiet, Frame
<1>3. ASSUME NEW h \in Gate, NEW w \in Worker, NEW j \in Job, ClaimNext(h, w, j),
             offer' = <<j, job[j].cur, claims'[j]>>
      PROVE  EInv'
  <2> DEFINE n == job[j].cur
             k == claims'[j]
  <2>1. /\ job[j].cur \in Attempt /\ claims[j] \in 0..MaxClaim /\ claims[j] < MaxClaim
        /\ claims'[j] = claims[j] + 1 /\ MaxClaim \in Nat
    BY <1>0, <1>3, RowTypes, JobsAssumption DEF IInv, TypeOK, ClaimNext, Claim, JobsAssumption
  <2>a. <<j, n, k>> \in Exec /\ k = claims[j] + 1
    BY <2>1 DEF Exec, Token
  <2> HIDE DEF n, k
  <2>2. PICK f \in Exec : f = <<j, n, k>>
    BY <2>a
  <2>3. /\ ~Known(f) /\ Known(f)'
        /\ offer' = f
    BY <1>3, <2>1, <2>a, <2>2 DEF Known, n, k
  <2>4. \A e \in Exec : Quiet(e)
    BY <1>0, <1>3, PollQuiet
  <2>5. UNCHANGED <<task, ran, record, sweep, complete, published, inFlight, wire>>
    BY <1>1 DEF task_vars, held_vars
  <2>6. \A e \in Exec \ {f} : Same(e)
    BY <2>3, <2>5 DEF Same, Wire
  <2>7. \A p : Wire(p, f)' <=> Wire(p, f)
    BY <1>1 DEF Wire
  <2>8. Stands(f) /\ Truthful(f) /\ Quiet(f)
    BY <2>2, <2>4, Here
  <2>9. /\ task[f].at = "none" /\ record[f] = "none" /\ sweep[f] = "idle" /\ f \notin inFlight
        /\ \A p \in {"beat", "reject", "succeeded", "failed", "review"} : ~Wire(p, f)
    <3>1. task[f].at = "none"
      BY <2>2, <2>3, <2>8, StartedIsKnown DEF Stands
    <3>2. "none" \notin Working
      BY DEF Working, Executor, Mail, Posting
    <3>3. QED
      BY <2>3, <2>8, <3>1, <3>2 DEF Stands
  <2>10. Stands(f)'
    BY <2>3, <2>5, <2>7, <2>8, <2>9 DEF Stands, Quiet, Settled, Mail, Posting
  <2>11. Truthful(f)'
    BY <2>5, <2>7, <2>8 DEF Truthful, Quiet, Settled, Accounted, Forsaken, OnDisk
  <2>12. QED
    BY <2>2, <2>4, <2>6, <2>10, <2>11, Focus
<1>4. QED
  BY <1>2, <1>3 DEF Poll, Poller

\* The offer in hand is an execution.
LEMMA OfferIs ==
  ASSUME WInv, pc \in {"accept", "reject"}
  PROVE  offer \in Exec /\ NoOffer \notin Exec
BY WorkerAssumption DEF WInv, WTypeOK, Books, Exec, WorkerAssumption

\* An execution starts when its lease was renewed: it is then the last claim of an
\* active attempt.
LEMMA AcceptStands ==
  ASSUME WInv, Accept
  PROVE  EInv'
<1>o. PICK f \in Exec : f = offer
  BY OfferIs DEF Accept
<1>0. /\ f \in Exec /\ NoOffer \notin Exec /\ pc = "accept"
  BY <1>o, OfferIs DEF Accept
<1>1. /\ task \in [Exec -> TaskRow] /\ task[f] \in TaskRow /\ Stands(f) /\ Truthful(f) /\ IInv
  BY <1>o, <1>0, Here
<1>2. UNCHANGED <<ran, record, sweep, complete, published>> /\ pc' # "accept"
  BY DEF Accept, held_vars, Poller
<1>3. task[f].at = "none" /\ Known(f) /\ ~Wire("reject", f)
  BY <1>o, <1>0, <1>1 DEF Stands
<1>4. CASE /\ Renewed(f) /\ task' = [task EXCEPT ![f].at = "run"]
           /\ inFlight' = Without(f) \union {f} /\ offer' = NoOffer /\ UNCHANGED net_vars
  <2> DEFINE t == [task[f] EXCEPT !.at = "run"]
  <2>1. task' = [task EXCEPT ![f] = t] /\ task'[f] = t
    BY <1>o, <1>1, <1>4
  <2>2. t.at = "run" /\ t.says = task[f].says
    BY <1>o, <1>1 DEF TaskRow
  <2> HIDE DEF t
  <2>3. \A e \in Exec : Quiet(e)
    BY <1>o, <1>0, <1>1, <1>4, RenewedQuiet
  <2>4. \A p : \A e : Wire(p, e)' <=> Wire(p, e)
    BY <1>4 DEF Wire, net_vars
  <2>5. \A e \in Exec \ {f} : Same(e)
    BY <1>o, <1>0, <1>1, <1>2, <1>4, <2>1, <2>4 DEF Same, Without
  <2>6. Begun(f)
    BY <1>o, <1>0, <1>1, <1>4, ExecRow DEF Renewed, Heartbeat, HoldsLease, Begun, Good, AttemptOf
  <2>7. Quiet(f)
    BY <1>o, <1>0, <2>3
  <2>8. "run" \in Working /\ "run" \notin Mail \union Posting \union {"wait", "held"}
    BY DEF Working, Executor, Mail, Posting
  <2>9. Stands(f)'
    BY <1>o, <1>0, <1>1, <1>2, <1>3, <1>4, <2>1, <2>2, <2>4, <2>6, <2>7, <2>8
       DEF Stands, Quiet, Settled
  <2>10. Truthful(f)'
    BY <1>o, <1>1, <1>2, <2>1, <2>2, <2>4, <2>7 DEF Truthful, Quiet, Settled, Accounted, Forsaken, OnDisk
  <2>11. QED
    BY <1>o, <1>0, <2>3, <2>5, <2>9, <2>10, Focus
<1>5. CASE offer' \in {NoOffer, offer} /\ UNCHANGED <<vars, inFlight, task, net_vars>>
  <2>1. \A e \in Exec : Same(e)
    BY <1>o, <1>0, <1>2, <1>5, NodeFrame DEF task_vars, held_vars, net_vars
  <2>2. QED
    BY <1>5, <2>1, UnchangedQuiet, Frame
<1>6. CASE Unanswered("beat", f) /\ UNCHANGED <<offer, vars, inFlight, task>>
  <2>1. \A e \in Exec : Quiet(e)
    BY <1>6, UnchangedQuiet
  <2>2. \A e : \A p : Wire(p, e)' => Wire(p, e) \/ (e = f /\ p = "beat")
    BY <1>6, Sent
  <2>3. \A e \in Exec \ {f} : Same(e)
    BY <1>o, <1>2, <1>6, <2>2 DEF Same
  <2>4. Quiet(f)
    BY <1>o, <1>0, <2>1
  <2>5. Stands(f)'
    BY <1>o, <1>1, <1>2, <1>3, <1>6, <2>2, <2>4 DEF Stands, Quiet, Settled
  <2>6. Truthful(f)'
    BY <1>o, <1>1, <1>2, <1>6, <2>2, <2>4 DEF Truthful, Quiet, Settled, Accounted, Forsaken, OnDisk
  <2>7. QED
    BY <1>o, <1>0, <2>1, <2>3, <2>5, <2>6, Focus
<1>7. QED
  BY <1>o, <1>4, <1>5, <1>6 DEF Accept

\* An offer that is rejected was not started.
LEMMA RejectStands ==
  ASSUME WInv, RejectOffer
  PROVE  EInv'
<1>o. PICK f \in Exec : f = offer
  BY OfferIs DEF RejectOffer
<1>0. f \in Exec /\ NoOffer \notin Exec
  BY <1>o, OfferIs DEF RejectOffer
<1>1. Stands(f) /\ Truthful(f) /\ IInv
  BY <1>o, <1>0, Here
<1>2. /\ UNCHANGED <<inFlight, task_vars, held_vars>> /\ offer' = NoOffer /\ pc' = "ready"
  BY DEF RejectOffer, Poller
<1>3. task[f].at = "none" /\ Known(f)
  BY <1>o, <1>0, <1>1 DEF Stands
<1>4. CASE Rejected(f) /\ wire' = wire
  <2>1. \A e \in Exec : Same(e)
    BY <1>o, <1>0, <1>2, <1>4, NodeFrame
  <2>2. ASSUME NEW e \in Exec PROVE Stands(e)' /\ Truthful(e)'
    <3>1. /\ Settled(e) /\ (InReview(e)' => InReview(e)) /\ (Won(e)' => Won(e))
          /\ e # f => Quiet(e)
      BY <1>o, <1>0, <1>1, <1>4, RejectedQuiet
    <3>2. Begun(e) /\ ~(task[e].at = "none") => Begun(e)'
      BY <1>o, <1>3, <3>1 DEF Quiet
    <3>3. Stands(e) /\ Truthful(e) /\ Same(e)
      BY <2>1, Here
    <3>4. Stands(e)'
      BY <3>1, <3>2, <3>3, SameStands
    <3>5. Truthful(e)'
      BY <3>1, <3>3, SameTruthful DEF Truthful
    <3>6. QED
      BY <3>4, <3>5
  <2>3. QED
    BY <2>2 DEF EInv
<1>5. CASE UNCHANGED <<vars, wire>>
  <2>1. \A e \in Exec : Same(e)
    BY <1>o, <1>0, <1>2, <1>5, NodeFrame
  <2>2. QED
    BY <1>5, <2>1, UnchangedQuiet, Frame
<1>6. CASE Unanswered("reject", f) /\ UNCHANGED vars
  <2>1. \A e \in Exec : Quiet(e)
    BY <1>6, UnchangedQuiet
  <2>2. \A e : \A p : Wire(p, e)' => Wire(p, e) \/ (e = f /\ p = "reject")
    BY <1>6, Sent
  <2>3. UNCHANGED <<task, ran, record, sweep, complete, published, inFlight>>
    BY <1>o, <1>2 DEF task_vars, held_vars
  <2>4. \A e \in Exec \ {f} : Same(e)
    BY <1>o, <1>0, <1>2, <2>2, <2>3 DEF Same
  <2>5. Quiet(f)
    BY <1>o, <1>0, <2>1
  <2>6. Stands(f)'
    BY <1>o, <1>0, <1>1, <1>2, <1>3, <2>2, <2>3, <2>5 DEF Stands, Quiet, Settled
  <2>7. Truthful(f)'
    BY <1>o, <1>1, <2>2, <2>3, <2>5 DEF Truthful, Quiet, Settled, Accounted, Forsaken, OnDisk
  <2>8. QED
    BY <1>o, <1>0, <2>1, <2>4, <2>6, <2>7, Focus
<1>7. QED
  BY <1>o, <1>4, <1>5, <1>6 DEF RejectOffer, net_vars

-----------------------------------------------------------------------------
(* Where an execution stands: deaths and enrolment *)

\* What dies with a process is not taken back: the house still has to wait for it.
LEMMA HaltStands ==
  ASSUME WInv, PollerDies \/ WorkerDies \/ Unenroll \/ Enroll
  PROVE  EInv'
<1>1. UNCHANGED <<vars, ran, record, complete, published, wire>>
  BY DEF PollerDies, WorkerDies, Unenroll, Enroll, held_vars, task_vars, net_vars
<1>2. ASSUME NEW e \in Exec
      PROVE  /\ task'[e] = task[e] \/ (task'[e] = Over /\ task[e].at \in Working)
             /\ sweep'[e] = sweep[e] \/ sweep'[e] = "idle"
  BY DEF PollerDies, WorkerDies, Unenroll, Enroll, held_vars, task_vars, Working
<1>3. offer' \in {NoOffer, offer} /\ pc' # "accept" /\ (inFlight' = {} \/ Enroll)
  BY DEF PollerDies, WorkerDies, Unenroll, Enroll
<1>4. ASSUME NEW e \in Exec PROVE Stands(e)' /\ Truthful(e)'
  <2>0. Stands(e) /\ Truthful(e) /\ Quiet(e) /\ e # NoOffer
    BY <1>1, Here, UnchangedQuiet, WorkerAssumption DEF WorkerAssumption, Exec
  <2>1. \A p : Wire(p, e)' <=> Wire(p, e)
    BY <1>1 DEF Wire
  <2>2. "none" \notin Working /\ Over.at \notin Mail \union Posting \union {"wait", "held"}
    BY TaskRows DEF Working, Executor, Mail, Posting
  <2>3. task[e].at # "none" => offer # e /\ ~Wire("reject", e)
    BY <2>0 DEF Stands
  <2>4. e \in inFlight' => task'[e].at \in Working
    BY <1>3, <2>0 DEF Enroll, task_vars, Stands
  <2>5. Stands(e)'
    BY <1>1, <1>2, <1>3, <2>0, <2>1, <2>2, <2>3, <2>4 DEF Stands, Quiet, Settled
  <2>6. Truthful(e)'
    BY <1>1, <1>2, <2>0, <2>1, TaskRows DEF Truthful, Quiet, Settled, Accounted, Forsaken, OnDisk
  <2>7. QED
    BY <2>5, <2>6
<1>5. QED
  BY <1>4 DEF EInv

\* The manager's own operations.
LEMMA HouseStands ==
  ASSUME WInv, HouseMoves
  PROVE  EInv'
<1>1. \A e \in Exec : Same(e)
  BY NodeFrame DEF HouseMoves, NodeKept, poller_vars, net_vars
<1>2. IInv /\ ByWorkers
  BY DEF WInv
<1>3. QED
  BY <1>1, <1>2, HouseMovesStep, Frame

-----------------------------------------------------------------------------
(* The node's records keep their shape *)

\* What a step writes, but for the counts of slots.
Shape ==
  /\ pc \in {"idle", "ready", "beat", "poll", "accept", "reject"}
  /\ todo \subseteq Exec /\ offer \in Exec \union {NoOffer} /\ inFlight \subseteq Exec
  /\ task \in [Exec -> TaskRow]
  /\ ran \subseteq Exec
  /\ record \in [Exec -> Record]
  /\ sweep \in [Exec -> {"idle", "publish", "write", "cancel", "refused"}]
  /\ complete \in [Exec -> {"none", "succeeded", "failed"}]
  /\ published \subseteq Exec /\ dropped \subseteq Exec
  /\ wire \subseteq Request /\ faults \in 0..MaxFaults

\* WTypeOK, taken apart: the store, the node and its two slot counts.
LEMMA ShapeIs ==
  WTypeOK <=> TypeOK /\ Shape /\ used \in 0..SlotMax /\ leaked \in 0..SlotMax
BY DEF WTypeOK, Shape, TaskRow

\* A fault is counted.
LEMMA FaultShape ==
  ASSUME faults \in 0..MaxFaults, Fault
  PROVE  faults' \in 0..MaxFaults
BY WorkerAssumption DEF Fault, WorkerAssumption

\* What is sent is a request.
LEMMA UnansweredShape ==
  ASSUME faults \in 0..MaxFaults, wire \subseteq Request, NEW f \in Exec,
         NEW o \in {"beat", "reject", "succeeded", "failed", "review"}, Unanswered(o, f)
  PROVE  faults' \in 0..MaxFaults /\ wire' \subseteq Request
BY FaultShape DEF Unanswered, Request

\* The places of an execution.
LEMMA WorkingIs ==
  Working = {"run", "held", "done", "ok", "again", "drop", "send", "resend", "wait"}
BY DEF Working, Executor, Mail, Posting

\* An answer that arrives, or does not, keeps the records of the node.
LEMMA ReceiveShape ==
  ASSUME WInv, NEW f \in Exec, Receive(f) \/ PostRaises(f)
  PROVE  Shape'
<1>0. /\ Shape /\ task[f] \in TaskRow /\ CompleteTries \in Nat \ {0}
      /\ task[f].left \in 0..CompleteTries
  BY Here, ShapeIs, WorkerAssumption DEF WInv, WorkerAssumption, TaskRow
<1>1. /\ UNCHANGED <<pc, todo, offer, dropped, ran, record, sweep, complete, published, wire>>
      /\ inFlight' \subseteq inFlight /\ (faults' = faults \/ Fault)
  BY DEF Receive, JobFinished, CompleteResult, CompleteRetry, PostRaises, Finish, Without,
         poller_vars, net_vars, held_vars
<1>2. faults' \in 0..MaxFaults
  BY <1>0, <1>1, FaultShape DEF Shape
<1>3. ASSUME NEW t \in TaskRow, task' = [task EXCEPT ![f] = t] PROVE Shape'
  BY <1>0, <1>1, <1>2, <1>3 DEF Shape
<1>4. ASSUME NEW a \in Working, NEW s \in {task[f].says, "failed"},
             NEW l \in {task[f].left, task[f].left - 1, CompleteTries}, l \in 0..CompleteTries
      PROVE  [at |-> a, says |-> s, left |-> l] \in TaskRow
  BY <1>0, <1>4 DEF TaskRow
<1>5. \/ task' = [task EXCEPT ![f] = Over]
      \/ \E a \in Working, s \in {task[f].says, "failed"} :
           \E l \in {task[f].left, task[f].left - 1, CompleteTries} :
             l \in 0..CompleteTries
               /\ task' = [task EXCEPT ![f] = [at |-> a, says |-> s, left |-> l]]
  <2>1. \A x \in TaskRow : x = [at |-> x.at, says |-> x.says, left |-> x.left]
    BY DEF TaskRow
  <2>2. CompleteTries \in 0..CompleteTries
    BY <1>0
  <2>3. CASE JobFinished(f)
    BY <1>0, <2>1, <2>2, <2>3, WorkingIs DEF JobFinished, Ends, Shape, TaskRow
  <2>4. CASE CompleteResult(f)
    BY <1>0, <2>1, <2>2, <2>4, WorkingIs DEF CompleteResult, Finish, Waits, Ends, Shape, TaskRow
  <2>5. CASE CompleteRetry(f)
    BY <1>0, <2>1, <2>2, <2>5, WorkingIs DEF CompleteRetry, Becomes, Ends, Shape, TaskRow
  <2>6. CASE PostRaises(f)
    BY <1>0, <2>1, <2>2, <2>6, WorkingIs DEF PostRaises, Becomes, Shape, TaskRow
  <2>7. QED
    BY <2>3, <2>4, <2>5, <2>6 DEF Receive
<1>6. QED
  BY <1>3, <1>4, <1>5, TaskRows

\* So does a step of an execution,
LEMMA TaskShape ==
  ASSUME WInv, NEW f \in Exec, TaskStep(f)
  PROVE  Shape'
<1>0. Shape /\ task[f] \in TaskRow /\ Stands(f)
  BY Here, ShapeIs DEF WInv
<1>1. ASSUME NEW t \in TaskRow, task' = [task EXCEPT ![f] = t] PROVE task' \in [Exec -> TaskRow]
  BY <1>0, <1>1 DEF Shape
<1> DEFINE says(s, a) == [task[f] EXCEPT !.at = a, !.says = s]
           moved(a)   == [task[f] EXCEPT !.at = a]
<1>2. /\ \A a \in Working : moved(a) \in TaskRow
      /\ \A a \in Working, s \in {"succeeded", "failed", "review"} : says(s, a) \in TaskRow
  BY <1>0 DEF TaskRow
<1>3. \A a : Becomes(f, a) => task' = [task EXCEPT ![f] = moved(a)]
  BY <1>0 DEF Becomes, Shape
<1>4. CASE ExecutorReturns(f)
  <2>1. PICK s \in {"succeeded", "failed"} : task' = [task EXCEPT ![f] = says(s, "done")]
    BY <1>0, <1>4 DEF ExecutorReturns, Shape
  <2> HIDE DEF says
  <2>2. task' \in [Exec -> TaskRow]
    BY <1>1, <1>2, <2>1, WorkingIs
  <2>3. ran' \subseteq Exec /\ UNCHANGED <<poller_vars, held_vars, net_vars>>
    BY <1>0, <1>4 DEF ExecutorReturns, Shape
  <2>4. QED
    BY <1>0, <2>2, <2>3 DEF Shape, poller_vars, held_vars, net_vars
<1>5. CASE ExecutorHolds(f)
  <2>1. task' = [task EXCEPT ![f] = says("review", "held")]
    BY <1>0, <1>5 DEF ExecutorHolds, Shape
  <2> HIDE DEF says
  <2>2. task' \in [Exec -> TaskRow]
    BY <1>1, <1>2, <2>1, WorkingIs
  <2>3. QED
    BY <1>0, <1>5, <2>2 DEF ExecutorHolds, Shape, Record, poller_vars, net_vars
<1>6. CASE ContainerGone(f)
  <2> HIDE DEF moved
  <2>1. task' \in [Exec -> TaskRow]
    BY <1>1, <1>2, <1>3, <1>6, WorkingIs DEF ContainerGone
  <2>2. QED
    BY <1>0, <1>6, <2>1 DEF ContainerGone, Shape, poller_vars, held_vars, net_vars
<1>7. CASE PostComplete(f)
  <2> HIDE DEF moved
  <2>1. task' \in [Exec -> TaskRow]
    BY <1>1, <1>2, <1>3, <1>7, WorkingIs DEF PostComplete
  <2>2. task[f].says \in {"succeeded", "failed", "review"}
    BY <1>0, <1>7 DEF PostComplete, Stands, TaskRow
  <2>3. wire' \subseteq Request /\ faults' \in 0..MaxFaults
    BY <1>0, <1>7, <2>2, UnansweredShape, FaultShape DEF PostComplete, TurnedAway, net_vars, Shape
  <2>4. QED
    BY <1>0, <1>7, <2>1, <2>3 DEF PostComplete, Shape, poller_vars, held_vars
<1>8. QED
  BY <1>4, <1>5, <1>6, <1>7 DEF TaskStep

\* a step of the sweeper of held output,
LEMMA SweeperShape ==
  ASSUME WInv, NEW f \in Exec, SweeperStep(f)
  PROVE  Shape'
<1>0. Shape /\ Truthful(f) /\ Command(f) \in {"cancel", "publish", "ok"}
  BY Here, ShapeIs DEF WInv, Command
<1>1. UNCHANGED <<poller_vars, task_vars>>
  BY DEF SweeperStep, Ask, Publish, WriteComplete, Deliver, Discard, RecordExpires, NoHeldChange
<1>2. UNCHANGED <<pc, todo, offer, inFlight, dropped, task, ran>>
  BY <1>1 DEF poller_vars, task_vars
<1>3. CASE Ask(f)
  <2>1. sweep' \in [Exec -> {"idle", "publish", "write", "cancel", "refused"}]
    BY <1>0, <1>3 DEF Ask, Sweeps, Shape
  <2>2. wire' = wire /\ faults' \in 0..MaxFaults
    BY <1>0, <1>3, FaultShape DEF Ask, TurnedAway, Shape, net_vars
  <2>3. QED
    BY <1>0, <1>2, <1>3, <2>1, <2>2 DEF Ask, Shape
<1>8. CASE Discard(f) \/ RecordExpires(f)
  BY <1>0, <1>2, <1>8 DEF Discard, RecordExpires, Sweeps, Recorded, Record, Shape, net_vars
<1>4. CASE Publish(f)
  BY <1>0, <1>2, <1>4 DEF Publish, Sweeps, Shape, net_vars
<1>5. CASE WriteComplete(f)
  <2>1. faults' \in 0..MaxFaults
    BY <1>0, <1>5, FaultShape DEF WriteComplete, Shape
  <2>2. QED
    BY <1>0, <1>2, <1>5, <2>1 DEF WriteComplete, Sweeps, Recorded, Record, Shape
<1>6. CASE Deliver(f)
  <2>1. complete[f] \in {"succeeded", "failed"}
    BY <1>0, <1>6 DEF Deliver, Shape, Truthful
  <2>2. wire' \subseteq Request /\ faults' \in 0..MaxFaults
    BY <1>0, <1>6, <2>1, UnansweredShape, FaultShape DEF Deliver, TurnedAway, net_vars, Shape
  <2>3. record' \in [Exec -> Record]
    BY <1>0, <1>6 DEF Deliver, Recorded, Record, Shape
  <2>4. QED
    BY <1>0, <1>2, <1>6, <2>2, <2>3 DEF Deliver, Shape
<1>7. QED
  BY <1>3, <1>4, <1>5, <1>6, <1>8 DEF SweeperStep

\* A claim makes an execution.
LEMMA NewExec ==
  ASSUME IInv, NEW h, NEW w, NEW j \in Job, ClaimNext(h, w, j)
  PROVE  <<j, job[j].cur, claims'[j]>> \in Exec
<1>1. /\ job[j].cur \in Attempt /\ claims[j] \in 0..MaxClaim /\ claims[j] < MaxClaim
      /\ claims'[j] = claims[j] + 1 /\ MaxClaim \in Nat
  BY RowTypes, JobsAssumption DEF IInv, TypeOK, ClaimNext, Claim, JobsAssumption
<1>2. QED
  BY <1>1 DEF Exec, Token

\* a step of the poller,
LEMMA PollerShape ==
  ASSUME WInv, PollerStep
  PROVE  Shape'
<1>0. Shape /\ IInv
  BY ShapeIs DEF WInv
<1>1. CASE Tick
  BY <1>0, <1>1 DEF Tick, Poller, ThenPoll, Shape, task_vars, held_vars, net_vars
<1>2. ASSUME NEW f \in Exec, Beat(f) PROVE Shape'
  <2>1. task' \in [Exec -> TaskRow] /\ ran' = ran /\ inFlight' \subseteq inFlight
    BY <1>0, <1>2, TaskRows DEF Beat, Cancelled, Without, Shape, task_vars
  <2>2. wire' \subseteq Request /\ faults' \in 0..MaxFaults
    BY <1>0, <1>2, UnansweredShape DEF Beat, Cancelled, net_vars, Shape
  <2>3. QED
    BY <1>0, <1>2, <2>1, <2>2 DEF Beat, Poller, ThenPoll, Shape, held_vars
<1>3. CASE Poll
  <2>1. UNCHANGED <<todo, inFlight, task, ran, record, sweep, complete, published, wire, faults>>
    BY <1>3 DEF Poll, task_vars, held_vars, net_vars
  <2>2. UNCHANGED dropped /\ pc' \in {"accept", "ready"}
    BY <1>3 DEF Poll, Poller
  <2>3. offer' \in Exec \union {NoOffer}
    <3>1. ASSUME NEW h \in Gate, NEW w \in Worker, NEW j \in Job, ClaimNext(h, w, j)
          PROVE  <<j, job[j].cur, claims'[j]>> \in Exec
      BY <1>0, <3>1, NewExec
    <3>2. QED
      BY <1>0, <1>3, <3>1 DEF Poll, Shape
  <2>4. QED
    BY <1>0, <2>1, <2>2, <2>3 DEF Shape
<1>4. CASE Accept
  <2>1. PICK f \in Exec : f = offer
    BY <1>4, OfferIs DEF Accept
  <2> DEFINE t == [task[f] EXCEPT !.at = "run"]
  <2>2. t \in TaskRow
    BY <1>0, WorkingIs DEF TaskRow, Shape
  <2>3. task' = task \/ task' = [task EXCEPT ![f] = t]
    BY <1>0, <1>4, <2>1 DEF Accept, Shape
  <2> HIDE DEF t
  <2>4. task' \in [Exec -> TaskRow] /\ inFlight' \subseteq Exec
    BY <1>0, <1>4, <2>1, <2>2, <2>3 DEF Accept, Without, Shape
  <2>5. wire' \subseteq Request /\ faults' \in 0..MaxFaults
    BY <1>0, <1>4, <2>1, UnansweredShape DEF Accept, net_vars, Shape
  <2>6. /\ UNCHANGED <<todo, ran, record, sweep, complete, published, dropped>>
        /\ offer' \in {NoOffer, offer} /\ pc' \in {"ready", "reject"}
    BY <1>4 DEF Accept, Poller, held_vars
  <2>7. QED
    BY <1>0, <2>4, <2>5, <2>6 DEF Shape
<1>5. CASE RejectOffer
  <2>1. offer \in Exec
    BY <1>5, OfferIs DEF RejectOffer
  <2>2. wire' \subseteq Request /\ faults' \in 0..MaxFaults
    BY <1>0, <1>5, <2>1, UnansweredShape DEF RejectOffer, net_vars, Shape
  <2>3. QED
    BY <1>0, <1>5, <2>2 DEF RejectOffer, Poller, Shape, task_vars, held_vars
<1>6. QED
  BY <1>1, <1>2, <1>3, <1>4, <1>5 DEF PollerStep

\* and what happens to the node from outside.
LEMMA OtherShape ==
  ASSUME WInv,
         \/ HouseMoves \/ PollerDies \/ WorkerDies \/ Unenroll \/ Enroll
         \/ \E m \in wire : Arrives(m)
         \/ \E j \in Job : LostPoll(j)
  PROVE  Shape'
<1>0. Shape
  BY ShapeIs DEF WInv
<1>1. CASE HouseMoves
  BY <1>0, <1>1 DEF HouseMoves, NodeKept, Shape, poller_vars, task_vars, held_vars, net_vars
<1>2. CASE \E m \in wire : Arrives(m)
  BY <1>0, <1>2 DEF Arrives, Shape, poller_vars, task_vars, held_vars
<1>3. CASE \E j \in Job : LostPoll(j)
  BY <1>0, <1>3, FaultShape DEF LostPoll, Shape, poller_vars, task_vars, held_vars
<1>4. CASE PollerDies
  BY <1>0, <1>4, FaultShape, TaskRows DEF PollerDies, Shape, held_vars
<1>5. CASE WorkerDies
  BY <1>0, <1>5, FaultShape, TaskRows DEF WorkerDies, Shape
<1>6. CASE Unenroll
  BY <1>0, <1>6, FaultShape DEF Unenroll, Shape, task_vars, held_vars
<1>7. CASE Enroll
  BY <1>0, <1>7 DEF Enroll, Shape, task_vars, held_vars, net_vars
<1>8. QED
  BY <1>1, <1>2, <1>3, <1>4, <1>5, <1>6, <1>7

-----------------------------------------------------------------------------
(* The slots *)

\* There are finitely many executions.
LEMMA ExecsFinite ==
  ASSUME NEW S \in SUBSET Exec
  PROVE  IsFiniteSet(S) /\ Cardinality(S) \in Nat
<1> DEFINE D == (Job \X Attempt) \X Token
           f == [p \in D |-> <<p[1][1], p[1][2], p[2]>>]
<1>1. 1 \in Int /\ NJobs \in Int /\ MaxAttempt \in Int /\ MaxClaim \in Int
  BY JobsAssumption DEF JobsAssumption
<1>2. IsFiniteSet(Job) /\ IsFiniteSet(Attempt) /\ IsFiniteSet(Token)
  BY <1>1, FS_Interval DEF Job, Attempt, Token
<1>3. IsFiniteSet(Job \X Attempt)
  BY <1>2, FS_Product
<1>4. IsFiniteSet(D)
  BY <1>2, <1>3, FS_Product
<1>5. f \in Surjection(D, Exec)
  <2>1. f \in [D -> Exec]
    BY DEF Exec
  <2>2. ASSUME NEW e \in Exec PROVE \E p \in D : f[p] = e
    <3>1. <<<<e[1], e[2]>>, e[3]>> \in D /\ f[<<<<e[1], e[2]>>, e[3]>>] = e
      BY ExecParts
    <3>2. QED
      BY <3>1
  <2>3. QED
    BY <2>1, <2>2 DEF Surjection
<1>6. IsFiniteSet(Exec)
  BY <1>4, <1>5, FS_Surjection
<1>7. QED
  BY <1>6, FS_Subset, FS_CardinalityType

\* Two executions of one attempt that were both begun are one.
LEMMA BegunOnce ==
  ASSUME NEW e \in Exec, NEW f \in Exec, Begun(e), Begun(f), SameAttempt(e, f)
  PROVE  e = f
BY ExecParts DEF Begun, SameAttempt

\* An execution in flight was begun.
LEMMA FlyingIsBegun ==
  ASSUME WInv, NEW e \in inFlight
  PROVE  e \in Exec /\ Begun(e)
<1>1. e \in Exec
  BY DEF WInv, WTypeOK
<1>2. task[e].at # "none"
  BY <1>1, Here, WorkingIs DEF Stands
<1>3. QED
  BY <1>1, <1>2, Here DEF Stands

\* To forget an execution that was begun is to take it, and no other, out.
LEMMA WithoutOne ==
  ASSUME WInv, NEW f \in Exec, Begun(f)
  PROVE  Without(f) = inFlight \ {f} /\ (Tracked(f) => f \in inFlight)
BY FlyingIsBegun, BegunOnce DEF Without, Tracked, SameAttempt

\* The books, before a step.
LEMMA BooksNow ==
  ASSUME WInv
  PROVE  /\ IsFiniteSet(inFlight) /\ Cardinality(inFlight) \in Nat
         /\ IsFiniteSet(Orphans) /\ Cardinality(Orphans) \in Nat
         /\ leaked \in Nat /\ used \in Nat /\ used <= SlotMax /\ SlotMax \in Nat /\ Books
         /\ Shape
BY ExecsFinite, ShapeIs, WorkerAssumption DEF WInv, WTypeOK, Orphans, WorkerAssumption

\* What is used is counted.
LEMMA CountsAreSlots ==
  ASSUME used \in Nat, used <= SlotMax, leaked \in Nat, Shape, Books
  PROVE  used \in 0..SlotMax /\ leaked \in 0..SlotMax
<1>1. Cardinality(inFlight) \in Nat /\ SlotMax \in Nat
  BY ExecsFinite, WorkerAssumption DEF Shape, WorkerAssumption
<1>2. QED
  BY <1>1 DEF Books

Counts == used \in Nat /\ used <= SlotMax /\ leaked \in Nat /\ Books

\* A step that starts no executor leaves no more of them without a poller.
LEMMA FewerOrphans ==
  ASSUME WInv, NEW S, S \subseteq Orphans
  PROVE  Cardinality(S) \in Nat /\ Cardinality(S) <= leaked
<1>1. S \in SUBSET Orphans /\ S \subseteq Exec
  BY DEF Orphans
<1>2. QED
  BY <1>1, BooksNow, ExecsFinite, FS_Subset DEF Books

\* A step that takes nothing on and gives nothing back.
LEMMA SameCounts ==
  ASSUME WInv, UNCHANGED poller_vars,
         \A e \in Exec : task'[e].at \in Executor => task[e].at \in Executor
  PROVE  Counts'
<1>1. UNCHANGED <<pc, todo, offer, used, inFlight, leaked, dropped>>
  BY DEF poller_vars
<1>2. Orphans' \subseteq Orphans
  BY <1>1 DEF Orphans
<1>3. Cardinality(Orphans') <= leaked
  BY <1>2, FewerOrphans
<1>4. QED
  BY <1>1, <1>3, BooksNow DEF Counts, Books

\* The execution f ends, or is cancelled, and its slot is given back.
LEMMA OneLess ==
  ASSUME WInv, NEW f \in inFlight, inFlight' = Without(f),
         used' = (IF used = 0 THEN 0 ELSE used - 1), UNCHANGED <<leaked, dropped>>,
         \A e \in Exec : task'[e].at \in Executor => task[e].at \in Executor /\ e # f,
         pc # "accept", pc' # "accept"
  PROVE  /\ used' \in Nat /\ used' <= SlotMax /\ leaked' \in Nat
         /\ used' = Cardinality(inFlight') + leaked' /\ Cardinality(Orphans') <= leaked'
         /\ inFlight' = inFlight \ {f}
<1>1. Begun(f) /\ f \in Exec
  BY FlyingIsBegun
<1>2. inFlight' = inFlight \ {f}
  BY <1>1, WithoutOne
<1>3. Cardinality(inFlight') = Cardinality(inFlight) - 1
  BY <1>2, BooksNow, FS_RemoveElement
<1>4. Cardinality(inFlight) # 0
  BY BooksNow, FS_EmptySet
<1>5. Orphans' \subseteq Orphans
  BY <1>2 DEF Orphans
<1>6. Cardinality(Orphans') <= leaked
  BY <1>5, FewerOrphans
<1>7. QED
  BY <1>2, <1>3, <1>4, <1>6, BooksNow DEF Books

\* An answer that arrives gives back no slot.
LEMMA ReceiveCounts ==
  ASSUME WInv, NEW f \in Exec, Receive(f) \/ PostRaises(f)
  PROVE  Counts'
<1>0. task \in [Exec -> TaskRow] /\ task[f] \in TaskRow /\ Stands(f)
  BY Here
<1>1. task[f].at \in Mail \union Posting \union {"wait"}
  BY DEF Receive, JobFinished, CompleteResult, CompleteRetry, PostRaises, Mail, Posting
<1>2. \A e \in Exec : task'[e].at \in Executor => task[e].at \in Executor /\ e # f
  <2>1. \A e \in Exec \ {f} : task'[e] = task[e]
    BY <1>0 DEF Receive, JobFinished, CompleteResult, CompleteRetry, PostRaises, Finish, Ends,
                Waits, Becomes
  <2>2. Over.at = "over" /\ (task' = [task EXCEPT ![f] = Over] => task'[f].at = "over")
    BY <1>0, TaskRows
  <2>3. task'[f].at \in {"over", "send", "wait", "resend", "drop"}
    <3>1. CASE JobFinished(f)
      BY <1>0, <2>2, <3>1 DEF JobFinished, Ends, TaskRow
    <3>2. CASE CompleteResult(f)
      BY <1>0, <2>2, <3>2 DEF CompleteResult, Finish, Ends, Waits, TaskRow
    <3>3. CASE CompleteRetry(f)
      BY <1>0, <2>2, <3>3 DEF CompleteRetry, Ends, Becomes, TaskRow
    <3>4. CASE PostRaises(f)
      BY <1>0, <3>4 DEF PostRaises, Becomes, TaskRow
    <3>5. QED
      BY <3>1, <3>2, <3>3, <3>4 DEF Receive
  <2>4. QED
    BY <2>1, <2>3 DEF Executor
<1>3. CASE UNCHANGED poller_vars
  BY <1>2, <1>3, SameCounts
<1>4. CASE CompleteResult(f) /\ Tracked(f) /\ Finish(f)
  <2>1. f \in inFlight
    BY <1>0, <1>1, <1>4, WithoutOne DEF Stands, Mail, Posting
  <2>2. /\ inFlight' = Without(f) /\ used' = (IF used = 0 THEN 0 ELSE used - 1)
        /\ UNCHANGED <<pc, todo, offer, leaked, dropped>> /\ pc \in {"idle", "ready"}
    BY <1>4 DEF CompleteResult, Finish, Reads
  <2>3. /\ used' \in Nat /\ used' <= SlotMax /\ leaked' \in Nat
        /\ used' = Cardinality(inFlight') + leaked' /\ Cardinality(Orphans') <= leaked'
    BY <1>2, <2>1, <2>2, OneLess
  <2>4. todo = {}
    BY <2>2, BooksNow DEF Books
  <2>5. QED
    BY <2>2, <2>3, <2>4, BooksNow DEF Counts, Books
<1>5. QED
  BY <1>3, <1>4 DEF Receive, JobFinished, CompleteResult, CompleteRetry, PostRaises, poller_vars

\* An execution that ends gives its slot back once.
LEMMA TaskCounts ==
  ASSUME WInv, NEW f \in Exec, TaskStep(f)
  PROVE  Counts'
<1>0. task \in [Exec -> TaskRow] /\ task[f] \in TaskRow
  BY Here
<1>1. UNCHANGED poller_vars
  BY DEF TaskStep, ExecutorReturns, ExecutorHolds, ContainerGone, PostComplete
<1>2. \A e \in Exec \ {f} : task'[e] = task[e]
  BY <1>0 DEF TaskStep, ExecutorReturns, ExecutorHolds, ContainerGone, PostComplete, Becomes
<1>3. task'[f].at \in Executor => task[f].at \in Executor
  <2>1. CASE ExecutorReturns(f) \/ ExecutorHolds(f) \/ ContainerGone(f)
    BY <2>1 DEF ExecutorReturns, ExecutorHolds, ContainerGone, Executor
  <2>2. CASE PostComplete(f)
    <3>1. \A a : [task[f] EXCEPT !.at = a].at = a
      BY <1>0 DEF TaskRow
    <3>2. task'[f].at \in {"ok", "drop", "again"}
      BY <1>0, <2>2, <3>1 DEF PostComplete, Becomes
    <3>3. QED
      BY <3>2 DEF Executor
  <2>3. QED
    BY <2>1, <2>2 DEF TaskStep
<1>4. QED
  BY <1>1, <1>2, <1>3, SameCounts

\* A round of the poller takes no slot.
LEMMA TickCounts ==
  ASSUME WInv, Tick
  PROVE  Counts'
<1>1. /\ UNCHANGED <<offer, used, inFlight, task, leaked, dropped>> /\ pc = "ready"
      /\ pc' \in {"beat", "poll"} /\ todo' = inFlight
      /\ pc' = "poll" => used < SlotMax /\ inFlight = {}
  BY DEF Tick, Poller, ThenPoll, task_vars
<1>2. Orphans' = Orphans
  BY <1>1 DEF Orphans
<1>3. QED
  BY <1>1, <1>2, BooksNow DEF Counts, Books

\* A heartbeat keeps the slot of its execution.
LEMMA BeatCounts ==
  ASSUME WInv, NEW f \in Exec, Beat(f)
  PROVE  Counts'
<1>0. task \in [Exec -> TaskRow] /\ task[f] \in TaskRow /\ f \in inFlight /\ f \in todo
  BY Here DEF Beat, Books
<1>1. /\ UNCHANGED <<offer, leaked, dropped>> /\ pc = "beat" /\ todo' = todo \ {f}
      /\ pc' \in {"beat", "poll", "ready"} /\ (pc' # "beat" => todo' = {})
      /\ pc' = "poll" => used' < SlotMax
  BY DEF Beat, Poller, ThenPoll
<1>2. CASE Cancelled(f)
  <2>1. \A e \in Exec : task'[e].at \in Executor => task[e].at \in Executor /\ e # f
    <3>1. Over.at \notin Executor
      BY TaskRows DEF Executor
    <3>2. QED
      BY <1>0, <1>2, <3>1 DEF Cancelled
  <2>2. /\ used' \in Nat /\ used' <= SlotMax /\ leaked' \in Nat
        /\ used' = Cardinality(inFlight') + leaked' /\ Cardinality(Orphans') <= leaked'
        /\ inFlight' = inFlight \ {f}
    BY <1>0, <1>1, <1>2, <2>1, OneLess DEF Cancelled
  <2>3. QED
    BY <1>0, <1>1, <2>2, BooksNow DEF Counts, Books
<1>3. CASE UNCHANGED <<used, inFlight, task_vars>>
  <2>1. Orphans' = Orphans
    BY <1>1, <1>3 DEF Orphans, task_vars
  <2>2. QED
    BY <1>0, <1>1, <1>3, <2>1, BooksNow DEF Counts, Books
<1>4. QED
  BY <1>2, <1>3 DEF Beat

\* A poll is sent while a slot is free.
LEMMA PollCounts ==
  ASSUME WInv, Poll
  PROVE  Counts'
<1>1. UNCHANGED <<todo, inFlight, task, leaked, dropped>> /\ pc = "poll"
  BY DEF Poll, Poller, task_vars
<1>2. Orphans' = Orphans
  BY <1>1 DEF Orphans
<1>3. \/ pc' = "accept" /\ used' = used + 1 /\ offer' \in Exec
      \/ pc' = "ready" /\ UNCHANGED <<used, offer>>
  <2>1. ASSUME NEW h \in Gate, NEW w \in Worker, NEW j \in Job, ClaimNext(h, w, j)
        PROVE  <<j, job[j].cur, claims'[j]>> \in Exec
    BY <2>1, NewExec DEF WInv
  <2>2. QED
    BY <2>1 DEF Poll, Poller
<1>4. NoOffer \notin Exec
  BY WorkerAssumption DEF WorkerAssumption, Exec
<1>5. QED
  BY <1>1, <1>2, <1>3, <1>4, BooksNow DEF Counts, Books

\* An offer that is taken takes a slot.
LEMMA AcceptCounts ==
  ASSUME WInv, Accept
  PROVE  Counts'
<1>o. PICK f \in Exec : f = offer
  BY OfferIs DEF Accept
<1>0. /\ task \in [Exec -> TaskRow] /\ task[f] \in TaskRow /\ Stands(f) /\ IInv
      /\ NoOffer \notin Exec
  BY <1>o, Here, OfferIs DEF Accept
<1>1. /\ UNCHANGED <<todo, leaked, dropped>> /\ pc = "accept"
      /\ (pc' = "ready" /\ offer' = NoOffer) \/ (pc' = "reject" /\ offer' = f)
  BY <1>o DEF Accept, Poller
<1>2. CASE /\ Renewed(f) /\ task' = [task EXCEPT ![f].at = "run"]
           /\ inFlight' = Without(f) \union {f} /\ used' = used /\ pc' = "ready"
  <2>1. Begun(f)
    BY <1>0, <1>2, ExecRow DEF Renewed, Heartbeat, HoldsLease, Begun, Good, AttemptOf
  <2>2. f \notin inFlight
    BY <1>o, <1>0, WorkingIs DEF Stands
  <2>3. inFlight' = inFlight \union {f}
    BY <1>2, <2>1, <2>2, WithoutOne
  <2>4. Cardinality(inFlight') = Cardinality(inFlight) + 1
    BY <2>2, <2>3, BooksNow, FS_AddElement
  <2>5. Orphans' \subseteq Orphans
    BY <1>0, <1>1, <1>2, <2>3 DEF Orphans
  <2>6. Cardinality(Orphans') <= leaked
    BY <2>5, FewerOrphans
  <2>7. QED
    BY <1>o, <1>1, <1>2, <2>3, <2>4, <2>6, BooksNow DEF Counts, Books
<1>3. CASE used' = (IF used = 0 THEN 0 ELSE used - 1) /\ UNCHANGED <<inFlight, task>>
  <2>1. Orphans' = Orphans
    BY <1>1, <1>3 DEF Orphans
  <2>2. QED
    BY <1>o, <1>0, <1>1, <1>3, <2>1, BooksNow DEF Counts, Books
<1>4. QED
  BY <1>o, <1>2, <1>3 DEF Accept, Poller

\* An offer that is not taken takes none.
LEMMA RejectCounts ==
  ASSUME WInv, RejectOffer
  PROVE  Counts'
<1>1. /\ UNCHANGED <<todo, used, inFlight, task, leaked, dropped>> /\ pc = "reject"
      /\ pc' = "ready" /\ offer' = NoOffer
  BY DEF RejectOffer, Poller, task_vars
<1>2. Orphans' = Orphans
  BY <1>1 DEF Orphans
<1>3. QED
  BY <1>1, <1>2, BooksNow DEF Counts, Books

\* The slots of a poller that died stay taken, and its executors run on.
LEMMA PollerDiesCounts ==
  ASSUME WInv, PollerDies
  PROVE  Counts'
<1>1. /\ leaked' = leaked + Cardinality(inFlight) + (IF pc = "accept" THEN 1 ELSE 0)
      /\ inFlight' = {} /\ todo' = {} /\ offer' = NoOffer /\ pc' = "ready"
      /\ UNCHANGED <<used, dropped>>
      /\ \A e \in Exec : task'[e] = task[e] \/ task'[e] = Over
  BY DEF PollerDies
<1>2. Orphans' \subseteq Orphans \union inFlight /\ Orphans' \subseteq Exec
  BY <1>1, TaskRows DEF Orphans, Executor
<1>3. /\ IsFiniteSet(Orphans \union inFlight)
      /\ Cardinality(Orphans \union inFlight)
           = Cardinality(Orphans) + Cardinality(inFlight) - Cardinality(Orphans \intersect inFlight)
  BY BooksNow, FS_Union
<1>4. Cardinality(Orphans \intersect inFlight) \in Nat
  <2>1. Orphans \intersect inFlight \subseteq Exec
    BY DEF Orphans
  <2>2. QED
    BY <2>1, ExecsFinite
<1>5. Cardinality(Orphans') <= Cardinality(Orphans \union inFlight) /\ Cardinality(Orphans') \in Nat
  BY <1>2, <1>3, FS_Subset, ExecsFinite
<1>6. Cardinality(inFlight') = 0
  BY <1>1, FS_EmptySet
<1>7. QED
  BY <1>1, <1>3, <1>4, <1>5, <1>6, BooksNow DEF Counts, Books

\* A worker that is killed starts again with every slot free.
LEMMA WorkerDiesCounts ==
  ASSUME WInv, WorkerDies
  PROVE  Counts'
<1>1. /\ leaked' = 0 /\ used' = 0 /\ inFlight' = {} /\ todo' = {} /\ offer' = NoOffer
      /\ pc' = "ready"
      /\ \A e \in Exec : task'[e].at \notin Executor
  BY TaskRows DEF WorkerDies, Executor, Working
<1>2. Orphans' = {}
  BY <1>1 DEF Orphans
<1>3. Cardinality(inFlight') = 0 /\ Cardinality(Orphans') = 0
  BY <1>1, <1>2, FS_EmptySet
<1>4. QED
  BY <1>1, <1>3, BooksNow DEF Counts, Books

\* Leaving the fleet forgets the executions and their slots together.
LEMMA UnenrollCounts ==
  ASSUME WInv, Unenroll
  PROVE  Counts'
<1>1. /\ pc = "ready" /\ pc' = "idle" /\ used' = used - Cardinality(inFlight) /\ inFlight' = {}
      /\ todo' = {} /\ dropped' = dropped \union inFlight /\ UNCHANGED <<offer, leaked, task>>
  BY DEF Unenroll, task_vars
<1>2. Orphans' \subseteq Orphans
  BY <1>1 DEF Orphans
<1>3. Cardinality(Orphans') <= leaked /\ Cardinality(inFlight') = 0
  BY <1>1, <1>2, FewerOrphans, FS_EmptySet
<1>4. QED
  BY <1>1, <1>3, BooksNow DEF Counts, Books

\* Nothing else moves a slot.
LEMMA OtherCounts ==
  ASSUME WInv,
         \/ HouseMoves \/ PollerDies \/ WorkerDies \/ Unenroll \/ Enroll
         \/ \E m \in wire : Arrives(m)
         \/ \E j \in Job : LostPoll(j)
         \/ \E e \in Exec : SweeperStep(e)
  PROVE  Counts'
<1>1. CASE UNCHANGED <<poller_vars, task_vars>>
  BY <1>1, SameCounts DEF task_vars
<1>2. CASE Enroll
  <2>1. /\ pc = "idle" /\ pc' = "ready"
        /\ UNCHANGED <<todo, offer, used, inFlight, leaked, dropped, task>>
    BY <1>2 DEF Enroll, task_vars
  <2>2. Orphans' = Orphans
    BY <2>1 DEF Orphans
  <2>3. QED
    BY <2>1, <2>2, BooksNow DEF Counts, Books
<1>3. QED
  BY <1>1, <1>2, PollerDiesCounts, WorkerDiesCounts, UnenrollCounts
     DEF HouseMoves, NodeKept, Arrives, LostPoll, SweeperStep, Ask, Publish, WriteComplete,
         Deliver, Discard, RecordExpires, NoHeldChange

-----------------------------------------------------------------------------
(* The invariant holds *)

\* Every step of the node is one of the store, or none.
LEMMA NodeStep ==
  ASSUME WInv, WNext
  PROVE  [Next]_vars /\ ByWorkers'
<1>0. IInv /\ ByWorkers /\ Shape
  BY ShapeIs DEF WInv
<1>1. CASE UNCHANGED vars
  BY <1>0, <1>1 DEF vars, ByWorkers
<1>2. CASE HouseMoves
  BY <1>0, <1>2, HouseMovesStep
<1>3. CASE PollerStep
  <2>1. ASSUME NEW f \in Exec, Beat(f) PROVE [Next]_vars /\ ByWorkers'
    BY <1>0, <1>1, <2>1, RenewedStep DEF Beat, Cancelled
  <2>2. CASE Poll
    BY <1>0, <1>1, <2>2, PollStep DEF Poll
  <2>3. CASE Accept
    BY <1>0, <1>1, <2>3, OfferIs, RenewedStep DEF Accept
  <2>4. CASE RejectOffer
    BY <1>0, <1>1, <2>4, OfferIs, RejectedStep DEF RejectOffer
  <2>5. CASE Tick
    BY <1>1, <2>5 DEF Tick
  <2>6. QED
    BY <1>3, <2>1, <2>2, <2>3, <2>4, <2>5 DEF PollerStep
<1>4. ASSUME NEW f \in Exec, Receive(f) \/ TaskStep(f) \/ PostRaises(f) \/ SweeperStep(f)
      PROVE  [Next]_vars /\ ByWorkers'
  <2>1. CASE Receive(f) \/ PostRaises(f)
    BY <1>1, <2>1 DEF Receive, JobFinished, CompleteResult, CompleteRetry, PostRaises
  <2>2. CASE TaskStep(f)
    <3>1. task[f].at \in Posting => task[f].says \in {"succeeded", "failed", "review"}
      BY <1>0, Here DEF Stands, Shape, TaskRow
    <3>2. QED
      BY <1>0, <1>1, <2>2, <3>1, CompletedStep
         DEF TaskStep, ExecutorReturns, ExecutorHolds, ContainerGone, PostComplete, TurnedAway
  <2>3. CASE SweeperStep(f)
    <3>1. record[f] = "complete" => complete[f] \in {"succeeded", "failed"}
      BY <1>0, Here DEF Truthful, Shape
    <3>2. QED
      BY <1>0, <1>1, <2>3, <3>1, CompletedStep
         DEF SweeperStep, Ask, Publish, WriteComplete, Deliver, Discard, RecordExpires,
             NoHeldChange, TurnedAway
  <2>4. QED
    BY <1>4, <2>1, <2>2, <2>3
<1>5. ASSUME NEW m \in wire, Arrives(m) PROVE [Next]_vars /\ ByWorkers'
  <2>1. m.e \in Exec /\ m.op \in {"beat", "reject", "succeeded", "failed", "review"}
    BY <1>0 DEF Shape, Request
  <2>2. QED
    BY <1>0, <1>5, <2>1, RenewedStep, RejectedStep, CompletedStep DEF Arrives
<1>6. ASSUME NEW j \in Job, LostPoll(j) PROVE [Next]_vars /\ ByWorkers'
  BY <1>0, <1>6, PollStep DEF LostPoll
<1>7. CASE PollerDies \/ WorkerDies \/ Unenroll \/ Enroll
  BY <1>1, <1>7 DEF PollerDies, WorkerDies, Unenroll, Enroll
<1>8. QED
  BY <1>2, <1>3, <1>4, <1>5, <1>6, <1>7 DEF WNext

\* Every step keeps the invariant of the node.
LEMMA NextWInv == WInv /\ [WNext]_wvars => WInv'
<1> SUFFICES ASSUME WInv, [WNext]_wvars PROVE WInv'
  OBVIOUS
<1>1. CASE WNext
  <2>1. IInv' /\ TypeOK' /\ ByWorkers'
    BY <1>1, NodeStep, NextIInv DEF WInv, IInv
  <2>2. Shape'
    BY <1>1, ReceiveShape, TaskShape, SweeperShape, PollerShape, OtherShape DEF WNext
  <2>3. EInv'
    <3>1. CASE PollerStep
      BY <3>1, TickStands, BeatStands, PollStands, AcceptStands, RejectStands DEF PollerStep
    <3>2. ASSUME NEW f \in Exec, Receive(f) \/ TaskStep(f) \/ PostRaises(f) \/ SweeperStep(f)
          PROVE  EInv'
      BY <3>2, ReceiveStands, ExecutorStands, HoldsStands, PostStands, AskStands, PublishStands,
         WriteStands, DeliverStands, GoneStands DEF TaskStep, SweeperStep
    <3>3. QED
      BY <1>1, <3>1, <3>2, HouseStands, ArrivesStands, LostPollStands, HaltStands DEF WNext
  <2>4. Counts'
    <3>1. CASE PollerStep
      BY <3>1, TickCounts, BeatCounts, PollCounts, AcceptCounts, RejectCounts DEF PollerStep
    <3>2. QED
      BY <1>1, <3>1, ReceiveCounts, TaskCounts, OtherCounts DEF WNext
  <2>5. used' \in 0..SlotMax /\ leaked' \in 0..SlotMax
    <3>1. (used \in Nat /\ used <= SlotMax /\ leaked \in Nat /\ Shape /\ Books
             => used \in 0..SlotMax /\ leaked \in 0..SlotMax)'
      BY CountsAreSlots, PTL
    <3>2. QED
      BY <2>2, <2>4, <3>1 DEF Counts
  <2>6. WTypeOK'
    BY <2>1, <2>2, <2>5 DEF WTypeOK, Shape, TaskRow
  <2>7. QED
    BY <2>1, <2>3, <2>4, <2>6 DEF WInv, Counts
<1>2. CASE UNCHANGED wvars
  <2>1. UNCHANGED <<pc, todo, offer, used, inFlight, leaked, dropped, task, ran, record, sweep,
                    complete, published, wire, faults, vars>>
    BY <1>2 DEF wvars, poller_vars, task_vars, held_vars, net_vars
  <2>2. IInv' /\ TypeOK'
    BY <2>1, NextIInv DEF WInv, IInv
  <2>3. EInv'
    <3>1. \A e \in Exec : Same(e) /\ Quiet(e)
      BY <2>1, UnchangedQuiet DEF Same, Wire
    <3>2. QED
      BY <3>1, Frame
  <2>4. ByWorkers' /\ Books'
    BY <2>1 DEF WInv, ByWorkers, Books, Orphans, vars
  <2>5. WTypeOK'
    BY <2>1, <2>2 DEF WInv, WTypeOK
  <2>6. QED
    BY <2>2, <2>3, <2>4, <2>5 DEF WInv
<1>3. QED
  BY <1>1, <1>2

\* The node starts with nothing running.
LEMMA InitWInv == WInit => WInv
<1> SUFFICES ASSUME WInit PROVE WInv
  OBVIOUS
<1>1. IInv /\ TypeOK
  BY InitIInv DEF WInit, IInv
<1>2. /\ 0 \in 0..SlotMax /\ 0 \in 0..MaxFaults /\ SlotMax > 0
      /\ NoOffer \notin Exec
  BY WorkerAssumption DEF WorkerAssumption, Exec
<1>3. WTypeOK
  <2>1. task \in [Exec -> TaskRow]
    BY TaskRows DEF WInit
  <2>2. QED
    BY <1>1, <1>2, <2>1 DEF WInit, WTypeOK, TaskRow, Record
<1>4. \A i \in Job : \A m \in Attempt :
        /\ att[i][m].token = NoToken /\ hist[i][m].issued = 0 /\ claims[i] = 0
        /\ hist[i][m].by = 0 /\ att[i][m].status \notin Terminal \union {"review"}
  <2>1. ASSUME NEW i \in Job, NEW m \in Attempt
        PROVE  /\ att[i][m].token = NoToken /\ att[i][m].status \notin Terminal \union {"review"}
    <3>1. att[i][m] = IF m = 1 THEN [NoAttempt EXCEPT !.status = InitStatus(i)] ELSE NoAttempt
      BY DEF WInit, Init
    <3>2. QED
      BY <3>1 DEF NoAttempt, InitStatus, Terminal
  <2>2. QED
    BY <2>1 DEF WInit, Init, NoHistory, NoToken
<1>5. ByWorkers
  BY <1>4 DEF ByWorkers
<1>6. ASSUME NEW e \in Exec PROVE Stands(e) /\ Truthful(e)
  <2>1. /\ task[e].at = "none" /\ task[e].says = "none" /\ record[e] = "none"
        /\ sweep[e] = "idle" /\ complete[e] = "none" /\ offer # e /\ wire = {}
        /\ inFlight = {} /\ ran = {} /\ published = {}
    BY <1>2, TaskRows DEF WInit
  <2>2. ~InReview(e) /\ ~Won(e)
    BY <1>4, ExecParts DEF InReview, Won, AttemptOf, Terminal
  <2>3. QED
    BY <2>1, <2>2 DEF Stands, Truthful, Wire, Mail, Posting
<1>7. Books
  <2>1. Orphans = {}
    BY TaskRows DEF WInit, Orphans, Executor
  <2>2. QED
    BY <2>1, FS_EmptySet DEF WInit, Books
<1>8. QED
  BY <1>1, <1>3, <1>5, <1>6, <1>7 DEF WInv, EInv

\* The invariant holds of every behaviour; fairness is not needed for it.
LEMMA NodeInvariance == WSpec => []WInv
BY InitWInv, NextWInv, PTL DEF WSpec

\* The node's records keep their shapes, and never more slots are taken than there
\* are.
THEOREM NodeTypes == WSpec => []WTypeOK
<1>1. WInv => WTypeOK
  BY DEF WInv
<1>2. QED
  BY <1>1, NodeInvariance, PTL

\* A worker and its manager do nothing the job store does not allow: what is proved
\* of the store holds of them.
THEOREM NodeImplementsStore == WSpec => Spec
<1>1. WInit => Init
  BY DEF WInit
<1>2. WInv /\ [WNext]_wvars => [Next]_vars
  BY NodeStep DEF wvars
<1>3. QED
  BY <1>1, <1>2, NodeInvariance, PTL DEF WSpec, Spec

\* Every slot is given back once, executors do not outnumber slots, and no attempt
\* is executed twice at once, through every cancellation, retry and death.
THEOREM SlotsAreConserved == WSpec => []SlotsConserved
<1>1. WInv => SlotsConserved
  <2> SUFFICES ASSUME WInv PROVE SlotsConserved
    OBVIOUS
  <2> DEFINE S == {e \in Exec \ dropped : task[e].at \in Executor}
  <2>1. S \subseteq Orphans \union inFlight /\ S \subseteq Exec
    BY DEF Orphans
  <2>2. /\ IsFiniteSet(Orphans \union inFlight)
        /\ Cardinality(Orphans \union inFlight)
             = Cardinality(Orphans) + Cardinality(inFlight)
                 - Cardinality(Orphans \intersect inFlight)
    BY BooksNow, FS_Union
  <2>3. Cardinality(Orphans \intersect inFlight) \in Nat
    <3>1. Orphans \intersect inFlight \subseteq Exec
      BY DEF Orphans
    <3>2. QED
      BY <3>1, ExecsFinite
  <2>4. Cardinality(S) <= Cardinality(Orphans \union inFlight) /\ Cardinality(S) \in Nat
    BY <2>1, <2>2, FS_Subset, ExecsFinite
  <2>5. Cardinality(S) <= SlotMax
    BY <2>2, <2>3, <2>4, BooksNow DEF Books
  <2>6. ASSUME NEW e \in Exec, NEW f \in Exec, task[e].at \in Working, task[f].at \in Working,
               SameAttempt(e, f)
        PROVE  e = f
    BY <2>6, Here, BegunOnce, WorkingIs DEF Stands
  <2>7. used = Cardinality(inFlight) + leaked + (IF pc = "accept" THEN 1 ELSE 0)
    BY BooksNow DEF Books
  <2>8. QED
    BY <2>5, <2>6, <2>7 DEF SlotsConserved
<1>2. QED
  BY <1>1, NodeInvariance, PTL

\* A success of the worker that the house believes in was said by the executor or is
\* published output, and nothing undecided is published.
THEOREM OutcomesAreReal == WSpec => []OutcomeIsReal
<1>1. WInv => OutcomeIsReal
  BY Here DEF OutcomeIsReal, Truthful, Won, Decided, InReview
<1>2. QED
  BY <1>1, NodeInvariance, PTL

\* A job in review has its output, whatever died and whatever arrives late, unless the
\* manager turned the worker away or the review is past its deadline.
THEOREM ReviewedOutputIsKept == WSpec => []ReviewKeepsOutput
<1>1. WInv => ReviewKeepsOutput
  BY Here DEF ReviewKeepsOutput, Truthful, InReview, Accounted, OnDisk, Lost, Forsaken, Spent
<1>2. QED
  BY <1>1, NodeInvariance, PTL

=============================================================================
