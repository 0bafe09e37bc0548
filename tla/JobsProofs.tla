----------------------------- MODULE JobsProofs -----------------------------
(***************************************************************************)
(* Proofs about the job store, for any number of jobs, attempts, claims,   *)
(* nodes and workers, any acyclic dependency graph and any policies.       *)
(***************************************************************************)
EXTENDS Jobs, Functions, FiniteSetTheorems, TLAPS

-----------------------------------------------------------------------------
(* The operators the actions are built from *)

\* An attempt row that ends stays an attempt row.
LEMMA EndedType ==
  ASSUME NEW a \in AttRow, NEW s \in Status
  PROVE  /\ Ended(a, s) \in AttRow
         /\ Ended(a, s).status = s /\ Ended(a, s).token = NoToken
         /\ Ended(a, s).lease = 0 /\ Ended(a, s).reserved = FALSE
<1>1. 0 \in 0..LeaseTTL
  BY JobsAssumption DEF JobsAssumption
<1>2. QED
  BY <1>1 DEF Ended, AttRow, NoToken

\* Inserting a dispatch keeps the rows of a job rows.
LEMMA EnqueuedType ==
  ASSUME NEW rows \in [Row -> RowState]
  PROVE  Enqueued(rows) \in [Row -> RowState]
BY DEF Enqueued, RowState

\* Giving a slot back leaves a count of slots.
LEMMA ReleasedType ==
  ASSUME active \in [Node -> Nat], NEW h, NEW a \in AttRow, CanRelease(h, a)
  PROVE  Released(h, a) \in [Node -> Nat]
<1>1. a.reserved \in BOOLEAN
  BY DEF AttRow
<1>2. CASE a.reserved
  <2>1. active[ReleaseRow(h, a)] > 0
    BY <1>2 DEF CanRelease
  <2>2. \A m \in Node : active[m] > 0 => active[m] - 1 \in Nat
    OBVIOUS
  <2>3. QED
    BY <1>2, <2>1, <2>2 DEF Released
<1>3. CASE ~a.reserved
  BY <1>3 DEF Released
<1>4. QED
  BY <1>1, <1>2, <1>3

\* Whatever set of jobs a step moves, its size is a number.
LEMMA JobSubset ==
  ASSUME NEW S \in SUBSET Job
  PROVE  Cardinality(S) \in Nat
<1>1. 1 \in Int /\ NJobs \in Int
  BY JobsAssumption DEF JobsAssumption
<1>2. IsFiniteSet(Job)
  BY <1>1, FS_Interval DEF Job
<1>3. IsFiniteSet(S)
  BY <1>2, FS_Subset
<1>4. QED
  BY <1>3, FS_CardinalityType

\* Only blocked jobs are touched when an end is told to the dependents.
LEMMA NotifiedAreBlocked ==
  ASSUME NEW j \in Job, NEW s
  PROVE  /\ CancelledBy(j, s) \subseteq Job /\ UnlockedBy(j, s) \subseteq Job
         /\ \A c \in CancelledBy(j, s) \union UnlockedBy(j, s) : job[c].status = "blocked"
         /\ CancelledBy(j, s) \intersect UnlockedBy(j, s) = {}
BY DEF CancelledBy, UnlockedBy, Dependents

-----------------------------------------------------------------------------
(* Types *)

\* Ending a job and its attempt, with the cascade to its dependents, keeps every
\* row in its domain.
LEMMA CompleteLockedType ==
  ASSUME TypeOK, NEW h \in Node, NEW j \in Job, NEW n \in Attempt, NEW s \in Terminal,
         NEW how \in {"call", "operator"}, NEW by \in Token \union {NoToken},
         CompleteLocked(h, j, n, s, how, by)
  PROVE  TypeOK'
<1> DEFINE gone == CancelledBy(j, s)
           free == UnlockedBy(j, s)
<1>1. active' \in [Node -> Nat]
  <2>1. att[j][n] \in AttRow
    BY DEF TypeOK
  <2>2. CanRelease(h, att[j][n]) /\ active' = Released(h, att[j][n])
    BY DEF CompleteLocked
  <2>3. QED
    BY <2>1, <2>2, ReleasedType DEF TypeOK
<1>2. job' \in [Job -> JobRow]
  <2>1. \A i \in Job : job[i] \in JobRow
    BY DEF TypeOK
  <2>2. \A i \in Job : /\ [job[i] EXCEPT !.status = s] \in JobRow
                      /\ [job[i] EXCEPT !.status = "cancelled"] \in JobRow
                      /\ [job[i] EXCEPT !.status = "queued", !.aged = FALSE] \in JobRow
    BY <2>1 DEF JobRow, Status, Terminal
  <2>3. QED
    BY <2>1, <2>2 DEF CompleteLocked
<1>3. att' \in [Job -> [Attempt -> AttRow]]
  <2>1. \A i \in Job : att[i] \in [Attempt -> AttRow] /\ job[i].cur \in Attempt
    BY DEF TypeOK, JobRow
  <2>2. \A a \in AttRow : /\ Ended(a, s) \in AttRow /\ Ended(a, "cancelled") \in AttRow
                          /\ [a EXCEPT !.status = "queued"] \in AttRow
    BY EndedType DEF Terminal, Status, AttRow
  <2>3. \A i \in Job :
          /\ [att[i] EXCEPT ![n] = Ended(@, s)] \in [Attempt -> AttRow]
          /\ [att[i] EXCEPT ![job[i].cur] = Ended(@, "cancelled")] \in [Attempt -> AttRow]
          /\ [att[i] EXCEPT ![job[i].cur].status = "queued"] \in [Attempt -> AttRow]
    BY <2>1, <2>2
  <2>4. QED
    BY <2>1, <2>3 DEF CompleteLocked
<1>4. dispatch' \in [Job -> [Row -> RowState]]
  <2>1. \A i \in Job : dispatch[i] \in [Row -> RowState]
    BY DEF TypeOK
  <2>2. QED
    BY <2>1, EnqueuedType DEF CompleteLocked
<1>5. outbox' \in [Job -> [Attempt -> Nat]]
  <2>1. \A i \in Job : outbox[i] \in [Attempt -> Nat] /\ job[i].cur \in Attempt
    BY DEF TypeOK, JobRow
  <2>2. \A i \in Job : [outbox[i] EXCEPT ![job[i].cur] = @ + 1] \in [Attempt -> Nat]
    BY <2>1
  <2>3. QED
    BY <2>1, <2>2 DEF CompleteLocked
<1>6. hist' \in [Job -> [Attempt -> HistRow]]
  <2>1. \A i \in Job : hist[i] \in [Attempt -> HistRow] /\ job[i].cur \in Attempt
    BY DEF TypeOK, JobRow
  <2>2. \A r \in HistRow : /\ [[r EXCEPT !.how = how] EXCEPT !.by = by] \in HistRow
                          /\ [r EXCEPT !.how = "cascade"] \in HistRow
    BY DEF HistRow
  <2>3. \A i \in Job :
          /\ [hist[i] EXCEPT ![n].how = how, ![n].by = by] \in [Attempt -> HistRow]
          /\ [hist[i] EXCEPT ![job[i].cur].how = "cascade"] \in [Attempt -> HistRow]
    BY <2>1, <2>2
  <2>4. QED
    BY <2>1, <2>3 DEF CompleteLocked
<1>7. UNCHANGED <<claims, capacity>>
  BY DEF CompleteLocked
<1>8. QED
  BY <1>1, <1>2, <1>3, <1>4, <1>5, <1>6, <1>7 DEF TypeOK

\* The initial rows.
LEMMA InitTypeOK == Init => TypeOK
<1> SUFFICES ASSUME Init PROVE TypeOK
  OBVIOUS
<1>1. 1 \in Attempt /\ 0 \in 0..LeaseTTL /\ 0 \in 0..MaxClaim
  BY JobsAssumption DEF JobsAssumption, Attempt
<1>2. \A j \in Job : InitStatus(j) \in Status
  BY DEF InitStatus, Status
<1>3. NoAttempt \in AttRow /\ \A j \in Job : [NoAttempt EXCEPT !.status = InitStatus(j)] \in AttRow
  BY <1>1, <1>2 DEF NoAttempt, AttRow
<1>4. NoHistory \in HistRow
  BY DEF NoHistory, HistRow
<1>5. job \in [Job -> JobRow]
  <2>1. PICK o \in Orders :
          job = [j \in Job |-> [place |-> o[j], status |-> InitStatus(j), cur |-> 1,
                                decision |-> "none", due |-> FALSE, aged |-> FALSE]]
    BY DEF Init
  <2>2. o \in [Job -> Nat]
    BY JobsAssumption DEF JobsAssumption
  <2> QED
    BY <1>1, <1>2, <2>1, <2>2 DEF JobRow
<1>6. att \in [Job -> [Attempt -> AttRow]]
  BY <1>3 DEF Init
<1>7. capacity \in [Node -> Nat \ {0}]
  BY JobsAssumption DEF Init, JobsAssumption
<1>8. claims \in [Job -> 0..MaxClaim]
  BY <1>1 DEF Init
<1>9. QED
  BY <1>4, <1>5, <1>6, <1>7, <1>8 DEF Init, TypeOK, RowState

\* A claim writes a row with a fresh token.
LEMMA ClaimType ==
  ASSUME TypeOK, NEW h \in Node, NEW j \in Job, NEW runner \in Node \union Worker,
         Claim(h, j, runner)
  PROVE  TypeOK'
<1> DEFINE k == claims[j] + 1
           n == job[j].cur
           new == [status |-> "provisioning", machine |-> runner, token |-> k,
                   lease |-> LeaseTTL, reserved |-> TRUE]
<1>1. n \in Attempt
  BY DEF TypeOK, JobRow
<1>2. claims[j] \in 0..MaxClaim /\ claims[j] < MaxClaim
  BY DEF TypeOK, Claim
<1>3. k \in Token /\ k \in 0..MaxClaim
  BY <1>2, JobsAssumption DEF Token, JobsAssumption
<1>4. new \in AttRow
  BY <1>3, JobsAssumption DEF AttRow, Status, Active, JobsAssumption
<1>5. att' \in [Job -> [Attempt -> AttRow]]
  <2>1. att' = [att EXCEPT ![j][n] = new]
    BY DEF Claim
  <2>2. QED
    BY <1>1, <1>4, <2>1 DEF TypeOK
<1>6. hist' \in [Job -> [Attempt -> HistRow]]
  <2> DEFINE past == [[hist[j][n] EXCEPT !.issued = k] EXCEPT !.home = h]
  <2>0. hist[j][n] \in HistRow /\ k \in Token /\ h \in Node
    BY <1>1, <1>3 DEF TypeOK
  <2> HIDE DEF k, n
  <2>1. past \in HistRow
    BY <2>0 DEF HistRow
  <2>2. hist' = [hist EXCEPT ![j][n].issued = k, ![j][n].home = h]
    BY DEF Claim, k, n
  <2>3. QED
    BY <1>1, <2>1, <2>2 DEF TypeOK
<1>7. claims' \in [Job -> 0..MaxClaim]
  BY <1>3 DEF Claim, TypeOK
<1>8. active' \in [Node -> Nat]
  BY DEF Claim, TypeOK
<1>9. job' \in [Job -> JobRow]
  <2>1. [job[j] EXCEPT !.status = "provisioning"] \in JobRow
    BY DEF TypeOK, JobRow, Status, Active
  <2>2. QED
    BY <2>1 DEF Claim, TypeOK
<1>10. UNCHANGED <<capacity, dispatch, outbox>>
  BY DEF Claim
<1>11. QED
  BY <1>5, <1>6, <1>7, <1>8, <1>9, <1>10 DEF TypeOK

\* A call, whoever sends it and however late, keeps every row in its domain.
LEMMA CallType ==
  ASSUME TypeOK, NEW j \in Job, NEW n \in Attempt, NEW k \in Token, Call(j, n, k)
  PROVE  TypeOK'
<1>0. att[j][n] \in AttRow /\ job[j] \in JobRow /\ LeaseTTL \in 0..LeaseTTL /\ 0 \in 0..LeaseTTL
  BY JobsAssumption DEF TypeOK, JobsAssumption
<1>1. CASE Heartbeat(j, n, k)
  BY <1>0, <1>1 DEF Heartbeat, TypeOK, AttRow
<1>2. CASE Renew(j, n, k)
  BY <1>0, <1>2 DEF Renew, TypeOK, AttRow
<1>3. CASE MarkRunning(j, n, k)
  <2>1. [att[j][n] EXCEPT !.status = "running"] \in AttRow
    BY <1>0 DEF AttRow, Status, Active
  <2>2. [job[j] EXCEPT !.status = "running"] \in JobRow
    BY <1>0 DEF JobRow, Status, Active
  <2>3. QED
    BY <1>3, <2>1, <2>2 DEF MarkRunning, TypeOK
<1>4. ASSUME NEW h \in Node, Unclaim(h, j, n, k) PROVE TypeOK'
  <2>1. Ended(att[j][n], "queued") \in AttRow
    BY <1>0, EndedType DEF Status
  <2>2. [job[j] EXCEPT !.status = "queued"] \in JobRow
    BY <1>0 DEF JobRow, Status
  <2>3. active' \in [Node -> Nat]
    BY <1>0, <1>4, ReleasedType DEF Unclaim, TypeOK
  <2>4. QED
    BY <1>4, <2>1, <2>2, <2>3 DEF Unclaim, TypeOK
<1>5. ASSUME NEW h \in Node, Hold(h, j, n, k) PROVE TypeOK'
  <2>1. [att[j][n] EXCEPT !.status = "review", !.lease = 0, !.reserved = FALSE] \in AttRow
    BY <1>0 DEF AttRow, Status
  <2>2. [job[j] EXCEPT !.status = "review", !.decision = "undecided", !.due = FALSE] \in JobRow
    BY <1>0 DEF JobRow, Status
  <2>3. active' \in [Node -> Nat]
    BY <1>0, <1>5, ReleasedType DEF Hold, TypeOK
  <2>4. QED
    BY <1>5, <2>1, <2>2, <2>3 DEF Hold, TypeOK
<1>6. ASSUME NEW h \in Node, NEW s \in {"succeeded", "failed"}, Complete(h, j, n, k, s)
      PROVE  TypeOK'
  <2>1. s \in Terminal
    BY DEF Terminal
  <2>2. CompleteLocked(h, j, n, s, "call", k)
    BY <1>6 DEF Complete
  <2>3. QED
    BY <2>1, <2>2, CompleteLockedType
<1>7. CallNode(att[j][n]) \subseteq Node
  BY JobsAssumption DEF CallNode, JobsAssumption
<1>8. QED
  BY <1>1, <1>2, <1>3, <1>4, <1>5, <1>6, <1>7 DEF Call

\* The sweep of expired leases, which ends any number of jobs at once.
LEMMA RecoverStaleType ==
  ASSUME TypeOK, NEW h \in Node, RecoverStale(h)
  PROVE  TypeOK'
<1> DEFINE S == {j \in Job : Stale(j)}
           on(m) == {j \in S : LET a == att[j][job[j].cur]
                                IN a.reserved /\ ReleaseRow(h, a) = m}
<1>0. \A j \in Job : job[j] \in JobRow /\ job[j].cur \in Attempt /\ att[j] \in [Attempt -> AttRow]
  BY DEF TypeOK, JobRow
<1>1. active' \in [Node -> Nat]
  <2>1. \A m \in Node : on(m) \in SUBSET Job
    OBVIOUS
  <2>2. \A m \in Node : Cardinality(on(m)) \in Nat
    BY <2>1, JobSubset
  <2>3. \A m \in Node : Cardinality(on(m)) <= active[m]
    BY DEF RecoverStale
  <2>4. active' = [m \in Node |-> active[m] - Cardinality(on(m))]
    BY DEF RecoverStale
  <2>5. \A m \in Node : active[m] \in Nat
    BY DEF TypeOK
  <2> HIDE DEF on
  <2>6. QED
    BY <2>2, <2>3, <2>4, <2>5
<1>2. job' \in [Job -> JobRow]
  <2>1. \A j \in Job : [job[j] EXCEPT !.status = "failed"] \in JobRow
    BY <1>0 DEF JobRow, Status, Terminal
  <2>2. QED
    BY <1>0, <2>1 DEF RecoverStale
<1>3. att' \in [Job -> [Attempt -> AttRow]]
  <2>1. \A a \in AttRow : Ended(a, "failed") \in AttRow
    BY EndedType DEF Status, Terminal
  <2>2. \A j \in Job : [att[j] EXCEPT ![job[j].cur] = Ended(@, "failed")] \in [Attempt -> AttRow]
    BY <1>0, <2>1
  <2>3. QED
    BY <1>0, <2>2 DEF RecoverStale
<1>4. dispatch' \in [Job -> [Row -> RowState]]
  BY DEF RecoverStale, TypeOK, RowState
<1>5. outbox' \in [Job -> [Attempt -> Nat]]
  BY <1>0 DEF RecoverStale, TypeOK
<1>6. hist' \in [Job -> [Attempt -> HistRow]]
  <2>1. \A r \in HistRow : [r EXCEPT !.how = "sweep"] \in HistRow
    BY DEF HistRow
  <2>2. \A j \in Job : [hist[j] EXCEPT ![job[j].cur].how = "sweep"] \in [Attempt -> HistRow]
    BY <1>0, <2>1 DEF TypeOK
  <2>3. QED
    BY <2>2 DEF RecoverStale, TypeOK
<1>7. UNCHANGED <<claims, capacity>>
  BY DEF RecoverStale
<1>8. QED
  BY <1>1, <1>2, <1>3, <1>4, <1>5, <1>6, <1>7 DEF TypeOK

\* The operations on a whole job.
LEMMA HouseType ==
  ASSUME TypeOK, NEW h \in Node, NEW j \in Job, House(h, j)
  PROVE  TypeOK'
<1> DEFINE n == job[j].cur
<1>0. n \in Attempt /\ job[j] \in JobRow /\ att[j][n] \in AttRow
  BY DEF TypeOK, JobRow
<1>1. ASSUME NEW s \in Terminal, CompleteLocked(h, j, n, s, "operator", NoToken) PROVE TypeOK'
  BY <1>0, <1>1, CompleteLockedType
<1>2. CASE Reject(h, j) \/ ExpireReview(h, j) \/ Cancel(h, j)
  BY <1>1, <1>2 DEF Reject, ExpireReview, Cancel, Terminal
<1>3. CASE RecoverOrphan(h, j)
  <2>1. active' \in [Node -> Nat]
    BY <1>0, <1>3, ReleasedType DEF RecoverOrphan, TypeOK
  <2>2. Ended(att[j][n], "cancelled") \in AttRow
    BY <1>0, EndedType DEF Status, Terminal
  <2>3. [job[j] EXCEPT !.status = "cancelled"] \in JobRow
    BY <1>0 DEF JobRow, Status, Terminal
  <2>4. [hist[j][n] EXCEPT !.how = "sweep"] \in HistRow
    <3>1. hist[j][n] \in HistRow
      BY <1>0 DEF TypeOK
    <3>2. QED
      BY <3>1 DEF HistRow
  <2>5. QED
    BY <1>0, <1>3, <2>1, <2>2, <2>3, <2>4 DEF RecoverOrphan, TypeOK
<1>4. QED
  BY <1>2, <1>3 DEF House

\* A new attempt takes the next number.
LEMMA RetryType ==
  ASSUME TypeOK, NEW j \in Job, Retry(j)
  PROVE  TypeOK'
<1> DEFINE n == job[j].cur + 1
<1>1. n \in Attempt
  BY JobsAssumption DEF Retry, TypeOK, JobRow, Attempt, JobsAssumption
<1>2. [NoAttempt EXCEPT !.status = "queued"] \in AttRow
  <2>1. 0 \in 0..LeaseTTL
    BY JobsAssumption DEF JobsAssumption
  <2>2. QED
    BY <2>1 DEF NoAttempt, AttRow, Status
<1>3. [job[j] EXCEPT !.status = "queued", !.cur = n, !.decision = "none", !.due = FALSE,
                      !.aged = FALSE] \in JobRow
  <2>1. job[j] \in JobRow
    BY DEF TypeOK
  <2> HIDE DEF n
  <2> QED
    BY <1>1, <2>1 DEF JobRow, Status
<1>4. Enqueued(dispatch[j]) \in [Row -> RowState]
  BY EnqueuedType DEF TypeOK
<1>5. QED
  BY <1>1, <1>2, <1>3, <1>4 DEF Retry, TypeOK

\* Approvals and the passing of time.
LEMMA MomentType ==
  ASSUME TypeOK, NEW j \in Job, Approve(j) \/ Time(j)
  PROVE  TypeOK'
<1> DEFINE n == job[j].cur
<1>0. n \in Attempt /\ job[j] \in JobRow /\ att[j][n] \in AttRow
  BY DEF TypeOK, JobRow
<1>1. CASE Approve(j)
  <2>1. [job[j] EXCEPT !.decision = "approve"] \in JobRow
    BY <1>0 DEF JobRow
  <2>2. QED
    BY <1>1, <2>1 DEF Approve, TypeOK
<1>2. CASE LeaseAges(j)
  <2>1. att[j][n].lease \in 0..LeaseTTL /\ att[j][n].lease > 0
    BY <1>0, <1>2 DEF LeaseAges, AttRow
  <2>2. att[j][n].lease - 1 \in 0..LeaseTTL
    BY <2>1, JobsAssumption DEF JobsAssumption
  <2>3. [att[j][n] EXCEPT !.lease = @ - 1] \in AttRow
    BY <1>0, <2>2 DEF AttRow
  <2>4. QED
    BY <1>0, <1>2, <2>3 DEF LeaseAges, TypeOK
<1>3. CASE ReviewDue(j)
  <2>1. [job[j] EXCEPT !.due = TRUE] \in JobRow
    BY <1>0 DEF JobRow
  <2>2. QED
    BY <1>3, <2>1 DEF ReviewDue, TypeOK
<1>4. CASE GracePasses(j)
  <2>1. [job[j] EXCEPT !.aged = TRUE] \in JobRow
    BY <1>0 DEF JobRow
  <2>2. QED
    BY <1>4, <2>1 DEF GracePasses, TypeOK
<1>5. QED
  BY <1>1, <1>2, <1>3, <1>4 DEF Time

\* What the dispatcher does to a job, and the moves of its queue.
LEMMA DispatcherType ==
  ASSUME TypeOK, NEW h \in Direct, NEW j \in Job, ClaimDirect(h, j) \/ FailCurrent(h, j)
  PROVE  TypeOK'
<1>1. h \in Node
  BY JobsAssumption DEF JobsAssumption
<1>2. CASE ClaimDirect(h, j)
  BY <1>1, <1>2, ClaimType DEF ClaimDirect
<1>3. CASE FailCurrent(h, j)
  <2>1. PICK n \in Attempt : Complete(h, j, n, att[j][n].token, "failed")
    BY <1>3 DEF FailCurrent
  <2>2. att[j][n].token \in Token \union {NoToken}
    BY DEF TypeOK, AttRow
  <2>3. QED
    BY <1>1, <2>1, <2>2, CompleteLockedType DEF Complete, Terminal
<1>4. QED
  BY <1>2, <1>3

\* The queue moves a row from one state of a row to another.
LEMMA DispatchMovesType ==
  ASSUME TypeOK, NEW j \in Job, NEW r \in Row, DispatchMoves(j, r)
  PROVE  TypeOK'
BY DEF DispatchMoves, TypeOK, RowState

\* The boot of a node keeps a budget that is not zero.
LEMMA SetCapacityType ==
  ASSUME TypeOK, NEW h \in Node, NEW c \in Budget, SetCapacity(h, c)
  PROVE  TypeOK'
<1>1. c \in Nat \ {0} /\ active[h] \in Nat
  BY JobsAssumption DEF JobsAssumption, TypeOK
<1>2. (IF c >= active[h] THEN c ELSE active[h]) \in Nat \ {0}
  BY <1>1
<1>3. QED
  BY <1>2 DEF SetCapacity, TypeOK

\* Every step keeps every row in its domain.
LEMMA NextTypeOK == TypeOK /\ [Next]_vars => TypeOK'
<1> SUFFICES ASSUME TypeOK, [Next]_vars PROVE TypeOK'
  OBVIOUS
<1>1. ASSUME NEW h \in Node, NEW w \in Worker, NEW j \in Job, ClaimNext(h, w, j) PROVE TypeOK'
  BY <1>1, ClaimType DEF ClaimNext
<1>2. CASE StoreNext
  BY <1>1, <1>2, CallType, RetryType, MomentType, HouseType, RecoverStaleType, SetCapacityType
     DEF StoreNext
<1>3. CASE UNCHANGED vars
  BY <1>3 DEF vars, TypeOK
<1>4. QED
  BY <1>2, <1>3, DispatcherType, DispatchMovesType DEF Next

\* The rows of the store stay in their columns' domains.
THEOREM TypeCorrect == Spec => []TypeOK
BY InitTypeOK, NextTypeOK, PTL DEF Spec

-----------------------------------------------------------------------------
(* The inductive invariant behind the safety properties *)

\* What job row b, attempt row a of number n, the claims c of the job, the
\* announcements o and the history p of the attempt have to do with each other.
\* Beyond the four properties it says that only an ended attempt has a cause
\* of its end: without it a claim could put a fresh token behind an old end.
Good(b, n, a, c, o, p) ==
  /\ n = b.cur => a.status = b.status
  /\ n < b.cur => a.status \in Unsuccessful
  /\ n > b.cur => a.status = "none"
  /\ a.reserved <=> a.status \in Active
  /\ a.token # NoToken <=> a.status \in Active \union {"review"}
  /\ a.lease > 0 => a.status \in Active
  /\ a.token # NoToken => a.token = p.issued /\ a.token <= c
  /\ p.how = "call" => p.by = p.issued
  /\ p.how # "none" => a.status \in Terminal
  /\ o = IF a.status \in Terminal THEN 1 ELSE 0

RowsGood == \A i \in Job : \A m \in Attempt :
              Good(job[i], m, att[i][m], claims[i], outbox[i][m], hist[i][m])

IInv == TypeOK /\ RowsGood

\* The invariant is the four properties and the cause of an end.
LEMMA GoodIsSafe ==
  ASSUME IInv
  PROVE  JobMirrorsAttempt /\ LeaseShape /\ FencedOutcome /\ AnnouncedOnce
BY DEF IInv, RowsGood, Good, JobMirrorsAttempt, LeaseShape, FencedOutcome, AnnouncedOnce

\* Ending the current attempt together with its job.
LEMMA GoodEnd ==
  ASSUME NEW b \in JobRow, NEW a \in AttRow, NEW c \in Nat, NEW o, NEW p \in HistRow,
         Good(b, b.cur, a, c, o, p), b.status \notin Terminal,
         NEW s \in Terminal, NEW how \in {"call", "operator", "sweep", "cascade"},
         NEW by \in Token \union {NoToken}, how = "call" => by = p.issued
  PROVE  /\ Good([b EXCEPT !.status = s], b.cur, Ended(a, s), c, o + 1,
                 [p EXCEPT !.how = how, !.by = by])
         /\ how # "call" => Good([b EXCEPT !.status = s], b.cur, Ended(a, s), c, o + 1,
                                 [p EXCEPT !.how = how])
<1>1. /\ Ended(a, s).status = s /\ Ended(a, s).token = NoToken
      /\ Ended(a, s).lease = 0 /\ Ended(a, s).reserved = FALSE
  BY EndedType DEF Status
<1>2. /\ [b EXCEPT !.status = s].status = s /\ [b EXCEPT !.status = s].cur = b.cur
      /\ b.cur \in Nat
  BY JobsAssumption DEF JobRow, Attempt
<1>3. a.status \notin Terminal /\ o = 0
  BY DEF Good
<1>4. s \notin Active /\ s # "review" /\ s # "none"
  BY DEF Terminal, Active
<1> DEFINE q == [p EXCEPT !.how = how, !.by = by]
           r == [p EXCEPT !.how = how]
<1>5. q.how = how /\ q.by = by /\ q.issued = p.issued /\ r.how = how
  BY DEF HistRow
<1> HIDE DEF q, r
<1>6. Good([b EXCEPT !.status = s], b.cur, Ended(a, s), c, o + 1, q)
  BY <1>1, <1>2, <1>3, <1>4, <1>5 DEF Good
<1>7. how # "call" => Good([b EXCEPT !.status = s], b.cur, Ended(a, s), c, o + 1, r)
  BY <1>1, <1>2, <1>3, <1>4, <1>5 DEF Good
<1>8. QED
  BY <1>6, <1>7 DEF q, r

\* A row that is not the current attempt does not care for the job's status.
LEMMA GoodOther ==
  ASSUME NEW b, NEW b2, NEW m, NEW a, NEW c, NEW o, NEW p,
         Good(b, m, a, c, o, p), m # b.cur, b2.cur = b.cur
  PROVE  Good(b2, m, a, c, o, p)
BY DEF Good

\* An attempt that is active or in review is the current one, in the status of
\* its job.
LEMMA LiveIsCurrent ==
  ASSUME IInv, NEW j \in Job, NEW n \in Attempt,
         att[j][n].status \in Active \union {"review"}
  PROVE  n = job[j].cur /\ job[j].status = att[j][n].status
<1>1. Good(job[j], n, att[j][n], claims[j], outbox[j][n], hist[j][n])
  BY DEF IInv, RowsGood
<1>2. n \in Int /\ job[j].cur \in Int
  BY DEF IInv, TypeOK, JobRow, Attempt
<1>3. QED
  BY <1>1, <1>2 DEF Good, Active, Unsuccessful

\* The rows one by one: what TypeOK says of each.
LEMMA RowTypes ==
  ASSUME TypeOK, NEW i \in Job
  PROVE  /\ job[i] \in JobRow /\ job[i].cur \in Attempt /\ claims[i] \in Nat
         /\ att[i] \in [Attempt -> AttRow] /\ outbox[i] \in [Attempt -> Nat]
         /\ hist[i] \in [Attempt -> HistRow]
<1>1. claims[i] \in 0..MaxClaim
  BY DEF TypeOK
<1>2. QED
  BY <1>1, JobsAssumption DEF TypeOK, JobRow, JobsAssumption

\* Ending a job keeps the invariant when it ends its current attempt, for the
\* job, for every dependent it cancels and for every dependent it unlocks.
LEMMA CompleteLockedGood ==
  ASSUME IInv, NEW h \in Node, NEW j \in Job, NEW s \in Terminal,
         job[j].status \notin Terminal,
         NEW how \in {"call", "operator"}, NEW by \in Token \union {NoToken},
         how = "call" => by = hist[j][job[j].cur].issued,
         CompleteLocked(h, j, job[j].cur, s, how, by)
  PROVE  IInv'
<1> DEFINE n == job[j].cur
           gone == CancelledBy(j, s)
           free == UnlockedBy(j, s)
<1>0. TypeOK /\ RowsGood
  BY DEF IInv
<1>1. TypeOK'
  BY <1>0, RowTypes, CompleteLockedType
<1>2. ASSUME NEW i \in Job, NEW m \in Attempt
      PROVE  Good(job'[i], m, att'[i][m], claims'[i], outbox'[i][m], hist'[i][m])
  <2>0. /\ Good(job[i], m, att[i][m], claims[i], outbox[i][m], hist[i][m])
        /\ job[i] \in JobRow /\ job[i].cur \in Attempt /\ claims[i] \in Nat
        /\ att[i] \in [Attempt -> AttRow] /\ outbox[i] \in [Attempt -> Nat]
        /\ hist[i] \in [Attempt -> HistRow]
        /\ claims'[i] = claims[i]
    BY <1>0, RowTypes DEF RowsGood, CompleteLocked
  <2>1. CASE i = j
    <3>1. /\ job'[i] = [job[i] EXCEPT !.status = s]
          /\ att'[i] = [att[i] EXCEPT ![job[i].cur] = Ended(@, s)]
          /\ outbox'[i] = [outbox[i] EXCEPT ![job[i].cur] = @ + 1]
          /\ hist'[i] = [hist[i] EXCEPT ![job[i].cur].how = how, ![job[i].cur].by = by]
      BY <2>1 DEF CompleteLocked
    <3>2. CASE m = job[i].cur
      <4>1. /\ att'[i][m] = Ended(att[i][m], s) /\ outbox'[i][m] = outbox[i][m] + 1
            /\ hist'[i][m] = [hist[i][m] EXCEPT !.how = how, !.by = by]
        BY <2>0, <3>1, <3>2
      <4>2. hist[i][m] \in HistRow /\ att[i][m] \in AttRow
        BY <2>0
      <4>3. Good(job[i], job[i].cur, att[i][m], claims[i], outbox[i][m], hist[i][m])
        BY <2>0, <3>2
      <4>4. job[i].status \notin Terminal /\ (how = "call" => by = hist[i][m].issued)
        BY <2>1, <3>2
      <4>5. Good([job[i] EXCEPT !.status = s], job[i].cur, Ended(att[i][m], s), claims[i],
                 outbox[i][m] + 1, [hist[i][m] EXCEPT !.how = how, !.by = by])
        BY <2>0, <4>2, <4>3, <4>4, GoodEnd
      <4>6. QED
        BY <2>0, <3>1, <3>2, <4>1, <4>5, Zenon
    <3>3. CASE m # job[i].cur
      <4>1. /\ att'[i][m] = att[i][m] /\ outbox'[i][m] = outbox[i][m]
            /\ hist'[i][m] = hist[i][m] /\ job'[i].cur = job[i].cur
        BY <2>0, <3>1, <3>3 DEF JobRow
      <4>2. QED
        BY <2>0, <3>3, <4>1, GoodOther
    <3>4. QED
      BY <3>2, <3>3
  <2>2. CASE i # j /\ i \in gone
    <3>0. job[i].status = "blocked" /\ "cancelled" \in Terminal /\ job[i].status \notin Terminal
      BY <2>2, NotifiedAreBlocked DEF Terminal
    <3>1. /\ job'[i] = [job[i] EXCEPT !.status = "cancelled"]
          /\ att'[i] = [att[i] EXCEPT ![job[i].cur] = Ended(@, "cancelled")]
          /\ outbox'[i] = [outbox[i] EXCEPT ![job[i].cur] = @ + 1]
          /\ hist'[i] = [hist[i] EXCEPT ![job[i].cur].how = "cascade"]
      BY <2>2 DEF CompleteLocked
    <3>2. CASE m = job[i].cur
      <4>1. /\ att'[i][m] = Ended(att[i][m], "cancelled") /\ outbox'[i][m] = outbox[i][m] + 1
            /\ hist'[i][m] = [hist[i][m] EXCEPT !.how = "cascade"]
        BY <2>0, <3>1, <3>2
      <4>2. hist[i][m] \in HistRow /\ att[i][m] \in AttRow
        BY <2>0
      <4>3. Good(job[i], job[i].cur, att[i][m], claims[i], outbox[i][m], hist[i][m])
        BY <2>0, <3>2
      <4>4. Good([job[i] EXCEPT !.status = "cancelled"], job[i].cur, Ended(att[i][m], "cancelled"),
                 claims[i], outbox[i][m] + 1, [hist[i][m] EXCEPT !.how = "cascade"])
        <5>1. NoToken \in Token \union {NoToken} /\ "cascade" # "call"
          OBVIOUS
        <5>2. QED
          BY <2>0, <3>0, <4>2, <4>3, <5>1, GoodEnd
      <4>5. QED
        BY <2>0, <3>1, <3>2, <4>1, <4>4, Zenon
    <3>3. CASE m # job[i].cur
      <4>1. /\ att'[i][m] = att[i][m] /\ outbox'[i][m] = outbox[i][m]
            /\ hist'[i][m] = hist[i][m] /\ job'[i].cur = job[i].cur
        BY <2>0, <3>1, <3>3 DEF JobRow
      <4>2. QED
        BY <2>0, <3>3, <4>1, GoodOther
    <3>4. QED
      BY <3>2, <3>3
  <2>3. CASE i # j /\ i \notin gone /\ i \in free
    <3>0. job[i].status = "blocked"
      BY <2>3, NotifiedAreBlocked
    <3>1. /\ job'[i] = [job[i] EXCEPT !.status = "queued", !.aged = FALSE]
          /\ att'[i] = [att[i] EXCEPT ![job[i].cur].status = "queued"]
          /\ outbox'[i] = outbox[i] /\ hist'[i] = hist[i]
      BY <2>3 DEF CompleteLocked
    <3>2. job'[i].status = "queued" /\ job'[i].cur = job[i].cur
      BY <2>0, <3>1 DEF JobRow
    <3>3. CASE m = job[i].cur
      <4>1. att'[i][m] = [att[i][m] EXCEPT !.status = "queued"] /\ att[i][m] \in AttRow
        BY <2>0, <3>1, <3>3
      <4>2. /\ att'[i][m].status = "queued" /\ att'[i][m].reserved = att[i][m].reserved
            /\ att'[i][m].token = att[i][m].token /\ att'[i][m].lease = att[i][m].lease
        BY <4>1 DEF AttRow
      <4>3. m \in Nat
        BY DEF Attempt
      <4>4. att[i][m].status = "blocked" /\ ~att[i][m].reserved /\ att[i][m].token = NoToken
            /\ ~(att[i][m].lease > 0) /\ outbox[i][m] = 0 /\ hist[i][m].how = "none"
        BY <2>0, <3>0, <3>3 DEF Good, Active, Terminal
      <4>5. QED
        BY <2>0, <3>1, <3>2, <3>3, <4>2, <4>3, <4>4 DEF Good, Active, Terminal
    <3>4. CASE m # job[i].cur
      BY <2>0, <3>1, <3>2, <3>4, GoodOther
    <3>5. QED
      BY <3>3, <3>4
  <2>4. CASE i # j /\ i \notin gone /\ i \notin free
    <3>1. /\ job'[i] = job[i] /\ att'[i] = att[i] /\ outbox'[i] = outbox[i]
          /\ hist'[i] = hist[i]
      BY <2>4 DEF CompleteLocked
    <3>2. QED
      BY <2>0, <3>1
  <2>5. QED
    BY <2>1, <2>2, <2>3, <2>4
<1>3. QED
  BY <1>1, <1>2 DEF IInv, RowsGood

\* The step changes no row but those of job j and of its current attempt.
OnlyCurrent(j) ==
  /\ \A i \in Job \ {j} : /\ job'[i] = job[i] /\ att'[i] = att[i] /\ claims'[i] = claims[i]
                          /\ outbox'[i] = outbox[i] /\ hist'[i] = hist[i]
  /\ job'[j].cur = job[j].cur /\ claims'[j] >= claims[j]
  /\ \A m \in Attempt \ {job[j].cur} :
       att'[j][m] = att[j][m] /\ outbox'[j][m] = outbox[j][m] /\ hist'[j][m] = hist[j][m]

\* Such a step needs a look at the current attempt only.
LEMMA OneRow ==
  ASSUME IInv, TypeOK', NEW j \in Job, OnlyCurrent(j),
         Good(job'[j], job[j].cur, att'[j][job[j].cur], claims'[j], outbox'[j][job[j].cur],
              hist'[j][job[j].cur])
  PROVE  IInv'
<1>1. ASSUME NEW i \in Job, NEW m \in Attempt
      PROVE  Good(job'[i], m, att'[i][m], claims'[i], outbox'[i][m], hist'[i][m])
  <2>0. Good(job[i], m, att[i][m], claims[i], outbox[i][m], hist[i][m])
    BY DEF IInv, RowsGood
  <2>1. CASE i # j
    BY <2>0, <2>1 DEF OnlyCurrent
  <2>2. CASE i = j /\ m = job[j].cur
    BY <2>2
  <2>3. CASE i = j /\ m # job[j].cur
    <3>1. Good(job'[j], m, att[j][m], claims[j], outbox[j][m], hist[j][m])
      BY <2>0, <2>3, GoodOther DEF OnlyCurrent
    <3>2. /\ att'[j][m] = att[j][m] /\ outbox'[j][m] = outbox[j][m]
          /\ hist'[j][m] = hist[j][m] /\ claims'[j] >= claims[j]
      BY <2>3 DEF OnlyCurrent
    <3>3. claims[j] \in Int /\ claims'[j] \in Int /\ att[j][m].token \in Int
      BY DEF IInv, TypeOK, AttRow, Token, NoToken
    <3>4. Good(job'[j], m, att[j][m], claims'[j], outbox[j][m], hist[j][m])
      BY <3>1, <3>2, <3>3 DEF Good
    <3>5. QED
      BY <2>3, <3>2, <3>4
  <2>4. QED
    BY <2>1, <2>2, <2>3
<1>2. QED
  BY <1>1 DEF IInv, RowsGood

\* The facts a proof about job j and its attempt n starts from.
LEMMA Now ==
  ASSUME IInv, NEW j \in Job, NEW n \in Attempt
  PROVE  /\ Good(job[j], n, att[j][n], claims[j], outbox[j][n], hist[j][n])
         /\ job[j] \in JobRow /\ att[j][n] \in AttRow /\ hist[j][n] \in HistRow
         /\ claims[j] \in Nat /\ n \in Nat /\ job[j].cur \in Attempt
         /\ job \in [Job -> JobRow] /\ att \in [Job -> [Attempt -> AttRow]]
         /\ hist \in [Job -> [Attempt -> HistRow]] /\ outbox \in [Job -> [Attempt -> Nat]]
         /\ TypeOK
<1>1. /\ TypeOK
      /\ Good(job[j], n, att[j][n], claims[j], outbox[j][n], hist[j][n])
  BY DEF IInv, RowsGood
<1>2. n \in Nat
  BY DEF Attempt
<1>3. QED
  BY <1>1, <1>2, RowTypes DEF TypeOK

\* A claim: the fresh token is the last one issued, and the attempt has no end yet.
LEMMA ClaimGood ==
  ASSUME IInv, NEW h \in Node, NEW j \in Job, NEW runner \in Node \union Worker,
         Claim(h, j, runner)
  PROVE  IInv'
<1> DEFINE n == job[j].cur
           k == claims[j] + 1
           a == [status |-> "provisioning", machine |-> runner, token |-> k,
                 lease |-> LeaseTTL, reserved |-> TRUE]
<1>0. n \in Attempt
  BY DEF IInv, TypeOK, JobRow
<1>1. TypeOK'
  BY ClaimType DEF IInv
<1>2. /\ job' = [job EXCEPT ![j].status = "provisioning"]
      /\ att' = [att EXCEPT ![j][n] = a]
      /\ claims' = [claims EXCEPT ![j] = k]
      /\ hist' = [hist EXCEPT ![j][n].issued = k, ![j][n].home = h]
      /\ outbox' = outbox
      /\ job[j].status = "queued"
  BY DEF Claim
<1>3. claims'[j] = k /\ claims[j] \in Nat /\ \A i \in Job \ {j} : claims'[i] = claims[i]
  BY <1>0, <1>2, Now DEF TypeOK
<1>4. job'[j].status = "provisioning" /\ job'[j].cur = n
  BY <1>0, <1>2, Now DEF JobRow
<1>5. att'[j][n] = a
  BY <1>0, <1>2, Now
<1>6. hist'[j][n].issued = k /\ hist'[j][n].how = hist[j][n].how /\ hist'[j][n].by = hist[j][n].by
  BY <1>0, <1>2, Now DEF HistRow
<1>7. OnlyCurrent(j)
  BY <1>0, <1>2, <1>3, <1>4, Now DEF OnlyCurrent
<1>8. att[j][n].status = "queued" /\ hist[j][n].how = "none" /\ outbox[j][n] = 0
  <2>1. Good(job[j], n, att[j][n], claims[j], outbox[j][n], hist[j][n])
    BY <1>0, Now
  <2>2. QED
    BY <1>2, <2>1 DEF Good, Terminal
<1>9. Good(job'[j], n, att'[j][n], claims'[j], outbox'[j][n], hist'[j][n])
  <2>1. /\ att'[j][n].status = "provisioning" /\ att'[j][n].reserved = TRUE
        /\ att'[j][n].token = k
    BY <1>5
  <2>2. outbox'[j][n] = 0 /\ hist'[j][n].how = "none"
    BY <1>2, <1>6, <1>8
  <2>3. k # NoToken /\ k \in Nat /\ n \in Nat
    BY <1>0, <1>3 DEF NoToken, Attempt
  <2> HIDE DEF k, n
  <2>4. QED
    BY <1>3, <1>4, <1>6, <2>1, <2>2, <2>3 DEF Good, Active, Terminal
<1>10. QED
  BY <1>1, <1>7, <1>9, OneRow

\* A step that writes the job row and the row of the current attempt only.
LEMMA TwoRows ==
  ASSUME IInv, TypeOK', NEW j \in Job, NEW n \in Attempt, n = job[j].cur, NEW b, NEW a,
         job' = [job EXCEPT ![j] = b], att' = [att EXCEPT ![j][n] = a],
         UNCHANGED <<claims, outbox, hist>>, b.cur = n,
         Good(b, n, a, claims[j], outbox[j][n], hist[j][n])
  PROVE  IInv'
<1>1. /\ job \in [Job -> JobRow] /\ att \in [Job -> [Attempt -> AttRow]] /\ claims[j] \in Nat
  BY Now
<1>2. job'[j] = b /\ att'[j][n] = a
  BY <1>1
<1>3. OnlyCurrent(j)
  BY <1>1, <1>2 DEF OnlyCurrent
<1>4. Good(job'[j], n, att'[j][n], claims'[j], outbox'[j][n], hist'[j][n])
  BY <1>2
<1>5. QED
  BY <1>3, <1>4, OneRow

\* A call keeps the invariant: what it may touch is the current attempt, and the
\* token it presents is the one the last claim issued.
LEMMA CallGood ==
  ASSUME IInv, NEW j \in Job, NEW n \in Attempt, NEW k \in Token, Call(j, n, k)
  PROVE  IInv'
<1>0. TypeOK'
  BY CallType DEF IInv
<1>1. /\ Good(job[j], n, att[j][n], claims[j], outbox[j][n], hist[j][n])
      /\ job[j] \in JobRow /\ att[j][n] \in AttRow /\ n \in Nat
      /\ job \in [Job -> JobRow] /\ att \in [Job -> [Attempt -> AttRow]]
  BY Now
<1>2. att[j][n].status \in Active \union {"review"} =>
        n = job[j].cur /\ job[j].status = att[j][n].status
  BY LiveIsCurrent
<1>3. job = [job EXCEPT ![j] = job[j]]
  BY <1>1
<1>4. CASE Heartbeat(j, n, k) \/ Renew(j, n, k)
  <2> DEFINE a == [att[j][n] EXCEPT !.lease = LeaseTTL]
  <2>1. /\ att[j][n].status \in Active
        /\ att' = [att EXCEPT ![j][n] = a]
        /\ UNCHANGED <<job, claims, outbox, hist>>
    BY <1>1, <1>4 DEF Heartbeat, Renew, HoldsLease
  <2>2. a.status = att[j][n].status /\ a.token = att[j][n].token /\ a.reserved = att[j][n].reserved
    BY <1>1 DEF AttRow
  <2> HIDE DEF a
  <2>3. Good(job[j], n, a, claims[j], outbox[j][n], hist[j][n])
    BY <1>1, <2>1, <2>2 DEF Good
  <2>4. QED
    BY <1>0, <1>2, <1>3, <2>1, <2>3, TwoRows
<1>5. CASE MarkRunning(j, n, k)
  <2> DEFINE a == [att[j][n] EXCEPT !.status = "running"]
             b == [job[j] EXCEPT !.status = "running"]
  <2>1. /\ att[j][n].status = "provisioning"
        /\ att' = [att EXCEPT ![j][n] = a] /\ job' = [job EXCEPT ![j] = b]
        /\ UNCHANGED <<claims, outbox, hist>>
    BY <1>1, <1>5 DEF MarkRunning
  <2>2. /\ a.status = "running" /\ a.token = att[j][n].token /\ a.reserved = att[j][n].reserved
        /\ b.status = "running" /\ b.cur = job[j].cur
    BY <1>1 DEF AttRow, JobRow
  <2>3. n = job[j].cur
    BY <1>2, <2>1 DEF Active
  <2> HIDE DEF a, b
  <2>4. Good(b, n, a, claims[j], outbox[j][n], hist[j][n])
    BY <1>1, <2>1, <2>2, <2>3 DEF Good, Active, Terminal
  <2>5. QED
    BY <1>0, <2>1, <2>2, <2>3, <2>4, TwoRows
<1>6. ASSUME NEW h \in Node, Unclaim(h, j, n, k) PROVE IInv'
  <2> DEFINE a == Ended(att[j][n], "queued")
             b == [job[j] EXCEPT !.status = "queued"]
  <2>1. /\ att[j][n].status = "provisioning"
        /\ att' = [att EXCEPT ![j][n] = a] /\ job' = [job EXCEPT ![j] = b]
        /\ UNCHANGED <<claims, outbox, hist>>
    BY <1>1, <1>6 DEF Unclaim
  <2>2. /\ a.status = "queued" /\ a.token = NoToken /\ a.reserved = FALSE /\ a.lease = 0
        /\ b.status = "queued" /\ b.cur = job[j].cur
    BY <1>1, EndedType DEF JobRow, Status
  <2>3. n = job[j].cur
    BY <1>2, <2>1 DEF Active
  <2> HIDE DEF a, b
  <2>4. Good(b, n, a, claims[j], outbox[j][n], hist[j][n])
    BY <1>1, <2>1, <2>2, <2>3 DEF Good, Active, Terminal
  <2>5. QED
    BY <1>0, <2>1, <2>2, <2>3, <2>4, TwoRows
<1>7. ASSUME NEW h \in Node, Hold(h, j, n, k) PROVE IInv'
  <2> DEFINE a == [att[j][n] EXCEPT !.status = "review", !.lease = 0, !.reserved = FALSE]
             b == [job[j] EXCEPT !.status = "review", !.decision = "undecided", !.due = FALSE]
  <2>1. /\ att[j][n].status \in Active
        /\ att' = [att EXCEPT ![j][n] = a] /\ job' = [job EXCEPT ![j] = b]
        /\ UNCHANGED <<claims, outbox, hist>>
    BY <1>1, <1>7 DEF Hold, HoldsLease
  <2>2. /\ a.status = "review" /\ a.token = att[j][n].token /\ a.reserved = FALSE /\ a.lease = 0
        /\ b.status = "review" /\ b.cur = job[j].cur
    BY <1>1 DEF AttRow, JobRow
  <2>3. n = job[j].cur
    BY <1>2, <2>1
  <2> HIDE DEF a, b
  <2>4. Good(b, n, a, claims[j], outbox[j][n], hist[j][n])
    BY <1>1, <2>1, <2>2, <2>3 DEF Good, Active, Terminal
  <2>5. QED
    BY <1>0, <2>1, <2>2, <2>3, <2>4, TwoRows
<1>8. ASSUME NEW h \in Node, NEW s \in {"succeeded", "failed"}, Complete(h, j, n, k, s)
      PROVE  IInv'
  <2>1. /\ att[j][n].status \in Active \union {"review"} /\ att[j][n].token = k
        /\ CompleteLocked(h, j, n, s, "call", k)
    BY <1>8 DEF Complete, MayComplete, HoldsLease
  <2>2. n = job[j].cur /\ job[j].status \notin Terminal
    BY <1>2, <2>1 DEF Active, Terminal
  <2>3. k = hist[j][n].issued
    BY <1>1, <2>1 DEF Good, Token, NoToken
  <2>4. QED
    BY <2>1, <2>2, <2>3, CompleteLockedGood DEF Terminal
<1>9. CallNode(att[j][n]) \subseteq Node
  BY JobsAssumption DEF CallNode, JobsAssumption
<1>10. QED
  BY <1>4, <1>5, <1>6, <1>7, <1>8, <1>9 DEF Call

\* The operations on a whole job end its current attempt.
LEMMA HouseGood ==
  ASSUME IInv, NEW h \in Node, NEW j \in Job, House(h, j)
  PROVE  IInv'
<1> DEFINE n == job[j].cur
<1>0. TypeOK'
  BY HouseType DEF IInv
<1>1. n \in Attempt
  BY DEF IInv, TypeOK, JobRow
<1>2. ASSUME NEW s \in Terminal, job[j].status \notin Terminal,
             CompleteLocked(h, j, n, s, "operator", NoToken)
      PROVE  IInv'
  BY <1>2, CompleteLockedGood
<1>3. CASE Reject(h, j) \/ ExpireReview(h, j) \/ Cancel(h, j)
  BY <1>2, <1>3 DEF Reject, ExpireReview, Cancel, Terminal
<1>4. CASE RecoverOrphan(h, j)
  <2>1. /\ job' = [job EXCEPT ![j].status = "cancelled"]
        /\ att' = [att EXCEPT ![j][n] = Ended(att[j][n], "cancelled")]
        /\ outbox' = [outbox EXCEPT ![j][n] = @ + 1]
        /\ hist' = [hist EXCEPT ![j][n].how = "sweep"]
        /\ claims' = claims /\ job[j].status = "queued"
    BY <1>4 DEF RecoverOrphan
  <2>2. /\ job \in [Job -> JobRow] /\ att \in [Job -> [Attempt -> AttRow]]
        /\ hist \in [Job -> [Attempt -> HistRow]] /\ outbox \in [Job -> [Attempt -> Nat]]
        /\ claims[j] \in Nat
    BY <1>1, Now
  <2>3. /\ job'[j] = [job[j] EXCEPT !.status = "cancelled"]
        /\ att'[j][n] = Ended(att[j][n], "cancelled") /\ outbox'[j][n] = outbox[j][n] + 1
        /\ hist'[j][n] = [hist[j][n] EXCEPT !.how = "sweep"] /\ claims'[j] = claims[j]
    BY <1>1, <2>1, <2>2
  <2>4. Good(job[j], n, att[j][n], claims[j], outbox[j][n], hist[j][n])
    BY <1>1, Now
  <2>5. /\ job[j] \in JobRow /\ att[j][n] \in AttRow /\ hist[j][n] \in HistRow
        /\ job[j].status \notin Terminal /\ "cancelled" \in Terminal
        /\ NoToken \in Token \union {NoToken}
    BY <1>1, <2>1, <2>2 DEF Terminal
  <2>6. Good([job[j] EXCEPT !.status = "cancelled"], n, Ended(att[j][n], "cancelled"), claims[j],
             outbox[j][n] + 1, [hist[j][n] EXCEPT !.how = "sweep"])
    BY <2>2, <2>4, <2>5, GoodEnd
  <2>7. Good(job'[j], n, att'[j][n], claims'[j], outbox'[j][n], hist'[j][n])
    BY <2>3, <2>6, Zenon
  <2>8. job'[j].cur = n
    BY <2>3, <2>5 DEF JobRow
  <2>9. OnlyCurrent(j)
    BY <1>1, <2>1, <2>2, <2>8 DEF OnlyCurrent
  <2>10. QED
    BY <1>0, <2>7, <2>9, OneRow
<1>5. QED
  BY <1>3, <1>4 DEF House

\* A retry makes a new current attempt; the ended one becomes an earlier one.
LEMMA RetryGood ==
  ASSUME IInv, NEW j \in Job, Retry(j)
  PROVE  IInv'
<1> DEFINE n == job[j].cur + 1
           b == [job[j] EXCEPT !.status = "queued", !.cur = n, !.decision = "none",
                               !.due = FALSE, !.aged = FALSE]
           a == [NoAttempt EXCEPT !.status = "queued"]
<1>0. TypeOK'
  BY RetryType DEF IInv
<1>1. /\ job' = [job EXCEPT ![j] = b] /\ att' = [att EXCEPT ![j][n] = a]
      /\ UNCHANGED <<claims, outbox, hist>>
      /\ job[j].status \in Unsuccessful /\ n <= MaxAttempt
  BY DEF Retry
<1>2. job[j].cur \in Attempt /\ n \in Attempt /\ n \in Nat /\ job[j].cur \in Nat
  BY <1>1, JobsAssumption DEF IInv, TypeOK, JobRow, Attempt, JobsAssumption
<1>3. job \in [Job -> JobRow] /\ att \in [Job -> [Attempt -> AttRow]]
  BY <1>2, Now
<1>4. a.status = "queued" /\ a.token = NoToken /\ a.reserved = FALSE /\ a.lease = 0
  BY DEF NoAttempt
<1>5. ASSUME NEW i \in Job, NEW m \in Attempt
      PROVE  Good(job'[i], m, att'[i][m], claims'[i], outbox'[i][m], hist'[i][m])
  <2>0. Good(job[i], m, att[i][m], claims[i], outbox[i][m], hist[i][m])
    BY DEF IInv, RowsGood
  <2>1. CASE i # j
    BY <1>1, <1>3, <2>0, <2>1
  <2>2. CASE i = j /\ m = n
    <3>1. job'[i] = b /\ att'[i][m] = a
      BY <1>1, <1>2, <1>3, <2>2
    <3>2. b.status = "queued" /\ b.cur = n
      BY <1>3 DEF JobRow
    <3>3. att[i][m].status = "none"
      BY <1>2, <2>0, <2>2 DEF Good
    <3>4. outbox[i][m] = 0 /\ hist[i][m].how = "none"
      BY <2>0, <3>3 DEF Good, Terminal
    <3> HIDE DEF a, b, n
    <3>5. QED
      BY <1>1, <1>2, <1>4, <2>2, <3>1, <3>2, <3>4 DEF Good, Active, Terminal
  <2>3. CASE i = j /\ m # n
    <3>1. job'[i] = b /\ att'[i][m] = att[i][m]
      BY <1>1, <1>2, <1>3, <2>3
    <3>2. m \in Nat /\ b.cur = n
      BY <1>3 DEF Attempt, JobRow
    <3>3. CASE m = job[j].cur
      BY <1>1, <1>2, <2>0, <2>3, <3>1, <3>2, <3>3 DEF Good
    <3>4. CASE m < job[j].cur
      BY <1>1, <1>2, <2>0, <2>3, <3>1, <3>2, <3>4 DEF Good
    <3>5. CASE m > job[j].cur
      BY <1>1, <1>2, <2>0, <2>3, <3>1, <3>2, <3>5 DEF Good
    <3>6. QED
      BY <1>2, <3>2, <3>3, <3>4, <3>5
  <2>4. QED
    BY <2>1, <2>2, <2>3
<1>6. QED
  BY <1>0, <1>5 DEF IInv, RowsGood

\* Approvals and the passing of time touch neither a status nor a fence.
LEMMA MomentGood ==
  ASSUME IInv, NEW j \in Job, Approve(j) \/ Time(j)
  PROVE  IInv'
<1> DEFINE n == job[j].cur
<1>0. TypeOK' /\ n \in Attempt
  BY MomentType DEF IInv, TypeOK, JobRow
<1>1. /\ Good(job[j], n, att[j][n], claims[j], outbox[j][n], hist[j][n])
      /\ job[j] \in JobRow /\ att[j][n] \in AttRow /\ n \in Nat
      /\ job \in [Job -> JobRow] /\ att \in [Job -> [Attempt -> AttRow]]
  BY <1>0, Now
<1>2. CASE Approve(j) \/ ReviewDue(j) \/ GracePasses(j)
  <2>1. PICK b : /\ job' = [job EXCEPT ![j] = b] /\ b.status = job[j].status /\ b.cur = n
                 /\ UNCHANGED <<att, claims, outbox, hist>>
    <3>1. CASE Approve(j)
      BY <1>1, <3>1 DEF Approve, JobRow
    <3>2. CASE ReviewDue(j)
      BY <1>1, <3>2 DEF ReviewDue, JobRow
    <3>3. CASE GracePasses(j)
      BY <1>1, <3>3 DEF GracePasses, JobRow
    <3>4. QED
      BY <1>2, <3>1, <3>2, <3>3
  <2>2. att = [att EXCEPT ![j][n] = att[j][n]]
    BY <1>0, <1>1
  <2>3. Good(b, n, att[j][n], claims[j], outbox[j][n], hist[j][n])
    BY <1>1, <2>1 DEF Good
  <2>4. QED
    BY <1>0, <2>1, <2>2, <2>3, TwoRows
<1>3. CASE LeaseAges(j)
  <2> DEFINE a == [att[j][n] EXCEPT !.lease = @ - 1]
  <2>1. /\ att' = [att EXCEPT ![j][n] = a] /\ UNCHANGED <<job, claims, outbox, hist>>
        /\ att[j][n].status \in Active
    BY <1>0, <1>1, <1>3 DEF LeaseAges
  <2>2. a.status = att[j][n].status /\ a.token = att[j][n].token /\ a.reserved = att[j][n].reserved
    BY <1>1 DEF AttRow
  <2>3. job = [job EXCEPT ![j] = job[j]]
    BY <1>1
  <2> HIDE DEF a
  <2>4. Good(job[j], n, a, claims[j], outbox[j][n], hist[j][n])
    BY <1>1, <2>1, <2>2 DEF Good
  <2>5. QED
    BY <1>0, <2>1, <2>3, <2>4, TwoRows
<1>4. QED
  BY <1>2, <1>3 DEF Time

\* The sweep of expired leases ends the current attempt of every job it takes.
LEMMA RecoverStaleGood ==
  ASSUME IInv, NEW h \in Node, RecoverStale(h)
  PROVE  IInv'
<1>0. TypeOK'
  BY RecoverStaleType DEF IInv
<1>1. ASSUME NEW i \in Job, NEW m \in Attempt
      PROVE  Good(job'[i], m, att'[i][m], claims'[i], outbox'[i][m], hist'[i][m])
  <2> DEFINE n == job[i].cur
  <2>0. /\ Good(job[i], m, att[i][m], claims[i], outbox[i][m], hist[i][m])
        /\ job[i] \in JobRow /\ n \in Attempt /\ claims[i] \in Nat
        /\ att[i] \in [Attempt -> AttRow] /\ outbox[i] \in [Attempt -> Nat]
        /\ hist[i] \in [Attempt -> HistRow]
        /\ claims'[i] = claims[i]
    BY RowTypes DEF IInv, RowsGood, RecoverStale
  <2>1. CASE Stale(i)
    <3>1. /\ job'[i] = [job[i] EXCEPT !.status = "failed"]
          /\ att'[i] = [att[i] EXCEPT ![n] = Ended(@, "failed")]
          /\ outbox'[i] = [outbox[i] EXCEPT ![n] = @ + 1]
          /\ hist'[i] = [hist[i] EXCEPT ![n].how = "sweep"]
      BY <2>0, <2>1 DEF RecoverStale, TypeOK, IInv
    <3>2. CASE m = n
      <4>1. /\ att'[i][m] = Ended(att[i][m], "failed") /\ outbox'[i][m] = outbox[i][m] + 1
            /\ hist'[i][m] = [hist[i][m] EXCEPT !.how = "sweep"]
        BY <2>0, <3>1, <3>2
      <4>2. hist[i][m] \in HistRow /\ att[i][m] \in AttRow
        BY <2>0
      <4>3. /\ Good(job[i], n, att[i][m], claims[i], outbox[i][m], hist[i][m])
            /\ job[i].status \notin Terminal /\ "failed" \in Terminal
            /\ NoToken \in Token \union {NoToken}
        BY <2>0, <2>1, <3>2 DEF Stale, Active, Terminal
      <4>4. Good([job[i] EXCEPT !.status = "failed"], n, Ended(att[i][m], "failed"),
                 claims[i], outbox[i][m] + 1, [hist[i][m] EXCEPT !.how = "sweep"])
        BY <2>0, <4>2, <4>3, GoodEnd
      <4>5. QED
        BY <2>0, <3>1, <3>2, <4>1, <4>4, Zenon
    <3>3. CASE m # n
      <4>1. /\ att'[i][m] = att[i][m] /\ outbox'[i][m] = outbox[i][m]
            /\ hist'[i][m] = hist[i][m] /\ job'[i].cur = job[i].cur
        BY <2>0, <3>1, <3>3 DEF JobRow
      <4>2. QED
        BY <2>0, <3>3, <4>1, GoodOther
    <3>4. QED
      BY <3>2, <3>3
  <2>2. CASE ~Stale(i)
    <3>1. job'[i] = job[i] /\ att'[i] = att[i] /\ outbox'[i] = outbox[i] /\ hist'[i] = hist[i]
      BY <2>2 DEF RecoverStale
    <3>2. QED
      BY <2>0, <3>1
  <2>3. QED
    BY <2>1, <2>2
<1>2. QED
  BY <1>0, <1>1 DEF IInv, RowsGood

\* The dispatcher claims like anybody else, and fails the current attempt with
\* the token it reads from its row.
LEMMA DispatcherGood ==
  ASSUME IInv, NEW h \in Direct, NEW j \in Job, ClaimDirect(h, j) \/ FailCurrent(h, j)
  PROVE  IInv'
<1>1. h \in Node
  BY JobsAssumption DEF JobsAssumption
<1>2. CASE ClaimDirect(h, j)
  BY <1>1, <1>2, ClaimGood DEF ClaimDirect
<1>3. CASE FailCurrent(h, j)
  <2>1. PICK n \in Attempt : /\ att[j][n].status \in Active
                             /\ Complete(h, j, n, att[j][n].token, "failed")
    BY <1>3 DEF FailCurrent
  <2>2. n = job[j].cur /\ job[j].status \notin Terminal
    BY <2>1, LiveIsCurrent DEF Active, Terminal
  <2>3. /\ Good(job[j], n, att[j][n], claims[j], outbox[j][n], hist[j][n])
        /\ att[j][n] \in AttRow
    BY Now
  <2>4. att[j][n].token \in Token \union {NoToken} /\ att[j][n].token = hist[j][n].issued
    BY <2>1, <2>3 DEF Good, AttRow
  <2>5. CompleteLocked(h, j, job[j].cur, "failed", "call", att[j][n].token) /\ "failed" \in Terminal
    BY <2>1, <2>2 DEF Complete, Terminal
  <2>6. QED
    BY <1>1, <2>2, <2>4, <2>5, CompleteLockedGood
<1>4. QED
  BY <1>2, <1>3

\* Initially no attempt has been claimed, announced or ended.
LEMMA InitIInv == Init => IInv
<1> SUFFICES ASSUME Init PROVE IInv
  OBVIOUS
<1>1. ASSUME NEW i \in Job, NEW m \in Attempt
      PROVE  Good(job[i], m, att[i][m], claims[i], outbox[i][m], hist[i][m])
  <2>1. /\ job[i].status = InitStatus(i) /\ job[i].cur = 1 /\ m \in Nat /\ m >= 1
        /\ att[i][m] = IF m = 1 THEN [NoAttempt EXCEPT !.status = InitStatus(i)] ELSE NoAttempt
        /\ outbox[i][m] = 0 /\ hist[i][m] = NoHistory
    BY DEF Init, Attempt
  <2>2. /\ att[i][m].status = IF m = 1 THEN InitStatus(i) ELSE "none"
        /\ att[i][m].token = NoToken /\ att[i][m].reserved = FALSE /\ att[i][m].lease = 0
    BY <2>1 DEF NoAttempt
  <2>3. InitStatus(i) \in {"queued", "blocked"}
    BY DEF InitStatus
  <2>4. hist[i][m].how = "none"
    BY <2>1 DEF NoHistory
  <2>5. QED
    BY <2>1, <2>2, <2>3, <2>4 DEF Good, Active, Terminal
<1>2. QED
  BY <1>1, InitTypeOK DEF IInv, RowsGood

\* Every step keeps the invariant.
LEMMA NextIInv == IInv /\ [Next]_vars => IInv'
<1> SUFFICES ASSUME IInv, [Next]_vars PROVE IInv'
  OBVIOUS
<1>0. TypeOK'
  BY NextTypeOK DEF IInv
<1>1. ASSUME NEW h \in Node, NEW w \in Worker, NEW j \in Job, ClaimNext(h, w, j) PROVE IInv'
  BY <1>1, ClaimGood DEF ClaimNext
<1>2. CASE UNCHANGED <<job, att, claims, outbox, hist>>
  BY <1>0, <1>2 DEF IInv, RowsGood
<1>3. CASE StoreNext
  <2>1. ASSUME NEW h \in Node, NEW c \in Budget, SetCapacity(h, c) PROVE IInv'
    BY <1>2, <2>1 DEF SetCapacity
  <2>2. QED
    BY <1>1, <1>3, <2>1, CallGood, RetryGood, MomentGood, HouseGood, RecoverStaleGood
       DEF StoreNext
<1>4. ASSUME NEW j \in Job, NEW r \in Row, DispatchMoves(j, r) PROVE IInv'
  BY <1>2, <1>4 DEF DispatchMoves
<1>5. CASE UNCHANGED vars
  BY <1>2, <1>5 DEF vars
<1>6. QED
  BY <1>3, <1>4, <1>5, DispatcherGood DEF Next

\* The invariant holds of every behaviour of the store.
LEMMA Invariance == Spec => []IInv
BY InitIInv, NextIInv, PTL DEF Spec

\* A job and its current attempt always tell the same story.
THEOREM RowsAgree == Spec => []JobMirrorsAttempt
BY Invariance, GoodIsSafe, PTL

\* Token, lease and slot belong to an attempt exactly while it is active.
THEOREM FenceIsWhole == Spec => []LeaseShape
BY Invariance, GoodIsSafe, PTL

\* Whatever calls arrive late, twice or out of order, the call that ended an
\* attempt presented the last token issued for it.
THEOREM Fenced == Spec => []FencedOutcome
BY Invariance, GoodIsSafe, PTL

\* Every end of an attempt is announced once.
THEOREM Announced == Spec => []AnnouncedOnce
BY Invariance, GoodIsSafe, PTL

-----------------------------------------------------------------------------
(* The outcome of an attempt is final *)

\* The step leaves the row and the history of every ended attempt alone.
Final == \A j \in Job : \A n \in Attempt :
           att[j][n].status \in Terminal => att'[j][n] = att[j][n] /\ hist'[j][n] = hist[j][n]

\* A step that writes the row of one attempt, and that one has not ended.
LEMMA OneAttemptFinal ==
  ASSUME TypeOK, NEW j \in Job, NEW n \in Attempt, att[j][n].status \notin Terminal, NEW a,
         att' = [att EXCEPT ![j][n] = a], hist' = hist
  PROVE  Final
<1>1. att \in [Job -> [Attempt -> AttRow]]
  BY DEF TypeOK
<1>2. ASSUME NEW i \in Job, NEW m \in Attempt, i # j \/ m # n
      PROVE  att'[i][m] = att[i][m]
  BY <1>1, <1>2
<1>3. QED
  BY <1>2 DEF Final

\* The current attempt of a job that is not over has not ended.
LEMMA CurrentNotEnded ==
  ASSUME IInv, NEW j \in Job, job[j].status \notin Terminal
  PROVE  job[j].cur \in Attempt /\ att[j][job[j].cur].status \notin Terminal
<1>1. job[j].cur \in Attempt
  BY DEF IInv, TypeOK, JobRow
<1>2. QED
  BY <1>1, Now DEF Good

\* An end writes the attempt it ends and the current attempts of blocked jobs.
LEMMA CompleteLockedFinal ==
  ASSUME IInv, NEW h \in Node, NEW j \in Job, NEW n \in Attempt, NEW s \in Terminal,
         NEW how \in {"call", "operator"}, NEW by \in Token \union {NoToken},
         att[j][n].status \notin Terminal, CompleteLocked(h, j, n, s, how, by)
  PROVE  Final
<1>1. SUFFICES ASSUME NEW i \in Job, NEW m \in Attempt, att[i][m].status \in Terminal
               PROVE  att'[i][m] = att[i][m] /\ hist'[i][m] = hist[i][m]
  BY DEF Final
<1>2. att[i] \in [Attempt -> AttRow] /\ hist[i] \in [Attempt -> HistRow]
  BY RowTypes DEF IInv
<1>3. CASE i = j
  <2>1. /\ att'[i] = [att[i] EXCEPT ![n] = Ended(@, s)]
        /\ hist'[i] = [hist[i] EXCEPT ![n].how = how, ![n].by = by]
    BY <1>3 DEF CompleteLocked
  <2>2. m # n
    BY <1>1, <1>3
  <2>3. QED
    BY <1>2, <2>1, <2>2
<1>4. CASE i # j /\ i \in CancelledBy(j, s) \union UnlockedBy(j, s)
  <2>1. m # job[i].cur
    <3>1. job[i].status \notin Terminal
      BY <1>4, NotifiedAreBlocked DEF Terminal
    <3>2. QED
      BY <1>1, <3>1, CurrentNotEnded
  <2>2. CASE i \in CancelledBy(j, s)
    <3>1. /\ att'[i] = [att[i] EXCEPT ![job[i].cur] = Ended(@, "cancelled")]
          /\ hist'[i] = [hist[i] EXCEPT ![job[i].cur].how = "cascade"]
      BY <1>4, <2>2 DEF CompleteLocked
    <3>2. QED
      BY <1>2, <2>1, <3>1
  <2>3. CASE i \notin CancelledBy(j, s)
    <3>1. /\ att'[i] = [att[i] EXCEPT ![job[i].cur].status = "queued"]
          /\ hist'[i] = hist[i]
      BY <1>4, <2>3 DEF CompleteLocked
    <3>2. QED
      BY <1>2, <2>1, <3>1
  <2>4. QED
    BY <2>2, <2>3
<1>5. CASE i # j /\ i \notin CancelledBy(j, s) \union UnlockedBy(j, s)
  BY <1>5 DEF CompleteLocked
<1>6. QED
  BY <1>3, <1>4, <1>5

\* A claim writes the current attempt of a queued job.
LEMMA ClaimFinal ==
  ASSUME IInv, NEW h \in Node, NEW j \in Job, NEW runner \in Node \union Worker,
         Claim(h, j, runner)
  PROVE  Final
<1> DEFINE n == job[j].cur
           a == [status |-> "provisioning", machine |-> runner, token |-> claims[j] + 1,
                 lease |-> LeaseTTL, reserved |-> TRUE]
<1>1. n \in Attempt /\ att[j][n].status \notin Terminal
  BY CurrentNotEnded DEF Claim, Terminal
<1>2. /\ att' = [att EXCEPT ![j][n] = a]
      /\ hist' = [hist EXCEPT ![j][n].issued = claims[j] + 1, ![j][n].home = h]
  BY DEF Claim
<1>3. att \in [Job -> [Attempt -> AttRow]] /\ hist \in [Job -> [Attempt -> HistRow]]
  BY DEF IInv, TypeOK
<1>4. \A i \in Job : \A m \in Attempt :
        (i # j \/ m # n) => att'[i][m] = att[i][m] /\ hist'[i][m] = hist[i][m]
  BY <1>1, <1>2, <1>3
<1>5. QED
  BY <1>1, <1>4 DEF Final

\* A call writes the attempt it names, which has not ended.
LEMMA CallFinal ==
  ASSUME IInv, NEW j \in Job, NEW n \in Attempt, NEW k \in Token, Call(j, n, k)
  PROVE  Final
<1>1. TypeOK
  BY DEF IInv
<1>2. ASSUME NEW h \in Node, NEW s \in {"succeeded", "failed"}, Complete(h, j, n, k, s)
      PROVE  Final
  BY <1>2, CompleteLockedFinal DEF Complete, Terminal
<1>3. ASSUME att[j][n].status \in Active, NEW a, att' = [att EXCEPT ![j][n] = a], hist' = hist
      PROVE  Final
  BY <1>1, <1>3, OneAttemptFinal DEF Active, Terminal
<1>4. CASE Heartbeat(j, n, k)
  <2>1. att' = [att EXCEPT ![j][n] = [att[j][n] EXCEPT !.lease = LeaseTTL]]
    BY <1>1, <1>4 DEF Heartbeat, TypeOK
  <2>2. QED
    BY <1>3, <1>4, <2>1 DEF Heartbeat, HoldsLease
<1>5. CASE Renew(j, n, k)
  <2>1. att' = [att EXCEPT ![j][n] = [att[j][n] EXCEPT !.lease = LeaseTTL]]
    BY <1>1, <1>5 DEF Renew, TypeOK
  <2>2. QED
    BY <1>3, <1>5, <2>1 DEF Renew
<1>6. CASE MarkRunning(j, n, k)
  <2>1. att' = [att EXCEPT ![j][n] = [att[j][n] EXCEPT !.status = "running"]]
    BY <1>1, <1>6 DEF MarkRunning, TypeOK
  <2>2. QED
    BY <1>3, <1>6, <2>1 DEF MarkRunning, HoldsLease
<1>7. ASSUME NEW h, Unclaim(h, j, n, k) PROVE Final
  BY <1>3, <1>7 DEF Unclaim, HoldsLease
<1>8. ASSUME NEW h, Hold(h, j, n, k) PROVE Final
  BY <1>3, <1>8 DEF Hold, HoldsLease
<1>9. CallNode(att[j][n]) \subseteq Node
  BY JobsAssumption DEF CallNode, JobsAssumption
<1>10. QED
  BY <1>2, <1>4, <1>5, <1>6, <1>7, <1>8, <1>9 DEF Call

\* The operations on a whole job take the current attempt of one that is not over.
LEMMA HouseFinal ==
  ASSUME IInv, NEW h \in Node, NEW j \in Job, House(h, j)
  PROVE  Final
<1> DEFINE n == job[j].cur
<1>1. job[j].status \notin Terminal
  BY DEF House, Reject, ExpireReview, Cancel, RecoverOrphan, Terminal
<1>2. n \in Attempt /\ att[j][n].status \notin Terminal
  BY <1>1, CurrentNotEnded
<1>3. CASE Reject(h, j) \/ ExpireReview(h, j) \/ Cancel(h, j)
  BY <1>2, <1>3, CompleteLockedFinal DEF Reject, ExpireReview, Cancel, Terminal
<1>4. CASE RecoverOrphan(h, j)
  <2> DEFINE a == Ended(att[j][n], "cancelled")
  <2>1. /\ att' = [att EXCEPT ![j][n] = a]
        /\ hist' = [hist EXCEPT ![j][n].how = "sweep"]
    BY <1>4 DEF RecoverOrphan
  <2>2. att \in [Job -> [Attempt -> AttRow]] /\ hist \in [Job -> [Attempt -> HistRow]]
    BY DEF IInv, TypeOK
  <2>3. \A i \in Job : \A m \in Attempt :
          (i # j \/ m # n) => att'[i][m] = att[i][m] /\ hist'[i][m] = hist[i][m]
    BY <1>2, <2>1, <2>2
  <2>4. QED
    BY <1>2, <2>3 DEF Final
<1>5. QED
  BY <1>3, <1>4 DEF House

\* The sweep of expired leases takes the current attempts of jobs that are not over.
LEMMA RecoverStaleFinal ==
  ASSUME IInv, NEW h \in Node, RecoverStale(h)
  PROVE  Final
<1>1. SUFFICES ASSUME NEW i \in Job, NEW m \in Attempt, att[i][m].status \in Terminal
               PROVE  att'[i][m] = att[i][m] /\ hist'[i][m] = hist[i][m]
  BY DEF Final
<1>2. att[i] \in [Attempt -> AttRow] /\ hist[i] \in [Attempt -> HistRow]
  BY RowTypes DEF IInv
<1>3. CASE Stale(i)
  <2>1. m # job[i].cur
    BY <1>1, <1>3, CurrentNotEnded DEF Stale, Active, Terminal
  <2>2. /\ att'[i] = [att[i] EXCEPT ![job[i].cur] = Ended(@, "failed")]
        /\ hist'[i] = [hist[i] EXCEPT ![job[i].cur].how = "sweep"]
    BY <1>3 DEF RecoverStale
  <2>3. QED
    BY <1>2, <2>1, <2>2
<1>4. CASE ~Stale(i)
  BY <1>4 DEF RecoverStale
<1>5. QED
  BY <1>3, <1>4

\* A retry writes an attempt that does not exist yet.
LEMMA RetryFinal ==
  ASSUME IInv, NEW j \in Job, Retry(j)
  PROVE  Final
<1> DEFINE n == job[j].cur + 1
<1>1. job[j].cur \in Attempt /\ n \in Attempt /\ n > job[j].cur
  BY JobsAssumption DEF IInv, TypeOK, JobRow, Retry, Attempt, JobsAssumption
<1>2. att[j][n].status = "none"
  BY <1>1, Now DEF Good
<1>3. att' = [att EXCEPT ![j][n] = [NoAttempt EXCEPT !.status = "queued"]] /\ hist' = hist
  BY DEF Retry
<1>4. att[j][n].status \notin Terminal /\ TypeOK
  BY <1>2 DEF Terminal, IInv
<1>5. QED
  BY <1>1, <1>3, <1>4, OneAttemptFinal

\* Approvals and the passing of time write at most the lease of an active attempt.
LEMMA MomentFinal ==
  ASSUME IInv, NEW j \in Job, Approve(j) \/ Time(j)
  PROVE  Final
<1>1. CASE UNCHANGED <<att, hist>>
  BY <1>1 DEF Final
<1>2. CASE LeaseAges(j)
  <2> DEFINE n == job[j].cur
  <2>1. n \in Attempt /\ TypeOK /\ att \in [Job -> [Attempt -> AttRow]]
    BY DEF IInv, TypeOK, JobRow
  <2>2. /\ att[j][n].status \notin Terminal /\ hist' = hist
        /\ att' = [att EXCEPT ![j][n] = [att[j][n] EXCEPT !.lease = @ - 1]]
    BY <1>2, <2>1 DEF LeaseAges, Active, Terminal
  <2>3. QED
    BY <2>1, <2>2, OneAttemptFinal
<1>3. QED
  BY <1>1, <1>2 DEF Approve, Time, ReviewDue, GracePasses

\* The dispatcher writes the current attempt of a queued or active job.
LEMMA DispatcherFinal ==
  ASSUME IInv, NEW h \in Direct, NEW j \in Job, ClaimDirect(h, j) \/ FailCurrent(h, j)
  PROVE  Final
<1>1. h \in Node
  BY JobsAssumption DEF JobsAssumption
<1>2. ASSUME NEW n \in Attempt, Complete(h, j, n, att[j][n].token, "failed") PROVE Final
  <2>1. att[j][n].token \in Token \union {NoToken} /\ "failed" \in Terminal
    BY Now DEF AttRow, Terminal
  <2>2. QED
    BY <1>1, <1>2, <2>1, CompleteLockedFinal DEF Complete
<1>3. QED
  BY <1>1, <1>2, ClaimFinal DEF ClaimDirect, FailCurrent

\* No step changes how an attempt ended.
LEMMA NextFinal == IInv /\ [Next]_vars => Final
<1> SUFFICES ASSUME IInv, [Next]_vars PROVE Final
  OBVIOUS
<1>1. CASE UNCHANGED <<att, hist>>
  BY <1>1 DEF Final
<1>2. ASSUME NEW h \in Node, NEW w \in Worker, NEW j \in Job, ClaimNext(h, w, j) PROVE Final
  BY <1>2, ClaimFinal DEF ClaimNext
<1>3. ASSUME NEW h \in Node, NEW c \in Budget, SetCapacity(h, c) PROVE Final
  BY <1>1, <1>3 DEF SetCapacity
<1>4. CASE StoreNext
  BY <1>2, <1>3, <1>4, CallFinal, RetryFinal, MomentFinal, HouseFinal, RecoverStaleFinal
     DEF StoreNext
<1>5. ASSUME NEW j \in Job, NEW r \in Row, DispatchMoves(j, r) PROVE Final
  BY <1>1, <1>5 DEF DispatchMoves
<1>6. CASE UNCHANGED vars
  BY <1>1, <1>6 DEF vars
<1>7. QED
  BY <1>4, <1>5, <1>6, DispatcherFinal DEF Next

\* No late call, sweep or cascade changes how an attempt ended.
THEOREM OutcomesFinal == Spec => OutcomeIsFinal
<1>1. IInv /\ [Next]_vars => [Final]_vars
  BY NextFinal
<1>2. Spec => [][Final]_vars
  BY <1>1, Invariance, PTL DEF Spec
<1>3. QED
  BY <1>2 DEF Final, OutcomeIsFinal

-----------------------------------------------------------------------------
(* Slots.  No slot leaks and none is given back twice: a node's active     *)
(* count is the number of slots its claims still hold, and stays within    *)
(* its capacity.                                                           *)
(*                                                                         *)
(* A slot that a worker's claim reserved is given back on the row of the   *)
(* node that runs the transaction.  That is the right row in the two       *)
(* deployments the documentation describes: an embedded house, which has   *)
(* no workers, and a manager, which is one node.  It is the hypothesis of  *)
(* the theorem, and with a second node on a manager's database the         *)
(* property fails.                                                         *)

\* An embedded house, or a manager alone with its database.
DocumentedDeployment == Worker = {} \/ \E g : Node = {g}

\* Whoever gives a slot back does so on the row that reserved it.
RightRow ==
  \A j \in Job : \A n \in Attempt : att[j][n].reserved =>
    /\ hist[j][n].home \in Node
    /\ \A h \in Node : ReleaseRow(h, att[j][n]) = hist[j][n].home

CInv == IInv /\ RightRow /\ CapacityConserved

\* The step leaves the reservation of an attempt as it is.
Kept(i, m) ==
  /\ att'[i][m].reserved <=> att[i][m].reserved
  /\ att[i][m].reserved => /\ att'[i][m].machine = att[i][m].machine
                           /\ hist'[i][m].home = hist[i][m].home

-----------------------------------------------------------------------------
(* Sets of slots *)

\* Any set of slots is finite.
LEMMA SlotsFinite ==
  ASSUME NEW S \in SUBSET (Job \X Attempt)
  PROVE  IsFiniteSet(S) /\ Cardinality(S) \in Nat
<1>1. 1 \in Int /\ NJobs \in Int /\ MaxAttempt \in Int
  BY JobsAssumption DEF JobsAssumption
<1>2. IsFiniteSet(Job) /\ IsFiniteSet(Attempt)
  BY <1>1, FS_Interval DEF Job, Attempt
<1>3. IsFiniteSet(Job \X Attempt)
  BY <1>2, FS_Product
<1>4. QED
  BY <1>3, FS_Subset, FS_CardinalityType

\* A job has one current attempt: as many slots as jobs.
LEMMA OneSlotEach ==
  ASSUME NEW S \in SUBSET Job, NEW cur \in [Job -> Attempt]
  PROVE  Cardinality({<<j, cur[j]>> : j \in S}) = Cardinality(S)
<1> DEFINE T == {<<j, cur[j]>> : j \in S}
           f == [j \in S |-> <<j, cur[j]>>]
<1>1. IsFiniteSet(S)
  <2>1. 1 \in Int /\ NJobs \in Int
    BY JobsAssumption DEF JobsAssumption
  <2>2. QED
    BY <2>1, FS_Interval, FS_Subset DEF Job
<1>2. f \in Surjection(S, T) /\ f \in Injection(S, T)
  BY DEF Surjection, Injection, IsInjective
<1> HIDE DEF f
<1>3. QED
  BY <1>1, <1>2, FS_Surjection

-----------------------------------------------------------------------------
(* The three ways a step may change the reservations *)

\* Not at all.
LEMMA KeepsSlots ==
  ASSUME RightRow, CapacityConserved, \A i \in Job : \A m \in Attempt : Kept(i, m),
         UNCHANGED <<active, capacity>>
  PROVE  RightRow' /\ CapacityConserved'
<1>1. RightRow'
  BY DEF RightRow, Kept, ReleaseRow
<1>2. ASSUME NEW h \in Node PROVE SlotsHeld(h)' = SlotsHeld(h)
  BY DEF SlotsHeld, Kept
<1>3. QED
  BY <1>1, <1>2 DEF CapacityConserved

\* One attempt gives back its slot, if it has one.
LEMMA GivesBack ==
  ASSUME TypeOK, RightRow, CapacityConserved, NEW h \in Node, NEW j \in Job, NEW n \in Attempt,
         \A i \in Job : \A m \in Attempt : (i # j \/ m # n) => Kept(i, m),
         ~att'[j][n].reserved, active' = Released(h, att[j][n]), capacity' = capacity
  PROVE  RightRow' /\ CapacityConserved'
<1> DEFINE a == att[j][n]
           home == hist[j][n].home
           slot == <<j, n>>
<1>1. RightRow'
  BY DEF RightRow, Kept, ReleaseRow
<1>2. CASE ~a.reserved
  BY <1>2, KeepsSlots DEF Kept, Released
<1>3. CASE a.reserved
  <2>1. /\ home \in Node /\ active' = [active EXCEPT ![home] = @ - 1]
        /\ active \in [Node -> Nat] /\ capacity \in [Node -> Nat \ {0}]
    BY <1>3 DEF RightRow, Released, TypeOK
  <2>2. ASSUME NEW m \in Node
        PROVE  SlotsHeld(m)' = IF m = home THEN SlotsHeld(m) \ {slot} ELSE SlotsHeld(m)
    BY <1>3 DEF SlotsHeld, Kept
  <2>3. slot \in SlotsHeld(home)
    BY <1>3 DEF SlotsHeld
  <2>4. SlotsHeld(home) \in SUBSET (Job \X Attempt)
    BY DEF SlotsHeld
  <2>5. Cardinality(SlotsHeld(home) \ {slot}) = Cardinality(SlotsHeld(home)) - 1
    BY <2>3, <2>4, SlotsFinite, FS_RemoveElement
  <2> HIDE DEF home, slot
  <2>6. ASSUME NEW m \in Node
        PROVE  active'[m] = Cardinality(SlotsHeld(m)') /\ active'[m] <= capacity'[m]
    <3>1. active[m] = Cardinality(SlotsHeld(m)) /\ active[m] <= capacity[m]
          /\ active[m] \in Nat /\ capacity[m] \in Nat
      BY <2>1 DEF CapacityConserved
    <3>2. CASE m = home
      BY <2>1, <2>2, <2>5, <3>1, <3>2
    <3>3. CASE m # home
      BY <2>1, <2>2, <3>1, <3>3
    <3>4. QED
      BY <3>2, <3>3
  <2>7. QED
    BY <1>1, <2>6 DEF CapacityConserved
<1>4. QED
  BY <1>2, <1>3

\* A claim takes a slot of node h.
LEMMA ClaimKeepsSlots ==
  ASSUME DocumentedDeployment, CInv, NEW h \in Node, NEW j \in Job,
         NEW runner \in Node \union Worker, runner = h \/ runner \in Worker,
         Claim(h, j, runner)
  PROVE  RightRow' /\ CapacityConserved'
<1> DEFINE n == job[j].cur
           k == claims[j] + 1
           a == [status |-> "provisioning", machine |-> runner, token |-> k,
                 lease |-> LeaseTTL, reserved |-> TRUE]
           slot == <<j, n>>
<1>1. /\ TypeOK /\ n \in Attempt /\ Good(job[j], n, att[j][n], claims[j], outbox[j][n], hist[j][n])
      /\ att \in [Job -> [Attempt -> AttRow]] /\ hist \in [Job -> [Attempt -> HistRow]]
      /\ active \in [Node -> Nat] /\ capacity \in [Node -> Nat \ {0}]
  BY Now, RowTypes DEF CInv, IInv, TypeOK
<1>2. /\ att' = [att EXCEPT ![j][n] = a]
      /\ hist' = [hist EXCEPT ![j][n].issued = k, ![j][n].home = h]
      /\ active' = [active EXCEPT ![h] = @ + 1] /\ capacity' = capacity
      /\ active[h] < capacity[h] /\ job[j].status = "queued"
  BY DEF Claim
<1>3. ~att[j][n].reserved
  BY <1>1, <1>2 DEF Good, Active
<1>4. att'[j][n] = a /\ hist'[j][n].home = h
  BY <1>1, <1>2 DEF HistRow
<1>5. \A i \in Job : \A m \in Attempt :
        (i # j \/ m # n) => att'[i][m] = att[i][m] /\ hist'[i][m] = hist[i][m]
  BY <1>1, <1>2
<1>6. a.reserved /\ a.machine = runner
  OBVIOUS
<1> HIDE DEF a, n
<1>7. \A g \in Node : ReleaseRow(g, a) = h
  <2>1. CASE runner \in Worker
    BY <1>6, <2>1 DEF ReleaseRow, DocumentedDeployment
  <2>2. CASE runner \notin Worker
    BY <1>6, <2>2 DEF ReleaseRow
  <2>3. QED
    BY <2>1, <2>2
<1>8. RightRow'
  <2>1. ASSUME NEW i \in Job, NEW m \in Attempt, att'[i][m].reserved
        PROVE  /\ hist'[i][m].home \in Node
               /\ \A g \in Node : ReleaseRow(g, att'[i][m]) = hist'[i][m].home
    <3>1. CASE i = j /\ m = n
      BY <1>4, <1>7, <3>1
    <3>2. CASE i # j \/ m # n
      BY <1>5, <2>1, <3>2 DEF CInv, RightRow
    <3>3. QED
      BY <3>1, <3>2
  <2>2. QED
    BY <2>1 DEF RightRow
<1>9. ASSUME NEW m \in Node
      PROVE  SlotsHeld(m)' = IF m = h THEN SlotsHeld(m) \union {slot} ELSE SlotsHeld(m)
  BY <1>1, <1>3, <1>4, <1>5, <1>6 DEF SlotsHeld
<1>10. slot \notin SlotsHeld(h) /\ SlotsHeld(h) \in SUBSET (Job \X Attempt)
  BY <1>3 DEF SlotsHeld
<1> HIDE DEF slot
<1>11. Cardinality(SlotsHeld(h) \union {slot}) = Cardinality(SlotsHeld(h)) + 1
  BY <1>10, SlotsFinite, FS_AddElement
<1>12. ASSUME NEW m \in Node
       PROVE  active'[m] = Cardinality(SlotsHeld(m)') /\ active'[m] <= capacity'[m]
  <2>1. active[m] = Cardinality(SlotsHeld(m)) /\ active[m] <= capacity[m]
        /\ active[m] \in Nat /\ capacity[m] \in Nat
    BY <1>1 DEF CInv, CapacityConserved
  <2>2. CASE m = h
    <3>1. active'[m] = active[m] + 1 /\ capacity'[m] = capacity[m] /\ active[m] < capacity[m]
      BY <1>1, <1>2, <2>2
    <3>2. Cardinality(SlotsHeld(m)') = Cardinality(SlotsHeld(m)) + 1
      BY <1>9, <1>11, <2>2
    <3>3. QED
      BY <2>1, <3>1, <3>2
  <2>3. CASE m # h
    BY <1>1, <1>2, <1>9, <2>1, <2>3
  <2>4. QED
    BY <2>2, <2>3
<1>13. QED
  BY <1>8, <1>12 DEF CapacityConserved

\* An end gives back the slot of the attempt it ends; the dependents it cancels or
\* unlocks were blocked and hold none.
LEMMA CompleteLockedKeepsSlots ==
  ASSUME CInv, NEW h \in Node, NEW j \in Job, NEW n \in Attempt, NEW s \in Terminal,
         NEW how, NEW by, CompleteLocked(h, j, n, s, how, by)
  PROVE  RightRow' /\ CapacityConserved'
<1>0. IInv /\ TypeOK /\ RightRow /\ CapacityConserved
  BY DEF CInv, IInv
<1>1. ASSUME NEW i \in Job, NEW m \in Attempt, i # j \/ m # n
      PROVE  Kept(i, m)
  <2>0. /\ att[i] \in [Attempt -> AttRow] /\ hist[i] \in [Attempt -> HistRow]
        /\ att[i][m] \in AttRow
        /\ Good(job[i], m, att[i][m], claims[i], outbox[i][m], hist[i][m])
    BY <1>0, Now, RowTypes
  <2>1. CASE i = j
    <3>1. /\ att'[i] = [att[i] EXCEPT ![n] = Ended(@, s)]
          /\ hist'[i] = [hist[i] EXCEPT ![n].how = how, ![n].by = by]
      BY <2>1 DEF CompleteLocked
    <3>2. att'[i][m] = att[i][m] /\ hist'[i][m] = hist[i][m]
      BY <1>1, <2>0, <2>1, <3>1
    <3>3. QED
      BY <3>2 DEF Kept
  <2>2. CASE i # j /\ i \in CancelledBy(j, s)
    <3>1. /\ att'[i] = [att[i] EXCEPT ![job[i].cur] = Ended(@, "cancelled")]
          /\ hist'[i] = [hist[i] EXCEPT ![job[i].cur].how = "cascade"]
          /\ job[i].status = "blocked"
      BY <2>2, NotifiedAreBlocked DEF CompleteLocked
    <3>2. CASE m = job[i].cur
      <4>1. att'[i][m] = Ended(att[i][m], "cancelled") /\ ~att[i][m].reserved
        BY <2>0, <3>1, <3>2 DEF Good, Active
      <4>2. Ended(att[i][m], "cancelled").reserved = FALSE
        BY <2>0, EndedType DEF Status, Terminal
      <4>3. QED
        BY <4>1, <4>2 DEF Kept
    <3>3. CASE m # job[i].cur
      <4>1. att'[i][m] = att[i][m] /\ hist'[i][m] = hist[i][m]
        BY <2>0, <3>1, <3>3
      <4>2. QED
        BY <4>1 DEF Kept
    <3>4. QED
      BY <3>2, <3>3
  <2>3. CASE i # j /\ i \notin CancelledBy(j, s)
    <3>1. \/ att'[i] = [att[i] EXCEPT ![job[i].cur].status = "queued"]
          \/ att'[i] = att[i]
      BY <2>3 DEF CompleteLocked
    <3>2. hist'[i] = hist[i]
      BY <2>3 DEF CompleteLocked
    <3>3. att'[i][m].reserved = att[i][m].reserved /\ att'[i][m].machine = att[i][m].machine
      BY <2>0, <3>1 DEF AttRow
    <3>4. QED
      BY <3>2, <3>3 DEF Kept
  <2>4. QED
    BY <2>1, <2>2, <2>3
<1>2. ~att'[j][n].reserved
  <2>1. att[j] \in [Attempt -> AttRow] /\ att[j][n] \in AttRow
    BY <1>0, RowTypes
  <2>2. att'[j][n] = Ended(att[j][n], s)
    BY <2>1 DEF CompleteLocked
  <2>3. Ended(att[j][n], s).reserved = FALSE
    BY <2>1, EndedType DEF Status
  <2>4. QED
    BY <2>2, <2>3
<1>3. active' = Released(h, att[j][n]) /\ capacity' = capacity
  BY DEF CompleteLocked
<1>4. QED
  BY <1>0, <1>1, <1>2, <1>3, GivesBack

\* A call of a runner gives back the slot of its own attempt, or none.
LEMMA CallKeepsSlots ==
  ASSUME CInv, NEW j \in Job, NEW n \in Attempt, NEW k \in Token, Call(j, n, k)
  PROVE  RightRow' /\ CapacityConserved'
<1>0. /\ IInv /\ TypeOK /\ RightRow /\ CapacityConserved
      /\ att \in [Job -> [Attempt -> AttRow]] /\ att[j][n] \in AttRow
  BY Now DEF CInv, IInv
<1>1. CASE Heartbeat(j, n, k) \/ Renew(j, n, k) \/ MarkRunning(j, n, k)
  <2>1. UNCHANGED <<hist, active, capacity>>
    BY <1>1 DEF Heartbeat, Renew, MarkRunning
  <2>2. PICK a : att' = [att EXCEPT ![j][n] = a] /\ a.reserved = att[j][n].reserved
                 /\ a.machine = att[j][n].machine
    <3>1. CASE Heartbeat(j, n, k) \/ Renew(j, n, k)
      <4> WITNESS [att[j][n] EXCEPT !.lease = LeaseTTL]
      <4>1. QED
        BY <1>0, <3>1 DEF Heartbeat, Renew, AttRow
    <3>2. CASE MarkRunning(j, n, k)
      <4> WITNESS [att[j][n] EXCEPT !.status = "running"]
      <4>1. QED
        BY <1>0, <3>2 DEF MarkRunning, AttRow
    <3>3. QED
      BY <1>1, <3>1, <3>2
  <2>3. ASSUME NEW i \in Job, NEW m \in Attempt PROVE Kept(i, m)
    <3>1. /\ (i # j \/ m # n) => att'[i][m] = att[i][m]
          /\ att'[j][n] = a
      BY <1>0, <2>2
    <3>2. QED
      BY <2>1, <2>2, <3>1 DEF Kept
  <2>4. QED
    BY <1>0, <2>1, <2>3, KeepsSlots
<1>2. ASSUME NEW h \in Node, NEW a, att' = [att EXCEPT ![j][n] = a], ~a.reserved,
             active' = Released(h, att[j][n]), UNCHANGED <<hist, capacity>>
      PROVE  RightRow' /\ CapacityConserved'
  <2>1. /\ att'[j][n] = a
        /\ \A i \in Job : \A m \in Attempt : (i # j \/ m # n) => att'[i][m] = att[i][m]
    BY <1>0, <1>2
  <2>2. \A i \in Job : \A m \in Attempt : (i # j \/ m # n) => Kept(i, m)
    BY <1>2, <2>1 DEF Kept
  <2>3. QED
    BY <1>0, <1>2, <2>1, <2>2, GivesBack
<1>3. ASSUME NEW h \in Node, Unclaim(h, j, n, k) PROVE RightRow' /\ CapacityConserved'
  <2>1. ~Ended(att[j][n], "queued").reserved
    BY <1>0, EndedType DEF Status
  <2>2. QED
    BY <1>2, <1>3, <2>1 DEF Unclaim
<1>4. ASSUME NEW h \in Node, Hold(h, j, n, k) PROVE RightRow' /\ CapacityConserved'
  <2> DEFINE a == [att[j][n] EXCEPT !.status = "review", !.lease = 0, !.reserved = FALSE]
  <2>1. ~a.reserved
    BY <1>0 DEF AttRow
  <2>2. att' = [att EXCEPT ![j][n] = a] /\ active' = Released(h, att[j][n])
        /\ UNCHANGED <<hist, capacity>>
    BY <1>4 DEF Hold
  <2> HIDE DEF a
  <2>3. QED
    BY <1>2, <2>1, <2>2
<1>5. ASSUME NEW h \in Node, NEW s \in {"succeeded", "failed"}, Complete(h, j, n, k, s)
      PROVE  RightRow' /\ CapacityConserved'
  BY <1>5, CompleteLockedKeepsSlots DEF Complete, Terminal
<1>6. CallNode(att[j][n]) \subseteq Node
  BY JobsAssumption DEF CallNode, JobsAssumption
<1>7. QED
  BY <1>1, <1>3, <1>4, <1>5, <1>6 DEF Call

\* An operator, or the sweep of an orphan, gives back the slot of the attempt that ends.
LEMMA HouseKeepsSlots ==
  ASSUME CInv, NEW h \in Node, NEW j \in Job, House(h, j)
  PROVE  RightRow' /\ CapacityConserved'
<1> DEFINE n == job[j].cur
<1>0. /\ IInv /\ TypeOK /\ RightRow /\ CapacityConserved /\ n \in Attempt
      /\ att \in [Job -> [Attempt -> AttRow]] /\ hist \in [Job -> [Attempt -> HistRow]]
  BY RowTypes DEF CInv, IInv, TypeOK
<1>1. CASE Reject(h, j) \/ ExpireReview(h, j) \/ Cancel(h, j)
  BY <1>0, <1>1, CompleteLockedKeepsSlots DEF Reject, ExpireReview, Cancel, Terminal
<1>2. CASE RecoverOrphan(h, j)
  <2> DEFINE a == Ended(att[j][n], "cancelled")
  <2>1. /\ att' = [att EXCEPT ![j][n] = a]
        /\ hist' = [hist EXCEPT ![j][n].how = "sweep"]
        /\ active' = Released(h, att[j][n]) /\ capacity' = capacity
    BY <1>2 DEF RecoverOrphan
  <2>2. att[j][n] \in AttRow
    BY <1>0
  <2>3. a.reserved = FALSE
    BY <2>2, EndedType DEF Status, Terminal
  <2> HIDE DEF a
  <2>4. /\ att'[j][n] = a
        /\ \A i \in Job : \A m \in Attempt :
             (i # j \/ m # n) => att'[i][m] = att[i][m] /\ hist'[i][m] = hist[i][m]
    BY <1>0, <2>1
  <2>5. \A i \in Job : \A m \in Attempt : (i # j \/ m # n) => Kept(i, m)
    BY <2>4 DEF Kept
  <2>6. QED
    BY <1>0, <2>1, <2>3, <2>4, <2>5, GivesBack
<1>3. QED
  BY <1>1, <1>2 DEF House

\* The sweep gives back, row by row, as many slots as it ends attempts of that row.
LEMMA RecoverStaleKeepsSlots ==
  ASSUME CInv, NEW h \in Node, RecoverStale(h)
  PROVE  RightRow' /\ CapacityConserved'
<1> DEFINE S == {j \in Job : Stale(j)}
           on(m) == {j \in S : LET a == att[j][job[j].cur]
                                IN a.reserved /\ ReleaseRow(h, a) = m}
           cur == [j \in Job |-> job[j].cur]
           back(m) == {<<j, cur[j]>> : j \in on(m)}
<1>0. /\ IInv /\ TypeOK /\ RightRow /\ CapacityConserved
      /\ \A j \in Job : /\ job[j].cur \in Attempt /\ att[j] \in [Attempt -> AttRow]
                        /\ hist[j] \in [Attempt -> HistRow]
  BY RowTypes DEF CInv, IInv
<1>1. ASSUME NEW i \in Job, NEW m \in Attempt, ~Stale(i) \/ m # job[i].cur
      PROVE  Kept(i, m)
  <2>1. CASE Stale(i)
    <3>1. /\ att'[i] = [att[i] EXCEPT ![job[i].cur] = Ended(@, "failed")]
          /\ hist'[i] = [hist[i] EXCEPT ![job[i].cur].how = "sweep"]
      BY <2>1 DEF RecoverStale
    <3>2. att'[i][m] = att[i][m] /\ hist'[i][m] = hist[i][m]
      BY <1>0, <1>1, <2>1, <3>1
    <3>3. QED
      BY <3>2 DEF Kept
  <2>2. CASE ~Stale(i)
    BY <2>2 DEF RecoverStale, Kept
  <2>3. QED
    BY <2>1, <2>2
<1>2. ASSUME NEW i \in Job, Stale(i)
      PROVE  ~att'[i][job[i].cur].reserved
  <2>1. att[i][job[i].cur] \in AttRow
    BY <1>0
  <2>2. att'[i][job[i].cur] = Ended(att[i][job[i].cur], "failed")
    BY <1>0, <1>2 DEF RecoverStale
  <2>3. Ended(att[i][job[i].cur], "failed").reserved = FALSE
    BY <2>1, EndedType DEF Status, Terminal
  <2>4. QED
    BY <2>2, <2>3
<1>3. RightRow'
  <2>1. ASSUME NEW i \in Job, NEW m \in Attempt, att'[i][m].reserved
        PROVE  /\ hist'[i][m].home \in Node
               /\ \A g \in Node : ReleaseRow(g, att'[i][m]) = hist'[i][m].home
    <3>1. Kept(i, m)
      BY <1>1, <1>2, <2>1
    <3>2. QED
      BY <1>0, <2>1, <3>1 DEF RightRow, Kept, ReleaseRow
  <2>2. QED
    BY <2>1 DEF RightRow
<1>4. ASSUME NEW m \in Node
      PROVE  active'[m] = Cardinality(SlotsHeld(m)') /\ active'[m] <= capacity'[m]
  <2>1. on(m) \in SUBSET Job /\ cur \in [Job -> Attempt]
    BY <1>0
  <2>2. Cardinality(back(m)) = Cardinality(on(m)) /\ Cardinality(on(m)) \in Nat
    BY <2>1, OneSlotEach, JobSubset
  <2>3. back(m) \subseteq SlotsHeld(m)
    <3>1. ASSUME NEW i \in on(m) PROVE <<i, cur[i]>> \in SlotsHeld(m)
      <4>1. /\ i \in Job /\ cur[i] = job[i].cur /\ job[i].cur \in Attempt
            /\ att[i][job[i].cur].reserved /\ ReleaseRow(h, att[i][job[i].cur]) = m
        BY <1>0
      <4>2. hist[i][job[i].cur].home = m
        BY <1>0, <4>1 DEF RightRow
      <4> HIDE DEF cur
      <4>3. QED
        BY <4>1, <4>2 DEF SlotsHeld
    <3> HIDE DEF on, cur
    <3>2. QED
      BY <3>1
  <2>4. SlotsHeld(m)' = SlotsHeld(m) \ back(m)
    <3>1. ASSUME NEW i \in Job, NEW l \in Attempt
          PROVE  <<i, l>> \in SlotsHeld(m)' <=> <<i, l>> \in SlotsHeld(m) /\ <<i, l>> \notin back(m)
      <4>1. CASE Stale(i) /\ l = job[i].cur
        <5>1. <<i, l>> \notin SlotsHeld(m)'
          BY <1>2, <4>1 DEF SlotsHeld
        <5>2. <<i, l>> \in SlotsHeld(m) => i \in on(m)
          BY <1>0, <4>1 DEF SlotsHeld, RightRow
        <5>3. i \in on(m) => <<i, l>> \in back(m)
          <6>1. l = cur[i]
            BY <4>1
          <6> HIDE DEF on, cur
          <6>2. QED
            BY <6>1
        <5>4. QED
          BY <5>1, <5>2, <5>3
      <4>2. CASE ~Stale(i) \/ l # job[i].cur
        <5>1. <<i, l>> \in SlotsHeld(m)' <=> <<i, l>> \in SlotsHeld(m)
          BY <1>1, <4>2 DEF SlotsHeld, Kept
        <5>2. <<i, l>> \notin back(m)
          BY <4>2
        <5>3. QED
          BY <5>1, <5>2
      <4>3. QED
        BY <4>1, <4>2
    <3>2. SlotsHeld(m)' \subseteq Job \X Attempt /\ SlotsHeld(m) \subseteq Job \X Attempt
      BY DEF SlotsHeld
    <3> HIDE DEF back
    <3>3. QED
      BY <3>1, <3>2
  <2>5. /\ active[m] = Cardinality(SlotsHeld(m)) /\ active[m] <= capacity[m]
        /\ active[m] \in Nat /\ capacity[m] \in Nat
        /\ active'[m] = active[m] - Cardinality(on(m)) /\ capacity'[m] = capacity[m]
    BY <1>0 DEF CapacityConserved, TypeOK, RecoverStale
  <2>6. SlotsHeld(m) \in SUBSET (Job \X Attempt)
    BY DEF SlotsHeld
  <2> HIDE DEF back, on
  <2>7. Cardinality(SlotsHeld(m) \ back(m)) = Cardinality(SlotsHeld(m)) - Cardinality(back(m))
    <3>1. SlotsHeld(m) \intersect back(m) = back(m)
      BY <2>3
    <3>2. QED
      BY <2>6, <3>1, SlotsFinite, FS_Difference
  <2>8. QED
    BY <2>2, <2>4, <2>5, <2>7
<1>5. QED
  BY <1>3, <1>4 DEF CapacityConserved

\* A retry writes an attempt that did not exist and holds nothing.
LEMMA RetryKeepsSlots ==
  ASSUME CInv, NEW j \in Job, Retry(j)
  PROVE  RightRow' /\ CapacityConserved'
<1> DEFINE n == job[j].cur + 1
           a == [NoAttempt EXCEPT !.status = "queued"]
<1>0. /\ IInv /\ TypeOK /\ RightRow /\ CapacityConserved
      /\ att \in [Job -> [Attempt -> AttRow]]
  BY DEF CInv, IInv, TypeOK
<1>1. /\ att' = [att EXCEPT ![j][n] = a] /\ UNCHANGED <<hist, active, capacity>>
      /\ n <= MaxAttempt
  BY DEF Retry
<1>2. job[j].cur \in Attempt /\ n \in Attempt /\ n > job[j].cur
  BY <1>0, <1>1, RowTypes, JobsAssumption DEF Attempt, JobsAssumption
<1>3. ~att[j][n].reserved
  BY <1>0, <1>2, Now DEF Good, Active
<1>4. ~a.reserved
  BY DEF NoAttempt
<1> HIDE DEF a, n
<1>5. /\ att'[j][n] = a
      /\ \A i \in Job : \A m \in Attempt : (i # j \/ m # n) => att'[i][m] = att[i][m]
  BY <1>0, <1>1, <1>2
<1>6. \A i \in Job : \A m \in Attempt : Kept(i, m)
  BY <1>1, <1>3, <1>4, <1>5 DEF Kept
<1>7. QED
  BY <1>0, <1>1, <1>6, KeepsSlots

\* Approvals and time leave the slots alone.
LEMMA MomentKeepsSlots ==
  ASSUME CInv, NEW j \in Job, Approve(j) \/ Time(j)
  PROVE  RightRow' /\ CapacityConserved'
<1> DEFINE n == job[j].cur
           a == [att[j][n] EXCEPT !.lease = @ - 1]
<1>0. /\ IInv /\ TypeOK /\ RightRow /\ CapacityConserved /\ n \in Attempt
      /\ att \in [Job -> [Attempt -> AttRow]]
  BY RowTypes DEF CInv, IInv, TypeOK
<1>1. UNCHANGED <<hist, active, capacity>>
  BY DEF Approve, Time, LeaseAges, ReviewDue, GracePasses
<1>2. CASE att' = att
  BY <1>0, <1>1, <1>2, KeepsSlots DEF Kept
<1>3. CASE LeaseAges(j)
  <2>1. att[j][n] \in AttRow
    BY <1>0
  <2>2. a.reserved = att[j][n].reserved /\ a.machine = att[j][n].machine
    BY <2>1 DEF AttRow
  <2>3. att' = [att EXCEPT ![j][n] = a]
    BY <1>0, <1>3 DEF LeaseAges
  <2> HIDE DEF a, n
  <2>4. /\ att'[j][n] = a
        /\ \A i \in Job : \A m \in Attempt : (i # j \/ m # n) => att'[i][m] = att[i][m]
    BY <1>0, <2>3
  <2>5. \A i \in Job : \A m \in Attempt : Kept(i, m)
    BY <1>1, <2>2, <2>4 DEF Kept
  <2>6. QED
    BY <1>0, <1>1, <2>5, KeepsSlots
<1>4. QED
  BY <1>2, <1>3 DEF Approve, Time, ReviewDue, GracePasses

\* A node that boots with a smaller budget keeps room for the slots in use.
LEMMA SetCapacityKeepsSlots ==
  ASSUME CInv, NEW h \in Node, NEW c \in Budget, SetCapacity(h, c)
  PROVE  RightRow' /\ CapacityConserved'
<1>0. /\ RightRow /\ CapacityConserved /\ active \in [Node -> Nat] /\ c \in Nat
      /\ capacity \in [Node -> Nat \ {0}]
  BY JobsAssumption DEF CInv, IInv, TypeOK, JobsAssumption
<1>1. UNCHANGED <<att, hist, active>>
  BY DEF SetCapacity
<1>2. RightRow'
  BY <1>0, <1>1 DEF RightRow
<1>3. ASSUME NEW m \in Node PROVE SlotsHeld(m)' = SlotsHeld(m)
  BY <1>1 DEF SlotsHeld
<1>4. ASSUME NEW m \in Node PROVE active[m] <= capacity'[m]
  <2>1. active[m] <= capacity[m]
    BY <1>0 DEF CapacityConserved
  <2>2. QED
    BY <1>0, <2>1 DEF SetCapacity
<1>5. QED
  BY <1>0, <1>1, <1>2, <1>3, <1>4 DEF CapacityConserved

\* The dispatcher of a node reserves and gives back on the row of that node.
LEMMA DispatcherKeepsSlots ==
  ASSUME DocumentedDeployment, CInv, NEW h \in Direct, NEW j \in Job,
         ClaimDirect(h, j) \/ FailCurrent(h, j)
  PROVE  RightRow' /\ CapacityConserved'
<1>1. h \in Node
  BY JobsAssumption DEF JobsAssumption
<1>2. ASSUME NEW n \in Attempt, NEW k, Complete(h, j, n, k, "failed")
      PROVE  RightRow' /\ CapacityConserved'
  BY <1>1, <1>2, CompleteLockedKeepsSlots DEF Complete, Terminal
<1>3. QED
  BY <1>1, <1>2, ClaimKeepsSlots DEF ClaimDirect, FailCurrent

\* Every step keeps the books of every node.
LEMMA NextKeepsSlots ==
  ASSUME DocumentedDeployment, CInv, [Next]_vars
  PROVE  CInv'
<1>0. IInv'
  BY NextIInv DEF CInv
<1> SUFFICES RightRow' /\ CapacityConserved'
  BY <1>0 DEF CInv
<1>1. CASE UNCHANGED <<att, hist, active, capacity>>
  BY <1>1, KeepsSlots DEF Kept, CInv
<1>2. ASSUME NEW h \in Node, NEW w \in Worker, NEW j \in Job, ClaimNext(h, w, j)
      PROVE  RightRow' /\ CapacityConserved'
  BY <1>2, ClaimKeepsSlots DEF ClaimNext
<1>3. CASE StoreNext
  BY <1>2, <1>3, CallKeepsSlots, RetryKeepsSlots, MomentKeepsSlots, HouseKeepsSlots,
     RecoverStaleKeepsSlots, SetCapacityKeepsSlots DEF StoreNext
<1>4. ASSUME NEW j \in Job, NEW r \in Row, DispatchMoves(j, r)
      PROVE  RightRow' /\ CapacityConserved'
  BY <1>1, <1>4 DEF DispatchMoves
<1>5. CASE UNCHANGED vars
  BY <1>1, <1>5 DEF vars
<1>6. QED
  BY <1>3, <1>4, <1>5, DispatcherKeepsSlots DEF Next

\* No slot is held and none is counted.
LEMMA InitCInv == Init => CInv
<1> SUFFICES ASSUME Init PROVE CInv
  OBVIOUS
<1>1. IInv
  BY InitIInv
<1>2. ASSUME NEW j \in Job, NEW n \in Attempt PROVE ~att[j][n].reserved
  BY DEF Init, NoAttempt
<1>3. RightRow
  BY <1>2 DEF RightRow
<1>4. ASSUME NEW h \in Node PROVE SlotsHeld(h) = {} /\ active[h] = 0
  BY <1>2 DEF SlotsHeld, Init
<1>5. \A h \in Node : capacity[h] \in Nat
  BY <1>1 DEF IInv, TypeOK
<1>6. QED
  BY <1>1, <1>3, <1>4, <1>5, FS_EmptySet DEF CInv, CapacityConserved

\* In an embedded house and behind a single manager no slot leaks, none is given back
\* twice, and no node runs more than its capacity.
THEOREM CapacityIsConserved ==
  ASSUME DocumentedDeployment
  PROVE  Spec => []CapacityConserved
<1>1. CInv /\ [Next]_vars => CInv'
  BY NextKeepsSlots
<1>2. CInv => CapacityConserved
  BY DEF CInv
<1>3. QED
  BY <1>1, <1>2, InitCInv, PTL DEF Spec

-----------------------------------------------------------------------------
(* No release is refused.  release_capacity! rolls the whole transaction   *)
(* back when a row would go below zero, and the lease sweep is one         *)
(* transaction for all expired leases: one refusal would block them all,   *)
(* each second again.                                                      *)

\* The jobs whose expired leases a sweep by node h gives back on the row of m.
SweptOn(h, m) ==
  {j \in Job : LET a == att[j][job[j].cur]
               IN Stale(j) /\ a.reserved /\ ReleaseRow(h, a) = m}

\* Whatever node runs the transaction, the row it writes counts what it gives back.
ReleasesCovered ==
  \A h \in Node :
    /\ \A j \in Job : \A n \in Attempt : CanRelease(h, att[j][n])
    /\ \A m \in Node : Cardinality(SweptOn(h, m)) <= active[m]

\* What a row counts covers one slot that it holds, and any number of them.
LEMMA CountsCover == ASSUME CInv PROVE ReleasesCovered
<1>1. \A m \in Node : /\ active[m] = Cardinality(SlotsHeld(m))
                      /\ SlotsHeld(m) \in SUBSET (Job \X Attempt)
  BY DEF CInv, CapacityConserved, SlotsHeld
<1>2. ASSUME NEW m \in Node, NEW T, T \subseteq SlotsHeld(m)
      PROVE  Cardinality(T) \in Nat /\ Cardinality(T) <= active[m]
  <2>1. T \in SUBSET (Job \X Attempt)
    BY <1>1, <1>2
  <2> QED
    BY <1>1, <1>2, <2>1, SlotsFinite, FS_Subset
<1>3. ASSUME NEW h \in Node, NEW j \in Job, NEW n \in Attempt, att[j][n].reserved
      PROVE  /\ ReleaseRow(h, att[j][n]) \in Node
             /\ <<j, n>> \in SlotsHeld(ReleaseRow(h, att[j][n]))
  BY <1>3 DEF CInv, RightRow, SlotsHeld
<1>4. ASSUME NEW h \in Node, NEW j \in Job, NEW n \in Attempt PROVE CanRelease(h, att[j][n])
  <2> SUFFICES ASSUME att[j][n].reserved PROVE active[ReleaseRow(h, att[j][n])] > 0
    BY DEF CanRelease
  <2> DEFINE m == ReleaseRow(h, att[j][n])
             T == {<<j, n>>}
  <2>1. m \in Node /\ T \subseteq SlotsHeld(m)
    BY <1>3
  <2>2. Cardinality(T) = 1
    BY FS_Singleton
  <2> HIDE DEF m, T
  <2>3. 1 <= active[m] /\ active[m] \in Nat
    BY <1>1, <1>2, <2>1, <2>2, SlotsFinite
  <2> QED
    BY <2>3 DEF m
<1>5. ASSUME NEW h \in Node, NEW m \in Node PROVE Cardinality(SweptOn(h, m)) <= active[m]
  <2> DEFINE S == SweptOn(h, m)
             cur == [j \in Job |-> job[j].cur]
             T == {<<j, cur[j]>> : j \in S}
  <2>1. S \in SUBSET Job /\ cur \in [Job -> Attempt]
    BY RowTypes DEF SweptOn, CInv, IInv, JobRow
  <2>2. \A j \in S : /\ att[j][cur[j]].reserved /\ ReleaseRow(h, att[j][cur[j]]) = m
                     /\ j \in Job /\ cur[j] \in Attempt
    BY <2>1 DEF SweptOn
  <2> HIDE DEF S, cur
  <2>3. T \subseteq SlotsHeld(m)
    BY <1>3, <2>2
  <2>4. Cardinality(T) = Cardinality(S)
    BY <2>1, OneSlotEach
  <2> QED
    BY <1>2, <2>3, <2>4 DEF S
<1> QED
  BY <1>4, <1>5 DEF ReleasesCovered

\* In the documented deployments no transaction of lib/jobs.ex is rolled back by an
\* underflow, and no expired lease is kept from the sweep by another.
THEOREM ReleasesAreNeverRefused ==
  ASSUME DocumentedDeployment
  PROVE  Spec => []ReleasesCovered
<1>1. CInv /\ [Next]_vars => CInv'
  BY NextKeepsSlots
<1>2. CInv => ReleasesCovered
  BY CountsCover
<1> QED
  BY <1>1, <1>2, InitCInv, PTL DEF Spec

=============================================================================
