--------------------------- MODULE DispatchProofs ---------------------------
(***************************************************************************)
(* The dispatcher with its crashes implements the job store, so that all   *)
(* that is proved of the store holds under it; no attempt is run twice,    *)
(* also when a row is rescued beside its process; a process that settles   *)
(* the job of its last try leaves a visible end.                           *)
(***************************************************************************)
EXTENDS Dispatch, JobsProofs

ProcRow == [node : Node \union {NoMachine}, phase : Phase, n : 0..MaxAttempt, t : 0..MaxTries]

Working == Phase \ {"idle"}

\* A process p belongs to a dispatch row d that exists, and to a node that dispatches.
ProcFits(p, d) ==
  /\ p.phase = "idle" => p = Idle
  /\ p.phase # "idle" => d # "none" /\ p.node \in Direct

\* The slots of a row in which a process is at work.
Live(j, r) == {s \in Slot : proc[j][<<r, s>>] # Idle}

\* Each process at work is one of the tries the row counts.
TriesFit == \A j \in Job : \A r \in Row : Cardinality(Live(j, r)) <= tries[j][r]

RowsFit ==
  /\ \A j \in Job : \A p \in Run : ProcFits(proc[j][p], dispatch[j][p[1]])
  /\ \A j \in Job : \A r \in Row : dispatch[j][r] = "executing" => Direct # {}
  /\ TriesFit

\* An attempt that a node of the house took up: it never returns to the queue.
Begun(a) == a.machine \in Node /\ a.status \in Active \union {"review"} \union Terminal

\* A process that waits for a runner waits for an attempt that was taken up.
RunsFit ==
  \A j \in Job : \A p \in Run :
    proc[j][p].phase = "run" => proc[j][p].n \in Attempt /\ Begun(att[j][proc[j][p].n])

DInv == DTypeOK /\ IInv /\ RowsFit

RInv == RunsFit /\ OneRunPerAttempt

-----------------------------------------------------------------------------
(* The dispatcher implements the store *)

\* A run is a row and a slot of it.
LEMMA RunParts ==
  ASSUME NEW p \in Run
  PROVE  p[1] \in Row /\ p[2] \in Slot /\ p = <<p[1], p[2]>>
BY DEF Run

\* A process that does not exist is not at work.
LEMMA IdleType == Idle \in ProcRow /\ Idle.phase = "idle" /\ Idle.t = 0
BY JobsAssumption, DispatchAssumption DEF Idle, ProcRow, Phase, JobsAssumption, DispatchAssumption

\* What a proof about process p of job j starts from.
LEMMA DTypes ==
  ASSUME DInv, NEW j \in Job, NEW p \in Run
  PROVE  /\ TypeOK /\ IInv
         /\ dispatch \in [Job -> [Row -> RowState]] /\ proc \in [Job -> [Run -> ProcRow]]
         /\ tries \in [Job -> [Row -> 0..MaxTries]]
         /\ dispatch[j][p[1]] \in RowState /\ proc[j][p] \in ProcRow
         /\ tries[j][p[1]] \in Nat /\ tries[j][p[1]] <= MaxTries /\ MaxTries \in Nat \ {0}
         /\ ProcFits(proc[j][p], dispatch[j][p[1]])
BY DispatchAssumption, RunParts DEF DInv, DTypeOK, TypeOK, RowsFit, ProcRow, DispatchAssumption

\* A process is one of a node that dispatches, and so of a node.
LEMMA Runs ==
  ASSUME DInv, NEW j \in Job, NEW p \in Run, proc[j][p].phase # "idle"
  PROVE  /\ proc[j][p].node \in Direct /\ proc[j][p].node \in Node
         /\ dispatch[j][p[1]] # "none" /\ Direct # {}
BY DTypes, JobsAssumption DEF ProcFits, JobsAssumption

\* Writing a dispatch row that exists is a move of the scheduler's queue.
LEMMA MovesRow ==
  ASSUME NEW j \in Job, NEW r \in Row, Direct # {}, dispatch[j][r] # "none",
         NEW s \in {"available", "executing", "done"},
         RowBecomes(j, r, s), NoJobChange
  PROVE  Next
BY DEF DispatchMoves, NoJobChange, RowBecomes, Next

\* What is recorded of a process is such a move, or nothing.
LEMMA RecordsStep ==
  ASSUME DInv, NEW j \in Job, NEW p \in Run, proc[j][p].phase # "idle",
         NEW s \in {"available", "done"}, NEW k, Records(j, p, s, k)
  PROVE  [Next]_vars
<1>1. Direct # {} /\ dispatch[j][p[1]] # "none" /\ p[1] \in Row /\ NoJobChange
  BY Runs, RunParts DEF Records
<1>2. CASE RowBecomes(j, p[1], s)
  BY <1>1, <1>2, MovesRow
<1>3. CASE UNCHANGED dispatch
  BY <1>1, <1>3 DEF NoJobChange, vars
<1>4. QED
  BY <1>2, <1>3 DEF Records

\* Each step of a process is a step of the store or none.
LEMMA PerformStep ==
  ASSUME DInv, NEW j \in Job, NEW p \in Run, Perform(j, p)
  PROVE  [Next]_vars
<1> DEFINE h == proc[j][p].node
<1>1. proc[j][p].phase # "idle"
  BY DEF Perform, ClaimRuns, Snooze, NotQueued, ClaimErrs, RunnerReturns, RunnerErrs, Settle,
         ForceFail, FailRefused, ForceCancel, SettleFails, Ack, Nack
<1>2. h \in Direct /\ h \in Node
  BY <1>1, Runs
<1>3. CASE ClaimRuns(j, p)
  BY <1>2, <1>3 DEF ClaimRuns, Next
<1>4. CASE Snooze(j, p) \/ Ack(j, p) \/ Nack(j, p)
  BY <1>1, <1>4, RecordsStep DEF Snooze, Ack, Nack, AfterFailure
<1>5. CASE NoJobChange /\ UNCHANGED dispatch
  BY <1>5 DEF NoJobChange, vars
<1>6. CASE ForceFail(j, p)
  BY <1>2, <1>6 DEF ForceFail, Next
<1>7. CASE ForceCancel(j, p)
  BY <1>2, <1>7 DEF ForceCancel, Next, StoreNext, House
<1>8. QED
  BY <1>3, <1>4, <1>5, <1>6, <1>7
     DEF Perform, NotQueued, ClaimErrs, RunnerReturns, RunnerErrs, Settle, FailRefused, SettleFails

\* A step of the house with its dispatcher is a step of the store.
LEMMA DNextStep == DInv /\ [DNext]_dvars => [Next]_vars
<1> SUFFICES ASSUME DInv, [DNext]_dvars PROVE [Next]_vars
  OBVIOUS
<1>1. CASE StoreNext
  BY <1>1 DEF Next
<1>2. ASSUME NEW h \in Direct, NEW j \in Job, NEW p \in Run, Fetch(h, j, p) PROVE [Next]_vars
  BY <1>2, MovesRow, RunParts DEF Fetch
<1>3. ASSUME NEW j \in Job, NEW r \in Row, Rescue(j, r) PROVE [Next]_vars
  BY <1>3, MovesRow DEF Rescue, AfterFailure, DInv, RowsFit
<1>4. ASSUME NEW h, NodeDies(h) PROVE [Next]_vars
  BY <1>4 DEF NodeDies, NoJobChange, vars
<1>5. CASE UNCHANGED dvars
  BY <1>5 DEF dvars, vars
<1>6. QED
  BY <1>1, <1>2, <1>3, <1>4, <1>5, PerformStep DEF DNext

-----------------------------------------------------------------------------
(* Types, and the rows with their processes *)

\* What a step may do to a dispatch row that processes look after.
RowMoves(d, e) == (d # "none" => e # "none") /\ (e = "executing" => d = "executing")

\* An insert leaves a row as it is, or makes an unused one available.
LEMMA EnqueuedMoves ==
  ASSUME NEW rows \in [Row -> RowState], CanEnqueue(rows), NEW r \in Row
  PROVE  RowMoves(rows[r], Enqueued(rows)[r])
<1>1. CASE Incomplete(rows) # {}
  BY <1>1 DEF Enqueued, RowMoves
<1>2. CASE Incomplete(rows) = {}
  <2> DEFINE new == CHOOSE q \in Row : rows[q] = "none"
  <2>1. new \in Row /\ rows[new] = "none"
    BY <1>2 DEF CanEnqueue
  <2>2. Enqueued(rows) = [rows EXCEPT ![new] = "available"]
    BY <1>2 DEF Enqueued
  <2> HIDE DEF new
  <2>3. QED
    BY <2>1, <2>2 DEF RowMoves
<1>3. QED
  BY <1>1, <1>2

\* The end of a job inserts the dispatches of the dependents it unlocks.
LEMMA CompleteLockedRows ==
  ASSUME TypeOK, NEW h, NEW i \in Job, NEW n, NEW s, NEW how, NEW by,
         CompleteLocked(h, i, n, s, how, by), NEW j \in Job, NEW r \in Row
  PROVE  RowMoves(dispatch[j][r], dispatch'[j][r])
<1>1. dispatch[j] \in [Row -> RowState]
  BY DEF TypeOK
<1>2. CASE j \in UnlockedBy(i, s)
  <2>1. CanEnqueue(dispatch[j]) /\ dispatch'[j] = Enqueued(dispatch[j])
    BY <1>2 DEF CompleteLocked
  <2>2. QED
    BY <1>1, <2>1, EnqueuedMoves
<1>3. CASE j \notin UnlockedBy(i, s)
  BY <1>3 DEF CompleteLocked, RowMoves
<1>4. QED
  BY <1>2, <1>3

\* An operation of the store inserts or ends a dispatch row, or leaves it.
LEMMA StoreRows ==
  ASSUME TypeOK, StoreNext, NEW j \in Job, NEW r \in Row
  PROVE  RowMoves(dispatch[j][r], dispatch'[j][r])
<1>1. CASE UNCHANGED dispatch
  BY <1>1 DEF RowMoves
<1>2. ASSUME NEW i \in Job, NEW n \in Attempt, NEW k \in Token, Call(i, n, k)
      PROVE  RowMoves(dispatch[j][r], dispatch'[j][r])
  BY <1>1, <1>2, CompleteLockedRows
     DEF Call, Heartbeat, Renew, MarkRunning, Unclaim, Hold, Complete
<1>3. ASSUME NEW i \in Job, Retry(i)
      PROVE  RowMoves(dispatch[j][r], dispatch'[j][r])
  <2>1. /\ dispatch \in [Job -> [Row -> RowState]] /\ CanEnqueue(dispatch[i])
        /\ dispatch' = [dispatch EXCEPT ![i] = Enqueued(@)]
    BY <1>3 DEF Retry, TypeOK
  <2>2. CASE j = i
    <3>1. dispatch'[j] = Enqueued(dispatch[j]) /\ dispatch[j] \in [Row -> RowState]
      BY <2>1, <2>2
    <3>2. QED
      BY <2>1, <2>2, <3>1, EnqueuedMoves
  <2>3. CASE j # i
    BY <2>1, <2>3 DEF RowMoves
  <2>4. QED
    BY <2>2, <2>3
<1>4. ASSUME NEW i \in Job, Approve(i) \/ Time(i)
      PROVE  RowMoves(dispatch[j][r], dispatch'[j][r])
  BY <1>1, <1>4 DEF Approve, Time, LeaseAges, ReviewDue, GracePasses
<1>5. ASSUME NEW h \in Node, NEW i \in Job, House(h, i)
      PROVE  RowMoves(dispatch[j][r], dispatch'[j][r])
  BY <1>1, <1>5, CompleteLockedRows DEF House, Reject, ExpireReview, Cancel, RecoverOrphan
<1>6. ASSUME NEW h \in Node, RecoverStale(h)
      PROVE  RowMoves(dispatch[j][r], dispatch'[j][r])
  BY <1>6 DEF RecoverStale, RowMoves
<1>7. ASSUME NEW h \in Node, NEW c \in Budget, SetCapacity(h, c)
      PROVE  RowMoves(dispatch[j][r], dispatch'[j][r])
  BY <1>1, <1>7 DEF SetCapacity
<1>8. ASSUME NEW h \in Node, NEW w \in Worker, NEW i \in Job, ClaimNext(h, w, i)
      PROVE  RowMoves(dispatch[j][r], dispatch'[j][r])
  BY <1>1, <1>8 DEF ClaimNext, Claim
<1>9. QED
  BY <1>2, <1>3, <1>4, <1>5, <1>6, <1>7, <1>8 DEF StoreNext

\* The slots at work are finitely many.
LEMMA LiveFinite ==
  ASSUME NEW j, NEW r
  PROVE  IsFiniteSet(Live(j, r)) /\ Cardinality(Live(j, r)) \in Nat
<1>1. IsFiniteSet(Slot)
  BY FS_Interval, DispatchAssumption DEF Slot, DispatchAssumption
<1>2. IsFiniteSet(Live(j, r))
  BY <1>1, FS_Subset DEF Live
<1>3. QED
  BY <1>2, FS_CardinalityType

\* The slots at work after a step are finitely many.
LEMMA NextLiveFinite ==
  ASSUME NEW j, NEW r
  PROVE  IsFiniteSet(Live(j, r)')
<1>1. IsFiniteSet(Slot)
  BY FS_Interval, DispatchAssumption DEF Slot, DispatchAssumption
<1>2. QED
  BY <1>1, FS_Subset DEF Live

\* A process goes on at its node, ends, or is not touched.
GoesOn(x, y) == y = x \/ y = Idle \/ (x.phase # "idle" /\ y.phase # "idle" /\ y.node = x.node)

\* No row gains a process when every process goes on or ends.
LEMMA NoMoreLive ==
  ASSUME DInv, NEW j \in Job, NEW r \in Row,
         \A p \in Run : GoesOn(proc[j][p], proc'[j][p])
  PROVE  Live(j, r)' \subseteq Live(j, r) /\ Cardinality(Live(j, r)') <= Cardinality(Live(j, r))
<1>1. \A s \in Slot : <<r, s>> \in Run
  BY DEF Run
<1>2. Live(j, r)' \subseteq Live(j, r)
  BY <1>1, IdleType DEF Live, GoesOn
<1>3. QED
  BY <1>2, LiveFinite, FS_Subset

Typed == /\ proc' \in [Job -> [Run -> ProcRow]] /\ tries' \in [Job -> [Row -> 0..MaxTries]]

\* A step in which processes go on or end, and no row loses a try.
LEMMA GoingOnFits ==
  ASSUME DInv, Typed, TriesFit',
         \A j \in Job : \A p \in Run : GoesOn(proc[j][p], proc'[j][p]),
         \A j \in Job : \A r \in Row :
           /\ dispatch[j][r] # "none" => dispatch'[j][r] # "none"
           /\ dispatch'[j][r] = "executing" => Direct # {}
  PROVE  RowsFit'
<1>1. ASSUME NEW j \in Job, NEW p \in Run
      PROVE  ProcFits(proc'[j][p], dispatch'[j][p[1]])
  <2>1. ProcFits(proc[j][p], dispatch[j][p[1]]) /\ p[1] \in Row
    BY DTypes, RunParts
  <2>2. QED
    BY <2>1, IdleType DEF ProcFits, GoesOn
<1>2. QED
  BY <1>1 DEF RowsFit

\* Such a step keeps the count of the tries when it takes no try back.
LEMMA SameTriesFit ==
  ASSUME DInv, proc' \in [Job -> [Run -> ProcRow]], tries' = tries,
         \A j \in Job : \A p \in Run : GoesOn(proc[j][p], proc'[j][p]),
         \A j \in Job : \A r \in Row : RowMoves(dispatch[j][r], dispatch'[j][r]) \/
           (dispatch[j][r] # "none" /\ dispatch'[j][r] \in {"available", "done"})
  PROVE  Typed /\ RowsFit'
<1>1. Typed
  BY DEF Typed, DInv, DTypeOK
<1>2. TriesFit'
  <2>1. ASSUME NEW j \in Job, NEW r \in Row
        PROVE  Cardinality(Live(j, r)') <= tries'[j][r]
    <3>1. Cardinality(Live(j, r)) <= tries[j][r] /\ tries[j][r] \in Nat
      BY DEF DInv, RowsFit, TriesFit, DTypeOK
    <3>2. Cardinality(Live(j, r)') \in Nat
      BY NextLiveFinite, FS_CardinalityType
    <3>3. QED
      BY <3>1, <3>2, NoMoreLive, LiveFinite
  <2>2. QED
    BY <2>1 DEF TriesFit
<1>3. \A j \in Job : \A r \in Row :
        /\ dispatch[j][r] # "none" => dispatch'[j][r] # "none"
        /\ dispatch'[j][r] = "executing" => Direct # {}
  BY DEF RowMoves, DInv, RowsFit
<1>4. QED
  BY <1>1, <1>2, <1>3, GoingOnFits

\* The same for a step of one process.
LEMMA OneProcFits ==
  ASSUME DInv, NEW j \in Job, NEW p \in Run, NEW x \in ProcRow, GoesOn(proc[j][p], x),
         proc' = [proc EXCEPT ![j][p] = x], tries' = tries,
         \A i \in Job : \A r \in Row : RowMoves(dispatch[i][r], dispatch'[i][r]) \/
           (dispatch[i][r] # "none" /\ dispatch'[i][r] \in {"available", "done"})
  PROVE  Typed /\ RowsFit'
<1>1. proc \in [Job -> [Run -> ProcRow]]
  BY DTypes
<1>2. proc' \in [Job -> [Run -> ProcRow]]
  BY <1>1
<1>3. \A i \in Job : \A q \in Run : GoesOn(proc[i][q], proc'[i][q])
  BY <1>1 DEF GoesOn
<1>4. QED
  BY <1>2, <1>3, SameTriesFit

\* A snooze takes a process out of its row, and a try.
LEMMA SnoozeFits ==
  ASSUME DInv, NEW j \in Job, NEW p \in Run, Snooze(j, p)
  PROVE  Typed /\ RowsFit'
<1> DEFINE r == p[1]
           s == p[2]
           k == tries[j][r]
<1>0. /\ r \in Row /\ s \in Slot /\ p = <<r, s>>
      /\ proc \in [Job -> [Run -> ProcRow]] /\ tries \in [Job -> [Row -> 0..MaxTries]]
      /\ dispatch \in [Job -> [Row -> RowState]]
      /\ proc[j][p].phase = "dispatch" /\ proc' = [proc EXCEPT ![j][p] = Idle]
      /\ k \in Nat /\ k <= MaxTries /\ MaxTries \in Nat
  BY RunParts, DTypes DEF Snooze, Records, Exits
<1>1. dispatch[j][r] # "none"
  BY <1>0, Runs
<1>2. proc'[j][p] = Idle /\ proc' \in [Job -> [Run -> ProcRow]]
  BY <1>0, IdleType
<1>3. \A i \in Job : \A q \in Run : GoesOn(proc[i][q], proc'[i][q])
  BY <1>0 DEF GoesOn
<1>4. CASE UNCHANGED <<dispatch, tries>>
  BY <1>2, <1>3, <1>4, SameTriesFit DEF RowMoves
<1>5. CASE RowBecomes(j, r, "available") /\ tries' = [tries EXCEPT ![j][r] = k - 1]
  <2>1. s \in Live(j, r)
    BY <1>0, IdleType DEF Live
  <2>2. Cardinality(Live(j, r) \ {s}) = Cardinality(Live(j, r)) - 1
        /\ IsFiniteSet(Live(j, r) \ {s})
    BY <2>1, LiveFinite, FS_RemoveElement
  <2>3. Cardinality(Live(j, r)) <= k
    BY <1>0 DEF DInv, RowsFit, TriesFit
  <2>4. Cardinality(Live(j, r) \ {s}) \in Nat
    BY <2>2, FS_CardinalityType
  <2>5. k - 1 \in 0..MaxTries
    BY <1>0, <2>2, <2>3, <2>4, LiveFinite
  <2>6. Typed
    BY <1>0, <1>2, <1>5, <2>5 DEF Typed
  <2>7. Live(j, r)' \subseteq Live(j, r) \ {s}
    BY <1>0, <1>2, <1>3, NoMoreLive DEF Live
  <2>8. Cardinality(Live(j, r)') <= k - 1
    <3>1. Cardinality(Live(j, r)') <= Cardinality(Live(j, r) \ {s})
      BY <2>2, <2>7, FS_Subset
    <3>2. Cardinality(Live(j, r)') \in Nat
      BY NextLiveFinite, FS_CardinalityType
    <3>3. QED
      BY <1>0, <2>2, <2>3, <3>1, <3>2, LiveFinite
  <2>9. TriesFit'
    <3>1. ASSUME NEW i \in Job, NEW q \in Row
          PROVE  Cardinality(Live(i, q)') <= tries'[i][q]
      <4>1. CASE i = j /\ q = r
        BY <1>0, <1>5, <2>8, <4>1
      <4>2. CASE i # j \/ q # r
        <5>1. tries'[i][q] = tries[i][q] /\ tries[i][q] \in Nat
          BY <1>0, <1>5, <4>2
        <5>2. Cardinality(Live(i, q)) <= tries[i][q]
          BY DEF DInv, RowsFit, TriesFit
        <5>3. Cardinality(Live(i, q)') \in Nat
          BY NextLiveFinite, FS_CardinalityType
        <5>4. QED
          BY <1>3, <5>1, <5>2, <5>3, NoMoreLive, LiveFinite
      <4>3. QED
        BY <4>1, <4>2
    <3>2. QED
      BY <3>1 DEF TriesFit
  <2>10. ASSUME NEW i \in Job, NEW q \in Row
         PROVE  /\ dispatch[i][q] # "none" => dispatch'[i][q] # "none"
                /\ dispatch'[i][q] = "executing" => Direct # {}
    BY <1>0, <1>5 DEF RowBecomes, DInv, RowsFit
  <2>11. QED
    BY <1>3, <2>6, <2>9, <2>10, GoingOnFits
<1>6. QED
  BY <1>4, <1>5 DEF Snooze, Records

\* Each way of a process to act on its dispatch keeps the rows fitting.
LEMMA PerformFits ==
  ASSUME DInv, NEW j \in Job, NEW p \in Run, Perform(j, p)
  PROVE  Typed /\ RowsFit'
<1> DEFINE w == proc[j][p]
<1>0. /\ TypeOK /\ dispatch \in [Job -> [Row -> RowState]] /\ proc \in [Job -> [Run -> ProcRow]]
      /\ tries \in [Job -> [Row -> 0..MaxTries]] /\ w \in ProcRow /\ p[1] \in Row
  BY DTypes, RunParts
<1>1. w.phase # "idle"
  BY DEF Perform, ClaimRuns, Snooze, NotQueued, ClaimErrs, RunnerReturns, RunnerErrs, Settle,
         ForceFail, FailRefused, ForceCancel, SettleFails, Ack, Nack
<1>2. ASSUME NEW f \in Working, ToPhase(j, p, f), tries' = tries,
             \A i \in Job : \A q \in Row : RowMoves(dispatch[i][q], dispatch'[i][q])
      PROVE  Typed /\ RowsFit'
  <2> DEFINE x == [w EXCEPT !.phase = f]
  <2>1. x \in ProcRow /\ x.phase # "idle" /\ x.node = w.node
    BY <1>0, <1>2 DEF ProcRow, Working
  <2>2. proc' = [proc EXCEPT ![j][p] = x]
    BY <1>0, <1>2 DEF ToPhase
  <2> HIDE DEF x
  <2>3. GoesOn(w, x)
    BY <1>1, <2>1 DEF GoesOn
  <2>4. QED
    BY <1>2, <2>1, <2>2, <2>3, OneProcFits
<1>3. CASE ClaimRuns(j, p)
  <2> DEFINE x == [w EXCEPT !.phase = "run", !.n = job[j].cur]
  <2>1. job[j].cur \in 0..MaxAttempt
    BY <1>0, RowTypes DEF Attempt
  <2>2. x \in ProcRow /\ x.phase # "idle" /\ x.node = w.node
    BY <1>0, <2>1 DEF ProcRow, Phase
  <2>3. proc' = [proc EXCEPT ![j][p] = x] /\ tries' = tries /\ dispatch' = dispatch
    BY <1>0, <1>3 DEF ClaimRuns, ClaimDirect, Claim
  <2> HIDE DEF x
  <2>4. GoesOn(w, x) /\ \A i \in Job : \A q \in Row : RowMoves(dispatch[i][q], dispatch'[i][q])
    BY <1>1, <2>2, <2>3 DEF RowMoves, GoesOn
  <2>5. QED
    BY <2>2, <2>3, <2>4, OneProcFits
<1>4. CASE Ack(j, p) \/ Nack(j, p)
  <2>1. PICK s \in {"available", "done"} : Records(j, p, s, tries[j][p[1]])
    BY <1>4 DEF Ack, Nack, AfterFailure
  <2>2. tries' = tries /\ proc' = [proc EXCEPT ![j][p] = Idle] /\ GoesOn(w, Idle)
    BY <1>0, <2>1 DEF Records, Exits, GoesOn
  <2>3. dispatch[j][p[1]] # "none"
    BY <1>1, Runs
  <2>4. ASSUME NEW i \in Job, NEW q \in Row
        PROVE  \/ RowMoves(dispatch[i][q], dispatch'[i][q])
               \/ dispatch[i][q] # "none" /\ dispatch'[i][q] \in {"available", "done"}
    <3>1. CASE dispatch' = [dispatch EXCEPT ![j][p[1]] = s]
      BY <1>0, <2>3, <3>1 DEF RowMoves
    <3>2. CASE dispatch' = dispatch
      BY <3>2 DEF RowMoves
    <3>3. QED
      BY <2>1, <3>1, <3>2 DEF Records, RowBecomes
  <2>5. QED
    BY <2>2, <2>4, IdleType, OneProcFits
<1>5. CASE NotQueued(j, p) \/ ClaimErrs(j, p) \/ RunnerReturns(j, p) \/ RunnerErrs(j, p)
            \/ Settle(j, p) \/ FailRefused(j, p) \/ SettleFails(j, p)
  <2>1. dispatch' = dispatch /\ tries' = tries
    BY <1>5 DEF NotQueued, ClaimErrs, RunnerReturns, RunnerErrs, Settle, FailRefused, SettleFails
  <2>2. \A i \in Job : \A q \in Row : RowMoves(dispatch[i][q], dispatch'[i][q])
    BY <2>1 DEF RowMoves
  <2>3. \E f \in Working : ToPhase(j, p, f)
    BY <1>5 DEF NotQueued, ClaimErrs, RunnerReturns, RunnerErrs, Settle, FailRefused,
                SettleFails, Working, Phase
  <2>4. QED
    BY <1>2, <2>1, <2>2, <2>3
<1>6. CASE ForceFail(j, p) \/ ForceCancel(j, p)
  <2>1. tries' = tries /\ ToPhase(j, p, "nack") /\ "nack" \in Working
    BY <1>6 DEF ForceFail, ForceCancel, Working, Phase
  <2>2. \A i \in Job : \A q \in Row : RowMoves(dispatch[i][q], dispatch'[i][q])
    <3>1. CASE UNCHANGED vars
      BY <3>1 DEF vars, RowMoves
    <3>2. CASE Cancel(w.node, j) \/ FailCurrent(w.node, j)
      BY <1>0, <3>2, CompleteLockedRows DEF Cancel, FailCurrent, Complete
    <3>3. QED
      BY <1>6, <3>1, <3>2 DEF ForceFail, ForceCancel
  <2>3. QED
    BY <1>2, <2>1, <2>2
<1>7. QED
  BY <1>3, <1>4, <1>5, <1>6, SnoozeFits DEF Perform

\* A fetch puts one process into a free slot of its row, and counts one try.
LEMMA FetchFits ==
  ASSUME DInv, NEW h \in Direct, NEW j \in Job, NEW p \in Run, Fetch(h, j, p)
  PROVE  Typed /\ RowsFit'
<1> DEFINE r == p[1]
           s == p[2]
           k == tries[j][r] + 1
           x == [node |-> h, phase |-> "dispatch", n |-> 0, t |-> k]
<1>0. /\ r \in Row /\ s \in Slot /\ p = <<r, s>>
      /\ proc \in [Job -> [Run -> ProcRow]] /\ tries \in [Job -> [Row -> 0..MaxTries]]
      /\ dispatch \in [Job -> [Row -> RowState]] /\ k \in 0..MaxTries
  BY RunParts, DTypes DEF Fetch
<1>1. /\ proc' = [proc EXCEPT ![j][p] = x] /\ tries' = [tries EXCEPT ![j][r] = k]
      /\ dispatch' = [dispatch EXCEPT ![j][r] = "executing"] /\ proc[j][p] = Idle
  BY DEF Fetch, RowBecomes
<1>2. x \in ProcRow /\ x.node = h /\ x.phase = "dispatch"
  BY <1>0, JobsAssumption DEF ProcRow, Phase, JobsAssumption
<1> HIDE DEF x
<1>3. Typed
  BY <1>0, <1>1, <1>2 DEF Typed
<1>4. ASSUME NEW i \in Job, NEW q \in Run
      PROVE  ProcFits(proc'[i][q], dispatch'[i][q[1]])
  <2>1. q[1] \in Row /\ ProcFits(proc[i][q], dispatch[i][q[1]])
    BY DTypes, RunParts
  <2>2. CASE i = j /\ q = p
    <3>1. proc'[i][q] = x /\ dispatch'[i][q[1]] = "executing"
      BY <1>0, <1>1, <2>2
    <3>2. QED
      BY <1>2, <3>1 DEF ProcFits
  <2>3. CASE i # j \/ q # p
    <3>1. proc'[i][q] = proc[i][q]
      BY <1>0, <1>1, <2>3
    <3>2. dispatch'[i][q[1]] = dispatch[i][q[1]] \/ dispatch'[i][q[1]] = "executing"
      BY <1>0, <1>1, <2>1
    <3>3. QED
      BY <2>1, <3>1, <3>2 DEF ProcFits
  <2>4. QED
    BY <2>2, <2>3
<1>5. ASSUME NEW i \in Job, NEW q \in Row
      PROVE  Cardinality(Live(i, q)') <= tries'[i][q]
  <2>1. Cardinality(Live(i, q)) <= tries[i][q] /\ tries[i][q] \in Nat
    BY <1>0 DEF DInv, RowsFit, TriesFit
  <2>2. \A z \in Slot : <<q, z>> \in Run
    BY DEF Run
  <2>3. CASE i = j /\ q = r
    <3>1. Live(i, q)' \subseteq Live(i, q) \union {s}
      BY <1>0, <1>1, <2>2, <2>3 DEF Live
    <3>2. /\ IsFiniteSet(Live(i, q) \union {s})
          /\ Cardinality(Live(i, q) \union {s}) <= Cardinality(Live(i, q)) + 1
      <4> DEFINE L == Live(i, q)
      <4>1. IsFiniteSet(L) /\ Cardinality(L) \in Nat
        BY LiveFinite
      <4> HIDE DEF L
      <4>2. /\ IsFiniteSet(L \union {s})
            /\ Cardinality(L \union {s}) = IF s \in L THEN Cardinality(L) ELSE Cardinality(L) + 1
        BY <4>1, FS_AddElement
      <4>3. Cardinality(L \union {s}) <= Cardinality(L) + 1
        BY <4>1, <4>2
      <4>4. QED
        BY <4>2, <4>3 DEF L
    <3>3. Cardinality(Live(i, q)') <= Cardinality(Live(i, q) \union {s})
      BY <3>1, <3>2, FS_Subset
    <3>4. Cardinality(Live(i, q)') \in Nat /\ Cardinality(Live(i, q) \union {s}) \in Nat
      BY <3>2, NextLiveFinite, FS_CardinalityType
    <3>5. tries'[i][q] = tries[i][q] + 1
      BY <1>0, <1>1, <2>3
    <3>6. QED
      BY <2>1, <3>2, <3>3, <3>4, <3>5, LiveFinite
  <2>4. CASE i # j \/ q # r
    <3>1. Live(i, q)' = Live(i, q)
      BY <1>0, <1>1, <2>2, <2>4 DEF Live
    <3>2. tries'[i][q] = tries[i][q]
      BY <1>0, <1>1, <2>4
    <3>3. QED
      BY <2>1, <3>1, <3>2
  <2>5. QED
    BY <2>3, <2>4
<1>6. QED
  BY <1>3, <1>4, <1>5 DEF RowsFit, TriesFit

\* So does every step of the dispatcher's queue and of the store.
LEMMA DNextFits ==
  ASSUME DInv, [DNext]_dvars
  PROVE  Typed /\ RowsFit'
<1>0. /\ TypeOK /\ dispatch \in [Job -> [Row -> RowState]] /\ proc \in [Job -> [Run -> ProcRow]]
  BY DEF DInv, DTypeOK, TypeOK, ProcRow
<1>1. ASSUME UNCHANGED <<proc, tries>>,
             \A i \in Job : \A q \in Row : RowMoves(dispatch[i][q], dispatch'[i][q]) \/
               (dispatch[i][q] # "none" /\ dispatch'[i][q] \in {"available", "done"})
      PROVE  Typed /\ RowsFit'
  <2>1. \A i \in Job : \A q \in Run : GoesOn(proc[i][q], proc'[i][q])
    BY <1>1 DEF GoesOn
  <2>2. QED
    BY <1>0, <1>1, <2>1, SameTriesFit
<1>2. CASE StoreNext /\ UNCHANGED <<proc, tries>>
  BY <1>0, <1>1, <1>2, StoreRows
<1>3. ASSUME NEW j \in Job, NEW r \in Row, Rescue(j, r)
      PROVE  Typed /\ RowsFit'
  <2>1. ASSUME NEW i \in Job, NEW q \in Row
        PROVE  \/ RowMoves(dispatch[i][q], dispatch'[i][q])
               \/ dispatch[i][q] # "none" /\ dispatch'[i][q] \in {"available", "done"}
    BY <1>0, <1>3 DEF Rescue, RowBecomes, RowMoves, AfterFailure
  <2>2. QED
    BY <1>1, <1>3, <2>1 DEF Rescue
<1>4. ASSUME NEW h, NodeDies(h) PROVE Typed /\ RowsFit'
  <2>1. proc' \in [Job -> [Run -> ProcRow]]
    BY <1>0, <1>4, IdleType DEF NodeDies
  <2>2. \A i \in Job : \A q \in Run : GoesOn(proc[i][q], proc'[i][q])
    BY <1>4 DEF NodeDies, GoesOn
  <2>3. QED
    BY <1>4, <2>1, <2>2, SameTriesFit DEF NodeDies, RowMoves
<1>5. CASE UNCHANGED dvars
  BY <1>1, <1>5 DEF dvars, RowMoves
<1>6. QED
  BY <1>2, <1>3, <1>4, <1>5, PerformFits, FetchFits DEF DNext

\* Every step keeps the invariant of the dispatcher.
LEMMA DNextInv == DInv /\ [DNext]_dvars => DInv'
<1> SUFFICES ASSUME DInv, [DNext]_dvars PROVE DInv'
  OBVIOUS
<1>1. [Next]_vars
  BY DNextStep
<1>2. IInv'
  BY <1>1, NextIInv DEF DInv
<1>3. Typed /\ RowsFit'
  BY DNextFits
<1>4. QED
  BY <1>2, <1>3 DEF DInv, DTypeOK, IInv, Typed, ProcRow

\* No dispatch has a process yet.
LEMMA InitDInv == DInit => DInv
<1> SUFFICES ASSUME DInit PROVE DInv
  OBVIOUS
<1>1. IInv
  BY InitIInv DEF DInit
<1>2. MaxTries \in Nat \ {0}
  BY DispatchAssumption DEF DispatchAssumption
<1>3. /\ proc \in [Job -> [Run -> ProcRow]]
      /\ tries \in [Job -> [Row -> 0..MaxTries]]
  BY <1>2, IdleType DEF DInit
<1>4. \A j \in Job : \A p \in Run : ProcFits(proc[j][p], dispatch[j][p[1]])
  BY IdleType DEF DInit, ProcFits
<1>5. \A j \in Job : \A r \in Row : dispatch[j][r] # "executing"
  BY DEF DInit, Init
<1>6. ASSUME NEW j \in Job, NEW r \in Row PROVE Cardinality(Live(j, r)) <= tries[j][r]
  <2>1. Live(j, r) = {}
    BY DEF DInit, Live, Run
  <2>2. Cardinality(Live(j, r)) = 0 /\ tries[j][r] = 0
    BY <2>1, FS_EmptySet DEF DInit
  <2>3. QED
    BY <2>2
<1>7. QED
  BY <1>1, <1>3, <1>4, <1>5, <1>6 DEF DInv, DTypeOK, IInv, RowsFit, TriesFit, ProcRow

\* Phases, nodes and tries stay in their domains: no row is started more often
\* than MaxTries.
THEOREM DispatchTypes == DSpec => []DTypeOK
<1>1. DInv => DTypeOK
  BY DEF DInv
<1>2. QED
  BY <1>1, InitDInv, DNextInv, PTL DEF DSpec

\* The dispatcher and its crashes do nothing the job store does not allow.
THEOREM DispatcherImplementsStore == DSpec => ImplementsStore
<1>1. DInit => Init
  BY DEF DInit
<1>2. QED
  BY <1>1, InitDInv, DNextInv, DNextStep, PTL DEF DSpec, ImplementsStore, Spec

\* An embedded house gives every slot back once, also when nodes die.
THEOREM CapacityUnderDispatch ==
  ASSUME DocumentedDeployment
  PROVE  DSpec => []CapacityConserved
<1>1. Spec => []CapacityConserved
  BY CapacityIsConserved
<1>2. QED
  BY <1>1, DispatcherImplementsStore, PTL DEF ImplementsStore

-----------------------------------------------------------------------------
(* No attempt is run twice *)

\* A process waits for the same runner as before, or for none.
SameRuns == \A i \in Job : \A q \in Run :
              proc'[i][q].phase = "run" => proc'[i][q] = proc[i][q]

\* The steps of the dispatcher that start no run.
LEMMA OnlyClaimsRun ==
  ASSUME DInv, [DNext]_dvars
  PROVE  SameRuns \/ \E j \in Job : \E r \in Run : ClaimRuns(j, r)
<1>0. proc \in [Job -> [Run -> ProcRow]] /\ Idle.phase = "idle"
  BY IdleType DEF DInv, DTypeOK, ProcRow
<1>1. CASE UNCHANGED proc
  BY <1>1 DEF SameRuns
<1>2. ASSUME NEW j \in Job, NEW r \in Run, NEW p, p.phase # "run",
             proc' = [proc EXCEPT ![j][r] = p]
      PROVE  SameRuns
  BY <1>0, <1>2 DEF SameRuns
<1>3. ASSUME NEW j \in Job, NEW r \in Run, NEW ph \in Phase \ {"run"}, ToPhase(j, r, ph)
      PROVE  SameRuns
  <2> DEFINE p == [proc[j][r] EXCEPT !.phase = ph]
  <2>1. p.phase = ph /\ proc' = [proc EXCEPT ![j][r] = p]
    BY <1>0, <1>3 DEF ToPhase, ProcRow
  <2> HIDE DEF p
  <2>2. QED
    BY <1>2, <2>1
<1>4. ASSUME NEW h, NEW j \in Job, NEW r \in Run, Fetch(h, j, r)
      PROVE  SameRuns
  <2> DEFINE p == [node |-> h, phase |-> "dispatch", n |-> 0, t |-> tries[j][r[1]] + 1]
  <2>1. p.phase = "dispatch" /\ proc' = [proc EXCEPT ![j][r] = p]
    BY <1>4 DEF Fetch
  <2> HIDE DEF p
  <2>2. QED
    BY <1>2, <2>1
<1>5. ASSUME NEW h, NodeDies(h) PROVE SameRuns
  BY <1>0, <1>5 DEF NodeDies, SameRuns
<1>6. ASSUME NEW j \in Job, NEW r \in Run, Snooze(j, r) \/ Ack(j, r) \/ Nack(j, r)
      PROVE  SameRuns
  BY <1>0, <1>2, <1>6 DEF Snooze, Ack, Nack, Records, Exits
<1>7. ASSUME NEW j \in Job, NEW r \in Run,
             NotQueued(j, r) \/ ClaimErrs(j, r) \/ RunnerReturns(j, r) \/ RunnerErrs(j, r)
             \/ Settle(j, r) \/ ForceFail(j, r) \/ FailRefused(j, r) \/ ForceCancel(j, r)
             \/ SettleFails(j, r)
      PROVE  SameRuns
  BY <1>3, <1>7 DEF NotQueued, ClaimErrs, RunnerReturns, RunnerErrs, Settle, ForceFail,
                    FailRefused, ForceCancel, SettleFails, Phase
<1>8. CASE UNCHANGED dvars
  BY <1>1, <1>8 DEF dvars
<1>9. QED
  BY <1>1, <1>4, <1>5, <1>6, <1>7, <1>8 DEF DNext, Perform, Rescue

\* An attempt that was taken up is not put back into the queue.
StaysBegun(i, m) == Begun(att[i][m]) => Begun(att'[i][m])

\* An attempt that ends stays one that has begun.
LEMMA EndedBegun ==
  ASSUME NEW a \in AttRow, NEW s \in Terminal
  PROVE  Begun(a) => Begun(Ended(a, s))
<1>1. Ended(a, s).machine = a.machine
  BY DEF Ended, AttRow
<1>2. Ended(a, s).status = s
  BY EndedType DEF Status
<1>3. QED
  BY <1>1, <1>2 DEF Begun

\* A step that writes one attempt row.
LEMMA OneRowBegun ==
  ASSUME TypeOK, NEW j \in Job, NEW n \in Attempt, NEW a, att' = [att EXCEPT ![j][n] = a],
         Begun(att[j][n]) => Begun(a), NEW i \in Job, NEW m \in Attempt
  PROVE  StaysBegun(i, m)
<1>1. att \in [Job -> [Attempt -> AttRow]]
  BY DEF TypeOK
<1>2. CASE i = j /\ m = n
  <2>1. att'[i][m] = a
    BY <1>1, <1>2
  <2>2. QED
    BY <1>2, <2>1 DEF StaysBegun
<1>3. CASE i # j \/ m # n
  <2>1. att'[i][m] = att[i][m]
    BY <1>1, <1>3
  <2>2. QED
    BY <2>1 DEF StaysBegun
<1>4. QED
  BY <1>2, <1>3

\* The end of a job takes no attempt that has begun back to the queue.
LEMMA CompleteLockedBegun ==
  ASSUME IInv, NEW h, NEW j \in Job, NEW n \in Attempt, NEW s \in Terminal,
         NEW how, NEW by, CompleteLocked(h, j, n, s, how, by),
         NEW i \in Job, NEW m \in Attempt
  PROVE  StaysBegun(i, m)
<1>0. /\ att[i] \in [Attempt -> AttRow] /\ att[i][m] \in AttRow /\ job[i].cur \in Attempt
      /\ Good(job[i], m, att[i][m], claims[i], outbox[i][m], hist[i][m])
  BY Now, RowTypes DEF IInv
<1>1. ASSUME NEW t \in Terminal, att'[i][m] = Ended(att[i][m], t)
      PROVE  StaysBegun(i, m)
  BY <1>0, <1>1, EndedBegun DEF StaysBegun
<1>2. CASE att'[i][m] = att[i][m]
  BY <1>2 DEF StaysBegun
<1>3. CASE i = j
  <2>1. att'[i] = [att[i] EXCEPT ![n] = Ended(@, s)]
    BY <1>3 DEF CompleteLocked
  <2>2. QED
    BY <1>0, <1>1, <1>2, <2>1
<1>4. CASE i # j /\ i \in CancelledBy(j, s)
  <2>1. att'[i] = [att[i] EXCEPT ![job[i].cur] = Ended(@, "cancelled")]
    BY <1>4 DEF CompleteLocked
  <2>2. QED
    BY <1>0, <1>1, <1>2, <2>1 DEF Terminal
<1>5. CASE i # j /\ i \notin CancelledBy(j, s) /\ i \in UnlockedBy(j, s)
  <2>1. /\ att'[i] = [att[i] EXCEPT ![job[i].cur].status = "queued"]
        /\ job[i].status = "blocked"
    BY <1>5, NotifiedAreBlocked DEF CompleteLocked
  <2>2. CASE m = job[i].cur
    BY <1>0, <2>1, <2>2 DEF Good, StaysBegun, Begun, Active, Terminal
  <2>3. CASE m # job[i].cur
    BY <1>0, <1>2, <2>1, <2>3
  <2>4. QED
    BY <2>2, <2>3
<1>6. CASE i # j /\ i \notin CancelledBy(j, s) /\ i \notin UnlockedBy(j, s)
  BY <1>2, <1>6 DEF CompleteLocked
<1>7. QED
  BY <1>3, <1>4, <1>5, <1>6

\* Nor does a call, but the rejection of a worker, whose attempt no dispatch runs.
LEMMA CallBegun ==
  ASSUME IInv, NEW j \in Job, NEW n \in Attempt, NEW k \in Token, Call(j, n, k),
         NEW i \in Job, NEW m \in Attempt
  PROVE  StaysBegun(i, m)
<1> DEFINE a == att[j][n]
<1>0. TypeOK /\ att \in [Job -> [Attempt -> AttRow]] /\ a \in AttRow
  BY Now DEF IInv, TypeOK
<1>1. CASE Heartbeat(j, n, k) \/ Renew(j, n, k)
  <2>1. att' = [att EXCEPT ![j][n] = [a EXCEPT !.lease = LeaseTTL]]
    BY <1>0, <1>1 DEF Heartbeat, Renew
  <2>2. Begun(a) => Begun([a EXCEPT !.lease = LeaseTTL])
    BY <1>0 DEF Begun, AttRow
  <2>3. QED
    BY <1>0, <2>1, <2>2, OneRowBegun
<1>2. CASE MarkRunning(j, n, k)
  <2>1. att' = [att EXCEPT ![j][n] = [a EXCEPT !.status = "running"]]
    BY <1>0, <1>2 DEF MarkRunning
  <2>2. Begun(a) => Begun([a EXCEPT !.status = "running"])
    BY <1>0 DEF Begun, AttRow, Active
  <2>3. QED
    BY <1>0, <2>1, <2>2, OneRowBegun
<1>3. ASSUME NEW h, a.machine \in Worker, Unclaim(h, j, n, k)
      PROVE  StaysBegun(i, m)
  <2>1. ~Begun(a)
    BY <1>3, JobsAssumption DEF Begun, JobsAssumption
  <2>2. att' = [att EXCEPT ![j][n] = Ended(a, "queued")]
    BY <1>3 DEF Unclaim
  <2>3. QED
    BY <1>0, <2>1, <2>2, OneRowBegun
<1>4. ASSUME NEW h, Hold(h, j, n, k) PROVE StaysBegun(i, m)
  <2> DEFINE b == [a EXCEPT !.status = "review", !.lease = 0, !.reserved = FALSE]
  <2>1. att' = [att EXCEPT ![j][n] = b]
    BY <1>4 DEF Hold
  <2>2. b.status = "review" /\ b.machine = a.machine
    BY <1>0 DEF AttRow
  <2>3. Begun(a) => Begun(b)
    BY <2>2 DEF Begun
  <2>4. QED
    BY <1>0, <2>1, <2>3, OneRowBegun
<1>5. ASSUME NEW h, NEW s \in {"succeeded", "failed"}, Complete(h, j, n, k, s)
      PROVE  StaysBegun(i, m)
  BY <1>5, CompleteLockedBegun DEF Complete, Terminal
<1>6. QED
  BY <1>1, <1>2, <1>3, <1>4, <1>5 DEF Call

\* A claim begins an attempt.
LEMMA ClaimBegun ==
  ASSUME IInv, NEW h, NEW j \in Job, NEW runner, Claim(h, j, runner),
         NEW i \in Job, NEW m \in Attempt
  PROVE  StaysBegun(i, m)
<1> DEFINE n == job[j].cur
           a == [status |-> "provisioning", machine |-> runner, token |-> claims[j] + 1,
                 lease |-> LeaseTTL, reserved |-> TRUE]
<1>1. TypeOK /\ n \in Attempt /\ Good(job[j], n, att[j][n], claims[j], outbox[j][n], hist[j][n])
  BY RowTypes, Now DEF IInv
<1>2. ~Begun(att[j][n])
  BY <1>1 DEF Claim, Good, Begun, Active, Terminal
<1>3. att' = [att EXCEPT ![j][n] = a]
  BY DEF Claim
<1> HIDE DEF a
<1>4. QED
  BY <1>1, <1>2, <1>3, OneRowBegun

\* Operators and the sweep of orphans only end attempts.
LEMMA HouseBegun ==
  ASSUME IInv, NEW h, NEW j \in Job, House(h, j), NEW i \in Job, NEW m \in Attempt
  PROVE  StaysBegun(i, m)
<1>1. TypeOK /\ job[j].cur \in Attempt /\ att[j][job[j].cur] \in AttRow
  BY RowTypes DEF IInv
<1>2. CASE Reject(h, j) \/ ExpireReview(h, j) \/ Cancel(h, j)
  BY <1>1, <1>2, CompleteLockedBegun DEF Reject, ExpireReview, Cancel, Terminal
<1>3. CASE RecoverOrphan(h, j)
  <2> DEFINE n == job[j].cur
             a == att[j][n]
  <2>1. att' = [att EXCEPT ![j][n] = Ended(a, "cancelled")]
    BY <1>3 DEF RecoverOrphan
  <2>2. Begun(a) => Begun(Ended(a, "cancelled"))
    BY <1>1, EndedBegun DEF Terminal
  <2>3. QED
    BY <1>1, <2>1, <2>2, OneRowBegun
<1>4. QED
  BY <1>2, <1>3 DEF House

\* Approvals, retries and time leave an attempt that has begun where it is.
LEMMA MomentBegun ==
  ASSUME IInv, NEW j \in Job, Approve(j) \/ Retry(j) \/ Time(j),
         NEW i \in Job, NEW m \in Attempt
  PROVE  StaysBegun(i, m)
<1> DEFINE n == job[j].cur
<1>1. TypeOK /\ n \in Attempt /\ att[j][n] \in AttRow /\ att \in [Job -> [Attempt -> AttRow]]
  BY RowTypes DEF IInv, TypeOK
<1>2. CASE Retry(j)
  <2> DEFINE q == n + 1
             a == [NoAttempt EXCEPT !.status = "queued"]
  <2>1. att' = [att EXCEPT ![j][q] = a] /\ q <= MaxAttempt
    BY <1>2 DEF Retry
  <2>2. q \in Attempt /\ q > n
    <3>1. MaxAttempt \in Nat \ {0}
      BY JobsAssumption DEF JobsAssumption
    <3>2. QED
      BY <1>1, <2>1, <3>1 DEF Attempt
  <2>3. Good(job[j], q, att[j][q], claims[j], outbox[j][q], hist[j][q])
    BY <2>2, Now
  <2>4. ~Begun(att[j][q])
    BY <2>2, <2>3 DEF Good, Begun, Active, Terminal
  <2> HIDE DEF a, q
  <2>5. QED
    BY <1>1, <2>1, <2>2, <2>4, OneRowBegun
<1>3. CASE LeaseAges(j)
  <2>1. att' = [att EXCEPT ![j][n] = [att[j][n] EXCEPT !.lease = @ - 1]]
    BY <1>1, <1>3 DEF LeaseAges
  <2>2. Begun(att[j][n]) => Begun([att[j][n] EXCEPT !.lease = @ - 1])
    BY <1>1 DEF Begun, AttRow
  <2>3. QED
    BY <1>1, <2>1, <2>2, OneRowBegun
<1>4. CASE Approve(j) \/ ReviewDue(j) \/ GracePasses(j)
  BY <1>4 DEF Approve, ReviewDue, GracePasses, StaysBegun
<1>5. QED
  BY <1>2, <1>3, <1>4 DEF Time

\* The sweep of leases only ends attempts.
LEMMA RecoverStaleBegun ==
  ASSUME IInv, NEW h, RecoverStale(h), NEW i \in Job, NEW m \in Attempt
  PROVE  StaysBegun(i, m)
<1>1. att[i] \in [Attempt -> AttRow] /\ att[i][m] \in AttRow /\ job[i].cur \in Attempt
  BY Now, RowTypes DEF IInv
<1>2. CASE att'[i] = [att[i] EXCEPT ![job[i].cur] = Ended(@, "failed")]
  <2>1. att'[i][m] = Ended(att[i][m], "failed") \/ att'[i][m] = att[i][m]
    BY <1>1, <1>2
  <2>2. QED
    BY <1>1, <2>1, EndedBegun DEF StaysBegun, Terminal
<1>3. CASE att'[i] = att[i]
  BY <1>3 DEF StaysBegun
<1>4. QED
  BY <1>2, <1>3 DEF RecoverStale

\* No step of the store puts an attempt of a house node back.
LEMMA NextBegun ==
  ASSUME IInv, [Next]_vars, NEW i \in Job, NEW m \in Attempt
  PROVE  StaysBegun(i, m)
<1>1. CASE att' = att
  BY <1>1 DEF StaysBegun
<1>2. ASSUME NEW h \in Node, NEW w \in Worker, NEW j \in Job, ClaimNext(h, w, j)
      PROVE  StaysBegun(i, m)
  BY <1>2, ClaimBegun DEF ClaimNext
<1>3. ASSUME NEW h \in Node, NEW c \in Budget, SetCapacity(h, c)
      PROVE  StaysBegun(i, m)
  BY <1>1, <1>3 DEF SetCapacity
<1>4. CASE StoreNext
  BY <1>2, <1>3, <1>4, CallBegun, HouseBegun, MomentBegun, RecoverStaleBegun DEF StoreNext
<1>5. ASSUME NEW h \in Direct, NEW j \in Job, ClaimDirect(h, j) PROVE StaysBegun(i, m)
  BY <1>5, ClaimBegun DEF ClaimDirect
<1>6. ASSUME NEW h \in Direct, NEW j \in Job, FailCurrent(h, j) PROVE StaysBegun(i, m)
  BY <1>6, CompleteLockedBegun DEF FailCurrent, Complete, Terminal
<1>7. ASSUME NEW j \in Job, NEW r \in Row, DispatchMoves(j, r) PROVE StaysBegun(i, m)
  BY <1>1, <1>7 DEF DispatchMoves
<1>8. QED
  BY <1>1, <1>4, <1>5, <1>6, <1>7 DEF Next, vars

\* Every step keeps what is known of the attempts that run.
LEMMA RunsStayFit ==
  ASSUME DInv, RInv, [DNext]_dvars
  PROVE  RInv'
<1>0. /\ IInv /\ TypeOK /\ proc \in [Job -> [Run -> ProcRow]] /\ [Next]_vars
      /\ \A i \in Job : \A m \in Attempt : StaysBegun(i, m)
  BY DNextStep, NextBegun DEF DInv, DTypeOK, ProcRow, IInv
<1>1. CASE SameRuns
  BY <1>0, <1>1 DEF RInv, RunsFit, OneRunPerAttempt, SameRuns, StaysBegun
<1>2. ASSUME NEW j \in Job, NEW r \in Run, ClaimRuns(j, r)
      PROVE  RInv'
  <2> DEFINE n == job[j].cur
             p == [proc[j][r] EXCEPT !.phase = "run", !.n = n]
             h == proc[j][r].node
  <2>1. h \in Node
    BY <1>2, Runs DEF ClaimRuns
  <2>2. proc' = [proc EXCEPT ![j][r] = p] /\ ClaimDirect(h, j)
    BY <1>0, <1>2 DEF ClaimRuns
  <2>3. p.phase = "run" /\ p.n = n /\ n \in Attempt
    BY <1>0, RowTypes DEF ProcRow
  <2>4. Good(job[j], n, att[j][n], claims[j], outbox[j][n], hist[j][n])
    BY <1>0, <2>3, Now
  <2>5. ~Begun(att[j][n])
    BY <2>2, <2>4 DEF ClaimDirect, Claim, Good, Begun, Active, Terminal
  <2>6. Begun(att'[j][n])
    <3>1. att'[j][n] = [status |-> "provisioning", machine |-> h, token |-> claims[j] + 1,
                        lease |-> LeaseTTL, reserved |-> TRUE]
      BY <1>0, <2>2, <2>3 DEF ClaimDirect, Claim, TypeOK
    <3>2. att'[j][n].machine = h /\ att'[j][n].status = "provisioning"
      BY <3>1
    <3>3. QED
      BY <2>1, <3>2 DEF Begun, Active
  <2>7. proc'[j][r] = p
    BY <1>0, <2>2
  <2>8. ASSUME NEW i \in Job, NEW q \in Run, i # j \/ q # r
        PROVE  proc'[i][q] = proc[i][q]
    BY <1>0, <2>2, <2>8
  <2> HIDE DEF p, n
  <2>9. RunsFit'
    <3>1. ASSUME NEW i \in Job, NEW q \in Run, proc'[i][q].phase = "run"
          PROVE  proc'[i][q].n \in Attempt /\ Begun(att'[i][proc'[i][q].n])
      <4>1. CASE i = j /\ q = r
        BY <2>3, <2>6, <2>7, <4>1
      <4>2. CASE i # j \/ q # r
        <5>1. proc'[i][q] = proc[i][q]
          BY <2>8, <4>2
        <5>2. proc[i][q].n \in Attempt /\ Begun(att[i][proc[i][q].n])
          BY <3>1, <5>1 DEF RInv, RunsFit
        <5>3. QED
          BY <1>0, <5>1, <5>2 DEF StaysBegun
      <4>3. QED
        BY <4>1, <4>2
    <3>2. QED
      BY <3>1 DEF RunsFit
  <2>10. ASSUME NEW q \in Run, q # r, proc[j][q].phase = "run"
         PROVE  proc[j][q].n # n
    BY <2>5, <2>10 DEF RInv, RunsFit
  <2>11. OneRunPerAttempt'
    <3>1. ASSUME NEW i \in Job, NEW q \in Run, NEW z \in Run, q # z,
                 proc'[i][q].phase = "run", proc'[i][z].phase = "run"
          PROVE  proc'[i][q].n # proc'[i][z].n
      <4>1. CASE i # j \/ (q # r /\ z # r)
        BY <2>8, <3>1, <4>1 DEF RInv, OneRunPerAttempt
      <4>2. CASE i = j /\ q = r
        BY <2>3, <2>7, <2>8, <2>10, <3>1, <4>2
      <4>3. CASE i = j /\ z = r
        BY <2>3, <2>7, <2>8, <2>10, <3>1, <4>3
      <4>4. QED
        BY <4>1, <4>2, <4>3
    <3>2. QED
      BY <3>1 DEF OneRunPerAttempt
  <2>12. QED
    BY <2>9, <2>11 DEF RInv
<1>3. QED
  BY <1>1, <1>2, OnlyClaimsRun

\* Nothing runs yet.
LEMMA InitRInv == DInit => RInv
<1> SUFFICES ASSUME DInit PROVE RInv
  OBVIOUS
<1>1. \A i \in Job : \A q \in Run : proc[i][q].phase # "run"
  BY IdleType DEF DInit
<1>2. QED
  BY <1>1 DEF RInv, RunsFit, OneRunPerAttempt

\* No attempt is run twice: two processes never wait for the runner of the same
\* attempt, whatever Oban rescues, retries or loses with a node.
THEOREM NoAttemptRunsTwice == DSpec => []OneRunPerAttempt
<1>1. DInv /\ RInv /\ [DNext]_dvars => DInv' /\ RInv'
  BY DNextInv, RunsStayFit
<1>2. RInv => OneRunPerAttempt
  BY DEF RInv
<1>3. QED
  BY <1>1, <1>2, InitDInv, InitRInv, PTL DEF DSpec

-----------------------------------------------------------------------------
(* A settled dispatch leaves a visible end *)

\* The job that a store operation ends is over.
LEMMA EndsJob ==
  ASSUME NEW h, NEW j \in Job, NEW n, NEW s \in Terminal, NEW how, NEW by,
         TypeOK, CompleteLocked(h, j, n, s, how, by)
  PROVE  job'[j].status = s
<1>1. job[j] \in JobRow
  BY DEF TypeOK
<1>2. job'[j] = [job[j] EXCEPT !.status = s]
  BY DEF CompleteLocked
<1>3. QED
  BY <1>1, <1>2 DEF JobRow

\* A process that comes back with an error has a try left, or its job is over, or
\* nothing has happened to the job.
LEMMA PerformSeen ==
  ASSUME DInv, NEW i \in Job, NEW q \in Run, Perform(i, q), NEW j \in Job, NEW r \in Run
  PROVE  Settles(j, r)
<1> DEFINE Ends(f) ==
      /\ f = "nack" => i # j \/ q # r
                       \/ proc[j][r].t < MaxTries \/ job'[j].status \in Terminal
      /\ f = "unsettled" => i # j \/ q # r \/ job'[j] = job[j]
<1>0. /\ TypeOK /\ proc \in [Job -> [Run -> ProcRow]] /\ Idle.phase = "idle"
      /\ proc[j][r].t \in Nat /\ MaxTries \in Nat
  BY DTypes, IdleType DEF ProcRow
<1>1. ASSUME NEW p, proc' = [proc EXCEPT ![i][q] = p], Ends(p.phase)
      PROVE  Settles(j, r)
  BY <1>0, <1>1 DEF Settles
<1>2. ASSUME NEW f \in Phase, ToPhase(i, q, f), Ends(f)
      PROVE  Settles(j, r)
  <2> DEFINE p == [proc[i][q] EXCEPT !.phase = f]
  <2>1. p.phase = f /\ proc' = [proc EXCEPT ![i][q] = p]
    BY <1>0, <1>2 DEF ToPhase, ProcRow
  <2> HIDE DEF p
  <2>2. QED
    BY <1>1, <1>2, <2>1
<1>3. CASE ClaimRuns(i, q)
  <2> DEFINE p == [proc[i][q] EXCEPT !.phase = "run", !.n = job[i].cur]
  <2>1. proc' = [proc EXCEPT ![i][q] = p]
    BY <1>0, <1>3 DEF ClaimRuns
  <2>2. proc[i][q] \in ProcRow
    BY <1>0
  <2>3. p.phase = "run"
    BY <2>2 DEF ProcRow
  <2> HIDE DEF p
  <2>4. QED
    BY <1>1, <2>1, <2>3
<1>4. CASE Snooze(i, q) \/ Ack(i, q) \/ Nack(i, q)
  BY <1>0, <1>1, <1>4 DEF Snooze, Ack, Nack, Records, Exits
<1>5. CASE NotQueued(i, q) \/ ClaimErrs(i, q) \/ RunnerReturns(i, q) \/ RunnerErrs(i, q)
           \/ FailRefused(i, q)
  BY <1>2, <1>5 DEF NotQueued, ClaimErrs, RunnerReturns, RunnerErrs, FailRefused, Phase
<1>6. CASE Settle(i, q)
  <2>1. CASE job[i].status \in Terminal
    BY <1>2, <1>6, <2>1 DEF Settle, NoJobChange, Phase
  <2>2. CASE job[i].status \notin Terminal /\ job[i].status \in Active
    BY <1>2, <1>6, <2>2 DEF Settle, Phase
  <2>3. CASE job[i].status \notin Terminal /\ job[i].status \notin Active
             /\ proc[i][q].t >= MaxTries
    BY <1>2, <1>6, <2>3 DEF Settle, Phase
  <2>4. CASE job[i].status \notin Terminal /\ job[i].status \notin Active
             /\ ~(proc[i][q].t >= MaxTries)
    <3>1. ToPhase(i, q, "nack")
      BY <1>6, <2>4 DEF Settle
    <3>2. i # j \/ q # r \/ proc[j][r].t < MaxTries
      BY <1>0, <2>4
    <3>3. QED
      BY <1>2, <3>1, <3>2 DEF Phase
  <2>5. QED
    BY <2>1, <2>2, <2>3, <2>4
<1>7. CASE ForceFail(i, q)
  <2>1. job'[i].status \in Terminal
    BY <1>0, <1>7, EndsJob DEF ForceFail, FailCurrent, Complete, Terminal
  <2>2. QED
    BY <1>2, <1>7, <2>1 DEF ForceFail, Phase
<1>8. CASE ForceCancel(i, q)
  <2>1. job'[i].status \in Terminal
    BY <1>0, <1>8, EndsJob DEF ForceCancel, Cancel, Terminal, vars
  <2>2. QED
    BY <1>2, <1>8, <2>1 DEF ForceCancel, Phase
<1>9. CASE SettleFails(i, q)
  BY <1>2, <1>9 DEF SettleFails, NoJobChange, Phase
<1>10. QED
  BY <1>3, <1>4, <1>5, <1>6, <1>7, <1>8, <1>9 DEF Perform

\* A process that has settled the job of its last try leaves nothing behind that could
\* still move, and one whose settlement was refused or raised has changed nothing.
THEOREM DiscardsAreSeen == DSpec => DiscardIsVisible
<1>1. ASSUME DInv, [DNext]_dvars PROVE [\A j \in Job, p \in Run : Settles(j, p)]_dvars
  <2>0. proc \in [Job -> [Run -> ProcRow]] /\ Idle.phase = "idle"
    BY <1>1, IdleType DEF DInv, DTypeOK, ProcRow
  <2>1. CASE UNCHANGED proc
    BY <2>1 DEF Settles
  <2>2. ASSUME NEW h, NEW i \in Job, NEW q \in Run, Fetch(h, i, q), NEW j \in Job, NEW r \in Run
        PROVE  Settles(j, r)
    <3> DEFINE p == [node |-> h, phase |-> "dispatch", n |-> 0, t |-> tries[i][q[1]] + 1]
    <3>1. p.phase = "dispatch" /\ proc' = [proc EXCEPT ![i][q] = p]
      BY <2>2 DEF Fetch
    <3> HIDE DEF p
    <3>2. QED
      BY <2>0, <3>1 DEF Settles
  <2>3. ASSUME NEW h, NodeDies(h), NEW j \in Job, NEW r \in Run PROVE Settles(j, r)
    BY <2>0, <2>3 DEF NodeDies, Settles
  <2>4. CASE UNCHANGED dvars
    BY <2>4
  <2>5. ASSUME NEW i \in Job, NEW q \in Row, Rescue(i, q), NEW j \in Job, NEW r \in Run
        PROVE  Settles(j, r)
    BY <2>5 DEF Rescue, Settles
  <2>6. CASE DNext
    BY <1>1, <2>1, <2>2, <2>3, <2>5, <2>6, PerformSeen DEF DNext
  <2>7. QED
    BY <1>1, <2>4, <2>6
<1>2. QED
  BY <1>1, InitDInv, DNextInv, PTL DEF DSpec, DiscardIsVisible

=============================================================================
