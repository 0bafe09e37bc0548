--------------------------- MODULE LoadTestProofs ---------------------------
(***************************************************************************)
(* The load test: its report is true and its figures are right, for any    *)
(* number of jobs, threads, slots and turns, and pages of any size.  The   *)
(* three parts of the invariant belong to the driver, to the stub and to   *)
(* the sampler.                                                            *)
(***************************************************************************)
EXTENDS LoadTest, FiniteSetTheorems, TLAPS

\* The counters of the stub, and what the sampler keeps.
StatsRow == [in_flight : Int, peak : Int, active : SUBSET Job]
SamplerRow == [at : Active, cursor : 0..Cardinality(Job), rows : Nat, first : Nat, peak : Nat, taken : 0..Samples]

\* LTypeOK, but for the bounds of what the sampler counts.
Shape ==
  /\ house \in [Job -> {"none", "queued"} \union Active \union Final]
  /\ request \in [Job -> {"none", "open", "admitted", "refused"}]
  /\ drv \in [Job -> {"pending", "post", "poll", "done"}]
  /\ outcome \in [Job -> {"none", "rejected", "timeout", "crashed"} \union Final]
  /\ main \in {"driving", "ok", "not_ok", "crashed"}
  /\ born \in [Job -> 0..Cardinality(Job)]
  /\ sampler \in SamplerRow
  /\ thread \in [Requests -> {"none", "asleep", "sent", "left"}]
  /\ stats \in StatsRow
  /\ truth \in [busy : Nat, reset : BOOLEAN]

\* A job is in the house only through its own request, which is made once, so that
\* what has ended in the house is not admitted again; and a report is final.
DriverInv ==
  /\ \A j \in Job :
       /\ drv[j] = "pending" => request[j] = "none"
       /\ request[j] = "admitted" => born[j] # 0
       /\ request[j] # "admitted" => born[j] = 0 /\ house[j] = "none"
       /\ outcome[j] \in Final => outcome[j] = house[j]
  /\ main = "ok" => \A j \in Job : drv[j] = "done" /\ outcome[j] = "succeeded"

\* The first three conjuncts of FiguresRight, and that few requests are open.
StubInv ==
  /\ IsFiniteSet(Open(thread))
  /\ stats.in_flight <= Cardinality(Open(thread))
  /\ ~truth.reset => stats.in_flight = Cardinality(Open(thread)) /\ stats.peak >= Cardinality(Asking(thread))
  /\ stats.active \subseteq {x[1] : x \in Open(thread)}

\* What the pages have come down past: all that has been listed is among it.
Past == {j \in Job : born[j] >= sampler.cursor}

\* What one status of a sample can count, and half of the sampled peak.
Most == IF truth.busy <= Page THEN truth.busy ELSE Cardinality(Job)

\* Pages are turned only when more is active than one holds, and then no job is on two.
SamplerInv ==
  /\ Cardinality(Busy(house)) <= truth.busy /\ truth.busy <= Cardinality(Job)
  /\ sampler.rows <= IF sampler.cursor = 0 THEN 0 ELSE Cardinality(Past)
  /\ truth.busy <= Page => sampler.rows = 0
  /\ sampler.first <= Most /\ sampler.peak <= 2 * Most

LInv == Shape /\ DriverInv /\ StubInv /\ SamplerInv

-----------------------------------------------------------------------------
(* Counting *)

\* The larger of two numbers.
LEMMA PeakIs ==
  ASSUME NEW x \in Int, NEW y \in Int
  PROVE  /\ Peak(x, y) \in Int /\ Peak(x, y) >= x /\ Peak(x, y) >= y
         /\ Peak(x, y) = x \/ Peak(x, y) = y
         /\ x \in Nat /\ y \in Nat => Peak(x, y) \in Nat
BY DEF Peak

\* A part of the jobs is finite and counts no more than all of them.
LEMMA JobsCount ==
  ASSUME NEW S, S \subseteq Job
  PROVE  IsFiniteSet(S) /\ Cardinality(S) \in Nat /\ Cardinality(S) <= Cardinality(Job)
BY FS_Subset, FS_CardinalityType, LoadTestAssumption DEF LoadTestAssumption

\* A part of the active jobs counts no more than all of them.
LEMMA BusyCount ==
  ASSUME NEW h, NEW S, S \subseteq Busy(h)
  PROVE  Cardinality(S) \in Nat /\ Cardinality(S) <= Cardinality(Busy(h))
<1>1. Busy(h) \subseteq Job
  BY DEF Busy
<1> QED
  BY <1>1, JobsCount, FS_Subset

-----------------------------------------------------------------------------
(* The records *)

\* The house, the driver and the counters start empty.
LEMMA InitLInv == LInit => LInv
<1> SUFFICES ASSUME LInit PROVE LInv
  OBVIOUS
<1>1. Shape
  BY JobsCount, LoadTestAssumption
     DEF LoadTestAssumption, LInit, Shape, SamplerRow, StatsRow, ZeroStats, Active, Final
<1>2. DriverInv
  BY DEF LInit, DriverInv, Final
<1>3. Open(thread) = {} /\ Asking(thread) = {} /\ Busy(house) = {}
  BY DEF LInit, Open, Asking, Busy, Active
<1>4. StubInv
  BY <1>3, FS_EmptySet DEF LInit, StubInv, ZeroStats
<1>5. SamplerInv
  <2>1. Page \in Nat /\ Cardinality(Job) \in Nat /\ Cardinality(Busy(house)) = 0
    BY <1>3, FS_EmptySet, JobsCount, LoadTestAssumption DEF LoadTestAssumption
  <2>2. truth.busy = 0 /\ sampler.cursor = 0 /\ sampler.rows = 0 /\ sampler.first = 0 /\ sampler.peak = 0
    BY DEF LInit
  <2>3. Most = 0
    BY <2>1, <2>2 DEF Most
  <2> QED
    BY <2>1, <2>2, <2>3 DEF SamplerInv
<1> QED
  BY <1>1, <1>2, <1>4, <1>5 DEF LInv

\* A request is that of a job and a turn.
LEMMA RequestIs == ASSUME NEW x \in Requests PROVE x[1] \in Job /\ <<x[1], x[2]>> = x
BY DEF Requests

\* Counters that are replaced by counters.
LEMMA Counters ==
  ASSUME NEW s \in StatsRow, NEW i \in Int, NEW p \in Int, NEW a \in SUBSET Job
  PROVE  /\ [s EXCEPT !.in_flight = i, !.peak = p, !.active = a] \in StatsRow
         /\ [s EXCEPT !.in_flight = i, !.active = a] \in StatsRow
BY DEF StatsRow

\* What the sampler keeps, replaced in part.
LEMMA SamplerRowIs ==
  ASSUME NEW s \in SamplerRow, NEW a \in Active, NEW c \in 0..Cardinality(Job),
         NEW r \in Nat, NEW f \in Nat
  PROVE  /\ [s EXCEPT !.at = a, !.cursor = c, !.rows = r, !.first = f] \in SamplerRow
         /\ [s EXCEPT !.cursor = c, !.rows = r] \in SamplerRow
BY DEF SamplerRow

\* What Enter makes of the counters.
LEMMA EnterIs ==
  ASSUME Shape, NEW j \in Job
  PROVE  /\ Enter(stats, j) \in StatsRow
         /\ Enter(stats, j).in_flight = stats.in_flight + 1
         /\ Enter(stats, j).peak = Peak(stats.peak, stats.in_flight + 1)
         /\ Enter(stats, j).active = stats.active \union {j}
<1>1. stats \in StatsRow
  BY DEF Shape, StatsRow
<1>2. Peak(stats.peak, stats.in_flight + 1) \in Int
  BY <1>1, PeakIs DEF StatsRow
<1>3. stats.in_flight + 1 \in Int /\ stats.active \union {j} \in SUBSET Job
  BY <1>1 DEF StatsRow
<1>4. Enter(stats, j) \in StatsRow
  BY <1>1, <1>2, <1>3, Counters DEF Enter
<1> QED
  BY <1>1, <1>4 DEF Enter, StatsRow

\* What Leave makes of them.
LEMMA LeaveIs ==
  ASSUME Shape, NEW j \in Job
  PROVE  /\ Leave(stats, j) \in StatsRow
         /\ Leave(stats, j).in_flight = stats.in_flight - 1
         /\ Leave(stats, j).peak = stats.peak
         /\ Leave(stats, j).active = stats.active \ {j}
<1>1. stats \in StatsRow
  BY DEF Shape, StatsRow
<1>2. stats.in_flight - 1 \in Int /\ stats.active \ {j} \in SUBSET Job
  BY <1>1 DEF StatsRow
<1>3. Leave(stats, j) \in StatsRow
  BY <1>1, <1>2, Counters DEF Leave
<1> QED
  BY <1>1, <1>3 DEF Leave, StatsRow

\* One thread moves: its request is open, or it is not any more.
LEMMA OneThread ==
  ASSUME Shape, IsFiniteSet(Open(thread)), NEW x \in Requests, NEW step,
         thread' = [thread EXCEPT ![x] = step]
  PROVE  /\ Open(thread') = IF step \in {"asleep", "sent"} THEN Open(thread) \union {x}
                            ELSE Open(thread) \ {x}
         /\ IsFiniteSet(Open(thread')) /\ Asking(thread') \subseteq Open(thread')
<1>1. Open(thread') = IF step \in {"asleep", "sent"} THEN Open(thread) \union {x}
                      ELSE Open(thread) \ {x}
  BY DEF Shape, Open
<1>2. IsFiniteSet(Open(thread) \union {x}) /\ IsFiniteSet(Open(thread) \ {x})
  BY FS_AddElement, FS_RemoveElement
<1> QED
  BY <1>1, <1>2 DEF Open, Asking

\* The stub's counters stay counters.
LEMMA StubShape == Shape /\ Stub => Shape'
<1> SUFFICES ASSUME Shape, Stub PROVE Shape'
  OBVIOUS
<1> USE DEF house_vars, drive_vars
<1>1. CASE ResetStats
  <2>1. stats' \in StatsRow
    BY <1>1 DEF ResetStats, ZeroStats, StatsRow
  <2>2. truth' \in [busy : Nat, reset : BOOLEAN]
    BY <1>1 DEF ResetStats, Shape
  <2> QED
    BY <1>1, <2>1, <2>2 DEF ResetStats, Shape
<1>2. ASSUME NEW x \in Requests, StubEnters(x[1], x[2]) PROVE Shape'
  <2>1. stats' \in StatsRow
    BY <1>2, RequestIs, EnterIs DEF StubEnters
  <2> QED
    BY <1>2, <2>1, RequestIs DEF Shape, StubEnters
<1>3. ASSUME NEW x \in Requests, StubSends(x[1], x[2]) PROVE Shape'
  BY <1>3, RequestIs DEF Shape, StubSends
<1>4. ASSUME NEW x \in Requests, StubLeaves(x[1], x[2]) PROVE Shape'
  <2>1. stats' \in StatsRow
    BY <1>4, RequestIs, LeaveIs DEF Shape, StubLeaves
  <2> QED
    BY <1>4, <2>1, RequestIs DEF Shape, StubLeaves
<1> QED
  BY <1>1, <1>2, <1>3, <1>4 DEF Stub

\* The steps of the sampler keep its record.
LEMMA SampleShape == Shape /\ Sample => Shape'
<1> SUFFICES ASSUME Shape, Sample PROVE Shape'
  OBVIOUS
<1> USE DEF house_vars, drive_vars, stub_vars
<1>a. sampler \in SamplerRow /\ Cardinality(Job) \in Nat /\ Samples \in Nat
      /\ Page \in Nat
  BY JobsCount, LoadTestAssumption DEF Shape, LoadTestAssumption
<1>1. SUFFICES sampler' \in SamplerRow
  BY DEF Shape, Sample, TurnPage, SampleFirst, SampleSecond, SampleFails, LastPage
<1>2. ASSUME NEW peak \in Nat, \E status \in Active : Sampling(status) PROVE NextSample(peak) \in SamplerRow
  <2>1. sampler.taken + 1 \in 0..Samples
    BY <1>a, <1>2 DEF SamplerRow, Sampling
  <2> QED
    BY <1>a, <2>1 DEF SamplerRow, NextSample, Active
<1>3. ASSUME NEW status \in Active, TurnPage(status) PROVE sampler' \in SamplerRow
  <2>1. PICK j \in Job : sampler' = [sampler EXCEPT !.cursor = born[j], !.rows = @ + Page]
    BY <1>3 DEF TurnPage, Listed
  <2>2. born[j] \in 0..Cardinality(Job)
    BY DEF Shape
  <2>3. sampler.rows + Page \in Nat
    BY <1>a DEF SamplerRow
  <2> QED
    BY <1>a, <2>1, <2>2, <2>3, SamplerRowIs DEF SamplerRow
<1>4. CASE SampleFirst
  <2>1. Cardinality(Listed("provisioning")) \in Nat
    BY JobsCount DEF Listed
  <2>2. "running" \in Active /\ 0 \in 0..Cardinality(Job)
    BY <1>a DEF Active
  <2>3. sampler.rows + Cardinality(Listed("provisioning")) \in Nat
    BY <1>a, <2>1 DEF SamplerRow
  <2> QED
    BY <1>4, <1>a, <2>2, <2>3, SamplerRowIs DEF SampleFirst
<1>5. CASE SampleSecond
  <2> DEFINE active == sampler.first + sampler.rows + Cardinality(Listed("running"))
  <2>1. Cardinality(Listed("running")) \in Nat
    BY JobsCount DEF Listed
  <2>2. active \in Nat /\ sampler.peak \in Nat
    BY <1>a, <2>1 DEF SamplerRow
  <2>3. sampler' = NextSample(Peak(sampler.peak, active)) /\ \E status \in Active : Sampling(status)
    BY <1>5 DEF SampleSecond, LastPage, Active
  <2> HIDE DEF active
  <2>4. Peak(sampler.peak, active) \in Nat
    BY <2>2 DEF Peak
  <2> QED
    BY <1>2, <2>3, <2>4
<1>6. CASE SampleFails
  <2>1. sampler.peak \in Nat
    BY <1>a DEF SamplerRow
  <2> QED
    BY <1>2, <1>6, <2>1 DEF SampleFails
<1> QED
  BY <1>3, <1>4, <1>5, <1>6 DEF Sample

\* Every step keeps the records.
LEMMA ShapeStep == LInv /\ [LNext]_lvars => Shape'
<1> SUFFICES ASSUME LInv, [LNext]_lvars PROVE Shape'
  OBVIOUS
<1> USE DEF house_vars, drive_vars, stub_vars
<1>a. Shape
  BY DEF LInv
<1>1. CASE UNCHANGED lvars
  BY <1>1, <1>a DEF lvars, Shape
<1>2. ASSUME NEW j \in Job, HouseAnswers(j) PROVE Shape'
  <2>1. born[j] = 0 /\ Cardinality(Job) \in Nat
    BY <1>2, JobsCount DEF HouseAnswers, LInv, DriverInv
  <2>2. Cardinality(Admitted) + 1 \in 0..Cardinality(Job)
    <3>1. Admitted \subseteq Job /\ j \notin Admitted /\ Admitted \union {j} \subseteq Job
      BY <2>1 DEF Admitted
    <3>2. IsFiniteSet(Admitted) /\ Cardinality(Admitted) \in Nat
          /\ Cardinality(Admitted \union {j}) <= Cardinality(Job)
      BY <3>1, JobsCount
    <3>3. Cardinality(Admitted \union {j}) = Cardinality(Admitted) + 1
      BY <3>1, <3>2, FS_AddElement
    <3> QED
      BY <2>1, <3>2, <3>3
  <2>3. born' \in [Job -> 0..Cardinality(Job)]
    BY <1>2, <1>a, <2>2 DEF HouseAnswers, Shape
  <2> QED
    BY <1>2, <1>a, <2>3 DEF HouseAnswers, Shape
<1>3. ASSUME NEW j \in Job, HouseStarts(j) PROVE Shape'
  <2>1. Peak(truth.busy, Cardinality(Busy(house'))) \in Nat
    <3>1. Cardinality(Busy(house')) \in Nat
      BY JobsCount DEF Busy
    <3> QED
      BY <1>a, <3>1, PeakIs DEF Shape
  <2>2. truth' \in [busy : Nat, reset : BOOLEAN]
    BY <1>3, <1>a, <2>1 DEF HouseStarts, Shape
  <2> QED
    BY <1>3, <1>a, <2>2 DEF HouseStarts, Shape, Active
<1>4. ASSUME NEW j \in Job, HouseRuns(j) PROVE Shape'
  BY <1>4, <1>a DEF HouseRuns, Shape, Active
<1>5. ASSUME NEW j \in Job, HouseEnds(j) PROVE Shape'
  BY <1>5, <1>a DEF HouseEnds, Shape, Final
<1>6. ASSUME NEW j \in Job, RunJob(j) \/ ThreadCrashes(j) PROVE Shape'
  BY <1>6, <1>a
     DEF RunJob, Post, PostAnswered, PostLost, PollEnded, PollTimesOut, ThreadCrashes,
            Ends, Shape, Final
<1>7. CASE Stub
  BY <1>7, StubShape DEF LInv
<1>8. CASE Sample
  BY <1>8, <1>a, SampleShape
<1>9. CASE Report
  BY <1>9, <1>a DEF Report, Shape
<1> QED
  BY <1>1, <1>2, <1>3, <1>4, <1>5, <1>6, <1>7, <1>8, <1>9 DEF LNext, House

-----------------------------------------------------------------------------
(* The driver *)

\* What has ended in the house does not begin again, and a report is not taken back.
LEMMA DriverStep == LInv /\ Shape' /\ [LNext]_lvars => DriverInv'
<1> SUFFICES ASSUME LInv, Shape', [LNext]_lvars PROVE DriverInv'
  OBVIOUS
<1> USE DEF house_vars, drive_vars, stub_vars
<1>a. Shape /\ DriverInv
  BY DEF LInv
<1>1. CASE UNCHANGED lvars
  BY <1>1, <1>a DEF lvars, DriverInv
<1>2. ASSUME NEW j \in Job, HouseAnswers(j) PROVE DriverInv'
  <2>1. Cardinality(Admitted) + 1 # 0
    BY JobsCount DEF Admitted
  <2> QED
    BY <1>2, <1>a, <2>1 DEF HouseAnswers, Shape, DriverInv, Final
<1>3. ASSUME NEW j \in Job, HouseStarts(j) PROVE DriverInv'
  BY <1>3, <1>a DEF HouseStarts, Shape, DriverInv, Final
<1>4. ASSUME NEW j \in Job, HouseRuns(j) PROVE DriverInv'
  BY <1>4, <1>a DEF HouseRuns, Shape, DriverInv, Final
<1>5. ASSUME NEW j \in Job, HouseEnds(j) PROVE DriverInv'
  BY <1>5, <1>a DEF HouseEnds, Shape, DriverInv, Final, Active
<1>6. ASSUME NEW j \in Job, Post(j) PROVE DriverInv'
  BY <1>6, <1>a DEF Post, Shape, DriverInv
<1>7. ASSUME NEW j \in Job, PostAnswered(j) PROVE DriverInv'
  BY <1>7, <1>a DEF PostAnswered, Ends, Shape, DriverInv, Final
<1>8. ASSUME NEW j \in Job, PostLost(j) PROVE DriverInv'
  BY <1>8, <1>a DEF PostLost, Ends, Shape, DriverInv, Final
<1>9. ASSUME NEW j \in Job, PollEnded(j) PROVE DriverInv'
  BY <1>9, <1>a DEF PollEnded, Ends, Shape, DriverInv
<1>10. ASSUME NEW j \in Job, PollTimesOut(j) PROVE DriverInv'
  BY <1>10, <1>a DEF PollTimesOut, Ends, Shape, DriverInv, Final
<1>11. ASSUME NEW j \in Job, ThreadCrashes(j) PROVE DriverInv'
  BY <1>11, <1>a DEF ThreadCrashes, Ends, Shape, DriverInv, Final
<1>12. CASE Stub
  <2>1. UNCHANGED <<house, request, born, drv, outcome, main>>
    BY <1>12 DEF Stub, ResetStats, StubEnters, StubSends, StubLeaves
  <2> QED
    BY <2>1, <1>a DEF DriverInv
<1>13. CASE Sample
  BY <1>13, <1>a DEF Sample, TurnPage, SampleFirst, SampleSecond, SampleFails, LastPage, DriverInv
<1>14. CASE Report
  BY <1>14, <1>a DEF Report, Driven, DriverInv
<1> QED
  BY <1>1, <1>2, <1>3, <1>4, <1>5, <1>6, <1>7, <1>8, <1>9, <1>10, <1>11, <1>12, <1>13, <1>14
     DEF LNext, House, RunJob

-----------------------------------------------------------------------------
(* The stub *)

\* A request that arrives is counted; the peak is taken with it.
LEMMA EnterCounts ==
  ASSUME LInv, Shape', NEW x \in Requests, StubEnters(x[1], x[2]) PROVE StubInv'
<1>a. Shape /\ StubInv /\ IsFiniteSet(Open(thread)) /\ stats \in StatsRow /\ x[1] \in Job
  BY RequestIs DEF LInv, Shape, StubInv, StatsRow
<1>1. thread' = [thread EXCEPT ![x] = "asleep"] /\ thread[x] = "none" /\ stats' = Enter(stats, x[1])
      /\ truth' = truth
  BY RequestIs DEF StubEnters
<1>2. /\ Open(thread') = Open(thread) \union {x} /\ x \notin Open(thread)
      /\ IsFiniteSet(Open(thread')) /\ Asking(thread') \subseteq Open(thread')
  BY <1>1, <1>a, OneThread DEF Open
<1>3. /\ Cardinality(Open(thread')) = Cardinality(Open(thread)) + 1
      /\ Cardinality(Open(thread)) \in Nat /\ Cardinality(Asking(thread')) \in Nat
      /\ Cardinality(Asking(thread')) <= Cardinality(Open(thread'))
  BY <1>2, <1>a, FS_AddElement, FS_CardinalityType, FS_Subset
<1>4. /\ stats'.in_flight = stats.in_flight + 1
      /\ stats'.peak = Peak(stats.peak, stats.in_flight + 1)
      /\ stats'.active = stats.active \union {x[1]}
  BY <1>1, <1>a, EnterIs
<1>5. stats.in_flight \in Int /\ stats.peak \in Int
  BY <1>a DEF StatsRow
<1>6. stats'.in_flight <= Cardinality(Open(thread'))
  BY <1>3, <1>4, <1>5, <1>a DEF StubInv
<1>7. ASSUME ~truth'.reset
      PROVE  stats'.in_flight = Cardinality(Open(thread')) /\ stats'.peak >= Cardinality(Asking(thread'))
  <2>1. stats.in_flight = Cardinality(Open(thread))
    BY <1>1, <1>7, <1>a DEF StubInv
  <2>2. stats'.peak >= stats.in_flight + 1 /\ stats'.peak \in Int
    BY <1>4, <1>5 DEF Peak
  <2> QED
    BY <1>3, <1>4, <1>5, <2>1, <2>2
<1>8. stats'.active \subseteq {y[1] : y \in Open(thread')}
  BY <1>2, <1>4, <1>a DEF StubInv
<1> QED
  BY <1>2, <1>6, <1>7, <1>8 DEF StubInv

\* Fewer that wait count no more.
LEMMA FewerAsk ==
  ASSUME IsFiniteSet(Open(thread)), NEW S, S \subseteq Asking(thread)
  PROVE  /\ Cardinality(S) \in Nat /\ Cardinality(Asking(thread)) \in Nat
         /\ Cardinality(S) <= Cardinality(Asking(thread))
<1>1. Asking(thread) \subseteq Open(thread)
  BY DEF Asking, Open
<1> QED
  BY <1>1, FS_Subset, FS_CardinalityType

\* A request that is over is counted out; only its own job loses its marker.
LEMMA LeaveCounts ==
  ASSUME LInv, Shape', NEW x \in Requests, StubLeaves(x[1], x[2]) PROVE StubInv'
<1>a. Shape /\ StubInv /\ IsFiniteSet(Open(thread)) /\ stats \in StatsRow /\ x[1] \in Job
  BY RequestIs DEF LInv, Shape, StubInv, StatsRow
<1>1. thread' = [thread EXCEPT ![x] = "left"] /\ thread[x] \in {"asleep", "sent"}
      /\ stats' = Leave(stats, x[1]) /\ truth' = truth
  BY RequestIs DEF StubLeaves
<1>2. /\ Open(thread') = Open(thread) \ {x} /\ x \in Open(thread)
      /\ IsFiniteSet(Open(thread'))
  BY <1>1, <1>a, OneThread DEF Open
<1>3. /\ Cardinality(Open(thread')) = Cardinality(Open(thread)) - 1
      /\ Cardinality(Open(thread)) \in Nat
  BY <1>2, <1>a, FS_RemoveElement, FS_CardinalityType
<1>4. /\ stats'.in_flight = stats.in_flight - 1 /\ stats'.peak = stats.peak
      /\ stats'.active = stats.active \ {x[1]} /\ stats.in_flight \in Int
  BY <1>1, <1>a, LeaveIs DEF StatsRow
<1>5. stats'.active \subseteq {y[1] : y \in Open(thread')}
  <2> SUFFICES ASSUME NEW j \in stats'.active PROVE \E y \in Open(thread') : j = y[1]
    OBVIOUS
  <2>1. j \in stats.active /\ j # x[1]
    BY <1>4
  <2>2. PICK y \in Open(thread) : j = y[1]
    BY <2>1, <1>a DEF StubInv
  <2>3. y # x
    BY <2>1, <2>2
  <2> QED
    BY <1>2, <2>2, <2>3
<1>6. stats'.in_flight <= Cardinality(Open(thread'))
  BY <1>3, <1>4, <1>a DEF StubInv
<1>7. ASSUME ~truth'.reset
      PROVE  stats'.in_flight = Cardinality(Open(thread')) /\ stats'.peak >= Cardinality(Asking(thread'))
  <2>1. Asking(thread') \subseteq Asking(thread)
    BY <1>1, <1>a DEF Asking, Shape
  <2>2. stats.in_flight = Cardinality(Open(thread)) /\ stats.peak >= Cardinality(Asking(thread))
        /\ stats.peak \in Int
    BY <1>1, <1>7, <1>a DEF StubInv, StatsRow
  <2> QED
    BY <1>3, <1>4, <2>1, <2>2, <1>a, FewerAsk
<1> QED
  BY <1>2, <1>5, <1>6, <1>7 DEF StubInv

\* The other steps move no thread in or out of the open ones, or zero the counters.
LEMMA StubStep == LInv /\ Shape' /\ [LNext]_lvars => StubInv'
<1> SUFFICES ASSUME LInv, Shape', [LNext]_lvars PROVE StubInv'
  OBVIOUS
<1> USE DEF house_vars, drive_vars, stub_vars
<1>a. Shape /\ StubInv
  BY DEF LInv
<1>1. ASSUME UNCHANGED <<thread, stats>>, truth'.reset = truth.reset PROVE StubInv'
  BY <1>1, <1>a DEF StubInv, Open, Asking
<1>2. CASE UNCHANGED lvars
  BY <1>1, <1>2 DEF lvars
<1>3. ASSUME NEW j \in Job, House(j) PROVE StubInv'
  <2>1. UNCHANGED <<thread, stats>> /\ truth'.reset = truth.reset
    BY <1>3, <1>a DEF House, HouseAnswers, HouseStarts, HouseRuns, HouseEnds, Shape
  <2> QED
    BY <1>1, <2>1
<1>4. ASSUME NEW j \in Job, RunJob(j) \/ ThreadCrashes(j) PROVE StubInv'
  BY <1>1, <1>4 DEF RunJob, Post, PostAnswered, PostLost, PollEnded, PollTimesOut, ThreadCrashes
<1>5. CASE Sample \/ Report
  <2>1. UNCHANGED <<thread, stats, truth>>
    BY <1>5 DEF Sample, TurnPage, SampleFirst, SampleSecond, SampleFails, LastPage, Report
  <2> QED
    BY <1>1, <2>1
<1>6. CASE ResetStats
  <2>1. /\ thread' = thread /\ stats'.in_flight = 0 /\ stats'.active = {} /\ truth'.reset
        /\ IsFiniteSet(Open(thread)) /\ Cardinality(Open(thread)) \in Nat
    BY <1>6, <1>a, FS_CardinalityType DEF ResetStats, ZeroStats, Shape, StubInv
  <2> QED
    BY <2>1 DEF StubInv
<1>7. ASSUME NEW x \in Requests, StubSends(x[1], x[2]) PROVE StubInv'
  <2>1. thread' = [thread EXCEPT ![x] = "sent"] /\ thread[x] = "asleep" /\ UNCHANGED <<stats, truth>>
    BY <1>7, RequestIs DEF StubSends
  <2>2. Open(thread') = Open(thread)
    BY <2>1, <1>a DEF Open, Shape
  <2>3. Asking(thread') \subseteq Asking(thread)
    BY <2>1, <1>a DEF Asking, Shape
  <2>4. /\ Cardinality(Asking(thread')) \in Nat /\ Cardinality(Asking(thread)) \in Nat
        /\ Cardinality(Asking(thread')) <= Cardinality(Asking(thread)) /\ stats.peak \in Int
    BY <2>3, <1>a, FewerAsk DEF StubInv, Shape, StatsRow
  <2>5. StubInv /\ stats' = stats /\ truth' = truth
    BY <2>1, <1>a
  <2>6. ~truth.reset => stats.peak >= Cardinality(Asking(thread'))
    BY <2>4, <2>5 DEF StubInv
  <2> QED
    BY <2>2, <2>5, <2>6 DEF StubInv
<1>8. ASSUME NEW x \in Requests, StubEnters(x[1], x[2]) PROVE StubInv'
  BY <1>8, EnterCounts
<1>9. ASSUME NEW x \in Requests, StubLeaves(x[1], x[2]) PROVE StubInv'
  BY <1>9, LeaveCounts
<1> QED
  BY <1>2, <1>3, <1>4, <1>5, <1>6, <1>7, <1>8, <1>9 DEF LNext, Stub

-----------------------------------------------------------------------------
(* The sampler *)

\* What the sampler counts of a status is no more than the jobs there are, and than
\* what is active when that fits on a page.
LEMMA ListedCount ==
  ASSUME Shape, SamplerInv, NEW status \in Active
  PROVE  /\ Cardinality(Listed(status)) \in Nat /\ Cardinality(Listed(status)) <= truth.busy
         /\ sampler.rows + Cardinality(Listed(status)) <= Most
<1>1. Listed(status) \subseteq Busy(house) /\ Listed(status) \subseteq Job
  BY DEF Listed, Busy
<1>2. /\ IsFiniteSet(Listed(status)) /\ Cardinality(Listed(status)) \in Nat
      /\ Cardinality(Listed(status)) <= Cardinality(Job)
      /\ Cardinality(Listed(status)) <= Cardinality(Busy(house)) /\ Cardinality(Busy(house)) \in Nat
      /\ Cardinality(Job) \in Nat
  BY <1>1, JobsCount, BusyCount
<1>3. truth.busy \in Nat /\ sampler.rows \in Nat /\ sampler.cursor \in Nat /\ Page \in Nat
      /\ Cardinality(Busy(house)) <= truth.busy
  BY <1>2, LoadTestAssumption DEF Shape, SamplerRow, SamplerInv, LoadTestAssumption
<1>4. sampler.rows + Cardinality(Listed(status)) <= Cardinality(Job)
  <2>1. CASE sampler.cursor = 0
    BY <1>2, <1>3, <2>1 DEF SamplerInv
  <2>2. CASE sampler.cursor # 0
    <3>1. Past \cap Listed(status) = {}
      BY <1>3, <2>2 DEF Past, Listed, Shape
    <3>2. Past \union Listed(status) \subseteq Job /\ Past \subseteq Job
      BY DEF Past, Listed
    <3>3. Cardinality(Past \union Listed(status))
            = Cardinality(Past) + Cardinality(Listed(status))
      <4>1. IsFiniteSet(Past) /\ Cardinality({}) = 0
        BY <3>2, JobsCount, FS_EmptySet
      <4>2. Cardinality(Past \union Listed(status))
              = Cardinality(Past) + Cardinality(Listed(status))
                  - Cardinality(Past \cap Listed(status))
        BY <1>2, <4>1, FS_Union
      <4>3. Cardinality(Past) \in Nat
        BY <4>1, FS_CardinalityType
      <4>4. Cardinality(Past \cap Listed(status)) = 0
        BY <3>1, <4>1
      <4> QED
        BY <1>2, <4>2, <4>3, <4>4
    <3>4. Cardinality(Past) \in Nat
          /\ Cardinality(Past \union Listed(status)) <= Cardinality(Job)
      BY <3>2, JobsCount
    <3> QED
      BY <1>2, <1>3, <2>2, <3>3, <3>4 DEF SamplerInv
  <2> QED
    BY <2>1, <2>2
<1> QED
  BY <1>2, <1>3, <1>4 DEF Most, SamplerInv

\* The steps of the house: the real peak covers the active jobs, and only grows; what
\* is admitted is newer than what has been listed.
LEMMA HousePeak == ASSUME LInv, Shape', NEW j \in Job, House(j) PROVE SamplerInv'
<1> USE DEF house_vars, drive_vars, stub_vars
<1>a. Shape /\ DriverInv /\ SamplerInv
  BY DEF LInv
<1>b. /\ Cardinality(Busy(house')) \in Nat /\ Cardinality(Busy(house')) <= Cardinality(Job)
      /\ Cardinality(Busy(house)) \in Nat /\ Cardinality(Job) \in Nat /\ Page \in Nat
      /\ truth.busy \in Nat /\ sampler \in SamplerRow
  BY <1>a, JobsCount, LoadTestAssumption DEF Busy, Shape, LoadTestAssumption
<1>c. sampler' = sampler
  BY DEF House, HouseAnswers, HouseStarts, HouseRuns, HouseEnds
<1>d. /\ truth'.busy \in Nat /\ truth'.busy >= truth.busy /\ truth'.busy >= Cardinality(Busy(house'))
      /\ truth'.busy <= Cardinality(Job)
  <2>1. CASE HouseStarts(j)
    <3>1. truth'.busy = Peak(truth.busy, Cardinality(Busy(house')))
      BY <2>1, <1>a DEF HouseStarts, Shape
    <3> QED
      BY <3>1, <1>a, <1>b DEF Peak, SamplerInv
  <2>2. CASE HouseAnswers(j) \/ HouseRuns(j) \/ HouseEnds(j)
    <3>1. Busy(house') \subseteq Busy(house) /\ truth' = truth
      BY <2>2, <1>a DEF HouseAnswers, HouseRuns, HouseEnds, Busy, Active, Final, Shape, DriverInv
    <3>2. Cardinality(Busy(house')) <= Cardinality(Busy(house))
      BY <3>1, BusyCount
    <3> QED
      BY <3>1, <3>2, <1>a, <1>b DEF SamplerInv
  <2> QED
    BY <2>1, <2>2 DEF House
<1>e. Most \in Nat /\ Most' \in Nat /\ Most <= Most'
  BY <1>a, <1>b, <1>d DEF Most, SamplerInv
<1>f. \A k \in Job : born'[k] >= born[k]
  <2>1. CASE HouseAnswers(j)
    <3>1. born[j] = 0 /\ \A k \in Job : born[k] \in Nat /\ born'[k] \in Nat
      BY <2>1, <1>a, <1>b DEF HouseAnswers, DriverInv, Shape
    <3>2. \A k \in Job : k # j => born'[k] = born[k]
      BY <2>1, <1>a DEF HouseAnswers, Shape
    <3> QED
      BY <3>1, <3>2
  <2>2. CASE HouseStarts(j) \/ HouseRuns(j) \/ HouseEnds(j)
    <3>1. born' = born /\ \A k \in Job : born[k] \in Nat
      BY <2>2, <1>a, <1>b DEF HouseStarts, HouseRuns, HouseEnds, Shape
    <3> QED
      BY <3>1
  <2> QED
    BY <2>1, <2>2 DEF House
<1>1. sampler'.rows <= IF sampler'.cursor = 0 THEN 0 ELSE Cardinality(Past')
  <2>1. Past \subseteq Past'
    <3>1. \A k \in Job : born[k] \in Nat /\ born'[k] \in Nat /\ sampler.cursor \in Nat
      BY <1>a, <1>b DEF Shape, SamplerRow
    <3> QED
      BY <1>c, <1>f, <3>1 DEF Past
  <2>2. Past' \subseteq Job
    BY DEF Past
  <2>3. /\ Cardinality(Past) <= Cardinality(Past')
        /\ Cardinality(Past) \in Nat /\ Cardinality(Past') \in Nat
    BY <2>1, <2>2, JobsCount, FS_Subset, FS_CardinalityType
  <2> QED
    BY <1>a, <1>b, <1>c, <2>3 DEF SamplerInv, SamplerRow
<1>2. truth'.busy <= Page => sampler'.rows = 0
  BY <1>a, <1>b, <1>c, <1>d DEF SamplerInv
<1>3. sampler'.first <= Most' /\ sampler'.peak <= 2 * Most'
  BY <1>a, <1>b, <1>c, <1>e DEF SamplerInv, SamplerRow
<1> QED
  BY <1>c, <1>d, <1>1, <1>2, <1>3 DEF SamplerInv

\* The steps of the sampler: a page that is turned was full of active jobs, all of
\* them older than those on the page before.
LEMMA SamplePeak == ASSUME LInv, Shape', Sample PROVE SamplerInv'
<1> USE DEF house_vars, drive_vars, stub_vars
<1>a. Shape /\ DriverInv /\ SamplerInv /\ house' = house /\ born' = born /\ truth' = truth
      /\ Page \in Nat \ {0}
  BY LoadTestAssumption
     DEF LInv, Sample, TurnPage, SampleFirst, SampleSecond, SampleFails, LastPage, LoadTestAssumption
<1>b. /\ Most' = Most /\ Most \in Nat /\ truth.busy \in Nat /\ sampler \in SamplerRow
      /\ Cardinality(Busy(house'))<= truth'.busy /\ truth'.busy <= Cardinality(Job)
      /\ Cardinality(Job) \in Nat
  BY <1>a, JobsCount DEF SamplerInv, Shape, Most
<1>1. ASSUME NEW status \in Active, TurnPage(status) PROVE SamplerInv'
  <2>1. PICK j \in Listed(status) :
          /\ Cardinality({k \in Listed(status) : born[k] >= born[j]}) = Page
          /\ sampler' = [sampler EXCEPT !.cursor = born[j], !.rows = @ + Page]
    BY <1>1 DEF TurnPage
  <2> DEFINE page == {k \in Listed(status) : born[k] >= born[j]}
  <2>2. sampler'.cursor = born[j] /\ sampler'.rows = sampler.rows + Page
        /\ sampler'.first = sampler.first /\ sampler'.peak = sampler.peak
    BY <1>b, <2>1 DEF SamplerRow
  <2>3. j \in Job /\ born[j] \in Nat /\ born[j] # 0
    BY <1>a DEF Listed, Active, DriverInv, Shape
  <2>4. truth.busy > Page
    BY <1>1, <1>a, <1>b, ListedCount DEF TurnPage
  <2>6. Past' = {k \in Job : born[k] >= born[j]}
    BY <1>a, <2>2 DEF Past
  <2>5. sampler.rows + Page <= Cardinality(Past')
    <3>1. page \subseteq Past' /\ Past' \subseteq Job /\ page \subseteq Job
      BY <2>6 DEF Listed
    <3>2. IsFiniteSet(page) /\ Cardinality(page) <= Cardinality(Past')
          /\ Cardinality(Past') \in Nat
      BY <3>1, JobsCount, FS_Subset
    <3>3. CASE sampler.cursor = 0
      BY <1>a, <1>b, <2>1, <3>2, <3>3 DEF SamplerInv, SamplerRow
    <3>4. CASE sampler.cursor # 0
      <4>1. Past \cap page = {} /\ Past \union page \subseteq Past'
        <5>1. born[j] < sampler.cursor /\ sampler.cursor \in Nat
          BY <1>b, <3>4 DEF Listed, SamplerRow
        <5>2. \A k \in Job : born[k] \in Nat
          BY <1>a DEF Shape
        <5>3. \A k \in page : k \in Job /\ born[k] < sampler.cursor
          BY <3>4 DEF Listed
        <5> QED
          BY <2>3, <2>6, <3>1, <5>1, <5>2, <5>3 DEF Past
      <4>2. IsFiniteSet(Past) /\ Cardinality(Past) \in Nat
            /\ Cardinality(page) \in Nat /\ IsFiniteSet(Past')
        BY <3>1, JobsCount DEF Past
      <4>3. Cardinality(Past \union page)
              = Cardinality(Past) + Cardinality(page) - Cardinality({})
        BY <3>2, <4>1, <4>2, FS_Union
      <4>4. Cardinality(Past \union page) <= Cardinality(Past')
        BY <4>1, <4>2, FS_Subset
      <4>5. sampler.rows <= Cardinality(Past) /\ sampler.rows \in Nat /\ Cardinality(page) = Page
        BY <1>a, <1>b, <2>1, <3>4 DEF SamplerInv, SamplerRow
      <4>6. Cardinality({}) = 0
        BY FS_EmptySet
      <4> QED
        BY <1>a, <3>2, <4>2, <4>3, <4>4, <4>5, <4>6
    <3> QED
      BY <3>3, <3>4
  <2>7. sampler'.rows <= IF sampler'.cursor = 0 THEN 0 ELSE Cardinality(Past')
    BY <2>2, <2>3, <2>5
  <2>8. ~(truth'.busy <= Page)
    BY <1>a, <1>b, <2>4
  <2> QED
    BY <1>a, <1>b, <2>2, <2>7, <2>8 DEF SamplerInv
<1>2. CASE SampleFirst
  <2>1. sampler'.cursor = 0 /\ sampler'.rows = 0 /\ sampler'.peak = sampler.peak
        /\ sampler'.first = sampler.rows + Cardinality(Listed("provisioning"))
    BY <1>2, <1>b DEF SampleFirst, SamplerRow
  <2>2. sampler'.first <= Most
    BY <1>a, <2>1, ListedCount DEF Active
  <2> QED
    BY <1>a, <1>b, <2>1, <2>2 DEF SamplerInv
<1>3. ASSUME NEW peak, sampler' = NextSample(peak), peak <= 2 * Most PROVE SamplerInv'
  <2>1. sampler'.cursor = 0 /\ sampler'.rows = 0 /\ sampler'.first = 0 /\ sampler'.peak = peak
    BY <1>3 DEF NextSample
  <2> QED
    BY <1>3, <1>b, <2>1 DEF SamplerInv
<1>4. CASE SampleSecond
  <2> DEFINE active == sampler.first + sampler.rows + Cardinality(Listed("running"))
  <2>1. sampler' = NextSample(Peak(sampler.peak, active))
    BY <1>4 DEF SampleSecond
  <2>2. /\ sampler.first <= Most /\ sampler.first \in Nat /\ sampler.rows \in Nat
        /\ sampler.peak <= 2 * Most
    BY <1>a, <1>b DEF SamplerInv, SamplerRow
  <2>3. Cardinality(Listed("running")) \in Nat /\ sampler.rows + Cardinality(Listed("running")) <= Most
    BY <1>a, ListedCount DEF Active
  <2>4. active <= 2 * Most
    BY <1>b, <2>2, <2>3
  <2> HIDE DEF active
  <2>5. Peak(sampler.peak, active) <= 2 * Most
    BY <2>2, <2>4 DEF Peak
  <2> QED
    BY <1>3, <2>1, <2>5
<1>5. CASE SampleFails
  BY <1>3, <1>5, <1>a DEF SampleFails, SamplerInv
<1> QED
  BY <1>1, <1>2, <1>4, <1>5 DEF Sample

\* Nothing else moves a job in the house, or the sampler.
LEMMA SamplerStep == LInv /\ Shape' /\ [LNext]_lvars => SamplerInv'
<1> SUFFICES ASSUME LInv, Shape', [LNext]_lvars PROVE SamplerInv'
  OBVIOUS
<1> USE DEF house_vars, drive_vars, stub_vars
<1>a. Shape /\ SamplerInv
  BY DEF LInv
<1>1. ASSUME UNCHANGED <<house, born, sampler>>, truth'.busy = truth.busy PROVE SamplerInv'
  BY <1>1, <1>a DEF SamplerInv, Past, Most
<1>2. CASE UNCHANGED lvars
  BY <1>1, <1>2 DEF lvars
<1>3. ASSUME NEW j \in Job, House(j) PROVE SamplerInv'
  BY <1>3, HousePeak
<1>4. ASSUME NEW j \in Job, RunJob(j) \/ ThreadCrashes(j) PROVE SamplerInv'
  BY <1>1, <1>4 DEF RunJob, Post, PostAnswered, PostLost, PollEnded, PollTimesOut, ThreadCrashes
<1>5. CASE Stub
  <2>1. UNCHANGED <<house, born, sampler>> /\ truth'.busy = truth.busy
    BY <1>5, <1>a DEF Stub, ResetStats, StubEnters, StubSends, StubLeaves, Shape
  <2> QED
    BY <1>1, <2>1
<1>6. CASE Sample
  BY <1>6, SamplePeak
<1>7. CASE Report
  BY <1>1, <1>7 DEF Report
<1> QED
  BY <1>2, <1>3, <1>4, <1>5, <1>6, <1>7 DEF LNext

\* The invariant holds of every behaviour; fairness is not needed for it.
LEMMA LInvariance == LSpec => []LInv
<1>1. LInv /\ [LNext]_lvars => LInv'
  BY ShapeStep, DriverStep, StubStep, SamplerStep DEF LInv
<1> QED
  BY InitLInv, <1>1, PTL DEF LSpec

-----------------------------------------------------------------------------
(* Theorems *)

\* Every variable stays in its domain; what the sampler counts is at most the number
\* of jobs for each status, and twice that for its peak.
THEOREM LoadTestTypes == LSpec => []LTypeOK
<1>1. LInv => LTypeOK
  <2> SUFFICES ASSUME LInv PROVE LTypeOK
    OBVIOUS
  <2>1. Shape /\ sampler \in SamplerRow /\ Cardinality(Job) \in Nat /\ truth.busy \in Nat
        /\ truth.busy <= Cardinality(Job)
    BY JobsCount DEF LInv, Shape, SamplerInv
  <2>2. sampler.rows \in 0..Cardinality(Job)
    BY <2>1, JobsCount DEF LInv, SamplerInv, SamplerRow, Past
  <2>3. Most \in Nat /\ Most <= Cardinality(Job)
    BY <2>1 DEF Most
  <2>4. sampler.first \in 0..Cardinality(Job) /\ sampler.peak \in 0..(2 * Cardinality(Job))
    BY <2>1, <2>3 DEF LInv, SamplerInv, SamplerRow
  <2>5. sampler \in [at : Active, cursor : 0..Cardinality(Job), rows : 0..Cardinality(Job),
                     first : 0..Cardinality(Job), peak : 0..(2 * Cardinality(Job)), taken : 0..Samples]
    BY <2>1, <2>2, <2>4 DEF SamplerRow
  <2> QED
    BY <2>1, <2>5 DEF Shape, StatsRow, LTypeOK
<1> QED
  BY <1>1, LInvariance, PTL

\* The driver's report is true of the house, and its exit code 0 of every job.
THEOREM ReportIsTrue == LSpec => []ReportTrue
<1>1. LInv => ReportTrue
  BY DEF LInv, DriverInv, ReportTrue, Final
<1> QED
  BY <1>1, LInvariance, PTL

\* The stub's counters and the sampler's peak are right within what FiguresRight says.
THEOREM FiguresAreRight == LSpec => []FiguresRight
<1>1. LInv => FiguresRight
  BY DEF LInv, StubInv, SamplerInv, Most, FiguresRight
<1> QED
  BY <1>1, LInvariance, PTL

=============================================================================
