------------------------- MODULE PreparedBaseProofs -------------------------
(***************************************************************************)
(* The prepared base: what a publication leaves behind is whole or in the  *)
(* journal, the builder of a build that ended is cleared away before the   *)
(* next one is made, and a verified base stays, for any number of builds,  *)
(* runs and inputs, wherever a step fails or a process is killed.          *)
(***************************************************************************)
EXTENDS PreparedBase, TLAPS

\* The steps at which nothing is under publication: recovery is done, and the
\* journal is not written yet.
Unpublished == {"old_candidate", "old_domain", "old_volume", "create_volume", "create_domain",
                "guest", "poweroff", "download", "convert", "exported", "end_domain",
                "end_volume", "journal"}

\* What a build may rely on at each of its steps.
BuildAt(p) ==
  /\ pc[p] \notin {"preflight", "using"}
  /\ pc[p] # "idle" => fp[p] \in Tree
  /\ pc[p] \in {"recover_volume", "recover_host", "recover_pending"} => pending \in Tree
  /\ pc[p] \in {"recover_host", "recover_pending"} => volume[pending] = "none"
  /\ pc[p] = "recover_pending" => pending \notin host
  /\ pc[p] \in Unpublished => pending = None
  /\ pc[p] \in {"old_domain", "old_volume", "create_volume", "create_domain", "guest",
                "poweroff", "download", "convert"} => fp[p] \notin candidate
  /\ pc[p] \in {"old_volume", "create_volume", "create_domain", "end_volume"}
       => fp[p] \notin domain
  /\ pc[p] = "create_volume" => fp[p] \notin staging
  /\ pc[p] = "create_domain" => fp[p] \in staging
  /\ pc[p] \in {"rename", "create", "upload", "point", "verify", "commit"} => pending = fp[p]
  /\ pc[p] \in {"create", "upload", "point", "verify", "commit"} => fp[p] \in host
  /\ pc[p] \in {"point", "verify", "commit"} => volume[fp[p]] = "copy"
  /\ pc[p] \in {"verify", "commit"} => pointer = fp[p]
  /\ pc[p] \in {"drop_candidate", "release"} /\ p \notin hurt
       => pointer \in Tree /\ Whole(pointer)

\* What a run of the harness may rely on.
RunAt(r) ==
  /\ pc[r] \in {"idle", "preflight", "using", "release"}
  /\ pc[r] = "using" => fp[r] \in Tree /\ pointer = fp[r] /\ Whole(fp[r])

BInv ==
  /\ PTypeOK /\ PartialIsJournaled /\ domain \subseteq staging
  /\ \A p \in Preparer : BuildAt(p)
  /\ \A r \in Runner : RunAt(r)

-----------------------------------------------------------------------------
(* Types *)

\* Nothing has happened to the base yet: every conjunct of BInv holds.
LEMMA InitBInv == PInit => BInv
<1> SUFFICES ASSUME PInit PROVE BInv
  OBVIOUS
<1> USE PreparedAssumption DEF PreparedAssumption, PInit
<1>1. PTypeOK
  BY DEF PTypeOK, Process, VolumeState, Held
<1>2. PartialIsJournaled /\ domain \subseteq staging
  BY DEF PartialIsJournaled, Whole
<1>3. ASSUME NEW p \in Preparer PROVE BuildAt(p)
  BY DEF BuildAt, Process, Unpublished
<1>4. ASSUME NEW r \in Runner PROVE RunAt(r)
  BY DEF RunAt, Process
<1> QED
  BY <1>1, <1>2, <1>3, <1>4 DEF BInv

\* Each action keeps every variable in its domain, and the lock with the one
\* process that is at a step which needs it.  (A build names what it makes by its
\* fingerprint, so that it has one is a part of the hypothesis.)
LEMMA PTypeOKStep == BInv /\ [PNext]_pvars => PTypeOK'
<1> SUFFICES ASSUME BInv, [PNext]_pvars PROVE PTypeOK'
  OBVIOUS
<1>a. PTypeOK
  BY DEF BInv
<1>b. \A p \in Preparer : pc[p] # "idle" => fp[p] \in Tree
  BY DEF BInv, BuildAt
<1> USE PreparedAssumption DEF PreparedAssumption, PTypeOK, Process, At, Goto, disk, Held
<1>1. CASE UNCHANGED pvars
  BY <1>1, <1>a DEF pvars
<1>2. CASE Edit
  BY <1>2, <1>a DEF Edit
<1>3. ASSUME NEW p \in Process, Crash(p) PROVE PTypeOK'
  BY <1>3, <1>a DEF Crash
<1>4. ASSUME NEW p \in Preparer, Start(p) PROVE PTypeOK'
  BY <1>4, <1>a DEF Start
<1>5. ASSUME NEW p \in Preparer, AcquireLock(p) PROVE PTypeOK'
  BY <1>5, <1>a DEF AcquireLock
<1>6. ASSUME NEW p \in Preparer, CurrentIsValid(p) PROVE PTypeOK'
  BY <1>6, <1>a DEF CurrentIsValid
<1>7. ASSUME NEW p \in Preparer, CurrentIsStale(p) PROVE PTypeOK'
  BY <1>7, <1>a DEF CurrentIsStale
<1>8. ASSUME NEW p \in Preparer, CurrentIsBroken(p) PROVE PTypeOK'
  BY <1>8, <1>a DEF CurrentIsBroken
<1>9. ASSUME NEW p \in Preparer, ValidateSource(p) PROVE PTypeOK'
  BY <1>9, <1>a DEF ValidateSource
<1>10. ASSUME NEW p \in Preparer, RecoverVolume(p) PROVE PTypeOK'
  BY <1>10, <1>a DEF RecoverVolume, VolumeState
<1>11. ASSUME NEW p \in Preparer, RecoverHost(p) PROVE PTypeOK'
  BY <1>11, <1>a DEF RecoverHost
<1>12. ASSUME NEW p \in Preparer, RecoverPending(p) PROVE PTypeOK'
  BY <1>12, <1>a DEF RecoverPending
<1>13. ASSUME NEW p \in Preparer, CleanupOldCandidate(p) PROVE PTypeOK'
  BY <1>13, <1>a DEF CleanupOldCandidate
<1>14. ASSUME NEW p \in Preparer, CleanupOwnedStaging(p) PROVE PTypeOK'
  BY <1>14, <1>a DEF CleanupOwnedStaging, UndefineDomain, DeleteVolume
<1>15. ASSUME NEW p \in Preparer, CreateVolume(p) PROVE PTypeOK'
  BY <1>15, <1>a, <1>b DEF CreateVolume
<1>16. ASSUME NEW p \in Preparer, CreateDomain(p) PROVE PTypeOK'
  BY <1>16, <1>a, <1>b DEF CreateDomain
<1>17. ASSUME NEW p \in Preparer, InstallGuest(p) PROVE PTypeOK'
  BY <1>17, <1>a DEF InstallGuest, GuestStep
<1>18. ASSUME NEW p \in Preparer, Poweroff(p) PROVE PTypeOK'
  BY <1>18, <1>a DEF Poweroff, GuestStep
<1>19. ASSUME NEW p \in Preparer, DownloadOverlay(p) PROVE PTypeOK'
  BY <1>19, <1>a DEF DownloadOverlay
<1>20. ASSUME NEW p \in Preparer, ConvertCandidate(p) PROVE PTypeOK'
  BY <1>20, <1>a, <1>b DEF ConvertCandidate
<1>21. ASSUME NEW p \in Preparer, CandidateChecked(p) PROVE PTypeOK'
  BY <1>21, <1>a DEF CandidateChecked
<1>22. ASSUME NEW p \in Preparer, WriteJournal(p) PROVE PTypeOK'
  BY <1>22, <1>a DEF WriteJournal
<1>23. ASSUME NEW p \in Preparer, RenameCandidate(p) PROVE PTypeOK'
  BY <1>23, <1>a DEF RenameCandidate, VolumeState
<1>24. ASSUME NEW p \in Preparer, CreateFinalVolume(p) PROVE PTypeOK'
  BY <1>24, <1>a DEF CreateFinalVolume, VolumeState
<1>25. ASSUME NEW p \in Preparer, Upload(p) PROVE PTypeOK'
  BY <1>25, <1>a DEF Upload, VolumeState
<1>26. ASSUME NEW p \in Preparer, WritePointer(p) PROVE PTypeOK'
  BY <1>26, <1>a DEF WritePointer
<1>27. ASSUME NEW p \in Preparer, VerifyPublished(p) PROVE PTypeOK'
  BY <1>27, <1>a DEF VerifyPublished
<1>28. ASSUME NEW p \in Preparer, CommitPublication(p) PROVE PTypeOK'
  BY <1>28, <1>a DEF CommitPublication
<1>29. ASSUME NEW p \in Preparer, Raise(p) PROVE PTypeOK'
  BY <1>29, <1>a DEF Raise, InnerTry, OuterTry
<1>30. ASSUME NEW p \in Preparer, DropCandidate(p) PROVE PTypeOK'
  BY <1>30, <1>a DEF DropCandidate
<1>31. ASSUME NEW p \in Preparer, RaiseInFinally(p) PROVE PTypeOK'
  BY <1>31, <1>a DEF RaiseInFinally
<1>32. ASSUME NEW p \in Process, ReleaseLock(p) PROVE PTypeOK'
  BY <1>32, <1>a DEF ReleaseLock
<1>33. ASSUME NEW r \in Runner, RunnerLocks(r) PROVE PTypeOK'
  BY <1>33, <1>a DEF RunnerLocks
<1>34. ASSUME NEW r \in Runner, RunnerVerifies(r) PROVE PTypeOK'
  BY <1>34, <1>a DEF RunnerVerifies
<1>35. ASSUME NEW r \in Runner, RunnerBlocked(r) PROVE PTypeOK'
  BY <1>35, <1>a DEF RunnerBlocked
<1>36. ASSUME NEW r \in Runner, RunnerEnds(r) PROVE PTypeOK'
  BY <1>36, <1>a DEF RunnerEnds
<1>37. ASSUME NEW f \in Tree, VmTurns(f) PROVE PTypeOK'
  BY <1>37, <1>a DEF VmTurns
<1> HIDE DEF PTypeOK, At, Goto, disk, Held
<1> QED
  BY <1>1, <1>2, <1>3, <1>4, <1>5, <1>6, <1>7, <1>8, <1>9, <1>10, <1>11, <1>12, <1>13,
     <1>14, <1>15, <1>16, <1>17, <1>18, <1>19, <1>20, <1>21, <1>22, <1>23, <1>24, <1>25,
     <1>26, <1>27, <1>28, <1>29, <1>30, <1>31, <1>32, <1>33, <1>34, <1>35, <1>36, <1>37
     DEF PNext, Build, Recover, BuildGuest, Publish, UseBase

-----------------------------------------------------------------------------
(* The lock keeps all but one process away from the disk. *)

\* While one process holds the lock and steps, every other build is idle or waits
\* and every other run is idle: what those rely on is not disturbed.
LEMMA Aside ==
  ASSUME BInv, NEW p \in Process, lock = p,
         \A q \in Process \ {p} : pc'[q] = pc[q] /\ fp'[q] = fp[q]
  PROVE  /\ \A q \in Preparer \ {p} : BuildAt(q)'
         /\ \A r \in Runner \ {p} : RunAt(r)'
<1>1. ASSUME NEW q \in Process \ {p} PROVE pc[q] \in {"idle", "wait"}
  BY DEF BInv, PTypeOK
<1>2. ASSUME NEW q \in Preparer \ {p} PROVE BuildAt(q)'
  <2>1. pc'[q] \in {"idle", "wait"} /\ pc'[q] = pc[q] /\ fp'[q] = fp[q]
    BY <1>1 DEF Process
  <2>2. BuildAt(q)
    BY DEF BInv
  <2> QED
    BY <2>1, <2>2 DEF BuildAt, Unpublished
<1>3. ASSUME NEW r \in Runner \ {p} PROVE RunAt(r)'
  <2>1. pc'[r] \in {"idle", "wait"} /\ pc'[r] = pc[r] /\ fp'[r] = fp[r]
    BY <1>1 DEF Process
  <2>2. RunAt(r)
    BY DEF BInv
  <2> QED
    BY <2>1, <2>2 DEF RunAt
<1> QED
  BY <1>2, <1>3

\* A step of a build that holds the lock need only keep the base and its own word.
LEMMA HolderOnly ==
  ASSUME BInv, NEW p \in Preparer, lock = p,
         \A q \in Process \ {p} : pc'[q] = pc[q] /\ fp'[q] = fp[q],
         PTypeOK', PartialIsJournaled', (domain \subseteq staging)', BuildAt(p)'
  PROVE  BInv'
<1>1. \A q \in Preparer \ {p} : BuildAt(q)'
  BY Aside DEF Process
<1>2. \A r \in Runner : RunAt(r)'
  BY Aside, PreparedAssumption DEF PreparedAssumption, Process
<1> QED
  BY <1>1, <1>2 DEF BInv


\* Every step of a build that holds the lock.
LEMMA BuildStep == ASSUME BInv, PTypeOK', NEW p \in Preparer, Build(p) PROVE BInv'
<1> USE PreparedAssumption DEF PreparedAssumption, Process, At, Goto, disk
<1>a. PTypeOK /\ PartialIsJournaled /\ domain \subseteq staging /\ BuildAt(p)
  BY DEF BInv
<1>1. CASE CurrentIsValid(p)
  <2>1. lock = p /\ \A q \in Process \ {p} : pc'[q] = pc[q] /\ fp'[q] = fp[q]
    BY <1>1, <1>a DEF CurrentIsValid, PTypeOK, Held
  <2>2. PartialIsJournaled'
    BY <1>1, <1>a DEF CurrentIsValid, Verified, PartialIsJournaled, Whole, BuildAt,
           Unpublished, PTypeOK
  <2>3. (domain \subseteq staging)'
    BY <1>1, <1>a DEF CurrentIsValid, BuildAt, PTypeOK
  <2>4. BuildAt(p)'
    BY <1>1, <1>a DEF CurrentIsValid, Verified, BuildAt, Unpublished, PTypeOK, Whole,
           PartialIsJournaled
  <2> QED
    BY <2>1, <2>2, <2>3, <2>4, HolderOnly
<1>2. CASE CurrentIsStale(p)
  <2>1. lock = p /\ \A q \in Process \ {p} : pc'[q] = pc[q] /\ fp'[q] = fp[q]
    BY <1>2, <1>a DEF CurrentIsStale, PTypeOK, Held
  <2>2. PartialIsJournaled'
    BY <1>2, <1>a DEF CurrentIsStale, PartialIsJournaled, Whole, BuildAt, Unpublished, PTypeOK
  <2>3. (domain \subseteq staging)'
    BY <1>2, <1>a DEF CurrentIsStale, BuildAt, PTypeOK
  <2>4. BuildAt(p)'
    BY <1>2, <1>a DEF CurrentIsStale, BuildAt, Unpublished, PTypeOK, Whole, PartialIsJournaled
  <2> QED
    BY <2>1, <2>2, <2>3, <2>4, HolderOnly
<1>3. CASE CurrentIsBroken(p)
  <2>1. lock = p /\ \A q \in Process \ {p} : pc'[q] = pc[q] /\ fp'[q] = fp[q]
    BY <1>3, <1>a DEF CurrentIsBroken, PTypeOK, Held
  <2>2. PartialIsJournaled'
    BY <1>3, <1>a DEF CurrentIsBroken, PartialIsJournaled, Whole, BuildAt, Unpublished, PTypeOK
  <2>3. (domain \subseteq staging)'
    BY <1>3, <1>a DEF CurrentIsBroken, BuildAt, PTypeOK
  <2>4. BuildAt(p)'
    BY <1>3, <1>a DEF CurrentIsBroken, BuildAt, Unpublished, PTypeOK, Whole, PartialIsJournaled
  <2> QED
    BY <2>1, <2>2, <2>3, <2>4, HolderOnly
<1>4. CASE ValidateSource(p)
  <2>1. lock = p /\ \A q \in Process \ {p} : pc'[q] = pc[q] /\ fp'[q] = fp[q]
    BY <1>4, <1>a DEF ValidateSource, PTypeOK, Held
  <2>2. PartialIsJournaled'
    BY <1>4, <1>a DEF ValidateSource, PartialIsJournaled, Whole, BuildAt, Unpublished, PTypeOK
  <2>3. (domain \subseteq staging)'
    BY <1>4, <1>a DEF ValidateSource, BuildAt, PTypeOK
  <2>4. BuildAt(p)'
    BY <1>4, <1>a DEF ValidateSource, BuildAt, Unpublished, PTypeOK, Whole, PartialIsJournaled
  <2> QED
    BY <2>1, <2>2, <2>3, <2>4, HolderOnly
<1>5. CASE RecoverVolume(p)
  <2>1. lock = p /\ \A q \in Process \ {p} : pc'[q] = pc[q] /\ fp'[q] = fp[q]
    BY <1>5, <1>a DEF RecoverVolume, PTypeOK, Held
  <2>2. PartialIsJournaled'
    BY <1>5, <1>a DEF RecoverVolume, PartialIsJournaled, Whole, BuildAt, Unpublished, PTypeOK
  <2>3. (domain \subseteq staging)'
    BY <1>5, <1>a DEF RecoverVolume, BuildAt, PTypeOK
  <2>4. BuildAt(p)'
    BY <1>5, <1>a DEF RecoverVolume, BuildAt, Unpublished, PTypeOK, Whole, PartialIsJournaled
  <2> QED
    BY <2>1, <2>2, <2>3, <2>4, HolderOnly
<1>6. CASE RecoverHost(p)
  <2>1. lock = p /\ \A q \in Process \ {p} : pc'[q] = pc[q] /\ fp'[q] = fp[q]
    BY <1>6, <1>a DEF RecoverHost, PTypeOK, Held
  <2>2. PartialIsJournaled'
    BY <1>6, <1>a DEF RecoverHost, PartialIsJournaled, Whole, BuildAt, Unpublished, PTypeOK
  <2>3. (domain \subseteq staging)'
    BY <1>6, <1>a DEF RecoverHost, BuildAt, PTypeOK
  <2>4. BuildAt(p)'
    BY <1>6, <1>a DEF RecoverHost, BuildAt, Unpublished, PTypeOK, Whole, PartialIsJournaled
  <2> QED
    BY <2>1, <2>2, <2>3, <2>4, HolderOnly
<1>7. CASE RecoverPending(p)
  <2>1. lock = p /\ \A q \in Process \ {p} : pc'[q] = pc[q] /\ fp'[q] = fp[q]
    BY <1>7, <1>a DEF RecoverPending, PTypeOK, Held
  <2>2. PartialIsJournaled'
    BY <1>7, <1>a DEF RecoverPending, PartialIsJournaled, Whole, BuildAt, Unpublished, PTypeOK
  <2>3. (domain \subseteq staging)'
    BY <1>7, <1>a DEF RecoverPending, BuildAt, PTypeOK
  <2>4. BuildAt(p)'
    BY <1>7, <1>a DEF RecoverPending, BuildAt, Unpublished, PTypeOK, Whole, PartialIsJournaled
  <2> QED
    BY <2>1, <2>2, <2>3, <2>4, HolderOnly
<1>8. CASE CleanupOldCandidate(p)
  <2>1. lock = p /\ \A q \in Process \ {p} : pc'[q] = pc[q] /\ fp'[q] = fp[q]
    BY <1>8, <1>a DEF CleanupOldCandidate, PTypeOK, Held
  <2>2. PartialIsJournaled'
    BY <1>8, <1>a DEF CleanupOldCandidate, PartialIsJournaled, Whole, BuildAt,
           Unpublished, PTypeOK
  <2>3. (domain \subseteq staging)'
    BY <1>8, <1>a DEF CleanupOldCandidate, BuildAt, PTypeOK
  <2>4. BuildAt(p)'
    BY <1>8, <1>a DEF CleanupOldCandidate, BuildAt, Unpublished, PTypeOK, Whole,
           PartialIsJournaled
  <2> QED
    BY <2>1, <2>2, <2>3, <2>4, HolderOnly
<1>9. CASE CleanupOwnedStaging(p)
  <2>1. lock = p /\ \A q \in Process \ {p} : pc'[q] = pc[q] /\ fp'[q] = fp[q]
    BY <1>9, <1>a DEF CleanupOwnedStaging, UndefineDomain, DeleteVolume, PTypeOK, Held
  <2>2. PartialIsJournaled'
    BY <1>9, <1>a DEF CleanupOwnedStaging, UndefineDomain, DeleteVolume,
           PartialIsJournaled, Whole, BuildAt, Unpublished, PTypeOK
  <2>3. (domain \subseteq staging)'
    BY <1>9, <1>a DEF CleanupOwnedStaging, UndefineDomain, DeleteVolume, BuildAt, PTypeOK
  <2>4. BuildAt(p)'
    BY <1>9, <1>a DEF CleanupOwnedStaging, UndefineDomain, DeleteVolume, BuildAt,
           Unpublished, PTypeOK, Whole, PartialIsJournaled
  <2> QED
    BY <2>1, <2>2, <2>3, <2>4, HolderOnly
<1>10. CASE CreateVolume(p)
  <2>1. lock = p /\ \A q \in Process \ {p} : pc'[q] = pc[q] /\ fp'[q] = fp[q]
    BY <1>10, <1>a DEF CreateVolume, PTypeOK, Held
  <2>2. PartialIsJournaled'
    BY <1>10, <1>a DEF CreateVolume, PartialIsJournaled, Whole, BuildAt, Unpublished, PTypeOK
  <2>3. (domain \subseteq staging)'
    BY <1>10, <1>a DEF CreateVolume, BuildAt, PTypeOK
  <2>4. BuildAt(p)'
    BY <1>10, <1>a DEF CreateVolume, BuildAt, Unpublished, PTypeOK, Whole, PartialIsJournaled
  <2> QED
    BY <2>1, <2>2, <2>3, <2>4, HolderOnly
<1>11. CASE CreateDomain(p)
  <2>1. lock = p /\ \A q \in Process \ {p} : pc'[q] = pc[q] /\ fp'[q] = fp[q]
    BY <1>11, <1>a DEF CreateDomain, PTypeOK, Held
  <2>2. PartialIsJournaled'
    BY <1>11, <1>a DEF CreateDomain, PartialIsJournaled, Whole, BuildAt, Unpublished, PTypeOK
  <2>3. (domain \subseteq staging)'
    BY <1>11, <1>a DEF CreateDomain, BuildAt, PTypeOK
  <2>4. BuildAt(p)'
    BY <1>11, <1>a DEF CreateDomain, BuildAt, Unpublished, PTypeOK, Whole, PartialIsJournaled
  <2> QED
    BY <2>1, <2>2, <2>3, <2>4, HolderOnly
<1>12. CASE InstallGuest(p)
  <2>1. lock = p /\ \A q \in Process \ {p} : pc'[q] = pc[q] /\ fp'[q] = fp[q]
    BY <1>12, <1>a DEF InstallGuest, GuestStep, PTypeOK, Held
  <2>2. PartialIsJournaled'
    BY <1>12, <1>a DEF InstallGuest, GuestStep, PartialIsJournaled, Whole, BuildAt,
           Unpublished, PTypeOK
  <2>3. (domain \subseteq staging)'
    BY <1>12, <1>a DEF InstallGuest, GuestStep, BuildAt, PTypeOK
  <2>4. BuildAt(p)'
    BY <1>12, <1>a DEF InstallGuest, GuestStep, BuildAt, Unpublished, PTypeOK, Whole,
           PartialIsJournaled
  <2> QED
    BY <2>1, <2>2, <2>3, <2>4, HolderOnly
<1>13. CASE Poweroff(p)
  <2>1. lock = p /\ \A q \in Process \ {p} : pc'[q] = pc[q] /\ fp'[q] = fp[q]
    BY <1>13, <1>a DEF Poweroff, GuestStep, PTypeOK, Held
  <2>2. PartialIsJournaled'
    BY <1>13, <1>a DEF Poweroff, GuestStep, PartialIsJournaled, Whole, BuildAt,
           Unpublished, PTypeOK
  <2>3. (domain \subseteq staging)'
    BY <1>13, <1>a DEF Poweroff, GuestStep, BuildAt, PTypeOK
  <2>4. BuildAt(p)'
    BY <1>13, <1>a DEF Poweroff, GuestStep, BuildAt, Unpublished, PTypeOK, Whole,
           PartialIsJournaled
  <2> QED
    BY <2>1, <2>2, <2>3, <2>4, HolderOnly
<1>14. CASE DownloadOverlay(p)
  <2>1. lock = p /\ \A q \in Process \ {p} : pc'[q] = pc[q] /\ fp'[q] = fp[q]
    BY <1>14, <1>a DEF DownloadOverlay, PTypeOK, Held
  <2>2. PartialIsJournaled'
    BY <1>14, <1>a DEF DownloadOverlay, PartialIsJournaled, Whole, BuildAt, Unpublished, PTypeOK
  <2>3. (domain \subseteq staging)'
    BY <1>14, <1>a DEF DownloadOverlay, BuildAt, PTypeOK
  <2>4. BuildAt(p)'
    BY <1>14, <1>a DEF DownloadOverlay, BuildAt, Unpublished, PTypeOK, Whole, PartialIsJournaled
  <2> QED
    BY <2>1, <2>2, <2>3, <2>4, HolderOnly
<1>15. CASE ConvertCandidate(p)
  <2>1. lock = p /\ \A q \in Process \ {p} : pc'[q] = pc[q] /\ fp'[q] = fp[q]
    BY <1>15, <1>a DEF ConvertCandidate, PTypeOK, Held
  <2>2. PartialIsJournaled'
    BY <1>15, <1>a DEF ConvertCandidate, PartialIsJournaled, Whole, BuildAt, Unpublished,
           PTypeOK
  <2>3. (domain \subseteq staging)'
    BY <1>15, <1>a DEF ConvertCandidate, BuildAt, PTypeOK
  <2>4. BuildAt(p)'
    BY <1>15, <1>a DEF ConvertCandidate, BuildAt, Unpublished, PTypeOK, Whole,
           PartialIsJournaled
  <2> QED
    BY <2>1, <2>2, <2>3, <2>4, HolderOnly
<1>16. CASE CandidateChecked(p)
  <2>1. lock = p /\ \A q \in Process \ {p} : pc'[q] = pc[q] /\ fp'[q] = fp[q]
    BY <1>16, <1>a DEF CandidateChecked, PTypeOK, Held
  <2>2. PartialIsJournaled'
    BY <1>16, <1>a DEF CandidateChecked, PartialIsJournaled, Whole, BuildAt, Unpublished,
           PTypeOK
  <2>3. (domain \subseteq staging)'
    BY <1>16, <1>a DEF CandidateChecked, BuildAt, PTypeOK
  <2>4. BuildAt(p)'
    BY <1>16, <1>a DEF CandidateChecked, BuildAt, Unpublished, PTypeOK, Whole,
           PartialIsJournaled
  <2> QED
    BY <2>1, <2>2, <2>3, <2>4, HolderOnly
<1>17. CASE WriteJournal(p)
  <2>1. lock = p /\ \A q \in Process \ {p} : pc'[q] = pc[q] /\ fp'[q] = fp[q]
    BY <1>17, <1>a DEF WriteJournal, PTypeOK, Held
  <2>2. PartialIsJournaled'
    BY <1>17, <1>a DEF WriteJournal, PartialIsJournaled, Whole, BuildAt, Unpublished, PTypeOK
  <2>3. (domain \subseteq staging)'
    BY <1>17, <1>a DEF WriteJournal, BuildAt, PTypeOK
  <2>4. BuildAt(p)'
    BY <1>17, <1>a DEF WriteJournal, BuildAt, Unpublished, PTypeOK, Whole, PartialIsJournaled
  <2> QED
    BY <2>1, <2>2, <2>3, <2>4, HolderOnly
<1>18. CASE RenameCandidate(p)
  <2>1. lock = p /\ \A q \in Process \ {p} : pc'[q] = pc[q] /\ fp'[q] = fp[q]
    BY <1>18, <1>a DEF RenameCandidate, PTypeOK, Held
  <2>2. PartialIsJournaled'
    BY <1>18, <1>a DEF RenameCandidate, PartialIsJournaled, Whole, BuildAt, Unpublished, PTypeOK
  <2>3. (domain \subseteq staging)'
    BY <1>18, <1>a DEF RenameCandidate, BuildAt, PTypeOK
  <2>4. BuildAt(p)'
    BY <1>18, <1>a DEF RenameCandidate, BuildAt, Unpublished, PTypeOK, Whole, PartialIsJournaled
  <2> QED
    BY <2>1, <2>2, <2>3, <2>4, HolderOnly
<1>19. CASE CreateFinalVolume(p)
  <2>1. lock = p /\ \A q \in Process \ {p} : pc'[q] = pc[q] /\ fp'[q] = fp[q]
    BY <1>19, <1>a DEF CreateFinalVolume, PTypeOK, Held
  <2>2. PartialIsJournaled'
    BY <1>19, <1>a DEF CreateFinalVolume, PartialIsJournaled, Whole, BuildAt,
           Unpublished, PTypeOK
  <2>3. (domain \subseteq staging)'
    BY <1>19, <1>a DEF CreateFinalVolume, BuildAt, PTypeOK
  <2>4. BuildAt(p)'
    BY <1>19, <1>a DEF CreateFinalVolume, BuildAt, Unpublished, PTypeOK, Whole,
           PartialIsJournaled
  <2> QED
    BY <2>1, <2>2, <2>3, <2>4, HolderOnly
<1>20. CASE Upload(p)
  <2>1. lock = p /\ \A q \in Process \ {p} : pc'[q] = pc[q] /\ fp'[q] = fp[q]
    BY <1>20, <1>a DEF Upload, PTypeOK, Held
  <2>2. PartialIsJournaled'
    BY <1>20, <1>a DEF Upload, PartialIsJournaled, Whole, BuildAt, Unpublished, PTypeOK
  <2>3. (domain \subseteq staging)'
    BY <1>20, <1>a DEF Upload, BuildAt, PTypeOK
  <2>4. BuildAt(p)'
    BY <1>20, <1>a DEF Upload, BuildAt, Unpublished, PTypeOK, Whole, PartialIsJournaled
  <2> QED
    BY <2>1, <2>2, <2>3, <2>4, HolderOnly
<1>21. CASE WritePointer(p)
  <2>1. lock = p /\ \A q \in Process \ {p} : pc'[q] = pc[q] /\ fp'[q] = fp[q]
    BY <1>21, <1>a DEF WritePointer, PTypeOK, Held
  <2>2. PartialIsJournaled'
    BY <1>21, <1>a DEF WritePointer, PartialIsJournaled, Whole, BuildAt, Unpublished, PTypeOK
  <2>3. (domain \subseteq staging)'
    BY <1>21, <1>a DEF WritePointer, BuildAt, PTypeOK
  <2>4. BuildAt(p)'
    BY <1>21, <1>a DEF WritePointer, BuildAt, Unpublished, PTypeOK, Whole, PartialIsJournaled
  <2> QED
    BY <2>1, <2>2, <2>3, <2>4, HolderOnly
<1>22. CASE VerifyPublished(p)
  <2>1. lock = p /\ \A q \in Process \ {p} : pc'[q] = pc[q] /\ fp'[q] = fp[q]
    BY <1>22, <1>a DEF VerifyPublished, PTypeOK, Held
  <2>2. PartialIsJournaled'
    BY <1>22, <1>a DEF VerifyPublished, Verified, PartialIsJournaled, Whole, BuildAt,
           Unpublished, PTypeOK
  <2>3. (domain \subseteq staging)'
    BY <1>22, <1>a DEF VerifyPublished, BuildAt, PTypeOK
  <2>4. BuildAt(p)'
    BY <1>22, <1>a DEF VerifyPublished, Verified, BuildAt, Unpublished, PTypeOK, Whole,
           PartialIsJournaled
  <2> QED
    BY <2>1, <2>2, <2>3, <2>4, HolderOnly
<1>23. CASE CommitPublication(p)
  <2>1. lock = p /\ \A q \in Process \ {p} : pc'[q] = pc[q] /\ fp'[q] = fp[q]
    BY <1>23, <1>a DEF CommitPublication, PTypeOK, Held
  <2>2. PartialIsJournaled'
    BY <1>23, <1>a DEF CommitPublication, PartialIsJournaled, Whole, BuildAt,
           Unpublished, PTypeOK
  <2>3. (domain \subseteq staging)'
    BY <1>23, <1>a DEF CommitPublication, BuildAt, PTypeOK
  <2>4. BuildAt(p)'
    BY <1>23, <1>a DEF CommitPublication, BuildAt, Unpublished, PTypeOK, Whole,
           PartialIsJournaled
  <2> QED
    BY <2>1, <2>2, <2>3, <2>4, HolderOnly
<1>24. CASE Raise(p)
  <2>1. lock = p /\ \A q \in Process \ {p} : pc'[q] = pc[q] /\ fp'[q] = fp[q]
    BY <1>24, <1>a DEF Raise, InnerTry, OuterTry, PTypeOK, Held
  <2>2. PartialIsJournaled'
    BY <1>24, <1>a DEF Raise, InnerTry, OuterTry, PartialIsJournaled, Whole, BuildAt,
           Unpublished, PTypeOK
  <2>3. (domain \subseteq staging)'
    BY <1>24, <1>a DEF Raise, InnerTry, OuterTry, BuildAt, PTypeOK
  <2>4. BuildAt(p)'
    BY <1>24, <1>a DEF Raise, InnerTry, OuterTry, BuildAt, Unpublished, PTypeOK, Whole,
           PartialIsJournaled
  <2> QED
    BY <2>1, <2>2, <2>3, <2>4, HolderOnly
<1>25. CASE DropCandidate(p)
  <2>1. lock = p /\ \A q \in Process \ {p} : pc'[q] = pc[q] /\ fp'[q] = fp[q]
    BY <1>25, <1>a DEF DropCandidate, PTypeOK, Held
  <2>2. PartialIsJournaled'
    BY <1>25, <1>a DEF DropCandidate, PartialIsJournaled, Whole, BuildAt, Unpublished, PTypeOK
  <2>3. (domain \subseteq staging)'
    BY <1>25, <1>a DEF DropCandidate, BuildAt, PTypeOK
  <2>4. BuildAt(p)'
    BY <1>25, <1>a DEF DropCandidate, BuildAt, Unpublished, PTypeOK, Whole, PartialIsJournaled
  <2> QED
    BY <2>1, <2>2, <2>3, <2>4, HolderOnly
<1>26. CASE RaiseInFinally(p)
  <2>1. lock = p /\ \A q \in Process \ {p} : pc'[q] = pc[q] /\ fp'[q] = fp[q]
    BY <1>26, <1>a DEF RaiseInFinally, PTypeOK, Held
  <2>2. PartialIsJournaled'
    BY <1>26, <1>a DEF RaiseInFinally, PartialIsJournaled, Whole, BuildAt, Unpublished, PTypeOK
  <2>3. (domain \subseteq staging)'
    BY <1>26, <1>a DEF RaiseInFinally, BuildAt, PTypeOK
  <2>4. BuildAt(p)'
    BY <1>26, <1>a DEF RaiseInFinally, BuildAt, Unpublished, PTypeOK, Whole, PartialIsJournaled
  <2> QED
    BY <2>1, <2>2, <2>3, <2>4, HolderOnly
<1>27. CASE ReleaseLock(p)
  <2>1. lock = p /\ \A q \in Process \ {p} : pc'[q] = pc[q] /\ fp'[q] = fp[q]
    BY <1>27, <1>a DEF ReleaseLock, PTypeOK, Held
  <2>2. PartialIsJournaled'
    BY <1>27, <1>a DEF ReleaseLock, PartialIsJournaled, Whole, BuildAt, Unpublished, PTypeOK
  <2>3. (domain \subseteq staging)'
    BY <1>27, <1>a DEF ReleaseLock, BuildAt, PTypeOK
  <2>4. BuildAt(p)'
    BY <1>27, <1>a DEF ReleaseLock, BuildAt, Unpublished, PTypeOK, Whole, PartialIsJournaled
  <2> QED
    BY <2>1, <2>2, <2>3, <2>4, HolderOnly
<1> HIDE DEF At, Goto, disk, Process
<1> QED
  BY <1>1, <1>2, <1>3, <1>4, <1>5, <1>6, <1>7, <1>8, <1>9, <1>10, <1>11, <1>12, <1>13,
     <1>14, <1>15, <1>16, <1>17, <1>18, <1>19, <1>20, <1>21, <1>22, <1>23, <1>24, <1>25,
     <1>26, <1>27 DEF Build, Recover, BuildGuest, Publish

\* Every step of a run that holds the lock: it changes nothing of the base.
LEMMA UseStep == ASSUME BInv, PTypeOK', NEW r \in Runner, UseBase(r) PROVE BInv'
<1> USE PreparedAssumption DEF PreparedAssumption, Process, At, Goto, disk,
        UseBase, RunnerVerifies, RunnerBlocked, RunnerEnds, ReleaseLock
<1>1. lock = r /\ \A q \in Process \ {r} : pc'[q] = pc[q] /\ fp'[q] = fp[q]
  BY DEF BInv, PTypeOK, Held
<1>2. UNCHANGED disk
  OBVIOUS
<1>3. PartialIsJournaled' /\ (domain \subseteq staging)'
  BY <1>2 DEF BInv, PartialIsJournaled, Whole
<1>4. RunAt(r)'
  BY <1>2 DEF BInv, RunAt, PTypeOK, Verified, Whole
<1>5. /\ \A q \in Preparer \ {r} : BuildAt(q)'
      /\ \A s \in Runner \ {r} : RunAt(s)'
  BY <1>1, Aside
<1> QED
  BY <1>3, <1>4, <1>5 DEF BInv

\* Steps taken without the lock, and the step that takes it: nothing of the base
\* changes, and no other process moves.
LEMMA OutsideStep ==
  ASSUME BInv, PTypeOK', UNCHANGED disk, NEW p \in Process,
         \A q \in Process \ {p} : pc'[q] = pc[q] /\ fp'[q] = fp[q] /\ (q \in hurt' <=> q \in hurt),
         p \in Preparer => BuildAt(p)', p \in Runner => RunAt(p)'
  PROVE  BInv'
<1>1. PartialIsJournaled' /\ (domain \subseteq staging)'
  BY DEF BInv, disk, PartialIsJournaled, Whole
<1>2. ASSUME NEW q \in Preparer, q # p PROVE BuildAt(q)'
  BY <1>2 DEF BInv, BuildAt, disk, Whole, Process
<1>3. ASSUME NEW q \in Runner, q # p PROVE RunAt(q)'
  BY <1>3 DEF BInv, RunAt, disk, Whole, Process
<1> QED
  BY <1>1, <1>2, <1>3 DEF BInv

\* Every step keeps the invariant.
LEMMA NextBInv == BInv /\ [PNext]_pvars => BInv'
<1> SUFFICES ASSUME BInv, [PNext]_pvars PROVE BInv'
  OBVIOUS
<1>a. PTypeOK /\ PTypeOK'
  BY PTypeOKStep DEF BInv
<1>1. CASE UNCHANGED pvars
  BY <1>1 DEF pvars, disk, BInv, PTypeOK, PartialIsJournaled, Whole, BuildAt, RunAt
<1>2. CASE Edit
  BY <1>2, <1>a DEF Edit, disk, BInv, PartialIsJournaled, Whole, BuildAt, RunAt
<1>3. ASSUME NEW p \in Process, Crash(p) PROVE BInv'
  <2>1. pc'[p] = "idle" /\ UNCHANGED disk
    BY <1>3, <1>a DEF Crash, Goto, PTypeOK
  <2>2. \A q \in Process \ {p} : pc'[q] = pc[q] /\ fp'[q] = fp[q] /\ (q \in hurt' <=> q \in hurt)
    BY <1>3, <1>a DEF Crash, Goto, PTypeOK
  <2>3. BuildAt(p)' /\ RunAt(p)'
    BY <2>1 DEF BuildAt, RunAt, Unpublished
  <2> QED
    BY <2>1, <2>2, <2>3, <1>a, OutsideStep
<1>4. ASSUME NEW p \in Preparer, Start(p) \/ AcquireLock(p) PROVE BInv'
  <2>1. UNCHANGED disk /\ pc'[p] \in {"wait", "check"} /\ fp'[p] \in Tree
    <3>1. BuildAt(p)
      BY DEF BInv
    <3> QED
      BY <1>4, <1>a, <3>1 DEF Start, AcquireLock, Goto, At, PTypeOK, Process, BuildAt
  <2>2. \A q \in Process \ {p} : pc'[q] = pc[q] /\ fp'[q] = fp[q] /\ (q \in hurt' <=> q \in hurt)
    BY <1>4, <1>a DEF Start, AcquireLock, Goto, PTypeOK
  <2>3. BuildAt(p)'
    BY <2>1 DEF BuildAt, Unpublished
  <2> QED
    BY <2>1, <2>2, <2>3, <1>a, OutsideStep, PreparedAssumption DEF PreparedAssumption, Process
<1>5. ASSUME NEW p \in Preparer, Build(p) PROVE BInv'
  BY <1>5, <1>a, BuildStep
<1>6. ASSUME NEW r \in Runner, RunnerLocks(r) PROVE BInv'
  <2>1. UNCHANGED disk /\ pc'[r] = "preflight"
    BY <1>6, <1>a DEF RunnerLocks, Goto, PTypeOK, Process
  <2>2. \A q \in Process \ {r} : pc'[q] = pc[q] /\ fp'[q] = fp[q] /\ (q \in hurt' <=> q \in hurt)
    BY <1>6, <1>a DEF RunnerLocks, Goto, PTypeOK
  <2>3. RunAt(r)'
    BY <2>1 DEF RunAt
  <2> QED
    BY <2>1, <2>2, <2>3, <1>a, OutsideStep, PreparedAssumption DEF PreparedAssumption, Process
<1>7. ASSUME NEW r \in Runner, UseBase(r) PROVE BInv'
  BY <1>7, <1>a, UseStep
<1>8. ASSUME NEW f \in Tree, VmTurns(f) PROVE BInv'
  BY <1>8, <1>a DEF VmTurns, disk, BInv, PartialIsJournaled, Whole, BuildAt, RunAt
<1> QED
  BY <1>1, <1>2, <1>3, <1>4, <1>5, <1>6, <1>7, <1>8 DEF PNext

\* The invariant holds of every behaviour; fairness is not needed for it.
LEMMA BInvariance == PSpec => []BInv
BY InitBInv, NextBInv, PTL DEF PSpec

-----------------------------------------------------------------------------
(* Theorems *)

\* Every variable stays in its domain, and the processes at a step that needs the
\* lock are exactly its holder.
THEOREM PreparedTypes == PSpec => []PTypeOK
<1>1. BInv => PTypeOK
  BY DEF BInv
<1> QED
  BY <1>1, BInvariance, PTL

\* Whatever a publication has made is whole or in the journal, wherever the
\* publication, or the recovery of an earlier one, raises or is killed.
THEOREM PartialStaysJournaled == PSpec => []PartialIsJournaled
<1>1. BInv => PartialIsJournaled
  BY DEF BInv
<1> QED
  BY <1>1, BInvariance, PTL

\* What a failed or killed build has left of its builder is not there when the next one
\* makes its own, and a builder VM always has its volume, which its removal asks for.
THEOREM LeftoversAreCleared == PSpec => []LeftoversYield
<1>1. BInv => LeftoversYield
  BY DEF BInv, BuildAt, LeftoversYield, At
<1> QED
  BY <1>1, BInvariance, PTL

\* A build that ends with success has published a whole base, and a base in use
\* stays whole and published until the run has let go of it.
THEOREM PublishedStaysWhole == PSpec => []PublishedIsWhole
<1>1. BInv => PublishedIsWhole
  BY DEF BInv, BuildAt, RunAt, PublishedIsWhole, At
<1> QED
  BY <1>1, BInvariance, PTL

=============================================================================
