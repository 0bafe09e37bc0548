---------------------------- MODULE PreparedBase ----------------------------
(***************************************************************************)
(* The prepared base of the VM harness: vm/prepare.py builds a disk image  *)
(* in a builder VM and publishes it as a host file and a libvirt volume,   *)
(* both named by the fingerprint of the inputs, and as a pointer file;     *)
(* vm/e2e.py verifies the pointer and puts its VMs on that volume.         *)
(*                                                                         *)
(* Everything a build makes is named by the fingerprint it computed when   *)
(* it started.  The inputs may be edited, a build may fail at any step and *)
(* may be killed at any step; the journal is what the next one recovers    *)
(* from.  One file lock covers builds and runs.                            *)
(***************************************************************************)
EXTENDS FiniteSets

CONSTANTS
  Tree,      \* fingerprints of the preparation inputs
  Preparer,  \* prepare.py processes
  Runner,    \* e2e.py processes
  None

ASSUME PreparedAssumption ==
  /\ None \notin Tree \union Preparer \union Runner
  /\ Preparer \intersect Runner = {}

VARIABLES
  tree,       \* the fingerprint the inputs have now
  lock,       \* who holds the lock file
  pointer,    \* the fingerprint prepared.pointer names
  pending,    \* the fingerprint the publication journal names
  host,       \* fingerprints with a host image
  volume,     \* the final volume of each fingerprint, and its bytes
  candidate,  \* fingerprints with an exported candidate
  staging,    \* fingerprints with a builder volume
  domain,     \* fingerprints with a builder VM
  odd,        \* those whose builder VM is neither running nor shut off
  pc, fp,     \* of each process: the step it is at, the fingerprint it works on
  hurt        \* builds that are unwinding from an exception

disk  == <<pointer, pending, host, volume, candidate, staging, domain>>
pvars == <<tree, odd, lock, disk, pc, fp, hurt>>

Process == Preparer \union Runner

Held == {"check", "source", "recover_volume", "recover_host", "recover_pending",
         "old_candidate", "old_domain", "old_volume", "create_volume",
         "create_domain", "guest", "poweroff", "download", "convert", "exported",
         "end_domain", "end_volume", "journal", "rename", "create", "upload",
         "point", "verify", "commit", "drop_candidate", "release", "preflight", "using"}

\* "copy": the bytes of the host image; "other": those of an earlier image.
VolumeState == {"none", "empty", "copy", "other"}

PTypeOK ==
  /\ tree \in Tree
  /\ lock \in Process \union {None}
  /\ {pointer, pending} \subseteq Tree \union {None}
  /\ host \subseteq Tree /\ candidate \subseteq Tree
  /\ staging \subseteq Tree /\ domain \subseteq Tree /\ odd \subseteq Tree
  /\ volume \in [Tree -> VolumeState]
  /\ pc \in [Process -> Held \union {"idle", "wait"}]
  /\ fp \in [Process -> Tree \union {None}]
  /\ hurt \subseteq Preparer
  /\ \A p \in Process : pc[p] \in Held <=> lock = p

\* What verify_prepared_base accepts, apart from the fingerprint it expects.
Whole(f) == f \in host /\ volume[f] = "copy"

Verified(f) == pointer = f /\ tree = f /\ Whole(f)

At(p, step)   == pc[p] = step
Goto(p, step) == pc' = [pc EXCEPT ![p] = step]

PInit ==
  /\ tree \in Tree /\ lock = None
  /\ pointer = None /\ pending = None
  /\ host = {} /\ candidate = {} /\ staging = {} /\ domain = {} /\ odd = {}
  /\ volume = [f \in Tree |-> "none"]
  /\ pc = [p \in Process |-> "idle"] /\ fp = [p \in Process |-> None]
  /\ hurt = {}

-----------------------------------------------------------------------------
(* The world around the two programs *)

Edit ==
  /\ tree' \in Tree \ {tree}
  /\ UNCHANGED <<odd, lock, disk, pc, fp, hurt>>

\* A builder VM is paused by an I/O error, crashes, hangs in its shutdown, or recovers.
VmTurns(f) ==
  /\ f \in domain
  /\ odd' = IF f \in odd THEN odd \ {f} ELSE odd \union {f}
  /\ UNCHANGED <<tree, lock, disk, pc, fp, hurt>>

\* SIGKILL or a power cut: no finally runs, the kernel drops the lock.
Crash(p) ==
  /\ ~At(p, "idle")
  /\ Goto(p, "idle")
  /\ fp' = [fp EXCEPT ![p] = None]
  /\ lock' = IF lock = p THEN None ELSE lock
  /\ hurt' = hurt \ {p}
  /\ UNCHANGED <<tree, odd, disk>>

-----------------------------------------------------------------------------
(* build: the lock and the checks before anything is made *)

Start(p) ==
  /\ At(p, "idle")
  /\ fp' = [fp EXCEPT ![p] = tree]
  /\ Goto(p, "wait")
  /\ UNCHANGED <<tree, odd, lock, disk, hurt>>

\* Faulty form: a lock file that is open counts as a lock that is held.
AcquireUnlocked(p) ==
  /\ At(p, "wait")
  /\ lock' = p
  /\ Goto(p, "check")
  /\ UNCHANGED <<tree, odd, disk, fp, hurt>>

AcquireLock(p) ==
  /\ At(p, "wait") /\ lock = None
  /\ lock' = p
  /\ Goto(p, "check")
  /\ UNCHANGED <<tree, odd, disk, fp, hurt>>

\* Faulty form: the lock stays with a process that has ended.
KeepLock(p) ==
  /\ At(p, "release")
  /\ UNCHANGED lock
  /\ Goto(p, "idle")
  /\ fp' = [fp EXCEPT ![p] = None]
  /\ hurt' = hurt \ {p}
  /\ UNCHANGED <<tree, odd, disk>>

ReleaseLock(p) ==
  /\ At(p, "release")
  /\ lock' = None
  /\ Goto(p, "idle")
  /\ fp' = [fp EXCEPT ![p] = None]
  /\ hurt' = hurt \ {p}
  /\ UNCHANGED <<tree, odd, disk>>

\* Faulty form: a pointer of the right fingerprint is taken for a base.
TrustPointer(p) ==
  /\ At(p, "check")
  /\ pointer = fp[p]
  /\ Goto(p, "drop_candidate")
  /\ UNCHANGED <<tree, odd, lock, disk, fp, hurt>>

\* A base the tree's present inputs verify needs no build.
CurrentIsValid(p) ==
  /\ At(p, "check")
  /\ Verified(tree)
  /\ Goto(p, "drop_candidate")
  /\ UNCHANGED <<tree, odd, lock, disk, fp, hurt>>

\* No pointer, or the pointer of another fingerprint: build.
CurrentIsStale(p) ==
  /\ At(p, "check")
  /\ ~Verified(tree) /\ pointer # fp[p]
  /\ Goto(p, "source")
  /\ UNCHANGED <<tree, odd, lock, disk, fp, hurt>>

\* A pointer of this very fingerprint that does not verify is a Blocker.
CurrentIsBroken(p) ==
  /\ At(p, "check")
  /\ ~Verified(tree) /\ pointer = fp[p]
  /\ Goto(p, "drop_candidate")
  /\ hurt' = hurt \union {p}
  /\ UNCHANGED <<tree, odd, lock, disk, fp>>

\* validate_source, ensure_kata_bundle and the two directories.
ValidateSource(p) ==
  /\ At(p, "source")
  /\ Goto(p, IF pending = None THEN "old_candidate" ELSE "recover_volume")
  /\ UNCHANGED <<tree, odd, lock, disk, fp, hurt>>

-----------------------------------------------------------------------------
(* recover_pending_publication, cleanup_candidate, cleanup_owned_staging *)

\* Faulty form: the journal is done with once the volume is gone.
RecoverVolumeOnly(p) ==
  /\ At(p, "recover_volume")
  /\ volume' = [volume EXCEPT ![pending] = "none"]
  /\ pending' = None
  /\ Goto(p, "old_candidate")
  /\ UNCHANGED <<tree, odd, lock, pointer, host, candidate, staging, domain, fp, hurt>>

RecoverVolume(p) ==
  /\ At(p, "recover_volume")
  /\ volume' = [volume EXCEPT ![pending] = "none"]
  /\ Goto(p, "recover_host")
  /\ UNCHANGED <<tree, odd, lock, pointer, pending, host, candidate, staging, domain, fp, hurt>>

RecoverHost(p) ==
  /\ At(p, "recover_host")
  /\ host' = host \ {pending}
  /\ Goto(p, "recover_pending")
  /\ UNCHANGED <<tree, odd, lock, pointer, pending, volume, candidate, staging, domain, fp, hurt>>

RecoverPending(p) ==
  /\ At(p, "recover_pending")
  /\ pending' = None
  /\ Goto(p, "old_candidate")
  /\ UNCHANGED <<tree, odd, lock, pointer, host, volume, candidate, staging, domain, fp, hurt>>

\* Faulty form: only the end of a build removes its candidate.
SkipOldCandidate(p) ==
  /\ At(p, "old_candidate")
  /\ Goto(p, "old_domain")
  /\ UNCHANGED <<tree, odd, lock, disk, fp, hurt>>

CleanupOldCandidate(p) ==
  /\ At(p, "old_candidate")
  /\ candidate' = candidate \ {fp[p]}
  /\ Goto(p, "old_domain")
  /\ UNCHANGED <<tree, odd, lock, pointer, pending, host, volume, staging, domain, fp, hurt>>

\* cleanup_owned_staging: the domain goes first; without its volume, or when it is
\* neither running nor shut off, it is refused, which ends the build by Raise.
UndefineDomain(p, here, next) ==
  /\ At(p, here)
  /\ fp[p] \in domain => fp[p] \in staging \ odd
  /\ domain' = domain \ {fp[p]}
  /\ Goto(p, next)
  /\ UNCHANGED <<tree, odd, lock, pointer, pending, host, volume, candidate, staging, fp, hurt>>

DeleteVolume(p, here, next) ==
  /\ At(p, here)
  /\ staging' = staging \ {fp[p]}
  /\ Goto(p, next)
  /\ UNCHANGED <<tree, odd, lock, pointer, pending, host, volume, candidate, domain, fp, hurt>>

\* Faulty form: the volume goes first.
StagingVolumeFirst(p) ==
  \/ DeleteVolume(p, "old_domain", "old_volume")
  \/ UndefineDomain(p, "old_volume", "create_volume")
  \/ DeleteVolume(p, "end_domain", "end_volume")
  \/ UndefineDomain(p, "end_volume", IF p \in hurt THEN "drop_candidate" ELSE "journal")

CleanupOwnedStaging(p) ==
  \/ UndefineDomain(p, "old_domain", "old_volume")
  \/ DeleteVolume(p, "old_volume", "create_volume")
  \/ UndefineDomain(p, "end_domain", "end_volume")
  \/ DeleteVolume(p, "end_volume", IF p \in hurt THEN "drop_candidate" ELSE "journal")

-----------------------------------------------------------------------------
(* The builder VM *)

CreateVolume(p) ==
  /\ At(p, "create_volume") /\ fp[p] \notin staging
  /\ staging' = staging \union {fp[p]}
  /\ Goto(p, "create_domain")
  /\ UNCHANGED <<tree, odd, lock, pointer, pending, host, volume, candidate, domain, fp, hurt>>

CreateDomain(p) ==
  /\ At(p, "create_domain") /\ fp[p] \notin domain
  /\ domain' = domain \union {fp[p]}
  /\ Goto(p, "guest")
  /\ UNCHANGED <<tree, odd, lock, pointer, pending, host, volume, candidate, staging, fp, hurt>>

\* wait_for_ssh up to validate_guest change only what is inside the VM, as do
\* the sysprep, the power-off and the wait for it.
GuestStep(p, here, next) ==
  /\ At(p, here) /\ fp[p] \in domain \ odd
  /\ Goto(p, next)
  /\ UNCHANGED <<tree, odd, lock, disk, fp, hurt>>

InstallGuest(p) == GuestStep(p, "guest", "poweroff")
Poweroff(p)     == GuestStep(p, "poweroff", "download")

\* An existing candidate is a Blocker; the download comes before the conversion.
DownloadOverlay(p) ==
  /\ At(p, "download") /\ fp[p] \notin candidate
  /\ Goto(p, "convert")
  /\ UNCHANGED <<tree, odd, lock, disk, fp, hurt>>

\* qemu-img convert writes under the candidate's own name.
ConvertCandidate(p) ==
  /\ At(p, "convert")
  /\ candidate' = candidate \union {fp[p]}
  /\ Goto(p, "exported")
  /\ UNCHANGED <<tree, odd, lock, pointer, pending, host, volume, staging, domain, fp, hurt>>

CandidateChecked(p) ==
  /\ At(p, "exported")
  /\ Goto(p, "end_domain")
  /\ UNCHANGED <<tree, odd, lock, disk, fp, hurt>>

-----------------------------------------------------------------------------
(* publish *)

WriteJournal(p) ==
  /\ At(p, "journal")
  /\ pending' = fp[p]
  /\ Goto(p, "rename")
  /\ UNCHANGED <<tree, odd, lock, pointer, host, volume, candidate, staging, domain, fp, hurt>>

\* os.replace: a volume of the same name keeps its old bytes.
RenameCandidate(p) ==
  /\ At(p, "rename") /\ fp[p] \in candidate
  /\ candidate' = candidate \ {fp[p]} /\ host' = host \union {fp[p]}
  /\ volume' = [volume EXCEPT ![fp[p]] = IF @ = "copy" THEN "other" ELSE @]
  /\ Goto(p, "create")
  /\ UNCHANGED <<tree, odd, lock, pointer, pending, staging, domain, fp, hurt>>

\* virsh vol-create refuses a name that exists.
CreateFinalVolume(p) ==
  /\ At(p, "create") /\ volume[fp[p]] = "none"
  /\ volume' = [volume EXCEPT ![fp[p]] = "empty"]
  /\ Goto(p, "upload")
  /\ UNCHANGED <<tree, odd, lock, pointer, pending, host, candidate, staging, domain, fp, hurt>>

Upload(p) ==
  /\ At(p, "upload")
  /\ volume' = [volume EXCEPT ![fp[p]] = "copy"]
  /\ Goto(p, "point")
  /\ UNCHANGED <<tree, odd, lock, pointer, pending, host, candidate, staging, domain, fp, hurt>>

WritePointer(p) ==
  /\ At(p, "point")
  /\ pointer' = fp[p]
  /\ Goto(p, "verify")
  /\ UNCHANGED <<tree, odd, lock, pending, host, volume, candidate, staging, domain, fp, hurt>>

\* The verification computes the fingerprint of the inputs again.
VerifyPublished(p) ==
  /\ At(p, "verify") /\ Verified(fp[p])
  /\ Goto(p, "commit")
  /\ UNCHANGED <<tree, odd, lock, disk, fp, hurt>>

CommitPublication(p) ==
  /\ At(p, "commit")
  /\ pending' = None
  /\ Goto(p, "drop_candidate")
  /\ UNCHANGED <<tree, odd, lock, pointer, host, volume, candidate, staging, domain, fp, hurt>>

\* The outer finally.
DropCandidate(p) ==
  /\ At(p, "drop_candidate")
  /\ candidate' = candidate \ {fp[p]}
  /\ Goto(p, "release")
  /\ UNCHANGED <<tree, odd, lock, pointer, pending, host, volume, staging, domain, fp, hurt>>

-----------------------------------------------------------------------------
(* Exceptions: every step may raise; the inner try covers the builder VM. *)

InnerTry == {"create_volume", "create_domain", "guest", "poweroff", "download", "convert", "exported"}

OuterTry == {"check", "source", "recover_volume", "recover_host", "recover_pending",
             "old_candidate", "old_domain", "old_volume", "end_domain", "end_volume",
             "journal", "rename", "create", "upload", "point", "verify", "commit"}

Raise(p) ==
  /\ pc[p] \in InnerTry \union OuterTry
  /\ Goto(p, IF pc[p] \in InnerTry THEN "end_domain" ELSE "drop_candidate")
  /\ hurt' = hurt \union {p}
  /\ UNCHANGED <<tree, odd, lock, disk, fp>>

\* cleanup_candidate raises inside the outer finally: the lock is let go all the same.
RaiseInFinally(p) ==
  /\ At(p, "drop_candidate")
  /\ Goto(p, "release")
  /\ hurt' = hurt \union {p}
  /\ UNCHANGED <<tree, odd, lock, disk, fp>>

-----------------------------------------------------------------------------
(* e2e.py as far as it uses the base *)

\* The harness does not wait: a busy lock ends it.
RunnerLocks(r) ==
  /\ At(r, "idle") /\ lock = None
  /\ lock' = r
  /\ Goto(r, "preflight")
  /\ UNCHANGED <<tree, odd, disk, fp, hurt>>

RunnerVerifies(r) ==
  /\ At(r, "preflight") /\ Verified(tree)
  /\ fp' = [fp EXCEPT ![r] = tree]
  /\ Goto(r, "using")
  /\ UNCHANGED <<tree, odd, lock, disk, hurt>>

RunnerBlocked(r) ==
  /\ At(r, "preflight") /\ ~Verified(tree)
  /\ Goto(r, "release")
  /\ UNCHANGED <<tree, odd, lock, disk, fp, hurt>>

RunnerEnds(r) ==
  /\ At(r, "using")
  /\ Goto(r, "release")
  /\ UNCHANGED <<tree, odd, lock, disk, fp, hurt>>

-----------------------------------------------------------------------------
Recover(p) ==
  \/ RecoverVolume(p) \/ RecoverHost(p) \/ RecoverPending(p)
  \/ CleanupOldCandidate(p) \/ CleanupOwnedStaging(p)

BuildGuest(p) ==
  \/ CreateVolume(p) \/ CreateDomain(p) \/ InstallGuest(p) \/ Poweroff(p)
  \/ DownloadOverlay(p) \/ ConvertCandidate(p) \/ CandidateChecked(p)

Publish(p) ==
  \/ WriteJournal(p) \/ RenameCandidate(p) \/ CreateFinalVolume(p) \/ Upload(p)
  \/ WritePointer(p) \/ VerifyPublished(p) \/ CommitPublication(p)

\* What a build does once it has the lock.
Build(p) ==
  \/ CurrentIsValid(p) \/ CurrentIsStale(p) \/ CurrentIsBroken(p) \/ ValidateSource(p)
  \/ Recover(p) \/ BuildGuest(p) \/ Publish(p)
  \/ Raise(p) \/ DropCandidate(p) \/ RaiseInFinally(p) \/ ReleaseLock(p)

UseBase(r) == RunnerVerifies(r) \/ RunnerBlocked(r) \/ RunnerEnds(r) \/ ReleaseLock(r)

PNext ==
  \/ Edit
  \/ \E f \in Tree : VmTurns(f)
  \/ \E p \in Process : Crash(p)
  \/ \E p \in Preparer : Start(p) \/ AcquireLock(p) \/ Build(p)
  \/ \E r \in Runner : RunnerLocks(r) \/ UseBase(r)

\* Downloads, transfers and guest commands have time limits, and libvirt is taken
\* to answer: a build or a run that holds the lock goes on.
PFairness ==
  /\ \A p \in Preparer : WF_pvars(Build(p))
  /\ \A r \in Runner : WF_pvars(UseBase(r))

PSpec == PInit /\ [][PNext]_pvars /\ PFairness
-----------------------------------------------------------------------------
(* Properties *)

\* Whatever a publication has made of a base is either a whole base or named by
\* the journal, so that the next build can remove it (publish writes the journal
\* before the rename, and recover_pending_publication unlinks it last).
PartialIsJournaled ==
  \A f \in Tree : (f \in host \/ volume[f] # "none") /\ ~Whole(f) => pending = f

\* What a build that failed or was killed has left of its builder is not in the way of
\* the next one.  A builder VM never outlives its volume, for cleanup_owned_staging
\* refuses to touch such a VM; and when the volume, the VM and the candidate are made,
\* nothing of that name is left.  This is not to say that a build gets so far: the
\* pointer of its own fingerprint to a base that is gone, and a VM in an odd state,
\* refuse every build until an operator steps in.
LeftoversYield ==
  /\ domain \subseteq staging
  /\ \A p \in Preparer :
       /\ At(p, "create_volume") => fp[p] \notin staging \union domain
       /\ At(p, "download")      => fp[p] \notin candidate

\* A build that exits with success leaves a pointer to a whole base, and the base
\* that a run of the harness has verified stays published, whole, until that run has
\* ended, whatever builds are started meanwhile.
PublishedIsWhole ==
  /\ \A p \in Preparer : At(p, "release") /\ p \notin hurt => pointer \in Tree /\ Whole(pointer)
  /\ \A r \in Runner : At(r, "using") => pointer = fp[r] /\ Whole(fp[r])

\* The lock that builds and runs share is let go of again and again.
LockComesFree == []<>(lock = None)

=============================================================================
