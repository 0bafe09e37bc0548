------------------------------- MODULE VmRun --------------------------------
(***************************************************************************)
(* One run of the VM harness, vm/e2e.py: it makes virtual machines, keys,  *)
(* processes, containers and directories, lets jobs run in them, and takes *)
(* everything away again, whatever failed, before it reports.              *)
(*                                                                         *)
(* What a run has made is `present`; what the process knows about it is    *)
(* `noted`, attributes of Harness that the cleanup works from.  The setup  *)
(* is a list of steps: "note" writes an attribute, "make" changes the      *)
(* world, and an exception or a signal may come before, in or after each   *)
(* of them.  The cleanup is one action per function; a command of it may   *)
(* fail or run into its time limit.                                        *)
(***************************************************************************)
EXTENDS Naturals, SequencesExt

CONSTANTS
  Vms,          \* the virtual machines, in the order of the manifest
  Host,
  InitialState, \* what preflight may find: functions from machines to VmState
  MaxFaults,    \* how many functions of the cleanup fail
  SecondSignal  \* whether a signal may come while the last one waits for a pool

Vm == Range(Vms)

VmState == {"absent", "off", "on", "foreign", "stray"}

ASSUME VmRunAssumption ==
  /\ Vms \in Seq(Vm)
  /\ Host \notin Vm
  /\ InitialState \subseteq [Vm -> VmState]
  /\ MaxFaults \in Nat /\ SecondSignal \in BOOLEAN

VARIABLES
  initial,  \* vm_initial_state
  keep,     \* keep_vms
  todo,     \* the setup steps that remain
  pool,     \* the machines whose thread of the current pool still works
  pc,
  present, noted,
  queried,  \* db_query_verified
  raised,   \* the try of run was left by an exception
  failed,   \* a cleanup function raised or reported False
  faults

vvars == <<initial, keep, todo, pool, pc, present, noted, queried, raised, failed, faults>>

HostKind    == {"state", "runtime", "authkey", "db", "schema", "image", "core", "core_id"}
ProcessKind == {"fake", "worker", "containers"}
GuestKind   == ProcessKind \union {"selinux", "known", "root", "guest_image"}
VmKind      == GuestKind \union {"volume", "domain", "running", "tunnel", "tunnel_id", "owned", "ip", "enforcing"}

Artefact == (HostKind \X {Host}) \union (VmKind \X Vm)

CleanupPc == {"stop_remote", "stop_host", "stop_tunnels", "copy_logs", "query", "containers",
              "key", "known", "runtime", "db", "images", "selinux", "verify",
              "guest_keys", "stop_vms", "retain"}

VTypeOK ==
  /\ initial \in InitialState /\ keep \in BOOLEAN
  /\ pool \subseteq Vm
  /\ pc \in {"setup", "finally", "skipped", "state", "report", "done", "escaped"} \union CleanupPc
  /\ present \subseteq Artefact /\ noted \subseteq Artefact
  /\ {queried, raised, failed} \subseteq BOOLEAN
  /\ faults \in 0..MaxFaults

-----------------------------------------------------------------------------
(* The setup, phase by phase *)

Each(Steps(_)) == FlattenSeq([i \in DOMAIN Vms |-> Steps(Vms[i])])

Note(k, v)  == <<"note", k, v>>
Make(k, v)  == <<"make", k, v>>

Preflight == <<Make("state", Host)>> \o Each(LAMBDA v : <<<<"adopt", "owned", v>>>>)

CreateVm(start, v) ==
  CASE start[v] = "absent" ->
         <<Note("volume", v), Make("volume", v), Note("domain", v),
           Make("domain", v), Make("running", v), Note("owned", v)>>
    [] start[v] = "off" -> <<Make("running", v)>>
    [] OTHER -> <<>>

\* The leases first, for every machine; then SELinux goes permissive.
EnsureVms(start) ==
  Each(LAMBDA v : CreateVm(start, v))
  \o Each(LAMBDA v : <<Note("ip", v)>>)
  \o Each(LAMBDA v : <<Note("enforcing", v), Make("selinux", v), Note("selinux", v)>>)

\* authorized_added is set from what atomic_line_update returns.
GenerateGitKey ==
  <<Make("runtime", Host), Make("authkey", Host), Note("authkey", Host)>>

\* Faulty form: the guest's file is read after the lines were added.
SetupSshLate == Each(LAMBDA v : <<Make("known", v), Note("known", v)>>)

SetupSsh == Each(LAMBDA v : <<Note("known", v), Make("known", v)>>)

\* start_db, then prepare_host, which brings the schema, and the image.
StartDb == <<Note("db", Host), Make("db", Host), Note("schema", Host), Make("image", Host)>>

\* Faulty form: the guests' images are registered as the host's.
SyncWorkersHost == <<<<"pool", "root", Host>>, <<"pool", "image", Host>>>>

\* Thread pools: one thread per machine, and the next pool waits for all.  A third
\* pool compiles, in the directory of the first.
SyncWorkers == <<<<"pool", "root", Host>>, <<"pool", "guest_image", Host>>>>

\* A host process is known when Popen has returned and identified a moment later.
StartTunnels == Each(LAMBDA v : <<Make("tunnel", v), Note("tunnel", v), Note("tunnel_id", v)>>)

\* start_remote_process registers before it launches.
StartRemote(v) ==
  <<Note("fake", v), Make("fake", v), Note("worker", v), Make("worker", v)>>

StartCore == <<Make("core", Host), Note("core", Host), Note("core_id", Host)>>

RunJobs ==
  StartCore \o Each(StartRemote)
  \o Each(LAMBDA v : <<Make("containers", v)>>)
  \o Each(LAMBDA v : <<<<"end", "containers", v>>>>)

Setup(start) ==
  Preflight \o EnsureVms(start) \o GenerateGitKey \o SetupSsh \o StartDb
  \o SyncWorkers \o StartTunnels \o RunJobs

Existing(start) ==
  {<<k, v>> : k \in {"volume", "domain"}, v \in {x \in Vm : start[x] \in {"off", "on", "foreign"}}}
  \union {<<"running", v>> : v \in {x \in Vm : start[x] = "on"}}
  \union {<<"volume", v>> : v \in {x \in Vm : start[x] = "stray"}}

VInit ==
  /\ initial \in InitialState /\ keep \in BOOLEAN
  /\ todo = Setup(initial)
  /\ pool = {} /\ pc = "setup"
  /\ present = Existing(initial) /\ noted = {}
  /\ queried = FALSE /\ raised = FALSE /\ failed = FALSE /\ faults = 0

-----------------------------------------------------------------------------
(* run: the try *)

Op   == todo[1][1]
Item == <<todo[1][2], todo[1][3]>>

Running == pc = "setup" /\ todo # <<>> /\ pool = {} /\ ~raised

NoteStep ==
  /\ Running /\ Op = "note"
  /\ noted' = noted \union {Item}
  /\ todo' = Tail(todo)
  /\ UNCHANGED <<initial, keep, pool, pc, present, queried, raised, failed, faults>>

MakeStep ==
  /\ Running /\ Op = "make"
  /\ present' = present \union {Item}
  /\ todo' = Tail(todo)
  /\ UNCHANGED <<initial, keep, pool, pc, noted, queried, raised, failed, faults>>

\* The workers remove the containers of jobs that ended.
ContainersEnd ==
  /\ Running /\ Op = "end"
  /\ present' = present \ {Item}
  /\ todo' = Tail(todo)
  /\ UNCHANGED <<initial, keep, pool, pc, noted, queried, raised, failed, faults>>

\* Faulty form: whatever bears the name is taken for the harness's own.
AdoptByName ==
  /\ Running /\ Op = "adopt"
  /\ noted' = IF initial[Item[2]] # "absent" THEN noted \union {Item} ELSE noted
  /\ todo' = Tail(todo)
  /\ UNCHANGED <<initial, keep, pool, pc, present, queried, raised, failed, faults>>

\* preflight, for one machine: a domain that is not ours, or a volume without a
\* domain, is a Blocker, which is an exception.
Adopt ==
  /\ Running /\ Op = "adopt"
  /\ initial[Item[2]] \notin {"foreign", "stray"}
  /\ noted' = IF initial[Item[2]] # "absent" THEN noted \union {Item} ELSE noted
  /\ todo' = Tail(todo)
  /\ UNCHANGED <<initial, keep, pool, pc, present, queried, raised, failed, faults>>

PoolStarts ==
  /\ Running /\ Op = "pool"
  /\ pool' = Vm
  /\ UNCHANGED <<initial, keep, todo, pc, present, noted, queried, raised, failed, faults>>

\* A thread ends, with its artefact made or, if it failed, made or not.
ThreadEnds(v) ==
  /\ v \in pool
  /\ pool' = pool \ {v}
  /\ \/ present' = present \union {<<todo[1][2], v>>} /\ raised' \in {raised, TRUE}
     \/ UNCHANGED present /\ raised' = TRUE
  /\ todo' = IF pool = {v} THEN Tail(todo) ELSE todo
  /\ UNCHANGED <<initial, keep, pc, noted, queried, failed, faults>>

\* A check, a time limit, a failed command or a signal; a command may have had
\* its effect.
Raise ==
  /\ Running
  /\ raised' = TRUE
  /\ present' \in {present} \union (IF Op = "make" THEN {present \union {Item}} ELSE {})
  /\ UNCHANGED <<initial, keep, todo, pool, pc, noted, queried, failed, faults>>

\* Leaving `with ThreadPoolExecutor` waits for its threads.
SignalInPool ==
  /\ pool # {} /\ ~raised /\ pc = "setup"
  /\ raised' = TRUE
  /\ UNCHANGED <<initial, keep, todo, pool, pc, present, noted, queried, failed, faults>>

\* Faulty form: the executor is not waited for.
LeaveAtOnce ==
  /\ pc = "setup"
  /\ raised \/ todo = <<>>
  /\ pc' = "finally"
  /\ UNCHANGED <<initial, keep, todo, pool, present, noted, queried, raised, failed, faults>>

\* The try is over.  A second signal ends the wait, too.
LeaveTry ==
  /\ pc = "setup"
  /\ raised \/ todo = <<>>
  /\ pool = {} \/ SecondSignal
  /\ pc' = "finally"
  /\ UNCHANGED <<initial, keep, todo, pool, present, noted, queried, raised, failed, faults>>

-----------------------------------------------------------------------------
(* run: the finally, and cleanup *)

EnterCleanup ==
  /\ pc = "finally"
  /\ pc' = "stop_remote"
  /\ UNCHANGED <<initial, keep, todo, pool, present, noted, queried, raised, failed, faults>>

\* A signal before in_cleanup is set raises out of cleanup as a whole; in_cleanup stays
\* FALSE.
CleanupSkipped ==
  /\ pc = "finally"
  /\ failed' = TRUE
  /\ pc' = "skipped"
  /\ UNCHANGED <<initial, keep, todo, pool, present, noted, queried, raised, faults>>

\* cleanup_step: the function removes its targets and reports whether all is
\* well; or it raises, or a command of it fails, after part of the work.
Step(here, next, targets, verdicts) ==
  /\ pc = here /\ pc' = next
  /\ \/ /\ present' = present \ targets
        /\ \E ok \in verdicts : failed' = (failed \/ ~ok)
        /\ UNCHANGED faults
     \/ /\ faults < MaxFaults /\ faults' = faults + 1
        /\ \E done \in SUBSET targets : present' = present \ done
        /\ failed' = TRUE
  /\ UNCHANGED <<initial, keep, todo, pool, noted, raised>>

Kinds(ks) == {a \in present : a[1] \in ks}

Reached == {v \in Vm : <<"ip", v>> \in noted}

\* What is there although this process cannot prove that it is its own.
Unproved(kind, id) == {a \in Kinds({kind}) : a \in noted /\ <<id, a[2]>> \notin noted}

\* The functions look for processes they know; a port shows the rest, if it is bound.
ProcessVerdicts(kind, id) ==
  IF Unproved(kind, id) # {} THEN {FALSE}
  ELSE IF Kinds({kind}) \ noted # {} THEN BOOLEAN
  ELSE {TRUE}

StopRemoteProcesses ==
  /\ Step("stop_remote", "stop_host", Kinds({"fake", "worker"}) \intersect noted, {TRUE})
  /\ UNCHANGED queried

StopHostProcesses ==
  /\ Step("stop_host", "stop_tunnels",
          (Kinds({"core"}) \intersect noted) \ Unproved("core", "core_id"),
          ProcessVerdicts("core", "core_id"))
  /\ UNCHANGED queried

StopTunnels ==
  /\ Step("stop_tunnels", "copy_logs",
          (Kinds({"tunnel"}) \intersect noted) \ Unproved("tunnel", "tunnel_id"),
          ProcessVerdicts("tunnel", "tunnel_id"))
  /\ UNCHANGED queried

\* A process that is registered and was perhaps never launched may have no log.
CopyLogs ==
  LET doubtful == {a \in noted : a[1] \in {"fake", "worker"} /\ Make(a[1], a[2]) \in Range(todo)}
  IN /\ Step("copy_logs", "query", {}, IF doubtful = {} THEN {TRUE} ELSE BOOLEAN)
     /\ UNCHANGED queried

\* The database names the attempts whose containers may be removed.
QueryAttempts ==
  LET db == <<"db", Host>>
      able == db \notin noted \/ (db \in present /\ <<"schema", Host>> \in noted)
  IN /\ Step("query", "containers", {}, {able})
     /\ queried' = (able /\ faults' = faults)

\* The containers that docker lists, by label, on the machines it can be asked on.
Labelled == {a \in Kinds({"containers"}) : a[2] \in Reached}

RemoveContainers ==
  /\ Step("containers", "key", IF queried THEN Labelled ELSE {}, {queried \/ Reached = {}})
  /\ UNCHANGED queried

RemoveAuthorizedKey ==
  /\ Step("key", "known", Kinds({"authkey"}) \intersect noted, {TRUE})
  /\ UNCHANGED queried

RestoreKnownHosts ==
  /\ Step("known", "runtime", Kinds({"known"}) \intersect noted, {TRUE})
  /\ UNCHANGED queried

\* Faulty form: only the host's directory is removed.
RemoveRuntimeHost ==
  /\ Step("runtime", "db", Kinds({"runtime"}), {TRUE})
  /\ UNCHANGED queried

RemoveRuntime ==
  /\ Step("runtime", "db",
          Kinds({"runtime"}) \union {a \in Kinds({"root"}) : a[2] \in Reached}, {TRUE})
  /\ UNCHANGED queried

RemoveDb ==
  /\ Step("db", "images", Kinds({"db"}) \intersect noted, {TRUE})
  /\ UNCHANGED queried

RemoveImages ==
  /\ Step("images", "selinux",
          Kinds({"image"}) \union {a \in Kinds({"guest_image"}) : a[2] \in Reached}, {TRUE})
  /\ UNCHANGED queried

\* The verdict compares with what getenforce said before the change.
RestoreSelinux ==
  LET ours == Kinds({"selinux"}) \intersect noted
  IN /\ Step("selinux", "verify", ours,
             {\A a \in Kinds({"selinux"}) \ ours : <<"enforcing", a[2]>> \notin noted})
     /\ UNCHANGED queried

VerifyNoContainers ==
  /\ Step("verify", "guest_keys", {}, {queried /\ Labelled = {}})
  /\ UNCHANGED queried

RestoreGuestKeys == Step("guest_keys", "stop_vms", {}, {TRUE}) /\ UNCHANGED queried

\* vm_owned_by_harness and vm_created_by_run
Managed == {v \in Vm : {<<"owned", v>>, <<"domain", v>>} \intersect noted # {}}

\* A machine that is off runs no processes, and boots enforcing.
StopOwnedVms ==
  /\ Step("stop_vms", "retain",
          {a \in Kinds({"running", "fake", "worker", "tunnel", "selinux"}) :
             a[2] \in Managed /\ (a[1] = "tunnel" => a \in noted)}, {TRUE})
  /\ UNCHANGED queried

\* Faulty form: a machine that was told to shut down is off.
IsOffAssumed(v) == v \in Managed

IsOff(v) == <<"running", v>> \notin present

\* remove_owned_vms: a domain must be off and goes before its volume, and with
\* the volume goes what was inside.  A machine it refuses ends the removal.
OnDisk(v) == {a \in Kinds(GuestKind \union {"volume", "domain"}) : a[2] = v}

Removable == {v \in Vm : IsOff(v) /\ (v \in Managed \/ <<"volume", v>> \in noted)}

\* Faulty form: the removal waits for the machines to be off.
RemoveVmsOnceOff ==
  /\ ~keep /\ Managed \subseteq Removable
  /\ Step("retain", "state", UNION {OnDisk(v) : v \in Removable}, {TRUE})
  /\ UNCHANGED queried

RemoveOwnedVms ==
  /\ ~keep
  /\ \E vs \in IF Managed \subseteq Removable THEN {Removable} ELSE SUBSET Removable :
       Step("retain", "state", UNION {OnDisk(v) : v \in vs}, {Managed \subseteq Removable})
  /\ UNCHANGED queried

VerifyPersistedVms ==
  /\ keep
  /\ Step("retain", "state", {}, {\A v \in Vm : <<"domain", v>> \in present /\ IsOff(v)})
  /\ UNCHANGED queried

\* A cleanup_step, too: a signal in it after a cleanup that was skipped is a failure of it.
RemoveState ==
  /\ \E here \in {"state", "skipped"} : Step(here, "report", Kinds({"state"}), {TRUE})
  /\ UNCHANGED queried

\* The verdict, the end of the finally and print_report.
Report ==
  /\ pc = "report"
  /\ pc' = "done"
  /\ UNCHANGED <<initial, keep, todo, pool, present, noted, queried, raised, failed, faults>>

\* A signal while in_cleanup is FALSE, outside the inner try and cleanup_step, comes out of
\* run: before the cleanup, after one that was skipped, or when in_cleanup is reset.  What
\* is there stays, and nothing is reported.  (One that comes while the exception of the
\* setup is being handled lets the finally run, and is seen at its end.)
Escape ==
  /\ pc \in {"finally", "skipped", "report"}
  /\ pc' = "escaped"
  /\ UNCHANGED <<initial, keep, todo, pool, present, noted, queried, raised, failed, faults>>

-----------------------------------------------------------------------------
Advance ==
  NoteStep \/ MakeStep \/ ContainersEnd \/ Adopt \/ PoolStarts \/ SignalInPool

Cleanup ==
  \/ EnterCleanup \/ CleanupSkipped
  \/ StopRemoteProcesses \/ StopHostProcesses \/ StopTunnels \/ CopyLogs
  \/ QueryAttempts \/ RemoveContainers \/ RemoveAuthorizedKey \/ RestoreKnownHosts
  \/ RemoveRuntime \/ RemoveDb \/ RemoveImages \/ RestoreSelinux
  \/ VerifyNoContainers \/ RestoreGuestKeys \/ StopOwnedVms
  \/ RemoveOwnedVms \/ VerifyPersistedVms \/ RemoveState \/ Report

VNext == Advance \/ Raise \/ LeaveTry \/ Cleanup \/ Escape \/ \E v \in Vm : ThreadEnds(v)

\* The alarm raises in a setup that hangs, and commands of the cleanup have a time limit.
\* The commands of a pool have none, and nothing ends the wait for its threads.
VFairness == WF_vvars(Raise) /\ WF_vvars(LeaveTry) /\ WF_vvars(Cleanup)

VSpec == VInit /\ [][VNext]_vvars /\ VFairness

-----------------------------------------------------------------------------
(* Properties *)

\* cleanup["complete"] in the report
Complete == pc = "done" /\ ~failed

\* The exit code 0
Success == Complete /\ ~raised

Strange(v) == initial[v] \in {"foreign", "stray"}

\* A machine that was there before and that preflight has not accepted as ours.
Untouched(v) == initial[v] # "absent" /\ <<"owned", v>> \notin noted

\* What a run may leave: machines it was told to keep, and what it never touched.
MayStay(a) ==
  \/ a[1] \in {"volume", "domain"} /\ keep
  \/ a[1] \in {"volume", "domain", "running"} /\ Untouched(a[2])

MadeBeforeNoted == {"authkey", "core", "tunnel"}

\* What the report says of the cleanup is true, whatever failed in it.  A complete
\* cleanup has left nothing but one kind of leftover: what a step had made when the
\* exception came and what it had not yet written down.  A run that reports success
\* has not left that either, and the machines it was told to keep are all there, off.
VerdictIsTrue ==
  /\ Complete =>
       \A a \in present : MayStay(a) \/ (a[1] \in MadeBeforeNoted /\ a \notin noted)
  /\ Success =>
       /\ \A a \in present : MayStay(a)
       /\ keep => \A v \in Vm : {<<"volume", v>>, <<"domain", v>>} \subseteq present

\* A domain or volume of a machine's name that is not the harness's own stays as
\* it is, in the cleanup, too, and no disk is deleted under a machine that runs.
HarmsNothing ==
  /\ [](\A v \in Vm : <<"running", v>> \in present => <<"volume", v>> \in present)
  /\ [][\A v \in Vm : Strange(v) =>
         \A k \in {"volume", "domain", "running"} : <<k, v>> \in present => <<k, v>> \in present']_vvars

\* A run ends, through its cleanup or by a signal that comes out of it, whatever step of
\* the setup hangs in the main thread; it hangs for ever only while a thread of a pool
\* does (leaving an executor waits for its threads, whose commands have no time limit).
RunEnds == <>[](pool # {}) \/ <>(pc \in {"done", "escaped"})

=============================================================================
