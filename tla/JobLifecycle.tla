---------------------------- MODULE JobLifecycle ----------------------------
(***************************************************************************)
(* What the job store keeps to for one job, without rows, slots, leases or *)
(* queues: its life cycle, and who owns an attempt.  Each claim makes a    *)
(* new owner; the attempt belongs to it until it ends or returns to the    *)
(* queue, and no owner ever comes back.  One step may move several jobs,   *)
(* as a cascade and a sweep do, but none of them by more than one move.    *)
(*                                                                         *)
(* The moves are those of the code.  Drawn are the ones of the diagram in  *)
(* job-lifecycle.md; three more are not drawn there, although the store    *)
(* makes them: unclaim gives an offer back, and an attempt may be held or  *)
(* succeed before mark_running.  (@transitions, the table of the code, is  *)
(* no description of either: only Jobs.transition consults it.)            *)
(***************************************************************************)
EXTENDS Naturals

CONSTANT Job

VARIABLE life  \* status, attempt, owner (0: nobody) and owners made so far

Live     == {"provisioning", "running"}
Finished == {"succeeded", "failed", "cancelled"}

Unlock(b, a)   == b.status = "blocked" /\ a = [b EXCEPT !.status = "queued"]

Own(b, a)      == /\ b.status = "queued"
                  /\ a = [b EXCEPT !.status = "provisioning",
                                   !.owner = b.owners + 1, !.owners = b.owners + 1]

StartRun(b, a) == b.status = "provisioning" /\ a = [b EXCEPT !.status = "running"]

\* Not drawn, besides GiveBack: review and succeeded from provisioning.
GiveBack(b, a) == b.status = "provisioning" /\ a = [b EXCEPT !.status = "queued", !.owner = 0]

Park(b, a)     == b.status \in Live /\ a = [b EXCEPT !.status = "review"]

Finish(b, a)   == /\ b.status \in Live \union {"review"}
                  /\ \E s \in {"succeeded", "failed"} : a = [b EXCEPT !.status = s, !.owner = 0]

Drop(b, a)     == b.status \notin Finished /\ a = [b EXCEPT !.status = "cancelled", !.owner = 0]

Again(b, a)    == /\ b.status \in {"failed", "cancelled"}
                  /\ a = [b EXCEPT !.status = "queued", !.attempt = b.attempt + 1]

Undrawn(b, a) ==
  \/ GiveBack(b, a)
  \/ b.status = "provisioning" /\ Park(b, a)
  \/ b.status = "provisioning" /\ Finish(b, a) /\ a.status = "succeeded"

\* The arrows of the diagram.
Drawn(b, a) ==
  /\ \/ Unlock(b, a) \/ Own(b, a) \/ StartRun(b, a)
     \/ Park(b, a) \/ Finish(b, a) \/ Drop(b, a) \/ Again(b, a)
  /\ ~Undrawn(b, a)

\* A move from row b to row a.
Move(b, a) == Drawn(b, a) \/ Undrawn(b, a)

LifeInit ==
  life \in [Job -> [status : {"blocked", "queued"}, attempt : {1}, owner : {0}, owners : {0}]]

LifeNext ==
  /\ DOMAIN life' = Job
  /\ \A j \in Job : life'[j] = life[j] \/ Move(life[j], life'[j])

LifeSpec == LifeInit /\ [][LifeNext]_life

=============================================================================
