------------------------------ MODULE MCVmRun -------------------------------
(* Instances of VmRun for TLC. *)
EXTENDS VmRun, TLC

CONSTANTS m1, m2

TwoMachines == <<m1, m2>>

\* A first run; kept machines; one machine kept; machines that are not ours.
Found(a, b) == m1 :> a @@ m2 :> b

SomeStarts ==
  {Found("absent", "absent"), Found("off", "off"), Found("on", "absent"),
   Found("off", "foreign"), Found("absent", "stray"), Found("foreign", "on")}

=============================================================================
