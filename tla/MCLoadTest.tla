----------------------------- MODULE MCLoadTest -----------------------------
(* Instances of LoadTest for TLC. *)
EXTENDS LoadTest, TLC

\* The requests of the first job offer a tool, those of the second none.
OneTurn == 1 :> 1 @@ 2 :> 0

=============================================================================
