------------------------------- MODULE MCJobs -------------------------------
(* Instances of Jobs for TLC. *)
EXTENDS Jobs, TLC

CONSTANTS n1, w1

\* One job behind another.
PairEdges   == {<<2, 1>>}
PairCancel  == [e \in PairEdges |-> "cancel"]

\* A chain with a shortcut: job 3 waits for job 2 and for job 1, both of which one
\* transaction may have resolved, and is evaluated after job 2 or before it.
DiamondEdges    == {<<2, 1>>, <<3, 1>>, <<3, 2>>}
DiamondPolicies == (<<2, 1>> :> "cancel") @@ (<<3, 1>> :> "proceed") @@ (<<3, 2>> :> "proceed")
DiamondOrders   == {<<1, 2, 3>>, <<1, 3, 2>>}

InOrder == {[j \in Job |-> j]}

=============================================================================
