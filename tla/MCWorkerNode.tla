---------------------------- MODULE MCWorkerNode ----------------------------
(* Instances of WorkerNode for TLC. *)
EXTENDS WorkerNode, TLC

CONSTANTS n1, w1

NoEdges    == {}
NoPolicies == [e \in NoEdges |-> "cancel"]
InOrder    == {[j \in Job |-> j]}

=============================================================================
