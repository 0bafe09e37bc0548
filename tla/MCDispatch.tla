----------------------------- MODULE MCDispatch -----------------------------
(* Instances of Dispatch for TLC. *)
EXTENDS Dispatch, TLC

CONSTANTS n1, n2, w1

NoEdges    == {}
NoPolicies == [e \in NoEdges |-> "cancel"]
InOrder    == {[j \in Job |-> j]}

=============================================================================
