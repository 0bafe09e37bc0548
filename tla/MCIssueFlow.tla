---------------------------- MODULE MCIssueFlow ----------------------------
(* Instances of IssueFlow for TLC. *)
EXTENDS IssueFlow, TLC

CONSTANTS c1, c2, k1

\* Two deliveries of the same label on the same issue.
SameIssue == c1 :> k1 @@ c2 :> k1

=============================================================================
