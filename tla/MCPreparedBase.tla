--------------------------- MODULE MCPreparedBase ---------------------------
(* Instances of PreparedBase for TLC. *)
EXTENDS PreparedBase, TLC

CONSTANTS f, g, p1, p2, r1

\* No symmetry: LockComesFree is a liveness property.

=============================================================================
