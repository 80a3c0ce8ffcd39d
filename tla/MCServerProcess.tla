--------------------------- MODULE MCServerProcess ---------------------------
(* Instances of ServerProcess for TLC. *)
EXTENDS ServerProcess, TLC

CONSTANTS p1, p2, c1, c2
=============================================================================
