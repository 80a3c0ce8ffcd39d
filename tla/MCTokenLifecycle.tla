--------------------------- MODULE MCTokenLifecycle ---------------------------
(* Instances of TokenLifecycle for TLC. *)
EXTENDS TokenLifecycle, TLC

\* Requests are interchangeable: pairs are numbered, and no property names one.
RequestSymmetry == Permutations(Request)
=============================================================================
