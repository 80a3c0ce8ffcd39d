----------------------------- MODULE MCLogViewer -----------------------------
(* Instances of LogViewer for TLC. *)
EXTENDS LogViewer, TLC

\* Worker processes are interchangeable: no action or property names one.
WriterSymmetry == Permutations(Writer)
=============================================================================
