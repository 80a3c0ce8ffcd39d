-------------------------- MODULE MCMediaProcessing --------------------------
(* Instances of MediaProcessing for TLC. *)
EXTENDS MediaProcessing

CONSTANTS transcode, plagiarism, v1

\* JobKind in declaration order, cut to its first two members.
TwoKinds == <<transcode, plagiarism>>
=============================================================================
