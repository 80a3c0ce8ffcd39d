---------------------------- MODULE MCVideoUpload ----------------------------
(* Instances of VideoUpload for TLC. *)
EXTENDS VideoUpload, TLC

\* Requests and relays are interchangeable: no action or property names one.
UploadSymmetry == Permutations(Request) \cup Permutations(Relay)
=============================================================================
