----------------------------- MODULE MCVideoFeed -----------------------------
(* Instances of VideoFeed for TLC. *)
EXTENDS VideoFeed, TLC

CONSTANTS c1, c2, c3
=============================================================================
