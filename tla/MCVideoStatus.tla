---------------------------- MODULE MCVideoStatus ----------------------------
(* Instances of VideoStatus for TLC. *)
EXTENDS VideoStatus, TLC

CONSTANTS v1, v2

Started(v) == [type |-> "video_processing_started", video |-> v]
Processed(v) == [type |-> "video_processed", video |-> v]
FailedEvent(v) == [type |-> "video_processing_failed", video |-> v]
Unreadable == [type |-> "unusable", video |-> v1]

\* Streams MediaProcessing produces: two starts of an upload that was appended twice,
\* a failure that overtakes the start, a success and a failure; and a payload nobody
\* can use.
Varied == {
    <<Started(v1), Started(v1), Processed(v1)>>,
    <<Started(v1), Processed(v1), FailedEvent(v1)>>,
    <<FailedEvent(v1), Unreadable, Started(v1)>>}

\* Two videos in one batch, and one that both fails and succeeds.
Mixed == {
    <<Started(v1), FailedEvent(v2)>>,
    <<Started(v1), FailedEvent(v1), Processed(v1)>>}

ConsumerSymmetry == Permutations(Consumer)
=============================================================================
