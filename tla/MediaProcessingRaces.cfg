\* Two consumers handle two entries, of the same event among others; a job that raises
\* is out of attempts at once, so that its hook can run and get lost.
SPECIFICATION Spec
CONSTANTS
    transcode = transcode
    plagiarism = plagiarism
    v1 = v1
    Malformed = Malformed
    Video = {v1}
    JobKind = {transcode, plagiarism}
    JobOrder <- TwoKinds
    Replicas = 2
    Retries = 1
    MaxEntries = 2
    MaxFaults = 1
INVARIANTS
    AckedIsDone
    CompletionNotLost
\* The service is idle once every entry has been handled and every job is over.
CHECK_DEADLOCK FALSE
