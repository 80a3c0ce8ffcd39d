\* An event and its repetition, with enough faults to exhaust a job or to fail a
\* delivery and a job, under fairness.
SPECIFICATION FairSpec
CONSTANTS
    transcode = transcode
    plagiarism = plagiarism
    v1 = v1
    Malformed = Malformed
    Video = {v1}
    JobKind = {transcode, plagiarism}
    JobOrder <- TwoKinds
    Replicas = 1
    Retries = 2
    MaxEntries = 2
    MaxFaults = 2
INVARIANTS
    TypeOK
    ProcessedMeansAllWorked
    FailedMeansExhausted
PROPERTY
    EveryUploadSettles
\* The service is idle once every entry has been handled and every job is over.
CHECK_DEADLOCK FALSE
