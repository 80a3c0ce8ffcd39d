--------------------------- MODULE MediaProcessing ---------------------------
(***************************************************************************)
(* The media_processing context of event_microservice, from the            *)
(* video_uploaded stream to the video_status stream.                       *)
(*                                                                         *)
(* A delivery is one execution of the FastStream handler on one stream     *)
(* entry; it checks the inbox, enqueues one SAQ job per JobKind, publishes *)
(* video_processing_started, marks the inbox and acks.  A job adds its     *)
(* kind to the join record of its video; the one that completes the set    *)
(* publishes video_processed and clears the record.  A job that exhausts   *)
(* its retries goes through the after_process hook.                        *)
(*                                                                         *)
(* The subscriber reads new entries only and nobody claims pending ones,   *)
(* so an entry is handled at most once.  An event is handled again when    *)
(* the backend's relay, which publishes at least once, appends it again.   *)
(*                                                                         *)
(* Every await on Valkey or SAQ is a step of its own: deliveries and jobs  *)
(* interleave between any two of them, and each may raise or die there.    *)
(***************************************************************************)
EXTENDS Naturals, Sequences, FiniteSets

CONSTANTS
    Video,       \* the videos, one upload event each
    Malformed,   \* a payload that does not decode
    JobKind,     \* the members of the enum JobKind
    JobOrder,    \* the same members, in declaration order
    Replicas,    \* consumer processes, each handling one entry at a time
    Retries,     \* job_retries: how many times SAQ starts a job
    MaxEntries,  \* bound on the entries of video_uploaded
    MaxFaults    \* bound on exceptions, crashes, lost calls and expiries

\* A payload that does not decode names no video.
ASSUME VideoAssumption == Malformed \notin Video

\* JobOrder enumerates JobKind without repetition.
ASSUME JobOrderAssumption ==
    /\ IsFiniteSet(JobKind) /\ JobKind # {}
    /\ JobOrder \in Seq(JobKind)
    /\ \A k \in JobKind : \E i \in 1..Len(JobOrder) : JobOrder[i] = k
    /\ \A i, j \in 1..Len(JobOrder) : JobOrder[i] = JobOrder[j] => i = j

\* SAQ starts a job at least once.
ASSUME BoundsAssumption ==
    /\ Replicas \in Nat \ {0} /\ Retries \in Nat \ {0}
    /\ MaxEntries \in Nat /\ MaxFaults \in Nat

VARIABLES
    uploaded,   \* the video_uploaded stream: the payloads in order
    acked,      \* the entries the group has acknowledged
    inbox,      \* the events marked processed and not yet expired
    forgotten,  \* history: the events whose inbox mark has expired
    handler,    \* where each delivery is in the handler
    video,      \* the video its payload decoded to
    next,       \* the next member of JobOrder it enqueues
    job,        \* job[d][k]: where the job of kind k enqueued by d is
    attempts,   \* attempts[d][k]: how many times SAQ has started it
    join,       \* the join record of each video: a set of kinds
    dropped,    \* history: videos whose record vanished before completion
    worked,     \* history: the kinds whose work has finished, per video
    status,     \* the video_status stream
    faults      \* faults so far

deliveryVars == <<inbox, handler, video, next>>
jobVars == <<job, attempts>>
vars == <<uploaded, acked, inbox, forgotten, handler, video, next,
          job, attempts, join, dropped, worked, status, faults>>

Payload == Video \cup {Malformed}

\* A delivery goes by the position of its entry.
Delivery == 1..MaxEntries

FanOut == Cardinality(JobKind)

InHandler == {"check", "enqueue", "publish", "mark", "ack"}
HandlerState == {"idle", "done", "raised"} \cup InHandler

\* The states of a job inside complete_job, and inside the after_process hook.
InJob == {"work", "add", "publish", "clear", "finish"}
InHook == {"hook_publish", "hook_clear"}
JobState == {"none", "queued", "complete", "failed", "aborted"} \cup InJob \cup InHook

Started == "video_processing_started"
Processed == "video_processed"
Failed == "video_processing_failed"
StatusEvent == [type : {Started, Processed, Failed}, video : Video]

Event(type, v) == [type |-> type, video |-> v]
Publish(type, v) == status' = Append(status, Event(type, v))
Published(type, v) == \E i \in 1..Len(status) : status[i] = Event(type, v)

Fault == faults < MaxFaults /\ faults' = faults + 1

-----------------------------------------------------------------------------
(* The upload handler *)

\* The backend's relay appends an entry, at least once per upload.
Upload(p) ==
    /\ Len(uploaded) < MaxEntries
    /\ uploaded' = Append(uploaded, p)
    /\ UNCHANGED <<acked, deliveryVars, forgotten, jobVars, join, dropped, worked,
                   status, faults>>

\* XREADGROUP with ">" gives each entry to one consumer, once and in order.  What a
\* consumer was given in one reply it handles one by one; others handle later entries.
Deliverable(d) ==
    \A e \in 1 .. d - 1 :
        handler[e] # "idle" \/ \E b \in 1 .. e - 1 : handler[b] \in InHandler

\* A payload that does not decode is only logged and acked.
Receive(d) ==
    /\ handler[d] = "idle"
    /\ d <= Len(uploaded) /\ Deliverable(d)
    /\ Cardinality({e \in Delivery : handler[e] \in InHandler}) < Replicas
    /\ video' = [video EXCEPT ![d] = uploaded[d]]
    /\ handler' = [handler EXCEPT ![d] = IF uploaded[d] = Malformed THEN "ack" ELSE "check"]
    /\ UNCHANGED <<uploaded, acked, inbox, forgotten, next, jobVars, join, dropped, worked,
                   status, faults>>

\* Mutant of CheckInbox: check and mark in one go, before the work is done.
CheckAndMark(d) ==
    /\ handler[d] = "check"
    /\ handler' = [handler EXCEPT ![d] = IF video[d] \in inbox THEN "ack" ELSE "enqueue"]
    /\ inbox' = inbox \cup {video[d]}
    /\ UNCHANGED <<uploaded, acked, forgotten, video, next, jobVars, join, dropped, worked,
                   status, faults>>

\* seen(): an event already marked goes straight to the ack.
CheckInbox(d) ==
    /\ handler[d] = "check"
    /\ handler' = [handler EXCEPT ![d] = IF video[d] \in inbox THEN "ack" ELSE "enqueue"]
    /\ UNCHANGED <<uploaded, acked, inbox, forgotten, video, next, jobVars, join,
                   dropped, worked, status, faults>>

\* One enqueue of the fan-out loop: a new job, with no dedup key.
Enqueue(d) ==
    /\ handler[d] = "enqueue"
    /\ job' = [job EXCEPT ![d][JobOrder[next[d]]] = "queued"]
    /\ next' = [next EXCEPT ![d] = @ + 1]
    /\ handler' = [handler EXCEPT ![d] = IF next[d] = Len(JobOrder) THEN "publish" ELSE @]
    /\ UNCHANGED <<uploaded, acked, inbox, forgotten, video, attempts, join, dropped,
                   worked, status, faults>>

\* Mutant of PublishStarted: the mark is forgotten.
PublishWithoutMark(d) ==
    /\ handler[d] = "publish"
    /\ Publish(Started, video[d])
    /\ handler' = [handler EXCEPT ![d] = "ack"]
    /\ UNCHANGED <<uploaded, acked, inbox, forgotten, video, next, jobVars, join,
                   dropped, worked, faults>>

PublishStarted(d) ==
    /\ handler[d] = "publish"
    /\ Publish(Started, video[d])
    /\ handler' = [handler EXCEPT ![d] = "mark"]
    /\ UNCHANGED <<uploaded, acked, inbox, forgotten, video, next, jobVars, join,
                   dropped, worked, faults>>

MarkProcessed(d) ==
    /\ handler[d] = "mark"
    /\ inbox' = inbox \cup {video[d]}
    /\ handler' = [handler EXCEPT ![d] = "ack"]
    /\ UNCHANGED <<uploaded, acked, forgotten, video, next, jobVars, join, dropped,
                   worked, status, faults>>

Ack(d) ==
    /\ handler[d] = "ack"
    /\ acked' = acked \cup {d}
    /\ handler' = [handler EXCEPT ![d] = "done"]
    /\ UNCHANGED <<uploaded, inbox, forgotten, video, next, jobVars, join, dropped,
                   worked, status, faults>>

\* A PortError propagates, or the consumer dies, with all that it was given: no ack.
\* The entry stays pending, and nobody reads it again.
Raise(d) ==
    /\ handler[d] \in InHandler
    /\ Fault
    /\ handler' = [handler EXCEPT ![d] = "raised"]
    /\ UNCHANGED <<uploaded, acked, inbox, forgotten, video, next, jobVars, join,
                   dropped, worked, status>>

\* The mark's TTL runs out.
ExpireInbox(v) ==
    /\ v \in inbox
    /\ Fault
    /\ inbox' = inbox \ {v}
    /\ forgotten' = forgotten \cup {v}
    /\ UNCHANGED <<uploaded, acked, handler, video, next, jobVars, join, dropped,
                   worked, status>>

-----------------------------------------------------------------------------
(* The jobs and the join *)

MoveJob(d, k, s) == job' = [job EXCEPT ![d][k] = s]

unchangedByJobs == <<uploaded, acked, deliveryVars, forgotten>>

\* SAQ hands a queued job to a worker and counts the attempt.
Dequeue(d, k) ==
    /\ job[d][k] = "queued"
    /\ MoveJob(d, k, "work")
    /\ attempts' = [attempts EXCEPT ![d][k] = @ + 1]
    /\ UNCHANGED <<unchangedByJobs, join, dropped, worked, status, faults>>

\* The work itself: a sleep, a thread pool call or a process pool call.
Work(d, k) ==
    /\ job[d][k] = "work"
    /\ MoveJob(d, k, "add")
    /\ worked' = [worked EXCEPT ![video[d]] = @ \cup {k}]
    /\ UNCHANGED <<unchangedByJobs, attempts, join, dropped, status, faults>>

\* Mutant of IsComplete: one kind too few.
IsCompleteTooEarly(n) == n + 1 >= FanOut

IsComplete(n) == n >= FanOut

\* Mutant of AddToJoin: the record is cleared before the event is published.
AddAndClear(d, k) ==
    LET v == video[d]
        full == IsComplete(Cardinality(join[v] \cup {k}))
    IN  /\ job[d][k] = "add"
        /\ join' = [join EXCEPT ![v] = IF full THEN {} ELSE @ \cup {k}]
        /\ MoveJob(d, k, IF full THEN "publish" ELSE "finish")
        /\ UNCHANGED <<unchangedByJobs, attempts, dropped, worked, status, faults>>

\* SADD, EXPIRE and SCARD in one transaction, and the test on the count it returns.
AddToJoin(d, k) ==
    /\ job[d][k] = "add"
    /\ join' = [join EXCEPT ![video[d]] = @ \cup {k}]
    /\ MoveJob(d, k, IF IsComplete(Cardinality(join'[video[d]])) THEN "publish" ELSE "finish")
    /\ UNCHANGED <<unchangedByJobs, attempts, dropped, worked, status, faults>>

PublishProcessed(d, k) ==
    /\ job[d][k] = "publish"
    /\ Publish(Processed, video[d])
    /\ MoveJob(d, k, "clear")
    /\ UNCHANGED <<unchangedByJobs, attempts, join, dropped, worked, faults>>

ClearJoin(d, k) ==
    /\ job[d][k] = "clear"
    /\ join' = [join EXCEPT ![video[d]] = {}]
    /\ MoveJob(d, k, "finish")
    /\ UNCHANGED <<unchangedByJobs, attempts, dropped, worked, status, faults>>

Finish(d, k) ==
    /\ job[d][k] = "finish"
    /\ MoveJob(d, k, "complete")
    /\ UNCHANGED <<unchangedByJobs, attempts, join, dropped, worked, status, faults>>

\* Mutant of Retryable: one attempt too many.
RetryableOnceMore(d, k) == attempts[d][k] <= Retries

Retryable(d, k) == attempts[d][k] < Retries

\* Mutant of AfterException: the hook does not look at the attempts.
HookOnEveryException(d, k) == "hook_publish"

\* SAQ requeues a job that has attempts left, and the hook returns at once;
\* otherwise the job is over and the hook runs on_job_failed.
AfterException(d, k) == IF Retryable(d, k) THEN "queued" ELSE "hook_publish"

\* The job raises or times out.  In "finish" this is the last Valkey call
\* taking effect without its reply arriving.
JobRaises(d, k) ==
    /\ job[d][k] \in InJob
    /\ Fault
    /\ MoveJob(d, k, AfterException(d, k))
    /\ UNCHANGED <<unchangedByJobs, attempts, join, dropped, worked, status>>

\* The worker dies: SAQ's sweep requeues the job or aborts it, and no hook runs.
WorkerDies(d, k) ==
    /\ job[d][k] \in InJob
    /\ Fault
    /\ MoveJob(d, k, IF Retryable(d, k) THEN "queued" ELSE "aborted")
    /\ UNCHANGED <<unchangedByJobs, attempts, join, dropped, worked, status>>

HookPublish(d, k) ==
    /\ job[d][k] = "hook_publish"
    /\ Publish(Failed, video[d])
    /\ MoveJob(d, k, "hook_clear")
    /\ UNCHANGED <<unchangedByJobs, attempts, join, dropped, worked, faults>>

\* The PortError of publish_failed is swallowed.  A job has one hook, so what becomes
\* of it needs no bound.
HookPublishLost(d, k) ==
    /\ job[d][k] = "hook_publish"
    /\ MoveJob(d, k, "hook_clear")
    /\ UNCHANGED <<unchangedByJobs, attempts, join, dropped, worked, status, faults>>

HookClear(d, k) ==
    /\ job[d][k] = "hook_clear"
    /\ join' = [join EXCEPT ![video[d]] = {}]
    /\ dropped' = dropped \cup {video[d]}
    /\ MoveJob(d, k, "failed")
    /\ UNCHANGED <<unchangedByJobs, attempts, worked, status, faults>>

\* The hook swallows every exception, and nobody runs it again if the worker dies.
HookAbandoned(d, k) ==
    /\ job[d][k] \in InHook
    /\ MoveJob(d, k, "failed")
    /\ UNCHANGED <<unchangedByJobs, attempts, join, dropped, worked, status, faults>>

\* The TTL of the join record runs out.
ExpireJoin(v) ==
    /\ join[v] # {}
    /\ Fault
    /\ join' = [join EXCEPT ![v] = {}]
    /\ dropped' = dropped \cup {v}
    /\ UNCHANGED <<unchangedByJobs, jobVars, worked, status>>

-----------------------------------------------------------------------------
Init ==
    /\ uploaded = <<>>
    /\ acked = {}
    /\ inbox = {}
    /\ forgotten = {}
    /\ handler = [d \in Delivery |-> "idle"]
    /\ video = [d \in Delivery |-> Malformed]
    /\ next = [d \in Delivery |-> 1]
    /\ job = [d \in Delivery |-> [k \in JobKind |-> "none"]]
    /\ attempts = [d \in Delivery |-> [k \in JobKind |-> 0]]
    /\ join = [v \in Video |-> {}]
    /\ dropped = {}
    /\ worked = [v \in Video |-> {}]
    /\ status = <<>>
    /\ faults = 0

HandlerStep(d) ==
    \/ CheckInbox(d)
    \/ Enqueue(d)
    \/ PublishStarted(d)
    \/ MarkProcessed(d)
    \/ Ack(d)

JobStep(d, k) ==
    \/ Dequeue(d, k)
    \/ Work(d, k)
    \/ AddToJoin(d, k)
    \/ PublishProcessed(d, k)
    \/ ClearJoin(d, k)
    \/ Finish(d, k)
    \/ HookPublish(d, k)
    \/ HookClear(d, k)

JobFault(d, k) ==
    \/ JobRaises(d, k)
    \/ WorkerDies(d, k)
    \/ HookPublishLost(d, k)
    \/ HookAbandoned(d, k)

Next ==
    \/ \E p \in Payload : Upload(p)
    \/ \E d \in Delivery : Receive(d) \/ HandlerStep(d) \/ Raise(d)
    \/ \E d \in Delivery, k \in JobKind : JobStep(d, k) \/ JobFault(d, k)
    \/ \E v \in Video : ExpireInbox(v) \/ ExpireJoin(v)

Spec == Init /\ [][Next]_vars

\* What consumers and workers do that is not a fault.
Progress ==
    \/ \E d \in Delivery : Receive(d) \/ HandlerStep(d)
    \/ \E d \in Delivery, k \in JobKind : JobStep(d, k)

\* The event loops keep running: as long as something can be done, something is.
\* Nobody is preferred, and each delivery and each job has finitely many steps.
Fairness == WF_vars(Progress)

FairSpec == Spec /\ Fairness

-----------------------------------------------------------------------------
(* Properties *)

\* Every variable ranges over the values the code gives it; no job is started
\* more than job_retries times.
TypeOK ==
    /\ uploaded \in Seq(Payload)
    /\ acked \in SUBSET (1..Len(uploaded))
    /\ inbox \in SUBSET Video
    /\ forgotten \in SUBSET Video
    /\ handler \in [Delivery -> HandlerState]
    /\ video \in [Delivery -> Payload]
    /\ next \in [Delivery -> 1..Len(JobOrder) + 1]
    /\ job \in [Delivery -> [JobKind -> JobState]]
    /\ attempts \in [Delivery -> [JobKind -> 0..Retries]]
    /\ join \in [Video -> SUBSET JobKind]
    /\ dropped \in SUBSET Video
    /\ worked \in [Video -> SUBSET JobKind]
    /\ status \in Seq(StatusEvent)
    /\ faults \in 0..MaxFaults

\* video_processed is announced only for a video all of whose kinds of work
\* have finished, whatever was retried, enqueued twice, cleared or expired.
ProcessedMeansAllWorked ==
    \A v \in Video : Published(Processed, v) => worked[v] = JobKind

\* video_processing_failed is announced only when some job of the video has
\* used all its attempts.
FailedMeansExhausted ==
    \A v \in Video : Published(Failed, v) =>
        \E d \in Delivery, k \in JobKind :
            /\ video[d] = v
            /\ job[d][k] \in {"hook_clear", "failed"}
            /\ attempts[d][k] = Retries

\* Every kind of job of video v has been enqueued by one delivery, and v announced.
FannedOut(v) ==
    /\ Published(Started, v)
    /\ \E d \in Delivery : video[d] = v /\ \A k \in JobKind : job[d][k] # "none"

\* An acknowledged upload has been fanned out: no interleaving of raising
\* handlers, repeated events and expiring marks acks an upload whose jobs are not
\* all in the queue.
NoLostUpload ==
    \A i \in acked : uploaded[i] \in Video => FannedOut(uploaded[i])

\* An acknowledged upload that is announced again has no effect until its mark expires.
AckedIsDeduplicated ==
    \A i \in acked : uploaded[i] \in Video \ forgotten => uploaded[i] \in inbox

\* An acknowledgement is the end of an upload's delivery: nothing that was to be
\* done for it is missing, and nothing is done for it again.
AckedIsDone == NoLostUpload /\ AckedIsDeduplicated

\* Each kind has a job that ran to its end.
AllComplete(v) ==
    \A k \in JobKind : \E d \in Delivery : video[d] = v /\ job[d][k] = "complete"

\* The last job to complete never misses that it is the last: if every kind of
\* a video has a complete job then video_processed was announced, unless the
\* join record expired or was cleared by a terminal failure.
CompletionNotLost ==
    \A v \in Video \ dropped : AllComplete(v) => Published(Processed, v)

\* What an upload ends in: a terminal event, or one of the losses the code
\* accepts (the hook's event is lost, a sweep aborts the job, the join expires).
Settled(v) ==
    \/ Published(Processed, v) \/ Published(Failed, v)
    \/ v \in dropped
    \/ \E d \in Delivery, k \in JobKind : video[d] = v /\ job[d][k] \in {"failed", "aborted"}

\* Every upload is acknowledged in the end and settled, by a terminal event or an
\* accepted loss, unless its own handler raised: that of an earlier entry of the
\* same event may have raised half way through.
EveryUploadSettles ==
    \A d \in Delivery :
        d <= Len(uploaded) /\ uploaded[d] # Malformed
            ~> handler[d] = "raised" \/ (d \in acked /\ Settled(uploaded[d]))

=============================================================================
