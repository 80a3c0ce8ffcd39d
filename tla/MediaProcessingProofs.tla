----------------------- MODULE MediaProcessingProofs -----------------------
(* Proofs about MediaProcessing, for every value of its constants. *)
EXTENDS MediaProcessing, FiniteSetTheorems, TLAPS

-----------------------------------------------------------------------------
(* Types *)

\* What each delivery knows where it is: before the fan-out it has enqueued
\* nothing, and during it nothing from next on; in the handler it has decoded
\* its entry.
HandlerControl(d) ==
    /\ handler[d] \in {"idle", "check"} => next[d] = 1 /\ \A k \in JobKind : job[d][k] = "none"
    /\ handler[d] = "enqueue" =>
          /\ next[d] <= Len(JobOrder)
          /\ \A i \in next[d]..Len(JobOrder) : job[d][JobOrder[i]] = "none"
    /\ handler[d] \in InHandler => d \in 1..Len(uploaded) /\ video[d] = uploaded[d]
    /\ handler[d] \in InHandler \ {"ack"} => video[d] \in Video

\* What is known of a job: only a decoded upload has one, it has no attempts
\* before it is enqueued, and a queued job has one left.
JobControl(d, k) ==
    /\ job[d][k] = "none" => attempts[d][k] = 0
    /\ job[d][k] # "none" => video[d] \in Video
    /\ job[d][k] = "queued" => attempts[d][k] < Retries

\* TypeOK is not inductive: next and attempts stay in range because of where
\* the handler and the job are.
TypeInv ==
    /\ TypeOK
    /\ \A d \in Delivery : HandlerControl(d)
    /\ \A d \in Delivery, k \in JobKind : JobControl(d, k)

\* The loop runs at least once, and each turn of it picks a kind.
LEMMA JobOrderIndices ==
    /\ Len(JobOrder) \in Nat \ {0}
    /\ \A i \in 1..Len(JobOrder) : JobOrder[i] \in JobKind
    /\ \A i, j \in 1..Len(JobOrder) : JobOrder[i] = JobOrder[j] => i = j
BY JobOrderAssumption

LEMMA TypeInit == Init => TypeInv
<1> SUFFICES ASSUME Init PROVE TypeInv
  OBVIOUS
<1>1. TypeOK
  BY JobOrderIndices, BoundsAssumption
  DEF Init, TypeOK, Payload, HandlerState, JobState
<1>2. ASSUME NEW d \in Delivery PROVE HandlerControl(d)
  BY JobOrderIndices DEF Init, HandlerControl, InHandler
<1>3. ASSUME NEW d \in Delivery, NEW k \in JobKind PROVE JobControl(d, k)
  BY DEF Init, JobControl
<1> QED BY <1>1, <1>2, <1>3 DEF TypeInv

\* Every step keeps the variables in their types.
LEMMA TypeOKStep ==
    ASSUME TypeOK, [Next]_vars,
           \A d \in Delivery : HandlerControl(d),
           \A d \in Delivery, k \in JobKind : JobControl(d, k)
    PROVE  TypeOK'
<1>1. ASSUME NEW p \in Payload, Upload(p) PROVE TypeOK'
  BY <1>1 DEF Upload, TypeOK, deliveryVars, jobVars
<1>2. ASSUME NEW d \in Delivery, Receive(d) PROVE TypeOK'
  BY <1>2, BoundsAssumption DEF Receive, Delivery, TypeOK, jobVars, HandlerState, InHandler, Payload
<1>3. ASSUME NEW d \in Delivery, CheckInbox(d) PROVE TypeOK'
  BY <1>3 DEF CheckInbox, TypeOK, jobVars, HandlerState, InHandler
<1>4. ASSUME NEW d \in Delivery, Enqueue(d) PROVE TypeOK'
  BY <1>4, JobOrderIndices
  DEF Enqueue, TypeOK, HandlerState, InHandler, JobState, HandlerControl
<1>5. ASSUME NEW d \in Delivery, PublishStarted(d) PROVE TypeOK'
  BY <1>5
  DEF PublishStarted, TypeOK, jobVars, Publish, Event, HandlerState, InHandler,
      HandlerControl, StatusEvent, Started, Processed, Failed
<1>6. ASSUME NEW d \in Delivery, MarkProcessed(d) PROVE TypeOK'
  BY <1>6 DEF MarkProcessed, TypeOK, jobVars, HandlerState, InHandler, HandlerControl
<1>7. ASSUME NEW d \in Delivery, Ack(d) PROVE TypeOK'
  <2>1. d \in 1..Len(uploaded)
    BY <1>7 DEF Ack, TypeOK, HandlerControl, InHandler
  <2> QED
    BY <1>7, <2>1 DEF Ack, TypeOK, HandlerState, jobVars
<1>8. ASSUME NEW d \in Delivery, Raise(d) PROVE TypeOK'
  BY <1>8, BoundsAssumption DEF Raise, TypeOK, jobVars, Fault, HandlerState
<1>9. ASSUME NEW d \in Delivery, NEW k \in JobKind, Dequeue(d, k) PROVE TypeOK'
  BY <1>9, BoundsAssumption
  DEF Dequeue, TypeOK, unchangedByJobs, MoveJob, deliveryVars, JobState, InJob,
      JobControl
<1>10. ASSUME NEW d \in Delivery, NEW k \in JobKind, Work(d, k) PROVE TypeOK'
  BY <1>10
  DEF Work, TypeOK, unchangedByJobs, MoveJob, deliveryVars, JobState, InJob, JobControl
<1>11. ASSUME NEW d \in Delivery, NEW k \in JobKind, AddToJoin(d, k) PROVE TypeOK'
  BY <1>11
  DEF AddToJoin, TypeOK, unchangedByJobs, MoveJob, IsComplete, deliveryVars, JobState,
      InJob, JobControl
<1>12. ASSUME NEW d \in Delivery, NEW k \in JobKind, PublishProcessed(d, k) PROVE TypeOK'
  BY <1>12
  DEF PublishProcessed, TypeOK, unchangedByJobs, Publish, MoveJob, deliveryVars, Event,
      JobState, InJob, JobControl, StatusEvent, Started, Processed, Failed
<1>13. ASSUME NEW d \in Delivery, NEW k \in JobKind, ClearJoin(d, k) PROVE TypeOK'
  BY <1>13
  DEF ClearJoin, TypeOK, unchangedByJobs, MoveJob, deliveryVars, JobState, InHook,
      InJob, JobControl
<1>14. ASSUME NEW d \in Delivery, NEW k \in JobKind, Finish(d, k) PROVE TypeOK'
  BY <1>14 DEF Finish, TypeOK, unchangedByJobs, MoveJob, deliveryVars, JobState
<1>15. ASSUME NEW d \in Delivery, NEW k \in JobKind, HookPublish(d, k) PROVE TypeOK'
  BY <1>15
  DEF HookPublish, TypeOK, unchangedByJobs, Publish, MoveJob, deliveryVars, Event,
      JobState, InHook, JobControl, StatusEvent, Started, Processed, Failed
<1>16. ASSUME NEW d \in Delivery, NEW k \in JobKind, HookClear(d, k) PROVE TypeOK'
  BY <1>16
  DEF HookClear, TypeOK, unchangedByJobs, MoveJob, deliveryVars, JobState, JobControl
<1>17. ASSUME NEW d \in Delivery, NEW k \in JobKind, JobRaises(d, k) PROVE TypeOK'
  BY <1>17, BoundsAssumption
  DEF JobRaises, TypeOK, unchangedByJobs, Fault, MoveJob, AfterException, deliveryVars,
      Retryable, JobState, InJob, InHook
<1>18. ASSUME NEW d \in Delivery, NEW k \in JobKind, WorkerDies(d, k) PROVE TypeOK'
  BY <1>18, BoundsAssumption
  DEF WorkerDies, TypeOK, unchangedByJobs, Fault, MoveJob, Retryable, deliveryVars,
      JobState
<1>19. ASSUME NEW d \in Delivery, NEW k \in JobKind, HookPublishLost(d, k) PROVE TypeOK'
  BY <1>19, BoundsAssumption
  DEF HookPublishLost, TypeOK, unchangedByJobs, Fault, MoveJob, deliveryVars, JobState,
      InHook
<1>20. ASSUME NEW d \in Delivery, NEW k \in JobKind, HookAbandoned(d, k) PROVE TypeOK'
  BY <1>20, BoundsAssumption
  DEF HookAbandoned, TypeOK, unchangedByJobs, Fault, MoveJob, deliveryVars, JobState
<1>21. ASSUME NEW v \in Video, ExpireInbox(v) PROVE TypeOK'
  BY <1>21, BoundsAssumption DEF ExpireInbox, TypeOK, jobVars, Fault
<1>22. ASSUME NEW v \in Video, ExpireJoin(v) PROVE TypeOK'
  BY <1>22, BoundsAssumption
  DEF ExpireJoin, TypeOK, jobVars, unchangedByJobs, Fault, deliveryVars
<1>23. CASE UNCHANGED vars
  BY <1>23 DEF vars, TypeOK
<1> QED
  BY <1>1, <1>2, <1>3, <1>4, <1>5, <1>6, <1>7, <1>8, <1>9, <1>10, <1>11, <1>12, <1>13,
     <1>14, <1>15, <1>16, <1>17, <1>18, <1>19, <1>20, <1>21, <1>22, <1>23
  DEF Next, HandlerStep, JobStep, JobFault

\* Every step keeps each delivery's control.
LEMMA HandlerControlStep ==
    ASSUME TypeOK, [Next]_vars, NEW e \in Delivery, HandlerControl(e)
    PROVE  HandlerControl(e)'
<1>1. ASSUME NEW p \in Payload, Upload(p) PROVE HandlerControl(e)'
  BY <1>1 DEF Upload, TypeOK, HandlerControl, InHandler, deliveryVars, jobVars
<1>2. ASSUME NEW d \in Delivery, Receive(d)
      PROVE  HandlerControl(e)'
  BY <1>2, JobOrderIndices, BoundsAssumption
  DEF Receive, Delivery, TypeOK, HandlerControl, InHandler, jobVars, Payload
<1>3. ASSUME NEW d \in Delivery, CheckInbox(d) PROVE HandlerControl(e)'
  BY <1>3, JobOrderIndices DEF CheckInbox, TypeOK, HandlerControl, InHandler, jobVars
<1>4. ASSUME NEW d \in Delivery, Enqueue(d) PROVE HandlerControl(e)'
  BY <1>4, JobOrderIndices DEF Enqueue, TypeOK, HandlerControl, InHandler
<1>5. ASSUME NEW d \in Delivery, PublishStarted(d) PROVE HandlerControl(e)'
  BY <1>5 DEF PublishStarted, TypeOK, HandlerControl, InHandler, jobVars, Publish, Event
<1>6. ASSUME NEW d \in Delivery, MarkProcessed(d) PROVE HandlerControl(e)'
  BY <1>6 DEF MarkProcessed, TypeOK, HandlerControl, InHandler, jobVars
<1>7. ASSUME NEW d \in Delivery, Ack(d) PROVE HandlerControl(e)'
  BY <1>7 DEF Ack, TypeOK, HandlerControl, InHandler, jobVars
<1>8. ASSUME NEW d \in Delivery, Raise(d) PROVE HandlerControl(e)'
  BY <1>8 DEF Raise, TypeOK, HandlerControl, InHandler, jobVars, Fault
<1>9. ASSUME NEW d \in Delivery, NEW k \in JobKind, Dequeue(d, k) PROVE HandlerControl(e)'
  BY <1>9
  DEF Dequeue, TypeOK, HandlerControl, InHandler, unchangedByJobs, MoveJob, deliveryVars
<1>10. ASSUME NEW d \in Delivery, NEW k \in JobKind, Work(d, k) PROVE HandlerControl(e)'
  BY <1>10
  DEF Work, TypeOK, HandlerControl, InHandler, unchangedByJobs, MoveJob, deliveryVars
<1>11. ASSUME NEW d \in Delivery, NEW k \in JobKind, AddToJoin(d, k)
      PROVE  HandlerControl(e)'
  BY <1>11
  DEF AddToJoin, TypeOK, HandlerControl, InHandler, unchangedByJobs, MoveJob,
      IsComplete, deliveryVars
<1>12. ASSUME NEW d \in Delivery, NEW k \in JobKind, PublishProcessed(d, k)
      PROVE  HandlerControl(e)'
  BY <1>12
  DEF PublishProcessed, TypeOK, HandlerControl, InHandler, unchangedByJobs, Publish,
      MoveJob, deliveryVars, Event
<1>13. ASSUME NEW d \in Delivery, NEW k \in JobKind, ClearJoin(d, k)
      PROVE  HandlerControl(e)'
  BY <1>13
  DEF ClearJoin, TypeOK, HandlerControl, InHandler, unchangedByJobs, MoveJob,
      deliveryVars
<1>14. ASSUME NEW d \in Delivery, NEW k \in JobKind, Finish(d, k) PROVE HandlerControl(e)'
  BY <1>14
  DEF Finish, TypeOK, HandlerControl, InHandler, unchangedByJobs, MoveJob, deliveryVars
<1>15. ASSUME NEW d \in Delivery, NEW k \in JobKind, HookPublish(d, k)
      PROVE  HandlerControl(e)'
  BY <1>15
  DEF HookPublish, TypeOK, HandlerControl, InHandler, unchangedByJobs, Publish, MoveJob,
      deliveryVars, Event
<1>16. ASSUME NEW d \in Delivery, NEW k \in JobKind, HookClear(d, k)
      PROVE  HandlerControl(e)'
  BY <1>16
  DEF HookClear, TypeOK, HandlerControl, InHandler, unchangedByJobs, MoveJob,
      deliveryVars
<1>17. ASSUME NEW d \in Delivery, NEW k \in JobKind, JobRaises(d, k)
      PROVE  HandlerControl(e)'
  BY <1>17
  DEF JobRaises, TypeOK, HandlerControl, InHandler, unchangedByJobs, Fault, MoveJob,
      AfterException, deliveryVars, Retryable, InJob
<1>18. ASSUME NEW d \in Delivery, NEW k \in JobKind, WorkerDies(d, k)
      PROVE  HandlerControl(e)'
  BY <1>18
  DEF WorkerDies, TypeOK, HandlerControl, InHandler, unchangedByJobs, Fault, MoveJob,
      Retryable, deliveryVars, InJob
<1>19. ASSUME NEW d \in Delivery, NEW k \in JobKind, HookPublishLost(d, k)
      PROVE  HandlerControl(e)'
  BY <1>19
  DEF HookPublishLost, TypeOK, HandlerControl, InHandler, unchangedByJobs, Fault,
      MoveJob, deliveryVars
<1>20. ASSUME NEW d \in Delivery, NEW k \in JobKind, HookAbandoned(d, k)
      PROVE  HandlerControl(e)'
  BY <1>20
  DEF HookAbandoned, TypeOK, HandlerControl, InHandler, unchangedByJobs, Fault, MoveJob,
      deliveryVars, InHook
<1>21. ASSUME NEW v \in Video, ExpireInbox(v) PROVE HandlerControl(e)'
  BY <1>21 DEF ExpireInbox, TypeOK, HandlerControl, InHandler, jobVars, Fault
<1>22. ASSUME NEW v \in Video, ExpireJoin(v) PROVE HandlerControl(e)'
  BY <1>22
  DEF ExpireJoin, TypeOK, HandlerControl, InHandler, jobVars, unchangedByJobs, Fault,
      deliveryVars
<1>23. CASE UNCHANGED vars
  BY <1>23 DEF vars, TypeOK, HandlerControl, InHandler
<1> QED
  BY <1>1, <1>2, <1>3, <1>4, <1>5, <1>6, <1>7, <1>8, <1>9, <1>10, <1>11, <1>12, <1>13,
     <1>14, <1>15, <1>16, <1>17, <1>18, <1>19, <1>20, <1>21, <1>22, <1>23
  DEF Next, HandlerStep, JobStep, JobFault

\* Every step keeps each job's control.
LEMMA JobControlStep ==
    ASSUME TypeOK, [Next]_vars, NEW e \in Delivery, NEW l \in JobKind,
           JobControl(e, l), HandlerControl(e)
    PROVE  JobControl(e, l)'
<1>1. ASSUME NEW p \in Payload, Upload(p) PROVE JobControl(e, l)'
  BY <1>1 DEF Upload, TypeOK, JobControl, deliveryVars, jobVars
<1>2. ASSUME NEW d \in Delivery, Receive(d)
      PROVE  JobControl(e, l)'
  BY <1>2 DEF Receive, TypeOK, JobControl, jobVars, HandlerControl
<1>3. ASSUME NEW d \in Delivery, CheckInbox(d) PROVE JobControl(e, l)'
  BY <1>3 DEF CheckInbox, TypeOK, JobControl, jobVars
<1>4. ASSUME NEW d \in Delivery, Enqueue(d) PROVE JobControl(e, l)'
  BY <1>4, JobOrderIndices, BoundsAssumption
  DEF Enqueue, TypeOK, JobControl, HandlerControl, InHandler
<1>5. ASSUME NEW d \in Delivery, PublishStarted(d) PROVE JobControl(e, l)'
  BY <1>5 DEF PublishStarted, TypeOK, JobControl, jobVars, Publish, Event
<1>6. ASSUME NEW d \in Delivery, MarkProcessed(d) PROVE JobControl(e, l)'
  BY <1>6 DEF MarkProcessed, TypeOK, JobControl, jobVars
<1>7. ASSUME NEW d \in Delivery, Ack(d) PROVE JobControl(e, l)'
  BY <1>7 DEF Ack, TypeOK, JobControl, jobVars
<1>8. ASSUME NEW d \in Delivery, Raise(d) PROVE JobControl(e, l)'
  BY <1>8 DEF Raise, TypeOK, JobControl, jobVars, Fault
<1>9. ASSUME NEW d \in Delivery, NEW k \in JobKind, Dequeue(d, k) PROVE JobControl(e, l)'
  BY <1>9 DEF Dequeue, TypeOK, JobControl, unchangedByJobs, MoveJob, deliveryVars
<1>10. ASSUME NEW d \in Delivery, NEW k \in JobKind, Work(d, k) PROVE JobControl(e, l)'
  BY <1>10 DEF Work, TypeOK, JobControl, unchangedByJobs, MoveJob, deliveryVars
<1>11. ASSUME NEW d \in Delivery, NEW k \in JobKind, AddToJoin(d, k)
      PROVE  JobControl(e, l)'
  BY <1>11
  DEF AddToJoin, TypeOK, JobControl, unchangedByJobs, MoveJob, IsComplete, deliveryVars
<1>12. ASSUME NEW d \in Delivery, NEW k \in JobKind, PublishProcessed(d, k)
      PROVE  JobControl(e, l)'
  BY <1>12
  DEF PublishProcessed, TypeOK, JobControl, unchangedByJobs, Publish, MoveJob,
      deliveryVars, Event
<1>13. ASSUME NEW d \in Delivery, NEW k \in JobKind, ClearJoin(d, k)
      PROVE  JobControl(e, l)'
  BY <1>13 DEF ClearJoin, TypeOK, JobControl, unchangedByJobs, MoveJob, deliveryVars
<1>14. ASSUME NEW d \in Delivery, NEW k \in JobKind, Finish(d, k) PROVE JobControl(e, l)'
  BY <1>14 DEF Finish, TypeOK, JobControl, unchangedByJobs, MoveJob, deliveryVars
<1>15. ASSUME NEW d \in Delivery, NEW k \in JobKind, HookPublish(d, k)
      PROVE  JobControl(e, l)'
  BY <1>15
  DEF HookPublish, TypeOK, JobControl, unchangedByJobs, Publish, MoveJob, deliveryVars,
      Event
<1>16. ASSUME NEW d \in Delivery, NEW k \in JobKind, HookClear(d, k)
      PROVE  JobControl(e, l)'
  BY <1>16 DEF HookClear, TypeOK, JobControl, unchangedByJobs, MoveJob, deliveryVars
<1>17. ASSUME NEW d \in Delivery, NEW k \in JobKind, JobRaises(d, k)
      PROVE  JobControl(e, l)'
  BY <1>17
  DEF JobRaises, TypeOK, JobControl, unchangedByJobs, Fault, MoveJob, AfterException,
      deliveryVars, Retryable, InJob
<1>18. ASSUME NEW d \in Delivery, NEW k \in JobKind, WorkerDies(d, k)
      PROVE  JobControl(e, l)'
  BY <1>18
  DEF WorkerDies, TypeOK, JobControl, unchangedByJobs, Fault, MoveJob, Retryable,
      deliveryVars, InJob
<1>19. ASSUME NEW d \in Delivery, NEW k \in JobKind, HookPublishLost(d, k)
      PROVE  JobControl(e, l)'
  BY <1>19
  DEF HookPublishLost, TypeOK, JobControl, unchangedByJobs, Fault, MoveJob, deliveryVars
<1>20. ASSUME NEW d \in Delivery, NEW k \in JobKind, HookAbandoned(d, k)
      PROVE  JobControl(e, l)'
  BY <1>20
  DEF HookAbandoned, TypeOK, JobControl, unchangedByJobs, Fault, MoveJob, deliveryVars,
      InHook
<1>21. ASSUME NEW v \in Video, ExpireInbox(v) PROVE JobControl(e, l)'
  BY <1>21 DEF ExpireInbox, TypeOK, JobControl, jobVars, Fault
<1>22. ASSUME NEW v \in Video, ExpireJoin(v) PROVE JobControl(e, l)'
  BY <1>22
  DEF ExpireJoin, TypeOK, JobControl, jobVars, unchangedByJobs, Fault, deliveryVars
<1>23. CASE UNCHANGED vars
  BY <1>23 DEF vars, TypeOK, JobControl
<1> QED
  BY <1>1, <1>2, <1>3, <1>4, <1>5, <1>6, <1>7, <1>8, <1>9, <1>10, <1>11, <1>12, <1>13,
     <1>14, <1>15, <1>16, <1>17, <1>18, <1>19, <1>20, <1>21, <1>22, <1>23
  DEF Next, HandlerStep, JobStep, JobFault

LEMMA TypeInvStep == TypeInv /\ [Next]_vars => TypeInv'
BY TypeOKStep, HandlerControlStep, JobControlStep DEF TypeInv

LEMMA TypeInvariant == Spec => []TypeInv
BY TypeInit, TypeInvStep, PTL DEF Spec

\* In every reachable state, for any videos, kinds, deliveries, retries and
\* faults, each variable has its type; no job is started more than Retries times.
THEOREM TypeCorrect == Spec => []TypeOK
<1>1. TypeInv => TypeOK
  BY DEF TypeInv
<1> QED
  BY <1>1, TypeInvariant, PTL

-----------------------------------------------------------------------------
(* video_processed means that all the work is done *)

\* Appending one event publishes that event and no other.
LEMMA PublishedAppend ==
    ASSUME status \in Seq(StatusEvent), NEW type \in {Started, Processed, Failed},
           NEW w \in Video, Publish(type, w), NEW t, NEW v
    PROVE  Published(t, v)' <=> Published(t, v) \/ Event(t, v) = Event(type, w)
<1>1. /\ Len(status') = Len(status) + 1
      /\ \A i \in 1..Len(status) : status'[i] = status[i]
      /\ status'[Len(status) + 1] = Event(type, w)
      /\ Len(status) \in Nat
  BY DEF Publish, Event, StatusEvent
<1> QED
  BY <1>1 DEF Published, Event

\* The count that ends the join is reached only by the whole of JobKind.
LEMMA CompleteIsJobKind ==
    ASSUME NEW S \in SUBSET JobKind
    PROVE  IsComplete(Cardinality(S)) <=> S = JobKind
<1>1. IsFiniteSet(JobKind)
  BY JobOrderAssumption
<1>2. /\ Cardinality(S) <= Cardinality(JobKind)
      /\ Cardinality(S) = Cardinality(JobKind) => S = JobKind
  BY <1>1, FS_Subset
<1>3. Cardinality(S) \in Nat /\ Cardinality(JobKind) \in Nat
  BY <1>1, FS_Subset, FS_CardinalityType
<1> QED
  BY <1>2, <1>3 DEF IsComplete, FanOut

\* A kind is in the join record, and video_processed in the stream, only on
\* the strength of finished work.
WorkedVideo(v) ==
    /\ join[v] \subseteq worked[v]
    /\ Published(Processed, v) => worked[v] = JobKind

\* A job past its work has done it; one that publishes has seen all done.
WorkedJob(d, k) ==
    /\ job[d][k] \in {"add", "publish", "clear", "finish"} => k \in worked[video[d]]
    /\ job[d][k] = "publish" => worked[video[d]] = JobKind

WorkedInv ==
    /\ \A v \in Video : WorkedVideo(v)
    /\ \A d \in Delivery, k \in JobKind : WorkedJob(d, k)

LEMMA WorkedVideoStep ==
    ASSUME TypeInv, [Next]_vars, NEW v \in Video, WorkedVideo(v),
           \A d \in Delivery, k \in JobKind : WorkedJob(d, k)
    PROVE  WorkedVideo(v)'
<1> USE DEF TypeInv
<1>1. ASSUME NEW p \in Payload, Upload(p) PROVE WorkedVideo(v)'
  BY <1>1 DEF Upload, TypeOK, WorkedVideo, Published, deliveryVars, jobVars
<1>2. ASSUME NEW d \in Delivery, Receive(d)
      PROVE  WorkedVideo(v)'
  BY <1>2 DEF Receive, TypeOK, WorkedVideo, Published, jobVars
<1>3. ASSUME NEW d \in Delivery, CheckInbox(d) PROVE WorkedVideo(v)'
  BY <1>3 DEF CheckInbox, TypeOK, WorkedVideo, Published, jobVars
<1>4. ASSUME NEW d \in Delivery, Enqueue(d) PROVE WorkedVideo(v)'
  BY <1>4 DEF Enqueue, TypeOK, WorkedVideo, Published
<1>5. ASSUME NEW d \in Delivery, PublishStarted(d) PROVE WorkedVideo(v)'
  <2>1. status \in Seq(StatusEvent) /\ video[d] \in Video
    BY <1>5 DEF PublishStarted, TypeOK, HandlerControl, InHandler
  <2>2. Published(Processed, v)' <=> Published(Processed, v) \/ Event(Processed, v) = Event(Started, video[d])
    BY <1>5, <2>1, PublishedAppend DEF PublishStarted
  <2> QED
    BY <1>5, <2>2 DEF PublishStarted, TypeOK, WorkedVideo, Event, Started, Processed
<1>6. ASSUME NEW d \in Delivery, MarkProcessed(d) PROVE WorkedVideo(v)'
  BY <1>6 DEF MarkProcessed, TypeOK, WorkedVideo, Published, jobVars
<1>7. ASSUME NEW d \in Delivery, Ack(d) PROVE WorkedVideo(v)'
  BY <1>7 DEF Ack, TypeOK, WorkedVideo, Published, jobVars
<1>8. ASSUME NEW d \in Delivery, Raise(d) PROVE WorkedVideo(v)'
  BY <1>8 DEF Raise, TypeOK, WorkedVideo, Published, jobVars, Fault
<1>9. ASSUME NEW d \in Delivery, NEW k \in JobKind, Dequeue(d, k) PROVE WorkedVideo(v)'
  BY <1>9
  DEF Dequeue, TypeOK, WorkedVideo, Published, unchangedByJobs, MoveJob, deliveryVars
<1>10. ASSUME NEW d \in Delivery, NEW k \in JobKind, Work(d, k) PROVE WorkedVideo(v)'
  BY <1>10
  DEF Work, TypeOK, WorkedVideo, Published, unchangedByJobs, MoveJob, deliveryVars,
      JobControl
<1>11. ASSUME NEW d \in Delivery, NEW k \in JobKind, AddToJoin(d, k) PROVE WorkedVideo(v)'
  BY <1>11
  DEF AddToJoin, TypeOK, WorkedVideo, Published, unchangedByJobs, MoveJob, IsComplete,
      deliveryVars, JobControl, WorkedJob
<1>12. ASSUME NEW d \in Delivery, NEW k \in JobKind, PublishProcessed(d, k)
      PROVE  WorkedVideo(v)'
  <2>1. status \in Seq(StatusEvent) /\ video[d] \in Video
    BY <1>12 DEF PublishProcessed, TypeOK, JobControl
  <2>2. Published(Processed, v)' <=> Published(Processed, v) \/ Event(Processed, v) = Event(Processed, video[d])
    BY <1>12, <2>1, PublishedAppend DEF PublishProcessed
  <2> QED
    BY <1>12, <2>2 DEF PublishProcessed, TypeOK, WorkedVideo, Event, WorkedJob, unchangedByJobs
<1>13. ASSUME NEW d \in Delivery, NEW k \in JobKind, ClearJoin(d, k) PROVE WorkedVideo(v)'
  BY <1>13
  DEF ClearJoin, TypeOK, WorkedVideo, Published, unchangedByJobs, MoveJob, deliveryVars,
      JobControl
<1>14. ASSUME NEW d \in Delivery, NEW k \in JobKind, Finish(d, k) PROVE WorkedVideo(v)'
  BY <1>14
  DEF Finish, TypeOK, WorkedVideo, Published, unchangedByJobs, MoveJob, deliveryVars
<1>15. ASSUME NEW d \in Delivery, NEW k \in JobKind, HookPublish(d, k)
      PROVE  WorkedVideo(v)'
  <2>1. status \in Seq(StatusEvent) /\ video[d] \in Video
    BY <1>15 DEF HookPublish, TypeOK, JobControl
  <2>2. Published(Processed, v)' <=> Published(Processed, v) \/ Event(Processed, v) = Event(Failed, video[d])
    BY <1>15, <2>1, PublishedAppend DEF HookPublish
  <2> QED
    BY <1>15, <2>2 DEF HookPublish, TypeOK, WorkedVideo, Event, Failed, Processed, unchangedByJobs
<1>16. ASSUME NEW d \in Delivery, NEW k \in JobKind, HookClear(d, k) PROVE WorkedVideo(v)'
  BY <1>16
  DEF HookClear, TypeOK, WorkedVideo, Published, unchangedByJobs, MoveJob, deliveryVars,
      JobControl
<1>17. ASSUME NEW d \in Delivery, NEW k \in JobKind, JobRaises(d, k) PROVE WorkedVideo(v)'
  BY <1>17
  DEF JobRaises, TypeOK, WorkedVideo, Published, unchangedByJobs, Fault, MoveJob,
      AfterException, deliveryVars, Retryable
<1>18. ASSUME NEW d \in Delivery, NEW k \in JobKind, WorkerDies(d, k)
      PROVE  WorkedVideo(v)'
  BY <1>18
  DEF WorkerDies, TypeOK, WorkedVideo, Published, unchangedByJobs, Fault, MoveJob,
      Retryable, deliveryVars
<1>19. ASSUME NEW d \in Delivery, NEW k \in JobKind, HookPublishLost(d, k)
      PROVE  WorkedVideo(v)'
  BY <1>19
  DEF HookPublishLost, TypeOK, WorkedVideo, Published, unchangedByJobs, Fault, MoveJob,
      deliveryVars
<1>20. ASSUME NEW d \in Delivery, NEW k \in JobKind, HookAbandoned(d, k)
      PROVE  WorkedVideo(v)'
  BY <1>20
  DEF HookAbandoned, TypeOK, WorkedVideo, Published, unchangedByJobs, Fault, MoveJob,
      deliveryVars
<1>21. ASSUME NEW w \in Video, ExpireInbox(w) PROVE WorkedVideo(v)'
  BY <1>21 DEF ExpireInbox, TypeOK, WorkedVideo, Published, jobVars, Fault
<1>22. ASSUME NEW w \in Video, ExpireJoin(w) PROVE WorkedVideo(v)'
  BY <1>22
  DEF ExpireJoin, TypeOK, WorkedVideo, Published, jobVars, unchangedByJobs, Fault,
      deliveryVars
<1>23. CASE UNCHANGED vars
  BY <1>23 DEF vars, TypeOK, WorkedVideo, Published
<1> QED
  BY <1>1, <1>2, <1>3, <1>4, <1>5, <1>6, <1>7, <1>8, <1>9, <1>10, <1>11, <1>12, <1>13,
     <1>14, <1>15, <1>16, <1>17, <1>18, <1>19, <1>20, <1>21, <1>22, <1>23
  DEF Next, HandlerStep, JobStep, JobFault

LEMMA WorkedJobStep ==
    ASSUME TypeInv, [Next]_vars, NEW e \in Delivery, NEW l \in JobKind, WorkedJob(e, l),
           \A v \in Video : WorkedVideo(v)
    PROVE  WorkedJob(e, l)'
<1> USE DEF TypeInv
<1>1. ASSUME NEW p \in Payload, Upload(p) PROVE WorkedJob(e, l)'
  BY <1>1 DEF Upload, TypeOK, WorkedJob, deliveryVars, jobVars
<1>2. ASSUME NEW d \in Delivery, Receive(d)
      PROVE  WorkedJob(e, l)'
  BY <1>2 DEF Receive, TypeOK, WorkedJob, jobVars, HandlerControl, InHandler
<1>3. ASSUME NEW d \in Delivery, CheckInbox(d) PROVE WorkedJob(e, l)'
  BY <1>3 DEF CheckInbox, TypeOK, WorkedJob, jobVars
<1>4. ASSUME NEW d \in Delivery, Enqueue(d) PROVE WorkedJob(e, l)'
  BY <1>4, JobOrderIndices DEF Enqueue, TypeOK, WorkedJob
<1>5. ASSUME NEW d \in Delivery, PublishStarted(d) PROVE WorkedJob(e, l)'
  BY <1>5 DEF PublishStarted, TypeOK, WorkedJob, jobVars, Publish, Event
<1>6. ASSUME NEW d \in Delivery, MarkProcessed(d) PROVE WorkedJob(e, l)'
  BY <1>6 DEF MarkProcessed, TypeOK, WorkedJob, jobVars
<1>7. ASSUME NEW d \in Delivery, Ack(d) PROVE WorkedJob(e, l)'
  BY <1>7 DEF Ack, TypeOK, WorkedJob, jobVars
<1>8. ASSUME NEW d \in Delivery, Raise(d) PROVE WorkedJob(e, l)'
  BY <1>8 DEF Raise, TypeOK, WorkedJob, jobVars, Fault
<1>9. ASSUME NEW d \in Delivery, NEW k \in JobKind, Dequeue(d, k) PROVE WorkedJob(e, l)'
  BY <1>9 DEF Dequeue, TypeOK, WorkedJob, unchangedByJobs, MoveJob, deliveryVars
<1>10. ASSUME NEW d \in Delivery, NEW k \in JobKind, Work(d, k) PROVE WorkedJob(e, l)'
  BY <1>10 DEF Work, TypeOK, WorkedJob, unchangedByJobs, MoveJob, deliveryVars, JobControl
<1>11. ASSUME NEW d \in Delivery, NEW k \in JobKind, AddToJoin(d, k)
      PROVE  WorkedJob(e, l)'
  <2>1. video[d] \in Video /\ join'[video[d]] \in SUBSET JobKind
    BY <1>11 DEF AddToJoin, TypeOK, JobControl
  <2>2. IsComplete(Cardinality(join'[video[d]])) => join'[video[d]] = JobKind
    BY <2>1, CompleteIsJobKind
  <2>3. CASE e = d /\ l = k
    <3>1. k \in worked[video[d]]
      BY <1>11, <2>3 DEF AddToJoin, WorkedJob
    <3>2. join'[video[d]] \subseteq worked[video[d]]
      BY <1>11, <2>1, <3>1 DEF AddToJoin, TypeOK, WorkedVideo
    <3> QED
      BY <1>11, <2>1, <2>2, <2>3, <3>1, <3>2
      DEF AddToJoin, MoveJob, TypeOK, WorkedJob, unchangedByJobs, deliveryVars
  <2>4. CASE ~(e = d /\ l = k)
    BY <1>11, <2>4 DEF AddToJoin, MoveJob, TypeOK, WorkedJob, unchangedByJobs, deliveryVars
  <2> QED
    BY <2>3, <2>4
<1>12. ASSUME NEW d \in Delivery, NEW k \in JobKind, PublishProcessed(d, k)
      PROVE  WorkedJob(e, l)'
  BY <1>12
  DEF PublishProcessed, TypeOK, WorkedJob, unchangedByJobs, Publish, MoveJob,
      deliveryVars, Event
<1>13. ASSUME NEW d \in Delivery, NEW k \in JobKind, ClearJoin(d, k)
      PROVE  WorkedJob(e, l)'
  BY <1>13 DEF ClearJoin, TypeOK, WorkedJob, unchangedByJobs, MoveJob, deliveryVars
<1>14. ASSUME NEW d \in Delivery, NEW k \in JobKind, Finish(d, k) PROVE WorkedJob(e, l)'
  BY <1>14 DEF Finish, TypeOK, WorkedJob, unchangedByJobs, MoveJob, deliveryVars
<1>15. ASSUME NEW d \in Delivery, NEW k \in JobKind, HookPublish(d, k)
      PROVE  WorkedJob(e, l)'
  BY <1>15
  DEF HookPublish, TypeOK, WorkedJob, unchangedByJobs, Publish, MoveJob, deliveryVars,
      Event
<1>16. ASSUME NEW d \in Delivery, NEW k \in JobKind, HookClear(d, k)
      PROVE  WorkedJob(e, l)'
  BY <1>16 DEF HookClear, TypeOK, WorkedJob, unchangedByJobs, MoveJob, deliveryVars
<1>17. ASSUME NEW d \in Delivery, NEW k \in JobKind, JobRaises(d, k)
      PROVE  WorkedJob(e, l)'
  BY <1>17
  DEF JobRaises, TypeOK, WorkedJob, unchangedByJobs, Fault, MoveJob, AfterException,
      deliveryVars, Retryable
<1>18. ASSUME NEW d \in Delivery, NEW k \in JobKind, WorkerDies(d, k)
      PROVE  WorkedJob(e, l)'
  BY <1>18
  DEF WorkerDies, TypeOK, WorkedJob, unchangedByJobs, Fault, MoveJob, Retryable,
      deliveryVars
<1>19. ASSUME NEW d \in Delivery, NEW k \in JobKind, HookPublishLost(d, k)
      PROVE  WorkedJob(e, l)'
  BY <1>19
  DEF HookPublishLost, TypeOK, WorkedJob, unchangedByJobs, Fault, MoveJob, deliveryVars
<1>20. ASSUME NEW d \in Delivery, NEW k \in JobKind, HookAbandoned(d, k)
      PROVE  WorkedJob(e, l)'
  BY <1>20
  DEF HookAbandoned, TypeOK, WorkedJob, unchangedByJobs, Fault, MoveJob, deliveryVars
<1>21. ASSUME NEW w \in Video, ExpireInbox(w) PROVE WorkedJob(e, l)'
  BY <1>21 DEF ExpireInbox, TypeOK, WorkedJob, jobVars, Fault
<1>22. ASSUME NEW w \in Video, ExpireJoin(w) PROVE WorkedJob(e, l)'
  BY <1>22
  DEF ExpireJoin, TypeOK, WorkedJob, jobVars, unchangedByJobs, Fault, deliveryVars
<1>23. CASE UNCHANGED vars
  BY <1>23 DEF vars, TypeOK, WorkedJob
<1> QED
  BY <1>1, <1>2, <1>3, <1>4, <1>5, <1>6, <1>7, <1>8, <1>9, <1>10, <1>11, <1>12, <1>13,
     <1>14, <1>15, <1>16, <1>17, <1>18, <1>19, <1>20, <1>21, <1>22, <1>23
  DEF Next, HandlerStep, JobStep, JobFault

\* In every reachable state, whatever was retried, enqueued twice, cleared or
\* expired, a video announced as processed has had all its kinds of work done.
THEOREM ProcessedOnlyWhenWorked == Spec => []ProcessedMeansAllWorked
<1>1. Init => WorkedInv
  BY DEF Init, WorkedInv, WorkedVideo, WorkedJob, Published
<1>2. TypeInv /\ WorkedInv /\ [Next]_vars => WorkedInv'
  BY WorkedVideoStep, WorkedJobStep DEF WorkedInv
<1>3. WorkedInv => ProcessedMeansAllWorked
  BY DEF WorkedInv, WorkedVideo, ProcessedMeansAllWorked
<1> QED
  BY <1>1, <1>2, <1>3, TypeInvariant, PTL DEF Spec

-----------------------------------------------------------------------------
(* The last job knows that it is the last *)

\* A job that ran to the end of complete_job.
Returned(d, k) == job[d][k] \in {"finish", "complete"}

\* As long as video_processed is not out and the record was not dropped, every
\* returned job is still in the join record, and of some kind no job has
\* returned: that kind's job is the one that will find the record full.
CompletionVideo(v) ==
    v \notin dropped /\ ~Published(Processed, v) =>
        /\ \A d \in Delivery, k \in JobKind : video[d] = v /\ Returned(d, k) => k \in join[v]
        /\ \E k \in JobKind : \A d \in Delivery : video[d] = v => ~Returned(d, k)

\* The record is cleared on completion only after video_processed is out.
ClearAfterPublish(d, k) == job[d][k] = "clear" => Published(Processed, video[d])

CompletionInv ==
    /\ \A v \in Video : CompletionVideo(v)
    /\ \A d \in Delivery, k \in JobKind : ClearAfterPublish(d, k)

LEMMA ClearAfterPublishStep ==
    ASSUME TypeInv, [Next]_vars, NEW e \in Delivery, NEW l \in JobKind, ClearAfterPublish(e, l)
    PROVE  ClearAfterPublish(e, l)'
<1> USE DEF TypeInv
<1>1. ASSUME NEW p \in Payload, Upload(p) PROVE ClearAfterPublish(e, l)'
  BY <1>1 DEF Upload, TypeOK, ClearAfterPublish, Published, deliveryVars, jobVars
<1>2. ASSUME NEW d \in Delivery, Receive(d)
      PROVE  ClearAfterPublish(e, l)'
  BY <1>2
  DEF Receive, TypeOK, ClearAfterPublish, Published, jobVars, HandlerControl, InHandler
<1>3. ASSUME NEW d \in Delivery, CheckInbox(d) PROVE ClearAfterPublish(e, l)'
  BY <1>3 DEF CheckInbox, TypeOK, ClearAfterPublish, Published, jobVars
<1>4. ASSUME NEW d \in Delivery, Enqueue(d) PROVE ClearAfterPublish(e, l)'
  BY <1>4, JobOrderIndices DEF Enqueue, TypeOK, ClearAfterPublish, Published
<1>5. ASSUME NEW d \in Delivery, PublishStarted(d) PROVE ClearAfterPublish(e, l)'
  <2>1. status \in Seq(StatusEvent) /\ video[d] \in Video
    BY <1>5 DEF PublishStarted, TypeOK, HandlerControl, InHandler
  <2>2. \A u \in Video : Published(Processed, u)' <=>
             Published(Processed, u) \/ Event(Processed, u) = Event(Started, video[d])
    BY <1>5, <2>1, PublishedAppend DEF PublishStarted
  <2> QED
    BY <1>5, <2>2 DEF PublishStarted, TypeOK, JobControl, ClearAfterPublish, Published, jobVars
<1>6. ASSUME NEW d \in Delivery, MarkProcessed(d) PROVE ClearAfterPublish(e, l)'
  BY <1>6 DEF MarkProcessed, TypeOK, ClearAfterPublish, Published, jobVars
<1>7. ASSUME NEW d \in Delivery, Ack(d) PROVE ClearAfterPublish(e, l)'
  BY <1>7 DEF Ack, TypeOK, ClearAfterPublish, Published, jobVars
<1>8. ASSUME NEW d \in Delivery, Raise(d) PROVE ClearAfterPublish(e, l)'
  BY <1>8 DEF Raise, TypeOK, ClearAfterPublish, Published, jobVars, Fault
<1>9. ASSUME NEW d \in Delivery, NEW k \in JobKind, Dequeue(d, k)
      PROVE  ClearAfterPublish(e, l)'
  BY <1>9
  DEF Dequeue, TypeOK, ClearAfterPublish, Published, unchangedByJobs, MoveJob,
      deliveryVars
<1>10. ASSUME NEW d \in Delivery, NEW k \in JobKind, Work(d, k)
      PROVE  ClearAfterPublish(e, l)'
  BY <1>10
  DEF Work, TypeOK, ClearAfterPublish, Published, unchangedByJobs, MoveJob, deliveryVars
<1>11. ASSUME NEW d \in Delivery, NEW k \in JobKind, AddToJoin(d, k)
      PROVE  ClearAfterPublish(e, l)'
  BY <1>11
  DEF AddToJoin, TypeOK, ClearAfterPublish, Published, unchangedByJobs, MoveJob,
      IsComplete, deliveryVars
<1>12. ASSUME NEW d \in Delivery, NEW k \in JobKind, PublishProcessed(d, k)
      PROVE  ClearAfterPublish(e, l)'
  <2>1. status \in Seq(StatusEvent) /\ video[d] \in Video
    BY <1>12 DEF PublishProcessed, TypeOK, JobControl
  <2>2. \A u \in Video : Published(Processed, u)' <=>
             Published(Processed, u) \/ Event(Processed, u) = Event(Processed, video[d])
    BY <1>12, <2>1, PublishedAppend DEF PublishProcessed
  <2> QED
    BY <1>12, <2>2
    DEF PublishProcessed, MoveJob, TypeOK, JobControl, ClearAfterPublish, Published,
        unchangedByJobs, deliveryVars
<1>13. ASSUME NEW d \in Delivery, NEW k \in JobKind, ClearJoin(d, k)
      PROVE  ClearAfterPublish(e, l)'
  BY <1>13
  DEF ClearJoin, TypeOK, ClearAfterPublish, Published, unchangedByJobs, MoveJob,
      deliveryVars
<1>14. ASSUME NEW d \in Delivery, NEW k \in JobKind, Finish(d, k)
      PROVE  ClearAfterPublish(e, l)'
  BY <1>14
  DEF Finish, TypeOK, ClearAfterPublish, Published, unchangedByJobs, MoveJob,
      deliveryVars
<1>15. ASSUME NEW d \in Delivery, NEW k \in JobKind, HookPublish(d, k)
      PROVE  ClearAfterPublish(e, l)'
  <2>1. status \in Seq(StatusEvent) /\ video[d] \in Video
    BY <1>15 DEF HookPublish, TypeOK, JobControl
  <2>2. \A u \in Video : Published(Processed, u)' <=>
             Published(Processed, u) \/ Event(Processed, u) = Event(Failed, video[d])
    BY <1>15, <2>1, PublishedAppend DEF HookPublish
  <2> QED
    BY <1>15, <2>2
    DEF HookPublish, MoveJob, TypeOK, JobControl, ClearAfterPublish, Published,
        unchangedByJobs, deliveryVars
<1>16. ASSUME NEW d \in Delivery, NEW k \in JobKind, HookClear(d, k)
      PROVE  ClearAfterPublish(e, l)'
  BY <1>16
  DEF HookClear, TypeOK, ClearAfterPublish, Published, unchangedByJobs, MoveJob,
      deliveryVars
<1>17. ASSUME NEW d \in Delivery, NEW k \in JobKind, JobRaises(d, k)
      PROVE  ClearAfterPublish(e, l)'
  BY <1>17
  DEF JobRaises, TypeOK, ClearAfterPublish, Published, unchangedByJobs, Fault, MoveJob,
      AfterException, deliveryVars, Retryable
<1>18. ASSUME NEW d \in Delivery, NEW k \in JobKind, WorkerDies(d, k)
      PROVE  ClearAfterPublish(e, l)'
  BY <1>18
  DEF WorkerDies, TypeOK, ClearAfterPublish, Published, unchangedByJobs, Fault, MoveJob,
      Retryable, deliveryVars
<1>19. ASSUME NEW d \in Delivery, NEW k \in JobKind, HookPublishLost(d, k)
      PROVE  ClearAfterPublish(e, l)'
  BY <1>19
  DEF HookPublishLost, TypeOK, ClearAfterPublish, Published, unchangedByJobs, Fault,
      MoveJob, deliveryVars
<1>20. ASSUME NEW d \in Delivery, NEW k \in JobKind, HookAbandoned(d, k)
      PROVE  ClearAfterPublish(e, l)'
  BY <1>20
  DEF HookAbandoned, TypeOK, ClearAfterPublish, Published, unchangedByJobs, Fault,
      MoveJob, deliveryVars
<1>21. ASSUME NEW w \in Video, ExpireInbox(w) PROVE ClearAfterPublish(e, l)'
  BY <1>21 DEF ExpireInbox, TypeOK, ClearAfterPublish, Published, jobVars, Fault
<1>22. ASSUME NEW w \in Video, ExpireJoin(w) PROVE ClearAfterPublish(e, l)'
  BY <1>22
  DEF ExpireJoin, TypeOK, ClearAfterPublish, Published, jobVars, unchangedByJobs, Fault,
      deliveryVars
<1>23. CASE UNCHANGED vars
  BY <1>23 DEF vars, TypeOK, ClearAfterPublish, Published
<1> QED
  BY <1>1, <1>2, <1>3, <1>4, <1>5, <1>6, <1>7, <1>8, <1>9, <1>10, <1>11, <1>12, <1>13,
     <1>14, <1>15, <1>16, <1>17, <1>18, <1>19, <1>20, <1>21, <1>22, <1>23
  DEF Next, HandlerStep, JobStep, JobFault

LEMMA CompletionVideoStep ==
    ASSUME TypeInv, [Next]_vars, NEW v \in Video, CompletionVideo(v),
           \A d \in Delivery, k \in JobKind : ClearAfterPublish(d, k)
    PROVE  CompletionVideo(v)'
<1> USE DEF TypeInv
<1>1. ASSUME NEW p \in Payload, Upload(p) PROVE CompletionVideo(v)'
  BY <1>1 DEF Upload, TypeOK, CompletionVideo, Returned, Published, deliveryVars, jobVars
<1>2. ASSUME NEW d \in Delivery, Receive(d)
      PROVE  CompletionVideo(v)'
  BY <1>2
  DEF Receive, TypeOK, CompletionVideo, Returned, Published, jobVars, HandlerControl,
      InHandler
<1>3. ASSUME NEW d \in Delivery, CheckInbox(d) PROVE CompletionVideo(v)'
  BY <1>3 DEF CheckInbox, TypeOK, CompletionVideo, Returned, Published, jobVars
<1>4. ASSUME NEW d \in Delivery, Enqueue(d) PROVE CompletionVideo(v)'
  BY <1>4, JobOrderIndices DEF Enqueue, TypeOK, CompletionVideo, Returned, Published
<1>5. ASSUME NEW d \in Delivery, PublishStarted(d) PROVE CompletionVideo(v)'
  <2>1. status \in Seq(StatusEvent) /\ video[d] \in Video
    BY <1>5 DEF PublishStarted, TypeOK, HandlerControl, InHandler
  <2>2. Published(Processed, v)' <=> Published(Processed, v) \/ Event(Processed, v) = Event(Started, video[d])
    BY <1>5, <2>1, PublishedAppend DEF PublishStarted
  <2> QED
    BY <1>5, <2>2
    DEF PublishStarted, TypeOK, CompletionVideo, Returned, jobVars, Event, Started, Processed
<1>6. ASSUME NEW d \in Delivery, MarkProcessed(d) PROVE CompletionVideo(v)'
  BY <1>6 DEF MarkProcessed, TypeOK, CompletionVideo, Returned, Published, jobVars
<1>7. ASSUME NEW d \in Delivery, Ack(d) PROVE CompletionVideo(v)'
  BY <1>7 DEF Ack, TypeOK, CompletionVideo, Returned, Published, jobVars
<1>8. ASSUME NEW d \in Delivery, Raise(d) PROVE CompletionVideo(v)'
  BY <1>8 DEF Raise, TypeOK, CompletionVideo, Returned, Published, jobVars, Fault
<1>9. ASSUME NEW d \in Delivery, NEW k \in JobKind, Dequeue(d, k)
      PROVE  CompletionVideo(v)'
  BY <1>9
  DEF Dequeue, TypeOK, CompletionVideo, Returned, Published, unchangedByJobs, MoveJob,
      deliveryVars
<1>10. ASSUME NEW d \in Delivery, NEW k \in JobKind, Work(d, k) PROVE CompletionVideo(v)'
  BY <1>10
  DEF Work, TypeOK, CompletionVideo, Returned, Published, unchangedByJobs, MoveJob,
      deliveryVars
<1>11. ASSUME NEW d \in Delivery, NEW k \in JobKind, AddToJoin(d, k)
      PROVE  CompletionVideo(v)'
  <2>1. SUFFICES ASSUME v \notin dropped, ~Published(Processed, v)
        PROVE  CompletionVideo(v)'
    BY <1>11 DEF AddToJoin, CompletionVideo, Published
  <2>2. video[d] \in Video /\ join'[video[d]] \in SUBSET JobKind
    BY <1>11 DEF AddToJoin, TypeOK, JobControl
  <2>3. IsComplete(Cardinality(join'[video[d]])) <=> join'[video[d]] = JobKind
    BY <2>2, CompleteIsJobKind
  <2>4. \A e \in Delivery, l \in JobKind : video'[e] = v /\ Returned(e, l)' => l \in join'[v]
    BY <1>11, <2>1, <2>2 DEF AddToJoin, MoveJob, TypeOK, CompletionVideo, Returned, unchangedByJobs, deliveryVars
  <2>5. CASE video[d] = v /\ join'[v] # JobKind
    <3>1. PICK l \in JobKind : l \notin join'[v]
      BY <2>2, <2>5
    <3>2. \A e \in Delivery : video'[e] = v => ~Returned(e, l)'
      BY <2>4, <3>1
    <3> QED
      BY <2>4, <3>2 DEF CompletionVideo
  <2>6. CASE ~(video[d] = v /\ join'[v] # JobKind)
    <3>1. PICK l \in JobKind : \A e \in Delivery : video[e] = v => ~Returned(e, l)
      BY <2>1 DEF CompletionVideo
    <3>2. \A e \in Delivery : video'[e] = v => ~Returned(e, l)'
      BY <1>11, <2>3, <2>6, <3>1
      DEF AddToJoin, MoveJob, TypeOK, Returned, unchangedByJobs, deliveryVars
    <3> QED
      BY <2>4, <3>2 DEF CompletionVideo
  <2> QED
    BY <2>5, <2>6
<1>12. ASSUME NEW d \in Delivery, NEW k \in JobKind, PublishProcessed(d, k)
      PROVE  CompletionVideo(v)'
  <2>1. status \in Seq(StatusEvent) /\ video[d] \in Video
    BY <1>12 DEF PublishProcessed, TypeOK, JobControl
  <2>2. Published(Processed, v)' <=> Published(Processed, v) \/ Event(Processed, v) = Event(Processed, video[d])
    BY <1>12, <2>1, PublishedAppend DEF PublishProcessed
  <2> QED
    BY <1>12, <2>2
    DEF PublishProcessed, MoveJob, TypeOK, CompletionVideo, Returned, unchangedByJobs, deliveryVars
<1>13. ASSUME NEW d \in Delivery, NEW k \in JobKind, ClearJoin(d, k)
      PROVE  CompletionVideo(v)'
  <2>1. CASE video[d] = v
    <3>1. Published(Processed, v)
      BY <1>13, <2>1 DEF ClearJoin, ClearAfterPublish
    <3>2. Published(Processed, v)'
      BY <1>13, <3>1 DEF ClearJoin, Published
    <3> QED
      BY <3>2 DEF CompletionVideo
  <2>2. CASE video[d] # v
    <3>1. /\ join'[v] = join[v] /\ video' = video /\ dropped' = dropped /\ status' = status
          /\ \A e \in Delivery, l \in JobKind : video[e] = v => job'[e][l] = job[e][l]
      BY <1>13, <2>2 DEF ClearJoin, TypeOK, unchangedByJobs, MoveJob, deliveryVars
    <3> QED
      BY <3>1 DEF CompletionVideo, Returned, Published
  <2> QED
    BY <2>1, <2>2
<1>14. ASSUME NEW d \in Delivery, NEW k \in JobKind, Finish(d, k)
      PROVE  CompletionVideo(v)'
  BY <1>14
  DEF Finish, TypeOK, CompletionVideo, Returned, Published, unchangedByJobs, MoveJob,
      deliveryVars
<1>15. ASSUME NEW d \in Delivery, NEW k \in JobKind, HookPublish(d, k)
      PROVE  CompletionVideo(v)'
  <2>1. status \in Seq(StatusEvent) /\ video[d] \in Video
    BY <1>15 DEF HookPublish, TypeOK, JobControl
  <2>2. Published(Processed, v)' <=> Published(Processed, v) \/ Event(Processed, v) = Event(Failed, video[d])
    BY <1>15, <2>1, PublishedAppend DEF HookPublish
  <2> QED
    BY <1>15, <2>2
    DEF HookPublish, MoveJob, TypeOK, CompletionVideo, Returned, unchangedByJobs, deliveryVars,
        Event, Failed, Processed
<1>16. ASSUME NEW d \in Delivery, NEW k \in JobKind, HookClear(d, k)
      PROVE  CompletionVideo(v)'
  BY <1>16
  DEF HookClear, TypeOK, CompletionVideo, Returned, Published, unchangedByJobs, MoveJob,
      deliveryVars
<1>17. ASSUME NEW d \in Delivery, NEW k \in JobKind, JobRaises(d, k)
      PROVE  CompletionVideo(v)'
  BY <1>17
  DEF JobRaises, TypeOK, CompletionVideo, Returned, Published, unchangedByJobs, Fault,
      MoveJob, AfterException, deliveryVars, Retryable
<1>18. ASSUME NEW d \in Delivery, NEW k \in JobKind, WorkerDies(d, k)
      PROVE  CompletionVideo(v)'
  BY <1>18
  DEF WorkerDies, TypeOK, CompletionVideo, Returned, Published, unchangedByJobs, Fault,
      MoveJob, Retryable, deliveryVars
<1>19. ASSUME NEW d \in Delivery, NEW k \in JobKind, HookPublishLost(d, k)
      PROVE  CompletionVideo(v)'
  BY <1>19
  DEF HookPublishLost, TypeOK, CompletionVideo, Returned, Published, unchangedByJobs,
      Fault, MoveJob, deliveryVars
<1>20. ASSUME NEW d \in Delivery, NEW k \in JobKind, HookAbandoned(d, k)
      PROVE  CompletionVideo(v)'
  BY <1>20
  DEF HookAbandoned, TypeOK, CompletionVideo, Returned, Published, unchangedByJobs,
      Fault, MoveJob, deliveryVars
<1>21. ASSUME NEW w \in Video, ExpireInbox(w) PROVE CompletionVideo(v)'
  BY <1>21 DEF ExpireInbox, TypeOK, CompletionVideo, Returned, Published, jobVars, Fault
<1>22. ASSUME NEW w \in Video, ExpireJoin(w) PROVE CompletionVideo(v)'
  BY <1>22
  DEF ExpireJoin, TypeOK, CompletionVideo, Returned, Published, jobVars,
      unchangedByJobs, Fault, deliveryVars
<1>23. CASE UNCHANGED vars
  BY <1>23 DEF vars, TypeOK, CompletionVideo, Returned, Published
<1> QED
  BY <1>1, <1>2, <1>3, <1>4, <1>5, <1>6, <1>7, <1>8, <1>9, <1>10, <1>11, <1>12, <1>13,
     <1>14, <1>15, <1>16, <1>17, <1>18, <1>19, <1>20, <1>21, <1>22, <1>23
  DEF Next, HandlerStep, JobStep, JobFault

\* In every reachable state, if each kind of a video has a complete job then
\* video_processed is out, unless the join record expired or was cleared by a
\* terminal failure: no interleaving of jobs, retries and crashes loses the last.
THEOREM LastJobAnnounces == Spec => []CompletionNotLost
<1>1. Init => CompletionInv
  BY JobOrderAssumption DEF Init, CompletionInv, CompletionVideo, ClearAfterPublish, Returned
<1>2. TypeInv /\ CompletionInv /\ [Next]_vars => CompletionInv'
  BY CompletionVideoStep, ClearAfterPublishStep DEF CompletionInv
<1>3. CompletionInv => CompletionNotLost
  BY DEF CompletionInv, CompletionVideo, CompletionNotLost, AllComplete, Returned
<1> QED
  BY <1>1, <1>2, <1>3, TypeInvariant, PTL DEF Spec

-----------------------------------------------------------------------------
(* An acknowledged upload has been fanned out *)

\* How far the fan-out of a delivery is: next counts the kinds enqueued, all of
\* them before the publication, which comes before the mark, which comes
\* before the ack.
FanOutControl(d) ==
    /\ handler[d] = "enqueue" => \A i \in 1..next[d] - 1 : job[d][JobOrder[i]] # "none"
    /\ handler[d] \in {"publish", "mark"} => \A k \in JobKind : job[d][k] # "none"
    /\ handler[d] = "mark" => Published(Started, video[d])
    /\ handler[d] = "ack" /\ video[d] \in Video => video[d] \in inbox \cup forgotten

\* A mark, expired or not, stands for a whole fan-out.
MarkedVideo(v) == v \in inbox \cup forgotten => FannedOut(v)

FanOutInv ==
    /\ \A d \in Delivery : FanOutControl(d)
    /\ \A v \in Video : MarkedVideo(v)
    /\ \A i \in acked : uploaded[i] \in Video => uploaded[i] \in inbox \cup forgotten

\* Enqueueing the kinds in order enqueues them all.
LEMMA JobOrderCovers == \A k \in JobKind : \E i \in 1..Len(JobOrder) : JobOrder[i] = k
BY JobOrderAssumption

LEMMA FanOutControlStep ==
    ASSUME TypeInv, [Next]_vars, NEW e \in Delivery, FanOutControl(e)
    PROVE  FanOutControl(e)'
<1> USE DEF TypeInv
<1>1. ASSUME NEW p \in Payload, Upload(p) PROVE FanOutControl(e)'
  BY <1>1 DEF Upload, TypeOK, FanOutControl, Published, deliveryVars, jobVars
<1>2. ASSUME NEW d \in Delivery, Receive(d)
      PROVE  FanOutControl(e)'
  BY <1>2, VideoAssumption DEF Receive, TypeOK, FanOutControl, Published, jobVars, Payload
<1>3. ASSUME NEW d \in Delivery, CheckInbox(d) PROVE FanOutControl(e)'
  BY <1>3, JobOrderIndices
  DEF CheckInbox, TypeOK, FanOutControl, Published, jobVars, HandlerControl, InHandler
<1>4. ASSUME NEW d \in Delivery, Enqueue(d) PROVE FanOutControl(e)'
  <2> USE <1>4 DEF Enqueue, TypeOK
  <2>1. next[d] <= Len(JobOrder)
    BY DEF HandlerControl
  <2>2. handler'[e] = "enqueue" => \A i \in 1..next'[e] - 1 : job'[e][JobOrder[i]] # "none"
    BY <2>1, JobOrderIndices DEF FanOutControl
  <2>3. handler'[e] \in {"publish", "mark"} => \A k \in JobKind : job'[e][k] # "none"
    <3>1. SUFFICES ASSUME e = d, next[d] = Len(JobOrder), NEW k \in JobKind
          PROVE  job'[e][k] # "none"
      BY JobOrderIndices DEF FanOutControl
    <3>2. PICK i \in 1..Len(JobOrder) : JobOrder[i] = k
      BY JobOrderCovers
    <3> QED
      BY <2>1, <3>1, <3>2, JobOrderIndices DEF FanOutControl
  <2> QED
    BY <2>2, <2>3 DEF FanOutControl, Published, HandlerState, InHandler
<1>5. ASSUME NEW d \in Delivery, PublishStarted(d) PROVE FanOutControl(e)'
  <2>1. status \in Seq(StatusEvent) /\ video[d] \in Video
    BY <1>5 DEF PublishStarted, TypeOK, HandlerControl, InHandler
  <2>2. \A u \in Video : Published(Started, u)' <=>
             Published(Started, u) \/ Event(Started, u) = Event(Started, video[d])
    BY <1>5, <2>1, PublishedAppend DEF PublishStarted
  <2>3. (handler[e] = "mark" => Published(Started, video[e]))'
    BY <1>5, <2>1, <2>2
    DEF PublishStarted, TypeOK, FanOutControl, HandlerControl, InHandler, Published, jobVars
  <2> QED
    BY <1>5, <2>3 DEF PublishStarted, TypeOK, FanOutControl, jobVars
<1>6. ASSUME NEW d \in Delivery, MarkProcessed(d) PROVE FanOutControl(e)'
  BY <1>6 DEF MarkProcessed, TypeOK, FanOutControl, Published, jobVars
<1>7. ASSUME NEW d \in Delivery, Ack(d) PROVE FanOutControl(e)'
  BY <1>7 DEF Ack, TypeOK, FanOutControl, Published, jobVars
<1>8. ASSUME NEW d \in Delivery, Raise(d) PROVE FanOutControl(e)'
  BY <1>8 DEF Raise, TypeOK, FanOutControl, Published, jobVars, Fault
<1>9. ASSUME NEW d \in Delivery, NEW k \in JobKind, Dequeue(d, k) PROVE FanOutControl(e)'
  BY <1>9
  DEF Dequeue, TypeOK, FanOutControl, Published, unchangedByJobs, MoveJob, deliveryVars
<1>10. ASSUME NEW d \in Delivery, NEW k \in JobKind, Work(d, k) PROVE FanOutControl(e)'
  BY <1>10
  DEF Work, TypeOK, FanOutControl, Published, unchangedByJobs, MoveJob, deliveryVars
<1>11. ASSUME NEW d \in Delivery, NEW k \in JobKind, AddToJoin(d, k)
      PROVE  FanOutControl(e)'
  BY <1>11
  DEF AddToJoin, TypeOK, FanOutControl, Published, unchangedByJobs, MoveJob, IsComplete,
      deliveryVars
<1>12. ASSUME NEW d \in Delivery, NEW k \in JobKind, PublishProcessed(d, k)
      PROVE  FanOutControl(e)'
  <2>1. status \in Seq(StatusEvent) /\ video[d] \in Video
    BY <1>12 DEF PublishProcessed, TypeOK, JobControl
  <2>2. \A u \in Video : Published(Started, u)' <=>
             Published(Started, u) \/ Event(Started, u) = Event(Processed, video[d])
    BY <1>12, <2>1, PublishedAppend DEF PublishProcessed
  <2>3. (handler[e] = "mark" => Published(Started, video[e]))'
    BY <1>12, <2>1, <2>2
    DEF PublishProcessed, TypeOK, FanOutControl, HandlerControl, InHandler, Published, unchangedByJobs, deliveryVars
  <2> QED
    BY <1>12, <2>3 DEF PublishProcessed, TypeOK, FanOutControl, MoveJob, unchangedByJobs, deliveryVars
<1>13. ASSUME NEW d \in Delivery, NEW k \in JobKind, ClearJoin(d, k)
      PROVE  FanOutControl(e)'
  BY <1>13
  DEF ClearJoin, TypeOK, FanOutControl, Published, unchangedByJobs, MoveJob,
      deliveryVars
<1>14. ASSUME NEW d \in Delivery, NEW k \in JobKind, Finish(d, k) PROVE FanOutControl(e)'
  BY <1>14
  DEF Finish, TypeOK, FanOutControl, Published, unchangedByJobs, MoveJob, deliveryVars
<1>15. ASSUME NEW d \in Delivery, NEW k \in JobKind, HookPublish(d, k)
      PROVE  FanOutControl(e)'
  <2>1. status \in Seq(StatusEvent) /\ video[d] \in Video
    BY <1>15 DEF HookPublish, TypeOK, JobControl
  <2>2. \A u \in Video : Published(Started, u)' <=>
             Published(Started, u) \/ Event(Started, u) = Event(Failed, video[d])
    BY <1>15, <2>1, PublishedAppend DEF HookPublish
  <2>3. (handler[e] = "mark" => Published(Started, video[e]))'
    BY <1>15, <2>1, <2>2
    DEF HookPublish, TypeOK, FanOutControl, HandlerControl, InHandler, Published, unchangedByJobs, deliveryVars
  <2> QED
    BY <1>15, <2>3 DEF HookPublish, TypeOK, FanOutControl, MoveJob, unchangedByJobs, deliveryVars
<1>16. ASSUME NEW d \in Delivery, NEW k \in JobKind, HookClear(d, k)
      PROVE  FanOutControl(e)'
  BY <1>16
  DEF HookClear, TypeOK, FanOutControl, Published, unchangedByJobs, MoveJob,
      deliveryVars
<1>17. ASSUME NEW d \in Delivery, NEW k \in JobKind, JobRaises(d, k)
      PROVE  FanOutControl(e)'
  BY <1>17
  DEF JobRaises, TypeOK, FanOutControl, Published, unchangedByJobs, Fault, MoveJob,
      AfterException, deliveryVars, Retryable
<1>18. ASSUME NEW d \in Delivery, NEW k \in JobKind, WorkerDies(d, k)
      PROVE  FanOutControl(e)'
  BY <1>18
  DEF WorkerDies, TypeOK, FanOutControl, Published, unchangedByJobs, Fault, MoveJob,
      Retryable, deliveryVars
<1>19. ASSUME NEW d \in Delivery, NEW k \in JobKind, HookPublishLost(d, k)
      PROVE  FanOutControl(e)'
  BY <1>19
  DEF HookPublishLost, TypeOK, FanOutControl, Published, unchangedByJobs, Fault,
      MoveJob, deliveryVars
<1>20. ASSUME NEW d \in Delivery, NEW k \in JobKind, HookAbandoned(d, k)
      PROVE  FanOutControl(e)'
  BY <1>20
  DEF HookAbandoned, TypeOK, FanOutControl, Published, unchangedByJobs, Fault, MoveJob,
      deliveryVars
<1>21. ASSUME NEW w \in Video, ExpireInbox(w) PROVE FanOutControl(e)'
  BY <1>21 DEF ExpireInbox, TypeOK, FanOutControl, Published, jobVars, Fault
<1>22. ASSUME NEW w \in Video, ExpireJoin(w) PROVE FanOutControl(e)'
  BY <1>22
  DEF ExpireJoin, TypeOK, FanOutControl, Published, jobVars, unchangedByJobs, Fault,
      deliveryVars
<1>23. CASE UNCHANGED vars
  BY <1>23 DEF vars, TypeOK, FanOutControl, Published
<1> QED
  BY <1>1, <1>2, <1>3, <1>4, <1>5, <1>6, <1>7, <1>8, <1>9, <1>10, <1>11, <1>12, <1>13,
     <1>14, <1>15, <1>16, <1>17, <1>18, <1>19, <1>20, <1>21, <1>22, <1>23
  DEF Next, HandlerStep, JobStep, JobFault

LEMMA MarkedVideoStep ==
    ASSUME TypeInv, [Next]_vars, NEW v \in Video, MarkedVideo(v),
           \A d \in Delivery : FanOutControl(d)
    PROVE  MarkedVideo(v)'
<1> USE DEF TypeInv
<1>1. ASSUME NEW p \in Payload, Upload(p) PROVE MarkedVideo(v)'
  BY <1>1 DEF Upload, TypeOK, MarkedVideo, FannedOut, Published, deliveryVars, jobVars
<1>2. ASSUME NEW d \in Delivery, Receive(d)
      PROVE  MarkedVideo(v)'
  <2>1. SUFFICES ASSUME v \in inbox \cup forgotten
        PROVE  FannedOut(v)'
    BY <1>2 DEF Receive, MarkedVideo
  <2>2. PICK c \in Delivery : video[c] = v /\ \A k \in JobKind : job[c][k] # "none"
    BY <2>1 DEF MarkedVideo, FannedOut
  <2>3. c # d
    BY <1>2, <2>2, JobOrderAssumption DEF Receive, HandlerControl
  <2>4. video'[c] = v /\ \A k \in JobKind : job'[c][k] # "none"
    BY <1>2, <2>2, <2>3 DEF Receive, TypeOK, jobVars
  <2>5. Published(Started, v)'
    BY <1>2, <2>1 DEF Receive, MarkedVideo, FannedOut, Published
  <2> QED
    BY <2>4, <2>5 DEF FannedOut
<1>3. ASSUME NEW d \in Delivery, CheckInbox(d) PROVE MarkedVideo(v)'
  BY <1>3 DEF CheckInbox, TypeOK, MarkedVideo, FannedOut, Published, jobVars
<1>4. ASSUME NEW d \in Delivery, Enqueue(d) PROVE MarkedVideo(v)'
  BY <1>4, JobOrderIndices DEF Enqueue, TypeOK, MarkedVideo, FannedOut, Published
<1>5. ASSUME NEW d \in Delivery, PublishStarted(d) PROVE MarkedVideo(v)'
  <2>1. status \in Seq(StatusEvent) /\ video[d] \in Video
    BY <1>5 DEF PublishStarted, TypeOK, HandlerControl, InHandler
  <2>2. Published(Started, v)' <=> Published(Started, v) \/ Event(Started, v) = Event(Started, video[d])
    BY <1>5, <2>1, PublishedAppend DEF PublishStarted
  <2> QED
    BY <1>5, <2>2
    DEF PublishStarted, TypeOK, MarkedVideo, FannedOut, jobVars
<1>6. ASSUME NEW d \in Delivery, MarkProcessed(d) PROVE MarkedVideo(v)'
  BY <1>6
  DEF MarkProcessed, TypeOK, MarkedVideo, FannedOut, Published, jobVars, FanOutControl
<1>7. ASSUME NEW d \in Delivery, Ack(d) PROVE MarkedVideo(v)'
  BY <1>7 DEF Ack, TypeOK, MarkedVideo, FannedOut, Published, jobVars
<1>8. ASSUME NEW d \in Delivery, Raise(d) PROVE MarkedVideo(v)'
  BY <1>8 DEF Raise, TypeOK, MarkedVideo, FannedOut, Published, jobVars, Fault
<1>9. ASSUME NEW d \in Delivery, NEW k \in JobKind, Dequeue(d, k) PROVE MarkedVideo(v)'
  BY <1>9
  DEF Dequeue, TypeOK, MarkedVideo, FannedOut, Published, unchangedByJobs, MoveJob,
      deliveryVars
<1>10. ASSUME NEW d \in Delivery, NEW k \in JobKind, Work(d, k) PROVE MarkedVideo(v)'
  BY <1>10
  DEF Work, TypeOK, MarkedVideo, FannedOut, Published, unchangedByJobs, MoveJob,
      deliveryVars
<1>11. ASSUME NEW d \in Delivery, NEW k \in JobKind, AddToJoin(d, k) PROVE MarkedVideo(v)'
  BY <1>11
  DEF AddToJoin, TypeOK, MarkedVideo, FannedOut, Published, unchangedByJobs, MoveJob,
      IsComplete, deliveryVars
<1>12. ASSUME NEW d \in Delivery, NEW k \in JobKind, PublishProcessed(d, k)
      PROVE  MarkedVideo(v)'
  <2>1. status \in Seq(StatusEvent) /\ video[d] \in Video
    BY <1>12 DEF PublishProcessed, TypeOK, JobControl
  <2>2. Published(Started, v)' <=> Published(Started, v) \/ Event(Started, v) = Event(Processed, video[d])
    BY <1>12, <2>1, PublishedAppend DEF PublishProcessed
  <2> QED
    BY <1>12, <2>2
    DEF PublishProcessed, TypeOK, MarkedVideo, FannedOut, MoveJob, unchangedByJobs, deliveryVars
<1>13. ASSUME NEW d \in Delivery, NEW k \in JobKind, ClearJoin(d, k) PROVE MarkedVideo(v)'
  BY <1>13
  DEF ClearJoin, TypeOK, MarkedVideo, FannedOut, Published, unchangedByJobs, MoveJob,
      deliveryVars
<1>14. ASSUME NEW d \in Delivery, NEW k \in JobKind, Finish(d, k) PROVE MarkedVideo(v)'
  BY <1>14
  DEF Finish, TypeOK, MarkedVideo, FannedOut, Published, unchangedByJobs, MoveJob,
      deliveryVars
<1>15. ASSUME NEW d \in Delivery, NEW k \in JobKind, HookPublish(d, k)
      PROVE  MarkedVideo(v)'
  <2>1. status \in Seq(StatusEvent) /\ video[d] \in Video
    BY <1>15 DEF HookPublish, TypeOK, JobControl
  <2>2. Published(Started, v)' <=> Published(Started, v) \/ Event(Started, v) = Event(Failed, video[d])
    BY <1>15, <2>1, PublishedAppend DEF HookPublish
  <2> QED
    BY <1>15, <2>2
    DEF HookPublish, TypeOK, MarkedVideo, FannedOut, MoveJob, unchangedByJobs, deliveryVars
<1>16. ASSUME NEW d \in Delivery, NEW k \in JobKind, HookClear(d, k) PROVE MarkedVideo(v)'
  BY <1>16
  DEF HookClear, TypeOK, MarkedVideo, FannedOut, Published, unchangedByJobs, MoveJob,
      deliveryVars
<1>17. ASSUME NEW d \in Delivery, NEW k \in JobKind, JobRaises(d, k) PROVE MarkedVideo(v)'
  BY <1>17
  DEF JobRaises, TypeOK, MarkedVideo, FannedOut, Published, unchangedByJobs, Fault,
      MoveJob, AfterException, deliveryVars, Retryable, InJob
<1>18. ASSUME NEW d \in Delivery, NEW k \in JobKind, WorkerDies(d, k)
      PROVE  MarkedVideo(v)'
  BY <1>18
  DEF WorkerDies, TypeOK, MarkedVideo, FannedOut, Published, unchangedByJobs, Fault,
      MoveJob, Retryable, deliveryVars, InJob
<1>19. ASSUME NEW d \in Delivery, NEW k \in JobKind, HookPublishLost(d, k)
      PROVE  MarkedVideo(v)'
  BY <1>19
  DEF HookPublishLost, TypeOK, MarkedVideo, FannedOut, Published, unchangedByJobs,
      Fault, MoveJob, deliveryVars
<1>20. ASSUME NEW d \in Delivery, NEW k \in JobKind, HookAbandoned(d, k)
      PROVE  MarkedVideo(v)'
  BY <1>20
  DEF HookAbandoned, TypeOK, MarkedVideo, FannedOut, Published, unchangedByJobs, Fault,
      MoveJob, deliveryVars, InHook
<1>21. ASSUME NEW w \in Video, ExpireInbox(w) PROVE MarkedVideo(v)'
  BY <1>21 DEF ExpireInbox, TypeOK, MarkedVideo, FannedOut, Published, jobVars, Fault
<1>22. ASSUME NEW w \in Video, ExpireJoin(w) PROVE MarkedVideo(v)'
  BY <1>22
  DEF ExpireJoin, TypeOK, MarkedVideo, FannedOut, Published, jobVars, unchangedByJobs,
      Fault, deliveryVars
<1>23. CASE UNCHANGED vars
  BY <1>23 DEF vars, TypeOK, MarkedVideo, FannedOut, Published
<1> QED
  BY <1>1, <1>2, <1>3, <1>4, <1>5, <1>6, <1>7, <1>8, <1>9, <1>10, <1>11, <1>12, <1>13,
     <1>14, <1>15, <1>16, <1>17, <1>18, <1>19, <1>20, <1>21, <1>22, <1>23
  DEF Next, HandlerStep, JobStep, JobFault

\* The acknowledged entries stay marked or forgotten.
LEMMA AckedStep ==
    ASSUME TypeInv, FanOutInv, [Next]_vars, NEW i \in acked', uploaded'[i] \in Video
    PROVE  uploaded'[i] \in inbox' \cup forgotten'
<1> DEFINE Kept == /\ uploaded' = uploaded /\ acked' = acked
                   /\ inbox \cup forgotten \subseteq inbox' \cup forgotten'
<1>1. i \in 1..Len(uploaded') /\ uploaded \in Seq(Payload) /\ acked \in SUBSET (1..Len(uploaded))
  BY TypeInvStep DEF TypeInv, TypeOK
<1>2. ASSUME NEW p \in Payload, Upload(p) PROVE uploaded'[i] \in inbox' \cup forgotten'
  BY <1>1, <1>2 DEF Upload, FanOutInv, deliveryVars
<1>3. ASSUME NEW d \in Delivery, Ack(d) PROVE uploaded'[i] \in inbox' \cup forgotten'
  BY <1>1, <1>3 DEF Ack, FanOutInv, FanOutControl, TypeInv, HandlerControl, InHandler
<1>4. CASE Kept
  BY <1>4 DEF FanOutInv
<1>5. (\E p \in Payload : Upload(p)) \/ (\E d \in Delivery : Ack(d)) \/ Kept
  <2>1. ASSUME NEW d \in Delivery, Receive(d) PROVE Kept
    BY <2>1 DEF Receive
  <2>2. ASSUME NEW d \in Delivery, HandlerStep(d) \/ Raise(d) PROVE Ack(d) \/ Kept
    BY <2>2 DEF HandlerStep, CheckInbox, Enqueue, PublishStarted, MarkProcessed, Raise
  <2>3. ASSUME NEW d \in Delivery, NEW k \in JobKind, JobStep(d, k) PROVE Kept
    BY <2>3 DEF JobStep, Dequeue, Work, AddToJoin, PublishProcessed, ClearJoin, Finish,
                HookPublish, HookClear, unchangedByJobs, deliveryVars
  <2>4. ASSUME NEW d \in Delivery, NEW k \in JobKind, JobFault(d, k) PROVE Kept
    BY <2>4 DEF JobFault, JobRaises, WorkerDies, HookPublishLost, HookAbandoned,
                unchangedByJobs, deliveryVars
  <2>5. ASSUME NEW w \in Video, ExpireInbox(w) \/ ExpireJoin(w) PROVE Kept
    BY <2>5 DEF ExpireInbox, ExpireJoin, unchangedByJobs, deliveryVars
  <2>6. CASE UNCHANGED vars
    BY <2>6 DEF vars
  <2> QED
    BY <2>1, <2>2, <2>3, <2>4, <2>5, <2>6 DEF Next
<1> QED
  BY <1>2, <1>3, <1>4, <1>5

LEMMA FanOutInvariant == Spec => []FanOutInv
<1>1. Init => FanOutInv
  BY DEF Init, FanOutInv, FanOutControl, MarkedVideo
<1>2. TypeInv /\ FanOutInv /\ [Next]_vars => FanOutInv'
  BY FanOutControlStep, MarkedVideoStep, AckedStep DEF FanOutInv
<1> QED
  BY <1>1, <1>2, TypeInvariant, PTL DEF Spec

\* In every reachable state the jobs of an acknowledged upload are all in the
\* queue or beyond and the video is announced as started, whatever handler
\* raised, whoever took the entry over and whichever mark expired.
THEOREM AckedIsFannedOut == Spec => []NoLostUpload
<1>1. TypeInv /\ FanOutInv => NoLostUpload
  BY DEF TypeInv, TypeOK, FanOutInv, MarkedVideo, NoLostUpload
<1> QED
  BY <1>1, FanOutInvariant, TypeInvariant, PTL

\* In every reachable state an acknowledged upload whose mark has not expired
\* is in the inbox: no repetition of it fans out again.
THEOREM AckedIsInInbox == Spec => []AckedIsDeduplicated
<1>1. FanOutInv => AckedIsDeduplicated
  BY DEF FanOutInv, AckedIsDeduplicated
<1> QED
  BY <1>1, FanOutInvariant, PTL

\* In every reachable state an acknowledgement is the end of an upload's delivery.
THEOREM AckedStaysDone == Spec => []AckedIsDone
<1>1. NoLostUpload /\ AckedIsDeduplicated => AckedIsDone
  BY DEF AckedIsDone
<1> QED
  BY <1>1, AckedIsFannedOut, AckedIsInInbox, PTL

-----------------------------------------------------------------------------
(* video_processing_failed means that a job is out of attempts *)

\* The hook runs on_job_failed only for a job that used all its attempts.
ExhaustedJob(d, k) ==
    job[d][k] \in {"hook_publish", "hook_clear", "failed"} => attempts[d][k] = Retries

\* A job beyond the publication of the failure.
BeyondFailure(d, k) == job[d][k] \in {"hook_clear", "failed"}

FailedVideo(v) ==
    Published(Failed, v) => \E d \in Delivery, k \in JobKind : video[d] = v /\ BeyondFailure(d, k)

ExhaustedInv ==
    /\ \A d \in Delivery, k \in JobKind : ExhaustedJob(d, k)
    /\ \A v \in Video : FailedVideo(v)

LEMMA ExhaustedJobStep ==
    ASSUME TypeInv, [Next]_vars, NEW e \in Delivery, NEW l \in JobKind, ExhaustedJob(e, l)
    PROVE  ExhaustedJob(e, l)'
<1> USE DEF TypeInv
<1>1. ASSUME NEW p \in Payload, Upload(p) PROVE ExhaustedJob(e, l)'
  BY <1>1 DEF Upload, TypeOK, ExhaustedJob, deliveryVars, jobVars
<1>2. ASSUME NEW d \in Delivery, Receive(d)
      PROVE  ExhaustedJob(e, l)'
  BY <1>2 DEF Receive, TypeOK, ExhaustedJob, jobVars
<1>3. ASSUME NEW d \in Delivery, CheckInbox(d) PROVE ExhaustedJob(e, l)'
  BY <1>3 DEF CheckInbox, TypeOK, ExhaustedJob, jobVars
<1>4. ASSUME NEW d \in Delivery, Enqueue(d) PROVE ExhaustedJob(e, l)'
  BY <1>4, JobOrderIndices DEF Enqueue, TypeOK, ExhaustedJob
<1>5. ASSUME NEW d \in Delivery, PublishStarted(d) PROVE ExhaustedJob(e, l)'
  BY <1>5 DEF PublishStarted, TypeOK, ExhaustedJob, jobVars, Publish, Event
<1>6. ASSUME NEW d \in Delivery, MarkProcessed(d) PROVE ExhaustedJob(e, l)'
  BY <1>6 DEF MarkProcessed, TypeOK, ExhaustedJob, jobVars
<1>7. ASSUME NEW d \in Delivery, Ack(d) PROVE ExhaustedJob(e, l)'
  BY <1>7 DEF Ack, TypeOK, ExhaustedJob, jobVars
<1>8. ASSUME NEW d \in Delivery, Raise(d) PROVE ExhaustedJob(e, l)'
  BY <1>8 DEF Raise, TypeOK, ExhaustedJob, jobVars, Fault
<1>9. ASSUME NEW d \in Delivery, NEW k \in JobKind, Dequeue(d, k)
      PROVE  ExhaustedJob(e, l)'
  BY <1>9 DEF Dequeue, TypeOK, ExhaustedJob, unchangedByJobs, MoveJob, deliveryVars
<1>10. ASSUME NEW d \in Delivery, NEW k \in JobKind, Work(d, k) PROVE ExhaustedJob(e, l)'
  BY <1>10 DEF Work, TypeOK, ExhaustedJob, unchangedByJobs, MoveJob, deliveryVars
<1>11. ASSUME NEW d \in Delivery, NEW k \in JobKind, AddToJoin(d, k)
      PROVE  ExhaustedJob(e, l)'
  BY <1>11
  DEF AddToJoin, TypeOK, ExhaustedJob, unchangedByJobs, MoveJob, IsComplete,
      deliveryVars
<1>12. ASSUME NEW d \in Delivery, NEW k \in JobKind, PublishProcessed(d, k)
      PROVE  ExhaustedJob(e, l)'
  BY <1>12
  DEF PublishProcessed, TypeOK, ExhaustedJob, unchangedByJobs, Publish, MoveJob,
      deliveryVars, Event
<1>13. ASSUME NEW d \in Delivery, NEW k \in JobKind, ClearJoin(d, k)
      PROVE  ExhaustedJob(e, l)'
  BY <1>13 DEF ClearJoin, TypeOK, ExhaustedJob, unchangedByJobs, MoveJob, deliveryVars
<1>14. ASSUME NEW d \in Delivery, NEW k \in JobKind, Finish(d, k)
      PROVE  ExhaustedJob(e, l)'
  BY <1>14 DEF Finish, TypeOK, ExhaustedJob, unchangedByJobs, MoveJob, deliveryVars
<1>15. ASSUME NEW d \in Delivery, NEW k \in JobKind, HookPublish(d, k)
      PROVE  ExhaustedJob(e, l)'
  BY <1>15, BoundsAssumption
  DEF HookPublish, TypeOK, ExhaustedJob, unchangedByJobs, Publish, MoveJob,
      deliveryVars, Event
<1>16. ASSUME NEW d \in Delivery, NEW k \in JobKind, HookClear(d, k)
      PROVE  ExhaustedJob(e, l)'
  BY <1>16 DEF HookClear, TypeOK, ExhaustedJob, unchangedByJobs, MoveJob, deliveryVars
<1>17. ASSUME NEW d \in Delivery, NEW k \in JobKind, JobRaises(d, k)
      PROVE  ExhaustedJob(e, l)'
  BY <1>17, BoundsAssumption
  DEF JobRaises, TypeOK, ExhaustedJob, unchangedByJobs, Fault, MoveJob, AfterException,
      deliveryVars, Retryable
<1>18. ASSUME NEW d \in Delivery, NEW k \in JobKind, WorkerDies(d, k)
      PROVE  ExhaustedJob(e, l)'
  BY <1>18, BoundsAssumption
  DEF WorkerDies, TypeOK, ExhaustedJob, unchangedByJobs, Fault, MoveJob, Retryable,
      deliveryVars
<1>19. ASSUME NEW d \in Delivery, NEW k \in JobKind, HookPublishLost(d, k)
      PROVE  ExhaustedJob(e, l)'
  BY <1>19, BoundsAssumption
  DEF HookPublishLost, TypeOK, ExhaustedJob, unchangedByJobs, Fault, MoveJob,
      deliveryVars
<1>20. ASSUME NEW d \in Delivery, NEW k \in JobKind, HookAbandoned(d, k)
      PROVE  ExhaustedJob(e, l)'
  BY <1>20, BoundsAssumption
  DEF HookAbandoned, TypeOK, ExhaustedJob, unchangedByJobs, Fault, MoveJob,
      deliveryVars, InHook
<1>21. ASSUME NEW w \in Video, ExpireInbox(w) PROVE ExhaustedJob(e, l)'
  BY <1>21 DEF ExpireInbox, TypeOK, ExhaustedJob, jobVars, Fault
<1>22. ASSUME NEW w \in Video, ExpireJoin(w) PROVE ExhaustedJob(e, l)'
  BY <1>22
  DEF ExpireJoin, TypeOK, ExhaustedJob, jobVars, unchangedByJobs, Fault, deliveryVars
<1>23. CASE UNCHANGED vars
  BY <1>23 DEF vars, TypeOK, ExhaustedJob
<1> QED
  BY <1>1, <1>2, <1>3, <1>4, <1>5, <1>6, <1>7, <1>8, <1>9, <1>10, <1>11, <1>12, <1>13,
     <1>14, <1>15, <1>16, <1>17, <1>18, <1>19, <1>20, <1>21, <1>22, <1>23
  DEF Next, HandlerStep, JobStep, JobFault

\* A job beyond the publication of the failure stays there, with its video.
LEMMA BeyondFailureStep ==
    ASSUME TypeInv, [Next]_vars, NEW e \in Delivery, NEW l \in JobKind, BeyondFailure(e, l)
    PROVE  BeyondFailure(e, l)' /\ video'[e] = video[e]
<1> USE DEF TypeInv
<1>1. ASSUME NEW p \in Payload, Upload(p)
      PROVE  BeyondFailure(e, l)' /\ video'[e] = video[e]
  BY <1>1 DEF Upload, TypeOK, BeyondFailure, deliveryVars, jobVars
<1>2. ASSUME NEW d \in Delivery, Receive(d)
      PROVE  BeyondFailure(e, l)' /\ video'[e] = video[e]
  BY <1>2 DEF Receive, TypeOK, BeyondFailure, jobVars, HandlerControl
<1>3. ASSUME NEW d \in Delivery, CheckInbox(d)
      PROVE  BeyondFailure(e, l)' /\ video'[e] = video[e]
  BY <1>3 DEF CheckInbox, TypeOK, BeyondFailure, jobVars
<1>4. ASSUME NEW d \in Delivery, Enqueue(d)
      PROVE  BeyondFailure(e, l)' /\ video'[e] = video[e]
  <2>1. JobOrder[next[d]] \in JobKind /\ job[d][JobOrder[next[d]]] = "none"
    BY <1>4, JobOrderIndices DEF Enqueue, TypeOK, HandlerControl
  <2> QED
    BY <1>4, <2>1 DEF Enqueue, TypeOK, BeyondFailure
<1>5. ASSUME NEW d \in Delivery, PublishStarted(d)
      PROVE  BeyondFailure(e, l)' /\ video'[e] = video[e]
  BY <1>5 DEF PublishStarted, TypeOK, BeyondFailure, jobVars, Publish, Event
<1>6. ASSUME NEW d \in Delivery, MarkProcessed(d)
      PROVE  BeyondFailure(e, l)' /\ video'[e] = video[e]
  BY <1>6 DEF MarkProcessed, TypeOK, BeyondFailure, jobVars
<1>7. ASSUME NEW d \in Delivery, Ack(d) PROVE BeyondFailure(e, l)' /\ video'[e] = video[e]
  BY <1>7 DEF Ack, TypeOK, BeyondFailure, jobVars
<1>8. ASSUME NEW d \in Delivery, Raise(d)
      PROVE  BeyondFailure(e, l)' /\ video'[e] = video[e]
  BY <1>8 DEF Raise, TypeOK, BeyondFailure, jobVars, Fault
<1>9. ASSUME NEW d \in Delivery, NEW k \in JobKind, Dequeue(d, k)
      PROVE  BeyondFailure(e, l)' /\ video'[e] = video[e]
  BY <1>9 DEF Dequeue, TypeOK, BeyondFailure, unchangedByJobs, MoveJob, deliveryVars
<1>10. ASSUME NEW d \in Delivery, NEW k \in JobKind, Work(d, k)
      PROVE  BeyondFailure(e, l)' /\ video'[e] = video[e]
  BY <1>10 DEF Work, TypeOK, BeyondFailure, unchangedByJobs, MoveJob, deliveryVars
<1>11. ASSUME NEW d \in Delivery, NEW k \in JobKind, AddToJoin(d, k)
      PROVE  BeyondFailure(e, l)' /\ video'[e] = video[e]
  BY <1>11
  DEF AddToJoin, TypeOK, BeyondFailure, unchangedByJobs, MoveJob, IsComplete,
      deliveryVars
<1>12. ASSUME NEW d \in Delivery, NEW k \in JobKind, PublishProcessed(d, k)
      PROVE  BeyondFailure(e, l)' /\ video'[e] = video[e]
  BY <1>12
  DEF PublishProcessed, TypeOK, BeyondFailure, unchangedByJobs, Publish, MoveJob,
      deliveryVars, Event
<1>13. ASSUME NEW d \in Delivery, NEW k \in JobKind, ClearJoin(d, k)
      PROVE  BeyondFailure(e, l)' /\ video'[e] = video[e]
  BY <1>13 DEF ClearJoin, TypeOK, BeyondFailure, unchangedByJobs, MoveJob, deliveryVars
<1>14. ASSUME NEW d \in Delivery, NEW k \in JobKind, Finish(d, k)
      PROVE  BeyondFailure(e, l)' /\ video'[e] = video[e]
  BY <1>14 DEF Finish, TypeOK, BeyondFailure, unchangedByJobs, MoveJob, deliveryVars
<1>15. ASSUME NEW d \in Delivery, NEW k \in JobKind, HookPublish(d, k)
      PROVE  BeyondFailure(e, l)' /\ video'[e] = video[e]
  BY <1>15
  DEF HookPublish, TypeOK, BeyondFailure, unchangedByJobs, Publish, MoveJob,
      deliveryVars, Event
<1>16. ASSUME NEW d \in Delivery, NEW k \in JobKind, HookClear(d, k)
      PROVE  BeyondFailure(e, l)' /\ video'[e] = video[e]
  BY <1>16 DEF HookClear, TypeOK, BeyondFailure, unchangedByJobs, MoveJob, deliveryVars
<1>17. ASSUME NEW d \in Delivery, NEW k \in JobKind, JobRaises(d, k)
      PROVE  BeyondFailure(e, l)' /\ video'[e] = video[e]
  BY <1>17
  DEF JobRaises, TypeOK, BeyondFailure, unchangedByJobs, Fault, MoveJob, AfterException,
      deliveryVars, Retryable, InJob
<1>18. ASSUME NEW d \in Delivery, NEW k \in JobKind, WorkerDies(d, k)
      PROVE  BeyondFailure(e, l)' /\ video'[e] = video[e]
  BY <1>18
  DEF WorkerDies, TypeOK, BeyondFailure, unchangedByJobs, Fault, MoveJob, Retryable,
      deliveryVars, InJob
<1>19. ASSUME NEW d \in Delivery, NEW k \in JobKind, HookPublishLost(d, k)
      PROVE  BeyondFailure(e, l)' /\ video'[e] = video[e]
  BY <1>19
  DEF HookPublishLost, TypeOK, BeyondFailure, unchangedByJobs, Fault, MoveJob,
      deliveryVars
<1>20. ASSUME NEW d \in Delivery, NEW k \in JobKind, HookAbandoned(d, k)
      PROVE  BeyondFailure(e, l)' /\ video'[e] = video[e]
  BY <1>20
  DEF HookAbandoned, TypeOK, BeyondFailure, unchangedByJobs, Fault, MoveJob,
      deliveryVars, InHook
<1>21. ASSUME NEW w \in Video, ExpireInbox(w)
      PROVE  BeyondFailure(e, l)' /\ video'[e] = video[e]
  BY <1>21 DEF ExpireInbox, TypeOK, BeyondFailure, jobVars, Fault
<1>22. ASSUME NEW w \in Video, ExpireJoin(w)
      PROVE  BeyondFailure(e, l)' /\ video'[e] = video[e]
  BY <1>22
  DEF ExpireJoin, TypeOK, BeyondFailure, jobVars, unchangedByJobs, Fault, deliveryVars
<1>23. CASE UNCHANGED vars
  BY <1>23 DEF vars, TypeOK, BeyondFailure
<1> QED
  BY <1>1, <1>2, <1>3, <1>4, <1>5, <1>6, <1>7, <1>8, <1>9, <1>10, <1>11, <1>12, <1>13,
     <1>14, <1>15, <1>16, <1>17, <1>18, <1>19, <1>20, <1>21, <1>22, <1>23
  DEF Next, HandlerStep, JobStep, JobFault

\* Only HookPublish adds a failure to the stream.
LEMMA FailurePublished ==
    ASSUME TypeInv, [Next]_vars, NEW v \in Video, ~Published(Failed, v), Published(Failed, v)'
    PROVE  \E d \in Delivery, k \in JobKind : HookPublish(d, k) /\ video[d] = v
<1> USE DEF TypeInv
<1>1. ASSUME NEW d \in Delivery, NEW k \in JobKind, HookPublish(d, k) PROVE video[d] = v
  <2>1. status \in Seq(StatusEvent) /\ video[d] \in Video
    BY <1>1 DEF HookPublish, TypeOK, JobControl
  <2> QED
    BY <1>1, <2>1, PublishedAppend DEF HookPublish, Event
<1>2. ASSUME NEW d \in Delivery, NEW k \in JobKind, PublishProcessed(d, k) PROVE FALSE
  <2>1. status \in Seq(StatusEvent) /\ video[d] \in Video
    BY <1>2 DEF PublishProcessed, TypeOK, JobControl
  <2> QED
    BY <1>2, <2>1, PublishedAppend DEF PublishProcessed, Event, Processed, Failed
<1>3. ASSUME NEW d \in Delivery, PublishStarted(d) PROVE FALSE
  <2>1. status \in Seq(StatusEvent) /\ video[d] \in Video
    BY <1>3 DEF PublishStarted, TypeOK, HandlerControl, InHandler
  <2> QED
    BY <1>3, <2>1, PublishedAppend DEF PublishStarted, Event, Started, Failed
<1>4. CASE UNCHANGED status
  BY <1>4 DEF Published
<1>5. \/ UNCHANGED status
      \/ \E d \in Delivery : PublishStarted(d)
      \/ \E d \in Delivery, k \in JobKind : PublishProcessed(d, k) \/ HookPublish(d, k)
  <2>1. ASSUME NEW d \in Delivery,
               Receive(d) \/ HandlerStep(d) \/ Raise(d)
        PROVE  PublishStarted(d) \/ UNCHANGED status
    BY <2>1 DEF Receive, HandlerStep, CheckInbox, Enqueue, MarkProcessed, Ack, Raise
  <2>2. ASSUME NEW d \in Delivery, NEW k \in JobKind, JobStep(d, k)
        PROVE  PublishProcessed(d, k) \/ HookPublish(d, k) \/ UNCHANGED status
    BY <2>2 DEF JobStep, Dequeue, Work, AddToJoin, ClearJoin, Finish, HookClear
  <2>3. ASSUME NEW d \in Delivery, NEW k \in JobKind, JobFault(d, k) PROVE UNCHANGED status
    BY <2>3 DEF JobFault, JobRaises, WorkerDies, HookPublishLost, HookAbandoned
  <2>4. ASSUME NEW w \in Video, ExpireInbox(w) \/ ExpireJoin(w) PROVE UNCHANGED status
    BY <2>4 DEF ExpireInbox, ExpireJoin
  <2>5. ASSUME NEW p \in Payload, Upload(p) PROVE UNCHANGED status
    BY <2>5 DEF Upload
  <2>6. CASE UNCHANGED vars
    BY <2>6 DEF vars
  <2> QED
    BY <2>1, <2>2, <2>3, <2>4, <2>5, <2>6 DEF Next
<1> QED
  BY <1>1, <1>2, <1>3, <1>4, <1>5

LEMMA FailedVideoStep ==
    ASSUME TypeInv, [Next]_vars, NEW v \in Video, FailedVideo(v)
    PROVE  FailedVideo(v)'
<1>1. CASE Published(Failed, v)
  <2>1. PICK d \in Delivery, k \in JobKind : video[d] = v /\ BeyondFailure(d, k)
    BY <1>1 DEF FailedVideo
  <2> QED
    BY <2>1, BeyondFailureStep DEF FailedVideo
<1>2. CASE ~Published(Failed, v) /\ Published(Failed, v)'
  <2>1. PICK d \in Delivery, k \in JobKind : HookPublish(d, k) /\ video[d] = v
    BY <1>2, FailurePublished
  <2> QED
    BY <2>1
    DEF HookPublish, MoveJob, TypeInv, TypeOK, FailedVideo, BeyondFailure, unchangedByJobs,
        deliveryVars
<1>3. CASE ~Published(Failed, v)'
  BY <1>3 DEF FailedVideo
<1> QED
  BY <1>1, <1>2, <1>3

\* In every reachable state, a video announced as failed has a job that used
\* all its attempts: no retried exception and no crash announces a failure.
THEOREM FailedOnlyWhenExhausted == Spec => []FailedMeansExhausted
<1>1. Init => ExhaustedInv
  BY DEF Init, ExhaustedInv, ExhaustedJob, FailedVideo, Published
<1>2. TypeInv /\ ExhaustedInv /\ [Next]_vars => ExhaustedInv'
  BY ExhaustedJobStep, FailedVideoStep DEF ExhaustedInv
<1>3. ExhaustedInv => FailedMeansExhausted
  BY DEF ExhaustedInv, ExhaustedJob, FailedVideo, BeyondFailure, FailedMeansExhausted
<1> QED
  BY <1>1, <1>2, <1>3, TypeInvariant, PTL DEF Spec

=============================================================================
