------------------------------ MODULE VideoStatus ------------------------------
(***************************************************************************)
(* The status side of media_example in litestar_backend: the               *)
(* VideoStatusConsumer tasks that apply the video_status stream, the       *)
(* cancel and delete endpoints, and the videos table they all write.       *)
(*                                                                         *)
(* A status use case reads the row, moves the copy in memory along the     *)
(* status machine, saves it in a transaction of its own and broadcasts the *)
(* new status.  Nothing holds the row between the read and the save.       *)
(*                                                                         *)
(* A consumer cycle adopts stale pending entries, applies them, reads new  *)
(* entries and applies those.  An exception abandons the rest of the batch *)
(* and starts the next cycle; the abandoned entries stay pending.  Before  *)
(* the first cycle there is nobody to catch one: the task ends, and its    *)
(* process goes on without a consumer.                                     *)
(***************************************************************************)
EXTENDS Naturals, Sequences, FiniteSets

CONSTANTS
    Video,      \* the uploaded videos
    Streams,    \* what video_status may come to hold
    Consumer,   \* consumer names; a restarted worker has a new one
    Canceller,  \* requests to the cancel endpoint
    Workers,    \* how many worker processes are alive at once, with a consumer each
    Batch,      \* _batch: entries adopted or read in one call
    None,       \* no owner, no copy
    MaxFaults   \* bound on exceptions, crashes, cancellations and lost groups

VARIABLES
    stream,   \* the entries of video_status
    group,    \* whether the consumer group exists
    read,     \* how many entries the group has delivered
    owner,    \* the pending entries list: the consumer that holds each entry
    stale,    \* the pending entries idle for longer than _claim_idle_ms
    status,   \* videos.status
    deleted,  \* the videos whose deleted_at is set
    step,     \* where each consumer and each cancel request is
    phase,    \* the half of drain_once a consumer is in
    batch,    \* the entries it has yet to handle, in order
    target,   \* its copy of the video, in the status it has moved to
    reached,  \* history: the statuses each video has been saved with
    overtaken,  \* history: who is about to save a copy of a video that somebody
                \* else has saved since the copy was read
    skipped,  \* history: entries acked because of a DomainError or AppError
    faults    \* faults so far

vars == <<stream, group, read, owner, stale, status, deleted, step, phase, batch,
          target, reached, overtaken, skipped, faults>>

Actor == Consumer \cup Canceller

\* The videos of which somebody is about to save an overtaken copy.
Contested == {target[a].video : a \in overtaken}

L == INSTANCE VideoLifecycle WITH state <- status, had <- reached, contested <- Contested

\* An entry is a status event, or a payload that does not decode or names no
\* event type the consumer knows.
EventType == {"video_processing_started", "video_processed", "video_processing_failed"}
Entry == [type : EventType \cup {"unusable"}, video : Video]

\* The use case an event type is dispatched to.
MarkedAs == [video_processing_started |-> L!Processing,
             video_processed |-> L!Done,
             video_processing_failed |-> L!Failed]

ASSUME VideoStatusAssumption ==
    /\ Streams \subseteq Seq(Entry)
    /\ IsFiniteSet(Consumer) /\ None \notin Consumer
    /\ Consumer \cap Canceller = {}
    /\ Workers \in Nat \ {0} /\ Batch \in Nat \ {0} /\ MaxFaults \in Nat

Copy == [video : Video, status : L!Status]

Pending == {e \in DOMAIN owner : owner[e] # None}
Alive == {c \in Consumer : step[c] \notin {"off", "dead"}}

Fault == faults < MaxFaults /\ faults' = faults + 1
Goto(a, s) == step' = [step EXCEPT ![a] = s]

streamVars == <<stream, group, read, owner, stale>>
rowVars == <<status, deleted, reached>>
actorVars == <<step, phase, batch, target>>

-----------------------------------------------------------------------------
(* The stream and the consumer group *)

\* event_microservice appends the next entry.
Publish ==
    /\ \E s \in Streams :
          /\ Len(stream) < Len(s)
          /\ SubSeq(s, 1, Len(stream)) = stream
          /\ stream' = Append(stream, s[Len(stream) + 1])
    /\ owner' = Append(owner, None)
    /\ UNCHANGED <<group, read, stale, rowVars, actorVars, overtaken, skipped, faults>>

NoPending == [e \in DOMAIN owner |-> None]

\* ensure_group: a new group starts at 0, an existing one is left alone.
EnsureGroup ==
    /\ group' = TRUE
    /\ read' = IF group THEN read ELSE 0
    /\ owner' = IF group THEN owner ELSE NoPending
    /\ stale' = IF group THEN stale ELSE {}

\* run_forever: the group is ensured before the first cycle.
Start(c) ==
    /\ step[c] = "off"
    /\ Cardinality(Alive) < Workers
    /\ EnsureGroup
    /\ Goto(c, "poll")
    /\ UNCHANGED <<stream, rowVars, phase, batch, target, overtaken, skipped, faults>>

\* Valkey cannot be reached then: the exception ends the task, which the lifespan
\* creates once and does not look at again before the process is shut down.
StartFails(c) ==
    /\ step[c] = "off"
    /\ Cardinality(Alive) < Workers
    /\ Fault
    /\ Goto(c, "stopped")
    /\ UNCHANGED <<streamVars, rowVars, phase, batch, target, overtaken, skipped>>

\* Pending entries that nobody has acked become idle for long enough.
Elapse ==
    /\ stale' = Pending
    /\ stale' # stale
    /\ UNCHANGED <<stream, group, read, owner, rowVars, actorVars, overtaken, skipped, faults>>

\* Mutant of Adoptable: a consumer takes back only what it had itself.
AdoptableOwn(c) == {e \in stale : owner[e] = c}

\* XAUTOCLAIM looks at the idle time of an entry, whoever owns it.
Adoptable(c) == stale

\* The oldest members of a set of entries, as many as one call handles.
Oldest(es) == {e \in es : Cardinality({f \in es : f < e}) < Batch}

\* Entries handed to a consumer are pending in its name until it acks them.
Deliver(c, es) ==
    /\ owner' = [e \in DOMAIN owner |-> IF e \in es THEN c ELSE owner[e]]
    /\ batch' = [batch EXCEPT ![c] = es]
    /\ Goto(c, IF es = {} THEN "poll" ELSE "load")

\* _claim_stale: adopt stale entries and apply them before reading new ones.
ClaimStale(c) ==
    /\ step[c] = "poll" /\ phase[c] = "claim" /\ group
    /\ LET es == Oldest(Adoptable(c))
       IN  /\ Deliver(c, es)
           /\ stale' = stale \ es
           /\ phase' = [phase EXCEPT ![c] = IF es = {} THEN "read" ELSE @]
    /\ UNCHANGED <<stream, group, read, rowVars, target, overtaken, skipped, faults>>

\* NOGROUP on the claim: the group is created again and the cycle goes on.
RecreateGroup(c) ==
    /\ step[c] = "poll" /\ phase[c] = "claim" /\ ~group
    /\ EnsureGroup
    /\ phase' = [phase EXCEPT ![c] = "read"]
    /\ UNCHANGED <<stream, rowVars, step, batch, target, overtaken, skipped, faults>>

\* Mutant of ReadGroup: the group moves on by a whole batch.
ReadPastTheEnd(c) ==
    LET es == {e \in read + 1 .. Len(stream) : e <= read + Batch} IN
    /\ step[c] = "poll" /\ phase[c] = "read" /\ group
    /\ Deliver(c, es)
    /\ read' = read + Batch
    /\ phase' = [phase EXCEPT ![c] = IF es = {} THEN "claim" ELSE @]
    /\ UNCHANGED <<stream, group, stale, rowVars, target, overtaken, skipped, faults>>

\* XREADGROUP hands out the next entries, or none when it blocks for too long.
ReadGroup(c) ==
    LET es == {e \in read + 1 .. Len(stream) : e <= read + Batch} IN
    /\ step[c] = "poll" /\ phase[c] = "read" /\ group
    /\ Deliver(c, es)
    /\ read' = read + Cardinality(es)
    /\ phase' = [phase EXCEPT ![c] = IF es = {} THEN "claim" ELSE @]
    /\ UNCHANGED <<stream, group, stale, rowVars, target, overtaken, skipped, faults>>

\* NOGROUP on the read raises; the next cycle finds the group missing.
ReadWithoutGroup(c) ==
    /\ step[c] = "poll" /\ phase[c] = "read" /\ ~group
    /\ phase' = [phase EXCEPT ![c] = "claim"]
    /\ UNCHANGED <<streamVars, rowVars, step, batch, target, overtaken, skipped, faults>>

\* Somebody destroys the group, and with it its pending entries.
LoseGroup ==
    /\ group
    /\ Fault
    /\ group' = FALSE
    /\ owner' = NoPending
    /\ stale' = {}
    /\ read' = 0
    /\ UNCHANGED <<stream, rowVars, actorVars, overtaken, skipped>>

-----------------------------------------------------------------------------
(* The status use cases, run by a consumer or by a cancel request *)

\* Mutant of Current: the newest entry of a batch is applied first.
CurrentNewest(c) == CHOOSE e \in batch[c] : \A f \in batch[c] : f <= e

\* The entry a consumer is at: batches are applied in stream order.
Current(c) == CHOOSE e \in batch[c] : \A f \in batch[c] : e <= f
EventOf(c) == stream[Current(c)]

Unusable(c) == EventOf(c).type = "unusable"

\* A payload that does not decode, or of an unknown type, is only logged and acked.
DropUnusable(c) ==
    /\ step[c] = "load" /\ Unusable(c)
    /\ Goto(c, "ack")
    /\ UNCHANGED <<streamVars, rowVars, phase, batch, target, overtaken, skipped, faults>>

\* Mutant of Movable: the status machine lets a finished video fail.
MovableWhenDone(v, s) ==
    /\ v \notin deleted
    /\ s \in L!Allowed(status[v]) \/ (status[v] = L!Done /\ s = L!Failed)

\* get_by_id finds the video, and _transition allows the move.
Movable(v, s) == v \notin deleted /\ s \in L!Allowed(status[v])

\* The read and the transition of the copy in memory.
Load(a, v, s) ==
    /\ Movable(v, s)
    /\ target' = [target EXCEPT ![a] = [video |-> v, status |-> s]]
    /\ Goto(a, "save")
    /\ UNCHANGED <<streamVars, rowVars, phase, batch, overtaken, skipped, faults>>

LoadEntry(c) ==
    /\ step[c] = "load" /\ ~Unusable(c)
    /\ Load(c, EventOf(c).video, MarkedAs[EventOf(c).type])

\* VideoNotFound and InvalidTransition: nothing to apply, now or later.
SkipEntry(c) ==
    /\ step[c] = "load" /\ ~Unusable(c)
    /\ ~Movable(EventOf(c).video, MarkedAs[EventOf(c).type])
    /\ skipped' = skipped \cup {Current(c)}
    /\ Goto(c, "ack")
    /\ UNCHANGED <<streamVars, rowVars, phase, batch, target, overtaken, faults>>

\* A cancel request for v: FAILED, or 404 or 409.
LoadCancel(r, v) ==
    /\ step[r] = "off"
    /\ Load(r, v, L!Failed)

RefuseCancel(r, v) ==
    /\ step[r] = "off"
    /\ ~Movable(v, L!Failed)
    /\ Goto(r, "refused")
    /\ UNCHANGED <<streamVars, rowVars, phase, batch, target, overtaken, skipped, faults>>

\* After a has saved v, the copies of v that others are about to save are overtaken.
Overtake(a, v) ==
    overtaken' =
        (overtaken \cup {b \in Actor : step[b] = "save" /\ target[b].video = v}) \ {a}

\* Mutant of Save: the upsert overwrites deleted_at with that of the copy.
SaveWholeRow(a) ==
    LET v == target[a].video IN
    /\ step[a] = "save"
    /\ status' = [status EXCEPT ![v] = target[a].status]
    /\ reached' = [reached EXCEPT ![v] = @ \cup {target[a].status}]
    /\ deleted' = deleted \ {v}
    /\ Overtake(a, v)
    /\ Goto(a, "feed")
    /\ UNCHANGED <<streamVars, phase, batch, target, skipped, faults>>

\* save and the commit: the upsert writes the status, whatever it is by now.
Save(a) ==
    LET v == target[a].video IN
    /\ step[a] = "save"
    /\ status' = [status EXCEPT ![v] = target[a].status]
    /\ reached' = [reached EXCEPT ![v] = @ \cup {target[a].status}]
    /\ Overtake(a, v)
    /\ Goto(a, "feed")
    /\ UNCHANGED <<streamVars, deleted, phase, batch, target, skipped, faults>>

\* The best-effort broadcast after the commit; no state depends on it.
Broadcast(a) ==
    /\ step[a] = "feed"
    /\ Goto(a, IF a \in Consumer THEN "ack" ELSE "cancelled")
    /\ target' = [target EXCEPT ![a] = None]
    /\ UNCHANGED <<streamVars, rowVars, phase, batch, overtaken, skipped, faults>>

\* XACK takes the entry off the pending list, whoever owns it by now.
Ack(c) ==
    /\ step[c] = "ack"
    /\ owner' = [owner EXCEPT ![Current(c)] = None]
    /\ stale' = stale \ {Current(c)}
    /\ batch' = [batch EXCEPT ![c] = @ \ {Current(c)}]
    /\ Goto(c, IF batch'[c] = {} THEN "poll" ELSE "load")
    /\ phase' = [phase EXCEPT ![c] = IF batch'[c] # {} THEN @
                                     ELSE IF @ = "claim" THEN "read" ELSE "claim"]
    /\ UNCHANGED <<stream, group, read, rowVars, target, overtaken, skipped, faults>>

InEntry == {"load", "save", "feed", "ack"}

\* The batch and the copy are gone; what was saved is saved.
Abandon(c, s) ==
    /\ batch' = [batch EXCEPT ![c] = {}]
    /\ target' = [target EXCEPT ![c] = None]
    /\ overtaken' = overtaken \ {c}
    /\ phase' = [phase EXCEPT ![c] = "claim"]
    /\ Goto(c, s)

\* Mutant of Raise: the entry that fails is acked.
AckOnRaise(c) ==
    /\ step[c] \in InEntry
    /\ Fault
    /\ owner' = [owner EXCEPT ![Current(c)] = None]
    /\ stale' = stale \ {Current(c)}
    /\ Abandon(c, "poll")
    /\ UNCHANGED <<stream, group, read, rowVars, skipped>>

\* A PortError or any other exception: the rest of the batch is abandoned, and
\* stays pending.  In "feed" the commit took effect without its reply.
Raise(c) ==
    /\ step[c] \in InEntry
    /\ Fault
    /\ Abandon(c, "poll")
    /\ UNCHANGED <<streamVars, rowVars, skipped>>

\* The worker process dies, wherever its consumer is.
Die(c) ==
    /\ c \in Alive
    /\ Fault
    /\ Abandon(c, "dead")
    /\ UNCHANGED <<streamVars, rowVars, skipped>>

\* A cancel request ends in 503, its transaction rolled back or not.
FailCancel(r) ==
    /\ step[r] \in {"off", "save", "feed"}
    /\ Fault
    /\ Goto(r, "refused")
    /\ target' = [target EXCEPT ![r] = None]
    /\ overtaken' = overtaken \ {r}
    /\ UNCHANGED <<streamVars, rowVars, phase, batch, skipped>>

\* DELETE /videos/{id}: one UPDATE of a row that is not deleted yet.
Delete(v) ==
    /\ v \notin deleted
    /\ deleted' = deleted \cup {v}
    /\ UNCHANGED <<streamVars, status, reached, actorVars, overtaken, skipped, faults>>

-----------------------------------------------------------------------------
Init ==
    /\ stream = <<>>
    /\ group = FALSE
    /\ read = 0
    /\ owner = <<>>
    /\ stale = {}
    /\ status = [v \in Video |-> L!Pending]
    /\ deleted = {}
    /\ step = [a \in Actor |-> "off"]
    /\ phase = [c \in Consumer |-> "claim"]
    /\ batch = [c \in Consumer |-> {}]
    /\ target = [a \in Actor |-> None]
    /\ reached = [v \in Video |-> {L!Pending}]
    /\ overtaken = {}
    /\ skipped = {}
    /\ faults = 0

Poll(c) ==
    \/ ClaimStale(c)
    \/ RecreateGroup(c)
    \/ ReadGroup(c)
    \/ ReadWithoutGroup(c)

Handle(c) ==
    \/ DropUnusable(c)
    \/ LoadEntry(c)
    \/ SkipEntry(c)
    \/ Ack(c)

Next ==
    \/ Publish
    \/ \E c \in Consumer :
          Start(c) \/ StartFails(c) \/ Poll(c) \/ Handle(c) \/ Raise(c) \/ Die(c)
    \/ \E r \in Canceller :
          \/ \E v \in Video : LoadCancel(r, v) \/ RefuseCancel(r, v)
          \/ FailCancel(r)
    \/ \E a \in Actor : Save(a) \/ Broadcast(a)
    \/ \E v \in Video : Delete(v)
    \/ Elapse
    \/ LoseGroup

Spec == Init /\ [][Next]_vars

\* Dead workers are replaced, the event loops keep running and time passes.
Fairness ==
    /\ \A c \in Consumer :
          /\ WF_vars(Start(c))
          /\ WF_vars(Poll(c))
          /\ WF_vars(Handle(c) \/ Save(c) \/ Broadcast(c))
    /\ WF_vars(Elapse)

FairSpec == Spec /\ Fairness

-----------------------------------------------------------------------------
(* Properties *)

\* Every variable has its type; what is stale is pending, what is pending was read.
TypeOK ==
    /\ stream \in Seq(Entry)
    /\ group \in BOOLEAN
    /\ read \in 0..Len(stream)
    /\ owner \in [1..Len(stream) -> Consumer \cup {None}]
    /\ stale \subseteq Pending /\ Pending \subseteq 1..read
    /\ status \in [Video -> L!Status]
    /\ deleted \subseteq Video
    /\ step \in [Actor -> {"off", "stopped", "poll", "dead", "refused", "cancelled"} \cup InEntry]
    /\ phase \in [Consumer -> {"claim", "read"}]
    /\ batch \in [Consumer -> SUBSET (1..Len(stream))]
    /\ target \in [Actor -> Copy \cup {None}]
    /\ reached \in [Video -> SUBSET L!Status]
    /\ overtaken \subseteq {a \in Actor : step[a] = "save"}
    /\ skipped \subseteq 1..Len(stream)
    /\ faults \in 0..MaxFaults

Acked == {e \in 1..read : owner[e] = None}

\* At-least-once: no entry leaves the pending list before a transaction has
\* saved the status it asks for, or the use case has refused it, however
\* consumers raise, die and take entries over from each other.
AckedIsSettled ==
    \A e \in Acked :
        stream[e].type = "unusable" \/ e \in skipped
        \/ MarkedAs[stream[e].type] \in reached[stream[e].video]

\* v is deleted, and no save based on a read from before that is under way.
Buried(v) == v \in deleted /\ \A a \in Actor : step[a] = "save" => target[a].video # v

\* A delete is final: a save that started before it does not bring the video
\* back, and once those saves are over nobody moves its status again.
DeleteIsFinal ==
    [][\A v \in Video :
          /\ v \in deleted => v \in deleted'
          /\ Buried(v) => Buried(v)' /\ status'[v] = status[v]]_vars

\* The status of v after the first n entries, applied one after the other.
Outcome(v) ==
    LET after[n \in 0..Len(stream)] ==
            IF n = 0 THEN L!Pending
            ELSE LET e == stream[n] IN
                 IF /\ e.video = v /\ e.type # "unusable"
                    /\ MarkedAs[e.type] \in L!Allowed(after[n - 1])
                   THEN MarkedAs[e.type] ELSE after[n - 1]
    IN  after

\* One worker, undisturbed, applies the stream in its order: once nothing is
\* pending, each status is what the entries read so far lead to.
AppliedInOrder ==
    Workers = 1 /\ faults = 0 /\ Pending = {} =>
        \A v \in Video \ deleted :
            (\A r \in Canceller : step[r] = "off") => status[v] = Outcome(v)[read]

\* videos.status follows the status machine, through crashes, redeliveries and
\* takeovers: a save leaves it only where somebody else has saved the video between
\* its read and its save, and even then moves on from a status the video has had.
Lifecycle == L!Spec

\* Every worker there is has lost its consumer task.
NobodyListens == Cardinality({c \in Consumer : step[c] = "stopped"}) = Workers

\* Every entry is acknowledged in the end, those of dead consumers included, unless
\* from some moment on the tasks of all the workers are over.
EveryEntryIsAcked ==
    \A e \in UNION {DOMAIN s : s \in Streams} :
        e <= Len(stream) ~> (e \in Acked \/ []NobodyListens)
=============================================================================
