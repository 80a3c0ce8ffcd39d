------------------------------ MODULE VideoUpload ------------------------------
(***************************************************************************)
(* The upload side of media_example in litestar_backend: POST /videos with *)
(* its idempotency key, the transactional outbox, the OutboxRelay tasks    *)
(* that drain it into the video_uploaded stream, and the sweeper that      *)
(* forgets old keys.                                                       *)
(*                                                                         *)
(* A request claims its key, saves the video and stages the outbox row in  *)
(* one PostgreSQL transaction; the claim of a second request for the same  *)
(* key waits for that transaction to end.  The video of a request has a    *)
(* fresh id, so the request itself stands for it.                          *)
(***************************************************************************)
EXTENDS Naturals, Sequences, FiniteSets

CONSTANTS
    Request,   \* POST /videos requests, and the videos they create
    Key,       \* Idempotency-Key headers
    Payload,   \* canonical payloads, as the fingerprint tells them apart
    Relay,     \* relay tasks, one per worker process
    Batch,     \* rows a relay claims at once
    None,      \* no key, no row, no video
    MaxFaults  \* bound on failing requests and relay cycles

ASSUME VideoUploadAssumption ==
    /\ None \notin Request \cup Key \cup [payload : Payload, video : Request]
    /\ IsFiniteSet(Request)
    /\ Batch \in Nat \ {0} /\ MaxFaults \in Nat

VARIABLES
    step,       \* where each request is
    key,        \* its Idempotency-Key, if any
    payload,    \* its payload
    reply,      \* what it was answered
    videos,     \* the committed rows of videos
    keys,       \* the committed rows of idempotency_keys
    expired,    \* the keys past their expires_at
    forgotten,  \* history: the keys the sweeper has deleted
    outbox,     \* outbox_messages: the committed row of each video
    claimed,    \* the rows each relay has locked
    todo,       \* the rows among them it has yet to publish
    stream,     \* the video_uploaded stream
    faults      \* faults so far

requestVars == <<step, key, payload, reply>>
tableVars == <<videos, keys, expired, forgotten>>
relayVars == <<claimed, todo>>
vars == <<step, key, payload, reply, videos, keys, expired, forgotten, outbox,
          claimed, todo, stream, faults>>

\* An answer names a video, or an error: an idempotency conflict or a PortError.
Answer(kind, v) == [kind |-> kind, video |-> v]
Reply(r, kind, v) ==
    /\ reply' = [reply EXCEPT ![r] = Answer(kind, v)]
    /\ step' = [step EXCEPT ![r] = "answered"]

Goto(r, s) == step' = [step EXCEPT ![r] = s]
Fault == faults < MaxFaults /\ faults' = faults + 1

-----------------------------------------------------------------------------
(* The request *)

\* Without a key there is nothing to claim.
Receive(r, k, p) ==
    /\ step[r] = "new"
    /\ key' = [key EXCEPT ![r] = k]
    /\ payload' = [payload EXCEPT ![r] = p]
    /\ Goto(r, IF k = None THEN "write" ELSE "claim")
    /\ UNCHANGED <<reply, tableVars, outbox, relayVars, stream, faults>>

\* The requests whose open transaction has inserted the row of key k.
Holders(k) == {r \in Request : step[r] = "write" /\ key[r] = k}

\* Mutant of Claim: the insert does not wait for a concurrent transaction.
ClaimWithoutWaiting(r) ==
    /\ step[r] = "claim"
    /\ Goto(r, IF keys[key[r]] = None THEN "write" ELSE "find")
    /\ UNCHANGED <<key, payload, reply, tableVars, outbox, relayVars, stream, faults>>

\* INSERT ... ON CONFLICT DO NOTHING: waits on the index for whoever has
\* inserted the key, then gets the key or, against a committed row, nothing.
Claim(r) ==
    /\ step[r] = "claim"
    /\ Holders(key[r]) = {}
    /\ Goto(r, IF keys[key[r]] = None THEN "write" ELSE "find")
    /\ UNCHANGED <<key, payload, reply, tableVars, outbox, relayVars, stream, faults>>

\* The video, its event and the claim are committed together.
Commit(r) ==
    /\ step[r] = "write"
    /\ videos' = videos \cup {r}
    /\ outbox' = [outbox EXCEPT ![r] = "unsent"]
    /\ keys' = [k \in Key |-> IF k = key[r] THEN [payload |-> payload[r], video |-> r]
                              ELSE keys[k]]
    /\ Goto(r, "reply")
    /\ UNCHANGED <<key, payload, reply, expired, forgotten, relayVars, stream, faults>>

ReplyCreated(r) ==
    /\ step[r] = "reply"
    /\ Reply(r, "created", r)
    /\ UNCHANGED <<key, payload, tableVars, outbox, relayVars, stream, faults>>

\* Mutant of Find: the answer to a reused key names the video it was used for.
FindNamesReused(r) ==
    LET row == keys[key[r]] IN
    /\ step[r] = "find"
    /\ CASE row = None -> Reply(r, "error", None)
         [] row # None /\ row.payload # payload[r] -> Reply(r, "reused", row.video)
         [] OTHER -> Reply(r, "replayed", row.video)
    /\ UNCHANGED <<key, payload, tableVars, outbox, relayVars, stream, faults>>

\* Mutant of Find: it polls until the row it lost against is readable.
FindPolls(r) ==
    LET row == keys[key[r]] IN
    /\ step[r] = "find" /\ row # None
    /\ IF row.payload # payload[r] THEN Reply(r, "reused", None)
                                   ELSE Reply(r, "replayed", row.video)
    /\ UNCHANGED <<key, payload, tableVars, outbox, relayVars, stream, faults>>

\* After losing the claim: replay the stored answer, unless the row is gone by
\* now or was stored for another payload.
Find(r) ==
    LET row == keys[key[r]] IN
    /\ step[r] = "find"
    /\ CASE row = None -> Reply(r, "error", None)
         [] row # None /\ row.payload # payload[r] -> Reply(r, "reused", None)
         [] OTHER -> Reply(r, "replayed", row.video)
    /\ UNCHANGED <<key, payload, tableVars, outbox, relayVars, stream, faults>>

\* The request fails or its process dies: an open transaction is rolled back, a
\* committed one stands and only its answer is lost.
Fail(r) ==
    /\ step[r] \in {"claim", "write", "reply", "find"}
    /\ Fault
    /\ Reply(r, "error", None)
    /\ UNCHANGED <<key, payload, tableVars, outbox, relayVars, stream>>

-----------------------------------------------------------------------------
(* The sweeper *)

Expire(k) ==
    /\ keys[k] # None /\ k \notin expired
    /\ expired' = expired \cup {k}
    /\ UNCHANGED <<requestVars, videos, keys, forgotten, outbox, relayVars, stream, faults>>

\* purge_once: one DELETE of every expired row.
Purge ==
    /\ expired # {}
    /\ keys' = [k \in Key |-> IF k \in expired THEN None ELSE keys[k]]
    /\ forgotten' = forgotten \cup expired
    /\ expired' = {}
    /\ UNCHANGED <<requestVars, videos, outbox, relayVars, stream, faults>>

-----------------------------------------------------------------------------
(* The relay *)

Unsent == {v \in Request : outbox[v] = "unsent"}

\* FOR UPDATE SKIP LOCKED: the rows no relay has locked.
Claimable == {v \in Unsent : \A w \in Relay : v \notin claimed[w]}

\* _drain_once claims a full batch if there is one; which rows are the oldest
\* is not modelled.
ClaimRows(w) ==
    /\ claimed[w] = {}
    /\ \E vs \in SUBSET Claimable :
          /\ vs # {}
          /\ Cardinality(vs) = Batch \/ (vs = Claimable /\ Cardinality(vs) < Batch)
          /\ claimed' = [claimed EXCEPT ![w] = vs]
          /\ todo' = [todo EXCEPT ![w] = vs]
    /\ UNCHANGED <<requestVars, tableVars, outbox, stream, faults>>

\* One XADD of the loop.
Publish(w) ==
    /\ \E v \in todo[w] :
          /\ stream' = Append(stream, v)
          /\ todo' = [todo EXCEPT ![w] = @ \ {v}]
    /\ UNCHANGED <<requestVars, tableVars, outbox, claimed, faults>>

\* Mutant of MarkSent: the batch is marked before it is published.
MarkSentFirst(w) ==
    /\ claimed[w] # {}
    /\ outbox' = [v \in Request |-> IF v \in claimed[w] THEN "sent" ELSE outbox[v]]
    /\ claimed' = [claimed EXCEPT ![w] = {}]
    /\ UNCHANGED <<requestVars, tableVars, todo, stream, faults>>

\* The UPDATE of the whole batch, and the commit that unlocks it.
MarkSent(w) ==
    /\ claimed[w] # {} /\ todo[w] = {}
    /\ outbox' = [v \in Request |-> IF v \in claimed[w] THEN "sent" ELSE outbox[v]]
    /\ claimed' = [claimed EXCEPT ![w] = {}]
    /\ UNCHANGED <<requestVars, tableVars, todo, stream, faults>>

\* Mutant of DrainFails: an exception in the loop falls through to the mark.
DrainFailsMarked(w) ==
    /\ claimed[w] # {}
    /\ Fault
    /\ outbox' = [v \in Request |-> IF v \in claimed[w] THEN "sent" ELSE outbox[v]]
    /\ claimed' = [claimed EXCEPT ![w] = {}]
    /\ todo' = [todo EXCEPT ![w] = {}]
    /\ UNCHANGED <<requestVars, tableVars, stream>>

\* The cycle fails or the process dies: the rollback unlocks the rows, and those
\* already published will be published again.
DrainFails(w) ==
    /\ claimed[w] # {}
    /\ Fault
    /\ claimed' = [claimed EXCEPT ![w] = {}]
    /\ todo' = [todo EXCEPT ![w] = {}]
    /\ UNCHANGED <<requestVars, tableVars, outbox, stream>>

-----------------------------------------------------------------------------
Init ==
    /\ step = [r \in Request |-> "new"]
    /\ key = [r \in Request |-> None]
    /\ payload = [r \in Request |-> None]
    /\ reply = [r \in Request |-> None]
    /\ videos = {}
    /\ keys = [k \in Key |-> None]
    /\ expired = {}
    /\ forgotten = {}
    /\ outbox = [r \in Request |-> "none"]
    /\ claimed = [w \in Relay |-> {}]
    /\ todo = [w \in Relay |-> {}]
    /\ stream = <<>>
    /\ faults = 0

RequestStep(r) == Claim(r) \/ Commit(r) \/ ReplyCreated(r) \/ Find(r)
RelayStep(w) == ClaimRows(w) \/ Publish(w) \/ MarkSent(w)

Next ==
    \/ \E r \in Request :
          \/ \E k \in Key \cup {None}, p \in Payload : Receive(r, k, p)
          \/ RequestStep(r)
          \/ Fail(r)
    \/ \E k \in Key : Expire(k)
    \/ Purge
    \/ \E w \in Relay : RelayStep(w) \/ DrainFails(w)

Spec == Init /\ [][Next]_vars

\* Requests and relays keep running; that keys expire is not assumed.
Fairness ==
    /\ \A r \in Request : WF_vars(RequestStep(r))
    /\ \A w \in Relay : WF_vars(RelayStep(w))

FairSpec == Spec /\ Fairness

-----------------------------------------------------------------------------
(* Properties *)

Answers == [kind : {"created", "replayed"}, video : Request]
               \cup [kind : {"reused", "error"}, video : {None}]

\* Every variable has its type; only an answer that names a result carries a video.
TypeOK ==
    /\ step \in [Request -> {"new", "claim", "write", "reply", "find", "answered"}]
    /\ key \in [Request -> Key \cup {None}]
    /\ payload \in [Request -> Payload \cup {None}]
    /\ reply \in [Request -> Answers \cup {None}]
    /\ videos \subseteq Request
    /\ keys \in [Key -> [payload : Payload, video : Request] \cup {None}]
    /\ expired \subseteq Key /\ forgotten \subseteq Key
    /\ outbox \in [Request -> {"none", "unsent", "sent"}]
    /\ claimed \in [Relay -> SUBSET Request]
    /\ todo \in [Relay -> SUBSET Request]
    /\ stream \in Seq(Request)
    /\ faults \in 0..MaxFaults

\* However requests with one key overlap, fail and are retried, they create one
\* video between them until the sweeper forgets the key.
OneVideoPerKey ==
    \A r, s \in videos :
        r # s /\ key[r] = key[s] => key[r] \in forgotten \cup {None}

\* A replay answers with the video of the first request, and only to a request
\* that has its payload.
ReplayIsTheFirstAnswer ==
    \A r \in Request : reply[r] # None /\ reply[r].kind = "replayed" =>
        LET first == reply[r].video IN
        first \in videos /\ key[first] = key[r] /\ payload[first] = payload[r]

\* An Idempotency-Key means one video and one answer.
Idempotency == OneVideoPerKey /\ ReplayIsTheFirstAnswer

\* A row marked sent is in the stream, whatever cycle failed in between.
SentIsPublished ==
    \A v \in Request : outbox[v] = "sent" => \E i \in 1..Len(stream) : stream[i] = v

\* Concurrent relays do not deliver a row twice; only a failed cycle does.
NoDuplicateWithoutFault ==
    faults = 0 => \A i, j \in 1..Len(stream) : stream[i] = stream[j] => i = j

\* The outbox is at-least-once, and exactly-once while nothing fails.
OutboxDelivers == SentIsPublished /\ NoDuplicateWithoutFault

\* Every committed video is announced in the end.
EveryVideoIsAnnounced ==
    \A v \in Request : v \in videos ~> \E i \in 1..Len(stream) : stream[i] = v

\* Every request is answered: waiting for a key never lasts.
EveryRequestIsAnswered ==
    \A r \in Request : step[r] # "new" ~> reply[r] # None
=============================================================================
