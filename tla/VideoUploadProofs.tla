-------------------------- MODULE VideoUploadProofs --------------------------
(***************************************************************************)
(* What the upload promises, proved for any numbers of requests, keys,     *)
(* payloads, relays and faults: an idempotency key means one video and one *)
(* answer, and the outbox delivers every row it marks, twice only after a  *)
(* failed cycle.                                                           *)
(***************************************************************************)
EXTENDS VideoUpload, TLAPS

Row == [payload : Payload, video : Request]
Before == {"new", "claim", "write", "find"}

\* What a request knows by the step it is at, and that it leaves no trace before
\* its transaction is committed.
Control(r) ==
    /\ step[r] \in {"claim", "find"} => key[r] \in Key
    /\ step[r] \in {"claim", "write", "find", "reply"} => payload[r] \in Payload
    /\ step[r] \in Before => r \notin videos /\ outbox[r] = "none"
    /\ reply[r] # None => step[r] = "answered"

\* A key that an open transaction has inserted is held by that one alone, and no
\* row for it is committed.
Held(r) ==
    step[r] = "write" /\ key[r] # None =>
        /\ keys[key[r]] = None
        /\ \A s \in Request \ {r} : step[s] = "write" => key[s] # key[r]

\* A stored answer is that of the video its request created,
Stored(k) ==
    keys[k] # None =>
        LET v == keys[k].video IN
        v \in videos /\ key[v] = k /\ payload[v] = keys[k].payload

\* and the stored answer of a key is kept until the sweeper deletes it.
Kept(v) ==
    v \in videos /\ key[v] \notin forgotten \cup {None} =>
        keys[key[v]] # None /\ keys[key[v]].video = v

Replied(r) ==
    reply[r] # None /\ reply[r].kind = "replayed" =>
        LET first == reply[r].video IN
        first \in videos /\ key[first] = key[r] /\ payload[first] = payload[r]

\* A relay's rows are unsent, and its own.
Locked(w) ==
    /\ todo[w] \subseteq claimed[w] /\ claimed[w] \subseteq Unsent
    /\ \A u \in Relay \ {w} : claimed[u] \cap claimed[w] = {}

UploadInv ==
    /\ TypeOK
    /\ \A w \in Relay : Locked(w)
    /\ \A r \in Request : Control(r) /\ Held(r) /\ Kept(r) /\ Replied(r)
    /\ \A k \in Key : Stored(k)

-----------------------------------------------------------------------------
(* Types and what a request knows *)

\* Every variable keeps its type, given what the requests know.
LEMMA TypeStep ==
    ASSUME TypeOK, \A r \in Request : Control(r), [Next]_vars
    PROVE  TypeOK'
<1> USE VideoUploadAssumption
<1>1. ASSUME NEW r \in Request, NEW k \in Key \cup {None}, NEW p \in Payload, Receive(r, k, p)
      PROVE  TypeOK'
  BY <1>1 DEF TypeOK, Receive, Goto, tableVars, relayVars
<1>2. ASSUME NEW r \in Request, Claim(r) PROVE TypeOK'
  BY <1>2 DEF TypeOK, Claim, Goto, tableVars, relayVars
<1>3. ASSUME NEW r \in Request, Commit(r) PROVE TypeOK'
  <2>1. payload[r] \in Payload /\ step[r] = "write"
    BY <1>3 DEF Commit, Control
  <2>2. [payload |-> payload[r], video |-> r] \in Row
    BY <2>1 DEF Row
  <2>3. keys' \in [Key -> Row \cup {None}]
    BY <1>3, <2>2 DEF Commit, TypeOK, Row
  <2> QED BY <1>3, <2>3 DEF TypeOK, Commit, Goto, relayVars, Row
<1>4. ASSUME NEW r \in Request, NEW kind, NEW v, Reply(r, kind, v), Answer(kind, v) \in Answers,
             UNCHANGED <<key, payload, tableVars, outbox, relayVars, stream>>,
             faults' \in 0..MaxFaults
      PROVE  TypeOK'
  BY <1>4 DEF TypeOK, Reply, tableVars, relayVars
<1>5. ASSUME NEW r \in Request, ReplyCreated(r) PROVE TypeOK'
  <2>1. Answer("created", r) \in Answers
    BY DEF Answer, Answers
  <2> QED BY <1>4, <1>5, <2>1 DEF ReplyCreated, TypeOK
<1>6. ASSUME NEW r \in Request, Find(r) PROVE TypeOK'
  <2>1. key[r] \in Key
    BY <1>6 DEF Find, Control
  <2>2. Answer("error", None) \in Answers /\ Answer("reused", None) \in Answers
    BY DEF Answer, Answers
  <2>3. faults' \in 0..MaxFaults
    BY <1>6 DEF Find, TypeOK
  <2>4. UNCHANGED <<key, payload, tableVars, outbox, relayVars, stream>>
    BY <1>6 DEF Find
  <2>5. CASE Reply(r, "error", None) \/ Reply(r, "reused", None)
    BY <1>4, <2>2, <2>3, <2>4, <2>5
  <2>6. CASE keys[key[r]] # None /\ Reply(r, "replayed", keys[key[r]].video)
    <3>1. keys[key[r]].video \in Request
      BY <2>1, <2>6 DEF TypeOK
    <3>2. Answer("replayed", keys[key[r]].video) \in Answers
      BY <3>1 DEF Answer, Answers
    <3> QED BY <1>4, <2>3, <2>4, <2>6, <3>2
  <2> QED BY <1>6, <2>5, <2>6 DEF Find
<1>7. ASSUME NEW r \in Request, Fail(r) PROVE TypeOK'
  <2>1. Answer("error", None) \in Answers
    BY DEF Answer, Answers
  <2>2. faults' \in 0..MaxFaults
    BY <1>7 DEF Fail, Fault, TypeOK
  <2> QED BY <1>4, <1>7, <2>1, <2>2 DEF Fail
<1>8. ASSUME NEW k \in Key, Expire(k) PROVE TypeOK'
  BY <1>8 DEF TypeOK, Expire, requestVars, relayVars
<1>9. CASE Purge
  BY <1>9 DEF TypeOK, Purge, requestVars, relayVars
<1>10. ASSUME NEW w \in Relay, ClaimRows(w) PROVE TypeOK'
  BY <1>10 DEF TypeOK, ClaimRows, Claimable, Unsent, requestVars, tableVars
<1>11. ASSUME NEW w \in Relay, Publish(w) PROVE TypeOK'
  <2>1. PICK v \in todo[w] : stream' = Append(stream, v) /\ todo' = [todo EXCEPT ![w] = @ \ {v}]
    BY <1>11 DEF Publish
  <2>2. v \in Request /\ stream \in Seq(Request)
    BY <2>1 DEF TypeOK
  <2>3. stream' \in Seq(Request)
    BY <2>1, <2>2
  <2>4. todo' \in [Relay -> SUBSET Request]
    BY <2>1 DEF TypeOK
  <2> QED BY <1>11, <2>3, <2>4 DEF TypeOK, Publish, requestVars, tableVars
<1>12. ASSUME NEW w \in Relay, MarkSent(w) PROVE TypeOK'
  BY <1>12 DEF TypeOK, MarkSent, requestVars, tableVars
<1>13. ASSUME NEW w \in Relay, DrainFails(w) PROVE TypeOK'
  BY <1>13 DEF TypeOK, DrainFails, Fault, requestVars, tableVars
<1>14. CASE UNCHANGED vars
  BY <1>14 DEF TypeOK, vars
<1> QED BY <1>1, <1>2, <1>3, <1>5, <1>6, <1>7, <1>8, <1>9, <1>10, <1>11, <1>12, <1>13, <1>14
        DEF Next, RequestStep, RelayStep

\* An answer is given by a request that leaves its step behind for good.
LEMMA ReplyInv ==
    ASSUME UploadInv, NEW r \in Request, NEW kind, NEW v, Reply(r, kind, v),
           step[r] # "new",
           UNCHANGED <<key, payload, tableVars, outbox>>,
           kind = "replayed" =>
               v \in videos /\ key[v] = key[r] /\ payload[v] = payload[r]
    PROVE  /\ \A q \in Request : Control(q)' /\ Held(q)' /\ Kept(q)' /\ Replied(q)'
           /\ \A k \in Key : Stored(k)'
<1> USE VideoUploadAssumption
<1>1. ASSUME NEW q \in Request PROVE Control(q)'
  BY <1>1 DEF UploadInv, TypeOK, Reply, Control, Before, tableVars
<1>2. ASSUME NEW q \in Request PROVE Held(q)'
  BY <1>2 DEF UploadInv, TypeOK, Reply, Held, tableVars
<1>3. ASSUME NEW q \in Request PROVE Kept(q)'
  BY <1>3 DEF UploadInv, Kept, tableVars
<1>4. ASSUME NEW q \in Request PROVE Replied(q)'
  <2>1. CASE q = r
    <3>1. reply'[q] = [kind |-> kind, video |-> v]
      BY <2>1 DEF UploadInv, TypeOK, Reply, Answer
    <3> QED BY <3>1, <2>1 DEF Replied, tableVars
  <2>2. CASE q # r
    <3>1. reply'[q] = reply[q]
      BY <2>2 DEF UploadInv, TypeOK, Reply
    <3> QED BY <3>1, <1>4 DEF UploadInv, Replied, tableVars
  <2> QED BY <2>1, <2>2
<1>5. ASSUME NEW k \in Key PROVE Stored(k)'
  BY <1>5 DEF UploadInv, Stored, tableVars
<1> QED BY <1>1, <1>2, <1>3, <1>4, <1>5

\* Rows are locked by one relay, and only the one that has them marks them.
LEMMA LockStep ==
    ASSUME UploadInv, [Next]_vars
    PROVE  \A w \in Relay : Locked(w)'
<1>1. ASSUME NEW w \in Relay, ClaimRows(w) PROVE \A u \in Relay : Locked(u)'
  <2>1. PICK vs \in SUBSET Claimable :
            /\ claimed' = [claimed EXCEPT ![w] = vs]
            /\ todo' = [todo EXCEPT ![w] = vs]
    BY <1>1 DEF ClaimRows
  <2>2. UNCHANGED outbox
    BY <1>1 DEF ClaimRows
  <2>3. vs \subseteq Unsent /\ \A u \in Relay : vs \cap claimed[u] = {}
    BY DEF Claimable
  <2> QED BY <2>1, <2>2, <2>3 DEF UploadInv, TypeOK, Locked, Unsent
<1>2. ASSUME NEW w \in Relay, Publish(w) PROVE \A u \in Relay : Locked(u)'
  BY <1>2 DEF UploadInv, TypeOK, Locked, Unsent, Publish
<1>3. ASSUME NEW w \in Relay, MarkSent(w) PROVE \A u \in Relay : Locked(u)'
  BY <1>3 DEF UploadInv, TypeOK, Locked, Unsent, MarkSent
<1>4. ASSUME NEW w \in Relay, DrainFails(w) PROVE \A u \in Relay : Locked(u)'
  BY <1>4 DEF UploadInv, TypeOK, Locked, Unsent, DrainFails
<1>5. ASSUME UNCHANGED relayVars, \A v \in Unsent : v \in Unsent'
      PROVE  \A u \in Relay : Locked(u)'
  BY <1>5 DEF UploadInv, Locked, relayVars
<1>6. ASSUME NEW r \in Request, Commit(r)
      PROVE  UNCHANGED relayVars /\ \A v \in Unsent : v \in Unsent'
  BY <1>6 DEF UploadInv, TypeOK, Commit, Unsent
<1>7. ASSUME NEW r \in Request,
             \/ \E k \in Key \cup {None}, p \in Payload : Receive(r, k, p)
             \/ Claim(r) \/ ReplyCreated(r) \/ Find(r) \/ Fail(r)
      PROVE  UNCHANGED relayVars /\ \A v \in Unsent : v \in Unsent'
  BY <1>7 DEF Receive, Claim, ReplyCreated, Find, Fail, Unsent
<1>8. ASSUME (\E k \in Key : Expire(k)) \/ Purge \/ UNCHANGED vars
      PROVE  UNCHANGED relayVars /\ \A v \in Unsent : v \in Unsent'
  BY <1>8 DEF Expire, Purge, vars, relayVars, Unsent
<1> QED BY <1>1, <1>2, <1>3, <1>4, <1>5, <1>6, <1>7, <1>8 DEF Next, RequestStep, RelayStep

\* Every step keeps what makes a key idempotent.
LEMMA UploadStep ==
    ASSUME UploadInv, [Next]_vars
    PROVE  UploadInv'
<1> USE VideoUploadAssumption
<1> DEFINE Rest == /\ \A q \in Request : Control(q)' /\ Held(q)' /\ Kept(q)' /\ Replied(q)'
                   /\ \A k \in Key : Stored(k)'
<1>t. TypeOK'
  BY TypeStep DEF UploadInv
<1>l. \A w \in Relay : Locked(w)'
  BY LockStep
<1>1. ASSUME NEW r \in Request, NEW k \in Key \cup {None}, NEW p \in Payload, Receive(r, k, p)
      PROVE  Rest
  <2>1. r \notin videos /\ (reply[r] # None => FALSE)
    BY <1>1 DEF UploadInv, Control, Before, Receive
  <2>2. \A q \in Request \ {r} :
            step'[q] = step[q] /\ key'[q] = key[q] /\ payload'[q] = payload[q]
    BY <1>1 DEF UploadInv, TypeOK, Receive, Goto
  <2>3. /\ step'[r] = IF k = None THEN "write" ELSE "claim"
        /\ key'[r] = k /\ payload'[r] = p
        /\ UNCHANGED <<reply, videos, keys, forgotten, outbox>>
    BY <1>1 DEF UploadInv, TypeOK, Receive, Goto, tableVars
  <2>4. ASSUME NEW q \in Request PROVE Control(q)'
    BY <2>1, <2>2, <2>3, <2>4, <1>1 DEF UploadInv, Control, Before, Receive
  <2>5. ASSUME NEW q \in Request PROVE Held(q)'
    <3>1. CASE q = r
      BY <2>3, <3>1 DEF Held
    <3>2. CASE q # r
      BY <2>2, <2>3, <3>2 DEF UploadInv, Held
    <3> QED BY <3>1, <3>2
  <2>6. ASSUME NEW q \in Request PROVE Kept(q)'
    BY <2>1, <2>2, <2>3, <2>6 DEF UploadInv, Kept
  <2>7. ASSUME NEW q \in Request PROVE Replied(q)'
    BY <2>1, <2>2, <2>3, <2>7 DEF UploadInv, TypeOK, Replied
  <2>8. ASSUME NEW c \in Key PROVE Stored(c)'
    BY <2>1, <2>2, <2>3, <2>8 DEF UploadInv, TypeOK, Stored
  <2> QED BY <2>4, <2>5, <2>6, <2>7, <2>8
<1>2. ASSUME NEW r \in Request, Claim(r) PROVE Rest
  <2>1. /\ step[r] = "claim" /\ key[r] \in Key /\ reply[r] = None
        /\ \A q \in Request : step[q] = "write" => key[q] # key[r]
    BY <1>2 DEF UploadInv, Control, Claim, Holders
  <2>2. /\ step' = [step EXCEPT ![r] = IF keys[key[r]] = None THEN "write" ELSE "find"]
        /\ UNCHANGED <<key, payload, reply, videos, keys, forgotten, outbox>>
    BY <1>2 DEF Claim, Goto, tableVars
  <2>3. ASSUME NEW q \in Request PROVE Control(q)'
    BY <2>1, <2>2, <2>3 DEF UploadInv, TypeOK, Control, Before
  <2>4. ASSUME NEW q \in Request PROVE Held(q)'
    BY <2>1, <2>2, <2>4 DEF UploadInv, TypeOK, Held
  <2>5. ASSUME NEW q \in Request PROVE Kept(q)' /\ Replied(q)'
    BY <2>2, <2>5 DEF UploadInv, Kept, Replied
  <2>6. ASSUME NEW c \in Key PROVE Stored(c)'
    BY <2>2, <2>6 DEF UploadInv, Stored
  <2> QED BY <2>3, <2>4, <2>5, <2>6
<1>3. ASSUME NEW r \in Request, Commit(r) PROVE Rest
  <2>1. /\ step[r] = "write" /\ r \notin videos /\ reply[r] = None /\ payload[r] \in Payload
        /\ key[r] # None => keys[key[r]] = None
        /\ key[r] \in Key \cup {None}
    BY <1>3 DEF UploadInv, TypeOK, Control, Before, Commit, Held
  <2> DEFINE row == [payload |-> payload[r], video |-> r]
  <2>2. /\ step' = [step EXCEPT ![r] = "reply"]
        /\ videos' = videos \cup {r}
        /\ outbox' = [outbox EXCEPT ![r] = "unsent"]
        /\ keys' = [k \in Key |-> IF k = key[r] THEN row ELSE keys[k]]
        /\ UNCHANGED <<key, payload, reply, forgotten>>
    BY <1>3 DEF Commit, Goto
  <2>r. row # None /\ row.payload = payload[r] /\ row.video = r
    <3>1. row \in [payload : Payload, video : Request]
      BY <2>1
    <3> QED BY <3>1
  <2> HIDE DEF row
  <2>3. ASSUME NEW q \in Request PROVE Control(q)'
    BY <2>1, <2>2, <2>3 DEF UploadInv, TypeOK, Control, Before
  <2>4. ASSUME NEW q \in Request PROVE Held(q)'
    <3>1. ASSUME step'[q] = "write", key'[q] # None
          PROVE  q # r /\ step[q] = "write" /\ key[q] # key[r] /\ keys'[key[q]] = None
      BY <2>1, <2>2, <2>4, <3>1 DEF UploadInv, TypeOK, Held
    <3>2. ASSUME NEW s \in Request \ {q}, step'[s] = "write"
          PROVE  step[s] = "write"
      BY <2>2, <3>2 DEF UploadInv, TypeOK
    <3> QED BY <2>2, <3>1, <3>2 DEF UploadInv, Held
  <2>5. ASSUME NEW q \in Request PROVE Kept(q)'
    <3>1. CASE q = r
      BY <2>1, <2>2, <2>r, <3>1 DEF Kept
    <3>2. CASE q # r
      <4>1. ASSUME q \in videos, key[q] \notin forgotten \cup {None}
            PROVE  keys'[key[q]] # None /\ keys'[key[q]].video = q
        <5>1. keys[key[q]] # None /\ keys[key[q]].video = q /\ key[q] \in Key
          BY <2>5, <4>1 DEF UploadInv, TypeOK, Kept
        <5>2. key[q] # key[r]
          BY <2>1, <5>1
        <5> QED BY <2>2, <5>1, <5>2
      <4> QED BY <2>2, <3>2, <4>1 DEF Kept
    <3> QED BY <3>1, <3>2
  <2>6. ASSUME NEW q \in Request PROVE Replied(q)'
    BY <2>1, <2>2, <2>6 DEF UploadInv, TypeOK, Replied
  <2>7. ASSUME NEW c \in Key PROVE Stored(c)'
    <3>1. CASE c = key[r]
      BY <2>1, <2>2, <2>r, <3>1 DEF Stored
    <3>2. CASE c # key[r]
      BY <2>1, <2>2, <2>7, <3>2 DEF UploadInv, Stored
    <3> QED BY <3>1, <3>2
  <2> QED BY <2>3, <2>4, <2>5, <2>6, <2>7
<1>4. ASSUME NEW r \in Request, ReplyCreated(r) PROVE Rest
  BY <1>4, ReplyInv DEF ReplyCreated
<1>5. ASSUME NEW r \in Request, Find(r) PROVE Rest
  <2>1. /\ step[r] = "find" /\ key[r] \in Key
        /\ UNCHANGED <<key, payload, tableVars, outbox>>
    BY <1>5 DEF UploadInv, Control, Find
  <2>2. CASE Reply(r, "error", None) \/ Reply(r, "reused", None)
    BY <2>1, <2>2, ReplyInv
  <2>3. CASE /\ keys[key[r]] # None /\ keys[key[r]].payload = payload[r]
             /\ Reply(r, "replayed", keys[key[r]].video)
    <3>1. LET v == keys[key[r]].video IN
          v \in videos /\ key[v] = key[r] /\ payload[v] = payload[r]
      BY <2>1, <2>3 DEF UploadInv, Stored
    <3> QED BY <2>1, <2>3, <3>1, ReplyInv
  <2> QED BY <1>5, <2>2, <2>3 DEF Find
<1>6. ASSUME NEW r \in Request, Fail(r) PROVE Rest
  BY <1>6, ReplyInv DEF Fail
<1>7. ASSUME NEW k \in Key, Expire(k) PROVE Rest
  BY <1>7 DEF UploadInv, Expire, requestVars, Control, Held, Stored, Kept, Replied
<1>8. ASSUME Purge PROVE Rest
  <2>1. /\ UNCHANGED <<step, key, payload, reply, videos, outbox>>
        /\ keys' = [k \in Key |-> IF k \in expired THEN None ELSE keys[k]]
        /\ forgotten' = forgotten \cup expired
    BY <1>8 DEF Purge, requestVars
  <2>2. ASSUME NEW q \in Request PROVE Control(q)' /\ Replied(q)'
    BY <2>1, <2>2 DEF UploadInv, Control, Replied
  <2>3. ASSUME NEW q \in Request PROVE Held(q)'
    BY <2>1, <2>3 DEF UploadInv, TypeOK, Held
  <2>4. ASSUME NEW q \in Request PROVE Kept(q)'
    BY <2>1, <2>4 DEF UploadInv, TypeOK, Kept
  <2>5. ASSUME NEW c \in Key PROVE Stored(c)'
    BY <2>1, <2>5 DEF UploadInv, Stored
  <2> QED BY <2>2, <2>3, <2>4, <2>5
<1>9. ASSUME UNCHANGED <<step, key, payload, reply, videos, keys, forgotten>>,
             \A r \in Request : outbox[r] = "none" => outbox'[r] = "none"
      PROVE  Rest
  <2>1. ASSUME NEW q \in Request PROVE Control(q)'
    BY <1>9, <2>1 DEF UploadInv, Control
  <2>2. ASSUME NEW q \in Request PROVE Held(q)' /\ Kept(q)' /\ Replied(q)'
    BY <1>9, <2>2 DEF UploadInv, Held, Kept, Replied
  <2>3. ASSUME NEW c \in Key PROVE Stored(c)'
    BY <1>9, <2>3 DEF UploadInv, Stored
  <2> QED BY <2>1, <2>2, <2>3
<1>10. ASSUME NEW w \in Relay, ClaimRows(w) \/ Publish(w) \/ DrainFails(w) PROVE Rest
  BY <1>9, <1>10 DEF ClaimRows, Publish, DrainFails, requestVars, tableVars
<1>11. ASSUME NEW w \in Relay, MarkSent(w) PROVE Rest
  <2>1. \A v \in claimed[w] : outbox[v] = "unsent"
    BY DEF UploadInv, Locked, Unsent
  <2> QED BY <1>9, <1>11, <2>1 DEF MarkSent, requestVars, tableVars
<1>12. ASSUME UNCHANGED vars PROVE Rest
  BY <1>9, <1>12 DEF vars
<1> QED BY <1>t, <1>l, <1>1, <1>2, <1>3, <1>4, <1>5, <1>6, <1>7, <1>8, <1>10, <1>11, <1>12
        DEF Next, RequestStep, RelayStep, UploadInv

LEMMA UploadInit == Init => UploadInv
<1> SUFFICES ASSUME Init PROVE UploadInv
  OBVIOUS
<1> USE VideoUploadAssumption
<1>1. TypeOK
  BY DEF Init, TypeOK
<1>2. \A r \in Request : Control(r) /\ Held(r) /\ Kept(r) /\ Replied(r)
  BY DEF Init, Control, Held, Kept, Replied
<1>3. \A k \in Key : Stored(k)
  BY DEF Init, Stored
<1>4. \A w \in Relay : Locked(w)
  BY DEF Init, Locked
<1> QED BY <1>1, <1>2, <1>3, <1>4 DEF UploadInv

LEMMA UploadInvariant == Spec => []UploadInv
BY UploadInit, UploadStep, PTL DEF Spec

\* Requests and tables hold what the code can put there, and an answer names a
\* video exactly when it is one of the two that do.
THEOREM UploadTypeCorrect == Spec => []TypeOK
<1>1. UploadInv => TypeOK
  BY DEF UploadInv
<1> QED BY <1>1, UploadInvariant, PTL

\* UploadVideoUC: whatever races, failures and retries there are under one key,
\* it creates one video and replays its answer, until the sweeper forgets it.
THEOREM KeysAreIdempotent == Spec => []Idempotency
<1>1. ASSUME UploadInv PROVE OneVideoPerKey
  <2>1. SUFFICES ASSUME NEW r \in videos, NEW s \in videos, r # s, key[r] = key[s],
                        key[r] \notin forgotten \cup {None}
                 PROVE  FALSE
    BY DEF OneVideoPerKey
  <2>2. r \in Request /\ s \in Request
    BY <1>1 DEF UploadInv, TypeOK
  <2>3. keys[key[r]].video = r /\ keys[key[s]].video = s
    BY <1>1, <2>1, <2>2 DEF UploadInv, Kept
  <2> QED BY <2>1, <2>3
<1>2. UploadInv => ReplayIsTheFirstAnswer
  BY DEF UploadInv, Replied, ReplayIsTheFirstAnswer
<1> QED BY <1>1, <1>2, UploadInvariant, PTL DEF Idempotency

-----------------------------------------------------------------------------
(* The outbox *)

InStream(v) == \E i \in 1..Len(stream) : stream[i] = v

\* What a relay has taken off its list is in the stream,
Done(w) == \A v \in claimed[w] \ todo[w] : InStream(v)

Marked(v) == outbox[v] = "sent" => InStream(v)

\* and until a cycle fails, everything in the stream is marked or still claimed.
Accounted ==
    faults = 0 =>
        /\ \A v \in Request : InStream(v) =>
               outbox[v] = "sent" \/ \E w \in Relay : v \in claimed[w] \ todo[w]
        /\ \A i, j \in 1..Len(stream) : stream[i] = stream[j] => i = j

OutboxInv ==
    /\ \A w \in Relay : Done(w)
    /\ \A v \in Request : Marked(v)
    /\ Accounted

\* What is in the stream stays there; only Publish adds to it.
LEMMA OutboxQuiet ==
    ASSUME OutboxInv, UNCHANGED stream, faults' = 0 => faults = 0,
           \A v \in Request : outbox'[v] = "sent" <=> outbox[v] = "sent",
           UNCHANGED relayVars
    PROVE  OutboxInv'
<1>1. \A v : InStream(v)' <=> InStream(v)
  BY DEF InStream
<1>2. \A w \in Relay : Done(w)'
  BY <1>1 DEF OutboxInv, Done, relayVars
<1>3. \A v \in Request : Marked(v)'
  BY <1>1 DEF OutboxInv, Marked
<1>4. Accounted'
  BY <1>1 DEF OutboxInv, Accounted, relayVars
<1> QED BY <1>2, <1>3, <1>4 DEF OutboxInv

\* Every step keeps the outbox at-least-once, and exactly-once without a fault.
LEMMA OutboxStep ==
    ASSUME UploadInv, OutboxInv, [Next]_vars
    PROVE  OutboxInv'
<1> USE VideoUploadAssumption
<1>1. ASSUME NEW w \in Relay, ClaimRows(w) PROVE OutboxInv'
  <2>1. PICK vs \in SUBSET Claimable :
            /\ claimed' = [claimed EXCEPT ![w] = vs]
            /\ todo' = [todo EXCEPT ![w] = vs]
    BY <1>1 DEF ClaimRows
  <2>2. UNCHANGED <<outbox, stream, faults>> /\ claimed[w] = {}
    BY <1>1 DEF ClaimRows
  <2>3. \A u \in Relay : claimed'[u] \ todo'[u] = claimed[u] \ todo[u]
    BY <2>1, <2>2 DEF UploadInv, TypeOK
  <2>4. \A v : InStream(v)' <=> InStream(v)
    BY <2>2 DEF InStream
  <2>5. (\A u \in Relay : Done(u)') /\ (\A v \in Request : Marked(v)')
    BY <2>2, <2>3, <2>4 DEF OutboxInv, Done, Marked
  <2>6. Accounted'
    BY <2>2, <2>3, <2>4 DEF OutboxInv, Accounted
  <2> QED BY <2>5, <2>6 DEF OutboxInv
<1>2. ASSUME NEW w \in Relay, Publish(w) PROVE OutboxInv'
  <2>1. PICK x \in todo[w] :
            stream' = Append(stream, x) /\ todo' = [todo EXCEPT ![w] = @ \ {x}]
    BY <1>2 DEF Publish
  <2>2. UNCHANGED <<claimed, outbox, faults>>
    BY <1>2 DEF Publish
  <2>3. /\ stream \in Seq(Request) /\ Len(stream) \in Nat /\ x \in Request
        /\ x \in claimed[w] /\ outbox[x] = "unsent"
    BY <2>1 DEF UploadInv, TypeOK, Locked, Unsent
  <2>4. /\ Len(stream') = Len(stream) + 1
        /\ \A i \in 1..Len(stream) : stream'[i] = stream[i]
        /\ stream'[Len(stream) + 1] = x
    BY <2>1, <2>3
  <2>5. \A v : InStream(v)' <=> InStream(v) \/ v = x
    <3>1. \A i : i \in 1..Len(stream') <=> i \in 1..Len(stream) \/ i = Len(stream) + 1
      BY <2>3, <2>4
    <3> QED BY <2>4, <3>1 DEF InStream
  <2>6. \A u \in Relay : Done(u)'
    <3>1. ASSUME NEW u \in Relay, NEW v \in claimed'[u] \ todo'[u]
          PROVE  v \in claimed[u] \ todo[u] \/ v = x
      BY <2>1, <2>2, <3>1 DEF UploadInv, TypeOK
    <3> QED BY <2>5, <3>1 DEF OutboxInv, Done
  <2>7. \A v \in Request : Marked(v)'
    BY <2>2, <2>5 DEF OutboxInv, Marked
  <2>8. Accounted'
    <3> SUFFICES ASSUME faults = 0 PROVE Accounted'
      BY <2>2 DEF Accounted
    <3>1. ~InStream(x)
      <4> SUFFICES ASSUME InStream(x) PROVE FALSE
        OBVIOUS
      <4>1. PICK u \in Relay : x \in claimed[u] \ todo[u]
        BY <2>3 DEF OutboxInv, Accounted
      <4>2. u = w
        BY <2>3, <4>1 DEF UploadInv, Locked
      <4> QED BY <2>1, <4>1, <4>2
    <3>2. \A v \in Request : InStream(v)' =>
              outbox'[v] = "sent" \/ \E u \in Relay : v \in claimed'[u] \ todo'[u]
      <4> SUFFICES ASSUME NEW v \in Request, InStream(v)', outbox'[v] # "sent"
                   PROVE  \E u \in Relay : v \in claimed'[u] \ todo'[u]
        OBVIOUS
      <4>1. CASE v = x
        <5>1. x \in claimed'[w] \ todo'[w]
          BY <2>1, <2>2, <2>3 DEF UploadInv, TypeOK
        <5> QED BY <4>1, <5>1
      <4>2. CASE v # x
        <5>1. PICK u \in Relay : v \in claimed[u] \ todo[u]
          BY <2>2, <2>5, <4>2 DEF OutboxInv, Accounted
        <5>2. v \in claimed'[u] \ todo'[u]
          BY <2>1, <2>2, <5>1 DEF UploadInv, TypeOK
        <5> QED BY <5>2
      <4> QED BY <4>1, <4>2
    <3>3. \A i, j \in 1..Len(stream') : stream'[i] = stream'[j] => i = j
      <4>1. \A i, j \in 1..Len(stream) : stream[i] = stream[j] => i = j
        BY DEF OutboxInv, Accounted
      <4>2. \A i \in 1..Len(stream) : stream[i] # x
        BY <3>1 DEF InStream
      <4> QED BY <2>3, <2>4, <4>1, <4>2
    <3> QED BY <3>2, <3>3 DEF Accounted
  <2> QED BY <2>6, <2>7, <2>8 DEF OutboxInv
<1>3. ASSUME NEW w \in Relay, MarkSent(w) PROVE OutboxInv'
  <2>1. /\ claimed[w] # {} /\ todo[w] = {}
        /\ outbox' = [v \in Request |-> IF v \in claimed[w] THEN "sent" ELSE outbox[v]]
        /\ claimed' = [claimed EXCEPT ![w] = {}]
        /\ UNCHANGED <<todo, stream, faults>>
    BY <1>3 DEF MarkSent
  <2>2. \A v : InStream(v)' <=> InStream(v)
    BY <2>1 DEF InStream
  <2>3. \A v \in claimed[w] : InStream(v)
    BY <2>1 DEF OutboxInv, Done
  <2>4. \A u \in Relay : Done(u)'
    BY <2>1, <2>2 DEF UploadInv, TypeOK, OutboxInv, Done
  <2>5. \A v \in Request : Marked(v)'
    BY <2>1, <2>2, <2>3 DEF OutboxInv, Marked
  <2>6. Accounted'
    <3>1. \A u \in Relay, v \in Request : v \in claimed[u] \ todo[u] =>
              outbox'[v] = "sent" \/ v \in claimed'[u] \ todo'[u]
      BY <2>1 DEF UploadInv, TypeOK
    <3>2. \A v \in Request : outbox[v] = "sent" => outbox'[v] = "sent"
      BY <2>1
    <3> QED BY <2>1, <2>2, <3>1, <3>2 DEF OutboxInv, Accounted
  <2> QED BY <2>4, <2>5, <2>6 DEF OutboxInv
<1>4. ASSUME NEW w \in Relay, DrainFails(w) PROVE OutboxInv'
  <2>1. /\ faults' = faults + 1 /\ faults \in Nat
        /\ claimed' = [claimed EXCEPT ![w] = {}]
        /\ UNCHANGED <<outbox, stream>>
        /\ todo' = [todo EXCEPT ![w] = {}]
    BY <1>4 DEF DrainFails, Fault, UploadInv, TypeOK
  <2>2. \A v : InStream(v)' <=> InStream(v)
    BY <2>1 DEF InStream
  <2>3. \A u \in Relay : Done(u)'
    BY <2>1, <2>2 DEF UploadInv, TypeOK, OutboxInv, Done
  <2>4. \A v \in Request : Marked(v)'
    BY <2>1, <2>2 DEF OutboxInv, Marked
  <2>5. Accounted'
    <3>1. faults' # 0
      BY <2>1
    <3> QED BY <3>1 DEF Accounted
  <2> QED BY <2>3, <2>4, <2>5 DEF OutboxInv
<1>5. ASSUME NEW r \in Request, Commit(r) PROVE OutboxInv'
  <2>1. outbox[r] = "none"
    BY <1>5 DEF UploadInv, Control, Before, Commit
  <2> QED BY <1>5, <2>1, OutboxQuiet DEF UploadInv, TypeOK, Commit
<1>6. ASSUME NEW r \in Request,
             \/ \E k \in Key \cup {None}, p \in Payload : Receive(r, k, p)
             \/ Claim(r) \/ ReplyCreated(r) \/ Find(r)
      PROVE  OutboxInv'
  BY <1>6, OutboxQuiet DEF Receive, Claim, ReplyCreated, Find
<1>7. ASSUME NEW r \in Request, Fail(r) PROVE OutboxInv'
  <2>1. faults' = 0 => faults = 0
    BY <1>7 DEF Fail, Fault, UploadInv, TypeOK
  <2> QED BY <1>7, <2>1, OutboxQuiet DEF Fail
<1>8. ASSUME (\E k \in Key : Expire(k)) \/ Purge \/ UNCHANGED vars PROVE OutboxInv'
  BY <1>8, OutboxQuiet DEF Expire, Purge, vars, relayVars
<1> QED BY <1>1, <1>2, <1>3, <1>4, <1>5, <1>6, <1>7, <1>8 DEF Next, RequestStep, RelayStep

\* OutboxRelay: a row marked sent is in the stream whatever cycle failed on the
\* way, and unless one failed, however many relays there are, no row is in it twice.
THEOREM RowsAreDelivered == Spec => []OutboxDelivers
<1>1. Init => OutboxInv
  BY DEF Init, OutboxInv, Done, Marked, Accounted, InStream
<1>2. OutboxInv => OutboxDelivers
  BY DEF OutboxInv, Marked, Accounted, InStream, OutboxDelivers, SentIsPublished,
         NoDuplicateWithoutFault
<1>3. UploadInv /\ OutboxInv /\ [Next]_vars => OutboxInv'
  BY OutboxStep
<1>4. Spec => []OutboxInv
  BY <1>1, <1>3, UploadInvariant, PTL DEF Spec
<1> QED BY <1>2, <1>4, PTL

=============================================================================
