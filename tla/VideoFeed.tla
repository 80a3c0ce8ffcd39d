------------------------------ MODULE VideoFeed ------------------------------
(***************************************************************************)
(* The live feed of media_example, GET /videos/feed: one server-sent event *)
(* stream per client, fed from the `videos` channel, and the FeedLimiter   *)
(* that caps the streams of a process.                                     *)
(*                                                                         *)
(* The handler takes a slot and returns a response around a generator; the *)
(* generator gives the slot back in its `finally`, if it is ever started.  *)
(* It waits for each event with a timeout, and the timeout cancels the     *)
(* iterator it waits for: after one keep-alive the stream is at its end.   *)
(***************************************************************************)
EXTENDS Integers, Sequences, FiniteSets

CONSTANTS
    Client,          \* requests for the feed
    MaxConnections,  \* feed_max_connections
    MaxEvents        \* bound on status changes

ASSUME VideoFeedAssumption ==
    /\ IsFiniteSet(Client)
    /\ MaxConnections \in Nat \ {0} /\ MaxEvents \in Nat

VARIABLES
    stream,     \* where each request is
    active,     \* the limiter's counter
    backlog,    \* the events waiting in the stream's subscription
    got,        \* the events the client has been sent
    since,      \* history: how many events had been broadcast when it subscribed
    left,       \* the clients that have closed their connection
    events      \* history: the events broadcast so far, by number

vars == <<stream, active, backlog, got, since, left, events>>

\* "keepalive" has sent the comment; "unstarted" is a generator that never ran.
Subscribed == {"waiting", "keepalive"}
StreamState == {"new", "refused", "accepted", "unstarted", "closed"} \cup Subscribed

Goto(c, s) == stream' = [stream EXCEPT ![c] = s]

-----------------------------------------------------------------------------
(* The limiter *)

\* Mutant for TypeOK: one connection too many.
HasRoomForOneMore == active <= MaxConnections

HasRoom == active < MaxConnections

Release == active' = IF active > 0 THEN active - 1 ELSE 0

-----------------------------------------------------------------------------
(* A stream *)

\* try_acquire, and the response or 503.
Acquire(c) ==
    /\ stream[c] = "new"
    /\ \/ HasRoom /\ active' = active + 1 /\ Goto(c, "accepted")
       \/ ~HasRoom /\ Goto(c, "refused") /\ UNCHANGED active
    /\ UNCHANGED <<backlog, got, since, left, events>>

\* The generator is started: from now on its `finally` will run.
Subscribe(c) ==
    /\ stream[c] = "accepted"
    /\ Goto(c, "waiting")
    /\ since' = [since EXCEPT ![c] = events]
    /\ UNCHANGED <<active, backlog, got, left, events>>

\* The connection is gone before the first chunk: the generator is dropped.
NeverStart(c) ==
    /\ stream[c] = "accepted"
    /\ c \in left
    /\ Goto(c, "unstarted")
    /\ UNCHANGED <<active, backlog, got, since, left, events>>

\* Mutant for FeedIsContiguous: what came during the wait for the client is skipped.
DeliverNewest(c) ==
    /\ stream[c] = "waiting"
    /\ backlog[c] # << >>
    /\ got' = [got EXCEPT ![c] = Append(@, backlog[c][Len(backlog[c])])]
    /\ backlog' = [backlog EXCEPT ![c] = << >>]
    /\ UNCHANGED <<stream, active, since, left, events>>

Deliver(c) ==
    /\ stream[c] = "waiting"
    /\ backlog[c] # << >>
    /\ got' = [got EXCEPT ![c] = Append(@, Head(backlog[c]))]
    /\ backlog' = [backlog EXCEPT ![c] = Tail(@)]
    /\ UNCHANGED <<stream, active, since, left, events>>

\* wait_for times out: anext is cancelled, and the iterator ends with it.
Heartbeat(c) ==
    /\ stream[c] = "waiting"
    /\ backlog[c] = << >>
    /\ Goto(c, "keepalive")
    /\ UNCHANGED <<active, backlog, got, since, left, events>>

\* Mutant for SlotsAreStreams: the subscription is given up, the slot is not.
CloseOnly(c) ==
    /\ Goto(c, "closed")
    /\ backlog' = [backlog EXCEPT ![c] = << >>]
    /\ UNCHANGED <<active, got, since, left, events>>

\* The generator returns or is closed: `async with` and `finally` run.
Close(c) ==
    /\ Goto(c, "closed")
    /\ backlog' = [backlog EXCEPT ![c] = << >>]
    /\ Release
    /\ UNCHANGED <<got, since, left, events>>

\* The iterator that the timeout ended raises StopAsyncIteration.
EndAfterHeartbeat(c) ==
    /\ stream[c] = "keepalive"
    /\ Close(c)

\* Mutant for SlotsComeBack: the cancellation is swallowed, and the loop goes on.
DisconnectSwallowed(c) ==
    /\ stream[c] \in Subscribed
    /\ c \in left
    /\ Goto(c, "waiting")
    /\ UNCHANGED <<active, backlog, got, since, left, events>>

\* The server notices the closed connection, or the subscription fails.
Disconnect(c) ==
    /\ stream[c] \in Subscribed
    /\ c \in left
    /\ Close(c)

FailToSubscribe(c) ==
    /\ stream[c] = "accepted"
    /\ Close(c)

-----------------------------------------------------------------------------
(* Clients and the channel *)

Leave(c) ==
    /\ stream[c] \in {"accepted"} \cup Subscribed
    /\ c \notin left
    /\ left' = left \cup {c}
    /\ UNCHANGED <<stream, active, backlog, got, since, events>>

\* A status change reaches the subscriptions there are, in the order of the stream.
Publish ==
    /\ events < MaxEvents
    /\ events' = events + 1
    /\ backlog' = [c \in Client |->
                     IF stream[c] \in Subscribed THEN Append(backlog[c], events + 1)
                     ELSE backlog[c]]
    /\ UNCHANGED <<stream, active, got, since, left>>

-----------------------------------------------------------------------------
(* Specification *)

Init ==
    /\ stream = [c \in Client |-> "new"]
    /\ active = 0
    /\ backlog = [c \in Client |-> << >>]
    /\ got = [c \in Client |-> << >>]
    /\ since = [c \in Client |-> 0]
    /\ left = {}
    /\ events = 0

StreamStep(c) ==
    \/ Subscribe(c)
    \/ NeverStart(c)
    \/ Deliver(c)
    \/ Heartbeat(c)
    \/ EndAfterHeartbeat(c)
    \/ Disconnect(c)

Next ==
    \/ \E c \in Client : Acquire(c) \/ StreamStep(c) \/ FailToSubscribe(c) \/ Leave(c)
    \/ Publish

Spec == Init /\ [][Next]_vars

\* The event loop runs every generator, and time passes.
FairSpec == Spec /\ \A c \in Client : WF_vars(StreamStep(c))

-----------------------------------------------------------------------------
(* Properties *)

\* Every variable ranges over what the process can hold; the counter of slots neither
\* passes its cap nor drops below zero.
TypeOK ==
    /\ stream \in [Client -> StreamState]
    /\ active \in 0..MaxConnections
    /\ backlog \in [Client -> Seq(1..MaxEvents)]
    /\ got \in [Client -> Seq(1..MaxEvents)]
    /\ since \in [Client -> 0..MaxEvents]
    /\ left \in SUBSET Client
    /\ events \in 0..MaxEvents

\* The requests that hold a slot, for ever when their generator was never started.
Holding == {c \in Client : stream[c] \in {"accepted", "unstarted"} \cup Subscribed}

\* The counter is the number of slots held, never more than the cap, however
\* streams begin, fail, end and are closed: no slot is given back twice.
SlotsAreStreams == active = Cardinality(Holding) /\ active <= MaxConnections

\* What a client has been sent and what waits for it are the events broadcast
\* since it subscribed, each once, in order and without a gap.
FeedIsContiguous ==
    \A c \in Client :
        LET sent == got[c] \o backlog[c] IN
        /\ \A i \in 1..Len(sent) : sent[i] = since[c] + i
        /\ stream[c] \in Subscribed => Len(sent) = events - since[c]

\* A client that leaves gives its slot back, unless its generator never started.
SlotsComeBack == \A c \in Client :
    c \in left ~> stream[c] = "unstarted" \/ c \notin Holding

=============================================================================
