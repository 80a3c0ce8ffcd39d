---------------------------- MODULE VideoFeedProofs ----------------------------
(* Proofs about VideoFeed, for every value of its constants. *)
EXTENDS VideoFeed, FiniteSetTheorems, TLAPS

-----------------------------------------------------------------------------
(* Types *)

Event == 1..MaxEvents

LEMMA AppendSeq ==
    ASSUME NEW S, NEW s \in Seq(S), NEW e \in S
    PROVE  /\ Append(s, e) \in Seq(S)
           /\ Len(s) \in Nat /\ Len(Append(s, e)) = Len(s) + 1
           /\ \A i \in 1..Len(s) : Append(s, e)[i] = s[i]
           /\ Append(s, e)[Len(s) + 1] = e
OBVIOUS

LEMMA HeadTail ==
    ASSUME NEW S, NEW s \in Seq(S), s # << >>
    PROVE  /\ Head(s) \in S /\ Head(s) = s[1] /\ Tail(s) \in Seq(S)
           /\ Len(s) \in Nat \ {0} /\ Len(Tail(s)) = Len(s) - 1
           /\ \A i \in 1..Len(s) - 1 : Tail(s)[i] = s[i + 1]
OBVIOUS

LEMMA EmptySeq == ASSUME NEW S PROVE << >> \in Seq(S) /\ Len(<< >>) = 0
OBVIOUS

LEMMA CounterType ==
    ASSUME TypeOK
    PROVE  active \in Nat /\ active <= MaxConnections /\ MaxConnections \in Nat
BY VideoFeedAssumption DEF TypeOK

LEMMA TypeStep == TypeOK /\ [Next]_vars => TypeOK'
<1> USE VideoFeedAssumption
<1> SUFFICES ASSUME TypeOK, [Next]_vars PROVE TypeOK'
  OBVIOUS
<1>1. ASSUME NEW c \in Client, Acquire(c) PROVE TypeOK'
  <2>1. active' \in 0..MaxConnections
    BY <1>1, CounterType DEF Acquire, HasRoom
  <2>2. stream' \in [Client -> StreamState]
    BY <1>1 DEF TypeOK, Acquire, Goto, StreamState
  <2> QED BY <1>1, <2>1, <2>2 DEF TypeOK, Acquire
<1>2. ASSUME NEW c \in Client, Subscribe(c) PROVE TypeOK'
  BY <1>2 DEF TypeOK, Subscribe, Goto, StreamState, Subscribed
<1>3. ASSUME NEW c \in Client, NeverStart(c) PROVE TypeOK'
  BY <1>3 DEF TypeOK, NeverStart, Goto, StreamState
<1>4. ASSUME NEW c \in Client, Deliver(c) PROVE TypeOK'
  <2>1. Append(got[c], Head(backlog[c])) \in Seq(Event) /\ Tail(backlog[c]) \in Seq(Event)
    <3>1. backlog[c] \in Seq(Event) /\ got[c] \in Seq(Event) /\ backlog[c] # << >>
      BY <1>4 DEF TypeOK, Deliver, Event
    <3> QED BY <3>1, HeadTail, AppendSeq
  <2>2. got' \in [Client -> Seq(Event)] /\ backlog' \in [Client -> Seq(Event)]
    BY <1>4, <2>1 DEF TypeOK, Deliver, Event
  <2> QED BY <1>4, <2>2 DEF TypeOK, Deliver, Event
<1>5. ASSUME NEW c \in Client, Heartbeat(c) PROVE TypeOK'
  BY <1>5 DEF TypeOK, Heartbeat, Goto, StreamState, Subscribed
<1>6. ASSUME NEW c \in Client, Close(c) PROVE TypeOK'
  <2>1. backlog' \in [Client -> Seq(Event)]
    BY <1>6, EmptySeq DEF TypeOK, Close, Event
  <2> QED BY <1>6, <2>1 DEF TypeOK, Close, Release, Goto, StreamState, Event
<1>7. ASSUME NEW c \in Client, Leave(c) PROVE TypeOK'
  BY <1>7 DEF TypeOK, Leave
<1>8. ASSUME Publish PROVE TypeOK'
  <2>1. events + 1 \in Event
    BY <1>8 DEF TypeOK, Publish, Event
  <2>2. ASSUME NEW c \in Client PROVE Append(backlog[c], events + 1) \in Seq(Event)
    BY <2>1, AppendSeq DEF TypeOK, Event
  <2>3. backlog' \in [Client -> Seq(Event)]
    BY <1>8, <2>2 DEF TypeOK, Publish, Event
  <2> QED BY <1>8, <2>1, <2>3 DEF TypeOK, Publish, Event
<1>9. CASE UNCHANGED vars
  BY <1>9 DEF TypeOK, vars
<1> QED BY <1>1, <1>2, <1>3, <1>4, <1>5, <1>6, <1>7, <1>8, <1>9
        DEF Next, StreamStep, EndAfterHeartbeat, Disconnect, FailToSubscribe

\* Every variable keeps its type: in particular the counter stays within the cap.
THEOREM FeedTypeCorrect == Spec => []TypeOK
<1>1. Init => TypeOK
  BY VideoFeedAssumption, EmptySeq DEF Init, TypeOK, StreamState
<1> QED BY <1>1, TypeStep, PTL DEF Spec

-----------------------------------------------------------------------------
(* Slots *)

LEMMA HoldingFinite == IsFiniteSet(Holding) /\ Cardinality(Holding) \in Nat
BY VideoFeedAssumption, FS_Subset, FS_CardinalityType DEF Holding

\* One more stream, one less, or the same.
LEMMA HoldingStep ==
    ASSUME NEW c \in Client
    PROVE  /\ Holding' = Holding \cup {c} /\ c \notin Holding =>
                  Cardinality(Holding') = Cardinality(Holding) + 1
           /\ Holding' = Holding \ {c} /\ c \in Holding =>
                  Cardinality(Holding') = Cardinality(Holding) - 1 /\ Cardinality(Holding) > 0
<1>1. CASE c \notin Holding
  BY <1>1, HoldingFinite, FS_AddElement
<1>2. CASE c \in Holding
  <2>1. Holding # {}
    BY <1>2
  <2> QED BY <1>2, <2>1, HoldingFinite, FS_RemoveElement, FS_EmptySet
<1> QED BY <1>1, <1>2

LEMMA SlotsStep == TypeOK /\ SlotsAreStreams /\ [Next]_vars => SlotsAreStreams'
<1> USE VideoFeedAssumption
<1> SUFFICES ASSUME TypeOK, SlotsAreStreams, [Next]_vars PROVE SlotsAreStreams'
  OBVIOUS
<1>1. ASSUME NEW c \in Client, Acquire(c) PROVE SlotsAreStreams'
  <2>1. CASE HasRoom /\ active' = active + 1 /\ Goto(c, "accepted")
    <3>1. Holding' = Holding \cup {c} /\ c \notin Holding
      BY <1>1, <2>1 DEF TypeOK, Acquire, Goto, Holding, Subscribed
    <3>2. Cardinality(Holding') = Cardinality(Holding) + 1
      BY <3>1, HoldingStep
    <3> QED BY <2>1, <3>2, CounterType DEF SlotsAreStreams, HasRoom
  <2>2. CASE ~HasRoom /\ Goto(c, "refused") /\ UNCHANGED active
    <3>1. Holding' = Holding
      BY <1>1, <2>2 DEF TypeOK, Acquire, Goto, Holding, Subscribed
    <3> QED BY <2>2, <3>1 DEF SlotsAreStreams
  <2> QED BY <1>1, <2>1, <2>2 DEF Acquire
<1>2. ASSUME NEW c \in Client, Subscribe(c) \/ NeverStart(c) \/ Heartbeat(c)
      PROVE  SlotsAreStreams'
  <2>1. Holding' = Holding
    BY <1>2 DEF TypeOK, Subscribe, NeverStart, Heartbeat, Goto, Holding, Subscribed
  <2> QED BY <1>2, <2>1 DEF SlotsAreStreams, Subscribe, NeverStart, Heartbeat
<1>3. ASSUME NEW c \in Client, Close(c), stream[c] \in {"accepted"} \cup Subscribed
      PROVE  SlotsAreStreams'
  <2>1. Holding' = Holding \ {c} /\ c \in Holding
    BY <1>3 DEF TypeOK, Close, Goto, Holding, Subscribed
  <2>2. Cardinality(Holding') = Cardinality(Holding) - 1 /\ Cardinality(Holding) > 0
    BY <2>1, HoldingStep
  <2> QED BY <1>3, <2>2, CounterType DEF SlotsAreStreams, Close, Release
<1>4. CASE UNCHANGED <<stream, active>>
  BY <1>4 DEF SlotsAreStreams, Holding
<1> QED BY <1>1, <1>2, <1>3, <1>4
        DEF Next, StreamStep, EndAfterHeartbeat, Disconnect, FailToSubscribe, Deliver, Leave,
            Publish, vars, Subscribed

\* The limiter's counter is the number of slots held, and it never passes the cap.
THEOREM SlotsAreCounted == Spec => []SlotsAreStreams
<1>1. Init => SlotsAreStreams
  <2> SUFFICES ASSUME Init PROVE SlotsAreStreams
    OBVIOUS
  <2>1. Holding = {}
    BY DEF Init, Holding, Subscribed
  <2> QED BY <2>1, FS_EmptySet, VideoFeedAssumption DEF Init, SlotsAreStreams
<1> QED BY <1>1, SlotsStep, FeedTypeCorrect, PTL DEF Spec

-----------------------------------------------------------------------------
(* Events *)

\* Who is not subscribed has nothing waiting, and who never was has had nothing;
\* what a client has been sent, and what waits for it, each by its place.
InOrder(c) ==
    /\ stream[c] \notin Subscribed => backlog[c] = << >>
    /\ stream[c] \in {"new", "accepted"} => got[c] = << >>
    /\ \A i \in 1..Len(got[c]) : got[c][i] = since[c] + i
    /\ \A i \in 1..Len(backlog[c]) : backlog[c][i] = since[c] + Len(got[c]) + i
    /\ stream[c] \in Subscribed => Len(got[c]) + Len(backlog[c]) = events - since[c]

LEMMA OrderStep ==
    ASSUME TypeOK, NEW c \in Client, InOrder(c), [Next]_vars
    PROVE  InOrder(c)'
<1>1. /\ got[c] \in Seq(Event) /\ backlog[c] \in Seq(Event)
      /\ Len(got[c]) \in Nat /\ Len(backlog[c]) \in Nat
      /\ since[c] \in Nat /\ events \in Nat
  BY VideoFeedAssumption DEF TypeOK, Event
<1> DEFINE g == Len(got[c])  b == Len(backlog[c])  n == since[c]
<1>10. g \in Nat /\ b \in Nat /\ n \in Nat /\ events \in Nat
  BY <1>1
<1>2. CASE UNCHANGED <<got[c], backlog[c], since[c], events>> /\ stream'[c] = stream[c]
  BY <1>2 DEF InOrder
<1>3. CASE Subscribe(c)
  BY <1>1, <1>3, EmptySeq DEF Subscribe, Goto, InOrder, TypeOK, Subscribed
<1>4. CASE Deliver(c)
  <2> DEFINE e == Head(backlog[c])
  <2>1. /\ got'[c] = Append(got[c], e) /\ backlog'[c] = Tail(backlog[c])
        /\ UNCHANGED <<stream, since, events>> /\ backlog[c] # << >> /\ stream[c] = "waiting"
    BY <1>4 DEF Deliver, TypeOK
  <2>2. /\ e \in Event /\ e = since[c] + Len(got[c]) + 1
        /\ Len(backlog'[c]) = Len(backlog[c]) - 1 /\ Len(backlog[c]) \in Nat \ {0}
        /\ \A i \in 1..Len(backlog[c]) - 1 : backlog'[c][i] = backlog[c][i + 1]
    BY <1>1, <2>1, HeadTail DEF InOrder
  <2> HIDE DEF e
  <2>3. /\ Len(got'[c]) = Len(got[c]) + 1
        /\ \A i \in 1..Len(got[c]) : got'[c][i] = got[c][i]
        /\ got'[c][Len(got[c]) + 1] = e
    BY <1>1, <2>1, <2>2, AppendSeq
  <2>4. ASSUME NEW i \in 1..Len(got'[c]) PROVE got'[c][i] = since[c] + i
    <3>1. CASE i \in 1..Len(got[c])
      BY <2>3, <3>1 DEF InOrder
    <3>2. CASE i = Len(got[c]) + 1
      BY <1>1, <2>2, <2>3, <3>2
    <3> QED BY <1>1, <2>3, <3>1, <3>2
  <2>5. \A i \in 1..Len(backlog'[c]) : backlog'[c][i] = since[c] + Len(got'[c]) + i
    <3> SUFFICES ASSUME NEW i \in 1..Len(backlog'[c])
                 PROVE  backlog'[c][i] = since[c] + Len(got'[c]) + i
      OBVIOUS
    <3>1. i + 1 \in 1..Len(backlog[c]) /\ i \in 1..Len(backlog[c]) - 1 /\ i \in Nat
      BY <1>1, <2>2
    <3>2. backlog'[c][i] = since[c] + Len(got[c]) + (i + 1)
      BY <2>2, <3>1 DEF InOrder
    <3>3. since[c] + Len(got[c]) + (i + 1) = since[c] + (Len(got[c]) + 1) + i
      <4> HIDE DEF g, n
      <4>1. n + g + (i + 1) = n + (g + 1) + i
        BY <1>10, <3>1
      <4> QED BY <4>1 DEF g, n
    <3> QED BY <2>3, <3>2, <3>3
  <2>6. Len(got'[c]) + Len(backlog'[c]) = events - since[c]
    <3>1. Len(got[c]) + Len(backlog[c]) = events - since[c]
      BY <2>1 DEF InOrder, Subscribed
    <3>2. (Len(got[c]) + 1) + (Len(backlog[c]) - 1) = events - since[c]
      <4>1. g + b = events - n
        BY <3>1
      <4> HIDE DEF g, b, n
      <4>2. (g + 1) + (b - 1) = events - n
        BY <1>10, <4>1
      <4> QED BY <4>2 DEF g, b, n
    <3> QED BY <2>2, <2>3, <3>2
  <2> QED BY <2>1, <2>4, <2>5, <2>6 DEF InOrder, Subscribed
<1>5. CASE Close(c)
  BY <1>1, <1>5, EmptySeq DEF Close, Goto, InOrder, TypeOK, Subscribed
<1>6. CASE Publish
  <2>1. CASE stream[c] \notin Subscribed
    BY <1>6, <2>1 DEF Publish, InOrder, TypeOK
  <2>2. CASE stream[c] \in Subscribed
    <3>1. backlog'[c] = Append(backlog[c], events + 1) /\ events + 1 \in Event
      BY <1>1, <1>6, <2>2, VideoFeedAssumption DEF Publish, TypeOK, Event
    <3>2. /\ Len(backlog'[c]) = Len(backlog[c]) + 1
          /\ \A i \in 1..Len(backlog[c]) : backlog'[c][i] = backlog[c][i]
          /\ backlog'[c][Len(backlog[c]) + 1] = events + 1
      BY <1>1, <3>1, AppendSeq
    <3>3. Len(got[c]) + Len(backlog[c]) = events - since[c]
      BY <2>2 DEF InOrder
    <3>4. /\ events + 1 = since[c] + Len(got[c]) + (Len(backlog[c]) + 1)
          /\ Len(got[c]) + (Len(backlog[c]) + 1) = (events + 1) - since[c]
      <4>1. g + b = events - n
        BY <3>3
      <4> HIDE DEF g, b, n
      <4>2. events + 1 = n + g + (b + 1) /\ g + (b + 1) = (events + 1) - n
        BY <1>10, <4>1
      <4> QED BY <4>2 DEF g, b, n
    <3>5. ASSUME NEW i \in 1..Len(backlog'[c])
          PROVE  backlog'[c][i] = since[c] + Len(got[c]) + i
      <4>1. CASE i \in 1..Len(backlog[c])
        BY <3>2, <4>1 DEF InOrder
      <4>2. CASE i = Len(backlog[c]) + 1
        BY <3>2, <3>4, <4>2
      <4> QED BY <1>1, <3>2, <4>1, <4>2
    <3>6. UNCHANGED <<stream, got, since>> /\ events' = events + 1
      BY <1>6 DEF Publish
    <3>7. Len(got'[c]) + Len(backlog'[c]) = events' - since'[c]
      BY <3>2, <3>4, <3>6
    <3> QED BY <2>2, <3>5, <3>6, <3>7 DEF InOrder, Subscribed
  <2> QED BY <2>1, <2>2
<1>7. CASE Acquire(c) \/ NeverStart(c) \/ Heartbeat(c)
  BY <1>1, <1>7 DEF Acquire, NeverStart, Heartbeat, Goto, InOrder, TypeOK, Subscribed
<1>8. ASSUME NEW d \in Client \ {c}, Acquire(d) \/ StreamStep(d) \/ FailToSubscribe(d)
      PROVE  UNCHANGED <<got[c], backlog[c], since[c], events>> /\ stream'[c] = stream[c]
  BY <1>8 DEF TypeOK, Acquire, StreamStep, Subscribe, NeverStart, Deliver, Heartbeat,
              EndAfterHeartbeat, Disconnect, FailToSubscribe, Close, Goto
<1>9. CASE UNCHANGED <<got, backlog, since, events, stream>>
  BY <1>2, <1>9
<1> QED BY <1>2, <1>3, <1>4, <1>5, <1>6, <1>7, <1>8, <1>9
        DEF Next, StreamStep, EndAfterHeartbeat, Disconnect, FailToSubscribe, Leave, vars

\* Two sequences that go on from each other are one that does.
LEMMA InOrderIsContiguous ==
    ASSUME TypeOK, \A c \in Client : InOrder(c)
    PROVE  FeedIsContiguous
<1> SUFFICES ASSUME NEW c \in Client
             PROVE  LET sent == got[c] \o backlog[c] IN
                    /\ \A i \in 1..Len(sent) : sent[i] = since[c] + i
                    /\ stream[c] \in Subscribed => Len(sent) = events - since[c]
  BY DEF FeedIsContiguous
<1> DEFINE g == got[c]  b == backlog[c]  n == since[c]
<1>1. g \in Seq(Event) /\ b \in Seq(Event) /\ n \in Nat
  BY VideoFeedAssumption DEF TypeOK, Event
<1>2. /\ \A i \in 1..Len(g) : g[i] = n + i
      /\ \A i \in 1..Len(b) : b[i] = n + Len(g) + i
      /\ stream[c] \in Subscribed => Len(g) + Len(b) = events - n
  BY DEF InOrder
<1> HIDE DEF g, b, n
<1>3. /\ Len(g \o b) = Len(g) + Len(b)
      /\ \A i \in 1..Len(g) + Len(b) : (g \o b)[i] = IF i <= Len(g) THEN g[i] ELSE b[i - Len(g)]
  BY <1>1
<1>4. Len(g) \in Nat /\ Len(b) \in Nat
  BY <1>1
<1>5. ASSUME NEW i \in 1..Len(g \o b) PROVE (g \o b)[i] = n + i
  <2>1. CASE i <= Len(g)
    BY <1>2, <1>3, <1>4, <2>1
  <2>2. CASE i > Len(g)
    <3>1. i - Len(g) \in 1..Len(b)
      BY <1>3, <1>4, <2>2
    <3>2. b[i - Len(g)] = n + Len(g) + (i - Len(g))
      BY <1>2, <3>1
    <3> QED BY <1>1, <1>3, <1>4, <2>2, <3>2
  <2> QED BY <1>3, <1>4, <2>1, <2>2
<1> QED BY <1>2, <1>3, <1>5 DEF g, b, n

\* A client gets the events since it subscribed, each once and in order.
THEOREM FeedHasNoGaps == Spec => []FeedIsContiguous
<1>1. Init => \A c \in Client : InOrder(c)
  BY EmptySeq DEF Init, InOrder, Subscribed
<1>2. TypeOK /\ (\A c \in Client : InOrder(c)) /\ [Next]_vars => (\A c \in Client : InOrder(c))'
  BY OrderStep
<1>3. TypeOK /\ (\A c \in Client : InOrder(c)) => FeedIsContiguous
  BY InOrderIsContiguous
<1> QED BY <1>1, <1>2, <1>3, FeedTypeCorrect, PTL DEF Spec
=============================================================================
