-------------------------- MODULE VideoStatusProofs --------------------------
(***************************************************************************)
(* What the status consumers promise, proved for any numbers of videos,    *)
(* consumers, cancel requests and faults, any batch size and any streams:  *)
(* an entry is acked only once it is settled, a delete is final, and       *)
(* videos.status implements VideoLifecycle: a save leaves the status       *)
(* machine only from a copy that another save has overtaken, which takes a *)
(* second worker or a cancel request.  With one worker, and without faults *)
(* or cancel requests, each status is what the stream, taken entry by      *)
(* entry, leads to.                                                        *)
(***************************************************************************)
EXTENDS VideoStatus, FiniteSetTheorems, SequenceTheorems, WellFoundedInduction, TLAPS

\* What an actor has in hand: a consumer at work an entry, whoever saves a copy.
InHand(a) ==
    /\ a \in Consumer /\ step[a] \in InEntry => batch[a] # {}
    /\ step[a] = "save" => target[a] \in Copy
    /\ a \in Canceller => step[a] \in {"off", "save", "feed", "refused", "cancelled"}

StatusInv == TypeOK /\ \A a \in Actor : InHand(a)

-----------------------------------------------------------------------------
(* Facts about the data *)

LEMMA LifecycleFacts ==
    /\ L!Pending \in L!Status
    /\ \A s \in L!Status : L!Allowed(s) \subseteq L!Status
    /\ \A t \in EventType : MarkedAs[t] \in L!Status
BY DEF L!Pending, L!Processing, L!Done, L!Failed, L!Status, L!Allowed, EventType, MarkedAs

LEMMA EntryFacts ==
    ASSUME NEW x \in Entry
    PROVE  x.video \in Video /\ (x.type # "unusable" => x.type \in EventType)
BY DEF Entry

LEMMA Minimum ==
    ASSUME NEW T, T \subseteq Nat, T # {}
    PROVE  \E m \in T : \A n \in T : m <= n
<1> DEFINE R == OpToRel(<, Nat)
<1>1. IsWellFoundedOn(R, Nat)
  BY NatLessThanWellFounded
<1>2. R = {ss \in Nat \X Nat : ss[1] < ss[2]}
  BY DEF OpToRel
<1> HIDE DEF R
<1>3. PICK m \in T : \A n \in T : <<n, m>> \notin R
  BY <1>1, WFMin
<1>4. \A n \in T : ~(n < m)
  BY <1>2, <1>3
<1>5. \A n \in T : n \in Nat /\ m \in Nat
  BY <1>3
<1> QED BY <1>3, <1>4, <1>5

\* A consumer at work is at an entry of its batch.
LEMMA CurrentFacts ==
    ASSUME StatusInv, NEW c \in Consumer, step[c] \in InEntry
    PROVE  /\ Current(c) \in batch[c] /\ Current(c) \in 1..Len(stream)
           /\ EventOf(c) \in Entry
<1>1. batch[c] \subseteq 1..Len(stream) /\ batch[c] # {} /\ Len(stream) \in Nat
      /\ stream \in Seq(Entry)
  BY DEF StatusInv, TypeOK, InHand, Actor
<1>2. PICK m \in batch[c] : \A n \in batch[c] : m <= n
  <2>1. batch[c] \subseteq Nat
    BY <1>1
  <2> QED BY <1>1, <2>1, Minimum
<1>3. Current(c) \in batch[c]
  BY <1>2 DEF Current
<1>4. Current(c) \in 1..Len(stream)
  BY <1>1, <1>3
<1>5. stream[Current(c)] \in Entry
  BY <1>1, <1>4
<1> QED BY <1>3, <1>4, <1>5 DEF EventOf

\* The entries one XREADGROUP hands out are the next ones, without a gap.
LEMMA NextEntries ==
    ASSUME StatusInv, VideoStatusAssumption,
           NEW es, es = {e \in read + 1 .. Len(stream) : e <= read + Batch}
    PROVE  /\ read + Cardinality(es) \in 0..Len(stream)
           /\ \A e : e \in 1..(read + Cardinality(es)) <=> e \in 1..read \/ e \in es
           /\ es \subseteq 1..Len(stream)
<1> DEFINE top == IF read + Batch <= Len(stream) THEN read + Batch ELSE Len(stream)
<1>1. read \in Nat /\ Len(stream) \in Nat /\ read <= Len(stream) /\ Batch \in Nat \ {0}
  BY DEF StatusInv, TypeOK, VideoStatusAssumption
<1>2. top \in Nat /\ read <= top /\ top <= Len(stream)
  BY <1>1
<1>3. es = (read + 1)..top
  <2>1. \A e \in (read + 1)..Len(stream) : e <= read + Batch <=> e <= top
    BY <1>1
  <2>2. \A e : e \in (read + 1)..top <=> e \in (read + 1)..Len(stream) /\ e <= top
    BY <1>1, <1>2
  <2> HIDE DEF top
  <2> QED BY <2>1, <2>2
<1> HIDE DEF top
<1>4. Cardinality(es) = top - read
  <2>1. Cardinality((read + 1)..top) = IF read + 1 > top THEN 0 ELSE top - (read + 1) + 1
    <3>1. read + 1 \in Int /\ top \in Int
      BY <1>1, <1>2
    <3> QED BY <3>1, FS_Interval
  <2>2. Cardinality(es) = IF read + 1 > top THEN 0 ELSE top - (read + 1) + 1
    BY <1>3, <2>1
  <2>3. CASE read + 1 > top
    <3>1. Cardinality(es) = 0 /\ read = top
      BY <1>1, <1>2, <2>2, <2>3
    <3> QED BY <1>2, <3>1
  <2>4. CASE ~(read + 1 > top)
    <3>1. Cardinality(es) = top - (read + 1) + 1
      BY <2>2, <2>4
    <3>2. top - (read + 1) + 1 = top - read
      BY <1>1, <1>2
    <3> QED BY <3>1, <3>2
  <2> QED BY <2>3, <2>4
<1>5. read + Cardinality(es) = top
  BY <1>1, <1>2, <1>4
<1>6. \A e : e \in 1..top <=> e \in 1..read \/ e \in (read + 1)..top
  <2>1. \A e \in Nat : e \in 1..top <=> e \in 1..read \/ e \in (read + 1)..top
    BY <1>1, <1>2
  <2>2. 1..top \subseteq Nat /\ 1..read \subseteq Nat /\ (read + 1)..top \subseteq Nat
    BY <1>1, <1>2
  <2> QED BY <2>1, <2>2
<1>7. (read + 1)..top \subseteq 1..Len(stream)
  BY <1>1, <1>2
<1>8. read + Cardinality(es) \in 0..Len(stream)
  BY <1>1, <1>2, <1>5
<1>9. \A e : e \in 1..(read + Cardinality(es)) <=> e \in 1..read \/ e \in es
  BY <1>3, <1>5, <1>6
<1>10. es \subseteq 1..Len(stream)
  BY <1>3, <1>7
<1> QED BY <1>8, <1>9, <1>10

-----------------------------------------------------------------------------
(* The pending entries list *)

StreamTypes ==
    /\ stream \in Seq(Entry)
    /\ group \in BOOLEAN
    /\ read \in 0..Len(stream)
    /\ owner \in [1..Len(stream) -> Consumer \cup {None}]
    /\ stale \subseteq Pending /\ Pending \subseteq 1..read

LEMMA NothingPending ==
    ASSUME StreamTypes, VideoStatusAssumption, owner' = NoPending, UNCHANGED stream
    PROVE  /\ owner' \in [1..Len(stream') -> Consumer \cup {None}]
           /\ Pending' = {}
BY DEF StreamTypes, NoPending, Pending

LEMMA DeliverPending ==
    ASSUME StreamTypes, VideoStatusAssumption, UNCHANGED stream,
           NEW c \in Consumer, NEW es, es \subseteq 1..Len(stream),
           owner' = [e \in DOMAIN owner |-> IF e \in es THEN c ELSE owner[e]]
    PROVE  /\ owner' \in [1..Len(stream') -> Consumer \cup {None}]
           /\ Pending' = Pending \cup es
BY DEF StreamTypes, Pending, VideoStatusAssumption

LEMMA AckPending ==
    ASSUME StreamTypes, UNCHANGED stream, NEW e \in 1..Len(stream),
           owner' = [owner EXCEPT ![e] = None]
    PROVE  /\ owner' \in [1..Len(stream') -> Consumer \cup {None}]
           /\ Pending' = Pending \ {e}
BY DEF StreamTypes, Pending

\* A new entry is nobody's, and leaves the others as they are.
LEMMA PublishFacts ==
    ASSUME StreamTypes, VideoStatusAssumption, Publish
    PROVE  /\ stream' \in Seq(Entry) /\ Len(stream') = Len(stream) + 1
           /\ \A i \in 1..Len(stream) : stream'[i] = stream[i] /\ owner'[i] = owner[i]
           /\ owner' \in [1..Len(stream') -> Consumer \cup {None}]
           /\ Pending' = Pending
           /\ Len(stream) \in Nat
<1> DEFINE S == Consumer \cup {None}
<1>1. PICK s \in Streams : /\ Len(stream) < Len(s)
                           /\ stream' = Append(stream, s[Len(stream) + 1])
  BY DEF Publish
<1>2. s \in Seq(Entry) /\ Len(s) \in Nat /\ Len(stream) \in Nat
  BY <1>1 DEF StreamTypes, VideoStatusAssumption
<1>3. s[Len(stream) + 1] \in Entry
  BY <1>1, <1>2
<1>4. /\ stream' \in Seq(Entry) /\ Len(stream') = Len(stream) + 1
      /\ \A i \in 1..Len(stream) : stream'[i] = stream[i]
  BY <1>1, <1>3, AppendProperties DEF StreamTypes
<1>5. owner \in Seq(S) /\ Len(owner) = Len(stream)
  BY <1>2 DEF StreamTypes
<1>6. owner' = Append(owner, None) /\ None \in S
  BY DEF Publish
<1>7. /\ owner' \in Seq(S) /\ Len(owner') = Len(stream) + 1
      /\ \A i \in 1..Len(stream) : owner'[i] = owner[i]
      /\ owner'[Len(stream) + 1] = None
  BY <1>5, <1>6, AppendProperties
<1> HIDE DEF S
<1>8. owner' \in [1..Len(stream') -> S]
  BY <1>4, <1>7
<1>9. Pending' = Pending
  <2>1. DOMAIN owner' = 1..(Len(stream) + 1) /\ DOMAIN owner = 1..Len(stream)
    BY <1>4, <1>8 DEF StreamTypes
  <2>2. 1..(Len(stream) + 1) = (1..Len(stream)) \cup {Len(stream) + 1}
    BY <1>2
  <2> QED BY <1>7, <2>1, <2>2 DEF Pending
<1> QED BY <1>2, <1>4, <1>7, <1>8, <1>9 DEF S

LEMMA EnsureGroupTypes ==
    ASSUME StreamTypes, VideoStatusAssumption, EnsureGroup, UNCHANGED stream
    PROVE  StreamTypes'
<1>1. CASE group
  BY <1>1 DEF StreamTypes, EnsureGroup, Pending
<1>2. CASE ~group
  <2>1. owner' \in [1..Len(stream') -> Consumer \cup {None}] /\ Pending' = {}
    BY <1>2, NothingPending DEF EnsureGroup
  <2>2. stale' = {} /\ read' = 0 /\ group' = TRUE /\ Len(stream) \in Nat
    BY <1>2 DEF EnsureGroup, StreamTypes
  <2>3. stream' \in Seq(Entry) /\ group' \in BOOLEAN /\ read' \in 0..Len(stream')
    BY <2>2 DEF StreamTypes
  <2> QED BY <2>1, <2>2, <2>3 DEF StreamTypes
<1> QED BY <1>1, <1>2

-----------------------------------------------------------------------------
(* Type correctness *)

RowTypes ==
    /\ status \in [Video -> L!Status]
    /\ deleted \subseteq Video
    /\ reached \in [Video -> SUBSET L!Status]

ActorTypes ==
    /\ step \in [Actor -> {"off", "stopped", "poll", "dead", "refused", "cancelled"} \cup InEntry]
    /\ phase \in [Consumer -> {"claim", "read"}]
    /\ batch \in [Consumer -> SUBSET (1..Len(stream))]
    /\ target \in [Actor -> Copy \cup {None}]

HistoryTypes == skipped \subseteq 1..Len(stream) /\ faults \in 0..MaxFaults

Parts == /\ StreamTypes /\ RowTypes /\ ActorTypes /\ HistoryTypes
         /\ \A a \in Actor : InHand(a)

\* Only a copy that is about to be saved can be overtaken.
OvertakenTypes == overtaken \subseteq {a \in Actor : step[a] = "save"}

LEMMA PartsOfTheInvariant == StatusInv <=> Parts /\ OvertakenTypes
BY DEF StatusInv, Parts, TypeOK, StreamTypes, RowTypes, ActorTypes, HistoryTypes,
       OvertakenTypes

LEMMA FaultTypes ==
    ASSUME HistoryTypes, VideoStatusAssumption, Fault, UNCHANGED <<stream, skipped>>
    PROVE  HistoryTypes'
BY DEF HistoryTypes, VideoStatusAssumption, Fault

\* The exceptions and crashes of a consumer.
LEMMA AbandonTypes ==
    ASSUME ActorTypes, \A a \in Actor : InHand(a), VideoStatusAssumption,
           NEW c \in Consumer, NEW s \in {"poll", "dead"}, Abandon(c, s), UNCHANGED stream
    PROVE  ActorTypes' /\ \A a \in Actor : InHand(a)'
<1>1. ActorTypes'
  BY DEF ActorTypes, Abandon, Goto, Actor
<1>2. ASSUME NEW a \in Actor PROVE InHand(a)'
  <2>1. InHand(a)
    OBVIOUS
  <2>2. CASE a = c
    BY <2>2 DEF ActorTypes, Abandon, Goto, Actor, InHand, InEntry, VideoStatusAssumption
  <2>3. CASE a # c
    BY <2>1, <2>3 DEF ActorTypes, Abandon, Goto, Actor, InHand
  <2> QED BY <2>2, <2>3
<1> QED BY <1>1, <1>2

\* Step s and copy t suit actor x, who keeps its batch.
Fits(x, s, t) ==
    /\ s \in {"off", "stopped", "poll", "dead", "refused", "cancelled"} \cup InEntry
    /\ t \in Copy \cup {None}
    /\ s = "save" => t \in Copy
    /\ x \in Consumer => s \notin InEntry \/ step[x] \in InEntry
    /\ x \in Canceller => s \in {"off", "save", "feed", "refused", "cancelled"}

\* An actor moves on inside an entry or a request, without touching its batch.
LEMMA MoveTypes ==
    ASSUME ActorTypes, \A a \in Actor : InHand(a), VideoStatusAssumption,
           UNCHANGED <<stream, phase, batch>>,
           NEW x \in Actor, NEW s, NEW t, Fits(x, s, t),
           Goto(x, s), target' = [target EXCEPT ![x] = t]
    PROVE  ActorTypes' /\ \A a \in Actor : InHand(a)'
<1>1. ActorTypes'
  BY DEF ActorTypes, Goto, Fits
<1>2. ASSUME NEW a \in Actor PROVE InHand(a)'
  <2>1. InHand(a)
    OBVIOUS
  <2>2. CASE a = x
    <3>1. step'[a] = s /\ target'[a] = t /\ batch' = batch
      BY <2>2 DEF ActorTypes, Goto
    <3> QED BY <2>1, <2>2, <3>1 DEF InHand, Fits
  <2>3. CASE a # x
    <3>1. step'[a] = step[a] /\ target'[a] = target[a] /\ batch' = batch
      BY <2>3 DEF ActorTypes, Goto
    <3> QED BY <2>1, <3>1 DEF InHand
  <2> QED BY <2>2, <2>3
<1> QED BY <1>1, <1>2

\* A consumer takes a batch: it has something in hand only if there is something.
LEMMA TakeTypes ==
    ASSUME ActorTypes, \A a \in Actor : InHand(a), VideoStatusAssumption,
           UNCHANGED <<stream, target>>,
           NEW c \in Consumer, NEW es, es \subseteq 1..Len(stream),
           batch' = [batch EXCEPT ![c] = es], Goto(c, IF es = {} THEN "poll" ELSE "load"),
           NEW p \in {"claim", "read"}, phase' = [phase EXCEPT ![c] = p]
    PROVE  ActorTypes' /\ \A a \in Actor : InHand(a)'
<1>1. ActorTypes'
  BY DEF ActorTypes, Goto, InEntry
<1>2. ASSUME NEW a \in Actor PROVE InHand(a)'
  <2>1. InHand(a)
    OBVIOUS
  <2>2. CASE a = c
    <3>1. step'[a] = (IF es = {} THEN "poll" ELSE "load") /\ batch'[a] = es
      BY <2>2 DEF ActorTypes, Goto, Actor
    <3>2. a \notin Canceller
      BY <2>2 DEF VideoStatusAssumption
    <3> QED BY <3>1, <3>2 DEF InHand, InEntry
  <2>3. CASE a # c
    <3>1. step'[a] = step[a] /\ target'[a] = target[a]
      BY <2>3 DEF ActorTypes, Goto
    <3>2. a \in Consumer => batch'[a] = batch[a]
      BY <2>3 DEF ActorTypes
    <3> QED BY <2>1, <3>1, <3>2 DEF InHand
  <2> QED BY <2>2, <2>3
<1> QED BY <1>1, <1>2

\* Whoever leaves "save" takes its copy along.
LEMMA OvertakenStep ==
    ASSUME ActorTypes, OvertakenTypes, [Next]_vars
    PROVE  OvertakenTypes'
<1>1. ASSUME UNCHANGED <<step, overtaken>> PROVE OvertakenTypes'
  BY <1>1 DEF OvertakenTypes
<1>2. ASSUME NEW x \in Actor, step[x] # "save", NEW s, Goto(x, s), UNCHANGED overtaken
      PROVE  OvertakenTypes'
  BY <1>2 DEF OvertakenTypes, ActorTypes, Goto
<1>3. ASSUME NEW x \in Actor, NEW s, Goto(x, s), overtaken' = overtaken \ {x}
      PROVE  OvertakenTypes'
  BY <1>3 DEF OvertakenTypes, ActorTypes, Goto
<1>4. ASSUME NEW c \in Consumer, Start(c) \/ StartFails(c) \/ Poll(c) \/ Handle(c)
      PROVE  OvertakenTypes'
  <2>1. /\ UNCHANGED overtaken /\ c \in Actor
        /\ UNCHANGED step \/ (step[c] # "save" /\ \E s : Goto(c, s))
    BY <1>4 DEF Start, StartFails, Poll, ClaimStale, RecreateGroup, ReadGroup,
           ReadWithoutGroup, Deliver, Handle, DropUnusable, LoadEntry, Load, SkipEntry, Ack,
           Actor
  <2> QED BY <1>1, <1>2, <2>1
<1>5. ASSUME NEW c \in Consumer, Raise(c) \/ Die(c) PROVE OvertakenTypes'
  <2>1. overtaken' = overtaken \ {c} /\ (\E s : Goto(c, s)) /\ c \in Actor
    BY <1>5 DEF Raise, Die, Abandon, Actor
  <2> QED BY <1>3, <2>1
<1>6. ASSUME NEW r \in Canceller,
             \/ \E v \in Video : LoadCancel(r, v) \/ RefuseCancel(r, v)
             \/ FailCancel(r)
      PROVE  OvertakenTypes'
  <2>1. r \in Actor /\ \E s : Goto(r, s)
    BY <1>6 DEF LoadCancel, Load, RefuseCancel, FailCancel, Actor
  <2>2. (step[r] # "save" /\ UNCHANGED overtaken) \/ overtaken' = overtaken \ {r}
    BY <1>6 DEF LoadCancel, Load, RefuseCancel, FailCancel
  <2> QED BY <1>2, <1>3, <2>1, <2>2
<1>7. ASSUME NEW a \in Actor, Save(a) PROVE OvertakenTypes'
  BY <1>7 DEF Save, Overtake, Goto, OvertakenTypes, ActorTypes
<1>8. ASSUME NEW a \in Actor, Broadcast(a) PROVE OvertakenTypes'
  <2>1. step[a] # "save" /\ UNCHANGED overtaken /\ \E s : Goto(a, s)
    BY <1>8 DEF Broadcast
  <2> QED BY <1>2, <2>1
<1>9. CASE UNCHANGED vars \/ Publish \/ Elapse \/ LoseGroup \/ \E v \in Video : Delete(v)
  <2>1. UNCHANGED <<step, overtaken>>
    BY <1>9 DEF vars, actorVars, Publish, Elapse, LoseGroup, Delete
  <2> QED BY <1>1, <2>1
<1> QED BY <1>4, <1>5, <1>6, <1>7, <1>8, <1>9 DEF Next

LEMMA StatusStep ==
    ASSUME StatusInv, VideoStatusAssumption, [Next]_vars
    PROVE  StatusInv'
<1>1. StreamTypes /\ RowTypes /\ ActorTypes /\ HistoryTypes /\ \A a \in Actor : InHand(a)
  BY PartsOfTheInvariant DEF Parts
<1>2. Len(stream) \in Nat
  BY <1>1 DEF StreamTypes
<1>3. SUFFICES Parts'
  <2>1. OvertakenTypes'
    BY <1>1, PartsOfTheInvariant, OvertakenStep
  <2> QED BY <2>1, PartsOfTheInvariant, PTL
<1> USE VideoStatusAssumption
\* What an action leaves alone keeps its type.
<1>4. ASSUME UNCHANGED streamVars PROVE StreamTypes'
  BY <1>1, <1>4 DEF StreamTypes, streamVars, Pending
<1>5. ASSUME UNCHANGED rowVars PROVE RowTypes'
  BY <1>1, <1>5 DEF RowTypes, rowVars
<1>6. ASSUME UNCHANGED <<stream, actorVars>> PROVE ActorTypes' /\ \A a \in Actor : InHand(a)'
  BY <1>1, <1>6 DEF ActorTypes, actorVars, InHand
<1>7. ASSUME UNCHANGED <<stream, skipped, faults>> PROVE HistoryTypes'
  BY <1>1, <1>7 DEF HistoryTypes
<1>8. ASSUME NEW x \in Actor, UNCHANGED target
      PROVE  /\ target' = [target EXCEPT ![x] = target[x]]
             /\ target[x] \in Copy \cup {None}
  BY <1>1, <1>8 DEF ActorTypes
<1>9. ASSUME NEW c \in Consumer, UNCHANGED phase
      PROVE  phase' = [phase EXCEPT ![c] = phase[c]] /\ phase[c] \in {"claim", "read"}
  BY <1>1, <1>9 DEF ActorTypes
<1>10. ASSUME NEW c \in Consumer, step[c] \in InEntry
       PROVE  /\ Current(c) \in batch[c] /\ Current(c) \in 1..Len(stream)
              /\ EventOf(c) \in Entry /\ c \in Actor /\ c \notin Canceller
  BY <1>10, CurrentFacts DEF Actor
<1>11. CASE UNCHANGED vars
  <2>1. UNCHANGED streamVars /\ UNCHANGED rowVars /\ UNCHANGED <<stream, actorVars>>
        /\ UNCHANGED <<stream, skipped, faults>>
    BY <1>11 DEF vars, streamVars, rowVars, actorVars
  <2> QED BY <2>1, <1>4, <1>5, <1>6, <1>7 DEF Parts
<1>12. CASE Publish
  <2>1. /\ stream' \in Seq(Entry) /\ Len(stream') = Len(stream) + 1
        /\ owner' \in [1..Len(stream') -> Consumer \cup {None}] /\ Pending' = Pending
    BY <1>1, <1>12, PublishFacts
  <2>2. /\ UNCHANGED <<group, read, stale, skipped, faults>>
        /\ UNCHANGED rowVars /\ UNCHANGED actorVars
    BY <1>12 DEF Publish
  <2>3. StreamTypes'
    BY <1>1, <1>2, <2>1, <2>2 DEF StreamTypes
  <2>4. 1..Len(stream) \subseteq 1..Len(stream')
    BY <1>2, <2>1
  <2>5. ActorTypes' /\ HistoryTypes'
    BY <1>1, <2>2, <2>4 DEF ActorTypes, HistoryTypes, actorVars
  <2>6. \A a \in Actor : InHand(a)'
    BY <1>1, <2>2 DEF InHand, actorVars
  <2> QED BY <1>5, <2>2, <2>3, <2>5, <2>6 DEF Parts
<1>13. ASSUME NEW c \in Consumer, Start(c) PROVE Parts'
  <2>1. /\ EnsureGroup /\ Goto(c, "poll") /\ UNCHANGED rowVars
        /\ UNCHANGED <<stream, phase, batch, target, skipped, faults>> /\ c \in Actor
    BY <1>13 DEF Start, Actor
  <2>2. StreamTypes'
    BY <1>1, <2>1, EnsureGroupTypes
  <2>3. c \notin Canceller /\ "poll" \notin InEntry
    BY DEF InEntry
  <2>4. ActorTypes' /\ \A a \in Actor : InHand(a)'
    <3>1. Fits(c, "poll", target[c])
      BY <1>8, <2>1, <2>3 DEF Fits
    <3> QED BY <1>1, <1>8, <2>1, <3>1, MoveTypes
  <2> QED BY <1>5, <1>7, <2>1, <2>2, <2>4 DEF Parts
<1>13a. ASSUME NEW c \in Consumer, StartFails(c) PROVE Parts'
  <2>1. /\ Goto(c, "stopped") /\ Fault /\ UNCHANGED streamVars /\ UNCHANGED rowVars
        /\ UNCHANGED <<stream, phase, batch, target, skipped>> /\ c \in Actor
    BY <1>13a DEF StartFails, Actor, streamVars
  <2>2. c \notin Canceller /\ "stopped" \notin InEntry
    BY DEF InEntry
  <2>3. ActorTypes' /\ \A a \in Actor : InHand(a)'
    <3>1. Fits(c, "stopped", target[c])
      BY <1>8, <2>1, <2>2 DEF Fits
    <3> QED BY <1>1, <1>8, <2>1, <3>1, MoveTypes
  <2>4. HistoryTypes'
    BY <1>1, <2>1, FaultTypes
  <2> QED BY <1>4, <1>5, <2>1, <2>3, <2>4 DEF Parts
<1>14. ASSUME NEW c \in Consumer, ClaimStale(c) PROVE Parts'
  <2> DEFINE es == Oldest(Adoptable(c))
  <2>1. es \subseteq stale
    BY DEF Oldest, Adoptable
  <2>2. es \subseteq 1..Len(stream) /\ es \subseteq Pending
    <3>1. es \subseteq Pending /\ Pending \subseteq 1..read /\ read \in 0..Len(stream)
      BY <1>1, <2>1 DEF StreamTypes
    <3>2. 1..read \subseteq 1..Len(stream)
      BY <1>2, <3>1
    <3> QED BY <3>1, <3>2
  <2>3. /\ Deliver(c, es) /\ stale' = stale \ es
        /\ phase' = [phase EXCEPT ![c] = IF es = {} THEN "read" ELSE @]
        /\ UNCHANGED rowVars /\ UNCHANGED <<stream, group, read, target, skipped, faults>>
    BY <1>14 DEF ClaimStale
  <2> HIDE DEF es
  <2>4. /\ owner' \in [1..Len(stream') -> Consumer \cup {None}]
        /\ Pending' = Pending \cup es
    BY <1>1, <2>2, <2>3, DeliverPending DEF Deliver
  <2>5. StreamTypes'
    BY <1>1, <2>2, <2>3, <2>4 DEF StreamTypes
  <2>6. PICK p \in {"claim", "read"} : phase' = [phase EXCEPT ![c] = p]
    BY <1>1, <2>3 DEF ActorTypes
  <2>7. ActorTypes' /\ \A a \in Actor : InHand(a)'
    BY <1>1, <2>2, <2>3, <2>6, TakeTypes DEF Deliver
  <2> QED BY <1>5, <1>7, <2>3, <2>5, <2>7 DEF Parts
<1>15. ASSUME NEW c \in Consumer, RecreateGroup(c) PROVE Parts'
  <2>1. /\ EnsureGroup /\ UNCHANGED rowVars
        /\ phase' = [phase EXCEPT ![c] = "read"]
        /\ UNCHANGED <<stream, step, batch, target, skipped, faults>>
    BY <1>15 DEF RecreateGroup
  <2>2. StreamTypes'
    BY <1>1, <2>1, EnsureGroupTypes
  <2>3. ActorTypes' /\ \A a \in Actor : InHand(a)'
    BY <1>1, <2>1 DEF ActorTypes, InHand
  <2> QED BY <1>5, <1>7, <2>1, <2>2, <2>3 DEF Parts
<1>16. ASSUME NEW c \in Consumer, ReadGroup(c) PROVE Parts'
  <2> DEFINE es == {e \in read + 1 .. Len(stream) : e <= read + Batch}
  <2>1. /\ read + Cardinality(es) \in 0..Len(stream)
        /\ \A e : e \in 1..(read + Cardinality(es)) <=> e \in 1..read \/ e \in es
        /\ es \subseteq 1..Len(stream)
    BY NextEntries
  <2>2. /\ Deliver(c, es) /\ read' = read + Cardinality(es)
        /\ phase' = [phase EXCEPT ![c] = IF es = {} THEN "claim" ELSE @]
        /\ UNCHANGED rowVars /\ UNCHANGED <<stream, group, stale, target, skipped, faults>>
    BY <1>16 DEF ReadGroup
  <2> HIDE DEF es
  <2>3. /\ owner' \in [1..Len(stream') -> Consumer \cup {None}]
        /\ Pending' = Pending \cup es
    BY <1>1, <2>1, <2>2, DeliverPending DEF Deliver
  <2>4. StreamTypes'
    BY <1>1, <2>1, <2>2, <2>3 DEF StreamTypes
  <2>5. PICK p \in {"claim", "read"} : phase' = [phase EXCEPT ![c] = p]
    BY <1>1, <2>2 DEF ActorTypes
  <2>6. ActorTypes' /\ \A a \in Actor : InHand(a)'
    BY <1>1, <2>1, <2>2, <2>5, TakeTypes DEF Deliver
  <2> QED BY <1>5, <1>7, <2>2, <2>4, <2>6 DEF Parts
<1>17. ASSUME NEW c \in Consumer, ReadWithoutGroup(c) PROVE Parts'
  <2>1. /\ phase' = [phase EXCEPT ![c] = "claim"] /\ UNCHANGED streamVars
        /\ UNCHANGED rowVars /\ UNCHANGED <<stream, step, batch, target, skipped, faults>>
    BY <1>17 DEF ReadWithoutGroup, streamVars
  <2>2. ActorTypes' /\ \A a \in Actor : InHand(a)'
    BY <1>1, <2>1 DEF ActorTypes, InHand
  <2> QED BY <1>4, <1>5, <1>7, <2>1, <2>2 DEF Parts
<1>18. ASSUME NEW c \in Consumer, DropUnusable(c) PROVE Parts'
  <2>1. /\ step[c] \in InEntry /\ Goto(c, "ack") /\ UNCHANGED streamVars /\ UNCHANGED rowVars
        /\ UNCHANGED <<stream, phase, batch, target, skipped, faults>> /\ "ack" \in InEntry
    BY <1>18 DEF DropUnusable, streamVars, InEntry
  <2>2. ActorTypes' /\ \A a \in Actor : InHand(a)'
    <3>1. Fits(c, "ack", target[c]) /\ c \in Actor
      BY <1>8, <1>10, <2>1 DEF Fits
    <3> QED BY <1>1, <1>8, <2>1, <3>1, MoveTypes
  <2> QED BY <1>4, <1>5, <1>7, <2>1, <2>2 DEF Parts
<1>19. ASSUME NEW c \in Consumer, LoadEntry(c) PROVE Parts'
  <2> DEFINE t == [video |-> EventOf(c).video, status |-> MarkedAs[EventOf(c).type]]
  <2>1. /\ step[c] \in InEntry /\ Goto(c, "save") /\ UNCHANGED streamVars /\ UNCHANGED rowVars
        /\ target' = [target EXCEPT ![c] = t] /\ ~Unusable(c) /\ "save" \in InEntry
        /\ UNCHANGED <<stream, phase, batch, skipped, faults>>
    BY <1>19 DEF LoadEntry, Load, streamVars, InEntry
  <2>2. t \in Copy
    <3>1. EventOf(c).video \in Video /\ EventOf(c).type \in EventType
      BY <1>10, <2>1, EntryFacts DEF Unusable
    <3> QED BY <3>1, LifecycleFacts DEF Copy
  <2> HIDE DEF t
  <2>3. ActorTypes' /\ \A a \in Actor : InHand(a)'
    <3>1. Fits(c, "save", t) /\ c \in Actor
      BY <1>10, <2>1, <2>2 DEF Fits
    <3> QED BY <1>1, <2>1, <3>1, MoveTypes
  <2> QED BY <1>4, <1>5, <1>7, <2>1, <2>3 DEF Parts
<1>20. ASSUME NEW c \in Consumer, SkipEntry(c) PROVE Parts'
  <2>1. /\ step[c] \in InEntry /\ Goto(c, "ack") /\ UNCHANGED streamVars /\ UNCHANGED rowVars
        /\ skipped' = skipped \cup {Current(c)} /\ "ack" \in InEntry
        /\ UNCHANGED <<stream, phase, batch, target, faults>>
    BY <1>20 DEF SkipEntry, streamVars, InEntry
  <2>2. ActorTypes' /\ \A a \in Actor : InHand(a)'
    <3>1. Fits(c, "ack", target[c]) /\ c \in Actor
      BY <1>8, <1>10, <2>1 DEF Fits
    <3> QED BY <1>1, <1>8, <2>1, <3>1, MoveTypes
  <2>3. HistoryTypes'
    BY <1>1, <1>10, <2>1 DEF HistoryTypes
  <2> QED BY <1>4, <1>5, <2>1, <2>2, <2>3 DEF Parts
<1>21. ASSUME NEW c \in Consumer, Ack(c) PROVE Parts'
  <2> DEFINE e == Current(c)
             es == batch[c] \ {e}
  <2>1. step[c] \in InEntry
    BY <1>21 DEF Ack, InEntry
  <2>2. e \in 1..Len(stream) /\ es \subseteq 1..Len(stream)
    BY <1>1, <1>10, <2>1 DEF ActorTypes
  <2>3. batch'[c] = es
    BY <1>1, <1>21 DEF Ack, ActorTypes
  <2>4. /\ owner' = [owner EXCEPT ![e] = None] /\ stale' = stale \ {e}
        /\ batch' = [batch EXCEPT ![c] = es] /\ Goto(c, IF es = {} THEN "poll" ELSE "load")
        /\ UNCHANGED rowVars /\ UNCHANGED <<stream, group, read, target, skipped, faults>>
    BY <1>21, <2>3 DEF Ack
  <2>5. PICK p \in {"claim", "read"} : phase' = [phase EXCEPT ![c] = p]
    <3>1. phase' = [phase EXCEPT ![c] = IF es # {} THEN phase[c]
                                        ELSE IF phase[c] = "claim" THEN "read" ELSE "claim"]
      BY <1>21, <2>3 DEF Ack
    <3> QED BY <1>1, <3>1 DEF ActorTypes
  <2> HIDE DEF e, es
  <2>6. ActorTypes' /\ \A a \in Actor : InHand(a)'
    BY <1>1, <2>2, <2>4, <2>5, TakeTypes
  <2>7. /\ owner' \in [1..Len(stream') -> Consumer \cup {None}]
        /\ Pending' = Pending \ {e}
    BY <1>1, <2>2, <2>4, AckPending
  <2>8. StreamTypes'
    BY <1>1, <2>4, <2>7 DEF StreamTypes
  <2> QED BY <1>5, <1>7, <2>4, <2>6, <2>8 DEF Parts
<1>22. ASSUME NEW c \in Consumer, Raise(c) \/ Die(c) PROVE Parts'
  <2>1. PICK s \in {"poll", "dead"} :
            /\ Abandon(c, s) /\ Fault /\ UNCHANGED streamVars /\ UNCHANGED rowVars
            /\ UNCHANGED <<stream, skipped>>
    BY <1>22 DEF Raise, Die, streamVars
  <2>2. ActorTypes' /\ \A a \in Actor : InHand(a)'
    BY <1>1, <2>1, AbandonTypes
  <2>3. HistoryTypes'
    BY <1>1, <2>1, FaultTypes
  <2> QED BY <1>4, <1>5, <2>1, <2>2, <2>3 DEF Parts
<1>23. ASSUME NEW r \in Canceller, NEW v \in Video, LoadCancel(r, v) PROVE Parts'
  <2> DEFINE t == [video |-> v, status |-> L!Failed]
  <2>1. /\ Goto(r, "save") /\ UNCHANGED streamVars /\ UNCHANGED rowVars
        /\ target' = [target EXCEPT ![r] = t] /\ r \notin Consumer /\ r \in Actor
        /\ UNCHANGED <<stream, phase, batch, skipped, faults>> /\ "save" \in InEntry
    BY <1>23 DEF LoadCancel, Load, streamVars, Actor, InEntry
  <2>2. t \in Copy
    BY DEF Copy, L!Failed, L!Status, L!Pending, L!Processing, L!Done
  <2> HIDE DEF t
  <2>3. ActorTypes' /\ \A a \in Actor : InHand(a)'
    <3>1. Fits(r, "save", t)
      BY <2>1, <2>2 DEF Fits
    <3> QED BY <1>1, <2>1, <3>1, MoveTypes
  <2> QED BY <1>4, <1>5, <1>7, <2>1, <2>3 DEF Parts
<1>24. ASSUME NEW r \in Canceller, NEW v \in Video, RefuseCancel(r, v) PROVE Parts'
  <2>1. /\ Goto(r, "refused") /\ UNCHANGED streamVars /\ UNCHANGED rowVars
        /\ r \notin Consumer /\ r \in Actor
        /\ UNCHANGED <<stream, phase, batch, target, skipped, faults>>
    BY <1>24 DEF RefuseCancel, streamVars, Actor
  <2>2. ActorTypes' /\ \A a \in Actor : InHand(a)'
    <3>1. Fits(r, "refused", target[r])
      BY <1>8, <2>1 DEF Fits
    <3> QED BY <1>1, <1>8, <2>1, <3>1, MoveTypes
  <2> QED BY <1>4, <1>5, <1>7, <2>1, <2>2 DEF Parts
<1>25. ASSUME NEW r \in Canceller, FailCancel(r) PROVE Parts'
  <2>1. /\ Goto(r, "refused") /\ UNCHANGED streamVars /\ UNCHANGED rowVars /\ Fault
        /\ r \notin Consumer /\ r \in Actor /\ target' = [target EXCEPT ![r] = None]
        /\ UNCHANGED <<stream, phase, batch, skipped>> /\ None \in Copy \cup {None}
    BY <1>25 DEF FailCancel, streamVars, Actor
  <2>2. ActorTypes' /\ \A a \in Actor : InHand(a)'
    <3>1. Fits(r, "refused", None)
      BY <2>1 DEF Fits
    <3> QED BY <1>1, <2>1, <3>1, MoveTypes
  <2>3. HistoryTypes'
    BY <1>1, <2>1, FaultTypes
  <2> QED BY <1>4, <1>5, <2>1, <2>2, <2>3 DEF Parts
<1>26. ASSUME NEW a \in Actor, Save(a) PROVE Parts'
  <2>1. /\ step[a] = "save" /\ Goto(a, "feed") /\ UNCHANGED streamVars
        /\ "feed" \in InEntry /\ "save" \in InEntry
        /\ UNCHANGED <<stream, deleted, phase, batch, target, skipped, faults>>
    BY <1>26 DEF Save, streamVars, InEntry
  <2>2. ActorTypes' /\ \A b \in Actor : InHand(b)'
    <3>1. Fits(a, "feed", target[a])
      BY <1>8, <2>1 DEF Fits
    <3> QED BY <1>1, <1>8, <2>1, <3>1, MoveTypes
  <2>3. target[a] \in Copy
    BY <1>1, <2>1 DEF InHand
  <2>4. RowTypes'
    <3>1. target[a].video \in Video /\ target[a].status \in L!Status
      BY <2>3 DEF Copy
    <3> QED BY <1>1, <1>26, <2>1, <3>1 DEF RowTypes, Save
  <2> QED BY <1>4, <1>7, <2>1, <2>2, <2>4 DEF Parts
<1>27. ASSUME NEW a \in Actor, Broadcast(a) PROVE Parts'
  <2>1. /\ step[a] = "feed" /\ Goto(a, IF a \in Consumer THEN "ack" ELSE "cancelled")
        /\ UNCHANGED streamVars /\ UNCHANGED rowVars /\ target' = [target EXCEPT ![a] = None]
        /\ UNCHANGED <<stream, phase, batch, skipped, faults>>
        /\ "feed" \in InEntry /\ "ack" \in InEntry /\ None \in Copy \cup {None}
    BY <1>27 DEF Broadcast, streamVars, InEntry
  <2>2. ActorTypes' /\ \A b \in Actor : InHand(b)'
    <3>1. CASE a \in Consumer
      <4>1. Goto(a, "ack") /\ a \notin Canceller
        BY <2>1, <3>1
      <4>2. Fits(a, "ack", None)
        BY <2>1, <4>1 DEF Fits
      <4> QED BY <1>1, <2>1, <4>1, <4>2, MoveTypes
    <3>2. CASE a \notin Consumer
      <4>1. Goto(a, "cancelled") /\ Fits(a, "cancelled", None)
        BY <2>1, <3>2 DEF Fits
      <4> QED BY <1>1, <2>1, <4>1, MoveTypes
    <3> QED BY <3>1, <3>2
  <2> QED BY <1>4, <1>5, <1>7, <2>1, <2>2 DEF Parts
<1>28. ASSUME NEW v \in Video, Delete(v) PROVE Parts'
  <2>1. /\ deleted' = deleted \cup {v} /\ UNCHANGED <<status, reached>>
        /\ UNCHANGED streamVars /\ UNCHANGED <<stream, actorVars>>
        /\ UNCHANGED <<stream, skipped, faults>>
    BY <1>28 DEF Delete, streamVars
  <2>2. RowTypes'
    BY <1>1, <2>1 DEF RowTypes
  <2> QED BY <1>4, <1>6, <1>7, <2>1, <2>2 DEF Parts
<1>29. CASE Elapse
  <2>1. /\ stale' = Pending /\ UNCHANGED <<stream, group, read, owner>> /\ UNCHANGED rowVars
        /\ UNCHANGED <<stream, actorVars>> /\ UNCHANGED <<stream, skipped, faults>>
    BY <1>29 DEF Elapse
  <2>2. StreamTypes'
    BY <1>1, <2>1 DEF StreamTypes, Pending
  <2> QED BY <1>5, <1>6, <1>7, <2>1, <2>2 DEF Parts
<1>30. CASE LoseGroup
  <2>1. /\ Fault /\ group' = FALSE /\ owner' = NoPending /\ stale' = {} /\ read' = 0
        /\ UNCHANGED rowVars /\ UNCHANGED <<stream, actorVars>> /\ UNCHANGED <<stream, skipped>>
    BY <1>30 DEF LoseGroup
  <2>2. owner' \in [1..Len(stream') -> Consumer \cup {None}] /\ Pending' = {}
    BY <1>1, <2>1, NothingPending
  <2>3. StreamTypes'
    <3>1. read' \in 0..Len(stream')
      BY <1>2, <2>1
    <3>2. group' \in BOOLEAN /\ stream' \in Seq(Entry) /\ stale' \subseteq Pending'
      BY <1>1, <2>1 DEF StreamTypes
    <3>3. Pending' \subseteq 1..read'
      BY <2>2
    <3> QED BY <2>2, <3>1, <3>2, <3>3 DEF StreamTypes
  <2>4. HistoryTypes'
    BY <1>1, <2>1, FaultTypes
  <2> QED BY <1>5, <1>6, <2>1, <2>3, <2>4 DEF Parts
<1>31. CASE \E c \in Consumer :
                Start(c) \/ StartFails(c) \/ Poll(c) \/ Handle(c) \/ Raise(c) \/ Die(c)
  BY <1>31, <1>13, <1>13a, <1>14, <1>15, <1>16, <1>17, <1>18, <1>19, <1>20, <1>21, <1>22
  DEF Poll, Handle
<1>32. CASE \E r \in Canceller : \/ \E v \in Video : LoadCancel(r, v) \/ RefuseCancel(r, v)
                                 \/ FailCancel(r)
  BY <1>32, <1>23, <1>24, <1>25
<1> QED BY <1>11, <1>12, <1>26, <1>27, <1>28, <1>29, <1>30, <1>31, <1>32 DEF Next

LEMMA StatusInit ==
    ASSUME Init, VideoStatusAssumption
    PROVE  StatusInv
<1>1. stream \in Seq(Entry) /\ Len(stream) = 0 /\ owner \in [1..Len(stream) -> Consumer \cup {None}]
  BY DEF Init
<1>2. Pending = {} /\ read \in 0..Len(stream)
  BY <1>1 DEF Init, Pending
<1>3. RowTypes /\ HistoryTypes
  BY LifecycleFacts DEF Init, RowTypes, HistoryTypes, VideoStatusAssumption
<1>4. ActorTypes
  BY DEF Init, ActorTypes
<1>5. \A a \in Actor : InHand(a)
  BY DEF Init, InHand, InEntry, Actor
<1>6. group \in BOOLEAN /\ stale \subseteq Pending /\ Pending \subseteq 1..read
  BY <1>2 DEF Init
<1>7. OvertakenTypes
  BY DEF Init, OvertakenTypes
<1> QED BY <1>1, <1>2, <1>3, <1>4, <1>5, <1>6, <1>7, PartsOfTheInvariant
        DEF Parts, StreamTypes

\* Every variable has its type: what is stale is pending, what is pending was
\* read, a batch holds entries of the stream and a copy is a video's.
THEOREM StatusTypeCorrect == Spec => []TypeOK
<1>1. Init => StatusInv
  BY StatusInit, VideoStatusAssumption
<1>2. StatusInv /\ [Next]_vars => StatusInv'
  BY StatusStep, VideoStatusAssumption
<1>3. StatusInv => TypeOK
  BY DEF StatusInv
<1> QED BY <1>1, <1>2, <1>3, PTL DEF Spec

-----------------------------------------------------------------------------
(* At-least-once: what is acked is settled *)

Settled(e) ==
    \/ stream[e].type = "unusable"
    \/ e \in skipped
    \/ MarkedAs[stream[e].type] \in reached[stream[e].video]

\* A copy to save is what the entry asks for; past the save the entry is settled.
OnEntry(c) ==
    /\ step[c] = "save" =>
          target[c] = [video |-> EventOf(c).video, status |-> MarkedAs[EventOf(c).type]]
    /\ step[c] \in {"feed", "ack"} => Settled(Current(c))

SettledInv ==
    /\ \A e \in Acked : Settled(e)
    /\ \A c \in Consumer : OnEntry(c)

\* The stream, the refusals and the statuses a video was saved with only grow.
LEMMA HistoryGrows ==
    ASSUME StatusInv, VideoStatusAssumption, [Next]_vars
    PROVE  /\ 1..Len(stream) \subseteq 1..Len(stream')
           /\ \A e \in 1..Len(stream) : stream'[e] = stream[e]
           /\ skipped \subseteq skipped'
           /\ \A v \in Video : reached[v] \subseteq reached'[v]
<1>1. StreamTypes /\ RowTypes /\ Len(stream) \in Nat
  BY PartsOfTheInvariant DEF Parts, StreamTypes
<1>2. stream' = stream \/ Publish
  BY DEF Next, vars, Start, StartFails, EnsureGroup, Poll, ClaimStale, RecreateGroup, ReadGroup,
         ReadWithoutGroup, Handle, DropUnusable, LoadEntry, SkipEntry, Load, Ack, Raise, Die,
         LoadCancel, RefuseCancel, FailCancel, Save, Broadcast, Delete, Elapse, LoseGroup,
         streamVars
<1>3. skipped' = skipped \/ \E c \in Consumer : SkipEntry(c)
  BY DEF Next, vars, Start, StartFails, EnsureGroup, Poll, ClaimStale, RecreateGroup, ReadGroup,
         ReadWithoutGroup, Handle, DropUnusable, LoadEntry, Load, Ack, Raise, Die,
         LoadCancel, RefuseCancel, FailCancel, Save, Broadcast, Delete, Elapse, LoseGroup,
         Publish
<1>4. reached' = reached \/ \E a \in Actor : Save(a)
  BY DEF Next, vars, Start, StartFails, EnsureGroup, Poll, ClaimStale, RecreateGroup, ReadGroup,
         ReadWithoutGroup, Handle, DropUnusable, LoadEntry, SkipEntry, Load, Ack, Raise, Die,
         LoadCancel, RefuseCancel, FailCancel, Broadcast, Delete, Elapse, LoseGroup,
         Publish, rowVars
<1>5. /\ 1..Len(stream) \subseteq 1..Len(stream')
      /\ \A e \in 1..Len(stream) : stream'[e] = stream[e]
  <2>1. CASE stream' = stream
    BY <2>1
  <2>2. CASE Publish
    <3>1. /\ Len(stream') = Len(stream) + 1
          /\ \A i \in 1..Len(stream) : stream'[i] = stream[i]
      BY <1>1, <2>2, PublishFacts
    <3> QED BY <1>1, <3>1
  <2> QED BY <1>2, <2>1, <2>2
<1>6. skipped \subseteq skipped'
  BY <1>3 DEF SkipEntry
<1>7. \A v \in Video : reached[v] \subseteq reached'[v]
  <2>1. ASSUME NEW a \in Actor, Save(a), NEW v \in Video PROVE reached[v] \subseteq reached'[v]
    BY <1>1, <2>1 DEF Save, RowTypes
  <2> QED BY <1>4, <2>1
<1> QED BY <1>5, <1>6, <1>7

\* What is settled stays settled.
LEMMA SettledStays ==
    ASSUME StatusInv, VideoStatusAssumption, [Next]_vars,
           NEW e \in 1..Len(stream), Settled(e)
    PROVE  Settled(e)'
<1>1. stream \in Seq(Entry)
  BY DEF StatusInv, TypeOK
<1>2. stream[e] \in Entry
  BY <1>1
<1>3. stream'[e] = stream[e] /\ skipped \subseteq skipped'
      /\ reached[stream[e].video] \subseteq reached'[stream[e].video]
  BY <1>2, HistoryGrows, EntryFacts
<1> QED BY <1>3 DEF Settled

\* Whoever is not moved keeps what it has in hand.
LEMMA OthersKeep ==
    ASSUME StatusInv, VideoStatusAssumption, [Next]_vars, NEW c \in Consumer, OnEntry(c),
           step'[c] = step[c], batch'[c] = batch[c], target'[c] = target[c]
    PROVE  OnEntry(c)'
<1>1. Current(c)' = Current(c)
  BY DEF Current
<1>2. CASE step[c] \in InEntry
  <2>1. Current(c) \in 1..Len(stream)
    BY <1>2, CurrentFacts
  <2>2. EventOf(c)' = EventOf(c)
    BY <1>1, <2>1, HistoryGrows DEF EventOf
  <2>3. step[c] \in {"feed", "ack"} => Settled(Current(c))'
    <3>1. PICK e \in 1..Len(stream) : e = Current(c)
      BY <2>1
    <3>2. ASSUME step[c] \in {"feed", "ack"} PROVE Settled(e)'
      <4>1. Settled(e)
        BY <3>1, <3>2 DEF OnEntry
      <4> QED BY <4>1, SettledStays
    <3>3. Settled(e)' <=> Settled(Current(c))'
      BY <1>1, <3>1 DEF Settled
    <3> QED BY <3>2, <3>3
  <2> QED BY <2>2, <2>3 DEF OnEntry
<1>3. CASE step[c] \notin InEntry
  BY <1>3 DEF OnEntry, InEntry
<1> QED BY <1>2, <1>3

\* A consumer's own steps: an entry is dropped, refused or saved before "ack".
LEMMA OwnSteps ==
    ASSUME StatusInv, StatusInv', VideoStatusAssumption, [Next]_vars,
           NEW c \in Consumer, OnEntry(c),
           \/ DropUnusable(c) \/ LoadEntry(c) \/ SkipEntry(c) \/ Save(c) \/ Broadcast(c)
    PROVE  OnEntry(c)'
<1>1. ActorTypes /\ RowTypes /\ HistoryTypes /\ StreamTypes /\ InHand(c) /\ c \in Actor
  BY PartsOfTheInvariant DEF Parts, Actor
<1>2. step[c] \in InEntry /\ UNCHANGED <<stream, batch>>
  BY DEF DropUnusable, LoadEntry, SkipEntry, Load, Save, Broadcast, streamVars, InEntry
<1>3. PICK e \in 1..Len(stream) : e = Current(c)
  BY <1>2, CurrentFacts
<1>4. Current(c)' = e /\ EventOf(c) = stream[e] /\ EventOf(c)' = stream[e]
  BY <1>2, <1>3 DEF Current, EventOf
<1>5. Settled(Current(c))' <=> Settled(e)'
  BY <1>4 DEF Settled
<1>6. CASE DropUnusable(c)
  <2>1. step'[c] = "ack" /\ stream[e].type = "unusable"
    BY <1>1, <1>4, <1>6 DEF DropUnusable, Goto, ActorTypes, Unusable
  <2> QED BY <1>2, <1>5, <2>1 DEF OnEntry, Settled
<1>7. CASE LoadEntry(c)
  <2>1. step'[c] = "save" /\ target'[c] = [video |-> stream[e].video,
                                          status |-> MarkedAs[stream[e].type]]
    BY <1>1, <1>4, <1>7 DEF LoadEntry, Load, Goto, ActorTypes
  <2> QED BY <1>4, <2>1 DEF OnEntry
<1>8. CASE SkipEntry(c)
  <2>1. step'[c] = "ack" /\ e \in skipped'
    BY <1>1, <1>3, <1>8 DEF SkipEntry, Goto, ActorTypes
  <2> QED BY <1>2, <1>5, <2>1 DEF OnEntry, Settled
<1>9. CASE Save(c)
  <2>1. /\ step[c] = "save" /\ step'[c] = "feed"
        /\ reached' = [reached EXCEPT ![target[c].video] = @ \cup {target[c].status}]
    BY <1>1, <1>9 DEF Save, Goto, ActorTypes
  <2>2. /\ target[c] = [video |-> stream[e].video, status |-> MarkedAs[stream[e].type]]
        /\ stream[e] \in Entry
    BY <1>1, <1>4, <2>1 DEF OnEntry, StreamTypes
  <2>3. target[c].video = stream[e].video /\ target[c].status = MarkedAs[stream[e].type]
        /\ stream[e].video \in Video
    BY <2>2, EntryFacts
  <2>4. MarkedAs[stream[e].type] \in reached'[stream[e].video]
    BY <1>1, <2>1, <2>3 DEF RowTypes
  <2> QED BY <1>2, <1>5, <2>1, <2>4 DEF OnEntry, Settled
<1>10. CASE Broadcast(c)
  <2>1. step[c] = "feed" /\ step'[c] = "ack"
    BY <1>1, <1>10 DEF Broadcast, Goto, ActorTypes
  <2>2. Settled(e)
    BY <1>3, <2>1 DEF OnEntry
  <2>3. Settled(e)'
    BY <2>2, SettledStays
  <2> QED BY <1>5, <2>1, <2>3 DEF OnEntry
<1> QED BY <1>6, <1>7, <1>8, <1>9, <1>10

OwnStep(c) ==
    DropUnusable(c) \/ LoadEntry(c) \/ SkipEntry(c) \/ Save(c) \/ Broadcast(c)

\* In a step a consumer handles its entry, has no entry in hand after it, or is
\* not moved at all.
LEMMA WhatAStepDoes ==
    ASSUME StatusInv, VideoStatusAssumption, [Next]_vars, NEW c \in Consumer
    PROVE  \/ OwnStep(c)
           \/ step'[c] = step[c] /\ batch'[c] = batch[c] /\ target'[c] = target[c]
           \/ step'[c] \in {"stopped", "poll", "load", "dead"}
<1>1. ActorTypes /\ c \in Actor /\ c \notin Canceller
  BY PartsOfTheInvariant DEF Parts, Actor, VideoStatusAssumption
<1> DEFINE Kept == step'[c] = step[c] /\ batch'[c] = batch[c] /\ target'[c] = target[c]
           Empty == step'[c] \in {"stopped", "poll", "load", "dead"}
<1>2. CASE UNCHANGED actorVars
  BY <1>2 DEF actorVars
<1>3. ASSUME NEW d \in Consumer,
             Start(d) \/ StartFails(d) \/ ClaimStale(d) \/ ReadGroup(d) \/ Ack(d)
      PROVE  Kept \/ Empty
  <2>1. PICK s \in {"stopped", "poll", "load"} : Goto(d, s)
    BY <1>3 DEF Start, StartFails, ClaimStale, ReadGroup, Deliver, Ack
  <2>2. CASE c = d
    BY <1>1, <2>1, <2>2 DEF Goto, ActorTypes
  <2>3. CASE c # d
    <3>1. batch'[c] = batch[c]
      BY <1>1, <1>3, <2>3 DEF Start, StartFails, ClaimStale, ReadGroup, Deliver, Ack,
                                ActorTypes
    <3>2. target' = target
      BY <1>3 DEF Start, StartFails, ClaimStale, ReadGroup, Ack
    <3> QED BY <1>1, <2>1, <2>3, <3>1, <3>2 DEF Goto, ActorTypes
  <2> QED BY <2>2, <2>3
<1>4. ASSUME NEW d \in Consumer, RecreateGroup(d) \/ ReadWithoutGroup(d)
      PROVE  Kept
  BY <1>4 DEF RecreateGroup, ReadWithoutGroup
<1>5. ASSUME NEW d \in Consumer, Raise(d) \/ Die(d)
      PROVE  Kept \/ Empty
  <2>1. PICK s \in {"poll", "dead"} : Abandon(d, s)
    BY <1>5 DEF Raise, Die
  <2> QED BY <1>1, <2>1 DEF Abandon, Goto, ActorTypes
<1>6. ASSUME NEW a \in Actor, a # c,
             \/ DropUnusable(a) \/ LoadEntry(a) \/ SkipEntry(a) \/ Save(a) \/ Broadcast(a)
             \/ \E v \in Video : LoadCancel(a, v) \/ RefuseCancel(a, v)
             \/ FailCancel(a)
      PROVE  Kept
  <2>1. \E s : Goto(a, s)
    BY <1>6 DEF DropUnusable, LoadEntry, SkipEntry, Load, Save, Broadcast, LoadCancel,
                RefuseCancel, FailCancel
  <2>2. step'[c] = step[c]
    BY <1>1, <1>6, <2>1 DEF Goto, ActorTypes
  <2>3. batch' = batch
    BY <1>6 DEF DropUnusable, LoadEntry, SkipEntry, Load, Save, Broadcast, LoadCancel,
                RefuseCancel, FailCancel
  <2>4. target'[c] = target[c]
    BY <1>1, <1>6 DEF DropUnusable, LoadEntry, SkipEntry, Load, Save, Broadcast, LoadCancel,
                      RefuseCancel, FailCancel, ActorTypes
  <2> QED BY <2>2, <2>3, <2>4
<1> HIDE DEF Kept, Empty
<1>7. ASSUME NEW d \in Consumer,
             Start(d) \/ StartFails(d) \/ Poll(d) \/ Handle(d) \/ Raise(d) \/ Die(d)
      PROVE  OwnStep(c) \/ Kept \/ Empty
  BY <1>1, <1>3, <1>4, <1>5, <1>6, <1>7 DEF Poll, Handle, OwnStep, Actor
<1>8. ASSUME NEW r \in Canceller,
             \/ \E v \in Video : LoadCancel(r, v) \/ RefuseCancel(r, v)
             \/ FailCancel(r)
      PROVE  Kept
  BY <1>1, <1>6, <1>8 DEF Actor
<1>9. ASSUME NEW a \in Actor, Save(a) \/ Broadcast(a)
      PROVE  OwnStep(c) \/ Kept
  BY <1>1, <1>6, <1>9 DEF OwnStep
<1>10. CASE \/ UNCHANGED vars \/ Publish \/ Elapse \/ LoseGroup
            \/ \E v \in Video : Delete(v)
  <2>1. UNCHANGED actorVars
    BY <1>10 DEF vars, actorVars, Publish, Elapse, LoseGroup, Delete
  <2> QED BY <1>2, <2>1 DEF Kept
<1>11. OwnStep(c) \/ Kept \/ Empty
  <2>1. CASE \E d \in Consumer :
                Start(d) \/ StartFails(d) \/ Poll(d) \/ Handle(d) \/ Raise(d) \/ Die(d)
    BY <2>1, <1>7
  <2>2. CASE \E r \in Canceller : \/ \E v \in Video : LoadCancel(r, v) \/ RefuseCancel(r, v)
                                  \/ FailCancel(r)
    BY <2>2, <1>8
  <2>3. CASE \E a \in Actor : Save(a) \/ Broadcast(a)
    BY <2>3, <1>9
  <2>4. CASE UNCHANGED vars \/ Publish \/ Elapse \/ LoseGroup \/ \E v \in Video : Delete(v)
    BY <2>4, <1>10 DEF Kept, Empty
  <2> QED BY <2>1, <2>2, <2>3, <2>4 DEF Next
<1> QED BY <1>11 DEF Kept, Empty

LEMMA SettledStep ==
    ASSUME StatusInv, StatusInv', SettledInv, VideoStatusAssumption, [Next]_vars
    PROVE  SettledInv'
<1>1. StreamTypes /\ Len(stream) \in Nat
  BY PartsOfTheInvariant DEF Parts, StreamTypes
<1>2. ASSUME NEW c \in Consumer PROVE OnEntry(c)'
  <2>1. OnEntry(c)
    BY DEF SettledInv
  <2>2. CASE OwnStep(c)
    BY <2>1, <2>2, OwnSteps DEF OwnStep
  <2>3. CASE step'[c] = step[c] /\ batch'[c] = batch[c] /\ target'[c] = target[c]
    BY <2>1, <2>3, OthersKeep
  <2>4. CASE step'[c] \in {"stopped", "poll", "load", "dead"}
    BY <2>4 DEF OnEntry
  <2> QED BY <2>2, <2>3, <2>4, WhatAStepDoes
<1>3. ASSUME NEW e \in Acked' PROVE Settled(e)'
  <2>1. e \in 1..read' /\ owner'[e] = None
    BY <1>3 DEF Acked
  <2>2. SUFFICES ASSUME e \notin Acked PROVE Settled(e)'
    <3>1. Acked \subseteq 1..Len(stream)
      BY <1>1 DEF Acked, StreamTypes
    <3> QED BY <3>1, SettledStays DEF SettledInv
  <2>3. CASE read' = read /\ owner' = owner
    BY <2>1, <2>2, <2>3 DEF Acked
  <2>4. CASE Publish
    <3>1. read' = read /\ \A i \in 1..Len(stream) : owner'[i] = owner[i]
      BY <1>1, <2>4, PublishFacts DEF Publish
    <3>2. 1..read \subseteq 1..Len(stream)
      BY <1>1 DEF StreamTypes
    <3> QED BY <2>1, <2>2, <3>1, <3>2 DEF Acked
  <2>5. CASE read' = 0
    BY <2>1, <2>5
  <2>6. ASSUME NEW c \in Consumer, ClaimStale(c) PROVE FALSE
    <3>1. read' = read /\ owner' = [i \in DOMAIN owner |-> IF i \in Oldest(Adoptable(c))
                                                          THEN c ELSE owner[i]]
      BY <2>6 DEF ClaimStale, Deliver
    <3>2. 1..read \subseteq DOMAIN owner
      BY <1>1 DEF StreamTypes
    <3> QED BY <2>1, <2>2, <3>1, <3>2 DEF Acked, VideoStatusAssumption
  <2>7. ASSUME NEW c \in Consumer, ReadGroup(c) PROVE FALSE
    <3> DEFINE es == {i \in read + 1 .. Len(stream) : i <= read + Batch}
    <3>1. /\ \A i : i \in 1..(read + Cardinality(es)) <=> i \in 1..read \/ i \in es
          /\ es \subseteq 1..Len(stream)
      BY NextEntries
    <3>2. read' = read + Cardinality(es)
          /\ owner' = [i \in DOMAIN owner |-> IF i \in es THEN c ELSE owner[i]]
      BY <2>7 DEF ReadGroup, Deliver
    <3> HIDE DEF es
    <3>3. 1..read \subseteq DOMAIN owner /\ es \subseteq DOMAIN owner
      BY <1>1, <3>1 DEF StreamTypes
    <3>4. e \in 1..read \/ e \in es
      BY <2>1, <3>1, <3>2
    <3> QED BY <2>1, <2>2, <3>2, <3>3, <3>4 DEF Acked, VideoStatusAssumption
  <2>8. ASSUME NEW c \in Consumer, Ack(c) PROVE Settled(e)'
    <3>1. read' = read /\ owner' = [owner EXCEPT ![Current(c)] = None] /\ step[c] = "ack"
      BY <2>8 DEF Ack
    <3>2. Current(c) \in 1..Len(stream)
      BY <3>1, CurrentFacts DEF InEntry
    <3>3. e = Current(c)
      BY <1>1, <2>1, <2>2, <3>1 DEF Acked, StreamTypes
    <3>4. Settled(e) /\ e \in 1..Len(stream)
      BY <3>1, <3>2, <3>3 DEF SettledInv, OnEntry
    <3> QED BY <3>4, SettledStays
  <2>9. CASE EnsureGroup
    BY <2>3, <2>5, <2>9 DEF EnsureGroup
  <2>10. \/ read' = read /\ owner' = owner
         \/ Publish \/ EnsureGroup \/ read' = 0
         \/ \E c \in Consumer : ClaimStale(c) \/ ReadGroup(c) \/ Ack(c)
    BY DEF Next, vars, Start, StartFails, Poll, RecreateGroup, ReadWithoutGroup, Handle,
           DropUnusable, LoadEntry, SkipEntry, Load, Raise, Die, LoadCancel, RefuseCancel,
           FailCancel, Save, Broadcast, Delete, Elapse, LoseGroup, streamVars
  <2> QED BY <2>3, <2>4, <2>5, <2>6, <2>7, <2>8, <2>9, <2>10
<1> QED BY <1>2, <1>3 DEF SettledInv

\* At-least-once: an entry leaves the pending list only once the status it asks
\* for was saved, its use case refused it or there was nothing to apply.
THEOREM AckedEntriesAreSettled == Spec => []AckedIsSettled
<1>1. Init => StatusInv /\ SettledInv
  <2>1. Init => SettledInv
    BY DEF Init, SettledInv, Acked, OnEntry, Actor
  <2> QED BY <2>1, StatusInit, VideoStatusAssumption
<1>2. StatusInv /\ SettledInv /\ [Next]_vars => StatusInv' /\ SettledInv'
  BY StatusStep, SettledStep, VideoStatusAssumption
<1>3. SettledInv => AckedIsSettled
  BY DEF SettledInv, AckedIsSettled, Settled
<1> QED BY <1>1, <1>2, <1>3, PTL DEF Spec

-----------------------------------------------------------------------------
(* Saves, deletes and the status machine *)

\* Whoever is about to save was so before, with the same copy, or has just loaded it.
LEMMA SavesComeFromLoads ==
    ASSUME StatusInv, VideoStatusAssumption, [Next]_vars, NEW a \in Actor, step'[a] = "save"
    PROVE  \/ step[a] = "save" /\ target'[a] = target[a]
           \/ step[a] # "save" /\ \E v \in Video, s \in L!Status : Load(a, v, s)
<1>1. ActorTypes
  BY PartsOfTheInvariant DEF Parts
<1> DEFINE Held == step[a] = "save" /\ target'[a] = target[a]
           Loaded == step[a] # "save" /\ \E v \in Video, s \in L!Status : Load(a, v, s)
<1>2. CASE a \in Consumer
  <2>1. CASE OwnStep(a)
    <3>1. LoadEntry(a)
      BY <1>1, <2>1 DEF OwnStep, DropUnusable, SkipEntry, Save, Broadcast, Goto, ActorTypes
    <3>2. step[a] \in InEntry /\ step[a] # "save" /\ EventOf(a).type # "unusable"
          /\ Load(a, EventOf(a).video, MarkedAs[EventOf(a).type])
      BY <3>1 DEF LoadEntry, InEntry, Unusable
    <3>3. EventOf(a).video \in Video /\ MarkedAs[EventOf(a).type] \in L!Status
      BY <1>2, <3>2, CurrentFacts, EntryFacts, LifecycleFacts
    <3> QED BY <3>2, <3>3
  <2>2. CASE step'[a] = step[a] /\ batch'[a] = batch[a] /\ target'[a] = target[a]
    BY <2>2
  <2>3. step'[a] \notin {"stopped", "poll", "load", "dead"}
    OBVIOUS
  <2> QED BY <1>2, <2>1, <2>2, <2>3, WhatAStepDoes
<1>3. CASE a \in Canceller
  <2>1. a \notin Consumer
    BY <1>3 DEF VideoStatusAssumption
  <2>2. CASE UNCHANGED actorVars
    BY <2>2 DEF actorVars
  <2>3. ASSUME NEW c \in Actor, c # a, NEW s, Goto(c, s), target'[a] = target[a]
        PROVE  Held
    BY <1>1, <2>3 DEF Goto, ActorTypes
  <2>4. ASSUME NEW c \in Consumer,
               Start(c) \/ StartFails(c) \/ Poll(c) \/ Handle(c) \/ Raise(c) \/ Die(c)
        PROVE  Held
    <3>1. c \in Actor /\ c # a
      BY <2>1 DEF Actor
    <3>2. (\E s : Goto(c, s)) \/ step' = step
      BY <2>4 DEF Start, StartFails, Poll, ClaimStale, RecreateGroup, ReadGroup, ReadWithoutGroup,
                  Deliver, Handle, DropUnusable, LoadEntry, SkipEntry, Load, Ack, Raise, Die,
                  Abandon
    <3>3. target'[a] = target[a]
      BY <1>1, <2>4, <3>1 DEF Start, StartFails, Poll, ClaimStale, RecreateGroup, ReadGroup,
                ReadWithoutGroup, Handle, DropUnusable, LoadEntry, SkipEntry, Load, Ack, Raise,
                Die, Abandon, ActorTypes
    <3> QED BY <2>3, <3>1, <3>2, <3>3
  <2>5. ASSUME NEW r \in Canceller, NEW v \in Video, LoadCancel(r, v)
        PROVE  Held \/ Loaded
    <3>1. /\ Load(r, v, L!Failed) /\ L!Failed \in L!Status
          /\ r \in Actor /\ step[r] # "save"
      BY <2>5 DEF LoadCancel, Actor, L!Failed, L!Status, L!Pending, L!Processing, L!Done
    <3>2. CASE r = a
      BY <3>1, <3>2
    <3>3. CASE r # a
      <4>1. Goto(r, "save") /\ target'[a] = target[a]
        BY <1>1, <3>1, <3>3 DEF Load, ActorTypes
      <4> QED BY <2>3, <3>1, <3>3, <4>1
    <3> QED BY <3>2, <3>3
  <2>6. ASSUME NEW r \in Canceller, FailCancel(r) \/ \E v \in Video : RefuseCancel(r, v)
        PROVE  Held
    <3>1. Goto(r, "refused") /\ r \in Actor
      BY <2>6 DEF FailCancel, RefuseCancel, Actor
    <3>2. r # a
      BY <1>1, <3>1 DEF Goto, ActorTypes
    <3>3. target'[a] = target[a]
      BY <1>1, <2>6, <3>1, <3>2 DEF FailCancel, RefuseCancel, ActorTypes
    <3> QED BY <2>3, <3>1, <3>2, <3>3
  <2>7. ASSUME NEW b \in Actor, Save(b) \/ Broadcast(b)
        PROVE  Held
    <3>1. PICK s \in {"feed", "ack", "cancelled"} : Goto(b, s)
      BY <2>7 DEF Save, Broadcast
    <3>2. b # a
      BY <1>1, <3>1 DEF Goto, ActorTypes
    <3>3. target'[a] = target[a]
      BY <1>1, <2>7, <3>2 DEF Save, Broadcast, ActorTypes
    <3> QED BY <2>3, <3>1, <3>2, <3>3
  <2>8. CASE UNCHANGED vars \/ Publish \/ Elapse \/ LoseGroup \/ \E v \in Video : Delete(v)
    <3>1. UNCHANGED actorVars
      BY <2>8 DEF vars, actorVars, Publish, Elapse, LoseGroup, Delete
    <3> QED BY <2>2, <3>1
  <2> HIDE DEF Held, Loaded
  <2>9. CASE \E c \in Consumer :
                Start(c) \/ StartFails(c) \/ Poll(c) \/ Handle(c) \/ Raise(c) \/ Die(c)
    BY <2>4, <2>9 DEF Held, Loaded
  <2>10. CASE \E r \in Canceller : \/ \E v \in Video : LoadCancel(r, v) \/ RefuseCancel(r, v)
                                   \/ FailCancel(r)
    BY <2>5, <2>6, <2>10 DEF Held, Loaded
  <2>11. CASE \E b \in Actor : Save(b) \/ Broadcast(b)
    BY <2>7, <2>11 DEF Held, Loaded
  <2> QED BY <2>8, <2>9, <2>10, <2>11 DEF Next
<1> QED BY <1>2, <1>3 DEF Actor

\* A status changes in a save only, and to what the copy says.
LEMMA OnlySavesMove ==
    ASSUME [Next]_vars
    PROVE  /\ status' = status
              \/ \E a \in Actor : /\ Save(a)
                                  /\ status' = [status EXCEPT ![target[a].video] = target[a].status]
           /\ deleted' = deleted \/ \E v \in Video : deleted' = deleted \cup {v}
<1>1. status' = status \/ \E a \in Actor : Save(a)
  BY DEF Next, vars, Publish, Start, StartFails, EnsureGroup, Poll, ClaimStale, RecreateGroup,
         ReadGroup, ReadWithoutGroup, Handle, DropUnusable, LoadEntry, SkipEntry, Load, Ack, Raise,
         Die, LoadCancel, RefuseCancel, FailCancel, Broadcast, Delete, Elapse, LoseGroup, rowVars
<1>2. deleted' = deleted \/ \E v \in Video : Delete(v)
  BY DEF Next, vars, Publish, Start, StartFails, EnsureGroup, Poll, ClaimStale, RecreateGroup,
         ReadGroup, ReadWithoutGroup, Handle, DropUnusable, LoadEntry, SkipEntry, Load, Ack, Raise,
         Die, LoadCancel, RefuseCancel, FailCancel, Save, Broadcast, Elapse, LoseGroup, rowVars
<1> QED BY <1>1, <1>2 DEF Save, Delete

\* A delete is final: a save that started before it does not bring the video
\* back, and once those saves are over nobody moves its status again.
THEOREM DeletesAreFinal == Spec => DeleteIsFinal
<1> DEFINE Final(v) == /\ v \in deleted => v \in deleted'
                       /\ Buried(v) => Buried(v)' /\ status'[v] = status[v]
<1>1. Init => StatusInv
  BY StatusInit, VideoStatusAssumption
<1>2. StatusInv /\ [Next]_vars => StatusInv'
  BY StatusStep, VideoStatusAssumption
<1>3. ASSUME StatusInv, [Next]_vars, NEW v \in Video PROVE Final(v)
  <2>1. deleted \subseteq deleted'
    BY <1>3, OnlySavesMove
  <2>2. ASSUME Buried(v), NEW a \in Actor, step'[a] = "save" PROVE target'[a].video # v
    <3>1. ASSUME NEW w \in Video, NEW s \in L!Status, Load(a, w, s) PROVE target'[a].video # v
      <4>1. w \notin deleted /\ target'[a] = [video |-> w, status |-> s]
        BY <1>3, <3>1, PartsOfTheInvariant DEF Load, Movable, Parts, ActorTypes
      <4> QED BY <2>2, <4>1 DEF Buried
    <3>2. CASE step[a] = "save" /\ target'[a] = target[a]
      BY <2>2, <3>2 DEF Buried
    <3> QED BY <1>3, <2>2, <3>1, <3>2, SavesComeFromLoads, VideoStatusAssumption
  <2>3. ASSUME Buried(v) PROVE Buried(v)'
    BY <2>1, <2>2, <2>3 DEF Buried
  <2>4. ASSUME Buried(v) PROVE status'[v] = status[v]
    <3>1. ASSUME NEW a \in Actor, Save(a),
                 status' = [status EXCEPT ![target[a].video] = target[a].status]
          PROVE  status'[v] = status[v]
      <4>1. target[a].video # v
        BY <2>4, <3>1 DEF Save, Buried
      <4> QED BY <1>3, <3>1, <4>1 DEF StatusInv, TypeOK
    <3> QED BY <1>3, <3>1, OnlySavesMove
  <2> QED BY <2>1, <2>3, <2>4
<1>4. StatusInv /\ [Next]_vars => [\A v \in Video : Final(v)]_vars
  BY <1>3
<1> QED BY <1>1, <1>2, <1>4, PTL DEF Spec, DeleteIsFinal

-----------------------------------------------------------------------------
(* The status machine, with the copies that other saves have overtaken *)

\* A copy that is about to be saved was moved along an edge from a status the video
\* has had, and from the one it has unless another save has overtaken the copy.
Traced(a) ==
    step[a] = "save" =>
        /\ \E from \in reached[target[a].video] : target[a].status \in L!Allowed(from)
        /\ a \notin overtaken => target[a].status \in L!Allowed(status[target[a].video])

LifecycleInv ==
    /\ \A a \in Actor : Traced(a)
    /\ \A v \in Video : status[v] \in reached[v]

\* A save aside, no row changes and no copy is overtaken, and whoever still is about
\* to save stays overtaken.
LEMMA OvertakenChanges ==
    ASSUME ActorTypes, VideoStatusAssumption, [Next]_vars, ~ \E a \in Actor : Save(a)
    PROVE  /\ UNCHANGED <<status, reached>>
           /\ overtaken' \subseteq overtaken
           /\ \A a \in overtaken : a \in Actor /\ step'[a] = "save" => a \in overtaken'
<1>1. UNCHANGED <<status, reached>>
  BY DEF Next, vars, Publish, Start, StartFails, EnsureGroup, Poll, ClaimStale, RecreateGroup,
         ReadGroup, ReadWithoutGroup, Handle, DropUnusable, LoadEntry, SkipEntry, Load, Ack,
         Raise, Die, LoadCancel, RefuseCancel, FailCancel, Broadcast, Delete, Elapse,
         LoseGroup, rowVars
<1>2. \/ UNCHANGED overtaken
      \/ \E a \in Actor, s \in {"poll", "dead", "refused"} :
            Goto(a, s) /\ overtaken' = overtaken \ {a}
  BY DEF Next, vars, Publish, Start, StartFails, EnsureGroup, Poll, ClaimStale, RecreateGroup,
         ReadGroup, ReadWithoutGroup, Handle, DropUnusable, LoadEntry, SkipEntry, Load, Ack,
         Raise, Die, Abandon, LoadCancel, RefuseCancel, FailCancel, Broadcast, Delete, Elapse,
         LoseGroup, Actor
<1>3. ASSUME NEW a \in Actor, NEW s \in {"poll", "dead", "refused"}, Goto(a, s),
             overtaken' = overtaken \ {a}
      PROVE  \A b \in overtaken : step'[b] = "save" => b \in overtaken'
  BY <1>3 DEF Goto, ActorTypes
<1> QED BY <1>1, <1>2, <1>3

LEMMA TracedStep ==
    ASSUME StatusInv, VideoStatusAssumption, [Next]_vars, LifecycleInv,
           NEW a \in Actor, step'[a] = "save"
    PROVE  Traced(a)'
<1>1. ActorTypes /\ RowTypes /\ \A b \in Actor : InHand(b)
  BY PartsOfTheInvariant DEF Parts
<1>2. CASE step[a] = "save" /\ target'[a] = target[a]
  <2>1. target[a].video \in Video /\ Traced(a)
    BY <1>1, <1>2 DEF InHand, Copy, LifecycleInv
  <2>2. reached[target[a].video] \subseteq reached'[target[a].video]
    BY <2>1, HistoryGrows
  <2>3. ASSUME a \notin overtaken'
        PROVE  a \notin overtaken /\ status'[target[a].video] = status[target[a].video]
    <3>1. CASE ~ \E b \in Actor : Save(b)
      BY <1>1, <2>3, <3>1, OvertakenChanges
    <3>2. ASSUME NEW b \in Actor, Save(b)
          PROVE  a \notin overtaken /\ status'[target[a].video] = status[target[a].video]
      <4>1. a # b
        BY <1>1, <3>2 DEF Save, Goto, ActorTypes
      <4>2. a \notin overtaken /\ target[a].video # target[b].video
        BY <1>2, <2>3, <3>2, <4>1 DEF Save, Overtake
      <4> QED BY <1>1, <2>1, <3>2, <4>2 DEF Save, RowTypes
    <3> QED BY <3>1, <3>2
  <2> QED BY <1>2, <2>1, <2>2, <2>3 DEF Traced
<1>3. ASSUME NEW v \in Video, NEW s \in L!Status, Load(a, v, s) PROVE Traced(a)'
  <2>1. target'[a] = [video |-> v, status |-> s] /\ s \in L!Allowed(status[v])
        /\ UNCHANGED <<status, reached>>
    BY <1>1, <1>3 DEF Load, Movable, ActorTypes, rowVars
  <2>2. status[v] \in reached[v]
    BY DEF LifecycleInv
  <2> QED BY <2>1, <2>2 DEF Traced
<1> QED BY <1>2, <1>3, SavesComeFromLoads

LEMMA LifecycleStep ==
    ASSUME StatusInv, VideoStatusAssumption, [Next]_vars, LifecycleInv
    PROVE  LifecycleInv'
<1>1. ActorTypes /\ RowTypes /\ \A a \in Actor : InHand(a)
  BY PartsOfTheInvariant DEF Parts
<1>2. ASSUME NEW a \in Actor PROVE Traced(a)'
  BY TracedStep DEF Traced
<1>3. ASSUME NEW v \in Video PROVE status'[v] \in reached'[v]
  <2>1. CASE ~ \E a \in Actor : Save(a)
    BY <1>1, <2>1, OvertakenChanges DEF LifecycleInv
  <2>2. ASSUME NEW a \in Actor, Save(a) PROVE status'[v] \in reached'[v]
    BY <1>1, <2>2 DEF Save, RowTypes, LifecycleInv
  <2> QED BY <2>1, <2>2
<1> QED BY <1>2, <1>3 DEF LifecycleInv

\* A save moves its video along an edge, or the copy was overtaken.
LEMMA SaveMoves ==
    ASSUME StatusInv, LifecycleInv, NEW a \in Actor, Save(a)
    PROVE  \E v \in Video : L!Transition(v) \/ L!Overwrite(v)
<1> DEFINE v == target[a].video
           s == target[a].status
<1>1. step[a] = "save" /\ v \in Video /\ Traced(a)
  BY PartsOfTheInvariant DEF Save, Parts, InHand, Copy, LifecycleInv
<1>2. L!Move(v, s)
  <2>1. /\ status' = [status EXCEPT ![v] = s]
        /\ reached' = [reached EXCEPT ![v] = @ \cup {s}]
    BY DEF Save
  <2>2. Contested' \subseteq Contested \cup {v}
    BY DEF Save, Overtake, Contested
  <2> QED BY <2>1, <2>2 DEF L!Move
<1> HIDE DEF v, s
<1>3. CASE a \in overtaken
  <2>1. v \in Contested
    BY <1>3 DEF Contested, v
  <2>2. PICK from \in reached[v] : s \in L!Allowed(from)
    BY <1>1 DEF Traced, v, s
  <2>3. L!Overwrite(v)
    BY <1>2, <2>1, <2>2 DEF L!Overwrite
  <2> QED BY <1>1, <2>3
<1>4. CASE a \notin overtaken
  <2>1. s \in L!Allowed(status[v])
    BY <1>1, <1>4 DEF Traced, v, s
  <2>2. L!Transition(v)
    BY <1>2, <2>1 DEF L!Transition
  <2> QED BY <1>1, <2>2
<1> QED BY <1>3, <1>4

\* Any other step leaves the rows alone and contests no further video.
LEMMA OthersSettle ==
    ASSUME StatusInv, StatusInv', VideoStatusAssumption, [Next]_vars,
           ~ \E a \in Actor : Save(a)
    PROVE  L!Settle
<1>1. ActorTypes /\ OvertakenTypes
  BY PartsOfTheInvariant DEF Parts
<1>2. UNCHANGED <<status, reached>> /\ overtaken' \subseteq overtaken
  BY <1>1, OvertakenChanges
<1>3. ASSUME NEW a \in overtaken' PROVE target'[a].video \in Contested
  <2>1. a \in Actor /\ a \in overtaken /\ step[a] = "save"
    BY <1>1, <1>2 DEF OvertakenTypes
  <2>2. step'[a] = "save"
    BY DEF StatusInv, TypeOK
  <2>3. target'[a] = target[a]
    BY <2>1, <2>2, SavesComeFromLoads
  <2> QED BY <2>1, <2>3 DEF Contested
<1>4. Contested' \subseteq Contested
  BY <1>3 DEF Contested
<1> QED BY <1>2, <1>4 DEF L!Settle

\* videos.status follows the status machine through any interleaving of consumers and
\* cancel requests, crashes, takeovers, redeliveries and lost groups.  A save leaves the
\* machine only where another save of the video came between its read and its save,
\* and then moves along an edge from a status the video has had.
THEOREM StatusImplementsLifecycle == Spec => Lifecycle
<1>1. Init => StatusInv /\ LifecycleInv /\ L!Init
  <2>1. Init => LifecycleInv /\ L!Init
    BY DEF Init, LifecycleInv, Traced, Contested, Actor, L!Init
  <2> QED BY <2>1, StatusInit, VideoStatusAssumption
<1>2. StatusInv /\ LifecycleInv /\ [Next]_vars => StatusInv' /\ LifecycleInv'
  BY StatusStep, LifecycleStep, VideoStatusAssumption
<1>3. StatusInv /\ StatusInv' /\ LifecycleInv /\ [Next]_vars => L!Next
  BY SaveMoves, OthersSettle, VideoStatusAssumption DEF L!Next
<1> QED BY <1>1, <1>2, <1>3, PTL DEF Spec, Lifecycle, L!Spec

-----------------------------------------------------------------------------
(* One worker *)

Single == \A c, d \in Alive : c = d

LEMMA SingleStep ==
    ASSUME StatusInv, VideoStatusAssumption, [Next]_vars, Workers = 1, Single
    PROVE  Single'
<1>1. ActorTypes
  BY PartsOfTheInvariant DEF Parts
<1>2. ASSUME NEW c \in Consumer, Start(c) \/ StartFails(c) PROVE Single'
  <2>1. Alive \subseteq Consumer /\ IsFiniteSet(Consumer)
    BY DEF Alive, VideoStatusAssumption
  <2>2. IsFiniteSet(Alive)
    BY <2>1, FS_Subset
  <2>3. Cardinality(Alive) \in Nat /\ Cardinality(Alive) < 1
    BY <1>2, <2>2, FS_CardinalityType DEF Start, StartFails
  <2>4. Cardinality(Alive) = 0
    BY <2>3
  <2>5. Alive = {}
    BY <2>2, <2>4, FS_EmptySet
  <2>6. \A d \in Consumer : d # c => step'[d] = step[d]
    BY <1>1, <1>2 DEF Start, StartFails, Goto, ActorTypes, Actor
  <2>7. \A d \in Alive' : d = c
    BY <2>5, <2>6 DEF Alive
  <2> QED BY <2>7 DEF Single
<1>4. CASE ~ \E c \in Consumer : Start(c) \/ StartFails(c)
  <2>1. ASSUME NEW d \in Consumer, step[d] \in {"off", "dead"} PROVE step'[d] = step[d]
    <3>1. d \in Actor /\ d \notin Canceller
      BY DEF Actor, VideoStatusAssumption
    <3>2. ASSUME NEW c \in Consumer, Poll(c) \/ Handle(c) \/ Raise(c) \/ Die(c)
          PROVE  step'[d] = step[d]
      <4>1. (\E s : Goto(c, s)) \/ step' = step
        BY <3>2 DEF Poll, ClaimStale, RecreateGroup, ReadGroup, ReadWithoutGroup, Deliver,
               Handle, DropUnusable, LoadEntry, SkipEntry, Load, Ack, Raise, Die, Abandon
      <4>2. step[c] \notin {"off", "dead"} \/ step' = step
        BY <3>2 DEF Poll, ClaimStale, RecreateGroup, ReadGroup, ReadWithoutGroup, Deliver,
               Handle, DropUnusable, LoadEntry, SkipEntry, Ack, Raise, Die, Alive, InEntry
      <4> QED BY <1>1, <2>1, <3>1, <4>1, <4>2 DEF Goto, ActorTypes
    <3>3. ASSUME NEW r \in Canceller,
                 \/ \E v \in Video : LoadCancel(r, v) \/ RefuseCancel(r, v)
                 \/ FailCancel(r)
          PROVE  step'[d] = step[d]
      <4>1. \E s : Goto(r, s)
        BY <3>3 DEF LoadCancel, Load, RefuseCancel, FailCancel
      <4> QED BY <1>1, <3>1, <4>1 DEF Goto, ActorTypes
    <3>4. ASSUME NEW a \in Actor, Save(a) \/ Broadcast(a) PROVE step'[d] = step[d]
      <4>1. (\E s : Goto(a, s)) /\ step[a] \in {"save", "feed"}
        BY <3>4 DEF Save, Broadcast
      <4> QED BY <1>1, <2>1, <3>1, <4>1 DEF Goto, ActorTypes
    <3>5. CASE UNCHANGED vars \/ Publish \/ Elapse \/ LoseGroup \/ \E v \in Video : Delete(v)
      BY <3>5 DEF vars, actorVars, Publish, Elapse, LoseGroup, Delete
    <3>6. CASE \E c \in Consumer :
                  Start(c) \/ StartFails(c) \/ Poll(c) \/ Handle(c) \/ Raise(c) \/ Die(c)
      BY <1>4, <3>2, <3>6
    <3>7. CASE \E r \in Canceller : \/ \E v \in Video : LoadCancel(r, v) \/ RefuseCancel(r, v)
                                    \/ FailCancel(r)
      BY <3>3, <3>7
    <3>8. CASE \E a \in Actor : Save(a) \/ Broadcast(a)
      BY <3>4, <3>8
    <3> QED BY <3>5, <3>6, <3>7, <3>8 DEF Next
  <2>2. Alive' \subseteq Alive
    BY <2>1 DEF Alive
  <2> QED BY <2>2 DEF Single
<1> QED BY <1>2, <1>4

\* It takes a second worker or a cancel request to overtake a copy: one worker on its
\* own never leaves the status machine, through crashes, takeovers, redeliveries and
\* lost groups.
THEOREM OneWorkerIsNotOvertaken ==
    ASSUME Workers = 1, Canceller = {}
    PROVE  Spec => [](Contested = {})
<1> DEFINE Inv == StatusInv /\ Single /\ overtaken = {}
<1>1. Init => Inv
  <2>1. Init => Single /\ overtaken = {}
    BY DEF Init, Single, Alive, Actor
  <2> QED BY <2>1, StatusInit, VideoStatusAssumption
<1>2. Inv /\ [Next]_vars => Inv'
  <2> SUFFICES ASSUME Inv, [Next]_vars PROVE overtaken' = {}
    BY StatusStep, SingleStep, VideoStatusAssumption
  <2>1. ActorTypes /\ Actor = Consumer
    BY PartsOfTheInvariant DEF Parts, Actor
  <2>2. ASSUME NEW a \in Actor, Save(a) PROVE overtaken' = {}
    <3>1. \A b \in Actor : step[b] = "save" => b = a
      BY <2>1, <2>2 DEF Single, Alive, Save
    <3> QED BY <2>2, <3>1 DEF Save, Overtake
  <2> QED BY <2>1, <2>2, OvertakenChanges, VideoStatusAssumption
<1>3. Inv => Contested = {}
  BY DEF Contested
<1> QED BY <1>1, <1>2, <1>3, PTL DEF Spec

-----------------------------------------------------------------------------
(* The status that a stream's entries add up to *)

\* The status of v after entry n of s, if f has its status after the one before.
After(s, f, v, n) ==
    IF n = 0 THEN L!Pending
    ELSE LET e == s[n] IN
         IF /\ e.video = v /\ e.type # "unusable"
            /\ MarkedAs[e.type] \in L!Allowed(f[n - 1])
           THEN MarkedAs[e.type] ELSE f[n - 1]

OutcomeOf(s, v) == CHOOSE f : f = [n \in 0..Len(s) |-> After(s, f, v, n)]

LEMMA AfterIsLocal ==
    ASSUME NEW s, NEW t, NEW f, NEW g, NEW v, NEW n \in Nat,
           n # 0 => s[n] = t[n] /\ f[n - 1] = g[n - 1]
    PROVE  After(s, f, v, n) = After(t, g, v, n)
BY DEF After

\* The recursion is well founded: a function with these values exists.
LEMMA OutcomeDef ==
    ASSUME NEW s \in Seq(Entry), NEW v
    PROVE  OutcomeOf(s, v) = [n \in 0..Len(s) |-> After(s, OutcomeOf(s, v), v, n)]
<1> DEFINE Defined(n) == \E f : f = [i \in 0..n |-> After(s, f, v, i)]
           T == {n \in Nat : ~Defined(n)}
<1>1. ASSUME NEW m \in T, \A n \in T : m <= n PROVE FALSE
  <2>1. m \in Nat /\ ~Defined(m)
    OBVIOUS
  <2>2. CASE m = 0
    <3> DEFINE f == [i \in 0..0 |-> L!Pending]
    <3>1. f = [i \in 0..0 |-> After(s, f, v, i)]
      BY DEF After
    <3> HIDE DEF f
    <3> QED BY <2>1, <2>2, <3>1
  <2>3. CASE m # 0
    <3>1. m - 1 \in Nat /\ m - 1 \notin T
      BY <1>1, <2>1, <2>3
    <3>2. PICK f : f = [i \in 0..(m - 1) |-> After(s, f, v, i)]
      BY <3>1
    <3> DEFINE g == [i \in 0..m |-> IF i = m THEN After(s, f, v, m) ELSE f[i]]
    <3>3. ASSUME NEW i \in 0..m PROVE g[i] = After(s, g, v, i)
      <4>1. i \in Nat
        BY <2>1
      <4>2. g[i] = After(s, f, v, i)
        <5>1. CASE i = m
          BY <5>1
        <5>2. CASE i # m
          <6>1. i \in 0..(m - 1)
            BY <2>1, <5>2
          <6>2. f[i] = After(s, f, v, i)
            BY <3>2, <6>1
          <6> QED BY <5>2, <6>2
        <5> QED BY <5>1, <5>2
      <4>3. i # 0 => g[i - 1] = f[i - 1]
        <5>1. i # 0 => i - 1 \in 0..m /\ i - 1 # m
          BY <2>1
        <5> QED BY <5>1
      <4> HIDE DEF g
      <4> QED BY <4>1, <4>2, <4>3, AfterIsLocal
    <3>4. g = [i \in 0..m |-> After(s, g, v, i)]
      <4>1. DOMAIN g = 0..m /\ g = [i \in 0..m |-> g[i]]
        OBVIOUS
      <4> HIDE DEF g
      <4> QED BY <3>3, <4>1
    <3> HIDE DEF g
    <3> QED BY <2>1, <3>4
  <2> QED BY <2>2, <2>3
<1>2. T \subseteq Nat
  OBVIOUS
<1> HIDE DEF T
<1>3. T = {}
  BY <1>1, <1>2, Minimum
<1>4. Defined(Len(s))
  <2>1. Len(s) \in Nat
    OBVIOUS
  <2> QED BY <1>3, <2>1 DEF T
<1> QED BY <1>4 DEF OutcomeOf

LEMMA OutcomeFacts ==
    ASSUME NEW s \in Seq(Entry), NEW v
    PROVE  /\ OutcomeOf(s, v)[0] = L!Pending
           /\ \A n \in 1..Len(s) :
                 OutcomeOf(s, v)[n] =
                    IF /\ s[n].video = v /\ s[n].type # "unusable"
                       /\ MarkedAs[s[n].type] \in L!Allowed(OutcomeOf(s, v)[n - 1])
                      THEN MarkedAs[s[n].type] ELSE OutcomeOf(s, v)[n - 1]
<1> DEFINE f == OutcomeOf(s, v)
<1>1. f = [n \in 0..Len(s) |-> After(s, f, v, n)] /\ Len(s) \in Nat
  BY OutcomeDef
<1> HIDE DEF f
<1>2. \A n \in 0..Len(s) : f[n] = After(s, f, v, n)
  BY <1>1
<1>3. 0 \in 0..Len(s) /\ \A n \in 1..Len(s) : n \in 0..Len(s) /\ n # 0
  BY <1>1
<1> QED BY <1>2, <1>3 DEF After, f

\* Entries that are appended later do not change what the earlier ones add up to.
LEMMA OutcomeGrows ==
    ASSUME NEW s \in Seq(Entry), NEW t \in Seq(Entry), NEW v,
           Len(s) <= Len(t), \A n \in 1..Len(s) : t[n] = s[n]
    PROVE  \A n \in 0..Len(s) : OutcomeOf(t, v)[n] = OutcomeOf(s, v)[n]
<1> DEFINE f == OutcomeOf(s, v)
           g == OutcomeOf(t, v)
           T == {n \in 0..Len(s) : g[n] # f[n]}
<1>1. Len(s) \in Nat /\ Len(t) \in Nat
  OBVIOUS
<1>2. /\ \A n \in 0..Len(s) : f[n] = After(s, f, v, n)
      /\ \A n \in 0..Len(t) : g[n] = After(t, g, v, n)
  <2>1. f = [n \in 0..Len(s) |-> After(s, f, v, n)]
    BY OutcomeDef
  <2>2. g = [n \in 0..Len(t) |-> After(t, g, v, n)]
    BY OutcomeDef
  <2> HIDE DEF f, g
  <2> QED BY <2>1, <2>2
<1> HIDE DEF f, g
<1>3. ASSUME NEW m \in T, \A n \in T : m <= n PROVE FALSE
  <2>1. m \in Nat /\ m \in 0..Len(s) /\ m \in 0..Len(t) /\ g[m] # f[m]
    BY <1>1
  <2>2. m # 0 => m - 1 \in 0..Len(s) /\ m - 1 \notin T
    BY <1>1, <1>3, <2>1
  <2>3. m # 0 => m \in 1..Len(s) /\ t[m] = s[m] /\ g[m - 1] = f[m - 1]
    BY <1>1, <2>1, <2>2
  <2>4. After(t, g, v, m) = After(s, f, v, m)
    BY <2>1, <2>3, AfterIsLocal
  <2> QED BY <1>2, <2>1, <2>4
<1>4. T \subseteq Nat
  BY <1>1
<1> HIDE DEF T
<1>5. T = {}
  BY <1>3, <1>4, Minimum
<1> QED BY <1>5 DEF T, f, g

LEMMA OutcomeOfTheStream == \A v : Outcome(v) = OutcomeOf(stream, v)
BY DEF Outcome, OutcomeOf, After

-----------------------------------------------------------------------------
(* One worker, undisturbed: the stream is applied in its order *)

\* One worker, no fault so far and no cancel request yet.
Calm == Workers = 1 /\ faults = 0 /\ \A r \in Canceller : step[r] = "off"

\* How many entries of the stream the worker has applied.
Applied(c) == IF batch[c] = {} THEN read
              ELSE IF step[c] \in {"feed", "ack"} THEN Current(c)
              ELSE Current(c) - 1

\* The rows are what the first n entries lead to.
Reaches(n) == \A v \in Video \ deleted : status[v] = OutcomeOf(stream, v)[n]

\* What is pending is the worker's batch, the last of the entries read.
Holds(c) ==
    /\ group /\ step[c] \in {"poll"} \cup InEntry
    /\ Pending = batch[c] /\ batch[c] \subseteq 1..read
    /\ \A e \in batch[c], f \in 1..read : e < f => f \in batch[c]

\* A copy to save is what the entry asks for, one step ahead of the row.
Ahead(c) ==
    step[c] = "save" =>
        /\ EventOf(c).type # "unusable"
        /\ target[c] = [video |-> EventOf(c).video, status |-> MarkedAs[EventOf(c).type]]
        /\ target[c].status \in L!Allowed(status[target[c].video])

AtWork(c) == Holds(c) /\ Ahead(c) /\ Reaches(Applied(c))

\* Nothing is read before the worker starts, and it stays at work from then on.
Orderly ==
    /\ \A c \in Consumer : step[c] # "dead" /\ (step[c] \notin InEntry => batch[c] = {})
    /\ Alive = {} => ~group /\ read = 0 /\ Pending = {} /\ Reaches(0)
    /\ \A c \in Alive : AtWork(c)

OrderInv == Workers = 1 => Single /\ (Calm => Orderly)

\* The calm is never restored once it is over, so nothing but the worker's own
\* steps, new entries, deletes and the passing of time happen in it.
LEMMA CalmSteps ==
    ASSUME StatusInv, VideoStatusAssumption, [Next]_vars, Calm'
    PROVE  /\ Calm
           /\ \/ UNCHANGED vars \/ Publish \/ Elapse \/ (\E v \in Video : Delete(v))
              \/ \E c \in Consumer : Start(c) \/ Poll(c) \/ Handle(c) \/ Save(c) \/ Broadcast(c)
<1>1. ActorTypes /\ faults \in Nat /\ faults' = 0 /\ Workers = 1
  BY PartsOfTheInvariant DEF Parts, HistoryTypes, Calm, VideoStatusAssumption
<1>2. ~Fault
  BY <1>1 DEF Fault
<1>3. \A r \in Canceller : step'[r] = "off" /\ r \in Actor
  BY DEF Calm, Actor
<1>4. ASSUME NEW r \in Canceller, NEW v \in Video, LoadCancel(r, v) \/ RefuseCancel(r, v)
      PROVE  FALSE
  <2>1. Goto(r, "save") \/ Goto(r, "refused")
    BY <1>4 DEF LoadCancel, Load, RefuseCancel
  <2> QED BY <1>1, <1>3, <2>1 DEF Goto, ActorTypes
<1>5. ASSUME NEW r \in Canceller, Save(r) \/ Broadcast(r) PROVE FALSE
  <2>1. r \notin Consumer
    BY DEF VideoStatusAssumption
  <2>2. Goto(r, "feed") \/ Goto(r, "cancelled")
    BY <1>5, <2>1 DEF Save, Broadcast
  <2> QED BY <1>1, <1>3, <2>2 DEF Goto, ActorTypes
<1>6. \/ UNCHANGED vars \/ Publish \/ Elapse \/ (\E v \in Video : Delete(v))
      \/ \E c \in Consumer : Start(c) \/ Poll(c) \/ Handle(c) \/ Save(c) \/ Broadcast(c)
  BY <1>2, <1>4, <1>5 DEF Next, StartFails, Raise, Die, FailCancel, LoseGroup, Actor
<1>7. faults' = faults
  BY <1>6 DEF vars, Publish, Elapse, Delete, Start, Poll, ClaimStale, RecreateGroup, ReadGroup,
      ReadWithoutGroup, Handle, DropUnusable, LoadEntry, SkipEntry, Load, Ack, Save, Broadcast
<1>8. ASSUME NEW r \in Canceller PROVE step[r] = "off"
  <2>1. CASE step' = step
    BY <1>3, <2>1
  <2>2. ASSUME NEW c \in Consumer, NEW s, Goto(c, s) PROVE step[r] = "off"
    <3>1. c # r
      BY DEF VideoStatusAssumption
    <3> QED BY <1>1, <1>3, <2>2, <3>1 DEF Goto, ActorTypes
  <2>3. step' = step \/ \E c \in Consumer, s \in {"poll"} \cup InEntry : Goto(c, s)
    BY <1>6 DEF vars, Publish, Elapse, Delete, actorVars, Start, Poll, ClaimStale,
        RecreateGroup, ReadGroup, ReadWithoutGroup, Deliver, Handle, DropUnusable, LoadEntry,
        SkipEntry, Load, Ack, Save, Broadcast, InEntry
  <2> QED BY <2>1, <2>2, <2>3
<1> QED BY <1>1, <1>6, <1>7, <1>8 DEF Calm

\* A worker that takes a step stays the only one, so it is its own state that matters.
LEMMA WorkerStep ==
    ASSUME StatusInv, VideoStatusAssumption, Single, Orderly,
           NEW c \in Alive, NEW s \in {"poll"} \cup InEntry, Goto(c, s),
           \A d \in Consumer \ {c} : batch'[d] = batch[d],
           s = "poll" => batch'[c] = {},
           AtWork(c)'
    PROVE  Orderly'
<1>1. ActorTypes /\ c \in Consumer
  BY PartsOfTheInvariant DEF Parts, Alive
<1>2. step'[c] = s /\ \A d \in Consumer \ {c} : step'[d] = step[d]
  BY <1>1 DEF Goto, ActorTypes, Actor
<1>3. s \notin {"off", "dead"}
  BY DEF InEntry
<1>4. Alive' = {c}
  <2>1. \A d \in Consumer \ {c} : d \notin Alive
    BY DEF Single
  <2> QED BY <1>1, <1>2, <1>3, <2>1 DEF Alive
<1>5. \A d \in Consumer : step'[d] # "dead" /\ (step'[d] \notin InEntry => batch'[d] = {})
  BY <1>1, <1>2, <1>3 DEF Orderly
<1> QED BY <1>4, <1>5 DEF Orderly

LEMMA LeastIsChosen ==
    ASSUME NEW es, es \subseteq Nat, NEW m \in es, \A f \in es : m <= f
    PROVE  (CHOOSE e \in es : \A f \in es : e <= f) = m
<1>1. \A e \in es : (\A f \in es : e <= f) => e = m
  <2> TAKE e \in es
  <2>1. e \in Nat /\ m \in Nat
    OBVIOUS
  <2> QED BY <2>1
<1> QED BY <1>1

\* The worker's batch is what is left of the entries read, from the current one on.
LEMMA HeldFacts ==
    ASSUME StatusInv, NEW c \in Consumer, Holds(c), step[c] \in InEntry
    PROVE  /\ Current(c) \in batch[c] /\ Current(c) \in 1..read /\ Current(c) \in Nat
           /\ \A e \in 1..read : Current(c) <= e <=> e \in batch[c]
           /\ read \in Nat /\ 1..read \subseteq 1..Len(stream) /\ Len(stream) \in Nat
           /\ Applied(c) = IF step[c] \in {"feed", "ack"} THEN Current(c) ELSE Current(c) - 1
<1>1. Current(c) \in batch[c] /\ batch[c] \subseteq 1..read
  BY CurrentFacts DEF Holds
<1>2. read \in Nat /\ Len(stream) \in Nat /\ read <= Len(stream)
  BY DEF StatusInv, TypeOK
<1>3. 1..read \subseteq Nat /\ 1..read \subseteq 1..Len(stream)
  BY <1>2
<1>4. PICK m \in batch[c] : \A n \in batch[c] : m <= n
  <2>1. batch[c] \subseteq Nat /\ batch[c] # {}
    BY <1>1, <1>3
  <2> QED BY <2>1, Minimum
<1>5. \A n \in batch[c] : Current(c) <= n
  BY <1>4 DEF Current
<1>6. ASSUME NEW e \in 1..read, Current(c) <= e PROVE e \in batch[c]
  <2>1. CASE Current(c) = e
    BY <1>1, <2>1
  <2>2. CASE Current(c) # e
    <3>1. Current(c) \in Nat /\ e \in Nat
      BY <1>1, <1>3
    <3>2. Current(c) < e
      BY <1>6, <2>2, <3>1
    <3> QED BY <1>1, <3>2 DEF Holds
  <2> QED BY <2>1, <2>2
<1>7. Applied(c) = IF step[c] \in {"feed", "ack"} THEN Current(c) ELSE Current(c) - 1
  BY <1>1 DEF Applied
<1> QED BY <1>1, <1>2, <1>3, <1>5, <1>6, <1>7

LEMMA AppliedType ==
    ASSUME StatusInv, NEW c \in Consumer, Holds(c), step[c] \notin InEntry => batch[c] = {}
    PROVE  Applied(c) \in 0..Len(stream)
<1>1. CASE step[c] \in InEntry
  <2>1. /\ Current(c) \in Nat /\ Current(c) \in 1..Len(stream) /\ Len(stream) \in Nat
        /\ Applied(c) = IF step[c] \in {"feed", "ack"} THEN Current(c) ELSE Current(c) - 1
    BY <1>1, HeldFacts
  <2>2. Current(c) \in 0..Len(stream) /\ Current(c) - 1 \in 0..Len(stream)
    BY <2>1
  <2> QED BY <2>1, <2>2
<1>2. CASE step[c] \notin InEntry
  BY <1>2 DEF Applied, StatusInv, TypeOK
<1> QED BY <1>1, <1>2

\* A consumer's move inside an entry that leaves the batch and the stream alone.
LEMMA InsideEntry ==
    ASSUME StatusInv, VideoStatusAssumption, Single, Orderly,
           NEW c \in Alive, step[c] \in InEntry, NEW s \in InEntry, Goto(c, s),
           UNCHANGED <<streamVars, batch, deleted>>,
           Ahead(c)',
           Reaches(IF s \in {"feed", "ack"} THEN Current(c) ELSE Current(c) - 1)'
    PROVE  Orderly'
<1>1. ActorTypes /\ c \in Consumer /\ c \in Actor /\ AtWork(c)
  BY PartsOfTheInvariant DEF Parts, Alive, Actor, Orderly
<1>2. step'[c] = s /\ batch[c] # {}
  BY <1>1, HeldFacts DEF Goto, ActorTypes, AtWork
<1>3. Current(c)' = Current(c) /\ Pending' = Pending
  BY DEF Current, Pending, streamVars
<1>4. Applied(c)' = IF s \in {"feed", "ack"} THEN Current(c) ELSE Current(c) - 1
  BY <1>2, <1>3 DEF Applied
<1>5. Reaches(Applied(c))'
  BY <1>3, <1>4 DEF Reaches
<1>6. Holds(c)'
  BY <1>1, <1>2, <1>3 DEF AtWork, Holds, streamVars
<1>7. s # "poll"
  BY DEF InEntry
<1> QED BY <1>5, <1>6, <1>7, WorkerStep DEF AtWork

\* An entry that moves no video that is not deleted.
LEMMA NothingToApply ==
    ASSUME StatusInv, NEW n \in 1..Len(stream), Reaches(n - 1),
           UNCHANGED <<stream, status, deleted>>,
           \/ stream[n].type = "unusable"
           \/ ~Movable(stream[n].video, MarkedAs[stream[n].type])
    PROVE  Reaches(n)'
<1>1. stream \in Seq(Entry)
  BY DEF StatusInv, TypeOK
<1> SUFFICES ASSUME NEW v \in Video \ deleted
             PROVE  status[v] = OutcomeOf(stream, v)[n]
  BY DEF Reaches
<1>2. status[v] = OutcomeOf(stream, v)[n - 1]
  BY DEF Reaches
<1> QED BY <1>1, <1>2, OutcomeFacts DEF Movable

\* A save of what the entry asks for.
LEMMA EntryIsApplied ==
    ASSUME StatusInv, NEW n \in 1..Len(stream), Reaches(n - 1),
           stream[n].type # "unusable",
           MarkedAs[stream[n].type] \in L!Allowed(status[stream[n].video]),
           status' = [status EXCEPT ![stream[n].video] = MarkedAs[stream[n].type]],
           UNCHANGED <<stream, deleted>>
    PROVE  Reaches(n)'
<1>1. stream \in Seq(Entry) /\ status \in [Video -> L!Status]
  BY DEF StatusInv, TypeOK
<1> SUFFICES ASSUME NEW v \in Video \ deleted
             PROVE  status'[v] = OutcomeOf(stream, v)[n]
  BY DEF Reaches
<1>2. status[v] = OutcomeOf(stream, v)[n - 1]
  BY DEF Reaches
<1>3. OutcomeOf(stream, v)[n] =
         IF /\ stream[n].video = v /\ stream[n].type # "unusable"
            /\ MarkedAs[stream[n].type] \in L!Allowed(OutcomeOf(stream, v)[n - 1])
           THEN MarkedAs[stream[n].type] ELSE OutcomeOf(stream, v)[n - 1]
  BY <1>1, OutcomeFacts
<1>4. CASE stream[n].video = v
  BY <1>1, <1>2, <1>3, <1>4
<1>5. CASE stream[n].video # v
  BY <1>1, <1>2, <1>3, <1>5
<1> QED BY <1>4, <1>5

LEMMA HandleOrderly ==
    ASSUME StatusInv, VideoStatusAssumption, Single, Orderly, NEW c \in Alive,
           DropUnusable(c) \/ LoadEntry(c) \/ SkipEntry(c) \/ Save(c) \/ Broadcast(c)
    PROVE  Orderly'
<1>1. /\ ActorTypes /\ c \in Consumer /\ c \in Actor /\ AtWork(c)
  BY PartsOfTheInvariant DEF Parts, Alive, Actor, Orderly
<1>2. step[c] \in InEntry
  BY DEF DropUnusable, LoadEntry, SkipEntry, Save, Broadcast, InEntry
<1>3. PICK n \in 1..Len(stream) : n = Current(c)
  BY <1>1, <1>2, CurrentFacts
<1>4. EventOf(c) = stream[n] /\ stream[n] \in Entry
  BY <1>1, <1>2, <1>3, CurrentFacts DEF EventOf
<1>5. Reaches(IF step[c] \in {"feed", "ack"} THEN n ELSE n - 1)
  BY <1>1, <1>2, <1>3, HeldFacts DEF AtWork
<1>6. ASSUME NEW s \in {"feed", "ack"}, Goto(c, s), UNCHANGED <<streamVars, batch, deleted>>,
             Reaches(n)'
      PROVE  Orderly'
  <2>1. Ahead(c)'
    BY <1>1, <1>6 DEF Ahead, Goto, ActorTypes
  <2>2. s \in InEntry
    BY DEF InEntry
  <2>3. Reaches(IF s \in {"feed", "ack"} THEN Current(c) ELSE Current(c) - 1)'
    BY <1>3, <1>6 DEF Reaches, Current
  <2> QED BY <1>2, <1>6, <2>1, <2>2, <2>3, InsideEntry
<1>7. CASE DropUnusable(c)
  <2>1. step[c] = "load" /\ stream[n].type = "unusable"
    BY <1>4, <1>7 DEF DropUnusable, Unusable
  <2>2. Goto(c, "ack") /\ UNCHANGED <<streamVars, batch, deleted, status, stream>>
    BY <1>7 DEF DropUnusable, rowVars, streamVars
  <2>3. Reaches(n)'
    BY <1>5, <2>1, <2>2, NothingToApply
  <2> QED BY <1>6, <2>2, <2>3
<1>8. CASE SkipEntry(c)
  <2>1. step[c] = "load" /\ ~Movable(stream[n].video, MarkedAs[stream[n].type])
    BY <1>4, <1>8 DEF SkipEntry
  <2>2. Goto(c, "ack") /\ UNCHANGED <<streamVars, batch, deleted, status, stream>>
    BY <1>8 DEF SkipEntry, rowVars, streamVars
  <2>3. Reaches(n)'
    BY <1>5, <2>1, <2>2, NothingToApply
  <2> QED BY <1>6, <2>2, <2>3
<1>9. CASE LoadEntry(c)
  <2>1. /\ step[c] = "load" /\ stream[n].type # "unusable"
        /\ MarkedAs[stream[n].type] \in L!Allowed(status[stream[n].video])
        /\ target' = [target EXCEPT ![c] = [video |-> stream[n].video,
                                            status |-> MarkedAs[stream[n].type]]]
    BY <1>4, <1>9 DEF LoadEntry, Load, Unusable, Movable
  <2>2. Goto(c, "save") /\ UNCHANGED <<streamVars, batch, deleted, status, stream>>
    BY <1>9 DEF LoadEntry, Load, rowVars, streamVars
  <2>3. EventOf(c)' = stream[n]
    BY <1>3, <2>2 DEF EventOf, Current
  <2>4. target'[c] = [video |-> stream[n].video, status |-> MarkedAs[stream[n].type]]
    BY <1>1, <2>1 DEF ActorTypes
  <2>5. Ahead(c)'
    BY <2>1, <2>2, <2>3, <2>4 DEF Ahead
  <2>6. Reaches(Current(c) - 1)'
    <3>1. Reaches(n - 1)
      BY <1>5, <2>1
    <3> QED BY <1>3, <2>2, <3>1 DEF Reaches, Current
  <2>7. "save" \in InEntry /\ "save" \notin {"feed", "ack"}
    BY DEF InEntry
  <2>8. Reaches(IF "save" \in {"feed", "ack"} THEN Current(c) ELSE Current(c) - 1)'
    BY <2>6, <2>7
  <2> QED BY <1>2, <2>2, <2>5, <2>7, <2>8, InsideEntry
<1>10. CASE Save(c)
  <2>1. step[c] = "save" /\ Goto(c, "feed") /\ UNCHANGED <<streamVars, batch, deleted, stream>>
    BY <1>10 DEF Save, streamVars
  <2>2. /\ stream[n].type # "unusable"
        /\ target[c] = [video |-> stream[n].video, status |-> MarkedAs[stream[n].type]]
        /\ target[c].status \in L!Allowed(status[target[c].video])
    BY <1>1, <1>4, <2>1 DEF AtWork, Ahead
  <2>3. status' = [status EXCEPT ![stream[n].video] = MarkedAs[stream[n].type]]
    BY <1>10, <2>2 DEF Save
  <2>4. MarkedAs[stream[n].type] \in L!Allowed(status[stream[n].video])
    BY <2>2
  <2>5. Reaches(n - 1)
    BY <1>5, <2>1
  <2>6. Reaches(n)'
    BY <2>1, <2>2, <2>3, <2>4, <2>5, EntryIsApplied
  <2> QED BY <1>6, <2>1, <2>6
<1>11. CASE Broadcast(c)
  <2>1. step[c] = "feed" /\ Goto(c, "ack")
        /\ UNCHANGED <<streamVars, batch, deleted, status, stream>>
    BY <1>1, <1>11 DEF Broadcast, rowVars, streamVars
  <2>2. Reaches(n)'
    BY <1>5, <2>1 DEF Reaches
  <2> QED BY <1>6, <2>1, <2>2
<1> QED BY <1>7, <1>8, <1>9, <1>10, <1>11

\* The next entry of the batch follows the one acked; after the last one the
\* worker has applied all it has read.
LEMMA AckOrderly ==
    ASSUME StatusInv, VideoStatusAssumption, Single, Orderly, NEW c \in Alive, Ack(c)
    PROVE  Orderly'
<1>1. StreamTypes /\ ActorTypes /\ c \in Consumer /\ c \in Actor /\ AtWork(c)
  BY PartsOfTheInvariant DEF Parts, Alive, Actor, Orderly
<1>2. step[c] = "ack" /\ step[c] \in InEntry /\ Holds(c)
  BY <1>1 DEF Ack, InEntry, AtWork
<1>3. PICK n \in 1..Len(stream) : n = Current(c)
  BY <1>1, <1>2, CurrentFacts
<1>4. /\ n \in batch[c] /\ n \in 1..read /\ n \in Nat
      /\ \A e \in 1..read : n <= e <=> e \in batch[c]
      /\ read \in Nat /\ 1..read \subseteq 1..Len(stream) /\ Applied(c) = n
  BY <1>3, <1>1, <1>2, HeldFacts
<1>5. Reaches(n) /\ batch[c] \subseteq 1..read /\ group /\ Pending = batch[c]
  BY <1>1, <1>2, <1>4 DEF AtWork, Holds
<1>6. /\ owner' = [owner EXCEPT ![n] = None] /\ batch' = [batch EXCEPT ![c] = @ \ {n}]
      /\ Goto(c, IF batch'[c] = {} THEN "poll" ELSE "load")
      /\ UNCHANGED <<stream, group, read, status, deleted>>
  BY <1>3 DEF Ack, rowVars
<1>7. Pending' = Pending \ {n}
  BY <1>1, <1>4, <1>6, AckPending
<1>8. batch'[c] = batch[c] \ {n} /\ \A d \in Consumer \ {c} : batch'[d] = batch[d]
  BY <1>1, <1>6 DEF ActorTypes
<1>9. Reaches(n)'
  BY <1>5, <1>6 DEF Reaches
<1>10. CASE batch'[c] = {}
  <2>1. n = read
    <3>1. read \in 1..read /\ n <= read
      BY <1>4
    <3> QED BY <1>4, <1>8, <1>10, <3>1
  <2>2. Goto(c, "poll") /\ step'[c] = "poll"
    BY <1>1, <1>6, <1>10 DEF Goto, ActorTypes
  <2>3. Applied(c)' = n
    BY <1>6, <1>10, <2>1 DEF Applied
  <2>4. AtWork(c)'
    <3>1. Holds(c)'
      BY <1>5, <1>6, <1>7, <1>8, <1>10, <2>2 DEF Holds
    <3>2. Reaches(Applied(c))'
      BY <1>9, <2>3 DEF Reaches
    <3> QED BY <2>2, <3>1, <3>2 DEF AtWork, Ahead
  <2> QED BY <1>8, <1>10, <2>2, <2>4, WorkerStep
<1>11. CASE batch'[c] # {}
  <2>1. Goto(c, "load") /\ step'[c] = "load" /\ "load" \in InEntry
    BY <1>1, <1>6, <1>11 DEF Goto, ActorTypes, InEntry
  <2>2. \A e \in batch'[c] : e \in Nat /\ e \in 1..read /\ n + 1 <= e
    <3> TAKE e \in batch'[c]
    <3>1. e \in 1..read /\ n <= e /\ e # n
      BY <1>4, <1>5, <1>8
    <3> QED BY <1>4, <3>1
  <2>3. n + 1 \in batch'[c]
    <3>1. PICK e \in batch'[c] : TRUE
      BY <1>11
    <3>2. n + 1 \in 1..read /\ n <= n + 1 /\ n + 1 # n
      BY <1>4, <2>2, <3>1
    <3> QED BY <1>4, <1>8, <3>2
  <2>4. Current(c)' = n + 1
    <3>1. batch'[c] \subseteq Nat
      BY <2>2
    <3>2. (CHOOSE e \in batch'[c] : \A f \in batch'[c] : e <= f) = n + 1
      BY <2>2, <2>3, <3>1, LeastIsChosen
    <3> QED BY <3>2 DEF Current
  <2>5. Applied(c)' = n
    <3>1. Applied(c)' = Current(c)' - 1
      BY <1>11, <2>1 DEF Applied
    <3> QED BY <1>4, <2>4, <3>1
  <2>6. Holds(c)'
    <3>1. batch'[c] \subseteq 1..read'
      BY <1>6, <2>2
    <3>2. \A e \in batch'[c], f \in 1..read' : e < f => f \in batch'[c]
      <4> TAKE e \in batch'[c], f \in 1..read'
      <4>1. f \in 1..read /\ f \in Nat /\ n + 1 <= e /\ e \in Nat
        BY <1>4, <1>6, <2>2
      <4>2. e < f => n <= f /\ f # n
        BY <1>4, <4>1
      <4> QED BY <1>4, <1>8, <4>1, <4>2
    <3> QED BY <1>5, <1>6, <1>7, <1>8, <2>1, <3>1, <3>2 DEF Holds
  <2>7. Reaches(Applied(c))'
    BY <1>9, <2>5 DEF Reaches
  <2>8. AtWork(c)'
    BY <2>1, <2>6, <2>7 DEF AtWork, Ahead
  <2>9. "load" # "poll"
    OBVIOUS
  <2> QED BY <1>8, <2>1, <2>8, <2>9, WorkerStep
<1> QED BY <1>10, <1>11

LEMMA StartOrderly ==
    ASSUME StatusInv, StatusInv', VideoStatusAssumption, Workers = 1, Orderly,
           NEW c \in Consumer, Start(c)
    PROVE  Orderly'
<1>1. StreamTypes /\ ActorTypes /\ c \in Actor
  BY PartsOfTheInvariant DEF Parts, Actor
<1>2. Alive = {}
  <2>1. Alive \subseteq Consumer /\ IsFiniteSet(Consumer)
    BY DEF Alive, VideoStatusAssumption
  <2>2. IsFiniteSet(Alive)
    BY <2>1, FS_Subset
  <2>3. Cardinality(Alive) \in Nat /\ Cardinality(Alive) < 1
    BY <2>2, FS_CardinalityType DEF Start
  <2>4. Cardinality(Alive) = 0
    BY <2>3
  <2> QED BY <2>2, <2>4, FS_EmptySet
<1>3. ~group /\ read = 0 /\ Reaches(0)
  BY <1>2 DEF Orderly
<1>4. /\ step[c] = "off" /\ Goto(c, "poll")
      /\ group' = TRUE /\ read' = 0 /\ owner' = NoPending
      /\ UNCHANGED <<stream, status, deleted, batch>>
  BY <1>3 DEF Start, EnsureGroup, rowVars
<1>5. Pending' = {}
  BY <1>1, <1>4, NothingPending
<1>6. step'[c] = "poll" /\ \A d \in Consumer \ {c} : step'[d] = step[d]
  BY <1>1, <1>4 DEF Goto, ActorTypes, Actor
<1>7. batch'[c] = {}
  BY <1>4 DEF Orderly, InEntry
<1>8. Alive' = {c}
  BY <1>2, <1>6 DEF Alive
<1>9. Reaches(Applied(c))'
  BY <1>3, <1>4, <1>7 DEF Reaches, Applied
<1>10. AtWork(c)'
  <2>1. Holds(c)'
    BY <1>4, <1>5, <1>6, <1>7 DEF Holds
  <2> QED BY <1>6, <1>9, <2>1 DEF AtWork, Ahead
<1>11. \A d \in Consumer : step'[d] # "dead" /\ (step'[d] \notin InEntry => batch'[d] = {})
  BY <1>4, <1>6, <1>7 DEF Orderly
<1> QED BY <1>8, <1>10, <1>11 DEF Orderly

\* Nothing is adopted in the calm, and new entries are read in order.
LEMMA PollOrderly ==
    ASSUME StatusInv, StatusInv', VideoStatusAssumption, Single, Orderly,
           NEW c \in Alive, Poll(c)
    PROVE  Orderly'
<1>1. StreamTypes /\ ActorTypes /\ c \in Consumer /\ c \in Actor /\ AtWork(c)
  BY PartsOfTheInvariant DEF Parts, Alive, Actor, Orderly
<1>2. /\ step[c] = "poll" /\ batch[c] = {} /\ group /\ Pending = {} /\ Reaches(read)
  <2>1. step[c] = "poll"
    BY DEF Poll, ClaimStale, RecreateGroup, ReadGroup, ReadWithoutGroup
  <2>2. batch[c] = {}
    BY <1>1, <2>1 DEF Orderly, InEntry
  <2> QED BY <1>1, <2>1, <2>2 DEF AtWork, Holds, Applied
<1>3. ASSUME NEW es, es \subseteq 1..Len(stream), Deliver(c, es),
             UNCHANGED <<stream, group, status, deleted>>
      PROVE  /\ Pending' = es /\ batch'[c] = es
             /\ \A d \in Consumer \ {c} : batch'[d] = batch[d]
             /\ group'
             /\ es = {} => Goto(c, "poll") /\ step'[c] = "poll"
             /\ es # {} => Goto(c, "load") /\ step'[c] = "load"
  <2>1. Pending' = Pending \cup es
    BY <1>1, <1>3, DeliverPending DEF Deliver
  <2>2. Goto(c, IF es = {} THEN "poll" ELSE "load") /\ batch' = [batch EXCEPT ![c] = es]
    BY <1>3 DEF Deliver
  <2>3. step'[c] = IF es = {} THEN "poll" ELSE "load"
    BY <1>1, <2>2 DEF Goto, ActorTypes
  <2>4. batch'[c] = es /\ \A d \in Consumer \ {c} : batch'[d] = batch[d]
    BY <1>1, <2>2 DEF ActorTypes
  <2>5. (es = {} => Goto(c, "poll")) /\ (es # {} => Goto(c, "load"))
    BY <2>2
  <2> QED BY <1>2, <1>3, <2>1, <2>3, <2>4, <2>5
<1>4. ASSUME Deliver(c, {}), UNCHANGED <<stream, group, read, status, deleted>>
      PROVE  Orderly'
  <2>1. /\ Pending' = {} /\ batch'[c] = {} /\ group'
        /\ \A d \in Consumer \ {c} : batch'[d] = batch[d]
        /\ Goto(c, "poll") /\ step'[c] = "poll"
    BY <1>3, <1>4
  <2>2. Reaches(Applied(c))'
    BY <1>2, <1>4, <2>1 DEF Reaches, Applied
  <2>3. Holds(c)'
    BY <2>1 DEF Holds
  <2> QED BY <2>1, <2>2, <2>3, WorkerStep DEF AtWork, Ahead
<1>5. CASE ClaimStale(c)
  <2>1. stale = {}
    BY <1>1, <1>2 DEF StreamTypes
  <2>2. Oldest(Adoptable(c)) = {}
    BY <2>1 DEF Oldest, Adoptable
  <2>3. Deliver(c, {}) /\ UNCHANGED <<stream, group, read, status, deleted>>
    BY <1>5, <2>2 DEF ClaimStale, rowVars
  <2> QED BY <1>4, <2>3
<1>6. CASE ReadGroup(c)
  <2> DEFINE es == {e \in read + 1 .. Len(stream) : e <= read + Batch}
  <2>1. Deliver(c, es) /\ read' = read + Cardinality(es)
        /\ UNCHANGED <<stream, group, status, deleted>>
    BY <1>6 DEF ReadGroup, rowVars
  <2>2. /\ read + Cardinality(es) \in 0..Len(stream)
        /\ \A e : e \in 1..(read + Cardinality(es)) <=> e \in 1..read \/ e \in es
        /\ es \subseteq 1..Len(stream)
    BY NextEntries
  <2>3. read \in Nat /\ Len(stream) \in Nat /\ Batch \in Nat \ {0}
    BY <1>1 DEF StreamTypes, VideoStatusAssumption
  <2>4. \A e \in es : e \in Nat /\ read + 1 <= e /\ e <= Len(stream)
    BY <2>3
  <2>5. es # {} => read + 1 \in es
    <3>1. ASSUME NEW e \in es PROVE read + 1 \in es
      BY <2>3, <2>4
    <3> QED BY <3>1
  <2> HIDE DEF es
  <2>6. PICK xs : xs = es
    OBVIOUS
  <2>7. CASE xs = {}
    <3>1. read' = read
      BY <2>1, <2>3, <2>6, <2>7, FS_EmptySet
    <3> QED BY <1>4, <2>1, <2>6, <2>7, <3>1
  <2>8. CASE xs # {}
    <3>1. /\ Pending' = xs /\ batch'[c] = xs /\ group'
          /\ \A d \in Consumer \ {c} : batch'[d] = batch[d]
          /\ Goto(c, "load") /\ step'[c] = "load"
      BY <1>3, <2>1, <2>2, <2>6, <2>8
    <3>2. xs \subseteq Nat /\ read + 1 \in xs /\ \A e \in xs : read + 1 <= e
      BY <2>4, <2>5, <2>6, <2>8
    <3>3. PICK n : n = read
      OBVIOUS
    <3>4. Current(c)' = n + 1
      <4>1. (CHOOSE e \in xs : \A f \in xs : e <= f) = n + 1
        BY <3>2, <3>3, LeastIsChosen
      <4> QED BY <3>1, <4>1 DEF Current
    <3>5. Applied(c)' = n
      <4>1. Applied(c)' = Current(c)' - 1
        BY <2>8, <3>1 DEF Applied
      <4> QED BY <2>3, <3>3, <3>4, <4>1
    <3>6. Reaches(Applied(c))'
      BY <1>2, <2>1, <3>3, <3>5 DEF Reaches
    <3>7. Holds(c)'
      <4>1. xs \subseteq 1..read'
        BY <2>1, <2>2, <2>6
      <4>2. \A e \in xs, f \in 1..read' : e < f => f \in xs
        <5> TAKE e \in xs, f \in 1..read'
        <5>1. f \in 1..read \/ f \in xs
          BY <2>1, <2>2, <2>6
        <5>2. f \in 1..read => f \in Nat /\ f <= read
          BY <2>3
        <5>3. e \in Nat /\ read + 1 <= e
          BY <3>2
        <5> QED BY <2>3, <5>1, <5>2, <5>3
      <4> QED BY <3>1, <4>1, <4>2 DEF Holds, InEntry
    <3>8. AtWork(c)'
      BY <3>1, <3>6, <3>7 DEF AtWork, Ahead
    <3>9. "load" \in InEntry /\ "load" # "poll"
      BY DEF InEntry
    <3> QED BY <3>1, <3>8, <3>9, WorkerStep
  <2> QED BY <2>7, <2>8
<1> QED BY <1>2, <1>5, <1>6 DEF Poll, RecreateGroup, ReadWithoutGroup

\* Entries may be appended and videos deleted meanwhile.
LEMMA OthersOrderly ==
    ASSUME StatusInv, StatusInv', VideoStatusAssumption, Orderly,
           UNCHANGED vars \/ Publish \/ Elapse \/ \E v \in Video : Delete(v)
    PROVE  Orderly'
<1>1. StreamTypes /\ StreamTypes' /\ deleted \subseteq Video
  <2>1. StreamTypes /\ deleted \subseteq Video
    BY PartsOfTheInvariant DEF Parts, RowTypes
  <2>2. StreamTypes'
    BY DEF StatusInv, TypeOK, StreamTypes
  <2> QED BY <2>1, <2>2
<1>2. /\ UNCHANGED <<group, read, status, step, batch, target>>
      /\ deleted \subseteq deleted'
  BY DEF vars, Publish, Elapse, Delete, rowVars, actorVars, streamVars
<1>3. /\ Pending' = Pending
      /\ Len(stream) \in Nat /\ Len(stream) <= Len(stream')
      /\ \A n \in 1..Len(stream) : stream'[n] = stream[n]
  <2>1. CASE Publish
    BY <1>1, <2>1, PublishFacts
  <2>2. CASE UNCHANGED <<stream, owner>>
    BY <1>1, <2>2 DEF Pending, StreamTypes
  <2> QED BY <2>1, <2>2 DEF vars, Elapse, Delete, streamVars
<1>4. ASSUME NEW n \in 0..Len(stream), Reaches(n) PROVE Reaches(n)'
  <2>1. stream \in Seq(Entry) /\ stream' \in Seq(Entry)
    BY <1>1 DEF StreamTypes
  <2>2. \A v : OutcomeOf(stream', v)[n] = OutcomeOf(stream, v)[n]
    BY <1>3, <2>1, OutcomeGrows
  <2> QED BY <1>2, <1>4, <2>2 DEF Reaches
<1>5. Alive' = Alive
  BY <1>2 DEF Alive
<1>6. ASSUME NEW c \in Alive PROVE AtWork(c)'
  <2>1. AtWork(c) /\ c \in Consumer
    BY DEF Orderly, Alive
  <2>2. PICK n \in 0..Len(stream) : n = Applied(c)
    <3>1. step[c] \notin InEntry => batch[c] = {}
      BY <2>1 DEF Orderly
    <3> QED BY <2>1, <3>1, AppliedType DEF AtWork
  <2>3. Applied(c)' = n
    BY <1>2, <2>2 DEF Applied, Current
  <2>4. Reaches(Applied(c))'
    <3>1. Reaches(n)'
      BY <1>4, <2>1, <2>2 DEF AtWork
    <3> QED BY <2>3, <3>1 DEF Reaches
  <2>5. Holds(c)'
    BY <1>2, <1>3, <2>1 DEF AtWork, Holds
  <2>6. Ahead(c)'
    <3>1. CASE step[c] = "save"
      <4>1. step[c] \in InEntry
        BY <3>1 DEF InEntry
      <4>2. Current(c) \in 1..Len(stream)
        BY <2>1, <4>1, CurrentFacts
      <4>3. EventOf(c)' = EventOf(c)
        BY <1>2, <1>3, <4>2 DEF EventOf, Current
      <4> QED BY <1>2, <2>1, <4>3 DEF AtWork, Ahead
    <3>2. CASE step[c] # "save"
      BY <1>2, <3>2 DEF Ahead
    <3> QED BY <3>1, <3>2
  <2> QED BY <2>4, <2>5, <2>6 DEF AtWork
<1>7. Alive = {} => Reaches(0)'
  BY <1>3, <1>4 DEF Orderly
<1> QED BY <1>2, <1>3, <1>5, <1>6, <1>7 DEF Orderly

LEMMA OrderStep ==
    ASSUME StatusInv, StatusInv', VideoStatusAssumption, OrderInv, [Next]_vars
    PROVE  OrderInv'
<1> SUFFICES ASSUME Workers = 1 PROVE Single' /\ (Calm' => Orderly')
  BY DEF OrderInv
<1>1. Single'
  BY SingleStep DEF OrderInv
<1>2. ASSUME Calm' PROVE Orderly'
  <2>1. Orderly /\ Single
    BY <1>2, CalmSteps DEF OrderInv
  <2>2. \/ UNCHANGED vars \/ Publish \/ Elapse \/ (\E v \in Video : Delete(v))
        \/ \E c \in Consumer : Start(c) \/ Poll(c) \/ Handle(c) \/ Save(c) \/ Broadcast(c)
    BY <1>2, CalmSteps
  <2>3. ASSUME NEW c \in Consumer, Poll(c) \/ Handle(c) \/ Save(c) \/ Broadcast(c)
        PROVE  Orderly'
    <3>1. step[c] \in {"poll"} \cup InEntry
      BY <2>3 DEF Poll, ClaimStale, RecreateGroup, ReadGroup, ReadWithoutGroup, Handle,
          DropUnusable, LoadEntry, SkipEntry, Ack, Save, Broadcast, InEntry
    <3>2. c \in Alive
      BY <3>1 DEF Alive, InEntry
    <3> QED BY <2>1, <2>3, <3>2, PollOrderly, HandleOrderly, AckOrderly DEF Handle
  <2> QED BY <2>1, <2>2, <2>3, StartOrderly, OthersOrderly
<1> QED BY <1>1, <1>2

\* One worker that meets no fault applies the stream in its order: once nothing is
\* pending, each status is what the entries read so far lead to, one after the
\* other, whatever is appended and deleted meanwhile.
THEOREM StreamIsAppliedInOrder == Spec => []AppliedInOrder
<1>1. Init => StatusInv /\ OrderInv
  <2> SUFFICES ASSUME Init PROVE OrderInv
    BY StatusInit, VideoStatusAssumption
  <2>1. Alive = {} /\ Pending = {}
    BY DEF Init, Alive, Actor, Pending
  <2>2. <<>> \in Seq(Entry)
    OBVIOUS
  <2>3. Reaches(0)
    BY <2>2, OutcomeFacts DEF Init, Reaches
  <2>4. \A c \in Consumer : step[c] = "off" /\ batch[c] = {}
    BY DEF Init, Actor
  <2> QED BY <2>1, <2>3, <2>4 DEF Init, OrderInv, Single, Orderly
<1>2. StatusInv /\ OrderInv /\ [Next]_vars => StatusInv' /\ OrderInv'
  BY StatusStep, OrderStep, VideoStatusAssumption
<1>3. StatusInv /\ OrderInv => AppliedInOrder
  <2> SUFFICES ASSUME StatusInv, OrderInv, Workers = 1, faults = 0, Pending = {},
                      \A r \in Canceller : step[r] = "off", NEW v \in Video \ deleted
               PROVE  status[v] = OutcomeOf(stream, v)[read]
    BY OutcomeOfTheStream DEF AppliedInOrder
  <2>1. Orderly
    BY DEF OrderInv, Calm
  <2>2. CASE Alive = {}
    BY <2>1, <2>2 DEF Orderly, Reaches
  <2>3. ASSUME NEW c \in Alive PROVE Reaches(read)
    <3>1. AtWork(c) /\ batch[c] = {}
      BY <2>1 DEF Orderly, AtWork, Holds
    <3> QED BY <3>1 DEF AtWork, Applied
  <2> QED BY <2>2, <2>3 DEF Reaches
<1> QED BY <1>1, <1>2, <1>3, PTL DEF Spec

=============================================================================
