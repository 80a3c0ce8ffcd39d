------------------------- MODULE TokenLifecycleProofs -------------------------
(* Proofs about TokenLifecycle, for every value of its constants. *)
EXTENDS TokenLifecycle, FiniteSetTheorems, TLAPS

-----------------------------------------------------------------------------
(* Types *)

\* The steps at which a request reads the pair of its token.
Presenting == {"lookup", "check", "user", "left", "rotate", "revoke"}

\* TypeOK is not inductive: only an issued token is put on the denylist.
TypeInv ==
    /\ TypeOK
    /\ \A r \in Request : step[r] \in Presenting => token[r] \in Issued

\* The conjuncts of TypeOK but the count of pairs.
Types ==
    /\ clock \in 0..MaxClock
    /\ pairs \in Seq([user : User \cup {None}, at : 0..MaxClock, parent : Token \cup {None}])
    /\ denylist \in [Token -> Nat]
    /\ active \subseteq User
    /\ step \in [Request -> {"new"} \cup InRequest \cup Answered]
    /\ token \in [Request -> Token \cup {None}]
    /\ subject \in [Request -> User \cup {None}]
    /\ ttl \in [Request -> Int]
    /\ revoked \subseteq Issued
    /\ late \in [Request -> SUBSET {"token", "user"}]
    /\ faults \in 0..MaxFaults

\* The requests that were answered with a pair.
Winners == {r \in Request : step[r] = "issued"}

\* At most one pair per request.
Counted == Len(pairs) <= Cardinality(Winners)

LEMMA TypeOKSplit == TypeOK <=> Types /\ Counted
BY DEF TypeOK, Types, Counted, Winners

\* The life of an issued token is a matter of numbers.
LEMMA ExpiryType ==
    ASSUME Types, NEW t \in Issued
    PROVE  /\ t \in Token /\ t.pair \in 1..Len(pairs)
           /\ pairs[t.pair].at \in Nat /\ UserOf(t) \in User \cup {None}
           /\ Lifetime(t) \in Int /\ ExpiresAt(t) \in Int
           /\ SecondsLeft(t) \in Int
<1>1. t \in Token /\ t.pair \in 1..Len(pairs)
  BY DEF Types, Issued, Token
<1>2. pairs[t.pair] \in [user : User \cup {None}, at : 0..MaxClock, parent : Token \cup {None}]
  <2> DEFINE P == [user : User \cup {None}, at : 0..MaxClock, parent : Token \cup {None}]
  <2>1. pairs \in Seq(P)
    BY DEF Types
  <2>2. ASSUME pairs \in Seq(P) PROVE pairs[t.pair] \in P
    <3> HIDE DEF P
    <3> QED BY <1>1, <2>2
  <2> QED BY <2>1, <2>2
<1>3. pairs[t.pair].at \in Nat /\ UserOf(t) \in User \cup {None}
  BY <1>2, TokenLifecycleAssumption DEF UserOf
<1>4. Lifetime(t) \in Int
  <2>1. Ticks * AccessTtl \in Int /\ Ticks * RefreshTtl \in Int
    BY TokenLifecycleAssumption
  <2> QED BY <2>1 DEF Lifetime
<1>5. ExpiresAt(t) \in Int
  BY <1>3, <1>4, TokenLifecycleAssumption DEF ExpiresAt
<1>6. SecondsLeft(t) \in Int
  BY <1>5, TokenLifecycleAssumption DEF SecondsLeft, Seconds, Types
<1> QED BY <1>1, <1>3, <1>4, <1>5, <1>6

LEMMA TypeInit == Init => TypeInv
<1> SUFFICES ASSUME Init PROVE TypeInv
  OBVIOUS
<1>1. Types
  BY TokenLifecycleAssumption DEF Init, Types, Issued
<1>2. Winners = {} /\ Len(pairs) = 0
  BY DEF Init, Winners
<1>3. Counted
  BY <1>2, FS_EmptySet DEF Counted
<1>4. \A r \in Request : step[r] \notin Presenting
  BY DEF Init, Presenting
<1> QED BY <1>1, <1>3, <1>4, TypeOKSplit DEF TypeInv

\* What an arrival leaves of a request.
LEMMA ArriveTypes ==
    ASSUME Types, NEW r \in Request, NEW t \in Issued \cup {None}, NEW u \in User \cup {None},
           NEW s \in InRequest \cup Answered, Arrive(r, t, u, s)
    PROVE  /\ step' \in [Request -> {"new"} \cup InRequest \cup Answered]
           /\ token' \in [Request -> Token \cup {None}]
           /\ subject' \in [Request -> User \cup {None}]
           /\ late' \in [Request -> SUBSET {"token", "user"}]
           /\ \A q \in Request \ {r} : step'[q] = step[q] /\ token'[q] = token[q]
           /\ step'[r] = s /\ token'[r] = t
<1>1. Withdrawn(t, u) \in SUBSET {"token", "user"}
  BY DEF Withdrawn
<1> QED BY <1>1 DEF Arrive, Types, Issued, Goto

Pair == [user : User \cup {None}, at : 0..MaxClock, parent : Token \cup {None}]

\* Appending a pair keeps the earlier ones.
LEMMA AppendPair ==
    ASSUME pairs \in Seq(Pair), NEW e \in Pair, pairs' = Append(pairs, e)
    PROVE  /\ pairs' \in Seq(Pair) /\ Len(pairs') = Len(pairs) + 1
           /\ \A i \in 1..Len(pairs) : pairs'[i] = pairs[i]
           /\ pairs'[Len(pairs')] = e
           /\ Issued \subseteq Issued'
<1>1. /\ pairs' \in Seq(Pair) /\ Len(pairs') = Len(pairs) + 1
      /\ \A i \in 1..Len(pairs) : pairs'[i] = pairs[i]
      /\ pairs'[Len(pairs')] = e
  <2> HIDE DEF Pair
  <2> QED OBVIOUS
<1>2. Len(pairs) \in Nat
  OBVIOUS
<1> QED BY <1>1, <1>2 DEF Issued, Token

\* Every step keeps the variables in their types.
LEMMA TypesStep ==
    ASSUME TypeInv, [Next]_vars
    PROVE  Types'
<1>t. Types
  BY TypeOKSplit DEF TypeInv
<1>p. pairs \in Seq(Pair)
  BY <1>t DEF Types, Pair
<1>c. clock \in 0..MaxClock
  BY <1>t DEF Types
<1>1. ASSUME NEW r \in Request, NEW u \in User, Login(r, u) PROVE Types'
  <2>1. \E s \in InRequest \cup Answered : Arrive(r, None, u, s)
    BY <1>1 DEF Login, InRequest, Answered
  <2> QED BY <1>1, <1>t, <2>1, ArriveTypes DEF Login, Types, Issued
<1>2. ASSUME NEW r \in Request, IssueTokens(r) PROVE Types'
  <2>1. Arrive(r, None, None, "issued") /\ "issued" \in Answered
    BY <1>2 DEF IssueTokens, Answered
  <2>2. [user |-> None, at |-> clock, parent |-> None] \in Pair
    BY <1>c DEF Pair
  <2>3. pairs' \in Seq(Pair) /\ Issued \subseteq Issued'
    BY <1>2, <1>p, <2>2, AppendPair DEF IssueTokens
  <2> QED BY <1>2, <1>t, <2>1, <2>3, ArriveTypes DEF IssueTokens, Types, Pair
<1>3. ASSUME NEW r \in Request, NEW t \in Issued, Refresh(r, t) PROVE Types'
  <2>1. \E s \in InRequest \cup Answered : Arrive(r, t, UserOf(t), s)
    BY <1>3 DEF Refresh, InRequest, Answered
  <2>2. UserOf(t) \in User \cup {None}
    BY <1>t, ExpiryType
  <2> QED BY <1>3, <1>t, <2>1, <2>2, ArriveTypes DEF Refresh, Types, Issued
<1>4. ASSUME NEW r \in Request, NEW t \in Issued, Authenticate(r, t) PROVE Types'
  <2>1. \E s \in InRequest \cup Answered : Arrive(r, t, UserOf(t), s)
    BY <1>4 DEF Authenticate, InRequest, Answered
  <2>2. UserOf(t) \in User \cup {None}
    BY <1>t, ExpiryType
  <2> QED BY <1>4, <1>t, <2>1, <2>2, ArriveTypes DEF Authenticate, Types, Issued
<1>5. ASSUME NEW r \in Request, NEW t \in Issued, Revoke(r, t) PROVE Types'
  <2>1. \E s \in InRequest \cup Answered : Arrive(r, t, UserOf(t), s)
    BY <1>5 DEF Revoke, InRequest, Answered
  <2>2. UserOf(t) \in User \cup {None} /\ SecondsLeft(t) \in Int
    BY <1>t, ExpiryType
  <2> QED BY <1>5, <1>t, <2>1, <2>2, ArriveTypes DEF Revoke, Types, Issued
<1>6. ASSUME NEW r \in Request, Lookup(r) PROVE Types'
  BY <1>6, <1>t DEF Lookup, Types, Issued, Goto, InRequest, Answered
<1>7. ASSUME NEW r \in Request, CheckDenylist(r) PROVE Types'
  BY <1>7, <1>t DEF CheckDenylist, Types, Issued, Goto, InRequest, Answered
<1>8. ASSUME NEW r \in Request, CheckActive(r) PROVE Types'
  BY <1>8, <1>t DEF CheckActive, Types, Issued, Goto, InRequest, Answered
<1>9. ASSUME NEW r \in Request, MeasureLife(r) PROVE Types'
  <2>1. SecondsLeft(token[r]) \in Int
    BY <1>9, <1>t, ExpiryType DEF MeasureLife, TypeInv, Presenting
  <2> QED BY <1>9, <1>t, <2>1 DEF MeasureLife, Types, Issued, Goto, InRequest, Answered
<1>10. ASSUME NEW r \in Request, AddToDenylist(r) PROVE Types'
  <2>1. token[r] \in Issued
    BY <1>10 DEF AddToDenylist, TypeInv, Presenting
  <2>2. ttl[r] \in Int
    BY <1>t DEF Types
  <2>3. ttl[r] > 0 => clock + ttl[r] * Ticks \in Nat
    BY <2>2, <1>c, TokenLifecycleAssumption
  <2>4. denylist' \in [Token -> Nat]
    BY <1>10, <1>t, <2>3 DEF AddToDenylist, Types
  <2> QED BY <1>10, <1>t, <2>1, <2>4 DEF AddToDenylist, Types, Issued, Goto, InRequest, Answered
<1>11. ASSUME NEW r \in Request, IssuePair(r) PROVE Types'
  <2>1. [user |-> subject[r], at |-> clock, parent |-> token[r]] \in Pair
    BY <1>c, <1>t DEF Pair, Types
  <2>2. pairs' \in Seq(Pair) /\ Issued \subseteq Issued'
    BY <1>11, <1>p, <2>1, AppendPair DEF IssuePair
  <2> QED BY <1>11, <1>t, <2>2 DEF IssuePair, Types, Pair, Goto, InRequest, Answered
<1>12. ASSUME NEW r \in Request, Fail(r) PROVE Types'
  BY <1>12, <1>t, TokenLifecycleAssumption
  DEF Fail, Refuse, Types, Issued, Goto, InRequest, Answered
<1>13. ASSUME NEW u \in User, Deactivate(u) PROVE Types'
  BY <1>13, <1>t DEF Deactivate, requestVars, Types, Issued
<1>14. CASE Tick
  BY <1>14, <1>t, TokenLifecycleAssumption DEF Tick, requestVars, Types, Issued
<1>15. CASE UNCHANGED vars
  BY <1>15, <1>t DEF vars, Types, Issued
<1> QED
  BY <1>1, <1>2, <1>3, <1>4, <1>5, <1>6, <1>7, <1>8, <1>9, <1>10, <1>11, <1>12, <1>13, <1>14, <1>15
  DEF Next, RefreshStep

\* The steps that issue a pair, and the request that gets it.
Issues(r) == IssueTokens(r) \/ IssuePair(r)

\* No other step adds a pair, and an answer is never taken back.
LEMMA OtherSteps ==
    ASSUME Types, [Next]_vars, \A r \in Request : ~Issues(r)
    PROVE  pairs' = pairs /\ Winners \subseteq Winners'
<1>1. ASSUME NEW r \in Request, NEW u \in User, Login(r, u)
      PROVE  pairs' = pairs /\ Winners \subseteq Winners'
  BY <1>1 DEF Login, Arrive, Goto, Types, Winners
<1>2. ASSUME NEW r \in Request, NEW t \in Issued, Refresh(r, t)
      PROVE  pairs' = pairs /\ Winners \subseteq Winners'
  BY <1>2 DEF Refresh, Arrive, Goto, Types, Winners
<1>3. ASSUME NEW r \in Request, NEW t \in Issued, Authenticate(r, t)
      PROVE  pairs' = pairs /\ Winners \subseteq Winners'
  BY <1>3 DEF Authenticate, Arrive, Goto, Types, Winners
<1>4. ASSUME NEW r \in Request, NEW t \in Issued, Revoke(r, t)
      PROVE  pairs' = pairs /\ Winners \subseteq Winners'
  BY <1>4 DEF Revoke, Arrive, Goto, Types, Winners
<1>5. ASSUME NEW r \in Request, Lookup(r) PROVE pairs' = pairs /\ Winners \subseteq Winners'
  BY <1>5 DEF Lookup, Goto, Types, Winners
<1>6. ASSUME NEW r \in Request, RefreshStep(r)
      PROVE  pairs' = pairs /\ Winners \subseteq Winners'
  BY <1>6 DEF RefreshStep, CheckDenylist, CheckActive, MeasureLife, Goto, Types, Winners
<1>7. ASSUME NEW r \in Request, AddToDenylist(r)
      PROVE  pairs' = pairs /\ Winners \subseteq Winners'
  BY <1>7 DEF AddToDenylist, Goto, Types, Winners
<1>8. ASSUME NEW r \in Request, Fail(r) PROVE pairs' = pairs /\ Winners \subseteq Winners'
  BY <1>8 DEF Fail, Refuse, Goto, Types, Winners
<1>9. ASSUME NEW u \in User, Deactivate(u) PROVE pairs' = pairs /\ Winners \subseteq Winners'
  BY <1>9 DEF Deactivate, requestVars, Winners
<1>10. CASE Tick
  BY <1>10 DEF Tick, requestVars, Winners
<1>11. CASE UNCHANGED vars
  BY <1>11 DEF vars, Winners
<1> QED
  BY <1>1, <1>2, <1>3, <1>4, <1>5, <1>6, <1>7, <1>8, <1>9, <1>10, <1>11 DEF Next, Issues

LEMMA CountedStep ==
    ASSUME TypeInv, [Next]_vars
    PROVE  Counted'
<1>t. Types /\ Counted
  BY TypeOKSplit DEF TypeInv
<1>f. IsFiniteSet(Winners) /\ IsFiniteSet(Winners')
  BY TokenLifecycleAssumption, FS_Subset DEF Winners
<1>n. Cardinality(Winners) \in Nat /\ Cardinality(Winners') \in Nat /\ Len(pairs) \in Nat
  BY <1>f, <1>t, FS_CardinalityType DEF Types
<1>1. CASE \A r \in Request : ~Issues(r)
  <2>1. pairs' = pairs /\ Winners \subseteq Winners'
    BY <1>1, <1>t, OtherSteps
  <2>2. Cardinality(Winners) <= Cardinality(Winners')
    BY <2>1, <1>f, FS_Subset
  <2> QED BY <2>1, <2>2, <1>t, <1>n DEF Counted
<1>2. ASSUME NEW r \in Request, Issues(r) PROVE Counted'
  <2>1. r \notin Winners /\ Winners \cup {r} \subseteq Winners'
    BY <1>2, <1>t DEF Issues, IssueTokens, IssuePair, Arrive, Goto, Types, Winners
  <2>2. \E e : pairs' = Append(pairs, e)
    BY <1>2 DEF Issues, IssueTokens, IssuePair
  <2>3. Len(pairs') = Len(pairs) + 1
    BY <2>2, <1>t DEF Types
  <2>4. IsFiniteSet(Winners \cup {r}) /\ Cardinality(Winners \cup {r}) = Cardinality(Winners) + 1
    BY <2>1, <1>f, FS_AddElement
  <2>5. Cardinality(Winners \cup {r}) <= Cardinality(Winners')
    BY <2>1, <1>f, FS_Subset
  <2> QED BY <2>3, <2>4, <2>5, <1>t, <1>n DEF Counted
<1> QED BY <1>1, <1>2

\* Time does not go back and pairs are not changed, so a token keeps its life.
LEMMA TokensKeep ==
    ASSUME TypeInv, [Next]_vars
    PROVE  /\ clock \in Int /\ clock' \in Int /\ clock <= clock'
           /\ Issued \subseteq Issued'
           /\ \A t \in Issued : UserOf(t)' = UserOf(t) /\ ExpiresAt(t)' = ExpiresAt(t)
           /\ active' \subseteq active /\ revoked \subseteq revoked'
<1>t. Types
  BY TypeOKSplit DEF TypeInv
<1>1. pairs' = pairs \/ \E e \in Pair : pairs' = Append(pairs, e)
  <2>1. CASE \A r \in Request : ~Issues(r)
    BY <2>1, <1>t, OtherSteps
  <2>2. ASSUME NEW r \in Request, IssueTokens(r) PROVE \E e \in Pair : pairs' = Append(pairs, e)
    BY <2>2, <1>t DEF IssueTokens, Types, Pair
  <2>3. ASSUME NEW r \in Request, IssuePair(r) PROVE \E e \in Pair : pairs' = Append(pairs, e)
    <3>1. [user |-> subject[r], at |-> clock, parent |-> token[r]] \in Pair
      BY <1>t DEF Types, Pair
    <3> QED BY <2>3, <3>1 DEF IssuePair
  <2> QED BY <2>1, <2>2, <2>3 DEF Issues
<1>p. pairs \in Seq(Pair)
  BY <1>t DEF Types, Pair
<1>2. Issued \subseteq Issued' /\ \A i \in 1..Len(pairs) : pairs'[i] = pairs[i]
  BY <1>1, <1>p, AppendPair DEF Issued
<1>3. \A t \in Issued : UserOf(t)' = UserOf(t) /\ ExpiresAt(t)' = ExpiresAt(t)
  BY <1>2, <1>t, ExpiryType DEF UserOf, ExpiresAt, Lifetime
<1>4. clock' \in {clock, clock + 1} /\ active' \subseteq active /\ revoked \subseteq revoked'
  <2>1. ASSUME NEW r \in Request,
               \/ \E u \in User : Login(r, u)
               \/ IssueTokens(r)
               \/ \E t \in Issued : Refresh(r, t) \/ Authenticate(r, t) \/ Revoke(r, t)
        PROVE  clock' = clock /\ active' = active /\ revoked' = revoked
    BY <2>1 DEF Login, IssueTokens, Refresh, Authenticate, Revoke
  <2>2. ASSUME NEW r \in Request, Lookup(r) \/ RefreshStep(r) \/ IssuePair(r) \/ Fail(r)
        PROVE  clock' = clock /\ active' = active /\ revoked' = revoked
    BY <2>2
    DEF Lookup, RefreshStep, CheckDenylist, CheckActive, MeasureLife, IssuePair, Fail
  <2>3. ASSUME NEW r \in Request, AddToDenylist(r)
        PROVE  clock' = clock /\ active' = active /\ revoked \subseteq revoked'
    BY <2>3 DEF AddToDenylist
  <2>4. CASE Tick \/ UNCHANGED vars \/ \E u \in User : Deactivate(u)
    BY <2>4 DEF Tick, Deactivate, vars
  <2> QED BY <2>1, <2>2, <2>3, <2>4 DEF Next
<1>5. clock \in Int
  BY <1>t DEF Types
<1> QED BY <1>2, <1>3, <1>4, <1>5

\* A request that comes to read the pair of its token has an issued one.
LEMMA PresentingStep ==
    ASSUME TypeInv, [Next]_vars, NEW q \in Request, step'[q] \in Presenting
    PROVE  token'[q] \in Issued'
<1>t. Types
  BY TypeOKSplit DEF TypeInv
<1>k. Issued \subseteq Issued'
  BY TokensKeep
<1>1. ASSUME NEW r \in Request, NEW u \in User, Login(r, u) PROVE token'[q] \in Issued
  BY <1>1, <1>t DEF Login, Arrive, Goto, Types, TypeInv, Presenting
<1>2. ASSUME NEW r \in Request, IssueTokens(r) PROVE token'[q] \in Issued
  BY <1>2, <1>t DEF IssueTokens, Arrive, Goto, Types, TypeInv, Presenting
<1>3. ASSUME NEW r \in Request, NEW t \in Issued, Refresh(r, t) \/ Authenticate(r, t) \/ Revoke(r, t)
      PROVE  token'[q] \in Issued
  BY <1>3, <1>t DEF Refresh, Authenticate, Revoke, Arrive, Goto, Types, TypeInv, Presenting
<1>4. ASSUME NEW r \in Request, Lookup(r) \/ RefreshStep(r) PROVE token'[q] \in Issued
  BY <1>4, <1>t
  DEF Lookup, RefreshStep, CheckDenylist, CheckActive, MeasureLife, Goto, Types, TypeInv, Presenting
<1>6. ASSUME NEW r \in Request, AddToDenylist(r) \/ IssuePair(r) \/ Fail(r)
      PROVE  token'[q] \in Issued
  BY <1>6, <1>t DEF AddToDenylist, IssuePair, Fail, Refuse, Goto, Types, TypeInv, Presenting
<1>5. CASE Tick \/ UNCHANGED vars \/ \E u \in User : Deactivate(u)
  BY <1>5, <1>k DEF Tick, Deactivate, requestVars, vars, TypeInv
<1> QED BY <1>1, <1>2, <1>3, <1>4, <1>5, <1>6, <1>k DEF Next

LEMMA TypeInvStep == TypeInv /\ [Next]_vars => TypeInv'
<1>1. ASSUME TypeInv, [Next]_vars PROVE TypeInv'
  <2>1. Types' /\ Counted'
    BY <1>1, TypesStep, CountedStep
  <2>2. TypeOK'
    BY <2>1 DEF Types, Counted, Winners, TypeOK
  <2> QED BY <1>1, <2>2, PresentingStep DEF TypeInv
<1> QED BY <1>1

LEMMA TypeInvariant == Spec => []TypeInv
BY TypeInit, TypeInvStep, PTL DEF Spec

\* Every variable keeps its type, and a request is answered with one pair at
\* most, for any number of requests and users.
THEOREM TokenTypeCorrect == Spec => []TypeOK
<1>1. TypeInv => TypeOK
  BY DEF TypeInv
<1> QED BY <1>1, TypeInvariant, PTL

-----------------------------------------------------------------------------
(* A revoked token stays revoked *)

\* What a request is about to write covers the life of its token.
Measured(r) ==
    step[r] \in {"rotate", "revoke"} => clock + ttl[r] * Ticks >= ExpiresAt(token[r])

\* The entry of a revoked token outlasts it, or the token is over already.
Listed(t) == denylist[t] >= ExpiresAt(t) \/ clock >= ExpiresAt(t)

RevocationInv ==
    /\ \A r \in Request : Measured(r)
    /\ \A t \in revoked : Listed(t)

\* Rounding up loses nothing.
LEMMA SecondsCover ==
    ASSUME NEW n \in Int
    PROVE  Seconds(n) \in Int /\ Seconds(n) * Ticks >= n
BY TokenLifecycleAssumption DEF Seconds

\* A measure stays good while its request waits.
LEMMA MeasuredKeeps ==
    ASSUME TypeInv, [Next]_vars, NEW q \in Request, Measured(q),
           step'[q] = step[q], token'[q] = token[q], ttl'[q] = ttl[q]
    PROVE  Measured(q)'
<1> SUFFICES ASSUME step[q] \in {"rotate", "revoke"}
             PROVE  clock' + ttl[q] * Ticks >= ExpiresAt(token[q])'
  BY DEF Measured
<1>1. Types /\ token[q] \in Issued
  BY TypeOKSplit DEF TypeInv, Presenting
<1>2. /\ clock \in Int /\ clock' \in Int /\ clock <= clock'
      /\ ExpiresAt(token[q])' = ExpiresAt(token[q])
  BY <1>1, TokensKeep
<1>3. ExpiresAt(token[q]) \in Int
  BY <1>1, ExpiryType
<1>4. ttl[q] * Ticks \in Int
  BY <1>1, TokenLifecycleAssumption DEF Types
<1>5. clock + ttl[q] * Ticks >= ExpiresAt(token[q])
  BY DEF Measured
<1> QED BY <1>2, <1>3, <1>4, <1>5

LEMMA MeasuredStep ==
    ASSUME TypeInv, [Next]_vars, NEW q \in Request, Measured(q)
    PROVE  Measured(q)'
<1>t. Types
  BY TypeOKSplit DEF TypeInv
<1> DEFINE Same == step'[q] = step[q] /\ token'[q] = token[q] /\ ttl'[q] = ttl[q]
<1> DEFINE Off == step'[q] \notin {"rotate", "revoke"}
<1>1. ASSUME NEW r \in Request, NEW u \in User, Login(r, u) PROVE Same \/ Off
  BY <1>1, <1>t DEF Login, Arrive, Goto, Types
<1>2. ASSUME NEW r \in Request, IssueTokens(r) PROVE Same \/ Off
  BY <1>2, <1>t DEF IssueTokens, Arrive, Goto, Types
<1>3. ASSUME NEW r \in Request, NEW t \in Issued, Refresh(r, t) \/ Authenticate(r, t)
      PROVE  Same \/ Off
  BY <1>3, <1>t DEF Refresh, Authenticate, Arrive, Goto, Types
<1>4. ASSUME NEW r \in Request, NEW t \in Issued, Revoke(r, t) PROVE Measured(q)'
  <2>1. CASE q # r
    BY <2>1, <1>4, <1>t, MeasuredKeeps DEF Revoke, Arrive, Goto, Types
  <2>2. CASE q = r
    <3>1. token'[q] = t /\ ttl'[q] = SecondsLeft(t) /\ clock' = clock
      BY <2>2, <1>4, <1>t DEF Revoke, Arrive, Types
    <3>2. ExpiresAt(t) \in Int /\ clock \in Int /\ ExpiresAt(t)' = ExpiresAt(t)
      BY <1>t, ExpiryType, TokensKeep
    <3>3. SecondsLeft(t) \in Int /\ SecondsLeft(t) * Ticks >= ExpiresAt(t) - clock
      BY <3>2, SecondsCover DEF SecondsLeft
    <3>4. SecondsLeft(t) * Ticks \in Int
      BY <3>3, TokenLifecycleAssumption
    <3>5. clock + SecondsLeft(t) * Ticks >= ExpiresAt(t)
      BY <3>2, <3>3, <3>4
    <3> QED BY <3>1, <3>2, <3>5 DEF Measured
  <2> QED BY <2>1, <2>2
<1>5. ASSUME NEW r \in Request, Lookup(r) \/ CheckDenylist(r) \/ CheckActive(r)
      PROVE  Same \/ Off
  BY <1>5, <1>t DEF Lookup, CheckDenylist, CheckActive, Goto, Types
<1>6. ASSUME NEW r \in Request, MeasureLife(r) PROVE Measured(q)'
  <2>1. CASE q # r
    BY <2>1, <1>6, <1>t, MeasuredKeeps DEF MeasureLife, Goto, Types
  <2>2. CASE q = r
    <3>0. PICK t \in Issued : t = token[q]
      BY <2>2, <1>6 DEF MeasureLife, TypeInv, Presenting
    <3>1. token'[q] = t /\ ttl'[q] = SecondsLeft(t) /\ clock' = clock
      BY <2>2, <3>0, <1>6, <1>t DEF MeasureLife, Types
    <3>2. ExpiresAt(t) \in Int /\ clock \in Int /\ ExpiresAt(t)' = ExpiresAt(t)
      BY <1>t, ExpiryType, TokensKeep
    <3>3. SecondsLeft(t) \in Int /\ SecondsLeft(t) * Ticks >= ExpiresAt(t) - clock
      BY <3>2, SecondsCover DEF SecondsLeft
    <3>4. SecondsLeft(t) * Ticks \in Int
      BY <3>3, TokenLifecycleAssumption
    <3>5. clock + SecondsLeft(t) * Ticks >= ExpiresAt(t)
      BY <3>2, <3>3, <3>4
    <3> QED BY <3>1, <3>2, <3>5 DEF Measured
  <2> QED BY <2>1, <2>2
<1>7. ASSUME NEW r \in Request, AddToDenylist(r) \/ IssuePair(r) \/ Fail(r) PROVE Same \/ Off
  BY <1>7, <1>t DEF AddToDenylist, IssuePair, Fail, Refuse, Goto, Types
<1>8. ASSUME Tick \/ UNCHANGED vars \/ \E u \in User : Deactivate(u) PROVE Same
  BY <1>8 DEF Tick, Deactivate, requestVars, vars
<1>9. Same \/ Off => Measured(q)'
  BY MeasuredKeeps DEF Measured
<1> QED
  BY <1>1, <1>2, <1>3, <1>4, <1>5, <1>6, <1>7, <1>8, <1>9 DEF Next, RefreshStep

LEMMA ListedStep ==
    ASSUME TypeInv, [Next]_vars, NEW t \in revoked',
           \A r \in Request : Measured(r), t \in revoked => Listed(t)
    PROVE  Listed(t)'
<1>t. Types
  BY TypeOKSplit DEF TypeInv
<1>1. ASSUME NEW r \in Request, AddToDenylist(r), t = token[r] PROVE Listed(t)'
  <2>1. t \in Issued /\ ttl[r] \in Int /\ clock + ttl[r] * Ticks >= ExpiresAt(t) /\ clock' = clock
    BY <1>1, <1>t DEF AddToDenylist, TypeInv, Presenting, Types, Measured
  <2>2. ExpiresAt(t) \in Int /\ ExpiresAt(t)' = ExpiresAt(t) /\ clock \in Int /\ t \in Token
    BY <2>1, <1>t, ExpiryType, TokensKeep
  <2>3. ttl[r] * Ticks \in Int /\ (ttl[r] <= 0 => ttl[r] * Ticks <= 0)
    BY <2>1, TokenLifecycleAssumption
  <2>4. CASE ttl[r] > 0
    <3>1. denylist'[t] = clock + ttl[r] * Ticks
      BY <2>4, <1>1, <2>2, <1>t DEF AddToDenylist, Types
    <3> QED BY <3>1, <2>1, <2>2 DEF Listed
  <2>5. CASE ttl[r] <= 0
    <3>1. clock >= ExpiresAt(t)
      BY <2>5, <2>1, <2>2, <2>3
    <3> QED BY <3>1, <2>1, <2>2 DEF Listed
  <2> QED BY <2>1, <2>4, <2>5
<1>2. ASSUME t \in revoked, denylist'[t] = denylist[t] PROVE Listed(t)'
  <2>1. t \in Issued
    BY <1>2, <1>t DEF Types
  <2>2. /\ clock \in Int /\ clock' \in Int /\ clock <= clock'
        /\ ExpiresAt(t)' = ExpiresAt(t) /\ ExpiresAt(t) \in Int
    BY <2>1, <1>t, TokensKeep, ExpiryType
  <2> QED BY <1>2, <2>2 DEF Listed
<1>3. ASSUME NEW r \in Request, AddToDenylist(r), t # token[r]
      PROVE  t \in revoked /\ denylist'[t] = denylist[t]
  BY <1>3, <1>t DEF AddToDenylist, Types
<1>4. ASSUME NEW r \in Request,
             \/ \E u \in User : Login(r, u)
             \/ IssueTokens(r)
             \/ \E u \in Issued : Refresh(r, u) \/ Authenticate(r, u) \/ Revoke(r, u)
      PROVE  t \in revoked /\ denylist'[t] = denylist[t]
  BY <1>4 DEF Login, IssueTokens, Refresh, Authenticate, Revoke
<1>5. ASSUME NEW r \in Request, Lookup(r) \/ RefreshStep(r) \/ IssuePair(r) \/ Fail(r)
      PROVE  t \in revoked /\ denylist'[t] = denylist[t]
  BY <1>5 DEF Lookup, RefreshStep, CheckDenylist, CheckActive, MeasureLife, IssuePair, Fail
<1>6. CASE Tick \/ UNCHANGED vars \/ \E u \in User : Deactivate(u)
  BY <1>2, <1>6 DEF Tick, Deactivate, vars
<1> QED BY <1>1, <1>2, <1>3, <1>4, <1>5, <1>6 DEF Next

LEMMA RevocationInvariant == Spec => [](TypeInv /\ RevocationInv)
<1>1. Init => RevocationInv
  BY DEF Init, RevocationInv, Measured
<1>2. TypeInv /\ RevocationInv /\ [Next]_vars => RevocationInv'
  BY MeasuredStep, ListedStep DEF RevocationInv
<1> QED BY <1>1, <1>2, TypeInvariant, PTL DEF Spec

-----------------------------------------------------------------------------
(* A token is revoked before a pair is issued for it *)

\* The request that is about to issue a pair has withdrawn the token it trades.
Traded(r) == step[r] = "issue" => token[r] \in revoked \cup {None}

RotationInv ==
    /\ \A r \in Request : Traded(r)
    /\ \A i \in 1..Len(pairs) : pairs[i].parent \in revoked \cup {None}

LEMMA TradedStep ==
    ASSUME TypeInv, [Next]_vars, NEW q \in Request, Traded(q)
    PROVE  Traded(q)'
<1>t. Types
  BY TypeOKSplit DEF TypeInv
<1>r. revoked \subseteq revoked'
  BY DEF Next, Login, IssueTokens, Refresh, Authenticate, Revoke, Lookup, RefreshStep, CheckDenylist,
         CheckActive, MeasureLife, AddToDenylist, IssuePair, Fail, Deactivate, Tick, vars
<1> DEFINE Same == step'[q] = step[q] /\ token'[q] = token[q]
<1> DEFINE Off == step'[q] # "issue"
<1>1. ASSUME NEW r \in Request, NEW u \in User, Login(r, u) PROVE Same \/ Traded(q)'
  BY <1>1, <1>t DEF Login, Arrive, Goto, Types, Traded
<1>2. ASSUME NEW r \in Request, IssueTokens(r) PROVE Same \/ Off
  BY <1>2, <1>t DEF IssueTokens, Arrive, Goto, Types
<1>3. ASSUME NEW r \in Request, NEW t \in Issued, Refresh(r, t) \/ Authenticate(r, t) \/ Revoke(r, t)
      PROVE  Same \/ Off
  BY <1>3, <1>t DEF Refresh, Authenticate, Revoke, Arrive, Goto, Types
<1>4. ASSUME NEW r \in Request, Lookup(r) \/ RefreshStep(r) PROVE Same \/ Off
  BY <1>4, <1>t DEF Lookup, RefreshStep, CheckDenylist, CheckActive, MeasureLife, Goto, Types
<1>5. ASSUME NEW r \in Request, AddToDenylist(r) PROVE Same \/ Traded(q)'
  BY <1>5, <1>t DEF AddToDenylist, Goto, Types, Traded
<1>6. ASSUME NEW r \in Request, IssuePair(r) \/ Fail(r) PROVE Same \/ Off
  BY <1>6, <1>t DEF IssuePair, Fail, Refuse, Goto, Types
<1>7. CASE Tick \/ UNCHANGED vars \/ \E u \in User : Deactivate(u)
  BY <1>7, <1>r DEF Tick, Deactivate, requestVars, vars, Traded
<1>8. Same \/ Off => Traded(q)'
  BY <1>r DEF Traded
<1> QED BY <1>1, <1>2, <1>3, <1>4, <1>5, <1>6, <1>7, <1>8 DEF Next

LEMMA ParentsStep ==
    ASSUME TypeInv, RotationInv, [Next]_vars, NEW i \in 1..Len(pairs')
    PROVE  pairs'[i].parent \in revoked' \cup {None}
<1>t. Types
  BY TypeOKSplit DEF TypeInv
<1>r. revoked \subseteq revoked'
  BY DEF Next, Login, IssueTokens, Refresh, Authenticate, Revoke, Lookup, RefreshStep, CheckDenylist,
         CheckActive, MeasureLife, AddToDenylist, IssuePair, Fail, Deactivate, Tick, vars
<1>1. ASSUME pairs' = pairs PROVE pairs'[i].parent \in revoked' \cup {None}
  BY <1>1, <1>r DEF RotationInv
<1>2. ASSUME NEW p \in Pair, pairs' = Append(pairs, p), p.parent \in revoked \cup {None}
      PROVE  pairs'[i].parent \in revoked' \cup {None}
  <2>1. pairs \in Seq(Pair) /\ Len(pairs) \in Nat
    BY <1>t DEF Types, Pair
  <2>2. (i \in 1..Len(pairs) /\ pairs'[i] = pairs[i]) \/ pairs'[i] = p
    BY <2>1, <1>2
  <2> QED BY <2>2, <1>2, <1>r DEF RotationInv
<1>3. ASSUME NEW r \in Request, IssueTokens(r) PROVE pairs'[i].parent \in revoked' \cup {None}
  <2> DEFINE p == [user |-> None, at |-> clock, parent |-> None]
  <2>1. p \in Pair
    BY <1>t DEF Types, Pair
  <2> QED BY <2>1, <1>2, <1>3 DEF IssueTokens
<1>4. ASSUME NEW r \in Request, IssuePair(r) PROVE pairs'[i].parent \in revoked' \cup {None}
  <2> DEFINE p == [user |-> subject[r], at |-> clock, parent |-> token[r]]
  <2>1. p \in Pair
    BY <1>t DEF Types, Pair
  <2>2. token[r] \in revoked \cup {None}
    BY <1>4 DEF IssuePair, RotationInv, Traded
  <2> QED BY <2>1, <2>2, <1>2, <1>4 DEF IssuePair
<1>5. CASE \E r \in Request :
              \/ \E u \in User : Login(r, u)
              \/ \E t \in Issued : Refresh(r, t) \/ Authenticate(r, t) \/ Revoke(r, t)
              \/ Lookup(r) \/ RefreshStep(r) \/ AddToDenylist(r) \/ Fail(r)
  BY <1>5, <1>1 DEF Login, Refresh, Authenticate, Revoke, Lookup, RefreshStep, CheckDenylist,
                    CheckActive, MeasureLife, AddToDenylist, Fail
<1>6. CASE Tick \/ UNCHANGED vars \/ \E u \in User : Deactivate(u)
  BY <1>6, <1>1 DEF Tick, Deactivate, vars
<1> QED BY <1>3, <1>4, <1>5, <1>6 DEF Next

LEMMA RotationInvariant == Spec => []RotationInv
<1>1. Init => RotationInv
  BY DEF Init, RotationInv, Traded
<1>2. TypeInv /\ RotationInv /\ [Next]_vars => RotationInv'
  BY TradedStep, ParentsStep DEF RotationInv
<1> QED BY <1>1, <1>2, TypeInvariant, PTL DEF Spec

\* A revoked token is on the denylist for as long as it would verify, for every
\* length of a tick, every lifetime and every moment of the revocation, and no pair
\* was issued for a token that is not revoked.
THEOREM RevokedStaysDenied == Spec => []RevokedUntilExpiry
<1>1. TypeInv /\ RevocationInv /\ RotationInv => RevokedUntilExpiry
  <2> SUFFICES ASSUME TypeInv, RevocationInv, NEW t \in revoked, Verifies(t) PROVE Denied(t)
    BY DEF RevokedUntilExpiry, RotationInv
  <2>1. Types /\ t \in Issued
    BY TypeOKSplit DEF TypeInv, Types
  <2>2. ExpiresAt(t) \in Int /\ clock \in Int /\ denylist[t] \in Int
    BY <2>1, ExpiryType DEF Types
  <2> QED BY <2>2 DEF RevocationInv, Listed, Verifies, Denied
<1> QED BY <1>1, RevocationInvariant, RotationInvariant, PTL

-----------------------------------------------------------------------------
(* A late request gets nothing *)

\* A request whose token was withdrawn is accepted only if the token is over.
LateToken(r) ==
    "token" \in late[r] =>
        token[r] \in revoked /\ (step[r] \in Accepted => ~Verifies(token[r]))

\* What is over and revoked stays so.
LEMMA LateTokenKeeps ==
    ASSUME TypeInv, [Next]_vars, NEW q \in Request, LateToken(q),
           late'[q] = late[q], token'[q] = token[q],
           step'[q] \in Accepted => step[q] \in Accepted
    PROVE  LateToken(q)'
<1> SUFFICES ASSUME "token" \in late[q]
             PROVE  token[q] \in revoked' /\ (step'[q] \in Accepted => ~Verifies(token[q])')
  BY DEF LateToken, Accepted
<1>1. token[q] \in revoked
  BY DEF LateToken
<1>2. PICK t \in Issued : t = token[q]
  BY <1>1, TypeOKSplit DEF TypeInv, Types
<1>3. /\ revoked \subseteq revoked' /\ ExpiresAt(t)' = ExpiresAt(t) /\ clock \in Int
      /\ clock' \in Int /\ clock <= clock' /\ ExpiresAt(t) \in Int
  BY TokensKeep, ExpiryType, TypeOKSplit DEF TypeInv
<1>4. ASSUME step'[q] \in Accepted PROVE ~Verifies(t)'
  <2>1. ~Verifies(t)
    BY <1>2, <1>4 DEF LateToken
  <2> QED BY <2>1, <1>3 DEF Verifies
<1>5. Verifies(token[q])' = Verifies(t)'
  BY <1>2 DEF Verifies, ExpiresAt, Lifetime
<1> QED BY <1>1, <1>2, <1>3, <1>4, <1>5

\* A request on its way in knows what was withdrawn before, and is not accepted.
LEMMA LateTokenArrives ==
    ASSUME Types, NEW q \in Request, NEW r \in Request, NEW t \in Issued \cup {None},
           NEW u \in User \cup {None}, NEW s, Arrive(r, t, u, s), q = r, revoked' = revoked,
           s \notin Accepted \/ t = None
    PROVE  LateToken(q)'
<1>1. late'[q] = Withdrawn(t, u) /\ token'[q] = t /\ step'[q] = s
  BY DEF Arrive, Goto, Types
<1>2. "token" \in late'[q] => t \in revoked
  BY <1>1 DEF Withdrawn
<1>3. t \in revoked => t # None
  BY TokenLifecycleAssumption DEF Types, Issued
<1>4. "token" \in late'[q] => token'[q] \in revoked' /\ step'[q] \notin Accepted
  BY <1>1, <1>2, <1>3
<1> QED BY <1>4 DEF LateToken

LEMMA LateTokenStep ==
    ASSUME TypeInv, RevocationInv, [Next]_vars, NEW q \in Request, LateToken(q)
    PROVE  LateToken(q)'
<1>t. Types
  BY TypeOKSplit DEF TypeInv
<1> DEFINE Same == /\ late'[q] = late[q] /\ token'[q] = token[q]
                   /\ step'[q] \in Accepted => step[q] \in Accepted
<1>1. ASSUME NEW r \in Request, NEW u \in User, Login(r, u) PROVE LateToken(q)'
  <2>1. CASE q # r
    BY <2>1, <1>1, <1>t, LateTokenKeeps DEF Login, Arrive, Goto, Types
  <2>2. CASE q = r
    BY <2>2, <1>1, <1>t, LateTokenArrives DEF Login
  <2> QED BY <2>1, <2>2
<1>2. ASSUME NEW r \in Request, IssueTokens(r) PROVE LateToken(q)'
  <2>1. CASE q # r
    BY <2>1, <1>2, <1>t, LateTokenKeeps DEF IssueTokens, Arrive, Goto, Types
  <2>2. CASE q = r
    BY <2>2, <1>2, <1>t, LateTokenArrives DEF IssueTokens
  <2> QED BY <2>1, <2>2
<1>3. ASSUME NEW r \in Request, NEW t \in Issued, Refresh(r, t) \/ Authenticate(r, t) \/ Revoke(r, t)
      PROVE  LateToken(q)'
  <2>1. PICK s : Arrive(r, t, UserOf(t), s) /\ s \notin Accepted /\ revoked' = revoked
    BY <1>3 DEF Refresh, Authenticate, Revoke, Accepted
  <2>2. CASE q # r
    BY <2>1, <2>2, <1>t, LateTokenKeeps DEF Arrive, Goto, Types
  <2>3. CASE q = r
    BY <2>1, <2>3, <1>t, ExpiryType, LateTokenArrives
  <2> QED BY <2>2, <2>3
<1>4. ASSUME NEW r \in Request, Lookup(r) \/ CheckDenylist(r) PROVE LateToken(q)'
  <2>1. CASE Same
    BY <2>1, LateTokenKeeps
  <2>2. CASE ~Same
    <3>1. /\ q = r /\ step[q] \in Presenting /\ ~Denied(token[q]) /\ late'[q] = late[q]
          /\ token' = token /\ pairs' = pairs /\ clock' = clock /\ revoked' = revoked
      BY <2>2, <1>4, <1>t DEF Lookup, CheckDenylist, Goto, Types, Presenting, Accepted
    <3>2. token[q] \in Issued
      BY <3>1 DEF TypeInv
    <3>3. PICK t \in Issued : t = token[q]
      BY <3>2
    <3>4. /\ ExpiresAt(t) \in Int /\ clock \in Int /\ denylist[t] \in Int
      BY <1>t, ExpiryType DEF Types
    <3>5. ASSUME "token" \in late[q] PROVE token[q] \in revoked /\ ~Verifies(token[q])
      <4>1. t \in revoked
        BY <3>3, <3>5 DEF LateToken
      <4>2. Listed(t) /\ ~Denied(t)
        BY <4>1, <3>1, <3>3 DEF RevocationInv
      <4> QED BY <4>1, <4>2, <3>3, <3>4 DEF Listed, Denied, Verifies
    <3>6. Verifies(token[q])' = Verifies(token[q])
      BY <3>1 DEF Verifies, ExpiresAt, Lifetime
    <3> QED BY <3>1, <3>5, <3>6 DEF LateToken
  <2> QED BY <2>1, <2>2
<1>5. ASSUME NEW r \in Request, CheckActive(r) \/ MeasureLife(r) PROVE Same
  BY <1>5, <1>t DEF CheckActive, MeasureLife, Goto, Types, Accepted
<1>6. ASSUME NEW r \in Request, AddToDenylist(r) \/ IssuePair(r) \/ Fail(r) PROVE Same
  BY <1>6, <1>t DEF AddToDenylist, IssuePair, Fail, Refuse, Goto, Types, Accepted
<1>7. ASSUME Tick \/ UNCHANGED vars \/ \E u \in User : Deactivate(u) PROVE Same
  BY <1>7 DEF Tick, Deactivate, requestVars, vars
<1>8. Same => LateToken(q)'
  BY LateTokenKeeps
<1> QED
  BY <1>1, <1>2, <1>3, <1>4, <1>5, <1>6, <1>7, <1>8 DEF Next, RefreshStep

\* What comes in with a withdrawn token gets nothing, for any number of
\* concurrent requests, unless the token is over by itself.
THEOREM LateTokensAreRefused == Spec => []RevokedIsRefused
<1> DEFINE Inv == \A r \in Request : LateToken(r)
<1>1. Init => Inv
  BY DEF Init, LateToken
<1>2. TypeInv /\ RevocationInv /\ Inv /\ [Next]_vars => Inv'
  BY LateTokenStep
<1>3. Inv => RevokedIsRefused
  BY DEF LateToken, RevokedIsRefused
<1> QED BY <1>1, <1>2, <1>3, RevocationInvariant, PTL DEF Spec

-----------------------------------------------------------------------------
(* Deactivation *)

\* The steps from which the user is not looked at again.
Past == {"left", "rotate", "issue"}

\* What a step does to request q: it arrives, it moves on, or it is left alone.
LEMMA RequestStep ==
    ASSUME TypeInv, [Next]_vars, NEW q \in Request
    PROVE  \/ /\ subject'[q] = subject[q] /\ late'[q] = late[q]
              /\ \/ step'[q] = step[q] \/ step'[q] \notin Past \cup {"issued"}
                 \/ step[q] \in Past
                 \/ step[q] = "check" /\ subject[q] = None
                 \/ step[q] = "user" /\ subject[q] \in active
           \/ /\ "user" \in late'[q] => subject'[q] \in User \ active
              /\ \/ step'[q] \notin Past \cup {"issued"}
                 \/ step'[q] = "issue" /\ subject'[q] \in active
                 \/ step'[q] = "issued" /\ subject'[q] = None
<1>t. Types
  BY TypeOKSplit DEF TypeInv
<1> DEFINE Stays == subject'[q] = subject[q] /\ late'[q] = late[q]
           Comes == "user" \in late'[q] => subject'[q] \in User \ active
<1>1. ASSUME NEW r \in Request, NEW u \in User, Login(r, u), q = r
      PROVE  Comes /\ (step'[q] = "refused" \/ (step'[q] = "issue" /\ subject'[q] \in active))
  <2>1. /\ subject'[q] = u /\ late'[q] = Withdrawn(None, u)
        /\ step'[q] = IF u \in active THEN "issue" ELSE "refused"
    BY <1>1, <1>t DEF Login, Arrive, Goto, Types
  <2>2. "user" \in late'[q] => u \in User \ active
    BY <2>1 DEF Withdrawn
  <2> QED BY <2>1, <2>2
<1>2. ASSUME NEW r \in Request, IssueTokens(r), q = r
      PROVE  Comes /\ step'[q] = "issued" /\ subject'[q] = None
  BY <1>2, <1>t DEF IssueTokens, Arrive, Withdrawn, Goto, Types
<1>3. ASSUME NEW r \in Request, NEW t \in Issued, Refresh(r, t) \/ Authenticate(r, t) \/ Revoke(r, t), q = r
      PROVE  Comes /\ step'[q] \notin Past \cup {"issued"}
  BY <1>3, <1>t DEF Refresh, Authenticate, Revoke, Arrive, Withdrawn, Goto, Types, Past
<1>4. ASSUME NEW r \in Request, q # r,
             \/ \E u \in User : Login(r, u)
             \/ IssueTokens(r)
             \/ \E u \in Issued : Refresh(r, u) \/ Authenticate(r, u) \/ Revoke(r, u)
      PROVE  Stays /\ step'[q] = step[q]
  BY <1>4, <1>t DEF Login, IssueTokens, Refresh, Authenticate, Revoke, Arrive, Goto, Types
<1>5. ASSUME NEW r \in Request, Lookup(r) \/ CheckDenylist(r) \/ CheckActive(r)
      PROVE  /\ Stays
             /\ \/ step'[q] = step[q] \/ step'[q] \notin Past \cup {"issued"}
                \/ step[q] = "check" /\ subject[q] = None
                \/ step[q] = "user" /\ subject[q] \in active
  BY <1>5, <1>t DEF Lookup, CheckDenylist, CheckActive, Goto, Types, Past
<1>6. ASSUME NEW r \in Request, MeasureLife(r) \/ AddToDenylist(r) \/ IssuePair(r) \/ Fail(r)
      PROVE  /\ Stays
             /\ step'[q] = step[q] \/ step'[q] \notin Past \cup {"issued"} \/ step[q] \in Past
  BY <1>6, <1>t DEF MeasureLife, AddToDenylist, IssuePair, Fail, Refuse, Goto, Types, Past
<1>7. ASSUME Tick \/ UNCHANGED vars \/ \E u \in User : Deactivate(u)
      PROVE  Stays /\ step'[q] = step[q]
  BY <1>7 DEF Tick, Deactivate, requestVars, vars
<1> QED
  BY <1>1, <1>2, <1>3, <1>4, <1>5, <1>6, <1>7 DEF Next, RefreshStep, Past

\* A request of a user who was already deactivated never gets past the check.
LateUser(r) ==
    "user" \in late[r] => subject[r] \in User \ active /\ step[r] \notin Past \cup {"issued"}

LEMMA ActiveShrinks ==
    ASSUME [Next]_vars
    PROVE  active' \subseteq active
<1>1. ASSUME NEW r \in Request, NEW u \in User, Login(r, u) PROVE active' = active
  BY <1>1 DEF Login
<1>2. ASSUME NEW r \in Request, NEW t \in Issued, Refresh(r, t) \/ Authenticate(r, t) \/ Revoke(r, t)
      PROVE  active' = active
  BY <1>2 DEF Refresh, Authenticate, Revoke
<1>3. ASSUME NEW r \in Request,
             IssueTokens(r) \/ Lookup(r) \/ RefreshStep(r) \/ AddToDenylist(r) \/ IssuePair(r) \/ Fail(r)
      PROVE  active' = active
  BY <1>3 DEF IssueTokens, Lookup, RefreshStep, CheckDenylist, CheckActive, MeasureLife,
              AddToDenylist, IssuePair, Fail
<1>4. CASE Tick \/ UNCHANGED vars \/ \E u \in User : Deactivate(u)
  BY <1>4 DEF Tick, Deactivate, vars
<1> QED BY <1>1, <1>2, <1>3, <1>4 DEF Next

\* Once a user is deactivated, a login or refresh that comes in later gets no
\* pair, whatever requests are under way.
THEOREM LateUsersAreRefused == Spec => []DeactivationBlocks
<1> DEFINE Inv == \A r \in Request : LateUser(r)
<1>1. Init => Inv
  BY DEF Init, LateUser
<1>2. TypeInv /\ Inv /\ [Next]_vars => Inv'
  <2> SUFFICES ASSUME TypeInv, Inv, [Next]_vars, NEW q \in Request PROVE LateUser(q)'
    OBVIOUS
  <2>1. active' \subseteq active
    BY ActiveShrinks
  <2>2. "check" \notin Past /\ None \notin User
    BY TokenLifecycleAssumption DEF Past
  <2> QED BY <2>1, <2>2, RequestStep DEF LateUser
<1>3. Inv => DeactivationBlocks
  BY DEF LateUser, DeactivationBlocks, Past
<1> QED BY <1>1, <1>2, <1>3, TypeInvariant, PTL DEF Spec

\* A request that comes in with a withdrawn token, or for a withdrawn user, is
\* refused by the check that would have let it through.
THEOREM LateIsRefused == Spec => []WithdrawnIsRefused
<1>1. RevokedIsRefused /\ DeactivationBlocks => WithdrawnIsRefused
  BY DEF WithdrawnIsRefused
<1> QED BY <1>1, LateTokensAreRefused, LateUsersAreRefused, PTL

\* Nothing brings a deactivated user's requests past the check any more.
LEMMA NobodyPastStays ==
    ASSUME TypeInv, [Next]_vars, NEW u \in User, NobodyPast(u)
    PROVE  NobodyPast(u)'
<1>1. u \notin active /\ u \notin active'
  BY ActiveShrinks DEF NobodyPast
<1>2. ASSUME NEW q \in Request, subject'[q] = u PROVE step'[q] \notin Past
  BY <1>1, <1>2, RequestStep, TokenLifecycleAssumption DEF NobodyPast, Past
<1> QED BY <1>1, <1>2 DEF NobodyPast, Past

\* A step appends at most one pair: for nobody, or for a request in "issue".
LEMMA PairsStep ==
    ASSUME TypeInv, [Next]_vars
    PROVE  \/ pairs' = pairs
           \/ \E e \in Pair :
                 /\ pairs' = Append(pairs, e)
                 /\ e.user = None \/ \E r \in Request : step[r] = "issue" /\ e.user = subject[r]
<1>t. Types
  BY TypeOKSplit DEF TypeInv
<1>1. ASSUME NEW r \in Request, NEW u \in User, Login(r, u) PROVE pairs' = pairs
  BY <1>1 DEF Login
<1>2. ASSUME NEW r \in Request, NEW t \in Issued, Refresh(r, t) \/ Authenticate(r, t) \/ Revoke(r, t)
      PROVE  pairs' = pairs
  BY <1>2 DEF Refresh, Authenticate, Revoke
<1>3. ASSUME NEW r \in Request, Lookup(r) \/ RefreshStep(r) \/ AddToDenylist(r) \/ Fail(r)
      PROVE  pairs' = pairs
  BY <1>3 DEF Lookup, RefreshStep, CheckDenylist, CheckActive, MeasureLife, AddToDenylist, Fail
<1>4. ASSUME Tick \/ UNCHANGED vars \/ \E u \in User : Deactivate(u) PROVE pairs' = pairs
  BY <1>4 DEF Tick, Deactivate, vars
<1>5. ASSUME NEW r \in Request, IssueTokens(r)
      PROVE  \E e \in Pair : pairs' = Append(pairs, e) /\ e.user = None
  <2>1. [user |-> None, at |-> clock, parent |-> None] \in Pair
    BY <1>t DEF Types, Pair
  <2> QED BY <1>5, <2>1 DEF IssueTokens
<1>6. ASSUME NEW r \in Request, IssuePair(r)
      PROVE  \E e \in Pair : pairs' = Append(pairs, e) /\ step[r] = "issue" /\ e.user = subject[r]
  <2>1. [user |-> subject[r], at |-> clock, parent |-> token[r]] \in Pair
    BY <1>t DEF Types, Pair
  <2> QED BY <1>6, <2>1 DEF IssuePair
<1> QED BY <1>1, <1>2, <1>3, <1>4, <1>5, <1>6 DEF Next

\* Deactivation ends the chain of refreshes: once no request of the user is past
\* the check, no pair of that user is ever issued again.
THEOREM ChainEnds == Spec => DeactivationEndsTheChain
<1> DEFINE Over(u) == NobodyPast(u) =>
               /\ NobodyPast(u)'
               /\ \A i \in 1..Len(pairs') : pairs'[i].user = u => i <= Len(pairs)
<1>1. ASSUME TypeInv, [Next]_vars, NEW u \in User, NobodyPast(u),
             NEW i \in 1..Len(pairs'), pairs'[i].user = u
      PROVE  i <= Len(pairs)
  <2>1. pairs \in Seq(Pair)
    BY <1>1, TypeOKSplit DEF TypeInv, Types, Pair
  <2>2. CASE pairs' = pairs
    BY <2>1, <2>2
  <2>3. ASSUME NEW e \in Pair, pairs' = Append(pairs, e),
               e.user = None \/ \E r \in Request : step[r] = "issue" /\ e.user = subject[r]
        PROVE  i <= Len(pairs)
    <3>1. e.user # u
      BY <1>1, <2>3, TokenLifecycleAssumption DEF NobodyPast
    <3>2. Len(pairs') = Len(pairs) + 1 /\ pairs'[Len(pairs')] = e /\ Len(pairs) \in Nat
      BY <2>1, <2>3, AppendPair
    <3> QED BY <1>1, <3>1, <3>2
  <2> QED BY <1>1, <2>2, <2>3, PairsStep
<1>2. ASSUME TypeInv, [Next]_vars PROVE \A u \in User : Over(u)
  BY <1>1, <1>2, NobodyPastStays
<1>3. TypeInv /\ [Next]_vars => [\A u \in User : Over(u)]_vars
  BY <1>2
<1> QED BY <1>3, TypeInvariant, PTL DEF Spec, DeactivationEndsTheChain
=============================================================================
