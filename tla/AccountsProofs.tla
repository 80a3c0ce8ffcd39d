----------------------------- MODULE AccountsProofs -----------------------------
(* Proofs about Accounts, for every value of its constants. *)
EXTENDS Accounts, FiniteSetTheorems, SequenceTheorems, TLAPS

-----------------------------------------------------------------------------
(* The inductive invariant *)

Types ==
    /\ status \in [Row -> Status]
    /\ holder \in [Row -> Request \cup {None}]
    /\ email \in [User -> Email \cup {None}]
    /\ created \in [User -> 0..MaxNow]
    /\ outbox \in SUBSET User
    /\ now \in 0..MaxNow
    /\ step \in [Request -> {"new"} \cup AtWork \cup Answer]
    /\ row \in [Request -> Row \cup {None}]
    /\ mail \in [Request -> Email \cup {None}]
    /\ cursor \in [Request -> User \cup {None}]
    /\ pages \in [Request -> Seq(SUBSET User)]
    /\ witness \in [Request -> SUBSET User]
    /\ faults \in 0..MaxFaults

\* A locked row is the row of a request in a transaction,
Locked(x) == holder[x] # None => step[holder[x]] \in InTransaction /\ row[holder[x]] = x

\* and a request in a transaction has locked its row, which is what it made it.
Locks(r) ==
    /\ step[r] = "insert" => mail[r] \in Email
    /\ step[r] = "update" => row[r] \in Row
    /\ step[r] = "commit" =>
           row[r] \in User /\ status[row[r]] = "inserted" /\ holder[row[r]] = r
    /\ step[r] = "commit_delete" =>
           row[r] \in Row /\ status[row[r]] = "active" /\ holder[row[r]] = r

\* An address has one entry in the index, committed or not.
OneEntry ==
    \A u, v \in User :
        status[u] \in {"inserted", "active"} /\ status[v] \in {"inserted", "active"}
        /\ email[u] = email[v] => u = v

Staged == outbox = {u \in User : status[u] \in {"active", "deleted"}}

\* What was deleted was deleted by one request.
Deleted(r) ==
    step[r] = "deleted" =>
        /\ row[r] \in Row /\ status[row[r]] = "deleted"
        /\ \A q \in Request \ {r} : step[q] = "deleted" => row[q] # row[r]

Inv ==
    /\ Types
    /\ \A x \in Row : Locked(x)
    /\ \A r \in Request : Locks(r) /\ Deleted(r)
    /\ OneEntry
    /\ Staged

LEMMA RowFacts ==
    /\ User \subseteq Row /\ Key \subseteq Row /\ User \cap Key = {}
    /\ None \notin Row /\ None \notin Email /\ None \notin Request
BY AccountsAssumption DEF Row

-----------------------------------------------------------------------------
(* Types *)

LEMMA TypesStep ==
    ASSUME Inv, [Next]_vars
    PROVE  Types'
<1> USE AccountsAssumption, RowFacts
<1>1. ASSUME NEW r \in Request, NEW e \in Email, Register(r, e) PROVE Types'
  BY <1>1 DEF Inv, Types, Register, Goto, tableVars, walkVars, AtWork
<1>2. ASSUME NEW r \in Request, RefuseTaken(r) PROVE Types'
  BY <1>2 DEF Inv, Types, RefuseTaken, Goto, tableVars, walkVars, Answer
<1>3. ASSUME NEW r \in Request, Insert(r) PROVE Types'
  <2>1. PICK u \in User :
           /\ status' = [status EXCEPT ![u] = "inserted"]
           /\ holder' = [holder EXCEPT ![u] = r]
           /\ email' = [email EXCEPT ![u] = mail[r]]
           /\ \E began \in 0..now : created' = [created EXCEPT ![u] = began]
           /\ row' = [row EXCEPT ![r] = u]
    BY <1>3 DEF Insert
  <2>2. now \in 0..MaxNow /\ 0..now \subseteq 0..MaxNow
    BY DEF Inv, Types
  <2>3. created' \in [User -> 0..MaxNow]
    BY <2>1, <2>2 DEF Inv, Types
  <2> QED BY <1>3, <2>1, <2>3
          DEF Inv, Types, Insert, Goto, walkVars, Status, AtWork, InTransaction
<1>4. ASSUME NEW r \in Request, Commit(r) PROVE Types'
  BY <1>4 DEF Inv, Types, Locks, Commit, Reveal, Goto, walkVars, Status, Answer
<1>5. ASSUME NEW r \in Request, NEW k \in Key, CreateKey(r, k) PROVE Types'
  BY <1>5 DEF Inv, Types, CreateKey, Goto, walkVars, Status, Answer
<1>6. ASSUME NEW r \in Request, NEW x \in Row, SoftDelete(r, x) PROVE Types'
  BY <1>6 DEF Inv, Types, SoftDelete, Goto, tableVars, walkVars, AtWork
<1>7. ASSUME NEW r \in Request, Update(r) PROVE Types'
  BY <1>7 DEF Inv, Types, Update, Goto, walkVars, AtWork, InTransaction
<1>8. ASSUME NEW r \in Request, UpdateNothing(r) PROVE Types'
  BY <1>8 DEF Inv, Types, UpdateNothing, Goto, tableVars, walkVars, Answer
<1>9. ASSUME NEW r \in Request, CommitDelete(r) PROVE Types'
  BY <1>9 DEF Inv, Types, CommitDelete, Goto, walkVars, Status, Answer
<1>10. ASSUME NEW r \in Request, BeginWalk(r) PROVE Types'
  BY <1>10 DEF Inv, Types, BeginWalk, Goto, tableVars, ActiveUsers, AtWork
<1>11. ASSUME NEW r \in Request, NextPage(r) PROVE Types'
  <2>1. PICK page \in SUBSET After(cursor[r]) :
          /\ pages' = [pages EXCEPT ![r] = Append(@, page)]
          /\ \/ (\E last \in page : cursor' = [cursor EXCEPT ![r] = last]) /\ UNCHANGED step
             \/ Goto(r, "listed") /\ UNCHANGED cursor
    BY <1>11 DEF NextPage
  <2>2. page \in SUBSET User
    BY <2>1 DEF After, ActiveUsers
  <2>3. pages' \in [Request -> Seq(SUBSET User)]
    <3> DEFINE S == SUBSET User
    <3>1. pages \in [Request -> Seq(S)] /\ page \in S
      BY <2>2 DEF Inv, Types
    <3> HIDE DEF S
    <3>2. Append(pages[r], page) \in Seq(S)
      BY <3>1
    <3>3. pages' \in [Request -> Seq(S)]
      BY <2>1, <3>1, <3>2
    <3> QED BY <3>3 DEF S
  <2>4. /\ cursor' \in [Request -> User \cup {None}]
        /\ step' \in [Request -> {"new"} \cup AtWork \cup Answer]
    BY <2>1, <2>2 DEF Inv, Types, Goto, Answer
  <2> QED BY <1>11, <2>3, <2>4 DEF Inv, Types, NextPage, tableVars
<1>12. ASSUME NEW r \in Request, Fail(r) PROVE Types'
  <2>1. status' \in [Row -> Status] /\ holder' \in [Row -> Request \cup {None}]
    <3> DEFINE x == row[r]
    <3>1. \/ \E n \in {"free", "active", "deleted"} : status' = [status EXCEPT ![x] = n]
          \/ status' = [status EXCEPT ![x] = status[x]]
          \/ UNCHANGED status
      BY <1>12 DEF Fail, Reveal
    <3>2. holder' = [holder EXCEPT ![x] = None] \/ UNCHANGED holder
      BY <1>12 DEF Fail, Reveal
    <3>3. status \in [Row -> Status] /\ holder \in [Row -> Request \cup {None}]
      BY DEF Inv, Types
    <3> HIDE DEF x
    <3>4. status' \in [Row -> Status]
      BY <3>1, <3>3 DEF Status
    <3>5. holder' \in [Row -> Request \cup {None}]
      BY <3>2, <3>3
    <3> QED BY <3>4, <3>5
  <2>2. outbox' \in SUBSET User
    <3>1. (UNCHANGED outbox) \/ (step[r] = "commit" /\ outbox' = outbox \cup {row[r]})
      BY <1>12 DEF Fail, Reveal
    <3>2. Locks(r) /\ outbox \in SUBSET User
      BY DEF Inv, Types
    <3> QED BY <3>1, <3>2 DEF Locks
  <2>3. step' \in [Request -> {"new"} \cup AtWork \cup Answer]
    BY <1>12 DEF Inv, Types, Fail, Goto, Answer
  <2>4. faults' \in 0..MaxFaults
    <3>1. faults \in 0..MaxFaults /\ faults < MaxFaults /\ faults' = faults + 1
      BY <1>12 DEF Inv, Types, Fail
    <3> QED BY <3>1, AccountsAssumption
  <2> QED BY <1>12, <2>1, <2>2, <2>3, <2>4 DEF Inv, Types, Fail, walkVars
<1>13. ASSUME Tick PROVE Types'
  BY <1>13 DEF Inv, Types, Tick, tableVars, walkVars
<1>14. CASE UNCHANGED vars
  BY <1>14 DEF Inv, Types, vars, tableVars, walkVars
<1> QED BY <1>1, <1>2, <1>3, <1>4, <1>5, <1>6, <1>7, <1>8, <1>9, <1>10, <1>11, <1>12,
           <1>13, <1>14
        DEF Next, DeactivateUser, RevokeKey

-----------------------------------------------------------------------------
(* Steps *)

\* A request that moves without touching a row, and is in no transaction before
\* or after.
LEMMA AsideInv ==
    ASSUME Inv, Types', NEW r \in Request, NEW s,
           UNCHANGED <<status, holder, email, outbox>>,
           step[r] \notin InTransaction, s \notin InTransaction, s # "deleted",
           step[r] # "deleted",
           step' = [step EXCEPT ![r] = s],
           \A q \in Request \ {r} : row'[q] = row[q] /\ mail'[q] = mail[q],
           s = "insert" => mail'[r] \in Email, s = "update" => row'[r] \in Row
    PROVE  Inv'
<1>1. /\ step'[r] = s
      /\ \A q \in Request \ {r} : step'[q] = step[q]
  BY DEF Inv, Types
<1>2. ASSUME NEW x \in Row PROVE Locked(x)'
  <2>1. CASE holder[x] = None
    BY <2>1 DEF Locked
  <2>2. CASE holder[x] # None
    <3>1. holder[x] \in Request \ {r} /\ Locked(x)
      BY <2>2 DEF Inv, Types, Locked
    <3> QED BY <1>1, <3>1 DEF Locked
  <2> QED BY <2>1, <2>2
<1>3. ASSUME NEW q \in Request PROVE Locks(q)' /\ Deleted(q)'
  <2>1. CASE q = r
    BY <1>1, <2>1 DEF Locks, Deleted, InTransaction
  <2>2. CASE q # r
    <3>1. Locks(q) /\ Deleted(q) /\ q \in Request \ {r}
      BY <2>2 DEF Inv
    <3>2. Locks(q)'
      BY <1>1, <3>1 DEF Locks
    <3>3. \A p \in Request : step'[p] = "deleted" => step[p] = "deleted" /\ row'[p] = row[p]
      BY <1>1
    <3> QED BY <3>1, <3>2, <3>3 DEF Deleted
  <2> QED BY <2>1, <2>2
<1>4. OneEntry' /\ Staged'
  BY DEF Inv, OneEntry, Staged
<1> QED BY <1>2, <1>3, <1>4 DEF Inv

LEMMA InsertInv ==
    ASSUME Inv, Types', NEW r \in Request, Insert(r)
    PROVE  Inv'
<1>1. PICK u \in User :
         /\ status[u] = "free"
         /\ status' = [status EXCEPT ![u] = "inserted"]
         /\ holder' = [holder EXCEPT ![u] = r]
         /\ email' = [email EXCEPT ![u] = mail[r]]
         /\ row' = [row EXCEPT ![r] = u]
  BY DEF Insert
<1>2. /\ step[r] = "insert" /\ step' = [step EXCEPT ![r] = "commit"]
      /\ UNCHANGED <<outbox, mail>>
  BY DEF Insert, Goto
<1>3. ASSUME NEW x \in Row PROVE Locked(x)'
  <2>1. CASE x = u
    BY <1>1, <1>2, <2>1, RowFacts DEF Inv, Types, Locked, InTransaction
  <2>2. CASE x # u
    <3>1. holder'[x] = holder[x] /\ Locked(x) /\ holder[x] # r
      BY <1>1, <1>2, <2>2, RowFacts DEF Inv, Types, Locked, InTransaction
    <3> QED BY <1>1, <1>2, <3>1 DEF Inv, Types, Locked
  <2> QED BY <2>1, <2>2
<1>4. ASSUME NEW q \in Request PROVE Locks(q)' /\ Deleted(q)'
  <2>1. CASE q = r
    BY <1>1, <1>2, <2>1, RowFacts DEF Inv, Types, Locks, Deleted
  <2>2. CASE q # r
    <3>1. Locks(q) /\ Deleted(q) /\ step'[q] = step[q] /\ row'[q] = row[q]
      BY <1>1, <1>2, <2>2 DEF Inv, Types
    <3>2. step[q] \in {"commit", "commit_delete", "deleted"} => row[q] \in Row /\ row[q] # u
      BY <1>1, <3>1, RowFacts DEF Locks, Deleted
    <3>3. Locks(q)'
      BY <1>1, <1>2, <3>1, <3>2, RowFacts DEF Inv, Types, Locks
    <3>4. \A p \in Request : step'[p] = "deleted" => step[p] = "deleted" /\ row'[p] = row[p]
      BY <1>1, <1>2 DEF Inv, Types
    <3> QED BY <1>1, <3>1, <3>2, <3>3, <3>4, RowFacts DEF Inv, Types, Deleted
  <2> QED BY <2>1, <2>2
<1>5. OneEntry'
  <2>1. \A v \in User : status[v] \in {"inserted", "active"} => email[v] # mail[r]
    BY DEF Insert, Entries
  <2> QED BY <1>1, <2>1, RowFacts DEF Inv, Types, OneEntry
<1>6. Staged'
  BY <1>1, <1>2, RowFacts DEF Inv, Types, Staged
<1> QED BY <1>3, <1>4, <1>5, <1>6 DEF Inv

\* The end of a transaction on row x: what it made the row is one of the new
\* states of the row, and nobody holds it any more.
LEMMA EndInv ==
    ASSUME Inv, Types', NEW r \in Request, step[r] \in InTransaction, NEW s, NEW n,
           status' = [status EXCEPT ![row[r]] = n],
           holder' = [holder EXCEPT ![row[r]] = None],
           step' = [step EXCEPT ![r] = s],
           s \in {"created", "deleted", "error"},
           UNCHANGED <<email, row, mail>>,
           \/ step[r] = "commit" /\ n = "active" /\ outbox' = outbox \cup {row[r]}
           \/ step[r] = "commit" /\ n = "free" /\ UNCHANGED outbox
           \/ step[r] = "commit_delete" /\ n \in {"active", "deleted"} /\ UNCHANGED outbox,
           s = "deleted" => step[r] = "commit_delete" /\ n = "deleted"
    PROVE  Inv'
<1> DEFINE x == row[r]
<1>1. x \in Row /\ holder[x] = r /\ status[x] \in {"inserted", "active"}
  BY RowFacts DEF Inv, Locks, InTransaction
<1>2. /\ status'[x] = n /\ holder'[x] = None /\ step'[r] = s
      /\ \A y \in Row \ {x} : status'[y] = status[y] /\ holder'[y] = holder[y]
      /\ \A q \in Request \ {r} : step'[q] = step[q]
  BY <1>1 DEF Inv, Types
<1>3. ASSUME NEW y \in Row PROVE Locked(y)'
  <2>1. CASE y = x
    BY <1>2, <2>1 DEF Locked
  <2>2. CASE y # x
    <3>1. holder'[y] = holder[y] /\ Locked(y)
      BY <1>2, <2>2 DEF Inv
    <3>2. holder[y] # None => holder[y] \in Request \ {r}
      BY <1>1, <2>2, <3>1 DEF Inv, Types, Locked
    <3> QED BY <1>2, <3>1, <3>2 DEF Locked
  <2> QED BY <2>1, <2>2
<1>4. ASSUME NEW q \in Request \ {r}, step[q] \in {"commit", "commit_delete", "deleted"}
      PROVE  row[q] \in Row \ {x}
  BY <1>1, <1>4, RowFacts DEF Inv, Locks, Deleted
<1>5. ASSUME NEW q \in Request PROVE Locks(q)'
  <2>1. CASE q = r
    BY <1>2, <2>1 DEF Locks
  <2>2. CASE q # r
    BY <1>2, <1>4, <2>2 DEF Inv, Locks
  <2> QED BY <2>1, <2>2
<1>6. ASSUME NEW q \in Request PROVE Deleted(q)'
  <2>1. CASE q = r
    BY <1>1, <1>2, <1>4, <2>1 DEF Deleted
  <2>2. CASE q # r
    BY <1>2, <1>4, <2>2 DEF Inv, Deleted
  <2> QED BY <2>1, <2>2
<1>7. OneEntry'
  BY <1>1, <1>2, RowFacts DEF Inv, OneEntry
<1>8. Staged'
  <2>1. CASE step[r] = "commit"
    <3>1. x \in User /\ status[x] = "inserted"
      BY <2>1 DEF Inv, Locks
    <3> QED BY <1>2, <2>1, <3>1, RowFacts DEF Inv, Staged
  <2>2. CASE step[r] = "commit_delete"
    <3>1. status[x] = "active"
      BY <2>2 DEF Inv, Locks
    <3> QED BY <1>2, <2>2, <3>1, RowFacts DEF Inv, Staged
  <2> QED BY <2>1, <2>2 DEF InTransaction
<1> QED BY <1>3, <1>5, <1>6, <1>7, <1>8 DEF Inv

LEMMA CreateKeyInv ==
    ASSUME Inv, Types', NEW r \in Request, NEW k \in Key, CreateKey(r, k)
    PROVE  Inv'
<1>1. /\ step[r] = "new" /\ status[k] = "free" /\ k \in Row /\ k \notin User
      /\ status'[k] = "active" /\ step'[r] = "created"
      /\ \A y \in Row \ {k} : status'[y] = status[y]
      /\ \A q \in Request \ {r} : step'[q] = step[q] /\ row'[q] = row[q]
      /\ UNCHANGED <<holder, email, outbox, mail>>
  BY RowFacts DEF CreateKey, Goto, Inv, Types
<1>2. ASSUME NEW y \in Row PROVE Locked(y)'
  <2>1. CASE holder[y] = None
    BY <1>1, <2>1 DEF Locked
  <2>2. CASE holder[y] # None
    <3>1. holder[y] \in Request \ {r} /\ Locked(y)
      BY <1>1, <2>2 DEF Inv, Types, Locked, InTransaction
    <3> QED BY <1>1, <3>1 DEF Locked
  <2> QED BY <2>1, <2>2
<1>3. ASSUME NEW q \in Request \ {r}, step[q] \in {"commit", "commit_delete", "deleted"}
      PROVE  row[q] \in Row \ {k}
  BY <1>1, <1>3, RowFacts DEF Inv, Locks, Deleted
<1>4. ASSUME NEW q \in Request PROVE Locks(q)' /\ Deleted(q)'
  <2>1. CASE q = r
    BY <1>1, <2>1 DEF Locks, Deleted
  <2>2. CASE q # r
    <3>1. Locks(q)'
      BY <1>1, <1>3, <2>2 DEF Inv, Locks
    <3> QED BY <1>1, <1>3, <2>2, <3>1 DEF Inv, Deleted
  <2> QED BY <2>1, <2>2
<1>5. OneEntry' /\ Staged'
  BY <1>1, RowFacts DEF Inv, OneEntry, Staged
<1> QED BY <1>2, <1>4, <1>5 DEF Inv

LEMMA UpdateInv ==
    ASSUME Inv, Types', NEW r \in Request, Update(r)
    PROVE  Inv'
<1> DEFINE x == row[r]
<1>1. /\ step[r] = "update" /\ x \in Row /\ status[x] = "active" /\ holder[x] = None
      /\ holder'[x] = r /\ step'[r] = "commit_delete"
      /\ \A y \in Row \ {x} : holder'[y] = holder[y]
      /\ \A q \in Request \ {r} : step'[q] = step[q]
      /\ UNCHANGED <<status, email, outbox, row, mail>>
  BY DEF Update, Goto, Inv, Types, Active
<1>2. ASSUME NEW y \in Row PROVE Locked(y)'
  <2>1. CASE y = x
    BY <1>1, <2>1 DEF Locked, InTransaction
  <2>2. CASE y # x
    <3>1. holder[y] # None => holder[y] \in Request \ {r}
      BY <1>1 DEF Inv, Types, Locked, InTransaction
    <3> QED BY <1>1, <2>2, <3>1 DEF Inv, Locked
  <2> QED BY <2>1, <2>2
<1>3. ASSUME NEW q \in Request PROVE Locks(q)' /\ Deleted(q)'
  <2>1. CASE q = r
    BY <1>1, <2>1 DEF Locks, Deleted
  <2>2. CASE q # r
    <3>1. step[q] \in {"commit", "commit_delete"} => row[q] \in Row \ {x}
      BY <1>1, <2>2, RowFacts DEF Inv, Locks
    <3>2. Locks(q)'
      BY <1>1, <2>2, <3>1 DEF Inv, Locks
    <3> QED BY <1>1, <2>2, <3>2 DEF Inv, Deleted
  <2> QED BY <2>1, <2>2
<1>4. OneEntry' /\ Staged'
  BY <1>1 DEF Inv, OneEntry, Staged
<1> QED BY <1>2, <1>3, <1>4 DEF Inv

\* A failure ends a transaction one way or the other, or happens outside of one.
LEMMA FailInv ==
    ASSUME Inv, Types', NEW r \in Request, Fail(r)
    PROVE  Inv'
<1>1. step' = [step EXCEPT ![r] = "error"] /\ UNCHANGED <<email, row, mail>>
  BY DEF Fail, Goto
<1>2. CASE step[r] \notin InTransaction
  <2>1. UNCHANGED <<status, holder, outbox>> /\ step[r] # "deleted"
    BY <1>2 DEF Fail, InTransaction, AtWork
  <2>2. "error" \notin InTransaction
    BY DEF InTransaction
  <2> QED BY <1>1, <1>2, <2>1, <2>2, AsideInv
<1>3. CASE step[r] \in InTransaction
  <2>1. row[r] \in Row /\ status[row[r]] = (IF step[r] = "commit" THEN "inserted" ELSE "active")
    BY <1>3, RowFacts DEF Inv, Locks, InTransaction
  <2>2. holder' = [holder EXCEPT ![row[r]] = None]
    BY <1>3 DEF Fail, Reveal
  <2>3. \/ /\ step[r] = "commit" /\ outbox' = outbox \cup {row[r]}
           /\ status' = [status EXCEPT ![row[r]] = "active"]
        \/ /\ step[r] = "commit" /\ UNCHANGED outbox
           /\ status' = [status EXCEPT ![row[r]] = "free"]
        \/ /\ step[r] = "commit_delete" /\ UNCHANGED outbox
           /\ status' = [status EXCEPT ![row[r]] = "active"]
        \/ /\ step[r] = "commit_delete" /\ UNCHANGED outbox
           /\ status' = [status EXCEPT ![row[r]] = "deleted"]
    BY <1>3, <2>1 DEF Fail, Reveal, InTransaction
  <2>4. PICK n \in {"active", "free", "deleted"} :
          /\ status' = [status EXCEPT ![row[r]] = n]
          /\ \/ step[r] = "commit" /\ n = "active" /\ outbox' = outbox \cup {row[r]}
             \/ step[r] = "commit" /\ n = "free" /\ UNCHANGED outbox
             \/ step[r] = "commit_delete" /\ n \in {"active", "deleted"} /\ UNCHANGED outbox
    BY <2>3
  <2> QED BY <1>1, <1>3, <2>2, <2>4, EndInv
<1> QED BY <1>2, <1>3

LEMMA StepInv == Inv /\ [Next]_vars => Inv'
<1> SUFFICES ASSUME Inv, [Next]_vars PROVE Inv'
  OBVIOUS
<1> USE TypesStep DEF Goto
<1>1. ASSUME NEW r \in Request, NEW e \in Email, Register(r, e) PROVE Inv'
  <2>1. mail'[r] = e /\ step[r] = "new"
    BY <1>1 DEF Register, Inv, Types
  <2> QED BY <1>1, <2>1, AsideInv DEF Register, tableVars, InTransaction, Inv, Types
<1>2. ASSUME NEW r \in Request, RefuseTaken(r) PROVE Inv'
  BY <1>2, AsideInv DEF RefuseTaken, tableVars, InTransaction
<1>3. ASSUME NEW r \in Request, Insert(r) PROVE Inv'
  BY <1>3, InsertInv
<1>4. ASSUME NEW r \in Request, Commit(r) PROVE Inv'
  BY <1>4, EndInv DEF Commit, Reveal, InTransaction
<1>5. ASSUME NEW r \in Request, NEW k \in Key, CreateKey(r, k) PROVE Inv'
  BY <1>5, CreateKeyInv
<1>6. ASSUME NEW r \in Request, NEW x \in Row, SoftDelete(r, x) PROVE Inv'
  <2>1. row'[r] = x /\ step[r] = "new"
    BY <1>6 DEF SoftDelete, Inv, Types
  <2> QED BY <1>6, <2>1, AsideInv DEF SoftDelete, tableVars, InTransaction, Inv, Types
<1>7. ASSUME NEW r \in Request, Update(r) PROVE Inv'
  BY <1>7, UpdateInv
<1>8. ASSUME NEW r \in Request, UpdateNothing(r) PROVE Inv'
  BY <1>8, AsideInv DEF UpdateNothing, tableVars, InTransaction
<1>9. ASSUME NEW r \in Request, CommitDelete(r) PROVE Inv'
  BY <1>9, EndInv DEF CommitDelete, InTransaction
<1>10. ASSUME NEW r \in Request, BeginWalk(r) PROVE Inv'
  BY <1>10, AsideInv DEF BeginWalk, tableVars, InTransaction
<1>11. ASSUME NEW r \in Request, NextPage(r) PROVE Inv'
  <2>1. step[r] = "walk" /\ UNCHANGED <<status, holder, email, outbox, row, mail>>
    BY <1>11 DEF NextPage, tableVars
  <2>2. \/ step' = [step EXCEPT ![r] = "listed"]
        \/ step' = [step EXCEPT ![r] = "walk"]
    BY <1>11, <2>1 DEF NextPage, Inv, Types
  <2> QED BY <2>1, <2>2, AsideInv DEF InTransaction
<1>12. ASSUME NEW r \in Request, Fail(r) PROVE Inv'
  BY <1>12, FailInv
<1>13. CASE UNCHANGED <<tableVars, step, row, mail>>
  BY <1>13 DEF tableVars, Inv, Locked, Locks, Deleted, OneEntry, Staged
<1> QED BY <1>1, <1>2, <1>3, <1>4, <1>5, <1>6, <1>7, <1>8, <1>9, <1>10, <1>11, <1>12, <1>13,
           RowFacts
        DEF Next, DeactivateUser, RevokeKey, Tick, vars

-----------------------------------------------------------------------------
(* Walks *)

\* The users who are or were on the list.
Past == {u \in User : status[u] \in {"active", "deleted"}}

Listed(r, u) == \E i \in 1..Len(pages[r]) : u \in pages[r][i]

\* What a walk keeps was on the list, and nothing is kept before it begins.
Kept(r) ==
    /\ \A u \in User : Listed(r, u) => u \in Past
    /\ cursor[r] # None => cursor[r] \in Past
    /\ witness[r] \subseteq Past
    /\ step[r] = "new" => pages[r] = << >> /\ cursor[r] = None

InOrder(r) ==
    \A i, j \in 1..Len(pages[r]) : i < j =>
        \A u \in pages[r][i], v \in pages[r][j] : Older(v, u)

\* The cursor cuts the users in two: whoever was listed is on the one side, and
\* of those who have been active all along the others are on the other side.
Cut(r) ==
    step[r] = "walk" =>
        /\ \A u \in User : Listed(r, u) =>
               cursor[r] # None /\ (u = cursor[r] \/ Older(cursor[r], u))
        /\ \A u \in witness[r] \cap Active :
               Listed(r, u) \/ cursor[r] = None \/ Older(u, cursor[r])

Complete(r) == step[r] = "listed" => \A u \in witness[r] \cap Active : Listed(r, u)

WalkOf(r) == Kept(r) /\ InOrder(r) /\ Cut(r) /\ Complete(r)

WalkInv == \A r \in Request : WalkOf(r)

LEMMA TypedPages ==
    ASSUME Inv, NEW r \in Request
    PROVE  /\ \A i \in 1..Len(pages[r]) : pages[r][i] \subseteq User
           /\ witness[r] \subseteq User
BY DEF Inv, Types

\* The keyset order is a strict total order on the users.
LEMMA OlderOrder ==
    ASSUME Types
    PROVE  \A u, v, w \in User :
              /\ Older(u, v) /\ Older(v, w) => Older(u, w)
              /\ u # v => Older(u, v) \/ Older(v, u)
<1> SUFFICES ASSUME NEW u \in User, NEW v \in User, NEW w \in User
             PROVE  /\ Older(u, v) /\ Older(v, w) => Older(u, w)
                    /\ u # v => Older(u, v) \/ Older(v, u)
  OBVIOUS
<1>1. u \in Nat /\ v \in Nat /\ w \in Nat
  BY AccountsAssumption
<1>2. created[u] \in Nat /\ created[v] \in Nat /\ created[w] \in Nat
  BY AccountsAssumption DEF Types
<1> QED BY <1>1, <1>2 DEF Older

\* No step takes a user off the list but by deleting the row, brings one back or
\* changes when it was created.
LEMMA PastStep ==
    ASSUME Inv, [Next]_vars
    PROVE  \A u \in Past :
              u \in Past' /\ created'[u] = created[u]
              /\ (status'[u] = "active" => status[u] = "active")
<1> SUFFICES ASSUME NEW u \in User, status[u] \in {"active", "deleted"}
             PROVE  /\ created'[u] = created[u]
                    /\ status'[u] \in {status[u], "deleted"}
  BY DEF Past
<1> USE RowFacts
<1>1. u \in Row /\ status \in [Row -> Status] /\ created \in [User -> 0..MaxNow]
  BY DEF Inv, Types
<1>2. ASSUME NEW r \in Request, Insert(r) PROVE status'[u] = status[u] /\ created'[u] = created[u]
  <2>1. PICK v \in User : /\ status[v] = "free"
                          /\ status' = [status EXCEPT ![v] = "inserted"]
                          /\ \E began \in 0..now : created' = [created EXCEPT ![v] = began]
    BY <1>2 DEF Insert
  <2> QED BY <1>1, <2>1
<1>3. ASSUME NEW r \in Request, Commit(r) PROVE status'[u] = status[u] /\ UNCHANGED created
  <2>1. row[r] # u
    BY <1>3 DEF Inv, Locks, Commit
  <2> QED BY <1>1, <1>3, <2>1 DEF Commit, Reveal
<1>4. ASSUME NEW r \in Request, NEW k \in Key, CreateKey(r, k)
      PROVE  status'[u] = status[u] /\ UNCHANGED created
  BY <1>1, <1>4 DEF CreateKey
<1>5. ASSUME NEW r \in Request, CommitDelete(r)
      PROVE  status'[u] \in {status[u], "deleted"} /\ UNCHANGED created
  BY <1>1, <1>5 DEF CommitDelete
<1>6. ASSUME NEW r \in Request, Fail(r)
      PROVE  status'[u] \in {status[u], "deleted"} /\ UNCHANGED created
  <2>1. UNCHANGED created
    BY <1>6 DEF Fail
  <2>2. CASE status' = [status EXCEPT ![row[r]] = IF @ = "inserted" THEN "free" ELSE @]
    BY <1>1, <2>1, <2>2
  <2>3. CASE step[r] = "commit" /\ status' = [status EXCEPT ![row[r]] = "active"]
    <3>1. row[r] # u
      BY <2>3 DEF Inv, Locks
    <3> QED BY <1>1, <2>1, <2>3, <3>1
  <2>4. CASE status' = [status EXCEPT ![row[r]] = "deleted"]
    BY <1>1, <2>1, <2>4
  <2>5. CASE UNCHANGED status
    BY <2>1, <2>5
  <2> QED BY <1>6, <2>2, <2>3, <2>4, <2>5 DEF Fail, Reveal
<1>7. CASE UNCHANGED <<status, created>>
  BY <1>7
<1> QED BY <1>2, <1>3, <1>4, <1>5, <1>6, <1>7
        DEF Next, DeactivateUser, RevokeKey, SoftDelete, Register, RefuseTaken, Update,
            UpdateNothing, BeginWalk, NextPage, Tick, vars, tableVars

\* Two listed users stay in the order they were in.
LEMMA OlderStep ==
    ASSUME Inv, [Next]_vars, NEW u \in Past, NEW v \in Past
    PROVE  Older(u, v)' <=> Older(u, v)
BY PastStep DEF Older

\* A walk is not disturbed by what others do, nor by its request going elsewhere.
LEMMA Undisturbed ==
    ASSUME Inv, WalkInv, [Next]_vars, NEW r \in Request,
           pages'[r] = pages[r], cursor'[r] = cursor[r], witness'[r] = witness[r],
           step'[r] \in {"new", "walk", "listed"} => step'[r] = step[r]
    PROVE  WalkOf(r)'
<1>1. WalkOf(r) /\ Past \subseteq User
  BY DEF WalkInv, Past
<1>2. \A u \in User : Listed(r, u)' <=> Listed(r, u)
  BY DEF Listed
<1>3. \A u \in User : Listed(r, u) => u \in Past
  BY <1>1 DEF WalkOf, Kept
<1>4. \A u \in Past : u \in Active' => u \in Active
  BY PastStep, RowFacts DEF Active, Past
<1>5. Kept(r)'
  BY <1>1, <1>2, PastStep DEF WalkOf, Kept
<1>6. InOrder(r)'
  <2> SUFFICES ASSUME NEW i \in 1..Len(pages[r]), NEW j \in 1..Len(pages[r]), i < j,
                      NEW u \in pages[r][i], NEW v \in pages[r][j]
               PROVE  Older(v, u)'
    BY DEF InOrder
  <2>1. Older(v, u)
    BY <1>1 DEF WalkOf, InOrder
  <2>2. u \in User /\ v \in User
    BY TypedPages
  <2>3. u \in Past /\ v \in Past
    BY <1>3, <2>2 DEF Listed
  <2> QED BY <2>1, <2>3, OlderStep
<1>7. Cut(r)'
  <2> SUFFICES ASSUME step'[r] = "walk"
               PROVE  /\ \A u \in User : Listed(r, u) =>
                           cursor[r] # None /\ (u = cursor[r] \/ Older(cursor[r], u)')
                      /\ \A u \in witness[r] \cap Active' :
                           Listed(r, u) \/ cursor[r] = None \/ Older(u, cursor[r])'
    BY <1>2, TypedPages DEF Cut
  <2>1. Cut(r) /\ step[r] = "walk"
    BY <1>1 DEF WalkOf
  <2>2. cursor[r] # None => cursor[r] \in Past
    BY <1>1 DEF WalkOf, Kept
  <2>3. ASSUME NEW u \in User, Listed(r, u)
        PROVE  cursor[r] # None /\ (u = cursor[r] \/ Older(cursor[r], u)')
    <3>1. cursor[r] # None /\ (u = cursor[r] \/ Older(cursor[r], u))
      BY <2>1, <2>3 DEF Cut
    <3> QED BY <1>3, <2>2, <2>3, <3>1, OlderStep
  <2>4. ASSUME NEW u \in witness[r] \cap Active'
        PROVE  Listed(r, u) \/ cursor[r] = None \/ Older(u, cursor[r])'
    <3>1. u \in Past /\ u \in Active
      BY <1>1, <1>4, <2>4 DEF WalkOf, Kept
    <3>2. Listed(r, u) \/ cursor[r] = None \/ Older(u, cursor[r])
      BY <2>1, <2>4, <3>1 DEF Cut
    <3> QED BY <2>2, <3>1, <3>2, OlderStep
  <2> QED BY <2>3, <2>4
<1>8. Complete(r)'
  <2> SUFFICES ASSUME step'[r] = "listed", NEW u \in witness[r] \cap Active'
               PROVE  Listed(r, u)
    BY <1>2, TypedPages DEF Complete
  <2>1. Complete(r) /\ step[r] = "listed"
    BY <1>1 DEF WalkOf
  <2>2. u \in Active
    BY <1>1, <1>4 DEF WalkOf, Kept
  <2> QED BY <2>1, <2>2 DEF Complete
<1> QED BY <1>5, <1>6, <1>7, <1>8 DEF WalkOf

\* A page is everything after the cursor down to its last row, or all of it.
LEMMA PageFacts ==
    ASSUME Inv, NEW r \in Request, NEW page \in SUBSET After(cursor[r]),
           IsPage(page, After(cursor[r]))
    PROVE  /\ Cardinality(page) < Limit => page = After(cursor[r])
           /\ \A last \in page : (\A u \in page \ {last} : ~Older(u, last)) =>
                 /\ \A u \in page : u = last \/ Older(last, u)
                 /\ \A u \in After(cursor[r]) \ page : Older(u, last)
<1> DEFINE rows == After(cursor[r])
<1>1. rows \subseteq User /\ IsFiniteSet(User)
  BY AccountsAssumption DEF After, ActiveUsers
<1>2. IsFiniteSet(rows)
  BY <1>1, FS_Subset
<1>3. /\ Cardinality(page) = (IF Cardinality(rows) < Limit THEN Cardinality(rows) ELSE Limit)
      /\ \A u \in page, v \in rows \ page : ~Older(u, v)
  BY DEF IsPage
<1>4. Cardinality(rows) \in Nat /\ Limit \in Nat
  BY <1>2, FS_CardinalityType, AccountsAssumption
<1>5. Types /\ page \subseteq User
  BY <1>1 DEF Inv
<1> HIDE DEF rows
<1>6. Cardinality(page) < Limit => page = rows
  BY <1>2, <1>3, <1>4, FS_Subset DEF rows
<1>7. ASSUME NEW last \in page, \A u \in page \ {last} : ~Older(u, last)
      PROVE  /\ \A u \in page : u = last \/ Older(last, u)
             /\ \A u \in rows \ page : Older(u, last)
  BY <1>1, <1>3, <1>5, <1>7, OlderOrder
<1> QED BY <1>6, <1>7 DEF rows

LEMMA NextPageWalk ==
    ASSUME Inv, Types', WalkInv, NEW r \in Request, NextPage(r)
    PROVE  WalkOf(r)'
<1>1. PICK page \in SUBSET After(cursor[r]) :
        /\ IsPage(page, After(cursor[r]))
        /\ pages' = [pages EXCEPT ![r] = Append(@, page)]
        /\ \/ /\ \E last \in page :
                    /\ \A u \in page \ {last} : ~Older(u, last)
                    /\ cursor' = [cursor EXCEPT ![r] = last]
              /\ UNCHANGED step
           \/ /\ Cardinality(page) < Limit
              /\ Goto(r, "listed")
              /\ UNCHANGED cursor
  BY DEF NextPage
<1>2. step[r] = "walk" /\ UNCHANGED <<status, created, witness>>
  BY DEF NextPage, tableVars
<1>3. WalkOf(r)
  BY DEF WalkInv
<1> DEFINE len == Len(pages[r])
<1>4. After(cursor[r]) \subseteq User /\ After(cursor[r]) \subseteq Active
  BY DEF After, ActiveUsers
<1>5. page \subseteq User /\ page \subseteq Past
  BY <1>4, <1>1 DEF Past, Active
<1>6. /\ len \in Nat /\ Len(pages'[r]) = len + 1 /\ pages'[r][len + 1] = page
      /\ \A i \in 1..len : pages'[r][i] = pages[r][i]
  <2>1. pages[r] \in Seq(SUBSET User) /\ page \in SUBSET User
    BY <1>5 DEF Inv, Types
  <2>2. pages'[r] = Append(pages[r], page)
    BY <1>1 DEF Inv, Types
  <2> QED BY <2>1, <2>2, AppendProperties
<1> HIDE DEF len
<1>7. \A u \in User : Listed(r, u)' <=> Listed(r, u) \/ u \in page
  <2>1. \A i : i \in 1..(len + 1) <=> i \in 1..len \/ i = len + 1
    BY <1>6
  <2>2. \A u \in User : Listed(r, u)' <=> \E i \in 1..(len + 1) : u \in pages'[r][i]
    BY <1>6 DEF Listed
  <2>3. \A u \in User : Listed(r, u) <=> \E i \in 1..len : u \in pages[r][i]
    BY DEF Listed, len
  <2> QED BY <1>6, <2>1, <2>2, <2>3
<1>8. \A u, v : Older(u, v)' <=> Older(u, v)
  BY <1>2 DEF Older
<1>9. Past' = Past /\ Active' = Active
  BY <1>2 DEF Past, Active
<1>10. \A u \in page : cursor[r] = None \/ Older(u, cursor[r])
  BY <1>1 DEF After
<1>11. /\ \A u \in User : Listed(r, u) =>
            u \in Past /\ cursor[r] # None /\ (u = cursor[r] \/ Older(cursor[r], u))
       /\ \A u \in witness[r] \cap Active :
            Listed(r, u) \/ cursor[r] = None \/ Older(u, cursor[r])
       /\ witness[r] \subseteq User
       /\ cursor[r] # None => cursor[r] \in Past /\ cursor[r] \in User
  BY <1>2, <1>3 DEF WalkOf, Kept, Cut, Past
<1>12. \A u \in User, v \in page : Listed(r, u) => Older(v, u)
  <2> SUFFICES ASSUME NEW u \in User, NEW v \in page, Listed(r, u)
               PROVE  Older(v, u)
    OBVIOUS
  <2>1. cursor[r] \in User /\ (u = cursor[r] \/ Older(cursor[r], u)) /\ Older(v, cursor[r])
    BY <1>10, <1>11
  <2>2. v \in User /\ Types
    BY <1>5 DEF Inv
  <2> QED BY <2>1, <2>2, OlderOrder
<1>13. InOrder(r)'
  <2> SUFFICES ASSUME NEW i \in 1..(len + 1), NEW j \in 1..(len + 1), i < j,
                      NEW u \in pages'[r][i], NEW v \in pages'[r][j]
               PROVE  Older(v, u)
    BY <1>6, <1>8 DEF InOrder
  <2>1. i \in 1..len /\ u \in pages[r][i] /\ (j \in 1..len \/ j = len + 1)
    BY <1>6
  <2>2. CASE j \in 1..len
    BY <1>3, <1>6, <2>1, <2>2 DEF WalkOf, InOrder, len
  <2>3. CASE j = len + 1
    <3>1. v \in page
      BY <1>6, <2>3
    <3>2. u \in User /\ Listed(r, u)
      BY <2>1, TypedPages DEF Listed, len
    <3> QED BY <1>12, <3>1, <3>2
  <2> QED BY <2>1, <2>2, <2>3
<1>14. \A u \in witness[r] \cap Active : Listed(r, u) \/ u \in After(cursor[r])
  BY <1>11 DEF After, ActiveUsers
<1>15. CASE \E last \in page : /\ \A u \in page \ {last} : ~Older(u, last)
                               /\ cursor' = [cursor EXCEPT ![r] = last]
                               /\ UNCHANGED step
  <2>1. PICK last \in page : /\ \A u \in page \ {last} : ~Older(u, last)
                             /\ cursor' = [cursor EXCEPT ![r] = last]
                             /\ UNCHANGED step
    BY <1>15
  <2>2. cursor'[r] = last /\ last # None /\ step'[r] = "walk"
    BY <1>2, <1>5, <2>1, RowFacts DEF Inv, Types
  <2>3. /\ \A u \in page : u = last \/ Older(last, u)
        /\ \A u \in After(cursor[r]) \ page : Older(u, last)
    BY <1>1, <2>1, PageFacts
  <2>4. Kept(r)'
    BY <1>5, <1>7, <1>9, <1>11, <2>2, <1>2, <1>3 DEF Kept, WalkOf
  <2>5. Cut(r)'
    <3>1. \A u \in User : Listed(r, u)' =>
            cursor'[r] # None /\ (u = cursor'[r] \/ Older(cursor'[r], u))
      BY <1>7, <1>12, <2>2, <2>3
    <3>2. \A u \in witness[r] \cap Active :
            Listed(r, u)' \/ cursor'[r] = None \/ Older(u, cursor'[r])
      BY <1>7, <1>11, <1>14, <2>2, <2>3
    <3> QED BY <1>2, <1>8, <1>9, <3>1, <3>2 DEF Cut
  <2>6. Complete(r)'
    BY <2>2 DEF Complete
  <2> QED BY <1>13, <2>4, <2>5, <2>6 DEF WalkOf
<1>16. CASE Cardinality(page) < Limit /\ Goto(r, "listed") /\ UNCHANGED cursor
  <2>1. step'[r] = "listed" /\ cursor'[r] = cursor[r]
    BY <1>16 DEF Goto, Inv, Types
  <2>2. page = After(cursor[r])
    BY <1>1, <1>16, PageFacts
  <2>3. Kept(r)'
    BY <1>5, <1>7, <1>9, <1>11, <2>1, <1>2, <1>3 DEF Kept, WalkOf
  <2>4. Cut(r)'
    BY <2>1 DEF Cut
  <2>5. Complete(r)'
    BY <1>2, <1>7, <1>9, <1>11, <1>14, <2>2 DEF Complete
  <2> QED BY <1>13, <2>3, <2>4, <2>5 DEF WalkOf
<1> QED BY <1>1, <1>15, <1>16

LEMMA WalkStep == Inv /\ WalkInv /\ [Next]_vars => WalkInv'
<1> SUFFICES ASSUME Inv, WalkInv, [Next]_vars PROVE WalkInv'
  OBVIOUS
<1>1. Types'
  BY TypesStep
<1>2. ASSUME NEW r \in Request, NextPage(r) PROVE WalkInv'
  <2>1. ASSUME NEW q \in Request \ {r} PROVE WalkOf(q)'
    <3>1. /\ pages'[q] = pages[q] /\ cursor'[q] = cursor[q] /\ witness'[q] = witness[q]
          /\ step'[q] = step[q]
      BY <1>2 DEF NextPage, Goto, Inv, Types
    <3> QED BY <3>1, Undisturbed
  <2> QED BY <1>1, <1>2, <2>1, NextPageWalk DEF WalkInv
<1>3. ASSUME NEW r \in Request, BeginWalk(r) PROVE WalkInv'
  <2>1. ASSUME NEW q \in Request \ {r} PROVE WalkOf(q)'
    <3>1. /\ pages'[q] = pages[q] /\ cursor'[q] = cursor[q] /\ witness'[q] = witness[q]
          /\ step'[q] = step[q]
      BY <1>3 DEF BeginWalk, Goto, Inv, Types
    <3> QED BY <3>1, Undisturbed
  <2>2. WalkOf(r)'
    <3>1. pages[r] = << >> /\ cursor[r] = None
      BY <1>3 DEF BeginWalk, WalkInv, WalkOf, Kept
    <3>2. pages'[r] = << >> /\ cursor'[r] = None /\ step'[r] = "walk"
      BY <1>3, <3>1 DEF BeginWalk, Goto, Inv, Types
    <3>3. witness'[r] \subseteq Past'
      BY <1>3 DEF BeginWalk, Inv, Types, ActiveUsers, Active, Past, tableVars
    <3>4. Len(pages'[r]) = 0 /\ \A i : i \notin 1..0
      BY <3>2
    <3>5. \A u \in User : ~Listed(r, u)'
      BY <3>4 DEF Listed
    <3> QED BY <3>2, <3>3, <3>4, <3>5 DEF WalkOf, Kept, InOrder, Cut, Complete
  <2> QED BY <2>1, <2>2 DEF WalkInv
<1>4. ASSUME UNCHANGED walkVars,
             \A r \in Request : step'[r] \in {"new", "walk", "listed"} => step'[r] = step[r]
      PROVE  WalkInv'
  BY <1>4, Undisturbed DEF WalkInv, walkVars
<1>5. ASSUME UNCHANGED walkVars,
             \E r \in Request, s \in ({"new"} \cup AtWork \cup Answer) \ {"new", "walk", "listed"} :
                Goto(r, s)
      PROVE  WalkInv'
  BY <1>4, <1>5 DEF Goto, Inv, Types
<1>6. CASE UNCHANGED <<walkVars, step>>
  BY <1>4, <1>6
<1> USE DEF AtWork, Answer, InTransaction
<1>7. ASSUME NEW r \in Request, NEW e \in Email, Register(r, e) PROVE WalkInv'
  BY <1>5, <1>7 DEF Register
<1>8. ASSUME NEW r \in Request, RefuseTaken(r) \/ Insert(r) \/ Commit(r) PROVE WalkInv'
  BY <1>5, <1>8 DEF RefuseTaken, Insert, Commit
<1>9. ASSUME NEW r \in Request, NEW k \in Key, CreateKey(r, k) PROVE WalkInv'
  BY <1>5, <1>9 DEF CreateKey
<1>10. ASSUME NEW r \in Request, NEW x, SoftDelete(r, x) PROVE WalkInv'
  BY <1>5, <1>10 DEF SoftDelete
<1>11. ASSUME NEW r \in Request, Update(r) \/ UpdateNothing(r) \/ CommitDelete(r) PROVE WalkInv'
  BY <1>5, <1>11 DEF Update, UpdateNothing, CommitDelete
<1>12. ASSUME NEW r \in Request, Fail(r) PROVE WalkInv'
  BY <1>5, <1>12 DEF Fail
<1>13. CASE Tick
  BY <1>6, <1>13 DEF Tick
<1>14. CASE UNCHANGED vars
  BY <1>6, <1>14 DEF vars, walkVars
<1> QED BY <1>2, <1>3, <1>7, <1>8, <1>9, <1>10, <1>11, <1>12, <1>13, <1>14
        DEF Next, DeactivateUser, RevokeKey

-----------------------------------------------------------------------------
(* Theorems *)

LEMMA InitInv == Init => Inv
<1> SUFFICES ASSUME Init PROVE Inv
  OBVIOUS
<1>1. Types
  BY AccountsAssumption DEF Init, Types, Status
<1> QED BY <1>1, RowFacts DEF Init, Inv, Locked, Locks, Deleted, OneEntry, Staged

LEMMA Invariant == Spec => []Inv
BY InitInv, StepInv, PTL DEF Spec

\* Every variable keeps its type, and a locked row is that of a request in a
\* transaction.
THEOREM AccountsTypeCorrect == Spec => []TypeOK
<1>1. Inv => TypeOK
  BY DEF Inv, Types, Locked, TypeOK
<1> QED BY <1>1, Invariant, PTL

\* An address has one active account, and a registration's event is staged if and
\* only if its row is committed.
THEOREM EmailsAreUnique == Spec => []OneAccountPerEmail
<1>1. Inv => OneAccountPerEmail
  BY RowFacts DEF Inv, OneEntry, Staged, OneAccountPerEmail, ActiveUsers, Active
<1> QED BY <1>1, Invariant, PTL

\* One request at most is told that it deleted a row, and the row stays deleted.
THEOREM RowsAreDeletedOnce == Spec => []DeletedOnce
<1>1. Inv => DeletedOnce
  BY DEF Inv, Deleted, DeletedOnce
<1> QED BY <1>1, Invariant, PTL

\* Whatever is registered and deactivated between its pages, a walk lists nobody
\* twice, in the order of the keyset, and by its end whoever was active throughout.
THEOREM WalksListEachOnce == Spec => []WalkListsEachOnce
<1>1. Init => WalkInv
  BY DEF Init, WalkInv, WalkOf, Kept, InOrder, Cut, Complete, Listed
<1>2. Inv /\ WalkInv => WalkListsEachOnce
  BY DEF WalkInv, WalkOf, InOrder, Complete, Listed, WalkListsEachOnce
<1> QED BY <1>1, <1>2, WalkStep, Invariant, PTL DEF Spec
=============================================================================
