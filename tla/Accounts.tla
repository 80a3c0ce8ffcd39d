------------------------------- MODULE Accounts -------------------------------
(***************************************************************************)
(* The tables of the auth context in litestar_backend: users, who register *)
(* under an email address and are deactivated by an administrator, and API *)
(* keys, which are minted and revoked. Rows are never removed: deleted_at  *)
(* is set, and a partial unique index keeps one active row per address.    *)
(*                                                                         *)
(* Each write is a transaction of its own that is open for a while: other  *)
(* writers of the row, or of the address, wait for its outcome; readers do *)
(* not see it. Administrators walk through the users page by page, newest  *)
(* first, each page being a query of its own that starts at a keyset.      *)
(***************************************************************************)
EXTENDS Integers, Sequences, FiniteSets

CONSTANTS
    User,       \* ids of user rows, in the order of their UUIDs
    Key,        \* ids of API keys
    Email,      \* normalized addresses
    Request,    \* requests to the endpoints of the two tables
    None,       \* no request, no row, no address
    Limit,      \* the page size a client asks for
    MaxNow,     \* bound on the clock
    MaxFaults   \* bound on PortErrors

Row == User \cup Key

ASSUME AccountsAssumption ==
    /\ User \subseteq Nat /\ IsFiniteSet(User) /\ User \cap Key = {}
    /\ None \notin Row \cup Email \cup Request
    /\ Limit \in Nat \ {0} /\ MaxNow \in Nat /\ MaxFaults \in Nat

VARIABLES
    status,     \* what each row is to a reader; "inserted" is not committed
    holder,     \* the request whose open transaction has written the row
    email,      \* the users' addresses
    created,    \* their created_at: when the inserting transaction began
    outbox,     \* the users whose user_registered event is staged
    now,        \* the database's clock
    step,       \* where each request is
    row,        \* the row it is about
    mail,       \* the address it registers
    cursor,     \* the last user of a walk's last page
    pages,      \* the pages a walk has returned
    witness,    \* history: the users who were active when the walk began
    faults      \* faults so far

tableVars == <<status, holder, email, created, outbox>>
walkVars == <<cursor, pages, witness>>
vars == <<tableVars, walkVars, now, step, row, mail, faults>>

Status == {"free", "inserted", "active", "deleted"}
InTransaction == {"commit", "commit_delete"}
AtWork == {"insert", "update", "walk"} \cup InTransaction
Answer == {"created", "taken", "deleted", "missing", "listed", "error"}

Goto(r, s) == step' = [step EXCEPT ![r] = s]

Active == {x \in Row : status[x] = "active"}
ActiveUsers == User \cap Active

-----------------------------------------------------------------------------
(* Registration *)

Register(r, e) ==
    /\ step[r] = "new"
    /\ Goto(r, "insert")
    /\ mail' = [mail EXCEPT ![r] = e]
    /\ UNCHANGED <<tableVars, walkVars, now, row, faults>>

\* Mutant for OneAccountPerEmail: look for the address instead of relying on the index.
EntriesRead(e) == {u \in ActiveUsers : email[u] = e}

\* The entries of ix_users_active_email for an address, committed or not.
Entries(e) == {u \in User : email[u] = e /\ status[u] \in {"inserted", "active"}}

\* The INSERT waits while a transaction is open that may add or remove an entry.
MustWait(e) == \E u \in Entries(e) : holder[u] # None

RefuseTaken(r) ==
    /\ step[r] = "insert"
    /\ Entries(mail[r]) # {}
    /\ ~MustWait(mail[r])
    /\ Goto(r, "taken")
    /\ UNCHANGED <<tableVars, walkVars, now, row, mail, faults>>

\* now() is the beginning of the transaction, before any wait.
Insert(r) ==
    /\ step[r] = "insert"
    /\ Entries(mail[r]) = {}
    /\ \E u \in User :
        /\ status[u] = "free"
        /\ status' = [status EXCEPT ![u] = "inserted"]
        /\ holder' = [holder EXCEPT ![u] = r]
        /\ email' = [email EXCEPT ![u] = mail[r]]
        /\ \E began \in 0..now : created' = [created EXCEPT ![u] = began]
        /\ row' = [row EXCEPT ![r] = u]
    /\ Goto(r, "commit")
    /\ UNCHANGED <<outbox, walkVars, now, mail, faults>>

\* The user and the event become visible together.
Reveal(u) ==
    /\ status' = [status EXCEPT ![u] = "active"]
    /\ holder' = [holder EXCEPT ![u] = None]
    /\ outbox' = outbox \cup {u}

Commit(r) ==
    /\ step[r] = "commit"
    /\ Reveal(row[r])
    /\ Goto(r, "created")
    /\ UNCHANGED <<email, created, walkVars, now, row, mail, faults>>

\* A key is a fresh random value: nothing can conflict with its INSERT.
CreateKey(r, k) ==
    /\ step[r] = "new"
    /\ status[k] = "free"
    /\ status' = [status EXCEPT ![k] = "active"]
    /\ row' = [row EXCEPT ![r] = k]
    /\ Goto(r, "created")
    /\ UNCHANGED <<holder, email, created, outbox, walkVars, now, mail, faults>>

-----------------------------------------------------------------------------
(* Deactivation of a user, revocation of a key *)

\* A 204 or a 404 is all either endpoint answers.
SoftDelete(r, x) ==
    /\ step[r] = "new"
    /\ Goto(r, "update")
    /\ row' = [row EXCEPT ![r] = x]
    /\ UNCHANGED <<tableVars, walkVars, now, mail, faults>>

DeactivateUser(r, u) == SoftDelete(r, u)
RevokeKey(r, k) == SoftDelete(r, k)

\* Mutant for DeletedOnce: the row is not looked at again after the wait.
UpdateAfterWait(r) ==
    /\ step[r] = "update"
    /\ status[row[r]] \in {"active", "deleted"}
    /\ holder[row[r]] = None
    /\ holder' = [holder EXCEPT ![row[r]] = r]
    /\ Goto(r, "commit_delete")
    /\ UNCHANGED <<status, email, created, outbox, walkVars, now, row, mail, faults>>

\* UPDATE ... WHERE deleted_at IS NULL, which waits for another writer of the
\* row and looks at the row again afterwards.
Update(r) ==
    /\ step[r] = "update"
    /\ row[r] \in Active
    /\ holder[row[r]] = None
    /\ holder' = [holder EXCEPT ![row[r]] = r]
    /\ Goto(r, "commit_delete")
    /\ UNCHANGED <<status, email, created, outbox, walkVars, now, row, mail, faults>>

\* rowcount is 0: UserNotFound or ApiKeyNotFound.
UpdateNothing(r) ==
    /\ step[r] = "update"
    /\ row[r] \notin Active
    /\ Goto(r, "missing")
    /\ UNCHANGED <<tableVars, walkVars, now, row, mail, faults>>

CommitDelete(r) ==
    /\ step[r] = "commit_delete"
    /\ status' = [status EXCEPT ![row[r]] = "deleted"]
    /\ holder' = [holder EXCEPT ![row[r]] = None]
    /\ Goto(r, "deleted")
    /\ UNCHANGED <<email, created, outbox, walkVars, now, row, mail, faults>>

-----------------------------------------------------------------------------
(* Listing the users *)

\* Mutant for WalkListsEachOnce: the id does not break ties.
OlderByTime(u, v) == created[u] < created[v]

\* keyset_older_than: row values are compared lexicographically.
Older(u, v) ==
    \/ created[u] < created[v]
    \/ created[u] = created[v] /\ u < v

\* The rows a page is cut from.
After(c) == {u \in ActiveUsers : c = None \/ Older(u, c)}

\* ORDER BY ... DESC LIMIT: the newest of them, as many as there are up to Limit.
IsPage(page, rows) ==
    /\ Cardinality(page) = (IF Cardinality(rows) < Limit THEN Cardinality(rows) ELSE Limit)
    /\ \A u \in page, v \in rows \ page : ~Older(u, v)

BeginWalk(r) ==
    /\ step[r] = "new"
    /\ Goto(r, "walk")
    /\ witness' = [witness EXCEPT ![r] = ActiveUsers]
    /\ UNCHANGED <<tableVars, cursor, pages, now, row, mail, faults>>

\* A full page carries a cursor, also when nothing is left behind it; a client
\* goes on as long as there is one.
NextPage(r) ==
    /\ step[r] = "walk"
    /\ \E page \in SUBSET After(cursor[r]) :
        /\ IsPage(page, After(cursor[r]))
        /\ pages' = [pages EXCEPT ![r] = Append(@, page)]
        /\ \/ /\ Cardinality(page) = Limit
              /\ \E last \in page :
                    /\ \A u \in page \ {last} : ~Older(u, last)
                    /\ cursor' = [cursor EXCEPT ![r] = last]
              /\ UNCHANGED step
           \/ /\ Cardinality(page) < Limit
              /\ Goto(r, "listed")
              /\ UNCHANGED cursor
    /\ UNCHANGED <<tableVars, witness, now, row, mail, faults>>

-----------------------------------------------------------------------------
(* Faults and the clock *)

\* Mutant for TypeOK: the error is answered and the transaction is left open.
FailWithoutRollback(r) ==
    /\ step[r] \in AtWork
    /\ faults < MaxFaults
    /\ faults' = faults + 1
    /\ Goto(r, "error")
    /\ UNCHANGED <<tableVars, walkVars, now, row, mail>>

\* PortError: an open transaction is rolled back, or its commit took effect and
\* only the answer was lost.
Fail(r) ==
    /\ step[r] \in AtWork
    /\ faults < MaxFaults
    /\ faults' = faults + 1
    /\ Goto(r, "error")
    /\ LET x == row[r] IN
       \/ /\ step[r] \in InTransaction
          /\ status' = [status EXCEPT ![x] = IF @ = "inserted" THEN "free" ELSE @]
          /\ holder' = [holder EXCEPT ![x] = None]
          /\ UNCHANGED outbox
       \/ step[r] = "commit" /\ Reveal(x)
       \/ /\ step[r] = "commit_delete"
          /\ status' = [status EXCEPT ![x] = "deleted"]
          /\ holder' = [holder EXCEPT ![x] = None]
          /\ UNCHANGED outbox
       \/ step[r] \notin InTransaction /\ UNCHANGED <<status, holder, outbox>>
    /\ UNCHANGED <<email, created, walkVars, now, row, mail>>

Tick ==
    /\ now < MaxNow
    /\ now' = now + 1
    /\ UNCHANGED <<tableVars, walkVars, step, row, mail, faults>>

-----------------------------------------------------------------------------
(* Specification *)

Init ==
    /\ status = [x \in Row |-> "free"]
    /\ holder = [x \in Row |-> None]
    /\ email = [u \in User |-> None]
    /\ created = [u \in User |-> 0]
    /\ outbox = {}
    /\ now = 0
    /\ step = [r \in Request |-> "new"]
    /\ row = [r \in Request |-> None]
    /\ mail = [r \in Request |-> None]
    /\ cursor = [r \in Request |-> None]
    /\ pages = [r \in Request |-> << >>]
    /\ witness = [r \in Request |-> {}]
    /\ faults = 0

Next ==
    \/ \E r \in Request, e \in Email : Register(r, e)
    \/ \E r \in Request : RefuseTaken(r) \/ Insert(r) \/ Commit(r)
    \/ \E r \in Request, k \in Key : CreateKey(r, k)
    \/ \E r \in Request, u \in User : DeactivateUser(r, u)
    \/ \E r \in Request, k \in Key : RevokeKey(r, k)
    \/ \E r \in Request : Update(r) \/ UpdateNothing(r) \/ CommitDelete(r)
    \/ \E r \in Request : BeginWalk(r) \/ NextPage(r)
    \/ \E r \in Request : Fail(r)
    \/ Tick

Spec == Init /\ [][Next]_vars

-----------------------------------------------------------------------------
(* Properties *)

\* Every variable ranges over what the code can put there; a row is locked by one
\* request, which is in a transaction on that row.
TypeOK ==
    /\ \A x \in Row : holder[x] # None => step[holder[x]] \in InTransaction /\ row[holder[x]] = x
    /\ status \in [Row -> Status]
    /\ holder \in [Row -> Request \cup {None}]
    /\ email \in [User -> Email \cup {None}]
    /\ created \in [User -> 0..MaxNow]
    /\ outbox \in SUBSET User
    /\ now \in 0..MaxNow
    /\ step \in [Request -> {"new"} \cup AtWork \cup Answer]
    /\ row \in [Request -> Row \cup {None}]
    /\ mail \in [Request -> Email \cup {None}]
    /\ cursor \in [Request -> User \cup {None}]
    /\ pages \in [Request -> Seq(SUBSET User)]
    /\ witness \in [Request -> SUBSET User]
    /\ faults \in 0..MaxFaults

\* There is one active account per address, through registrations that race each
\* other, a deactivation or their own failure; and the event of a registration
\* is staged exactly for the users whose row is committed.
OneAccountPerEmail ==
    /\ \A u, v \in ActiveUsers : email[u] = email[v] => u = v
    /\ outbox = {u \in User : status[u] \in {"active", "deleted"}}

\* Of all the requests that delete a row, at most one is told that it did, and
\* the row stays deleted.
DeletedOnce ==
    \A r \in Request : step[r] = "deleted" =>
        /\ status[row[r]] = "deleted"
        /\ \A q \in Request \ {r} : step[q] = "deleted" => row[q] # row[r]

\* Whatever is registered and deactivated between two pages, a walk returns the
\* users in the order of the keyset, nobody twice, and by its end everybody who
\* has been active all along.
WalkListsEachOnce ==
    \A r \in Request :
        /\ \A i, j \in 1..Len(pages[r]) : i < j =>
            \A u \in pages[r][i], v \in pages[r][j] : Older(v, u)
        /\ step[r] = "listed" =>
            \A u \in witness[r] \cap Active : \E i \in 1..Len(pages[r]) : u \in pages[r][i]

=============================================================================
