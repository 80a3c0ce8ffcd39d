---------------------------- MODULE TokenLifecycle ----------------------------
(***************************************************************************)
(* The JWT side of the auth context in litestar_backend: pairs issued to   *)
(* an administrator or at login, rotated by /auth/refresh, revoked by      *)
(* /auth/revoke, checked on every request, and users who are deactivated.  *)
(*                                                                         *)
(* A token is valid until its exp claim, in whole seconds, unless its jti  *)
(* is in the Valkey denylist, whose entries live for whole seconds too.    *)
(* Verification is synchronous; each look at the denylist or at the users  *)
(* table is a step of its own, and time passes between any two steps.      *)
(***************************************************************************)
EXTENDS Integers, Sequences, FiniteSets

CONSTANTS
    User,         \* registered users
    Request,      \* requests to the auth endpoints, or with a bearer token
    None,         \* no user, no token
    Ticks,        \* instants of the clock in a second
    AccessTtl,    \* jwt_access_ttl_seconds
    RefreshTtl,   \* jwt_refresh_ttl_seconds
    MaxClock,     \* bound on the clock
    MaxFaults     \* bound on PortErrors and aborted requests

\* A pair is one access and one refresh token, both with a jti of their own.
TokenType == {"access", "refresh"}
Token == [pair : 1..Cardinality(Request), type : TokenType]

ASSUME TokenLifecycleAssumption ==
    /\ IsFiniteSet(Request)
    /\ None \notin User \cup Token
    /\ Ticks \in Nat \ {0} /\ AccessTtl \in Nat \ {0} /\ RefreshTtl \in Nat \ {0}
    /\ MaxClock \in Nat /\ MaxFaults \in Nat

VARIABLES
    clock,      \* the time, in ticks
    pairs,      \* the pairs issued, in order
    denylist,   \* when the denylist entry of each token ends; 0 without one
    active,     \* the users whose deleted_at is null
    step,       \* where each request is
    token,      \* the token it presents
    subject,    \* the user it acts for
    ttl,        \* the seconds of life it found left in its token
    revoked,    \* history: the tokens some request has put on the denylist
    late,       \* history: what had already been withdrawn when it came in
    faults      \* faults so far

requestVars == <<step, token, subject, ttl>>
vars == <<clock, pairs, denylist, active, step, token, subject, ttl, revoked, late, faults>>

\* The tokens there are so far: those of the n-th pair are numbered n.
Issued == {t \in Token : t.pair <= Len(pairs)}

Lifetime(t) == Ticks * (IF t.type = "access" THEN AccessTtl ELSE RefreshTtl)

\* The exp claim: the instant is cut to whole seconds.
ExpiresAt(t) == ((pairs[t.pair].at + Lifetime(t)) \div Ticks) * Ticks

\* verify: the signature is not modelled, only exp can fail.
Verifies(t) == ExpiresAt(t) > clock

\* contains: an entry whose time is over is gone.
Denied(t) == denylist[t] > clock

Goto(r, s) == step' = [step EXCEPT ![r] = s]
Refuse(r) == Goto(r, "refused")

-----------------------------------------------------------------------------
(* Requests *)

\* What has been withdrawn by now from a request for token t of user u.
Withdrawn(t, u) ==
    (IF t \in revoked THEN {"token"} ELSE {})
        \cup (IF u \in User \ active THEN {"user"} ELSE {})

Arrive(r, t, u, s) ==
    /\ step[r] = "new"
    /\ Goto(r, s)
    /\ token' = [token EXCEPT ![r] = t]
    /\ subject' = [subject EXCEPT ![r] = u]
    /\ late' = [late EXCEPT ![r] = Withdrawn(t, u)]

UserOf(t) == pairs[t.pair].user

\* Mutant of Login: the account is found whether or not it was deactivated.
LoginAnybody(r, u) ==
    /\ Arrive(r, None, u, "issue")
    /\ UNCHANGED <<clock, pairs, denylist, active, ttl, revoked, faults>>

\* /auth/login: the credentials of an active user; the password is right.
Login(r, u) ==
    /\ Arrive(r, None, u, IF u \in active THEN "issue" ELSE "refused")
    /\ UNCHANGED <<clock, pairs, denylist, active, ttl, revoked, faults>>

\* /auth/token: an administrator mints a pair that names no user, and waits
\* for nothing.
IssueTokens(r) ==
    /\ Arrive(r, None, None, "issued")
    /\ pairs' = Append(pairs, [user |-> None, at |-> clock, parent |-> None])
    /\ UNCHANGED <<clock, denylist, active, ttl, revoked, faults>>

\* /auth/refresh: a refresh token is verified first.
Refresh(r, t) ==
    /\ t.type = "refresh"
    /\ Arrive(r, t, UserOf(t), IF Verifies(t) THEN "check" ELSE "refused")
    /\ UNCHANGED <<clock, pairs, denylist, active, ttl, revoked, faults>>

\* A request with a bearer token: an access token is verified first.
Authenticate(r, t) ==
    /\ t.type = "access"
    /\ Arrive(r, t, UserOf(t), IF Verifies(t) THEN "lookup" ELSE "refused")
    /\ UNCHANGED <<clock, pairs, denylist, active, ttl, revoked, faults>>

\* Mutant of Seconds: int() instead of ceil().
SecondsCut(n) == n \div Ticks

\* ceil(): the whole seconds that cover n ticks.
Seconds(n) == (n + Ticks - 1) \div Ticks

SecondsLeft(t) == Seconds(ExpiresAt(t) - clock)

\* /auth/revoke: a token of any type; one that does not verify is a no-op.
Revoke(r, t) ==
    /\ Arrive(r, t, UserOf(t), IF Verifies(t) THEN "revoke" ELSE "revoked")
    /\ ttl' = [ttl EXCEPT ![r] = SecondsLeft(t)]
    /\ UNCHANGED <<clock, pairs, denylist, active, revoked, faults>>

\* The resolver's look at the denylist.
Lookup(r) ==
    /\ step[r] = "lookup"
    /\ Goto(r, IF Denied(token[r]) THEN "refused" ELSE "granted")
    /\ UNCHANGED <<clock, pairs, denylist, active, token, subject, ttl, revoked, late, faults>>

\* Mutant of CheckDenylist: a token is looked up only when it names a user.
CheckDenylistOfUsers(r) ==
    /\ step[r] = "check"
    /\ Goto(r, IF subject[r] = None THEN "left"
               ELSE IF Denied(token[r]) THEN "refused" ELSE "user")
    /\ UNCHANGED <<clock, pairs, denylist, active, token, subject, ttl, revoked, late, faults>>

\* The refresh's look at the denylist; only a user's pair goes on to the users.
CheckDenylist(r) ==
    /\ step[r] = "check"
    /\ Goto(r, IF Denied(token[r]) THEN "refused"
               ELSE IF subject[r] = None THEN "left" ELSE "user")
    /\ UNCHANGED <<clock, pairs, denylist, active, token, subject, ttl, revoked, late, faults>>

\* is_active: a deactivated user's refresh token is refused.
CheckActive(r) ==
    /\ step[r] = "user"
    /\ Goto(r, IF subject[r] \in active THEN "left" ELSE "refused")
    /\ UNCHANGED <<clock, pairs, denylist, active, token, subject, ttl, revoked, late, faults>>

\* The refresh resumes and reads the clock again; its token may have expired.
MeasureLife(r) ==
    /\ step[r] = "left"
    /\ ttl' = [ttl EXCEPT ![r] = SecondsLeft(token[r])]
    /\ Goto(r, "rotate")
    /\ UNCHANGED <<clock, pairs, denylist, active, token, subject, revoked, late, faults>>

\* denylist.add: SET with the seconds as EX, or nothing when none are left.
AddToDenylist(r) ==
    /\ step[r] \in {"rotate", "revoke"}
    /\ denylist' = IF ttl[r] > 0
                     THEN [denylist EXCEPT ![token[r]] = clock + ttl[r] * Ticks]
                     ELSE denylist
    /\ revoked' = revoked \cup {token[r]}
    /\ Goto(r, IF step[r] = "rotate" THEN "issue" ELSE "revoked")
    /\ UNCHANGED <<clock, pairs, active, token, subject, ttl, late, faults>>

\* Mutant of IssuePair: the rotation is open for another answer.
IssuePairAgain(r) ==
    /\ step[r] = "issue"
    /\ pairs' = Append(pairs, [user |-> subject[r], at |-> clock, parent |-> token[r]])
    /\ UNCHANGED <<clock, denylist, active, requestVars, revoked, late, faults>>

\* issue_pair, for the user of the login or of the rotated token.
IssuePair(r) ==
    /\ step[r] = "issue"
    /\ pairs' = Append(pairs, [user |-> subject[r], at |-> clock, parent |-> token[r]])
    /\ Goto(r, "issued")
    /\ UNCHANGED <<clock, denylist, active, token, subject, ttl, revoked, late, faults>>

\* A PortError, or the request is gone: a 503, or anonymous.  In "issue" the
\* denylist entry was made without the reply arriving.
Fail(r) ==
    /\ step[r] \in {"lookup", "check", "user", "rotate", "revoke", "issue"}
    /\ faults < MaxFaults
    /\ faults' = faults + 1
    /\ Refuse(r)
    /\ UNCHANGED <<clock, pairs, denylist, active, token, subject, ttl, revoked, late>>

\* DELETE /auth/users/{id}.
Deactivate(u) ==
    /\ u \in active
    /\ active' = active \ {u}
    /\ UNCHANGED <<clock, pairs, denylist, requestVars, revoked, late, faults>>

Tick ==
    /\ clock < MaxClock
    /\ clock' = clock + 1
    /\ UNCHANGED <<pairs, denylist, active, requestVars, revoked, late, faults>>

-----------------------------------------------------------------------------
Init ==
    /\ clock = 0
    /\ pairs = <<>>
    /\ denylist = [t \in Token |-> 0]
    /\ active = User
    /\ step = [r \in Request |-> "new"]
    /\ token = [r \in Request |-> None]
    /\ subject = [r \in Request |-> None]
    /\ ttl = [r \in Request |-> 0]
    /\ revoked = {}
    /\ late = [r \in Request |-> {}]
    /\ faults = 0

RefreshStep(r) == CheckDenylist(r) \/ CheckActive(r) \/ MeasureLife(r)

Next ==
    \/ \E r \in Request :
          \/ \E u \in User : Login(r, u)
          \/ IssueTokens(r)
          \/ \E t \in Issued : Refresh(r, t) \/ Authenticate(r, t) \/ Revoke(r, t)
          \/ Lookup(r) \/ RefreshStep(r) \/ AddToDenylist(r) \/ IssuePair(r)
          \/ Fail(r)
    \/ \E u \in User : Deactivate(u)
    \/ Tick

Spec == Init /\ [][Next]_vars

-----------------------------------------------------------------------------
(* Properties *)

InRequest == {"lookup", "check", "user", "left", "rotate", "revoke", "issue"}
Answered == {"issued", "granted", "refused", "revoked"}

\* Every variable has its type.
TypeOK ==
    /\ clock \in 0..MaxClock
    /\ pairs \in Seq([user : User \cup {None}, at : 0..MaxClock, parent : Token \cup {None}])
    /\ Len(pairs) <= Cardinality({r \in Request : step[r] = "issued"})
    /\ denylist \in [Token -> Nat]
    /\ active \subseteq User
    /\ step \in [Request -> {"new"} \cup InRequest \cup Answered]
    /\ token \in [Request -> Token \cup {None}]
    /\ subject \in [Request -> User \cup {None}]
    /\ ttl \in [Request -> Int]
    /\ revoked \subseteq Issued
    /\ late \in [Request -> SUBSET {"token", "user"}]
    /\ faults \in 0..MaxFaults

\* A revoked token is on the denylist up to the last instant at which it would
\* still verify, however its life falls between whole seconds, and a token that was
\* traded for a pair is a revoked one: a refresh that fails half way leaves the
\* client without a pair, never with two tokens that can be traded.
RevokedUntilExpiry ==
    /\ \A t \in revoked : Verifies(t) => Denied(t)
    /\ \A i \in 1..Len(pairs) : pairs[i].parent \in revoked \cup {None}

\* The steps of a request whose token was not found on the denylist.
Accepted == {"user", "left", "rotate", "issue", "issued", "granted"}

\* What comes in with a token that has been revoked or rotated gets nothing,
\* whatever else is going on.  One gap is left: a token that expires between its
\* verification and the look at the denylist, whose entry is gone by then too.
RevokedIsRefused ==
    \A r \in Request :
        "token" \in late[r] /\ step[r] \in Accepted => ~Verifies(token[r])

\* deactivate_user's docstring: login and refresh are blocked immediately, for
\* every request that comes in after the deactivation.
DeactivationBlocks ==
    \A r \in Request : "user" \in late[r] => step[r] \notin {"issue", "issued"}

\* A request that comes in when its token or its user has been withdrawn is
\* refused, whatever the requests that were under way then still do.
WithdrawnIsRefused == RevokedIsRefused /\ DeactivationBlocks

\* No request of user u is past the check that would have refused it.
NobodyPast(u) ==
    u \notin active /\ \A r \in Request : subject[r] = u =>
        step[r] \notin {"left", "rotate", "issue"}

\* Deactivation ends the chain of refreshes: once the requests that had passed
\* the check are over, no pair of that user is issued again.
DeactivationEndsTheChain ==
    [][\A u \in User : NobodyPast(u) =>
          /\ NobodyPast(u)'
          /\ \A i \in 1..Len(pairs') : pairs'[i].user = u => i <= Len(pairs)]_vars

=============================================================================
