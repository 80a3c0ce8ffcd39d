----------------------------- MODULE AdminSession -----------------------------
(***************************************************************************)
(* Who gets to see the guarded pages of litestar_backend: the middleware   *)
(* that turns a credential into a principal, the require_role guard, the   *)
(* handlers that answer 401 and 403, and the login form that stores an     *)
(* administrator's credential in a cookie which all the tabs share.        *)
(*                                                                         *)
(* A JWT is verified when the request comes in and then looked up in the   *)
(* denylist, an API key in the database.  Either store can be out of       *)
(* reach, credentials are revoked and tokens expire at any moment, and the *)
(* other tabs and clients act in between.                                  *)
(***************************************************************************)
EXTENDS Integers, FiniteSets

CONSTANTS
    Tab,         \* tabs of one browser
    Script,      \* clients that send an Authorization header and no cookie
    Page,        \* guarded paths under /admin
    Api,         \* guarded paths under /api/v1/admin
    Elsewhere,   \* guarded paths that are neither
    Dashboard,   \* the page behind the login form by default
    Jwt,         \* access tokens
    ApiKey,      \* API keys
    Static,      \* the static admin token, compared in memory
    Admins,      \* the credentials that carry Role.ADMIN
    None,        \* no credential, no path
    MaxVisits,   \* bound on what users do
    MaxFaults    \* bound on PortErrors

Actor == Tab \cup Script
Path == Page \cup Api \cup Elsewhere
Credential == Jwt \cup ApiKey \cup Static

ASSUME AdminSessionAssumption ==
    /\ Tab \cap Script = {}
    /\ Page \cap (Api \cup Elsewhere) = {} /\ Api \cap Elsewhere = {}
    /\ Dashboard \in Page
    /\ Jwt \cap (ApiKey \cup Static) = {} /\ ApiKey \cap Static = {}
    /\ Static \subseteq Admins /\ Admins \subseteq Credential
    /\ None \notin Credential \cup Path
    /\ MaxVisits \in Nat /\ MaxFaults \in Nat

VARIABLES
    cookie,     \* the browser's admin_token
    revoked,    \* the JWTs that were put on the denylist, the API keys deleted
    expired,    \* the JWTs that do not verify any more
    at,         \* where each actor is
    want,       \* the path its request is for
    sent,       \* the credential it presents
    role,       \* the role of the principal the middleware made of it
    next,       \* the next field of its login form
    goal,       \* history: the path the user set out for
    was,        \* history: what the credential was when the request came in
    visits,     \* what users have done so far
    faults      \* faults so far

requestVars == <<at, want, sent, role, was>>
standing == <<revoked, expired>>
vars == <<cookie, standing, at, want, sent, role, next, goal, was, visits, faults>>

InRequest == {"lookup", "guard", "redirected", "login", "check", "accepted", "logout"}
AtRest == {"idle", "shown", "form", "forbidden", "unauthorized", "denied",
           "throttled", "unavailable"}

Goto(a, s) == at' = [at EXCEPT ![a] = s]

\* A user does something only while nothing of theirs is under way.
UserActs(a) ==
    /\ at[a] \in AtRest
    /\ visits < MaxVisits
    /\ visits' = visits + 1

-----------------------------------------------------------------------------
(* A request for a guarded path *)

\* _extract_token: the header comes first, the cookie counts on the admin
\* surface only.
Extract(a, p, header) ==
    IF header # None THEN header
    ELSE IF a \in Tab /\ p \in Page \cup Api THEN cookie
    ELSE None

\* JwtService.verify, before the first await: an API key or the static token has no
\* life of its own.
Verifies(c) == c \notin expired

StandingOf(c) == IF c \in expired THEN "expired" ELSE IF c \in revoked THEN "revoked" ELSE "valid"

\* Without a credential, or with a token that has expired, there is nothing to look up.
Send(a, p, c) ==
    /\ Goto(a, IF c = None \/ ~Verifies(c) THEN "guard" ELSE "lookup")
    /\ want' = [want EXCEPT ![a] = p]
    /\ sent' = [sent EXCEPT ![a] = c]
    /\ role' = [role EXCEPT ![a] = "unknown"]
    /\ was' = [was EXCEPT ![a] = StandingOf(c)]

Visit(a, p) ==
    /\ UserActs(a)
    /\ \E header \in IF a \in Script THEN Credential \cup {None} ELSE {None} :
           Send(a, p, Extract(a, p, header))
    /\ goal' = [goal EXCEPT ![a] = p]
    /\ UNCHANGED <<cookie, standing, next, faults>>

\* denylist.contains, which has an await: an entry lasts as long as the token would,
\* so that of a token that has expired since it was verified may be gone.
Denied(c) == IF c \notin revoked THEN {FALSE} ELSE IF c \in expired THEN BOOLEAN ELSE {TRUE}

\* The role in the claims of a token, or in the row of a key.
Carried(c) == IF c \in Admins THEN "admin" ELSE "other"

\* What each resolver makes of a credential of its own shape.
JwtRole(c, denied) == IF denied THEN "unknown" ELSE Carried(c)
KeyRole(c) == IF c \in revoked THEN "unknown" ELSE Carried(c)
StaticRole(c) == IF c \in Static THEN "admin" ELSE "unknown"

\* The first resolver that knows a credential that verifies decides.
RolesOf(c) ==
    CASE c \in Jwt -> {JwtRole(c, denied) : denied \in Denied(c)}
      [] c \in ApiKey -> {KeyRole(c)}
      [] OTHER -> {StaticRole(c)}

\* A store that is out of reach: PortError, from all but the static token.
OutOfReach(a) ==
    /\ sent[a] \notin Static
    /\ faults < MaxFaults
    /\ faults' = faults + 1

\* Mutant for AdminsOnly: fail open, the role is taken from the token alone.
LookupFailsOpen(a) ==
    /\ at[a] = "lookup"
    /\ \/ /\ \E found \in RolesOf(sent[a]) : role' = [role EXCEPT ![a] = found]
          /\ UNCHANGED faults
       \/ OutOfReach(a) /\ role' = [role EXCEPT ![a] = Carried(sent[a])]
    /\ Goto(a, "guard")
    /\ UNCHANGED <<cookie, standing, want, sent, next, goal, was, visits>>

\* authenticate_request never raises: a PortError makes the request anonymous.
Lookup(a) ==
    /\ at[a] = "lookup"
    /\ \/ /\ \E found \in RolesOf(sent[a]) : role' = [role EXCEPT ![a] = found]
          /\ UNCHANGED faults
       \/ OutOfReach(a) /\ UNCHANGED role
    /\ Goto(a, "guard")
    /\ UNCHANGED <<cookie, standing, want, sent, next, goal, was, visits>>

\* _wants_html: a browser does, a script may.
Html(a, p) == IF p \in Page THEN (IF a \in Tab THEN {TRUE} ELSE BOOLEAN) ELSE {FALSE}

\* 401 and 403: a browser is redirected to the form, or shown a page.
NotAuthorized(html) == IF html THEN "redirected" ELSE "unauthorized"
PermissionDenied(html) == IF html THEN "forbidden" ELSE "denied"

\* require_role(ADMIN), and the handlers of what it raises.
Guard(a) ==
    /\ at[a] = "guard"
    /\ \E html \in Html(a, want[a]) :
        \/ role[a] = "admin" /\ Goto(a, "shown")
        \/ role[a] = "unknown" /\ Goto(a, NotAuthorized(html))
        \/ role[a] = "other" /\ Goto(a, PermissionDenied(html))
    /\ UNCHANGED <<cookie, standing, want, sent, role, next, goal, was, visits, faults>>

-----------------------------------------------------------------------------
(* Login and logout *)

\* _safe_next: paths under /admin only; a query is dropped.
SafeNext(p) == IF p \in Page THEN p ELSE Dashboard

ShowForm(a, p) ==
    /\ Goto(a, "form")
    /\ next' = [next EXCEPT ![a] = SafeNext(p)]

\* The browser follows the 303 to /admin/login?next=; the form has no guard.
LoginForm(a) ==
    /\ at[a] = "redirected"
    /\ ShowForm(a, want[a])
    /\ UNCHANGED <<cookie, standing, want, sent, role, goal, was, visits, faults>>

\* A bookmark of the form, with some next of its own.
OpenLogin(a, p) ==
    /\ UserActs(a)
    /\ ShowForm(a, p)
    /\ goal' = [goal EXCEPT ![a] = SafeNext(p)]
    /\ UNCHANGED <<cookie, standing, want, sent, role, was, faults>>

Submit(a, c) ==
    /\ at[a] = "form"
    /\ UserActs(a)
    /\ Goto(a, "login")
    /\ sent' = [sent EXCEPT ![a] = c]
    /\ UNCHANGED <<cookie, standing, want, role, next, goal, was, faults>>

\* POSTs of credentials are counted per address, which other clients may share:
\* 429 before anything else is looked at.
Throttle(a) ==
    /\ at[a] = "login"
    /\ Goto(a, "throttled")
    /\ UNCHANGED <<cookie, standing, want, sent, role, next, goal, was, visits, faults>>

\* An empty or oversized token is no credential, and none is looked up.
RejectLogin(a) ==
    /\ at[a] = "login"
    /\ sent[a] = None
    /\ Goto(a, "form")
    /\ UNCHANGED <<cookie, standing, want, sent, role, next, goal, was, visits, faults>>

\* The first half of authenticate: a token that does not verify is nobody's.
VerifyLogin(a) ==
    /\ at[a] = "login" /\ sent[a] # None
    /\ Goto(a, IF Verifies(sent[a]) THEN "check" ELSE "form")
    /\ UNCHANGED <<cookie, standing, want, sent, role, next, goal, was, visits, faults>>

\* Mutant for LandsOnGoal: the form that is rendered again has lost its next.
CheckLoginForgets(a) ==
    /\ at[a] = "check"
    /\ \E found \in RolesOf(sent[a]) :
          IF found = "admin" THEN Goto(a, "accepted") /\ UNCHANGED next
          ELSE ShowForm(a, Dashboard)
    /\ UNCHANGED <<cookie, standing, want, sent, role, goal, was, visits, faults>>

\* Mutant for TypeOK: any principal logs in.
CheckLoginOfAnybody(a) ==
    /\ at[a] = "check"
    /\ \E found \in RolesOf(sent[a]) : Goto(a, IF found = "unknown" THEN "form" ELSE "accepted")
    /\ UNCHANGED <<cookie, standing, want, sent, role, next, goal, was, visits, faults>>

\* Administrators only; a PortError is nobody's to catch here and becomes a 503.
CheckLogin(a) ==
    /\ at[a] = "check"
    /\ \/ /\ \E found \in RolesOf(sent[a]) :
                Goto(a, IF found = "admin" THEN "accepted" ELSE "form")
          /\ UNCHANGED faults
       \/ OutOfReach(a) /\ Goto(a, "unavailable")
    /\ UNCHANGED <<cookie, standing, want, sent, role, next, goal, was, visits>>

\* The browser stores the cookie and follows the redirect with it.
LoggedIn(a) ==
    /\ at[a] = "accepted"
    /\ cookie' = sent[a]
    /\ Send(a, next[a], sent[a])
    /\ UNCHANGED <<standing, next, goal, visits, faults>>

\* The form's button; the server looks at no credential.
Logout(a) ==
    /\ at[a] = "shown"
    /\ UserActs(a)
    /\ Goto(a, "logout")
    /\ UNCHANGED <<cookie, standing, want, sent, role, next, goal, was, faults>>

\* The cookie is cleared, and the redirect to the form carries no next.
LoggedOut(a) ==
    /\ at[a] = "logout"
    /\ cookie' = None
    /\ ShowForm(a, Dashboard)
    /\ goal' = [goal EXCEPT ![a] = Dashboard]
    /\ UNCHANGED <<standing, want, sent, role, was, visits, faults>>

-----------------------------------------------------------------------------
(* Specification *)

\* The token is put on the denylist, or the key deleted. Logging out does neither.
Revoke(c) ==
    /\ c \in (Jwt \cup ApiKey) \ (revoked \cup expired)
    /\ revoked' = revoked \cup {c}
    /\ UNCHANGED <<cookie, expired, requestVars, next, goal, visits, faults>>

Expire(c) ==
    /\ c \in Jwt \ expired
    /\ expired' = expired \cup {c}
    /\ UNCHANGED <<cookie, revoked, requestVars, next, goal, visits, faults>>

\* The browser may have a cookie from before.
Init ==
    /\ cookie \in Admins \cup {None}
    /\ revoked = {}
    /\ expired = {}
    /\ at = [a \in Actor |-> "idle"]
    /\ want = [a \in Actor |-> Dashboard]
    /\ sent = [a \in Actor |-> None]
    /\ role = [a \in Actor |-> "unknown"]
    /\ next = [a \in Actor |-> Dashboard]
    /\ goal = [a \in Actor |-> Dashboard]
    /\ was = [a \in Actor |-> "valid"]
    /\ visits = 0
    /\ faults = 0

RequestStep(a) ==
    \/ Lookup(a) \/ Guard(a) \/ LoginForm(a)
    \/ Throttle(a) \/ RejectLogin(a) \/ VerifyLogin(a) \/ CheckLogin(a)
    \/ LoggedIn(a) \/ LoggedOut(a)

Next ==
    \/ \E a \in Actor : RequestStep(a)
    \/ \E a \in Actor, p \in Path : Visit(a, p)
    \/ \E a \in Tab :
        \/ \E p \in Path : OpenLogin(a, p)
        \/ \E c \in Credential \cup {None} : Submit(a, c)
        \/ Logout(a)
    \/ \E c \in Credential : Revoke(c) \/ Expire(c)

Spec == Init /\ [][Next]_vars

-----------------------------------------------------------------------------
(* Properties *)

\* Every variable ranges over what the code can put there. The cookie is always an
\* administrator's, so no tab ever meets the 403 pages, which cannot be left by
\* logging in.
TypeOK ==
    /\ cookie \in Admins \cup {None}
    /\ revoked \subseteq Jwt \cup ApiKey
    /\ expired \subseteq Jwt
    /\ at \in [Actor -> InRequest \cup AtRest]
    /\ \A a \in Tab : at[a] \notin {"forbidden", "denied"}
    /\ want \in [Actor -> Path]
    /\ sent \in [Actor -> Credential \cup {None}]
    /\ role \in [Actor -> {"unknown", "admin", "other"}]
    /\ next \in [Actor -> Page]
    /\ goal \in [Actor -> Path]
    /\ was \in [Actor -> {"valid", "revoked", "expired"}]
    /\ visits \in 0..MaxVisits
    /\ faults \in 0..MaxFaults

\* What is behind the guard is shown for an administrator's credential that had
\* not been withdrawn when the request came in, whatever is out of reach, and in a
\* browser only on the admin surface. The one that has been withdrawn is a revoked
\* token that expires while it is looked up.
AdminsOnly ==
    \A a \in Actor : at[a] = "shown" =>
        /\ sent[a] \in Admins
        /\ was[a] # "expired"
        /\ was[a] = "revoked" => sent[a] \in expired
        /\ a \in Tab => want[a] \notin Elsewhere

\* A user ends up on the page they set out for, through redirects, rejected
\* logins, other tabs' logouts and credentials that are withdrawn on the way.
LandsOnGoal == \A a \in Actor : at[a] = "shown" => want[a] = goal[a]

=============================================================================
