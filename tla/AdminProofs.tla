------------------------------ MODULE AdminProofs ------------------------------
(***************************************************************************)
(* Proofs about the admin surface, for every value of the constants: first *)
(* about AdminSession (who is shown a guarded page), then about LogViewer  *)
(* (what the readers of the log file are given).  The two share nothing.   *)
(***************************************************************************)
EXTENDS AdminSession, LogViewer, FiniteSetTheorems, SequenceTheorems, WellFoundedInduction, TLAPS

-----------------------------------------------------------------------------
(* AdminSession: the inductive invariant *)

\* The conjuncts of TypeOK that give each variable its set.
Types ==
    /\ cookie \in Admins \cup {None}
    /\ revoked \subseteq Jwt \cup ApiKey
    /\ expired \subseteq Jwt
    /\ at \in [Actor -> InRequest \cup AtRest]
    /\ want \in [Actor -> Path]
    /\ sent \in [Actor -> Credential \cup {None}]
    /\ role \in [Actor -> {"unknown", "admin", "other"}]
    /\ next \in [Actor -> Page]
    /\ goal \in [Actor -> Path]
    /\ was \in [Actor -> {"valid", "revoked", "expired"}]
    /\ visits \in 0..MaxVisits
    /\ faults \in 0..MaxFaults

\* An administrator's credential that was not withdrawn when its request came in, or
\* a revoked token that has expired since.
Presented(a) ==
    /\ sent[a] \in Admins
    /\ was[a] # "expired"
    /\ was[a] = "revoked" => sent[a] \in expired

\* What the middleware has made of the credential, by the step of the request.
Sound(a) ==
    /\ at[a] = "lookup" =>
           /\ sent[a] \in Credential /\ role[a] = "unknown"
           /\ was[a] # "expired"
           /\ was[a] = "revoked" => sent[a] \in revoked
    /\ at[a] \in {"guard", "shown"} /\ role[a] = "admin" => Presented(a)
    /\ at[a] = "shown" => role[a] = "admin"
    /\ at[a] = "login" => sent[a] \in Credential \cup {None}
    /\ at[a] = "check" => sent[a] \in Credential
    /\ at[a] = "accepted" => sent[a] \in Admins

\* A browser presents an administrator's credential, and on the admin surface only.
InBrowser(a) ==
    /\ at[a] = "lookup" => sent[a] \in Admins /\ want[a] \notin Elsewhere
    /\ at[a] \in {"guard", "shown"} =>
           /\ role[a] # "other"
           /\ role[a] = "admin" => want[a] \notin Elsewhere
    /\ at[a] \notin {"forbidden", "denied"}

\* The goal is what the request is for, or what the form will lead to.
OnTheWay(a) ==
    /\ at[a] \in {"lookup", "guard", "redirected", "shown"} => want[a] = goal[a]
    /\ at[a] = "redirected" => want[a] \in Page
    /\ at[a] \in {"form", "login", "check", "accepted"} => next[a] = goal[a]

Inv ==
    /\ Types
    /\ \A a \in Actor : Sound(a) /\ OnTheWay(a)
    /\ \A a \in Tab : InBrowser(a)

-----------------------------------------------------------------------------
(* Lemmas *)

USE DEF standing

\* An administrator's role is found for an administrator's credential only, and not
\* for a revoked one unless it is a token that has expired.
LEMMA RolesOfAdmins ==
    ASSUME Types, NEW c \in Credential, NEW found \in RolesOf(c)
    PROVE  /\ found \in {"unknown", "admin", "other"}
           /\ found = "admin" => c \in Admins /\ (c \in revoked => c \in expired)
           /\ c \in Admins => found # "other"
<1>1. CASE c \in Jwt
  <2>1. PICK denied \in Denied(c) : found = JwtRole(c, denied)
    BY <1>1, AdminSessionAssumption DEF RolesOf
  <2>2. c \in revoked /\ ~denied => c \in expired
    BY <2>1 DEF Denied
  <2> QED BY <2>1, <2>2 DEF JwtRole, Carried
<1>2. CASE c \in ApiKey
  BY <1>2, AdminSessionAssumption DEF RolesOf, KeyRole, Carried
<1>3. CASE c \in Static
  BY <1>3, AdminSessionAssumption DEF RolesOf, StaticRole, Types
<1> QED BY <1>1, <1>2, <1>3 DEF Credential

\* A step of one actor is no step of another: what is proved of the actor that
\* moves holds of all, as long as the others keep their request.
LEMMA OthersKeep ==
    ASSUME Inv, Types', UNCHANGED <<revoked, expired>>, NEW a \in Actor,
           Sound(a)', OnTheWay(a)', a \in Tab => InBrowser(a)',
           \A b \in Actor \ {a} :
               /\ at'[b] = at[b] /\ want'[b] = want[b] /\ sent'[b] = sent[b]
               /\ role'[b] = role[b] /\ next'[b] = next[b] /\ goal'[b] = goal[b]
               /\ was'[b] = was[b]
    PROVE  Inv'
<1>1. ASSUME NEW b \in Actor \ {a} PROVE Sound(b)' /\ OnTheWay(b)'
  BY <1>1 DEF Inv, Sound, Presented, OnTheWay
<1>2. ASSUME NEW b \in Tab \ {a} PROVE InBrowser(b)'
  BY <1>2 DEF Inv, InBrowser, Actor
<1> QED BY <1>1, <1>2 DEF Inv

LEMMA InitInv == Init => Inv
BY AdminSessionAssumption
DEF Init, Inv, Types, Sound, InBrowser, OnTheWay, Actor, Path, Credential,
    InRequest, AtRest

\* What Send does to the actor that sends.
LEMMA SendTypes ==
    ASSUME Types, NEW a \in Actor, NEW p \in Path, NEW c \in Credential \cup {None}, Send(a, p, c)
    PROVE  /\ at' \in [Actor -> InRequest \cup AtRest]
           /\ want' \in [Actor -> Path]
           /\ sent' \in [Actor -> Credential \cup {None}]
           /\ role' \in [Actor -> {"unknown", "admin", "other"}]
           /\ was' \in [Actor -> {"valid", "revoked", "expired"}]
           /\ at'[a] \in {"guard", "lookup"}
           /\ at'[a] = "lookup" => /\ c # None /\ was'[a] # "expired"
                                   /\ was'[a] = "revoked" => c \in revoked
           /\ want'[a] = p /\ sent'[a] = c /\ role'[a] = "unknown"
BY DEF Send, Goto, Types, InRequest, AtRest, Verifies, StandingOf

-----------------------------------------------------------------------------
(* Steps *)

LEMMA VisitInv ==
    ASSUME Inv, NEW a \in Actor, NEW p \in Path, Visit(a, p)
    PROVE  Inv'
<1>1. PICK header \in IF a \in Script THEN Credential \cup {None} ELSE {None} :
          Send(a, p, Extract(a, p, header))
  BY DEF Visit
<1> DEFINE c == Extract(a, p, header)
<1>2. c \in Credential \cup {None} /\ (a \in Tab => c \in Admins \cup {None})
  BY <1>1, AdminSessionAssumption DEF Extract, Inv, Types, Credential
<1>3. a \in Tab /\ c # None => p \notin Elsewhere
  BY <1>1, AdminSessionAssumption DEF Extract, Path
<1> HIDE DEF c
<1>4. Types'
  BY <1>1, <1>2, SendTypes, AdminSessionAssumption DEF Inv, Types, Visit, UserActs, c
<1>6. Sound(a)' /\ OnTheWay(a)'
  BY <1>1, <1>2, SendTypes, AdminSessionAssumption
  DEF Inv, Visit, Sound, OnTheWay, Types, c
<1>7. a \in Tab => InBrowser(a)'
  BY <1>1, <1>2, <1>3, SendTypes DEF Inv, Visit, InBrowser, c
<1> QED BY <1>1, <1>4, <1>6, <1>7, OthersKeep DEF Visit, Send, Goto, Inv, Types

LEMMA LookupInv ==
    ASSUME Inv, NEW a \in Actor, Lookup(a)
    PROVE  Inv'
<1>1. Types /\ sent[a] \in Credential /\ role[a] = "unknown"
  BY DEF Inv, Sound, Lookup
<1>2. PICK found \in RolesOf(sent[a]) \cup {"unknown"} : role' = [role EXCEPT ![a] = found]
  <2>1. UNCHANGED role => role' = [role EXCEPT ![a] = "unknown"]
    BY <1>1 DEF Types
  <2> QED BY <2>1 DEF Lookup
<1>3. /\ found \in {"unknown", "admin", "other"}
      /\ found = "admin" => sent[a] \in Admins /\ (sent[a] \in revoked => sent[a] \in expired)
      /\ sent[a] \in Admins => found # "other"
  BY <1>1, RolesOfAdmins
<1>4. Types'
  BY <1>1, <1>2, <1>3, AdminSessionAssumption DEF Lookup, Goto, OutOfReach, Types, InRequest
<1>5. role'[a] = found /\ at'[a] = "guard"
  BY <1>1, <1>2 DEF Lookup, Goto, Types
<1>6. Sound(a)' /\ OnTheWay(a)'
  BY <1>3, <1>5 DEF Lookup, Inv, Sound, Presented, OnTheWay
<1>7. a \in Tab => InBrowser(a)'
  BY <1>3, <1>5 DEF Lookup, Inv, InBrowser
<1> QED BY <1>2, <1>4, <1>6, <1>7, OthersKeep DEF Lookup, Goto, Types, Inv

LEMMA GuardInv ==
    ASSUME Inv, NEW a \in Actor, Guard(a)
    PROVE  Inv'
<1>1. PICK html \in Html(a, want[a]) :
        \/ role[a] = "admin" /\ Goto(a, "shown")
        \/ role[a] = "unknown" /\ Goto(a, NotAuthorized(html))
        \/ role[a] = "other" /\ Goto(a, PermissionDenied(html))
  BY DEF Guard
<1>2. html \in BOOLEAN /\ (html => want[a] \in Page)
  BY <1>1 DEF Html
<1>3. Types'
  BY <1>1, <1>2
  DEF Guard, Goto, NotAuthorized, PermissionDenied, Inv, Types, InRequest, AtRest
<1>5. \/ role[a] = "admin" /\ at'[a] = "shown"
      \/ role[a] = "unknown" /\ at'[a] = "unauthorized"
      \/ role[a] = "unknown" /\ at'[a] = "redirected" /\ want[a] \in Page
      \/ role[a] = "other" /\ at'[a] \in {"forbidden", "denied"}
  BY <1>1, <1>2 DEF Goto, NotAuthorized, PermissionDenied, Inv, Types
<1>6. Sound(a)' /\ OnTheWay(a)'
  BY <1>5 DEF Guard, Inv, Sound, Presented, OnTheWay
<1>7. a \in Tab => InBrowser(a)'
  BY <1>5 DEF Guard, Inv, InBrowser
<1> QED BY <1>1, <1>3, <1>6, <1>7, OthersKeep DEF Guard, Goto, Inv, Types

\* The form shows a page, and leads to the goal if the goal is where it leads.
LEMMA FormInv ==
    ASSUME Inv, NEW a \in Actor, NEW p \in Path, ShowForm(a, p),
           UNCHANGED <<standing, want, sent, role, was>>,
           cookie' \in {cookie, None}, faults' = faults, visits' \in 0..MaxVisits,
           goal' = [goal EXCEPT ![a] = SafeNext(p)]
    PROVE  Inv'
<1>1. SafeNext(p) \in Page
  BY AdminSessionAssumption DEF SafeNext
<1>2. Types'
  BY <1>1 DEF ShowForm, Goto, Inv, Types, AtRest, Path
<1>3. at'[a] = "form" /\ next'[a] = goal'[a]
  BY DEF ShowForm, Goto, Inv, Types
<1>5. Sound(a)' /\ OnTheWay(a)' /\ InBrowser(a)'
  BY <1>3 DEF Sound, OnTheWay, InBrowser
<1> QED BY <1>2, <1>5, OthersKeep DEF ShowForm, Goto, Inv, Types

LEMMA LoginFormInv ==
    ASSUME Inv, NEW a \in Actor, LoginForm(a)
    PROVE  Inv'
<1>1. goal' = [goal EXCEPT ![a] = SafeNext(want[a])]
  BY DEF LoginForm, Inv, Types, OnTheWay, SafeNext
<1> QED BY <1>1, FormInv DEF LoginForm, Inv, Types

LEMMA OpenLoginInv ==
    ASSUME Inv, NEW a \in Tab, NEW p \in Path, OpenLogin(a, p)
    PROVE  Inv'
<1>1. visits' \in 0..MaxVisits
  BY AdminSessionAssumption DEF OpenLogin, UserActs, Inv, Types
<1> QED BY <1>1, FormInv DEF OpenLogin, Actor

LEMMA LoggedOutInv ==
    ASSUME Inv, NEW a \in Actor, LoggedOut(a)
    PROVE  Inv'
<1>1. Dashboard \in Path /\ SafeNext(Dashboard) = Dashboard
  BY AdminSessionAssumption DEF Path, SafeNext
<1> QED BY <1>1, FormInv DEF LoggedOut, Inv, Types

LEMMA SubmitInv ==
    ASSUME Inv, NEW a \in Tab, NEW c \in Credential \cup {None}, Submit(a, c)
    PROVE  Inv'
<1>1. a \in Actor
  BY DEF Actor
<1>2. Types'
  BY <1>1, AdminSessionAssumption DEF Submit, UserActs, Goto, Inv, Types, InRequest
<1>3. at'[a] = "login"
  BY <1>1 DEF Submit, Goto, Inv, Types
<1>5. Sound(a)' /\ OnTheWay(a)' /\ InBrowser(a)'
  BY <1>1, <1>3 DEF Submit, Inv, Types, Sound, OnTheWay, InBrowser
<1> QED BY <1>1, <1>2, <1>5, OthersKeep DEF Submit, Goto, Inv, Types

LEMMA LogoutInv ==
    ASSUME Inv, NEW a \in Tab, Logout(a)
    PROVE  Inv'
<1>1. a \in Actor
  BY DEF Actor
<1>2. Types'
  BY <1>1, AdminSessionAssumption DEF Logout, UserActs, Goto, Inv, Types, InRequest
<1>3. at'[a] = "logout"
  BY <1>1 DEF Logout, Goto, Inv, Types
<1>5. Sound(a)' /\ OnTheWay(a)' /\ InBrowser(a)'
  BY <1>3 DEF Sound, OnTheWay, InBrowser
<1> QED BY <1>1, <1>2, <1>5, OthersKeep DEF Logout, Goto, Inv, Types

\* Submissions that no credential is looked up for.
LEMMA RefusedLoginInv ==
    ASSUME Inv, NEW a \in Actor, Throttle(a) \/ RejectLogin(a)
    PROVE  Inv'
<1>1. Types'
  BY DEF Throttle, RejectLogin, Goto, Inv, Types, AtRest
<1>2. at'[a] \in {"throttled", "form"}
  BY DEF Throttle, RejectLogin, Goto, Inv, Types
<1>4. Sound(a)' /\ OnTheWay(a)' /\ InBrowser(a)'
  BY <1>2 DEF Throttle, RejectLogin, Inv, Sound, OnTheWay, InBrowser
<1> QED BY <1>1, <1>4, OthersKeep DEF Throttle, RejectLogin, Goto, Inv, Types

LEMMA VerifyLoginInv ==
    ASSUME Inv, NEW a \in Actor, VerifyLogin(a)
    PROVE  Inv'
<1>1. at'[a] \in {"check", "form"} /\ sent[a] \in Credential
  BY DEF VerifyLogin, Goto, Inv, Types, Sound
<1>2. Types'
  BY DEF VerifyLogin, Goto, Inv, Types, InRequest, AtRest
<1>3. Sound(a)' /\ OnTheWay(a)' /\ InBrowser(a)'
  BY <1>1 DEF VerifyLogin, Inv, Sound, OnTheWay, InBrowser
<1> QED BY <1>2, <1>3, OthersKeep DEF VerifyLogin, Goto, Inv, Types

LEMMA CheckLoginInv ==
    ASSUME Inv, NEW a \in Actor, CheckLogin(a)
    PROVE  Inv'
<1>1. Types /\ sent[a] \in Credential
  BY DEF Inv, Sound, CheckLogin
<1>2. Types'
  BY AdminSessionAssumption DEF CheckLogin, Goto, OutOfReach, Inv, Types, InRequest, AtRest
<1>3. \/ at'[a] = "accepted" /\ "admin" \in RolesOf(sent[a])
      \/ at'[a] \in {"form", "unavailable"}
  BY DEF CheckLogin, Goto, Inv, Types
<1>4. Sound(a)' /\ OnTheWay(a)' /\ InBrowser(a)'
  BY <1>1, <1>3, RolesOfAdmins DEF CheckLogin, Inv, Sound, OnTheWay, InBrowser
<1> QED BY <1>2, <1>4, OthersKeep DEF CheckLogin, Goto, Inv, Types

LEMMA LoggedInInv ==
    ASSUME Inv, NEW a \in Actor, LoggedIn(a)
    PROVE  Inv'
<1> DEFINE c == sent[a]
<1>1. c \in Admins /\ c \in Credential /\ c # None
  BY AdminSessionAssumption DEF LoggedIn, Inv, Sound
<1>2. next[a] \in Page /\ next[a] \in Path /\ next[a] \notin Elsewhere
  BY AdminSessionAssumption DEF Inv, Types, Path
<1>3. Send(a, next[a], c)
  BY DEF LoggedIn
<1> HIDE DEF c
<1>4. Types'
  BY <1>1, <1>2, <1>3, SendTypes DEF LoggedIn, Inv, Types, c
<1>6. Sound(a)' /\ OnTheWay(a)' /\ InBrowser(a)'
  BY <1>1, <1>2, <1>3, SendTypes DEF LoggedIn, Inv, Sound, OnTheWay, InBrowser
<1> QED BY <1>3, <1>4, <1>6, OthersKeep DEF LoggedIn, Send, Goto, Inv, Types

\* What was withdrawn stays so.
LEMMA WithdrawInv ==
    ASSUME Inv, NEW c \in Credential, Revoke(c) \/ Expire(c)
    PROVE  Inv'
<1>1. /\ revoked \subseteq revoked' /\ expired \subseteq expired'
      /\ UNCHANGED <<requestVars, next, goal>>
  BY DEF Revoke, Expire
<1>2. Types'
  BY DEF Revoke, Expire, requestVars, Inv, Types
<1>3. ASSUME NEW a \in Actor PROVE Sound(a)' /\ OnTheWay(a)'
  BY <1>1 DEF requestVars, Inv, Sound, Presented, OnTheWay
<1>4. ASSUME NEW a \in Tab PROVE InBrowser(a)'
  BY <1>1 DEF requestVars, Inv, InBrowser
<1> QED BY <1>2, <1>3, <1>4 DEF Inv

LEMMA StepInv == Inv /\ [Next]_vars => Inv'
<1> SUFFICES ASSUME Inv, [Next]_vars PROVE Inv'
  OBVIOUS
<1>1. ASSUME NEW a \in Actor, RequestStep(a) PROVE Inv'
  BY <1>1, LookupInv, GuardInv, LoginFormInv, RefusedLoginInv, VerifyLoginInv,
     CheckLoginInv, LoggedInInv, LoggedOutInv
  DEF RequestStep
<1>2. ASSUME NEW a \in Actor, NEW p \in Path, Visit(a, p) PROVE Inv'
  BY <1>2, VisitInv
<1>3. ASSUME NEW a \in Tab, NEW p \in Path, OpenLogin(a, p) PROVE Inv'
  BY <1>3, OpenLoginInv
<1>4. ASSUME NEW a \in Tab, NEW c \in Credential \cup {None}, Submit(a, c) PROVE Inv'
  BY <1>4, SubmitInv
<1>5. ASSUME NEW a \in Tab, Logout(a) PROVE Inv'
  BY <1>5, LogoutInv
<1>6. ASSUME NEW c \in Credential, Revoke(c) \/ Expire(c) PROVE Inv'
  BY <1>6, WithdrawInv
<1>7. CASE UNCHANGED vars
  BY <1>7
  DEF vars, requestVars, Inv, Types, Sound, Presented, OnTheWay, InBrowser
<1> QED BY <1>1, <1>2, <1>3, <1>4, <1>5, <1>6, <1>7 DEF Next

-----------------------------------------------------------------------------
(* Theorems *)

LEMMA Invariant == Spec => []Inv
BY InitInv, StepInv, PTL DEF Spec

\* Every variable keeps its type; the cookie is always an administrator's, and no
\* tab ever gets one of the 403 answers.
THEOREM SessionTypeCorrect == Spec => []TypeOK
<1>1. Inv => TypeOK
  BY DEF Inv, Types, InBrowser, TypeOK
<1> QED BY <1>1, Invariant, PTL

\* Whoever is shown what is behind the guard presented an administrator's
\* credential that was not withdrawn when the request came in, whatever was out of
\* reach, or a revoked token that has expired since: between its verification and
\* the look at the denylist.
THEOREM OnlyAdminsAreShown == Spec => []AdminsOnly
<1>1. Inv => AdminsOnly
  BY DEF Inv, Sound, Presented, InBrowser, AdminsOnly
<1> QED BY <1>1, Invariant, PTL

\* A user who is shown a page is on the one they set out for.
THEOREM EveryoneLandsOnGoal == Spec => []LandsOnGoal
<1>1. Inv => LandsOnGoal
  BY DEF Inv, OnTheWay, LandsOnGoal
<1> QED BY <1>1, Invariant, PTL

-----------------------------------------------------------------------------
(* LogViewer: the inductive invariant *)

\* The conjuncts of LogTypeOK that give each variable its set, as far as they say
\* that a variable is one of the files or lines there are.
FileTypes ==
    /\ content \in Seq(Seq(Piece)) /\ Len(content) \in 1..MaxFiles /\ path \in 0..Len(content)
    /\ truncated \subseteq Inode /\ truncations \in 0..MaxTruncations
    /\ fd \in [Writer -> 1..Len(content)]
    /\ emit \in [Writer -> {"idle", "write", "rest"}]
    /\ half \in [Writer -> 0..MaxLines] /\ lines \in 0..MaxLines
    /\ reader \in Readers /\ disturbed \in {"no", "between", "during"}

StepsOf(r) ==
    IF r = "follow" THEN {"new", "size", "poll", "drain_stat", "drain", "read"}
    ELSE IF r = "page" THEN {"new", "tail", "older?", "older", "rotated", "stopped", "failed"}
    ELSE {"new", "export", "closed"}

ReadTypes ==
    /\ rstep \in StepsOf(reader)
    /\ inode \in 0..Len(content) /\ pos \in Offset /\ start \in Offset
    /\ carry \in Seq(Piece) /\ stat \in [inode : 0..Len(content), size : Offset]
    /\ out \in Seq(1..MaxLines) /\ known \subseteq 1..lines

\* What is in the files: each piece once, and only of lines that were begun.
Pieces ==
    \A k \in 1..Len(content) :
        /\ \A i \in 1..Len(content[k]) : content[k][i] \in -lines..lines
        /\ \A i, j \in 1..Len(content[k]) : content[k][i] = content[k][j] => i = j

\* The end of a line that is half written is in no file yet, and nobody else's.
Halves ==
    \A w \in Writer :
        /\ half[w] # 0 <=> emit[w] = "rest"
        /\ half[w] # 0 =>
              /\ reader \in TornFor /\ half[w] \in 1..lines
              /\ \A v \in Writer : half[v] = half[w] => v = w
              /\ \A k \in 1..Len(content) : \A i \in 1..Len(content[k]) :
                     content[k][i] # -half[w]

\* Position p of s is the beginning of s or just behind a newline.
Boundary(s, p) == p \in 0..Len(s) /\ (p = 0 \/ s[p] < 0)

\* The lines of s come in the order in which they were begun.
InOrder(s) == \A i, j \in 1..Len(s) : i < j /\ s[i] < 0 /\ s[j] < 0 => s[j] < s[i]

\* A follower finds whole lines only.
Whole ==
    reader \notin TornFor =>
        \A k \in 1..Len(content) : Boundary(content[k], Len(content[k])) /\ InOrder(content[k])

FileInv == FileTypes /\ Pieces /\ Halves /\ Whole

\* Nothing has been read before the first look at the path.
Unread ==
    rstep = "new" =>
        /\ inode = 0 /\ pos = 0 /\ carry = <<>> /\ out = <<>> /\ start = 0 /\ known = {}
        /\ disturbed = "no"

-----------------------------------------------------------------------------

\* Behind position p of s nothing is known.
Fresh(s, p) == \A i \in p + 1..Len(s) : -s[i] \notin known

\* Every line that ends behind position p of s is later than all that was sent.
Later(s, p) == \A i \in p + 1..Len(s) : s[i] < 0 => \A j \in 1..Len(out) : out[j] < -s[i]

\* What can still be read is new.
Unknown ==
    /\ carry = <<>> /\ Range(out) \subseteq 1..lines /\ Range(out) \cap known = {}
    /\ path # 0 => inode <= path
    /\ path \notin {0, inode} => Fresh(content[path], 0)
    /\ path = inode /\ path # 0 /\ rstep # "size" =>
           /\ Fresh(content[path], pos)
           /\ pos > Len(content[path]) => Fresh(content[path], 0)
    /\ rstep \in {"drain_stat", "drain"} =>
           /\ stat.inode # 0 /\ inode <= stat.inode
           /\ path # 0 => stat.inode <= path
           /\ Fresh(content[stat.inode], 0)

\* Without a truncation and without an exchange behind a poll, what can still be
\* read is later than what was sent.
Forward ==
    disturbed # "during" /\ truncated = {} =>
        /\ \A i, j \in 1..Len(out) : i < j => out[i] < out[j]
        /\ path = inode /\ path # 0 => pos <= Len(content[path]) /\ Later(content[path], pos)
        /\ path \notin {0, inode} => Later(content[path], 0)
        /\ rstep = "read" => path = inode /\ path # 0
        /\ rstep # "drain"
        /\ rstep = "drain_stat" => path = stat.inode /\ path # inode

\* Undisturbed, the follower is in the file it began in.
Exact ==
    disturbed = "no" /\ rstep # "new" =>
        /\ path = inode /\ rstep \in {"size", "poll", "read"}
        /\ rstep = "size" => out = <<>>
        /\ rstep # "size" /\ inode # 0 =>
              /\ start <= pos /\ Boundary(content[inode], start) /\ Boundary(content[inode], pos)
              /\ out = Entries(SubSeq(content[inode], start + 1, pos))

FollowInv == reader = "follow" => Unknown /\ Forward /\ Exact

PageInv ==
    reader = "page" /\ disturbed # "during" /\ inode \notin truncated =>
        /\ rstep \in {"tail", "older"} => path = inode
        /\ rstep \in {"older?", "older", "rotated", "stopped"} =>
              /\ inode # 0 /\ pos <= start
              /\ Boundary(content[inode], start) /\ Boundary(content[inode], pos)
              /\ PagesWalkTheFile

ExportInv ==
    reader = "export" /\ rstep # "new" =>
        /\ inode # 0
        /\ inode \notin truncated =>
              /\ Len(carry) <= pos /\ pos <= Len(content[inode]) /\ start <= Len(content[inode])
              /\ carry = SubSeq(content[inode], pos - Len(carry) + 1, pos)
              /\ ExportIsPrefix

ReaderInv == ReadTypes /\ Unread /\ FollowInv /\ PageInv /\ ExportInv

\* A follower that meets lines in two halves goes astray, whatever else is true.
Reliable == reader = "follow" => reader \notin TornFor

LogInv == FileInv /\ (Reliable => ReaderInv)

-----------------------------------------------------------------------------
(* Induction *)

LEMMA Minimum ==
    ASSUME NEW T, T \subseteq Nat, T # {}
    PROVE  \E m \in T : \A n \in T : m <= n
<1> DEFINE R == OpToRel(<, Nat)
<1>1. IsWellFoundedOn(R, Nat)
  BY NatLessThanWellFounded
<1>2. R = {ss \in Nat \X Nat : ss[1] < ss[2]}
  BY DEF OpToRel
<1> HIDE DEF R
<1>3. PICK m \in T : \A n \in T : <<n, m>> \notin R
  BY <1>1, WFMin
<1>4. \A n \in T : ~(n < m)
  BY <1>2, <1>3
<1>5. \A n \in T : n \in Nat /\ m \in Nat
  BY <1>3
<1> QED BY <1>3, <1>4, <1>5

\* Induction up to n: a set that has 0 and with each number the next one.
LEMMA Climb ==
    ASSUME NEW n \in Nat, NEW T, 0 \in T, \A i \in 0..n - 1 : i \in T => i + 1 \in T
    PROVE  n \in T
<1> DEFINE B == {i \in 0..n : i \notin T}
<1>1. ASSUME NEW m \in B, \A i \in B : m <= i PROVE FALSE
  <2>1. m \in 0..n /\ m # 0
    OBVIOUS
  <2>2. m - 1 \in 0..n - 1 /\ m - 1 \notin B
    BY <1>1, <2>1
  <2>3. m - 1 \in T
    BY <2>2
  <2>4. m - 1 + 1 \in T
    BY <2>2, <2>3
  <2> QED BY <2>1, <2>4
<1>2. B \subseteq Nat
  OBVIOUS
<1> HIDE DEF B
<1>3. B = {}
  BY <1>1, <1>2, Minimum
<1>4. n \in 0..n
  OBVIOUS
<1> QED BY <1>3, <1>4 DEF B

-----------------------------------------------------------------------------
(* The lines of a sequence of pieces *)

\* What is collected of s up to position i, if f has it for the position before.
Collected(s, ends, f, i) ==
    IF i = 0 THEN <<>> ELSE IF i \in ends THEN Append(f[i - 1], -s[i]) ELSE f[i - 1]

Collection(s, ends) == CHOOSE f : f = [i \in 0..Len(s) |-> Collected(s, ends, f, i)]

LEMMA CollectedIsLocal ==
    ASSUME NEW s, NEW ends, NEW f, NEW g, NEW i \in Nat, i # 0 => f[i - 1] = g[i - 1]
    PROVE  Collected(s, ends, f, i) = Collected(s, ends, g, i)
BY DEF Collected

\* The recursion is well founded: a function with these values exists.
LEMMA CollectionDef ==
    ASSUME NEW s \in Seq(Int), NEW ends
    PROVE  Collection(s, ends) =
               [i \in 0..Len(s) |-> Collected(s, ends, Collection(s, ends), i)]
<1> DEFINE Defined(n) == \E f : f = [i \in 0..n |-> Collected(s, ends, f, i)]
           T == {n \in Nat : Defined(n)}
<1>1. 0 \in T
  <2> DEFINE f == [i \in 0..0 |-> <<>>]
  <2>1. f = [i \in 0..0 |-> Collected(s, ends, f, i)]
    BY DEF Collected
  <2> HIDE DEF f
  <2> QED BY <2>1
<1>2. ASSUME NEW n \in Nat, n \in T PROVE n + 1 \in T
  <2>1. PICK f : f = [i \in 0..n |-> Collected(s, ends, f, i)]
    BY <1>2
  <2> DEFINE m == n + 1
             g == [i \in 0..m |-> IF i = m THEN Collected(s, ends, f, m) ELSE f[i]]
  <2>2. m \in Nat /\ m # 0 /\ m - 1 = n /\ n \in 0..n
    BY <1>2
  <2>3. ASSUME NEW i \in 0..m PROVE g[i] = Collected(s, ends, g, i)
    <3>1. i \in Nat
      BY <2>2
    <3>2. g[i] = Collected(s, ends, f, i)
      <4>1. CASE i = m
        BY <4>1
      <4>2. CASE i # m
        <5>1. i \in 0..n
          BY <2>2, <4>2
        <5>2. f[i] = Collected(s, ends, f, i)
          BY <2>1, <5>1
        <5> QED BY <4>2, <5>2
      <4> QED BY <4>1, <4>2
    <3>3. i # 0 => g[i - 1] = f[i - 1]
      <4>1. i # 0 => i - 1 \in 0..m /\ i - 1 # m
        BY <2>2
      <4> QED BY <4>1
    <3> HIDE DEF g, m
    <3> QED BY <3>1, <3>2, <3>3, CollectedIsLocal
  <2>4. g = [i \in 0..m |-> Collected(s, ends, g, i)]
    <3>1. DOMAIN g = 0..m /\ g = [i \in 0..m |-> g[i]]
      OBVIOUS
    <3> HIDE DEF g
    <3> QED BY <2>3, <3>1
  <2> HIDE DEF g
  <2> QED BY <2>2, <2>4
<1> HIDE DEF T
<1>3. Len(s) \in Nat
  OBVIOUS
<1>4. \A i \in 0..Len(s) - 1 : i \in T => i + 1 \in T
  BY <1>2, <1>3
<1>5. Len(s) \in T
  BY <1>1, <1>3, <1>4, Climb
<1>6. Defined(Len(s))
  BY <1>5 DEF T
<1> QED BY <1>6 DEF Collection

\* f collects the lines of s that end at ends, position by position.
Collects(s, ends, f) ==
    /\ LinesAt(s, ends) = f[Len(s)] /\ f[0] = <<>>
    /\ \A i \in 1..Len(s) : f[i] = IF i \in ends THEN Append(f[i - 1], -s[i]) ELSE f[i - 1]

LEMMA CollectionFacts ==
    ASSUME NEW s \in Seq(Int), NEW ends
    PROVE  Collects(s, ends, Collection(s, ends))
<1> DEFINE f == Collection(s, ends)
<1>1. f = [i \in 0..Len(s) |-> Collected(s, ends, f, i)] /\ Len(s) \in Nat
  BY CollectionDef
<1>2. LinesAt(s, ends) = f[Len(s)]
  BY DEF LinesAt, Collection, Collected
<1> HIDE DEF f
<1>3. \A i \in 0..Len(s) : f[i] = Collected(s, ends, f, i)
  BY <1>1
<1>4. 0 \in 0..Len(s) /\ \A i \in 1..Len(s) : i \in 0..Len(s) /\ i # 0
  BY <1>1
<1> QED BY <1>2, <1>3, <1>4 DEF Collects, Collected, f

\* What is collected has the numbers of the pieces at the ends.
LEMMA LinesType ==
    ASSUME NEW S, NEW s \in Seq(Int), NEW ends,
           \A i \in 1..Len(s) : i \in ends => -s[i] \in S
    PROVE  LinesAt(s, ends) \in Seq(S)
<1> DEFINE f == Collection(s, ends)
           n == Len(s)
           T == {i \in 0..n : f[i] \in Seq(S)}
<1>1. /\ LinesAt(s, ends) = f[n] /\ f[0] = <<>> /\ n \in Nat
      /\ \A i \in 1..n : f[i] = IF i \in ends THEN Append(f[i - 1], -s[i]) ELSE f[i - 1]
  BY CollectionFacts DEF Collects
<1>2. \A i \in 1..n : i \in ends => -s[i] \in S
  OBVIOUS
<1> HIDE DEF f, n
<1>3. 0 \in T
  <2>1. 0 \in 0..n /\ <<>> \in Seq(S)
    BY <1>1
  <2> QED BY <1>1, <2>1
<1>4. ASSUME NEW i \in 0..n - 1, i \in T PROVE i + 1 \in T
  <2>1. f[i] \in Seq(S) /\ i + 1 \in 1..n /\ i + 1 \in 0..n /\ i + 1 - 1 = i
    BY <1>1, <1>4
  <2>2. f[i + 1] = IF i + 1 \in ends THEN Append(f[i], -s[i + 1]) ELSE f[i]
    BY <1>1, <2>1
  <2>3. f[i + 1] \in Seq(S)
    BY <1>2, <2>1, <2>2, AppendProperties
  <2> QED BY <2>1, <2>3
<1> HIDE DEF T
<1>5. n \in T
  BY <1>1, <1>3, <1>4, Climb
<1> QED BY <1>1, <1>5 DEF T

\* The lines of a \o b end at E if those of a end at F and those of b at G.
EndsAgree(a, b, E, F, G) ==
    /\ \A i \in 1..Len(a) : i \in E <=> i \in F
    /\ \A i \in 1..Len(b) : Len(a) + i \in E <=> i \in G

\* The lines of a concatenation, wherever its parts end their lines.
LEMMA LinesConcat ==
    ASSUME NEW a \in Seq(Int), NEW b \in Seq(Int), NEW E, NEW F, NEW G,
           EndsAgree(a, b, E, F, G)
    PROVE  LinesAt(a \o b, E) = LinesAt(a, F) \o LinesAt(b, G)
<1> DEFINE s == a \o b
           f == Collection(s, E)
           g == Collection(a, F)
           h == Collection(b, G)
           m == Len(a)
           n == Len(b)
<1>1. /\ s \in Seq(Int) /\ Len(s) = m + n /\ m \in Nat /\ n \in Nat
      /\ \A i \in 1..m : s[i] = a[i] /\ a[i] \in Int
      /\ \A i \in 1..n : s[m + i] = b[i] /\ b[i] \in Int
  BY ConcatProperties, ElementOfSeq
<1>2. /\ LinesAt(s, E) = f[m + n] /\ f[0] = <<>>
      /\ \A i \in 1..m + n : f[i] = IF i \in E THEN Append(f[i - 1], -s[i]) ELSE f[i - 1]
  <2>1. Len(s) = m + n /\ s \in Seq(Int)
    BY <1>1
  <2> HIDE DEF s, m, n
  <2>2. Collects(s, E, f)
    BY <2>1, CollectionFacts
  <2> HIDE DEF f
  <2> QED BY <2>1, <2>2 DEF Collects
<1>3. /\ LinesAt(a, F) = g[m] /\ g[0] = <<>>
      /\ \A i \in 1..m : g[i] = IF i \in F THEN Append(g[i - 1], -a[i]) ELSE g[i - 1]
  BY CollectionFacts DEF Collects
<1>4. /\ LinesAt(b, G) = h[n] /\ h[0] = <<>>
      /\ \A i \in 1..n : h[i] = IF i \in G THEN Append(h[i - 1], -b[i]) ELSE h[i - 1]
  BY CollectionFacts DEF Collects
<1>5. g[m] \in Seq(Int)
  <2>1. \A i \in 1..Len(a) : i \in F => -a[i] \in Int
    BY <1>1
  <2> QED BY <1>3, <2>1, LinesType
<1>6. /\ \A i \in 1..m : i \in E <=> i \in F
      /\ \A i \in 1..n : m + i \in E <=> i \in G
  BY DEF EndsAgree
<1> HIDE DEF s, f, g, h, m, n
<1>7. f[m] = g[m]
  <2> DEFINE T == {i \in 0..m : f[i] = g[i]}
  <2>1. 0 \in T
    BY <1>1, <1>2, <1>3
  <2>2. ASSUME NEW i \in 0..m - 1, i \in T PROVE i + 1 \in T
    <3>1. i + 1 \in 1..m /\ i + 1 \in 1..m + n /\ i + 1 - 1 = i /\ f[i] = g[i] /\ i + 1 \in 0..m
      BY <1>1, <2>2
    <3>2. f[i + 1] = IF i + 1 \in E THEN Append(f[i], -s[i + 1]) ELSE f[i]
      BY <1>2, <3>1
    <3>3. g[i + 1] = IF i + 1 \in F THEN Append(g[i], -a[i + 1]) ELSE g[i]
      BY <1>3, <3>1
    <3>4. s[i + 1] = a[i + 1] /\ (i + 1 \in E <=> i + 1 \in F)
      BY <1>1, <1>6, <3>1
    <3> QED BY <3>1, <3>2, <3>3, <3>4
  <2> HIDE DEF T
  <2>3. m \in T
    BY <1>1, <2>1, <2>2, Climb
  <2> QED BY <2>3 DEF T
<1>8. f[m + n] = g[m] \o h[n]
  <2> DEFINE T == {i \in 0..n : h[i] \in Seq(Int) /\ f[m + i] = g[m] \o h[i]}
  <2>1. 0 \in T
    <3>1. g[m] \o <<>> = g[m] /\ <<>> \in Seq(Int) /\ m + 0 = m /\ 0 \in 0..n
      BY <1>1, <1>5, ConcatEmptySeq
    <3> QED BY <1>4, <1>7, <3>1
  <2>2. ASSUME NEW i \in 0..n - 1, i \in T PROVE i + 1 \in T
    <3> DEFINE j == i + 1
    <3>1. /\ j \in 1..n /\ m + j \in 1..m + n /\ j - 1 = i /\ (m + j) - 1 = m + i
          /\ j \in 0..n
      BY <1>1
    <3>a. h[i] \in Seq(Int) /\ f[m + i] = g[m] \o h[i]
      BY <2>2
    <3> HIDE DEF j, T
    <3>2. f[m + j] = IF m + j \in E THEN Append(f[m + i], -s[m + j]) ELSE f[m + i]
      BY <1>2, <3>1
    <3>3. h[j] = IF j \in G THEN Append(h[i], -b[j]) ELSE h[i]
      BY <1>4, <3>1
    <3>4. s[m + j] = b[j] /\ (m + j \in E <=> j \in G) /\ -b[j] \in Int
      BY <1>1, <1>6, <3>1
    <3>5. Append(g[m] \o h[i], -b[j]) = g[m] \o Append(h[i], -b[j])
      <4> DEFINE x == -b[j]
                 u == g[m]
                 v == h[i]
      <4>1. x \in Int /\ u \in Seq(Int) /\ v \in Seq(Int) /\ <<x>> \in Seq(Int)
        BY <1>5, <3>a, <3>4
      <4> HIDE DEF x, u, v
      <4>2. u \o v \in Seq(Int)
        BY <4>1, ConcatProperties
      <4>3. Append(u \o v, x) = (u \o v) \o <<x>> /\ Append(v, x) = v \o <<x>>
        BY <4>1, <4>2, AppendIsConcat
      <4>4. (u \o v) \o <<x>> = u \o (v \o <<x>>)
        BY <4>1, ConcatAssociative, SMTT(30)
      <4> QED BY <4>3, <4>4 DEF x, u, v
    <3>6. h[j] \in Seq(Int)
      BY <3>a, <3>3, <3>4, AppendProperties
    <3>7. f[m + j] = g[m] \o h[j]
      BY <3>a, <3>2, <3>3, <3>4, <3>5
    <3> QED BY <3>1, <3>6, <3>7 DEF j, T
  <2> HIDE DEF T
  <2>3. n \in T
    BY <1>1, <2>1, <2>2, Climb
  <2> QED BY <2>3 DEF T
<1> QED BY <1>2, <1>3, <1>4, <1>8 DEF s

Increasing(s) == \A i, j \in 1..Len(s) : i < j => s[i] < s[j]

LEMMA AppendIncreasing ==
    ASSUME NEW s \in Seq(Int), NEW x \in Int, Increasing(s), \A i \in 1..Len(s) : s[i] < x
    PROVE  Increasing(Append(s, x))
<1>1. /\ Len(Append(s, x)) = Len(s) + 1 /\ Len(s) \in Nat
      /\ \A i \in 1..Len(s) : Append(s, x)[i] = s[i]
      /\ Append(s, x)[Len(s) + 1] = x
  BY AppendProperties
<1> DEFINE t == Append(s, x)
<1> HIDE DEF t
<1>2. ASSUME NEW i \in 1..Len(t), NEW j \in 1..Len(t), i < j PROVE t[i] < t[j]
  <2>1. i \in 1..Len(s) /\ t[i] = s[i]
    BY <1>1, <1>2 DEF t
  <2>2. CASE j = Len(s) + 1
    BY <1>1, <2>1, <2>2 DEF t
  <2>3. CASE j # Len(s) + 1
    <3>1. j \in 1..Len(s) /\ t[j] = s[j]
      BY <1>1, <1>2, <2>3 DEF t
    <3> QED BY <1>2, <2>1, <3>1 DEF Increasing
  <2> QED BY <2>2, <2>3
<1> QED BY <1>2 DEF Increasing, t

\* Lines that end in their order are collected in their order.
LEMMA LinesIncreasing ==
    ASSUME NEW s \in Seq(Int), NEW ends,
           \A i, j \in 1..Len(s) : i < j /\ i \in ends /\ j \in ends => s[j] < s[i]
    PROVE  Increasing(LinesAt(s, ends))
<1> DEFINE f == Collection(s, ends)
           n == Len(s)
           From1(i) == \A k \in 1..Len(f[i]) : \E j \in 1..i : j \in ends /\ f[i][k] = -s[j]
           T == {i \in 0..n : f[i] \in Seq(Int) /\ Increasing(f[i]) /\ From1(i)}
<1>1. /\ LinesAt(s, ends) = f[n] /\ f[0] = <<>> /\ n \in Nat
      /\ \A i \in 1..n : f[i] = IF i \in ends THEN Append(f[i - 1], -s[i]) ELSE f[i - 1]
  BY CollectionFacts DEF Collects
<1>2. \A i \in 1..n : s[i] \in Int /\ -s[i] \in Int
  BY ElementOfSeq
<1>3. \A i, j \in 1..n : i < j /\ i \in ends /\ j \in ends => s[j] < s[i]
  OBVIOUS
<1> HIDE DEF f, n
<1>4. 0 \in T
  <2>1. 0 \in 0..n /\ <<>> \in Seq(Int) /\ Len(<<>>) = 0
    BY <1>1
  <2>2. Increasing(f[0]) /\ From1(0)
    BY <1>1, <2>1 DEF Increasing
  <2> QED BY <1>1, <2>1, <2>2
<1>5. ASSUME NEW i \in 0..n - 1, i \in T PROVE i + 1 \in T
  <2> DEFINE j == i + 1
             t == f[i]
             x == -s[j]
  <2>1. j \in 1..n /\ j - 1 = i /\ j \in 0..n
    BY <1>1
  <2>2. t \in Seq(Int) /\ Increasing(t) /\ x \in Int
    BY <1>2, <1>5, <2>1
  <2>3. \A k \in 1..Len(t) : \E m \in 1..i : m \in ends /\ t[k] = -s[m]
    BY <1>5
  <2>4. f[j] = IF j \in ends THEN Append(t, x) ELSE t
    BY <1>1, <2>1
  <2> HIDE DEF t, x, j, T
  <2>5. CASE j \notin ends
    <3>1. \A k \in 1..Len(t) : \E m \in 1..j : m \in ends /\ t[k] = -s[m]
      BY <2>1, <2>3
    <3>2. f[j] = t
      BY <2>4, <2>5
    <3>3. j \in T
      BY <2>1, <2>2, <3>1, <3>2 DEF T
    <3> QED BY <3>3 DEF j
  <2>6. CASE j \in ends
    <3>1. \A k \in 1..Len(t) : t[k] < x
      <4> TAKE k \in 1..Len(t)
      <4>1. PICK m \in 1..i : m \in ends /\ t[k] = -s[m]
        BY <2>3
      <4>2. m \in 1..n /\ m < j
        BY <1>1, <2>1
      <4>3. s[j] < s[m]
        BY <1>3, <2>1, <2>6, <4>1, <4>2
      <4> QED BY <1>2, <2>1, <4>1, <4>2, <4>3 DEF x
    <3>2. Increasing(Append(t, x))
      BY <2>2, <3>1, AppendIncreasing
    <3>3. /\ Append(t, x) \in Seq(Int) /\ Len(Append(t, x)) = Len(t) + 1 /\ Len(t) \in Nat
          /\ \A k \in 1..Len(t) : Append(t, x)[k] = t[k]
          /\ Append(t, x)[Len(t) + 1] = x
      BY <2>2, AppendProperties
    <3>4. \A k \in 1..Len(t) + 1 : \E m \in 1..j : m \in ends /\ Append(t, x)[k] = -s[m]
      <4> TAKE k \in 1..Len(t) + 1
      <4>1. CASE k \in 1..Len(t)
        <5>1. PICK m \in 1..i : m \in ends /\ t[k] = -s[m]
          BY <2>3, <4>1
        <5>2. m \in 1..j
          BY <2>1
        <5> QED BY <3>3, <4>1, <5>1, <5>2
      <4>2. CASE k = Len(t) + 1
        <5>1. j \in 1..j
          BY <2>1
        <5> QED BY <2>6, <3>3, <4>2, <5>1 DEF x
      <4> QED BY <3>3, <4>1, <4>2
    <3>5. f[j] = Append(t, x)
      BY <2>4, <2>6
    <3>6. j \in T
      BY <2>1, <3>2, <3>3, <3>4, <3>5 DEF T
    <3> QED BY <3>6 DEF j
  <2> QED BY <2>5, <2>6
<1> HIDE DEF T
<1>6. n \in T
  BY <1>1, <1>4, <1>5, Climb
<1> QED BY <1>1, <1>6 DEF T

\* There are as many lines as ends.
LEMMA LinesLength ==
    ASSUME NEW s \in Seq(Int), NEW ends
    PROVE  /\ IsFiniteSet(ends \cap (1..Len(s)))
           /\ Len(LinesAt(s, ends)) = Cardinality(ends \cap (1..Len(s)))
<1> DEFINE f == Collection(s, ends)
           n == Len(s)
           T == {i \in 0..n : /\ f[i] \in Seq(Int) /\ IsFiniteSet(ends \cap (1..i))
                              /\ Len(f[i]) = Cardinality(ends \cap (1..i))}
<1>1. /\ LinesAt(s, ends) = f[n] /\ f[0] = <<>> /\ n \in Nat
      /\ \A i \in 1..n : f[i] = IF i \in ends THEN Append(f[i - 1], -s[i]) ELSE f[i - 1]
  BY CollectionFacts DEF Collects
<1>2. \A i \in 1..n : -s[i] \in Int
  BY ElementOfSeq
<1> HIDE DEF f, n
<1>3. 0 \in T
  <2>1. 0 \in 0..n /\ <<>> \in Seq(Int) /\ Len(<<>>) = 0
    BY <1>1
  <2>2. ends \cap (1..0) = {}
    OBVIOUS
  <2> QED BY <1>1, <2>1, <2>2, FS_EmptySet
<1>4. ASSUME NEW i \in 0..n - 1, i \in T PROVE i + 1 \in T
  <2> DEFINE j == i + 1
             t == f[i]
             x == -s[j]
             D == ends \cap (1..i)
  <2>1. j \in 1..n /\ j - 1 = i /\ j \in 0..n
    BY <1>1
  <2>2. t \in Seq(Int) /\ x \in Int /\ IsFiniteSet(D) /\ Len(t) = Cardinality(D)
    BY <1>2, <1>4, <2>1
  <2>3. f[j] = IF j \in ends THEN Append(t, x) ELSE t
    BY <1>1, <2>1
  <2>4. ends \cap (1..j) = IF j \in ends THEN D \cup {j} ELSE D
    <3>1. 1..j = (1..i) \cup {j}
      BY <2>1
    <3> QED BY <3>1
  <2>5. j \notin D
    BY <2>1
  <2> HIDE DEF t, x, j, D, T
  <2>6. CASE j \notin ends
    <3>1. j \in T
      BY <2>1, <2>2, <2>3, <2>4, <2>6 DEF T
    <3> QED BY <3>1 DEF j
  <2>7. CASE j \in ends
    <3>1. Append(t, x) \in Seq(Int) /\ Len(Append(t, x)) = Len(t) + 1
      BY <2>2, AppendProperties
    <3>2. IsFiniteSet(D \cup {j}) /\ Cardinality(D \cup {j}) = Cardinality(D) + 1
      BY <2>2, <2>5, FS_AddElement
    <3>3. j \in T
      BY <2>1, <2>2, <2>3, <2>4, <2>7, <3>1, <3>2 DEF T
    <3> QED BY <3>3 DEF j
  <2> QED BY <2>6, <2>7
<1> HIDE DEF T
<1>5. n \in T
  BY <1>1, <1>3, <1>4, Climb
<1> QED BY <1>1, <1>5 DEF T, n

-----------------------------------------------------------------------------
(* Newlines and entries *)

\* A set of numbers up to n that is not empty has a greatest one.
LEMMA MaxUpTo ==
    ASSUME NEW n \in Nat, NEW S, S \subseteq 0..n, S # {}
    PROVE  Max(S) \in S /\ \A x \in S : x <= Max(S)
<1> DEFINE T == {n - x : x \in S}
<1>1. T \subseteq Nat /\ T # {}
  <2>1. PICK x \in S : TRUE
    OBVIOUS
  <2>2. n - x \in T
    BY <2>1
  <2>3. \A y \in S : n - y \in Nat
    OBVIOUS
  <2> QED BY <2>2, <2>3
<1>2. PICK m \in T : \A y \in T : m <= y
  BY <1>1, Minimum
<1>3. PICK z \in S : m = n - z
  BY <1>2
<1>4. \A x \in S : x <= z
  <2> TAKE x \in S
  <2>1. n - z <= n - x
    BY <1>2, <1>3
  <2> QED BY <2>1
<1>5. \E x \in S : \A y \in S : x >= y
  BY <1>4
<1>6. Max(S) \in S /\ \A y \in S : Max(S) >= y
  BY <1>5 DEF Max
<1> QED BY <1>6

LEMMA LastNewlineFacts ==
    ASSUME NEW s \in Seq(Int)
    PROVE  /\ LastNewline(s) \in 0..Len(s)
           /\ LastNewline(s) # 0 => s[LastNewline(s)] < 0
           /\ \A i \in 1..Len(s) : s[i] < 0 => i <= LastNewline(s)
<1> DEFINE S == Newlines(s) \cup {0}
<1>1. Len(s) \in Nat /\ DOMAIN s = 1..Len(s)
  BY LenProperties
<1>2. S \subseteq 0..Len(s) /\ S # {}
  BY <1>1 DEF Newlines
<1>3. LastNewline(s) = Max(S)
  BY DEF LastNewline
<1>4. \A i \in S : i # 0 => s[i] < 0
  BY DEF Newlines
<1>5. \A i \in 1..Len(s) : s[i] < 0 => i \in S
  BY <1>1 DEF Newlines
<1> HIDE DEF S
<1>6. Max(S) \in S /\ \A x \in S : x <= Max(S)
  BY <1>1, <1>2, MaxUpTo
<1> QED BY <1>2, <1>3, <1>4, <1>5, <1>6

\* Whether the line that ends at i parses depends on the two pieces before it.
LEMMA ParsesFacts ==
    ASSUME NEW s \in Seq(Int), NEW i \in 1..Len(s), s[i] < 0
    PROVE  Parses(s, i) <=>
               /\ -s[i] \notin Malformed
               /\ IF -s[i] \in Long
                  THEN i > 1 /\ s[i - 1] = -s[i] /\ (i = 2 \/ s[i - 2] < 0)
                  ELSE i = 1 \/ s[i - 1] < 0
<1> DEFINE u == Upto(s, i - 1)
           l == LastNewline(u)
           t == SubSeq(s, l + 1, i)
           n == -s[i]
<1>1. Len(s) \in Nat /\ \A j \in 1..Len(s) : s[j] \in Int
  BY ElementOfSeq
<1>2. u \in Seq(Int) /\ Len(u) = i - 1 /\ \A j \in 1..i - 1 : u[j] = s[j]
  <2>1. 1 \in Int /\ i - 1 \in Int /\ \A j \in 1..i - 1 : s[j] \in Int
    BY <1>1
  <2>2. /\ SubSeq(s, 1, i - 1) \in Seq(Int)
        /\ Len(SubSeq(s, 1, i - 1)) = IF 1 <= i - 1 THEN i - 1 - 1 + 1 ELSE 0
        /\ \A j \in 1..(i - 1 - 1 + 1) : SubSeq(s, 1, i - 1)[j] = s[1 + j - 1]
    BY <2>1, SubSeqProperties
  <2>3. \A j \in 1..i - 1 : j \in 1..(i - 1 - 1 + 1) /\ 1 + j - 1 = j
    OBVIOUS
  <2>4. Len(SubSeq(s, 1, i - 1)) = i - 1
    BY <2>2
  <2> QED BY <2>2, <2>3, <2>4 DEF Upto
<1> HIDE DEF u
<1>3. /\ l \in 0..i - 1 /\ (l # 0 => s[l] < 0)
      /\ \A j \in 1..i - 1 : s[j] < 0 => j <= l
  <2>1. /\ l \in 0..Len(u) /\ (l # 0 => u[l] < 0)
        /\ \A j \in 1..Len(u) : u[j] < 0 => j <= l
    BY <1>2, LastNewlineFacts
  <2> HIDE DEF l
  <2>2. l # 0 => l \in 1..i - 1
    BY <1>2, <2>1
  <2> QED BY <1>2, <2>1, <2>2
<1> HIDE DEF l
<1>4. /\ t \in Seq(Int) /\ Len(t) = i - l
      /\ \A j \in 1..i - l : t[j] = s[l + j]
  <2>1. l + 1 \in Int /\ i \in Int /\ \A j \in l + 1..i : s[j] \in Int
    BY <1>1, <1>3
  <2>2. /\ t \in Seq(Int) /\ Len(t) = (IF l + 1 <= i THEN i - (l + 1) + 1 ELSE 0)
        /\ \A j \in 1..(i - (l + 1) + 1) : t[j] = s[(l + 1) + j - 1]
    BY <2>1, SubSeqProperties
  <2>3. \A j \in 1..i - l : j \in 1..(i - (l + 1) + 1) /\ (l + 1) + j - 1 = l + j
    BY <1>3
  <2>4. Len(t) = i - l
    BY <2>2, <1>3
  <2> HIDE DEF t
  <2> QED BY <2>2, <2>3, <2>4
<1>5. Parses(s, i) <=> n \notin Malformed /\ t = Text(n)
  BY DEF Parses, u, l
<1>6. n \in Int /\ n > 0 /\ s[i] = -n /\ -n < 0
  BY <1>1
<1> HIDE DEF t, n
<1>7. t = <<-n>> <=> i = 1 \/ s[i - 1] < 0
  <2>1. t = <<-n>> <=> l = i - 1
    <3>1. <<-n>> \in Seq(Int) /\ Len(<<-n>>) = 1 /\ <<-n>>[1] = -n
      BY <1>6
    <3>2. ASSUME l = i - 1 PROVE t = <<-n>>
      <4>1. Len(t) = 1 /\ t[1] = -n
        BY <1>3, <1>4, <1>6, <3>2
      <4>2. \A j \in 1..1 : t[j] = <<-n>>[j]
        BY <3>1, <4>1
      <4> QED BY <1>4, <3>1, <4>1, <4>2, SeqEqual
    <3>3. ASSUME t = <<-n>> PROVE l = i - 1
      BY <1>3, <1>4, <3>1, <3>3
    <3> QED BY <3>2, <3>3
  <2>2. l = i - 1 <=> i = 1 \/ s[i - 1] < 0
    BY <1>1, <1>3
  <2> QED BY <2>1, <2>2
<1>8. t = <<n, -n>> <=> i > 1 /\ s[i - 1] = n /\ (i = 2 \/ s[i - 2] < 0)
  <2>1. t = <<n, -n>> <=> l = i - 2 /\ s[i - 1] = n
    <3>1. /\ <<n, -n>> \in Seq(Int) /\ Len(<<n, -n>>) = 2
          /\ <<n, -n>>[1] = n /\ <<n, -n>>[2] = -n
      BY <1>6
    <3>2. ASSUME l = i - 2, s[i - 1] = n PROVE t = <<n, -n>>
      <4>1. Len(t) = 2 /\ t[1] = n /\ t[2] = -n
        <5>1. i - l = 2 /\ l + 1 = i - 1 /\ l + 2 = i
          BY <1>3, <3>2
        <5>2. t[1] = s[l + 1] /\ t[2] = s[l + 2]
          BY <1>4, <5>1
        <5> QED BY <1>4, <1>6, <3>2, <5>1, <5>2
      <4>2. \A j \in 1..2 : t[j] = <<n, -n>>[j]
        BY <3>1, <4>1
      <4> QED BY <1>4, <3>1, <4>1, <4>2, SeqEqual
    <3>3. ASSUME t = <<n, -n>> PROVE l = i - 2 /\ s[i - 1] = n
      <4>1. i - l = 2 /\ t[1] = n
        BY <1>4, <3>1, <3>3
      <4>2. t[1] = s[l + 1] /\ l + 1 = i - 1
        BY <1>3, <1>4, <4>1
      <4> QED BY <1>3, <4>1, <4>2
    <3> QED BY <3>2, <3>3
  <2>2. ASSUME l = i - 2 PROVE i > 1 /\ (i = 2 \/ s[i - 2] < 0)
    BY <1>3, <2>2
  <2>3. ASSUME i > 1, s[i - 1] = n, i = 2 \/ s[i - 2] < 0 PROVE l = i - 2
    <3>1. l # i - 1
      BY <1>3, <1>6, <2>3
    <3>2. CASE i = 2
      BY <1>3, <3>1, <3>2
    <3>3. CASE i # 2
      <4>1. i - 2 \in 1..i - 1 /\ s[i - 2] < 0
        BY <2>3, <3>3
      <4> QED BY <1>3, <3>1, <4>1
    <3> QED BY <3>2, <3>3
  <2> QED BY <2>1, <2>2, <2>3
<1> QED BY <1>5, <1>7, <1>8 DEF Text, n

\* Behind a newline a line begins: entries on both sides are found apart.
LEMMA EntriesConcat ==
    ASSUME NEW a \in Seq(Int), NEW b \in Seq(Int), a = <<>> \/ a[Len(a)] < 0
    PROVE  Entries(a \o b) = Entries(a) \o Entries(b)
<1> DEFINE s == a \o b
           m == Len(a)
           E == {i \in Newlines(s) : Parses(s, i)}
           F == {i \in Newlines(a) : Parses(a, i)}
           G == {i \in Newlines(b) : Parses(b, i)}
<1>1. /\ s \in Seq(Int) /\ Len(s) = m + Len(b) /\ m \in Nat /\ Len(b) \in Nat
      /\ \A i \in 1..m : s[i] = a[i] /\ a[i] \in Int
      /\ \A i \in 1..Len(b) : s[m + i] = b[i] /\ b[i] \in Int
      /\ DOMAIN s = 1..Len(s) /\ DOMAIN a = 1..m /\ DOMAIN b = 1..Len(b)
  BY ConcatProperties, ElementOfSeq, LenProperties
<1>2. m = 0 \/ a[m] < 0
  BY EmptySeq
<1>3. Entries(s) = LinesAt(s, E) /\ Entries(a) = LinesAt(a, F) /\ Entries(b) = LinesAt(b, G)
  BY DEF Entries
<1>4. /\ \A i \in 1..Len(s) : i \in E <=> s[i] < 0 /\ Parses(s, i)
      /\ \A i \in 1..m : i \in F <=> a[i] < 0 /\ Parses(a, i)
      /\ \A i \in 1..Len(b) : i \in G <=> b[i] < 0 /\ Parses(b, i)
  BY <1>1 DEF Newlines
<1> HIDE DEF s, m, E, F, G
<1>5. ASSUME NEW i \in 1..m PROVE i \in E <=> i \in F
  <2>1. i \in 1..Len(s) /\ i \in 1..Len(a) /\ s[i] = a[i]
    BY <1>1 DEF m
  <2>2. ASSUME s[i] < 0 PROVE Parses(s, i) <=> Parses(a, i)
    <3>1. Parses(s, i) <=>
               /\ -s[i] \notin Malformed
               /\ IF -s[i] \in Long
                  THEN i > 1 /\ s[i - 1] = -s[i] /\ (i = 2 \/ s[i - 2] < 0)
                  ELSE i = 1 \/ s[i - 1] < 0
      BY <1>1, <2>1, <2>2, ParsesFacts
    <3>2. Parses(a, i) <=>
               /\ -a[i] \notin Malformed
               /\ IF -a[i] \in Long
                  THEN i > 1 /\ a[i - 1] = -a[i] /\ (i = 2 \/ a[i - 2] < 0)
                  ELSE i = 1 \/ a[i - 1] < 0
      BY <2>1, <2>2, ParsesFacts
    <3>3. i > 1 => s[i - 1] = a[i - 1]
      BY <1>1
    <3>4. i > 2 => s[i - 2] = a[i - 2]
      BY <1>1
    <3>5. i = 1 \/ i = 2 \/ i > 2
      BY <1>1
    <3> QED BY <2>1, <3>1, <3>2, <3>3, <3>4, <3>5, SMTT(30)
  <2> QED BY <1>4, <2>1, <2>2
<1>6. ASSUME NEW i \in 1..Len(b) PROVE m + i \in E <=> i \in G
  <2>1. m + i \in 1..Len(s) /\ s[m + i] = b[i]
    BY <1>1
  <2>2. ASSUME b[i] < 0 PROVE Parses(s, m + i) <=> Parses(b, i)
    <3> DEFINE j == m + i
    <3>1. Parses(s, j) <=>
               /\ -s[j] \notin Malformed
               /\ IF -s[j] \in Long
                  THEN j > 1 /\ s[j - 1] = -s[j] /\ (j = 2 \/ s[j - 2] < 0)
                  ELSE j = 1 \/ s[j - 1] < 0
      <4>1. j \in 1..Len(s) /\ s[j] < 0
        BY <2>1, <2>2
      <4> HIDE DEF j
      <4> QED BY <1>1, <4>1, ParsesFacts
    <3>2. Parses(b, i) <=>
               /\ -b[i] \notin Malformed
               /\ IF -b[i] \in Long
                  THEN i > 1 /\ b[i - 1] = -b[i] /\ (i = 2 \/ b[i - 2] < 0)
                  ELSE i = 1 \/ b[i - 1] < 0
      BY <2>2, ParsesFacts
    <3>3. i > 1 => s[j - 1] = b[i - 1] /\ j > 1
      <4>1. i > 1 => i - 1 \in 1..Len(b) /\ m + (i - 1) = j - 1 /\ j > 1
        BY <1>1
      <4> QED BY <1>1, <4>1
    <3>4. i > 2 => s[j - 2] = b[i - 2] /\ j # 2
      <4>1. i > 2 => i - 2 \in 1..Len(b) /\ m + (i - 2) = j - 2 /\ j # 2
        BY <1>1
      <4> QED BY <1>1, <4>1
    <3>5. i = 1 => j = 1 \/ s[j - 1] < 0
      <4>1. i = 1 => j - 1 = m /\ (m # 0 => m \in 1..m)
        BY <1>1
      <4> QED BY <1>1, <1>2, <4>1
    <3>6. i = 2 => j = 2 \/ s[j - 2] < 0
      <4>1. i = 2 => j - 2 = m /\ (m # 0 => m \in 1..m)
        BY <1>1
      <4> QED BY <1>1, <1>2, <4>1
    <3>7. i = 1 => ~(j > 1 /\ s[j - 1] = -s[j])
      <4>1. -s[j] > 0 /\ (j > 1 => ~(j = 1))
        BY <1>1, <2>1, <2>2
      <4>2. i = 1 /\ j > 1 => s[j - 1] < 0
        BY <3>5, <4>1
      <4>3. i = 1 /\ j > 1 => s[j - 1] \in Int
        <5>1. i = 1 /\ j > 1 => j - 1 = m /\ m \in 1..m
          BY <1>1
        <5> QED BY <1>1, <5>1
      <4> QED BY <4>1, <4>2, <4>3
    <3>8. i = 1 \/ i = 2 \/ i > 2
      BY <1>1
    <3>9. s[j] = b[i]
      BY <2>1
    <3> HIDE DEF j
    <3>10. CASE i = 1
      BY <3>1, <3>2, <3>5, <3>7, <3>9, <3>10 DEF j
    <3>11. CASE i = 2
      BY <3>1, <3>2, <3>3, <3>6, <3>9, <3>11 DEF j
    <3>12. CASE i > 2
      BY <3>1, <3>2, <3>3, <3>4, <3>9, <3>12, SMTT(30) DEF j
    <3> QED BY <3>8, <3>10, <3>11, <3>12
  <2> QED BY <1>4, <2>1, <2>2
<1>7. LinesAt(a \o b, E) = LinesAt(a, F) \o LinesAt(b, G)
  <2>1. EndsAgree(a, b, E, F, G)
    BY <1>5, <1>6 DEF m, EndsAgree
  <2> QED BY <2>1, LinesConcat
<1> QED BY <1>3, <1>7 DEF s

LEMMA RawConcat ==
    ASSUME NEW a \in Seq(Int), NEW b \in Seq(Int)
    PROVE  RawLines(a \o b) = RawLines(a) \o RawLines(b)
<1>1. /\ a \o b \in Seq(Int) /\ Len(a \o b) = Len(a) + Len(b) /\ Len(a) \in Nat /\ Len(b) \in Nat
      /\ \A i \in 1..Len(a) : (a \o b)[i] = a[i]
      /\ \A i \in 1..Len(b) : (a \o b)[Len(a) + i] = b[i]
      /\ DOMAIN (a \o b) = 1..Len(a \o b) /\ DOMAIN a = 1..Len(a) /\ DOMAIN b = 1..Len(b)
  BY ConcatProperties, LenProperties
<1> DEFINE s == a \o b
<1>2. RawLines(s) = LinesAt(s, Newlines(s))
  BY DEF RawLines
<1> HIDE DEF s
<1>3. \A i \in 1..Len(a) : i \in Newlines(s) <=> i \in Newlines(a)
  BY <1>1 DEF Newlines, s
<1>4. \A i \in 1..Len(b) : Len(a) + i \in Newlines(s) <=> i \in Newlines(b)
  BY <1>1 DEF Newlines, s
<1>5. LinesAt(a \o b, Newlines(s)) = LinesAt(a, Newlines(a)) \o LinesAt(b, Newlines(b))
  <2> DEFINE E == Newlines(s)
             F == Newlines(a)
             G == Newlines(b)
  <2>1. EndsAgree(a, b, E, F, G)
    BY <1>3, <1>4 DEF EndsAgree
  <2> HIDE DEF E, F, G
  <2>2. LinesAt(a \o b, E) = LinesAt(a, F) \o LinesAt(b, G)
    BY <2>1, LinesConcat
  <2> QED BY <2>2 DEF E, F, G
<1> QED BY <1>2, <1>5 DEF RawLines, s

\* What readers get has the numbers of lines that end in s.
LEMMA LinesOf ==
    ASSUME NEW S, NEW s \in Seq(Int), \A i \in 1..Len(s) : s[i] < 0 => -s[i] \in S
    PROVE  Entries(s) \in Seq(S) /\ RawLines(s) \in Seq(S)
<1>1. \A i \in 1..Len(s) : i \in Newlines(s) => -s[i] \in S
  BY DEF Newlines
<1> DEFINE E == {i \in Newlines(s) : Parses(s, i)}
<1>2. \A i \in 1..Len(s) : i \in E => -s[i] \in S
  BY <1>1
<1>3. Entries(s) = LinesAt(s, E)
  BY DEF Entries
<1> HIDE DEF E
<1>4. Entries(s) \in Seq(S)
  BY <1>2, <1>3, LinesType
<1>5. RawLines(s) \in Seq(S)
  BY <1>1, LinesType DEF RawLines
<1> QED BY <1>4, <1>5

LEMMA EntriesIncreasing ==
    ASSUME NEW s \in Seq(Int), InOrder(s)
    PROVE  Increasing(Entries(s))
<1> DEFINE E == {i \in Newlines(s) : Parses(s, i)}
<1>1. \A i, j \in 1..Len(s) : i < j /\ i \in E /\ j \in E => s[j] < s[i]
  BY DEF InOrder, Newlines
<1>2. Entries(s) = LinesAt(s, E)
  BY DEF Entries
<1> HIDE DEF E
<1> QED BY <1>1, <1>2, LinesIncreasing

LEMMA NoLines == Entries(<<>>) = <<>> /\ RawLines(<<>>) = <<>>
<1>1. <<>> \in Seq(Int) /\ Len(<<>>) = 0
  BY EmptySeq
<1>2. ASSUME NEW E PROVE LinesAt(<<>>, E) = <<>>
  <2>1. /\ LinesAt(<<>>, E) = Collection(<<>>, E)[Len(<<>>)]
        /\ Collection(<<>>, E)[0] = <<>>
    BY <1>1, CollectionFacts DEF Collects
  <2> QED BY <1>1, <2>1
<1> QED BY <1>2 DEF Entries, RawLines

-----------------------------------------------------------------------------
(* Slices *)

\* What is between the positions p and q of s.
LEMMA SliceFacts ==
    ASSUME NEW S, NEW s \in Seq(S), NEW p \in Nat, NEW q \in 0..Len(s)
    PROVE  /\ SubSeq(s, p + 1, q) \in Seq(S)
           /\ Len(SubSeq(s, p + 1, q)) = IF p <= q THEN q - p ELSE 0
           /\ \A i \in 1..q - p : SubSeq(s, p + 1, q)[i] = s[p + i] /\ p + i \in 1..Len(s)
<1>1. Len(s) \in Nat /\ \A i \in 1..Len(s) : s[i] \in S
  BY ElementOfSeq
<1>2. p + 1 \in Int /\ q \in Int /\ \A i \in p + 1..q : s[i] \in S
  BY <1>1
<1>3. /\ SubSeq(s, p + 1, q) \in Seq(S)
      /\ Len(SubSeq(s, p + 1, q)) = IF p + 1 <= q THEN q - (p + 1) + 1 ELSE 0
      /\ \A i \in 1..q - (p + 1) + 1 : SubSeq(s, p + 1, q)[i] = s[(p + 1) + i - 1]
  BY <1>2, SubSeqProperties
<1>4. \A i \in 1..q - p : /\ i \in 1..q - (p + 1) + 1 /\ (p + 1) + i - 1 = p + i
                          /\ p + i \in 1..Len(s)
  BY <1>1
<1>5. Len(SubSeq(s, p + 1, q)) = IF p <= q THEN q - p ELSE 0
  BY <1>3
<1> QED BY <1>3, <1>4, <1>5

LEMMA SlicesOfConcat ==
    ASSUME NEW S, NEW s \in Seq(S), NEW t \in Seq(S), NEW p \in Nat, NEW q \in 0..Len(s)
    PROVE  SubSeq(s \o t, p + 1, q) = SubSeq(s, p + 1, q)
<1>1. /\ s \o t \in Seq(S) /\ Len(s \o t) = Len(s) + Len(t) /\ Len(s) \in Nat /\ Len(t) \in Nat
      /\ \A i \in 1..Len(s) : (s \o t)[i] = s[i]
  BY ConcatProperties
<1> DEFINE u == s \o t
           a == SubSeq(u, p + 1, q)
           b == SubSeq(s, p + 1, q)
<1>2. q \in 0..Len(u)
  BY <1>1
<1> HIDE DEF u
<1>3. /\ a \in Seq(S) /\ Len(a) = (IF p <= q THEN q - p ELSE 0)
      /\ \A i \in 1..q - p : a[i] = u[p + i] /\ p + i \in 1..Len(u)
  BY <1>1, <1>2, SliceFacts DEF u
<1>4. /\ b \in Seq(S) /\ Len(b) = (IF p <= q THEN q - p ELSE 0)
      /\ \A i \in 1..q - p : b[i] = s[p + i] /\ p + i \in 1..Len(s)
  BY SliceFacts
<1> HIDE DEF a, b
<1>5. \A i \in 1..Len(a) : a[i] = b[i]
  <2> TAKE i \in 1..Len(a)
  <2>1. i \in 1..q - p
    BY <1>1, <1>3
  <2> QED BY <1>1, <1>3, <1>4, <2>1 DEF u
<1>6. a = b
  BY <1>3, <1>4, <1>5, SeqEqual
<1> QED BY <1>6 DEF a, b, u

\* The lines between p and r are those up to q and those from there.
LEMMA LinesOfSlices ==
    ASSUME NEW s \in Seq(Int), NEW p \in Nat, NEW q \in p..Len(s), NEW r \in q..Len(s)
    PROVE  /\ Boundary(s, q) =>
                  Entries(SubSeq(s, p + 1, r)) =
                      Entries(SubSeq(s, p + 1, q)) \o Entries(SubSeq(s, q + 1, r))
           /\ RawLines(SubSeq(s, p + 1, r)) =
                  RawLines(SubSeq(s, p + 1, q)) \o RawLines(SubSeq(s, q + 1, r))
<1> DEFINE a == SubSeq(s, p + 1, q)
           b == SubSeq(s, q + 1, r)
<1>1. Len(s) \in Nat
  BY LenProperties
<1>2. q \in 0..Len(s) /\ r \in 0..Len(s) /\ q \in Nat /\ p + 1 \in 1..Len(s) + 1
      /\ q \in (p + 1) - 1..Len(s)
  BY <1>1
<1>3. /\ a \in Seq(Int) /\ Len(a) = q - p
      /\ \A i \in 1..q - p : a[i] = s[p + i]
  BY <1>1, <1>2, SliceFacts
<1>4. b \in Seq(Int)
  BY <1>1, <1>2, SliceFacts
<1>5. SubSeq(s, p + 1, r) = a \o b
  BY <1>1, <1>2, ConcatAdjacentSubSeq
<1> HIDE DEF a, b
<1>6. RawLines(SubSeq(s, p + 1, r)) = RawLines(a) \o RawLines(b)
  BY <1>3, <1>4, <1>5, RawConcat
<1>7. ASSUME Boundary(s, q)
      PROVE  Entries(SubSeq(s, p + 1, r)) = Entries(a) \o Entries(b)
  <2>1. a = <<>> \/ a[Len(a)] < 0
    <3>1. CASE p = q
      BY <1>3, <3>1, EmptySeq
    <3>2. CASE p # q
      <4>1. q - p \in 1..q - p /\ p + (q - p) = q /\ q # 0
        BY <3>2
      <4> QED BY <1>3, <1>7, <4>1 DEF Boundary
    <3> QED BY <3>1, <3>2
  <2> QED BY <1>3, <1>4, <1>5, <2>1, EntriesConcat
<1> QED BY <1>6, <1>7 DEF a, b

LEMMA LinesUpto ==
    ASSUME NEW s \in Seq(Int), NEW q \in 0..Len(s), NEW r \in q..Len(s)
    PROVE  RawLines(Upto(s, r)) = RawLines(Upto(s, q)) \o RawLines(SubSeq(s, q + 1, r))
<1> DEFINE z == 0
<1>1. z \in Nat /\ z + 1 = 1 /\ q \in z..Len(s)
  OBVIOUS
<1> HIDE DEF z
<1>2. RawLines(SubSeq(s, z + 1, r)) =
          RawLines(SubSeq(s, z + 1, q)) \o RawLines(SubSeq(s, q + 1, r))
  BY <1>1, LinesOfSlices
<1> QED BY <1>1, <1>2 DEF Upto

-----------------------------------------------------------------------------
(* Where a page begins *)

UpFrom(A, i) == {j \in A : j >= i}

LEMMA CountUpTo ==
    ASSUME NEW n \in Nat
    PROVE  IsFiniteSet(1..n) /\ Cardinality(1..n) = n
<1>1. /\ IsFiniteSet(1..n)
      /\ Cardinality(1..n) = IF 1 > n THEN 0 ELSE n - 1 + 1
  BY FS_Interval
<1> QED BY <1>1

\* A finite set of numbers has, for each k, an element with k of it from there on.
LEMMA KthFromEnd ==
    ASSUME NEW n \in Nat, NEW A, A \subseteq 0..n, NEW k \in Nat, 1 <= k, k <= Cardinality(A)
    PROVE  \E i \in A : Cardinality(UpFrom(A, i)) = k
<1> DEFINE R(i) == {j \in A : j >= i}
           T == {m \in Nat : m # 0 /\ m <= Cardinality(A) => \E i \in A : Cardinality(R(i)) = m}
<1>1. IsFiniteSet(A) /\ Cardinality(A) \in Nat
  <2>1. IsFiniteSet(0..n)
    BY FS_Interval
  <2> QED BY <2>1, FS_Subset, FS_CardinalityType
<1>2. \A i \in A : i \in Int /\ IsFiniteSet(R(i)) /\ Cardinality(R(i)) \in Nat
  <2> TAKE i \in A
  <2>1. R(i) \subseteq A
    OBVIOUS
  <2>2. IsFiniteSet(R(i))
    BY <1>1, <2>1, FS_Subset
  <2> QED BY <2>2, FS_CardinalityType
<1>3. 0 \in T
  OBVIOUS
<1>4. ASSUME NEW m \in Nat, m \in T PROVE m + 1 \in T
  <2> SUFFICES ASSUME m + 1 <= Cardinality(A)
               PROVE  \E i \in A : Cardinality(R(i)) = m + 1
    OBVIOUS
  <2>1. CASE m = 0
    <3>1. A # {}
      BY <1>1, FS_EmptySet
    <3>2. PICK i \in A : \A x \in A : x <= i
      BY <3>1, MaxUpTo
    <3>3. R(i) = {i}
      <4>1. \A j \in A : j >= i <=> j = i
        BY <1>2, <3>2
      <4> QED BY <4>1
    <3> QED BY <2>1, <3>3, FS_Singleton
  <2>2. CASE m # 0
    <3>1. PICK i \in A : Cardinality(R(i)) = m
      BY <1>1, <1>4, <2>2
    <3> DEFINE B == {j \in A : j < i}
    <3>2. B # {}
      <4>1. ASSUME B = {} PROVE FALSE
        <5>1. \A j \in A : j >= i
          BY <1>2, <4>1
        <5>2. R(i) = A
          BY <5>1
        <5> QED BY <1>1, <3>1, <5>2
      <4> QED BY <4>1
    <3>3. B \subseteq 0..n
      OBVIOUS
    <3>4. PICK z \in B : \A x \in B : x <= z
      BY <3>2, <3>3, MaxUpTo
    <3>5. R(z) = R(i) \cup {z} /\ z \notin R(i) /\ z \in A
      <4>1. z \in A /\ z < i /\ z \in Int /\ i \in Int
        BY <1>2, <3>4
      <4>2. \A j \in A : j \in Int /\ (j >= z <=> j >= i \/ j = z)
        BY <1>2, <3>4, <4>1
      <4>3. \A j : j \in R(z) <=> j \in R(i) \cup {z}
        BY <4>1, <4>2
      <4>4. z \notin R(i)
        BY <4>1
      <4> QED BY <4>1, <4>3, <4>4
    <3>6. Cardinality(R(i) \cup {z}) = Cardinality(R(i)) + 1
      BY <1>2, <3>5, FS_AddElement
    <3> QED BY <3>1, <3>5, <3>6
  <2> QED BY <2>1, <2>2
<1> HIDE DEF T
<1>5. k \in T
  BY <1>3, <1>4, Climb
<1>6. \E i \in A : Cardinality(R(i)) = k
  BY <1>1, <1>5 DEF T
<1> QED BY <1>6 DEF UpFrom

\* The newlines behind p and up to q.
Ends(s, p, q) == {i \in Newlines(s) : p < i /\ i <= q}

LEMMA EndsFacts ==
    ASSUME NEW s \in Seq(Int), NEW p \in Nat, NEW q \in Nat
    PROVE  /\ \A i : i \in Ends(s, p, q) <=> i \in 1..Len(s) /\ s[i] < 0 /\ p < i /\ i <= q
           /\ IsFiniteSet(Ends(s, p, q)) /\ Cardinality(Ends(s, p, q)) \in Nat
<1>1. Len(s) \in Nat /\ DOMAIN s = 1..Len(s)
  BY LenProperties
<1>2. \A i : i \in Ends(s, p, q) <=> i \in 1..Len(s) /\ s[i] < 0 /\ p < i /\ i <= q
  BY <1>1 DEF Ends, Newlines
<1>3. Ends(s, p, q) \subseteq 1..Len(s)
  BY <1>2
<1>4. IsFiniteSet(1..Len(s))
  BY <1>1, CountUpTo
<1>5. IsFiniteSet(Ends(s, p, q))
  BY <1>3, <1>4, FS_Subset
<1> QED BY <1>2, <1>5, FS_CardinalityType

LEMMA ReadFromFacts ==
    ASSUME NEW s \in Seq(Int), NEW q \in Nat, NEW limit \in Nat
    PROVE  /\ ReadFrom(s, q, limit) \in Nat
           /\ ReadFrom(s, q, limit) # 0 =>
                 /\ ReadFrom(s, q, limit) < q
                 /\ Cardinality(Ends(s, ReadFrom(s, q, limit), q)) > limit
<1> DEFINE Enough(p) == Cardinality({i \in Newlines(s) : p < i /\ i <= q}) > limit
           InChunks(p) == (q - p) % Chunk = 0
           S == {0} \cup {p \in 0..q - 1 : InChunks(p) /\ Enough(p)}
<1>1. ReadFrom(s, q, limit) = Max(S)
  BY DEF ReadFrom
<1> HIDE DEF Enough, InChunks
<1>2. S \subseteq 0..q /\ S # {} /\ \A p \in S : p \in Nat /\ (p # 0 => p < q /\ Enough(p))
  OBVIOUS
<1> HIDE DEF S
<1>3. Max(S) \in S
  BY <1>2, MaxUpTo
<1> QED BY <1>1, <1>2, <1>3 DEF Ends, Enough

NoNewline(s, p, q) == \A i \in 1..Len(s) : s[i] < 0 /\ i <= q => i <= p

\* A page that ends at end begins at the beginning of s, or behind the newline
\* from which it has as many lines as asked for.
LEMMA PageStartFacts ==
    ASSUME NEW s \in Seq(Int), NEW q \in Nat, NEW end \in 0..Len(s), end <= q,
           NoNewline(s, end, q), NEW limit \in Nat \ {0}
    PROVE  /\ PageStart(s, q, end, limit) \in 0..end
           /\ Boundary(s, end) /\ PageStart(s, q, end, limit) # 0 =>
                 /\ s[PageStart(s, q, end, limit)] < 0
                 /\ Cardinality(Ends(s, PageStart(s, q, end, limit), end)) = limit
<1> \A i \in 1..Len(s) : s[i] < 0 /\ i <= q => i <= end
  BY DEF NoNewline
<1> DEFINE p == ReadFrom(s, q, limit)
           all == {i \in p..end - 1 : i = p \/ s[i] < 0}
           behind(i) == {j \in all : j >= i}
           page == PageStart(s, q, end, limit)
<1>1. /\ Len(s) \in Nat /\ end \in Nat /\ \A i \in 1..Len(s) : s[i] \in Int
  BY ElementOfSeq
<1>2. p \in Nat /\ (p # 0 => p < q /\ Cardinality(Ends(s, p, q)) > limit)
  BY ReadFromFacts
<1>3. page = IF Cardinality(all) <= limit THEN p
             ELSE CHOOSE i \in all : Cardinality(behind(i)) = limit
  BY DEF PageStart
<1> HIDE DEF p, page
<1>4. Ends(s, p, q) = Ends(s, p, end)
  <2>1. \A i : i \in Ends(s, p, q) <=> i \in 1..Len(s) /\ s[i] < 0 /\ p < i /\ i <= q
    BY <1>2, EndsFacts
  <2>2. \A i : i \in Ends(s, p, end) <=> i \in 1..Len(s) /\ s[i] < 0 /\ p < i /\ i <= end
    BY <1>1, <1>2, EndsFacts
  <2>3. \A i : i \in Ends(s, p, q) <=> i \in Ends(s, p, end)
    BY <1>1, <2>1, <2>2
  <2> QED BY <2>3
<1>5. p <= end
  <2> SUFFICES ASSUME p # 0 PROVE p <= end
    BY <1>1
  <2>1. Cardinality(Ends(s, p, end)) > limit
    BY <1>2, <1>4
  <2>2. Ends(s, p, end) # {}
    <3>1. IsFiniteSet(Ends(s, p, end))
      BY <1>1, <1>2, EndsFacts
    <3>2. Cardinality(Ends(s, p, end)) # 0
      BY <2>1
    <3> QED BY <3>1, <3>2, FS_EmptySet
  <2>3. PICK i : i \in Ends(s, p, end)
    BY <2>2
  <2>4. i \in 1..Len(s) /\ p < i /\ i <= end
    BY <1>1, <1>2, <2>3, EndsFacts
  <2> QED BY <1>1, <1>2, <2>4
<1>6. /\ all \subseteq 0..end /\ IsFiniteSet(all) /\ Cardinality(all) \in Nat
      /\ \A i \in all : i \in p..end - 1 /\ (i # p => i \in 1..Len(s) /\ s[i] < 0)
      /\ \A i \in p..end - 1 : i = p \/ s[i] < 0 => i \in all
  <2>1. all \subseteq 0..end
    BY <1>1, <1>2
  <2>2. IsFiniteSet(0..end)
    BY <1>1, FS_Interval
  <2>3. IsFiniteSet(all)
    BY <2>1, <2>2, FS_Subset
  <2>4. \A i \in all : i \in p..end - 1 /\ (i # p => i \in 1..Len(s) /\ s[i] < 0)
    BY <1>1, <1>2
  <2> QED BY <2>1, <2>3, <2>4, FS_CardinalityType
\* The newlines behind i and up to end are one fewer than those from i, and end.
<1>7. ASSUME NEW i \in all, end # 0, s[end] < 0
      PROVE  Cardinality(Ends(s, i, end)) = Cardinality(behind(i))
  <2> DEFINE N == {j \in all : j > i}
  <2>1. i \in Nat /\ i < end /\ \A j \in all : j \in Nat
    BY <1>1, <1>2, <1>6
  <2>2. IsFiniteSet(N) /\ Cardinality(N) \in Nat
    <3>1. N \subseteq all
      OBVIOUS
    <3>2. IsFiniteSet(N)
      BY <1>6, <3>1, FS_Subset
    <3> QED BY <3>2, FS_CardinalityType
  <2>3. behind(i) = N \cup {i} /\ i \notin N
    <3>1. \A j \in all : (j >= i <=> j > i \/ j = i) /\ ~(i > i)
      BY <2>1
    <3> QED BY <3>1
  <2>4. Ends(s, i, end) = N \cup {end} /\ end \notin N
    <3>1. \A j : j \in Ends(s, i, end) <=> j \in 1..Len(s) /\ s[j] < 0 /\ i < j /\ j <= end
      BY <1>1, <2>1, EndsFacts
    <3>2. \A j : j \in N <=> j \in 1..Len(s) /\ s[j] < 0 /\ i < j /\ j < end
      <4>1. \A j \in all : j > i => j # p /\ j < end
        BY <1>1, <1>2, <1>6, <2>1
      <4>2. ASSUME NEW j \in 1..Len(s), s[j] < 0, i < j, j < end PROVE j \in all
        <5>1. j \in p..end - 1
          BY <1>1, <1>2, <1>6, <2>1, <4>2
        <5> QED BY <1>6, <4>2, <5>1
      <4>3. \A j \in N : j \in all /\ j > i
        OBVIOUS
      <4>4. \A j \in all : j > i => j \in N
        OBVIOUS
      <4> HIDE DEF all, N
      <4>5. \A j \in N : j \in 1..Len(s) /\ s[j] < 0 /\ i < j /\ j < end
        BY <1>6, <2>1, <4>1, <4>3
      <4>6. ASSUME NEW j \in 1..Len(s), s[j] < 0, i < j, j < end PROVE j \in N
        BY <2>1, <4>2, <4>4, <4>6
      <4> QED BY <4>5, <4>6
    <3> HIDE DEF N
    <3>3. end \in 1..Len(s) /\ s[end] < 0 /\ i < end /\ end <= end
      BY <1>1, <1>7, <2>1
    <3>4. \A j : j \in Ends(s, i, end) <=> j \in N \cup {end}
      BY <1>1, <3>1, <3>2, <3>3
    <3>5. end \notin N
      BY <1>1, <3>2
    <3> QED BY <3>4, <3>5
  <2> HIDE DEF N
  <2>5. /\ Cardinality(N \cup {i}) = Cardinality(N) + 1
        /\ Cardinality(N \cup {end}) = Cardinality(N) + 1
    BY <2>2, <2>3, <2>4, FS_AddElement
  <2> QED BY <2>3, <2>4, <2>5
<1>8. CASE Cardinality(all) <= limit
  <2>1. page = p
    BY <1>3, <1>8
  <2>2. page \in 0..end
    BY <1>1, <1>2, <1>5, <2>1
  <2>3. ASSUME Boundary(s, end), page # 0 PROVE FALSE
    <3>1. p # 0 /\ Cardinality(Ends(s, p, end)) > limit
      BY <1>2, <1>4, <2>1, <2>3
    <3>2. end # 0 /\ s[end] < 0
      BY <1>1, <1>2, <1>5, <2>3, <3>1 DEF Boundary
    <3>3. p # end
      <4>1. \A i : i \in Ends(s, end, end) => end < i /\ i <= end /\ i \in Int
        BY <1>1, EndsFacts
      <4>2. Ends(s, end, end) = {}
        BY <1>1, <4>1
      <4>3. IsFiniteSet(Ends(s, end, end))
        BY <1>1, EndsFacts
      <4>4. p = end => Cardinality(Ends(s, end, end)) # 0
        BY <3>1
      <4> QED BY <4>2, <4>3, <4>4, FS_EmptySet
    <3>4. p \in all
      <4>1. p \in p..end - 1
        BY <1>1, <1>2, <1>5, <3>3
      <4> QED BY <1>6, <4>1
    <3>5. Cardinality(Ends(s, p, end)) = Cardinality(behind(p))
      BY <1>7, <3>2, <3>4
    <3>6. behind(p) = all
      <4>1. \A j \in all : j >= p
        BY <1>1, <1>2, <1>6
      <4> QED BY <4>1
    <3>7. Cardinality(all) \in Nat
      BY <1>6
    <3> HIDE DEF all, behind
    <3> QED BY <1>8, <3>1, <3>5, <3>6, <3>7
  <2> QED BY <2>2, <2>3 DEF page
<1>9. CASE ~(Cardinality(all) <= limit)
  <2>1. \E i \in all : Cardinality(behind(i)) = limit
    <3>1. 1 <= limit /\ limit <= Cardinality(all) /\ limit \in Nat
      BY <1>6, <1>9
    <3>2. all \subseteq 0..end
      BY <1>6
    <3>3. end \in Nat
      BY <1>1
    <3> HIDE DEF all
    <3>4. \E i \in all : Cardinality(UpFrom(all, i)) = limit
      BY <3>1, <3>2, <3>3, KthFromEnd
    <3> QED BY <3>4 DEF UpFrom
  <2>2. page \in all /\ Cardinality(behind(page)) = limit
    <3>1. page = CHOOSE i \in all : Cardinality(behind(i)) = limit
      BY <1>3, <1>9
    <3> HIDE DEF all, behind
    <3> QED BY <2>1, <3>1
  <2> HIDE DEF all
  <2>3. page \in 0..end
    BY <1>1, <1>6, <2>2
  <2>4. page # p
    <3>1. ASSUME page = p PROVE behind(page) = all
      <4>1. \A j \in all : j >= p
        BY <1>1, <1>2, <1>6
      <4> QED BY <3>1, <4>1
    <3>2. Cardinality(all) \in Nat
      BY <1>6
    <3> HIDE DEF all, behind
    <3> QED BY <1>9, <2>2, <3>1, <3>2
  <2>5. s[page] < 0
    BY <1>6, <2>2, <2>4
  <2>6. ASSUME Boundary(s, end) PROVE Cardinality(Ends(s, page, end)) = limit
    <3>1. end # 0 /\ s[end] < 0
      BY <1>1, <1>2, <1>6, <2>2, <2>6 DEF Boundary
    <3> QED BY <1>7, <2>2, <3>1
  <2> QED BY <2>3, <2>5, <2>6 DEF page
<1> QED BY <1>8, <1>9

-----------------------------------------------------------------------------
(* The files *)

LEMMA FileFacts ==
    ASSUME LogViewerAssumption, FileTypes
    PROVE  /\ Len(content) \in Nat \ {0} /\ DOMAIN content = 1..Len(content)
           /\ lines \in Nat /\ MaxLines \in Nat /\ lines <= MaxLines
           /\ Piece \subseteq Int
           /\ \A k \in 1..Len(content) :
                 content[k] \in Seq(Piece) /\ content[k] \in Seq(Int) /\ Len(content[k]) \in Nat
           /\ \A k \in 1..Len(content) : \A i \in 1..Len(content[k]) :
                 content[k][i] \in Int /\ content[k][i] # 0
<1>1. MaxLines \in Nat /\ Piece \subseteq Int
  BY DEF LogViewerAssumption, Piece
<1>2. Len(content) \in Nat \ {0} /\ DOMAIN content = 1..Len(content)
  BY LenProperties DEF FileTypes
<1>3. lines \in Nat /\ lines <= MaxLines
  BY <1>1 DEF FileTypes
<1>4. ASSUME NEW k \in 1..Len(content)
      PROVE  content[k] \in Seq(Piece) /\ content[k] \in Seq(Int) /\ Len(content[k]) \in Nat
  <2>1. content[k] \in Seq(Piece)
    BY ElementOfSeq DEF FileTypes
  <2>2. content[k] \in Seq(Int)
    BY <1>1, <2>1, SeqMonotonic
  <2> QED BY <2>1, <2>2
<1>5. ASSUME NEW k \in 1..Len(content), NEW i \in 1..Len(content[k])
      PROVE  content[k][i] \in Int /\ content[k][i] # 0
  <2>1. content[k][i] \in Piece
    BY <1>4, ElementOfSeq
  <2> QED BY <1>1, <2>1 DEF Piece
<1> QED BY <1>1, <1>2, <1>3, <1>4, <1>5

\* A file has at most two pieces of each line.
LEMMA SizeBound ==
    ASSUME LogViewerAssumption, FileInv, NEW k \in 1..Len(content)
    PROVE  Len(content[k]) \in Offset /\ Len(content[k]) <= 2 * lines
<1> DEFINE s == content[k]
           n == lines
           V == (-n..n) \ {0}
<1>1. /\ n \in Nat /\ n <= MaxLines /\ MaxLines \in Nat
      /\ s \in Seq(Int) /\ Len(s) \in Nat /\ DOMAIN s = 1..Len(s)
      /\ \A i \in 1..Len(s) : s[i] \in Int /\ s[i] # 0
  BY FileFacts, LenProperties DEF FileInv
<1>2. /\ \A i \in 1..Len(s) : s[i] \in -n..n
      /\ \A i, j \in 1..Len(s) : s[i] = s[j] => i = j
  BY DEF FileInv, Pieces
<1> HIDE DEF s, n
<1>3. IsFiniteSet(V) /\ Cardinality(V) = 2 * n
  <2>1. -n \in Int /\ n \in Int /\ ~(-n > n) /\ n - (-n) + 1 = 2 * n + 1 /\ 0 \in -n..n
    BY <1>1
  <2>2. IsFiniteSet(-n..n) /\ Cardinality(-n..n) = 2 * n + 1
    BY <2>1, FS_Interval
  <2>3. IsFiniteSet(V) /\ Cardinality(V) = (2 * n + 1) - 1
    <3> DEFINE W == -n..n
    <3>1. IsFiniteSet(W) /\ 0 \in W /\ Cardinality(W) = 2 * n + 1 /\ V = W \ {0}
      BY <2>1, <2>2
    <3> HIDE DEF V, W
    <3>2. IsFiniteSet(W \ {0}) /\ Cardinality(W \ {0}) = Cardinality(W) - 1
      BY <3>1, FS_RemoveElement
    <3> QED BY <3>1, <3>2
  <2> QED BY <1>1, <2>3
<1>4. s \in Injection(1..Len(s), V)
  <2>1. s \in [1..Len(s) -> V]
    <3>1. s \in [1..Len(s) -> Int]
      BY <1>1, LenProperties
    <3>2. \A i \in 1..Len(s) : s[i] \in V
      BY <1>1, <1>2
    <3> QED BY <3>1, <3>2
  <2> QED BY <1>2, <2>1 DEF Injection, IsInjective
<1>5. Cardinality(1..Len(s)) <= Cardinality(V)
  BY <1>3, <1>4, FS_Injection
<1>6. Cardinality(1..Len(s)) = Len(s)
  BY <1>1, CountUpTo
<1>7. Len(s) <= 2 * n /\ Len(s) \in 0..2 * MaxLines
  BY <1>1, <1>3, <1>5, <1>6
<1> QED BY <1>7 DEF Offset, s, n

\* The file k gets the pieces t; the others stay as they are.
Grows(k, t) == content' = [content EXCEPT ![k] = @ \o t]

LEMMA GrowsFacts ==
    ASSUME LogViewerAssumption, FileTypes, NEW k \in 1..Len(content), NEW t \in Seq(Piece),
           Grows(k, t)
    PROVE  /\ content' \in Seq(Seq(Piece)) /\ Len(content') = Len(content)
           /\ \A j \in 1..Len(content) : j # k => content'[j] = content[j]
           /\ content'[k] = content[k] \o t
           /\ Len(content'[k]) = Len(content[k]) + Len(t) /\ Len(t) \in Nat
           /\ \A i \in 1..Len(content[k]) : content'[k][i] = content[k][i]
           /\ \A i \in 1..Len(content'[k]) :
                 i \notin 1..Len(content[k]) =>
                    /\ i - Len(content[k]) \in 1..Len(t)
                    /\ content'[k][i] = t[i - Len(content[k])]
<1> DEFINE s == content[k]
<1>1. content \in Seq(Seq(Piece)) /\ s \in Seq(Piece) /\ Len(s) \in Nat /\ Len(t) \in Nat
  BY FileFacts DEF FileTypes
<1>2. /\ s \o t \in Seq(Piece) /\ Len(s \o t) = Len(s) + Len(t)
      /\ \A i \in 1..Len(s) + Len(t) : (s \o t)[i] = IF i <= Len(s) THEN s[i] ELSE t[i - Len(s)]
  BY <1>1, ConcatProperties
<1>3. content' = [content EXCEPT ![k] = s \o t]
  BY DEF Grows
<1> HIDE DEF s
<1>4. /\ content' \in Seq(Seq(Piece)) /\ Len(content') = Len(content)
      /\ \A j \in 1..Len(content) : content'[j] = IF j = k THEN s \o t ELSE content[j]
  BY <1>1, <1>2, <1>3, ExceptSeq
<1>5. content'[k] = s \o t
  BY <1>4
<1>6. \A i \in 1..Len(s) : content'[k][i] = s[i]
  BY <1>1, <1>2, <1>5
<1>7. \A i \in 1..Len(content'[k]) :
          i \notin 1..Len(s) => i - Len(s) \in 1..Len(t) /\ content'[k][i] = t[i - Len(s)]
  BY <1>1, <1>2, <1>5
<1> QED BY <1>1, <1>2, <1>4, <1>5, <1>6, <1>7 DEF s

\* What a write puts at the end of a file was in no file.
LEMMA GrowsPieces ==
    ASSUME LogViewerAssumption, FileTypes, Pieces,
           NEW k \in 1..Len(content), NEW t \in Seq(Piece), Grows(k, t),
           lines' \in lines..MaxLines,
           \A i \in 1..Len(t) : t[i] \in -lines'..lines',
           \A i, j \in 1..Len(t) : t[i] = t[j] => i = j,
           \A i \in 1..Len(content[k]), j \in 1..Len(t) : content[k][i] # t[j]
    PROVE  Pieces'
<1>1. /\ lines \in Nat /\ lines' \in Nat /\ lines <= lines'
      /\ Len(content') = Len(content) /\ Len(content[k]) \in Nat
  BY FileFacts, GrowsFacts
<1>2. ASSUME NEW j \in 1..Len(content), j # k
      PROVE  /\ \A i \in 1..Len(content'[j]) : content'[j][i] \in -lines'..lines'
             /\ \A i, m \in 1..Len(content'[j]) : content'[j][i] = content'[j][m] => i = m
  <2>1. content'[j] = content[j]
    BY <1>2, GrowsFacts
  <2>2. \A i \in 1..Len(content[j]) : content[j][i] \in -lines..lines
    BY DEF Pieces
  <2>3. \A i \in 1..Len(content[j]) : content[j][i] \in -lines'..lines'
    BY <1>1, <2>2
  <2> QED BY <2>1, <2>3 DEF Pieces
<1>3. \A i \in 1..Len(content'[k]) : content'[k][i] \in -lines'..lines'
  <2> TAKE i \in 1..Len(content'[k])
  <2>1. CASE i \in 1..Len(content[k])
    <3>1. content'[k][i] = content[k][i] /\ content[k][i] \in -lines..lines
      BY <2>1, GrowsFacts DEF Pieces
    <3> QED BY <1>1, <3>1
  <2>2. CASE i \notin 1..Len(content[k])
    <3>1. i - Len(content[k]) \in 1..Len(t) /\ content'[k][i] = t[i - Len(content[k])]
      BY <2>2, GrowsFacts
    <3> QED BY <3>1
  <2> QED BY <2>1, <2>2
<1>4. ASSUME NEW i \in 1..Len(content'[k]), NEW m \in 1..Len(content'[k]),
             content'[k][i] = content'[k][m]
      PROVE  i = m
  <2> DEFINE n == Len(content[k])
  <2>1. /\ i \notin 1..n => i - n \in 1..Len(t) /\ content'[k][i] = t[i - n]
        /\ m \notin 1..n => m - n \in 1..Len(t) /\ content'[k][m] = t[m - n]
        /\ i \in 1..n => content'[k][i] = content[k][i]
        /\ m \in 1..n => content'[k][m] = content[k][m]
    <3>1. \A j \in 1..Len(content'[k]) :
              /\ j \in 1..n => content'[k][j] = content[k][j]
              /\ j \notin 1..n => j - n \in 1..Len(t) /\ content'[k][j] = t[j - n]
      BY GrowsFacts
    <3> HIDE DEF n
    <3> QED BY <3>1
  <2>2. CASE i \in 1..n /\ m \in 1..n
    BY <1>4, <2>1, <2>2 DEF Pieces
  <2>3. CASE i \notin 1..n /\ m \notin 1..n
    <3>1. i - n = m - n
      BY <1>4, <2>1, <2>3
    <3> QED BY <1>1, <3>1
  <2>4. CASE i \in 1..n /\ m \notin 1..n
    <3>1. content[k][i] = t[m - n] /\ m - n \in 1..Len(t)
      BY <1>4, <2>1, <2>4
    <3> QED BY <2>4, <3>1
  <2>5. CASE i \notin 1..n /\ m \in 1..n
    <3>1. content[k][m] = t[i - n] /\ i - n \in 1..Len(t)
      BY <1>4, <2>1, <2>5
    <3> QED BY <2>5, <3>1
  <2> QED BY <2>2, <2>3, <2>4, <2>5
<1>5. SUFFICES ASSUME NEW j \in 1..Len(content)
               PROVE  /\ \A i \in 1..Len(content'[j]) : content'[j][i] \in -lines'..lines'
                      /\ \A i, m \in 1..Len(content'[j]) :
                             content'[j][i] = content'[j][m] => i = m
  BY <1>1 DEF Pieces
<1> QED BY <1>2, <1>3, <1>4

\* The pieces of a line.
LEMMA TextFacts ==
    ASSUME LogViewerAssumption, NEW n \in 1..MaxLines
    PROVE  /\ Text(n) \in Seq(Piece) /\ Len(Text(n)) \in {1, 2} /\ Text(n)[Len(Text(n))] = -n
           /\ \A i \in 1..Len(Text(n)) : Text(n)[i] \in {n, -n}
           /\ \A i \in 1..Len(Text(n)) : Text(n)[i] < 0 => i = Len(Text(n))
           /\ \A i, j \in 1..Len(Text(n)) : Text(n)[i] = Text(n)[j] => i = j
<1>1. MaxLines \in Nat /\ n \in Int /\ n > 0 /\ n \in Piece /\ -n \in Piece
  BY DEF LogViewerAssumption, Piece
<1>2. CASE n \in Long
  <2> DEFINE t == <<n, -n>>
  <2>1. Text(n) = t
    BY <1>2 DEF Text
  <2>2. t \in Seq(Piece) /\ Len(t) = 2 /\ t[1] = n /\ t[2] = -n
    BY <1>1
  <2> HIDE DEF t
  <2> QED BY <1>1, <2>1, <2>2
<1>3. CASE n \notin Long
  <2> DEFINE t == <<-n>>
  <2>1. Text(n) = t
    BY <1>3 DEF Text
  <2>2. t \in Seq(Piece) /\ Len(t) = 1 /\ t[1] = -n
    BY <1>1
  <2> HIDE DEF t
  <2> QED BY <1>1, <2>1, <2>2
<1> QED BY <1>2, <1>3

LEMMA WriteLineFile ==
    ASSUME LogViewerAssumption, FileInv, NEW w \in Writer, WriteLine(w)
    PROVE  FileInv'
<1> DEFINE n == lines + 1
           k == fd[w]
           t == Text(n)
<1>1. /\ n \in 1..MaxLines /\ n \in Nat /\ lines \in Nat /\ MaxLines \in Nat /\ lines' = n
      /\ n = lines + 1 /\ lines < n
      /\ k \in 1..Len(content) /\ emit[w] = "write"
  BY FileFacts DEF FileInv, FileTypes, WriteLine
<1>2. Grows(k, t)
  BY DEF WriteLine, AppendTo, Grows
<1>3. /\ t \in Seq(Piece) /\ Len(t) \in {1, 2} /\ t[Len(t)] = -n
      /\ \A i \in 1..Len(t) : t[i] \in {n, -n}
      /\ \A i \in 1..Len(t) : t[i] < 0 => i = Len(t)
      /\ \A i, j \in 1..Len(t) : t[i] = t[j] => i = j
  BY <1>1, TextFacts
<1>4. /\ UNCHANGED <<path, truncated, truncations, fd, half, reader, disturbed>>
      /\ emit' = [emit EXCEPT ![w] = "idle"]
  BY DEF WriteLine
<1> HIDE DEF n, k, t
<1>5. /\ content' \in Seq(Seq(Piece)) /\ Len(content') = Len(content)
      /\ \A j \in 1..Len(content) : j # k => content'[j] = content[j]
      /\ Len(content'[k]) = Len(content[k]) + Len(t)
      /\ \A i \in 1..Len(content[k]) : content'[k][i] = content[k][i]
      /\ \A i \in 1..Len(content'[k]) :
            i \notin 1..Len(content[k]) =>
               /\ i - Len(content[k]) \in 1..Len(t)
               /\ content'[k][i] = t[i - Len(content[k])]
  <2>1. FileTypes /\ k \in 1..Len(content) /\ t \in Seq(Piece) /\ Grows(k, t)
    BY <1>1, <1>2, <1>3 DEF FileInv
  <2> QED BY <2>1, GrowsFacts
<1>6. FileTypes'
  <2>1. lines' \in 0..MaxLines
    BY <1>1
  <2>2. emit' \in [Writer -> {"idle", "write", "rest"}]
    BY <1>4 DEF FileInv, FileTypes
  <2> QED BY <1>4, <1>5, <2>1, <2>2 DEF FileInv, FileTypes
<1>7. \A j \in 1..Len(content) : \A i \in 1..Len(content[j]) :
          content[j][i] \in -lines..lines /\ content[j][i] \in Int
  BY <1>1 DEF FileInv, Pieces
<1>8. Pieces'
  <2>1. lines' \in lines..MaxLines
    BY <1>1
  <2>2. \A i \in 1..Len(t) : t[i] \in -lines'..lines'
    BY <1>1, <1>3
  <2>3. \A i \in 1..Len(content[k]), j \in 1..Len(t) : content[k][i] # t[j]
    BY <1>1, <1>3, <1>7
  <2> QED BY <1>1, <1>2, <1>3, <2>1, <2>2, <2>3, GrowsPieces DEF FileInv
<1>9. Halves'
  <2> SUFFICES ASSUME NEW v \in Writer
               PROVE  /\ half[v] # 0 <=> emit'[v] = "rest"
                      /\ half[v] # 0 =>
                            /\ reader \in TornFor /\ half[v] \in 1..lines'
                            /\ \A x \in Writer : half[x] = half[v] => x = v
                            /\ \A j \in 1..Len(content) : \A i \in 1..Len(content'[j]) :
                                   content'[j][i] # -half[v]
    BY <1>4, <1>5 DEF Halves
  <2>1. half[v] # 0 <=> emit'[v] = "rest"
    BY <1>1, <1>4 DEF FileInv, FileTypes, Halves
  <2>2. ASSUME half[v] # 0
        PROVE  /\ reader \in TornFor /\ half[v] \in 1..lines
               /\ \A x \in Writer : half[x] = half[v] => x = v
               /\ \A j \in 1..Len(content) : \A i \in 1..Len(content[j]) : content[j][i] # -half[v]
    BY <2>2 DEF FileInv, Halves
  <2>3. ASSUME half[v] # 0, NEW j \in 1..Len(content), NEW i \in 1..Len(content'[j])
        PROVE  content'[j][i] # -half[v]
    <3>1. CASE j # k
      BY <1>5, <2>2, <2>3, <3>1
    <3>2. CASE j = k /\ i \in 1..Len(content[k])
      BY <1>5, <2>2, <2>3, <3>2
    <3>3. CASE j = k /\ i \notin 1..Len(content[k])
      <4>1. content'[j][i] \in {n, -n}
        BY <1>3, <1>5, <3>3
      <4> QED BY <1>1, <2>2, <2>3, <4>1
    <3> QED BY <3>1, <3>2, <3>3
  <2>4. half[v] # 0 => half[v] \in 1..lines'
    BY <1>1, <2>2
  <2> QED BY <2>1, <2>2, <2>3, <2>4
<1>10. Whole'
  <2> SUFFICES ASSUME reader \notin TornFor, NEW j \in 1..Len(content)
               PROVE  Boundary(content'[j], Len(content'[j])) /\ InOrder(content'[j])
    BY <1>4, <1>5 DEF Whole
  <2>1. Boundary(content[j], Len(content[j])) /\ InOrder(content[j])
    BY DEF FileInv, Whole
  <2>2. CASE j # k
    BY <1>5, <2>1, <2>2
  <2>3. CASE j = k
    <3> DEFINE m == Len(content[k])
               s == content'[k]
    <3>1. m \in Nat /\ Len(s) = m + Len(t)
      BY <1>1, <1>5, FileFacts DEF FileInv
    <3>2. Boundary(s, Len(s))
      <4>1. Len(s) \notin 1..m /\ Len(s) \in 1..Len(s) /\ Len(s) - m = Len(t)
        BY <1>3, <3>1
      <4>2. s[Len(s)] = -n
        BY <1>3, <1>5, <4>1
      <4> QED BY <1>1, <3>1, <4>1, <4>2 DEF Boundary
    <3>3. ASSUME NEW i \in 1..Len(s), NEW l \in 1..Len(s), i < l, s[i] < 0, s[l] < 0
          PROVE  s[l] < s[i]
      <4>1. CASE l \in 1..m
        <5>1. i \in 1..m
          BY <3>1, <3>3, <4>1
        <5> QED BY <1>5, <2>1, <2>3, <3>3, <4>1, <5>1 DEF InOrder
      <4>2. CASE l \notin 1..m
        <5>1. l - m \in 1..Len(t) /\ s[l] = t[l - m]
          BY <1>5, <4>2
        <5>2. l - m = Len(t) /\ s[l] = -n
          BY <1>3, <3>3, <5>1
        <5>3. i \in 1..m
          <6>1. CASE i \notin 1..m
            <7>1. i - m \in 1..Len(t) /\ s[i] = t[i - m]
              BY <1>5, <6>1
            <7>2. i - m = Len(t)
              BY <1>3, <3>3, <7>1
            <7> QED BY <3>1, <3>3, <5>2, <7>2
          <6> QED BY <6>1
        <5>4. s[i] \in -lines..lines
          BY <1>1, <1>5, <1>7, <5>3
        <5> QED BY <1>1, <5>2, <5>4
      <4> QED BY <4>1, <4>2
    <3> QED BY <2>3, <3>2, <3>3 DEF InOrder
  <2> QED BY <2>2, <2>3
<1> QED BY <1>6, <1>8, <1>9, <1>10 DEF FileInv

LEMMA WriteFirstFile ==
    ASSUME LogViewerAssumption, FileInv, NEW w \in Writer, WriteFirst(w)
    PROVE  FileInv'
<1> DEFINE n == lines + 1
           k == fd[w]
           t == <<n>>
<1>1. /\ n \in 1..MaxLines /\ n \in Nat /\ lines \in Nat /\ MaxLines \in Nat /\ lines' = n
      /\ n = lines + 1 /\ lines < n
      /\ k \in 1..Len(content) /\ emit[w] = "write" /\ reader \in TornFor
  BY FileFacts DEF FileInv, FileTypes, WriteFirst
<1>2. Grows(k, t)
  BY DEF WriteFirst, AppendTo, Grows
<1>3. t \in Seq(Piece) /\ Len(t) = 1 /\ \A i \in 1..Len(t) : i = 1 /\ t[i] = n
  <2>1. n \in Piece
    BY <1>1 DEF Piece
  <2> QED BY <2>1
<1>4. /\ UNCHANGED <<path, truncated, truncations, fd, reader, disturbed>>
      /\ emit' = [emit EXCEPT ![w] = "rest"] /\ half' = [half EXCEPT ![w] = n]
  BY DEF WriteFirst
<1> HIDE DEF n, k, t
<1>5. /\ content' \in Seq(Seq(Piece)) /\ Len(content') = Len(content)
      /\ \A j \in 1..Len(content) : j # k => content'[j] = content[j]
      /\ \A i \in 1..Len(content[k]) : content'[k][i] = content[k][i]
      /\ \A i \in 1..Len(content'[k]) :
            i \notin 1..Len(content[k]) =>
               /\ i - Len(content[k]) \in 1..Len(t)
               /\ content'[k][i] = t[i - Len(content[k])]
  <2>1. FileTypes /\ k \in 1..Len(content) /\ t \in Seq(Piece) /\ Grows(k, t)
    BY <1>1, <1>2, <1>3 DEF FileInv
  <2> QED BY <2>1, GrowsFacts
<1>6. FileTypes'
  <2>1. half' \in [Writer -> 0..MaxLines] /\ lines' \in 0..MaxLines
    BY <1>1, <1>4 DEF FileInv, FileTypes
  <2>2. emit' \in [Writer -> {"idle", "write", "rest"}]
    BY <1>4 DEF FileInv, FileTypes
  <2> QED BY <1>4, <1>5, <2>1, <2>2 DEF FileInv, FileTypes
<1>7. \A j \in 1..Len(content) : \A i \in 1..Len(content[j]) :
          content[j][i] \in -lines..lines /\ content[j][i] \in Int
  BY <1>1, SMTT(30) DEF FileInv, Pieces
<1>8. Pieces'
  <2>1. lines' \in lines..MaxLines
    BY <1>1
  <2>2. \A i \in 1..Len(t) : t[i] \in -lines'..lines'
    BY <1>1, <1>3
  <2>3. \A i \in 1..Len(content[k]), j \in 1..Len(t) : content[k][i] # t[j]
    BY <1>1, <1>3, <1>7
  <2>4. \A i, j \in 1..Len(t) : t[i] = t[j] => i = j
    BY <1>3
  <2> QED BY <1>1, <1>2, <1>3, <2>1, <2>2, <2>3, <2>4, GrowsPieces DEF FileInv
<1>9. Halves'
  <2> SUFFICES ASSUME NEW v \in Writer
               PROVE  /\ half'[v] # 0 <=> emit'[v] = "rest"
                      /\ half'[v] # 0 =>
                            /\ half'[v] \in 1..lines'
                            /\ \A x \in Writer : half'[x] = half'[v] => x = v
                            /\ \A j \in 1..Len(content) : \A i \in 1..Len(content'[j]) :
                                   content'[j][i] # -half'[v]
    BY <1>1, <1>4, <1>5 DEF Halves
  <2>1. half \in [Writer -> 0..MaxLines] /\ emit \in [Writer -> {"idle", "write", "rest"}]
    BY DEF FileInv, FileTypes
  <2>2. \A x \in Writer : half[x] # 0 =>
               /\ half[x] \in 1..lines
               /\ \A y \in Writer : half[y] = half[x] => y = x
               /\ \A j \in 1..Len(content) : \A i \in 1..Len(content[j]) : content[j][i] # -half[x]
    BY DEF FileInv, Halves
  <2>3. /\ half'[w] = n /\ \A x \in Writer : x # w => half'[x] = half[x]
        /\ emit'[w] = "rest" /\ \A x \in Writer : x # w => emit'[x] = emit[x]
    BY <1>4, <2>1
  <2>4. CASE v = w
    <3>1. \A x \in Writer : half'[x] = n => x = w
      BY <1>1, <2>1, <2>2, <2>3
    <3>2. ASSUME NEW j \in 1..Len(content), NEW i \in 1..Len(content'[j])
          PROVE  content'[j][i] # -n
      <4>1. CASE j # k
        BY <1>1, <1>5, <1>7, <4>1
      <4>2. CASE j = k /\ i \in 1..Len(content[k])
        BY <1>1, <1>5, <1>7, <4>2
      <4>3. CASE j = k /\ i \notin 1..Len(content[k])
        BY <1>1, <1>3, <1>5, <4>3
      <4> QED BY <4>1, <4>2, <4>3
    <3> QED BY <1>1, <2>3, <2>4, <3>1, <3>2
  <2>5. CASE v # w
    <3>1. half'[v] = half[v] /\ emit'[v] = emit[v]
      BY <2>3, <2>5
    <3>2. half[v] # 0 <=> emit[v] = "rest"
      BY DEF FileInv, Halves
    <3>3. ASSUME half[v] # 0
          PROVE  /\ half[v] \in 1..lines' /\ half[v] # n
                 /\ \A x \in Writer : half'[x] = half[v] => x = v
      <4>1. half[v] \in 1..lines' /\ half[v] # n
        BY <1>1, <2>2, <3>3
      <4> QED BY <2>2, <2>3, <3>3, <4>1
    <3>4. ASSUME half[v] # 0, NEW j \in 1..Len(content), NEW i \in 1..Len(content'[j])
          PROVE  content'[j][i] # -half[v]
      <4> \A l \in 1..Len(content) : \A m \in 1..Len(content[l]) : content[l][m] # -half[v]
        BY <2>2, <3>4
      <4>1. CASE j # k
        BY <1>5, <3>4, <4>1
      <4>2. CASE j = k /\ i \in 1..Len(content[k])
        BY <1>5, <3>4, <4>2
      <4>3. CASE j = k /\ i \notin 1..Len(content[k])
        <5>1. content'[j][i] = n /\ half[v] \in 1..lines
          BY <1>3, <1>5, <2>2, <3>4, <4>3
        <5> QED BY <1>1, <5>1
      <4> QED BY <4>1, <4>2, <4>3
    <3> QED BY <3>1, <3>2, <3>3, <3>4
  <2> QED BY <2>4, <2>5
<1>10. Whole'
  BY <1>1, <1>4 DEF Whole
<1> QED BY <1>6, <1>8, <1>9, <1>10 DEF FileInv

LEMMA WriteRestFile ==
    ASSUME LogViewerAssumption, FileInv, NEW w \in Writer, WriteRest(w)
    PROVE  FileInv'
<1> DEFINE n == half[w]
           k == fd[w]
           t == <<-n>>
<1>1. /\ emit[w] = "rest" /\ n # 0 /\ n \in 1..lines /\ reader \in TornFor
      /\ \A v \in Writer : half[v] = n => v = w
      /\ \A j \in 1..Len(content) : \A i \in 1..Len(content[j]) : content[j][i] # -n
  BY DEF FileInv, Halves, WriteRest
<1>2. /\ lines \in Nat /\ MaxLines \in Nat /\ lines <= MaxLines /\ lines' = lines
      /\ k \in 1..Len(content)
  BY FileFacts DEF FileInv, FileTypes, WriteRest
<1>3. t \in Seq(Piece) /\ Len(t) = 1 /\ \A i \in 1..Len(t) : i = 1 /\ t[i] = -n
  <2>1. -n \in Piece
    BY <1>1, <1>2 DEF Piece
  <2> QED BY <2>1
<1>4. /\ UNCHANGED <<path, truncated, truncations, fd, lines, reader, disturbed>>
      /\ emit' = [emit EXCEPT ![w] = "idle"] /\ half' = [half EXCEPT ![w] = 0]
  BY DEF WriteRest
<1>5. Grows(k, t)
  BY DEF WriteRest, AppendTo, Grows
<1> HIDE DEF n, k, t
<1>6. /\ content' \in Seq(Seq(Piece)) /\ Len(content') = Len(content)
      /\ \A j \in 1..Len(content) : j # k => content'[j] = content[j]
      /\ \A i \in 1..Len(content[k]) : content'[k][i] = content[k][i]
      /\ \A i \in 1..Len(content'[k]) :
            i \notin 1..Len(content[k]) =>
               /\ i - Len(content[k]) \in 1..Len(t)
               /\ content'[k][i] = t[i - Len(content[k])]
  BY <1>2, <1>3, <1>5, GrowsFacts DEF FileInv
<1>7. FileTypes'
  <2>1. half' \in [Writer -> 0..MaxLines] /\ emit' \in [Writer -> {"idle", "write", "rest"}]
    BY <1>2, <1>4 DEF FileInv, FileTypes
  <2> QED BY <1>4, <1>6, <2>1 DEF FileInv, FileTypes
<1>8. Pieces'
  <2>1. lines' \in lines..MaxLines
    BY <1>2
  <2>2. \A i \in 1..Len(t) : t[i] \in -lines'..lines'
    BY <1>1, <1>2, <1>3
  <2>3. \A i \in 1..Len(content[k]), j \in 1..Len(t) : content[k][i] # t[j]
    BY <1>1, <1>2, <1>3
  <2>4. \A i, j \in 1..Len(t) : t[i] = t[j] => i = j
    BY <1>3
  <2> QED BY <1>2, <1>3, <1>5, <2>1, <2>2, <2>3, <2>4, GrowsPieces DEF FileInv
<1>9. Halves'
  <2> SUFFICES ASSUME NEW v \in Writer
               PROVE  /\ half'[v] # 0 <=> emit'[v] = "rest"
                      /\ half'[v] # 0 =>
                            /\ half'[v] \in 1..lines'
                            /\ \A x \in Writer : half'[x] = half'[v] => x = v
                            /\ \A j \in 1..Len(content) : \A i \in 1..Len(content'[j]) :
                                   content'[j][i] # -half'[v]
    BY <1>1, <1>4, <1>6 DEF Halves
  <2>1. half \in [Writer -> 0..MaxLines] /\ emit \in [Writer -> {"idle", "write", "rest"}]
    BY DEF FileInv, FileTypes
  <2>2. /\ half'[w] = 0 /\ \A x \in Writer : x # w => half'[x] = half[x]
        /\ emit'[w] = "idle" /\ \A x \in Writer : x # w => emit'[x] = emit[x]
    BY <1>4, <2>1
  <2>3. CASE v = w
    BY <2>2, <2>3
  <2>4. CASE v # w
    <3>1. half'[v] = half[v] /\ emit'[v] = emit[v]
      BY <2>2, <2>4
    <3>2. /\ half[v] # 0 <=> emit[v] = "rest"
          /\ half[v] # 0 =>
               /\ half[v] \in 1..lines
               /\ \A y \in Writer : half[y] = half[v] => y = v
               /\ \A j \in 1..Len(content) : \A i \in 1..Len(content[j]) : content[j][i] # -half[v]
      BY DEF FileInv, Halves
    <3>3. ASSUME half[v] # 0, NEW j \in 1..Len(content), NEW i \in 1..Len(content'[j])
          PROVE  content'[j][i] # -half[v]
      <4> \A l \in 1..Len(content) : \A m \in 1..Len(content[l]) : content[l][m] # -half[v]
        BY <3>2, <3>3
      <4>1. CASE j # k
        BY <1>6, <3>3, <4>1
      <4>2. CASE j = k /\ i \in 1..Len(content[k])
        BY <1>6, <3>3, <4>2
      <4>3. CASE j = k /\ i \notin 1..Len(content[k])
        <5>1. content'[j][i] = -n /\ half[v] \in 1..lines /\ half[v] # n
          BY <1>1, <1>3, <1>6, <2>4, <3>2, <3>3, <4>3
        <5> QED BY <1>1, <1>2, <5>1
      <4> QED BY <4>1, <4>2, <4>3
    <3>4. half[v] # 0 => \A x \in Writer : half'[x] = half[v] => x = v
      BY <2>2, <3>2
    <3> QED BY <1>2, <3>1, <3>2, <3>3, <3>4
  <2> QED BY <2>3, <2>4
<1>10. Whole'
  BY <1>1, <1>4 DEF Whole
<1> QED BY <1>7, <1>8, <1>9, <1>10 DEF FileInv

LEMMA NewFileFacts ==
    ASSUME LogViewerAssumption, FileTypes, NewFile
    PROVE  /\ content' \in Seq(Seq(Piece)) /\ Len(content') = Len(content) + 1
           /\ path' = Len(content') /\ path' \in 1..MaxFiles /\ Len(content) < path'
           /\ \A k \in 1..Len(content) : content'[k] = content[k]
           /\ content'[path'] = <<>> /\ Len(content'[path']) = 0
           /\ disturbed' \in {"no", "between", "during"}
<1>1. content \in Seq(Seq(Piece)) /\ Len(content) \in Nat \ {0} /\ <<>> \in Seq(Piece)
  BY FileFacts, EmptySeq DEF FileTypes
<1>2. content' = Append(content, <<>>) /\ path' = Len(content') /\ Len(content) < MaxFiles
  BY DEF NewFile
<1>3. /\ content' \in Seq(Seq(Piece)) /\ Len(content') = Len(content) + 1
      /\ \A k \in 1..Len(content) : content'[k] = content[k]
      /\ content'[Len(content) + 1] = <<>>
  BY <1>1, <1>2, AppendProperties
<1>4. Len(content'[path']) = 0
  BY <1>2, <1>3, EmptySeq
<1>5. MaxFiles \in Nat
  BY DEF LogViewerAssumption
<1>6. disturbed' \in {"no", "between", "during"}
  BY DEF NewFile, Disturb
<1> QED BY <1>1, <1>2, <1>3, <1>4, <1>5, <1>6

LEMMA NewFileFile ==
    ASSUME LogViewerAssumption, FileInv, NewFile,
           UNCHANGED <<half, lines, reader, truncated, truncations>>,
           fd' \in [Writer -> 1..Len(content')], emit' \in [Writer -> {"idle", "write", "rest"}],
           \A w \in Writer : emit'[w] = "rest" <=> emit[w] = "rest"
    PROVE  FileInv'
<1>1. FileTypes'
  <2>1. content' \in Seq(Seq(Piece)) /\ Len(content') \in 1..MaxFiles /\ path' \in 0..Len(content')
    BY NewFileFacts DEF FileInv
  <2> QED BY <2>1, NewFileFacts DEF FileInv, FileTypes
<1>2. ASSUME NEW k \in 1..Len(content')
      PROVE  (k \in 1..Len(content) /\ content'[k] = content[k]) \/ content'[k] = <<>>
  <2>1. Len(content) \in Nat /\ Len(content') = Len(content) + 1 /\ path' = Len(content')
    BY NewFileFacts, FileFacts DEF FileInv
  <2>2. k \in 1..Len(content) \/ k = path'
    BY <2>1
  <2> QED BY <2>2, NewFileFacts DEF FileInv
<1>3. Len(<<>>) = 0
  BY EmptySeq
<1>4. Pieces'
  <2> SUFFICES ASSUME NEW k \in 1..Len(content')
               PROVE  /\ \A i \in 1..Len(content'[k]) : content'[k][i] \in -lines..lines
                      /\ \A i, j \in 1..Len(content'[k]) : content'[k][i] = content'[k][j] => i = j
    BY DEF Pieces
  <2> QED BY <1>2, <1>3 DEF FileInv, Pieces
<1>5. Halves'
  <2> SUFFICES ASSUME NEW w \in Writer
               PROVE  /\ half[w] # 0 <=> emit'[w] = "rest"
                      /\ half[w] # 0 =>
                            /\ reader \in TornFor /\ half[w] \in 1..lines
                            /\ \A v \in Writer : half[v] = half[w] => v = w
                            /\ \A k \in 1..Len(content') : \A i \in 1..Len(content'[k]) :
                                   content'[k][i] # -half[w]
    BY DEF Halves
  <2> QED BY <1>2, <1>3 DEF FileInv, Halves
<1>6. Whole'
  <2> SUFFICES ASSUME reader \notin TornFor, NEW k \in 1..Len(content')
               PROVE  Boundary(content'[k], Len(content'[k])) /\ InOrder(content'[k])
    BY DEF Whole
  <2>1. CASE k \in 1..Len(content) /\ content'[k] = content[k]
    BY <2>1 DEF FileInv, Whole
  <2>2. CASE content'[k] = <<>>
    BY <1>3, <2>2 DEF Boundary, InOrder
  <2> QED BY <1>2, <2>1, <2>2
<1> QED BY <1>1, <1>4, <1>5, <1>6 DEF FileInv

LEMMA ReopenFile ==
    ASSUME LogViewerAssumption, FileInv, NEW w \in Writer, Reopen(w)
    PROVE  FileInv'
<1>1. /\ emit[w] = "idle" /\ emit' = [emit EXCEPT ![w] = "write"]
      /\ fd' = [fd EXCEPT ![w] = path']
      /\ UNCHANGED <<truncated, truncations, half, lines, reader>>
      /\ fd \in [Writer -> 1..Len(content)] /\ emit \in [Writer -> {"idle", "write", "rest"}]
  BY DEF FileInv, FileTypes, Reopen
<1>2. /\ emit' \in [Writer -> {"idle", "write", "rest"}]
      /\ \A v \in Writer : emit'[v] = "rest" <=> emit[v] = "rest"
  BY <1>1
<1>3. CASE path = 0
  <2>1. NewFile
    BY <1>3 DEF Reopen
  <2>2. fd' \in [Writer -> 1..Len(content')]
    <3>1. path' \in 1..Len(content') /\ 1..Len(content) \subseteq 1..Len(content')
      BY <2>1, NewFileFacts, FileFacts DEF FileInv
    <3> QED BY <1>1, <3>1
  <2> QED BY <1>1, <1>2, <2>1, <2>2, NewFileFile
<1>4. CASE path # 0
  <2>1. UNCHANGED <<content, path, disturbed>>
    BY <1>4 DEF Reopen
  <2>2. fd' \in [Writer -> 1..Len(content)]
    <3>1. path \in 1..Len(content)
      BY <1>4, FileFacts DEF FileInv, FileTypes
    <3> QED BY <1>1, <2>1, <3>1
  <2>3. FileTypes'
    BY <1>1, <1>2, <2>1, <2>2 DEF FileInv, FileTypes
  <2>4. Pieces' /\ Whole'
    <3>1. Pieces /\ Whole /\ UNCHANGED <<content, lines, reader>>
      BY <1>1, <2>1 DEF FileInv
    <3>2. Pieces'
      BY <3>1 DEF Pieces
    <3>3. Whole'
      BY <3>1 DEF Whole
    <3> QED BY <3>2, <3>3
  <2>5. Halves'
    BY <1>1, <1>2, <2>1 DEF FileInv, Halves
  <2> QED BY <2>3, <2>4, <2>5 DEF FileInv
<1> QED BY <1>3, <1>4

LEMMA RenameFile ==
    ASSUME LogViewerAssumption, FileInv, Rename
    PROVE  FileInv'
<1>1. /\ UNCHANGED <<content, truncated, truncations, fd, emit, half, lines, reader>>
      /\ path' = 0 /\ disturbed' \in {"no", "between", "during"}
  BY DEF Rename, Disturb, writerVars
<1>2. FileTypes'
  BY <1>1, FileFacts, SMTT(30) DEF FileInv, FileTypes
<1>3. Pieces'
  BY <1>1 DEF FileInv, Pieces
<1>4. Halves'
  BY <1>1 DEF FileInv, Halves
<1>5. Whole'
  BY <1>1 DEF FileInv, Whole
<1> QED BY <1>2, <1>3, <1>4, <1>5 DEF FileInv

LEMMA TruncateFacts ==
    ASSUME LogViewerAssumption, FileInv, Truncate
    PROVE  /\ path \in 1..Len(content) /\ path' = path /\ truncated' = truncated \cup {path}
           /\ content' \in Seq(Seq(Piece)) /\ Len(content') = Len(content)
           /\ \A k \in 1..Len(content) : content'[k] = IF k = path THEN <<>> ELSE content[k]
           /\ Len(<<>>) = 0 /\ disturbed' \in {"no", "between", "during"}
<1>1. path \in 1..Len(content) /\ content \in Seq(Seq(Piece))
  BY FileFacts DEF FileInv, FileTypes, Truncate
<1>2. <<>> \in Seq(Piece) /\ Len(<<>>) = 0
  BY EmptySeq
<1>3. content' = [content EXCEPT ![path] = <<>>]
  BY DEF Truncate
<1>4. /\ content' \in Seq(Seq(Piece)) /\ Len(content') = Len(content)
      /\ \A k \in 1..Len(content) : content'[k] = IF k = path THEN <<>> ELSE content[k]
  BY <1>1, <1>2, <1>3, ExceptSeq
<1>5. /\ path' = path /\ truncated' = truncated \cup {path}
      /\ disturbed' \in {"no", "between", "during"}
  BY DEF Truncate, Disturb
<1> QED BY <1>1, <1>2, <1>4, <1>5

LEMMA TruncateFile ==
    ASSUME LogViewerAssumption, FileInv, Truncate
    PROVE  FileInv'
<1>1. /\ UNCHANGED <<path, fd, emit, half, lines, reader>>
      /\ truncations' = truncations + 1 /\ truncations < MaxTruncations
  BY DEF Truncate, writerVars
<1>2. FileTypes'
  <2>1. truncations' \in 0..MaxTruncations
    BY <1>1 DEF FileInv, FileTypes, LogViewerAssumption
  <2>2. truncated' \subseteq Inode
    <3>1. path \in 1..Len(content) /\ truncated' = truncated \cup {path}
      BY TruncateFacts
    <3>2. Len(content) \in 1..MaxFiles
      BY DEF FileInv, FileTypes
    <3>3. path \in 1..MaxFiles
      BY <3>1, <3>2
    <3> QED BY <3>1, <3>3 DEF FileInv, FileTypes, Inode
  <2>3. content' \in Seq(Seq(Piece)) /\ Len(content') \in 1..MaxFiles /\ path' \in 0..Len(content')
    BY TruncateFacts DEF FileInv, FileTypes
  <2>4. fd' \in [Writer -> 1..Len(content')] /\ disturbed' \in {"no", "between", "during"}
    BY <1>1, TruncateFacts DEF FileInv, FileTypes
  <2> QED BY <1>1, <2>1, <2>2, <2>3, <2>4 DEF FileInv, FileTypes
<1>3. Pieces'
  <2> SUFFICES ASSUME NEW k \in 1..Len(content)
               PROVE  /\ \A i \in 1..Len(content'[k]) : content'[k][i] \in -lines..lines
                      /\ \A i, j \in 1..Len(content'[k]) : content'[k][i] = content'[k][j] => i = j
    BY <1>1, TruncateFacts DEF Pieces
  <2>1. CASE k = path
    BY <2>1, TruncateFacts
  <2>2. CASE k # path
    BY <2>2, TruncateFacts DEF FileInv, Pieces
  <2> QED BY <2>1, <2>2
<1>4. Halves'
  <2> SUFFICES ASSUME NEW w \in Writer, half[w] # 0
               PROVE  \A k \in 1..Len(content) : \A i \in 1..Len(content'[k]) :
                          content'[k][i] # -half[w]
    BY <1>1, TruncateFacts DEF FileInv, Halves
  <2> SUFFICES ASSUME NEW k \in 1..Len(content), NEW i \in 1..Len(content'[k])
               PROVE  content'[k][i] # -half[w]
    OBVIOUS
  <2>1. k # path /\ content'[k] = content[k]
    BY TruncateFacts
  <2> QED BY <2>1 DEF FileInv, Halves
<1>5. Whole'
  <2> SUFFICES ASSUME reader \notin TornFor, NEW k \in 1..Len(content)
               PROVE  Boundary(content'[k], Len(content'[k])) /\ InOrder(content'[k])
    BY <1>1, TruncateFacts DEF Whole
  <2>1. CASE k = path
    BY <2>1, TruncateFacts DEF Boundary, InOrder
  <2>2. CASE k # path
    BY <2>2, TruncateFacts DEF FileInv, Whole
  <2> QED BY <2>1, <2>2
<1> QED BY <1>2, <1>3, <1>4, <1>5 DEF FileInv

LEMMA ReadsFile ==
    ASSUME FileInv, Reads
    PROVE  FileInv'
<1>1. UNCHANGED <<content, path, truncated, truncations, fd, emit, half, lines, reader, disturbed>>
  BY DEF Reads, fileVars, writerVars
<1>2. FileTypes'
  BY <1>1 DEF FileInv, FileTypes
<1>3. Pieces'
  BY <1>1 DEF FileInv, Pieces
<1>4. Halves'
  BY <1>1 DEF FileInv, Halves
<1>5. Whole'
  BY <1>1 DEF FileInv, Whole
<1> QED BY <1>2, <1>3, <1>4, <1>5 DEF FileInv

-----------------------------------------------------------------------------
(* What the writers and the rotation do to a reader *)

SameReader == UNCHANGED <<reader, rstep, inode, pos, carry, stat, out, start, known>>

\* Files grow, for a follower by lines that are later than all others.
Appended ==
    /\ SameReader /\ UNCHANGED <<path, truncated, disturbed>>
    /\ Len(content') = Len(content) /\ lines' \in Nat /\ lines <= lines'
    /\ \A k \in 1..Len(content) : \E t \in Seq(Piece) :
          /\ content'[k] = content[k] \o t
          /\ reader \notin TornFor =>
                \A i \in 1..Len(t) : t[i] \in {lines', -lines'} /\ lines < lines'

LEMMA AppendedFacts ==
    ASSUME LogViewerAssumption, FileTypes, Appended, NEW k \in 1..Len(content)
    PROVE  /\ Len(content'[k]) \in Nat /\ Len(content[k]) <= Len(content'[k])
           /\ \A i \in 1..Len(content[k]) : content'[k][i] = content[k][i]
           /\ \A i \in 1..Len(content'[k]) :
                  i \notin 1..Len(content[k]) /\ reader \notin TornFor =>
                      content'[k][i] \in {lines', -lines'} /\ lines < lines'
           /\ \A p \in Nat, q \in 0..Len(content[k]) :
                  SubSeq(content'[k], p + 1, q) = SubSeq(content[k], p + 1, q)
           /\ \A q : Boundary(content[k], q) => Boundary(content'[k], q)
<1>1. content[k] \in Seq(Piece) /\ Len(content[k]) \in Nat
  BY FileFacts
<1>2. PICK t \in Seq(Piece) :
          /\ content'[k] = content[k] \o t
          /\ reader \notin TornFor =>
                \A i \in 1..Len(t) : t[i] \in {lines', -lines'} /\ lines < lines'
  BY DEF Appended
<1> DEFINE s == content[k]
           u == content'[k]
<1>3. /\ Len(u) = Len(s) + Len(t) /\ Len(t) \in Nat
      /\ \A i \in 1..Len(s) + Len(t) : u[i] = IF i <= Len(s) THEN s[i] ELSE t[i - Len(s)]
  BY <1>1, <1>2, ConcatProperties
<1>4. ASSUME NEW p \in Nat, NEW q \in 0..Len(s)
      PROVE  SubSeq(u, p + 1, q) = SubSeq(s, p + 1, q)
  <2>1. s \in Seq(Piece) /\ t \in Seq(Piece) /\ u = s \o t
    BY <1>1, <1>2
  <2> HIDE DEF s, u
  <2>2. SubSeq(s \o t, p + 1, q) = SubSeq(s, p + 1, q)
    BY <1>4, <2>1, SlicesOfConcat
  <2> QED BY <2>1, <2>2
<1>5. Len(s) \in Nat
  BY <1>1
<1> HIDE DEF s, u
<1>6. ASSUME NEW i \in 1..Len(u), i \notin 1..Len(s), reader \notin TornFor
      PROVE  u[i] \in {lines', -lines'} /\ lines < lines'
  <2>1. i - Len(s) \in 1..Len(t) /\ u[i] = t[i - Len(s)]
    BY <1>3, <1>5, <1>6
  <2> QED BY <1>2, <1>6, <2>1
<1>7. \A i \in 1..Len(s) : u[i] = s[i]
  BY <1>3, <1>5
<1>8. ASSUME NEW q, Boundary(s, q) PROVE Boundary(u, q)
  <2>1. q \in 0..Len(s) /\ (q = 0 \/ s[q] < 0)
    BY <1>8 DEF Boundary
  <2>2. q \in 0..Len(u) /\ (q # 0 => u[q] = s[q])
    BY <1>3, <1>5, <1>7, <2>1
  <2> QED BY <2>1, <2>2 DEF Boundary
<1> QED BY <1>3, <1>4, <1>5, <1>6, <1>7, <1>8 DEF s, u

LEMMA AppendedTypes ==
    ASSUME LogViewerAssumption, FileTypes, ReadTypes, Unread, Appended
    PROVE  ReadTypes' /\ Unread'
<1>1. lines \in Nat
  BY FileFacts
<1>2. /\ UNCHANGED <<rstep, reader, inode, pos, carry, stat, out, start, known, disturbed>>
      /\ Len(content') = Len(content) /\ lines' \in Nat /\ lines <= lines'
  BY DEF Appended, SameReader
<1>3. known \subseteq 1..lines'
  BY <1>1, <1>2 DEF ReadTypes
<1> QED BY <1>2, <1>3 DEF ReadTypes, Unread

LEMMA AppendedFollow ==
    ASSUME LogViewerAssumption, FileTypes, ReadTypes, FollowInv, Reliable, Appended
    PROVE  FollowInv'
<1>1. /\ UNCHANGED <<reader, rstep, inode, pos, carry, stat, out, start, known>>
      /\ UNCHANGED <<path, truncated, disturbed>> /\ Len(content') = Len(content)
  BY DEF Appended, SameReader
<1> SUFFICES ASSUME reader = "follow"
             PROVE  Unknown' /\ Forward' /\ Exact'
  BY <1>1 DEF FollowInv
<1>2. Unknown /\ Forward /\ Exact /\ reader \notin TornFor
  BY DEF FollowInv, Reliable
<1>3. lines \in Nat /\ lines' \in Nat /\ lines <= lines' /\ Len(content) \in Nat
  BY FileFacts DEF Appended
<1>4. /\ path \in 0..Len(content) /\ inode \in 0..Len(content) /\ stat.inode \in 0..Len(content)
      /\ known \subseteq 1..lines /\ pos \in Nat /\ start \in Nat
      /\ Len(out) \in Nat /\ \A j \in 1..Len(out) : out[j] \in 1..lines
  <2>1. Len(out) \in Nat /\ Range(out) \subseteq 1..lines /\ DOMAIN out = 1..Len(out)
    BY <1>2, LenProperties DEF Unknown, ReadTypes
  <2>2. \A j \in 1..Len(out) : out[j] \in 1..lines
    BY <2>1 DEF Range
  <2>3. pos \in Nat /\ start \in Nat
    BY DEF ReadTypes, Offset
  <2> QED BY <2>1, <2>2, <2>3 DEF FileTypes, ReadTypes
<1>5. ASSUME NEW k \in 1..Len(content)
      PROVE  /\ Len(content'[k]) \in Nat /\ Len(content[k]) \in Nat
             /\ Len(content[k]) <= Len(content'[k])
             /\ \A i \in 1..Len(content[k]) : content'[k][i] = content[k][i]
             /\ \A i \in 1..Len(content'[k]) :
                  i \notin 1..Len(content[k]) =>
                      content'[k][i] \in {lines', -lines'} /\ lines < lines'
             /\ \A p \in Nat, q \in 0..Len(content[k]) :
                  SubSeq(content'[k], p + 1, q) = SubSeq(content[k], p + 1, q)
             /\ \A q : Boundary(content[k], q) => Boundary(content'[k], q)
  BY <1>2, AppendedFacts, FileFacts
<1>6. ASSUME NEW k \in 1..Len(content), NEW p \in Nat, Fresh(content[k], p)
      PROVE  Fresh(content[k], p)'
  <2> SUFFICES ASSUME NEW i \in p + 1..Len(content'[k]) PROVE -content'[k][i] \notin known
    BY <1>1 DEF Fresh
  <2>1. CASE i \in 1..Len(content[k])
    <3>1. i \in p + 1..Len(content[k]) /\ content'[k][i] = content[k][i]
      BY <1>5, <2>1
    <3> QED BY <1>6, <3>1 DEF Fresh
  <2>2. CASE i \notin 1..Len(content[k])
    <3>1. i \in 1..Len(content'[k])
      BY <1>5
    <3>2. content'[k][i] \in {lines', -lines'} /\ lines < lines'
      BY <1>5, <2>2, <3>1
    <3> QED BY <1>3, <1>4, <3>2
  <2> QED BY <2>1, <2>2
<1>7. ASSUME NEW k \in 1..Len(content), NEW p \in Nat, Later(content[k], p)
      PROVE  Later(content[k], p)'
  <2> SUFFICES ASSUME NEW i \in p + 1..Len(content'[k]), content'[k][i] < 0, NEW j \in 1..Len(out)
               PROVE  out[j] < -content'[k][i]
    BY <1>1 DEF Later
  <2>1. CASE i \in 1..Len(content[k])
    <3>1. i \in p + 1..Len(content[k]) /\ content'[k][i] = content[k][i]
      BY <1>5, <2>1
    <3> QED BY <1>7, <3>1 DEF Later
  <2>2. CASE i \notin 1..Len(content[k])
    <3>1. i \in 1..Len(content'[k])
      BY <1>5
    <3>2. content'[k][i] \in {lines', -lines'} /\ lines < lines'
      BY <1>5, <2>2, <3>1
    <3> QED BY <1>3, <1>4, <3>2, SMTT(30)
  <2> QED BY <2>1, <2>2
<1>8. Unknown'
  <2>1. Range(out) \subseteq 1..lines'
    BY <1>2, <1>3 DEF Unknown
  <2>2. ASSUME path \notin {0, inode} PROVE Fresh(content[path], 0)'
    BY <1>1, <1>2, <1>4, <1>6, <2>2 DEF Unknown
  <2>3. ASSUME path = inode, path # 0, rstep # "size"
        PROVE  /\ Fresh(content[path], pos)'
               /\ pos > Len(content'[path]) => Fresh(content[path], 0)'
    <3>1. path \in 1..Len(content)
      BY <1>3, <1>4, <2>3
    <3>2. /\ Fresh(content[path], pos)
          /\ pos > Len(content[path]) => Fresh(content[path], 0)
      BY <1>2, <2>3 DEF Unknown
    <3>3. Fresh(content[path], pos)'
      BY <1>1, <1>4, <1>6, <3>1, <3>2
    <3>4. ASSUME pos > Len(content'[path]) PROVE Fresh(content[path], 0)'
      <4>1. pos > Len(content[path])
        BY <1>4, <1>5, <3>1, <3>4
      <4> QED BY <1>1, <1>6, <3>1, <3>2, <4>1
    <3> QED BY <3>3, <3>4
  <2>4. ASSUME rstep \in {"drain_stat", "drain"} PROVE Fresh(content[stat.inode], 0)'
    <3>1. stat.inode \in 1..Len(content) /\ Fresh(content[stat.inode], 0)
      BY <1>2, <1>3, <1>4, <2>4 DEF Unknown
    <3> QED BY <1>1, <1>6, <3>1
  <2> QED BY <1>1, <1>2, <2>1, <2>2, <2>3, <2>4 DEF Unknown
<1>9. Forward'
  <2> SUFFICES ASSUME disturbed # "during", truncated = {} PROVE Forward'
    BY <1>1 DEF Forward
  <2>1. /\ \A i, j \in 1..Len(out) : i < j => out[i] < out[j]
        /\ path = inode /\ path # 0 => pos <= Len(content[path]) /\ Later(content[path], pos)
        /\ path \notin {0, inode} => Later(content[path], 0)
        /\ rstep = "read" => path = inode /\ path # 0
        /\ rstep # "drain"
        /\ rstep = "drain_stat" => path = stat.inode /\ path # inode
    BY <1>2 DEF Forward
  <2>2. ASSUME path = inode, path # 0
        PROVE  pos <= Len(content'[path]) /\ Later(content[path], pos)'
    <3>1. path \in 1..Len(content)
      BY <1>3, <1>4, <2>2
    <3>2. pos <= Len(content'[path])
      BY <1>4, <1>5, <2>1, <2>2, <3>1
    <3> QED BY <1>1, <1>4, <1>7, <2>1, <2>2, <3>1, <3>2
  <2>3. ASSUME path \notin {0, inode} PROVE Later(content[path], 0)'
    BY <1>1, <1>4, <1>7, <2>1, <2>3
  <2> QED BY <1>1, <2>1, <2>2, <2>3 DEF Forward
<1>10. Exact'
  <2> SUFFICES ASSUME disturbed = "no", rstep # "new" PROVE Exact'
    BY <1>1 DEF Exact
  <2>1. ASSUME rstep # "size", inode # 0
        PROVE  /\ start <= pos
               /\ Boundary(content'[inode], start) /\ Boundary(content'[inode], pos)
               /\ out = Entries(SubSeq(content'[inode], start + 1, pos))
    <3>1. /\ start <= pos /\ Boundary(content[inode], start) /\ Boundary(content[inode], pos)
          /\ out = Entries(SubSeq(content[inode], start + 1, pos))
      BY <1>2, <2>1 DEF Exact
    <3>2. inode \in 1..Len(content)
      BY <1>3, <1>4, <2>1
    <3>3. pos \in 0..Len(content[inode])
      BY <3>1 DEF Boundary
    <3>4. SubSeq(content'[inode], start + 1, pos) = SubSeq(content[inode], start + 1, pos)
      BY <1>4, <1>5, <3>2, <3>3
    <3> QED BY <1>5, <3>1, <3>2, <3>4
  <2> QED BY <1>1, <1>2, <2>1 DEF Exact
<1> QED BY <1>8, <1>9, <1>10

\* A walk, and an export, depend on what is in their inode before their offsets.
SameBelow(k, n) ==
    /\ n <= Len(content'[k])
    /\ \A p \in Nat, q \in 0..n : SubSeq(content'[k], p + 1, q) = SubSeq(content[k], p + 1, q)
    /\ \A q \in 0..n : Boundary(content[k], q) => Boundary(content'[k], q)

PageStep ==
    reader = "page" /\ disturbed' # "during" /\ inode \notin truncated' =>
        /\ disturbed # "during" /\ inode \notin truncated
        /\ rstep \in {"tail", "older"} => path' = path
        /\ inode # 0 => SameBelow(inode, Len(content[inode]))

LEMMA PageKept ==
    ASSUME LogViewerAssumption, FileTypes, ReadTypes, PageInv, SameReader, PageStep
    PROVE  PageInv'
<1>1. UNCHANGED <<reader, rstep, inode, pos, carry, stat, out, start, known>>
  BY DEF SameReader
<1> SUFFICES ASSUME reader = "page", disturbed' # "during", inode \notin truncated'
             PROVE  PageInv'
  BY <1>1 DEF PageInv
<1>2. /\ rstep \in {"tail", "older"} => path' = path
      /\ inode # 0 => SameBelow(inode, Len(content[inode]))
      /\ disturbed # "during" /\ inode \notin truncated
  BY DEF PageStep
<1>3. /\ rstep \in {"tail", "older"} => path = inode
      /\ rstep \in {"older?", "older", "rotated", "stopped"} =>
              /\ inode # 0 /\ pos <= start
              /\ Boundary(content[inode], start) /\ Boundary(content[inode], pos)
              /\ PagesWalkTheFile
  BY <1>2 DEF PageInv
<1> SUFFICES ASSUME rstep \in {"older?", "older", "rotated", "stopped"}
             PROVE  /\ inode # 0 /\ pos <= start
                    /\ Boundary(content'[inode], start) /\ Boundary(content'[inode], pos)
                    /\ PagesWalkTheFile'
  BY <1>1, <1>2, <1>3 DEF PageInv
<1> DEFINE s == content[inode]
           u == content'[inode]
<1>4. /\ inode # 0 /\ pos <= start /\ pos \in Nat /\ start \in Nat
      /\ Boundary(s, start) /\ Boundary(s, pos)
      /\ PagesAreContiguous /\ StopIsTheEnd
  BY <1>3 DEF PagesWalkTheFile, ReadTypes, Offset
<1>5. start \in 0..Len(s) /\ pos \in 0..Len(s)
  BY <1>4 DEF Boundary
<1>6. /\ \A p \in Nat, q \in 0..Len(s) : SubSeq(u, p + 1, q) = SubSeq(s, p + 1, q)
      /\ \A q \in 0..Len(s) : Boundary(s, q) => Boundary(u, q)
  BY <1>2, <1>4 DEF SameBelow
<1>7. /\ SubSeq(u, pos + 1, start) = SubSeq(s, pos + 1, start)
      /\ Upto(u, pos) = Upto(s, pos)
  <2>1. SubSeq(u, 0 + 1, pos) = SubSeq(s, 0 + 1, pos)
    BY <1>5, <1>6
  <2> QED BY <1>4, <1>5, <1>6, <2>1 DEF Upto
<1>8. Boundary(u, start) /\ Boundary(u, pos)
  BY <1>4, <1>5, <1>6
<1>9. PagesAreContiguous'
  <2>1. out = Entries(SubSeq(s, pos + 1, start))
    BY <1>2, <1>4 DEF PagesAreContiguous
  <2> QED BY <1>1, <1>7, <2>1 DEF PagesAreContiguous
<1>10. StopIsTheEnd'
  <2>1. rstep = "stopped" =>
           \/ Entries(Upto(s, pos)) = <<>>
           \/ /\ Len(RawLines(SubSeq(s, pos + 1, start))) >= Limit
              /\ \A j \in 1..Limit : RawLines(SubSeq(s, pos + 1, start))[j] \notin Range(out)
    BY <1>2, <1>4 DEF StopIsTheEnd
  <2> QED BY <1>1, <1>7, <2>1 DEF StopIsTheEnd
<1> QED BY <1>4, <1>8, <1>9, <1>10 DEF PagesWalkTheFile

ExportStep ==
    reader = "export" /\ inode # 0 /\ inode \notin truncated' =>
        inode \notin truncated /\ SameBelow(inode, Len(content[inode]))

LEMMA ExportKept ==
    ASSUME LogViewerAssumption, FileTypes, ReadTypes, ExportInv, SameReader, ExportStep
    PROVE  ExportInv'
<1>1. UNCHANGED <<reader, rstep, inode, pos, carry, stat, out, start, known>>
  BY DEF SameReader
<1> SUFFICES ASSUME reader = "export", rstep # "new"
             PROVE  /\ inode # 0
                    /\ inode \notin truncated' =>
                          /\ Len(carry) <= pos /\ pos <= Len(content'[inode])
                          /\ start <= Len(content'[inode])
                          /\ carry = SubSeq(content'[inode], pos - Len(carry) + 1, pos)
                          /\ ExportIsPrefix'
  BY <1>1 DEF ExportInv
<1>2. inode # 0
  BY DEF ExportInv
<1> SUFFICES ASSUME inode \notin truncated'
             PROVE  /\ Len(carry) <= pos /\ pos <= Len(content'[inode])
                    /\ start <= Len(content'[inode])
                    /\ carry = SubSeq(content'[inode], pos - Len(carry) + 1, pos)
                    /\ ExportIsPrefix'
  BY <1>2
<1> DEFINE s == content[inode]
           u == content'[inode]
           d == pos - Len(carry)
<1>3. inode \notin truncated /\ SameBelow(inode, Len(s))
  BY <1>2 DEF ExportStep
<1>4. /\ Len(carry) <= pos /\ pos <= Len(s) /\ start <= Len(s)
      /\ carry = SubSeq(s, d + 1, pos) /\ ExportIsPrefix
  BY <1>3 DEF ExportInv
<1>5. /\ inode \in 1..Len(content) /\ Len(s) \in Nat /\ pos \in Nat /\ start \in Nat
      /\ Len(carry) \in Nat
  <2>1. inode \in 1..Len(content)
    BY <1>2, FileFacts DEF ReadTypes
  <2>2. Len(s) \in Nat
    BY <2>1, FileFacts
  <2>3. Len(carry) \in Nat
    BY DEF ReadTypes
  <2> QED BY <2>1, <2>2, <2>3 DEF ReadTypes, Offset
<1>6. /\ Len(s) <= Len(u)
      /\ \A p \in Nat, q \in 0..Len(s) : SubSeq(u, p + 1, q) = SubSeq(s, p + 1, q)
  BY <1>3 DEF SameBelow
<1>7. d \in Nat /\ d \in 0..Len(s) /\ pos \in 0..Len(s) /\ Len(u) >= Len(s)
  BY <1>4, <1>5, <1>6
<1>8. SubSeq(u, d + 1, pos) = SubSeq(s, d + 1, pos) /\ Upto(u, d) = Upto(s, d)
  <2> HIDE DEF d, s, u
  <2>1. SubSeq(u, 0 + 1, d) = SubSeq(s, 0 + 1, d)
    BY <1>6, <1>7
  <2>2. Upto(u, d) = Upto(s, d)
    <3>1. 0 + 1 = 1
      OBVIOUS
    <3> QED BY <2>1, <3>1 DEF Upto
  <2> QED BY <1>6, <1>7, <2>2
<1>9. out = RawLines(Upto(s, d)) /\ (rstep = "closed" => pos >= start)
  BY <1>3, <1>4 DEF ExportIsPrefix
<1>10. ExportIsPrefix'
  BY <1>1, <1>8, <1>9 DEF ExportIsPrefix
<1>11. pos <= Len(u) /\ start <= Len(u)
  <2>1. Len(u) \in Int \/ Len(u) \notin Int
    OBVIOUS
  <2> QED BY <1>4, <1>5, <1>6
<1> QED BY <1>4, <1>8, <1>10, <1>11

LEMMA AppendedReader ==
    ASSUME LogViewerAssumption, FileTypes, ReaderInv, Reliable, Appended
    PROVE  ReaderInv'
<1>1. ReadTypes' /\ Unread'
  BY AppendedTypes DEF ReaderInv
<1>2. FollowInv'
  BY AppendedFollow DEF ReaderInv
<1>3. inode \in 0..Len(content) /\ Len(content) \in Nat
  BY FileFacts DEF ReaderInv, ReadTypes
<1>4. ASSUME inode # 0 PROVE SameBelow(inode, Len(content[inode]))
  <2>1. inode \in 1..Len(content)
    BY <1>3, <1>4
  <2> QED BY <2>1, AppendedFacts DEF SameBelow
<1>5. SameReader /\ UNCHANGED <<path, truncated, disturbed>>
  BY DEF Appended
<1>6. PageInv'
  BY <1>4, <1>5, PageKept DEF ReaderInv, PageStep
<1>7. ExportInv'
  BY <1>4, <1>5, ExportKept DEF ReaderInv, ExportStep
<1> QED BY <1>1, <1>2, <1>6, <1>7 DEF ReaderInv

\* The file under the path is taken away, replaced by an empty one, or emptied.
Exchanged ==
    /\ SameReader /\ Disturb /\ UNCHANGED lines
    /\ Len(content') \in Nat /\ Len(content) <= Len(content')
    /\ truncated \subseteq truncated'
    /\ \A k \in 1..Len(content) :
          content'[k] = content[k] \/ (content'[k] = <<>> /\ k \in truncated')
    /\ \/ path' = 0
       \/ /\ path' \in Nat /\ content'[path'] = <<>>
          /\ path' > Len(content) \/ (path' = path /\ path \in truncated')

LEMMA DisturbFacts ==
    ASSUME Unread, Disturb
    PROVE  /\ disturbed' # "during" => ~MidRead /\ disturbed # "during"
           /\ disturbed' = "no" => rstep = "new"
<1>1. CASE MidRead \/ disturbed = "during"
  <2>1. rstep # "new"
    BY <1>1 DEF Unread, MidRead
  <2> QED BY <1>1, <2>1 DEF Disturb
<1>2. CASE ~(MidRead \/ disturbed = "during")
  BY <1>2 DEF Disturb
<1> QED BY <1>1, <1>2

LEMMA ExchangedFollow ==
    ASSUME LogViewerAssumption, FileTypes, ReadTypes, Unread, FollowInv, Exchanged
    PROVE  FollowInv'
<1>1. /\ UNCHANGED <<reader, rstep, inode, pos, carry, stat, out, start, known>>
      /\ UNCHANGED lines
  BY DEF Exchanged, SameReader
<1> SUFFICES ASSUME reader = "follow"
             PROVE  Unknown' /\ Forward' /\ Exact'
  BY <1>1 DEF FollowInv
<1>2. Unknown /\ Forward /\ Exact
  BY DEF FollowInv
<1>3. /\ Len(content) \in Nat /\ path \in 0..Len(content)
      /\ inode \in 0..Len(content) /\ stat.inode \in 0..Len(content)
      /\ pos \in Nat /\ rstep \in {"new", "size", "poll", "drain_stat", "drain", "read"}
  BY FileFacts DEF FileTypes, ReadTypes, StepsOf, Offset
<1>4. \/ path' = 0
      \/ /\ path' \in Nat /\ content'[path'] = <<>>
         /\ path' > Len(content) \/ (path' = path /\ path \in truncated')
  BY DEF Exchanged
<1>5. Len(<<>>) = 0
  BY EmptySeq
<1>6. \A p \in Nat : Fresh(<<>>, p)' /\ Later(<<>>, p)'
  BY <1>5 DEF Fresh, Later
<1>7. path' # 0 => \A p \in Nat : Fresh(content[path], p)' /\ Later(content[path], p)'
  BY <1>4, <1>6
<1>8. Unknown'
  <2>1. path' # 0 => inode <= path'
    BY <1>2, <1>3, <1>4 DEF Unknown
  <2>2. ASSUME rstep \in {"drain_stat", "drain"}
        PROVE  /\ stat.inode # 0 /\ inode <= stat.inode
               /\ path' # 0 => stat.inode <= path'
               /\ Fresh(content[stat.inode], 0)'
    <3>1. /\ stat.inode # 0 /\ inode <= stat.inode
          /\ path # 0 => stat.inode <= path
          /\ Fresh(content[stat.inode], 0)
      BY <1>2, <2>2 DEF Unknown
    <3>2. stat.inode \in 1..Len(content)
      BY <1>3, <3>1
    <3>3. content'[stat.inode] = content[stat.inode] \/ content'[stat.inode] = <<>>
      BY <3>2 DEF Exchanged
    <3>4. Fresh(content[stat.inode], 0)'
      <4>1. CASE content'[stat.inode] = content[stat.inode]
        BY <1>1, <3>1, <4>1 DEF Fresh
      <4>2. CASE content'[stat.inode] = <<>>
        BY <1>1, <1>5, <4>2 DEF Fresh
      <4> QED BY <3>3, <4>1, <4>2
    <3>5. path' # 0 => stat.inode <= path'
      BY <1>3, <1>4, <3>1, <3>2
    <3> QED BY <3>1, <3>4, <3>5
  <2>3. carry = <<>> /\ Range(out) \subseteq 1..lines /\ Range(out) \cap known = {}
    BY <1>2 DEF Unknown
  <2>4. path' # 0 => Fresh(content[path], 0)' /\ Fresh(content[path], pos)'
    BY <1>1, <1>3, <1>7
  <2> QED BY <1>1, <2>1, <2>2, <2>3, <2>4 DEF Unknown
<1>9. Forward'
  <2> SUFFICES ASSUME disturbed' # "during", truncated' = {} PROVE Forward'
    BY DEF Forward
  <2>1. ~MidRead /\ disturbed # "during" /\ truncated = {}
    BY DisturbFacts DEF Exchanged
  <2>2. /\ \A i, j \in 1..Len(out) : i < j => out[i] < out[j]
        /\ rstep \in {"new", "poll"}
    BY <1>2, <1>3, <2>1 DEF Forward, MidRead
  <2>3. path' # 0 => path' > Len(content) /\ path' # inode
    BY <1>3, <1>4
  <2> QED BY <1>1, <1>7, <2>2, <2>3 DEF Forward
<1>10. Exact'
  <2>1. disturbed' = "no" => rstep = "new"
    BY DisturbFacts DEF Exchanged
  <2> QED BY <1>1, <2>1 DEF Exact
<1> QED BY <1>8, <1>9, <1>10

LEMMA ExchangedReader ==
    ASSUME LogViewerAssumption, FileTypes, ReaderInv, Exchanged
    PROVE  ReaderInv'
<1>1. /\ UNCHANGED <<reader, rstep, inode, pos, carry, stat, out, start, known>>
      /\ UNCHANGED lines /\ truncated \subseteq truncated'
      /\ Len(content') \in Nat /\ Len(content) <= Len(content') /\ Len(content) \in Nat
  BY FileFacts DEF Exchanged, SameReader
<1>2. ReadTypes'
  <2>1. inode \in 0..Len(content') /\ stat \in [inode : 0..Len(content'), size : Offset]
    BY <1>1 DEF ReaderInv, ReadTypes
  <2> QED BY <1>1, <2>1 DEF ReaderInv, ReadTypes
<1>3. Unread'
  <2>1. rstep = "new" => ~MidRead /\ disturbed = "no"
    BY DEF MidRead, ReaderInv, Unread
  <2>2. rstep = "new" => disturbed' = "no"
    BY <2>1 DEF Exchanged, Disturb
  <2> QED BY <1>1, <2>2 DEF ReaderInv, Unread
<1>4. FollowInv'
  BY ExchangedFollow DEF ReaderInv
<1>5. ASSUME inode # 0, inode \notin truncated'
      PROVE  SameBelow(inode, Len(content[inode]))
  <2>1. inode \in 1..Len(content)
    BY <1>1, <1>5 DEF ReaderInv, ReadTypes
  <2>2. content'[inode] = content[inode] /\ Len(content[inode]) \in Nat
    BY <1>5, <2>1, FileFacts DEF Exchanged
  <2> QED BY <2>2 DEF SameBelow
<1>6. PageInv'
  <2>1. PageStep
    <3>1. disturbed' # "during" => disturbed # "during" /\ ~MidRead
      BY DisturbFacts DEF Exchanged, ReaderInv
    <3> QED BY <1>1, <1>5, <3>1 DEF PageStep, MidRead
  <2> QED BY <2>1, PageKept DEF ReaderInv, Exchanged
<1>7. ExportInv'
  <2>1. ExportStep
    BY <1>1, <1>5 DEF ExportStep
  <2> QED BY <2>1, ExportKept DEF ReaderInv, Exchanged
<1> QED BY <1>2, <1>3, <1>4, <1>6, <1>7 DEF ReaderInv

LEMMA GrowsAppends ==
    ASSUME LogViewerAssumption, FileTypes, SameReader, UNCHANGED <<path, truncated, disturbed>>,
           NEW k \in 1..Len(content), NEW t \in Seq(Piece), Grows(k, t),
           lines' \in Nat, lines <= lines',
           reader \notin TornFor =>
               \A i \in 1..Len(t) : t[i] \in {lines', -lines'} /\ lines < lines'
    PROVE  Appended
<1>1. /\ Len(content') = Len(content) /\ content'[k] = content[k] \o t
      /\ \A j \in 1..Len(content) : j # k => content'[j] = content[j]
  BY GrowsFacts
<1> SUFFICES ASSUME NEW j \in 1..Len(content)
             PROVE  \E u \in Seq(Piece) :
                       /\ content'[j] = content[j] \o u
                       /\ reader \notin TornFor =>
                             \A i \in 1..Len(u) : u[i] \in {lines', -lines'} /\ lines < lines'
  BY <1>1 DEF Appended
<1>2. CASE j = k
  BY <1>1, <1>2
<1>3. CASE j # k
  <2>1. content'[j] = content[j] /\ content[j] \in Seq(Piece)
    BY <1>1, <1>3, FileFacts
  <2>2. content'[j] = content[j] \o <<>>
    BY <2>1, ConcatEmptySeq
  <2>3. <<>> \in Seq(Piece) /\ \A i \in 1..Len(<<>>) : FALSE
    BY EmptySeq
  <2> QED BY <2>2, <2>3
<1> QED BY <1>2, <1>3

LEMMA IdleAppends ==
    ASSUME LogViewerAssumption, FileTypes, SameReader,
           UNCHANGED <<path, truncated, disturbed, content, lines>>
    PROVE  Appended
<1>1. /\ lines \in Nat /\ lines <= lines
      /\ \A k \in 1..Len(content) : content[k] \in Seq(Piece)
  BY FileFacts
<1>2. <<>> \in Seq(Piece) /\ \A i \in 1..Len(<<>>) : FALSE
  BY EmptySeq
<1> SUFFICES ASSUME NEW j \in 1..Len(content)
             PROVE  \E u \in Seq(Piece) :
                       /\ content'[j] = content[j] \o u
                       /\ reader \notin TornFor =>
                             \A i \in 1..Len(u) : u[i] \in {lines', -lines'} /\ lines < lines'
  BY <1>1 DEF Appended
<1>3. content'[j] = content[j] \o <<>>
  BY <1>1, ConcatEmptySeq
<1> QED BY <1>2, <1>3

LEMMA NewFileExchanges ==
    ASSUME LogViewerAssumption, FileTypes, SameReader, NewFile, UNCHANGED <<truncated, lines>>
    PROVE  Exchanged
<1>1. /\ Len(content) \in Nat /\ Len(content') = Len(content) + 1
      /\ path' \in Nat /\ path' > Len(content) /\ content'[path'] = <<>>
      /\ \A k \in 1..Len(content) : content'[k] = content[k]
  BY NewFileFacts, FileFacts
<1>2. Disturb
  BY DEF NewFile
<1> QED BY <1>1, <1>2 DEF Exchanged

\* A step of a writer, or of the rotation.
LEMMA WriterReader ==
    ASSUME LogViewerAssumption, FileInv, ReaderInv, Reliable, NEW w \in Writer, WriterStep(w)
    PROVE  ReaderInv'
<1>1. SameReader
  BY DEF WriterStep, Reopen, WriteLine, WriteFirst, WriteRest, SameReader, readVars
<1>2. /\ FileTypes /\ fd[w] \in 1..Len(content)
      /\ lines \in Nat /\ MaxLines \in Nat /\ lines + 1 \in Nat
  <2>1. FileTypes
    BY DEF FileInv
  <2>2. lines \in Nat /\ MaxLines \in Nat
    BY <2>1, FileFacts
  <2> QED BY <2>1, <2>2 DEF FileTypes
<1>3. CASE WriteLine(w)
  <2>1. /\ lines < MaxLines /\ lines' = lines + 1 /\ UNCHANGED <<path, truncated, disturbed>>
        /\ Grows(fd[w], Text(lines + 1))
    BY <1>3 DEF WriteLine, AppendTo, Grows
  <2>2. lines + 1 \in 1..MaxLines
    BY <1>2, <2>1
  <2>3. /\ Text(lines + 1) \in Seq(Piece)
        /\ \A i \in 1..Len(Text(lines + 1)) : Text(lines + 1)[i] \in {lines', -lines'}
    BY <2>1, <2>2, TextFacts
  <2>4. lines' \in Nat /\ lines < lines' /\ lines <= lines'
    BY <1>2, <2>1
  <2>5. Appended
    BY <1>1, <1>2, <2>1, <2>3, <2>4, GrowsAppends
  <2> QED BY <1>2, <2>5, AppendedReader
<1>4. CASE WriteFirst(w)
  <2>1. /\ lines < MaxLines /\ lines' = lines + 1 /\ UNCHANGED <<path, truncated, disturbed>>
        /\ Grows(fd[w], <<lines + 1>>) /\ reader \in TornFor
    BY <1>4 DEF WriteFirst, AppendTo, Grows
  <2>2. lines + 1 \in Piece /\ lines' \in Nat /\ lines <= lines'
    BY <1>2, <2>1 DEF Piece
  <2>3. <<lines + 1>> \in Seq(Piece)
    BY <2>2
  <2>4. Appended
    BY <1>1, <1>2, <2>1, <2>2, <2>3, GrowsAppends
  <2> QED BY <1>2, <2>4, AppendedReader
<1>5. CASE WriteRest(w)
  <2>1. /\ lines' = lines /\ UNCHANGED <<path, truncated, disturbed>>
        /\ Grows(fd[w], <<-half[w]>>) /\ emit[w] = "rest"
    BY <1>5 DEF WriteRest, AppendTo, Grows
  <2>2. half[w] \in 1..lines /\ reader \in TornFor /\ lines <= MaxLines
    BY <2>1, FileFacts DEF FileInv, Halves
  <2>3. -half[w] \in Piece
    BY <1>2, <2>2 DEF Piece
  <2>4. <<-half[w]>> \in Seq(Piece) /\ lines' \in Nat /\ lines <= lines'
    BY <1>2, <2>1, <2>3
  <2>5. Appended
    BY <1>1, <1>2, <2>1, <2>2, <2>4, GrowsAppends
  <2> QED BY <1>2, <2>5, AppendedReader
<1>6. CASE Reopen(w)
  <2>1. UNCHANGED <<truncated, lines>>
    BY <1>6 DEF Reopen
  <2>2. CASE path = 0
    <3>1. NewFile
      BY <1>6, <2>2 DEF Reopen
    <3> QED BY <1>1, <1>2, <2>1, <3>1, NewFileExchanges, ExchangedReader
  <2>3. CASE path # 0
    <3>1. UNCHANGED <<path, truncated, disturbed, content, lines>>
      BY <1>6, <2>3 DEF Reopen
    <3> QED BY <1>1, <1>2, <3>1, IdleAppends, AppendedReader
  <2> QED BY <2>2, <2>3
<1> QED BY <1>3, <1>4, <1>5, <1>6 DEF WriterStep

LEMMA RotationReader ==
    ASSUME LogViewerAssumption, FileInv, ReaderInv, Rename \/ Create \/ Truncate
    PROVE  ReaderInv'
<1>1. SameReader /\ UNCHANGED lines
  BY DEF Rename, Create, Truncate, SameReader, readVars, writerVars
<1>2. FileTypes /\ Len(content) \in Nat
  BY FileFacts DEF FileInv
<1>3. CASE Create
  <2>1. NewFile /\ UNCHANGED truncated
    BY <1>3 DEF Create
  <2> QED BY <1>1, <1>2, <2>1, NewFileExchanges, ExchangedReader
<1>4. CASE Rename
  <2>1. path' = 0 /\ UNCHANGED <<content, truncated>> /\ Disturb
    BY <1>4 DEF Rename
  <2>2. Exchanged
    BY <1>1, <1>2, <2>1 DEF Exchanged
  <2> QED BY <1>2, <2>2, ExchangedReader
<1>5. CASE Truncate
  <2>1. /\ path \in 1..Len(content) /\ path' = path /\ truncated' = truncated \cup {path}
        /\ Len(content') = Len(content)
        /\ \A k \in 1..Len(content) : content'[k] = IF k = path THEN <<>> ELSE content[k]
    BY <1>5, TruncateFacts
  <2>2. Disturb
    BY <1>5 DEF Truncate
  <2>3. /\ path' \in Nat /\ content'[path'] = <<>> /\ path \in truncated'
        /\ \A k \in 1..Len(content) :
              content'[k] = content[k] \/ (content'[k] = <<>> /\ k \in truncated')
    BY <2>1
  <2>4. Exchanged
    BY <1>1, <1>2, <2>1, <2>2, <2>3 DEF Exchanged
  <2> QED BY <1>2, <2>4, ExchangedReader
<1> QED BY <1>3, <1>4, <1>5

-----------------------------------------------------------------------------
(* The steps of a follower *)

LEMMA FreshBehind ==
    ASSUME NEW s, Len(s) \in Nat, NEW p \in Nat, NEW q \in Nat, p <= q, Fresh(s, p)
    PROVE  Fresh(s, q)
<1>1. \A i \in q + 1..Len(s) : i \in p + 1..Len(s)
  OBVIOUS
<1> QED BY <1>1 DEF Fresh

\* What the follower's steps have in common.
LEMMA FollowerFacts ==
    ASSUME LogViewerAssumption, FileInv, ReadTypes, FollowInv, reader = "follow"
    PROVE  /\ Unknown /\ Forward /\ Exact
           /\ Len(content) \in Nat /\ path \in 0..Len(content) /\ inode \in 0..Len(content)
           /\ stat.inode \in 0..Len(content) /\ stat.size \in Nat
           /\ pos \in Nat /\ start \in Nat
           /\ rstep \in {"new", "size", "poll", "drain_stat", "drain", "read"}
           /\ path # 0 => path \in 1..Len(content) /\ Len(content[path]) \in Nat
           /\ 0 \in Offset /\ Size \in Offset /\ lines \in Nat
<1>1. Unknown /\ Forward /\ Exact
  BY DEF FollowInv
<1>2. FileTypes /\ Len(content) \in Nat /\ lines \in Nat
  BY FileFacts DEF FileInv
<1>3. /\ path \in 0..Len(content) /\ inode \in 0..Len(content) /\ stat.inode \in 0..Len(content)
      /\ rstep \in {"new", "size", "poll", "drain_stat", "drain", "read"}
  BY <1>2 DEF FileTypes, ReadTypes, StepsOf
<1>4. pos \in Nat /\ start \in Nat /\ stat.size \in Nat
  BY DEF ReadTypes, Offset
<1>5. path # 0 => path \in 1..Len(content)
  BY <1>2, <1>3
<1>6. path # 0 => Len(content[path]) \in Nat /\ Len(content[path]) \in Offset
  BY <1>2, <1>5, SizeBound, FileFacts
<1>7. 0 \in Offset
  BY DEF Offset, LogViewerAssumption
<1>8. Size \in Offset
  BY <1>6, <1>7 DEF Size
<1> QED BY <1>1, <1>2, <1>3, <1>4, <1>5, <1>6, <1>7, <1>8

\* Only the follower's part of the invariant is at stake.
LEMMA FollowerStep ==
    ASSUME reader = "follow", UNCHANGED reader, ReadTypes', rstep' # "new",
           Unknown', Forward', Exact'
    PROVE  ReaderInv'
<1>1. FollowInv'
  BY DEF FollowInv
<1>2. PageInv' /\ ExportInv'
  BY DEF PageInv, ExportInv
<1>3. Unread'
  BY DEF Unread
<1> QED BY <1>1, <1>2, <1>3 DEF ReaderInv

LEMMA KnownLines ==
    ASSUME LogViewerAssumption, FileTypes, UNCHANGED lines, Know
    PROVE  known' \subseteq 1..lines'
BY DEF Know

LEMMA FollowInodeReader ==
    ASSUME LogViewerAssumption, FileInv, ReaderInv, FollowInode
    PROVE  ReaderInv'
<1>1. /\ reader = "follow" /\ rstep = "new" /\ inode' = path /\ rstep' = "size"
      /\ UNCHANGED <<content, path, truncated, lines, reader, disturbed>>
      /\ UNCHANGED <<pos, carry, stat, out, start>> /\ Know
  BY DEF FollowInode, Reads, fileVars, writerVars, Proceed
<1>2. FileTypes /\ ReadTypes /\ Unread /\ FollowInv
  BY DEF FileInv, ReaderInv
<1>3. pos = 0 /\ carry = <<>> /\ out = <<>> /\ Len(<<>>) = 0 /\ Range(<<>>) = {}
  BY <1>1, <1>2, EmptySeq DEF Unread, Range
<1>4. Len(content) \in Nat /\ path \in 0..Len(content) /\ (path # 0 => Len(content[path]) \in Nat)
  BY <1>1, <1>2, FollowerFacts
<1>5. ReadTypes'
  <2>1. known' \subseteq 1..lines'
    BY <1>1, <1>2, KnownLines
  <2> QED BY <1>1, <1>2, <1>4, <2>1 DEF ReadTypes, StepsOf
<1>6. Unknown'
  BY <1>1, <1>3, <1>4 DEF Unknown
<1>7. Forward'
  BY <1>1, <1>3, <1>4 DEF Forward, Later
<1>8. Exact'
  BY <1>1, <1>3 DEF Exact
<1> QED BY <1>1, <1>5, <1>6, <1>7, <1>8, FollowerStep

LEMMA FollowSizeReader ==
    ASSUME LogViewerAssumption, FileInv, ReaderInv, Reliable, FollowSize
    PROVE  ReaderInv'
<1>1. /\ reader = "follow" /\ rstep = "size" /\ rstep' = "poll" /\ pos' = Size /\ start' = Size
      /\ UNCHANGED <<content, path, truncated, lines, reader, disturbed, inode, carry, stat, out>>
      /\ UNCHANGED known
  BY DEF FollowSize, Reads, fileVars, writerVars, Proceed
<1>2. FileTypes /\ ReadTypes /\ FollowInv /\ Whole /\ reader \notin TornFor
  BY <1>1 DEF FileInv, ReaderInv, Reliable
<1>3. /\ Unknown /\ Forward /\ Exact
      /\ Len(content) \in Nat /\ path \in 0..Len(content) /\ inode \in 0..Len(content)
      /\ path # 0 => path \in 1..Len(content) /\ Len(content[path]) \in Nat
      /\ Size \in Offset
  BY <1>1, <1>2, FollowerFacts
<1>4. ReadTypes'
  BY <1>1, <1>2, <1>3 DEF ReadTypes, StepsOf
<1>5. path # 0 => /\ pos' = Len(content[path]) /\ start' = Len(content[path])
                  /\ \A i : i \notin pos' + 1..Len(content[path])
  BY <1>1, <1>3 DEF Size
<1>6. Unknown'
  <2>1. path # 0 => Fresh(content[path], pos)'
    BY <1>1, <1>5 DEF Fresh
  <2>2. path \notin {0, inode} => Fresh(content[path], 0)'
    BY <1>1, <1>3 DEF Unknown, Fresh
  <2>3. path # 0 => ~(pos' > Len(content[path]))
    BY <1>3, <1>5
  <2>4. carry = <<>> /\ Range(out) \subseteq 1..lines /\ Range(out) \cap known = {}
    BY <1>3 DEF Unknown
  <2>5. path # 0 => inode <= path
    BY <1>3 DEF Unknown
  <2> QED BY <1>1, <2>1, <2>2, <2>3, <2>4, <2>5 DEF Unknown
<1>7. Forward'
  <2> SUFFICES ASSUME disturbed # "during", truncated = {} PROVE Forward'
    BY <1>1 DEF Forward
  <2>1. path # 0 => Later(content[path], pos)' /\ pos' <= Len(content[path])
    BY <1>1, <1>3, <1>5 DEF Later
  <2>2. path \notin {0, inode} => Later(content[path], 0)'
    BY <1>1, <1>3 DEF Forward, Later
  <2>3. \A i, j \in 1..Len(out) : i < j => out[i] < out[j]
    BY <1>3 DEF Forward
  <2> QED BY <1>1, <2>1, <2>2, <2>3 DEF Forward
<1>8. Exact'
  <2> SUFFICES ASSUME disturbed = "no" PROVE Exact'
    BY <1>1 DEF Exact
  <2>1. path = inode /\ out = <<>>
    BY <1>1, <1>3 DEF Exact
  <2>2. ASSUME inode # 0
        PROVE  /\ start' <= pos'
               /\ Boundary(content[inode], start') /\ Boundary(content[inode], pos')
               /\ out = Entries(SubSeq(content[inode], start' + 1, pos'))
    <3> DEFINE s == content[inode]
    <3>1. /\ s \in Seq(Int) /\ Len(s) \in Nat /\ Boundary(s, Len(s))
          /\ pos' = Len(s) /\ start' = Len(s)
      BY <1>2, <1>3, <1>5, <2>1, <2>2, FileFacts DEF Whole
    <3> HIDE DEF s
    <3>2. Len(s) \in 0..Len(s)
      BY <3>1
    <3>3. /\ SubSeq(s, Len(s) + 1, Len(s)) \in Seq(Int)
          /\ Len(SubSeq(s, Len(s) + 1, Len(s))) = IF Len(s) <= Len(s) THEN Len(s) - Len(s) ELSE 0
      BY <3>1, <3>2, SliceFacts
    <3>4. SubSeq(s, Len(s) + 1, Len(s)) = <<>>
      BY <3>1, <3>3, EmptySeq
    <3>5. out = Entries(SubSeq(s, Len(s) + 1, Len(s)))
      BY <2>1, <3>4, NoLines
    <3> QED BY <3>1, <3>5 DEF s
  <2> QED BY <1>1, <2>1, <2>2 DEF Exact
<1> QED BY <1>1, <1>4, <1>6, <1>7, <1>8, FollowerStep

LEMMA PollReader ==
    ASSUME LogViewerAssumption, FileInv, ReaderInv, Poll
    PROVE  ReaderInv'
<1>1. /\ reader = "follow" /\ rstep = "poll" /\ path # 0
      /\ stat' = [inode |-> path, size |-> Size]
      /\ rstep' = IF path # inode \/ Size < pos THEN "drain_stat"
                  ELSE IF Size > pos THEN "read" ELSE "poll"
      /\ UNCHANGED <<content, path, truncated, lines, reader, disturbed, inode, pos, carry, out>>
      /\ UNCHANGED <<start, known>>
  BY DEF Poll, Reads, fileVars, writerVars, Proceed
<1>2. FileTypes /\ ReadTypes /\ FollowInv
  BY <1>1 DEF FileInv, ReaderInv
<1>3. /\ Unknown /\ Forward /\ Exact
      /\ Len(content) \in Nat /\ path \in 1..Len(content) /\ inode \in 0..Len(content)
      /\ Len(content[path]) \in Nat /\ pos \in Nat
      /\ Size \in Offset /\ Size = Len(content[path])
  BY <1>1, <1>2, FollowerFacts DEF Size
<1>4. rstep' \in {"drain_stat", "read", "poll"} /\ stat'.inode = path
  BY <1>1
<1>5. ReadTypes'
  <2>1. stat' \in [inode : 0..Len(content'), size : Offset]
    BY <1>1, <1>3
  <2>2. rstep' \in StepsOf(reader')
    BY <1>1, <1>4 DEF StepsOf
  <2> QED BY <1>1, <1>2, <2>1, <2>2 DEF ReadTypes
<1>6. Unknown'
  <2>1. /\ carry = <<>> /\ Range(out) \subseteq 1..lines /\ Range(out) \cap known = {}
        /\ inode <= path
        /\ path # inode => Fresh(content[path], 0)
        /\ path = inode =>
               /\ Fresh(content[path], pos)
               /\ pos > Len(content[path]) => Fresh(content[path], 0)
    BY <1>1, <1>3 DEF Unknown
  <2>2. rstep' = "drain_stat" => Fresh(content[path], 0)
    BY <1>1, <1>3, <2>1
  <2>3. \A p \in Nat : Fresh(content[path], p) => Fresh(content[path], p)'
    BY <1>1 DEF Fresh
  <2>4. /\ path # inode => Fresh(content[path], 0)'
        /\ path = inode =>
               /\ Fresh(content[path], pos)'
               /\ pos > Len(content[path]) => Fresh(content[path], 0)'
        /\ rstep' = "drain_stat" => Fresh(content[stat.inode], 0)'
    BY <1>1, <1>3, <1>4, <2>1, <2>2, <2>3
  <2>5. path <= path
    BY <1>3
  <2> QED BY <1>1, <1>4, <2>1, <2>4, <2>5 DEF Unknown
<1>7. Forward'
  <2> SUFFICES ASSUME disturbed # "during", truncated = {} PROVE Forward'
    BY <1>1 DEF Forward
  <2>1. /\ \A i, j \in 1..Len(out) : i < j => out[i] < out[j]
        /\ path = inode => pos <= Len(content[path]) /\ Later(content[path], pos)
        /\ path # inode => Later(content[path], 0)
    BY <1>1, <1>3 DEF Forward
  <2>2. \A p \in Nat : Later(content[path], p) => Later(content[path], p)'
    BY <1>1 DEF Later
  <2>3. /\ path = inode => pos <= Len(content[path]) /\ Later(content[path], pos)'
        /\ path # inode => Later(content[path], 0)'
    BY <1>1, <1>3, <2>1, <2>2
  <2>4. rstep' = "read" => path = inode
    BY <1>1
  <2>5. rstep' = "drain_stat" => path # inode
    BY <1>1, <1>3, <2>1
  <2> QED BY <1>1, <1>4, <2>1, <2>3, <2>4, <2>5 DEF Forward
<1>8. Exact'
  <2> SUFFICES ASSUME disturbed = "no" PROVE Exact'
    BY <1>1 DEF Exact
  <2>1. /\ path = inode /\ inode # 0
        /\ start <= pos /\ Boundary(content[inode], start) /\ Boundary(content[inode], pos)
        /\ out = Entries(SubSeq(content[inode], start + 1, pos))
    BY <1>1, <1>3 DEF Exact
  <2>2. rstep' \in {"read", "poll"}
    BY <1>1, <1>3, <2>1 DEF Boundary
  <2> QED BY <1>1, <2>1, <2>2 DEF Exact
<1> QED BY <1>1, <1>4, <1>5, <1>6, <1>7, <1>8, FollowerStep

\* What Switch leaves behind, whatever the follower was sent before it.
LEMMA SwitchReader ==
    ASSUME LogViewerAssumption, FileInv, ReaderInv, reader = "follow",
           rstep \in {"drain_stat", "drain"}, rstep = "drain_stat" => path # inode \/ path = 0,
           Switch, Reads, UNCHANGED <<stat, known>>,
           Range(out') \subseteq 1..lines, Range(out') \cap known = {}, out' \in Seq(1..MaxLines),
           rstep = "drain_stat" => UNCHANGED out
    PROVE  ReaderInv'
<1>1. /\ inode' = stat.inode /\ pos' = 0 /\ carry' = <<>> /\ start' = 0
      /\ rstep' \in {"read", "poll"}
      /\ UNCHANGED <<content, path, truncated, lines, reader, disturbed, stat, known>>
  BY DEF Switch, Reads, fileVars, writerVars, Proceed
<1>2. FileTypes /\ ReadTypes /\ FollowInv
  BY DEF FileInv, ReaderInv
<1>3. /\ Unknown /\ Forward /\ Exact
      /\ Len(content) \in Nat /\ path \in 0..Len(content) /\ inode \in 0..Len(content)
      /\ stat.inode \in 0..Len(content)
      /\ path # 0 => path \in 1..Len(content) /\ Len(content[path]) \in Nat
      /\ 0 \in Offset
  BY <1>2, FollowerFacts
<1>4. ReadTypes'
  <2>1. <<>> \in Seq(Piece)
    BY EmptySeq
  <2> QED BY <1>1, <1>2, <1>3, <2>1 DEF ReadTypes, StepsOf
<1>5. \A k \in 1..Len(content) : Fresh(content[k], 0) => Fresh(content[k], 0)'
  BY <1>1 DEF Fresh
<1>6. Unknown'
  <2>1. /\ stat.inode # 0 /\ inode <= stat.inode
        /\ path # 0 => stat.inode <= path
        /\ Fresh(content[stat.inode], 0)
        /\ path # 0 => inode <= path
        /\ path \notin {0, inode} => Fresh(content[path], 0)
    BY <1>3 DEF Unknown
  <2>2. path # 0 /\ path = stat.inode => Fresh(content[path], 0)'
    BY <1>1, <1>3, <1>5, <2>1
  <2>3. ASSUME path \notin {0, stat.inode} PROVE Fresh(content[path], 0)'
    <3>1. path # inode
      BY <1>3, <2>1, <2>3
    <3> QED BY <1>1, <1>3, <1>5, <2>1, <2>3, <3>1
  <2> QED BY <1>1, <2>1, <2>2, <2>3 DEF Unknown
<1>7. Forward'
  <2> SUFFICES ASSUME disturbed # "during", truncated = {} PROVE Forward'
    BY <1>1 DEF Forward
  <2>1. rstep = "drain_stat" /\ path = stat.inode /\ path # inode /\ path # 0
    BY <1>3 DEF Forward, Unknown
  <2>2. /\ \A i, j \in 1..Len(out) : i < j => out[i] < out[j]
        /\ Later(content[path], 0)
    BY <1>3, <2>1 DEF Forward
  <2>3. UNCHANGED out
    BY <2>1
  <2>4. Later(content[path], 0)'
    BY <1>1, <2>2, <2>3 DEF Later
  <2>5. \A i, j \in 1..Len(out') : i < j => out'[i] < out'[j]
    BY <2>2, <2>3
  <2> QED BY <1>1, <1>3, <2>1, <2>4, <2>5 DEF Forward
<1>8. Exact'
  <2>1. disturbed # "no"
    BY <1>3 DEF Exact
  <2> QED BY <1>1, <2>1 DEF Exact
<1> QED BY <1>1, <1>4, <1>6, <1>7, <1>8, FollowerStep

LEMMA DrainStatReader ==
    ASSUME LogViewerAssumption, FileInv, ReaderInv, DrainStat
    PROVE  ReaderInv'
<1>1. /\ reader = "follow" /\ rstep = "drain_stat" /\ Reads /\ UNCHANGED <<stat, out, known>>
      /\ UNCHANGED <<content, path, truncated, lines, reader, disturbed>>
  BY DEF DrainStat, Reads, fileVars, writerVars
<1>2. FileTypes /\ ReadTypes /\ FollowInv
  BY DEF FileInv, ReaderInv
<1>3. /\ Unknown /\ Forward /\ Exact /\ pos \in Nat
      /\ Len(content) \in Nat /\ path \in 0..Len(content) /\ inode \in 0..Len(content)
      /\ stat.inode \in 0..Len(content)
      /\ path # 0 => path \in 1..Len(content) /\ Len(content[path]) \in Nat
  BY <1>1, <1>2, FollowerFacts
<1>4. CASE path = inode /\ path # 0
  <2>1. rstep' = "drain" /\ UNCHANGED <<inode, pos, carry, start>>
    BY <1>4 DEF DrainStat, Proceed
  <2>2. ReadTypes'
    BY <1>1, <1>2, <2>1 DEF ReadTypes, StepsOf
  <2>3. Unknown'
    <3>1. \A k \in 1..Len(content), p \in Nat : Fresh(content[k], p) => Fresh(content[k], p)'
      BY <1>1 DEF Fresh
    <3>2. /\ carry = <<>> /\ Range(out) \subseteq 1..lines /\ Range(out) \cap known = {}
          /\ Fresh(content[path], pos)
          /\ pos > Len(content[path]) => Fresh(content[path], 0)
          /\ stat.inode # 0 /\ inode <= stat.inode /\ stat.inode <= path /\ inode <= path
          /\ Fresh(content[stat.inode], 0)
      BY <1>1, <1>3, <1>4 DEF Unknown
    <3>3. stat.inode \in 1..Len(content)
      BY <1>3, <3>2
    <3>4. /\ Fresh(content[path], pos)'
          /\ pos > Len(content[path]) => Fresh(content[path], 0)'
          /\ Fresh(content[stat.inode], 0)'
      BY <1>1, <1>3, <1>4, <2>1, <3>1, <3>2, <3>3
    <3> QED BY <1>1, <1>4, <2>1, <3>2, <3>4 DEF Unknown
  <2>4. Forward' /\ Exact'
    <3>1. disturbed = "during" \/ truncated # {}
      BY <1>1, <1>3, <1>4 DEF Forward
    <3>2. disturbed # "no"
      BY <1>1, <1>3 DEF Exact
    <3> QED BY <1>1, <3>1, <3>2 DEF Forward, Exact
  <2> QED BY <1>1, <2>1, <2>2, <2>3, <2>4, FollowerStep
<1>5. CASE ~(path = inode /\ path # 0)
  <2>1. Switch
    BY <1>5 DEF DrainStat
  <2>2. Range(out') \subseteq 1..lines /\ Range(out') \cap known = {} /\ out' \in Seq(1..MaxLines)
    BY <1>1, <1>2, <1>3 DEF Unknown, ReadTypes
  <2> QED BY <1>1, <1>5, <2>1, <2>2, SwitchReader
<1> QED BY <1>4, <1>5

\* What a read finds behind the position, and the entries in the first part of it.
LEMMA DataFacts ==
    ASSUME LogViewerAssumption, FileInv, path \in 1..Len(content), pos \in Nat
    PROVE  LET s == content[path]
               data == From(s, pos)
               c == LastNewline(data) IN
           /\ data \in Seq(Piece) /\ data \in Seq(Int)
           /\ Len(data) = IF pos <= Len(s) THEN Len(s) - pos ELSE 0
           /\ \A i \in 1..Len(data) : data[i] = s[pos + i] /\ pos + i \in pos + 1..Len(s)
           /\ c \in 0..Len(data)
           /\ Upto(data, c) \in Seq(Int) /\ Len(Upto(data, c)) = c
           /\ \A i \in 1..c : Upto(data, c)[i] = data[i]
           /\ Entries(Upto(data, c)) \in
                  Seq({n \in 1..lines : \E i \in 1..Len(data) : n = -data[i]})
<1> DEFINE s == content[path]
           data == From(s, pos)
           c == LastNewline(data)
           u == Upto(data, c)
           S == {n \in 1..lines : \E i \in 1..Len(data) : n = -data[i]}
<1>1. s \in Seq(Piece) /\ Len(s) \in Nat /\ Piece \subseteq Int /\ lines \in Nat
  BY FileFacts DEF FileInv
<1>2. \A i \in 1..Len(s) : s[i] \in -lines..lines
  BY DEF FileInv, Pieces
<1> HIDE DEF s
<1>3. Len(s) \in 0..Len(s) /\ data = SubSeq(s, pos + 1, Len(s))
  BY <1>1 DEF From
<1> HIDE DEF data
<1>4. /\ data \in Seq(Piece)
      /\ Len(data) = IF pos <= Len(s) THEN Len(s) - pos ELSE 0
      /\ \A i \in 1..Len(s) - pos : data[i] = s[pos + i] /\ pos + i \in 1..Len(s)
  BY <1>1, <1>3, SliceFacts
<1>5. \A i \in 1..Len(data) : data[i] = s[pos + i] /\ pos + i \in pos + 1..Len(s)
  BY <1>1, <1>4
<1>6. data \in Seq(Int) /\ Len(data) \in Nat
  <2>1. Len(data) \in Nat
    BY <1>4
  <2>2. data \in Seq(Int)
    BY <1>1, <1>4, SeqMonotonic
  <2> QED BY <2>1, <2>2
<1>7. c \in 0..Len(data)
  BY <1>6, LastNewlineFacts
<1> HIDE DEF c
<1>8. u \in Seq(Int) /\ Len(u) = c /\ \A i \in 1..c : u[i] = data[i]
  <2>1. 0 \in Nat /\ 0 + 1 = 1 /\ c - 0 = c /\ 0 <= c /\ \A i \in 1..c : 0 + i = i
    BY <1>6, <1>7
  <2>2. /\ SubSeq(data, 0 + 1, c) \in Seq(Int)
        /\ Len(SubSeq(data, 0 + 1, c)) = IF 0 <= c THEN c - 0 ELSE 0
        /\ \A i \in 1..c - 0 : SubSeq(data, 0 + 1, c)[i] = data[0 + i]
    BY <1>6, <1>7, <2>1, SliceFacts
  <2> QED BY <2>1, <2>2 DEF Upto
<1> HIDE DEF u
<1>9. ASSUME NEW i \in 1..Len(u), u[i] < 0 PROVE -u[i] \in S
  <2>1. i \in 1..Len(data) /\ u[i] = data[i]
    BY <1>6, <1>7, <1>8
  <2>2. data[i] = s[pos + i] /\ pos + i \in 1..Len(s)
    BY <1>1, <1>5, <2>1
  <2>3. -u[i] \in 1..lines
    BY <1>1, <1>2, <1>9, <2>1, <2>2
  <2> QED BY <2>1, <2>3
<1>10. Entries(u) \in Seq(S)
  <2> HIDE DEF S
  <2> QED BY <1>8, <1>9, LinesOf
<1> QED BY <1>4, <1>5, <1>6, <1>7, <1>8, <1>10 DEF s, data, c, u

LEMMA RangeOfConcat ==
    ASSUME NEW S, NEW T, NEW U, NEW a \in Seq(S), NEW b \in Seq(T), T \subseteq S,
           Range(a) \subseteq U, T \subseteq U
    PROVE  a \o b \in Seq(S) /\ Range(a \o b) \subseteq U
<1>1. b \in Seq(S)
  BY SeqMonotonic
<1>2. /\ a \o b \in Seq(S) /\ Len(a) \in Nat /\ Len(b) \in Nat /\ Len(a \o b) = Len(a) + Len(b)
      /\ \A i \in 1..Len(a) + Len(b) : (a \o b)[i] = IF i <= Len(a) THEN a[i] ELSE b[i - Len(a)]
      /\ DOMAIN (a \o b) = 1..Len(a \o b) /\ DOMAIN a = 1..Len(a)
  BY <1>1, ConcatProperties, LenProperties
<1> DEFINE c == a \o b
<1> HIDE DEF c
<1>3. ASSUME NEW i \in 1..Len(c) PROVE c[i] \in U
  <2>1. CASE i \in 1..Len(a)
    BY <1>2, <2>1 DEF c, Range
  <2>2. CASE i \notin 1..Len(a)
    <3>1. i - Len(a) \in 1..Len(b) /\ c[i] = b[i - Len(a)]
      BY <1>2, <2>2 DEF c
    <3> QED BY <3>1, ElementOfSeq
  <2> QED BY <2>1, <2>2
<1> QED BY <1>2, <1>3 DEF c, Range

LEMMA DrainReader ==
    ASSUME LogViewerAssumption, FileInv, ReaderInv, Drain
    PROVE  ReaderInv'
<1>1. /\ reader = "follow" /\ rstep = "drain" /\ Reads /\ UNCHANGED <<stat, known>> /\ Switch
  BY DEF Drain
<1>2. FileTypes /\ ReadTypes /\ FollowInv
  BY DEF FileInv, ReaderInv
<1>3. /\ Unknown /\ pos \in Nat
      /\ path # 0 => path \in 1..Len(content) /\ Len(content[path]) \in Nat
      /\ lines \in Nat /\ MaxLines \in Nat /\ lines <= MaxLines
  BY <1>1, <1>2, FollowerFacts, FileFacts
<1>4. Range(out) \subseteq 1..lines /\ Range(out) \cap known = {} /\ out \in Seq(1..MaxLines)
  BY <1>2, <1>3 DEF Unknown, ReadTypes
<1>5. Range(out') \subseteq 1..lines /\ Range(out') \cap known = {} /\ out' \in Seq(1..MaxLines)
  <2>1. CASE path = 0
    BY <1>4, <2>1 DEF Drain
  <2>2. CASE path # 0
    <3> DEFINE s == content[path]
               data == From(s, pos)
               u == Upto(data, LastNewline(data))
               S == {n \in 1..lines : \E i \in 1..Len(data) : n = -data[i]}
    <3>1. Delta(<<>>) = data
      <4>1. data \in Seq(Piece)
        BY <1>3, <2>2, DataFacts
      <4> QED BY <4>1, ConcatEmptySeq DEF Delta
    <3>2. out' = out \o Entries(u)
      BY <2>2, <3>1 DEF Drain
    <3>3. /\ Entries(u) \in Seq(S)
          /\ \A i \in 1..Len(data) : data[i] = s[pos + i] /\ pos + i \in pos + 1..Len(s)
      BY <1>3, <2>2, DataFacts
    <3>4. Fresh(s, pos)
      <4>1. CASE path = inode
        BY <1>1, <1>3, <2>2, <4>1 DEF Unknown
      <4>2. CASE path # inode
        BY <1>3, <2>2, <4>2, FreshBehind DEF Unknown
      <4> QED BY <4>1, <4>2
    <3>5. S \cap known = {} /\ S \subseteq 1..lines /\ S \subseteq 1..MaxLines
      <4>1. \A i \in 1..Len(data) : -data[i] \notin known
        BY <3>3, <3>4 DEF Fresh
      <4> QED BY <1>3, <4>1
    <3> HIDE DEF S, u
    <3> DEFINE U == (1..lines) \ known
               M == 1..MaxLines
    <3>6. Range(out) \subseteq U /\ S \subseteq U /\ S \subseteq M /\ out \in Seq(M)
      BY <1>4, <3>5
    <3> HIDE DEF U, M
    <3>7. out \o Entries(u) \in Seq(M) /\ Range(out \o Entries(u)) \subseteq U
      BY <3>3, <3>6, RangeOfConcat
    <3> QED BY <3>2, <3>7 DEF U, M
  <2> QED BY <2>1, <2>2
<1> QED BY <1>1, <1>5, SwitchReader

\* A follower's file ends with a newline: it consumes all that it reads.
LEMMA WholeData ==
    ASSUME LogViewerAssumption, FileInv, reader \notin TornFor,
           path \in 1..Len(content), pos \in Nat
    PROVE  LET s == content[path]
               data == From(s, pos) IN
           /\ data \in Seq(Piece) /\ LastNewline(data) = Len(data) /\ Len(data) \in Nat
           /\ Upto(data, Len(data)) = data /\ From(data, Len(data)) = <<>>
           /\ InOrder(data)
<1> DEFINE s == content[path]
           data == From(s, pos)
           c == LastNewline(data)
<1>1. /\ data \in Seq(Piece) /\ data \in Seq(Int)
      /\ Len(data) = IF pos <= Len(s) THEN Len(s) - pos ELSE 0
      /\ \A i \in 1..Len(data) : data[i] = s[pos + i] /\ pos + i \in pos + 1..Len(s)
  BY DataFacts
<1>2. /\ Boundary(s, Len(s)) /\ InOrder(s) /\ Len(s) \in Nat
      /\ \A i \in 1..Len(s) : s[i] \in Int
  <2>1. Boundary(s, Len(s)) /\ InOrder(s)
    BY DEF FileInv, Whole
  <2> QED BY <2>1, FileFacts DEF FileInv
<1> HIDE DEF s, data
<1>3. Len(data) \in Nat
  BY <1>1
<1>4. /\ c \in 0..Len(data)
      /\ \A i \in 1..Len(data) : data[i] < 0 => i <= c
  BY <1>1, LastNewlineFacts
<1> HIDE DEF c
<1>5. c = Len(data)
  <2>1. CASE Len(data) = 0
    BY <1>4, <2>1
  <2>2. CASE Len(data) # 0
    <3>1. /\ Len(data) \in 1..Len(data) /\ Len(data) = Len(s) - pos /\ pos + Len(data) = Len(s)
          /\ Len(s) # 0
      BY <1>1, <1>2, <1>3, <2>2
    <3>2. data[Len(data)] < 0
      BY <1>1, <1>2, <3>1 DEF Boundary
    <3> QED BY <1>3, <1>4, <3>1, <3>2
  <2> QED BY <2>1, <2>2
<1>6. Upto(data, Len(data)) = data
  BY <1>1, SubSeqFull DEF Upto
<1>7. From(data, Len(data)) = <<>>
  <2>1. /\ SubSeq(data, Len(data) + 1, Len(data)) \in Seq(Int)
        /\ Len(SubSeq(data, Len(data) + 1, Len(data))) =
               IF Len(data) <= Len(data) THEN Len(data) - Len(data) ELSE 0
    <3>1. Len(data) \in 0..Len(data)
      BY <1>3
    <3> QED BY <1>1, <1>3, <3>1, SliceFacts
  <2> QED BY <1>3, <2>1, EmptySeq DEF From
<1>8. InOrder(data)
  <2> SUFFICES ASSUME NEW i \in 1..Len(data), NEW j \in 1..Len(data),
                      i < j, data[i] < 0, data[j] < 0
               PROVE  data[j] < data[i]
    BY DEF InOrder
  <2>1. /\ data[i] = s[pos + i] /\ pos + i \in 1..Len(s)
        /\ data[j] = s[pos + j] /\ pos + j \in 1..Len(s)
    BY <1>1, <1>3
  <2>2. pos + i < pos + j
    BY <1>3
  <2> QED BY <1>2, <2>1, <2>2 DEF InOrder
<1> QED BY <1>1, <1>3, <1>5, <1>6, <1>7, <1>8 DEF s, data, c

LEMMA ReadDeltaReader ==
    ASSUME LogViewerAssumption, FileInv, ReaderInv, Reliable, ReadDelta
    PROVE  ReaderInv'
<1>1. /\ reader = "follow" /\ rstep = "read" /\ rstep' = "poll"
      /\ UNCHANGED <<content, path, truncated, lines, reader, disturbed, inode, stat, start, known>>
  BY DEF ReadDelta, Reads, fileVars, writerVars, Proceed
<1>2. FileTypes /\ ReadTypes /\ FollowInv /\ reader \notin TornFor
  BY <1>1 DEF FileInv, ReaderInv, Reliable
<1>3. /\ Unknown /\ Forward /\ Exact /\ pos \in Nat /\ start \in Nat
      /\ inode \in 0..Len(content) /\ path \in 0..Len(content)
      /\ path # 0 => path \in 1..Len(content) /\ Len(content[path]) \in Nat
      /\ Size \in Offset
  BY <1>1, <1>2, FollowerFacts
<1>4. CASE path = 0
  <2>1. UNCHANGED <<pos, carry, out>>
    BY <1>4 DEF ReadDelta
  <2>2. ReadTypes'
    BY <1>1, <1>2, <2>1 DEF ReadTypes, StepsOf
  <2>3. Unknown'
    BY <1>1, <1>3, <1>4, <2>1 DEF Unknown
  <2>4. disturbed = "during" \/ truncated # {}
    BY <1>1, <1>3, <1>4 DEF Forward
  <2>5. Forward'
    BY <1>1, <2>4 DEF Forward
  <2>6. Exact'
    BY <1>1, <1>3, <1>4, <2>1 DEF Exact
  <2> QED BY <1>1, <2>2, <2>3, <2>5, <2>6, FollowerStep
<1>5. CASE path # 0
  <2> DEFINE s == content[path]
             n == Len(s)
             data == From(s, pos)
             new == Entries(data)
             S == {m \in 1..lines : \E i \in 1..Len(data) : m = -data[i]}
  <2>1. /\ path \in 1..Len(content) /\ n \in Nat /\ s \in Seq(Piece) /\ s \in Seq(Int)
        /\ n \in Offset /\ lines \in Nat /\ MaxLines \in Nat /\ lines <= MaxLines
    BY <1>2, <1>3, <1>5, SizeBound, FileFacts
  <2>2. /\ data \in Seq(Piece) /\ data \in Seq(Int)
        /\ Len(data) = IF pos <= n THEN n - pos ELSE 0
        /\ \A i \in 1..Len(data) : data[i] = s[pos + i] /\ pos + i \in pos + 1..n
    BY <1>3, <2>1, DataFacts
  <2>3. /\ LastNewline(data) = Len(data) /\ Len(data) \in Nat
        /\ Upto(data, Len(data)) = data /\ From(data, Len(data)) = <<>>
        /\ InOrder(data)
    BY <1>2, <1>3, <2>1, WholeData
  <2>4. Delta(carry) = data
    BY <1>3, <2>2, ConcatEmptySeq DEF Delta, Unknown
  <2>5. out' = out \o new /\ pos' = pos + Len(data) /\ carry' = <<>>
    BY <1>5, <2>3, <2>4 DEF ReadDelta
  <2>6. new \in Seq(S)
    <3>1. Entries(Upto(data, LastNewline(data))) \in Seq(S)
      BY <1>3, <2>1, DataFacts
    <3> QED BY <2>3, <3>1
  <2>7. pos' \in Nat /\ pos <= pos' /\ pos' = (IF pos <= n THEN n ELSE pos)
    BY <1>3, <2>1, <2>2, <2>3, <2>5
  <2>8. Fresh(s, pos)
    <3>1. CASE path = inode
      BY <1>1, <1>3, <1>5, <3>1 DEF Unknown
    <3>2. CASE path # inode
      BY <1>3, <1>5, <2>1, <3>2, FreshBehind DEF Unknown
    <3> QED BY <3>1, <3>2
  <2>9. S \cap known = {} /\ S \subseteq 1..lines /\ S \subseteq 1..MaxLines
    <3>1. \A i \in 1..Len(data) : -data[i] \notin known
      BY <2>2, <2>8 DEF Fresh
    <3> QED BY <2>1, <3>1
  <2>10. /\ out' \in Seq(1..MaxLines) /\ Range(out') \subseteq 1..lines
         /\ Range(out') \cap known = {}
    <3> DEFINE U == (1..lines) \ known
               M == 1..MaxLines
    <3>1. Range(out) \subseteq U /\ S \subseteq U /\ S \subseteq M /\ out \in Seq(M)
      BY <1>2, <1>3, <2>9 DEF Unknown, ReadTypes
    <3> HIDE DEF U, M, S, new
    <3>2. out \o new \in Seq(M) /\ Range(out \o new) \subseteq U
      BY <2>6, <3>1, RangeOfConcat
    <3> QED BY <2>5, <3>2 DEF U, M
  <2>11. ReadTypes'
    <3>1. pos' \in Offset
      BY <1>2, <2>1, <2>7 DEF ReadTypes
    <3>2. carry' \in Seq(Piece)
      BY <2>5, EmptySeq
    <3> QED BY <1>1, <1>2, <2>10, <3>1, <3>2 DEF ReadTypes, StepsOf
  <2>12. Unknown'
    <3>1. \A p \in Nat : Fresh(s, p) => Fresh(s, p)'
      BY <1>1 DEF Fresh
    <3>2. Fresh(s, pos')
      BY <1>3, <2>1, <2>7, <2>8, FreshBehind
    <3>3. ASSUME path = inode, pos' > n PROVE Fresh(s, 0)
      <4>1. pos > n
        BY <1>3, <2>1, <2>7, <3>3
      <4> QED BY <1>1, <1>3, <1>5, <3>3, <4>1 DEF Unknown
    <3>4. path # inode => Fresh(s, 0)
      BY <1>3, <1>5 DEF Unknown
    <3>5. path # 0 => inode <= path
      BY <1>3 DEF Unknown
    <3>6. /\ path # inode => Fresh(content[path], 0)'
          /\ path = inode => /\ Fresh(content[path], pos)'
                             /\ pos' > n => Fresh(content[path], 0)'
      BY <1>1, <2>7, <3>1, <3>2, <3>3, <3>4
    <3> QED BY <1>1, <2>5, <2>10, <3>5, <3>6 DEF Unknown
  <2>13. Forward'
    <3> SUFFICES ASSUME disturbed # "during", truncated = {} PROVE Forward'
      BY <1>1 DEF Forward
    <3>1. /\ path = inode /\ pos <= n /\ Later(s, pos)
          /\ \A i, j \in 1..Len(out) : i < j => out[i] < out[j]
      BY <1>1, <1>3, <1>5 DEF Forward
    <3>2. pos' = n
      BY <2>7, <3>1
    <3>3. Later(content[path], pos)'
      BY <1>1, <2>1, <3>2 DEF Later
    <3>4. Increasing(new)
      BY <2>2, <2>3, EntriesIncreasing
    <3>5. new \in Seq({m \in 1..lines : \A j \in 1..Len(out) : out[j] < m})
      <4> DEFINE T == {m \in 1..lines : \A j \in 1..Len(out) : out[j] < m}
      <4>1. ASSUME NEW i \in 1..Len(data), data[i] < 0 PROVE -data[i] \in T
        <5>1. data[i] = s[pos + i] /\ pos + i \in pos + 1..n /\ pos + i \in 1..n
          BY <1>3, <2>1, <2>2
        <5>2. s[pos + i] \in -lines..lines
          BY <2>1, <5>1 DEF FileInv, Pieces
        <5> QED BY <2>1, <3>1, <4>1, <5>1, <5>2, SMTT(30) DEF Later
      <4> HIDE DEF T, data
      <4> QED BY <2>2, <4>1, LinesOf DEF T
    <3>6. Increasing(out')
      <4>1. /\ Len(out) \in Nat /\ Len(new) \in Nat
            /\ \A i \in 1..Len(new) : \A j \in 1..Len(out) : out[j] < new[i]
        <5>1. Len(out) \in Nat /\ Len(new) \in Nat
          BY <1>2, <3>5 DEF ReadTypes
        <5>2. \A i \in 1..Len(new) : new[i] \in {m \in 1..lines : \A j \in 1..Len(out) : out[j] < m}
          <6> DEFINE T == {m \in 1..lines : \A j \in 1..Len(out) : out[j] < m}
          <6>1. new \in Seq(T)
            BY <3>5
          <6> HIDE DEF T, new
          <6>2. \A i \in 1..Len(new) : new[i] \in T
            BY <6>1, ElementOfSeq
          <6> QED BY <6>2 DEF T
        <5> HIDE DEF new
        <5> QED BY <5>1, <5>2
      <4>2. /\ Len(out') = Len(out) + Len(new)
            /\ \A i \in 1..Len(out) + Len(new) :
                  out'[i] = IF i <= Len(out) THEN out[i] ELSE new[i - Len(out)]
        <5>1. out \in Seq(1..MaxLines) /\ new \in Seq(1..MaxLines)
          BY <1>2, <2>6, <2>9, SeqMonotonic DEF ReadTypes
        <5> HIDE DEF new
        <5> QED BY <2>5, <5>1, ConcatProperties
      <4> HIDE DEF new
      <4> SUFFICES ASSUME NEW i \in 1..Len(out) + Len(new), NEW j \in 1..Len(out) + Len(new), i < j
                   PROVE  out'[i] < out'[j]
        BY <4>2 DEF Increasing
      <4>3. CASE j <= Len(out)
        BY <3>1, <4>1, <4>2, <4>3
      <4>4. CASE i <= Len(out) /\ ~(j <= Len(out))
        <5>1. i \in 1..Len(out) /\ j - Len(out) \in 1..Len(new)
          BY <4>1, <4>4
        <5> QED BY <4>1, <4>2, <4>4, <5>1
      <4>5. CASE ~(i <= Len(out))
        <5>1. /\ i - Len(out) \in 1..Len(new) /\ j - Len(out) \in 1..Len(new)
              /\ i - Len(out) < j - Len(out) /\ ~(j <= Len(out))
          BY <4>1, <4>5
        <5> QED BY <3>4, <4>2, <4>5, <5>1 DEF Increasing
      <4> QED BY <4>1, <4>3, <4>4, <4>5
    <3>7. pos' <= n
      BY <2>1, <3>2
    <3> QED BY <1>1, <3>1, <3>3, <3>6, <3>7 DEF Forward, Increasing
  <2>14. Exact'
    <3> SUFFICES ASSUME disturbed = "no" PROVE Exact'
      BY <1>1 DEF Exact
    <3>1. /\ path = inode /\ inode # 0 /\ start <= pos
          /\ Boundary(s, start) /\ Boundary(s, pos)
          /\ out = Entries(SubSeq(s, start + 1, pos))
      BY <1>1, <1>3, <1>5 DEF Exact
    <3>2. pos <= n /\ pos' = n /\ data = SubSeq(s, pos + 1, n)
      BY <2>7, <3>1 DEF Boundary, From
    <3>3. Boundary(s, n)
      BY <1>2, <2>1 DEF FileInv, Whole
    <3>4. pos \in start..n /\ n \in pos..n
      BY <1>3, <2>1, <3>1, <3>2
    <3>5. new = Entries(SubSeq(s, pos + 1, n))
      BY <3>2
    <3> HIDE DEF s, new, data
    <3>6. Piece \subseteq Int
      BY <1>2, FileFacts
    <3>7. Entries(SubSeq(s, start + 1, n)) =
              Entries(SubSeq(s, start + 1, pos)) \o Entries(SubSeq(s, pos + 1, n))
      BY <1>3, <2>1, <3>1, <3>4, <3>6, LinesOfSlices
    <3>8. out' = Entries(SubSeq(s, start + 1, n)) /\ start <= n
      BY <1>3, <2>1, <2>5, <3>1, <3>2, <3>5, <3>7, SMTT(30)
    <3> QED BY <1>1, <3>1, <3>2, <3>3, <3>8 DEF Exact, s
  <2> QED BY <1>1, <2>11, <2>12, <2>13, <2>14, FollowerStep
<1> QED BY <1>4, <1>5

-----------------------------------------------------------------------------
(* The steps of a pager *)

LEMMA PagerFacts ==
    ASSUME LogViewerAssumption, FileInv, ReadTypes
    PROVE  /\ FileTypes /\ Len(content) \in Nat /\ path \in 0..Len(content)
           /\ inode \in 0..Len(content) /\ pos \in Nat /\ start \in Nat /\ 0 \in Offset
           /\ Limit \in Nat \ {0} /\ TailLimit \in Nat \ {0} /\ Chunk \in Nat \ {0}
           /\ \A k \in 1..Len(content) :
                 /\ content[k] \in Seq(Piece) /\ content[k] \in Seq(Int) /\ Len(content[k]) \in Nat
                 /\ 0..Len(content[k]) \subseteq Offset
                 /\ \A i \in 1..Len(content[k]) :
                        content[k][i] < 0 => -content[k][i] \in 1..MaxLines
<1>1. FileTypes /\ path \in 0..Len(content) /\ inode \in 0..Len(content)
  BY DEF FileInv, FileTypes, ReadTypes
<1>2. Len(content) \in Nat /\ MaxLines \in Nat /\ lines \in Nat /\ lines <= MaxLines
  BY <1>1, FileFacts
<1>3. pos \in Nat /\ start \in Nat /\ 0 \in Offset
  BY <1>2 DEF ReadTypes, Offset
<1>4. Limit \in Nat \ {0} /\ TailLimit \in Nat \ {0} /\ Chunk \in Nat \ {0}
  BY DEF LogViewerAssumption
<1>5. ASSUME NEW k \in 1..Len(content)
      PROVE  /\ content[k] \in Seq(Piece) /\ content[k] \in Seq(Int) /\ Len(content[k]) \in Nat
             /\ 0..Len(content[k]) \subseteq Offset
             /\ \A i \in 1..Len(content[k]) : content[k][i] < 0 => -content[k][i] \in 1..MaxLines
  <2>1. content[k] \in Seq(Piece) /\ content[k] \in Seq(Int) /\ Len(content[k]) \in Nat
    BY <1>1, FileFacts
  <2>2. Len(content[k]) \in Offset
    BY SizeBound
  <2>3. 0..Len(content[k]) \subseteq Offset
    BY <1>2, <2>1, <2>2 DEF Offset
  <2>4. \A i \in 1..Len(content[k]) : content[k][i] \in -lines..lines
    BY DEF FileInv, Pieces
  <2>5. \A i \in 1..Len(content[k]) : content[k][i] < 0 => -content[k][i] \in 1..MaxLines
    BY <1>2, <2>4
  <2> QED BY <2>1, <2>3, <2>5
<1> QED BY <1>1, <1>2, <1>3, <1>4, <1>5

LEMMA PagerStep ==
    ASSUME reader = "page", UNCHANGED reader, ReadTypes', rstep' # "new", PageInv'
    PROVE  ReaderInv'
<1>1. FollowInv' /\ ExportInv'
  BY DEF FollowInv, ExportInv
<1>2. Unread'
  BY DEF Unread
<1> QED BY <1>1, <1>2 DEF ReaderInv

\* The entries of a slice are lines that were written.
LEMMA SliceEntries ==
    ASSUME NEW s \in Seq(Int), NEW M, \A i \in 1..Len(s) : s[i] < 0 => -s[i] \in M,
           NEW p \in Nat, NEW q \in 0..Len(s)
    PROVE  Entries(SubSeq(s, p + 1, q)) \in Seq(M) /\ RawLines(SubSeq(s, p + 1, q)) \in Seq(M)
<1> DEFINE u == SubSeq(s, p + 1, q)
<1>1. /\ u \in Seq(Int) /\ Len(u) = (IF p <= q THEN q - p ELSE 0) /\ Len(s) \in Nat
      /\ \A i \in 1..q - p : u[i] = s[p + i] /\ p + i \in 1..Len(s)
  BY SliceFacts
<1> HIDE DEF u
<1>2. \A i \in 1..Len(u) : i \in 1..q - p
  BY <1>1
<1>3. \A i \in 1..Len(u) : u[i] < 0 => -u[i] \in M
  BY <1>1, <1>2
<1> QED BY <1>1, <1>3, LinesOf DEF u

LEMMA TailInodeReader ==
    ASSUME LogViewerAssumption, FileInv, ReaderInv, TailInode
    PROVE  ReaderInv'
<1>1. /\ reader = "page" /\ path # 0 /\ inode' = path /\ rstep' = "tail"
      /\ UNCHANGED <<content, path, truncated, lines, reader, disturbed>>
      /\ UNCHANGED <<pos, carry, stat, out, start>> /\ Know
  BY DEF TailInode, Reads, fileVars, writerVars, Proceed
<1>2. FileTypes /\ ReadTypes /\ path \in 0..Len(content)
  BY PagerFacts DEF ReaderInv
<1>3. ReadTypes'
  <2>1. known' \subseteq 1..lines'
    BY <1>1, <1>2, KnownLines
  <2> QED BY <1>1, <1>2, <2>1 DEF ReadTypes, StepsOf
<1>4. PageInv'
  BY <1>1 DEF PageInv
<1> QED BY <1>1, <1>3, <1>4, PagerStep

LEMMA TailReadReader ==
    ASSUME LogViewerAssumption, FileInv, ReaderInv, TailRead
    PROVE  ReaderInv'
<1>1. /\ reader = "page" /\ rstep = "tail"
      /\ UNCHANGED <<content, path, truncated, lines, reader, disturbed, inode, carry, stat, known>>
  BY DEF TailRead, Reads, fileVars, writerVars
<1>2. /\ ReadTypes /\ PageInv /\ Len(content) \in Nat /\ path \in 0..Len(content)
      /\ TailLimit \in Nat \ {0}
  BY PagerFacts DEF ReaderInv
<1>3. CASE path = 0
  <2>1. rstep' = "failed" /\ UNCHANGED <<pos, out, start>>
    BY <1>3 DEF TailRead, Proceed
  <2>2. ReadTypes'
    BY <1>1, <1>2, <2>1 DEF ReadTypes, StepsOf
  <2>3. PageInv'
    BY <2>1 DEF PageInv
  <2> QED BY <1>1, <2>1, <2>2, <2>3, PagerStep
<1>4. CASE path # 0
  <2> DEFINE s == content[path]
             q == LastNewline(s)
             p == PageStart(s, Len(s), q, TailLimit)
  <2>1. /\ rstep' = "older?" /\ pos' = p /\ start' = q
        /\ out' = Entries(SubSeq(s, p + 1, q))
    BY <1>4 DEF TailRead, Proceed
  <2>2. /\ s \in Seq(Int) /\ Len(s) \in Nat /\ 0..Len(s) \subseteq Offset
        /\ \A i \in 1..Len(s) : s[i] < 0 => -s[i] \in 1..MaxLines
    <3>1. path \in 1..Len(content)
      BY <1>2, <1>4
    <3> QED BY <3>1, PagerFacts DEF ReaderInv
  <2> HIDE DEF s
  <2>3. /\ q \in 0..Len(s) /\ (q # 0 => s[q] < 0)
        /\ \A i \in 1..Len(s) : s[i] < 0 => i <= q
    BY <2>2, LastNewlineFacts
  <2> HIDE DEF q
  <2>4. Boundary(s, q) /\ q <= Len(s)
    BY <2>2, <2>3 DEF Boundary
  <2>5. p \in 0..q /\ (p # 0 => s[p] < 0)
    <3>1. NoNewline(s, q, Len(s))
      BY <2>3 DEF NoNewline
    <3> QED BY <1>2, <2>2, <2>3, <2>4, <3>1, PageStartFacts
  <2> HIDE DEF p
  <2>6. Boundary(s, p) /\ p \in Offset /\ q \in Offset /\ p <= q /\ p \in Nat
    <3>1. Len(s) \in Nat
      BY <2>2
    <3>2. q \in 0..Len(s) /\ p \in 0..q
      BY <2>3, <2>5
    <3>3. p \in 0..Len(s) /\ p <= q /\ p \in Nat
      BY <3>1, <3>2
    <3>4. p \in Offset /\ q \in Offset
      BY <2>2, <3>2, <3>3
    <3>5. Boundary(s, p)
      BY <2>5, <3>3 DEF Boundary
    <3> QED BY <3>3, <3>4, <3>5
  <2>7. out' \in Seq(1..MaxLines)
    BY <2>1, <2>2, <2>3, <2>6, SliceEntries
  <2>8. ReadTypes'
    BY <1>1, <1>2, <2>1, <2>6, <2>7 DEF ReadTypes, StepsOf
  <2>9. PageInv'
    <3> SUFFICES ASSUME disturbed # "during", inode \notin truncated PROVE PageInv'
      BY <1>1 DEF PageInv
    <3>1. path = inode
      BY <1>1, <1>2 DEF PageInv
    <3>2. PagesAreContiguous'
      BY <1>1, <2>1, <3>1 DEF PagesAreContiguous, s
    <3>3. StopIsTheEnd'
      BY <2>1 DEF StopIsTheEnd
    <3> QED BY <1>1, <1>4, <2>1, <2>4, <2>6, <3>1, <3>2, <3>3 DEF PageInv, PagesWalkTheFile, s
  <2> QED BY <1>1, <2>1, <2>8, <2>9, PagerStep
<1> QED BY <1>3, <1>4

LEMMA CheckInodeReader ==
    ASSUME LogViewerAssumption, FileInv, ReaderInv, CheckInode
    PROVE  ReaderInv'
<1>1. /\ reader = "page" /\ rstep = "older?"
      /\ UNCHANGED <<content, path, truncated, lines, reader, disturbed>>
      /\ UNCHANGED <<inode, pos, carry, stat, out, start, known>>
      /\ rstep' \in {"failed", "older", "rotated"} /\ (rstep' = "older" => path = inode)
  BY DEF CheckInode, Reads, fileVars, writerVars, readVars, Proceed
<1>2. ReadTypes'
  BY <1>1 DEF ReaderInv, ReadTypes, StepsOf
<1>3. PageInv'
  <2> SUFFICES ASSUME disturbed # "during", inode \notin truncated PROVE PageInv'
    BY <1>1 DEF PageInv
  <2>1. /\ inode # 0 /\ pos <= start
        /\ Boundary(content[inode], start) /\ Boundary(content[inode], pos)
        /\ PagesAreContiguous
    BY <1>1 DEF ReaderInv, PageInv, PagesWalkTheFile
  <2>2. PagesAreContiguous'
    BY <1>1, <2>1 DEF PagesAreContiguous
  <2>3. StopIsTheEnd'
    BY <1>1 DEF StopIsTheEnd
  <2> QED BY <1>1, <2>1, <2>2, <2>3 DEF PageInv, PagesWalkTheFile
<1> QED BY <1>1, <1>2, <1>3, PagerStep

\* The lines in a slice are as many as its newlines.
LEMMA SliceLength ==
    ASSUME NEW s \in Seq(Int), NEW p \in Nat, NEW q \in p..Len(s)
    PROVE  Len(RawLines(SubSeq(s, p + 1, q))) = Cardinality(Ends(s, p, q))
<1> DEFINE u == SubSeq(s, p + 1, q)
           A == Newlines(u) \cap (1..Len(u))
           B == Ends(s, p, q)
<1>1. /\ u \in Seq(Int) /\ Len(u) = q - p /\ Len(s) \in Nat /\ q \in Nat
      /\ \A i \in 1..q - p : u[i] = s[p + i] /\ p + i \in 1..Len(s)
  BY SliceFacts, SMTT(30)
<1> HIDE DEF u
<1>2. IsFiniteSet(A) /\ Len(RawLines(u)) = Cardinality(A)
  BY <1>1, LinesLength DEF RawLines
<1>3. /\ IsFiniteSet(B)
      /\ \A i : i \in B <=> i \in 1..Len(s) /\ s[i] < 0 /\ p < i /\ i <= q
  BY <1>1, EndsFacts
<1>4. \A i : i \in A <=> i \in 1..q - p /\ u[i] < 0
  <2>1. DOMAIN u = 1..Len(u)
    BY <1>1, LenProperties
  <2> QED BY <1>1, <2>1 DEF Newlines
<1> HIDE DEF A, B
<1>5. [i \in A |-> p + i] \in Bijection(A, B)
  <2> DEFINE f == [i \in A |-> p + i]
  <2>1. ASSUME NEW i \in A PROVE f[i] = p + i /\ p + i \in B /\ i \in Int
    <3>1. i \in 1..q - p /\ u[i] < 0 /\ i \in Int
      BY <1>1, <1>4
    <3>2. p + i \in 1..Len(s) /\ s[p + i] < 0 /\ p < p + i /\ p + i <= q
      BY <1>1, <3>1
    <3>3. p + i \in B
      BY <1>3, <3>2
    <3> QED BY <3>1, <3>3
  <2>2. f \in [A -> B]
    BY <2>1
  <2>3. \A i, j \in A : f[i] = f[j] => i = j
    BY <2>1
  <2>4. \A j \in B : \E i \in A : f[i] = j
    <3> TAKE j \in B
    <3>1. j \in 1..Len(s) /\ s[j] < 0 /\ p < j /\ j <= q
      BY <1>3
    <3>2. j - p \in 1..q - p /\ p + (j - p) = j
      BY <1>1, <3>1
    <3>3. u[j - p] < 0
      BY <1>1, <3>1, <3>2
    <3>4. j - p \in A /\ p + (j - p) = j
      BY <1>4, <3>2, <3>3
    <3> QED BY <2>1, <3>4
  <2>5. f \in Injection(A, B)
    BY <2>2, <2>3 DEF Injection, IsInjective
  <2>6. f \in Surjection(A, B)
    BY <2>2, <2>4 DEF Surjection
  <2> QED BY <2>5, <2>6 DEF Bijection
<1>6. Cardinality(A) = Cardinality(B)
  <2>1. ExistsBijection(A, B)
    BY <1>5 DEF ExistsBijection
  <2> QED BY <1>2, <2>1, FS_Bijection
<1> QED BY <1>2, <1>6 DEF u, B

\* Two slices of a file that do not overlap have no line in common.
LEMMA SlicesAreDisjoint ==
    ASSUME LogViewerAssumption, FileInv, NEW k \in 1..Len(content),
           NEW p \in Nat, NEW q \in p..Len(content[k]), NEW r \in q..Len(content[k]),
           NEW a, a = RawLines(SubSeq(content[k], p + 1, q)),
           NEW b, b = Entries(SubSeq(content[k], q + 1, r))
    PROVE  \A i \in 1..Len(a) : a[i] \notin Range(b)
<1> DEFINE s == content[k]
           u == SubSeq(s, p + 1, q)
           v == SubSeq(s, q + 1, r)
           S == {n \in Int : \E i \in p + 1..q : n = -s[i]}
           T == {n \in Int : \E i \in q + 1..r : n = -s[i]}
<1>1. s \in Seq(Int) /\ Len(s) \in Nat /\ \A i \in 1..Len(s) : s[i] \in Int
  BY FileFacts DEF FileInv
<1>2. \A i, j \in 1..Len(s) : s[i] = s[j] => i = j
  BY DEF FileInv, Pieces
<1> HIDE DEF s
<1>3. q \in 0..Len(s) /\ r \in 0..Len(s) /\ q \in Nat /\ p <= q /\ q <= r /\ r \in Nat
  BY <1>1 DEF s
<1>4. ASSUME NEW n \in S, n \in T PROVE FALSE
  <2>1. PICK i \in p + 1..q : n = -s[i]
    OBVIOUS
  <2>2. PICK j \in q + 1..r : n = -s[j]
    BY <1>4
  <2>3. i \in 1..Len(s) /\ j \in 1..Len(s) /\ i < j
    <3>1. i \in Int /\ p < i /\ i <= q /\ j \in Int /\ q < j /\ j <= r
      BY <1>3
    <3>2. q <= Len(s) /\ r <= Len(s)
      BY <1>1, <1>3
    <3>3. Len(s) \in Nat
      BY <1>1
    <3> HIDE DEF S, T
    <3> QED BY <1>3, <3>1, <3>2, <3>3
  <2>4. s[i] = s[j]
    <3>1. s[i] \in Int /\ s[j] \in Int
      BY <1>1, <2>3
    <3>2. -s[i] = -s[j]
      BY <2>1, <2>2
    <3> HIDE DEF S, T
    <3> QED BY <3>1, <3>2
  <2> QED BY <1>1, <1>2, <2>3, <2>4
<1>5. /\ u \in Seq(Int) /\ Len(u) = q - p
      /\ \A i \in 1..q - p : u[i] = s[p + i] /\ p + i \in 1..Len(s)
  BY <1>1, <1>3, SliceFacts
<1>6. /\ v \in Seq(Int) /\ Len(v) = r - q
      /\ \A i \in 1..r - q : v[i] = s[q + i] /\ q + i \in 1..Len(s)
  BY <1>1, <1>3, SliceFacts
<1> HIDE DEF u, v
<1>7. \A i \in 1..Len(u) : u[i] < 0 => -u[i] \in S
  <2> TAKE i \in 1..Len(u)
  <2>1. p + i \in p + 1..q /\ u[i] = s[p + i] /\ p + i \in 1..Len(s)
    BY <1>3, <1>5, SMTT(30)
  <2>2. -s[p + i] \in Int
    BY <1>1, <2>1
  <2> QED BY <2>1, <2>2
<1>8. \A i \in 1..Len(v) : v[i] < 0 => -v[i] \in T
  <2> TAKE i \in 1..Len(v)
  <2>1. q + i \in q + 1..r /\ v[i] = s[q + i] /\ q + i \in 1..Len(s)
    BY <1>3, <1>6, SMTT(30)
  <2>2. -s[q + i] \in Int
    BY <1>1, <2>1
  <2> QED BY <2>1, <2>2
<1> HIDE DEF S, T
<1>9. a \in Seq(S)
  BY <1>5, <1>7, LinesOf DEF u, s
<1>10. b \in Seq(T)
  BY <1>6, <1>8, LinesOf DEF v, s
<1>11. \A i \in 1..Len(a) : a[i] \in S
  BY <1>9, ElementOfSeq
<1>12. Range(b) \subseteq T
  <2>1. DOMAIN b = 1..Len(b) /\ \A i \in 1..Len(b) : b[i] \in T
    BY <1>10, ElementOfSeq, LenProperties
  <2> QED BY <2>1 DEF Range
<1> QED BY <1>4, <1>11, <1>12

LEMMA OlderReadReader ==
    ASSUME LogViewerAssumption, FileInv, ReaderInv, OlderRead
    PROVE  ReaderInv'
<1>1. /\ reader = "page" /\ rstep = "older"
      /\ UNCHANGED <<content, path, truncated, lines, reader, disturbed>>
      /\ UNCHANGED <<inode, carry, stat, start, known>>
  BY DEF OlderRead, Reads, fileVars, writerVars
<1>2. /\ ReadTypes /\ PageInv /\ Len(content) \in Nat /\ path \in 0..Len(content)
      /\ Limit \in Nat \ {0} /\ pos \in Nat /\ start \in Nat /\ out \in Seq(1..MaxLines)
  BY PagerFacts DEF ReaderInv, ReadTypes
<1>3. CASE path = 0
  <2>1. rstep' = "failed" /\ UNCHANGED <<pos, out>>
    BY <1>3 DEF OlderRead, Proceed
  <2>2. ReadTypes'
    BY <1>1, <1>2, <2>1 DEF ReadTypes, StepsOf
  <2>3. PageInv'
    BY <2>1 DEF PageInv
  <2> QED BY <1>1, <2>1, <2>2, <2>3, PagerStep
<1>4. CASE path # 0
  <2> DEFINE s == content[path]
             q == Least(pos, Len(s))
             p == PageStart(s, pos, q, Limit)
             page == Entries(SubSeq(s, p + 1, q))
  <2>1. /\ pos' = p /\ out' = page \o out
        /\ rstep' = IF page = <<>> THEN "stopped" ELSE "older?"
    BY <1>4 DEF OlderRead, Proceed
  <2>2. path \in 1..Len(content)
    BY <1>2, <1>4
  <2>3. /\ s \in Seq(Int) /\ s \in Seq(Piece) /\ Len(s) \in Nat /\ 0..Len(s) \subseteq Offset
        /\ \A i \in 1..Len(s) : s[i] < 0 => -s[i] \in 1..MaxLines
    BY <2>2, PagerFacts DEF ReaderInv
  <2> HIDE DEF s
  <2>4. /\ q \in 0..Len(s) /\ q <= pos /\ (pos <= Len(s) => q = pos)
        /\ \A i \in 1..Len(s) : s[i] < 0 /\ i <= pos => i <= q
    BY <1>2, <2>3 DEF Least
  <2> HIDE DEF q
  <2>5. /\ p \in 0..q
        /\ Boundary(s, q) /\ p # 0 => s[p] < 0 /\ Cardinality(Ends(s, p, q)) = Limit
    <3>1. pos \in Nat /\ Limit \in Nat \ {0} /\ s \in Seq(Int)
      BY <1>2, <2>3
    <3>2. q \in 0..Len(s) /\ q <= pos
      BY <2>4
    <3>3. NoNewline(s, q, pos)
      BY <2>4 DEF NoNewline
    <3>4. /\ PageStart(s, pos, q, Limit) \in 0..q
          /\ Boundary(s, q) /\ PageStart(s, pos, q, Limit) # 0 =>
                /\ s[PageStart(s, pos, q, Limit)] < 0
                /\ Cardinality(Ends(s, PageStart(s, pos, q, Limit), q)) = Limit
      BY <3>1, <3>2, <3>3, PageStartFacts
    <3> QED BY <3>4
  <2> HIDE DEF p
  <2>6. p \in Nat /\ p \in 0..Len(s) /\ p <= q
    BY <2>3, <2>4, <2>5
  <2>7. page \in Seq(1..MaxLines)
    BY <2>3, <2>4, <2>6, SliceEntries
  <2>8. ReadTypes'
    <3>1. page \o out \in Seq(1..MaxLines)
      <4> HIDE DEF page
      <4> QED BY <1>2, <2>7, ConcatProperties
    <3>2. p \in Offset
      BY <2>3, <2>6
    <3> QED BY <1>1, <1>2, <2>1, <3>1, <3>2 DEF ReadTypes, StepsOf
  <2>9. PageInv'
    <3> SUFFICES ASSUME disturbed # "during", inode \notin truncated PROVE PageInv'
      BY <1>1 DEF PageInv
    <3>1. /\ path = inode /\ inode # 0 /\ pos <= start
          /\ Boundary(s, start) /\ Boundary(s, pos)
          /\ PagesAreContiguous
      BY <1>1, <1>2 DEF PageInv, PagesWalkTheFile, s
    <3>2. /\ q = pos /\ start \in 0..Len(s) /\ Boundary(s, q)
          /\ out = Entries(SubSeq(s, q + 1, start))
      BY <1>1, <2>4, <3>1 DEF Boundary, PagesAreContiguous, s
    <3>3. p \in Nat /\ q \in p..Len(s) /\ start \in q..Len(s) /\ Piece \subseteq Int
      <4>1. Piece \subseteq Int
        BY DEF Piece, LogViewerAssumption
      <4> QED BY <1>2, <2>3, <2>4, <2>6, <3>1, <3>2, <4>1
    <3>4. /\ Entries(SubSeq(s, p + 1, start)) = page \o out
          /\ RawLines(SubSeq(s, p + 1, start)) =
                 RawLines(SubSeq(s, p + 1, q)) \o RawLines(SubSeq(s, q + 1, start))
      <4>1. /\ Boundary(s, q) =>
                  Entries(SubSeq(s, p + 1, start)) =
                      Entries(SubSeq(s, p + 1, q)) \o Entries(SubSeq(s, q + 1, start))
            /\ RawLines(SubSeq(s, p + 1, start)) =
                  RawLines(SubSeq(s, p + 1, q)) \o RawLines(SubSeq(s, q + 1, start))
        <5>1. s \in Seq(Int)
          BY <2>3
        <5>2. p \in Nat /\ q \in p..Len(s) /\ start \in q..Len(s)
          BY <3>3
        <5> HIDE DEF s, q, page
        <5> QED BY <5>1, <5>2, LinesOfSlices
      <4> QED BY <3>2, <4>1
    <3>5. Boundary(s, p) /\ p <= start
      <4>1. p = 0 \/ s[p] < 0
        BY <2>5, <3>2
      <4>2. p <= start
        BY <1>2, <2>3, <3>3
      <4> QED BY <2>6, <4>1, <4>2 DEF Boundary
    <3>6. PagesAreContiguous'
      BY <1>1, <2>1, <3>1, <3>4 DEF PagesAreContiguous, s
    <3>7. StopIsTheEnd'
      <4> SUFFICES ASSUME rstep' = "stopped"
                   PROVE  \/ Entries(Upto(s, p)) = <<>>
                          \/ /\ Len(RawLines(SubSeq(s, p + 1, start))) >= Limit
                             /\ \A j \in 1..Limit :
                                    RawLines(SubSeq(s, p + 1, start))[j] \notin Range(out')
        BY <1>1, <2>1, <3>1 DEF StopIsTheEnd, s
      <4>1. page = <<>> /\ out' = out
        <5>1. page = <<>>
          BY <2>1
        <5> QED BY <1>2, <2>1, <5>1, ConcatEmptySeq
      <4>2. CASE p = 0
        <5>1. /\ SubSeq(s, 0 + 1, 0) \in Seq(Int)
              /\ Len(SubSeq(s, 0 + 1, 0)) = IF 0 <= 0 THEN 0 - 0 ELSE 0
          BY <2>3, SliceFacts
        <5>2. 0 + 1 = 1 /\ 0 - 0 = 0 /\ 0 <= 0
          OBVIOUS
        <5>3. Upto(s, 0) = <<>>
          BY <5>1, <5>2, EmptySeq DEF Upto
        <5> QED BY <4>2, <5>3, NoLines
      <4>3. CASE p # 0
        <5> DEFINE a == RawLines(SubSeq(s, p + 1, q))
                   b == RawLines(SubSeq(s, q + 1, start))
        <5>1. Len(a) = Limit
          BY <2>3, <2>5, <3>2, <3>3, <4>3, SliceLength
        <5>2. \A i \in 1..Len(a) : a[i] \notin Range(out)
          BY <2>2, <3>2, <3>3, SlicesAreDisjoint DEF s
        <5>3. a \in Seq(1..MaxLines) /\ b \in Seq(1..MaxLines)
          <6>1. q \in 0..Len(s) /\ start \in 0..Len(s) /\ p \in Nat /\ q \in Nat
            BY <2>3, <2>4, <3>2, <3>3
          <6> QED BY <2>3, <6>1, SliceEntries
        <5> HIDE DEF a, b
        <5>4. /\ Len(a \o b) = Len(a) + Len(b) /\ Len(b) \in Nat
              /\ \A i \in 1..Len(a) : (a \o b)[i] = a[i]
          BY <5>3, ConcatProperties
        <5>5. RawLines(SubSeq(s, p + 1, start)) = a \o b
          BY <3>4 DEF a, b
        <5>6. Limit \in Nat /\ Len(a \o b) >= Limit
          BY <1>2, <5>1, <5>4
        <5>7. \A j \in 1..Limit : (a \o b)[j] \notin Range(out')
          BY <4>1, <5>1, <5>2, <5>4
        <5> QED BY <5>5, <5>6, <5>7
      <4> QED BY <4>2, <4>3
    <3>8. /\ inode' = path /\ path # 0 /\ content' = content /\ start' = start
          /\ rstep' \notin {"tail", "older"}
      BY <1>1, <1>4, <2>1, <3>1
    <3> QED BY <2>1, <3>1, <3>5, <3>6, <3>7, <3>8 DEF PageInv, PagesWalkTheFile, s
  <2>10. rstep' # "new"
    BY <2>1
  <2> QED BY <1>1, <2>8, <2>9, <2>10, PagerStep
<1> QED BY <1>3, <1>4

-----------------------------------------------------------------------------
(* The steps of an export *)

LEMMA ExporterStep ==
    ASSUME reader = "export", UNCHANGED reader, ReadTypes', rstep' # "new", ExportInv'
    PROVE  ReaderInv'
<1>1. FollowInv' /\ PageInv'
  BY DEF FollowInv, PageInv
<1>2. Unread'
  BY DEF Unread
<1> QED BY <1>1, <1>2 DEF ReaderInv

LEMMA OpenReader ==
    ASSUME LogViewerAssumption, FileInv, ReaderInv, Open
    PROVE  ReaderInv'
<1>1. /\ reader = "export" /\ rstep = "new" /\ rstep' = "export" /\ path # 0
      /\ inode' = path /\ start' = Size /\ Know
      /\ UNCHANGED <<content, path, truncated, lines, reader, disturbed, pos, carry, stat, out>>
  BY DEF Open, Reads, fileVars, writerVars, Proceed
<1>2. ReadTypes /\ FileTypes /\ path \in 1..Len(content) /\ 0 \in Offset
  <2>1. ReadTypes /\ FileTypes /\ Len(content) \in Nat /\ path \in 0..Len(content) /\ 0 \in Offset
    BY PagerFacts DEF ReaderInv
  <2> QED BY <1>1, <2>1
<1>3. pos = 0 /\ carry = <<>> /\ out = <<>> /\ Len(<<>>) = 0
  BY <1>1, EmptySeq DEF ReaderInv, Unread
<1> DEFINE s == content[path]
<1>4. /\ start' = Len(s) /\ Len(s) \in Nat /\ Len(s) \in Offset /\ s \in Seq(Int)
  BY <1>1, <1>2, SizeBound, FileFacts DEF Size
<1> HIDE DEF s
<1>5. ReadTypes'
  <2>1. known' \subseteq 1..lines'
    BY <1>1, <1>2, KnownLines
  <2> QED BY <1>1, <1>2, <1>4, <2>1 DEF ReadTypes, StepsOf
<1>6. SubSeq(s, 0 + 1, 0) = <<>> /\ 0 + 1 = 1 /\ 0 - 0 = 0 /\ 0 <= 0
  <2>1. 0 + 1 = 1 /\ 0 - 0 = 0 /\ 0 <= 0 /\ 0 \in 0..Len(s)
    BY <1>4
  <2>2. /\ SubSeq(s, 0 + 1, 0) \in Seq(Int)
        /\ Len(SubSeq(s, 0 + 1, 0)) = IF 0 <= 0 THEN 0 - 0 ELSE 0
    BY <1>4, <2>1, SliceFacts
  <2> QED BY <2>1, <2>2, EmptySeq
<1>7. Upto(s, 0) = <<>>
  BY <1>6 DEF Upto
<1>8. pos' - Len(carry') = 0 /\ Len(carry') = 0
  <2>1. pos' = 0 /\ Len(carry') = 0
    BY <1>1, <1>3
  <2> QED BY <2>1
<1>9. ExportIsPrefix'
  <2>1. out = RawLines(Upto(s, 0))
    BY <1>3, <1>7, NoLines
  <2> QED BY <1>1, <1>8, <2>1 DEF ExportIsPrefix, s
<1>10. ExportInv'
  <2>1. carry = SubSeq(s, 0 + 1, 0)
    BY <1>3, <1>6
  <2>2. 0 <= Len(s) /\ Len(s) <= Len(s)
    BY <1>4
  <2> QED BY <1>1, <1>3, <1>4, <1>6, <1>8, <1>9, <2>1, <2>2 DEF ExportInv, s
<1> QED BY <1>1, <1>5, <1>10, ExporterStep

\* A slice of a slice.
LEMMA SliceOfSlice ==
    ASSUME NEW S, NEW s \in Seq(S), NEW d \in Nat, NEW n \in d..Len(s),
           NEW a \in Nat, NEW b \in a..n - d
    PROVE  SubSeq(SubSeq(s, d + 1, n), a + 1, b) = SubSeq(s, (d + a) + 1, d + b)
<1> DEFINE u == SubSeq(s, d + 1, n)
           v == SubSeq(u, a + 1, b)
           w == SubSeq(s, (d + a) + 1, d + b)
<1>1. Len(s) \in Nat /\ n \in Nat /\ d <= n /\ n <= Len(s) /\ n \in 0..Len(s)
  OBVIOUS
<1>2. b \in Nat /\ a <= b /\ b <= n - d /\ n - d \in Nat /\ b \in 0..n - d
  BY <1>1
<1>3. /\ u \in Seq(S) /\ Len(u) = n - d
      /\ \A i \in 1..n - d : u[i] = s[d + i]
  BY <1>1, SliceFacts
<1> HIDE DEF u
<1>4. /\ v \in Seq(S) /\ Len(v) = b - a
      /\ \A i \in 1..b - a : v[i] = u[a + i]
  BY <1>2, <1>3, SliceFacts
<1>5. d + a \in Nat /\ d + b \in 0..Len(s) /\ d + a <= d + b /\ (d + b) - (d + a) = b - a
  BY <1>1, <1>2
<1>6. /\ w \in Seq(S) /\ Len(w) = b - a
      /\ \A i \in 1..b - a : w[i] = s[(d + a) + i]
  BY <1>5, SliceFacts
<1> HIDE DEF v, w
<1>7. \A i \in 1..b - a : v[i] = w[i]
  <2> TAKE i \in 1..b - a
  <2>1. a + i \in 1..n - d /\ d + (a + i) = (d + a) + i
    BY <1>1, <1>2
  <2> QED BY <1>3, <1>4, <1>6, <2>1
<1>8. v = w
  BY <1>4, <1>6, <1>7, SeqEqual
<1> QED BY <1>8 DEF u, v, w

LEMMA ExportChunkReader ==
    ASSUME LogViewerAssumption, FileInv, ReaderInv, ExportChunk
    PROVE  ReaderInv'
<1> DEFINE s == content[inode]
           n == Least(pos + Chunk, Len(s))
           chunk == SubSeq(s, pos + 1, n)
           data == carry \o chunk
           c == LastNewline(data)
<1>1. /\ reader = "export" /\ rstep = "export"
      /\ UNCHANGED <<content, path, truncated, lines, reader, disturbed, inode, stat, start, known>>
      /\ pos' = pos + Len(chunk) /\ out' = out \o RawLines(Upto(data, c))
      /\ carry' = From(data, c)
      /\ rstep' = IF chunk = <<>> THEN "closed" ELSE "export"
  BY DEF ExportChunk, Reads, fileVars, writerVars, Proceed
<1>2. /\ ReadTypes /\ ExportInv /\ pos \in Nat /\ start \in Nat /\ Chunk \in Nat \ {0}
      /\ inode \in 1..Len(content) /\ carry \in Seq(Piece) /\ out \in Seq(1..MaxLines)
      /\ pos \in Offset
  <2>1. inode # 0
    BY <1>1 DEF ReaderInv, ExportInv
  <2>2. Len(content) \in Nat /\ inode \in 0..Len(content)
    BY PagerFacts DEF ReaderInv
  <2>3. pos \in Nat /\ start \in Nat /\ Chunk \in Nat \ {0}
    BY PagerFacts DEF ReaderInv
  <2> QED BY <2>1, <2>2, <2>3 DEF ReaderInv, ReadTypes
<1>3. /\ s \in Seq(Piece) /\ s \in Seq(Int) /\ Len(s) \in Nat /\ 0..Len(s) \subseteq Offset
      /\ Piece \subseteq Int /\ MaxLines \in Nat
  BY <1>2, PagerFacts, FileFacts DEF ReaderInv
<1> HIDE DEF s
<1>4. n \in 0..Len(s) /\ n <= pos + Chunk /\ (pos <= Len(s) => pos <= n)
  BY <1>2, <1>3 DEF Least
<1>5. n = pos => Len(s) <= pos
  BY <1>2, <1>3 DEF Least
<1> HIDE DEF n
<1>6. /\ chunk \in Seq(Piece) /\ Len(chunk) = IF pos <= n THEN n - pos ELSE 0
  BY <1>2, <1>3, <1>4, SliceFacts
<1> HIDE DEF chunk
<1>7. data \in Seq(Piece) /\ data \in Seq(Int) /\ Len(data) = Len(carry) + Len(chunk)
      /\ Len(data) \in Nat /\ Len(carry) \in Nat
  <2>1. data \in Seq(Piece) /\ Len(data) = Len(carry) + Len(chunk)
    BY <1>2, <1>6, ConcatProperties
  <2>2. Len(data) \in Nat /\ Len(carry) \in Nat
    BY <1>2, <2>1, LenProperties
  <2> QED BY <1>3, <2>1, <2>2, SeqMonotonic
<1> HIDE DEF data
<1>8. c \in 0..Len(data) /\ c \in Nat /\ c <= Len(data)
  BY <1>7, LastNewlineFacts
<1> HIDE DEF c
<1>9. 0 + 1 = 1 /\ 0 \in Nat /\ Len(data) \in 0..Len(data)
  BY <1>7
<1>10. Upto(data, c) = SubSeq(data, 0 + 1, c) /\ carry' = SubSeq(data, c + 1, Len(data))
  BY <1>1, <1>9 DEF Upto, From
<1>11. carry' \in Seq(Piece) /\ Len(carry') = Len(data) - c
  BY <1>7, <1>8, <1>9, <1>10, SliceFacts
<1>12. RawLines(Upto(data, c)) \in Seq(1..MaxLines)
  <2>1. \A i \in 1..Len(data) : data[i] < 0 => -data[i] \in 1..MaxLines
    <3> TAKE i \in 1..Len(data)
    <3>1. data[i] \in Piece
      BY <1>7, ElementOfSeq
    <3> QED BY <1>3, <3>1 DEF Piece
  <2> QED BY <1>7, <1>8, <1>9, <1>10, <2>1, SliceEntries
<1>13. ReadTypes'
  <2>1. pos' \in Offset
    <3>1. CASE pos <= n
      <4>1. pos' = n
        BY <1>1, <1>2, <1>3, <1>4, <1>6, <3>1
      <4> QED BY <1>3, <1>4, <4>1
    <3>2. CASE ~(pos <= n)
      <4>1. pos' = pos
        BY <1>1, <1>2, <1>6, <3>2
      <4> QED BY <1>2, <4>1
    <3> QED BY <3>1, <3>2
  <2>2. out' \in Seq(1..MaxLines)
    <3> DEFINE new == RawLines(Upto(data, c))
    <3>1. out' = out \o new /\ new \in Seq(1..MaxLines)
      BY <1>1, <1>12
    <3> HIDE DEF new
    <3> QED BY <1>2, <3>1, ConcatProperties
  <2> QED BY <1>1, <1>2, <1>11, <2>1, <2>2 DEF ReadTypes, StepsOf
<1>14. ExportInv'
  <2> SUFFICES ASSUME inode \notin truncated
               PROVE  /\ Len(carry') <= pos' /\ pos' <= Len(s) /\ start <= Len(s)
                      /\ carry' = SubSeq(s, (pos' - Len(carry')) + 1, pos')
                      /\ ExportIsPrefix'
    BY <1>1, <1>2 DEF ExportInv, s
  <2> DEFINE d == pos - Len(carry)
  <2>1. /\ Len(carry) <= pos /\ pos <= Len(s) /\ start <= Len(s)
        /\ carry = SubSeq(s, d + 1, pos)
        /\ out = RawLines(Upto(s, d))
    BY <1>1, <1>2 DEF ExportInv, ExportIsPrefix, s
  <2>2. /\ d \in Nat /\ d <= pos /\ pos <= n /\ n <= Len(s) /\ n \in Nat
        /\ Len(data) = n - d /\ Len(chunk) = n - pos
    BY <1>2, <1>3, <1>4, <1>6, <1>7, <2>1
  <2>3. /\ d \in 0..Len(s) /\ n \in d..Len(s) /\ d + 1 \in 1..Len(s) + 1
        /\ pos \in (d + 1) - 1..Len(s) /\ n \in pos..Len(s)
        /\ c \in 0..n - d /\ n - d \in c..n - d /\ d + (n - d) = n /\ d + 0 = d
    BY <1>2, <1>3, <1>8, <2>1, <2>2
  <2> HIDE DEF d
  <2>4. data = SubSeq(s, d + 1, n)
    BY <1>2, <1>3, <2>1, <2>3, ConcatAdjacentSubSeq DEF data, chunk
  <2>5. /\ Upto(data, c) = SubSeq(s, (d + 0) + 1, d + c)
        /\ carry' = SubSeq(s, (d + c) + 1, d + (n - d))
    BY <1>3, <1>8, <1>9, <1>10, <2>2, <2>3, <2>4, SliceOfSlice
  <2>6. pos' = n /\ pos' - Len(carry') = d + c /\ Len(carry') <= pos'
    <3>1. pos' = n
      BY <1>1, <1>2, <2>2
    <3>2. Len(carry') = (n - d) - c
      BY <1>11, <2>2
    <3> QED BY <1>8, <2>2, <3>1, <3>2
  <2>7. carry' = SubSeq(s, (d + c) + 1, n)
    BY <2>3, <2>5
  <2>8. ExportIsPrefix'
    <3>1. d + c \in 0..Len(s) /\ d \in 0..Len(s) /\ d + c \in d..Len(s)
      BY <1>3, <1>8, <2>2, <2>3
    <3>2. RawLines(Upto(s, d + c)) = RawLines(Upto(s, d)) \o RawLines(SubSeq(s, d + 1, d + c))
      BY <1>3, <1>9, <3>1, LinesUpto
    <3>3. out' = RawLines(Upto(s, d)) \o RawLines(SubSeq(s, d + 1, d + c))
      BY <1>1, <2>1, <2>3, <2>5
    <3>4. out' = RawLines(Upto(s, d + c))
      BY <3>2, <3>3
    <3>5. ASSUME rstep' = "closed" PROVE pos' >= start
      <4>1. chunk = <<>>
        BY <1>1, <3>5
      <4>2. Len(chunk) = 0
        BY <4>1, EmptySeq
      <4>3. n = pos
        BY <1>2, <2>2, <4>2
      <4> QED BY <1>2, <1>3, <1>5, <2>1, <2>6, <4>3
    <3> QED BY <1>1, <2>6, <3>4, <3>5 DEF ExportIsPrefix, s
  <2> QED BY <2>1, <2>2, <2>6, <2>7, <2>8
<1>15. rstep' # "new"
  BY <1>1
<1> QED BY <1>1, <1>13, <1>14, <1>15, ExporterStep

-----------------------------------------------------------------------------
(* The theorems *)

LEMMA LogInitInv ==
    ASSUME LogViewerAssumption, LogInit
    PROVE  LogInv
<1>1. /\ content = <<<<>>>> /\ path = 1 /\ truncated = {} /\ truncations = 0 /\ lines = 0
      /\ fd = [w \in Writer |-> 1] /\ emit = [w \in Writer |-> "idle"]
      /\ half = [w \in Writer |-> 0] /\ reader \in Readers /\ rstep = "new" /\ disturbed = "no"
      /\ inode = 0 /\ pos = 0 /\ carry = <<>> /\ stat = NoStat /\ out = <<>>
      /\ start = 0 /\ known = {}
  BY DEF LogInit
<1>2. /\ MaxLines \in Nat /\ MaxFiles \in Nat \ {0} /\ MaxTruncations \in Nat
      /\ 0 \in Offset /\ \A r \in Readers : r \in {"follow", "page", "export"}
  BY DEF LogViewerAssumption, Offset
<1>3. /\ <<>> \in Seq(Piece) /\ <<>> \in Seq(1..MaxLines) /\ Len(<<>>) = 0
  BY EmptySeq
<1>4. content \in Seq(Seq(Piece)) /\ Len(content) = 1 /\ content[1] = <<>>
  BY <1>1, <1>3
<1>5. FileTypes
  BY <1>1, <1>2, <1>4 DEF FileTypes
<1>6. \A k \in 1..Len(content) : content[k] = <<>> /\ Len(content[k]) = 0
  BY <1>3, <1>4
<1>7. Pieces
  BY <1>6 DEF Pieces
<1>8. Halves
  BY <1>1 DEF Halves
<1>9. Whole
  BY <1>6 DEF Whole, Boundary, InOrder
<1>10. ReadTypes
  <2>1. rstep \in StepsOf(reader)
    BY <1>1 DEF StepsOf
  <2>2. stat \in [inode : 0..Len(content), size : Offset]
    BY <1>1, <1>2, <1>4 DEF NoStat
  <2> QED BY <1>1, <1>2, <1>3, <1>4, <2>1, <2>2 DEF ReadTypes
<1>11. Unread
  BY <1>1 DEF Unread
<1>12. FollowInv
  <2>1. Len(out) = 0 /\ Range(out) = {} /\ content[path] = <<>>
    BY <1>1, <1>3, <1>4 DEF Range
  <2>2. Unknown
    BY <1>1, <1>3, <2>1 DEF Unknown, Fresh
  <2>3. Forward
    BY <1>1, <1>3, <2>1 DEF Forward, Later
  <2>4. Exact
    BY <1>1 DEF Exact
  <2> QED BY <2>2, <2>3, <2>4 DEF FollowInv
<1>13. PageInv /\ ExportInv
  BY <1>1 DEF PageInv, ExportInv
<1> QED BY <1>5, <1>7, <1>8, <1>9, <1>10, <1>11, <1>12, <1>13 DEF LogInv, FileInv, ReaderInv

LEMMA LogStepInv ==
    ASSUME LogViewerAssumption, LogInv, [LogNext]_logVars
    PROVE  LogInv'
<1>1. FileInv /\ (Reliable => ReaderInv)
  BY DEF LogInv
<1>2. UNCHANGED reader
  BY DEF LogNext, WriterStep, Reopen, WriteLine, WriteFirst, WriteRest, Rename, Create, Truncate,
         Follow, FollowInode, FollowSize, Poll, DrainStat, Drain, ReadDelta, Paging, TailInode,
         TailRead, CheckInode, OlderRead, Export, Open, ExportChunk, Reads, logVars
<1>3. Reliable' => Reliable
  BY <1>2 DEF Reliable
<1>4. ASSUME NEW w \in Writer, WriterStep(w)
      PROVE  LogInv'
  <2>1. FileInv'
    BY <1>1, <1>4, ReopenFile, WriteLineFile, WriteFirstFile, WriteRestFile DEF WriterStep
  <2>2. Reliable => ReaderInv'
    BY <1>1, <1>4, WriterReader
  <2> QED BY <1>3, <2>1, <2>2 DEF LogInv
<1>5. ASSUME Rename \/ Create \/ Truncate
      PROVE  LogInv'
  <2>1. FileInv'
    <3>1. ASSUME Create PROVE FileInv'
      <4>1. NewFile /\ UNCHANGED <<half, lines, reader, truncated, truncations, fd, emit>>
        BY <3>1 DEF Create, writerVars
      <4>2. fd' \in [Writer -> 1..Len(content')] /\ emit' \in [Writer -> {"idle", "write", "rest"}]
        <5>1. 1..Len(content) \subseteq 1..Len(content')
          BY <1>1, <4>1, NewFileFacts, FileFacts DEF FileInv
        <5> QED BY <1>1, <4>1, <5>1 DEF FileInv, FileTypes
      <4> QED BY <1>1, <4>1, <4>2, NewFileFile
    <3> QED BY <1>1, <1>5, <3>1, RenameFile, TruncateFile
  <2>2. Reliable => ReaderInv'
    BY <1>1, <1>5, RotationReader
  <2> QED BY <1>3, <2>1, <2>2 DEF LogInv
<1>6. ASSUME Follow
      PROVE  LogInv'
  <2>1. Reads
    BY <1>6 DEF Follow, FollowInode, FollowSize, Poll, DrainStat, Drain, ReadDelta
  <2>2. FileInv'
    BY <1>1, <2>1, ReadsFile
  <2>3. Reliable => ReaderInv'
    BY <1>1, <1>6, FollowInodeReader, FollowSizeReader, PollReader, DrainStatReader, DrainReader,
       ReadDeltaReader DEF Follow
  <2> QED BY <1>3, <2>2, <2>3 DEF LogInv
<1>7. ASSUME Paging
      PROVE  LogInv'
  <2>1. Reads
    BY <1>7 DEF Paging, TailInode, TailRead, CheckInode, OlderRead
  <2>2. FileInv'
    BY <1>1, <2>1, ReadsFile
  <2>3. Reliable => ReaderInv'
    BY <1>1, <1>7, TailInodeReader, TailReadReader, CheckInodeReader, OlderReadReader DEF Paging
  <2> QED BY <1>3, <2>2, <2>3 DEF LogInv
<1>8. ASSUME Export
      PROVE  LogInv'
  <2>1. Reads
    BY <1>8 DEF Export, Open, ExportChunk
  <2>2. FileInv'
    BY <1>1, <2>1, ReadsFile
  <2>3. Reliable => ReaderInv'
    BY <1>1, <1>8, OpenReader, ExportChunkReader DEF Export
  <2> QED BY <1>3, <2>2, <2>3 DEF LogInv
<1>9. ASSUME UNCHANGED logVars
      PROVE  LogInv'
  <2>1. /\ Reads /\ SameReader
        /\ UNCHANGED <<path, truncated, disturbed, content, lines>>
    BY <1>9 DEF logVars, Reads, SameReader, readVars, fileVars, writerVars
  <2>2. FileInv'
    BY <1>1, <2>1, ReadsFile
  <2>3. FileTypes
    BY <1>1 DEF FileInv
  <2>4. Reliable => ReaderInv'
    BY <1>1, <2>1, <2>3, IdleAppends, AppendedReader
  <2> QED BY <1>3, <2>2, <2>4 DEF LogInv
<1> QED BY <1>4, <1>5, <1>6, <1>7, <1>8, <1>9 DEF LogNext

\* The inductive invariant holds always, whichever reader the behaviour has.
THEOREM LogInvariant == LogSpec => []LogInv
<1>1. LogInit => LogInv
  BY LogViewerAssumption, LogInitInv
<1>2. LogInv /\ [LogNext]_logVars => LogInv'
  BY LogViewerAssumption, LogStepInv
<1> QED BY <1>1, <1>2, PTL DEF LogSpec

\* Every variable has its type, and no reader gets ahead of all that was written,
\* unless long lines reach a follower in two writes: then its offset runs away.
THEOREM LogTypeCorrect ==
    ASSUME "follow" \notin TornFor
    PROVE  LogSpec => []LogTypeOK
<1>1. LogInv => LogTypeOK
  <2> SUFFICES ASSUME LogInv PROVE LogTypeOK
    OBVIOUS
  <2>1. FileTypes /\ ReadTypes
    BY DEF LogInv, FileInv, ReaderInv, Reliable
  <2>2. Len(content) \in 1..MaxFiles /\ MaxFiles \in Nat /\ lines \in Nat /\ lines <= MaxLines
        /\ MaxLines \in Nat
    BY <2>1, LogViewerAssumption, FileFacts DEF FileTypes, LogViewerAssumption
  <2>3. 1..Len(content) \subseteq Inode /\ 0..Len(content) \subseteq Inode \cup {0}
    BY <2>2 DEF Inode
  <2>4. /\ content \in Seq(Seq(Piece)) /\ path \in 0..Len(content)
        /\ truncated \subseteq Inode /\ truncations \in 0..MaxTruncations
        /\ fd \in [Writer -> Inode] /\ emit \in [Writer -> {"idle", "write", "rest"}]
        /\ half \in [Writer -> 0..MaxLines] /\ lines \in 0..MaxLines
        /\ reader \in Readers /\ disturbed \in {"no", "between", "during"}
    BY <2>1, <2>3 DEF FileTypes
  <2>5. rstep \in {"new", "size", "poll", "drain_stat", "drain", "read", "tail", "older?",
                   "older", "rotated", "stopped", "failed", "export", "closed"}
    BY <2>1 DEF ReadTypes, StepsOf
  <2>6. known \subseteq 1..MaxLines
    BY <2>1, <2>2 DEF ReadTypes
  <2>7. stat \in [inode : Inode \cup {0}, size : Offset]
    BY <2>1, <2>3 DEF ReadTypes
  <2>8. /\ inode \in Inode \cup {0} /\ pos \in Offset /\ start \in Offset
        /\ carry \in Seq(Piece) /\ out \in Seq(1..MaxLines)
    BY <2>1, <2>3 DEF ReadTypes
  <2> QED BY <2>4, <2>5, <2>6, <2>7, <2>8 DEF LogTypeOK
<1> QED BY <1>1, LogInvariant, PTL

\* Whatever is renamed, created late or truncated between any two of its steps, a
\* follower is sent no line that was complete before it came, none twice unless a
\* file is exchanged behind its back, and, while nothing is exchanged, exactly the
\* entries up to its position; an export is its file, line for line.  For followers
\* that long lines reach whole: torn lines break it, as follow_replays_history shows.
THEOREM WhatReadersGetIsExact ==
    ASSUME "follow" \notin TornFor
    PROVE  LogSpec => []ReadersAreExact
<1>1. LogInv => ReadersAreExact
  <2> SUFFICES ASSUME LogInv PROVE ReadersAreExact
    OBVIOUS
  <2>1. ReaderInv
    BY DEF LogInv, Reliable
  <2>2. HistoryNotReplayed
    BY <2>1 DEF ReaderInv, FollowInv, Unknown, HistoryNotReplayed
  <2>3. AtMostOnce
    BY <2>1 DEF ReaderInv, FollowInv, Forward, AtMostOnce
  <2>4. FollowExact
    BY <2>1 DEF ReaderInv, FollowInv, Exact, FollowExact
  <2>5. ExportIsPrefix
    BY <2>1 DEF ReaderInv, ExportInv, ExportIsPrefix
  <2> QED BY <2>2, <2>3, <2>4, <2>5 DEF ReadersAreExact
<1> QED BY <1>1, LogInvariant, PTL

\* The pages of a walk back through the history are one run of the file, with torn
\* lines and lines that are added meanwhile, for every chunk size and page length, and
\* the walk stops only at the beginning or behind a page that holds no entry.
THEOREM HistoryIsWalked == LogSpec => []PagesWalkTheFile
<1>1. LogInv => PagesWalkTheFile
  <2> SUFFICES ASSUME LogInv PROVE PagesWalkTheFile
    OBVIOUS
  <2>1. CASE reader = "page"
    <3>1. PageInv
      BY <2>1 DEF LogInv, ReaderInv, Reliable
    <3> QED BY <2>1, <3>1 DEF PageInv, PagesWalkTheFile, PagesAreContiguous, StopIsTheEnd
  <2>2. CASE reader # "page"
    BY <2>2 DEF PagesWalkTheFile, PagesAreContiguous, StopIsTheEnd
  <2> QED BY <2>1, <2>2
<1> QED BY <1>1, LogInvariant, PTL
================================================================================
