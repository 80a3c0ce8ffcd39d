---------------------------- MODULE ServerProcess ----------------------------
(***************************************************************************)
(* The life of the litestar_backend's server processes: the three commands *)
(* of start_litestar (in the foreground, --nohup, --stop), which know each *)
(* other only through the port, a pidfile and `ss`, and the lifespan that  *)
(* each server runs: migrate, start the background workers, listen, stop.  *)
(*                                                                         *)
(* Every look at the port or the pidfile is a step apart from what is done *)
(* about it. A server is one process here, as with APP_WORKERS=1: uvicorn  *)
(* runs the lifespan's start before it listens and its stop after.         *)
(***************************************************************************)
EXTENDS Integers, Sequences, FiniteSets, Functions

CONSTANTS
    Pid,          \* process ids of servers, each launched once
    Command,      \* runs of start_litestar --stop
    None,         \* no process, no pidfile
    Empty,        \* a pidfile that has been opened and not written yet
    AuthFiles,    \* number of files in migrations/auth
    MediaFiles,   \* number of files in migrations/media
    MaxFaults     \* bound on failures, deaths and recycled process ids

ASSUME ServerProcessAssumption ==
    /\ None \notin Pid /\ Empty \notin Pid /\ None # Empty
    /\ AuthFiles \in Nat \ {0} /\ MediaFiles \in Nat \ {0}
    /\ MaxFaults \in Nat

VARIABLES
    server,     \* where each server process is
    term,       \* the servers that have been sent SIGTERM
    workers,    \* the managers each server has started and not stopped
    plan,       \* the migrations it found to apply
    start,      \* how each server is launched, and how far its launcher is
    linked,     \* launchers whose open file is the one named pidfile
    pidfile,    \* what the pidfile holds
    port,       \* the server that listens
    shards,     \* the servers whose metric shards are in the directory
    lock,       \* the server that holds the migrations' lock
    applied,    \* the migrations executed, in order
    cmd,        \* where each --stop is
    target,     \* the pid it read
    alone,      \* history: no two commands have overlapped, and ss never failed
    unasked,    \* history: some server has ended without being told to
    victims,    \* history: foreign processes that were sent SIGTERM
    faults      \* faults so far

processVars == <<server, term, workers, plan>>
launchVars == <<start, linked, pidfile>>
migrationVars == <<lock, applied>>
stopVars == <<cmd, target, victims>>
historyVars == <<alone, unasked, faults>>
vars == <<processVars, launchVars, migrationVars, stopVars, historyVars, port, shards>>

Manager == {"auth", "db_example", "media"}
Migration ==
    {<<"auth", i>> : i \in 1..AuthFiles} \cup {<<"media", i>> : i \in 1..MediaFiles}
Of(context) == {m \in Migration : m[1] = context}

\* Python's own SIGTERM handler ends the process; later uvicorn's takes note.
Early == {"launched", "checked"}
Locking == {"lock_auth", "lock_media"}
Applying == {"apply_auth", "apply_media"}
Booting == Locking \cup Applying \cup {"start_db_example", "bind"}
Stopping == {"drain", "stop_auth", "stop_db_example", "stop_media", "close"}
AtLock(context) == IF context = "auth" THEN "lock_auth" ELSE "lock_media"
AtApply(context) == IF context = "auth" THEN "apply_auth" ELSE "apply_media"
AtStop(m) ==
    CASE m = "auth" -> "stop_auth"
      [] m = "db_example" -> "stop_db_example"
      [] m = "media" -> "stop_media"
Alive == Early \cup Booting \cup {"serving"} \cup Stopping
Ended == {"gone", "foreign"}

Launching == {"checked", "spawned", "opened"}
LaunchState == {"idle", "refused", "written", "foreground"} \cup Launching
AtWork == {"read", "kill", "invalid", "unlink", "probe"}
CommandState == {"idle", "crashed", "denied", "removed", "reported", "nothing"} \cup AtWork

Goto(p, s) == server' = [server EXCEPT ![p] = s]
StartGoto(p, s) == start' = [start EXCEPT ![p] = s]
CmdGoto(c, s) == cmd' = [cmd EXCEPT ![c] = s]

Fault == faults < MaxFaults /\ faults' = faults + 1

\* A failure of ss reads as a port that is free.
Misread == port # None /\ Fault /\ alone' = FALSE

\* find_pid_on_port: ss lists a listening socket.
Probed(found) ==
    \/ found = (port # None) /\ UNCHANGED <<alone, faults>>
    \/ found = FALSE /\ Misread

\* Some command has begun and is not through: a --stop, or a server on its way up.
Busy ==
    \/ \E c \in Command : cmd[c] \in AtWork
    \/ \E p \in Pid : start[p] \in Launching \/ server[p] \in Early \cup Booting

-----------------------------------------------------------------------------
(* start_litestar --nohup, and in the foreground *)

\* Mutant for OneAtATime: the launcher leaves what it looks at to its child.
LaunchUnchecked(p) ==
    /\ start[p] = "idle"
    /\ StartGoto(p, "checked")
    /\ alone' = (alone /\ ~Busy)
    /\ UNCHANGED <<processVars, linked, pidfile, migrationVars, stopVars, unasked, faults,
                   port, shards>>

\* _exit_if_port_busy and _ensure_runtime_dirs_or_exit of the launcher.
LaunchDetached(p) ==
    /\ start[p] = "idle"
    /\ \/ /\ StartGoto(p, IF port = None THEN "checked" ELSE "refused")
          /\ alone' = (alone /\ ~Busy)
          /\ UNCHANGED faults
       \/ StartGoto(p, "checked") /\ Misread
       \/ StartGoto(p, "refused") /\ Fault /\ alone' = (alone /\ ~Busy)
    /\ UNCHANGED <<processVars, linked, pidfile, migrationVars, stopVars, unasked, port, shards>>

\* The child is a new session that runs the foreground command.
Spawn(p) ==
    /\ start[p] = "checked"
    /\ StartGoto(p, "spawned")
    /\ Goto(p, "launched")
    /\ UNCHANGED <<term, workers, plan, linked, pidfile, migrationVars, stopVars,
                   historyVars, port, shards>>

\* write_text opens the pidfile, which empties it, and then writes.
OpenPidfile(p) ==
    /\ start[p] = "spawned"
    /\ StartGoto(p, "opened")
    /\ pidfile' = Empty
    /\ linked' = linked \cup {p}
    /\ UNCHANGED <<processVars, migrationVars, stopVars, historyVars, port, shards>>

WritePidfile(p) ==
    /\ start[p] = "opened"
    /\ StartGoto(p, "written")
    /\ pidfile' = IF p \in linked THEN p ELSE pidfile
    /\ linked' = linked \ {p}
    /\ UNCHANGED <<processVars, migrationVars, stopVars, historyVars, port, shards>>

LaunchForeground(p) ==
    /\ start[p] = "idle"
    /\ StartGoto(p, "foreground")
    /\ Goto(p, "launched")
    /\ alone' = (alone /\ ~Busy)
    /\ UNCHANGED <<term, workers, plan, linked, pidfile, migrationVars, stopVars,
                   unasked, faults, port, shards>>

-----------------------------------------------------------------------------
(* A server process *)

\* The process ends; what it holds in memory goes with it.
End(p) ==
    /\ Goto(p, "gone")
    /\ workers' = [workers EXCEPT ![p] = {}]
    /\ unasked' = (unasked \/ p \notin term)

\* The lifespan raises: the lock's context manager lets go of it on the way out.
Abort(p) ==
    /\ End(p)
    /\ lock' = IF lock = p THEN None ELSE lock
    /\ UNCHANGED <<term, plan, launchVars, applied, stopVars, alone, port, shards>>

CheckPort(p) ==
    /\ server[p] = "launched"
    /\ \E found \in BOOLEAN :
        /\ Probed(found)
        /\ IF found THEN End(p) ELSE Goto(p, "checked") /\ UNCHANGED <<workers, unasked>>
    /\ UNCHANGED <<term, plan, launchVars, migrationVars, stopVars, port, shards>>

\* bootstrap_multiproc removes every shard; importing the app makes new ones.
Bootstrap(p) ==
    /\ server[p] = "checked"
    /\ Goto(p, "lock_auth")
    /\ shards' = {p}
    /\ UNCHANGED <<term, workers, plan, launchVars, migrationVars, stopVars, historyVars, port>>

\* Mutant for MigratedOnce: the migrations are applied without the lock.
TakeNoLock(p, context) ==
    /\ server[p] = AtLock(context)
    /\ plan' = [plan EXCEPT ![p] = Of(context) \ Range(applied)]
    /\ Goto(p, AtApply(context))
    /\ UNCHANGED <<term, workers, launchVars, migrationVars, stopVars, historyVars, port, shards>>

\* backend.lock(): the two contexts share one lock, and so do all servers. What
\* is left to apply is read under it.
TakeLock(p, context) ==
    /\ server[p] = AtLock(context)
    /\ lock = None
    /\ lock' = p
    /\ plan' = [plan EXCEPT ![p] = Of(context) \ Range(applied)]
    /\ Goto(p, AtApply(context))
    /\ UNCHANGED <<term, workers, launchVars, applied, stopVars, historyVars, port, shards>>

\* Mutant for EveryStartEnds: wait for a dead holder, too.
WaitForTheDead(p) ==
    /\ server[p] \in Locking
    /\ lock \notin {None, p} /\ server[lock] \in Alive
    /\ Abort(p)
    /\ UNCHANGED faults

\* yoyo gives up on a lock that is not freed, also on one nobody will free.
LockTimeout(p) ==
    /\ server[p] \in Locking
    /\ lock \notin {None, p}
    /\ Abort(p)
    /\ UNCHANGED faults

Apply(p) ==
    /\ server[p] \in Applying
    /\ \E m \in plan[p] :
        /\ \A n \in plan[p] : m[2] <= n[2]
        /\ applied' = Append(applied, m)
        /\ plan' = [plan EXCEPT ![p] = @ \ {m}]
    /\ UNCHANGED <<server, term, workers, launchVars, lock, stopVars, historyVars, port, shards>>

\* The migrations are in: the lock is freed and the context's tasks are created.
StartTasks(p, context) ==
    /\ server[p] = AtApply(context)
    /\ plan[p] = {}
    /\ lock' = None
    /\ workers' = [workers EXCEPT ![p] = @ \cup {context}]
    /\ Goto(p, IF context = "auth" THEN "start_db_example" ELSE "bind")
    /\ UNCHANGED <<term, plan, launchVars, applied, stopVars, historyVars, port, shards>>

StartDbExample(p) ==
    /\ server[p] = "start_db_example"
    /\ workers' = [workers EXCEPT ![p] = @ \cup {"db_example"}]
    /\ Goto(p, "lock_media")
    /\ UNCHANGED <<term, plan, launchVars, migrationVars, stopVars, historyVars, port, shards>>

\* Only now does the server listen; if it cannot, the lifespan is stopped again.
Bind(p) ==
    /\ server[p] = "bind"
    /\ \/ port = None /\ port' = p /\ Goto(p, "serving")
       \/ port # None /\ Goto(p, "stop_auth") /\ UNCHANGED port
    /\ UNCHANGED <<term, workers, plan, launchVars, migrationVars, stopVars, historyVars, shards>>

\* SIGTERM: stop listening at once, then wait for the requests in flight.
Shutdown(p) ==
    /\ server[p] = "serving"
    /\ p \in term
    /\ port' = None
    /\ Goto(p, "drain")
    /\ UNCHANGED <<term, workers, plan, launchVars, migrationVars, stopVars, historyVars, shards>>

Drained(p) ==
    /\ server[p] = "drain"
    /\ Goto(p, "stop_auth")
    /\ UNCHANGED <<term, workers, plan, launchVars, migrationVars, stopVars, historyVars,
                   port, shards>>

AfterStop(m) ==
    CASE m = "auth" -> AtStop("db_example")
      [] m = "db_example" -> AtStop("media")
      [] m = "media" -> "close"

\* Each manager is stopped in a try of its own: a failure is logged and passed over.
StopManager(p, m) ==
    /\ server[p] = AtStop(m)
    /\ \/ workers' = [workers EXCEPT ![p] = @ \ {m}] /\ UNCHANGED faults
       \/ Fault /\ UNCHANGED workers
    /\ Goto(p, AfterStop(m))
    /\ UNCHANGED <<term, plan, launchVars, migrationVars, stopVars, alone, unasked, port, shards>>

Close(p) ==
    /\ server[p] = "close"
    /\ End(p)
    /\ UNCHANGED <<term, plan, launchVars, migrationVars, stopVars, alone, faults, port, shards>>

ServerStep(p) ==
    \/ CheckPort(p)
    \/ Bootstrap(p)
    \/ \E context \in {"auth", "media"} : TakeLock(p, context) \/ StartTasks(p, context)
    \/ LockTimeout(p)
    \/ Apply(p)
    \/ StartDbExample(p)
    \/ Bind(p)
    \/ Shutdown(p)
    \/ Drained(p)
    \/ \E m \in Manager : StopManager(p, m)
    \/ Close(p)

\* The runtime directories cannot be made, a migration fails, two servers create
\* the schema at once: the command exits and nothing that was started is stopped.
StartFails(p) ==
    /\ server[p] \in {"checked", "start_db_example"} \cup Locking \cup Applying
    /\ Fault
    /\ Abort(p)

\* SIGKILL or a crash: the row that is the lock stays in its table.
Die(p) ==
    /\ server[p] \in Alive
    /\ Fault
    /\ End(p)
    /\ port' = IF port = p THEN None ELSE port
    /\ UNCHANGED <<term, plan, launchVars, migrationVars, stopVars, alone, shards>>

\* The kernel gives the pid of a server that is gone to some other process.
Recycle(p) ==
    /\ server[p] = "gone"
    /\ Fault
    /\ Goto(p, "foreign")
    /\ UNCHANGED <<term, workers, plan, launchVars, migrationVars, stopVars, alone, unasked,
                   port, shards>>

-----------------------------------------------------------------------------
(* start_litestar --stop *)

LookForPidfile(c) ==
    /\ cmd[c] = "idle"
    /\ CmdGoto(c, IF pidfile # None THEN "read" ELSE "probe")
    /\ alone' = (alone /\ ~Busy)
    /\ UNCHANGED <<processVars, launchVars, migrationVars, target, victims, unasked, faults,
                   port, shards>>

\* Mutant for TypeOK: no ValueError, an empty pidfile is taken for a pid.
ReadAnything(c) ==
    /\ cmd[c] = "read"
    /\ \/ pidfile = None /\ CmdGoto(c, "crashed") /\ UNCHANGED target
       \/ pidfile # None /\ CmdGoto(c, "kill") /\ target' = [target EXCEPT ![c] = pidfile]
    /\ UNCHANGED <<processVars, launchVars, migrationVars, victims, historyVars, port, shards>>

\* An empty file is not an int; a file that is gone by now ends in a traceback.
ReadPidfile(c) ==
    /\ cmd[c] = "read"
    /\ \/ pidfile = None /\ CmdGoto(c, "crashed") /\ UNCHANGED target
       \/ pidfile = Empty /\ CmdGoto(c, "invalid") /\ UNCHANGED target
       \/ pidfile \in Pid /\ CmdGoto(c, "kill") /\ target' = [target EXCEPT ![c] = pidfile]
    /\ UNCHANGED <<processVars, launchVars, migrationVars, victims, historyVars, port, shards>>

\* The signal reaches whatever process has the pid now.
Signal(p) ==
    \/ /\ server[p] \in Early
       /\ Goto(p, "gone")
       /\ term' = term \cup {p}
       /\ UNCHANGED victims
    \/ /\ server[p] \in Alive \ Early
       /\ term' = term \cup {p}
       /\ UNCHANGED <<server, victims>>
    \/ /\ server[p] = "foreign"
       /\ victims' = victims \cup {p}
       /\ UNCHANGED <<server, term>>

Kill(c) ==
    /\ cmd[c] = "kill"
    /\ LET p == target[c] IN
       \/ Signal(p) /\ CmdGoto(c, "unlink")
       \/ server[p] = "gone" /\ CmdGoto(c, "unlink") /\ UNCHANGED <<server, term, victims>>
       \/ server[p] = "foreign" /\ CmdGoto(c, "denied") /\ UNCHANGED <<server, term, victims>>
    /\ UNCHANGED <<workers, plan, launchVars, migrationVars, target, historyVars, port, shards>>

\* unlink(missing_ok): whatever the pidfile holds by now is removed.
Unlink(c) ==
    /\ cmd[c] \in {"unlink", "invalid"}
    /\ CmdGoto(c, "removed")
    /\ pidfile' = None
    /\ linked' = {}
    /\ UNCHANGED <<processVars, start, migrationVars, target, victims, historyVars, port, shards>>

ProbePort(c) ==
    /\ cmd[c] = "probe"
    /\ \E found \in BOOLEAN : Probed(found) /\ CmdGoto(c, IF found THEN "reported" ELSE "nothing")
    /\ UNCHANGED <<processVars, launchVars, migrationVars, target, victims, unasked, port, shards>>

StopStep(c) == ReadPidfile(c) \/ Kill(c) \/ Unlink(c) \/ ProbePort(c)

-----------------------------------------------------------------------------
(* Specification *)

Init ==
    /\ server = [p \in Pid |-> "none"]
    /\ term = {}
    /\ workers = [p \in Pid |-> {}]
    /\ plan = [p \in Pid |-> {}]
    /\ start = [p \in Pid |-> "idle"]
    /\ linked = {}
    /\ pidfile = None
    /\ port = None
    /\ shards = {}
    /\ lock = None
    /\ applied = << >>
    /\ cmd = [c \in Command |-> "idle"]
    /\ target = [c \in Command |-> None]
    /\ alone = TRUE
    /\ unasked = FALSE
    /\ victims = {}
    /\ faults = 0

LaunchStep(p) == Spawn(p) \/ OpenPidfile(p) \/ WritePidfile(p)

Next ==
    \/ \E p \in Pid : LaunchDetached(p) \/ LaunchForeground(p) \/ LaunchStep(p)
    \/ \E p \in Pid : ServerStep(p) \/ StartFails(p) \/ Die(p) \/ Recycle(p)
    \/ \E c \in Command : LookForPidfile(c) \/ StopStep(c)

Spec == Init /\ [][Next]_vars

\* A process that has something to do does it.
Fairness ==
    /\ \A p \in Pid : WF_vars(LaunchStep(p)) /\ WF_vars(ServerStep(p))
    /\ \A c \in Command : WF_vars(StopStep(c))

FairSpec == Spec /\ Fairness

-----------------------------------------------------------------------------
(* Properties *)

\* Every variable ranges over what the code can put there; the port, the lock and
\* the workers belong to servers that are alive and far enough along.
TypeOK ==
    /\ server \in [Pid -> {"none"} \cup Alive \cup Ended]
    /\ term \in SUBSET Pid
    /\ workers \in [Pid -> SUBSET Manager]
    /\ plan \in [Pid -> SUBSET Migration]
    /\ start \in [Pid -> LaunchState]
    /\ linked \in SUBSET Pid
    /\ pidfile \in Pid \cup {None, Empty}
    /\ port \in Pid \cup {None}
    /\ shards \in SUBSET Pid
    /\ lock \in Pid \cup {None}
    /\ applied \in Seq(Migration)
    /\ cmd \in [Command -> CommandState]
    /\ target \in [Command -> Pid \cup {None}]
    /\ alone \in BOOLEAN /\ unasked \in BOOLEAN
    /\ victims \in SUBSET Pid
    /\ faults \in 0..MaxFaults

\* However many servers start at once or die half way, no migration is executed
\* twice, each context's are executed in order, and who starts a context's
\* workers or listens has the tables it needs.
MigratedOnce ==
    /\ \A i, j \in 1..Len(applied) :
        /\ applied[i] = applied[j] => i = j
        /\ applied[i][1] = applied[j][1] /\ applied[i][2] < applied[j][2] => i < j
    /\ \A p \in Pid : \A context \in workers[p] \ {"db_example"} :
        Of(context) \subseteq Range(applied)

\* The pidfile names the server that --nohup started, until it is told to stop.
PidfileNamesTheServer ==
    \A p \in Pid : port = p /\ start[p] = "written" => pidfile = p \/ p \in term

\* A start that is refused or fails leaves the metrics of the running server alone.
ShardsSurvive == port # None => port \in shards

\* --stop signals nothing but servers as long as servers end by --stop only.
OnlyServersAreSignalled == ~unasked => victims = {}

\* Commands given one after the other keep the pidfile, the port and the metrics
\* of the server in line with each other, through refused starts and crashes;
\* none of the three holds when commands overlap.
OneAtATime ==
    alone => PidfileNamesTheServer /\ ShardsSurvive /\ OnlyServersAreSignalled

\* A launched server listens or exits, whoever else starts, also when a server
\* died with the migrations' lock; one that is told to stop is gone in the end.
EveryStartEnds ==
    \A p \in Pid :
        /\ server[p] = "launched" ~> server[p] \in {"serving"} \cup Ended
        /\ p \in term ~> server[p] \in Ended

=============================================================================
