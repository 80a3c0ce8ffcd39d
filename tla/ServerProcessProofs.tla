------------------------- MODULE ServerProcessProofs -------------------------
(***************************************************************************)
(* What the server processes promise, proved for any numbers of servers,   *)
(* commands, migrations and faults.  No migration is executed twice, each  *)
(* context's are executed in order, and who starts a context's workers has *)
(* its tables.  Commands given one after the other keep the pidfile, the   *)
(* port and the metrics of the server in line with each other.             *)
(***************************************************************************)
EXTENDS ServerProcess, SequenceTheorems, TLAPS

-----------------------------------------------------------------------------
(* Facts about migrations *)

LEMMA MigrationFacts ==
    ASSUME ServerProcessAssumption, NEW m \in Migration
    PROVE  /\ m[1] \in {"auth", "media"} /\ m[2] \in Nat
           /\ \A n \in Migration : m[1] = n[1] /\ m[2] = n[2] => m = n
<1>1. ASSUME NEW n \in Migration
      PROVE  n[1] \in {"auth", "media"} /\ n[2] \in Nat /\ n = <<n[1], n[2]>>
  <2>1. CASE n \in {<<"auth", i>> : i \in 1..AuthFiles}
    BY <2>1 DEF ServerProcessAssumption
  <2>2. CASE n \in {<<"media", i>> : i \in 1..MediaFiles}
    BY <2>2 DEF ServerProcessAssumption
  <2> QED BY <2>1, <2>2 DEF Migration
<1>2. ASSUME NEW n \in Migration, m[1] = n[1], m[2] = n[2] PROVE m = n
  <2>1. m = <<m[1], m[2]>> /\ n = <<n[1], n[2]>>
    BY <1>1
  <2> QED BY <1>2, <2>1
<1> QED BY <1>1, <1>2

\* What executing one more migration adds.
LEMMA AppendFacts ==
    ASSUME NEW s \in Seq(Migration), NEW m \in Migration, NEW t, t = Append(s, m)
    PROVE  /\ t \in Seq(Migration) /\ Len(t) = Len(s) + 1 /\ Len(s) \in Nat
           /\ \A i \in 1..Len(s) : t[i] = s[i]
           /\ t[Len(s) + 1] = m
           /\ Range(t) = Range(s) \cup {m}
<1>1. /\ t \in Seq(Migration) /\ Len(t) = Len(s) + 1 /\ Len(s) \in Nat
      /\ \A i \in 1..Len(s) : t[i] = s[i]
      /\ t[Len(s) + 1] = m
  BY AppendProperties
<1>2. DOMAIN t = DOMAIN s \cup {Len(s) + 1} /\ DOMAIN s = 1..Len(s)
  <2>1. DOMAIN t = 1..(Len(s) + 1) /\ DOMAIN s = 1..Len(s)
    BY <1>1
  <2> QED BY <1>1, <2>1
<1>3. Range(t) = Range(s) \cup {m}
  BY <1>1, <1>2 DEF Range
<1> QED BY <1>1, <1>3

LEMMA RangeFacts ==
    ASSUME NEW s \in Seq(Migration)
    PROVE  /\ Range(s) \subseteq Migration
           /\ \A m \in Range(s) : \E i \in 1..Len(s) : s[i] = m
           /\ \A i \in 1..Len(s) : s[i] \in Range(s)
BY DEF Range

-----------------------------------------------------------------------------
(* Type correctness *)

ServerState == {"none"} \cup Alive \cup Ended

ProcessTypes ==
    /\ server \in [Pid -> ServerState]
    /\ term \in SUBSET Pid
    /\ workers \in [Pid -> SUBSET Manager]
    /\ plan \in [Pid -> SUBSET Migration]

LaunchTypes ==
    /\ start \in [Pid -> LaunchState]
    /\ linked \in SUBSET Pid
    /\ pidfile \in Pid \cup {None, Empty}

MigrationTypes == lock \in Pid \cup {None} /\ applied \in Seq(Migration)

\* Who is about to signal has read a pid.
StopTypes ==
    /\ cmd \in [Command -> CommandState]
    /\ target \in [Command -> Pid \cup {None}]
    /\ victims \in SUBSET Pid
    /\ \A c \in Command : cmd[c] = "kill" => target[c] \in Pid

HistoryTypes == alone \in BOOLEAN /\ unasked \in BOOLEAN /\ faults \in 0..MaxFaults

PortTypes == port \in Pid \cup {None}

ShardTypes == shards \in SUBSET Pid

TypeInv == /\ ProcessTypes /\ LaunchTypes /\ MigrationTypes /\ StopTypes
           /\ HistoryTypes /\ PortTypes /\ ShardTypes

LEMMA TypeParts == TypeInv => TypeOK
BY DEF TypeInv, TypeOK, ServerState, ProcessTypes, LaunchTypes, MigrationTypes, StopTypes,
       HistoryTypes, PortTypes, ShardTypes

LEMMA FaultTypes ==
    ASSUME HistoryTypes, ServerProcessAssumption, Fault
    PROVE  faults' \in 0..MaxFaults
BY DEF HistoryTypes, ServerProcessAssumption, Fault

\* A server that ends, for whatever reason.
LEMMA EndTypes ==
    ASSUME ProcessTypes, NEW p \in Pid, End(p), UNCHANGED <<term, plan>>, unasked \in BOOLEAN
    PROVE  ProcessTypes' /\ unasked' \in BOOLEAN
BY DEF ProcessTypes, End, Goto, ServerState, Ended

\* A server that goes on to one of its states.
LEMMA GotoTypes ==
    ASSUME ProcessTypes, NEW p \in Pid, NEW s \in ServerState, Goto(p, s),
           UNCHANGED <<term, workers, plan>>
    PROVE  ProcessTypes'
BY DEF ProcessTypes, Goto

LEMMA ProbedTypes ==
    ASSUME HistoryTypes, ServerProcessAssumption, NEW found, Probed(found)
    PROVE  alone' \in BOOLEAN /\ faults' \in 0..MaxFaults
<1>1. CASE UNCHANGED <<alone, faults>>
  BY <1>1 DEF HistoryTypes
<1>2. CASE Fault /\ alone' = FALSE
  BY <1>2, FaultTypes
<1> QED BY <1>1, <1>2 DEF Probed, Misread

LEMMA ServerTypeStep ==
    ASSUME TypeInv, ServerProcessAssumption, [Next]_vars
    PROVE  TypeInv'
<1> USE ServerProcessAssumption
<1>1. /\ ProcessTypes /\ LaunchTypes /\ MigrationTypes /\ StopTypes
      /\ HistoryTypes /\ PortTypes /\ ShardTypes
  BY DEF TypeInv
\* What an action leaves alone keeps its type.
<1>2. UNCHANGED <<server, term, workers, plan>> => ProcessTypes'
  BY <1>1 DEF ProcessTypes
<1>3. UNCHANGED <<start, linked, pidfile>> => LaunchTypes'
  BY <1>1 DEF LaunchTypes
<1>4. UNCHANGED <<lock, applied>> => MigrationTypes'
  BY <1>1 DEF MigrationTypes
<1>5. UNCHANGED <<cmd, target, victims>> => StopTypes'
  BY <1>1 DEF StopTypes
<1>6. UNCHANGED <<alone, unasked, faults>> => HistoryTypes'
  BY <1>1 DEF HistoryTypes
<1>7. (UNCHANGED port => PortTypes') /\ (UNCHANGED shards => ShardTypes')
  BY <1>1 DEF PortTypes, ShardTypes
<1> USE DEF processVars, launchVars, migrationVars, stopVars, historyVars
<1>8. ASSUME NEW p \in Pid, LaunchDetached(p) PROVE TypeInv'
  <2>1. /\ UNCHANGED <<server, term, workers, plan>> /\ UNCHANGED <<lock, applied>>
        /\ UNCHANGED <<cmd, target, victims>> /\ UNCHANGED port /\ UNCHANGED shards
    BY <1>8 DEF LaunchDetached
  <2>2. LaunchTypes'
    BY <1>1, <1>8 DEF LaunchDetached, LaunchTypes, StartGoto, LaunchState, Launching
  <2>3. HistoryTypes'
    BY <1>1, <1>8, FaultTypes DEF LaunchDetached, Misread, HistoryTypes
  <2> QED BY <1>2, <1>4, <1>5, <1>7, <2>1, <2>2, <2>3 DEF TypeInv
<1>9. ASSUME NEW p \in Pid, Spawn(p) PROVE TypeInv'
  <2>1. /\ UNCHANGED <<lock, applied>> /\ UNCHANGED <<cmd, target, victims>>
        /\ UNCHANGED <<alone, unasked, faults>> /\ UNCHANGED port /\ UNCHANGED shards
    BY <1>9 DEF Spawn
  <2>2. ProcessTypes'
    <3>1. PICK s \in ServerState : Goto(p, s)
      BY <1>9 DEF Spawn, ServerState, Alive, Early, Booting, Locking, Applying, Stopping, Ended
    <3>2. UNCHANGED <<term, workers, plan>>
      BY <1>9 DEF Spawn
    <3> QED BY <1>1, <3>1, <3>2, GotoTypes
  <2>3. LaunchTypes'
    BY <1>1, <1>9 DEF Spawn, LaunchTypes, StartGoto, LaunchState, Launching
  <2> QED BY <1>4, <1>5, <1>6, <1>7, <2>1, <2>2, <2>3 DEF TypeInv
<1>10. ASSUME NEW p \in Pid, OpenPidfile(p) PROVE TypeInv'
  <2>1. /\ UNCHANGED <<server, term, workers, plan>> /\ UNCHANGED <<lock, applied>>
        /\ UNCHANGED <<cmd, target, victims>> /\ UNCHANGED <<alone, unasked, faults>>
        /\ UNCHANGED port /\ UNCHANGED shards
    BY <1>10 DEF OpenPidfile
  <2>2. LaunchTypes'
    BY <1>1, <1>10 DEF OpenPidfile, LaunchTypes, StartGoto, LaunchState, Launching
  <2> QED BY <1>2, <1>4, <1>5, <1>6, <1>7, <2>1, <2>2 DEF TypeInv
<1>11. ASSUME NEW p \in Pid, WritePidfile(p) PROVE TypeInv'
  <2>1. /\ UNCHANGED <<server, term, workers, plan>> /\ UNCHANGED <<lock, applied>>
        /\ UNCHANGED <<cmd, target, victims>> /\ UNCHANGED <<alone, unasked, faults>>
        /\ UNCHANGED port /\ UNCHANGED shards
    BY <1>11 DEF WritePidfile
  <2>2. LaunchTypes'
    BY <1>1, <1>11 DEF WritePidfile, LaunchTypes, StartGoto, LaunchState, Launching
  <2> QED BY <1>2, <1>4, <1>5, <1>6, <1>7, <2>1, <2>2 DEF TypeInv
<1>12. ASSUME NEW p \in Pid, LaunchForeground(p) PROVE TypeInv'
  <2>1. /\ UNCHANGED <<lock, applied>> /\ UNCHANGED <<cmd, target, victims>> /\ UNCHANGED port
        /\ UNCHANGED shards
    BY <1>12 DEF LaunchForeground
  <2>2. ProcessTypes'
    <3>1. PICK s \in ServerState : Goto(p, s)
      BY <1>12 DEF LaunchForeground, ServerState, Alive, Early, Booting, Locking, Applying,
                   Stopping, Ended
    <3>2. UNCHANGED <<term, workers, plan>>
      BY <1>12 DEF LaunchForeground
    <3> QED BY <1>1, <3>1, <3>2, GotoTypes
  <2>3. LaunchTypes'
    BY <1>1, <1>12 DEF LaunchForeground, LaunchTypes, StartGoto, LaunchState, Launching
  <2>4. HistoryTypes'
    BY <1>1, <1>12 DEF LaunchForeground, HistoryTypes
  <2> QED BY <1>4, <1>5, <1>7, <2>1, <2>2, <2>3, <2>4 DEF TypeInv
<1>13. ASSUME NEW p \in Pid, CheckPort(p) PROVE TypeInv'
  <2>1. /\ UNCHANGED <<start, linked, pidfile>> /\ UNCHANGED <<lock, applied>>
        /\ UNCHANGED <<cmd, target, victims>> /\ UNCHANGED port /\ UNCHANGED shards
    BY <1>13 DEF CheckPort
  <2>2. ProcessTypes'
    <3>1. CASE End(p)
      <4>1. UNCHANGED <<term, plan>> /\ unasked \in BOOLEAN
        BY <1>1, <1>13 DEF CheckPort, HistoryTypes
      <4> QED BY <1>1, <3>1, <4>1, EndTypes
    <3>2. CASE Goto(p, "checked") /\ UNCHANGED workers
      <4>1. UNCHANGED <<term, workers, plan>> /\ "checked" \in ServerState
        BY <3>2, <1>13 DEF CheckPort, ServerState, Alive, Early, Booting, Locking, Applying,
                           Stopping, Ended
      <4> QED BY <1>1, <3>2, <4>1, GotoTypes
    <3> QED BY <1>13, <3>1, <3>2 DEF CheckPort
  <2>3. HistoryTypes'
    <3>1. alone' \in BOOLEAN /\ faults' \in 0..MaxFaults
      BY <1>1, <1>13, ProbedTypes DEF CheckPort
    <3>2. unasked' \in BOOLEAN
      <4>1. unasked \in BOOLEAN
        BY <1>1 DEF HistoryTypes
      <4> QED BY <4>1, <1>13 DEF CheckPort, End
    <3> QED BY <3>1, <3>2 DEF HistoryTypes
  <2> QED BY <1>3, <1>4, <1>5, <1>7, <2>1, <2>2, <2>3 DEF TypeInv
<1>14. ASSUME NEW p \in Pid, Bootstrap(p) PROVE TypeInv'
  <2>1. /\ UNCHANGED <<start, linked, pidfile>> /\ UNCHANGED <<lock, applied>>
        /\ UNCHANGED <<cmd, target, victims>> /\ UNCHANGED <<alone, unasked, faults>>
        /\ UNCHANGED port
    BY <1>14 DEF Bootstrap
  <2>2. ProcessTypes'
    <3>1. PICK s \in ServerState : Goto(p, s)
      BY <1>14 DEF Bootstrap, ServerState, Alive, Early, Booting, Locking, Applying, Stopping,
                   Ended
    <3>2. UNCHANGED <<term, workers, plan>>
      BY <1>14 DEF Bootstrap
    <3> QED BY <1>1, <3>1, <3>2, GotoTypes
  <2>3. ShardTypes'
    BY <1>1, <1>14 DEF Bootstrap, ShardTypes
  <2> QED BY <1>3, <1>4, <1>5, <1>6, <1>7, <2>1, <2>2, <2>3 DEF TypeInv
<1>15. ASSUME NEW p \in Pid, NEW context \in {"auth", "media"}, TakeLock(p, context)
       PROVE  TypeInv'
  <2>1. /\ UNCHANGED <<start, linked, pidfile>> /\ UNCHANGED <<cmd, target, victims>>
        /\ UNCHANGED <<alone, unasked, faults>> /\ UNCHANGED port /\ UNCHANGED shards
    BY <1>15 DEF TakeLock
  <2>2. ProcessTypes'
    <3>1. server' = [server EXCEPT ![p] = AtApply(context)] /\ AtApply(context) \in ServerState
      BY <1>15 DEF TakeLock, Goto, AtApply, ServerState, Alive, Early, Booting, Locking,
                   Applying, Stopping, Ended
    <3>2. plan' = [plan EXCEPT ![p] = Of(context) \ Range(applied)] /\ UNCHANGED <<term, workers>>
      BY <1>15 DEF TakeLock
    <3>3. Of(context) \ Range(applied) \in SUBSET Migration
      BY DEF Of
    <3> QED BY <1>1, <3>1, <3>2, <3>3 DEF ProcessTypes
  <2>3. MigrationTypes'
    BY <1>1, <1>15 DEF TakeLock, MigrationTypes
  <2> QED BY <1>3, <1>5, <1>6, <1>7, <2>1, <2>2, <2>3 DEF TypeInv
<1>16. ASSUME NEW p \in Pid, LockTimeout(p) PROVE TypeInv'
  <2>1. /\ UNCHANGED <<start, linked, pidfile>> /\ UNCHANGED <<cmd, target, victims>>
        /\ UNCHANGED port /\ UNCHANGED shards
    BY <1>16 DEF LockTimeout, Abort
  <2>2. ProcessTypes'
    <3>1. End(p) /\ UNCHANGED <<term, plan>> /\ unasked \in BOOLEAN
      BY <1>1, <1>16 DEF LockTimeout, Abort, HistoryTypes
    <3> QED BY <1>1, <3>1, EndTypes
  <2>3. HistoryTypes'
    <3>1. End(p) /\ UNCHANGED <<term, plan, alone, faults>> /\ unasked \in BOOLEAN
      BY <1>1, <1>16 DEF LockTimeout, Abort, HistoryTypes
    <3>2. unasked' \in BOOLEAN
      BY <1>1, <3>1, EndTypes
    <3> QED BY <1>1, <3>1, <3>2 DEF HistoryTypes
  <2>4. MigrationTypes'
    BY <1>1, <1>16 DEF LockTimeout, Abort, MigrationTypes
  <2> QED BY <1>3, <1>5, <1>7, <2>1, <2>2, <2>3, <2>4 DEF TypeInv
<1>17. ASSUME NEW p \in Pid, Apply(p) PROVE TypeInv'
  <2>1. /\ UNCHANGED <<start, linked, pidfile>> /\ UNCHANGED <<cmd, target, victims>>
        /\ UNCHANGED <<alone, unasked, faults>> /\ UNCHANGED port /\ UNCHANGED shards
    BY <1>17 DEF Apply
  <2>2. ProcessTypes'
    BY <1>1, <1>17 DEF Apply, ProcessTypes
  <2>3. MigrationTypes'
    <3>1. PICK m \in Migration : applied' = Append(applied, m)
      BY <1>1, <1>17 DEF Apply, ProcessTypes
    <3> QED BY <1>1, <1>17, <3>1, AppendFacts DEF MigrationTypes, Apply
  <2> QED BY <1>3, <1>5, <1>6, <1>7, <2>1, <2>2, <2>3 DEF TypeInv
<1>18. ASSUME NEW p \in Pid, NEW context \in {"auth", "media"}, StartTasks(p, context)
       PROVE  TypeInv'
  <2>1. /\ UNCHANGED <<start, linked, pidfile>> /\ UNCHANGED <<cmd, target, victims>>
        /\ UNCHANGED <<alone, unasked, faults>> /\ UNCHANGED port /\ UNCHANGED shards
    BY <1>18 DEF StartTasks
  <2>2. ProcessTypes'
    <3>1. PICK s \in ServerState : Goto(p, s)
      BY <1>18 DEF StartTasks, ServerState, Alive, Early, Booting, Locking, Applying, Stopping,
                   Ended
    <3>2. workers' = [workers EXCEPT ![p] = @ \cup {context}] /\ UNCHANGED <<term, plan>>
      BY <1>18 DEF StartTasks
    <3> QED BY <1>1, <3>1, <3>2 DEF ProcessTypes, Goto, Manager
  <2>3. MigrationTypes'
    BY <1>1, <1>18 DEF StartTasks, MigrationTypes
  <2> QED BY <1>3, <1>5, <1>6, <1>7, <2>1, <2>2, <2>3 DEF TypeInv
<1>19. ASSUME NEW p \in Pid, StartDbExample(p) PROVE TypeInv'
  <2>1. /\ UNCHANGED <<start, linked, pidfile>> /\ UNCHANGED <<lock, applied>>
        /\ UNCHANGED <<cmd, target, victims>> /\ UNCHANGED <<alone, unasked, faults>>
        /\ UNCHANGED port /\ UNCHANGED shards
    BY <1>19 DEF StartDbExample
  <2>2. ProcessTypes'
    <3>1. PICK s \in ServerState : Goto(p, s)
      BY <1>19 DEF StartDbExample, ServerState, Alive, Early, Booting, Locking, Applying,
                   Stopping, Ended
    <3> QED BY <1>1, <1>19, <3>1 DEF StartDbExample, ProcessTypes, Goto, Manager
  <2> QED BY <1>3, <1>4, <1>5, <1>6, <1>7, <2>1, <2>2 DEF TypeInv
<1>20. ASSUME NEW p \in Pid, Bind(p) PROVE TypeInv'
  <2>1. /\ UNCHANGED <<start, linked, pidfile>> /\ UNCHANGED <<lock, applied>>
        /\ UNCHANGED <<cmd, target, victims>> /\ UNCHANGED <<alone, unasked, faults>>
        /\ UNCHANGED shards
    BY <1>20 DEF Bind
  <2>2. ProcessTypes'
    <3>1. PICK s \in ServerState : Goto(p, s)
      BY <1>20 DEF Bind, ServerState, Alive, Early, Booting, Locking, Applying, Stopping, Ended
    <3>2. UNCHANGED <<term, workers, plan>>
      BY <1>20 DEF Bind
    <3> QED BY <1>1, <3>1, <3>2, GotoTypes
  <2>3. PortTypes'
    BY <1>1, <1>20 DEF Bind, PortTypes
  <2> QED BY <1>3, <1>4, <1>5, <1>6, <1>7, <2>1, <2>2, <2>3 DEF TypeInv
<1>21. ASSUME NEW p \in Pid, Shutdown(p) PROVE TypeInv'
  <2>1. /\ UNCHANGED <<start, linked, pidfile>> /\ UNCHANGED <<lock, applied>>
        /\ UNCHANGED <<cmd, target, victims>> /\ UNCHANGED <<alone, unasked, faults>>
        /\ UNCHANGED shards
    BY <1>21 DEF Shutdown
  <2>2. ProcessTypes'
    <3>1. PICK s \in ServerState : Goto(p, s)
      BY <1>21 DEF Shutdown, ServerState, Alive, Early, Booting, Locking, Applying, Stopping,
                   Ended
    <3>2. UNCHANGED <<term, workers, plan>>
      BY <1>21 DEF Shutdown
    <3> QED BY <1>1, <3>1, <3>2, GotoTypes
  <2>3. PortTypes'
    BY <1>1, <1>21 DEF Shutdown, PortTypes
  <2> QED BY <1>3, <1>4, <1>5, <1>6, <1>7, <2>1, <2>2, <2>3 DEF TypeInv
<1>22. ASSUME NEW p \in Pid, Drained(p) PROVE TypeInv'
  <2>1. /\ UNCHANGED <<start, linked, pidfile>> /\ UNCHANGED <<lock, applied>>
        /\ UNCHANGED <<cmd, target, victims>> /\ UNCHANGED <<alone, unasked, faults>>
        /\ UNCHANGED port /\ UNCHANGED shards
    BY <1>22 DEF Drained
  <2>2. ProcessTypes'
    <3>1. PICK s \in ServerState : Goto(p, s)
      BY <1>22 DEF Drained, ServerState, Alive, Early, Booting, Locking, Applying, Stopping, Ended
    <3>2. UNCHANGED <<term, workers, plan>>
      BY <1>22 DEF Drained
    <3> QED BY <1>1, <3>1, <3>2, GotoTypes
  <2> QED BY <1>3, <1>4, <1>5, <1>6, <1>7, <2>1, <2>2 DEF TypeInv
<1>23. ASSUME NEW p \in Pid, NEW m \in Manager, StopManager(p, m) PROVE TypeInv'
  <2>1. /\ UNCHANGED <<start, linked, pidfile>> /\ UNCHANGED <<lock, applied>>
        /\ UNCHANGED <<cmd, target, victims>> /\ UNCHANGED port /\ UNCHANGED shards
    BY <1>23 DEF StopManager
  <2>2. ProcessTypes'
    <3>1. PICK s \in ServerState : Goto(p, s)
      BY <1>23 DEF StopManager, AfterStop, AtStop, Manager, ServerState, Alive, Early, Booting,
                   Locking, Applying, Stopping, Ended
    <3>2. workers' \in [Pid -> SUBSET Manager] /\ UNCHANGED <<term, plan>>
      BY <1>1, <1>23 DEF StopManager, ProcessTypes
    <3> QED BY <1>1, <3>1, <3>2 DEF ProcessTypes, Goto
  <2>3. HistoryTypes'
    <3>1. UNCHANGED <<alone, unasked>>
      BY <1>23 DEF StopManager
    <3>2. CASE Fault
      BY <1>1, <3>1, <3>2, FaultTypes DEF HistoryTypes
    <3>3. CASE UNCHANGED faults
      BY <1>1, <3>1, <3>3 DEF HistoryTypes
    <3> QED BY <1>23, <3>2, <3>3 DEF StopManager
  <2> QED BY <1>3, <1>4, <1>5, <1>7, <2>1, <2>2, <2>3 DEF TypeInv
<1>24. ASSUME NEW p \in Pid, Close(p) PROVE TypeInv'
  <2>1. /\ UNCHANGED <<start, linked, pidfile>> /\ UNCHANGED <<lock, applied>>
        /\ UNCHANGED <<cmd, target, victims>> /\ UNCHANGED port /\ UNCHANGED shards
    BY <1>24 DEF Close
  <2>2. ProcessTypes'
    <3>1. End(p) /\ UNCHANGED <<term, plan>> /\ unasked \in BOOLEAN
      BY <1>1, <1>24 DEF Close, HistoryTypes
    <3> QED BY <1>1, <3>1, EndTypes
  <2>3. HistoryTypes'
    <3>1. End(p) /\ UNCHANGED <<term, plan, alone, faults>> /\ unasked \in BOOLEAN
      BY <1>1, <1>24 DEF Close, HistoryTypes
    <3>2. unasked' \in BOOLEAN
      BY <1>1, <3>1, EndTypes
    <3> QED BY <1>1, <3>1, <3>2 DEF HistoryTypes
  <2> QED BY <1>3, <1>4, <1>5, <1>7, <2>1, <2>2, <2>3 DEF TypeInv
<1>25. ASSUME NEW p \in Pid, StartFails(p) PROVE TypeInv'
  <2>1. /\ UNCHANGED <<start, linked, pidfile>> /\ UNCHANGED <<cmd, target, victims>>
        /\ UNCHANGED port /\ UNCHANGED shards
    BY <1>25 DEF StartFails, Abort
  <2>2. ProcessTypes'
    <3>1. End(p) /\ UNCHANGED <<term, plan>> /\ unasked \in BOOLEAN
      BY <1>1, <1>25 DEF StartFails, Abort, HistoryTypes
    <3> QED BY <1>1, <3>1, EndTypes
  <2>3. HistoryTypes'
    <3>1. End(p) /\ UNCHANGED <<term, plan, alone>> /\ Fault /\ unasked \in BOOLEAN
      BY <1>1, <1>25 DEF StartFails, Abort, HistoryTypes
    <3>2. unasked' \in BOOLEAN /\ faults' \in 0..MaxFaults
      BY <1>1, <3>1, EndTypes, FaultTypes
    <3> QED BY <1>1, <3>1, <3>2 DEF HistoryTypes
  <2>4. MigrationTypes'
    BY <1>1, <1>25 DEF StartFails, Abort, MigrationTypes
  <2> QED BY <1>3, <1>5, <1>7, <2>1, <2>2, <2>3, <2>4 DEF TypeInv
<1>26. ASSUME NEW p \in Pid, Die(p) PROVE TypeInv'
  <2>1. /\ UNCHANGED <<start, linked, pidfile>> /\ UNCHANGED <<lock, applied>>
        /\ UNCHANGED <<cmd, target, victims>> /\ UNCHANGED shards
    BY <1>26 DEF Die
  <2>2. ProcessTypes'
    <3>1. End(p) /\ UNCHANGED <<term, plan>> /\ unasked \in BOOLEAN
      BY <1>1, <1>26 DEF Die, HistoryTypes
    <3> QED BY <1>1, <3>1, EndTypes
  <2>3. HistoryTypes'
    <3>1. End(p) /\ UNCHANGED <<term, plan, alone>> /\ Fault /\ unasked \in BOOLEAN
      BY <1>1, <1>26 DEF Die, HistoryTypes
    <3>2. unasked' \in BOOLEAN /\ faults' \in 0..MaxFaults
      BY <1>1, <3>1, EndTypes, FaultTypes
    <3> QED BY <1>1, <3>1, <3>2 DEF HistoryTypes
  <2>4. PortTypes'
    BY <1>1, <1>26 DEF Die, PortTypes
  <2> QED BY <1>3, <1>4, <1>5, <1>7, <2>1, <2>2, <2>3, <2>4 DEF TypeInv
<1>27. ASSUME NEW p \in Pid, Recycle(p) PROVE TypeInv'
  <2>1. /\ UNCHANGED <<start, linked, pidfile>> /\ UNCHANGED <<lock, applied>>
        /\ UNCHANGED <<cmd, target, victims>> /\ UNCHANGED port /\ UNCHANGED shards
    BY <1>27 DEF Recycle
  <2>2. ProcessTypes'
    <3>1. PICK s \in ServerState : Goto(p, s)
      BY <1>27 DEF Recycle, ServerState, Alive, Early, Booting, Locking, Applying, Stopping, Ended
    <3>2. UNCHANGED <<term, workers, plan>>
      BY <1>27 DEF Recycle
    <3> QED BY <1>1, <3>1, <3>2, GotoTypes
  <2>3. HistoryTypes'
    BY <1>1, <1>27, FaultTypes DEF Recycle, HistoryTypes
  <2> QED BY <1>3, <1>4, <1>5, <1>7, <2>1, <2>2, <2>3 DEF TypeInv
<1>28. ASSUME NEW c \in Command, LookForPidfile(c) PROVE TypeInv'
  <2>1. /\ UNCHANGED <<server, term, workers, plan>> /\ UNCHANGED <<start, linked, pidfile>>
        /\ UNCHANGED <<lock, applied>> /\ UNCHANGED port /\ UNCHANGED shards
    BY <1>28 DEF LookForPidfile
  <2>2. StopTypes'
    BY <1>1, <1>28 DEF LookForPidfile, StopTypes, CmdGoto, CommandState, AtWork
  <2>3. HistoryTypes'
    BY <1>1, <1>28 DEF LookForPidfile, HistoryTypes
  <2> QED BY <1>2, <1>3, <1>4, <1>7, <2>1, <2>2, <2>3 DEF TypeInv
<1>29. ASSUME NEW c \in Command, ReadPidfile(c) PROVE TypeInv'
  <2>1. /\ UNCHANGED <<server, term, workers, plan>> /\ UNCHANGED <<start, linked, pidfile>>
        /\ UNCHANGED <<lock, applied>> /\ UNCHANGED <<alone, unasked, faults>>
        /\ UNCHANGED port /\ UNCHANGED shards
    BY <1>29 DEF ReadPidfile
  <2>2. StopTypes'
    <3>1. CASE pidfile \in Pid /\ CmdGoto(c, "kill") /\ target' = [target EXCEPT ![c] = pidfile]
      BY <1>1, <1>29, <3>1 DEF ReadPidfile, StopTypes, CmdGoto, CommandState, AtWork
    <3>2. CASE (CmdGoto(c, "crashed") \/ CmdGoto(c, "invalid")) /\ UNCHANGED target
      BY <1>1, <1>29, <3>2 DEF ReadPidfile, StopTypes, CmdGoto, CommandState, AtWork
    <3> QED BY <1>29, <3>1, <3>2 DEF ReadPidfile
  <2> QED BY <1>2, <1>3, <1>4, <1>6, <1>7, <2>1, <2>2 DEF TypeInv
<1>30. ASSUME NEW c \in Command, Kill(c) PROVE TypeInv'
  <2>1. /\ UNCHANGED <<start, linked, pidfile>> /\ UNCHANGED <<lock, applied>>
        /\ UNCHANGED <<alone, unasked, faults>> /\ UNCHANGED port /\ UNCHANGED shards
    BY <1>30 DEF Kill
  <2>2. ProcessTypes'
    <3>1. target[c] \in Pid
      BY <1>1, <1>30 DEF Kill, StopTypes
    <3>2. server' = server \/ Goto(target[c], "gone")
      BY <1>30 DEF Kill, Signal
    <3>3. server' \in [Pid -> ServerState]
      BY <1>1, <3>1, <3>2 DEF ProcessTypes, Goto, ServerState, Ended
    <3>4. term' \in SUBSET Pid /\ UNCHANGED <<workers, plan>>
      BY <1>1, <1>30, <3>1 DEF Kill, Signal, ProcessTypes
    <3> QED BY <1>1, <3>3, <3>4 DEF ProcessTypes
  <2>3. StopTypes'
    <3>1. target[c] \in Pid
      BY <1>1, <1>30 DEF Kill, StopTypes
    <3>2. PICK s \in {"unlink", "denied"} : CmdGoto(c, s)
      BY <1>30 DEF Kill
    <3>3. victims' \in SUBSET Pid /\ target' = target
      BY <1>1, <1>30, <3>1 DEF Kill, Signal, StopTypes
    <3> QED BY <1>1, <3>2, <3>3 DEF StopTypes, CmdGoto, CommandState, AtWork
  <2> QED BY <1>3, <1>4, <1>6, <1>7, <2>1, <2>2, <2>3 DEF TypeInv
<1>31. ASSUME NEW c \in Command, Unlink(c) PROVE TypeInv'
  <2>1. /\ UNCHANGED <<server, term, workers, plan>> /\ UNCHANGED <<lock, applied>>
        /\ UNCHANGED <<alone, unasked, faults>> /\ UNCHANGED port /\ UNCHANGED shards
    BY <1>31 DEF Unlink
  <2>2. LaunchTypes'
    BY <1>1, <1>31 DEF Unlink, LaunchTypes
  <2>3. StopTypes'
    BY <1>1, <1>31 DEF Unlink, StopTypes, CmdGoto, CommandState, AtWork
  <2> QED BY <1>2, <1>4, <1>6, <1>7, <2>1, <2>2, <2>3 DEF TypeInv
<1>32. ASSUME NEW c \in Command, ProbePort(c) PROVE TypeInv'
  <2>1. /\ UNCHANGED <<server, term, workers, plan>> /\ UNCHANGED <<start, linked, pidfile>>
        /\ UNCHANGED <<lock, applied>> /\ UNCHANGED port /\ UNCHANGED shards
    BY <1>32 DEF ProbePort
  <2>2. StopTypes'
    <3>1. PICK s \in {"reported", "nothing"} : CmdGoto(c, s)
      BY <1>32 DEF ProbePort
    <3> QED BY <1>1, <1>32, <3>1 DEF ProbePort, StopTypes, CmdGoto, CommandState, AtWork
  <2>3. HistoryTypes'
    <3>1. alone' \in BOOLEAN /\ faults' \in 0..MaxFaults
      BY <1>1, <1>32, ProbedTypes DEF ProbePort
    <3> QED BY <1>1, <1>32, <3>1 DEF ProbePort, HistoryTypes
  <2> QED BY <1>2, <1>3, <1>4, <1>7, <2>1, <2>2, <2>3 DEF TypeInv
<1>33. CASE UNCHANGED vars
  BY <1>2, <1>3, <1>4, <1>5, <1>6, <1>7, <1>33 DEF vars, TypeInv
<1>34. CASE \E p \in Pid : LaunchDetached(p) \/ LaunchForeground(p) \/ LaunchStep(p)
  BY <1>34, <1>8, <1>12, <1>9, <1>10, <1>11
  DEF LaunchStep
<1>35. CASE \E p \in Pid : ServerStep(p)
  BY <1>35, <1>13, <1>14, <1>15, <1>16, <1>17, <1>18, <1>19, <1>20, <1>21, <1>22, <1>23, <1>24
  DEF ServerStep
<1>36. CASE \E p \in Pid : StartFails(p) \/ Die(p) \/ Recycle(p)
  BY <1>36, <1>25, <1>26, <1>27
<1>37. CASE \E c \in Command : LookForPidfile(c) \/ StopStep(c)
  BY <1>37, <1>28, <1>29, <1>30, <1>31, <1>32
  DEF StopStep
<1> QED BY <1>33, <1>34, <1>35, <1>36, <1>37 DEF Next

LEMMA ServerInit ==
    ASSUME Init, ServerProcessAssumption
    PROVE  TypeInv
<1>1. ProcessTypes /\ LaunchTypes /\ MigrationTypes /\ PortTypes /\ ShardTypes
  BY DEF Init, ProcessTypes, ServerState, LaunchTypes, LaunchState, MigrationTypes, PortTypes,
         ShardTypes
<1>2. StopTypes
  BY DEF Init, StopTypes, CommandState
<1>3. HistoryTypes
  <2>1. alone \in BOOLEAN /\ unasked \in BOOLEAN
    BY DEF Init
  <2>2. faults \in 0..MaxFaults
    BY DEF Init, ServerProcessAssumption
  <2> QED BY <2>1, <2>2 DEF HistoryTypes
<1> QED BY <1>1, <1>2, <1>3 DEF TypeInv

\* Every variable has its type, whatever commands overlap and servers die.
THEOREM ServerTypeCorrect == Spec => []TypeOK
<1>1. Init => TypeInv
  BY ServerInit, ServerProcessAssumption
<1>2. TypeInv /\ [Next]_vars => TypeInv'
  BY ServerTypeStep, ServerProcessAssumption
<1> QED BY <1>1, <1>2, TypeParts, PTL DEF Spec

-----------------------------------------------------------------------------
(* Migrations *)

Closed(s) == \A m \in Range(s) : \A n \in Migration :
                 n[1] = m[1] /\ n[2] < m[2] => n \in Range(s)

Once(s) == \A i, j \in 1..Len(s) :
               /\ s[i] = s[j] => i = j
               /\ s[i][1] = s[j][1] /\ s[i][2] < s[j][2] => i < j

\* What has been executed is a prefix of each context's migrations, in order.
Executed == Once(applied) /\ Closed(applied)

\* Who applies migrations holds the lock, and still has to apply what was not
\* executed when it took the lock and has not been since.
Locked(p) == \A context \in {"auth", "media"} :
                 server[p] = AtApply(context) =>
                     lock = p /\ plan[p] = Of(context) \ Range(applied)

HasTables(p) == \A context \in workers[p] \ {"db_example"} :
                    Of(context) \subseteq Range(applied)

MigrationInv == Executed /\ \A p \in Pid : Locked(p) /\ HasTables(p)

\* The oldest migration that is left to apply comes after what was executed.
LEMMA ExecuteOne ==
    ASSUME ServerProcessAssumption, NEW s \in Seq(Migration), Once(s), Closed(s),
           NEW context, NEW m \in Of(context) \ Range(s),
           \A n \in Of(context) \ Range(s) : m[2] <= n[2]
    PROVE  Once(Append(s, m)) /\ Closed(Append(s, m))
<1> DEFINE t == Append(s, m)
           N == Len(s)
<1>1. m \in Migration /\ m[1] = context /\ m \notin Range(s) /\ m[2] \in Nat
  BY MigrationFacts DEF Of
<1>2. /\ t \in Seq(Migration) /\ Len(t) = N + 1 /\ N \in Nat
      /\ \A i \in 1..N : t[i] = s[i]
      /\ t[N + 1] = m
      /\ Range(t) = Range(s) \cup {m}
  BY <1>1, AppendFacts
<1>3. \A i \in 1..N : s[i] \in Range(s) /\ s[i] \in Migration
  BY RangeFacts
<1> HIDE DEF t, N
<1>4. ASSUME NEW n \in Migration, n[1] = m[1], n[2] < m[2] PROVE n \in Range(s)
  <2>1. n \in Of(context) /\ n[2] \in Nat
    BY <1>1, <1>4, MigrationFacts DEF Of
  <2> QED BY <1>1, <1>4, <2>1
<1>5. Closed(t)
  BY <1>1, <1>2, <1>4 DEF Closed
<1>6. ASSUME NEW i \in 1..N PROVE s[i] # m /\ ~(s[i][1] = m[1] /\ m[2] < s[i][2])
  BY <1>1, <1>3, <1>6 DEF Closed
<1>7. Once(t)
  <2>1. SUFFICES ASSUME NEW i \in 1..(N + 1), NEW j \in 1..(N + 1)
                 PROVE  /\ t[i] = t[j] => i = j
                        /\ t[i][1] = t[j][1] /\ t[i][2] < t[j][2] => i < j
    BY <1>2 DEF Once
  <2>2. /\ i \in 1..N \/ i = N + 1
        /\ j \in 1..N \/ j = N + 1
    BY <1>2
  <2>3. CASE i \in 1..N /\ j \in 1..N
    <3>1. t[i] = s[i] /\ t[j] = s[j]
      BY <1>2, <2>3
    <3>2. Len(s) = N
      BY DEF N
    <3> QED BY <2>3, <3>1, <3>2 DEF Once
  <2>4. CASE i \in 1..N /\ j = N + 1
    <3>1. t[i] # t[j] /\ i < j
      BY <1>2, <1>6, <2>4
    <3> QED BY <3>1
  <2>5. CASE i = N + 1 /\ j \in 1..N
    <3>1. t[i] = m /\ t[j] = s[j]
      BY <1>2, <2>5
    <3>2. m # s[j] /\ ~(s[j][1] = m[1] /\ m[2] < s[j][2])
      BY <1>6, <2>5
    <3> QED BY <3>1, <3>2
  <2>6. CASE i = N + 1 /\ j = N + 1
    <3>1. i = j /\ t[i] = m /\ t[j] = m /\ m[2] \in Nat
      BY <1>1, <1>2, <2>6
    <3> QED BY <3>1
  <2> QED BY <2>2, <2>3, <2>4, <2>5, <2>6
<1> QED BY <1>5, <1>7 DEF t

\* A step that executes nothing: nobody starts to apply migrations, and who does
\* keeps the lock.
Harmless ==
    /\ UNCHANGED <<applied, plan>>
    /\ \A q \in Pid : workers'[q] \subseteq workers[q] \cup {"db_example"}
    /\ \A q \in Pid : server'[q] \in Applying =>
           server'[q] = server[q] /\ (lock' = lock \/ lock # q)

LEMMA HarmlessStep ==
    ASSUME TypeInv, MigrationInv, Harmless
    PROVE  MigrationInv'
<1>1. Executed'
  BY DEF MigrationInv, Executed, Harmless
<1>2. ASSUME NEW p \in Pid PROVE Locked(p)' /\ HasTables(p)'
  <2>1. Locked(p) /\ HasTables(p)
    BY DEF MigrationInv
  <2>2. HasTables(p)'
    BY <2>1 DEF HasTables, Harmless
  <2>3. ASSUME NEW context \in {"auth", "media"}, server'[p] = AtApply(context)
        PROVE  lock' = p /\ plan'[p] = Of(context) \ Range(applied')
    <3>1. server'[p] = server[p] /\ (lock' = lock \/ lock # p)
      BY <2>3 DEF Harmless, AtApply, Applying
    <3>2. lock = p /\ plan[p] = Of(context) \ Range(applied)
      BY <2>1, <2>3, <3>1 DEF Locked
    <3> QED BY <3>1, <3>2 DEF Harmless
  <2> QED BY <2>2, <2>3 DEF Locked
<1> QED BY <1>1, <1>2 DEF MigrationInv

\* A server that ends without having the lock, or lets go of it.
LEMMA EndIsHarmless ==
    ASSUME TypeInv, NEW p \in Pid, End(p), UNCHANGED <<applied, plan>>,
           lock' = lock \/ lock = p
    PROVE  Harmless
BY DEF TypeInv, ProcessTypes, End, Goto, Harmless, Applying

\* A server that goes on without applying anything.
LEMMA GotoIsHarmless ==
    ASSUME TypeInv, NEW p \in Pid, NEW s, s \notin Applying, Goto(p, s),
           UNCHANGED <<applied, plan, lock>>,
           \A q \in Pid : workers'[q] \subseteq workers[q] \cup {"db_example"}
    PROVE  Harmless
BY DEF TypeInv, ProcessTypes, Goto, Harmless

LEMMA MigrationStep ==
    ASSUME TypeInv, MigrationInv, ServerProcessAssumption, [Next]_vars
    PROVE  MigrationInv'
<1>1. /\ server \in [Pid -> ServerState] /\ workers \in [Pid -> SUBSET Manager]
      /\ plan \in [Pid -> SUBSET Migration] /\ applied \in Seq(Migration)
  BY DEF TypeInv, ProcessTypes, MigrationTypes
<1> USE DEF processVars, launchVars, migrationVars, stopVars, historyVars
\* No server moves, and nothing it works with.
<1>2. ASSUME UNCHANGED <<server, workers, plan, lock, applied>> PROVE Harmless
  BY <1>2 DEF Harmless
<1>3. ASSUME NEW p \in Pid, LaunchDetached(p) \/ OpenPidfile(p) \/ WritePidfile(p)
      PROVE  Harmless
  <2>1. UNCHANGED <<server, workers, plan, lock, applied>>
    BY <1>3 DEF LaunchDetached, OpenPidfile, WritePidfile
  <2> QED BY <1>2, <2>1
<1>4. ASSUME NEW c \in Command,
             LookForPidfile(c) \/ ReadPidfile(c) \/ Unlink(c) \/ ProbePort(c)
      PROVE  Harmless
  <2>1. UNCHANGED <<server, workers, plan, lock, applied>>
    BY <1>4 DEF LookForPidfile, ReadPidfile, Unlink, ProbePort
  <2> QED BY <1>2, <2>1
<1>5. ASSUME NEW c \in Command, Kill(c) PROVE Harmless
  <2>1. target[c] \in Pid /\ UNCHANGED <<workers, plan, lock, applied>>
    BY <1>5 DEF Kill, TypeInv, StopTypes
  <2>2. server' = server \/ Goto(target[c], "gone")
    BY <1>5 DEF Kill, Signal
  <2>3. CASE server' = server
    BY <1>2, <2>1, <2>3
  <2>4. CASE Goto(target[c], "gone")
    <3>1. "gone" \notin Applying
          /\ \A q \in Pid : workers'[q] \subseteq workers[q] \cup {"db_example"}
      BY <2>1 DEF Applying
    <3> QED BY <2>1, <2>4, <3>1, GotoIsHarmless
  <2> QED BY <2>2, <2>3, <2>4
<1>6. ASSUME NEW p \in Pid,
             \/ Spawn(p) \/ LaunchForeground(p) \/ Bootstrap(p) \/ StartDbExample(p) \/ Bind(p)
             \/ Shutdown(p) \/ Drained(p) \/ Recycle(p) \/ \E m \in Manager : StopManager(p, m)
      PROVE  Harmless
  <2>1. PICK s : Goto(p, s) /\ s \notin Applying
    BY <1>6 DEF Spawn, LaunchForeground, Bootstrap, StartDbExample, Bind, Shutdown, Drained,
                Recycle, StopManager, AfterStop, AtStop, Manager, Applying
  <2>2. UNCHANGED <<applied, plan, lock>>
    BY <1>6 DEF Spawn, LaunchForeground, Bootstrap, StartDbExample, Bind, Shutdown, Drained,
                Recycle, StopManager
  <2>3. \A q \in Pid : workers'[q] \subseteq workers[q] \cup {"db_example"}
    BY <1>1, <1>6 DEF Spawn, LaunchForeground, Bootstrap, StartDbExample, Bind, Shutdown,
                      Drained, Recycle, StopManager
  <2> QED BY <2>1, <2>2, <2>3, GotoIsHarmless
<1>7. ASSUME NEW p \in Pid, CheckPort(p) PROVE Harmless
  <2>1. UNCHANGED <<applied, plan, lock>>
    BY <1>7 DEF CheckPort
  <2>2. CASE End(p)
    BY <2>1, <2>2, EndIsHarmless
  <2>3. CASE Goto(p, "checked") /\ UNCHANGED workers
    <3>1. "checked" \notin Applying
          /\ \A q \in Pid : workers'[q] \subseteq workers[q] \cup {"db_example"}
      BY <2>3 DEF Applying
    <3> QED BY <2>1, <2>3, <3>1, GotoIsHarmless
  <2> QED BY <1>7, <2>2, <2>3 DEF CheckPort
<1>8. ASSUME NEW p \in Pid, LockTimeout(p) \/ StartFails(p) \/ Close(p) \/ Die(p)
      PROVE  Harmless
  <2>1. End(p) /\ UNCHANGED <<applied, plan>> /\ (lock' = lock \/ lock = p)
    BY <1>8 DEF LockTimeout, StartFails, Abort, Close, Die
  <2> QED BY <2>1, EndIsHarmless
<1>9. ASSUME NEW p \in Pid, NEW context \in {"auth", "media"}, TakeLock(p, context)
      PROVE  MigrationInv'
  <2>1. /\ lock = None /\ lock' = p /\ UNCHANGED <<workers, applied>>
        /\ plan' = [plan EXCEPT ![p] = Of(context) \ Range(applied)]
        /\ server' = [server EXCEPT ![p] = AtApply(context)]
    BY <1>9 DEF TakeLock, Goto
  <2>2. ASSUME NEW q \in Pid PROVE Locked(q)' /\ HasTables(q)'
    <3>1. Locked(q) /\ HasTables(q) /\ lock # q
      BY <2>1 DEF MigrationInv, ServerProcessAssumption
    <3>2. HasTables(q)'
      BY <2>1, <3>1 DEF HasTables
    <3>3. CASE q = p
      <4>1. server'[q] = AtApply(context) /\ plan'[q] = Of(context) \ Range(applied')
        BY <1>1, <2>1, <3>3
      <4>2. \A other \in {"auth", "media"} : AtApply(other) = AtApply(context) => other = context
        BY DEF AtApply
      <4> QED BY <2>1, <3>2, <3>3, <4>1, <4>2 DEF Locked
    <3>4. CASE q # p
      <4>1. server'[q] = server[q]
        BY <1>1, <2>1, <3>4
      <4> QED BY <3>1, <3>2, <4>1 DEF Locked
    <3> QED BY <3>3, <3>4
  <2>3. Executed'
    BY <2>1 DEF MigrationInv, Executed
  <2> QED BY <2>2, <2>3 DEF MigrationInv
<1>10. ASSUME NEW p \in Pid, Apply(p) PROVE MigrationInv'
  <2>1. PICK context \in {"auth", "media"} : server[p] = AtApply(context)
    BY <1>10 DEF Apply, Applying, AtApply
  <2>2. Locked(p) /\ lock = p /\ plan[p] = Of(context) \ Range(applied)
    BY <2>1 DEF MigrationInv, Locked
  <2>3. PICK m \in plan[p] : /\ \A n \in plan[p] : m[2] <= n[2]
                             /\ applied' = Append(applied, m)
                             /\ plan' = [plan EXCEPT ![p] = @ \ {m}]
    BY <1>10 DEF Apply
  <2>4. Executed'
    BY <1>1, <2>2, <2>3, ExecuteOne DEF MigrationInv, Executed
  <2>5. Range(applied') = Range(applied) \cup {m}
    BY <1>1, <2>3, AppendFacts
  <2>6. UNCHANGED <<server, lock, workers>>
    BY <1>10 DEF Apply
  <2>7. ASSUME NEW q \in Pid PROVE Locked(q)' /\ HasTables(q)'
    <3>1. Locked(q) /\ HasTables(q)
      BY DEF MigrationInv
    <3>2. HasTables(q)'
      BY <2>5, <2>6, <3>1 DEF HasTables
    <3>3. ASSUME NEW other \in {"auth", "media"}, server'[q] = AtApply(other)
          PROVE  lock' = q /\ plan'[q] = Of(other) \ Range(applied')
      <4>1. lock = q /\ plan[q] = Of(other) \ Range(applied)
        BY <2>6, <3>1, <3>3 DEF Locked
      <4>2. q = p /\ plan'[q] = plan[q] \ {m}
        BY <1>1, <2>2, <2>3, <4>1
      <4> QED BY <2>5, <2>6, <4>1, <4>2
    <3> QED BY <3>2, <3>3 DEF Locked
  <2> QED BY <2>4, <2>7 DEF MigrationInv
<1>11. ASSUME NEW p \in Pid, NEW context \in {"auth", "media"}, StartTasks(p, context)
       PROVE  MigrationInv'
  <2>1. /\ server[p] = AtApply(context) /\ plan[p] = {} /\ UNCHANGED <<applied, plan>>
        /\ workers' = [workers EXCEPT ![p] = @ \cup {context}]
        /\ Goto(p, IF context = "auth" THEN "start_db_example" ELSE "bind")
    BY <1>11 DEF StartTasks
  <2>2. lock = p /\ Of(context) \subseteq Range(applied)
    BY <2>1 DEF MigrationInv, Locked
  <2>3. server'[p] \notin Applying /\ \A q \in Pid : q # p => server'[q] = server[q]
    BY <1>1, <2>1 DEF Goto, Applying
  <2>4. ASSUME NEW q \in Pid PROVE Locked(q)' /\ HasTables(q)'
    <3>1. Locked(q) /\ HasTables(q)
      BY DEF MigrationInv
    <3>2. HasTables(q)'
      BY <1>1, <2>1, <2>2, <3>1 DEF HasTables
    <3>3. ASSUME NEW other \in {"auth", "media"} PROVE server'[q] # AtApply(other)
      <4>1. AtApply(other) \in Applying
        BY DEF AtApply, Applying
      <4>2. CASE q = p
        BY <2>3, <4>1, <4>2
      <4>3. CASE q # p
        BY <2>2, <2>3, <3>1, <4>3 DEF Locked
      <4> QED BY <4>2, <4>3
    <3> QED BY <3>2, <3>3 DEF Locked
  <2>5. Executed'
    BY <2>1 DEF MigrationInv, Executed
  <2> QED BY <2>4, <2>5 DEF MigrationInv
<1>12. CASE UNCHANGED vars
  <2>1. Harmless
    BY <1>2, <1>12 DEF vars
  <2> QED BY <2>1, HarmlessStep
<1>13. CASE \E p \in Pid : LaunchDetached(p) \/ LaunchForeground(p) \/ LaunchStep(p)
  BY <1>3, <1>6, <1>13, HarmlessStep DEF LaunchStep
<1>14. CASE \E p \in Pid : ServerStep(p)
  BY <1>6, <1>7, <1>8, <1>9, <1>10, <1>11, <1>14, HarmlessStep DEF ServerStep
<1>15. CASE \E p \in Pid : StartFails(p) \/ Die(p) \/ Recycle(p)
  BY <1>6, <1>8, <1>15, HarmlessStep
<1>16. CASE \E c \in Command : LookForPidfile(c) \/ StopStep(c)
  BY <1>4, <1>5, <1>16, HarmlessStep DEF StopStep
<1> QED BY <1>12, <1>13, <1>14, <1>15, <1>16 DEF Next

\* However many servers start at once or die half way, no migration is executed
\* twice, each context's are executed in order, and who starts a context's
\* workers has the tables it needs.
THEOREM MigrationsRunOnce == Spec => []MigratedOnce
<1>1. Init => TypeInv /\ MigrationInv
  <2>1. ASSUME Init PROVE MigrationInv
    <3>1. Executed
      <4>1. applied = << >> /\ Len(applied) = 0 /\ Range(applied) = {}
        BY <2>1 DEF Init, Range
      <4> QED BY <4>1 DEF Executed, Once, Closed
    <3>2. \A p \in Pid : Locked(p) /\ HasTables(p)
      BY <2>1 DEF Init, Locked, HasTables, AtApply
    <3> QED BY <3>1, <3>2 DEF MigrationInv
  <2> QED BY <2>1, ServerInit, ServerProcessAssumption
<1>2. TypeInv /\ MigrationInv /\ [Next]_vars => TypeInv' /\ MigrationInv'
  BY ServerTypeStep, MigrationStep, ServerProcessAssumption
<1>3. MigrationInv => MigratedOnce
  BY DEF MigrationInv, Executed, Once, HasTables, MigratedOnce
<1> QED BY <1>1, <1>2, <1>3, PTL DEF Spec

-----------------------------------------------------------------------------
(* Commands given one after the other *)

\* A server that its launcher, or itself, is still bringing up.
ComingUp(p) == start[p] \in Launching \/ server[p] \in Early \cup Booting

\* Who listens serves; a server is launched once and ends when it is told to, or
\* else unasked.
ServerFacts(p) ==
    /\ server[p] = "serving" <=> port = p
    /\ start[p] \in {"idle", "refused", "checked"} => server[p] = "none"
    /\ server[p] \in Ended => p \in term \/ unasked

\* The pidfile, and who read it, know servers that a launcher has written down; the
\* pidfile of a server that was told to stop is about to be removed.
PidfileFacts ==
    /\ \A p \in Pid : pidfile = p => start[p] = "written"
    /\ \A c \in Command : cmd[c] = "kill" => target[c] \in Pid /\ start[target[c]] = "written"
    /\ \A p \in term : start[p] = "written" /\ (pidfile = p => \E c \in Command : cmd[c] = "unlink")

AlwaysInv == PidfileFacts /\ \A p \in Pid : ServerFacts(p)

\* One command at a time: a --stop, or a server on its way up.
OneCommand ==
    /\ \A c, d \in Command : cmd[c] \in AtWork /\ cmd[d] \in AtWork => c = d
    /\ \A p, q \in Pid : ComingUp(p) /\ ComingUp(q) => p = q
    /\ \A c \in Command, p \in Pid : ~(cmd[c] \in AtWork /\ ComingUp(p))

\* A server comes up on a free port, with its own shards in the directory and its
\* own name in the pidfile.
OwnTraces(p) ==
    /\ start[p] \in Launching => port \in {None, p}
    /\ server[p] \in {"checked"} \cup Booting => port = None
    /\ server[p] \in Booting \cup {"serving"} => p \in shards
    /\ start[p] = "opened" => p \in linked
    /\ start[p] = "written" /\ server[p] \in Early \cup Booting \cup {"serving"} =>
           pidfile = p \/ p \in term

\* A --stop removes the pidfile that it read, of a server that it signalled.
StopFacts(c) ==
    /\ cmd[c] = "kill" => pidfile = target[c]
    /\ cmd[c] = "invalid" => pidfile = Empty
    /\ cmd[c] = "unlink" =>
           \A p \in Pid : server[p] = "serving" /\ start[p] = "written" => p \in term

AloneInv ==
    /\ OneCommand
    /\ \A p \in Pid : OwnTraces(p)
    /\ \A c \in Command : StopFacts(c)
    /\ OnlyServersAreSignalled

OneInv == AlwaysInv /\ (alone => AloneInv)

\* What the properties tell apart in the life of a server.
LEMMA StateFacts ==
    /\ "serving" \notin Early \cup Booting \cup Stopping \cup Ended \cup {"none"}
    /\ \A s \in Early : s \notin Booting \cup Stopping \cup Ended \cup {"none"}
    /\ \A s \in Booting : s \notin Stopping \cup Ended \cup {"none"}
    /\ \A s \in Stopping : s \notin Ended \cup {"none"}
    /\ \A s \in Ended : s \notin Alive \cup {"none"}
    /\ "none" \notin Alive
    /\ "launched" \in Early /\ "checked" \in Early /\ "launched" # "checked"
    /\ Alive = Early \cup Booting \cup {"serving"} \cup Stopping
    /\ "gone" \in Ended /\ "foreign" \in Ended
BY DEF Early, Booting, Locking, Applying, Stopping, Ended, Alive

LEMMA CommandFacts ==
    /\ "read" \in AtWork /\ "kill" \in AtWork /\ "invalid" \in AtWork
    /\ "unlink" \in AtWork /\ "probe" \in AtWork
    /\ \A s \in {"idle", "crashed", "denied", "removed", "reported", "nothing"} : s \notin AtWork
BY DEF AtWork

LEMMA LaunchingFacts ==
    /\ "checked" \in Launching /\ "spawned" \in Launching /\ "opened" \in Launching
    /\ \A s \in {"idle", "refused", "written", "foreground"} : s \notin Launching
BY DEF Launching

\* No step but the beginning of a command makes a second one overlap the first.
LEMMA NoneBegins ==
    ASSUME OneCommand,
           \A p \in Pid : ComingUp(p)' => ComingUp(p),
           \A c \in Command : cmd'[c] \in AtWork => cmd[c] \in AtWork
    PROVE  OneCommand'
BY DEF OneCommand

\* A server goes on to come up, or to stop.
LEMMA MoveInv ==
    ASSUME TypeInv, OneInv, NEW p \in Pid, NEW s, Goto(p, s),
           \/ server[p] \in Booting /\ s \in Booting \cup Stopping
           \/ server[p] \in Stopping /\ s \in Stopping,
           UNCHANGED <<term, launchVars, stopVars, port, shards, alone, unasked>>
    PROVE  OneInv'
<1> USE StateFacts DEF launchVars, stopVars
<1>1. server'[p] = s /\ \A q \in Pid \ {p} : server'[q] = server[q]
  BY DEF Goto, TypeInv, ProcessTypes
<1>2. AlwaysInv'
  <2>1. PidfileFacts'
    BY DEF OneInv, AlwaysInv, PidfileFacts
  <2>2. ASSUME NEW q \in Pid PROVE ServerFacts(q)'
    BY <1>1 DEF OneInv, AlwaysInv, ServerFacts
  <2> QED BY <2>1, <2>2 DEF AlwaysInv
<1>3. ASSUME alone PROVE AloneInv'
  <2>1. AloneInv
    BY <1>3 DEF OneInv
  <2>2. ASSUME NEW q \in Pid PROVE OwnTraces(q)' /\ (ComingUp(q)' => ComingUp(q))
    BY <1>1, <2>1 DEF AloneInv, OwnTraces, ComingUp
  <2>3. OneCommand'
    BY <2>1, <2>2, NoneBegins DEF AloneInv
  <2>4. ASSUME NEW c \in Command PROVE StopFacts(c)'
    BY <1>1, <2>1 DEF AloneInv, StopFacts
  <2> QED BY <2>1, <2>2, <2>3, <2>4 DEF AloneInv, OnlyServersAreSignalled
<1> QED BY <1>2, <1>3 DEF OneInv

\* A server ends, and stops to listen if it did.
LEMMA EndInv ==
    ASSUME TypeInv, OneInv, ServerProcessAssumption,
           NEW p \in Pid, server[p] \in Alive, End(p),
           port' = (IF port = p THEN None ELSE port), alone' => alone,
           UNCHANGED <<term, launchVars, stopVars, shards>>
    PROVE  OneInv'
<1> USE StateFacts DEF launchVars, stopVars
<1>1. /\ server'[p] = "gone" /\ \A q \in Pid \ {p} : server'[q] = server[q]
      /\ unasked' = (unasked \/ p \notin term)
  BY DEF End, Goto, TypeInv, ProcessTypes
<1>2. \A q \in Pid : port' = q <=> port = q /\ q # p
  BY DEF ServerProcessAssumption
<1>3. AlwaysInv'
  <2>1. PidfileFacts'
    BY DEF OneInv, AlwaysInv, PidfileFacts
  <2>2. ASSUME NEW q \in Pid PROVE ServerFacts(q)'
    <3>1. ServerFacts(q)
      BY DEF OneInv, AlwaysInv
    <3>2. CASE q = p
      BY <1>1, <1>2, <3>1, <3>2 DEF ServerFacts
    <3>3. CASE q # p
      BY <1>1, <1>2, <3>1, <3>3 DEF ServerFacts
    <3> QED BY <3>2, <3>3
  <2> QED BY <2>1, <2>2 DEF AlwaysInv
<1>4. ASSUME alone' PROVE AloneInv'
  <2>1. AloneInv
    BY <1>4 DEF OneInv
  <2>2. ASSUME NEW q \in Pid PROVE OwnTraces(q)' /\ (ComingUp(q)' => ComingUp(q))
    BY <1>1, <2>1 DEF AloneInv, OwnTraces, ComingUp
  <2>3. OneCommand'
    BY <2>1, <2>2, NoneBegins DEF AloneInv
  <2>4. ASSUME NEW c \in Command PROVE StopFacts(c)'
    BY <1>1, <2>1 DEF AloneInv, StopFacts
  <2> QED BY <1>1, <2>1, <2>2, <2>3, <2>4 DEF AloneInv, OnlyServersAreSignalled
<1> QED BY <1>3, <1>4 DEF OneInv

-----------------------------------------------------------------------------
(* The launcher's steps *)

\* A command begins: if nothing else is under way, it is the only one.
LEMMA AloneBegins ==
    ASSUME TypeInv, OneInv, NEW b, b = (alone /\ ~Busy), alone' = b
    PROVE  alone' => /\ AloneInv
                     /\ \A q \in Pid : ~ComingUp(q)
                     /\ \A c \in Command : cmd[c] \notin AtWork
BY DEF OneInv, Busy, ComingUp

LEMMA LaunchDetachedInv ==
    ASSUME TypeInv, OneInv, NEW p \in Pid, LaunchDetached(p)
    PROVE  OneInv'
<1> USE StateFacts, LaunchingFacts
<1>1. /\ alone' => alone /\ ~Busy
      /\ UNCHANGED <<server, term, linked, pidfile, cmd, target, victims, unasked, port, shards>>
  BY DEF LaunchDetached, Misread, processVars, stopVars
<1>2. PICK s \in {"checked", "refused"} :
        StartGoto(p, s) /\ (alone' /\ s = "checked" => port = None)
  BY DEF LaunchDetached, Misread
<1>3. start[p] = "idle" /\ start'[p] = s /\ \A q \in Pid \ {p} : start'[q] = start[q]
  BY <1>2 DEF LaunchDetached, StartGoto, TypeInv, LaunchTypes
<1>4. AlwaysInv'
  <2>1. PidfileFacts'
    BY <1>1, <1>3 DEF OneInv, AlwaysInv, PidfileFacts, TypeInv, ProcessTypes
  <2>2. ASSUME NEW q \in Pid PROVE ServerFacts(q)'
    BY <1>1, <1>3 DEF OneInv, AlwaysInv, ServerFacts
  <2> QED BY <2>1, <2>2 DEF AlwaysInv
<1>5. ASSUME alone' PROVE AloneInv'
  <2>1. /\ AloneInv /\ \A q \in Pid : ~ComingUp(q)
        /\ \A c \in Command : cmd[c] \notin AtWork
    BY <1>1, <1>5, AloneBegins
  <2>2. server[p] = "none"
    BY <1>3 DEF OneInv, AlwaysInv, ServerFacts
  <2>3. \A q \in Pid : ComingUp(q)' => q = p
    BY <1>1, <1>3, <2>1 DEF ComingUp
  <2>4. OneCommand'
    BY <1>1, <2>1, <2>3 DEF OneCommand
  <2>5. ASSUME NEW q \in Pid PROVE OwnTraces(q)'
    BY <1>1, <1>2, <1>3, <1>5, <2>1, <2>2 DEF AloneInv, OwnTraces
  <2>6. ASSUME NEW c \in Command PROVE StopFacts(c)'
    BY <1>1, <2>1, CommandFacts DEF StopFacts
  <2> QED BY <1>1, <2>1, <2>4, <2>5, <2>6 DEF AloneInv, OnlyServersAreSignalled
<1> QED BY <1>4, <1>5 DEF OneInv

LEMMA LaunchForegroundInv ==
    ASSUME TypeInv, OneInv, NEW p \in Pid, LaunchForeground(p)
    PROVE  OneInv'
<1> USE StateFacts, LaunchingFacts
<1>1. /\ start[p] = "idle" /\ start'[p] = "foreground"
      /\ \A q \in Pid \ {p} : start'[q] = start[q]
      /\ server'[p] = "launched" /\ \A q \in Pid \ {p} : server'[q] = server[q]
  BY DEF LaunchForeground, StartGoto, Goto, TypeInv, LaunchTypes, ProcessTypes
<1>2. /\ alone' = (alone /\ ~Busy)
      /\ UNCHANGED <<term, linked, pidfile, cmd, target, victims, unasked, port, shards>>
  BY DEF LaunchForeground, stopVars
<1>3. server[p] = "none" /\ port # p
  BY <1>1 DEF OneInv, AlwaysInv, ServerFacts
<1>4. AlwaysInv'
  <2>1. PidfileFacts'
    BY <1>1, <1>2 DEF OneInv, AlwaysInv, PidfileFacts, TypeInv, ProcessTypes
  <2>2. ASSUME NEW q \in Pid PROVE ServerFacts(q)'
    BY <1>1, <1>2, <1>3 DEF OneInv, AlwaysInv, ServerFacts
  <2> QED BY <2>1, <2>2 DEF AlwaysInv
<1>5. ASSUME alone' PROVE AloneInv'
  <2>1. /\ AloneInv /\ \A q \in Pid : ~ComingUp(q)
        /\ \A c \in Command : cmd[c] \notin AtWork
    BY <1>2, <1>5, AloneBegins
  <2>2. \A q \in Pid : ComingUp(q)' => q = p
    BY <1>1, <2>1 DEF ComingUp
  <2>3. OneCommand'
    BY <1>2, <2>1, <2>2 DEF OneCommand
  <2>4. ASSUME NEW q \in Pid PROVE OwnTraces(q)'
    BY <1>1, <1>2, <2>1 DEF AloneInv, OwnTraces
  <2>5. ASSUME NEW c \in Command PROVE StopFacts(c)'
    BY <1>2, <2>1, CommandFacts DEF StopFacts
  <2> QED BY <1>2, <2>1, <2>3, <2>4, <2>5 DEF AloneInv, OnlyServersAreSignalled
<1> QED BY <1>4, <1>5 DEF OneInv

\* The launcher goes on while its server comes up, or after it has ended.
LEMMA LauncherInv ==
    ASSUME TypeInv, OneInv, ServerProcessAssumption, NEW p \in Pid, LaunchStep(p)
    PROVE  OneInv'
<1> USE StateFacts, LaunchingFacts
<1>1. PICK s \in {"spawned", "opened", "written"} : StartGoto(p, s)
  BY DEF LaunchStep, Spawn, OpenPidfile, WritePidfile
<1>2. /\ start[p] \in Launching /\ start'[p] = s
      /\ \A q \in Pid \ {p} : start'[q] = start[q] /\ server'[q] = server[q]
      /\ s = "spawned" => start[p] = "checked" /\ server'[p] = "launched"
      /\ s # "spawned" => start[p] # "checked" /\ UNCHANGED server
  BY <1>1 DEF LaunchStep, Spawn, OpenPidfile, WritePidfile, StartGoto, Goto, TypeInv,
              LaunchTypes, ProcessTypes, processVars
<1>3. UNCHANGED <<term, cmd, target, victims, alone, unasked, port, shards>>
  BY DEF LaunchStep, Spawn, OpenPidfile, WritePidfile, processVars, stopVars, historyVars
<1>4. /\ s = "spawned" => UNCHANGED <<linked, pidfile>>
      /\ s = "opened" => pidfile' = Empty /\ linked' = linked \cup {p}
      /\ s = "written" => /\ start[p] = "opened"
                          /\ pidfile' = (IF p \in linked THEN p ELSE pidfile)
                          /\ linked' = linked \ {p}
  <2>1. s = start'[p]
    BY <1>2
  <2> QED BY <2>1 DEF LaunchStep, Spawn, OpenPidfile, WritePidfile, StartGoto, TypeInv,
                      LaunchTypes
<1>5. p \notin term /\ pidfile # p /\ port \in Pid \cup {None}
  BY <1>2 DEF OneInv, AlwaysInv, PidfileFacts, TypeInv, PortTypes
<1>6. AlwaysInv'
  <2>1. PidfileFacts'
    <3>1. \A q \in Pid : pidfile' = q => start'[q] = "written"
      BY <1>2, <1>4, <1>5 DEF OneInv, AlwaysInv, PidfileFacts, ServerProcessAssumption
    <3>2. \A c \in Command : cmd[c] = "kill" => target[c] \in Pid /\ start'[target[c]] = "written"
      BY <1>2 DEF OneInv, AlwaysInv, PidfileFacts
    <3>3. \A q \in term : /\ start'[q] = "written"
                          /\ pidfile' = q => pidfile = q
      <4> TAKE q \in term
      <4>1. q \in Pid \ {p} /\ start[q] = "written"
        BY <1>5 DEF TypeInv, ProcessTypes, OneInv, AlwaysInv, PidfileFacts
      <4> QED BY <1>2, <1>4, <4>1 DEF ServerProcessAssumption
    <3> QED BY <1>3, <3>1, <3>2, <3>3 DEF OneInv, AlwaysInv, PidfileFacts
  <2>2. ASSUME NEW q \in Pid PROVE ServerFacts(q)'
    <3>1. ServerFacts(q)
      BY DEF OneInv, AlwaysInv
    <3>2. CASE q = p
      BY <1>2, <1>3, <3>1, <3>2 DEF ServerFacts
    <3>3. CASE q # p
      BY <1>2, <1>3, <3>1, <3>3 DEF ServerFacts
    <3> QED BY <3>2, <3>3
  <2> QED BY <2>1, <2>2 DEF AlwaysInv
<1>7. ASSUME alone PROVE AloneInv'
  <2>1. AloneInv /\ ComingUp(p)
    BY <1>2, <1>7 DEF OneInv, ComingUp
  <2>2. /\ port \in {None, p} /\ \A q \in Pid \ {p} : ~ComingUp(q)
        /\ \A c \in Command : cmd[c] \notin AtWork
    BY <1>2, <2>1 DEF AloneInv, OwnTraces, OneCommand
  <2>3. ASSUME NEW q \in Pid PROVE ComingUp(q)' => ComingUp(q)
    BY <1>2, <2>1 DEF ComingUp
  <2>4. OneCommand'
    BY <1>3, <2>1, <2>3, NoneBegins DEF AloneInv
  <2>5. ASSUME NEW c \in Command PROVE StopFacts(c)'
    BY <1>3, <2>2, CommandFacts DEF StopFacts
  <2>6. OwnTraces(p)'
    <3>1. OwnTraces(p) /\ ServerFacts(p)
      BY <2>1 DEF AloneInv, OneInv, AlwaysInv
    <3>2. CASE s = "spawned"
      BY <1>2, <1>3, <2>2, <3>1, <3>2 DEF OwnTraces
    <3>3. CASE s = "opened"
      BY <1>2, <1>3, <1>4, <2>2, <3>1, <3>3 DEF OwnTraces
    <3>4. CASE s = "written"
      BY <1>2, <1>3, <1>4, <2>2, <3>1, <3>4 DEF OwnTraces
    <3> QED BY <3>2, <3>3, <3>4
  <2>7. ASSUME NEW q \in Pid \ {p} PROVE OwnTraces(q)'
    <3>1. OwnTraces(q) /\ ServerFacts(q) /\ port # q /\ ~ComingUp(q)
      BY <2>1, <2>2 DEF AloneInv, OneInv, AlwaysInv, ServerProcessAssumption
    <3>2. /\ server[q] \notin Early \cup Booting \cup {"serving"}
          /\ start[q] \notin Launching
      BY <3>1 DEF ServerFacts, ComingUp
    <3> QED BY <1>2, <3>2 DEF OwnTraces
  <2> QED BY <1>3, <2>1, <2>4, <2>5, <2>6, <2>7 DEF AloneInv, OnlyServersAreSignalled
<1> QED BY <1>3, <1>6, <1>7 DEF OneInv

-----------------------------------------------------------------------------
(* The server's steps *)

\* A server that neither listens nor has ended goes on to another such state.
LEMMA AlwaysMoves ==
    ASSUME TypeInv, OneInv, NEW p \in Pid, NEW s, Goto(p, s),
           server[p] \notin Ended \cup {"none", "serving"}, s \notin Ended \cup {"serving"},
           UNCHANGED <<term, launchVars, stopVars, port, unasked>>
    PROVE  AlwaysInv'
<1> USE DEF launchVars, stopVars
<1>1. server'[p] = s /\ \A q \in Pid \ {p} : server'[q] = server[q]
  BY DEF Goto, TypeInv, ProcessTypes
<1>2. PidfileFacts'
  BY DEF OneInv, AlwaysInv, PidfileFacts
<1>3. ASSUME NEW q \in Pid PROVE ServerFacts(q)'
  <2>1. ServerFacts(q)
    BY DEF OneInv, AlwaysInv
  <2>2. CASE q = p
    BY <1>1, <2>1, <2>2 DEF ServerFacts
  <2>3. CASE q # p
    BY <1>1, <2>1, <2>3 DEF ServerFacts
  <2> QED BY <2>2, <2>3
<1> QED BY <1>2, <1>3 DEF AlwaysInv

LEMMA MovesInv ==
    ASSUME TypeInv, OneInv, NEW p \in Pid,
           \/ \E context \in {"auth", "media"} : TakeLock(p, context) \/ StartTasks(p, context)
           \/ Apply(p)
           \/ StartDbExample(p)
           \/ Bind(p) /\ port # None
           \/ Drained(p)
           \/ \E m \in Manager : StopManager(p, m)
    PROVE  OneInv'
<1> USE DEF launchVars, stopVars, historyVars, migrationVars
<1>1. UNCHANGED <<term, launchVars, stopVars, port, shards, alone, unasked>>
  BY DEF TakeLock, StartTasks, Apply, StartDbExample, Bind, Drained, StopManager
<1>2. \E s : /\ Goto(p, s)
             /\ \/ server[p] \in Booting /\ s \in Booting \cup Stopping
                \/ server[p] \in Stopping /\ s \in Stopping
  <2>1. CASE \E context \in {"auth", "media"} : TakeLock(p, context) \/ StartTasks(p, context)
    BY <2>1 DEF TakeLock, StartTasks, AtLock, AtApply, Booting, Locking, Applying
  <2>2. CASE Apply(p)
    <3>1. server[p] \in Booting /\ server' = server
      BY <2>2 DEF Apply, Booting
    <3>2. Goto(p, server[p])
      BY <3>1 DEF Goto, TypeInv, ProcessTypes
    <3> QED BY <3>1, <3>2
  <2>3. CASE StartDbExample(p)
    BY <2>3 DEF StartDbExample, Booting, Locking
  <2>4. CASE Bind(p) /\ port # None
    BY <2>4 DEF Bind, Booting, Stopping
  <2>5. CASE Drained(p)
    BY <2>5 DEF Drained, Stopping
  <2>6. CASE \E m \in Manager : StopManager(p, m)
    BY <2>6 DEF StopManager, AtStop, AfterStop, Manager, Stopping
  <2> QED BY <2>1, <2>2, <2>3, <2>4, <2>5, <2>6
<1> QED BY <1>1, <1>2, MoveInv

\* A server that looks at the port goes on only if it found it free.
LEMMA CheckPortInv ==
    ASSUME TypeInv, OneInv, ServerProcessAssumption, NEW p \in Pid, CheckPort(p)
    PROVE  OneInv'
<1> USE StateFacts
<1>1. /\ server[p] = "launched" /\ (alone' => alone)
      /\ UNCHANGED <<term, launchVars, stopVars, port, shards>>
  BY DEF CheckPort, Probed, Misread
<1>2. port # p
  BY <1>1 DEF OneInv, AlwaysInv, ServerFacts
<1>3. CASE End(p)
  <2>1. server[p] \in Alive /\ port' = (IF port = p THEN None ELSE port)
    BY <1>1, <1>2
  <2> QED BY <1>1, <1>3, <2>1, EndInv
<1>4. CASE Goto(p, "checked") /\ UNCHANGED unasked /\ (alone' => port = None)
  <2>1. AlwaysInv'
    BY <1>1, <1>4, AlwaysMoves
  <2>2. server'[p] = "checked" /\ \A q \in Pid \ {p} : server'[q] = server[q]
    BY <1>4 DEF Goto, TypeInv, ProcessTypes
  <2>3. ASSUME alone' PROVE AloneInv'
    <3>1. AloneInv
      BY <1>1, <2>3 DEF OneInv
    <3>2. port' = None /\ UNCHANGED <<term, start, linked, pidfile, cmd, target, victims, shards>>
      BY <1>1, <1>4, <2>3 DEF launchVars, stopVars
    <3>3. ASSUME NEW q \in Pid PROVE OwnTraces(q)' /\ (ComingUp(q)' => ComingUp(q))
      <4>1. CASE q = p
        BY <1>1, <2>2, <3>1, <3>2, <4>1 DEF AloneInv, OwnTraces, ComingUp
      <4>2. CASE q # p
        BY <2>2, <3>1, <3>2, <4>2 DEF AloneInv, OwnTraces, ComingUp
      <4> QED BY <4>1, <4>2
    <3>4. OneCommand'
      BY <3>1, <3>2, <3>3, NoneBegins DEF AloneInv
    <3>5. ASSUME NEW c \in Command PROVE StopFacts(c)'
      BY <2>2, <3>1, <3>2 DEF AloneInv, StopFacts
    <3> QED BY <1>4, <3>1, <3>2, <3>3, <3>4, <3>5 DEF AloneInv, OnlyServersAreSignalled
  <2> QED BY <2>1, <2>3 DEF OneInv
<1>5. End(p) \/ (Goto(p, "checked") /\ UNCHANGED unasked /\ (alone' => port = None))
  BY DEF CheckPort, Probed, Misread
<1> QED BY <1>3, <1>4, <1>5

\* A server removes everybody's shards only when nobody listens.
LEMMA BootstrapInv ==
    ASSUME TypeInv, OneInv, ServerProcessAssumption, NEW p \in Pid, Bootstrap(p)
    PROVE  OneInv'
<1> USE StateFacts
<1>1. /\ server[p] = "checked" /\ Goto(p, "lock_auth") /\ "lock_auth" \in Booting
      /\ shards' = {p}
      /\ UNCHANGED <<term, start, linked, pidfile, cmd, target, victims, port, alone, unasked>>
  BY DEF Bootstrap, Booting, Locking, launchVars, stopVars, historyVars
<1>2. server'[p] = "lock_auth" /\ \A q \in Pid \ {p} : server'[q] = server[q]
  BY <1>1 DEF Goto, TypeInv, ProcessTypes
<1>3. AlwaysInv'
  <2>1. server[p] \notin Ended \cup {"none", "serving"} /\ "lock_auth" \notin Ended \cup {"serving"}
    BY <1>1
  <2> QED BY <1>1, <2>1, AlwaysMoves DEF launchVars, stopVars
<1>4. ASSUME alone PROVE AloneInv'
  <2>1. AloneInv /\ ComingUp(p)
    BY <1>1, <1>4 DEF OneInv, ComingUp
  <2>2. port = None /\ \A q \in Pid \ {p} : ~ComingUp(q)
    BY <1>1, <2>1 DEF AloneInv, OwnTraces, OneCommand
  <2>3. ASSUME NEW q \in Pid PROVE ComingUp(q)' => ComingUp(q)
    BY <1>1, <1>2, <2>1 DEF ComingUp
  <2>4. OneCommand'
    BY <1>1, <2>1, <2>3, NoneBegins DEF AloneInv
  <2>5. OwnTraces(p)'
    BY <1>1, <1>2, <2>1, <2>2 DEF AloneInv, OwnTraces
  <2>6. ASSUME NEW q \in Pid \ {p} PROVE OwnTraces(q)'
    <3>1. /\ server[q] \notin Early \cup Booting /\ start[q] \notin Launching
          /\ server[q] # "serving" /\ server'[q] = server[q]
      BY <1>2, <2>2 DEF ComingUp, OneInv, AlwaysInv, ServerFacts, ServerProcessAssumption
    <3> QED BY <1>1, <3>1, LaunchingFacts DEF OwnTraces
  <2>7. ASSUME NEW c \in Command PROVE StopFacts(c)'
    BY <1>1, <1>2, <2>1 DEF AloneInv, StopFacts
  <2> QED BY <1>1, <2>1, <2>4, <2>5, <2>6, <2>7 DEF AloneInv, OnlyServersAreSignalled
<1> QED BY <1>1, <1>3, <1>4 DEF OneInv

LEMMA ListenInv ==
    ASSUME TypeInv, OneInv, ServerProcessAssumption, NEW p \in Pid, Bind(p), port = None
    PROVE  OneInv'
<1> USE StateFacts
<1>1. /\ server[p] = "bind" /\ server[p] \in Booting /\ port' = p
      /\ UNCHANGED <<term, start, linked, pidfile, cmd, target, victims, shards, alone, unasked>>
  BY DEF Bind, Booting, launchVars, stopVars, historyVars
<1>2. server'[p] = "serving" /\ \A q \in Pid \ {p} : server'[q] = server[q]
  BY DEF Bind, Goto, TypeInv, ProcessTypes
<1>3. AlwaysInv'
  <2>1. PidfileFacts'
    BY <1>1 DEF OneInv, AlwaysInv, PidfileFacts
  <2>2. ASSUME NEW q \in Pid PROVE ServerFacts(q)'
    <3>1. ServerFacts(q) /\ port # q
      BY DEF OneInv, AlwaysInv, ServerProcessAssumption
    <3>2. CASE q = p
      BY <1>1, <1>2, <3>1, <3>2 DEF ServerFacts
    <3>3. CASE q # p
      BY <1>1, <1>2, <3>1, <3>3 DEF ServerFacts
    <3> QED BY <3>2, <3>3
  <2> QED BY <2>1, <2>2 DEF AlwaysInv
<1>4. ASSUME alone PROVE AloneInv'
  <2>1. AloneInv /\ ComingUp(p)
    BY <1>1, <1>4 DEF OneInv, ComingUp
  <2>2. /\ \A q \in Pid \ {p} : ~ComingUp(q)
        /\ \A c \in Command : cmd[c] \notin AtWork
    BY <2>1 DEF AloneInv, OneCommand
  <2>3. ASSUME NEW q \in Pid PROVE ComingUp(q)' => ComingUp(q)
    BY <1>1, <1>2, <2>1 DEF ComingUp
  <2>4. OneCommand'
    BY <1>1, <2>1, <2>3, NoneBegins DEF AloneInv
  <2>5. OwnTraces(p)'
    BY <1>1, <1>2, <2>1 DEF AloneInv, OwnTraces
  <2>6. ASSUME NEW q \in Pid \ {p} PROVE OwnTraces(q)'
    <3>1. OwnTraces(q) /\ server[q] \notin Early \cup Booting /\ start[q] \notin Launching
      BY <2>1, <2>2 DEF AloneInv, ComingUp
    <3> QED BY <1>1, <1>2, <3>1 DEF OwnTraces
  <2>7. ASSUME NEW c \in Command PROVE StopFacts(c)'
    BY <1>1, <2>2, CommandFacts DEF StopFacts
  <2> QED BY <1>1, <2>1, <2>4, <2>5, <2>6, <2>7 DEF AloneInv, OnlyServersAreSignalled
<1> QED BY <1>1, <1>3, <1>4 DEF OneInv

LEMMA ShutdownInv ==
    ASSUME TypeInv, OneInv, ServerProcessAssumption, NEW p \in Pid, Shutdown(p)
    PROVE  OneInv'
<1> USE StateFacts
<1>1. /\ server[p] = "serving" /\ port' = None /\ "drain" \in Stopping
      /\ UNCHANGED <<term, start, linked, pidfile, cmd, target, victims, shards, alone, unasked>>
  BY DEF Shutdown, Stopping, launchVars, stopVars, historyVars
<1>2. server'[p] = "drain" /\ \A q \in Pid \ {p} : server'[q] = server[q]
  BY DEF Shutdown, Goto, TypeInv, ProcessTypes
<1>3. AlwaysInv'
  <2>1. PidfileFacts'
    BY <1>1 DEF OneInv, AlwaysInv, PidfileFacts
  <2>2. ASSUME NEW q \in Pid PROVE ServerFacts(q)'
    <3>1. ServerFacts(q) /\ port = p /\ port' # q
      BY <1>1 DEF OneInv, AlwaysInv, ServerFacts, ServerProcessAssumption
    <3>2. CASE q = p
      BY <1>1, <1>2, <3>1, <3>2 DEF ServerFacts
    <3>3. CASE q # p
      BY <1>1, <1>2, <3>1, <3>3 DEF ServerFacts
    <3> QED BY <3>2, <3>3
  <2> QED BY <2>1, <2>2 DEF AlwaysInv
<1>4. ASSUME alone PROVE AloneInv'
  <2>1. AloneInv
    BY <1>4 DEF OneInv
  <2>2. ASSUME NEW q \in Pid PROVE OwnTraces(q)' /\ (ComingUp(q)' => ComingUp(q))
    <3>1. CASE q = p
      BY <1>1, <1>2, <2>1, <3>1 DEF AloneInv, OwnTraces, ComingUp
    <3>2. CASE q # p
      BY <1>1, <1>2, <2>1, <3>2 DEF AloneInv, OwnTraces, ComingUp
    <3> QED BY <3>1, <3>2
  <2>3. OneCommand'
    BY <1>1, <2>1, <2>2, NoneBegins DEF AloneInv
  <2>4. ASSUME NEW c \in Command PROVE StopFacts(c)'
    BY <1>1, <1>2, <2>1 DEF AloneInv, StopFacts
  <2> QED BY <1>1, <2>1, <2>2, <2>3, <2>4 DEF AloneInv, OnlyServersAreSignalled
<1> QED BY <1>1, <1>3, <1>4 DEF OneInv

\* A start that fails, a lock that is not freed, the end of a stop, a crash.
LEMMA EndsInv ==
    ASSUME TypeInv, OneInv, ServerProcessAssumption, NEW p \in Pid,
           LockTimeout(p) \/ StartFails(p) \/ Close(p) \/ Die(p)
    PROVE  OneInv'
<1> USE StateFacts
<1>1. End(p) /\ (alone' => alone) /\ UNCHANGED <<term, launchVars, stopVars, shards>>
  BY DEF LockTimeout, StartFails, Abort, Close, Die
<1>2. server[p] \in Alive
  BY DEF LockTimeout, StartFails, Close, Die, Alive, Early, Booting, Stopping
<1>3. port' = (IF port = p THEN None ELSE port)
  <2>1. CASE Die(p)
    BY <2>1 DEF Die
  <2>2. CASE LockTimeout(p) \/ StartFails(p) \/ Close(p)
    <3>1. server[p] # "serving" /\ UNCHANGED port
      BY <2>2 DEF LockTimeout, StartFails, Abort, Close, Locking, Applying
    <3>2. port # p
      BY <3>1 DEF OneInv, AlwaysInv, ServerFacts
    <3> QED BY <3>1, <3>2
  <2> QED BY <2>1, <2>2
<1> QED BY <1>1, <1>2, <1>3, EndInv

LEMMA RecycleInv ==
    ASSUME TypeInv, OneInv, NEW p \in Pid, Recycle(p)
    PROVE  OneInv'
<1> USE StateFacts
<1>1. /\ server[p] = "gone"
      /\ UNCHANGED <<term, start, linked, pidfile, cmd, target, victims, port, shards, alone,
                     unasked>>
  BY DEF Recycle, launchVars, stopVars
<1>2. server'[p] = "foreign" /\ \A q \in Pid \ {p} : server'[q] = server[q]
  BY DEF Recycle, Goto, TypeInv, ProcessTypes
<1>3. AlwaysInv'
  <2>1. PidfileFacts'
    BY <1>1 DEF OneInv, AlwaysInv, PidfileFacts
  <2>2. ASSUME NEW q \in Pid PROVE ServerFacts(q)'
    <3>1. ServerFacts(q)
      BY DEF OneInv, AlwaysInv
    <3>2. CASE q = p
      BY <1>1, <1>2, <3>1, <3>2 DEF ServerFacts
    <3>3. CASE q # p
      BY <1>1, <1>2, <3>1, <3>3 DEF ServerFacts
    <3> QED BY <3>2, <3>3
  <2> QED BY <2>1, <2>2 DEF AlwaysInv
<1>4. ASSUME alone PROVE AloneInv'
  <2>1. AloneInv
    BY <1>4 DEF OneInv
  <2>2. ASSUME NEW q \in Pid PROVE OwnTraces(q)' /\ (ComingUp(q)' => ComingUp(q))
    <3>1. CASE q = p
      BY <1>1, <1>2, <2>1, <3>1 DEF AloneInv, OwnTraces, ComingUp
    <3>2. CASE q # p
      BY <1>1, <1>2, <2>1, <3>2 DEF AloneInv, OwnTraces, ComingUp
    <3> QED BY <3>1, <3>2
  <2>3. OneCommand'
    BY <1>1, <2>1, <2>2, NoneBegins DEF AloneInv
  <2>4. ASSUME NEW c \in Command PROVE StopFacts(c)'
    BY <1>1, <1>2, <2>1 DEF AloneInv, StopFacts
  <2> QED BY <1>1, <2>1, <2>2, <2>3, <2>4 DEF AloneInv, OnlyServersAreSignalled
<1> QED BY <1>1, <1>3, <1>4 DEF OneInv

-----------------------------------------------------------------------------
(* The steps of --stop *)

LEMMA LookInv ==
    ASSUME TypeInv, OneInv, NEW c \in Command, LookForPidfile(c)
    PROVE  OneInv'
<1> USE CommandFacts
<1>1. PICK s \in {"read", "probe"} : CmdGoto(c, s)
  BY DEF LookForPidfile
<1>2. cmd[c] = "idle" /\ cmd'[c] = s /\ \A d \in Command \ {c} : cmd'[d] = cmd[d]
  BY <1>1 DEF LookForPidfile, CmdGoto, TypeInv, StopTypes
<1>3. /\ alone' = (alone /\ ~Busy)
      /\ UNCHANGED <<server, term, start, linked, pidfile, target, victims, unasked, port, shards>>
  BY DEF LookForPidfile, processVars, launchVars
<1>4. AlwaysInv'
  <2>1. PidfileFacts'
    <3>1. \A d \in Command : /\ cmd'[d] = "kill" => cmd[d] = "kill"
                             /\ cmd[d] = "unlink" => cmd'[d] = "unlink"
      BY <1>2
    <3> QED BY <1>3, <3>1 DEF OneInv, AlwaysInv, PidfileFacts
  <2>2. ASSUME NEW q \in Pid PROVE ServerFacts(q)'
    BY <1>3 DEF OneInv, AlwaysInv, ServerFacts
  <2> QED BY <2>1, <2>2 DEF AlwaysInv
<1>5. ASSUME alone' PROVE AloneInv'
  <2>1. /\ AloneInv /\ \A q \in Pid : ~ComingUp(q)
        /\ \A d \in Command : cmd[d] \notin AtWork
    BY <1>3, <1>5, AloneBegins
  <2>2. \A d \in Command : cmd'[d] \in AtWork => d = c
    BY <1>2, <2>1
  <2>3. \A q \in Pid : ~ComingUp(q)'
    BY <1>3, <2>1 DEF ComingUp
  <2>4. OneCommand'
    BY <2>2, <2>3 DEF OneCommand
  <2>5. ASSUME NEW q \in Pid PROVE OwnTraces(q)'
    BY <1>3, <2>1 DEF AloneInv, OwnTraces
  <2>6. ASSUME NEW d \in Command PROVE StopFacts(d)'
    <3>1. cmd'[d] \notin {"kill", "invalid", "unlink"}
      BY <1>2, <2>2
    <3> QED BY <3>1 DEF StopFacts
  <2> QED BY <1>3, <2>1, <2>4, <2>5, <2>6 DEF AloneInv, OnlyServersAreSignalled
<1> QED BY <1>4, <1>5 DEF OneInv

\* A --stop that has nothing to signal or to remove yet goes on, or is through.
LEMMA ReadInv ==
    ASSUME TypeInv, OneInv, ServerProcessAssumption, NEW c \in Command,
           ReadPidfile(c) \/ ProbePort(c)
    PROVE  OneInv'
<1> USE CommandFacts
<1>1. PICK s \in {"crashed", "invalid", "kill", "reported", "nothing"} : CmdGoto(c, s)
  BY DEF ReadPidfile, ProbePort
<1>2. /\ cmd[c] \in {"read", "probe"} /\ cmd'[c] = s
      /\ \A d \in Command \ {c} : cmd'[d] = cmd[d]
  BY <1>1 DEF ReadPidfile, ProbePort, CmdGoto, TypeInv, StopTypes
<1>3. /\ alone' => alone
      /\ UNCHANGED <<server, term, start, linked, pidfile, victims, unasked, port, shards>>
  BY DEF ReadPidfile, ProbePort, Probed, Misread, processVars, launchVars, historyVars
<1>4. /\ s = "invalid" => pidfile = Empty
      /\ s = "kill" => pidfile \in Pid /\ target'[c] = pidfile
      /\ \A d \in Command \ {c} : target'[d] = target[d]
  <2>1. s = cmd'[c] /\ target \in [Command -> Pid \cup {None}]
    BY <1>2 DEF TypeInv, StopTypes
  <2>2. CASE ReadPidfile(c)
    BY <2>1, <2>2 DEF ReadPidfile, CmdGoto, TypeInv, StopTypes
  <2>3. CASE ProbePort(c)
    BY <2>1, <2>3 DEF ProbePort, CmdGoto, TypeInv, StopTypes
  <2> QED BY <2>2, <2>3
<1>5. AlwaysInv'
  <2>1. PidfileFacts'
    <3>1. \A d \in Command : cmd[d] = "unlink" => cmd'[d] = "unlink"
      BY <1>2
    <3>2. ASSUME NEW d \in Command, cmd'[d] = "kill"
          PROVE  target'[d] \in Pid /\ start[target'[d]] = "written"
      <4>1. CASE d = c
        BY <1>2, <1>4, <3>2, <4>1 DEF OneInv, AlwaysInv, PidfileFacts
      <4>2. CASE d # c
        BY <1>2, <1>4, <3>2, <4>2 DEF OneInv, AlwaysInv, PidfileFacts
      <4> QED BY <4>1, <4>2
    <3> QED BY <1>3, <3>1, <3>2 DEF OneInv, AlwaysInv, PidfileFacts
  <2>2. ASSUME NEW q \in Pid PROVE ServerFacts(q)'
    BY <1>3 DEF OneInv, AlwaysInv, ServerFacts
  <2> QED BY <2>1, <2>2 DEF AlwaysInv
<1>6. ASSUME alone' PROVE AloneInv'
  <2>1. AloneInv
    BY <1>3, <1>6 DEF OneInv
  <2>2. ASSUME NEW q \in Pid PROVE OwnTraces(q)' /\ (ComingUp(q)' => ComingUp(q))
    BY <1>3, <2>1 DEF AloneInv, OwnTraces, ComingUp
  <2>3. \A d \in Command : cmd'[d] \in AtWork => cmd[d] \in AtWork
    BY <1>2
  <2>4. OneCommand'
    BY <2>1, <2>2, <2>3, NoneBegins DEF AloneInv
  <2>5. ASSUME NEW d \in Command PROVE StopFacts(d)'
    <3>1. CASE d = c
      BY <1>2, <1>3, <1>4, <3>1 DEF StopFacts
    <3>2. CASE d # c
      BY <1>2, <1>3, <1>4, <2>1, <3>2 DEF AloneInv, StopFacts
    <3> QED BY <3>1, <3>2
  <2> QED BY <1>3, <2>1, <2>2, <2>4, <2>5 DEF AloneInv, OnlyServersAreSignalled
<1> QED BY <1>5, <1>6 DEF OneInv

\* The signal goes to the server that the pidfile names, and to nothing else.
LEMMA KillInv ==
    ASSUME TypeInv, OneInv, ServerProcessAssumption, NEW c \in Command, Kill(c)
    PROVE  OneInv'
<1> USE StateFacts, CommandFacts
<1>1. PICK p \in Pid : p = target[c] /\ start[p] = "written"
  BY DEF Kill, OneInv, AlwaysInv, PidfileFacts
<1>2. PICK s \in {"unlink", "denied"} : CmdGoto(c, s)
  BY DEF Kill
<1>3. /\ cmd[c] = "kill" /\ cmd'[c] = s
      /\ \A d \in Command \ {c} : cmd'[d] = cmd[d]
  BY <1>2 DEF Kill, CmdGoto, TypeInv, StopTypes
<1>4. UNCHANGED <<start, linked, pidfile, target, alone, unasked, port, shards>>
  BY DEF Kill, launchVars, historyVars
\* What becomes of the process that has the pid.
<1>5. /\ term' \in {term, term \cup {p}} /\ (p \in term' \/ term' = term)
      /\ term' # term => s = "unlink"
      /\ \A q \in Pid \ {p} : server'[q] = server[q]
      /\ server'[p] = server[p] \/ (server[p] \in Early /\ server'[p] = "gone" /\ p \in term')
      /\ server[p] = "serving" => p \in term'
      /\ victims' # victims => server[p] = "foreign"
  <2>1. s = cmd'[c] /\ cmd \in [Command -> CommandState] /\ server \in [Pid -> ServerState]
    BY <1>3 DEF TypeInv, StopTypes, ProcessTypes
  <2>2. CASE Signal(p) /\ CmdGoto(c, "unlink")
    <3>1. s = "unlink"
      BY <2>1, <2>2 DEF CmdGoto
    <3> QED BY <2>1, <2>2, <3>1 DEF Signal, Goto
  <2>3. CASE server[p] \in Ended /\ UNCHANGED <<server, term, victims>>
    BY <2>3
  <2> QED BY <1>1, <2>2, <2>3 DEF Kill
<1>6. AlwaysInv'
  <2>1. PidfileFacts'
    <3>1. \A q \in Pid : pidfile = q => start[q] = "written"
      BY DEF OneInv, AlwaysInv, PidfileFacts
    <3>2. \A d \in Command : cmd'[d] = "kill" => target[d] \in Pid /\ start[target[d]] = "written"
      BY <1>3 DEF OneInv, AlwaysInv, PidfileFacts
    <3>3. ASSUME NEW q \in term'
          PROVE  start[q] = "written" /\ (pidfile = q => \E d \in Command : cmd'[d] = "unlink")
      <4>1. CASE q \in term
        <5>1. \A d \in Command : cmd[d] = "unlink" => cmd'[d] = "unlink"
          BY <1>3
        <5> QED BY <4>1, <5>1 DEF OneInv, AlwaysInv, PidfileFacts
      <4>2. CASE q \notin term
        BY <1>1, <1>3, <1>5, <3>3, <4>2
      <4> QED BY <4>1, <4>2
    <3> QED BY <1>4, <3>1, <3>2, <3>3 DEF PidfileFacts
  <2>2. ASSUME NEW q \in Pid PROVE ServerFacts(q)'
    <3>1. ServerFacts(q)
      BY DEF OneInv, AlwaysInv
    <3>2. CASE q = p
      BY <1>1, <1>4, <1>5, <3>1, <3>2 DEF ServerFacts
    <3>3. CASE q # p
      BY <1>4, <1>5, <3>1, <3>3 DEF ServerFacts
    <3> QED BY <3>2, <3>3
  <2> QED BY <2>1, <2>2 DEF AlwaysInv
<1>7. ASSUME alone PROVE AloneInv'
  <2>1. AloneInv /\ pidfile = p
    BY <1>1, <1>3, <1>7 DEF OneInv, AloneInv, StopFacts
  <2>2. \A d \in Command \ {c} : cmd[d] \notin AtWork /\ cmd'[d] \notin AtWork
    BY <1>3, <2>1 DEF AloneInv, OneCommand
  <2>3. ASSUME NEW q \in Pid PROVE OwnTraces(q)' /\ (ComingUp(q)' => ComingUp(q))
    <3>1. OwnTraces(q)
      BY <2>1 DEF AloneInv
    <3>2. CASE q = p
      BY <1>1, <1>4, <1>5, <3>1, <3>2 DEF OwnTraces, ComingUp
    <3>3. CASE q # p
      BY <1>4, <1>5, <3>1, <3>3 DEF OwnTraces, ComingUp
    <3> QED BY <3>2, <3>3
  <2>4. OneCommand'
    BY <1>3, <2>1, <2>2, <2>3, NoneBegins DEF AloneInv
  <2>5. ASSUME NEW d \in Command PROVE StopFacts(d)'
    <3>1. CASE d # c
      BY <2>2, <3>1 DEF StopFacts
    <3>2. CASE d = c
      <4>1. ASSUME NEW q \in Pid, server'[q] = "serving", start[q] = "written" PROVE q \in term'
        <5>1. server[q] = "serving"
          BY <1>5, <4>1
        <5>2. q = p \/ q \in term
          BY <2>1, <4>1, <5>1 DEF AloneInv, OwnTraces
        <5> QED BY <1>5, <5>1, <5>2
      <4> QED BY <1>3, <1>4, <3>2, <4>1 DEF StopFacts
    <3> QED BY <3>1, <3>2
  <2>6. OnlyServersAreSignalled'
    <3>1. CASE victims' = victims
      BY <1>4, <2>1, <3>1 DEF AloneInv, OnlyServersAreSignalled
    <3>2. CASE victims' # victims
      <4>1. p \in term \/ unasked
        BY <1>5, <3>2 DEF OneInv, AlwaysInv, ServerFacts
      <4>2. p \notin term
        <5>1. \A d \in Command : cmd[d] # "unlink"
          BY <1>3, <2>2
        <5> QED BY <2>1, <5>1 DEF OneInv, AlwaysInv, PidfileFacts
      <4> QED BY <1>4, <4>1, <4>2 DEF OnlyServersAreSignalled
    <3> QED BY <3>1, <3>2
  <2> QED BY <2>3, <2>4, <2>5, <2>6 DEF AloneInv
<1> QED BY <1>4, <1>6, <1>7 DEF OneInv

\* The pidfile that is removed names no server that still listens.
LEMMA UnlinkInv ==
    ASSUME TypeInv, OneInv, ServerProcessAssumption, NEW c \in Command, Unlink(c)
    PROVE  OneInv'
<1> USE CommandFacts
<1>1. /\ cmd[c] \in {"unlink", "invalid"} /\ cmd'[c] = "removed"
      /\ \A d \in Command \ {c} : cmd'[d] = cmd[d]
  BY DEF Unlink, CmdGoto, TypeInv, StopTypes
<1>2. /\ pidfile' = None /\ linked' = {}
      /\ UNCHANGED <<server, term, start, target, victims, alone, unasked, port, shards>>
  BY DEF Unlink, processVars, historyVars
<1>3. AlwaysInv'
  <2>1. PidfileFacts'
    <3>1. \A q \in Pid : pidfile' # q
      BY <1>2 DEF ServerProcessAssumption
    <3>2. \A d \in Command : cmd'[d] = "kill" => cmd[d] = "kill"
      BY <1>1
    <3>3. \A q \in term' : q \in Pid /\ start'[q] = "written"
      BY <1>2 DEF OneInv, AlwaysInv, PidfileFacts, TypeInv, ProcessTypes
    <3> QED BY <1>2, <3>1, <3>2, <3>3 DEF OneInv, AlwaysInv, PidfileFacts
  <2>2. ASSUME NEW q \in Pid PROVE ServerFacts(q)'
    BY <1>2 DEF OneInv, AlwaysInv, ServerFacts
  <2> QED BY <2>1, <2>2 DEF AlwaysInv
<1>4. ASSUME alone PROVE AloneInv'
  <2>1. AloneInv
    BY <1>4 DEF OneInv
  <2>2. /\ \A q \in Pid : ~ComingUp(q)
        /\ \A d \in Command \ {c} : cmd[d] \notin AtWork
    BY <1>1, <2>1 DEF AloneInv, OneCommand
  <2>3. ASSUME NEW q \in Pid PROVE OwnTraces(q)' /\ (ComingUp(q)' => ComingUp(q))
    <3>1. OwnTraces(q) /\ ~ComingUp(q)
      BY <2>1, <2>2 DEF AloneInv
    <3>2. server[q] = "serving" /\ start[q] = "written" => q \in term
      <4>1. CASE cmd[c] = "unlink"
        BY <2>1, <4>1 DEF AloneInv, StopFacts
      <4>2. CASE cmd[c] = "invalid"
        <5>1. pidfile # q
          BY <2>1, <4>2 DEF AloneInv, StopFacts, ServerProcessAssumption
        <5> QED BY <3>1, <5>1 DEF OwnTraces
      <4> QED BY <1>1, <4>1, <4>2
    <3> QED BY <1>2, <3>1, <3>2, LaunchingFacts DEF OwnTraces, ComingUp
  <2>4. OneCommand'
    BY <1>1, <2>1, <2>3, NoneBegins DEF AloneInv
  <2>5. ASSUME NEW d \in Command PROVE StopFacts(d)'
    <3>1. cmd'[d] \notin {"kill", "invalid", "unlink"}
      BY <1>1, <2>2
    <3> QED BY <3>1 DEF StopFacts
  <2> QED BY <1>2, <2>1, <2>3, <2>4, <2>5 DEF AloneInv, OnlyServersAreSignalled
<1> QED BY <1>2, <1>3, <1>4 DEF OneInv

LEMMA OneStep ==
    ASSUME TypeInv, OneInv, ServerProcessAssumption, [Next]_vars
    PROVE  OneInv'
<1>1. CASE UNCHANGED vars
  <2>1. UNCHANGED <<server, term, start, linked, pidfile, cmd, target, victims, port, shards,
                    alone, unasked>>
    BY <1>1 DEF vars, processVars, launchVars, stopVars, historyVars
  <2>2. AlwaysInv'
    BY <2>1 DEF OneInv, AlwaysInv, PidfileFacts, ServerFacts
  <2>3. AloneInv => AloneInv'
    BY <2>1 DEF AloneInv, OneCommand, ComingUp, OwnTraces, StopFacts, OnlyServersAreSignalled
  <2> QED BY <2>1, <2>2, <2>3 DEF OneInv
<1>2. CASE \E p \in Pid : LaunchDetached(p) \/ LaunchForeground(p) \/ LaunchStep(p)
  BY <1>2, LaunchDetachedInv, LaunchForegroundInv, LauncherInv
<1>3. ASSUME NEW p \in Pid, ServerStep(p) PROVE OneInv'
  <2>1. CASE Bind(p)
    BY <2>1, ListenInv, MovesInv
  <2> QED BY <1>3, <2>1, CheckPortInv, BootstrapInv, MovesInv, EndsInv, ShutdownInv DEF ServerStep
<1>4. CASE \E p \in Pid : StartFails(p) \/ Die(p) \/ Recycle(p)
  BY <1>4, EndsInv, RecycleInv
<1>5. CASE \E c \in Command : LookForPidfile(c) \/ StopStep(c)
  BY <1>5, LookInv, ReadInv, KillInv, UnlinkInv DEF StopStep
<1> QED BY <1>1, <1>2, <1>3, <1>4, <1>5 DEF Next

LEMMA OneInit == Init => OneInv
<1> USE StateFacts, LaunchingFacts, CommandFacts
<1>1. SUFFICES ASSUME Init PROVE OneInv
  OBVIOUS
<1>2. /\ \A p \in Pid : server[p] = "none" /\ start[p] = "idle" /\ port # p /\ pidfile # p
      /\ \A c \in Command : cmd[c] = "idle"
      /\ term = {} /\ victims = {}
  <2>1. None \notin Pid
    BY ServerProcessAssumption
  <2> QED BY <1>1, <2>1 DEF Init
<1>3. AlwaysInv
  BY <1>2 DEF AlwaysInv, PidfileFacts, ServerFacts
<1>4. \A p \in Pid : ~ComingUp(p) /\ OwnTraces(p)
  BY <1>2 DEF ComingUp, OwnTraces
<1>5. AloneInv
  BY <1>2, <1>4 DEF AloneInv, OneCommand, StopFacts, OnlyServersAreSignalled
<1> QED BY <1>3, <1>5 DEF OneInv

\* As long as no two commands overlap, and however starts are refused or servers
\* fail and die in between: the pidfile names the server that --nohup started, the
\* server that listens has its metric shards, and --stop signals servers only.
THEOREM CommandsOneAtATime == Spec => []OneAtATime
<1>1. Init => TypeInv /\ OneInv
  BY ServerInit, OneInit, ServerProcessAssumption
<1>2. TypeInv /\ OneInv /\ [Next]_vars => TypeInv' /\ OneInv'
  BY ServerTypeStep, OneStep, ServerProcessAssumption
<1>3. TypeInv /\ OneInv => OneAtATime
  <2>1. SUFFICES ASSUME TypeInv, OneInv, alone
                 PROVE  PidfileNamesTheServer /\ ShardsSurvive /\ OnlyServersAreSignalled
    BY DEF OneAtATime
  <2>2. AloneInv /\ port \in Pid \cup {None} /\ \A p \in Pid : port = p => server[p] = "serving"
    BY <2>1 DEF OneInv, AlwaysInv, ServerFacts, TypeInv, PortTypes
  <2>3. PidfileNamesTheServer
    BY <2>2 DEF AloneInv, OwnTraces, PidfileNamesTheServer
  <2>4. ShardsSurvive
    BY <2>2 DEF AloneInv, OwnTraces, ShardsSurvive
  <2> QED BY <2>2, <2>3, <2>4 DEF AloneInv
<1> QED BY <1>1, <1>2, <1>3, PTL DEF Spec

=============================================================================
