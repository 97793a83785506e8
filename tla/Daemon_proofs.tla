--------------------------- MODULE Daemon_proofs ---------------------------
(***************************************************************************)
(* The pid file protocol, for any number of processes, users and failures. *)
(***************************************************************************)
EXTENDS Daemon, TLAPS

-----------------------------------------------------------------------------
(* The inductive invariant.  Its parts after the first hold until somebody *)
(* is hasty.                                                               *)

(* A start, alone or the second half of a restart, ends the command.       *)
StartIsLast == \A u \in Users : script[u].step \in {"start", "exec"} => ~script[u].again

One == \A p, q \in Pids : alive(p) /\ alive(q) => p = q

Named == \A p \in Pids : alive(p) /\ at[p] \notin Startup => pidfile = p

(* While a daemon starts there is no pid file and no command under way.    *)
StartupAlone ==
    \A p \in Pids : at[p] \in Startup =>
       /\ pidfile = NoFile
       /\ \A u \in Users : script[u] = Idle

OneCommand == \A u, v \in Users : script[u] # Idle /\ script[v] # Idle => u = v

(* What start found out still holds when it starts the daemon.             *)
ExecAlone ==
    \A u \in Users : script[u].step = "exec" =>
       /\ pidfile = NoFile
       /\ \A p \in Pids : ~alive(p)

Orderly == One /\ Named /\ StartupAlone /\ OneCommand /\ ExecAlone

(* A process that has not installed its handler has not heard of SIGTERM.  *)
Unsignalled == \A p \in Pids : at[p] \in {"unborn", "born"} => ~termed[p] /\ ~handled[p]

IInv == TypeOK /\ Unsignalled /\ StartIsLast /\ (~hasty => Orderly)

-----------------------------------------------------------------------------
(* No file, nobody alive, nobody busy.                                     *)
LEMMA InitOK == Init => IInv
<1> SUFFICES ASSUME Init PROVE IInv
  OBVIOUS
<1> USE DEF Init
<1>1. TypeOK
  <2>1. crashes \in 0 .. MaxCrash
    BY DaemonAssumption DEF DaemonAssumption
  <2>2. script \in [Users -> [step : {"idle", "start", "exec", "stop", "kill"}, again : BOOLEAN]]
    BY DEF Idle
  <2>3. /\ at \in [Pids -> Living \cup {"unborn", "dead"}]
        /\ run \in [Pids -> BOOLEAN] /\ handled \in [Pids -> BOOLEAN]
        /\ termed \in [Pids -> BOOLEAN] /\ hasty \in BOOLEAN /\ pidfile \in {NoFile}
    OBVIOUS
  <2>4. \A p \in Pids : ~termed[p]
    OBVIOUS
  <2> HIDE DEF Init
  <2> QED
    BY <2>1, <2>2, <2>3, <2>4 DEF TypeOK
<1>2. Unsignalled /\ StartIsLast
  BY DEF Unsignalled, StartIsLast, Idle
<1>3. Orderly
  BY DEF Orderly, One, Named, StartupAlone, OneCommand, ExecAlone, alive, Living, Startup, Idle
<1> QED
  BY <1>1, <1>2, <1>3 DEF IInv

(* One living process that goes one step further keeps the order, if it    *)
(* writes its pid file on leaving the startup and touches it otherwise     *)
(* only to remove it.                                                      *)
LEMMA Moves ==
    ASSUME IInv, NEW p \in Pids, alive(p), NEW to \in Living \cup {"dead"},
           at' = [at EXCEPT ![p] = to],
           UNCHANGED <<script, hasty>>,
           to \in Startup => at[p] \in Startup /\ pidfile' \in {pidfile, NoFile},
           to \in Living \ Startup =>
              pidfile' = p \/ (at[p] \notin Startup /\ pidfile' = pidfile)
    PROVE  StartIsLast' /\ (~hasty' => Orderly')
<1>1. StartIsLast'
  BY DEF IInv, StartIsLast
<1> SUFFICES ASSUME ~hasty PROVE Orderly'
  BY <1>1
<1>2. One /\ Named /\ StartupAlone /\ OneCommand /\ ExecAlone
  BY DEF IInv, Orderly
<1>3. at \in [Pids -> Living \cup {"unborn", "dead"}]
  BY DEF IInv, TypeOK
<1>4. at'[p] = to /\ \A q \in Pids : q # p => at'[q] = at[q] /\ ~alive(q) /\ ~alive(q)'
  BY <1>2, <1>3 DEF One, alive
<1>5. One'
  BY <1>4 DEF One
<1>6. Named'
  BY <1>2, <1>4 DEF Named, alive
<1>7. StartupAlone'
  BY <1>2, <1>4 DEF StartupAlone, alive, Living
<1>8. \A u \in Users : script[u].step # "exec"
  BY <1>2 DEF ExecAlone
<1>9. OneCommand' /\ ExecAlone'
  BY <1>2, <1>8 DEF OneCommand, ExecAlone
<1> QED
  BY <1>5, <1>6, <1>7, <1>9 DEF Orderly

-----------------------------------------------------------------------------
(* main.                                                                   *)

(* A step of main keeps the types.                                         *)
LEMMA MainTypes ==
    ASSUME TypeOK, Unsignalled, NEW p \in Pids, alive(p), NEW to \in Living \cup {"dead"},
           to # "born",
           at' = [at EXCEPT ![p] = to],
           pidfile' \in {pidfile, NoFile, p},
           UNCHANGED <<script, termed, hasty>>,
           \/ UNCHANGED <<run, handled>>
           \/ /\ at[p] = "born"
              /\ run' = [run EXCEPT ![p] = TRUE]
              /\ handled' = [handled EXCEPT ![p] = TRUE],
           UNCHANGED crashes \/ Fault
    PROVE  TypeOK' /\ Unsignalled'
<1>1. crashes' \in 0 .. MaxCrash
  BY DaemonAssumption DEF TypeOK, DaemonAssumption, Fault
<1>2. at' \in [Pids -> Living \cup {"unborn", "dead"}]
  BY DEF TypeOK
<1>3. /\ pidfile' \in Pids \cup {NoFile}
      /\ run' \in [Pids -> BOOLEAN] /\ handled' \in [Pids -> BOOLEAN]
  BY DEF TypeOK
<1>4. \A q \in Pids : termed'[q] /\ alive(q)' => ~handled'[q]
  BY DEF TypeOK, Unsignalled, alive
<1>5. Unsignalled'
  BY DEF TypeOK, Unsignalled, alive, Living, Startup
<1> QED
  BY <1>1, <1>2, <1>3, <1>4, <1>5 DEF TypeOK

(* Each step of main, with the kernel's, preserves the invariant.          *)
LEMMA MainOK ==
    ASSUME IInv, NEW p \in Pids, Main(p) \/ AddressFound(p) \/ Crash(p)
    PROVE  IInv'
<1> USE DEF Living, Startup
<1>0. TypeOK /\ Unsignalled
  BY DEF IInv
<1>1. ASSUME NEW to \in Living \cup {"dead"}, alive(p), to # "born",
             at' = [at EXCEPT ![p] = to],
             UNCHANGED <<script, termed, hasty>>,
             \/ UNCHANGED <<run, handled>>
             \/ /\ at[p] = "born"
                /\ run' = [run EXCEPT ![p] = TRUE]
                /\ handled' = [handled EXCEPT ![p] = TRUE],
             UNCHANGED crashes \/ Fault,
             pidfile' \in {pidfile, NoFile, p},
             to \in Startup => at[p] \in Startup /\ pidfile' \in {pidfile, NoFile},
             to \in Living \ Startup =>
                pidfile' = p \/ (at[p] \notin Startup /\ pidfile' = pidfile)
      PROVE  IInv'
  <2> HIDE DEF Living, Startup
  <2>1. TypeOK' /\ Unsignalled'
    BY <1>0, <1>1, MainTypes
  <2>2. StartIsLast' /\ (~hasty' => Orderly')
    BY <1>1, Moves
  <2> QED
    BY <2>1, <2>2 DEF IInv
<1>2. CASE Signals(p)
  BY <1>1, <1>2 DEF Signals, Go, alive
<1>3. CASE Detach(p)
  BY <1>1, <1>3 DEF Detach, Go, alive, proc
<1>4. CASE UnlinkOld(p)
  BY <1>1, <1>4 DEF UnlinkOld, Go, alive, proc
<1>5. CASE WritePid(p)
  BY <1>1, <1>5 DEF WritePid, Go, alive, proc
<1>6. CASE InitSerial(p)
  BY <1>1, <1>6 DEF InitSerial, Go, alive, proc
<1>7. CASE AddressFound(p)
  BY <1>1, <1>7 DEF AddressFound, Go, alive, proc
<1>8. CASE LeaveLoop(p)
  BY <1>1, <1>8 DEF LeaveLoop, Go, alive, proc
<1>9. CASE Close(p)
  BY <1>1, <1>9 DEF Close, Go, alive, proc
<1>10. CASE UnlinkPid(p)
  BY <1>1, <1>10 DEF UnlinkPid, Go, alive, proc
<1>11. CASE Crash(p)
  BY <1>1, <1>11 DEF Crash, alive, proc
<1> QED
  BY <1>2, <1>3, <1>4, <1>5, <1>6, <1>7, <1>8, <1>9, <1>10, <1>11 DEF Main

-----------------------------------------------------------------------------
(* The init script.                                                        *)

(* A user's next step in the script keeps the types.                       *)
LEMMA ScriptTypes ==
    ASSUME TypeOK, NEW u \in Users,
           NEW step \in {"idle", "start", "exec", "stop", "kill"}, NEW again \in BOOLEAN,
           script' = [script EXCEPT ![u] = [step |-> step, again |-> again]]
    PROVE  /\ script' \in [Users -> [step : {"idle", "start", "exec", "stop", "kill"},
                                     again : BOOLEAN]]
           /\ script'[u] = [step |-> step, again |-> again]
           /\ \A v \in Users : v # u => script'[v] = script[v]
  BY DEF TypeOK

(* What Goes and Ends do, as a whole record.                               *)
LEMMA GoesIs ==
    ASSUME TypeOK, NEW u \in Users, NEW step, Goes(u, step)
    PROVE  script' = [script EXCEPT ![u] = [step |-> step, again |-> script[u].again]]
<1>1. script[u] \in [step : {"idle", "start", "exec", "stop", "kill"}, again : BOOLEAN]
  BY DEF TypeOK
<1>2. [script[u] EXCEPT !.step = step] = [step |-> step, again |-> script[u].again]
  BY <1>1
<1> QED
  BY <1>2 DEF Goes

(* What the end of a command leaves of it: nothing, or the start of a      *)
(* restart.                                                                *)
LEMMA EndsIs ==
    ASSUME NEW u \in Users, TypeOK, Ends(u)
    PROVE  \/ ~script[u].again /\ script' = [script EXCEPT ![u] = Idle]
           \/ /\ script[u].again
              /\ script' = [script EXCEPT ![u] = [step |-> "start", again |-> FALSE]]
  BY DEF Ends, TypeOK

(* A step of the script that starts no daemon and leaves the pid file      *)
(* alone keeps the order, if it gets to exec only without a pid file.      *)
LEMMA ScriptMoves ==
    ASSUME IInv, NEW u \in Users,
           NEW step \in {"idle", "start", "exec", "stop", "kill"}, NEW again \in BOOLEAN,
           script' = [script EXCEPT ![u] = [step |-> step, again |-> again]],
           step \in {"idle", "start", "exec"} => ~again,
           \/ script[u] # Idle
           \/ ~hasty' => /\ \A p \in Pids : at[p] \notin Startup
                         /\ \A v \in Users : script[v] = Idle,
           step = "exec" => pidfile = NoFile,
           UNCHANGED pidfile,
           \A p \in Pids : at'[p] = at[p] \/ at'[p] = "dead",
           ~hasty' => ~hasty
    PROVE  StartIsLast' /\ (~hasty' => Orderly')
<1>0. TypeOK /\ StartIsLast
  BY DEF IInv
<1>1. /\ script'[u] = [step |-> step, again |-> again]
      /\ \A v \in Users : v # u => script'[v] = script[v]
  BY <1>0, ScriptTypes
<1>2. StartIsLast'
  BY <1>0, <1>1 DEF StartIsLast
<1> SUFFICES ASSUME ~hasty' PROVE Orderly'
  BY <1>2
<1>3. One /\ Named /\ StartupAlone /\ OneCommand /\ ExecAlone
  BY DEF IInv, Orderly
<1>4. \A p \in Pids : at[p] \notin Startup
  BY <1>3 DEF StartupAlone
<1>5. \A v \in Users : v # u => script'[v] = Idle
  BY <1>1, <1>3 DEF OneCommand
<1>6. \A p \in Pids : alive(p)' => alive(p)
  BY DEF alive, Living, Startup
<1>7. One' /\ Named' /\ StartupAlone'
  <2>1. One'
    BY <1>3, <1>6 DEF One
  <2>2. Named'
    BY <1>3, <1>6 DEF Named, alive, Living, Startup
  <2>3. StartupAlone'
    BY <1>4 DEF StartupAlone, Startup
  <2> QED
    BY <2>1, <2>2, <2>3
<1>8. OneCommand'
  BY <1>5 DEF OneCommand
<1>9. ExecAlone'
  <2> SUFFICES ASSUME NEW v \in Users, script'[v].step = "exec", NEW p \in Pids, alive(p)'
               PROVE  FALSE
    BY <1>1, <1>5 DEF ExecAlone, Idle
  <2>1. v = u /\ step = "exec" /\ pidfile = NoFile
    BY <1>1, <1>5 DEF Idle
  <2>2. pidfile = p
    BY <1>3, <1>4, <1>6 DEF Named
  <2> QED
    BY <2>1, <2>2, DaemonAssumption DEF DaemonAssumption, NoFile
<1> QED
  BY <1>7, <1>8, <1>9 DEF Orderly

(* A step of the script that touches no process, or only ends one.         *)
LEMMA ScriptOnly ==
    ASSUME IInv, NEW u \in Users,
           NEW step \in {"idle", "start", "exec", "stop", "kill"}, NEW again \in BOOLEAN,
           script' = [script EXCEPT ![u] = [step |-> step, again |-> again]],
           step \in {"idle", "start", "exec"} => ~again,
           \/ script[u] # Idle
           \/ ~hasty' => /\ \A p \in Pids : at[p] \notin Startup
                         /\ \A v \in Users : script[v] = Idle,
           step = "exec" => pidfile = NoFile,
           hasty' \in BOOLEAN, ~hasty' => ~hasty,
           UNCHANGED <<pidfile, crashes, procs>>
    PROVE  IInv'
<1>0. TypeOK /\ Unsignalled
  BY DEF IInv
<1>1. TypeOK' /\ Unsignalled'
  BY <1>0, ScriptTypes DEF TypeOK, Unsignalled, alive, procs
<1>2. StartIsLast' /\ (~hasty' => Orderly')
  BY ScriptMoves DEF procs
<1> QED
  BY <1>1, <1>2 DEF IInv

(* A command, hasty or not, preserves the invariant.                       *)
LEMMA CommandOK ==
    ASSUME IInv, NEW u \in Users, Command(u)
    PROVE  IInv'
<1>1. PICK c \in {"start", "stop"}, again \in BOOLEAN :
         (again => c = "stop")
         /\ script' = [script EXCEPT ![u] = [step |-> c, again |-> again]]
  BY DEF Command
<1>2. ~hasty' => /\ ~hasty
                 /\ \A p \in Pids : at[p] \notin Startup
                 /\ \A v \in Users : script[v] = Idle
  BY Zenon DEF Command
<1>3. hasty' \in BOOLEAN
  BY DEF Command, IInv, TypeOK
<1> QED
  BY <1>1, <1>2, <1>3, ScriptOnly DEF Command

(* start's look at the pid file preserves the invariant.                   *)
LEMMA StartOK ==
    ASSUME IInv, NEW u \in Users, Start(u)
    PROVE  IInv'
<1>0. /\ TypeOK /\ script[u].step = "start" /\ script[u].again = FALSE /\ script[u] # Idle
      /\ UNCHANGED <<pidfile, crashes, hasty, procs>> /\ hasty \in BOOLEAN
  BY DEF IInv, StartIsLast, Start, files, Idle, TypeOK
<1>1. CASE pidfile = NoFile /\ Goes(u, "exec")
  <2>1. script' = [script EXCEPT ![u] = [step |-> "exec", again |-> FALSE]]
    BY <1>0, <1>1, GoesIs
  <2> QED
    BY <1>0, <1>1, <2>1, ScriptOnly
<1>2. CASE Ends(u)
  BY <1>0, <1>2, EndsIs, ScriptOnly DEF Idle
<1> QED
  BY <1>1, <1>2 DEF Start

(* stop's look at the pid file preserves the invariant.                    *)
LEMMA StopOK ==
    ASSUME IInv, NEW u \in Users, Stop(u)
    PROVE  IInv'
<1>0. /\ TypeOK /\ script[u].step = "stop" /\ script[u] # Idle /\ script[u].again \in BOOLEAN
      /\ UNCHANGED <<pidfile, crashes, hasty, procs>> /\ hasty \in BOOLEAN
  BY DEF IInv, Stop, files, Idle, TypeOK
<1>1. CASE Goes(u, "kill")
  BY <1>0, <1>1, GoesIs, ScriptOnly
<1>2. CASE Ends(u)
  BY <1>0, <1>2, EndsIs, ScriptOnly DEF Idle
<1> QED
  BY <1>1, <1>2 DEF Stop

(* SIGTERM to the process the pid file names preserves the invariant,      *)
(* whether the process is there, handles it or dies of it.                 *)
LEMMA KillOK ==
    ASSUME IInv, NEW u \in Users, Kill(u)
    PROVE  IInv'
<1>0. /\ TypeOK /\ Unsignalled /\ script[u].step = "kill" /\ script[u] # Idle
      /\ UNCHANGED <<pidfile, crashes, hasty>> /\ hasty \in BOOLEAN
  BY DEF IInv, Kill, files, Idle, TypeOK
<1>1. PICK step \in {"idle", "start"} :
         script' = [script EXCEPT ![u] = [step |-> step, again |-> FALSE]]
  BY <1>0, EndsIs DEF Kill, Idle
<1>2. CASE pidfile = NoFile /\ UNCHANGED procs
  BY <1>0, <1>1, <1>2, ScriptOnly
<1>3. CASE pidfile # NoFile /\ sig_term(pidfile)
  <2>1. pidfile \in Pids
    BY <1>0, <1>3 DEF TypeOK
  <2>2. \A p \in Pids : at'[p] = at[p] \/ at'[p] = "dead"
    BY <1>0, <1>3, <2>1 DEF sig_term, Terminated, TypeOK, procs
  <2>3. TypeOK' /\ Unsignalled'
    <3>1. script' \in [Users -> [step : {"idle", "start", "exec", "stop", "kill"},
                                 again : BOOLEAN]]
      BY <1>0, <1>1, ScriptTypes
    <3>2. /\ at' \in [Pids -> Living \cup {"unborn", "dead"}]
          /\ run' \in [Pids -> BOOLEAN] /\ handled' \in [Pids -> BOOLEAN]
          /\ termed' \in [Pids -> BOOLEAN]
      BY <1>0, <1>3, <2>1 DEF sig_term, Terminated, TypeOK, procs
    <3>3. \A p \in Pids : termed'[p] /\ alive(p)' => ~handled'[p]
      BY <1>0, <1>3, <2>1 DEF sig_term, Terminated, TypeOK, procs, alive, Living, Startup
    <3>4. Unsignalled'
      BY <1>0, <1>3, <2>1 DEF sig_term, Terminated, TypeOK, Unsignalled, procs
    <3> QED
      BY <1>0, <3>1, <3>2, <3>3, <3>4 DEF TypeOK
  <2>4. StartIsLast' /\ (~hasty' => Orderly')
    BY <1>0, <1>1, <2>2, ScriptMoves
  <2> QED
    BY <2>3, <2>4 DEF IInv
<1> QED
  BY <1>2, <1>3 DEF Kill

(* A daemon is born, in an orderly world as the only one.                  *)
LEMMA ExecOK ==
    ASSUME IInv, NEW u \in Users, Exec(u)
    PROVE  IInv'
<1>0. /\ TypeOK /\ Unsignalled /\ StartIsLast
      /\ script[u].step = "exec" /\ ~script[u].again /\ script[u] # Idle
      /\ UNCHANGED <<pidfile, hasty, run, handled, termed>> /\ hasty \in BOOLEAN
  BY DEF IInv, StartIsLast, Exec, Idle, TypeOK
<1>1. script' = [script EXCEPT ![u] = [step |-> "idle", again |-> FALSE]]
  BY <1>0, EndsIs DEF Exec, Idle
<1>2. CASE Fault /\ UNCHANGED at
  <2>1. TypeOK' /\ Unsignalled'
    <3>1. crashes' \in 0 .. MaxCrash
      BY <1>0, <1>2, DaemonAssumption DEF TypeOK, DaemonAssumption, Fault
    <3> QED
      BY <1>0, <1>1, <1>2, <3>1, ScriptTypes DEF TypeOK, Unsignalled, alive
  <2>2. StartIsLast' /\ (~hasty' => Orderly')
    BY <1>0, <1>1, <1>2, ScriptMoves
  <2> QED
    BY <2>1, <2>2 DEF IInv
<1>3. ASSUME NEW p \in Pids, Go(p, "unborn", "born"), UNCHANGED crashes PROVE IInv'
  <2>1. /\ at[p] = "unborn" /\ at'[p] = "born"
        /\ at' \in [Pids -> Living \cup {"unborn", "dead"}]
        /\ \A q \in Pids : q # p => at'[q] = at[q]
    BY <1>0, <1>3 DEF Go, TypeOK, Living, Startup
  <2>2. TypeOK' /\ Unsignalled'
    <3>1. script' \in [Users -> [step : {"idle", "start", "exec", "stop", "kill"},
                                 again : BOOLEAN]]
      BY <1>0, <1>1, ScriptTypes
    <3>2. Unsignalled' /\ \A q \in Pids : termed'[q] /\ alive(q)' => ~handled'[q]
      BY <1>0, <2>1 DEF Unsignalled, TypeOK, alive
    <3> QED
      BY <1>0, <1>3, <2>1, <3>1, <3>2 DEF TypeOK
  <2>3. /\ script'[u] = Idle
        /\ \A v \in Users : v # u => script'[v] = script[v]
    BY <1>0, <1>1, ScriptTypes DEF Idle
  <2>4. StartIsLast'
    BY <1>0, <2>3 DEF StartIsLast, Idle
  <2>5. ASSUME ~hasty PROVE Orderly'
    <3>1. OneCommand /\ ExecAlone
      BY <2>5 DEF IInv, Orderly
    <3>2. pidfile = NoFile /\ \A q \in Pids : ~alive(q)
      BY <1>0, <3>1 DEF ExecAlone
    <3>3. \A v \in Users : script'[v] = Idle
      BY <1>0, <2>3, <3>1 DEF OneCommand
    <3>4. \A q \in Pids : q # p => ~alive(q)'
      BY <2>1, <3>2 DEF alive
    <3>5. One' /\ Named'
      BY <2>1, <3>4 DEF One, Named, Startup
    <3>6. StartupAlone'
      BY <1>0, <3>2, <3>3 DEF StartupAlone
    <3>7. OneCommand' /\ ExecAlone'
      BY <3>3 DEF OneCommand, ExecAlone, Idle
    <3> QED
      BY <3>5, <3>6, <3>7 DEF Orderly
  <2> QED
    BY <1>0, <2>2, <2>4, <2>5 DEF IInv
<1> QED
  BY <1>2, <1>3 DEF Exec

-----------------------------------------------------------------------------
(* Every step of a process or a user preserves the invariant.              *)
LEMMA NextOK == IInv /\ [Next]_vars => IInv'
<1> SUFFICES ASSUME IInv, [Next]_vars PROVE IInv'
  OBVIOUS
<1>1. ASSUME NEW p \in Pids, Main(p) \/ AddressFound(p) \/ Crash(p) PROVE IInv'
  BY <1>1, MainOK
<1>2. ASSUME NEW u \in Users, Script(u) PROVE IInv'
  BY <1>2, CommandOK, StartOK, ExecOK, StopOK, KillOK DEF Script
<1>3. CASE UNCHANGED vars
  BY <1>3 DEF vars, IInv, TypeOK, Unsignalled, StartIsLast, Orderly, One, Named,
              StartupAlone, OneCommand, ExecAlone, alive
<1> QED
  BY <1>1, <1>2, <1>3 DEF Next

(* The invariant holds whatever crashes and whoever is hasty.              *)
THEOREM Invariant == Spec => []IInv
  BY InitOK, NextOK, PTL DEF Spec

(* A process that got SIGTERM and lives has given up its handler, so that  *)
(* the next one ends it.                                                   *)
THEOREM TypeCorrect == Spec => []TypeOK
  BY Invariant, PTL DEF IInv

(* While every command waits for the one before to take effect, there is   *)
(* one daemon at most, whatever crashes and whatever files it leaves.      *)
THEOREM OneDaemonOnly == Spec => []OneDaemon
<1>1. IInv => OneDaemon
  BY DEF IInv, Orderly, One, OneDaemon
<1> QED
  BY <1>1, Invariant, PTL

(* And the pid file names it from the end of its startup to its own end.   *)
THEOREM PidFileAlwaysNames == Spec => []PidFileNamesDaemon
<1>1. IInv => PidFileNamesDaemon
  BY DEF IInv, Orderly, Named, PidFileNamesDaemon
<1> QED
  BY <1>1, Invariant, PTL
=============================================================================
