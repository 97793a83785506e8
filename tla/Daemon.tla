------------------------------- MODULE Daemon -------------------------------
(***************************************************************************)
(* The life of the router daemon: the init script a140808.init starts and  *)
(* stops it by way of the pid file, main (daemon.c) writes and removes the *)
(* file, signals end the process in an orderly way or at once.  What the   *)
(* daemon does in its worker loop is the subject of WebSock; a turn of it  *)
(* and ws_close take a bounded time.                                       *)
(*                                                                         *)
(* Pids are not used twice.  Commands of the script run one at a time for  *)
(* each user of it; a hasty one is given while another is running or a     *)
(* daemon is still on its way to its pid file.                             *)
(***************************************************************************)
EXTENDS Integers

CONSTANTS Pids,      \* bound: processes
          Users,     \* who runs the init script
          MaxCrash   \* bound: crashes and failures of system calls

ASSUME DaemonAssumption ==
    /\ 0 \notin Pids
    /\ MaxCrash \in Nat

VARIABLES pidfile,  \* what /var/run/a140808.pid holds, 0 if it is not there
          at,       \* where main is
          run,      \* s_run
          handled,  \* whether SIGTERM goes to sig_term
          script,   \* where each user's run of the script is
          termed,   \* ghost: sig_term was called
          hasty,    \* ghost: a hasty command was given
          crashes   \* ghost: what failed

vars == <<pidfile, at, run, handled, script, termed, hasty, crashes>>

NoFile == 0
Idle   == [step |-> "idle", again |-> FALSE]

Startup == {"born", "detach", "unlink", "write"}
Living  == Startup \cup {"serial", "address", "loop", "close", "clean"}
alive(p) == at[p] \in Living

Init ==
    /\ pidfile = NoFile
    /\ at = [p \in Pids |-> "unborn"]
    /\ run = [p \in Pids |-> FALSE]
    /\ handled = [p \in Pids |-> FALSE]
    /\ script = [u \in Users |-> Idle]
    /\ termed = [p \in Pids |-> FALSE]
    /\ hasty = FALSE /\ crashes = 0

-----------------------------------------------------------------------------
(* main, from fork to exit.                                                *)

proc == <<run, handled, script, termed, hasty>>

Go(p, from, to) == at[p] = from /\ at' = [at EXCEPT ![p] = to]
Fault == crashes < MaxCrash /\ crashes' = crashes + 1

Signals(p) ==
    /\ Go(p, "born", "detach")
    /\ run' = [run EXCEPT ![p] = TRUE]
    /\ handled' = [handled EXCEPT ![p] = TRUE]
    /\ UNCHANGED <<pidfile, script, termed, hasty, crashes>>

(* /dev/null, setsid, chdir                                                *)
Detach(p) ==
    /\ \/ Go(p, "detach", "unlink") /\ UNCHANGED crashes
       \/ Go(p, "detach", "dead") /\ Fault
    /\ UNCHANGED <<pidfile, proc>>

UnlinkOld(p) ==
    /\ Go(p, "unlink", "write")
    /\ pidfile' = NoFile
    /\ UNCHANGED <<proc, crashes>>

WritePid(p) ==
    /\ \/ Go(p, "write", "serial") /\ pidfile' = p /\ UNCHANGED crashes
       \/ Go(p, "write", "dead") /\ Fault /\ UNCHANGED pidfile
    /\ UNCHANGED proc

(* mp_init; when it fails main returns and the pid file stays              *)
InitSerial(p) ==
    /\ \/ Go(p, "serial", "address") /\ UNCHANGED crashes
       \/ Go(p, "serial", "dead") /\ Fault
    /\ UNCHANGED <<pidfile, proc>>

(* The wait for an address, whatever s_run says, then ws_connect.          *)
AddressFound(p) ==
    /\ Go(p, "address", "loop")
    /\ UNCHANGED <<pidfile, proc, crashes>>

(* while(s_run) ws_poll()                                                  *)
LeaveLoop(p) ==
    /\ Go(p, "loop", "close")
    /\ ~run[p]
    /\ UNCHANGED <<pidfile, proc, crashes>>

(* Faulty variant: the pid file is removed first.                          *)
CloseUnlinks(p) ==
    /\ Go(p, "close", "clean")
    /\ pidfile' = NoFile
    /\ UNCHANGED <<proc, crashes>>

(* ws_close, mp_close                                                      *)
Close(p) ==
    /\ Go(p, "close", "clean")
    /\ UNCHANGED <<pidfile, proc, crashes>>

UnlinkPid(p) ==
    /\ Go(p, "clean", "dead")
    /\ pidfile' = NoFile
    /\ UNCHANGED <<proc, crashes>>

Crash(p) ==
    /\ alive(p)
    /\ at' = [at EXCEPT ![p] = "dead"]
    /\ Fault
    /\ UNCHANGED <<pidfile, proc>>

-----------------------------------------------------------------------------
(* a140808.init; again: the command is restart, a start is to follow.      *)

files == <<pidfile, crashes, hasty>>
procs == <<at, run, handled, termed>>

Command(u) ==
    /\ script[u] = Idle
    /\ \E c \in {"start", "stop"}, again \in BOOLEAN :
          /\ again => c = "stop"
          /\ script' = [script EXCEPT ![u] = [step |-> c, again |-> again]]
    /\ hasty' = \/ hasty
                \/ \E p \in Pids : at[p] \in Startup
                \/ \E v \in Users : script[v] # Idle
    /\ UNCHANGED <<pidfile, crashes, procs>>

Goes(u, step) == script' = [script EXCEPT ![u].step = step]
Ends(u) == script' = [script EXCEPT ![u] = IF @.again THEN [step |-> "start", again |-> FALSE]
                                                     ELSE Idle]

(* Faulty variant: start does not look for the pid file.                   *)
StartBlindly(u) ==
    /\ script[u].step = "start"
    /\ Goes(u, "exec")
    /\ UNCHANGED <<files, procs>>

(* [ ! -f /var/run/a140808.pid ]                                           *)
Start(u) ==
    /\ script[u].step = "start"
    /\ \/ pidfile = NoFile /\ Goes(u, "exec")
       \/ pidfile # NoFile /\ Ends(u)
    /\ UNCHANGED <<files, procs>>

(* /usr/bin/a140808, which forks                                           *)
Exec(u) ==
    /\ script[u].step = "exec"
    /\ Ends(u)
    /\ \/ \E p \in Pids : Go(p, "unborn", "born") /\ UNCHANGED crashes
       \/ Fault /\ UNCHANGED at
    /\ UNCHANGED <<pidfile, run, handled, termed, hasty>>

Stop(u) ==
    /\ script[u].step = "stop"
    /\ \/ pidfile # NoFile /\ Goes(u, "kill")
       \/ pidfile = NoFile /\ Ends(u)
    /\ UNCHANGED <<files, procs>>

(* What SIGTERM does to p when sig_term leaves s_run at r and the signal    *)
(* handled or not: without a handler it is the end.                        *)
Terminated(p, r, h) ==
    \/ /\ alive(p) /\ handled[p]
       /\ run' = [run EXCEPT ![p] = r]
       /\ handled' = [handled EXCEPT ![p] = h]
       /\ termed' = [termed EXCEPT ![p] = TRUE]
       /\ UNCHANGED at
    \/ /\ alive(p) /\ ~handled[p]
       /\ at' = [at EXCEPT ![p] = "dead"]
       /\ UNCHANGED <<run, handled, termed>>
    \/ /\ ~alive(p)
       /\ UNCHANGED procs

(* Faulty variant: the worker loop goes on.                                *)
sig_term_goes_on(p) == Terminated(p, run[p], FALSE)

(* s_run = false, SIG_DFL                                                  *)
sig_term(p) == Terminated(p, FALSE, FALSE)

(* kill $(cat /var/run/a140808.pid), which fails if the file has gone      *)
Kill(u) ==
    /\ script[u].step = "kill"
    /\ Ends(u)
    /\ \/ pidfile # NoFile /\ sig_term(pidfile)
       \/ pidfile = NoFile /\ UNCHANGED procs
    /\ UNCHANGED files

-----------------------------------------------------------------------------
Main(p) ==
    \/ Signals(p) \/ Detach(p) \/ UnlinkOld(p) \/ WritePid(p) \/ InitSerial(p)
    \/ LeaveLoop(p) \/ Close(p) \/ UnlinkPid(p)

Script(u) == Command(u) \/ Start(u) \/ Exec(u) \/ Stop(u) \/ Kill(u)

Next ==
    \/ \E p \in Pids : Main(p) \/ AddressFound(p) \/ Crash(p)
    \/ \E u \in Users : Script(u)

Spec == Init /\ [][Next]_vars

(* Processes run.  Whether there ever is an address is not theirs to say.  *)
FairSpec == Spec /\ \A p \in Pids : WF_vars(Main(p))

-----------------------------------------------------------------------------
(* The pid file holds a pid that was given out; a process that got SIGTERM *)
(* and lives on has its handler uninstalled.                               *)
TypeOK ==
    /\ pidfile \in Pids \cup {NoFile}
    /\ at \in [Pids -> Living \cup {"unborn", "dead"}]
    /\ run \in [Pids -> BOOLEAN] /\ handled \in [Pids -> BOOLEAN]
    /\ script \in [Users -> [step : {"idle", "start", "exec", "stop", "kill"}, again : BOOLEAN]]
    /\ termed \in [Pids -> BOOLEAN] /\ hasty \in BOOLEAN /\ crashes \in 0 .. MaxCrash
    /\ \A p \in Pids : termed[p] /\ alive(p) => ~handled[p]

(* Unless someone was hasty there is one daemon at most, through crashes,  *)
(* stale pid files, double stops and restarts that overlap a slow exit.    *)
OneDaemon == ~hasty => \A p, q \in Pids : alive(p) /\ alive(q) => p = q

(* And stop can find it: from its start to its very end the pid file is    *)
(* there and names it.                                                     *)
PidFileNamesDaemon ==
    ~hasty => \A p \in Pids : alive(p) /\ at[p] \notin Startup => pidfile = p

(* "received SIGTERM, exiting...": a daemon that says so exits, unless it  *)
(* waits for the address of its interface for ever, for that wait does not *)
(* look at s_run.                                                          *)
TermExits == \A p \in Pids : termed[p] ~> (~alive(p) \/ [](at[p] = "address"))
=============================================================================
