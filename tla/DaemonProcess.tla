--------------------------- MODULE DaemonProcess ---------------------------
(* The daemon as a process of the machine (internal/cli/daemon.go and       *)
(* process_unix.go): the commands daemon --detach, daemon stop and daemon   *)
(* status, run one after the other, the processes they start, and the file  *)
(* daemon.pid through which they find each other.  A process writes its id  *)
(* when it starts and removes the file when it leaves; the command that     *)
(* starts it writes the id as well.                                         *)
(*                                                                          *)
(* The file can be written, and no process gets the id of an earlier one.   *)
EXTENDS Integers, FiniteSets

CONSTANTS
    Pids,   \* ids of processes, each used once
    Tries,  \* how often stop looks for the end of the process, 10 in the code
    None

VARIABLES
    pidFile,    \* the content of daemon.pid
    proc,       \* the life of a process
    signalled,  \* processes that have received SIGTERM
    cmd,        \* the command that runs and where it is
    pid,        \* the process the command deals with
    tries,      \* how often stop has looked
    done        \* what the last command has printed

vars == <<pidFile, proc, signalled, cmd, pid, tries, done>>

\* What the values of the constants must keep apart.
ConstantsAreDistinct ==
    /\ Tries \in Nat
    /\ None \notin Pids \cup {"stopped", "not running"}

Alive == {p \in Pids : proc[p] \in {"starting", "running", "stopping", "leaving"}}

\* Processes in which the daemon may still work.
Working == {p \in Alive : proc[p] # "leaving"}

isProcessRunning(p) == p \in Alive

Init ==
    /\ pidFile = None
    /\ proc = [p \in Pids |-> "unborn"]
    /\ signalled = {}
    /\ cmd = "idle"
    /\ pid = None
    /\ tries = 0
    /\ done = None

Return(outcome) == cmd' = "idle" /\ pid' = None /\ tries' = 0 /\ done' = outcome

----------------------------------------------------------------------------
(* daemon --detach.                                                         *)

\* Mutant: a daemon that is already leaving does not count.
DetachUnlessRunning ==
    /\ cmd = "idle"
    /\ IF pidFile # None /\ proc[pidFile] = "running"
       THEN Return("already running")
       ELSE cmd' = "spawn" /\ done' = None /\ UNCHANGED <<pid, tries>>
    /\ UNCHANGED <<pidFile, proc, signalled>>

Detach ==
    /\ cmd = "idle"
    /\ IF pidFile # None /\ isProcessRunning(pidFile)
       THEN Return("already running")
       ELSE cmd' = "spawn" /\ done' = None /\ UNCHANGED <<pid, tries>>
    /\ UNCHANGED <<pidFile, proc, signalled>>

\* cmd.Start; a failure ends the command.
Spawn ==
    /\ cmd = "spawn"
    /\ \/ Return("failed") /\ UNCHANGED proc
       \/ \E p \in Pids :
            /\ proc[p] = "unborn"
            /\ proc' = [proc EXCEPT ![p] = "starting"]
            /\ pid' = p
            /\ cmd' = "write"
            /\ UNCHANGED <<tries, done>>
    /\ UNCHANGED <<pidFile, signalled>>

WritePid ==
    /\ cmd = "write"
    /\ pidFile' = pid
    /\ Return("started")
    /\ UNCHANGED <<proc, signalled>>

----------------------------------------------------------------------------
(* daemon stop and daemon status.                                           *)

\* The file is read; a stale one is removed.
Stop ==
    /\ cmd = "idle"
    /\ IF pidFile = None
       THEN Return("not running") /\ UNCHANGED pidFile
       ELSE IF ~isProcessRunning(pidFile)
       THEN Return("not running") /\ pidFile' = None
       ELSE cmd' = "signal" /\ pid' = pidFile /\ done' = None /\ UNCHANGED <<pidFile, tries>>
    /\ UNCHANGED <<proc, signalled>>

\* SIGTERM; a process that is gone by now makes the command fail.
Signal ==
    /\ cmd = "signal"
    /\ IF isProcessRunning(pid)
       THEN /\ signalled' = signalled \cup {pid}
            /\ cmd' = "wait"
            /\ UNCHANGED <<pid, tries, done>>
       ELSE Return("failed") /\ UNCHANGED signalled
    /\ UNCHANGED <<pidFile, proc>>

\* Every 100 ms the command looks whether the process has ended.
Look ==
    /\ cmd = "wait" /\ tries < Tries
    /\ IF isProcessRunning(pid) THEN tries' = tries + 1 /\ UNCHANGED cmd
       ELSE cmd' = "remove" /\ UNCHANGED tries
    /\ UNCHANGED <<pidFile, proc, signalled, pid, done>>

\* Mutant: the command waits on instead of killing.
KillNot ==
    /\ cmd = "wait" /\ tries = Tries /\ ~isProcessRunning(pid)
    /\ Return("failed")
    /\ UNCHANGED <<pidFile, proc, signalled>>

\* A process that has not ended by then is killed.
Kill ==
    /\ cmd = "wait" /\ tries = Tries
    /\ IF isProcessRunning(pid)
       THEN /\ proc' = [proc EXCEPT ![pid] = "dead"]
            /\ cmd' = "remove"
            /\ UNCHANGED <<pid, tries, done>>
       ELSE Return("failed") /\ UNCHANGED proc
    /\ UNCHANGED <<pidFile, signalled>>

RemovePid ==
    /\ cmd = "remove"
    /\ pidFile' = None
    /\ Return("stopped")
    /\ UNCHANGED <<proc, signalled>>

Status ==
    /\ cmd = "idle" /\ pidFile # None
    /\ IF isProcessRunning(pidFile)
       THEN Return("running") /\ UNCHANGED pidFile
       ELSE Return("not running") /\ pidFile' = None
    /\ UNCHANGED <<proc, signalled>>

----------------------------------------------------------------------------
(* The process of the daemon (executeDaemonForeground).                     *)

Becomes(p, life) == proc' = [proc EXCEPT ![p] = life]

\* The configuration is loaded and the id written.
Starts(p) ==
    /\ proc[p] = "starting"
    /\ Becomes(p, "running")
    /\ pidFile' = p
    /\ UNCHANGED <<signalled, cmd, pid, tries, done>>

\* No usable configuration: the process ends before it writes the file.
StartFails(p) ==
    /\ proc[p] = "starting"
    /\ Becomes(p, "dead")
    /\ UNCHANGED <<pidFile, signalled, cmd, pid, tries, done>>

\* The context ends with the signal, or Start returns with an error.
Stops(p) ==
    /\ proc[p] = "running"
    /\ Becomes(p, "stopping")
    /\ UNCHANGED <<pidFile, signalled, cmd, pid, tries, done>>

\* d.Stop has returned; the deferred RemoveDaemonPID.
RemoveDaemonPID(p) ==
    /\ proc[p] = "stopping"
    /\ Becomes(p, "leaving")
    /\ pidFile' = None
    /\ UNCHANGED <<signalled, cmd, pid, tries, done>>

Exits(p) ==
    /\ proc[p] = "leaving"
    /\ Becomes(p, "dead")
    /\ UNCHANGED <<pidFile, signalled, cmd, pid, tries, done>>

\* The process is killed, or SIGTERM comes before it is handled.
Crashes(p) ==
    /\ p \in Alive
    /\ Becomes(p, "dead")
    /\ UNCHANGED <<pidFile, signalled, cmd, pid, tries, done>>

Command == Spawn \/ WritePid \/ Signal \/ Look \/ Kill \/ RemovePid

Process(p) ==
    Starts(p) \/ StartFails(p) \/ Stops(p) \/ RemoveDaemonPID(p) \/ Exits(p) \/ Crashes(p)

Next == Detach \/ Stop \/ Status \/ Command \/ \E p \in Pids : Process(p)

\* A command goes on until it returns; nothing obliges the daemon to stop.
Fairness == WF_vars(Command)

Spec == Init /\ [][Next]_vars /\ Fairness

----------------------------------------------------------------------------
(* Properties.                                                              *)

\* The type of the state.
TypeOK ==
    /\ pidFile \in Pids \cup {None}
    /\ proc \in [Pids -> {"unborn", "starting", "running", "stopping", "leaving", "dead"}]
    /\ signalled \subseteq Pids
    /\ cmd \in {"idle", "spawn", "write", "signal", "wait", "remove"}
    /\ pid \in Pids \cup {None}
    /\ tries \in 0 .. Tries

\* However daemons start, fail, leave and crash between the commands, two of
\* them never work at once (both would answer for the same member).
OneDaemon == Cardinality(Working) <= 1

\* Between two commands a daemon can be found: the file has its id until it
\* has stopped.  A daemon that the file does not name cannot be stopped.
DaemonIsNamed == cmd = "idle" => \A p \in Working : pidFile = p

\* When stop reports success, or that there is nothing to stop, no daemon
\* works any more.
StopLeavesNone == done \in {"stopped", "not running"} => Working = {}

\* The commands keep track of the daemon: there is one at most, the file names
\* it, and after stop there is none.
DaemonsAreKept == TypeOK /\ OneDaemon /\ DaemonIsNamed /\ StopLeavesNone

\* Every command returns, even when the daemon never reacts to the signal.
CommandsReturn == cmd # "idle" ~> cmd = "idle"
=============================================================================
