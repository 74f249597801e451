----------------------------- MODULE ClientParts -----------------------------
(* The parts of the client side by side: the daemon with its connections    *)
(* (Daemon), a run of the probe (ProbeAgent), the ask command (AskLoop) and *)
(* the daemon as a process (DaemonProcess).  They share no state: part says *)
(* which of them runs, and the others stay in their initial state.          *)
EXTENDS Daemon

CONSTANTS
    None,
    MaxSteps, MaxAnswer, MaxOutput, Texts, Outputs, Batches,
    Outcomes,
    Pids, Tries

VARIABLES
    part,
    probePc, step, probeCtx, messages, todo, requests, usage, used, answer, failure, refusing, result,
    askPc, wait, late, interrupted, query, had, reply, exit,
    pidFile, proc, signalled, cmd, pid, tries, done

daemonVars == vars
probeVars == <<probePc, step, probeCtx, messages, todo, requests, usage, used, answer, failure, refusing, result>>
askVars == <<askPc, wait, late, interrupted, query, had, reply, exit>>
processVars == <<pidFile, proc, signalled, cmd, pid, tries, done>>
partVars == <<part, daemonVars, probeVars, askVars, processVars>>

Probe == INSTANCE ProbeAgent WITH pc <- probePc, ctx <- probeCtx

Ask == INSTANCE AskLoop WITH pc <- askPc

Process == INSTANCE DaemonProcess

ASSUME PartsAssumption ==
    /\ Probe!ConstantsAreTyped
    /\ Ask!ConstantsAreDistinct
    /\ Process!ConstantsAreDistinct

PartsInit ==
    /\ part \in {"daemon", "probe", "ask", "process"}
    /\ Init
    /\ Probe!Init
    /\ Ask!Init
    /\ Process!Init

InDaemon(A) == part = "daemon" /\ A /\ UNCHANGED <<part, probeVars, askVars, processVars>>
InProbe(A) == part = "probe" /\ A /\ UNCHANGED <<part, daemonVars, askVars, processVars>>
InAsk(A) == part = "ask" /\ A /\ UNCHANGED <<part, daemonVars, probeVars, processVars>>
InProcess(A) == part = "process" /\ A /\ UNCHANGED <<part, daemonVars, probeVars, askVars>>

PartsNext ==
    \/ InDaemon(Next)
    \/ InProbe(Probe!Next)
    \/ InAsk(Ask!Next)
    \/ InProcess(Process!Next)

\* The fairness of the parts.  As only one of them ever has a step, a
\* condition on a disjunction over parts is the conjunction of theirs.
PartsSpec ==
    /\ PartsInit /\ [][PartsNext]_partVars
    /\ WF_partVars(\/ InDaemon(StartRuns)
                   \/ InProbe(Probe!Work)
                   \/ InAsk(Ask!Work)
                   \/ InProcess(Process!Command))
    /\ WF_partVars(InDaemon(Heartbeat) \/ InAsk(Ask!Deadline))
    /\ \A r \in Requests : WF_partVars(InDaemon(RequestRuns(r)))

\* A run keeps its budget, its refusal, the rules of the API and the secrets
\* (ProbeAgent).
ProbeIsSafe == Probe!ProbeIsSafe
\* The exit code of ask tells the truth (AskLoop).
AskIsHonest == Ask!AskIsHonest
\* The commands keep track of the daemon (DaemonProcess).
DaemonsAreKept == Process!DaemonsAreKept

\* Whatever the client runs comes to an end: the probe, the ask command and
\* each daemon command (ProbeAgent, AskLoop, DaemonProcess).
ClientEnds ==
    /\ part = "probe" => Probe!RunEnds
    /\ part = "ask" => Ask!AskEnds
    /\ Process!CommandsReturn
==============================================================================
