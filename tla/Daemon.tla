------------------------------- MODULE Daemon -------------------------------
(***************************************************************************)
(* The client daemon (internal/daemon): the loop of Start that connects,   *)
(* serves, gives a connection up and reconnects; one goroutine per         *)
(* query_request with its queue for a slot; the registry of cancel         *)
(* functions; the status and PID files; and the graceful stop.             *)
(*                                                                         *)
(* Frames, answers and durations are left out.  A timer may fire whenever  *)
(* it is running.                                                          *)
(***************************************************************************)
EXTENDS Naturals, FiniteSets

CONSTANTS
    Requests,       \* query_request frames the Hub may send
    Queries,        \* query ids
    QueryOf,        \* QueryOf[r]: the query r asks for (a drain may repeat one)
    NoRequest,      \* no entry in activeQueries
    Slots,          \* MaxConcurrency
    MaxConns        \* bound on the connections of one life of the daemon

ASSUME DaemonAssumption ==
    /\ IsFiniteSet(Requests)
    /\ QueryOf \in [Requests -> Queries]
    /\ NoRequest \notin Requests
    /\ Slots \in Nat
    /\ MaxConns \in Nat

VARIABLES
    loop,           \* where Start is
    conn,           \* number of the latest connection, 0 before the first
    activeConn,     \* d.activeConn, 0 for nil
    alive,          \* connections that still carry frames
    awaiting,       \* awaitingPong of the current connection
    stop,           \* stopCh is closed
    stopper,        \* where the caller of Stop is
    draining,       \* d.draining
    drained,        \* drainDone is closed
    task,           \* where the goroutine of a request is
    home,           \* connection a request came on
    ctx,            \* state of its queryCtx
    activeQueries,  \* d.activeQueries, by the request whose cancel it holds
    slots,          \* len(d.sem)
    inFlight,       \* counter of d.inFlightWg
    probes,         \* d.activeProbeCount
    seen,           \* connection state a goroutine has read for the status file
    replies,        \* responses to a request that reached the Hub
    file,           \* daemon-status.json and daemon.pid
    cleanedUp       \* d.cleanedUp

connVars == <<conn, activeConn, alive, awaiting>>
stopVars == <<stop, stopper, draining, drained>>
taskVars == <<task, home, ctx, activeQueries, slots, inFlight, probes, seen, replies>>
fileVars == <<file, cleanedUp>>
vars == <<loop, connVars, stopVars, taskVars, fileVars>>

CleanFiles == [pid |-> FALSE, connected |-> FALSE, probes |-> 0]

\* The select loop of connectAndServe runs.
Reading == loop \in {"serving", "draining"}

\* The goroutine holds a slot of the semaphore.
HasSlot(r) == task[r] \in {"slotted", "counted", "running", "answered", "uncounted", "releasing"}

\* The goroutine's cancel function may be in activeQueries.
Registered(r) == HasSlot(r) \/ task[r] \in {"queued", "returning"}

\* The goroutine is counted by inFlightWg.
InFlight(r) == Registered(r) \/ task[r] = "accepted"

Init ==
    /\ loop = "new"
    /\ conn = 0
    /\ activeConn = 0
    /\ alive = {}
    /\ awaiting = FALSE
    /\ stop = FALSE
    /\ stopper = "idle"
    /\ draining = FALSE
    /\ drained = FALSE
    /\ task = [r \in Requests |-> "absent"]
    /\ home = [r \in Requests |-> 0]
    /\ ctx = [r \in Requests |-> "live"]
    /\ activeQueries = [q \in Queries |-> NoRequest]
    /\ slots = 0
    /\ inFlight = 0
    /\ probes = 0
    /\ seen = [r \in Requests |-> FALSE]
    /\ replies = [r \in Requests |-> 0]
    /\ file = CleanFiles
    /\ cleanedUp = TRUE

----------------------------------------------------------------------------
(* The files.                                                               *)

\* Mutant: writes also after the clean-up.
WriteStatusAlways(connected) ==
    /\ file' = [file EXCEPT !.connected = connected, !.probes = probes]
    /\ UNCHANGED cleanedUp

\* writeStatusFile: does nothing once the files have been cleaned up, and
\* reads the number of active probes itself.
WriteStatus(connected) ==
    /\ file' = IF cleanedUp
                 THEN file
                 ELSE [file EXCEPT !.connected = connected, !.probes = probes]
    /\ UNCHANGED cleanedUp

\* cleanupFiles: idempotent.
CleanUpFiles ==
    /\ file' = IF cleanedUp THEN file ELSE CleanFiles
    /\ cleanedUp' = TRUE

\* What a goroutine passes to writeStatusFile.
ConnectionState == activeConn # 0 /\ ~draining

----------------------------------------------------------------------------
(* Start and Stop.                                                          *)

Start ==
    /\ loop = "new"
    /\ loop' = IF stop THEN "exited" ELSE "checked"
    /\ UNCHANGED <<connVars, stopVars, taskVars, fileVars>>

\* Mutant: does not arm the clean-up.
InitFilesUnarmed ==
    /\ loop = "checked"
    /\ loop' = "top"
    /\ file' = [pid |-> TRUE, connected |-> FALSE, probes |-> 0]
    /\ UNCHANGED <<connVars, stopVars, taskVars, cleanedUp>>

InitFiles ==
    /\ loop = "checked"
    /\ loop' = "top"
    /\ file' = [pid |-> TRUE, connected |-> FALSE, probes |-> 0]
    /\ cleanedUp' = FALSE
    /\ UNCHANGED <<connVars, stopVars, taskVars>>

\* requestShutdown, by the caller of Stop or by the end of Start's context,
\* which the loop checks wherever it checks stopCh.
RequestShutdown(by) ==
    /\ IF by = "Stop" THEN stopper = "idle" /\ stopper' = "waiting"
                      ELSE ~stop /\ UNCHANGED stopper
    /\ stop' = TRUE
    /\ UNCHANGED <<loop, connVars, draining, drained, taskVars, fileVars>>

\* Stop has waited for Start, which is only counted once it makes the files,
\* and for at most three seconds for the probes.
StopReturns ==
    /\ stopper = "waiting"
    /\ loop \in {"new", "checked", "exited"}
    /\ stopper' = "returned"
    /\ CleanUpFiles
    /\ UNCHANGED <<loop, connVars, stop, draining, drained, taskVars>>

LoopTop ==
    /\ loop = "top"
    /\ loop' = IF stop THEN "finishing" ELSE "dialing"
    /\ UNCHANGED <<connVars, stopVars, taskVars, fileVars>>

\* After connectAndServe.
AfterServe ==
    /\ loop = "after"
    /\ IF stop THEN loop' = "finishing" /\ UNCHANGED fileVars
               ELSE loop' = "pausing" /\ WriteStatus(FALSE)
    /\ UNCHANGED <<connVars, stopVars, taskVars>>

\* The backoff ends, by its timer or by a stop.
Pause ==
    /\ loop = "pausing"
    /\ loop' = IF stop THEN "finishing" ELSE "top"
    /\ UNCHANGED <<connVars, stopVars, taskVars, fileVars>>

\* The deferred calls of Start: up to three seconds for the probes, then the files.
FinishStart ==
    /\ loop = "finishing"
    /\ loop' = "exited"
    /\ CleanUpFiles
    /\ UNCHANGED <<connVars, stopVars, taskVars>>

----------------------------------------------------------------------------
(* connectAndServe.                                                         *)

Dial ==
    /\ loop = "dialing"
    /\ conn < MaxConns
    /\ loop' = "greeting"
    /\ conn' = conn + 1
    /\ activeConn' = conn + 1
    /\ alive' = alive \cup {conn + 1}
    /\ UNCHANGED <<awaiting, stopVars, taskVars, fileVars>>

DialFails ==
    /\ loop = "dialing"
    /\ loop' = "after"
    /\ UNCHANGED <<connVars, stopVars, taskVars, fileVars>>

\* daemon_hello is written; on a dead connection the write may still succeed.
Greet ==
    /\ loop = "greeting"
    /\ ~stop
    /\ loop' = "serving"
    /\ draining' = FALSE
    /\ WriteStatus(TRUE)
    /\ UNCHANGED <<connVars, stop, stopper, drained, taskVars>>

\* The stop came while dialing, or the hello cannot be written.
GreetFails ==
    /\ loop = "greeting"
    /\ stop \/ conn \notin alive
    /\ loop' = "after"
    /\ activeConn' = 0
    /\ alive' = alive \ {conn}
    /\ UNCHANGED <<conn, awaiting, stopVars, taskVars, fileVars>>

\* stopCh in the select: take no more work, wait for what is in flight.
BeginDrain ==
    /\ loop = "serving"
    /\ stop
    /\ loop' = "draining"
    /\ draining' = TRUE
    /\ UNCHANGED <<connVars, stop, stopper, drained, taskVars, fileVars>>

\* The goroutine that waits on inFlightWg closes drainDone.
DrainWait ==
    /\ loop = "draining"
    /\ ~drained
    /\ inFlight = 0
    /\ drained' = TRUE
    /\ UNCHANGED <<loop, connVars, stop, stopper, draining, taskVars, fileVars>>

\* The select loop returns: connCtx is cancelled, and with it every queryCtx
\* made from it.
GiveUp ==
    /\ loop' = "leaving"
    /\ ctx' = [r \in Requests |->
                 IF home[r] = conn /\ ctx[r] = "live" THEN "cancelled" ELSE ctx[r]]
    /\ awaiting' = FALSE
    /\ UNCHANGED <<conn, activeConn, stopVars, fileVars>>
    /\ UNCHANGED <<task, home, activeQueries, slots, inFlight, probes, seen, replies>>

\* drainDone, or the end of the grace window: the connection is closed first.
DrainEnds(timedOut) ==
    /\ loop = "draining"
    /\ timedOut \/ drained
    /\ alive' = alive \ {conn}
    /\ GiveUp

\* errCh, or a ping that cannot be written.
ConnectionFails ==
    /\ Reading
    /\ conn \notin alive
    /\ UNCHANGED alive
    /\ GiveUp

\* Mutant: sets no deadline for the pong.
PingTickWithoutDeadline ==
    /\ Reading
    /\ UNCHANGED vars

PingTick ==
    /\ Reading
    /\ ~awaiting
    /\ awaiting' = TRUE
    /\ UNCHANGED <<loop, conn, activeConn, alive, stopVars, taskVars, fileVars>>

\* The pong is late, or the last one is 2.5 intervals ago: hub_ack may just have
\* shortened the interval, so that no ping has been sent since.
WatchdogFires(missed) ==
    /\ Reading
    /\ awaiting \/ missed
    /\ UNCHANGED alive
    /\ GiveUp

\* A pong still buffered when the connection dies counts as one before that.
Pong ==
    /\ Reading
    /\ awaiting
    /\ conn \in alive
    /\ awaiting' = FALSE
    /\ WriteStatus(TRUE)
    /\ UNCHANGED <<loop, conn, activeConn, alive, stopVars, taskVars>>

\* hub_ack, perhaps from the buffer of a connection that has died since.
HubAck ==
    /\ Reading
    /\ WriteStatus(TRUE)
    /\ UNCHANGED <<loop, connVars, stopVars, taskVars>>

\* Mutant: takes work during the shutdown.
AcquireProbeAlways == TRUE

\* tryAcquireProbe.
TryAcquireProbe == ~stop /\ ~draining

\* query_request: counted before its goroutine starts, or declined silently.
TakeRequest(r) ==
    /\ Reading
    /\ task[r] = "sent"
    /\ home[r] = conn
    /\ IF TryAcquireProbe
         THEN task' = [task EXCEPT ![r] = "accepted"] /\ inFlight' = inFlight + 1
         ELSE task' = [task EXCEPT ![r] = "declined"] /\ UNCHANGED inFlight
    /\ UNCHANGED <<home, ctx, activeQueries, slots, probes, seen, replies>>
    /\ UNCHANGED <<loop, connVars, stopVars, fileVars>>

\* query_cancel: calls the registered cancel function, if there is one.
QueryCancel(q) ==
    /\ Reading
    /\ activeQueries[q] # NoRequest
    /\ ctx[activeQueries[q]] = "live"
    /\ ctx' = [ctx EXCEPT ![activeQueries[q]] = "cancelled"]
    /\ UNCHANGED <<task, home, activeQueries, slots, inFlight, probes, seen, replies>>
    /\ UNCHANGED <<loop, connVars, stopVars, fileVars>>

\* The deferred calls of connectAndServe: up to three seconds for the probes,
\* then the connection is forgotten and closed.
CloseConnection ==
    /\ loop = "leaving"
    /\ loop' = "after"
    /\ activeConn' = 0
    /\ alive' = alive \ {conn}
    /\ UNCHANGED <<conn, awaiting, stopVars, taskVars, fileVars>>

----------------------------------------------------------------------------
(* handleQueryRequest.                                                      *)

\* The goroutine of r goes to place p.
Goes(r, p) == task' = [task EXCEPT ![r] = p]

\* sendQueryResponse: an error of the write is dropped.
Respond(r) ==
    replies' = IF home[r] \in alive THEN [replies EXCEPT ![r] = @ + 1] ELSE replies

\* The cancel function replaces the one of another request for the same query.
Register(r) ==
    /\ task[r] = "accepted"
    /\ Goes(r, "queued")
    /\ activeQueries' = [activeQueries EXCEPT ![QueryOf[r]] = r]
    /\ UNCHANGED <<home, ctx, slots, inFlight, probes, seen, replies>>
    /\ UNCHANGED <<loop, connVars, stopVars, fileVars>>

\* The timeout of queryCtx.  Later than in the queue for a slot it only ends
\* the probe, as DispatchQuery may do at any time.
Deadline(r) ==
    /\ task[r] = "queued"
    /\ ctx[r] = "live"
    /\ ctx' = [ctx EXCEPT ![r] = "deadline"]
    /\ UNCHANGED <<task, home, activeQueries, slots, inFlight, probes, seen, replies>>
    /\ UNCHANGED <<loop, connVars, stopVars, fileVars>>

\* Mutant: does not wait for a slot.
AcquireSlotUnbounded(r) ==
    /\ task[r] = "queued"
    /\ Goes(r, "slotted")
    /\ slots' = slots + 1
    /\ UNCHANGED <<home, ctx, activeQueries, inFlight, probes, seen, replies>>
    /\ UNCHANGED <<loop, connVars, stopVars, fileVars>>

\* The three branches of the select: more than one may be ready.
AcquireSlot(r) ==
    /\ task[r] = "queued"
    /\ slots < Slots
    /\ Goes(r, "slotted")
    /\ slots' = slots + 1
    /\ UNCHANGED <<home, ctx, activeQueries, inFlight, probes, seen, replies>>
    /\ UNCHANGED <<loop, connVars, stopVars, fileVars>>

\* Mutant: responds and goes on to run the probe.
QueueTimeoutFallsThrough(r) ==
    /\ task[r] = "queued"
    /\ ctx[r] = "deadline"
    /\ Goes(r, "slotted")
    /\ Respond(r)
    /\ UNCHANGED <<home, ctx, activeQueries, slots, inFlight, probes, seen>>
    /\ UNCHANGED <<loop, connVars, stopVars, fileVars>>

QueueTimeout(r) ==
    /\ task[r] = "queued"
    /\ ctx[r] = "deadline"
    /\ Goes(r, "returning")
    /\ Respond(r)
    /\ UNCHANGED <<home, ctx, activeQueries, slots, inFlight, probes, seen>>
    /\ UNCHANGED <<loop, connVars, stopVars, fileVars>>

QueueAbandoned(r) ==
    /\ task[r] = "queued"
    /\ ctx[r] = "cancelled" \/ stop
    /\ Goes(r, "returning")
    /\ UNCHANGED <<home, ctx, activeQueries, slots, inFlight, probes, seen, replies>>
    /\ UNCHANGED <<loop, connVars, stopVars, fileVars>>

\* The count changes, then the connection state is read, then the file is
\* written: d.mu and statusMu are taken one after the other.
Count(r) ==
    /\ task[r] = "slotted"
    /\ Goes(r, "counted")
    /\ probes' = probes + 1
    /\ seen' = [seen EXCEPT ![r] = ConnectionState]
    /\ UNCHANGED <<home, ctx, activeQueries, slots, inFlight, replies>>
    /\ UNCHANGED <<loop, connVars, stopVars, fileVars>>

\* dispatchQuery ends with one response, whatever agent.Run returns.
DispatchQuery(r) ==
    /\ task[r] = "running"
    /\ Goes(r, "answered")
    /\ Respond(r)
    /\ UNCHANGED <<home, ctx, activeQueries, slots, inFlight, probes, seen>>
    /\ UNCHANGED <<loop, connVars, stopVars, fileVars>>

Uncount(r) ==
    /\ task[r] = "answered"
    /\ Goes(r, "uncounted")
    /\ probes' = probes - 1
    /\ seen' = [seen EXCEPT ![r] = ConnectionState]
    /\ UNCHANGED <<home, ctx, activeQueries, slots, inFlight, replies>>
    /\ UNCHANGED <<loop, connVars, stopVars, fileVars>>

ReportProbes(r) ==
    /\ task[r] \in {"counted", "uncounted"}
    /\ Goes(r, IF task[r] = "counted" THEN "running" ELSE "releasing")
    /\ WriteStatus(seen[r])
    /\ seen' = [seen EXCEPT ![r] = FALSE]
    /\ UNCHANGED <<home, ctx, activeQueries, slots, inFlight, probes, replies>>
    /\ UNCHANGED <<loop, connVars, stopVars>>

\* Mutant: keeps the slot.
ReleaseNoSlot(r) ==
    /\ task[r] = "releasing"
    /\ Goes(r, "returning")
    /\ UNCHANGED <<home, ctx, activeQueries, slots, inFlight, probes, seen, replies>>
    /\ UNCHANGED <<loop, connVars, stopVars, fileVars>>

ReleaseSlot(r) ==
    /\ task[r] = "releasing"
    /\ Goes(r, "returning")
    /\ slots' = slots - 1
    /\ UNCHANGED <<home, ctx, activeQueries, inFlight, probes, seen, replies>>
    /\ UNCHANGED <<loop, connVars, stopVars, fileVars>>

\* Mutant: leaves the cancel function behind.
ReturnRegistered(r) ==
    /\ task[r] = "returning"
    /\ Goes(r, "done")
    /\ inFlight' = inFlight - 1
    /\ UNCHANGED <<home, ctx, activeQueries, slots, probes, seen, replies>>
    /\ UNCHANGED <<loop, connVars, stopVars, fileVars>>

\* The entry of the query is deleted, whoever has made it.
Return(r) ==
    /\ task[r] = "returning"
    /\ Goes(r, "done")
    /\ activeQueries' = [activeQueries EXCEPT ![QueryOf[r]] = NoRequest]
    /\ inFlight' = inFlight - 1
    /\ UNCHANGED <<home, ctx, slots, probes, seen, replies>>
    /\ UNCHANGED <<loop, connVars, stopVars, fileVars>>

----------------------------------------------------------------------------
(* The Hub and the network.                                                 *)

HubSends(r) ==
    /\ task[r] = "absent"
    /\ conn \in alive
    /\ Goes(r, "sent")
    /\ home' = [home EXCEPT ![r] = conn]
    /\ UNCHANGED <<ctx, activeQueries, slots, inFlight, probes, seen, replies>>
    /\ UNCHANGED <<loop, connVars, stopVars, fileVars>>

SocketDies ==
    /\ conn \in alive
    /\ alive' = alive \ {conn}
    /\ UNCHANGED <<loop, conn, activeConn, awaiting, stopVars, taskVars, fileVars>>

----------------------------------------------------------------------------
\* The goroutine of Start.
StartRuns ==
    \/ Start \/ InitFiles \/ LoopTop \/ AfterServe \/ Pause \/ FinishStart
    \/ Dial \/ DialFails \/ Greet \/ GreetFails \/ CloseConnection
    \/ BeginDrain \/ DrainEnds(TRUE)

\* Its tickers while it serves.
Heartbeat == PingTick \/ WatchdogFires(FALSE)

\* The way of one request.
RequestRuns(r) ==
    \/ TakeRequest(r)
    \/ Register(r) \/ AcquireSlot(r) \/ QueueTimeout(r) \/ QueueAbandoned(r)
    \/ Count(r) \/ ReportProbes(r) \/ DispatchQuery(r) \/ Uncount(r)
    \/ ReleaseSlot(r) \/ Return(r)

Next ==
    \/ StartRuns
    \/ Heartbeat
    \/ \E by \in {"Stop", "context"} : RequestShutdown(by)
    \/ StopReturns
    \/ DrainWait
    \/ DrainEnds(FALSE)
    \/ WatchdogFires(TRUE)
    \/ ConnectionFails \/ Pong \/ HubAck
    \/ \E q \in Queries : QueryCancel(q)
    \/ \E r \in Requests : RequestRuns(r) \/ Deadline(r) \/ HubSends(r)
    \/ SocketDies

Spec == Init /\ [][Next]_vars

\* Goroutines are scheduled, a select takes every branch that stays ready in
\* the end, tickers and timers fire, and a probe ends (its context has a
\* timeout).  Nothing is assumed of the Hub, the network and the caller of
\* Stop.  Of the steps joined in one fairness condition never two are enabled
\* together, except the branches of the queue for a slot and a dial.
FairSpec ==
    /\ Spec
    /\ WF_vars(StartRuns)
    /\ WF_vars(Heartbeat)
    /\ \A r \in Requests : WF_vars(RequestRuns(r))

----------------------------------------------------------------------------
(* Properties.                                                              *)

\* Every variable has its type.
TypeOK ==
    /\ loop \in {"new", "checked", "top", "dialing", "greeting", "serving", "draining",
                 "leaving", "after", "pausing", "finishing", "exited"}
    /\ conn \in 0 .. MaxConns
    /\ activeConn \in {0, conn}
    /\ alive \subseteq 1 .. MaxConns
    /\ awaiting \in BOOLEAN
    /\ stop \in BOOLEAN
    /\ stopper \in {"idle", "waiting", "returned"}
    /\ draining \in BOOLEAN
    /\ drained \in BOOLEAN
    /\ task \in [Requests -> {"absent", "sent", "declined", "accepted", "queued", "slotted",
                              "counted", "running", "answered", "uncounted", "releasing",
                              "returning", "done"}]
    /\ home \in [Requests -> 0 .. MaxConns]
    /\ ctx \in [Requests -> {"live", "cancelled", "deadline"}]
    /\ activeQueries \in [Queries -> Requests \cup {NoRequest}]
    /\ slots \in 0 .. Slots
    /\ inFlight \in Nat
    /\ probes \in Nat
    /\ seen \in [Requests -> BOOLEAN]
    /\ replies \in [Requests -> Nat]
    /\ file \in [pid : BOOLEAN, connected : BOOLEAN, probes : Nat]
    /\ cleanedUp \in BOOLEAN

\* The concurrency limit holds over the whole life of the daemon: also with
\* probes of a connection that was given up three seconds ago and that have not
\* ended yet, and whichever way a goroutine leaves the queue for a slot.
ConcurrencyLimit == Cardinality({r \in Requests : HasSlot(r)}) <= Slots

\* The semaphore is within its type and the slots within their number.
SlotsAreKept == TypeOK /\ ConcurrencyLimit

\* "leave only when they have all finished" (connectAndServe): once drainDone is
\* closed nothing is in flight, on this or on an older connection, and nothing
\* starts any more.
DrainIsFinal == drained => \A r \in Requests : ~InFlight(r)

\* The files stay clean once they have been cleaned up, although probes that
\* outlive Start still write the status file.
CleanUpIsFinal == cleanedUp => file = CleanFiles

\* While nobody is about to write it, the status file shows the number of
\* probes that run, in whatever order goroutines count and write.
ProbesReported ==
    ~cleanedUp /\ (\A r \in Requests : task[r] \notin {"counted", "uncounted"})
    => file.probes = Cardinality({r \in Requests : task[r] \in {"running", "answered"}})

\* Whoever reads the files of the daemon is told the truth: the number of
\* running probes while it lives, nothing once it has cleaned up.
FilesAreRight == CleanUpIsFinal /\ ProbesReported

\* A cancel function in activeQueries belongs to a goroutine for this query
\* that has not returned: the registry does not grow, whatever way goroutines
\* leave and however requests for one query overlap.
RegistryIsLive ==
    \A q \in Queries :
        activeQueries[q] # NoRequest
        => QueryOf[activeQueries[q]] = q /\ Registered(activeQueries[q])

\* The goroutine of r is past its response, or there is none.
Over(r) == task[r] \in {"declined", "answered", "uncounted", "releasing", "returning", "done"}

\* What the Hub knows of r.
LifeOf(r) ==
    IF task[r] = "absent" THEN "absent"
    ELSE IF replies[r] = 1 THEN "answered"
    ELSE IF replies[r] > 1 THEN "answered twice"
    ELSE IF Over(r) THEN "dropped" ELSE "open"

\* The daemon is stopping, the query is cancelled or its connection given up,
\* or that connection carries no frames any more.
IsExcused(r) == stop \/ ctx[r] = "cancelled" \/ (home[r] # 0 /\ home[r] \notin alive)

Contract == INSTANCE DaemonContract WITH
    life <- [r \in Requests |-> LifeOf(r)],
    excused <- {r \in Requests : IsExcused(r)}

\* Each request is answered at most once, and dropped without an answer only
\* if the daemon is stopping, the query was cancelled, or the connection it
\* came on was given up or lost.
ImplementsContract == Contract!Spec

\* What HubDispatch assumes of a daemon: a request without an excuse is
\* answered, however many wait for a slot and whatever older connections left.
RequestsServed == Contract!Served

\* A stop ends the daemon and leaves clean files for good, wherever the loop is
\* when it comes: before the files exist, dialing, serving, in the backoff.
StopCompletes == stop ~> [](loop = "exited" /\ file = CleanFiles)

\* A connection that silently stopped carrying frames is left in the end: the
\* heartbeat notices what the reader cannot.
DeadConnectionIsLeft ==
    \A c \in 1 .. MaxConns :
        Reading /\ conn = c /\ c \notin alive ~> ~(Reading /\ conn = c)

\* "If Hub sends `query_cancel` [...], the in-flight probe is cancelled
\* immediately" (docs/DESIGN.md:158): a running probe has a cancel function in
\* activeQueries.
Cancellable ==
    \A r \in Requests : task[r] = "running" => activeQueries[QueryOf[r]] # NoRequest
=============================================================================
