---------------------------- MODULE FeishuClient ----------------------------
(* The Feishu long connections of the Hub: WSClient of                      *)
(* internal/feishu/ws_client.go (the goroutine of runLoop with its          *)
(* connection, the goroutines of its data frames, Stop) and the handlers of *)
(* internal/hub/hub.go that save and delete a member's binding, which       *)
(* replace and stop clients.                                                *)
(*                                                                          *)
(* runLoop is a sequence of steps between which Stop may run; a frame is    *)
(* handled by a goroutine of its own and its response goes to the           *)
(* connection it came from, if that is still the active one.  What the      *)
(* frames mean is FeishuEvents' subject.                                    *)
EXTENDS Integers, FiniteSets, FiniteSetsExt

CONSTANTS
    Clients,        \* WSClient objects that may be created
    Ops,            \* binding requests of one member
    Kind,           \* Kind[o]: "save" or "delete"
    Serial,         \* are the requests sent one after the other
    Intervals,      \* ping intervals the server may ask for
    ReconnectCount, \* -1: no limit
    MaxDials,       \* bound of the connections of a client
    MaxFrames,      \* bound of the frames a client handles at a time
    None

ASSUME ClientAssumption ==
    /\ Kind \in [Ops -> {"save", "delete"}]
    /\ Serial \in BOOLEAN
    /\ Intervals \subseteq Nat \ {0} /\ Intervals # {}
    /\ ReconnectCount \in {-1} \cup (Nat \ {0})
    /\ {MaxDials, MaxFrames} \subseteq Nat
    /\ None \notin Clients \cup Nat

VARIABLES
    loop,       \* where runLoop is
    state,      \* state, as Status reports it
    signalled,  \* stopCh is closed and rootCtx is cancelled
    conn,       \* number of the connection runLoop has, 0 for none
    active,     \* activeConn
    alive,      \* the peer has not dropped the connection
    attempt,    \* reconnectAttempt
    dials,      \* number of connections so far
    frames,     \* connections of the frames whose goroutines are running
    ping,       \* clientConfig.PingInterval
    reset,      \* the value in pingResetCh
    ticker,     \* the interval of the ping loop's ticker
    stopping,   \* Stop: "no", "state", "signal", "close", "wait", "done"
    binding,    \* the Store has a binding of the member
    current,    \* feishuClients[member]
    op,         \* where a binding request is
    held        \* the client a request is stopping or has created

client == <<loop, state, signalled, conn, active, alive, attempt, dials, frames, ping, reset, ticker>>

vars == <<client, stopping, binding, current, op, held>>

\* The default of NewWSClient is one of the intervals.
Start == CHOOSE i \in Intervals : TRUE

Set(f, c, v) == [f EXCEPT ![c] = v]

----------------------------------------------------------------------------
Init ==
    /\ loop = [c \in Clients |-> "new"]
    /\ state = [c \in Clients |-> "disconnected"]
    /\ signalled = [c \in Clients |-> FALSE]
    /\ conn = [c \in Clients |-> 0]
    /\ active = [c \in Clients |-> 0]
    /\ alive = [c \in Clients |-> FALSE]
    /\ attempt = [c \in Clients |-> 0]
    /\ dials = [c \in Clients |-> 0]
    /\ frames = [c \in Clients |-> {}]
    /\ ping = [c \in Clients |-> Start]
    /\ reset = [c \in Clients |-> None]
    /\ ticker = [c \in Clients |-> Start]
    /\ stopping = [c \in Clients |-> "no"]
    /\ binding = FALSE
    /\ current = None
    /\ op = [o \in Ops |-> "idle"]
    /\ held = [o \in Ops |-> None]

hubVars == <<binding, current, op, held>>

\* setState never overwrites "stopped".
setState(c, s) == state' = IF state[c] = "stopped" THEN state ELSE Set(state, c, s)

\* Mutant: a full channel keeps its old value.
updateConfigKeepsOld(c, i) ==
    /\ ping' = IF i > 0 THEN Set(ping, c, i) ELSE ping
    /\ reset' = IF ping'[c] = ping[c] \/ reset[c] # None THEN reset ELSE Set(reset, c, i)

\* updateConfig: only a positive interval is taken over, and a new one replaces
\* whatever pingResetCh holds.
updateConfig(c, i) ==
    /\ ping' = IF i > 0 THEN Set(ping, c, i) ELSE ping
    /\ reset' = IF ping'[c] = ping[c] THEN reset ELSE Set(reset, c, i)

LoopStep(c) == UNCHANGED <<signalled, stopping, hubVars>>

\* The top of the loop.
LoopTop(c) ==
    /\ loop[c] = "top"
    /\ IF signalled[c]
       THEN loop' = Set(loop, c, "returned") /\ UNCHANGED state
       ELSE loop' = Set(loop, c, "fetch") /\ setState(c, "connecting")
    /\ UNCHANGED <<conn, active, alive, attempt, dials, frames, ping, reset, ticker>>
    /\ LoopStep(c)

\* FetchEndpoint answers, perhaps with a ClientConfig.
Fetched(c) ==
    /\ loop[c] = "fetch" /\ ~signalled[c]
    /\ loop' = Set(loop, c, "dial")
    /\ \E i \in Intervals \cup {0} : updateConfig(c, i)
    /\ UNCHANGED <<state, conn, active, alive, attempt, dials, frames, ticker>>
    /\ LoopStep(c)

GivesUp(c) == ReconnectCount >= 0 /\ attempt[c] >= ReconnectCount

\* FetchEndpoint or Dial fails: a client error ends the loop, any other error
\* is retried up to ReconnectCount times.  A cancelled rootCtx is an error too.
ConnectFails(c) ==
    /\ loop[c] \in {"fetch", "dial"}
    /\ \/ signalled[c] /\ loop' = Set(loop, c, "returned") /\ UNCHANGED state
       \/ /\ ~signalled[c] /\ (loop[c] = "fetch" \/ GivesUp(c))
          /\ loop' = Set(loop, c, "returned") /\ setState(c, "error")
       \/ /\ ~signalled[c] /\ ~GivesUp(c)
          /\ loop' = Set(loop, c, "sleep") /\ setState(c, "disconnected")
    /\ UNCHANGED <<conn, active, alive, attempt, dials, frames, ping, reset, ticker>>
    /\ LoopStep(c)

\* Dial succeeds, also when Stop has begun meanwhile, and the connection
\* becomes the active one.
Dialled(c) ==
    /\ loop[c] = "dial" /\ dials[c] < MaxDials
    /\ loop' = Set(loop, c, "install")
    /\ dials' = Set(dials, c, dials[c] + 1)
    /\ conn' = Set(conn, c, dials'[c])
    /\ alive' = Set(alive, c, TRUE)
    /\ attempt' = Set(attempt, c, 0)
    /\ UNCHANGED <<state, active, frames, ping, reset, ticker>>
    /\ LoopStep(c)

Install(c) ==
    /\ loop[c] = "install"
    /\ loop' = Set(loop, c, "connected")
    /\ active' = Set(active, c, conn[c])
    /\ UNCHANGED <<state, conn, alive, attempt, dials, frames, ping, reset, ticker>>
    /\ LoopStep(c)

\* serveConnection starts the ping loop with the interval of the moment.
Connected(c) ==
    /\ loop[c] = "connected"
    /\ loop' = Set(loop, c, "serve")
    /\ setState(c, "connected")
    /\ ticker' = Set(ticker, c, ping[c])
    /\ UNCHANGED <<conn, active, alive, attempt, dials, frames, ping, reset>>
    /\ LoopStep(c)

PeerDrops(c) ==
    /\ loop[c] \in {"install", "connected", "serve"} /\ alive[c]
    /\ alive' = Set(alive, c, FALSE)
    /\ UNCHANGED <<loop, state, conn, active, attempt, dials, frames, ping, reset, ticker>>
    /\ LoopStep(c)

\* A data frame: the read loop starts a goroutine for it.
DataFrame(c) ==
    /\ loop[c] = "serve" /\ alive[c] /\ ~signalled[c]
    /\ Cardinality(frames[c]) < MaxFrames
    /\ frames' = Set(frames, c, frames[c] \cup {conn[c]})
    /\ UNCHANGED <<loop, state, conn, active, alive, attempt, dials, ping, reset, ticker>>
    /\ LoopStep(c)

\* A pong may carry a ClientConfig.
Pong(c) ==
    /\ loop[c] = "serve" /\ alive[c] /\ ~signalled[c]
    /\ \E i \in Intervals \cup {0} : updateConfig(c, i)
    /\ UNCHANGED <<loop, state, conn, active, alive, attempt, dials, frames, ticker>>
    /\ LoopStep(c)

\* The ping loop receives from pingResetCh.
ResetTicker(c) ==
    /\ loop[c] = "serve" /\ reset[c] # None
    /\ ticker' = Set(ticker, c, reset[c])
    /\ reset' = Set(reset, c, None)
    /\ UNCHANGED <<loop, state, conn, active, alive, attempt, dials, frames, ping>>
    /\ LoopStep(c)

\* Mutant: only a read error ends the connection, not stopCh.
ServeEndsOnErrorOnly(c) ==
    /\ loop[c] = "serve" /\ ~alive[c]
    /\ loop' = Set(loop, c, "close")
    /\ active' = Set(active, c, 0)
    /\ UNCHANGED <<state, conn, alive, attempt, dials, frames, ping, reset, ticker>>
    /\ LoopStep(c)

\* The read fails or stopCh is closed; serveConnection has joined its two
\* goroutines, and the connection is no longer active.
ServeEnds(c) ==
    /\ loop[c] = "serve" /\ (~alive[c] \/ signalled[c])
    /\ loop' = Set(loop, c, "close")
    /\ active' = Set(active, c, 0)
    /\ UNCHANGED <<state, conn, alive, attempt, dials, frames, ping, reset, ticker>>
    /\ LoopStep(c)

\* After a connection reconnectAttempt is 0 and the limit is not: the check of
\* ReconnectCount never ends the loop here.
CloseConn(c) ==
    /\ loop[c] = "close"
    /\ conn' = Set(conn, c, 0)
    /\ alive' = Set(alive, c, FALSE)
    /\ IF signalled[c]
       THEN loop' = Set(loop, c, "returned") /\ UNCHANGED state
       ELSE loop' = Set(loop, c, "sleep") /\ setState(c, "disconnected")
    /\ UNCHANGED <<active, attempt, dials, frames, ping, reset, ticker>>
    /\ LoopStep(c)

\* sleepBackoff; a client that has used up MaxDials stays here.
Awake(c) ==
    /\ loop[c] = "sleep"
    /\ \/ signalled[c] /\ loop' = Set(loop, c, "returned") /\ UNCHANGED attempt
       \/ /\ ~signalled[c] /\ dials[c] < MaxDials
          /\ loop' = Set(loop, c, "top")
          /\ attempt' = Set(attempt, c, attempt[c] + 1)
    /\ UNCHANGED <<state, conn, active, alive, dials, frames, ping, reset, ticker>>
    /\ LoopStep(c)

\* processDataFrame ends; its response is written if n is still active.
FrameDone(c, n) ==
    /\ n \in frames[c]
    /\ frames' = Set(frames, c, frames[c] \ {n})
    /\ UNCHANGED <<loop, state, conn, active, alive, attempt, dials, ping, reset, ticker>>
    /\ LoopStep(c)

----------------------------------------------------------------------------
(* Stop: the state, the signal, the close of the active connection, the     *)
(* wait for runLoop and for the frames.                                     *)

StopState(c) ==
    /\ stopping[c] = "state"
    /\ stopping' = Set(stopping, c, "signal")
    /\ state' = IF state[c] = "error" THEN state ELSE Set(state, c, "stopped")
    /\ UNCHANGED <<loop, signalled, conn, active, alive, attempt, dials, frames, ping, reset, ticker, hubVars>>

StopSignal(c) ==
    /\ stopping[c] = "signal"
    /\ stopping' = Set(stopping, c, "close")
    /\ signalled' = Set(signalled, c, TRUE)
    /\ UNCHANGED <<loop, state, conn, active, alive, attempt, dials, frames, ping, reset, ticker, hubVars>>

StopClose(c) ==
    /\ stopping[c] = "close"
    /\ stopping' = Set(stopping, c, "wait")
    /\ alive' = IF active[c] # 0 THEN Set(alive, c, FALSE) ELSE alive
    /\ UNCHANGED <<loop, state, signalled, conn, active, attempt, dials, frames, ping, reset, ticker, hubVars>>

\* Mutant: Stop waits for runLoop only.
StopWaitLoopOnly(c) ==
    /\ stopping[c] = "wait" /\ loop[c] \in {"new", "returned"}
    /\ stopping' = Set(stopping, c, "done")
    /\ UNCHANGED <<client, hubVars>>

StopWait(c) ==
    /\ stopping[c] = "wait" /\ loop[c] \in {"new", "returned"} /\ frames[c] = {}
    /\ stopping' = Set(stopping, c, "done")
    /\ UNCHANGED <<client, hubVars>>

----------------------------------------------------------------------------
(* handleFeishuBindingSave and handleFeishuBindingDelete.                   *)

\* The Store is changed first.
OpStore(o) ==
    /\ op[o] = "idle"
    /\ Serial => \A p \in Ops : op[p] \in {"idle", "over"}
    /\ op' = Set(op, o, "take")
    /\ binding' = (Kind[o] = "save")
    /\ UNCHANGED <<client, stopping, current, held>>

\* Under feishuMu the member's client is taken out of the map.
OpTake(o) ==
    /\ op[o] = "take"
    /\ held' = Set(held, o, current)
    /\ current' = None
    /\ op' = Set(op, o, "stop")
    /\ UNCHANGED <<client, stopping, binding>>

\* Mutant: the old client is left running.
OpStopSkipped(o) ==
    /\ op[o] = "stop"
    /\ op' = Set(op, o, IF Kind[o] = "save" THEN "start" ELSE "over")
    /\ UNCHANGED <<client, stopping, binding, current, held>>

\* Outside feishuMu it is stopped, and the request waits for Stop.
OpStop(o) ==
    /\ op[o] = "stop"
    /\ IF held[o] # None /\ stopping[held[o]] # "done"
       THEN /\ stopping[held[o]] = "no"
            /\ stopping' = Set(stopping, held[o], "state")
            /\ UNCHANGED op
       ELSE /\ op' = Set(op, o, IF Kind[o] = "save" THEN "start" ELSE "over")
            /\ UNCHANGED stopping
    /\ UNCHANGED <<client, binding, current, held>>

\* A new client is created and started.
OpStart(o) ==
    /\ op[o] = "start"
    /\ \E c \in Clients :
        /\ loop[c] = "new"
        /\ loop' = Set(loop, c, "top")
        /\ held' = Set(held, o, c)
    /\ op' = Set(op, o, "put")
    /\ UNCHANGED <<state, signalled, conn, active, alive, attempt, dials, frames, ping, reset, ticker>>
    /\ UNCHANGED <<stopping, binding, current>>

\* It is put into the map, over whatever is there.
OpPut(o) ==
    /\ op[o] = "put"
    /\ current' = held[o]
    /\ op' = Set(op, o, "over")
    /\ UNCHANGED <<client, stopping, binding, held>>

RunLoop(c) ==
    \/ LoopTop(c) \/ Fetched(c) \/ ConnectFails(c) \/ Dialled(c) \/ Install(c)
    \/ Connected(c) \/ ServeEnds(c) \/ CloseConn(c) \/ Awake(c)

Serve(c) == PeerDrops(c) \/ DataFrame(c) \/ Pong(c) \/ ResetTicker(c)

Stop(c) == StopState(c) \/ StopSignal(c) \/ StopClose(c) \/ StopWait(c)

Request(o) == OpStore(o) \/ OpTake(o) \/ OpStop(o) \/ OpStart(o) \/ OpPut(o)

Next ==
    \/ \E c \in Clients :
        \/ RunLoop(c) \/ Serve(c) \/ Stop(c)
        \/ \E n \in frames[c] : FrameDone(c, n)
    \/ \E o \in Ops : Request(o)

Spec == Init /\ [][Next]_vars

\* Goroutines run, and an event handler ends (its context has a timeout and
\* Stop cancels it).
FairSpec ==
    /\ Spec
    /\ \A c \in Clients :
        /\ WF_vars(RunLoop(c)) /\ WF_vars(Stop(c))
        /\ \A n \in 1 .. MaxDials : WF_vars(FrameDone(c, n))
    /\ \A o \in Ops : WF_vars(OpTake(o) \/ OpStop(o) \/ OpStart(o) \/ OpPut(o))

----------------------------------------------------------------------------
(* Properties.                                                              *)

Loop == {"new", "top", "fetch", "dial", "install", "connected", "serve", "close", "sleep", "returned"}

State == {"connecting", "connected", "disconnected", "error", "stopped"}

\* The type of the clients' and of the requests' state.
TypeOK ==
    /\ loop \in [Clients -> Loop]
    /\ state \in [Clients -> State]
    /\ signalled \in [Clients -> BOOLEAN]
    /\ conn \in [Clients -> 0 .. MaxDials]
    /\ active \in [Clients -> 0 .. MaxDials]
    /\ alive \in [Clients -> BOOLEAN]
    /\ attempt \in [Clients -> Nat]
    /\ dials \in [Clients -> 0 .. MaxDials]
    /\ frames \in [Clients -> SUBSET (1 .. MaxDials)]
    /\ ping \in [Clients -> Intervals]
    /\ reset \in [Clients -> Intervals \cup {None}]
    /\ ticker \in [Clients -> Intervals]
    /\ stopping \in [Clients -> {"no", "state", "signal", "close", "wait", "done"}]
    /\ binding \in BOOLEAN
    /\ current \in Clients \cup {None}
    /\ op \in [Ops -> {"idle", "take", "stop", "start", "put", "over"}]
    /\ held \in [Ops -> Clients \cup {None}]

\* When Stop has returned the client is silent: runLoop is gone, no frame is
\* being handled, no connection is left open, and Status says so for good,
\* even if Stop came between a Dial and the installation of its connection.
StopIsClean ==
    \A c \in Clients : stopping[c] = "done" =>
        /\ loop[c] \in {"new", "returned"}
        /\ frames[c] = {} /\ conn[c] = 0 /\ active[c] = 0
        /\ state[c] \in {"stopped", "error"}

\* The ping loop follows the server's interval: what it uses, or what it will
\* receive next, is the latest, also when intervals change while no connection
\* is served.
PingFollowsConfig ==
    \A c \in Clients : loop[c] = "serve" =>
        IF reset[c] = None THEN ticker[c] = ping[c] ELSE reset[c] = ping[c]

Quiet == \A o \in Ops : op[o] \in {"idle", "over"}

\* Between binding requests the member has a running client exactly when it
\* has a binding, and it is the one in the map: no client of an older binding
\* goes on receiving.
OneClientPerBinding ==
    Quiet =>
        /\ {c \in Clients : loop[c] # "new" /\ stopping[c] # "done"}
            = IF current = None THEN {} ELSE {current}
        /\ binding <=> current # None

\* Each binding is served by one client, and the state is well-typed.
BindingsAreServed == TypeOK /\ OneClientPerBinding

\* A binding request ends: the Stop it waits for returns, wherever the old
\* client was.
RequestsEnd == \A o \in Ops : (op[o] = "take") ~> (op[o] = "over")
=============================================================================
