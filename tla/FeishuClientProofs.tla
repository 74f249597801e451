------------------------- MODULE FeishuClientProofs -------------------------
(* Proofs about the Feishu long connections: a client that has been stopped *)
(* is silent, the ping loop follows the server's interval, and the requests *)
(* of a member that come one after the other leave one client per binding.  *)
EXTENDS FeishuClient, TLAPS

\* A connection exists while runLoop serves it, and is the active one only
\* between its installation and the end of serveConnection.
ConnectionsAreOwned ==
    \A c \in Clients :
        /\ (conn[c] # 0) <=> loop[c] \in {"install", "connected", "serve", "close"}
        /\ active[c] # 0 => loop[c] \in {"connected", "serve"}

\* A client that was not started has nothing, and nobody stops it.
NewIsUntouched ==
    /\ \A c \in Clients : loop[c] = "new" => frames[c] = {} /\ stopping[c] = "no"
    /\ current # None => loop[current] # "new"
    /\ \A o \in Ops : held[o] # None => loop[held[o]] # "new"

\* "error" is the state of a loop that has returned, and Stop leaves either
\* that or "stopped".
StopIsSeen ==
    \A c \in Clients :
        /\ state[c] = "error" => loop[c] = "returned"
        /\ stopping[c] \in {"signal", "close", "wait", "done"} => state[c] \in {"stopped", "error"}
        /\ stopping[c] = "done" => loop[c] \in {"new", "returned"} /\ frames[c] = {}

\* Whatever waits in pingResetCh is the latest interval, served or not.
ResetIsLatest ==
    \A c \in Clients :
        /\ reset[c] # None => reset[c] = ping[c]
        /\ loop[c] = "serve" /\ reset[c] = None => ticker[c] = ping[c]

\* A Stop that runs is the one a request waits for.
StopsAreRequested ==
    \A c \in Clients : stopping[c] \notin {"no", "done"} =>
        \E o \in Ops : op[o] = "stop" /\ held[o] = c

ClientInv ==
    /\ TypeOK /\ ConnectionsAreOwned /\ NewIsUntouched /\ StopIsSeen /\ ResetIsLatest
    /\ StopsAreRequested

\* The clients that receive.
Running == {c \in Clients : loop[c] # "new" /\ stopping[c] # "done"}

Only(c) == IF c = None THEN {} ELSE {c}

\* What a request has made true when it is at a step: the client it has taken
\* out is the only one that may run until it has stopped it, and the one it
\* has started is the only one afterwards.
RequestAt(o) ==
    /\ op[o] = "take" => Running = Only(current) /\ (binding <=> Kind[o] = "save")
    /\ op[o] \in {"stop", "start", "put"} => current = None /\ (binding <=> Kind[o] = "save")
    /\ op[o] = "stop" => Running \subseteq Only(held[o])
    /\ op[o] = "start" => Running = {} /\ Kind[o] = "save"
    /\ op[o] = "put" => held[o] # None /\ Running = {held[o]} /\ Kind[o] = "save"

\* One request at a time.
OneRequest ==
    \A o, p \in Ops : o # p => op[o] \in {"idle", "over"} \/ op[p] \in {"idle", "over"}

BindingInv ==
    /\ OneRequest
    /\ \A o \in Ops : RequestAt(o)
    /\ OneClientPerBinding

----------------------------------------------------------------------------
(* The invariant of the clients.                                            *)

LEMMA ClientInit == Init => ClientInv
  <1>1. Start \in Intervals /\ MaxDials \in Nat
    BY ClientAssumption DEF Start
  <1> SUFFICES ASSUME Init PROVE ClientInv
    OBVIOUS
  <1>2. 0 \in 0 .. MaxDials
    BY <1>1
  <1>3. TypeOK
    BY <1>1, <1>2 DEF Init, TypeOK, Loop, State
  <1>4. QED
    BY <1>3, ClientAssumption DEF Init, ClientInv, ConnectionsAreOwned, NewIsUntouched,
       StopIsSeen, ResetIsLatest, StopsAreRequested

\* Only a positive interval of the server is taken over, and it is what the
\* ping loop will receive.
LEMMA ConfigUpdates ==
    ASSUME TypeOK, NEW c \in Clients, NEW i \in Intervals \cup {0}, updateConfig(c, i)
    PROVE  /\ ping' \in [Clients -> Intervals] /\ reset' \in [Clients -> Intervals \cup {None}]
           /\ \A d \in Clients : d # c => ping'[d] = ping[d] /\ reset'[d] = reset[d]
           /\ \/ ping'[c] = ping[c] /\ reset'[c] = reset[c]
              \/ reset'[c] = ping'[c]
  BY ClientAssumption DEF TypeOK, updateConfig, Set

LEMMA RunLoopPreserves ==
    ASSUME ClientInv, NEW c \in Clients, RunLoop(c)
    PROVE  ClientInv'
  <1> USE ClientAssumption DEF ClientInv, LoopStep, hubVars, Set, setState
  <1>1. CASE LoopTop(c)
    <2>1. TypeOK'
      BY <1>1 DEF LoopTop, TypeOK, Loop, State
    <2>2. ConnectionsAreOwned' /\ NewIsUntouched'
      BY <1>1 DEF LoopTop, TypeOK, Loop, ConnectionsAreOwned, NewIsUntouched
    <2>3. StopIsSeen' /\ StopsAreRequested'
      BY <1>1 DEF LoopTop, TypeOK, Loop, State, StopIsSeen, StopsAreRequested
    <2>4. ResetIsLatest'
      BY <1>1 DEF LoopTop, TypeOK, ResetIsLatest
    <2>5. QED
      BY <2>1, <2>2, <2>3, <2>4
  <1>2. CASE Fetched(c)
    <2>1. PICK i \in Intervals \cup {0} : updateConfig(c, i)
      BY <1>2 DEF Fetched
    <2>2. TypeOK'
      BY <1>2, <2>1, ConfigUpdates DEF Fetched, TypeOK, Loop, State
    <2>3. ConnectionsAreOwned' /\ NewIsUntouched'
      BY <1>2, <2>1, ConfigUpdates DEF Fetched, TypeOK, Loop, ConnectionsAreOwned, NewIsUntouched
    <2>4. StopIsSeen' /\ StopsAreRequested'
      BY <1>2, <2>1, ConfigUpdates DEF Fetched, TypeOK, Loop, State, StopIsSeen, StopsAreRequested
    <2>5. ResetIsLatest'
      BY <1>2, <2>1, ConfigUpdates DEF Fetched, TypeOK, ResetIsLatest
    <2>6. QED
      BY <2>2, <2>3, <2>4, <2>5
  <1>3. CASE ConnectFails(c)
    <2>1. TypeOK'
      BY <1>3 DEF ConnectFails, TypeOK, Loop, State
    <2>2. ConnectionsAreOwned' /\ NewIsUntouched'
      BY <1>3 DEF ConnectFails, TypeOK, Loop, ConnectionsAreOwned, NewIsUntouched
    <2>3. StopIsSeen' /\ StopsAreRequested'
      BY <1>3 DEF ConnectFails, TypeOK, Loop, State, StopIsSeen, StopsAreRequested
    <2>4. ResetIsLatest'
      BY <1>3 DEF ConnectFails, TypeOK, ResetIsLatest
    <2>5. QED
      BY <2>1, <2>2, <2>3, <2>4
  <1>4. CASE Dialled(c)
    BY <1>4 DEF Dialled, TypeOK, Loop, State, ConnectionsAreOwned, NewIsUntouched,
       StopIsSeen, ResetIsLatest, StopsAreRequested
  <1>5. CASE Install(c)
    BY <1>5 DEF Install, TypeOK, Loop, State, ConnectionsAreOwned, NewIsUntouched,
       StopIsSeen, ResetIsLatest, StopsAreRequested
  <1>6. CASE Connected(c)
    BY <1>6 DEF Connected, TypeOK, Loop, State, ConnectionsAreOwned, NewIsUntouched,
       StopIsSeen, ResetIsLatest, StopsAreRequested
  <1>7. CASE ServeEnds(c)
    BY <1>7 DEF ServeEnds, TypeOK, Loop, State, ConnectionsAreOwned, NewIsUntouched,
       StopIsSeen, ResetIsLatest, StopsAreRequested
  <1>8. CASE CloseConn(c)
    <2>1. TypeOK'
      BY <1>8 DEF CloseConn, TypeOK, Loop, State
    <2>2. ConnectionsAreOwned' /\ NewIsUntouched'
      BY <1>8 DEF CloseConn, TypeOK, Loop, ConnectionsAreOwned, NewIsUntouched
    <2>3. StopIsSeen' /\ StopsAreRequested'
      BY <1>8 DEF CloseConn, TypeOK, Loop, State, StopIsSeen, StopsAreRequested
    <2>4. ResetIsLatest'
      BY <1>8 DEF CloseConn, TypeOK, ResetIsLatest
    <2>5. QED
      BY <2>1, <2>2, <2>3, <2>4
  <1>9. CASE Awake(c)
    <2>1. TypeOK'
      BY <1>9 DEF Awake, TypeOK, Loop, State
    <2>2. ConnectionsAreOwned' /\ NewIsUntouched'
      BY <1>9 DEF Awake, TypeOK, Loop, ConnectionsAreOwned, NewIsUntouched
    <2>3. StopIsSeen' /\ StopsAreRequested'
      BY <1>9 DEF Awake, TypeOK, Loop, State, StopIsSeen, StopsAreRequested
    <2>4. ResetIsLatest'
      BY <1>9 DEF Awake, TypeOK, ResetIsLatest
    <2>5. QED
      BY <2>1, <2>2, <2>3, <2>4
  <1>10. QED
    BY <1>1, <1>2, <1>3, <1>4, <1>5, <1>6, <1>7, <1>8, <1>9 DEF RunLoop

LEMMA ServePreserves ==
    ASSUME ClientInv, NEW c \in Clients, Serve(c) \/ \E n \in frames[c] : FrameDone(c, n)
    PROVE  ClientInv'
  <1> USE ClientAssumption DEF ClientInv, LoopStep, hubVars, Set
  <1>1. CASE PeerDrops(c)
    BY <1>1 DEF PeerDrops, TypeOK, Loop, State, ConnectionsAreOwned, NewIsUntouched,
       StopIsSeen, ResetIsLatest, StopsAreRequested
  <1>2. CASE DataFrame(c)
    BY <1>2 DEF DataFrame, TypeOK, Loop, State, ConnectionsAreOwned, NewIsUntouched,
       StopIsSeen, ResetIsLatest, StopsAreRequested
  <1>3. CASE Pong(c)
    <2>1. PICK i \in Intervals \cup {0} : updateConfig(c, i)
      BY <1>3 DEF Pong
    <2>2. TypeOK'
      BY <1>3, <2>1, ConfigUpdates DEF Pong, TypeOK, Loop, State
    <2>3. ConnectionsAreOwned' /\ NewIsUntouched'
      BY <1>3, <2>1, ConfigUpdates DEF Pong, TypeOK, Loop, ConnectionsAreOwned, NewIsUntouched
    <2>4. StopIsSeen' /\ StopsAreRequested'
      BY <1>3, <2>1, ConfigUpdates DEF Pong, TypeOK, Loop, State, StopIsSeen, StopsAreRequested
    <2>5. ResetIsLatest'
      <3>1. /\ \A d \in Clients : d # c => ping'[d] = ping[d] /\ reset'[d] = reset[d]
            /\ \/ ping'[c] = ping[c] /\ reset'[c] = reset[c]
               \/ reset'[c] = ping'[c]
            /\ ping'[c] # None
        BY <2>1, ConfigUpdates
      <3>2. UNCHANGED <<loop, ticker>>
        BY <1>3 DEF Pong
      <3>3. QED
        BY <3>1, <3>2 DEF ResetIsLatest
    <2>6. QED
      BY <2>2, <2>3, <2>4, <2>5
  <1>4. CASE ResetTicker(c)
    BY <1>4 DEF ResetTicker, TypeOK, Loop, State, ConnectionsAreOwned, NewIsUntouched,
       StopIsSeen, ResetIsLatest, StopsAreRequested
  <1>5. CASE \E n \in frames[c] : FrameDone(c, n)
    BY <1>5 DEF FrameDone, TypeOK, Loop, State, ConnectionsAreOwned, NewIsUntouched,
       StopIsSeen, ResetIsLatest, StopsAreRequested
  <1>6. QED
    BY <1>5, <1>1, <1>2, <1>3, <1>4 DEF Serve

LEMMA StopPreserves ==
    ASSUME ClientInv, NEW c \in Clients, Stop(c)
    PROVE  ClientInv'
  <1> USE ClientAssumption DEF ClientInv, client, hubVars, Set
  <1>1. CASE StopState(c)
    BY <1>1 DEF StopState, TypeOK, Loop, State, ConnectionsAreOwned, NewIsUntouched,
       StopIsSeen, ResetIsLatest, StopsAreRequested
  <1>2. CASE StopSignal(c)
    BY <1>2 DEF StopSignal, TypeOK, Loop, State, ConnectionsAreOwned, NewIsUntouched,
       StopIsSeen, ResetIsLatest, StopsAreRequested
  <1>3. CASE StopClose(c)
    BY <1>3 DEF StopClose, TypeOK, Loop, State, ConnectionsAreOwned, NewIsUntouched,
       StopIsSeen, ResetIsLatest, StopsAreRequested
  <1>4. CASE StopWait(c)
    BY <1>4 DEF StopWait, TypeOK, Loop, State, ConnectionsAreOwned, NewIsUntouched,
       StopIsSeen, ResetIsLatest, StopsAreRequested
  <1>5. QED
    BY <1>1, <1>2, <1>3, <1>4 DEF Stop

LEMMA RequestPreserves ==
    ASSUME ClientInv, NEW o \in Ops, Request(o)
    PROVE  ClientInv'
  <1> USE ClientAssumption DEF ClientInv, client, hubVars, Set
  <1>1. CASE OpStore(o)
    BY <1>1 DEF OpStore, TypeOK, Loop, State, ConnectionsAreOwned, NewIsUntouched,
       StopIsSeen, ResetIsLatest, StopsAreRequested
  <1>2. CASE OpTake(o)
    BY <1>2 DEF OpTake, TypeOK, Loop, State, ConnectionsAreOwned, NewIsUntouched,
       StopIsSeen, ResetIsLatest, StopsAreRequested
  <1>3. CASE OpStop(o)
    BY <1>3 DEF OpStop, TypeOK, Loop, State, ConnectionsAreOwned, NewIsUntouched,
       StopIsSeen, ResetIsLatest, StopsAreRequested
  <1>4. CASE OpStart(o)
    BY <1>4 DEF OpStart, TypeOK, Loop, State, ConnectionsAreOwned, NewIsUntouched,
       StopIsSeen, ResetIsLatest, StopsAreRequested
  <1>5. CASE OpPut(o)
    BY <1>5 DEF OpPut, TypeOK, Loop, State, ConnectionsAreOwned, NewIsUntouched,
       StopIsSeen, ResetIsLatest, StopsAreRequested
  <1>6. QED
    BY <1>1, <1>2, <1>3, <1>4, <1>5 DEF Request

LEMMA ClientNext == ClientInv /\ [Next]_vars => ClientInv'
  <1> SUFFICES ASSUME ClientInv, [Next]_vars PROVE ClientInv'
    OBVIOUS
  <1>1. CASE UNCHANGED vars
    BY <1>1 DEF vars, client, ClientInv, TypeOK, ConnectionsAreOwned, NewIsUntouched, StopIsSeen,
       ResetIsLatest, StopsAreRequested
  <1>2. QED
    BY <1>1, RunLoopPreserves, ServePreserves, StopPreserves, RequestPreserves DEF Next

LEMMA ClientsHold == Spec => []ClientInv
  BY ClientInit, ClientNext, PTL DEF Spec

\* Proves StopIsClean for every number of clients, requests and connections: a
\* WSClient whose Stop has returned has no goroutine, no frame and no connection
\* left, also when the requests overlap.
THEOREM StoppedIsSilent == Spec => []StopIsClean
  <1>1. ClientInv => StopIsClean
    BY DEF ClientInv, StopIsClean, ConnectionsAreOwned, StopIsSeen, TypeOK
  <1>2. QED
    BY <1>1, ClientsHold, PTL

\* Proves PingFollowsConfig: updateConfig, pingResetCh and the start of the ping
\* loop never leave a ticker that no later receive corrects.
THEOREM PingIsCurrent == Spec => []PingFollowsConfig
  <1>1. ClientInv => PingFollowsConfig
    BY DEF ClientInv, PingFollowsConfig, ResetIsLatest
  <1>2. QED
    BY <1>1, ClientsHold, PTL

----------------------------------------------------------------------------
(* The bindings, when the requests come one after the other.                *)

\* A step of a client's goroutines changes neither which clients run nor what
\* the requests have.
LEMMA ClientStepKeeps ==
    ASSUME ClientInv, NEW c \in Clients,
           RunLoop(c) \/ Serve(c) \/ StopState(c) \/ StopSignal(c) \/ StopClose(c)
             \/ \E n \in frames[c] : FrameDone(c, n)
    PROVE  UNCHANGED <<binding, current, op, held, Running>>
  <1>1. UNCHANGED hubVars
    BY DEF RunLoop, Serve, LoopStep, LoopTop, Fetched, ConnectFails, Dialled, Install, Connected,
       ServeEnds, CloseConn, Awake, PeerDrops, DataFrame, Pong, ResetTicker, StopState, StopSignal,
       StopClose, FrameDone
  <1>2. \A d \in Clients : /\ (loop'[d] = "new") <=> (loop[d] = "new")
                           /\ (stopping'[d] = "done") <=> (stopping[d] = "done")
    <2>0. loop \in [Clients -> Loop] /\ stopping \in [Clients -> {"no", "state", "signal", "close", "wait", "done"}]
      BY DEF ClientInv, TypeOK
    <2>1. CASE RunLoop(c)
      <3>1. stopping' = stopping /\ loop[c] # "new" /\ \E l \in Loop \ {"new"} : loop' = [loop EXCEPT ![c] = l]
        BY <2>1 DEF Loop, Set, RunLoop, LoopStep, LoopTop, Fetched, ConnectFails, Dialled, Install,
           Connected, ServeEnds, CloseConn, Awake
      <3>2. QED
        BY <2>0, <3>1
    <2>2. CASE Serve(c) \/ \E n \in frames[c] : FrameDone(c, n)
      BY <2>2 DEF Serve, LoopStep, PeerDrops, DataFrame, Pong, ResetTicker, FrameDone
    <2>3. CASE StopState(c) \/ StopSignal(c) \/ StopClose(c)
      BY <2>0, <2>3 DEF Set, StopState, StopSignal, StopClose
    <2>4. QED
      BY <2>1, <2>2, <2>3
  <1>3. QED
    BY <1>1, <1>2 DEF hubVars, Running

LEMMA BindingInit == Init => BindingInv
  BY DEF Init, BindingInv, OneRequest, RequestAt, OneClientPerBinding, Quiet, Running

LEMMA BindingNext ==
    ASSUME Serial, ClientInv, BindingInv, [Next]_vars
    PROVE  BindingInv'
  <1> USE DEF BindingInv
  <1>0. /\ op \in [Ops -> {"idle", "take", "stop", "start", "put", "over"}]
        /\ held \in [Ops -> Clients \cup {None}]
        /\ loop \in [Clients -> Loop] /\ stopping \in [Clients -> {"no", "state", "signal", "close", "wait", "done"}]
        /\ current \in Clients \cup {None} /\ None \notin Clients /\ binding \in BOOLEAN
    BY ClientAssumption DEF ClientInv, TypeOK
  <1>1. ASSUME UNCHANGED <<binding, current, op, held, Running>>
        PROVE  BindingInv'
    BY <1>1 DEF OneRequest, RequestAt, OneClientPerBinding, Quiet, Running
  <1>2. ASSUME NEW c \in Clients, StopWait(c)
        PROVE  BindingInv'
    <2>1. PICK o \in Ops : op[o] = "stop" /\ held[o] = c
      BY <1>2 DEF StopWait, ClientInv, StopsAreRequested
    <2>2. Running' \subseteq Running /\ UNCHANGED <<binding, current, op, held>>
      BY <1>0, <1>2 DEF StopWait, client, hubVars, Set, Running
    <2>3. \A p \in Ops : p # o => op[p] \in {"idle", "over"}
      BY <2>1 DEF OneRequest
    <2>4. QED
      BY <2>1, <2>2, <2>3 DEF OneRequest, RequestAt, OneClientPerBinding, Quiet
  <1>3. ASSUME NEW o \in Ops, OpStore(o)
        PROVE  BindingInv'
    <2>1. Running' = Running /\ UNCHANGED <<current, held>>
      BY <1>3 DEF OpStore, client, Running
    <2>2. Running = Only(current)
      BY <1>3 DEF OpStore, OneClientPerBinding, Quiet, Running, Only
    <2>3. /\ op'[o] = "take" /\ (binding' <=> Kind[o] = "save")
          /\ \A p \in Ops : p # o => op'[p] \in {"idle", "over"}
      BY <1>0, <1>3 DEF OpStore, Set
    <2>4. QED
      BY <2>1, <2>2, <2>3 DEF OneRequest, RequestAt, OneClientPerBinding, Quiet, Only
  <1>4. ASSUME NEW o \in Ops, op[o] \notin {"idle", "over"}, \A p \in Ops : p # o => op'[p] = op[p],
               RequestAt(o)', op'[o] \in {"stop", "start", "put"}
        PROVE  BindingInv'
    <2>1. \A p \in Ops : p # o => op'[p] \in {"idle", "over"}
      BY <1>4 DEF OneRequest
    <2>2. QED
      BY <1>4, <2>1 DEF OneRequest, RequestAt, OneClientPerBinding, Quiet
  <1>5. ASSUME NEW o \in Ops, op[o] \notin {"idle", "over"}, \A p \in Ops : p # o => op'[p] = op[p],
               op'[o] = "over", Running' = Only(current'), binding' <=> current' # None
        PROVE  BindingInv'
    <2>1. \A p \in Ops : op'[p] \in {"idle", "over"}
      BY <1>5 DEF OneRequest
    <2>2. QED
      BY <1>5, <2>1 DEF OneRequest, RequestAt, OneClientPerBinding, Quiet, Running, Only
  <1>6. ASSUME NEW o \in Ops, OpTake(o)
        PROVE  BindingInv'
    <2>1. /\ op[o] = "take" /\ op'[o] = "stop" /\ \A p \in Ops : p # o => op'[p] = op[p]
          /\ held'[o] = current /\ current' = None /\ UNCHANGED <<binding, Running>>
      BY <1>0, <1>6 DEF OpTake, Set, client, Running
    <2>2. RequestAt(o)'
      BY <2>1 DEF RequestAt, Only
    <2>3. QED
      BY <1>4, <2>1, <2>2
  <1>7. ASSUME NEW o \in Ops, OpStop(o)
        PROVE  BindingInv'
    <2>1. op[o] = "stop" /\ UNCHANGED <<loop, binding, current, held>>
      BY <1>7 DEF OpStop, client
    <2>2. CASE held[o] # None /\ stopping[held[o]] # "done"
      <3>1. Running' = Running /\ op' = op
        BY <1>0, <1>7, <2>1, <2>2 DEF OpStop, Set, Running
      <3>2. QED
        BY <1>1, <2>1, <3>1
    <2>3. CASE ~(held[o] # None /\ stopping[held[o]] # "done")
      <3>1. /\ op'[o] = IF Kind[o] = "save" THEN "start" ELSE "over"
            /\ \A p \in Ops : p # o => op'[p] = op[p]
            /\ Running' = Running
        BY <1>0, <1>7, <2>1, <2>3 DEF OpStop, Set, Running
      <3>2. Running = {} /\ current = None /\ (binding <=> Kind[o] = "save")
        BY <2>1, <2>3 DEF RequestAt, Running, Only
      <3>3. CASE Kind[o] = "save"
        <4>1. RequestAt(o)' /\ op'[o] = "start"
          BY <2>1, <3>1, <3>2, <3>3 DEF RequestAt
        <4>2. QED
          BY <1>4, <2>1, <3>1, <4>1
      <3>4. CASE Kind[o] # "save"
        <4>1. op'[o] = "over" /\ Running' = Only(current') /\ (binding' <=> current' # None)
          BY <2>1, <3>1, <3>2, <3>4 DEF Only
        <4>2. QED
          BY <1>5, <2>1, <3>1, <4>1
      <3>5. QED
        BY <3>3, <3>4
    <2>4. QED
      BY <2>2, <2>3
  <1>8. ASSUME NEW o \in Ops, OpStart(o)
        PROVE  BindingInv'
    <2>1. PICK c \in Clients : /\ loop[c] = "new" /\ loop' = [loop EXCEPT ![c] = "top"]
                               /\ held' = [held EXCEPT ![o] = c]
      BY <1>8 DEF OpStart, Set
    <2>2. /\ op[o] = "start" /\ op'[o] = "put" /\ \A p \in Ops : p # o => op'[p] = op[p]
          /\ UNCHANGED <<stopping, binding, current>>
      BY <1>0, <1>8 DEF OpStart, Set
    <2>3. stopping[c] = "no"
      BY <2>1 DEF ClientInv, NewIsUntouched
    <2>4. Running = {} /\ Kind[o] = "save" /\ current = None /\ (binding <=> Kind[o] = "save")
      BY <2>2 DEF RequestAt
    <2>5. Running' = {c}
      BY <1>0, <2>1, <2>2, <2>3, <2>4 DEF Running
    <2>6. RequestAt(o)'
      BY <1>0, <2>1, <2>2, <2>4, <2>5 DEF RequestAt
    <2>7. QED
      BY <1>4, <2>2, <2>6
  <1>9. ASSUME NEW o \in Ops, OpPut(o)
        PROVE  BindingInv'
    <2>1. /\ op[o] = "put" /\ op'[o] = "over" /\ \A p \in Ops : p # o => op'[p] = op[p]
          /\ current' = held[o] /\ UNCHANGED <<binding, Running>>
      BY <1>0, <1>9 DEF OpPut, Set, client, Running
    <2>2. Running' = Only(current') /\ (binding' <=> current' # None)
      BY <2>1 DEF RequestAt, Only
    <2>3. QED
      BY <1>5, <2>1, <2>2
  <1>10. CASE UNCHANGED vars
    BY <1>1, <1>10 DEF vars, client, Running
  <1>11. QED
    BY <1>1, <1>2, <1>3, <1>6, <1>7, <1>8, <1>9, <1>10, ClientStepKeeps DEF Next, Stop, Request

\* Proves BindingsAreServed for requests that come one after the other (Serial):
\* handleFeishuBindingSave and handleFeishuBindingDelete leave the member one
\* running WSClient if it has a binding and none if it has not.
THEOREM OneClientServes == ASSUME Serial PROVE Spec => []BindingsAreServed
  <1>1. ClientInv /\ BindingInv => BindingsAreServed
    BY DEF ClientInv, BindingInv, BindingsAreServed
  <1>2. ClientInv /\ BindingInv /\ [Next]_vars => BindingInv'
    BY BindingNext
  <1>3. QED
    BY <1>1, <1>2, BindingInit, ClientsHold, PTL DEF Spec
=============================================================================
