-------------------------- MODULE ClientPartsProofs --------------------------
(***************************************************************************)
(* The safety of the client daemon for every set of requests, every limit  *)
(* and every number of connections; then the ask command (AskLoop), the    *)
(* daemon as a process (DaemonProcess) and a run of the probe (ProbeAgent) *)
(* beside it.                                                              *)
(***************************************************************************)
EXTENDS ClientParts, QueueLemmas, FiniteSetTheorems, TLAPS

Holders == {r \in Requests : HasSlot(r)}
Flying == {r \in Requests : InFlight(r)}
IsProbe(r) == task[r] \in {"counted", "running", "answered"}
Probing == {r \in Requests : IsProbe(r)}

\* The three counters count what they are meant to count.
Counters ==
    /\ slots = Cardinality(Holders)
    /\ inFlight = Cardinality(Flying)
    /\ probes = Cardinality(Probing)

\* The types that do not depend on the counters.
Shapes ==
    /\ conn \in 0 .. MaxConns
    /\ activeConn \in {0, conn}
    /\ alive \subseteq 1 .. conn
    /\ task \in [Requests -> {"absent", "sent", "declined", "accepted", "queued", "slotted",
                              "counted", "running", "answered", "uncounted", "releasing",
                              "returning", "done"}]
    /\ home \in [Requests -> 0 .. conn]
    /\ ctx \in [Requests -> {"live", "cancelled", "deadline"}]
    /\ activeQueries \in [Queries -> Requests \cup {NoRequest}]
    /\ seen \in [Requests -> BOOLEAN]

\* Flags and places of the loop.
Places ==
    /\ loop \in {"new", "checked", "top", "dialing", "greeting", "serving", "draining",
                 "leaving", "after", "pausing", "finishing", "exited"}
    /\ stopper \in {"idle", "waiting", "returned"}
    /\ awaiting \in BOOLEAN
    /\ stop \in BOOLEAN
    /\ draining \in BOOLEAN
    /\ drained \in BOOLEAN

\* The drain begins only after the stop.
DrainAfterStop == loop = "draining" \/ draining \/ drained => stop

\* Before the first connection there is no request.
NothingBefore ==
    loop \in {"new", "checked"} => alive = {} /\ \A r \in Requests : task[r] = "absent"

\* A request has a home once it is sent, and no response before it is over.
RequestsKnown ==
    /\ replies \in [Requests -> Nat]
    /\ \A r \in Requests :
          /\ task[r] = "absent" <=> home[r] = 0
          /\ replies[r] <= 1
          /\ ~Over(r) => replies[r] = 0

\* The status file is up to date unless somebody is about to write it.
FileIsCurrent ==
    ~cleanedUp /\ (\A r \in Requests : task[r] \notin {"counted", "uncounted"})
    => file.probes = probes

\* The semaphore is within its capacity.
SlotsBounded == slots <= Slots

FileTyped ==
    /\ cleanedUp \in BOOLEAN
    /\ file \in [pid : BOOLEAN, connected : BOOLEAN, probes : Nat]

----------------------------------------------------------------------------
USE DaemonAssumption

\* A subset of the requests that loses or gains one of them.
LEMMA CountOne ==
    ASSUME NEW S \in SUBSET Requests, NEW r \in Requests
    PROVE  /\ Cardinality(S) \in Nat
           /\ r \notin S => Cardinality(S \cup {r}) = Cardinality(S) + 1
           /\ r \in S => Cardinality(S \ {r}) = Cardinality(S) - 1 /\ Cardinality(S) # 0
<1>1. IsFiniteSet(S)
  BY FS_Subset, DaemonAssumption
<1>2. Cardinality(S) \in Nat
  BY <1>1, FS_CardinalityType
<1>3. Cardinality(S \cup {r}) = IF r \in S THEN Cardinality(S) ELSE Cardinality(S) + 1
  BY <1>1, FS_AddElement
<1>4. Cardinality(S \ {r}) = IF r \in S THEN Cardinality(S) - 1 ELSE Cardinality(S)
  BY <1>1, FS_RemoveElement
<1>5. r \in S => Cardinality(S) # 0
  BY <1>1, FS_EmptySet
<1> QED BY <1>2, <1>3, <1>4, <1>5

\* One goroutine moves: the sets it is counted in change by it alone.
LEMMA OneMoves ==
    ASSUME Shapes, NEW r \in Requests, NEW p, task' = [task EXCEPT ![r] = p]
    PROVE  /\ \A x \in Requests \ {r} : /\ task'[x] = task[x]
                                        /\ HasSlot(x)' = HasSlot(x)
                                        /\ Registered(x)' = Registered(x)
                                        /\ InFlight(x)' = InFlight(x)
                                        /\ IsProbe(x)' = IsProbe(x)
           /\ task'[r] = p
BY DEF Shapes, HasSlot, Registered, InFlight, IsProbe

LEMMA SlotsMove ==
    ASSUME Shapes, NEW r \in Requests, NEW p, task' = [task EXCEPT ![r] = p]
    PROVE  /\ Cardinality(Holders) \in Nat
           /\ (HasSlot(r)' <=> HasSlot(r)) => Cardinality(Holders)' = Cardinality(Holders)
           /\ HasSlot(r)' /\ ~HasSlot(r) => Cardinality(Holders)' = Cardinality(Holders) + 1
           /\ ~HasSlot(r)' /\ HasSlot(r) => /\ Cardinality(Holders)' = Cardinality(Holders) - 1
                                            /\ Cardinality(Holders) # 0
<1>1. /\ (HasSlot(r)' <=> HasSlot(r)) => Holders' = Holders
      /\ HasSlot(r)' /\ ~HasSlot(r) => Holders' = Holders \cup {r} /\ r \notin Holders
      /\ ~HasSlot(r)' /\ HasSlot(r) => Holders' = Holders \ {r} /\ r \in Holders
  BY OneMoves DEF Holders
<1>2. Holders \in SUBSET Requests
  BY DEF Holders
<1> QED BY <1>1, <1>2, CountOne

LEMMA FlyingMove ==
    ASSUME Shapes, NEW r \in Requests, NEW p, task' = [task EXCEPT ![r] = p]
    PROVE  /\ Cardinality(Flying) \in Nat
           /\ (InFlight(r)' <=> InFlight(r)) => Cardinality(Flying)' = Cardinality(Flying)
           /\ InFlight(r)' /\ ~InFlight(r) => Cardinality(Flying)' = Cardinality(Flying) + 1
           /\ ~InFlight(r)' /\ InFlight(r) => /\ Cardinality(Flying)' = Cardinality(Flying) - 1
                                              /\ Cardinality(Flying) # 0
<1>1. /\ (InFlight(r)' <=> InFlight(r)) => Flying' = Flying
      /\ InFlight(r)' /\ ~InFlight(r) => Flying' = Flying \cup {r} /\ r \notin Flying
      /\ ~InFlight(r)' /\ InFlight(r) => Flying' = Flying \ {r} /\ r \in Flying
  BY OneMoves DEF Flying
<1>2. Flying \in SUBSET Requests
  BY DEF Flying
<1> QED BY <1>1, <1>2, CountOne

LEMMA ProbesMove ==
    ASSUME Shapes, NEW r \in Requests, NEW p, task' = [task EXCEPT ![r] = p]
    PROVE  /\ Cardinality(Probing) \in Nat
           /\ (IsProbe(r)' <=> IsProbe(r)) => Cardinality(Probing)' = Cardinality(Probing)
           /\ IsProbe(r)' /\ ~IsProbe(r) => Cardinality(Probing)' = Cardinality(Probing) + 1
           /\ ~IsProbe(r)' /\ IsProbe(r) => /\ Cardinality(Probing)' = Cardinality(Probing) - 1
                                            /\ Cardinality(Probing) # 0
<1>1. /\ (IsProbe(r)' <=> IsProbe(r)) => Probing' = Probing
      /\ IsProbe(r)' /\ ~IsProbe(r) => Probing' = Probing \cup {r} /\ r \notin Probing
      /\ ~IsProbe(r)' /\ IsProbe(r) => Probing' = Probing \ {r} /\ r \in Probing
  BY OneMoves DEF Probing
<1>2. Probing \in SUBSET Requests
  BY DEF Probing
<1> QED BY <1>1, <1>2, CountOne

----------------------------------------------------------------------------
(* The steps by what they may change.                                       *)

\* The loop, the network and the caller of Stop leave the goroutines alone.
LoopStep ==
    \/ Start \/ InitFiles \/ LoopTop \/ AfterServe \/ Pause \/ FinishStart
    \/ Dial \/ DialFails \/ Greet \/ GreetFails \/ CloseConnection \/ BeginDrain
    \/ (\E by \in {"Stop", "context"} : RequestShutdown(by))
    \/ StopReturns \/ DrainWait \/ PingTick \/ Pong \/ HubAck \/ SocketDies

\* Steps that change contexts only, besides the place of the loop.
ContextStep ==
    \/ (\E timedOut \in BOOLEAN : DrainEnds(timedOut)) \/ ConnectionFails
    \/ (\E missed \in BOOLEAN : WatchdogFires(missed))
    \/ (\E q \in Queries : QueryCancel(q))
    \/ (\E r \in Requests : Deadline(r))

\* Steps of one request.
RequestStep(r) == RequestRuns(r) \/ HubSends(r)

LEMMA NextIsOneOf ==
    Next => LoopStep \/ ContextStep \/ \E r \in Requests : RequestStep(r)
BY DEF Next, StartRuns, Heartbeat, LoopStep, ContextStep, RequestStep

LEMMA LoopStepFrame == LoopStep => UNCHANGED taskVars
BY DEF LoopStep, Start, InitFiles, LoopTop, AfterServe, Pause, FinishStart, Dial, DialFails,
       Greet, GreetFails, CloseConnection, BeginDrain, RequestShutdown, StopReturns, DrainWait,
       PingTick, Pong, HubAck, SocketDies

LEMMA ContextStepFrame ==
    ContextStep => UNCHANGED <<task, home, activeQueries, slots, inFlight, probes, seen, replies>>
BY DEF ContextStep, DrainEnds, ConnectionFails, WatchdogFires, GiveUp, QueryCancel, Deadline

LEMMA ContextStepFiles == ContextStep => UNCHANGED <<stopVars, fileVars, conn, activeConn>>
BY DEF ContextStep, DrainEnds, ConnectionFails, WatchdogFires, GiveUp, QueryCancel, Deadline,
       connVars

LEMMA RequestStepFrame ==
    ASSUME NEW r \in Requests, RequestStep(r)
    PROVE  /\ UNCHANGED <<loop, connVars, stopVars, cleanedUp>>
           /\ ~ReportProbes(r) => UNCHANGED file
           /\ \E p : task' = [task EXCEPT ![r] = p]
BY DEF RequestStep, RequestRuns, HubSends, TakeRequest, Register, AcquireSlot, QueueTimeout,
       QueueAbandoned, Count, ReportProbes, DispatchQuery, Uncount, ReleaseSlot, Return, Goes,
       WriteStatus, fileVars

----------------------------------------------------------------------------
(* Types and counters.                                                      *)

LEMMA ShapesNext == Shapes /\ [Next]_vars => Shapes'
<1> SUFFICES ASSUME Shapes, [Next]_vars PROVE Shapes'
  OBVIOUS
<1>1. CASE LoopStep
  <2>1. UNCHANGED taskVars
    BY <1>1, LoopStepFrame
  <2>2. CASE Dial
    <3>1. conn' \in 0 .. MaxConns /\ conn' = conn + 1 /\ activeConn' = conn' /\ alive' \subseteq 1 .. conn'
      BY <2>2 DEF Dial, Shapes
    <3>2. home' \in [Requests -> 0 .. conn']
      BY <2>1, <3>1 DEF Shapes, taskVars
    <3> QED BY <2>1, <3>1, <3>2 DEF Shapes, taskVars
  <2>3. CASE ~Dial
    <3>1. conn' = conn /\ activeConn' \in {0, activeConn} /\ alive' \subseteq alive
      BY <1>1, <2>3 DEF LoopStep, connVars, Start, InitFiles, LoopTop, AfterServe, Pause,
           FinishStart, DialFails, Greet, GreetFails, CloseConnection, BeginDrain,
           RequestShutdown, StopReturns, DrainWait, PingTick, Pong, HubAck, SocketDies
    <3> QED BY <2>1, <3>1 DEF Shapes, taskVars
  <2> QED BY <2>2, <2>3
<1>2. CASE ContextStep
  <2>1. UNCHANGED <<task, home, activeQueries, seen, conn, activeConn>>
    BY <1>2, ContextStepFrame, ContextStepFiles
  <2>2. alive' \subseteq alive
    BY <1>2 DEF ContextStep, DrainEnds, ConnectionFails, WatchdogFires, GiveUp, QueryCancel,
                Deadline, connVars
  <2>3. ctx' \in [Requests -> {"live", "cancelled", "deadline"}]
    BY <1>2 DEF Shapes, ContextStep, DrainEnds, ConnectionFails, WatchdogFires, GiveUp,
                QueryCancel, Deadline
  <2> QED BY <2>1, <2>2, <2>3 DEF Shapes
<1>3. ASSUME NEW r \in Requests, RequestStep(r) PROVE Shapes'
  <2>1. UNCHANGED <<conn, activeConn, alive>>
    BY <1>3, RequestStepFrame DEF connVars
  <2>2. QueryOf[r] \in Queries
    BY DaemonAssumption
  <2>3. /\ task' \in [Requests -> {"absent", "sent", "declined", "accepted", "queued", "slotted",
                              "counted", "running", "answered", "uncounted", "releasing",
                              "returning", "done"}]
        /\ ctx' = ctx
    BY <1>3 DEF Shapes, RequestStep, RequestRuns, HubSends, TakeRequest, Register, AcquireSlot,
     QueueTimeout, QueueAbandoned, Count, ReportProbes, DispatchQuery, Uncount, ReleaseSlot,
     Return, Goes
  <2>4. home' \in [Requests -> 0 .. conn] /\ activeQueries' \in [Queries -> Requests \cup {NoRequest}]
    BY <1>3, <2>2 DEF Shapes, RequestStep, RequestRuns, HubSends, TakeRequest, Register, AcquireSlot,
     QueueTimeout, QueueAbandoned, Count, ReportProbes, DispatchQuery, Uncount, ReleaseSlot,
     Return, Goes
  <2>5. seen' \in [Requests -> BOOLEAN]
    BY <1>3 DEF Shapes, ConnectionState, RequestStep, RequestRuns, HubSends, TakeRequest, Register, AcquireSlot,
     QueueTimeout, QueueAbandoned, Count, ReportProbes, DispatchQuery, Uncount, ReleaseSlot,
     Return, Goes
  <2> QED BY <2>1, <2>3, <2>4, <2>5 DEF Shapes
<1>4. CASE UNCHANGED vars
  BY <1>4 DEF Shapes, vars, connVars, taskVars
<1> QED BY <1>1, <1>2, <1>3, <1>4, NextIsOneOf

\* Every way through handleQueryRequest takes and gives back what it counts.
LEMMA CountersNext == Shapes /\ Counters /\ [Next]_vars => Counters'
<1> SUFFICES ASSUME Shapes, Counters, [Next]_vars PROVE Counters'
  OBVIOUS
<1>1. ASSUME UNCHANGED <<task, slots, inFlight, probes>> PROVE Counters'
  <2>1. UNCHANGED <<Holders, Flying, Probing>>
    BY <1>1 DEF Holders, Flying, Probing, HasSlot, InFlight, Registered, IsProbe
  <2> QED BY <1>1, <2>1 DEF Counters
<1>2. CASE LoopStep
  BY <1>1, <1>2, LoopStepFrame DEF taskVars
<1>3. CASE ContextStep
  BY <1>1, <1>3, ContextStepFrame
<1>4. ASSUME NEW r \in Requests, RequestStep(r) PROVE Counters'
  <2>1. PICK p : task' = [task EXCEPT ![r] = p]
    BY <1>4, RequestStepFrame
  <2>3. slots' = Cardinality(Holders)'
    <3>1. \/ slots' = slots /\ (HasSlot(r)' <=> HasSlot(r))
          \/ slots' = slots + 1 /\ HasSlot(r)' /\ ~HasSlot(r)
          \/ slots' = slots - 1 /\ ~HasSlot(r)' /\ HasSlot(r)
      BY <1>4 DEF Shapes, HasSlot, RequestStep, RequestRuns, HubSends, TakeRequest, Register, AcquireSlot,
     QueueTimeout, QueueAbandoned, Count, ReportProbes, DispatchQuery, Uncount, ReleaseSlot,
     Return, Goes
    <3>2. /\ Cardinality(Holders) \in Nat
          /\ (HasSlot(r)' <=> HasSlot(r)) => Cardinality(Holders)' = Cardinality(Holders)
          /\ HasSlot(r)' /\ ~HasSlot(r) => Cardinality(Holders)' = Cardinality(Holders) + 1
          /\ ~HasSlot(r)' /\ HasSlot(r) => Cardinality(Holders)' = Cardinality(Holders) - 1
      BY <2>1, SlotsMove
    <3> QED BY <3>1, <3>2 DEF Counters
  <2>4. inFlight' = Cardinality(Flying)'
    <3>1. \/ inFlight' = inFlight /\ (InFlight(r)' <=> InFlight(r))
          \/ inFlight' = inFlight + 1 /\ InFlight(r)' /\ ~InFlight(r)
          \/ inFlight' = inFlight - 1 /\ ~InFlight(r)' /\ InFlight(r)
      BY <1>4 DEF Shapes, HasSlot, Registered, InFlight, RequestStep, RequestRuns, HubSends, TakeRequest, Register, AcquireSlot,
     QueueTimeout, QueueAbandoned, Count, ReportProbes, DispatchQuery, Uncount, ReleaseSlot,
     Return, Goes
    <3>2. /\ Cardinality(Flying) \in Nat
          /\ (InFlight(r)' <=> InFlight(r)) => Cardinality(Flying)' = Cardinality(Flying)
          /\ InFlight(r)' /\ ~InFlight(r) => Cardinality(Flying)' = Cardinality(Flying) + 1
          /\ ~InFlight(r)' /\ InFlight(r) => Cardinality(Flying)' = Cardinality(Flying) - 1
      BY <2>1, FlyingMove
    <3> QED BY <3>1, <3>2 DEF Counters
  <2>5. probes' = Cardinality(Probing)'
    <3>1. \/ probes' = probes /\ (IsProbe(r)' <=> IsProbe(r))
          \/ probes' = probes + 1 /\ IsProbe(r)' /\ ~IsProbe(r)
          \/ probes' = probes - 1 /\ ~IsProbe(r)' /\ IsProbe(r)
      BY <1>4 DEF Shapes, IsProbe, RequestStep, RequestRuns, HubSends, TakeRequest, Register, AcquireSlot,
     QueueTimeout, QueueAbandoned, Count, ReportProbes, DispatchQuery, Uncount, ReleaseSlot,
     Return, Goes
    <3>2. /\ Cardinality(Probing) \in Nat
          /\ (IsProbe(r)' <=> IsProbe(r)) => Cardinality(Probing)' = Cardinality(Probing)
          /\ IsProbe(r)' /\ ~IsProbe(r) => Cardinality(Probing)' = Cardinality(Probing) + 1
          /\ ~IsProbe(r)' /\ IsProbe(r) => Cardinality(Probing)' = Cardinality(Probing) - 1
      BY <2>1, ProbesMove
    <3> QED BY <3>1, <3>2 DEF Counters
  <2> QED BY <2>3, <2>4, <2>5 DEF Counters
<1>5. CASE UNCHANGED vars
  BY <1>1, <1>5 DEF vars, taskVars
<1> QED BY <1>2, <1>3, <1>4, <1>5, NextIsOneOf

----------------------------------------------------------------------------
(* Stop and drain.                                                          *)

LEMMA PlacesNext == Places /\ DrainAfterStop /\ [Next]_vars => Places' /\ DrainAfterStop'
<1> SUFFICES ASSUME Places, DrainAfterStop, [Next]_vars PROVE Places' /\ DrainAfterStop'
  OBVIOUS
<1>1. CASE LoopStep
  <2>1. /\ loop' \in {loop, "checked", "top", "dialing", "greeting", "serving", "draining",
                     "leaving", "after", "pausing", "finishing", "exited"}
        /\ stopper' \in {stopper, "waiting", "returned"}
    BY <1>1 DEF LoopStep, Reading, connVars, stopVars, Start, InitFiles, LoopTop,
           AfterServe, Pause, FinishStart, Dial, DialFails, Greet, GreetFails, CloseConnection,
           BeginDrain, RequestShutdown, StopReturns, DrainWait, PingTick, Pong, HubAck,
           SocketDies
  <2>2. /\ awaiting' = awaiting \/ awaiting' = TRUE \/ awaiting' = FALSE
        /\ stop' = stop \/ stop' = TRUE
        /\ draining' = draining \/ draining' = TRUE \/ draining' = FALSE
        /\ drained' = drained \/ drained' = TRUE
    BY <1>1 DEF LoopStep, Reading, connVars, stopVars, Start, InitFiles, LoopTop,
           AfterServe, Pause, FinishStart, Dial, DialFails, Greet, GreetFails, CloseConnection,
           BeginDrain, RequestShutdown, StopReturns, DrainWait, PingTick, Pong, HubAck,
           SocketDies
  <2>3. stop => stop'
    BY <1>1 DEF LoopStep, Reading, connVars, stopVars, Start, InitFiles, LoopTop,
           AfterServe, Pause, FinishStart, Dial, DialFails, Greet, GreetFails, CloseConnection,
           BeginDrain, RequestShutdown, StopReturns, DrainWait, PingTick, Pong, HubAck,
           SocketDies
  <2>4. /\ loop' = "draining" => loop = "draining" \/ stop
        /\ draining' = draining \/ draining' = FALSE \/ stop
        /\ drained' = drained \/ loop = "draining"
    BY <1>1 DEF LoopStep, Reading, connVars, stopVars, Start, InitFiles, LoopTop,
           AfterServe, Pause, FinishStart, Dial, DialFails, Greet, GreetFails, CloseConnection,
           BeginDrain, RequestShutdown, StopReturns, DrainWait, PingTick, Pong, HubAck,
           SocketDies
  <2>5. Places'
    <3>1. awaiting \in BOOLEAN /\ stop \in BOOLEAN /\ draining \in BOOLEAN /\ drained \in BOOLEAN
      BY DEF Places
    <3>2. awaiting' \in BOOLEAN /\ stop' \in BOOLEAN /\ draining' \in BOOLEAN /\ drained' \in BOOLEAN
      BY <2>2, <3>1, Zenon
    <3> QED BY <2>1, <3>2 DEF Places
  <2>6. DrainAfterStop'
    BY <2>3, <2>4 DEF DrainAfterStop
  <2> QED BY <2>5, <2>6
<1>2. CASE ContextStep
  <2>1. /\ loop' \in {loop, "checked", "top", "dialing", "greeting", "serving", "draining",
                     "leaving", "after", "pausing", "finishing", "exited"}
        /\ stopper' \in {stopper, "waiting", "returned"}
    BY <1>2 DEF ContextStep, DrainEnds, ConnectionFails, WatchdogFires, GiveUp,
           QueryCancel, Deadline, Reading, connVars, stopVars
  <2>2. /\ awaiting' = awaiting \/ awaiting' = TRUE \/ awaiting' = FALSE
        /\ stop' = stop \/ stop' = TRUE
        /\ draining' = draining \/ draining' = TRUE \/ draining' = FALSE
        /\ drained' = drained \/ drained' = TRUE
    BY <1>2 DEF ContextStep, DrainEnds, ConnectionFails, WatchdogFires, GiveUp,
           QueryCancel, Deadline, Reading, connVars, stopVars
  <2>3. stop => stop'
    BY <1>2 DEF ContextStep, DrainEnds, ConnectionFails, WatchdogFires, GiveUp,
           QueryCancel, Deadline, Reading, connVars, stopVars
  <2>4. /\ loop' = "draining" => loop = "draining" \/ stop
        /\ draining' = draining \/ draining' = FALSE \/ stop
        /\ drained' = drained \/ loop = "draining"
    BY <1>2 DEF ContextStep, DrainEnds, ConnectionFails, WatchdogFires, GiveUp,
           QueryCancel, Deadline, Reading, connVars, stopVars
  <2>5. Places'
    <3>1. awaiting \in BOOLEAN /\ stop \in BOOLEAN /\ draining \in BOOLEAN /\ drained \in BOOLEAN
      BY DEF Places
    <3>2. awaiting' \in BOOLEAN /\ stop' \in BOOLEAN /\ draining' \in BOOLEAN /\ drained' \in BOOLEAN
      BY <2>2, <3>1, Zenon
    <3> QED BY <2>1, <3>2 DEF Places
  <2>6. DrainAfterStop'
    BY <2>3, <2>4 DEF DrainAfterStop
  <2> QED BY <2>5, <2>6
<1>3. ASSUME NEW r \in Requests, RequestStep(r) PROVE Places' /\ DrainAfterStop'
  BY <1>3, RequestStepFrame DEF Places, DrainAfterStop, connVars, stopVars
<1>4. CASE UNCHANGED vars
  BY <1>4 DEF Places, DrainAfterStop, vars, connVars, stopVars
<1> QED BY <1>1, <1>2, <1>3, <1>4, NextIsOneOf

LEMMA DrainNext ==
    Shapes /\ Counters /\ DrainAfterStop /\ DrainIsFinal /\ [Next]_vars => DrainIsFinal'
<1> SUFFICES ASSUME Shapes, Counters, DrainAfterStop, DrainIsFinal, [Next]_vars
             PROVE  DrainIsFinal'
  OBVIOUS
<1>1. ASSUME UNCHANGED <<task, drained>> PROVE DrainIsFinal'
  BY <1>1 DEF DrainIsFinal, InFlight, Registered, HasSlot
<1>2. CASE LoopStep
  <2>1. CASE DrainWait
    <3>1. Cardinality(Flying) = 0
      BY <2>1 DEF DrainWait, Counters
    <3>2. IsFiniteSet(Flying)
      BY FS_Subset, DaemonAssumption DEF Flying
    <3>3. Flying = {}
      BY <3>1, <3>2, FS_EmptySet
    <3>4. \A r \in Requests : ~InFlight(r)
      BY <3>3 DEF Flying
    <3>5. UNCHANGED task
      BY <2>1 DEF DrainWait, taskVars
    <3> QED BY <3>4, <3>5 DEF DrainIsFinal, InFlight, Registered, HasSlot
  <2>2. CASE ~DrainWait
    <3>1. UNCHANGED drained
      BY <1>2, <2>2 DEF LoopStep, stopVars, Start, InitFiles, LoopTop, AfterServe, Pause,
           FinishStart, Dial, DialFails, Greet, GreetFails, CloseConnection, BeginDrain,
           RequestShutdown, StopReturns, PingTick, Pong, HubAck, SocketDies
    <3> QED BY <1>1, <1>2, <3>1, LoopStepFrame DEF taskVars
  <2> QED BY <2>1, <2>2
<1>3. CASE ContextStep
  BY <1>1, <1>3, ContextStepFrame, ContextStepFiles DEF stopVars
<1>4. ASSUME NEW r \in Requests, RequestStep(r) PROVE DrainIsFinal'
  <2>1. UNCHANGED drained
    BY <1>4, RequestStepFrame DEF stopVars
  <2> SUFFICES ASSUME drained PROVE \A x \in Requests : ~InFlight(x)'
    BY <2>1 DEF DrainIsFinal
  <2>2. stop /\ ~InFlight(r)
    BY DEF DrainIsFinal, DrainAfterStop
  <2>3. ~InFlight(r)'
    BY <1>4, <2>2 DEF Shapes, InFlight, Registered, HasSlot, TryAcquireProbe, RequestStep, RequestRuns, HubSends, TakeRequest, Register, AcquireSlot,
       QueueTimeout, QueueAbandoned, Count, ReportProbes, DispatchQuery, Uncount, ReleaseSlot,
       Return, Goes
  <2>4. PICK p : task' = [task EXCEPT ![r] = p]
    BY <1>4, RequestStepFrame
  <2>5. \A x \in Requests \ {r} : InFlight(x)' = InFlight(x)
    BY <2>4, OneMoves
  <2> QED BY <2>3, <2>5 DEF DrainIsFinal
<1>5. CASE UNCHANGED vars
  BY <1>1, <1>5 DEF vars, taskVars, stopVars
<1> QED BY <1>2, <1>3, <1>4, <1>5, NextIsOneOf

----------------------------------------------------------------------------
(* The registry of cancel functions.                                        *)

LEMMA RegistryNext == Shapes /\ RegistryIsLive /\ [Next]_vars => RegistryIsLive'
<1> SUFFICES ASSUME Shapes, RegistryIsLive, [Next]_vars PROVE RegistryIsLive'
  OBVIOUS
<1>1. ASSUME UNCHANGED <<task, activeQueries>> PROVE RegistryIsLive'
  BY <1>1 DEF RegistryIsLive, Registered, HasSlot
<1>2. CASE LoopStep
  BY <1>1, <1>2, LoopStepFrame DEF taskVars
<1>3. CASE ContextStep
  BY <1>1, <1>3, ContextStepFrame
<1>4. ASSUME NEW r \in Requests, RequestStep(r) PROVE RegistryIsLive'
  <2>1. PICK p : task' = [task EXCEPT ![r] = p]
    BY <1>4, RequestStepFrame
  <2>2. \A x \in Requests \ {r} : Registered(x)' = Registered(x)
    BY <2>1, OneMoves
  <2>3. QueryOf[r] \in Queries
    BY DaemonAssumption
  <2>4. CASE Register(r)
    <3>1. activeQueries' = [activeQueries EXCEPT ![QueryOf[r]] = r] /\ Registered(r)'
      BY <2>4 DEF Register, Goes, Registered, Shapes
    <3>2. \A q \in Queries \ {QueryOf[r]} : activeQueries'[q] = activeQueries[q] /\ activeQueries[q] # r
      BY <3>1, <2>4 DEF RegistryIsLive, Shapes
    <3>3. activeQueries'[QueryOf[r]] = r
      BY <2>3, <3>1 DEF Shapes
    <3>4. SUFFICES ASSUME NEW q \in Queries \ {QueryOf[r]}, activeQueries'[q] # NoRequest
                   PROVE  /\ QueryOf[activeQueries'[q]] = q
                          /\ Registered(activeQueries[q])'
      BY <3>1, <3>2, <3>3 DEF RegistryIsLive, Registered, HasSlot
    <3>5. activeQueries[q] \in Requests \ {r} /\ activeQueries'[q] = activeQueries[q]
      BY <3>2, <3>4 DEF Shapes
    <3>6. Registered(activeQueries[q]) /\ QueryOf[activeQueries[q]] = q
      BY <3>4, <3>5 DEF RegistryIsLive
    <3> QED BY <2>1, <3>5, <3>6 DEF Registered, HasSlot, Shapes
  <2>5. CASE Return(r)
    <3>1. activeQueries' = [activeQueries EXCEPT ![QueryOf[r]] = NoRequest]
      BY <2>5 DEF Return
    <3>2. SUFFICES ASSUME NEW q \in Queries, activeQueries'[q] # NoRequest
                   PROVE  /\ QueryOf[activeQueries'[q]] = q
                          /\ Registered(activeQueries[q])'
      BY DEF RegistryIsLive, Registered, HasSlot
    <3>3. q # QueryOf[r] /\ activeQueries'[q] = activeQueries[q]
      BY <3>1, <3>2 DEF Shapes
    <3>4. QueryOf[activeQueries[q]] = q /\ Registered(activeQueries[q])
      BY <3>2, <3>3 DEF RegistryIsLive
    <3>5. activeQueries[q] \in Requests \ {r}
      BY <3>2, <3>3, <3>4 DEF Shapes
    <3> QED BY <2>1, <3>3, <3>4, <3>5 DEF Registered, HasSlot, Shapes
  <2>6. CASE ~Register(r) /\ ~Return(r)
    <3>1. UNCHANGED activeQueries /\ (Registered(r) => p \in {"slotted", "counted", "running",
             "answered", "uncounted", "releasing", "queued", "returning"})
      BY <1>4, <2>1, <2>6 DEF Shapes, Registered, HasSlot, RequestStep, RequestRuns, HubSends,
           TakeRequest, AcquireSlot, QueueTimeout, QueueAbandoned, Count, ReportProbes,
           DispatchQuery, Uncount, ReleaseSlot, Goes
    <3>2. \A x \in Requests : Registered(x) => Registered(x)'
      BY <2>1, <3>1 DEF Registered, HasSlot, Shapes
    <3> QED BY <3>1, <3>2 DEF RegistryIsLive, Registered, HasSlot, Shapes
  <2> QED BY <2>4, <2>5, <2>6
<1>5. CASE UNCHANGED vars
  BY <1>1, <1>5 DEF vars, taskVars
<1> QED BY <1>2, <1>3, <1>4, <1>5, NextIsOneOf

----------------------------------------------------------------------------
(* The files.                                                               *)

LEMMA NothingBeforeNext == Shapes /\ NothingBefore /\ [Next]_vars => NothingBefore'
<1> SUFFICES ASSUME Shapes, NothingBefore, [Next]_vars,
                    loop' \in {"new", "checked"}
             PROVE  alive' = {} /\ \A r \in Requests : task'[r] = "absent"
  BY DEF NothingBefore
<1>1. CASE LoopStep
  <2>1. loop \in {"new", "checked"} /\ alive' \subseteq alive
    BY <1>1 DEF LoopStep, Reading, connVars, stopVars, fileVars, WriteStatus,
           CleanUpFiles, Start, InitFiles, LoopTop, AfterServe, Pause, FinishStart, Dial,
           DialFails, Greet, GreetFails, CloseConnection, BeginDrain, RequestShutdown,
           StopReturns, DrainWait, PingTick, Pong, HubAck, SocketDies
  <2> QED BY <1>1, <2>1, LoopStepFrame DEF NothingBefore, taskVars
<1>2. CASE ContextStep
  <2>1. loop \in {"new", "checked"} /\ alive' \subseteq alive
    BY <1>2 DEF ContextStep, DrainEnds, ConnectionFails, WatchdogFires, GiveUp,
           QueryCancel, Deadline, Reading, connVars, stopVars
  <2> QED BY <1>2, <2>1, ContextStepFrame DEF NothingBefore
<1>3. ASSUME NEW r \in Requests, RequestStep(r) PROVE FALSE
  <2>1. alive = {} /\ task[r] = "absent"
    BY <1>3, RequestStepFrame DEF NothingBefore
  <2> QED BY <1>3, <2>1 DEF RequestStep, RequestRuns, HubSends, TakeRequest, Register,
           AcquireSlot, QueueTimeout, QueueAbandoned, Count, ReportProbes, DispatchQuery,
           Uncount, ReleaseSlot, Return, Goes
<1>4. CASE UNCHANGED vars
  BY <1>4 DEF NothingBefore, vars, connVars, taskVars
<1> QED BY <1>1, <1>2, <1>3, <1>4, NextIsOneOf

\* What a step may do to the files.
LEMMA FileSteps ==
    ASSUME Shapes, [Next]_vars
    PROVE  \/ UNCHANGED fileVars
           \/ \E b \in BOOLEAN : WriteStatus(b)
           \/ CleanUpFiles
           \/ InitFiles
<1>1. CASE LoopStep
  BY <1>1 DEF LoopStep, Start, LoopTop, AfterServe, Pause, FinishStart, Dial, DialFails, Greet,
       GreetFails, CloseConnection, BeginDrain, RequestShutdown, StopReturns, DrainWait,
       PingTick, Pong, HubAck, SocketDies
<1>2. CASE ContextStep
  BY <1>2, ContextStepFiles
<1>3. ASSUME NEW r \in Requests, RequestStep(r)
      PROVE  UNCHANGED fileVars \/ \E b \in BOOLEAN : WriteStatus(b)
  <2>1. CASE ReportProbes(r)
    <3>1. seen[r] \in BOOLEAN
      BY DEF Shapes
    <3> QED BY <2>1, <3>1 DEF ReportProbes
  <2>2. CASE ~ReportProbes(r)
    BY <1>3, <2>2, RequestStepFrame DEF fileVars
  <2> QED BY <2>1, <2>2
<1>4. CASE UNCHANGED vars
  BY <1>4 DEF vars
<1> QED BY <1>1, <1>2, <1>3, <1>4, NextIsOneOf

LEMMA FilesNext ==
    Shapes /\ Counters /\ FileTyped /\ CleanUpIsFinal /\ [Next]_vars
    => FileTyped' /\ CleanUpIsFinal'
<1> SUFFICES ASSUME Shapes, Counters, FileTyped, CleanUpIsFinal, [Next]_vars
             PROVE  FileTyped' /\ CleanUpIsFinal'
  OBVIOUS
<1>1. probes \in Nat
  BY CountOne, FS_Subset, FS_CardinalityType, DaemonAssumption DEF Counters, Probing
<1>2. CASE UNCHANGED fileVars
  BY <1>2 DEF FileTyped, CleanUpIsFinal, fileVars, CleanFiles
<1>3. ASSUME NEW b \in BOOLEAN, WriteStatus(b) PROVE FileTyped' /\ CleanUpIsFinal'
  BY <1>1, <1>3 DEF FileTyped, CleanUpIsFinal, WriteStatus, CleanFiles
<1>4. CASE CleanUpFiles
  BY <1>4 DEF FileTyped, CleanUpIsFinal, CleanUpFiles, CleanFiles
<1>5. CASE InitFiles
  BY <1>5 DEF FileTyped, CleanUpIsFinal, InitFiles, CleanFiles
<1> QED BY <1>2, <1>3, <1>4, <1>5, FileSteps

\* InitFiles writes 0, and nothing runs yet; every other write shows the count
\* of its moment; a count that changes is followed by a write.
LEMMA FileIsCurrentNext ==
    Shapes /\ Counters /\ NothingBefore /\ FileTyped /\ FileIsCurrent /\ [Next]_vars
    => FileIsCurrent'
<1> SUFFICES ASSUME Shapes, Counters, NothingBefore, FileTyped, FileIsCurrent, [Next]_vars,
                    ~cleanedUp', \A r \in Requests : task'[r] \notin {"counted", "uncounted"}
             PROVE  file'.probes = probes'
  BY DEF FileIsCurrent
<1>1. ASSUME NEW b, WriteStatus(b) PROVE file'.probes = probes
  BY <1>1 DEF WriteStatus, FileTyped
<1>2. ASSUME UNCHANGED <<task, probes>> PROVE file'.probes = probes'
  <2>1. CASE UNCHANGED fileVars
    BY <1>2, <2>1 DEF FileIsCurrent, fileVars
  <2>2. ASSUME NEW b \in BOOLEAN, WriteStatus(b) PROVE file'.probes = probes'
    BY <1>1, <1>2, <2>2
  <2>3. CASE CleanUpFiles
    BY <2>3 DEF CleanUpFiles
  <2>4. CASE InitFiles
    <3>1. Probing = {}
      BY <2>4 DEF InitFiles, NothingBefore, Probing, IsProbe
    <3>2. probes = 0
      BY <3>1, FS_EmptySet DEF Counters
    <3> QED BY <1>2, <2>4, <3>2 DEF InitFiles
  <2> QED BY <2>1, <2>2, <2>3, <2>4, FileSteps
<1>3. CASE LoopStep
  BY <1>2, <1>3, LoopStepFrame DEF taskVars
<1>4. CASE ContextStep
  BY <1>2, <1>4, ContextStepFrame
<1>5. ASSUME NEW r \in Requests, RequestStep(r) PROVE file'.probes = probes'
  <2>1. CASE ReportProbes(r)
    BY <1>1, <2>1 DEF ReportProbes
  <2>2. CASE ~ReportProbes(r)
    <3>1. PICK p : task' = [task EXCEPT ![r] = p]
      BY <1>5, RequestStepFrame
    <3>2. task'[r] \notin {"counted", "uncounted"}
      OBVIOUS
    <3>3. probes' = probes /\ task[r] \notin {"counted", "uncounted"}
      BY <1>5, <2>2, <3>2 DEF Shapes, RequestStep, RequestRuns, HubSends, TakeRequest, Register,
           AcquireSlot, QueueTimeout, QueueAbandoned, Count, DispatchQuery, Uncount,
           ReleaseSlot, Return, Goes
    <3>4. \A x \in Requests : task[x] \notin {"counted", "uncounted"}
      BY <3>1, <3>3, OneMoves
    <3> QED BY <1>5, <2>2, <3>3, <3>4, RequestStepFrame DEF FileIsCurrent
  <2> QED BY <2>1, <2>2
<1>6. CASE UNCHANGED vars
  BY <1>2, <1>6 DEF vars, taskVars
<1> QED BY <1>3, <1>4, <1>5, <1>6, NextIsOneOf

----------------------------------------------------------------------------
(* Requests and their responses.                                            *)

LEMMA RequestsKnownNext == Shapes /\ RequestsKnown /\ [Next]_vars => RequestsKnown'
<1> SUFFICES ASSUME Shapes, RequestsKnown, [Next]_vars PROVE RequestsKnown'
  OBVIOUS
<1>1. ASSUME UNCHANGED <<task, home, replies>> PROVE RequestsKnown'
  BY <1>1 DEF RequestsKnown, Over
<1>2. CASE LoopStep
  BY <1>1, <1>2, LoopStepFrame DEF taskVars
<1>3. CASE ContextStep
  BY <1>1, <1>3, ContextStepFrame
<1>4. ASSUME NEW r \in Requests, RequestStep(r) PROVE RequestsKnown'
  <2>1. PICK p : task' = [task EXCEPT ![r] = p]
    BY <1>4, RequestStepFrame
  <2>2. /\ task'[r] # "absent"
        /\ Over(r) => Over(r)'
        /\ \/ replies' = replies
           \/ replies' = [replies EXCEPT ![r] = replies[r] + 1] /\ ~Over(r) /\ Over(r)'
    BY <1>4 DEF Shapes, Over, Respond, RequestStep, RequestRuns, HubSends, TakeRequest, Register,
           AcquireSlot, QueueTimeout, QueueAbandoned, Count, ReportProbes, DispatchQuery,
           Uncount, ReleaseSlot, Return, Goes
  <2>3. /\ home'[r] # 0
        /\ \A x \in Requests \ {r} : home'[x] = home[x]
    BY <1>4 DEF Shapes, RequestsKnown, RequestStep, RequestRuns, HubSends, TakeRequest, Register,
           AcquireSlot, QueueTimeout, QueueAbandoned, Count, ReportProbes, DispatchQuery,
           Uncount, ReleaseSlot, Return, Goes
  <2>4. /\ replies' \in [Requests -> Nat]
        /\ \A x \in Requests \ {r} : replies'[x] = replies[x]
        /\ replies'[r] <= 1
        /\ ~Over(r)' => replies'[r] = 0
    BY <2>2 DEF RequestsKnown
  <2>5. \A x \in Requests \ {r} : task'[x] = task[x]
    BY <2>1, OneMoves
  <2> QED BY <2>2, <2>3, <2>4, <2>5 DEF RequestsKnown, Over
<1>5. CASE UNCHANGED vars
  BY <1>1, <1>5 DEF vars, taskVars
<1> QED BY <1>2, <1>3, <1>4, <1>5, NextIsOneOf

----------------------------------------------------------------------------
(* The semaphore.                                                           *)

LEMMA SlotsBoundedNext ==
    Shapes /\ Counters /\ SlotsBounded /\ [Next]_vars => SlotsBounded'
<1> SUFFICES ASSUME Shapes, Counters, SlotsBounded, [Next]_vars PROVE SlotsBounded'
  OBVIOUS
<1>1. CASE LoopStep
  BY <1>1, LoopStepFrame DEF SlotsBounded, taskVars
<1>2. CASE ContextStep
  BY <1>2, ContextStepFrame DEF SlotsBounded
<1>3. ASSUME NEW r \in Requests, RequestStep(r) PROVE SlotsBounded'
  <2>1. slots \in Nat
    BY FS_Subset, FS_CardinalityType, DaemonAssumption DEF Counters, Holders
  <2>2. slots' = slots \/ slots' = slots - 1 \/ (slots' = slots + 1 /\ slots < Slots)
    BY <1>3 DEF RequestStep, RequestRuns, HubSends, TakeRequest, Register,
           AcquireSlot, QueueTimeout, QueueAbandoned, Count, ReportProbes, DispatchQuery,
           Uncount, ReleaseSlot, Return, Goes
  <2> QED BY <2>1, <2>2, DaemonAssumption DEF SlotsBounded
<1>4. CASE UNCHANGED vars
  BY <1>4 DEF SlotsBounded, vars, taskVars
<1> QED BY <1>1, <1>2, <1>3, <1>4, NextIsOneOf

----------------------------------------------------------------------------
(* The invariant and what follows from it.                                  *)

\* The inductive invariant: the properties and what they rest on.
DaemonInv ==
    /\ Shapes
    /\ Places
    /\ Counters
    /\ SlotsBounded
    /\ DrainAfterStop
    /\ DrainIsFinal
    /\ RegistryIsLive
    /\ NothingBefore
    /\ FileTyped
    /\ CleanUpIsFinal
    /\ FileIsCurrent
    /\ RequestsKnown

LEMMA InitInv == Init => DaemonInv
<1> SUFFICES ASSUME Init PROVE DaemonInv
  OBVIOUS
<1>1. Shapes /\ Places /\ NothingBefore /\ RequestsKnown
  <2>1. Shapes
    BY DaemonAssumption DEF Init, Shapes
  <2>2. Places
    BY DEF Init, Places
  <2>3. NothingBefore /\ RequestsKnown
    BY DEF Init, NothingBefore, RequestsKnown, Over
  <2> QED BY <2>1, <2>2, <2>3
<1>2. Holders = {} /\ Flying = {} /\ Probing = {}
  BY DEF Init, Holders, Flying, Probing, InFlight, Registered, HasSlot, IsProbe
<1>3. Counters /\ SlotsBounded
  BY <1>2, FS_EmptySet, DaemonAssumption DEF Init, Counters, SlotsBounded
<1>4. DrainAfterStop /\ DrainIsFinal
  BY DEF Init, DrainAfterStop, DrainIsFinal
<1>5. RegistryIsLive
  BY DEF Init, RegistryIsLive
<1>6. FileTyped /\ CleanUpIsFinal /\ FileIsCurrent
  BY DEF Init, FileTyped, CleanUpIsFinal, FileIsCurrent, CleanFiles
<1> QED BY <1>1, <1>3, <1>4, <1>5, <1>6 DEF DaemonInv

LEMMA NextInv == DaemonInv /\ [Next]_vars => DaemonInv'
BY ShapesNext, PlacesNext, CountersNext, SlotsBoundedNext, DrainNext, RegistryNext,
   NothingBeforeNext, FilesNext, FileIsCurrentNext, RequestsKnownNext DEF DaemonInv

LEMMA InvHolds == Spec => []DaemonInv
BY InitInv, NextInv, PTL DEF Spec

\* The types, with the semaphore within its capacity: a slot is given back by
\* the goroutine that has taken it, never by one that left the queue.
THEOREM TypeCorrect == Spec => []TypeOK
<1>1. DaemonInv => TypeOK
  <2> SUFFICES ASSUME DaemonInv PROVE TypeOK
    OBVIOUS
  <2>1. slots \in Nat /\ inFlight \in Nat /\ probes \in Nat
    BY FS_Subset, FS_CardinalityType, DaemonAssumption
       DEF DaemonInv, Counters, Holders, Flying, Probing
  <2>2. slots \in 0 .. Slots
    BY <2>1, DaemonAssumption DEF DaemonInv, SlotsBounded
  <2>3. alive \subseteq 1 .. MaxConns /\ home \in [Requests -> 0 .. MaxConns]
    BY DaemonAssumption DEF DaemonInv, Shapes
  <2>4. replies \in [Requests -> Nat]
    BY DEF DaemonInv, RequestsKnown
  <2>5. /\ file \in [pid : BOOLEAN, connected : BOOLEAN, probes : Nat]
        /\ cleanedUp \in BOOLEAN
    BY DEF DaemonInv, FileTyped
  <2>6. Shapes /\ Places
    BY DEF DaemonInv
  <2> QED BY <2>1, <2>2, <2>3, <2>4, <2>5, <2>6 DEF TypeOK, Shapes, Places
<1> QED BY <1>1, InvHolds, PTL

\* Never more than MaxConcurrency goroutines hold a slot, whatever connections
\* come and go: slots counts the holders and is bounded.
THEOREM LimitHolds == Spec => []ConcurrencyLimit
<1>1. DaemonInv => ConcurrencyLimit
  BY DEF DaemonInv, Counters, SlotsBounded, ConcurrencyLimit, Holders
<1> QED BY <1>1, InvHolds, PTL

\* The semaphore is within its type and bounds the probes that hold a slot.
THEOREM SlotsHold == Spec => []SlotsAreKept
<1>1. TypeOK /\ ConcurrencyLimit => SlotsAreKept
  BY DEF SlotsAreKept
<1> QED BY <1>1, TypeCorrect, LimitHolds, PTL

\* When the drain is over nothing is in flight and nothing starts any more.
THEOREM DrainHolds == Spec => []DrainIsFinal
<1>1. DaemonInv => DrainIsFinal
  BY DEF DaemonInv
<1> QED BY <1>1, InvHolds, PTL

\* Files that were cleaned up stay clean.
THEOREM CleanUpHolds == Spec => []CleanUpIsFinal
<1>1. DaemonInv => CleanUpIsFinal
  BY DEF DaemonInv
<1> QED BY <1>1, InvHolds, PTL

\* A cancel function in the registry belongs to a goroutine that has not returned.
THEOREM RegistryHolds == Spec => []RegistryIsLive
<1>1. DaemonInv => RegistryIsLive
  BY DEF DaemonInv
<1> QED BY <1>1, InvHolds, PTL

\* The status file shows the number of running probes unless a goroutine is
\* about to write it.
THEOREM ReportHolds == Spec => []ProbesReported
<1>1. DaemonInv => ProbesReported
  <2> SUFFICES ASSUME DaemonInv, ~cleanedUp,
                      \A r \in Requests : task[r] \notin {"counted", "uncounted"}
               PROVE  file.probes = Cardinality({r \in Requests : task[r] \in {"running", "answered"}})
    BY DEF ProbesReported
  <2>1. file.probes = probes /\ probes = Cardinality(Probing)
    BY DEF DaemonInv, FileIsCurrent, Counters
  <2>2. Probing = {r \in Requests : task[r] \in {"running", "answered"}}
    BY DEF Probing, IsProbe
  <2> QED BY <2>1, <2>2
<1> QED BY <1>1, InvHolds, PTL

\* The files tell the truth: the number of running probes while the daemon
\* lives, nothing once it has cleaned up.
THEOREM FilesHold == Spec => []FilesAreRight
<1>1. CleanUpIsFinal /\ ProbesReported => FilesAreRight
  BY DEF FilesAreRight
<1> QED BY <1>1, CleanUpHolds, ReportHolds, PTL

----------------------------------------------------------------------------
(* The daemon implements its contract.                                      *)

\* An excuse stays: stopCh is never opened again, a cancelled context stays
\* cancelled, and a reconnect does not bring an old connection back.
LEMMA ExcuseStays ==
    ASSUME Shapes, RequestsKnown, [Next]_vars, NEW x \in Requests, IsExcused(x)
    PROVE  IsExcused(x)'
<1>1. CASE LoopStep
  <2>1. UNCHANGED <<home, ctx>>
    BY <1>1, LoopStepFrame DEF taskVars
  <2>5. stop => stop'
    BY <1>1 DEF LoopStep, connVars, stopVars, Start, InitFiles, LoopTop,
           AfterServe, Pause, FinishStart, Dial, DialFails, Greet, GreetFails, CloseConnection,
           BeginDrain, RequestShutdown, StopReturns, DrainWait, PingTick, Pong, HubAck,
           SocketDies
  <2>2. alive' \subseteq alive \/ alive' = alive \cup {conn + 1}
    BY <1>1 DEF LoopStep, connVars, stopVars, Start, InitFiles, LoopTop,
           AfterServe, Pause, FinishStart, Dial, DialFails, Greet, GreetFails, CloseConnection,
           BeginDrain, RequestShutdown, StopReturns, DrainWait, PingTick, Pong, HubAck,
           SocketDies
  <2>3. home[x] \in 0 .. conn /\ conn \in Nat
    BY DEF Shapes
  <2>4. home[x] \notin alive => home[x] \notin alive'
    BY <2>2, <2>3
  <2> QED BY <2>1, <2>4, <2>5 DEF IsExcused
<1>2. CASE ContextStep
  <2>1. UNCHANGED <<home, stop>>
    BY <1>2, ContextStepFrame, ContextStepFiles DEF stopVars
  <2>2. alive' \subseteq alive /\ (ctx[x] = "cancelled" => ctx'[x] = "cancelled")
    BY <1>2 DEF Shapes, ContextStep, DrainEnds, ConnectionFails, WatchdogFires, GiveUp,
           QueryCancel, Deadline, connVars, stopVars
  <2> QED BY <2>1, <2>2 DEF IsExcused
<1>3. ASSUME NEW r \in Requests, RequestStep(r) PROVE IsExcused(x)'
  <2>1. UNCHANGED <<alive, stop>>
    BY <1>3, RequestStepFrame DEF connVars, stopVars
  <2>2. ctx' = ctx /\ (home[x] # 0 => home'[x] = home[x])
    BY <1>3 DEF Shapes, RequestsKnown, RequestStep, RequestRuns, HubSends, TakeRequest, Register,
           AcquireSlot, QueueTimeout, QueueAbandoned, Count, ReportProbes, DispatchQuery,
           Uncount, ReleaseSlot, Return, Goes
  <2> QED BY <2>1, <2>2 DEF IsExcused
<1>4. CASE UNCHANGED vars
  BY <1>4 DEF IsExcused, vars, connVars, stopVars, taskVars
<1> QED BY <1>1, <1>2, <1>3, <1>4, NextIsOneOf

\* What the Hub sees of one request changes as the contract says.
LEMMA LifeGoesOn ==
    ASSUME DaemonInv, [Next]_vars, NEW x \in Requests
    PROVE  \/ LifeOf(x)' = LifeOf(x)
           \/ LifeOf(x) = "absent" /\ LifeOf(x)' = "open"
           \/ LifeOf(x) = "open" /\ LifeOf(x)' = "answered"
           \/ LifeOf(x) = "open" /\ LifeOf(x)' = "dropped" /\ IsExcused(x)'
<1> USE DEF DaemonInv
<1>1. ASSUME task'[x] = task[x], replies'[x] = replies[x] PROVE LifeOf(x)' = LifeOf(x)
  BY <1>1 DEF LifeOf, Over
<1>2. CASE LoopStep
  BY <1>1, <1>2, LoopStepFrame DEF taskVars
<1>3. CASE ContextStep
  BY <1>1, <1>3, ContextStepFrame
<1>4. ASSUME NEW r \in Requests, RequestStep(r)
      PROVE  \/ LifeOf(x)' = LifeOf(x)
             \/ LifeOf(x) = "absent" /\ LifeOf(x)' = "open"
             \/ LifeOf(x) = "open" /\ LifeOf(x)' = "answered"
             \/ LifeOf(x) = "open" /\ LifeOf(x)' = "dropped" /\ IsExcused(x)'
  <2>1. CASE x # r
    <3>1. task'[x] = task[x] /\ replies'[x] = replies[x]
      BY <1>4, <2>1 DEF Shapes, RequestsKnown, Respond, RequestStep, RequestRuns, HubSends, TakeRequest, Register,
           AcquireSlot, QueueTimeout, QueueAbandoned, Count, ReportProbes, DispatchQuery,
           Uncount, ReleaseSlot, Return, Goes
    <3> QED BY <1>1, <3>1
  <2>2. CASE x = r
    <3>1. /\ task[r] = "absent" => task'[r] = "sent" /\ replies' = replies
          /\ task'[r] # "absent"
          /\ Over(r) => Over(r)' /\ replies' = replies
      BY <1>4 DEF Shapes, Over, RequestStep, RequestRuns, HubSends, TakeRequest, Register,
           AcquireSlot, QueueTimeout, QueueAbandoned, Count, ReportProbes, DispatchQuery,
           Uncount, ReleaseSlot, Return, Goes
    <3>2. ~Over(r) /\ task[r] # "absent" /\ ~Over(r)' => replies' = replies
      BY <1>4 DEF Shapes, Over, RequestStep, RequestRuns, HubSends, TakeRequest, Register,
           AcquireSlot, QueueTimeout, QueueAbandoned, Count, ReportProbes, DispatchQuery,
           Uncount, ReleaseSlot, Return, Goes
    <3>3. ~Over(r) /\ Over(r)'
          => replies'[r] = replies[r] + 1 \/ (replies' = replies /\ IsExcused(r)')
      <4> SUFFICES ASSUME ~Over(r), Over(r)'
                   PROVE  replies'[r] = replies[r] + 1 \/ (replies' = replies /\ IsExcused(r)')
        OBVIOUS
      <4>1. UNCHANGED <<stop, alive>>
        BY <1>4, RequestStepFrame DEF connVars, stopVars
      <4>2. home[r] # 0 \/ task[r] = "absent"
        BY DEF RequestsKnown
      <4>3. CASE TakeRequest(r)
        <5>1. ~TryAcquireProbe
          BY <4>3 DEF TakeRequest, Over, Shapes
        <5>2. stop
          BY <5>1 DEF TryAcquireProbe, DrainAfterStop
        <5> QED BY <4>1, <4>3, <5>2 DEF TakeRequest, IsExcused
      <4>4. CASE QueueTimeout(r) \/ DispatchQuery(r)
        <5>1. UNCHANGED <<home, ctx>> /\ Respond(r) /\ task[r] # "absent"
          BY <4>4 DEF QueueTimeout, DispatchQuery
        <5> QED BY <4>1, <4>2, <5>1 DEF Respond, IsExcused, RequestsKnown
      <4>5. CASE QueueAbandoned(r)
        BY <4>1, <4>5 DEF QueueAbandoned, IsExcused
      <4>6. CASE ~TakeRequest(r) /\ ~QueueTimeout(r) /\ ~DispatchQuery(r) /\ ~QueueAbandoned(r)
        BY <1>4, <4>6 DEF Shapes, Over, RequestStep, RequestRuns, HubSends, Register,
           AcquireSlot, Count, ReportProbes, Uncount, ReleaseSlot, Return, Goes
      <4> QED BY <4>3, <4>4, <4>5, <4>6
    <3>4. replies[r] \in {0, 1} /\ (~Over(r) => replies[r] = 0)
      BY DEF RequestsKnown
    <3>5. task[r] = "absent" => ~Over(r) /\ ~Over(r)'
      BY <3>1 DEF Over
    <3>6. CASE task[r] = "absent"
      <4>1. replies'[r] = 0 /\ ~Over(r)' /\ task'[r] # "absent"
        BY <3>1, <3>4, <3>5, <3>6
      <4>2. LifeOf(r) = "absent" /\ LifeOf(r)' = "open"
        BY <3>6, <4>1 DEF LifeOf
      <4> QED BY <2>2, <4>2
    <3>7. CASE task[r] # "absent" /\ Over(r)
      <4>1. LifeOf(r)' = LifeOf(r)
        BY <3>1, <3>7 DEF LifeOf
      <4> QED BY <2>2, <4>1
    <3>8. CASE task[r] # "absent" /\ ~Over(r) /\ ~Over(r)'
      <4>1. LifeOf(r)' = LifeOf(r)
        BY <3>1, <3>2, <3>8 DEF LifeOf
      <4> QED BY <2>2, <4>1
    <3>9. CASE task[r] # "absent" /\ ~Over(r) /\ Over(r)'
      <4>1. LifeOf(r) = "open"
        BY <3>4, <3>9 DEF LifeOf
      <4>2. CASE replies'[r] = replies[r] + 1
        <5>1. LifeOf(r)' = "answered"
          BY <3>1, <3>4, <3>9, <4>2 DEF LifeOf
        <5> QED BY <2>2, <4>1, <5>1
      <4>3. CASE replies' = replies /\ IsExcused(r)'
        <5>1. LifeOf(r)' = "dropped"
          BY <3>1, <3>4, <3>9, <4>3 DEF LifeOf
        <5> QED BY <2>2, <4>1, <4>3, <5>1
      <4> QED BY <3>3, <3>9, <4>2, <4>3
    <3> QED BY <3>6, <3>7, <3>8, <3>9
  <2> QED BY <2>1, <2>2
<1>5. CASE UNCHANGED vars
  BY <1>1, <1>5 DEF vars, taskVars
<1> QED BY <1>2, <1>3, <1>4, <1>5, NextIsOneOf

\* The daemon answers a request at most once and drops it only with an excuse:
\* Spec implements DaemonContract under the mapping LifeOf, IsExcused.
THEOREM ContractHolds == Spec => ImplementsContract
<1>1. Init => Contract!Init
  BY DEF Init, Contract!Init, LifeOf, IsExcused
<1>2. DaemonInv /\ [Next]_vars => [Contract!Next]_(Contract!contractVars)
  <2> SUFFICES ASSUME DaemonInv, [Next]_vars PROVE Contract!Next
    OBVIOUS
  <2>1. \A x \in Requests : IsExcused(x) => IsExcused(x)'
    BY ExcuseStays DEF DaemonInv
  <2>2. \A x \in Requests :
           \/ LifeOf(x)' = LifeOf(x)
           \/ LifeOf(x) = "absent" /\ LifeOf(x)' = "open"
           \/ LifeOf(x) = "open" /\ LifeOf(x)' = "answered"
           \/ LifeOf(x) = "open" /\ LifeOf(x)' = "dropped" /\ IsExcused(x)'
    BY LifeGoesOn
  <2> QED BY <2>1, <2>2 DEF Contract!Next
<1> QED BY <1>1, <1>2, InvHolds, PTL DEF Spec, ImplementsContract, Contract!Spec

----------------------------------------------------------------------------
(* The ask command.  The exit code is honest because the command only ever  *)
(* reports statuses that the query has had (ReportsHistory), and polls only *)
(* for a query that the Hub has accepted (PollsAccepted).                   *)

ReportsHistory ==
    /\ query # "absent" => query \in had
    /\ reply \in {None, "no status"} \cup had

PollsAccepted ==
    /\ askPc \in {"poll", "sleep", "answered"} => wait /\ query # "absent"
    /\ askPc \in {"start", "submitted"} => reply = None
    /\ askPc = "answered" => reply \in {"no status"} \cup had

ExitEnds == askPc # "done" => exit = None

AskInv == Ask!AskIsHonest /\ ReportsHistory /\ PollsAccepted /\ ExitEnds

LEMMA AskInit ==
    ASSUME Ask!ConstantsAreDistinct, Ask!Init
    PROVE  AskInv
  BY DEF Ask!ConstantsAreDistinct, Ask!Init, AskInv, Ask!AskIsHonest, Ask!TypeOK,
         Ask!SuccessIsReal, Ask!WaitsWhileInFlight, ReportsHistory, PollsAccepted, ExitEnds

\* The command may end with this code.
MayExit(code) ==
    /\ code = 0 => query # "absent" /\ (wait => \E s \in had : s \in {"completed", "success"})
    /\ wait /\ reply' # None =>
          late \/ interrupted \/ reply' = "no status" \/ \E s \in had : s \in Outcomes

LEMMA ExitKeeps ==
    ASSUME Ask!ConstantsAreDistinct, AskInv, NEW code \in {0, 1, 130}, Ask!Exit(code),
           UNCHANGED <<wait, late, interrupted, query, had>>,
           reply' \in {None, "no status"} \cup had,
           MayExit(code)
    PROVE  AskInv'
  <1> USE DEF AskInv, Ask!AskIsHonest, Ask!Exit
  <1>1. Ask!TypeOK'
    BY DEF Ask!TypeOK
  <1>2. ReportsHistory' /\ PollsAccepted' /\ ExitEnds'
    BY DEF ReportsHistory, PollsAccepted, ExitEnds
  <1>3. Ask!SuccessIsReal'
    BY DEF Ask!SuccessIsReal, MayExit
  <1>4. Ask!WaitsWhileInFlight'
    BY DEF Ask!WaitsWhileInFlight, MayExit
  <1>5. QED
    BY <1>1, <1>2, <1>3, <1>4

LEMMA StayKeeps ==
    ASSUME Ask!ConstantsAreDistinct, AskInv, askPc # "done", askPc' # "done", UNCHANGED exit,
           Ask!TypeOK', ReportsHistory', PollsAccepted'
    PROVE  AskInv'
  BY DEF AskInv, Ask!AskIsHonest, ExitEnds, Ask!SuccessIsReal, Ask!WaitsWhileInFlight,
         Ask!ConstantsAreDistinct

LEMMA AskStutter ==
    ASSUME AskInv, UNCHANGED Ask!vars
    PROVE  AskInv'
  <1> USE DEF Ask!vars, AskInv, Ask!AskIsHonest
  <1>1. Ask!TypeOK'
    BY DEF Ask!TypeOK
  <1>2. ReportsHistory' /\ PollsAccepted' /\ ExitEnds'
    BY DEF ReportsHistory, PollsAccepted, ExitEnds
  <1>3. Ask!SuccessIsReal'
    BY DEF Ask!SuccessIsReal
  <1>4. Ask!WaitsWhileInFlight'
    BY DEF Ask!WaitsWhileInFlight
  <1>5. QED
    BY <1>1, <1>2, <1>3, <1>4

LEMMA AskNext ==
    ASSUME Ask!ConstantsAreDistinct, AskInv, [Ask!Next]_Ask!vars
    PROVE  AskInv'
  <1> Ask!TypeOK /\ ReportsHistory /\ PollsAccepted
    BY DEF AskInv, Ask!AskIsHonest
  <1> 1 # 0 /\ 130 # 0
    OBVIOUS
  <1> USE DEF Ask!ConstantsAreDistinct, Ask!InFlight, Ask!TypeOK, ReportsHistory, PollsAccepted
  <1>1. CASE Ask!Send
    <2>1. askPc # "done" /\ askPc' # "done" /\ UNCHANGED exit
      BY <1>1 DEF Ask!Send
    <2>2. Ask!TypeOK'
      BY <1>1 DEF Ask!Send
    <2>3. ReportsHistory' /\ PollsAccepted'
      BY <1>1 DEF Ask!Send
    <2>4. QED
      BY <2>1, <2>2, <2>3, StayKeeps
  <1>2. CASE Ask!Poll
    <2>1. askPc # "done" /\ askPc' # "done" /\ UNCHANGED exit
      BY <1>2 DEF Ask!Poll
    <2>2. Ask!TypeOK'
      BY <1>2 DEF Ask!Poll
    <2>3. ReportsHistory' /\ PollsAccepted'
      BY <1>2 DEF Ask!Poll
    <2>4. QED
      BY <2>1, <2>2, <2>3, StayKeeps
  <1>3. CASE Ask!Wake
    <2>1. askPc # "done" /\ askPc' # "done" /\ UNCHANGED exit
      BY <1>3 DEF Ask!Wake
    <2>2. Ask!TypeOK'
      BY <1>3 DEF Ask!Wake
    <2>3. ReportsHistory' /\ PollsAccepted'
      BY <1>3 DEF Ask!Wake
    <2>4. QED
      BY <2>1, <2>2, <2>3, StayKeeps
  <1>4. CASE Ask!PollFails
    <2>1. askPc # "done" /\ askPc' # "done" /\ UNCHANGED exit
      BY <1>4 DEF Ask!PollFails
    <2>2. Ask!TypeOK'
      BY <1>4 DEF Ask!PollFails
    <2>3. ReportsHistory' /\ PollsAccepted'
      BY <1>4 DEF Ask!PollFails
    <2>4. QED
      BY <2>1, <2>2, <2>3, StayKeeps
  <1>5. CASE Ask!HubAccepts
    <2>1. askPc # "done" /\ askPc' # "done" /\ UNCHANGED exit
      BY <1>5 DEF Ask!HubAccepts
    <2>2. Ask!TypeOK'
      BY <1>5 DEF Ask!HubAccepts
    <2>3. ReportsHistory' /\ PollsAccepted'
      BY <1>5 DEF Ask!HubAccepts
    <2>4. QED
      BY <2>1, <2>2, <2>3, StayKeeps
  <1>6. CASE Ask!HubMoves
    <2>1. askPc # "done" /\ askPc' # "done" /\ UNCHANGED exit
      BY <1>6 DEF Ask!HubMoves
    <2>2. Ask!TypeOK'
      BY <1>6 DEF Ask!HubMoves
    <2>3. ReportsHistory' /\ PollsAccepted'
      BY <1>6 DEF Ask!HubMoves
    <2>4. QED
      BY <2>1, <2>2, <2>3, StayKeeps
  <1>7. CASE Ask!Deadline
    <2>1. askPc # "done" /\ askPc' # "done" /\ UNCHANGED exit
      BY <1>7 DEF Ask!Deadline
    <2>2. Ask!TypeOK'
      BY <1>7 DEF Ask!Deadline
    <2>3. ReportsHistory' /\ PollsAccepted'
      BY <1>7 DEF Ask!Deadline
    <2>4. QED
      BY <2>1, <2>2, <2>3, StayKeeps
  <1>8. CASE Ask!Interrupt
    <2>1. askPc # "done" /\ askPc' # "done" /\ UNCHANGED exit
      BY <1>8 DEF Ask!Interrupt
    <2>2. Ask!TypeOK'
      BY <1>8 DEF Ask!Interrupt
    <2>3. ReportsHistory' /\ PollsAccepted'
      BY <1>8 DEF Ask!Interrupt
    <2>4. QED
      BY <2>1, <2>2, <2>3, StayKeeps
  <1>9. CASE Ask!Refuse
    BY <1>9, ExitKeeps DEF Ask!Refuse, MayExit
  <1>10. CASE Ask!SubmitFails
    BY <1>10, ExitKeeps DEF Ask!SubmitFails, MayExit
  <1>11. CASE Ask!PollInterrupted
    <2>1. MayExit(130)
      BY <1>11 DEF Ask!PollInterrupted, MayExit
    <2>2. QED
      BY <1>11, <2>1, ExitKeeps DEF Ask!PollInterrupted
  <1>12. CASE Ask!TimedOut
    <2>1. MayExit(1)
      BY <1>12 DEF Ask!TimedOut, MayExit
    <2>2. QED
      BY <1>12, <2>1, ExitKeeps DEF Ask!TimedOut
  <1>13. CASE Ask!Submitted
    <2> USE <1>13 DEF Ask!Submitted
    <2>1. reply' \in had /\ query # "absent"
      OBVIOUS
    <2>2. CASE reply' \in Ask!Final
      <3> DEFINE code == IF reply' \in {"completed", "success"} THEN 0 ELSE 1
      <3>1. MayExit(code)
        BY <2>1, <2>2 DEF Ask!Final, MayExit
      <3>2. Ask!Exit(code)
        BY <2>2 DEF Ask!renderQueryOutcome
      <3>3. QED
        BY <2>1, <3>1, <3>2, ExitKeeps
    <2>3. CASE reply' \notin Ask!Final /\ ~wait
      <3>1. MayExit(0)
        BY <2>1, <2>3 DEF MayExit
      <3>2. QED
        BY <2>1, <2>3, <3>1, ExitKeeps
    <2>4. CASE reply' \notin Ask!Final /\ wait
      BY <2>1, <2>4, StayKeeps
    <2>5. QED
      BY <2>2, <2>3, <2>4
  <1>14. CASE Ask!PollAnswered
    <2> USE <1>14 DEF Ask!PollAnswered
    <2>1. CASE reply \in Ask!InFlight
      BY <2>1, StayKeeps
    <2>2. CASE reply \notin Ask!InFlight
      <3> DEFINE code == IF reply \in {"completed", "success"} THEN 0 ELSE 1
      <3>1. MayExit(code)
        BY <2>2 DEF MayExit
      <3>2. Ask!Exit(code)
        BY <2>2 DEF Ask!renderQueryOutcome
      <3>3. QED
        BY <3>1, <3>2, ExitKeeps
    <2>3. QED
      BY <2>1, <2>2
  <1>15. CASE UNCHANGED Ask!vars
    BY <1>15, AskStutter
  <1>16. QED
    BY <1>1, <1>2, <1>3, <1>4, <1>5, <1>6, <1>7, <1>8, <1>9, <1>10, <1>11, <1>12, <1>13,
       <1>14, <1>15 DEF Ask!Next, Ask!Work

\* Exit code 0 of talkintent ask always stands for an answer (with --wait) or
\* for an accepted query, and the command does not give up on a query in
\* flight, for any statuses of the Hub and any losses on the way.
THEOREM AskHolds == Ask!Spec => []AskIsHonest
  <1>1. AskInv => AskIsHonest
    BY DEF AskInv, AskIsHonest
  <1>2. Ask!Init => AskInv
    BY AskInit, PartsAssumption
  <1>3. AskInv /\ [Ask!Next]_Ask!vars => AskInv'
    BY AskNext, PartsAssumption
  <1>4. QED
    BY <1>1, <1>2, <1>3, PTL DEF Ask!Spec

----------------------------------------------------------------------------
(* The daemon as a process.  A command knows the one daemon that may work   *)
(* (Followed): in its first look and before a spawn there is none, and      *)
(* between two commands the file names it (DaemonIsNamed).                  *)

Idle == \A p \in Pids : p \notin Process!Working

Only(p) == \A x \in Pids : x \in Process!Working => x = p

Followed ==
    /\ cmd = "spawn" => Idle /\ done = None
    /\ cmd \in {"write", "signal", "wait"} => pid \in Pids /\ Only(pid)
    /\ cmd = "remove" => Idle

NamedOnly == cmd = "idle" => Only(pidFile)

StoppedIdle == done \in {"stopped", "not running"} => Idle

ProcessInv == Process!TypeOK /\ Followed /\ NamedOnly /\ StoppedIdle

LEMMA ProcessConstants ==
    ASSUME Process!ConstantsAreDistinct
    PROVE  /\ 0 \in 0 .. Tries
           /\ \A t \in 0 .. Tries : t < Tries => t + 1 \in 0 .. Tries
           /\ None \notin Pids
           /\ None # "stopped" /\ None # "not running"
  <1>1. Tries \in Nat
    BY DEF Process!ConstantsAreDistinct
  <1>2. 0 \in 0 .. Tries /\ \A t \in 0 .. Tries : t < Tries => t + 1 \in 0 .. Tries
    BY <1>1
  <1>3. None \notin Pids /\ None # "stopped" /\ None # "not running"
    BY DEF Process!ConstantsAreDistinct
  <1>4. QED
    BY <1>2, <1>3

LEMMA ProcessInit ==
    ASSUME Process!ConstantsAreDistinct, Process!Init
    PROVE  ProcessInv
  <1> USE ProcessConstants DEF Process!Init
  <1>1. Process!TypeOK
    BY DEF Process!TypeOK
  <1>2. Idle
    BY DEF Idle, Process!Working, Process!Alive
  <1>3. QED
    BY <1>1, <1>2 DEF ProcessInv, Followed, NamedOnly, StoppedIdle, Idle, Only

\* The steps of a process: no daemon begins to work.
LEMMA LifeKeeps ==
    ASSUME Process!ConstantsAreDistinct, ProcessInv, NEW p \in Pids, Process!Process(p)
    PROVE  ProcessInv'
  <1> USE ProcessConstants DEF ProcessInv, Process!TypeOK, Followed,
              NamedOnly, StoppedIdle, Idle, Only, Process!Working, Process!Alive,
              Process!Becomes
  <1>1. CASE Process!Starts(p)
    BY <1>1 DEF Process!Starts
  <1>2. CASE Process!StartFails(p)
    BY <1>2 DEF Process!StartFails
  <1>3. CASE Process!Stops(p)
    BY <1>3 DEF Process!Stops
  <1>4. CASE Process!RemoveDaemonPID(p)
    BY <1>4 DEF Process!RemoveDaemonPID
  <1>5. CASE Process!Exits(p)
    BY <1>5 DEF Process!Exits
  <1>6. CASE Process!Crashes(p)
    BY <1>6 DEF Process!Crashes
  <1>7. QED
    BY <1>1, <1>2, <1>3, <1>4, <1>5, <1>6 DEF Process!Process

LEMMA ProcessNext ==
    ASSUME Process!ConstantsAreDistinct, ProcessInv, [Process!Next]_Process!vars
    PROVE  ProcessInv'
  <1> USE ProcessConstants DEF ProcessInv, Process!TypeOK, Followed,
              NamedOnly, StoppedIdle, Idle, Only, Process!Working, Process!Alive,
              Process!Return, Process!isProcessRunning
  <1>1. CASE Process!Detach
    BY <1>1 DEF Process!Detach
  <1>2. CASE Process!Spawn
    BY <1>2 DEF Process!Spawn
  <1>3. CASE Process!WritePid
    BY <1>3 DEF Process!WritePid
  <1>4. CASE Process!Stop
    BY <1>4 DEF Process!Stop
  <1>5. CASE Process!Signal
    BY <1>5 DEF Process!Signal
  <1>6. CASE Process!Look
    BY <1>6 DEF Process!Look
  <1>7. CASE Process!Kill
    BY <1>7 DEF Process!Kill
  <1>8. CASE Process!RemovePid
    BY <1>8 DEF Process!RemovePid
  <1>9. CASE Process!Status
    BY <1>9 DEF Process!Status
  <1>10. CASE \E p \in Pids : Process!Process(p)
    BY <1>10, LifeKeeps
  <1>11. CASE UNCHANGED Process!vars
    BY <1>11 DEF Process!vars
  <1>12. QED
    BY <1>1, <1>2, <1>3, <1>4, <1>5, <1>6, <1>7, <1>8, <1>9, <1>10, <1>11
    DEF Process!Next, Process!Command

\* The instance counts as FiniteSets does.
LEMMA SameCardinality ==
    ASSUME NEW S
    PROVE  Process!Cardinality(S) = Cardinality(S)
  BY DEF Process!Cardinality, Cardinality, Process!IsFiniteSet, IsFiniteSet

LEMMA OneWorks ==
    ASSUME ProcessInv
    PROVE  Cardinality(Process!Working) <= 1
  <1>1. PICK p : Only(p)
    BY DEF ProcessInv, Process!TypeOK, Followed, NamedOnly, Idle, Only
  <1>2. CASE Process!Working = {}
    BY <1>2, FS_EmptySet
  <1>3. CASE Process!Working # {}
    <2>1. Process!Working = {p}
      BY <1>1, <1>3 DEF Only, Process!Working, Process!Alive
    <2>2. Cardinality({p}) = 1
      BY FS_Singleton
    <2>3. QED
      BY <2>1, <2>2
  <1>4. QED
    BY <1>2, <1>3

\* There is one daemon of a member on the machine at most, the file names it
\* between two commands, and daemon stop leaves none, for any number of
\* processes that start, fail, leave and crash at any moment.
THEOREM DaemonsHold == Process!Spec => []DaemonsAreKept
  <1>1. ProcessInv => DaemonsAreKept
    <2> SUFFICES ASSUME ProcessInv PROVE DaemonsAreKept
      OBVIOUS
    <2>1. Process!OneDaemon
      BY OneWorks, SameCardinality DEF Process!OneDaemon
    <2>2. Process!TypeOK
      BY DEF ProcessInv
    <2>3. Process!DaemonIsNamed
      BY DEF ProcessInv, NamedOnly, Only, Process!DaemonIsNamed, Process!Working, Process!Alive
    <2>4. Process!StopLeavesNone
      BY DEF ProcessInv, StoppedIdle, Idle, Process!StopLeavesNone, Process!Working, Process!Alive
    <2>5. QED
      BY <2>1, <2>2, <2>3, <2>4 DEF Process!DaemonsAreKept, DaemonsAreKept
  <1>2. Process!Init => ProcessInv
    BY ProcessInit, PartsAssumption
  <1>3. ProcessInv /\ [Process!Next]_Process!vars => ProcessInv'
    BY ProcessNext, PartsAssumption
  <1>4. QED
    BY <1>1, <1>2, <1>3, PTL DEF Process!Spec

----------------------------------------------------------------------------
(* A run of the probe (ProbeAgent).  What a text says of a key goes with    *)
(* the redaction, which leaves no half behind if the text has none; the     *)
(* calls of a turn stay owed until the message after them answers them.     *)

HIDE DaemonAssumption

\* What texts and lists of names consist of.
Cells ==
    {"redacted", "truncated", "question", "reason", "step limit", "summarise"}
    \cup UNION {Probe!ToSet(s) : s \in Texts \cup Outputs \cup Batches}

ProbeStatus == {"pending", "completed", "refused", "timeout", "error"}
CallIds == (Nat \X Nat) \cup {<<>>}
Message == [role : {"user", "assistant", "tool"}, content : Seq(Cells),
            calls : Seq(CallIds), id : CallIds]
Entry == [role : {"user", "assistant"}, uses : Seq(CallIds), results : Seq(CallIds)]

\* Neither half of a key.
Clean(text) == text \in Seq(Cells) /\ \A i \in 1 .. Len(text) : text[i] \notin {"k1", "k2"}

\* A text that may be sent after redaction.
Quotable(text) == text \in Seq(Cells) /\ Probe!WholeKeys(text)

\* The types of a run.
ProbeTypes ==
    /\ probePc \in {"start", "top", "chat", "tools", "summary", "finish", "done"}
    /\ probeCtx \in {"none", "deadline", "canceled"}
    /\ failure \in {"none", "deadline", "canceled", "failed"}
    /\ refusing \in BOOLEAN
    /\ messages \in Seq(Message)
    /\ todo \in Seq([id : CallIds, name : Cells])
    /\ result \in [status : ProbeStatus, answer : Seq(Cells)]

\* A request for each step that has begun, and one for the summary.
Budget ==
    /\ step \in 0 .. MaxSteps /\ requests \in 0 .. MaxSteps + 1 /\ usage \in 0 .. requests
    /\ probePc \in {"start", "top", "chat"} => requests = step
    /\ probePc \in {"chat", "tools"} => step < MaxSteps
    /\ probePc = "tools" => requests = step + 1
    /\ probePc = "summary" => requests <= MaxSteps

\* The refuse tool is never among the calls to execute.
Refusal ==
    /\ \A i \in 1 .. Len(todo) : todo[i].name # "refuse"
    /\ "refuse" \notin used
    /\ refusing => probePc = "done" /\ result.status = "refused"

\* What the model said is quotable, and what has left is clean.
Secrets ==
    /\ \A i \in 1 .. Len(messages) : messages[i].role = "assistant" => Quotable(messages[i].content)
    /\ probePc = "finish" /\ failure = "none" => Quotable(answer) /\ answer # <<>>
    /\ Clean(result.answer)

\* The calls of the first n entries are answered by the entry after them.
AnsweredTo(c, n) ==
    \A i \in 1 .. n : c[i].uses # <<>> => i < Len(c) /\ c[i + 1].results = c[i].uses

\* Every call of a converted conversation is answered.
Settled(c) == c \in Seq(Entry) /\ AnsweredTo(c, Len(c))

\* Only the calls in ids are not: either no result of their turn is there, or
\* the last entry has the results of those before them.
Owing(c, ids) ==
    /\ c \in Seq(Entry) /\ c # <<>>
    /\ \/ /\ c[Len(c)].role = "assistant" /\ c[Len(c)].uses = ids
          /\ AnsweredTo(c, Len(c) - 1)
       \/ /\ c[Len(c)].role = "user" /\ c[Len(c)].uses = <<>> /\ Len(c) > 1
          /\ c[Len(c) - 1].uses = c[Len(c)].results \o ids
          /\ AnsweredTo(c, Len(c) - 2)

IdsOf(calls) == [i \in 1 .. Len(calls) |-> calls[i].id]

\* The conversation, as the API will see it.
Conversation ==
    IF probePc = "tools" THEN todo # <<>> /\ Owing(Probe!ConvertAll(messages), IdsOf(todo))
    ELSE Settled(Probe!ConvertAll(messages))

ProbeInv == ProbeTypes /\ Budget /\ Refusal /\ Secrets /\ Conversation

----------------------------------------------------------------------------
(* Redaction.                                                               *)

LEMMA CellsAre ==
    /\ "redacted" \in Cells /\ "truncated" \in Cells
    /\ "question" \in Cells /\ "reason" \in Cells /\ "step limit" \in Cells
    /\ "summarise" \in Cells
  BY DEF Cells

LEMMA TextsAre ==
    ASSUME Probe!ConstantsAreTyped, NEW s \in Texts \cup Outputs \cup Batches
    PROVE  s \in Seq(Cells)
  <1>1. s \in Seq(Probe!ToSet(s))
    BY DEF Probe!ConstantsAreTyped
  <1>2. Probe!ToSet(s) \subseteq Cells
    BY DEF Cells
  <1>3. QED
    BY <1>1, <1>2, SeqGrows

LEMMA WholeKeysAt ==
    ASSUME NEW text \in Seq(Cells), Probe!WholeKeys(text), NEW i \in 1 .. Len(text)
    PROVE  /\ text[i] = "k1" => i < Len(text) /\ text[i + 1] = "k2"
           /\ text[i] = "k2" => i > 1 /\ text[i - 1] = "k1"
  <1>1. i \in DOMAIN text
    OBVIOUS
  <1>2. QED
    BY <1>1, Zenon DEF Probe!WholeKeys

\* One turn of the redaction.
RedactStep(out, text, n) ==
    IF n = 0 THEN <<>>
    ELSE IF text[n] = "k2" /\ out[n - 1] # <<>> /\ Probe!Last(out[n - 1]) = "k1"
    THEN Append(Probe!Front(out[n - 1]), "redacted") ELSE Append(out[n - 1], text[n])

LEMMA RedactExists ==
    ASSUME NEW text
    PROVE  \A m \in Nat : \E f : f = [n \in 0 .. m |-> RedactStep(f, text, n)]
  <1> DEFINE T == {m \in Nat : \E f : f = [n \in 0 .. m |-> RedactStep(f, text, n)]}
  <1>1. 0 \in T
    <2> DEFINE f == [n \in 0 .. 0 |-> <<>>]
    <2>1. f = [n \in 0 .. 0 |-> RedactStep(f, text, n)]
      BY DEF RedactStep
    <2>2. QED
      BY <2>1
  <1>2. ASSUME NEW m \in Nat, m \in T PROVE m + 1 \in T
    <2>1. PICK f : f = [n \in 0 .. m |-> RedactStep(f, text, n)]
      BY <1>2
    <2> DEFINE g == [n \in 0 .. m + 1 |-> RedactStep(f, text, n)]
    <2>2. ASSUME NEW n \in 0 .. m + 1 PROVE g[n] = RedactStep(g, text, n)
      <3>1. CASE n = 0
        BY <3>1 DEF RedactStep
      <3>2. CASE n # 0
        <4>1. n - 1 \in 0 .. m /\ n - 1 \in 0 .. m + 1
          BY <3>2
        <4>2. g[n - 1] = RedactStep(f, text, n - 1)
          BY <4>1
        <4>3. f[n - 1] = RedactStep(f, text, n - 1)
          BY <4>1, <2>1
        <4>4. g[n - 1] = f[n - 1]
          BY <4>2, <4>3
        <4>5. g[n] = RedactStep(f, text, n)
          OBVIOUS
        <4> HIDE DEF g
        <4>6. QED
          BY <4>4, <4>5, <3>2 DEF RedactStep
      <3>3. QED
        BY <3>1, <3>2
    <2>3. g = [n \in 0 .. m + 1 |-> RedactStep(g, text, n)]
      BY <2>2
    <2>4. \E h : h = [n \in 0 .. m + 1 |-> RedactStep(h, text, n)]
      <3> HIDE DEF g
      <3>1. QED
        BY <2>3
    <2>5. QED
      BY <2>4
  <1>3. QED
    BY <1>1, <1>2, Induction

LEMMA RedactLoop ==
    ASSUME NEW text \in Seq(Cells)
    PROVE  \E f : /\ f = [n \in 0 .. Len(text) |-> RedactStep(f, text, n)]
                  /\ Probe!Redact(text) = f[Len(text)]
  <1> DEFINE f == CHOOSE g : g = [n \in 0 .. Len(text) |-> RedactStep(g, text, n)]
  <1>1. f = [n \in 0 .. Len(text) |-> RedactStep(f, text, n)]
    <2>1. Len(text) \in Nat
      OBVIOUS
    <2>2. \E g : g = [n \in 0 .. Len(text) |-> RedactStep(g, text, n)]
      BY <2>1, RedactExists
    <2>3. QED
      BY <2>2, Zenon
  <1>2. Probe!Redact(text) = f[Len(text)]
    BY DEF Probe!Redact, RedactStep
  <1>3. QED
    BY <1>1, <1>2

\* A half of a key is left only at the end, where its other half has not been
\* met.
NoHalves(k, text, n) ==
    /\ \A i \in 1 .. Len(k) : k[i] # "k2" /\ (k[i] = "k1" => i = Len(k) /\ n > 0 /\ text[n] = "k1")
    /\ n > 0 /\ text[n] = "k1" => k # <<>> /\ k[Len(k)] = "k1"

RedactedTo(k, text, n) ==
    k \in Seq(Cells) /\ (Probe!WholeKeys(text) => NoHalves(k, text, n))

\* One turn keeps that.
LEMMA RedactTurn ==
    ASSUME NEW text \in Seq(Cells), NEW n \in 1 .. Len(text), NEW k, RedactedTo(k, text, n - 1),
           NEW r,
           r = IF text[n] = "k2" /\ k # <<>> /\ Probe!Last(k) = "k1"
               THEN Append(Probe!Front(k), "redacted") ELSE Append(k, text[n])
    PROVE  RedactedTo(r, text, n)
  <1>1. k \in Seq(Cells) /\ text[n] \in Cells
    BY DEF RedactedTo
  <1>2. CASE text[n] = "k2" /\ k # <<>> /\ Probe!Last(k) = "k1"
    <2>1. Probe!Front(k) \in Seq(Cells) /\ Len(Probe!Front(k)) = Len(k) - 1
          /\ \A i \in 1 .. Len(k) - 1 : Probe!Front(k)[i] = k[i]
      <3>1. Len(k) - 1 \in 0 .. Len(k)
        BY <1>1, <1>2
      <3>2. QED
        BY <3>1, <1>1, CutIs DEF Probe!Front
    <2>2. r \in Seq(Cells) /\ Len(r) = Len(k) /\ r[Len(k)] = "redacted"
          /\ \A i \in 1 .. Len(k) - 1 : r[i] = k[i]
      <3>1. r = Append(Probe!Front(k), "redacted") /\ "redacted" \in Cells
        BY <1>2, CellsAre
      <3>2. Len(Probe!Front(k)) + 1 = Len(k)
        BY <2>1, <1>1
      <3>3. QED
        <4> DEFINE s == Probe!Front(k)
        <4> HIDE DEF s
        <4>1. s \in Seq(Cells) /\ Len(s) + 1 = Len(k) /\ \A i \in 1 .. Len(s) : s[i] = k[i]
          BY <3>2, <2>1, <1>1 DEF s
        <4>2. /\ Append(s, "redacted") \in Seq(Cells)
              /\ Len(Append(s, "redacted")) = Len(s) + 1
              /\ Append(s, "redacted")[Len(s) + 1] = "redacted"
              /\ \A i \in 1 .. Len(s) : Append(s, "redacted")[i] = s[i]
          BY <3>1, <4>1, AppendIs
        <4>3. r = Append(s, "redacted")
          BY <3>1 DEF s
        <4>4. Len(k) - 1 = Len(s)
          BY <4>1, <1>1
        <4>5. QED
          BY <4>1, <4>2, <4>3, <4>4
    <2>3. ASSUME NoHalves(k, text, n - 1) PROVE NoHalves(r, text, n)
      <3>1. \A i \in 1 .. Len(k) - 1 : r[i] \notin {"k1", "k2"}
        BY <2>2, <2>3, <1>1 DEF NoHalves
      <3>2. \A i \in 1 .. Len(r) : r[i] \notin {"k1", "k2"}
        BY <2>2, <3>1, <1>1
      <3>3. text[n] # "k1"
        BY <1>2
      <3>4. QED
        BY <3>2, <3>3 DEF NoHalves
    <2>4. QED
      BY <2>2, <2>3 DEF RedactedTo
  <1>3. CASE ~(text[n] = "k2" /\ k # <<>> /\ Probe!Last(k) = "k1")
    <2>1. r = Append(k, text[n])
      BY <1>3
    <2>2. r \in Seq(Cells) /\ Len(r) = Len(k) + 1 /\ r[Len(k) + 1] = text[n]
          /\ \A i \in 1 .. Len(k) : r[i] = k[i]
      BY <2>1, <1>1, AppendIs
    <2>3. ASSUME Probe!WholeKeys(text), NoHalves(k, text, n - 1) PROVE NoHalves(r, text, n)
      <3>1. text[n] # "k2"
        <4>1. SUFFICES ASSUME text[n] = "k2" PROVE FALSE
          OBVIOUS
        <4>2. n > 1 /\ text[n - 1] = "k1"
          BY <2>3, <4>1, WholeKeysAt
        <4>3. k # <<>> /\ k[Len(k)] = "k1"
          BY <2>3, <4>2 DEF NoHalves
        <4>4. QED
          BY <4>1, <4>3, <1>3 DEF Probe!Last
      <3>2. n > 1 => text[n - 1] # "k1"
        <4>1. n > 1 /\ text[n - 1] = "k1" => text[(n - 1) + 1] = "k2"
          BY <2>3, WholeKeysAt
        <4>2. QED
          BY <3>1, <4>1
      <3>3. \A i \in 1 .. Len(k) : k[i] \notin {"k1", "k2"}
        BY <2>3, <3>2, <1>1 DEF NoHalves
      <3>4. QED
        BY <3>1, <3>3, <2>2, <1>1 DEF NoHalves
    <2>4. QED
      BY <2>2, <2>3 DEF RedactedTo
  <1>4. QED
    BY <1>2, <1>3

LEMMA RedactFacts ==
    ASSUME NEW text \in Seq(Cells)
    PROVE  RedactedTo(Probe!Redact(text), text, Len(text))
  <1>1. PICK f : /\ f = [n \in 0 .. Len(text) |-> RedactStep(f, text, n)]
                 /\ Probe!Redact(text) = f[Len(text)]
    BY RedactLoop
  <1> DEFINE G == {n \in Nat : n <= Len(text) => RedactedTo(f[n], text, n)}
  <1>2. 0 \in G
    <2>1. f[0] = <<>>
      BY <1>1 DEF RedactStep
    <2>2. RedactedTo(<<>>, text, 0)
      BY DEF RedactedTo, NoHalves
    <2>3. QED
      BY <2>1, <2>2
  <1>3. ASSUME NEW n \in Nat, n \in G PROVE n + 1 \in G
    <2>1. SUFFICES ASSUME n + 1 <= Len(text) PROVE RedactedTo(f[n + 1], text, n + 1)
      OBVIOUS
    <2>2. RedactedTo(f[n], text, n)
      BY <1>3, <2>1
    <2>3. f[n + 1] = RedactStep(f, text, n + 1)
      BY <1>1, <2>1
    <2>4. f[n + 1] = IF text[n + 1] = "k2" /\ f[n] # <<>> /\ Probe!Last(f[n]) = "k1"
                     THEN Append(Probe!Front(f[n]), "redacted") ELSE Append(f[n], text[n + 1])
      <3>1. (n + 1) - 1 = n /\ n + 1 # 0
        OBVIOUS
      <3>2. QED
        BY <2>3, <3>1 DEF RedactStep
    <2>5. n + 1 \in 1 .. Len(text) /\ (n + 1) - 1 = n
      BY <2>1
    <2>6. QED
      BY <2>2, <2>4, <2>5, RedactTurn
  <1>4. Nat \subseteq G
    BY <1>2, <1>3, Induction
  <1>5. Len(text) \in Nat
    OBVIOUS
  <1>6. QED
    BY <1>1, <1>4, <1>5

\* Of a quotable text nothing of a key is left; cutting it adds none.
LEMMA OutgoingIsClean ==
    ASSUME NEW text, Quotable(text), MaxAnswer \in Nat
    PROVE  Clean(Probe!Outgoing(text))
  <1> DEFINE r == Probe!Redact(text)
  <1>1. text \in Seq(Cells) /\ Probe!WholeKeys(text)
    BY DEF Quotable
  <1>2. RedactedTo(r, text, Len(text))
    BY <1>1, RedactFacts
  <1>3. Len(text) > 0 => text[Len(text)] # "k1"
    BY <1>1, WholeKeysAt
  <1>4. Clean(r)
    BY <1>1, <1>2, <1>3 DEF RedactedTo, NoHalves, Clean
  <1> HIDE DEF r
  <1>5. CASE Len(r) <= MaxAnswer
    BY <1>4, <1>5 DEF Probe!Outgoing, Probe!Truncate, r
  <1>6. CASE Len(r) > MaxAnswer
    <2> DEFINE s == SubSeq(r, 1, MaxAnswer)
    <2>1. s \in Seq(Cells) /\ Len(s) = MaxAnswer /\ \A i \in 1 .. MaxAnswer : s[i] = r[i]
      <3>1. r \in Seq(Cells) /\ MaxAnswer \in 0 .. Len(r)
        BY <1>4, <1>6 DEF Clean
      <3>2. QED
        BY <3>1, CutIs
    <2> HIDE DEF s
    <2>2. Clean(Append(s, "truncated"))
      <3>1. "truncated" \in Cells
        BY CellsAre
      <3>2. /\ Append(s, "truncated") \in Seq(Cells)
            /\ Len(Append(s, "truncated")) = MaxAnswer + 1
            /\ Append(s, "truncated")[MaxAnswer + 1] = "truncated"
            /\ \A i \in 1 .. MaxAnswer : Append(s, "truncated")[i] = s[i]
        BY <2>1, <3>1, AppendIs
      <3>3. \A i \in 1 .. MaxAnswer : s[i] \notin {"k1", "k2"}
        BY <2>1, <1>4, <1>6 DEF Clean
      <3>4. QED
        BY <3>2, <3>3 DEF Clean
    <2>3. ~(Len(r) <= MaxAnswer)
      BY <1>4, <1>6 DEF Clean
    <2>4. QED
      BY <2>2, <2>3 DEF Probe!Outgoing, Probe!Truncate, r, s
  <1>7. QED
    BY <1>4, <1>5, <1>6 DEF Clean

\* What a tool puts out is a text.
LEMMA ToolOutputType ==
    ASSUME NEW text \in Seq(Cells), MaxOutput \in Nat
    PROVE  Probe!ToolOutput(text) \in Seq(Cells)
  <1>1. Probe!Truncate(text, MaxOutput) \in Seq(Cells)
    <2>1. CASE Len(text) <= MaxOutput
      BY <2>1 DEF Probe!Truncate
    <2>2. CASE ~(Len(text) <= MaxOutput)
      <3>0. "truncated" \in Cells
        BY CellsAre
      <3>1. MaxOutput \in 0 .. Len(text)
        BY <2>2
      <3>2. SubSeq(text, 1, MaxOutput) \in Seq(Cells)
        BY <3>1, CutIs
      <3>3. Append(SubSeq(text, 1, MaxOutput), "truncated") \in Seq(Cells)
        BY <3>0, <3>2, AppendIs
      <3>4. QED
        BY <3>3, <2>2 DEF Probe!Truncate
    <2>3. QED
      BY <2>1, <2>2
  <1>2. QED
    BY <1>1, RedactFacts DEF RedactedTo, Probe!ToolOutput

----------------------------------------------------------------------------
(* The conversion.                                                          *)

\* One turn of the conversion.
ConvertStep(out, list, n) == IF n = 0 THEN <<>> ELSE Probe!Convert(out[n - 1], list[n])

LEMMA ConvertExists ==
    ASSUME NEW list
    PROVE  \A m \in Nat : \E f : f = [n \in 0 .. m |-> ConvertStep(f, list, n)]
  <1> DEFINE T == {m \in Nat : \E f : f = [n \in 0 .. m |-> ConvertStep(f, list, n)]}
  <1>1. 0 \in T
    <2> DEFINE f == [n \in 0 .. 0 |-> <<>>]
    <2>1. f = [n \in 0 .. 0 |-> ConvertStep(f, list, n)]
      BY DEF ConvertStep
    <2>2. QED
      BY <2>1
  <1>2. ASSUME NEW m \in Nat, m \in T PROVE m + 1 \in T
    <2>1. PICK f : f = [n \in 0 .. m |-> ConvertStep(f, list, n)]
      BY <1>2
    <2> DEFINE g == [n \in 0 .. m + 1 |-> ConvertStep(f, list, n)]
    <2>2. ASSUME NEW n \in 0 .. m + 1 PROVE g[n] = ConvertStep(g, list, n)
      <3>1. CASE n = 0
        BY <3>1 DEF ConvertStep
      <3>2. CASE n # 0
        <4>1. n - 1 \in 0 .. m /\ n - 1 \in 0 .. m + 1
          BY <3>2
        <4>2. g[n - 1] = ConvertStep(f, list, n - 1)
          BY <4>1
        <4>3. f[n - 1] = ConvertStep(f, list, n - 1)
          BY <4>1, <2>1
        <4>4. g[n - 1] = f[n - 1]
          BY <4>2, <4>3
        <4>5. g[n] = ConvertStep(f, list, n)
          OBVIOUS
        <4> HIDE DEF g
        <4>6. QED
          BY <4>4, <4>5, <3>2 DEF ConvertStep
      <3>3. QED
        BY <3>1, <3>2
    <2>3. g = [n \in 0 .. m + 1 |-> ConvertStep(g, list, n)]
      BY <2>2
    <2>4. \E h : h = [n \in 0 .. m + 1 |-> ConvertStep(h, list, n)]
      <3> HIDE DEF g
      <3>1. QED
        BY <2>3
    <2>5. QED
      BY <2>4
  <1>3. QED
    BY <1>1, <1>2, Induction

LEMMA ConvertLoop ==
    ASSUME NEW T, NEW list \in Seq(T)
    PROVE  \E f : /\ f = [n \in 0 .. Len(list) |-> ConvertStep(f, list, n)]
                  /\ Probe!ConvertAll(list) = f[Len(list)]
  <1> DEFINE f == CHOOSE g : g = [n \in 0 .. Len(list) |-> ConvertStep(g, list, n)]
  <1>1. f = [n \in 0 .. Len(list) |-> ConvertStep(f, list, n)]
    <2>1. Len(list) \in Nat
      OBVIOUS
    <2>2. \E g : g = [n \in 0 .. Len(list) |-> ConvertStep(g, list, n)]
      BY <2>1, ConvertExists
    <2>3. QED
      BY <2>2, Zenon
  <1>2. Probe!ConvertAll(list) = f[Len(list)]
    BY DEF Probe!ConvertAll, ConvertStep
  <1>3. QED
    BY <1>1, <1>2

LEMMA ConvertNone == Probe!ConvertAll(<<>>) = <<>>
  <1>1. <<>> \in Seq({}) /\ Len(<<>>) = 0
    OBVIOUS
  <1>2. PICK f : /\ f = [n \in 0 .. Len(<<>>) |-> ConvertStep(f, <<>>, n)]
                 /\ Probe!ConvertAll(<<>>) = f[Len(<<>>)]
    BY <1>1, ConvertLoop
  <1>3. f[0] = <<>>
    BY <1>1, <1>2 DEF ConvertStep
  <1>4. QED
    BY <1>1, <1>2, <1>3

\* A message more is converted after those before it.
LEMMA ConvertMore ==
    ASSUME NEW T, NEW list \in Seq(T), NEW m \in T
    PROVE  Probe!ConvertAll(Append(list, m)) = Probe!Convert(Probe!ConvertAll(list), m)
  <1> DEFINE more == Append(list, m)
             N == Len(list)
  <1>1. /\ more \in Seq(T) /\ Len(more) = N + 1 /\ more[N + 1] = m
        /\ \A n \in 1 .. N : more[n] = list[n]
    BY AppendIs
  <1>2. N \in Nat
    OBVIOUS
  <1> HIDE DEF more, N
  <1>3. PICK f : f = [n \in 0 .. N |-> ConvertStep(f, list, n)] /\ Probe!ConvertAll(list) = f[N]
    BY ConvertLoop DEF N
  <1>4. PICK g : /\ g = [n \in 0 .. N + 1 |-> ConvertStep(g, more, n)]
                 /\ Probe!ConvertAll(more) = g[N + 1]
    BY <1>1, ConvertLoop
  <1>41. \A n \in 0 .. N : f[n] = ConvertStep(f, list, n)
    BY <1>3
  <1>42. \A n \in 0 .. N + 1 : g[n] = ConvertStep(g, more, n)
    BY <1>4
  <1> DEFINE G == {n \in Nat : n <= N => f[n] = g[n]}
  <1>5. 0 \in G
    <2>1. f[0] = ConvertStep(f, list, 0) /\ g[0] = ConvertStep(g, more, 0)
      BY <1>2, <1>41, <1>42
    <2>2. f[0] = g[0]
      BY <2>1 DEF ConvertStep
    <2>3. QED
      BY <2>2
  <1>6. ASSUME NEW n \in Nat, n \in G PROVE n + 1 \in G
    <2>1. SUFFICES ASSUME n + 1 <= N PROVE f[n + 1] = g[n + 1]
      OBVIOUS
    <2>2. f[n + 1] = ConvertStep(f, list, n + 1) /\ g[n + 1] = ConvertStep(g, more, n + 1)
      BY <1>2, <1>41, <1>42, <2>1
    <2>3. f[n] = g[n] /\ list[n + 1] = more[n + 1] /\ (n + 1) - 1 = n /\ n + 1 # 0
      BY <1>1, <1>2, <1>6, <2>1
    <2>4. QED
      BY <2>2, <2>3 DEF ConvertStep
  <1>7. f[N] = g[N]
    <2>1. Nat \subseteq G
      BY <1>5, <1>6, Induction
    <2>2. N \in G
      BY <1>2, <2>1
    <2>3. QED
      BY <1>2, <2>2
  <1>8. g[N + 1] = ConvertStep(g, more, N + 1) /\ (N + 1) - 1 = N /\ N + 1 # 0
    BY <1>2, <1>42
  <1>9. g[N + 1] = Probe!Convert(g[N], m)
    BY <1>1, <1>8 DEF ConvertStep
  <1>10. QED
    BY <1>3, <1>4, <1>7, <1>9 DEF more

----------------------------------------------------------------------------
(* The conversation, an entry at a time.                                    *)

\* A message that is not the result of a tool is a new entry.
LEMMA ConvertNew ==
    ASSUME NEW c, NEW m, m.role # "tool"
    PROVE  Probe!Convert(c, m) =
             Append(c, [role |-> IF m.role = "assistant" THEN "assistant" ELSE "user",
                        uses |-> m.calls, results |-> <<>>])
  BY DEF Probe!Convert

\* What an entry more leaves of the answers.
LEMMA AnswersStay ==
    ASSUME NEW c \in Seq(Entry), NEW e \in Entry, NEW n \in 0 .. Len(c), AnsweredTo(c, n)
    PROVE  /\ Append(c, e) \in Seq(Entry) /\ Append(c, e) # <<>>
           /\ Len(Append(c, e)) = Len(c) + 1
           /\ Append(c, e)[Len(c) + 1] = e
           /\ \A i \in 1 .. Len(c) : Append(c, e)[i] = c[i]
           /\ AnsweredTo(Append(c, e), n)
  <1> DEFINE d == Append(c, e)
  <1>1. d \in Seq(Entry) /\ Len(d) = Len(c) + 1 /\ d[Len(c) + 1] = e
        /\ \A i \in 1 .. Len(c) : d[i] = c[i]
    BY AppendIs
  <1> HIDE DEF d
  <1>2. d # <<>>
    BY <1>1
  <1>3. ASSUME NEW i \in 1 .. n, d[i].uses # <<>>
        PROVE  i < Len(d) /\ d[i + 1].results = d[i].uses
    <2>1. d[i] = c[i]
      BY <1>1
    <2>2. i < Len(c) /\ c[i + 1].results = c[i].uses
      BY <1>3, <2>1 DEF AnsweredTo
    <2>3. d[i + 1] = c[i + 1] /\ i < Len(d)
      BY <1>1, <2>2
    <2>4. QED
      BY <2>1, <2>2, <2>3
  <1>4. AnsweredTo(d, n)
    BY <1>3 DEF AnsweredTo
  <1>5. QED
    BY <1>1, <1>2, <1>4 DEF d

\* A turn with calls leaves them owed.
LEMMA TurnOwes ==
    ASSUME NEW c, Settled(c), NEW m \in Message, m.role = "assistant"
    PROVE  Owing(Probe!Convert(c, m), m.calls)
  <1> DEFINE e == [role |-> "assistant", uses |-> m.calls, results |-> <<>>]
             d == Append(c, e)
  <1>1. e \in Entry /\ e.role = "assistant" /\ e.uses = m.calls
    BY DEF Entry, Message
  <1>2. Probe!Convert(c, m) = d
    BY ConvertNew
  <1>3. c \in Seq(Entry) /\ AnsweredTo(c, Len(c)) /\ Len(c) \in 0 .. Len(c)
    BY DEF Settled
  <1> HIDE DEF e
  <1>4. /\ d \in Seq(Entry) /\ d # <<>> /\ Len(d) = Len(c) + 1 /\ d[Len(c) + 1] = e
        /\ AnsweredTo(d, Len(c))
    BY <1>1, <1>3, AnswersStay
  <1> HIDE DEF d
  <1>5. Len(d) - 1 = Len(c)
    BY <1>3, <1>4
  <1>6. Owing(d, m.calls)
    BY <1>1, <1>4, <1>5 DEF Owing
  <1>7. QED
    BY <1>2, <1>6

\* A question is a settled entry.
LEMMA QuestionSettled ==
    ASSUME NEW c, Settled(c), NEW m \in Message, m.role = "user", m.calls = <<>>
    PROVE  Settled(Probe!Convert(c, m))
  <1> DEFINE e == [role |-> "user", uses |-> m.calls, results |-> <<>>]
             d == Append(c, e)
  <1>1. e \in Entry /\ e.uses = <<>>
    BY DEF Entry, Message
  <1>2. Probe!Convert(c, m) = d
    BY ConvertNew
  <1>3. c \in Seq(Entry) /\ AnsweredTo(c, Len(c)) /\ Len(c) \in 0 .. Len(c)
    BY DEF Settled
  <1> HIDE DEF e
  <1>4. /\ d \in Seq(Entry) /\ Len(d) = Len(c) + 1 /\ d[Len(c) + 1] = e
        /\ AnsweredTo(d, Len(c))
    BY <1>1, <1>3, AnswersStay
  <1> HIDE DEF d
  <1>5. AnsweredTo(d, Len(d))
    BY <1>1, <1>3, <1>4 DEF AnsweredTo
  <1>6. QED
    BY <1>2, <1>4, <1>5 DEF Settled

\* A result answers the first call that is owed.
LEMMA ResultAnswers ==
    ASSUME NEW c, NEW ids \in Seq(CallIds), ids # <<>>, Owing(c, ids),
           NEW m \in Message, m.role = "tool", m.calls = <<>>, m.id = Head(ids)
    PROVE  Owing(Probe!Convert(c, m), Tail(ids))
  <1> DEFINE L == Len(c)
  <1>0. c \in Seq(Entry) /\ c # <<>> /\ L \in Nat /\ L > 0
    BY DEF Owing
  <1>1. CASE c[L].role = "assistant"
    <2> DEFINE e == [role |-> "user", uses |-> <<>>, results |-> <<m.id>>]
               d == Append(c, e)
    <2>1. e \in Entry /\ e.role = "user" /\ e.uses = <<>> /\ e.results = <<Head(ids)>>
      BY DEF Entry, Message
    <2>2. Probe!Convert(c, m) = d
      BY <1>1, <1>0 DEF Probe!Convert, Probe!Last
    <2>3. c[L].uses = ids /\ AnsweredTo(c, L - 1) /\ L - 1 \in 0 .. L
      BY <1>0, <1>1 DEF Owing
    <2> HIDE DEF e
    <2>4. /\ d \in Seq(Entry) /\ d # <<>> /\ Len(d) = L + 1 /\ d[L + 1] = e /\ d[L] = c[L]
          /\ AnsweredTo(d, L - 1)
      BY <1>0, <2>1, <2>3, AnswersStay
    <2> HIDE DEF d
    <2>5. ids = <<Head(ids)>> \o Tail(ids)
      OBVIOUS
    <2>6. Len(d) - 1 = L /\ Len(d) - 2 = L - 1 /\ Len(d) > 1
      BY <1>0, <2>4
    <2>7. d[Len(d)].role = "user" /\ d[Len(d)].uses = <<>> /\ d[Len(d) - 1].uses = ids
          /\ d[Len(d)].results = <<Head(ids)>>
      BY <2>1, <2>3, <2>4, <2>6
    <2> HIDE DEF L
    <2>8. Owing(d, Tail(ids))
      BY <2>4, <2>5, <2>6, <2>7 DEF Owing
    <2>9. QED
      BY <2>2, <2>8
  <1>2. CASE c[L].role = "user"
    <2>1. /\ c[L].uses = <<>> /\ L > 1 /\ c[L - 1].uses = c[L].results \o ids
          /\ AnsweredTo(c, L - 2)
      BY <1>0, <1>2 DEF Owing
    <2> DEFINE e == [c[L] EXCEPT !.results = Append(@, m.id)]
               d == [c EXCEPT ![L] = e]
    <2>2. Probe!Convert(c, m) = d
      BY <1>2, <1>0 DEF Probe!Convert, Probe!Last
    <2>3. c[L] \in Entry /\ m.id \in CallIds /\ c[L].results \in Seq(CallIds)
      <3>1. c[L] \in Entry
        BY <1>0
      <3>2. QED
        BY <3>1 DEF Entry, Message
    <2>4. e \in Entry /\ e.role = "user" /\ e.uses = <<>> /\ e.results = Append(c[L].results, Head(ids))
      <3> DEFINE x == c[L]
      <3>1. x \in Entry /\ x.role = "user" /\ x.uses = <<>> /\ x.results \in Seq(CallIds)
            /\ m.id \in CallIds
        BY <1>2, <2>1, <2>3
      <3> HIDE DEF x
      <3>2. Append(x.results, m.id) \in Seq(CallIds)
        BY <3>1
      <3> DEFINE y == [x EXCEPT !.results = Append(@, m.id)]
      <3>3. y \in Entry /\ y.role = "user" /\ y.uses = <<>> /\ y.results = Append(x.results, m.id)
        BY <3>1, <3>2 DEF Entry
      <3>4. QED
        BY <3>3 DEF x
    <2> HIDE DEF e
    <2>5. d \in Seq(Entry) /\ Len(d) = L /\ d[L] = e /\ \A i \in 1 .. L - 1 : d[i] = c[i]
      BY <1>0, <2>4
    <2> HIDE DEF d
    <2>6. Append(c[L].results, Head(ids)) \o Tail(ids) = c[L].results \o ids
      <3> DEFINE s == c[L].results
      <3>1. s \in Seq(CallIds)
        BY <2>3
      <3> HIDE DEF s
      <3>2. Append(s, Head(ids)) \o Tail(ids) = s \o ids
        BY <3>1
      <3>3. QED
        BY <3>2 DEF s
    <2>7. AnsweredTo(d, L - 2)
      BY <1>0, <2>1, <2>5 DEF AnsweredTo
    <2>8. d[L].role = "user" /\ d[L].uses = <<>> /\ d[L - 1].uses = d[L].results \o Tail(ids)
      <3>1. d[L] = e /\ d[L - 1] = c[L - 1]
        BY <1>0, <2>1, <2>5
      <3>2. e.results \o Tail(ids) = c[L - 1].uses
        BY <2>1, <2>4, <2>6
      <3>3. QED
        BY <2>4, <3>1, <3>2
    <2>9. d # <<>>
      BY <1>0, <2>5
    <2>10. Owing(d, Tail(ids))
      BY <2>1, <2>5, <2>7, <2>8, <2>9 DEF Owing
    <2>11. QED
      BY <2>2, <2>10
  <1>3. QED
    BY <1>1, <1>2 DEF Owing

\* When nothing is owed any more the conversation is settled.
LEMMA NothingOwed ==
    ASSUME NEW c, Owing(c, <<>>)
    PROVE  Settled(c)
  <1> DEFINE L == Len(c)
  <1>0. c \in Seq(Entry) /\ c # <<>> /\ L \in Nat /\ L > 0
    BY DEF Owing
  <1>1. CASE c[L].role = "assistant"
    <2>1. c[L].uses = <<>> /\ AnsweredTo(c, L - 1)
      BY <1>1 DEF Owing
    <2>2. QED
      BY <1>0, <2>1 DEF Settled, AnsweredTo
  <1>2. CASE c[L].role = "user"
    <2>1. /\ c[L].uses = <<>> /\ L > 1 /\ c[L - 1].uses = c[L].results \o <<>>
          /\ AnsweredTo(c, L - 2)
      BY <1>2 DEF Owing
    <2>2. c[L].results \in Seq(CallIds)
      <3>1. c[L] \in Entry
        BY <1>0
      <3>2. QED
        BY <3>1 DEF Entry
    <2>3. c[L - 1].uses = c[L].results
      BY <2>1, <2>2
    <2>4. QED
      BY <1>0, <2>1, <2>3 DEF Settled, AnsweredTo
  <1>3. QED
    BY <1>1, <1>2 DEF Owing

----------------------------------------------------------------------------
(* What is said.                                                            *)

LEMMA MaxExists ==
    \A n \in Nat : \A S \in SUBSET (1 .. n) : S # {} => \E x \in S : \A y \in S : x >= y
  <1> DEFINE G == {n \in Nat : \A S \in SUBSET (1 .. n) : S # {} => \E x \in S : \A y \in S : x >= y}
  <1>1. 0 \in G
    <2>1. \A S \in SUBSET (1 .. 0) : S = {}
      OBVIOUS
    <2>2. QED
      BY <2>1
  <1>2. ASSUME NEW n \in Nat, n \in G PROVE n + 1 \in G
    <2>1. SUFFICES ASSUME NEW S \in SUBSET (1 .. n + 1), S # {}
                   PROVE  \E x \in S : \A y \in S : x >= y
      OBVIOUS
    <2>2. CASE n + 1 \in S
      BY <2>2
    <2>3. CASE n + 1 \notin S
      <3>1. S \in SUBSET (1 .. n)
        BY <2>3
      <3>2. QED
        BY <1>2, <2>1, <3>1
    <2>4. QED
      BY <2>2, <2>3
  <1>3. Nat \subseteq G
    BY <1>1, <1>2, Induction
  <1>4. QED
    BY <1>3

LEMMA MaxIn ==
    ASSUME NEW n \in Nat, NEW S \in SUBSET (1 .. n), S # {}
    PROVE  Probe!Max(S) \in S
  BY MaxExists DEF Probe!Max

\* The texts of the code itself.
LEMMA FixedTexts ==
    Quotable(<<>>) /\ Quotable(<<"reason">>) /\ Quotable(<<"step limit">>)
  <1>1. ASSUME NEW e \in Cells, e # "k1", e # "k2" PROVE Quotable(<<e>>)
    <2>1. <<e>> \in Seq(Cells) /\ Len(<<e>>) = 1 /\ <<e>>[1] = e /\ DOMAIN <<e>> = 1 .. 1
      OBVIOUS
    <2>2. \A i \in DOMAIN <<e>> : i = 1
      BY <2>1
    <2>3. QED
      BY <1>1, <2>1, <2>2 DEF Quotable, Probe!WholeKeys
  <1>2. Quotable(<<>>)
    BY DEF Quotable, Probe!WholeKeys
  <1>3. QED
    BY <1>1, <1>2, CellsAre

LEMMA TextsQuotable ==
    ASSUME Probe!ConstantsAreTyped, NEW text \in Texts
    PROVE  Quotable(text)
  BY TextsAre DEF Probe!ConstantsAreTyped, Quotable

\* The reason of a refusal in the text is what follows the word.
LEMMA TailQuotable ==
    ASSUME NEW text, Quotable(text), text # <<>>, Head(text) = "REFUSED"
    PROVE  Quotable(Tail(text))
  <1> DEFINE t == Tail(text)
  <1>1. text \in Seq(Cells) /\ Probe!WholeKeys(text)
    BY DEF Quotable
  <1>2. /\ t \in Seq(Cells) /\ Len(t) = Len(text) - 1 /\ Len(text) > 0
        /\ \A i \in 1 .. Len(t) : t[i] = text[i + 1]
    BY <1>1
  <1>3. text[1] = "REFUSED"
    BY <1>1
  <1> HIDE DEF t
  <1>4. ASSUME NEW i \in 1 .. Len(t)
        PROVE  /\ t[i] = "k1" => i < Len(t) /\ t[i + 1] = "k2"
               /\ t[i] = "k2" => i > 1 /\ t[i - 1] = "k1"
    <2>1. i + 1 \in 1 .. Len(text) /\ t[i] = text[i + 1]
      BY <1>1, <1>2
    <2>2. ASSUME t[i] = "k1" PROVE i < Len(t) /\ t[i + 1] = "k2"
      <3>1. i + 1 < Len(text) /\ text[(i + 1) + 1] = "k2"
        BY <1>1, <2>1, <2>2, WholeKeysAt
      <3>2. i + 1 \in 1 .. Len(t)
        BY <1>1, <1>2, <3>1
      <3>3. QED
        BY <1>2, <3>1, <3>2
    <2>3. ASSUME t[i] = "k2" PROVE i > 1 /\ t[i - 1] = "k1"
      <3>1. text[(i + 1) - 1] = "k1"
        BY <1>1, <2>1, <2>3, WholeKeysAt
      <3>2. text[i] = "k1"
        BY <3>1
      <3>3. i # 1
        BY <1>3, <3>2
      <3>4. i - 1 \in 1 .. Len(t) /\ (i - 1) + 1 = i
        BY <1>2, <3>3
      <3>5. QED
        BY <1>2, <3>2, <3>4
    <2>4. QED
      BY <2>2, <2>3
  <1>5. DOMAIN t = 1 .. Len(t)
    BY <1>2
  <1>6. Probe!WholeKeys(t)
    BY <1>4, <1>5 DEF Probe!WholeKeys
  <1>7. QED
    BY <1>2, <1>6 DEF Quotable, t

\* What was said last is quotable.
LEMMA LastSaidIs ==
    ASSUME ProbeTypes, Secrets
    PROVE  Quotable(Probe!LastSaid) /\ Probe!LastSaid # <<>>
  <1> DEFINE said == {i \in 1 .. Len(messages) :
                        messages[i].role = "assistant" /\ messages[i].content # <<>>}
  <1>1. CASE said = {}
    <2>1. Probe!LastSaid = <<"step limit">>
      BY <1>1 DEF Probe!LastSaid
    <2>2. QED
      BY <2>1, FixedTexts
  <1>2. CASE said # {}
    <2>1. Probe!LastSaid = messages[Probe!Max(said)].content
      BY <1>2 DEF Probe!LastSaid
    <2>2. Len(messages) \in Nat /\ said \in SUBSET (1 .. Len(messages))
      BY DEF ProbeTypes
    <2>3. Probe!Max(said) \in said
      <3> HIDE DEF said
      <3>1. QED
        BY <1>2, <2>2, MaxIn
    <2> DEFINE x == Probe!Max(said)
    <2>4. /\ x \in 1 .. Len(messages) /\ messages[x].role = "assistant"
          /\ messages[x].content # <<>>
      BY <2>3
    <2> HIDE DEF x
    <2>5. Quotable(messages[x].content)
      BY <2>4 DEF Secrets
    <2>6. QED
      BY <2>1, <2>4, <2>5 DEF x
  <1>3. QED
    BY <1>1, <1>2

\* Where a run returns, what leaves is clean.
LEMMA ReturnIs ==
    ASSUME Probe!ConstantsAreTyped, NEW st \in ProbeStatus, NEW text, Quotable(text),
           Probe!Return(st, text)
    PROVE  /\ result' \in [status : ProbeStatus, answer : Seq(Cells)]
           /\ result'.status = st
           /\ Clean(result'.answer)
           /\ probePc' = "done"
  <1> DEFINE a == Probe!Outgoing(text)
  <1>1. MaxAnswer \in Nat
    BY DEF Probe!ConstantsAreTyped
  <1>2. Clean(a)
    BY <1>1, OutgoingIsClean
  <1>3. a \in Seq(Cells)
    BY <1>2 DEF Clean
  <1>4. result' = [status |-> st, answer |-> a] /\ probePc' = "done"
    BY DEF Probe!Return
  <1> HIDE DEF a
  <1>5. QED
    BY <1>2, <1>3, <1>4

----------------------------------------------------------------------------
(* The steps of a run.                                                      *)

\* The conversation stays settled while no message is added.
LEMMA StaysSettled ==
    ASSUME Conversation, probePc # "tools", probePc' # "tools", messages' = messages
    PROVE  Conversation'
  BY DEF Conversation

\* What the code itself says to the model.
LEMMA UserIs ==
    ASSUME NEW e \in Cells
    PROVE  /\ Probe!User(<<e>>) \in Message
           /\ Probe!User(<<e>>).role = "user" /\ Probe!User(<<e>>).calls = <<>>
  <1> DEFINE text == <<e>>
  <1>1. text \in Seq(Cells)
    OBVIOUS
  <1>2. <<>> \in CallIds /\ <<>> \in Seq(CallIds)
    BY DEF CallIds
  <1> HIDE DEF text
  <1>3. /\ Probe!User(text) \in Message
        /\ Probe!User(text).role = "user" /\ Probe!User(text).calls = <<>>
    BY <1>1, <1>2 DEF Probe!User, Message
  <1>4. QED
    BY <1>3 DEF text

LEMMA ProbeInitInv ==
    ASSUME Probe!ConstantsAreTyped
    PROVE  Probe!Init => ProbeInv
  <1> SUFFICES ASSUME Probe!Init PROVE ProbeInv
    OBVIOUS
  <1> DEFINE q == Probe!User(<<"question">>)
  <1>1. q \in Message /\ q.role = "user" /\ q.calls = <<>>
    BY CellsAre, UserIs
  <1>2. messages = <<q>>
    BY DEF Probe!Init
  <1> HIDE DEF q
  <1>3. messages \in Seq(Message) /\ Len(messages) = 1 /\ messages[1] = q
        /\ messages = Append(<<>>, q) /\ <<>> \in Seq(Message)
    BY <1>1, <1>2
  <1>4. Settled(<<>>)
    BY DEF Settled, AnsweredTo
  <1>5. Probe!ConvertAll(messages) = Probe!Convert(<<>>, q)
    BY <1>1, <1>3, ConvertMore, ConvertNone
  <1>6. Settled(Probe!ConvertAll(messages))
    BY <1>1, <1>4, <1>5, QuestionSettled
  <1>7. Conversation
    BY <1>6 DEF Conversation, Probe!Init
  <1>8. result.status = "pending" /\ result.answer = <<>> /\ <<>> \in Seq(Cells)
        /\ result \in [status : ProbeStatus, answer : Seq(Cells)]
    BY DEF Probe!Init, Probe!Pending, ProbeStatus
  <1>9. ProbeTypes
    <2>1. todo \in Seq([id : CallIds, name : Cells])
      BY DEF Probe!Init
    <2>2. refusing \in BOOLEAN
      BY DEF Probe!Init
    <2>3. probePc = "start" /\ probeCtx = "none" /\ failure = "none"
      BY DEF Probe!Init
    <2>4. QED
      BY <1>3, <1>8, <2>1, <2>2, <2>3 DEF ProbeTypes
  <1>10. Budget
    BY DEF Probe!Init, Budget, Probe!ConstantsAreTyped
  <1>11. Refusal
    BY DEF Probe!Init, Refusal
  <1>12. Secrets
    <2>1. Clean(result.answer)
      BY <1>8 DEF Clean
    <2>2. \A i \in 1 .. Len(messages) : messages[i].role # "assistant"
      BY <1>1, <1>3
    <2>3. probePc # "finish"
      BY DEF Probe!Init
    <2>4. QED
      BY <2>1, <2>2, <2>3 DEF Secrets
  <1>13. QED
    BY <1>7, <1>9, <1>10, <1>11, <1>12 DEF ProbeInv

LEMMA StartStep ==
    ASSUME Probe!ConstantsAreTyped, ProbeInv, Probe!Start
    PROVE  ProbeInv'
  <1> USE DEF ProbeInv
  <1>1. /\ probePc = "start" /\ probePc' \in {"top", "done"} /\ messages' = messages
        /\ result' \in [status : ProbeStatus, answer : Seq(Cells)] /\ Clean(result'.answer)
    <2>1. CASE probePc' = "top" /\ result' = result
      BY <2>1 DEF Probe!Start, ProbeTypes, Secrets
    <2>2. CASE Probe!Return("error", <<>>)
      <3>1. "error" \in ProbeStatus
        BY DEF ProbeStatus
      <3>2. QED
        BY <2>2, <3>1, ReturnIs, FixedTexts DEF Probe!Start
    <2>3. QED
      BY <2>1, <2>2 DEF Probe!Start
  <1>2. ProbeTypes'
    BY <1>1 DEF Probe!Start, ProbeTypes
  <1>3. Budget'
    BY <1>1 DEF Probe!Start, Budget
  <1>4. Refusal'
    <2>1. ~refusing /\ refusing' = refusing
      BY <1>1 DEF Probe!Start, Refusal
    <2>2. QED
      BY <2>1 DEF Probe!Start, Refusal
  <1>5. Secrets'
    BY <1>1 DEF Probe!Start, Secrets
  <1>6. Conversation'
    BY <1>1, StaysSettled
  <1>7. QED
    BY <1>2, <1>3, <1>4, <1>5, <1>6

LEMMA ContextEndsStep ==
    ASSUME ProbeInv, Probe!ContextEnds
    PROVE  ProbeInv'
  <1> USE DEF ProbeInv
  <1>1. ProbeTypes'
    BY DEF Probe!ContextEnds, ProbeTypes
  <1>2. Budget'
    BY DEF Probe!ContextEnds, Budget
  <1>3. Refusal'
    BY DEF Probe!ContextEnds, Refusal
  <1>4. Secrets'
    BY DEF Probe!ContextEnds, Secrets
  <1>5. Conversation'
    BY DEF Probe!ContextEnds, Conversation
  <1>6. QED
    BY <1>1, <1>2, <1>3, <1>4, <1>5

LEMMA TopStep ==
    ASSUME Probe!ConstantsAreTyped, ProbeInv, Probe!Top
    PROVE  ProbeInv'
  <1> USE DEF ProbeInv
  <1>1. /\ probePc = "top" /\ probePc' \in {"summary", "finish", "chat"} /\ messages' = messages
        /\ (probePc' = "chat" => step < MaxSteps)
        /\ (probePc' = "finish" => failure' # "none")
        /\ failure' \in {"none", "deadline", "canceled", "failed"}
    BY DEF Probe!Top, ProbeTypes, Budget, Probe!ConstantsAreTyped
  <1>2. ProbeTypes'
    BY <1>1 DEF Probe!Top, ProbeTypes
  <1>3. Budget'
    BY <1>1 DEF Probe!Top, Budget, Probe!ConstantsAreTyped
  <1>4. Refusal'
    BY <1>1 DEF Probe!Top, Refusal
  <1>5. Secrets'
    BY <1>1 DEF Probe!Top, Secrets
  <1>6. Conversation'
    BY <1>1, StaysSettled
  <1>7. QED
    BY <1>2, <1>3, <1>4, <1>5, <1>6

LEMMA ChatFailsStep ==
    ASSUME Probe!ConstantsAreTyped, ProbeInv, Probe!ChatFails
    PROVE  ProbeInv'
  <1> USE DEF ProbeInv
  <1>1. /\ probePc = "chat" /\ probePc' = "finish" /\ messages' = messages
        /\ failure' # "none"
        /\ failure' \in {"none", "deadline", "canceled", "failed"}
    BY DEF Probe!ChatFails, ProbeTypes
  <1>2. ProbeTypes'
    BY <1>1 DEF Probe!ChatFails, ProbeTypes
  <1>3. Budget'
    BY <1>1 DEF Probe!ChatFails, Budget, Probe!ConstantsAreTyped
  <1>4. Refusal'
    BY <1>1 DEF Probe!ChatFails, Refusal
  <1>5. Secrets'
    BY <1>1 DEF Probe!ChatFails, Secrets
  <1>6. Conversation'
    BY <1>1, StaysSettled
  <1>7. QED
    BY <1>2, <1>3, <1>4, <1>5, <1>6

LEMMA SummaryStep ==
    ASSUME Probe!ConstantsAreTyped, ProbeInv, Probe!Summary
    PROVE  ProbeInv'
  <1> USE DEF ProbeInv
  <1>1. /\ probePc = "summary" /\ probePc' = "finish" /\ messages' = messages
    BY DEF Probe!Summary
  <1>2. Quotable(answer') /\ answer' # <<>>
    <2>1. CASE \E text \in Texts \ {<<>>} : answer' = text /\ usage' = usage + 1
      BY <2>1, TextsQuotable
    <2>2. CASE answer' = Probe!LastSaid
      BY <2>2, LastSaidIs
    <2>3. QED
      BY <2>1, <2>2 DEF Probe!Summary
  <1>3. usage' \in {usage, usage + 1}
    BY DEF Probe!Summary
  <1>4. ProbeTypes'
    BY <1>1 DEF Probe!Summary, ProbeTypes
  <1>5. Budget'
    BY <1>1, <1>3 DEF Probe!Summary, Budget, Probe!ConstantsAreTyped
  <1>6. Refusal'
    BY <1>1 DEF Probe!Summary, Refusal
  <1>7. Secrets'
    BY <1>1, <1>2 DEF Probe!Summary, Secrets
  <1>8. Conversation'
    BY <1>1, StaysSettled
  <1>9. QED
    BY <1>4, <1>5, <1>6, <1>7, <1>8

LEMMA FinishStep ==
    ASSUME Probe!ConstantsAreTyped, ProbeInv, Probe!Finish
    PROVE  ProbeInv'
  <1> USE DEF ProbeInv
  <1>1. probePc = "finish" /\ messages' = messages
    BY DEF Probe!Finish
  <1>2. /\ result' \in [status : ProbeStatus, answer : Seq(Cells)]
        /\ Clean(result'.answer) /\ probePc' = "done"
    <2>1. CASE failure # "none"
      <3>1. PICK st \in {"timeout", "error"} : Probe!Return(st, <<>>)
        BY <2>1 DEF Probe!Finish
      <3>2. st \in ProbeStatus
        BY <3>1 DEF ProbeStatus
      <3>3. QED
        BY <3>1, <3>2, ReturnIs, FixedTexts
    <2>2. CASE failure = "none"
      <3>1. Quotable(answer) /\ answer # <<>>
        BY <1>1, <2>2 DEF Secrets
      <3>2. CASE Head(answer) = "REFUSED"
        <4> DEFINE text == IF Tail(answer) = <<>> THEN <<"reason">> ELSE Tail(answer)
        <4>1. Quotable(text)
          BY <3>1, <3>2, FixedTexts, TailQuotable
        <4>2. Probe!Return("refused", text)
          BY <2>2, <3>2 DEF Probe!Finish
        <4>3. "refused" \in ProbeStatus
          BY DEF ProbeStatus
        <4> HIDE DEF text
        <4>4. QED
          BY <4>1, <4>2, <4>3, ReturnIs
      <3>3. CASE Head(answer) # "REFUSED"
        <4>1. Probe!Return("completed", answer)
          BY <2>2, <3>3 DEF Probe!Finish
        <4>2. "completed" \in ProbeStatus
          BY DEF ProbeStatus
        <4>3. QED
          BY <3>1, <4>1, <4>2, ReturnIs
      <3>4. QED
        BY <3>2, <3>3
    <2>3. QED
      BY <2>1, <2>2
  <1>3. ProbeTypes'
    BY <1>1, <1>2 DEF Probe!Finish, ProbeTypes
  <1>4. Budget'
    BY <1>1, <1>2 DEF Probe!Finish, Budget
  <1>5. Refusal'
    <2>1. ~refusing /\ refusing' = refusing
      BY <1>1 DEF Probe!Finish, Refusal
    <2>2. QED
      BY <2>1 DEF Probe!Finish, Refusal
  <1>6. Secrets'
    BY <1>1, <1>2 DEF Probe!Finish, Secrets
  <1>7. Conversation'
    BY <1>1, <1>2, StaysSettled
  <1>8. QED
    BY <1>3, <1>4, <1>5, <1>6, <1>7

\* A refusal: the run is over with what the call, or else the model, says.
LEMMA RefusedStep ==
    ASSUME Probe!ConstantsAreTyped, ProbeInv, NEW text \in Texts, NEW calls \in Batches,
           Probe!Answered(text, calls), Probe!Refuses(calls)
    PROVE  ProbeInv'
  <1> USE DEF ProbeInv
  <1>1. probePc = "chat" /\ messages' = messages /\ todo' = todo /\ used' = used
    BY DEF Probe!Answered
  <1>2. PICK reason \in Texts :
            Probe!Return("refused", IF reason # <<>> THEN reason
                                    ELSE IF text # <<>> THEN text ELSE <<"reason">>)
    BY DEF Probe!Answered
  <1> DEFINE said == IF reason # <<>> THEN reason ELSE IF text # <<>> THEN text ELSE <<"reason">>
  <1>3. Quotable(said)
    BY TextsQuotable, FixedTexts
  <1>4. "refused" \in ProbeStatus
    BY DEF ProbeStatus
  <1>5. /\ result' \in [status : ProbeStatus, answer : Seq(Cells)] /\ result'.status = "refused"
        /\ Clean(result'.answer) /\ probePc' = "done"
    <2> HIDE DEF said
    <2>1. Probe!Return("refused", said)
      BY <1>2 DEF said
    <2>2. QED
      BY <1>3, <1>4, <2>1, ReturnIs
  <1>6. refusing' \in BOOLEAN
    BY DEF Probe!Answered, Probe!Contains
  <1>7. ProbeTypes'
    BY <1>1, <1>5, <1>6 DEF Probe!Answered, ProbeTypes
  <1>8. Budget'
    BY <1>1, <1>5 DEF Probe!Answered, Budget, Probe!ConstantsAreTyped
  <1>9. Refusal'
    BY <1>1, <1>5 DEF Refusal
  <1>10. Secrets'
    BY <1>1, <1>5 DEF Secrets
  <1>11. Conversation'
    BY <1>1, <1>5, StaysSettled
  <1>12. QED
    BY <1>7, <1>8, <1>9, <1>10, <1>11

\* A final text, or none.
LEMMA FinalTextStep ==
    ASSUME Probe!ConstantsAreTyped, ProbeInv, NEW text \in Texts, NEW calls \in Batches,
           Probe!Answered(text, calls), ~Probe!Refuses(calls), calls = <<>>
    PROVE  ProbeInv'
  <1> USE DEF ProbeInv
  <1>1. /\ probePc = "chat" /\ messages' = messages /\ todo' = todo /\ used' = used
        /\ result' = result /\ answer' = text
        /\ probePc' = IF text = <<>> THEN "summary" ELSE "finish"
    BY DEF Probe!Answered
  <1>2. refusing' = FALSE
    BY DEF Probe!Answered, Probe!Refuses
  <1>3. Quotable(text)
    BY TextsQuotable
  <1>4. ProbeTypes'
    <2>1. refusing' \in BOOLEAN
      BY <1>2
    <2>2. QED
      BY <1>1, <2>1 DEF Probe!Answered, ProbeTypes
  <1>5. Budget'
    BY <1>1 DEF Probe!Answered, Budget, Probe!ConstantsAreTyped
  <1>6. Refusal'
    BY <1>1, <1>2 DEF Refusal
  <1>7. Secrets'
    BY <1>1, <1>3 DEF Secrets
  <1>8. Conversation'
    BY <1>1, StaysSettled
  <1>9. QED
    BY <1>4, <1>5, <1>6, <1>7, <1>8

\* A turn with calls.
LEMMA TurnStep ==
    ASSUME Probe!ConstantsAreTyped, ProbeInv, NEW text \in Texts, NEW calls \in Batches,
           Probe!Answered(text, calls), ~Probe!Refuses(calls), calls # <<>>
    PROVE  ProbeInv'
  <1> USE DEF ProbeInv
  <1> DEFINE N == Len(calls)
             ids == [i \in 1 .. N |-> <<step, i>>]
             m == Probe!Assistant(text, ids)
  <1>1. calls \in Seq(Cells) /\ N \in Nat /\ DOMAIN calls = 1 .. N /\ N > 0
    BY TextsAre
  <1>2. /\ probePc = "chat" /\ probePc' = "tools" /\ used' = used /\ result' = result
        /\ step' = step /\ answer' = answer
    BY DEF Probe!Answered
  <1>3. /\ messages' = Append(messages, m)
        /\ todo' = [i \in 1 .. N |-> [id |-> <<step, i>>, name |-> calls[i]]]
    BY <1>1 DEF Probe!Answered
  <1>4. refusing' = FALSE
    BY DEF Probe!Answered, Probe!Refuses
  <1>5. \A i \in 1 .. N : calls[i] # "refuse" /\ calls[i] \in Cells
    BY <1>1 DEF Probe!Refuses, Probe!Contains
  <1>6. step \in Nat
    BY DEF Budget
  <1>7. \A i \in 1 .. N : <<step, i>> \in CallIds
    BY <1>1, <1>6 DEF CallIds
  <1>8. ids \in Seq(CallIds) /\ Len(ids) = N
    BY <1>1, <1>7
  <1>9. Quotable(text) /\ text \in Seq(Cells)
    BY TextsQuotable, TextsAre
  <1>10. m \in Message /\ m.role = "assistant" /\ m.calls = ids /\ m.content = text
    <2> HIDE DEF ids
    <2>1. <<>> \in CallIds
      BY DEF CallIds
    <2>2. QED
      BY <1>8, <1>9, <2>1 DEF Probe!Assistant, Message
  <1>11. /\ todo' \in Seq([id : CallIds, name : Cells]) /\ Len(todo') = N
         /\ \A i \in 1 .. N : todo'[i].id = <<step, i>> /\ todo'[i].name = calls[i]
    <2> HIDE DEF N
    <2>1. \A i \in 1 .. N : [id |-> <<step, i>>, name |-> calls[i]] \in [id : CallIds, name : Cells]
      BY <1>5, <1>7
    <2>2. QED
      BY <1>1, <1>3, <2>1
  <1>12. /\ messages' \in Seq(Message) /\ Len(messages') = Len(messages) + 1
         /\ messages'[Len(messages) + 1] = m
         /\ \A i \in 1 .. Len(messages) : messages'[i] = messages[i]
    <2> HIDE DEF m
    <2>1. messages \in Seq(Message)
      BY DEF ProbeTypes
    <2>2. QED
      BY <1>3, <1>10, <2>1, AppendIs
  <1>13. ProbeTypes'
    <2>1. refusing' \in BOOLEAN
      BY <1>4
    <2>2. QED
      BY <1>2, <1>11, <1>12, <2>1 DEF Probe!Answered, ProbeTypes
  <1>14. Budget'
    BY <1>2 DEF Probe!Answered, Budget, Probe!ConstantsAreTyped
  <1>15. Refusal'
    BY <1>2, <1>4, <1>5, <1>11 DEF Refusal
  <1>16. Secrets'
    <2>1. ASSUME NEW i \in 1 .. Len(messages'), messages'[i].role = "assistant"
          PROVE  Quotable(messages'[i].content)
      <3>0. Len(messages) \in Nat
        BY DEF ProbeTypes
      <3>1. CASE i \in 1 .. Len(messages)
        BY <1>12, <2>1, <3>1 DEF Secrets
      <3>2. CASE i = Len(messages) + 1
        BY <1>9, <1>10, <1>12, <3>2
      <3>3. QED
        BY <1>12, <2>1, <3>0, <3>1, <3>2
    <2>2. QED
      BY <1>2, <2>1 DEF Secrets
  <1>17. Conversation'
    <2> HIDE DEF m
    <2>1. messages \in Seq(Message) /\ Settled(Probe!ConvertAll(messages))
      BY <1>2 DEF ProbeTypes, Conversation
    <2>2. Probe!ConvertAll(messages') = Probe!Convert(Probe!ConvertAll(messages), m)
      BY <1>3, <1>10, <2>1, ConvertMore
    <2>3. Owing(Probe!ConvertAll(messages'), ids)
      BY <1>10, <2>1, <2>2, TurnOwes
    <2>4. IdsOf(todo') = ids
      BY <1>11 DEF IdsOf
    <2>5. todo' # <<>>
      BY <1>1, <1>11
    <2>6. QED
      BY <1>2, <2>3, <2>4, <2>5 DEF Conversation
  <1>18. QED
    BY <1>13, <1>14, <1>15, <1>16, <1>17

LEMMA ExecuteToolStep ==
    ASSUME Probe!ConstantsAreTyped, ProbeInv, Probe!ExecuteTool
    PROVE  ProbeInv'
  <1> USE DEF ProbeInv
  <1>1. /\ probePc = "tools" /\ todo # <<>> /\ todo \in Seq([id : CallIds, name : Cells])
        /\ result' = result /\ refusing' = refusing
    BY DEF Probe!ExecuteTool, Conversation, ProbeTypes
  <1>2. PICK out \in Outputs : messages' = Append(messages, Probe!Tool(Head(todo).id, Probe!ToolOutput(out)))
    BY DEF Probe!ExecuteTool
  <1> DEFINE text == Probe!ToolOutput(out)
             m == Probe!Tool(Head(todo).id, text)
             ids == IdsOf(todo)
  <1>3. /\ Head(todo) \in [id : CallIds, name : Cells] /\ Head(todo) = todo[1] /\ Len(todo) > 0
        /\ todo' = Tail(todo) /\ todo' \in Seq([id : CallIds, name : Cells])
        /\ Len(todo') = Len(todo) - 1
        /\ \A i \in 1 .. Len(todo') : todo'[i] = todo[i + 1]
    <2> DEFINE S == [id : CallIds, name : Cells]
    <2>1. todo \in Seq(S) /\ todo # <<>> /\ todo' = Tail(todo)
      BY <1>1 DEF Probe!ExecuteTool
    <2> HIDE DEF S
    <2>2. /\ Head(todo) \in S /\ Head(todo) = todo[1] /\ Len(todo) > 0
          /\ todo' = Tail(todo) /\ todo' \in Seq(S)
          /\ Len(todo') = Len(todo) - 1
          /\ \A i \in 1 .. Len(todo') : todo'[i] = todo[i + 1]
      BY <2>1
    <2>3. QED
      BY <2>2 DEF S
  <1>4. text \in Seq(Cells)
    <2>1. out \in Seq(Cells) /\ MaxOutput \in Nat
      BY TextsAre DEF Probe!ConstantsAreTyped
    <2>2. QED
      BY <2>1, ToolOutputType
  <1>5. ids \in Seq(CallIds) /\ ids # <<>> /\ Head(ids) = Head(todo).id /\ IdsOf(todo') = Tail(ids)
    <2>1. /\ Len(todo) \in Nat /\ \A i \in 1 .. Len(todo) : todo[i].id \in CallIds
      <3> DEFINE S == [id : CallIds, name : Cells]
      <3>1. \A e \in S : e.id \in CallIds
        OBVIOUS
      <3> HIDE DEF S
      <3>2. todo \in Seq(S)
        BY <1>1 DEF S
      <3>3. QED
        BY <3>1, <3>2
    <2>2. ids \in Seq(CallIds) /\ Len(ids) = Len(todo) /\ \A i \in 1 .. Len(todo) : ids[i] = todo[i].id
      BY <2>1 DEF IdsOf
    <2>3. ids # <<>> /\ Head(ids) = Head(todo).id
      BY <1>3, <2>2
    <2>4. /\ IdsOf(todo') \in Seq(CallIds) /\ Len(IdsOf(todo')) = Len(todo) - 1
          /\ \A i \in 1 .. Len(todo) - 1 : IdsOf(todo')[i] = todo[i + 1].id
      <3>1. Len(todo') \in Nat /\ \A i \in 1 .. Len(todo') : todo'[i].id = todo[i + 1].id /\ todo'[i].id \in CallIds
        BY <1>3, <2>1
      <3>2. QED
        BY <1>3, <3>1 DEF IdsOf
    <2> HIDE DEF ids
    <2>5. /\ Tail(ids) \in Seq(CallIds) /\ Len(Tail(ids)) = Len(todo) - 1
          /\ \A i \in 1 .. Len(todo) - 1 : Tail(ids)[i] = ids[i + 1]
      BY <2>2, <2>3, TailIs
    <2>6. \A i \in 1 .. Len(todo) - 1 : ids[i + 1] = todo[i + 1].id
      BY <2>1, <2>2
    <2>7. IdsOf(todo') = Tail(ids)
      BY <2>4, <2>5, <2>6, SameSeq
    <2>8. QED
      BY <2>2, <2>3, <2>7
  <1> HIDE DEF text, ids
  <1>6. m \in Message /\ m.role = "tool" /\ m.calls = <<>> /\ m.id = Head(ids)
    BY <1>3, <1>4, <1>5 DEF Probe!Tool, Message
  <1>7. messages' = Append(messages, m) /\ messages \in Seq(Message)
    BY <1>2 DEF ProbeTypes, text
  <1> HIDE DEF m
  <1>8. /\ messages' \in Seq(Message) /\ Len(messages') = Len(messages) + 1
        /\ messages'[Len(messages) + 1] = m
        /\ \A i \in 1 .. Len(messages) : messages'[i] = messages[i]
    BY <1>6, <1>7, AppendIs
  <1>9. \/ todo' = <<>> /\ probePc' = "top" /\ step' = step + 1
        \/ todo' # <<>> /\ probePc' = "tools" /\ step' = step
    BY <1>1 DEF Probe!ExecuteTool
  <1>10. ProbeTypes'
    BY <1>3, <1>8, <1>9 DEF Probe!ExecuteTool, ProbeTypes
  <1>11. Budget'
    <2>1. requests' = requests /\ usage' = usage
      BY DEF Probe!ExecuteTool
    <2>2. /\ step \in Nat /\ MaxSteps \in Nat /\ step < MaxSteps /\ requests = step + 1
          /\ usage \in 0 .. requests /\ requests \in 0 .. MaxSteps + 1
      BY <1>1 DEF Budget, Probe!ConstantsAreTyped
    <2>3. CASE probePc' = "top" /\ step' = step + 1
      BY <2>1, <2>2, <2>3 DEF Budget
    <2>4. CASE probePc' = "tools" /\ step' = step
      BY <2>1, <2>2, <2>4 DEF Budget
    <2>5. QED
      BY <1>9, <2>3, <2>4
  <1>12. Refusal'
    <2>1. ~refusing
      BY <1>1 DEF Refusal
    <2>2. used' = used \cup {todo[1].name}
      BY <1>3 DEF Probe!ExecuteTool
    <2>3. "refuse" \notin used'
      BY <1>1, <1>3, <2>2 DEF Refusal
    <2>4. \A i \in 1 .. Len(todo') : todo'[i].name # "refuse"
      BY <1>1, <1>3 DEF Refusal
    <2>5. QED
      BY <1>1, <2>1, <2>3, <2>4 DEF Refusal
  <1>13. Secrets'
    <2>1. ASSUME NEW i \in 1 .. Len(messages'), messages'[i].role = "assistant"
          PROVE  Quotable(messages'[i].content)
      <3>1. i # Len(messages) + 1
        BY <1>6, <1>8, <2>1
      <3>2. i \in 1 .. Len(messages)
        BY <1>7, <1>8, <3>1
      <3>3. QED
        BY <1>8, <2>1, <3>2 DEF Secrets
    <2>2. QED
      BY <1>1, <1>9, <2>1 DEF Secrets
  <1>14. Conversation'
    <2>1. Owing(Probe!ConvertAll(messages), ids)
      BY <1>1 DEF Conversation, ids
    <2>2. Probe!ConvertAll(messages') = Probe!Convert(Probe!ConvertAll(messages), m)
      BY <1>6, <1>7, ConvertMore
    <2>3. Owing(Probe!ConvertAll(messages'), IdsOf(todo'))
      BY <1>5, <1>6, <2>1, <2>2, ResultAnswers
    <2>4. CASE todo' # <<>> /\ probePc' = "tools"
      BY <2>3, <2>4 DEF Conversation
    <2>5. CASE todo' = <<>> /\ probePc' = "top"
      <3>1. IdsOf(todo') = <<>>
        BY <2>5 DEF IdsOf
      <3>2. Settled(Probe!ConvertAll(messages'))
        BY <2>3, <3>1, NothingOwed
      <3>3. QED
        BY <2>5, <3>2 DEF Conversation
    <2>6. QED
      BY <1>9, <2>4, <2>5
  <1>15. QED
    BY <1>10, <1>11, <1>12, <1>13, <1>14

LEMMA ProbeNextInv ==
    ASSUME Probe!ConstantsAreTyped
    PROVE  ProbeInv /\ [Probe!Next]_(Probe!vars) => ProbeInv'
  <1> SUFFICES ASSUME ProbeInv, [Probe!Next]_(Probe!vars) PROVE ProbeInv'
    OBVIOUS
  <1>1. CASE Probe!Start
    BY <1>1, StartStep
  <1>2. CASE Probe!Top
    BY <1>2, TopStep
  <1>3. CASE Probe!ChatFails
    BY <1>3, ChatFailsStep
  <1>4. CASE Probe!Chat
    <2>1. PICK text \in Texts, calls \in Batches : Probe!Answered(text, calls)
      BY <1>4 DEF Probe!Chat
    <2>2. QED
      BY <2>1, RefusedStep, FinalTextStep, TurnStep
  <1>5. CASE Probe!ExecuteTool
    BY <1>5, ExecuteToolStep
  <1>6. CASE Probe!Summary
    BY <1>6, SummaryStep
  <1>7. CASE Probe!Finish
    BY <1>7, FinishStep
  <1>8. CASE Probe!ContextEnds
    BY <1>8, ContextEndsStep
  <1>9. CASE UNCHANGED Probe!vars
    BY <1>9 DEF Probe!vars, ProbeInv, ProbeTypes, Budget, Refusal, Secrets, Conversation
  <1>10. QED
    BY <1>1, <1>2, <1>3, <1>4, <1>5, <1>6, <1>7, <1>8, <1>9 DEF Probe!Next, Probe!Work

\* The invariant gives what is claimed of a run.
LEMMA ProbeInvIsSafe ==
    ASSUME Probe!ConstantsAreTyped, ProbeInv
    PROVE  ProbeIsSafe
  <1> USE DEF ProbeInv
  <1>1. Probe!TypeOK
    BY DEF ProbeTypes, Budget, ProbeStatus, Probe!TypeOK
  <1>2. Probe!CallsAreAnswered
    <2> SUFFICES ASSUME Probe!Asking PROVE AnsweredTo(Probe!Converted, Len(Probe!Converted))
                                           /\ Probe!Converted \in Seq(Entry)
      BY DEF Probe!CallsAreAnswered, AnsweredTo
    <2>1. messages \in Seq(Message) /\ Settled(Probe!ConvertAll(messages))
      BY DEF Probe!Asking, ProbeTypes, Conversation
    <2>2. CASE probePc = "summary"
      <3> DEFINE q == Probe!User(<<"summarise">>)
      <3>1. Probe!Converted = Probe!ConvertAll(Append(messages, q))
        BY <2>2 DEF Probe!Converted, Probe!Request
      <3>2. q \in Message /\ q.role = "user" /\ q.calls = <<>>
        BY CellsAre, UserIs
      <3> HIDE DEF q
      <3>3. Probe!Converted = Probe!Convert(Probe!ConvertAll(messages), q)
        BY <2>1, <3>1, <3>2, ConvertMore
      <3>4. Settled(Probe!Converted)
        BY <2>1, <3>2, <3>3, QuestionSettled
      <3>5. QED
        BY <3>4 DEF Settled
    <2>3. CASE probePc # "summary"
      <3>1. Probe!Converted = Probe!ConvertAll(messages)
        BY <2>3 DEF Probe!Converted, Probe!Request
      <3>2. QED
        BY <2>1, <3>1 DEF Settled
    <2>4. QED
      BY <2>2, <2>3
  <1>3. Probe!RequestsAreBounded
    BY DEF Budget, Probe!RequestsAreBounded, Probe!ConstantsAreTyped
  <1>4. Probe!RefusalIsFinal
    BY DEF Refusal, Probe!RefusalIsFinal
  <1>5. Probe!AnswerIsRedacted
    BY DEF Secrets, Clean, Probe!AnswerIsRedacted, Probe!Contains
  <1>6. QED
    BY <1>1, <1>2, <1>3, <1>4, <1>5 DEF ProbeIsSafe, Probe!ProbeIsSafe

\* For every number of steps, every limit and whatever the model and the tools
\* say: a run asks the model at most once per step and once for the summary,
\* ends when the model refuses, sends conversations in which every tool call is
\* answered, and lets nothing of a key out of the machine.
THEOREM ProbeHolds == Probe!Spec => []ProbeIsSafe
  <1>1. Probe!Init => ProbeInv
    BY ProbeInitInv, PartsAssumption
  <1>2. ProbeInv /\ [Probe!Next]_(Probe!vars) => ProbeInv'
    BY ProbeNextInv, PartsAssumption
  <1>3. ProbeInv => ProbeIsSafe
    BY ProbeInvIsSafe, PartsAssumption
  <1>4. QED
    BY <1>1, <1>2, <1>3, PTL DEF Probe!Spec
============================================================================
