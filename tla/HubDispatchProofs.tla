-------------------------- MODULE HubDispatchProofs --------------------------
(* The session table of the Hub, for every set of members, machines and     *)
(* connections; its waiters, the routing of its frames and its refinement   *)
(* of QueryLifecycle, for every number of queries and connections and       *)
(* across crashes.                                                          *)
EXTENDS HubDispatch, QueueLemmas, TLAPS

----------------------------------------------------------------------------
(* Type correctness, takeover and presence (HubSessions).                   *)
(*                                                                          *)
(* Takeover is inductive with the types.  Presence needs to know that a     *)
(* session in the table has a goroutine that will still run its cleanup     *)
(* (TableIsServed): that is what keeps a member alive in NoGhostPresence    *)
(* when a handler that is not the last one returns without marking offline. *)

Accepted ==
    \A s \in Sessions : pc[s] # "free" => machine[s] \in Machines

TableIsServed ==
    \A s \in table : pc[s] \in {"registered", "reading"}

SessionsInv ==
    /\ SessionsTypeOK
    /\ Accepted
    /\ TableIsServed
    /\ OneSessionPerMachine
    /\ NoGhostPresence

LEMMA SessionsInit == InitSessions => SessionsInv
  BY DEF InitSessions, SessionsInv, SessionsTypeOK, Accepted, TableIsServed,
         OneSessionPerMachine, NoGhostPresence, Locations

LEMMA AcceptPreserves ==
    ASSUME SessionsInv, NEW s \in Sessions, NEW k \in Machines, Accept(s, k)
    PROVE  SessionsInv'
  <1> USE SessionsAssumption DEF SessionsInv
  <1>1. SessionsTypeOK'
    BY DEF SessionsTypeOK, Accept, Locations
  <1>2. Accepted'
    BY DEF SessionsTypeOK, Accepted, Accept
  <1>3. TableIsServed'
    BY DEF SessionsTypeOK, TableIsServed, Accept
  <1>4. OneSessionPerMachine'
    BY DEF SessionsTypeOK, TableIsServed, OneSessionPerMachine, Accept
  <1>5. ASSUME NEW m \in Members, online'[m]
        PROVE  \E t \in Sessions : Serves(t, m)'
    <2>1. PICK t \in Sessions : Serves(t, m)
      BY <1>5 DEF NoGhostPresence, Accept
    <2>2. t # s
      BY <2>1 DEF Serves, Accept
    <2>3. Serves(t, m)'
      BY <2>1, <2>2 DEF Serves, MemberOf, Accept, SessionsTypeOK
    <2>4. QED
      BY <2>3
  <1>6. QED
    BY <1>1, <1>2, <1>3, <1>4, <1>5 DEF NoGhostPresence

\* A step of the goroutine of s that leaves it running, or that changes only
\* the socket, keeps every serving goroutine.
LEMMA StillServed ==
    ASSUME SessionsInv, NEW s \in Sessions, NEW l \in Locations \ {"free", "gone"},
           pc[s] # "free", machine' = machine,
           pc' = pc \/ pc' = [pc EXCEPT ![s] = l],
           NEW m \in Members, NEW t \in Sessions, Serves(t, m)
    PROVE  Serves(t, m)'
  BY DEF Serves, MemberOf, SessionsInv, SessionsTypeOK

LEMMA StepPreserves ==
    ASSUME SessionsInv, NEW s \in Sessions, SessionStep(s) \/ SocketDown(s)
    PROVE  SessionsInv'
  <1> USE SessionsAssumption DEF SessionsInv
  <1>0. pc[s] # "free" => MemberOf(s) \in Members
    BY DEF Accepted, MemberOf
  <1>1. CASE MarkOnline(s)
    <2>1. /\ SessionsTypeOK' /\ Accepted' /\ TableIsServed' /\ OneSessionPerMachine'
      BY <1>0, <1>1 DEF MarkOnline, SessionsTypeOK, Accepted, TableIsServed,
                        OneSessionPerMachine, Locations
    <2>2. Serves(s, MemberOf(s))'
      BY <1>1 DEF MarkOnline, Serves, MemberOf, SessionsTypeOK
    <2>3. ASSUME NEW m \in Members, online'[m]
          PROVE  \E t \in Sessions : Serves(t, m)'
      <3>1. CASE m = MemberOf(s)
        BY <1>1, <2>2, <3>1 DEF MarkOnline, MemberOf
      <3>2. CASE m # MemberOf(s)
        <4>1. online[m]
          BY <1>0, <1>1, <2>3, <3>2 DEF MarkOnline, SessionsTypeOK
        <4>2. PICK t \in Sessions : Serves(t, m)
          BY <4>1 DEF NoGhostPresence
        <4>3. Serves(t, m)'
          BY <1>1, <4>2, StillServed DEF MarkOnline, Locations
        <4>4. QED
          BY <4>3
      <3>3. QED
        BY <3>1, <3>2
    <2>4. QED
      BY <2>1, <2>3 DEF NoGhostPresence
  <1>2. CASE Hello(s)
    <2>1. /\ SessionsTypeOK' /\ Accepted' /\ TableIsServed' /\ OneSessionPerMachine'
      BY <1>0, <1>2 DEF Hello, SessionsTypeOK, Accepted, TableIsServed,
                        OneSessionPerMachine, Locations
    <2>2. Serves(s, MemberOf(s))'
      BY <1>2 DEF Hello, Serves, MemberOf
    <2>3. ASSUME NEW m \in Members, online'[m]
          PROVE  \E t \in Sessions : Serves(t, m)'
      <3>1. CASE m = MemberOf(s)
        BY <1>2, <2>2, <3>1 DEF Hello, MemberOf
      <3>2. CASE m # MemberOf(s)
        <4>1. online[m]
          BY <1>0, <1>2, <2>3, <3>2 DEF Hello, SessionsTypeOK
        <4>2. QED
          BY <1>2, <4>1 DEF NoGhostPresence, Hello, Serves, MemberOf
      <3>3. QED
        BY <3>1, <3>2
    <2>4. QED
      BY <2>1, <2>3 DEF NoGhostPresence
  <1>3. CASE SocketDown(s)
    BY <1>3 DEF SocketDown, SessionsTypeOK, Accepted, TableIsServed,
                OneSessionPerMachine, NoGhostPresence, Serves, MemberOf
  <1>4. CASE Unregister(s)
    <2>1. /\ SessionsTypeOK' /\ Accepted' /\ TableIsServed' /\ OneSessionPerMachine'
      BY <1>4 DEF Unregister, SessionsTypeOK, Accepted, TableIsServed,
                  OneSessionPerMachine, Locations
    <2>2. ASSUME NEW m \in Members, online'[m]
          PROVE  \E t \in Sessions : Serves(t, m)'
      <3>1. PICK t \in Sessions : Serves(t, m)
        BY <1>4, <2>2 DEF NoGhostPresence, Unregister
      <3>2. CASE t # s
        <4>1. Serves(t, m)'
          BY <1>4, <3>1, <3>2 DEF Unregister, Serves, MemberOf, SessionsTypeOK
        <4>2. QED
          BY <4>1
      <3>3. CASE t = s /\ SessionsOf(MemberOf(s)) \ {s} = {}
        <4>1. Serves(s, m)'
          BY <1>4, <3>1, <3>3 DEF Unregister, Serves, MemberOf, SessionsTypeOK
        <4>2. QED
          BY <4>1
      <3>4. CASE t = s /\ SessionsOf(MemberOf(s)) \ {s} # {}
        <4>1. PICK u \in SessionsOf(MemberOf(s)) : u # s
          BY <3>4
        <4>2. u \in Sessions /\ pc[u] \in {"registered", "reading"} /\ MemberOf(u) = m
          BY <3>1, <3>4, <4>1 DEF SessionsOf, TableIsServed, SessionsTypeOK, Serves
        <4>3. Serves(u, m)'
          BY <1>4, <4>1, <4>2 DEF Unregister, Serves, MemberOf, SessionsTypeOK
        <4>4. QED
          BY <4>2, <4>3
      <3>5. QED
        BY <3>2, <3>3, <3>4
    <2>3. QED
      BY <2>1, <2>2 DEF NoGhostPresence
  <1>5. CASE Reconcile(s)
    <2>1. /\ SessionsTypeOK' /\ Accepted' /\ TableIsServed' /\ OneSessionPerMachine'
      BY <1>5 DEF Reconcile, SessionsTypeOK, Accepted, TableIsServed,
                  OneSessionPerMachine, Locations
    <2>2. ASSUME NEW m \in Members, online'[m]
          PROVE  \E t \in Sessions : Serves(t, m)'
      <3>1. PICK t \in Sessions : Serves(t, m)
        BY <1>5, <2>2 DEF NoGhostPresence, Reconcile
      <3>2. Serves(t, m)'
        BY <1>5, <3>1, StillServed DEF Reconcile, Locations
      <3>3. QED
        BY <3>2
    <2>3. QED
      BY <2>1, <2>2 DEF NoGhostPresence
  <1>6. CASE MarkOffline(s)
    <2>1. /\ SessionsTypeOK' /\ Accepted' /\ TableIsServed' /\ OneSessionPerMachine'
      BY <1>0, <1>6 DEF MarkOffline, SessionsTypeOK, Accepted, TableIsServed,
                        OneSessionPerMachine, Locations
    <2>2. ASSUME NEW m \in Members, online'[m]
          PROVE  \E t \in Sessions : Serves(t, m)'
      <3>1. m # MemberOf(s) /\ online[m]
        BY <1>0, <1>6, <2>2 DEF MarkOffline, SessionsTypeOK
      <3>2. PICK t \in Sessions : Serves(t, m)
        BY <3>1 DEF NoGhostPresence
      <3>3. t # s
        BY <3>1, <3>2 DEF Serves
      <3>4. Serves(t, m)'
        BY <1>6, <3>2, <3>3 DEF MarkOffline, Serves, MemberOf, SessionsTypeOK
      <3>5. QED
        BY <3>4
    <2>3. QED
      BY <2>1, <2>2 DEF NoGhostPresence
  <1>7. QED
    BY <1>1, <1>2, <1>3, <1>4, <1>5, <1>6 DEF SessionStep

LEMMA SessionsNext == SessionsInv /\ [NextSessions]_sessionVars => SessionsInv'
  <1> SUFFICES ASSUME SessionsInv, [NextSessions]_sessionVars
               PROVE  SessionsInv'
    OBVIOUS
  <1>1. CASE UNCHANGED sessionVars
    BY <1>1 DEF sessionVars, SessionsInv, SessionsTypeOK, Accepted, TableIsServed,
                OneSessionPerMachine, NoGhostPresence, Serves, MemberOf
  <1>2. CASE NextSessions
    BY <1>2, AcceptPreserves, StepPreserves DEF NextSessions
  <1>3. QED
    BY <1>1, <1>2

\* The types of the session table, for every instance.
THEOREM SessionsTyped == SpecSessions => []SessionsTypeOK
  <1>1. SessionsInv => SessionsTypeOK
    BY DEF SessionsInv
  <1>2. QED
    BY <1>1, SessionsInit, SessionsNext, PTL DEF SpecSessions

\* Takeover leaves at most one session of a machine in the table, however
\* many connections race.
THEOREM Takeover == SpecSessions => []OneSessionPerMachine
  <1>1. SessionsInv => OneSessionPerMachine
    BY DEF SessionsInv
  <1>2. QED
    BY <1>1, SessionsInit, SessionsNext, PTL DEF SpecSessions

\* A member shown online has a connection handler that still runs, for every
\* number of members, machines and connections.
THEOREM PresenceIsServed == SpecSessions => []NoGhostPresence
  <1>1. SessionsInv => NoGhostPresence
    BY DEF SessionsInv
  <1>2. QED
    BY <1>1, SessionsInit, SessionsNext, PTL DEF SpecSessions

\* The session table and presence agree, for any number of connections: the
\* three results above, as the run checks them together.
THEOREM SessionsHold == SpecSessions => []SessionsAreSound
  <1>1. SessionsTypeOK /\ OneSessionPerMachine /\ NoGhostPresence => SessionsAreSound
    BY DEF SessionsAreSound
  <1>2. QED
    BY <1>1, SessionsTyped, Takeover, PresenceIsServed, PTL

----------------------------------------------------------------------------
(* The waiters: no channel leaks, no blocked handler is forgotten, and a    *)
(* channel is in one place.                                                 *)
(*                                                                          *)
(* The three facts are inductive together, with two more: a notifier works  *)
(* on one query at a time (OneCurrent), and holds channels only between the *)
(* two halves of notifyWaiters (HoldsWhileDelivering).  Without OnePlace a  *)
(* handler could leave through one copy of its channel and leak the other;  *)
(* without OneCurrent a delivery could drop the channels of another query.  *)

ChannelTypes ==
    /\ status \in [Queries -> Status]
    /\ submit \in [Queries -> {"idle", "created", "register", "selected", "sent",
                               "waiting", "cancelling", "done"}]
    /\ poll \in [Queries -> {"idle", "read", "waiting"}]
    /\ waiters \in [Queries -> SUBSET Handlers]
    /\ mail \in [Queries -> [Handlers -> {"none"} \cup Status]]
    /\ task \in [Notifiers -> {"idle", "drain", "mark", "notify", "deliver"}]
    /\ current \in [Notifiers -> SUBSET Queries]
    /\ held \in [Notifiers -> SUBSET Handlers]

RegistersToWait ==
    \A q \in Queries : submit[q] \in {"register", "waiting"} => q \in Waited

OneCurrent == \A n \in Notifiers : \A q, r \in current[n] : q = r

HoldsWhileDelivering == \A n \in Notifiers : task[n] # "deliver" => held[n] = {}

ChannelInv ==
    /\ ChannelTypes
    /\ RegistersToWait
    /\ OneCurrent
    /\ HoldsWhileDelivering
    /\ NoWaiterLeak
    /\ NoLostWaiter
    /\ OnePlace

\* The queues of channels are what the last three parts are about.
channelVars == <<submit, poll, waiters, mail, current, held>>

LEMMA ChannelInit == Init => ChannelInv
  <1> SUFFICES ASSUME Init PROVE ChannelInv
    OBVIOUS
  <1>1. ChannelTypes
    BY DEF Init, ChannelTypes, Status, Handlers, NoMail
  <1>2. RegistersToWait /\ OneCurrent /\ HoldsWhileDelivering
    BY DEF Init, RegistersToWait, OneCurrent, HoldsWhileDelivering
  <1>3. NoWaiterLeak /\ NoLostWaiter /\ OnePlace
    BY DEF Init, NoWaiterLeak, NoLostWaiter, OnePlace, Listens, HeldBy, Handlers, NoMail
  <1>4. QED
    BY <1>1, <1>2, <1>3 DEF ChannelInv

\* The TTL check leaves every status a status.
LEMMA CheckedType ==
    ASSUME status \in [Queries -> Status], NEW S
    PROVE  Checked(S) \in [Queries -> Status]
  BY DEF Checked, ExpireIf, Status, Active, Terminal

\* A step that touches neither handlers nor notifiers.
LEMMA StoreStepPreserves ==
    ASSUME ChannelInv, UNCHANGED channelVars, status' \in [Queries -> Status],
           task' \in [Notifiers -> {"idle", "drain", "mark", "notify", "deliver"}],
           \A n \in Notifiers : task[n] = "deliver" => task'[n] = "deliver"
    PROVE  ChannelInv'
  <1> USE DEF ChannelInv, channelVars
  <1>1. ChannelTypes'
    BY DEF ChannelTypes
  <1>2. RegistersToWait' /\ OneCurrent'
    BY DEF RegistersToWait, OneCurrent
  <1>3. HoldsWhileDelivering'
    BY DEF HoldsWhileDelivering
  <1>4. NoWaiterLeak' /\ NoLostWaiter' /\ OnePlace'
    BY DEF NoWaiterLeak, NoLostWaiter, OnePlace, Listens, HeldBy
  <1>5. QED
    BY <1>1, <1>2, <1>3, <1>4

\* A step of the submit handler of q between its select statements: where it
\* goes it listens as much as where it was.
LEMMA SubmitMovePreserves ==
    ASSUME ChannelInv, NEW q \in Queries,
           NEW l \in {"created", "register", "selected", "sent", "waiting", "done"},
           submit' = [submit EXCEPT ![q] = l],
           l \in {"register", "waiting"} => q \in Waited,
           q \in Waited => (submit[q] \in {"selected", "sent", "waiting"}
                              <=> l \in {"selected", "sent", "waiting"}),
           UNCHANGED <<poll, waiters, mail, current, held, task>>,
           status' \in [Queries -> Status]
    PROVE  ChannelInv'
  <1> USE DEF ChannelInv
  <1>1. ChannelTypes'
    BY DEF ChannelTypes
  <1>2. RegistersToWait' /\ OneCurrent' /\ HoldsWhileDelivering'
    BY DEF RegistersToWait, OneCurrent, HoldsWhileDelivering, ChannelTypes
  <1>3. \A r \in Queries, h \in Handlers : Listens(r, h)' <=> Listens(r, h)
    BY DEF Listens, ChannelTypes
  <1>4. \A n \in Notifiers, r \in Queries, h \in Handlers : HeldBy(n, r, h)' <=> HeldBy(n, r, h)
    BY DEF HeldBy
  <1>5. NoWaiterLeak'
    BY <1>3, <1>4 DEF NoWaiterLeak
  <1>6. NoLostWaiter'
    BY <1>3, <1>4 DEF NoLostWaiter
  <1>7. OnePlace'
    BY <1>4 DEF OnePlace
  <1>8. QED
    BY <1>1, <1>2, <1>5, <1>6, <1>7

\* Handler h of query q begins or ceases to listen; nobody else does.
Switches(q, h, from, to) ==
    /\ Listens(q, h) = from
    /\ Listens(q, h)' = to
    /\ \A r \in Queries, o \in Handlers :
          r # q \/ o # h => (Listens(r, o)' <=> Listens(r, o))

\* A channel is put into queryWaiters by a handler that begins to listen.
LEMMA RegisterPreserves ==
    ASSUME ChannelInv, NEW q \in Queries, NEW h \in Handlers,
           Switches(q, h, FALSE, TRUE),
           waiters' = [waiters EXCEPT ![q] = @ \cup {h}],
           UNCHANGED <<mail, task, current, held>>,
           ChannelTypes', RegistersToWait'
    PROVE  ChannelInv'
  <1> USE DEF ChannelInv
  <1>1. OneCurrent' /\ HoldsWhileDelivering'
    BY DEF OneCurrent, HoldsWhileDelivering
  <1>2. \A r \in Queries, o \in Handlers :
          o \in waiters'[r] <=> (o \in waiters[r] \/ (r = q /\ o = h))
    BY DEF ChannelTypes
  <1>3. \A n \in Notifiers, r \in Queries, o \in Handlers : HeldBy(n, r, o)' <=> HeldBy(n, r, o)
    BY DEF HeldBy
  <1>4. NoWaiterLeak'
    BY <1>2, <1>3 DEF NoWaiterLeak, Switches
  <1>5. NoLostWaiter'
    BY <1>2, <1>3 DEF NoLostWaiter, Switches
  <1>6. OnePlace'
    BY <1>2, <1>3 DEF OnePlace, NoWaiterLeak, Switches
  <1>7. QED
    BY <1>1, <1>4, <1>5, <1>6

\* A handler that leaves through removeWaiter takes every copy with it.
LEMMA LeavePreserves ==
    ASSUME ChannelInv, NEW q \in Queries, NEW h \in Handlers,
           Switches(q, h, TRUE, FALSE), Leave(q, h),
           UNCHANGED <<task, current>>,
           ChannelTypes', RegistersToWait'
    PROVE  ChannelInv'
  <1> USE DEF ChannelInv
  <1>1. OneCurrent' /\ HoldsWhileDelivering'
    BY DEF OneCurrent, HoldsWhileDelivering, Leave
  <1>2. \A r \in Queries, o \in Handlers :
          /\ o \in waiters'[r] <=> (o \in waiters[r] /\ (r # q \/ o # h))
          /\ mail'[r][o] = IF r = q /\ o = h THEN "none" ELSE mail[r][o]
    BY DEF ChannelTypes, Leave
  <1>3. \A n \in Notifiers, r \in Queries, o \in Handlers :
          HeldBy(n, r, o)' <=> (HeldBy(n, r, o) /\ (r # q \/ o # h))
    BY DEF HeldBy, Leave, OneCurrent
  <1>4. NoWaiterLeak'
    BY <1>2, <1>3 DEF NoWaiterLeak, Switches
  <1>5. NoLostWaiter'
    BY <1>2, <1>3 DEF NoLostWaiter, Switches
  <1>6. OnePlace'
    BY <1>2, <1>3 DEF OnePlace
  <1>7. QED
    BY <1>1, <1>4, <1>5, <1>6

\* A handler that is woken empties its channel; it was nowhere else.
LEMMA WakePreserves ==
    ASSUME ChannelInv, NEW q \in Queries, NEW h \in Handlers,
           Switches(q, h, TRUE, FALSE),
           mail[q][h] # "none", mail' = [mail EXCEPT ![q][h] = "none"],
           UNCHANGED <<waiters, task, current, held>>,
           ChannelTypes', RegistersToWait'
    PROVE  ChannelInv'
  <1> USE DEF ChannelInv
  <1>1. OneCurrent' /\ HoldsWhileDelivering'
    BY DEF OneCurrent, HoldsWhileDelivering
  <1>2. \A r \in Queries, o \in Handlers :
          mail'[r][o] = IF r = q /\ o = h THEN "none" ELSE mail[r][o]
    BY DEF ChannelTypes
  <1>3. \A n \in Notifiers, r \in Queries, o \in Handlers : HeldBy(n, r, o)' <=> HeldBy(n, r, o)
    BY DEF HeldBy
  <1>4. NoWaiterLeak'
    <2>1. h \notin waiters[q] /\ \A n \in Notifiers : ~HeldBy(n, q, h)
      BY DEF OnePlace, Notifiers
    <2>2. QED
      BY <1>2, <1>3, <2>1 DEF NoWaiterLeak, Switches
  <1>5. NoLostWaiter'
    BY <1>2, <1>3 DEF NoLostWaiter, Switches
  <1>6. OnePlace'
    BY <1>2, <1>3 DEF OnePlace
  <1>7. QED
    BY <1>1, <1>4, <1>5, <1>6

\* A notifier that is idle takes on a query.
LEMMA BeginPreserves ==
    ASSUME ChannelInv, NEW n \in Notifiers, NEW q \in Queries, task[n] = "idle",
           task' = [task EXCEPT ![n] = "notify"],
           current' = [current EXCEPT ![n] = {q}],
           UNCHANGED <<submit, poll, waiters, mail, held>>,
           status' \in [Queries -> Status]
    PROVE  ChannelInv'
  <1> USE DEF ChannelInv
  <1>1. ChannelTypes' /\ RegistersToWait'
    BY DEF ChannelTypes, RegistersToWait
  <1>2. OneCurrent' /\ HoldsWhileDelivering'
    BY DEF OneCurrent, HoldsWhileDelivering, ChannelTypes
  <1>3. \A m \in Notifiers, r \in Queries, o \in Handlers : HeldBy(m, r, o)' <=> HeldBy(m, r, o)
    BY DEF HeldBy, HoldsWhileDelivering, ChannelTypes
  <1>4. \A r \in Queries, o \in Handlers : Listens(r, o)' <=> Listens(r, o)
    BY DEF Listens
  <1>5. NoWaiterLeak' /\ NoLostWaiter'
    BY <1>3, <1>4 DEF NoWaiterLeak, NoLostWaiter
  <1>6. OnePlace'
    BY <1>3 DEF OnePlace
  <1>7. QED
    BY <1>1, <1>2, <1>5, <1>6

LEMMA TakePreserves ==
    ASSUME ChannelInv, NEW n \in Notifiers, NEW q \in Queries, TakeWaiters(n, q)
    PROVE  ChannelInv'
  <1> USE DEF ChannelInv
  <1>1. ChannelTypes' /\ RegistersToWait'
    BY DEF ChannelTypes, RegistersToWait, TakeWaiters, storeVars
  <1>2. OneCurrent' /\ HoldsWhileDelivering'
    BY DEF OneCurrent, HoldsWhileDelivering, ChannelTypes, TakeWaiters
  <1>3. /\ mail' = mail
        /\ \A r \in Queries, o \in Handlers :
              /\ Listens(r, o)' <=> Listens(r, o)
              /\ o \in waiters'[r] <=> (o \in waiters[r] /\ r # q)
    BY DEF ChannelTypes, Listens, TakeWaiters
  <1>4. \A m \in Notifiers, r \in Queries, o \in Handlers :
          HeldBy(m, r, o)' <=> (HeldBy(m, r, o) \/ (m = n /\ r = q /\ o \in waiters[q]))
    BY DEF HeldBy, HoldsWhileDelivering, OneCurrent, ChannelTypes, TakeWaiters
  <1>5. NoWaiterLeak'
    BY <1>3, <1>4 DEF NoWaiterLeak
  <1>6. NoLostWaiter'
    BY <1>3, <1>4 DEF NoLostWaiter
  <1>7. OnePlace'
    BY <1>3, <1>4 DEF OnePlace
  <1>8. QED
    BY <1>1, <1>2, <1>5, <1>6, <1>7

LEMMA DeliverPreserves ==
    ASSUME ChannelInv, NEW n \in Notifiers, NEW q \in Queries, Deliver(n, q)
    PROVE  ChannelInv'
  <1> USE DEF ChannelInv
  <1>1. status' \in [Queries -> Status]
    BY CheckedType DEF ChannelTypes, Deliver
  <1>2. ChannelTypes' /\ RegistersToWait'
    BY <1>1 DEF ChannelTypes, RegistersToWait, Deliver, Handlers
  <1>3. OneCurrent' /\ HoldsWhileDelivering'
    BY DEF OneCurrent, HoldsWhileDelivering, ChannelTypes, Deliver
  <1>4. \A r \in Queries, o \in Handlers :
          /\ Listens(r, o)' <=> Listens(r, o)
          /\ waiters'[r] = waiters[r]
    BY DEF Listens, Deliver
  <1>5. \A m \in Notifiers, r \in Queries, o \in Handlers :
          HeldBy(m, r, o)' <=> (HeldBy(m, r, o) /\ m # n)
    BY DEF HeldBy, ChannelTypes, Deliver
  <1>6. \A r \in Queries, o \in Handlers :
          mail'[r][o] # "none" <=> (mail[r][o] # "none" \/ HeldBy(n, r, o))
    <2> TAKE r \in Queries, o \in Handlers
    <2>1. CASE r # q
      <3>1. mail'[r] = mail[r]
        BY <2>1 DEF ChannelTypes, Deliver
      <3>2. ~HeldBy(n, r, o)
        BY <2>1 DEF HeldBy, OneCurrent, Deliver
      <3>3. QED
        BY <3>1, <3>2
    <2>2. CASE r = q
      <3>1. mail'[q] = [h \in Handlers |-> IF h \in held[n] THEN status'[q] ELSE mail[q][h]]
        BY DEF ChannelTypes, Deliver
      <3>2. status'[q] # "none"
        BY <1>1 DEF Status, Active, Terminal, Responded
      <3>3. HeldBy(n, q, o) <=> o \in held[n]
        BY DEF HeldBy, Deliver
      <3>4. QED
        BY <2>2, <3>1, <3>2, <3>3
    <2>3. QED
      BY <2>1, <2>2
  <1>7. NoWaiterLeak'
    BY <1>4, <1>5, <1>6 DEF NoWaiterLeak
  <1>8. NoLostWaiter'
    BY <1>4, <1>5, <1>6 DEF NoLostWaiter
  <1>9. OnePlace'
    BY <1>4, <1>5, <1>6 DEF OnePlace
  <1>10. QED
    BY <1>2, <1>3, <1>7, <1>8, <1>9

LEMMA CrashPreserves ==
    ASSUME ChannelInv, Crash
    PROVE  ChannelInv'
  <1>1. ChannelTypes'
    BY DEF ChannelInv, ChannelTypes, Crash, storeVars, NoMail, Handlers
  <1>2. RegistersToWait' /\ OneCurrent' /\ HoldsWhileDelivering'
    BY DEF RegistersToWait, OneCurrent, HoldsWhileDelivering, Crash
  <1>3. NoWaiterLeak' /\ NoLostWaiter' /\ OnePlace'
    BY DEF NoWaiterLeak, NoLostWaiter, OnePlace, Listens, HeldBy, Crash, NoMail, Handlers
  <1>4. QED
    BY <1>1, <1>2, <1>3 DEF ChannelInv

----------------------------------------------------------------------------
LEMMA SubmitPreserves ==
    ASSUME ChannelInv, NEW q \in Queries, SubmitRuns(q) \/ CreateQuery(q) \/ SubmitHangUp(q)
    PROVE  ChannelInv'
  <1>0. status \in [Queries -> Status] /\ ChannelTypes /\ RegistersToWait
    BY DEF ChannelInv, ChannelTypes
  <1>1. CASE CreateQuery(q)
    <2>1. status' \in [Queries -> Status]
      BY <1>0, <1>1 DEF CreateQuery, Status, Active
    <2>2. QED
      BY <1>1, <2>1, SubmitMovePreserves DEF CreateQuery, loopVars
  <1>2. CASE SelectSession(q)
    <2>1. PICK l \in {"register", "selected", "done"} :
            /\ submit' = [submit EXCEPT ![q] = l]
            /\ q \in Waited <=> l = "register"
      BY <1>2 DEF SelectSession, ToDispatch, AfterDispatch
    <2>2. UNCHANGED <<poll, waiters, mail, current, held, task, status>>
      BY <1>2 DEF SelectSession, loopVars, storeVars
    <2>3. QED
      BY <1>0, <1>2, <2>1, <2>2, SubmitMovePreserves DEF SelectSession
  <1>3. CASE SubmitRegister(q)
    <2>1. PICK l \in {"selected", "waiting"} : submit' = [submit EXCEPT ![q] = l]
      BY <1>0, <1>3 DEF SubmitRegister, ToDispatch, AfterDispatch, RegistersToWait
    <2>2. Switches(q, "submit", FALSE, TRUE)
      BY <1>0, <1>3, <2>1 DEF Switches, Listens, SubmitRegister, RegistersToWait, ChannelTypes,
                              Handlers
    <2>3. ChannelTypes' /\ RegistersToWait'
      BY <1>0, <1>3, <2>1 DEF ChannelTypes, RegistersToWait, SubmitRegister, loopVars,
                              storeVars, Handlers
    <2>4. QED
      BY <1>3, <2>2, <2>3, RegisterPreserves DEF SubmitRegister, loopVars, Handlers
  <1>4. CASE SubmitSend(q)
    BY <1>0, <1>4, SubmitMovePreserves DEF SubmitSend, loopVars, storeVars
  <1>5. CASE SubmitMark(q)
    <2>1. status' \in [Queries -> Status]
      BY <1>0, <1>5 DEF SubmitMark, Status, Active
    <2>2. QED
      BY <1>5, <2>1, SubmitMovePreserves DEF SubmitMark, AfterDispatch, loopVars
  <1>6. CASE SubmitWoken(q)
    <2>1. Switches(q, "submit", TRUE, FALSE)
      BY <1>0, <1>6 DEF Switches, Listens, SubmitWoken, ChannelTypes, ChannelInv, NoWaiterLeak,
                        Handlers
    <2>2. ChannelTypes' /\ RegistersToWait'
      BY <1>0, <1>6 DEF ChannelTypes, RegistersToWait, SubmitWoken, loopVars, storeVars, Handlers
    <2>3. QED
      BY <1>6, <2>1, <2>2, WakePreserves DEF SubmitWoken, loopVars, Handlers
  <1>7. CASE SubmitTimeout(q)
    <2>1. Switches(q, "submit", TRUE, FALSE)
      BY <1>0, <1>7 DEF Switches, Listens, SubmitTimeout, ChannelTypes, RegistersToWait, Handlers
    <2>2. ChannelTypes' /\ RegistersToWait'
      BY <1>0, <1>7 DEF ChannelTypes, RegistersToWait, SubmitTimeout, Leave, storeVars, Handlers
    <2>3. QED
      BY <1>7, <2>1, <2>2, LeavePreserves DEF SubmitTimeout, Handlers
  <1>8. CASE SubmitHangUp(q)
    <2>0. PICK l \in {"cancelling", "done"} : submit' = [submit EXCEPT ![q] = l]
      BY <1>8 DEF SubmitHangUp
    <2>1. Switches(q, "submit", TRUE, FALSE)
      BY <1>0, <1>8, <2>0 DEF Switches, Listens, SubmitHangUp, ChannelTypes, RegistersToWait,
                              Handlers
    <2>2. ChannelTypes' /\ RegistersToWait'
      BY <1>0, <1>8, <2>0 DEF ChannelTypes, RegistersToWait, SubmitHangUp, Leave, storeVars,
                              Handlers
    <2>3. QED
      BY <1>8, <2>1, <2>2, LeavePreserves DEF SubmitHangUp, Handlers
  <1>9. CASE CancelDispatched(q)
    <2>1. status' \in [Queries -> Status]
      BY <1>0, <1>9, CheckedType DEF CancelDispatched
    <2>2. QED
      BY <1>9, <2>1, SubmitMovePreserves DEF CancelDispatched, loopVars
  <1>10. QED
    BY <1>1, <1>2, <1>3, <1>4, <1>5, <1>6, <1>7, <1>8, <1>9 DEF SubmitRuns

LEMMA PollPreserves ==
    ASSUME ChannelInv, NEW q \in Queries, PollRuns(q) \/ PollRead(q)
    PROVE  ChannelInv'
  <1>0. status \in [Queries -> Status] /\ ChannelTypes /\ RegistersToWait
    BY DEF ChannelInv, ChannelTypes
  <1>1. CASE PollRead(q)
    <2>1. PICK l \in {"idle", "read"} : poll' = [poll EXCEPT ![q] = l]
      BY <1>1 DEF PollRead
    <2>2. status' \in [Queries -> Status]
      BY <1>0, <1>1, CheckedType DEF PollRead
    <2>3. ChannelTypes' /\ RegistersToWait'
      BY <1>0, <1>1, <2>1, <2>2 DEF ChannelTypes, RegistersToWait, PollRead, loopVars
    <2>4. \A r \in Queries, h \in Handlers : Listens(r, h)' <=> Listens(r, h)
      BY <1>0, <1>1, <2>1 DEF Listens, PollRead, ChannelTypes
    <2>5. UNCHANGED <<waiters, mail, task, current, held>>
      BY <1>1 DEF PollRead, loopVars
    <2>6. OneCurrent' /\ HoldsWhileDelivering'
      BY <2>5 DEF ChannelInv, OneCurrent, HoldsWhileDelivering
    <2>7. NoWaiterLeak' /\ NoLostWaiter' /\ OnePlace'
      BY <2>4, <2>5 DEF ChannelInv, NoWaiterLeak, NoLostWaiter, OnePlace, HeldBy
    <2>8. QED
      BY <2>3, <2>6, <2>7 DEF ChannelInv
  <1>2. CASE PollRegister(q)
    <2>1. Switches(q, "poll", FALSE, TRUE)
      BY <1>0, <1>2 DEF Switches, Listens, PollRegister, ChannelTypes, Handlers
    <2>2. ChannelTypes' /\ RegistersToWait'
      BY <1>0, <1>2 DEF ChannelTypes, RegistersToWait, PollRegister, loopVars, storeVars, Handlers
    <2>3. QED
      BY <1>2, <2>1, <2>2, RegisterPreserves DEF PollRegister, loopVars, Handlers
  <1>3. CASE PollWoken(q)
    <2>1. Switches(q, "poll", TRUE, FALSE)
      BY <1>0, <1>3 DEF Switches, Listens, PollWoken, ChannelTypes, Handlers
    <2>2. ChannelTypes' /\ RegistersToWait'
      BY <1>0, <1>3 DEF ChannelTypes, RegistersToWait, PollWoken, loopVars, storeVars, Handlers
    <2>3. QED
      BY <1>3, <2>1, <2>2, WakePreserves DEF PollWoken, loopVars, Handlers
  <1>4. ASSUME NEW rereads \in BOOLEAN, PollEnds(q, rereads)
        PROVE  ChannelInv'
    <2>1. status' \in [Queries -> Status]
      BY <1>0, <1>4, CheckedType DEF PollEnds
    <2>2. Switches(q, "poll", TRUE, FALSE)
      BY <1>0, <1>4 DEF Switches, Listens, PollEnds, ChannelTypes, Handlers
    <2>3. ChannelTypes' /\ RegistersToWait'
      BY <1>0, <1>4, <2>1 DEF ChannelTypes, RegistersToWait, PollEnds, Leave, Handlers
    <2>4. QED
      BY <1>4, <2>2, <2>3, LeavePreserves DEF PollEnds, Handlers
  <1>5. QED
    BY <1>1, <1>2, <1>3, <1>4 DEF PollRuns

LEMMA LoopPreserves ==
    ASSUME ChannelInv, NEW s \in Sessions, LoopRuns(s)
    PROVE  ChannelInv'
  <1>0. status \in [Queries -> Status] /\ ChannelTypes /\ s \in Notifiers
    BY DEF ChannelInv, ChannelTypes, Notifiers
  <1>1. CASE PresenceStep(s)
    BY <1>0, <1>1, StoreStepPreserves
       DEF PresenceStep, channelVars, ChannelTypes, storeVars, handlerVars, loopVars
  <1>2. CASE HandleHello(s)
    <2>1. status' \in [Queries -> Status]
      BY <1>0, <1>2, CheckedType DEF HandleHello
    <2>2. PICK l \in {"idle", "drain"} : task' = [task EXCEPT ![s] = l]
      BY <1>2 DEF HandleHello
    <2>3. UNCHANGED channelVars /\ task[s] # "deliver"
      BY <1>2 DEF HandleHello, channelVars, handlerVars
    <2>4. QED
      BY <1>0, <2>1, <2>2, <2>3, StoreStepPreserves DEF ChannelTypes
  <1>3. CASE DrainSend(s)
    BY <1>0, <1>3, StoreStepPreserves
       DEF DrainSend, channelVars, ChannelTypes, storeVars, handlerVars
  <1>4. CASE DrainMark(s)
    <2>1. status' \in [Queries -> Status]
      BY <1>0, <1>4 DEF DrainMark, Status, Active
    <2>2. PICK l \in {"idle", "drain"} : task' = [task EXCEPT ![s] = l]
      BY <1>4 DEF DrainMark
    <2>3. UNCHANGED channelVars /\ task[s] # "deliver"
      BY <1>4 DEF DrainMark, channelVars, handlerVars
    <2>4. QED
      BY <1>0, <2>1, <2>2, <2>3, StoreStepPreserves DEF ChannelTypes
  <1>5. ASSUME NEW q \in Queries, NEW st \in Outcomes, HandleResponse(s, q, st)
        PROVE  ChannelInv'
    <2>1. status' \in [Queries -> Status]
      BY <1>0, <1>5, DispatchAssumption DEF HandleResponse, Normalised, Status, Terminal, Responded
    <2>2. QED
      BY <1>0, <1>5, <2>1, BeginPreserves DEF HandleResponse, handlerVars
  <1>6. ASSUME NEW q \in Queries, TakeWaiters(s, q) \/ Deliver(s, q)
        PROVE  ChannelInv'
    BY <1>0, <1>6, TakePreserves, DeliverPreserves
  <1>7. CASE LoseSession(s)
    BY <1>0, <1>7, StoreStepPreserves
       DEF LoseSession, channelVars, ChannelTypes, storeVars, handlerVars, loopVars
  <1>8. CASE ReconcileInFlight(s)
    <2>1. status' \in [Queries -> Status]
      BY <1>0, <1>8 DEF ReconcileInFlight, RequeueIf, Status, Active, Terminal
    <2>2. QED
      BY <1>0, <1>8, <2>1, StoreStepPreserves
         DEF ReconcileInFlight, channelVars, ChannelTypes, handlerVars, loopVars
  <1>9. QED
    BY <1>1, <1>2, <1>3, <1>4, <1>5, <1>6, <1>7, <1>8 DEF LoopRuns

LEMMA SweeperPreserves ==
    ASSUME ChannelInv, SweeperRuns
    PROVE  ChannelInv'
  <1>0. status \in [Queries -> Status] /\ ChannelTypes /\ Sweeper \in Notifiers
    BY DEF ChannelInv, ChannelTypes, Notifiers
  <1>1. CASE SweepTick
    <2>1. status' \in [Queries -> Status]
      BY <1>0, <1>1, CheckedType DEF SweepTick
    <2>2. QED
      BY <1>0, <1>1, <2>1, StoreStepPreserves
         DEF SweepTick, channelVars, ChannelTypes, handlerVars
  <1>2. ASSUME NEW q \in Queries, SweepLook(q)
        PROVE  ChannelInv'
    <2>1. status' \in [Queries -> Status]
      BY <1>0, <1>2, CheckedType DEF SweepLook
    <2>2. CASE status'[q] = "expired"
      BY <1>0, <1>2, <2>1, <2>2, BeginPreserves DEF SweepLook, handlerVars
    <2>3. CASE status'[q] # "expired"
      BY <1>0, <1>2, <2>1, <2>3, StoreStepPreserves
         DEF SweepLook, channelVars, ChannelTypes, handlerVars
    <2>4. QED
      BY <2>2, <2>3
  <1>3. ASSUME NEW q \in Queries, TakeWaiters(Sweeper, q) \/ Deliver(Sweeper, q)
        PROVE  ChannelInv'
    BY <1>0, <1>3, TakePreserves, DeliverPreserves
  <1>4. QED
    BY <1>1, <1>2, <1>3 DEF SweeperRuns

\* Connections and daemons do not touch the handlers' channels.
LEMMA WirePreserves ==
    ASSUME ChannelInv,
           \/ \E q \in Queries : TTLPasses(q)
           \/ \E s \in Sessions, k \in Machines : Connect(s, k)
           \/ \E s \in Sessions : DaemonStop(s) \/ Disconnect(s)
           \/ \E s \in Sessions, q \in Queries :
                 DaemonRespond(s, q) \/ DaemonCancel(s, q) \/ DaemonDecline(s, q)
    PROVE  ChannelInv'
  <1>1. UNCHANGED <<status, handlerVars, loopVars>>
    BY DEF TTLPasses, Connect, DaemonStop, Disconnect, DaemonRespond, DaemonCancel,
           DaemonDecline, storeVars
  <1>2. QED
    BY <1>1, StoreStepPreserves DEF ChannelInv, ChannelTypes, channelVars, handlerVars, loopVars

LEMMA ChannelStep == ChannelInv /\ [Next \/ Crash]_vars => ChannelInv'
  <1> SUFFICES ASSUME ChannelInv, [Next \/ Crash]_vars PROVE ChannelInv'
    OBVIOUS
  <1>1. CASE Next
    <2>1. CASE \E q \in Queries : SubmitRuns(q) \/ PollRuns(q)
      BY <2>1, SubmitPreserves, PollPreserves
    <2>2. CASE \E s \in Sessions : LoopRuns(s)
      BY <2>2, LoopPreserves
    <2>3. CASE SweeperRuns
      BY <2>3, SweeperPreserves
    <2>4. CASE Outside
      BY <2>4, SubmitPreserves, PollPreserves, WirePreserves DEF Outside
    <2>5. QED
      BY <1>1, <2>1, <2>2, <2>3, <2>4 DEF Next
  <1>2. CASE Crash
    BY <1>2, CrashPreserves
  <1>3. CASE UNCHANGED vars
    BY <1>3, StoreStepPreserves
       DEF vars, storeVars, handlerVars, loopVars, channelVars, ChannelInv, ChannelTypes
  <1>4. QED
    BY <1>1, <1>2, <1>3

LEMMA ChannelsInvariant == CrashSpec => []ChannelInv
  BY ChannelInit, ChannelStep, PTL DEF CrashSpec

\* No interleaving of handlers, read loops, sweeper and crashes leaves a
\* channel behind whose handler has gone (removeWaiter and notifyWaiters of
\* internal/hub/hub.go).
THEOREM WaitersDoNotLeak == CrashSpec => []NoWaiterLeak
  <1>1. ChannelInv => NoWaiterLeak
    BY DEF ChannelInv
  <1>2. QED
    BY <1>1, ChannelsInvariant, PTL

\* A handler that blocks in its select can always still be woken: its channel
\* is registered, in the hands of a notifier, or full.
THEOREM WaitersAreReachable == CrashSpec => []NoLostWaiter
  <1>1. ChannelInv => NoLostWaiter
    BY DEF ChannelInv
  <1>2. QED
    BY <1>1, ChannelsInvariant, PTL

\* Two notifiers of one query, or a notifier and a hang-up, never handle the
\* same channel: notifyWaiters sends to a channel at most once.
THEOREM ChannelsInOnePlace == CrashSpec => []OnePlace
  <1>1. ChannelInv => OnePlace
    BY DEF ChannelInv
  <1>2. QED
    BY <1>1, ChannelsInvariant, PTL

\* A channel is in exactly one place as long as its handler listens and in none
\* afterwards, for any number of handlers and notifiers and across crashes.
THEOREM WaitersHold == CrashSpec => []WaitersAreSound
  <1>1. NoWaiterLeak /\ NoLostWaiter /\ OnePlace => WaitersAreSound
    BY DEF WaitersAreSound
  <1>2. QED
    BY <1>1, WaitersDoNotLeak, WaitersAreReachable, ChannelsInOnePlace, PTL

----------------------------------------------------------------------------
(* Frames and the life cycle of a query.                                    *)
(*                                                                          *)
(* A frame is sent to a session that a handler selected earlier or to the   *)
(* one whose queue is drained, so routing rests on what these remember: the *)
(* selected session, the inbound lists and the list that is being drained.  *)
(* They stay right because an accepted connection keeps its member and a    *)
(* created query keeps its target.  The same facts say that nothing is      *)
(* marked, requeued or answered that was never created, which the           *)
(* refinement of QueryLifecycle needs.                                      *)

\* The created queries of a member.
Mine(m) == {q \in Queries : Target[q] = m /\ status[q] # "absent"}

OnWire(s, q) == probes[s][q] > 0 \/ replies[s][q] > 0 \/ q \in cancels[s]

LiveSessions ==
    /\ SessionsTypeOK
    /\ Accepted
    /\ \A s \in table \cup up : pc[s] # "free"

RouteTypes ==
    /\ answered \in [Queries -> BOOLEAN]
    /\ stale \in [Queries -> BOOLEAN]
    /\ inbound \in [Members -> Seq(Queries)]
    /\ chosen \in [Queries -> Sessions \cup {NoSession}]
    /\ replied \subseteq Feishu
    /\ todo \in [Sessions -> Seq(Queries)]
    /\ sweepList \subseteq Queries
    /\ probes \in [Sessions -> [Queries -> Nat]]
    /\ replies \in [Sessions -> [Queries -> Nat]]
    /\ cancels \in [Sessions -> SUBSET Queries]
    /\ stopping \subseteq Sessions

SubmittedAreCreated == \A q \in Queries : submit[q] = "idle" <=> status[q] = "absent"

LinesAreMine == \A m \in Members : inbound[m] \in Seq(Mine(m))

DrainsAreMine ==
    \A s \in Sessions :
        /\ pc[s] # "free" => todo[s] \in Seq(Mine(MemberOf(s)))
        /\ pc[s] = "free" => todo[s] = <<>>
        /\ task[s] \in {"drain", "mark"} => todo[s] # <<>>

ChoicesAreMine ==
    \A q \in Queries :
        /\ chosen[q] # NoSession => pc[chosen[q]] # "free" /\ MemberOf(chosen[q]) = Target[q]
        /\ submit[q] = "selected" => chosen[q] # NoSession

FramesAreMine ==
    \A s \in Sessions, q \in Queries :
        OnWire(s, q) => pc[s] # "free" /\ q \in Mine(MemberOf(s))

RouteInv ==
    /\ LiveSessions
    /\ RouteTypes
    /\ SubmittedAreCreated
    /\ LinesAreMine
    /\ DrainsAreMine
    /\ ChoicesAreMine
    /\ FramesAreMine

LEMMA RouteInit == Init => RouteInv
  <1> SUFFICES ASSUME Init PROVE RouteInv
    OBVIOUS
  <1>1. LiveSessions
    BY DEF Init, InitSessions, LiveSessions, SessionsTypeOK, Accepted, Locations
  <1>2. RouteTypes
    BY DEF Init, RouteTypes, Empty
  <1>3. SubmittedAreCreated /\ ChoicesAreMine
    BY DEF Init, SubmittedAreCreated, ChoicesAreMine
  <1>4. LinesAreMine /\ DrainsAreMine
    BY DEF Init, InitSessions, LinesAreMine, DrainsAreMine, Notifiers
  <1>5. FramesAreMine
    BY DEF Init, FramesAreMine, OnWire, Empty
  <1>6. QED
    BY <1>1, <1>2, <1>3, <1>4, <1>5 DEF RouteInv

----------------------------------------------------------------------------
(* What a step may do to the parts of RouteInv.                             *)

\* One edge of the life cycle.
HubEdge(q) ==
    \/ /\ answered'[q] = answered[q]
       /\ \/ status'[q] = status[q]
          \/ status[q] = "absent" /\ status'[q] = "queued"
          \/ status[q] # "absent" /\ status'[q] = "dispatched"
          \/ status[q] = "dispatched" /\ status'[q] = "queued"
          \/ status[q] \in Active /\ status'[q] = "expired"
    \/ /\ status[q] # "absent"
       /\ status'[q] \in Responded
       /\ answered[q] => answered'[q]

EdgeStep == \A q \in Queries : HubEdge(q)

SessionsKept ==
    \A s \in Sessions : pc[s] # "free" => pc'[s] # "free" /\ machine'[s] = machine[s]

LineStep ==
    \A m \in Members :
        \/ inbound'[m] = inbound[m]
        \/ \E q \in Queries :
              /\ inbound'[m] = Append(inbound[m], q)
              /\ Target[q] = m
              /\ status'[q] # "absent"

DrainStep ==
    \A s \in Sessions :
        \/ /\ todo'[s] = todo[s]
           /\ task'[s] \in {"drain", "mark"} => task[s] \in {"drain", "mark"}
        \/ /\ todo'[s] \in Seq(Mine(MemberOf(s)))
           /\ pc[s] # "free"
           /\ task'[s] \in {"drain", "mark"} => todo'[s] # <<>>
        \/ todo'[s] = <<>> /\ task'[s] = "idle"

ChoiceStep ==
    \A q \in Queries :
        \/ /\ chosen'[q] = chosen[q]
           /\ submit'[q] = "selected" => submit[q] = "selected" \/ chosen[q] # NoSession
        \/ chosen'[q] \in SessionsOf(Target[q])
        \/ chosen'[q] = NoSession /\ submit'[q] # "selected"

FrameStep ==
    \A s \in Sessions, q \in Queries :
        OnWire(s, q)' => OnWire(s, q) \/ (pc[s] # "free" /\ q \in Mine(MemberOf(s)))

RouteStep ==
    /\ EdgeStep /\ SessionsKept /\ LineStep /\ DrainStep /\ ChoiceStep /\ FrameStep
    /\ LiveSessions' /\ RouteTypes' /\ SubmittedAreCreated'

LEMMA RouteStepPreserves ==
    ASSUME RouteInv, RouteStep
    PROVE  RouteInv'
  <1>1. \A m : Mine(m) \subseteq Mine(m)'
    BY DEF RouteStep, EdgeStep, HubEdge, Mine, Active, Responded
  <1>2. \A s \in Sessions : pc[s] # "free" => pc'[s] # "free" /\ MemberOf(s)' = MemberOf(s)
    BY DEF RouteStep, SessionsKept, MemberOf
  <1>3. LinesAreMine'
    <2> SUFFICES ASSUME NEW m \in Members PROVE inbound'[m] \in Seq(Mine(m)')
      BY DEF LinesAreMine
    <2>1. inbound[m] \in Seq(Mine(m)')
      BY <1>1, SeqGrows DEF RouteInv, LinesAreMine
    <2>2. CASE inbound'[m] = inbound[m]
      BY <2>1, <2>2
    <2>3. ASSUME NEW q \in Queries, inbound'[m] = Append(inbound[m], q),
                 Target[q] = m, status'[q] # "absent"
          PROVE  inbound'[m] \in Seq(Mine(m)')
      <3>1. q \in Mine(m)'
        BY <2>3 DEF Mine
      <3> HIDE DEF Mine
      <3>2. QED
        BY <2>1, <2>3, <3>1
    <2>4. QED
      BY <2>2, <2>3 DEF RouteStep, LineStep
  <1>4. DrainsAreMine'
    <2> SUFFICES ASSUME NEW s \in Sessions
                 PROVE  /\ pc'[s] # "free" => todo'[s] \in Seq(Mine(MemberOf(s))')
                        /\ pc'[s] = "free" => todo'[s] = <<>>
                        /\ task'[s] \in {"drain", "mark"} => todo'[s] # <<>>
      BY DEF DrainsAreMine
    <2>0. /\ pc[s] # "free" => todo[s] \in Seq(Mine(MemberOf(s)))
          /\ pc[s] = "free" => todo[s] = <<>>
          /\ task[s] \in {"drain", "mark"} => todo[s] # <<>>
      BY DEF RouteInv, DrainsAreMine
    <2>1. <<>> \in Seq(Mine(MemberOf(s))')
      OBVIOUS
    <2>2. pc[s] # "free" => Mine(MemberOf(s)) \subseteq Mine(MemberOf(s))'
      BY <1>1, <1>2 DEF Mine
    <2>3. CASE /\ todo'[s] = todo[s]
               /\ task'[s] \in {"drain", "mark"} => task[s] \in {"drain", "mark"}
      BY <1>2, <2>0, <2>1, <2>2, <2>3, SeqGrows
    <2>4. CASE /\ todo'[s] \in Seq(Mine(MemberOf(s)))
               /\ pc[s] # "free"
               /\ task'[s] \in {"drain", "mark"} => todo'[s] # <<>>
      BY <1>2, <2>2, <2>4, SeqGrows
    <2>5. CASE todo'[s] = <<>> /\ task'[s] = "idle"
      BY <2>1, <2>5
    <2>6. QED
      BY <2>3, <2>4, <2>5 DEF RouteStep, DrainStep
  <1>5. ChoicesAreMine'
    <2> SUFFICES ASSUME NEW q \in Queries
                 PROVE  /\ chosen'[q] # NoSession =>
                              pc'[chosen'[q]] # "free" /\ MemberOf(chosen[q])' = Target[q]
                        /\ submit'[q] = "selected" => chosen'[q] # NoSession
      BY DEF ChoicesAreMine
    <2>0. /\ chosen[q] \in Sessions \cup {NoSession} /\ NoSession \notin Sessions
          /\ chosen[q] # NoSession => pc[chosen[q]] # "free" /\ MemberOf(chosen[q]) = Target[q]
          /\ submit[q] = "selected" => chosen[q] # NoSession
          /\ table \subseteq Sessions /\ \A s \in table : pc[s] # "free"
      BY DispatchAssumption DEF RouteInv, RouteTypes, ChoicesAreMine, LiveSessions, SessionsTypeOK
    <2>1. ASSUME NEW s \in Sessions, pc[s] # "free", MemberOf(s) = Target[q]
          PROVE  pc'[s] # "free" /\ Owner[machine'[s]] = Target[q]
      BY <1>2, <2>1 DEF MemberOf
    <2>2. CASE /\ chosen'[q] = chosen[q]
               /\ submit'[q] = "selected" => submit[q] = "selected" \/ chosen[q] # NoSession
      BY <2>0, <2>1, <2>2 DEF MemberOf
    <2>3. CASE chosen'[q] \in SessionsOf(Target[q])
      BY <2>0, <2>1, <2>3 DEF MemberOf, SessionsOf
    <2>4. CASE chosen'[q] = NoSession /\ submit'[q] # "selected"
      BY <2>4
    <2>5. QED
      BY <2>2, <2>3, <2>4 DEF RouteStep, ChoiceStep
  <1>6. FramesAreMine'
    <2> SUFFICES ASSUME NEW s \in Sessions, NEW q \in Queries, OnWire(s, q)'
                 PROVE  pc'[s] # "free" /\ q \in Mine(MemberOf(s))'
      BY DEF FramesAreMine
    <2>1. pc[s] # "free" /\ q \in Mine(MemberOf(s))
      BY DEF RouteStep, FrameStep, RouteInv, FramesAreMine
    <2>2. QED
      BY <1>1, <1>2, <2>1 DEF Mine
  <1>7. QED
    BY <1>3, <1>4, <1>5, <1>6 DEF RouteInv, RouteStep

----------------------------------------------------------------------------
(* Every action takes such a step.                                          *)

LEMMA CheckedEdges ==
    ASSUME ChannelTypes, NEW S, NEW q \in Queries
    PROVE  \/ Checked(S)[q] = status[q]
           \/ status[q] \in Active /\ Checked(S)[q] = "expired"
  BY DEF ChannelTypes, Checked, ExpireIf

LEMMA SessionsStay ==
    ASSUME LiveSessions, UNCHANGED sessionVars
    PROVE  LiveSessions' /\ SessionsKept
  BY DEF LiveSessions, SessionsTypeOK, Accepted, SessionsKept, sessionVars

\* The steps of the session table, the crash included, keep the member of every
\* accepted connection.
LEMMA SessionsMove ==
    ASSUME LiveSessions, NEW s \in Sessions,
           \/ \E k \in Machines : Accept(s, k)
           \/ SessionStep(s) \/ SocketDown(s) \/ HubCrash
    PROVE  LiveSessions' /\ SessionsKept
  <1> USE SessionsAssumption DEF LiveSessions
  <1>0. pc[s] # "free" => MemberOf(s) \in Members
    BY DEF Accepted, MemberOf
  <1>1. ASSUME NEW k \in Machines, Accept(s, k)
        PROVE  LiveSessions' /\ SessionsKept
    BY <1>1 DEF Accept, SessionsTypeOK, Accepted, SessionsKept, Locations
  <1>2. CASE MarkOnline(s)
    BY <1>0, <1>2 DEF MarkOnline, SessionsTypeOK, Accepted, SessionsKept, Locations
  <1>3. CASE Hello(s)
    BY <1>0, <1>3 DEF Hello, SessionsTypeOK, Accepted, SessionsKept, Locations
  <1>4. CASE Unregister(s)
    BY <1>4 DEF Unregister, SessionsTypeOK, Accepted, SessionsKept, Locations
  <1>5. CASE Reconcile(s)
    BY <1>5 DEF Reconcile, SessionsTypeOK, Accepted, SessionsKept, Locations
  <1>6. CASE MarkOffline(s)
    BY <1>0, <1>6 DEF MarkOffline, SessionsTypeOK, Accepted, SessionsKept, Locations
  <1>7. CASE SocketDown(s)
    BY <1>7 DEF SocketDown, SessionsTypeOK, Accepted, SessionsKept
  <1>8. CASE HubCrash
    BY <1>8 DEF HubCrash, SessionsTypeOK, Accepted, SessionsKept, Locations
  <1>9. QED
    BY <1>1, <1>2, <1>3, <1>4, <1>5, <1>6, <1>7, <1>8 DEF SessionStep

\* A handler or a notifier that sends no frame and drains nothing.
LEMMA HandlerStep ==
    ASSUME RouteInv, UNCHANGED <<sessionVars, inbound, todo, wireVars>>,
           EdgeStep, ChoiceStep, SubmittedAreCreated',
           \A s \in Sessions : task'[s] \in {"drain", "mark"} => task[s] \in {"drain", "mark"},
           answered' \in [Queries -> BOOLEAN], stale' \in [Queries -> BOOLEAN],
           chosen' \in [Queries -> Sessions \cup {NoSession}],
           replied' \subseteq Feishu, sweepList' \subseteq Queries
    PROVE  RouteStep
  <1>1. LiveSessions' /\ SessionsKept
    BY SessionsStay DEF RouteInv
  <1>2. LineStep /\ DrainStep /\ FrameStep
    BY DEF LineStep, DrainStep, FrameStep, OnWire, wireVars
  <1>3. RouteTypes'
    BY DEF RouteInv, RouteTypes, wireVars
  <1>4. QED
    BY <1>1, <1>2, <1>3 DEF RouteStep

\* A connection, a daemon or the network that leaves the queries alone.
LEMMA WireStep ==
    ASSUME RouteInv, UNCHANGED <<storeVars, handlerVars, loopVars>>,
           LiveSessions', SessionsKept, FrameStep,
           probes' \in [Sessions -> [Queries -> Nat]],
           replies' \in [Sessions -> [Queries -> Nat]],
           cancels' \in [Sessions -> SUBSET Queries], stopping' \subseteq Sessions
    PROVE  RouteStep
  <1>1. LineStep /\ DrainStep /\ ChoiceStep /\ EdgeStep
    BY DEF LineStep, DrainStep, ChoiceStep, EdgeStep, HubEdge, storeVars, handlerVars, loopVars
  <1>2. RouteTypes' /\ SubmittedAreCreated'
    BY DEF RouteInv, RouteTypes, SubmittedAreCreated, storeVars, handlerVars, loopVars
  <1>3. QED
    BY <1>1, <1>2 DEF RouteStep

LEMMA RequestFrame ==
    ASSUME RouteInv, NEW s \in Sessions, NEW q \in Queries, SendRequest(s, q),
           UNCHANGED <<replies, cancels>>, pc[s] # "free", q \in Mine(MemberOf(s))
    PROVE  FrameStep /\ probes' \in [Sessions -> [Queries -> Nat]]
  <1>1. probes \in [Sessions -> [Queries -> Nat]]
    BY DEF RouteInv, RouteTypes
  <1>2. probes' \in [Sessions -> [Queries -> Nat]]
    BY <1>1 DEF SendRequest
  <1>3. \A t \in Sessions, r \in Queries : (t # s \/ r # q) => probes'[t][r] = probes[t][r]
    BY <1>1 DEF SendRequest
  <1>4. FrameStep
    BY <1>3 DEF FrameStep, OnWire
  <1>5. QED
    BY <1>2, <1>4

LEMMA SubmitRoutes ==
    ASSUME ChannelInv, RouteInv, NEW q \in Queries,
           SubmitRuns(q) \/ CreateQuery(q) \/ SubmitHangUp(q)
    PROVE  RouteStep
  <1>0. /\ ChannelTypes /\ LiveSessions /\ RouteTypes /\ SubmittedAreCreated /\ ChoicesAreMine
        /\ NoSession \notin Sessions /\ Target \in [Queries -> Members]
    BY DispatchAssumption DEF ChannelInv, RouteInv
  <1>1. CASE CreateQuery(q)
    <2>1. LiveSessions' /\ SessionsKept
      BY <1>0, <1>1, SessionsStay DEF CreateQuery
    <2>2. status[q] = "absent" /\ EdgeStep /\ SubmittedAreCreated'
      BY <1>0, <1>1 DEF CreateQuery, EdgeStep, HubEdge, SubmittedAreCreated, ChannelTypes
    <2>3. LineStep
      BY <1>0, <1>1 DEF CreateQuery, LineStep, ChannelTypes, RouteTypes
    <2>4. DrainStep /\ ChoiceStep /\ FrameStep
      BY <1>0, <1>1 DEF CreateQuery, DrainStep, ChoiceStep, FrameStep, OnWire, loopVars, wireVars,
                        ChannelTypes
    <2>5. inbound' \in [Members -> Seq(Queries)]
      BY <1>0, <1>1 DEF CreateQuery, RouteTypes
    <2>6. RouteTypes'
      BY <1>0, <1>1, <2>5 DEF CreateQuery, RouteTypes, loopVars, wireVars
    <2>7. QED
      BY <2>1, <2>2, <2>3, <2>4, <2>6 DEF RouteStep
  <1>2. CASE SelectSession(q)
    <2>1. /\ chosen' \in [Queries -> Sessions \cup {NoSession}]
          /\ \A r \in Queries : r # q => chosen'[r] = chosen[r]
          /\ chosen'[q] = NoSession \/ chosen'[q] \in SessionsOf(Target[q])
      BY <1>0, <1>2 DEF SelectSession, RouteTypes, SessionsOf, LiveSessions, SessionsTypeOK
    <2>2. /\ \A r \in Queries : r # q => submit'[r] = submit[r]
          /\ submit'[q] \in {"register", "selected", "waiting", "done"}
          /\ chosen'[q] = NoSession => submit'[q] # "selected"
      BY <1>0, <1>2 DEF SelectSession, ChannelTypes, ToDispatch, AfterDispatch
    <2>3. ChoiceStep
      BY <2>1, <2>2 DEF ChoiceStep
    <2>4. EdgeStep /\ SubmittedAreCreated'
      BY <1>0, <1>2, <2>2 DEF SelectSession, EdgeStep, HubEdge, SubmittedAreCreated, storeVars
    <2>5. QED
      BY <1>0, <1>2, <2>1, <2>3, <2>4, HandlerStep
         DEF SelectSession, RouteTypes, storeVars, loopVars
  <1>3. CASE SubmitRegister(q)
    <2>1. ChoiceStep
      BY <1>0, <1>3 DEF SubmitRegister, ToDispatch, AfterDispatch, ChoiceStep, ChannelTypes
    <2>2. EdgeStep /\ SubmittedAreCreated'
      BY <1>0, <1>3 DEF SubmitRegister, ToDispatch, AfterDispatch, EdgeStep, HubEdge,
                        SubmittedAreCreated, ChannelTypes, storeVars
    <2>3. QED
      BY <1>0, <1>3, <2>1, <2>2, HandlerStep DEF SubmitRegister, RouteTypes, storeVars, loopVars
  <1>4. CASE SubmitSend(q)
    <2>1. LiveSessions' /\ SessionsKept
      BY <1>0, <1>4, SessionsStay DEF SubmitSend
    <2>2. EdgeStep /\ SubmittedAreCreated'
      BY <1>0, <1>4 DEF SubmitSend, EdgeStep, HubEdge, SubmittedAreCreated, ChannelTypes, storeVars
    <2>3. LineStep /\ DrainStep /\ ChoiceStep
      BY <1>0, <1>4 DEF SubmitSend, LineStep, DrainStep, ChoiceStep, ChannelTypes, storeVars, loopVars
    <2>4. /\ chosen[q] \in Sessions /\ pc[chosen[q]] # "free"
          /\ q \in Mine(MemberOf(chosen[q]))
      BY <1>0, <1>4 DEF SubmitSend, ChoicesAreMine, RouteTypes, SubmittedAreCreated, Mine
    <2>5. FrameStep /\ probes' \in [Sessions -> [Queries -> Nat]]
      BY <1>4, <2>4, RequestFrame DEF SubmitSend
    <2>6. RouteTypes'
      BY <1>0, <1>4, <2>5 DEF SubmitSend, RouteTypes, storeVars, loopVars
    <2>7. QED
      BY <2>1, <2>2, <2>3, <2>5, <2>6 DEF RouteStep
  <1>5. CASE SubmitMark(q)
    <2>1. ChoiceStep /\ chosen' \in [Queries -> Sessions \cup {NoSession}]
      BY <1>0, <1>5 DEF SubmitMark, AfterDispatch, ChoiceStep, ChannelTypes, RouteTypes
    <2>2. EdgeStep /\ SubmittedAreCreated'
      BY <1>0, <1>5 DEF SubmitMark, AfterDispatch, EdgeStep, HubEdge, SubmittedAreCreated,
                        ChannelTypes
    <2>3. QED
      BY <1>0, <1>5, <2>1, <2>2, HandlerStep DEF SubmitMark, RouteTypes, loopVars
  <1>6. CASE SubmitWoken(q)
    BY <1>0, <1>6, HandlerStep DEF SubmitWoken, ChoiceStep, EdgeStep, HubEdge,
       SubmittedAreCreated, ChannelTypes, RouteTypes, storeVars, loopVars
  <1>7. CASE SubmitTimeout(q)
    BY <1>0, <1>7, HandlerStep DEF SubmitTimeout, ChoiceStep, EdgeStep, HubEdge,
       SubmittedAreCreated, ChannelTypes, RouteTypes, storeVars
  <1>8. CASE SubmitHangUp(q)
    <2>1. PICK l \in {"cancelling", "done"} : submit' = [submit EXCEPT ![q] = l]
      BY <1>8 DEF SubmitHangUp
    <2>2. ChoiceStep /\ EdgeStep /\ SubmittedAreCreated'
      BY <1>0, <1>8, <2>1 DEF SubmitHangUp, ChoiceStep, EdgeStep, HubEdge, SubmittedAreCreated,
                              ChannelTypes, storeVars
    <2>3. QED
      BY <1>0, <1>8, <2>2, HandlerStep DEF SubmitHangUp, RouteTypes, storeVars
  <1>9. CASE CancelDispatched(q)
    <2>1. LiveSessions' /\ SessionsKept
      BY <1>0, <1>9, SessionsStay DEF CancelDispatched
    <2>2. \A r \in Queries : status'[r] = status[r] \/ (status[r] \in Active /\ status'[r] = "expired")
      BY <1>0, <1>9, CheckedEdges DEF CancelDispatched
    <2>3. EdgeStep /\ SubmittedAreCreated'
      BY <1>0, <1>9, <2>2 DEF CancelDispatched, EdgeStep, HubEdge, SubmittedAreCreated,
                              ChannelTypes, Active
    <2>4. LineStep /\ DrainStep /\ ChoiceStep
      BY <1>0, <1>9 DEF CancelDispatched, LineStep, DrainStep, ChoiceStep, ChannelTypes, loopVars
    <2>5. cancels' = cancels \/ \E s \in SessionsOf(Target[q]) :
              cancels' = [cancels EXCEPT ![s] = @ \cup {q}]
      BY <1>9 DEF CancelDispatched
    <2>6. \A s \in SessionsOf(Target[q]) : s \in Sessions /\ pc[s] # "free" /\ q \in Mine(MemberOf(s))
      BY <1>0, <1>9 DEF CancelDispatched, SessionsOf, LiveSessions, SessionsTypeOK, Mine,
                        SubmittedAreCreated
    <2>7. /\ cancels' \in [Sessions -> SUBSET Queries]
          /\ \A t \in Sessions, r \in Queries :
                r \in cancels'[t] => r \in cancels[t] \/ (r = q /\ t \in SessionsOf(Target[q]))
      <3>1. cancels \in [Sessions -> SUBSET Queries]
        BY <1>0 DEF RouteTypes
      <3>2. CASE cancels' = cancels
        BY <3>1, <3>2
      <3>3. ASSUME NEW s \in SessionsOf(Target[q]), cancels' = [cancels EXCEPT ![s] = @ \cup {q}]
            PROVE  /\ cancels' \in [Sessions -> SUBSET Queries]
                   /\ \A t \in Sessions, r \in Queries :
                         r \in cancels'[t] => r \in cancels[t] \/ (r = q /\ t \in SessionsOf(Target[q]))
        <4>1. s \in Sessions
          BY <2>6
        <4>2. cancels' \in [Sessions -> SUBSET Queries]
          BY <3>1, <3>3
        <4>3. \A t \in Sessions : cancels'[t] = IF t = s THEN cancels[t] \cup {q} ELSE cancels[t]
          BY <3>1, <3>3
        <4>4. QED
          BY <4>2, <4>3
      <3>4. QED
        BY <2>5, <3>2, <3>3
    <2>8. UNCHANGED <<probes, replies, stopping, answered, stale, inbound, chosen, replied,
                      todo, sweepList>>
      BY <1>9 DEF CancelDispatched, loopVars
    <2>9. FrameStep
      BY <2>6, <2>7, <2>8 DEF FrameStep, OnWire
    <2>10. RouteTypes'
      BY <1>0, <2>7, <2>8 DEF RouteTypes
    <2>11. QED
      BY <2>1, <2>3, <2>4, <2>9, <2>10 DEF RouteStep
  <1>10. QED
    BY <1>1, <1>2, <1>3, <1>4, <1>5, <1>6, <1>7, <1>8, <1>9 DEF SubmitRuns

LEMMA PollRoutes ==
    ASSUME ChannelInv, RouteInv, NEW q \in Queries, PollRuns(q) \/ PollRead(q) \/ TTLPasses(q)
    PROVE  RouteStep
  <1>0. ChannelTypes /\ RouteTypes /\ SubmittedAreCreated
    BY DEF ChannelInv, RouteInv
  <1>1. CASE PollRead(q)
    <2>1. EdgeStep /\ SubmittedAreCreated'
      BY <1>0, <1>1, CheckedEdges DEF PollRead, EdgeStep, HubEdge, SubmittedAreCreated, Active
    <2>2. QED
      BY <1>0, <1>1, <2>1, HandlerStep DEF PollRead, ChoiceStep, RouteTypes, loopVars
  <1>2. CASE PollRegister(q) \/ PollWoken(q)
    BY <1>0, <1>2, HandlerStep DEF PollRegister, PollWoken, ChoiceStep, EdgeStep, HubEdge,
       SubmittedAreCreated, RouteTypes, storeVars, loopVars
  <1>3. ASSUME NEW rereads \in BOOLEAN, PollEnds(q, rereads)
        PROVE  RouteStep
    <2>1. EdgeStep /\ SubmittedAreCreated'
      BY <1>0, <1>3, CheckedEdges DEF PollEnds, EdgeStep, HubEdge, SubmittedAreCreated, Active
    <2>2. QED
      BY <1>0, <1>3, <2>1, HandlerStep DEF PollEnds, ChoiceStep, RouteTypes
  <1>4. CASE TTLPasses(q)
    <2>1. stale' \in [Queries -> BOOLEAN]
      BY <1>0, <1>4 DEF TTLPasses, RouteTypes
    <2>2. QED
      BY <1>0, <1>4, <2>1, HandlerStep DEF TTLPasses, ChoiceStep, EdgeStep, HubEdge,
         SubmittedAreCreated, RouteTypes, handlerVars, loopVars
  <1>5. QED
    BY <1>1, <1>2, <1>3, <1>4 DEF PollRuns

LEMMA DrainListIsMine ==
    ASSUME RouteInv, NEW m \in Members
    PROVE  DrainList(m) \in Seq(Mine(m))
  <1> DEFINE line == QueuedFor(m)
  <1>1. inbound[m] \in Seq(Mine(m)) /\ MaxConcurrency \in Nat \ {0}
    BY DispatchAssumption DEF RouteInv, LinesAreMine
  <1>2. line \in Seq(Mine(m))
    BY <1>1, KeptFacts DEF QueuedFor, KeptOf
  <1> HIDE DEF line
  <1> DEFINE n == IF Len(line) < MaxConcurrency THEN Len(line) ELSE MaxConcurrency
  <1>3. n \in 0 .. Len(line)
    BY <1>1, <1>2
  <1> HIDE DEF n
  <1>4. SubSeq(line, 1, n) \in Seq(Mine(m))
    BY <1>2, <1>3
  <1>5. QED
    BY <1>4 DEF DrainList, line, n

LEMMA NotifierRoutes ==
    ASSUME ChannelInv, RouteInv, NEW n \in Notifiers, NEW q \in Queries,
           TakeWaiters(n, q) \/ Deliver(n, q)
    PROVE  RouteStep
  <1>0. ChannelTypes /\ RouteTypes /\ SubmittedAreCreated
    BY DEF ChannelInv, RouteInv
  <1>1. \A s \in Sessions : task'[s] \in {"drain", "mark"} => task[s] \in {"drain", "mark"}
    BY <1>0 DEF TakeWaiters, Deliver, ChannelTypes, Notifiers
  <1>2. EdgeStep /\ SubmittedAreCreated'
    BY <1>0, CheckedEdges DEF TakeWaiters, Deliver, EdgeStep, HubEdge, SubmittedAreCreated, Active,
                              storeVars
  <1>3. replied' \subseteq Feishu
    BY <1>0 DEF TakeWaiters, Deliver, RouteTypes
  <1>4. QED
    BY <1>0, <1>1, <1>2, <1>3, HandlerStep DEF TakeWaiters, Deliver, ChoiceStep, RouteTypes, storeVars

LEMMA LoopRoutes ==
    ASSUME ChannelInv, RouteInv, NEW s \in Sessions, LoopRuns(s)
    PROVE  RouteStep
  <1>0. /\ ChannelTypes /\ LiveSessions /\ RouteTypes /\ SubmittedAreCreated
        /\ s \in Notifiers
        /\ pc[s] # "free" => MemberOf(s) \in Members
    BY SessionsAssumption DEF ChannelInv, RouteInv, Notifiers, LiveSessions, Accepted, MemberOf
  <1>1. CASE PresenceStep(s)
    <2>1. LiveSessions' /\ SessionsKept
      BY <1>0, <1>1, SessionsMove DEF PresenceStep, SessionStep
    <2>2. QED
      BY <1>0, <1>1, <2>1, WireStep DEF PresenceStep, FrameStep, OnWire, RouteTypes, wireVars
  <1>2. CASE HandleHello(s)
    <2>1. LiveSessions' /\ SessionsKept /\ pc[s] # "free"
      BY <1>0, <1>2, SessionsMove DEF HandleHello, SessionStep, Hello
    <2>2. EdgeStep /\ SubmittedAreCreated'
      BY <1>0, <1>2, CheckedEdges DEF HandleHello, EdgeStep, HubEdge, SubmittedAreCreated, Active,
                                      handlerVars
    <2> DEFINE list == DrainList(MemberOf(s))
    <2>3. list \in Seq(Mine(MemberOf(s)))
      BY <1>0, <2>1, DrainListIsMine
    <2>4. list \in Seq(Queries)
      BY <2>3, SeqGrows DEF Mine
    <2>5. /\ todo' = [todo EXCEPT ![s] = list]
          /\ task' = [task EXCEPT ![s] = IF list = <<>> THEN "idle" ELSE "drain"]
          /\ UNCHANGED <<answered, stale, inbound, sweepList, handlerVars, wireVars>>
      BY <1>2 DEF HandleHello
    <2> HIDE DEF list
    <2>6. DrainStep
      BY <1>0, <2>1, <2>3, <2>5 DEF DrainStep, RouteTypes, ChannelTypes
    <2>7. LineStep /\ ChoiceStep /\ FrameStep
      BY <2>5 DEF LineStep, ChoiceStep, FrameStep, OnWire, handlerVars, wireVars
    <2>8. RouteTypes'
      BY <1>0, <2>4, <2>5 DEF RouteTypes, handlerVars, wireVars
    <2>9. QED
      BY <2>1, <2>2, <2>6, <2>7, <2>8 DEF RouteStep
  <1>3. CASE DrainSend(s) \/ DrainMark(s)
    <2>1. LiveSessions' /\ SessionsKept
      BY <1>0, <1>3, SessionsStay DEF DrainSend, DrainMark
    <2>2. todo[s] # <<>> /\ pc[s] # "free" /\ todo[s] \in Seq(Mine(MemberOf(s)))
      BY <1>3 DEF DrainSend, DrainMark, RouteInv, DrainsAreMine
    <2>3. Head(todo[s]) \in Mine(MemberOf(s)) /\ Tail(todo[s]) \in Seq(Mine(MemberOf(s)))
      BY <2>2
    <2>4. /\ Head(todo[s]) \in Queries /\ status[Head(todo[s])] # "absent"
          /\ Tail(todo[s]) \in Seq(Queries)
      BY <2>3, SeqGrows DEF Mine
    <2>5. CASE DrainSend(s)
      <3>1. EdgeStep /\ SubmittedAreCreated' /\ LineStep /\ ChoiceStep
        BY <1>0, <2>5 DEF DrainSend, EdgeStep, HubEdge, SubmittedAreCreated, LineStep, ChoiceStep,
                          storeVars, handlerVars
      <3>2. DrainStep
        BY <1>0, <2>2, <2>5 DEF DrainSend, DrainStep, ChannelTypes
      <3>3. FrameStep /\ probes' \in [Sessions -> [Queries -> Nat]]
        BY <2>2, <2>3, <2>4, <2>5, RequestFrame DEF DrainSend
      <3>4. RouteTypes'
        BY <1>0, <2>5, <3>3 DEF DrainSend, RouteTypes, storeVars, handlerVars
      <3>5. QED
        BY <2>1, <3>1, <3>2, <3>3, <3>4 DEF RouteStep
    <2>6. CASE DrainMark(s)
      <3>1. EdgeStep /\ SubmittedAreCreated'
        BY <1>0, <2>4, <2>6 DEF DrainMark, EdgeStep, HubEdge, SubmittedAreCreated, ChannelTypes,
                                handlerVars
      <3>2. LineStep /\ ChoiceStep /\ FrameStep
        BY <2>6 DEF DrainMark, LineStep, ChoiceStep, FrameStep, OnWire, handlerVars, wireVars
      <3>3. DrainStep
        <4>1. /\ todo'[s] = Tail(todo[s])
              /\ task'[s] = IF Tail(todo[s]) = <<>> THEN "idle" ELSE "drain"
          BY <1>0, <2>6 DEF DrainMark, ChannelTypes, RouteTypes, Notifiers
        <4>2. \A t \in Sessions \ {s} : todo'[t] = todo[t] /\ task'[t] = task[t]
          BY <1>0, <2>6 DEF DrainMark, ChannelTypes, RouteTypes, Notifiers
        <4>3. todo'[s] \in Seq(Mine(MemberOf(s))) /\ (task'[s] = "drain" => todo'[s] # <<>>)
              /\ task'[s] # "mark"
          BY <2>3, <4>1
        <4>4. QED
          BY <2>2, <4>2, <4>3 DEF DrainStep
      <3>4. RouteTypes'
        BY <1>0, <2>4, <2>6 DEF DrainMark, RouteTypes, handlerVars, wireVars
      <3>5. QED
        BY <2>1, <3>1, <3>2, <3>3, <3>4 DEF RouteStep
    <2>7. QED
      BY <1>3, <2>5, <2>6
  <1>4. ASSUME NEW q \in Queries, NEW st \in Outcomes, HandleResponse(s, q, st)
        PROVE  RouteStep
    <2>1. LiveSessions' /\ SessionsKept
      BY <1>0, <1>4, SessionsStay DEF HandleResponse
    <2>2. Normalised(st) \in Responded /\ status[q] # "absent"
      BY <1>4, DispatchAssumption
         DEF HandleResponse, Normalised, Responded, RouteInv, FramesAreMine, OnWire, Mine
    <2>3. /\ replies' \in [Sessions -> [Queries -> Nat]]
          /\ \A t \in Sessions, r \in Queries : replies'[t][r] > 0 => replies[t][r] > 0
      BY <1>0, <1>4 DEF HandleResponse, RouteTypes
    <2>4. /\ answered' \in [Queries -> BOOLEAN]
          /\ \A r \in Queries : r # q => answered'[r] = answered[r]
          /\ answered[q] => answered'[q]
      BY <1>0, <1>4 DEF HandleResponse, RouteTypes
    <2>5. /\ status' = [status EXCEPT ![q] = Normalised(st)]
          /\ \A t \in Sessions : task'[t] \in {"drain", "mark"} => task[t] \in {"drain", "mark"}
          /\ UNCHANGED <<stale, inbound, todo, sweepList, probes, cancels, stopping, handlerVars>>
      BY <1>0, <1>4 DEF HandleResponse, ChannelTypes
    <2>6. EdgeStep /\ SubmittedAreCreated'
      BY <1>0, <2>2, <2>4, <2>5
         DEF EdgeStep, HubEdge, SubmittedAreCreated, ChannelTypes, Responded, handlerVars
    <2>7. LineStep /\ DrainStep /\ ChoiceStep /\ FrameStep
      BY <2>3, <2>5 DEF LineStep, DrainStep, ChoiceStep, FrameStep, OnWire, handlerVars
    <2>8. RouteTypes'
      BY <1>0, <2>3, <2>4, <2>5 DEF RouteTypes, handlerVars
    <2>9. QED
      BY <2>1, <2>6, <2>7, <2>8 DEF RouteStep
  <1>5. ASSUME NEW q \in Queries, TakeWaiters(s, q) \/ Deliver(s, q)
        PROVE  RouteStep
    BY <1>0, <1>5, NotifierRoutes
  <1>6. CASE LoseSession(s)
    <2>1. LiveSessions' /\ SessionsKept
      BY <1>0, <1>6, SessionsMove DEF LoseSession, SessionStep
    <2>2. replies' \in [Sessions -> [Queries -> Nat]] /\ FrameStep
      BY <1>0, <1>6 DEF LoseSession, FrameStep, OnWire, RouteTypes, Empty
    <2>3. QED
      BY <1>0, <1>6, <2>1, <2>2, WireStep DEF LoseSession, RouteTypes
  <1>7. CASE ReconcileInFlight(s)
    <2>1. LiveSessions' /\ SessionsKept
      BY <1>0, <1>7, SessionsMove DEF ReconcileInFlight, SessionStep
    <2>2. EdgeStep /\ SubmittedAreCreated'
      BY <1>0, <1>7 DEF ReconcileInFlight, RequeueIf, EdgeStep, HubEdge, SubmittedAreCreated, Active,
                        handlerVars
    <2>3. LineStep /\ DrainStep /\ ChoiceStep /\ FrameStep /\ RouteTypes'
      BY <1>0, <1>7 DEF ReconcileInFlight, LineStep, DrainStep, ChoiceStep, FrameStep, OnWire,
                        RouteTypes, handlerVars, loopVars, wireVars
    <2>4. QED
      BY <2>1, <2>2, <2>3 DEF RouteStep
  <1>8. QED
    BY <1>1, <1>2, <1>3, <1>4, <1>5, <1>6, <1>7 DEF LoopRuns

LEMMA SweeperRoutes ==
    ASSUME ChannelInv, RouteInv, SweeperRuns
    PROVE  RouteStep
  <1>0. /\ ChannelTypes /\ RouteTypes /\ SubmittedAreCreated
        /\ Sweeper \in Notifiers /\ Sweeper \notin Sessions
    BY DispatchAssumption DEF ChannelInv, RouteInv, Notifiers
  <1>1. ASSUME SweepTick \/ \E q \in Queries : SweepLook(q)
        PROVE  RouteStep
    <2>1. EdgeStep /\ SubmittedAreCreated'
      <3>1. (\E S : status' = Checked(S)) /\ UNCHANGED <<answered, submit>>
        BY <1>1 DEF SweepTick, SweepLook, handlerVars
      <3>2. \A q \in Queries :
              status'[q] = status[q] \/ (status[q] \in Active /\ status'[q] = "expired")
        BY <1>0, <3>1, CheckedEdges
      <3>3. QED
        BY <1>0, <3>1, <3>2 DEF EdgeStep, HubEdge, SubmittedAreCreated, Active
    <2>2. \A s \in Sessions : task'[s] \in {"drain", "mark"} => task[s] \in {"drain", "mark"}
      BY <1>0, <1>1 DEF SweepTick, SweepLook, ChannelTypes, Notifiers
    <2>3. sweepList' \subseteq Queries
      BY <1>0, <1>1 DEF SweepTick, SweepLook, RouteTypes
    <2>4. QED
      BY <1>0, <1>1, <2>1, <2>2, <2>3, HandlerStep
         DEF SweepTick, SweepLook, ChoiceStep, RouteTypes, handlerVars
  <1>2. ASSUME NEW q \in Queries, TakeWaiters(Sweeper, q) \/ Deliver(Sweeper, q)
        PROVE  RouteStep
    BY <1>0, <1>2, NotifierRoutes
  <1>3. QED
    BY <1>1, <1>2 DEF SweeperRuns

LEMMA DaemonRoutes ==
    ASSUME ChannelInv, RouteInv, NEW s \in Sessions,
           \/ \E k \in Machines : Connect(s, k)
           \/ DaemonStop(s) \/ Disconnect(s)
           \/ \E q \in Queries : DaemonRespond(s, q) \/ DaemonCancel(s, q) \/ DaemonDecline(s, q)
    PROVE  RouteStep
  <1>0. /\ ChannelTypes /\ LiveSessions /\ RouteTypes
        /\ probes \in [Sessions -> [Queries -> Nat]] /\ replies \in [Sessions -> [Queries -> Nat]]
        /\ cancels \in [Sessions -> SUBSET Queries] /\ stopping \subseteq Sessions
    BY DEF ChannelInv, RouteInv, RouteTypes
  <1>1. ASSUME NEW k \in Machines, Connect(s, k)
        PROVE  RouteStep
    <2>1. LiveSessions' /\ SessionsKept
      BY <1>0, <1>1, SessionsMove DEF Connect
    <2>2. /\ probes' \in [Sessions -> [Queries -> Nat]] /\ replies' \in [Sessions -> [Queries -> Nat]]
          /\ cancels' \in [Sessions -> SUBSET Queries] /\ stopping' \subseteq Sessions
      BY <1>0, <1>1 DEF Connect, Empty
    <2>3. FrameStep
      BY <1>0, <1>1 DEF Connect, Empty, FrameStep, OnWire
    <2>4. QED
      BY <1>1, <2>1, <2>2, <2>3, WireStep DEF Connect
  <1>2. CASE DaemonStop(s)
    <2>1. LiveSessions' /\ SessionsKept
      BY <1>0, <1>2, SessionsStay DEF DaemonStop
    <2>2. QED
      BY <1>0, <1>2, <2>1, WireStep DEF DaemonStop, FrameStep, OnWire
  <1>3. CASE Disconnect(s)
    <2>1. LiveSessions' /\ SessionsKept
      BY <1>0, <1>3, SessionsMove DEF Disconnect
    <2>2. /\ probes' \in [Sessions -> [Queries -> Nat]] /\ replies' \in [Sessions -> [Queries -> Nat]]
          /\ cancels' \in [Sessions -> SUBSET Queries] /\ stopping' \subseteq Sessions
      BY <1>0, <1>3 DEF Disconnect, Empty
    <2>3. FrameStep
      BY <1>0, <1>3 DEF Disconnect, Empty, FrameStep, OnWire
    <2>4. QED
      BY <1>3, <2>1, <2>2, <2>3, WireStep DEF Disconnect
  <1>4. ASSUME NEW q \in Queries, DaemonRespond(s, q) \/ DaemonCancel(s, q) \/ DaemonDecline(s, q)
        PROVE  RouteStep
    <2>1. LiveSessions' /\ SessionsKept
      BY <1>0, <1>4, SessionsStay DEF DaemonRespond, DaemonCancel, DaemonDecline
    <2>2. OnWire(s, q) /\ pc[s] # "free" /\ q \in Mine(MemberOf(s))
      BY <1>4 DEF DaemonRespond, DaemonCancel, DaemonDecline, OnWire, RouteInv, FramesAreMine
    <2>3. /\ probes' \in [Sessions -> [Queries -> Nat]]
          /\ \A t \in Sessions, r \in Queries : (t # s \/ r # q) => probes'[t][r] = probes[t][r]
      <3>1. CASE probes' = probes
        BY <1>0, <3>1
      <3>2. CASE probes[s][q] > 0 /\ probes' = [probes EXCEPT ![s][q] = @ - 1]
        BY <1>0, <3>2
      <3>3. QED
        BY <1>4, <3>1, <3>2 DEF DaemonRespond, DaemonCancel, DaemonDecline
    <2>4. /\ replies' \in [Sessions -> [Queries -> Nat]]
          /\ \A t \in Sessions, r \in Queries : (t # s \/ r # q) => replies'[t][r] = replies[t][r]
      <3>1. CASE replies' = replies
        BY <1>0, <3>1
      <3>2. CASE replies' = [replies EXCEPT ![s][q] = @ + 1]
        BY <1>0, <3>2
      <3>3. QED
        BY <1>4, <3>1, <3>2 DEF DaemonRespond, DaemonCancel, DaemonDecline
    <2>5. /\ cancels' \in [Sessions -> SUBSET Queries]
          /\ \A t \in Sessions, r \in Queries : r \in cancels'[t] => r \in cancels[t]
      <3>1. CASE cancels' = cancels
        BY <1>0, <3>1
      <3>2. CASE cancels' = [cancels EXCEPT ![s] = @ \ {q}]
        BY <1>0, <3>2
      <3>3. QED
        BY <1>4, <3>1, <3>2 DEF DaemonRespond, DaemonCancel, DaemonDecline
    <2>6. FrameStep
      BY <2>2, <2>3, <2>4, <2>5 DEF FrameStep, OnWire
    <2>7. UNCHANGED <<stopping, storeVars, handlerVars, loopVars>>
      BY <1>4 DEF DaemonRespond, DaemonCancel, DaemonDecline
    <2>8. QED
      BY <1>0, <2>1, <2>3, <2>4, <2>5, <2>6, <2>7, WireStep
  <1>5. QED
    BY <1>1, <1>2, <1>3, <1>4

LEMMA CrashRoutes ==
    ASSUME ChannelInv, RouteInv, Crash
    PROVE  RouteStep
  <1>0. ChannelTypes /\ LiveSessions /\ RouteTypes /\ SubmittedAreCreated
    BY DEF ChannelInv, RouteInv
  <1>1. LiveSessions' /\ SessionsKept
    BY <1>0 DEF Crash, HubCrash, LiveSessions, SessionsTypeOK, Accepted, SessionsKept, Locations
  <1>2. EdgeStep /\ SubmittedAreCreated' /\ LineStep
    BY <1>0 DEF Crash, EdgeStep, HubEdge, SubmittedAreCreated, LineStep, storeVars
  <1>3. DrainStep /\ ChoiceStep /\ FrameStep
    BY DEF Crash, DrainStep, ChoiceStep, FrameStep, OnWire, Empty, Notifiers
  <1>4. RouteTypes'
    BY <1>0 DEF Crash, RouteTypes, Empty, storeVars
  <1>5. QED
    BY <1>1, <1>2, <1>3, <1>4 DEF RouteStep

LEMMA EveryStepRoutes ==
    ASSUME ChannelInv, RouteInv, [Next \/ Crash]_vars
    PROVE  RouteStep
  <1>1. CASE Next
    <2>1. CASE \E q \in Queries : SubmitRuns(q) \/ PollRuns(q)
      BY <2>1, SubmitRoutes, PollRoutes
    <2>2. CASE \E s \in Sessions : LoopRuns(s)
      BY <2>2, LoopRoutes
    <2>3. CASE SweeperRuns
      BY <2>3, SweeperRoutes
    <2>4. CASE Outside
      BY <2>4, SubmitRoutes, PollRoutes, DaemonRoutes DEF Outside
    <2>5. QED
      BY <1>1, <2>1, <2>2, <2>3, <2>4 DEF Next
  <1>2. CASE Crash
    BY <1>2, CrashRoutes
  <1>3. CASE UNCHANGED vars
    <2>1. LiveSessions' /\ SessionsKept
      BY <1>3, SessionsStay DEF vars, RouteInv
    <2>2. QED
      BY <1>3, <2>1, WireStep DEF vars, wireVars, FrameStep, OnWire, RouteInv, RouteTypes
  <1>4. QED
    BY <1>1, <1>2, <1>3

\* Every frame that the Hub or a daemon has in flight is of a query of that
\* daemon's member, for any number of members, machines, connections and
\* queries: neither a takeover between the selection of a session and the
\* send, nor a drain of an inbound list, nor a crash routes a question or a
\* cancellation to somebody else's daemon.
THEOREM FramesHold == CrashSpec => []FramesAreRouted
  <1>1. ChannelInv /\ RouteInv => FramesAreRouted
    <2> SUFFICES ASSUME ChannelInv, RouteInv PROVE FramesAreRouted
      OBVIOUS
    <2>1. DispatchTypeOK
      BY DEF ChannelInv, ChannelTypes, RouteInv, RouteTypes, DispatchTypeOK
    <2>2. RoutedToTarget
      BY DEF RouteInv, FramesAreMine, OnWire, Mine, RoutedToTarget
    <2>3. QED
      BY <2>1, <2>2 DEF FramesAreRouted
  <1>2. ChannelInv /\ RouteInv /\ [Next \/ Crash]_vars => RouteInv'
    BY EveryStepRoutes, RouteStepPreserves
  <1>3. QED
    BY <1>1, <1>2, ChannelsInvariant, RouteInit, PTL DEF CrashSpec

\* The Hub, with its handlers, read loops, sweeper and crashes, implements the
\* abstract life cycle of a query: no interleaving of late marks, requeues,
\* expiries and responses moves a query that was never created, takes an answer
\* away or leaves the edges of QueryLifecycle.
THEOREM HubImplementsLifecycle == CrashSpec => ImplementsLifecycle
  <1>1. Init => Lifecycle!Init
    BY DEF Init, Lifecycle!Init
  <1>2. ASSUME ChannelInv, ChannelInv', RouteInv, [Next \/ Crash]_vars
        PROVE  [Lifecycle!Next]_(Lifecycle!vars)
    <2>1. EdgeStep /\ RouteInv'
      BY <1>2, EveryStepRoutes, RouteStepPreserves DEF RouteStep
    <2>2. /\ status \in [Queries -> Status] /\ status' \in [Queries -> Status]
          /\ answered \in [Queries -> BOOLEAN] /\ answered' \in [Queries -> BOOLEAN]
      BY <1>2, <2>1 DEF ChannelInv, ChannelTypes, RouteInv, RouteTypes
    <2>3. ASSUME NEW q \in Queries
          PROVE  Lifecycle!Move(q)
      <3>1. HubEdge(q)
        BY <2>1 DEF EdgeStep
      <3>2. QED
        BY <2>2, <3>1 DEF HubEdge, Lifecycle!Move, Lifecycle!Stay, Lifecycle!Create,
                    Lifecycle!SetDispatched, Lifecycle!Requeue, Lifecycle!Expire,
                    Lifecycle!Respond, Lifecycle!Active, Lifecycle!Responded, Active, Responded
    <2>4. status' \in [Queries -> Lifecycle!Status]
      BY <2>2 DEF Status, Active, Terminal, Responded, Lifecycle!Status,
                  Lifecycle!Active, Lifecycle!Terminal, Lifecycle!Responded
    <2>5. QED
      BY <2>3, <2>4 DEF Lifecycle!Next
  <1>3. ChannelInv /\ RouteInv /\ [Next \/ Crash]_vars => RouteInv'
    BY EveryStepRoutes, RouteStepPreserves
  <1>4. QED
    BY <1>1, <1>2, <1>3, ChannelsInvariant, RouteInit, PTL
       DEF CrashSpec, ImplementsLifecycle, Lifecycle!Spec
=============================================================================
