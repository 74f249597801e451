----------------------------- MODULE HubSessions -----------------------------
(* The Hub's table of daemon connections and the presence flag it keeps in  *)
(* the Store (internal/hub/hub.go, handleWebSocket; SetMemberOnline of      *)
(* internal/store/store.go).                                                *)
(*                                                                          *)
(* Each accepted connection has a goroutine of its own: it registers the    *)
(* session under h.mu, superseding the one of the same machine, marks the   *)
(* member online, reads frames until the socket fails, and runs the         *)
(* deferred cleanup, which takes h.mu once and then, outside of it, first   *)
(* requeues the member's queries and then marks the member offline.  One    *)
(* action per critical section.  What the read loop does with queries is    *)
(* added by HubDispatch.                                                    *)
EXTENDS Naturals, FiniteSets

CONSTANTS
    Members,
    Machines,       \* (member, machine name) pairs
    Owner,          \* Owner[k]: the member whose machine k is
    Sessions,       \* session ids, each used for one connection
    NoMachine

ASSUME SessionsAssumption ==
    /\ Owner \in [Machines -> Members]
    /\ NoMachine \notin Machines

VARIABLES
    pc,             \* where the goroutine of the connection is
    machine,        \* sess.machineName (and, through Owner, sess.memberID)
    table,          \* sessionsByID and memberSessions; not in it = sess.closed
    up,             \* connections whose socket still works
    greeted,        \* connections whose daemon_hello the Hub has handled
    online          \* MemberInfo.Online

sessionVars == <<pc, machine, table, up, greeted, online>>

Locations ==
    {"free",        \* no connection yet
     "registered",  \* in the table, about to mark the member online
     "reading",     \* in the frame read loop
     "reconcile",   \* cleaned up as the last session: about to requeue
     "offline",     \* requeued: about to mark the member offline
     "gone"}        \* the handler has returned

\* The member of a connection that has been accepted.
MemberOf(s) == Owner[machine[s]]

SessionsOf(m) == {s \in table : MemberOf(s) = m}

\* The goroutine of s runs for member m.
Serves(s, m) == pc[s] \notin {"free", "gone"} /\ MemberOf(s) = m

InitSessions ==
    /\ pc = [s \in Sessions |-> "free"]
    /\ machine = [s \in Sessions |-> NoMachine]
    /\ table = {}
    /\ up = {}
    /\ greeted = {}
    /\ online = [m \in Members |-> FALSE]

----------------------------------------------------------------------------

\* A daemon on machine k connects.  A session of the same machine that is
\* still in the table is closed and removed in the same critical section.
Accept(s, k) ==
    LET superseded == {p \in table : machine[p] = k}
    IN  /\ pc[s] = "free"
        /\ pc' = [pc EXCEPT ![s] = "registered"]
        /\ machine' = [machine EXCEPT ![s] = k]
        /\ table' = (table \ superseded) \cup {s}
        /\ up' = (up \ superseded) \cup {s}
        /\ UNCHANGED <<greeted, online>>

MarkOnline(s) ==
    /\ pc[s] = "registered"
    /\ pc' = [pc EXCEPT ![s] = "reading"]
    /\ online' = [online EXCEPT ![MemberOf(s)] = TRUE]
    /\ UNCHANGED <<machine, table, up, greeted>>

\* daemon_hello, sent once per connection.
Hello(s) ==
    /\ pc[s] = "reading"
    /\ s \notin greeted
    /\ greeted' = greeted \cup {s}
    /\ online' = [online EXCEPT ![MemberOf(s)] = TRUE]
    /\ UNCHANGED <<pc, machine, table, up>>

\* The daemon dies, the network drops or either side gives up a heartbeat.
SocketDown(s) ==
    /\ s \in up
    /\ up' = up \ {s}
    /\ UNCHANGED <<pc, machine, table, greeted, online>>

\* Mutant: the sessions are counted before this one is deleted.
UnregisterCountingItself(s) ==
    /\ pc[s] = "reading"
    /\ s \notin up
    /\ table' = table \ {s}
    /\ pc' = [pc EXCEPT ![s] = IF SessionsOf(MemberOf(s)) = {} THEN "reconcile" ELSE "gone"]
    /\ UNCHANGED <<machine, up, greeted, online>>

\* The read fails: the deferred cleanup, as far as it holds h.mu.
Unregister(s) ==
    /\ pc[s] = "reading"
    /\ s \notin up
    /\ table' = table \ {s}
    /\ pc' = [pc EXCEPT ![s] =
                IF SessionsOf(MemberOf(s)) \ {s} = {} THEN "reconcile" ELSE "gone"]
    /\ UNCHANGED <<machine, up, greeted, online>>

\* Mutant: returns without marking the member offline.
ReconcileAndReturn(s) ==
    /\ pc[s] = "reconcile"
    /\ pc' = [pc EXCEPT ![s] = "gone"]
    /\ UNCHANGED <<machine, table, up, greeted, online>>

\* reconcileInFlightQueries; the queries are in HubDispatch.
Reconcile(s) ==
    /\ pc[s] = "reconcile"
    /\ pc' = [pc EXCEPT ![s] = "offline"]
    /\ UNCHANGED <<machine, table, up, greeted, online>>

MarkOffline(s) ==
    /\ pc[s] = "offline"
    /\ pc' = [pc EXCEPT ![s] = "gone"]
    /\ online' = [online EXCEPT ![MemberOf(s)] = FALSE]
    /\ UNCHANGED <<machine, table, up, greeted>>

\* The Hub process dies: every connection goes, the presence flag is in the
\* Store's log and comes back with it.
HubCrash ==
    /\ pc' = [s \in Sessions |-> IF pc[s] = "free" THEN "free" ELSE "gone"]
    /\ table' = {}
    /\ up' = {}
    /\ UNCHANGED <<machine, greeted, online>>

----------------------------------------------------------------------------
SessionStep(s) ==
    \/ MarkOnline(s)
    \/ Hello(s)
    \/ Unregister(s)
    \/ Reconcile(s)
    \/ MarkOffline(s)

NextSessions ==
    \/ \E s \in Sessions, k \in Machines : Accept(s, k)
    \/ \E s \in Sessions : SocketDown(s)
    \/ \E s \in Sessions : SessionStep(s)

SpecSessions == InitSessions /\ [][NextSessions]_sessionVars

\* A runnable goroutine is scheduled; connects, hellos and drops are the
\* environment's and need not happen.
GoroutinesRun ==
    \A s \in Sessions :
        /\ WF_sessionVars(MarkOnline(s))
        /\ WF_sessionVars(Unregister(s))
        /\ WF_sessionVars(Reconcile(s))
        /\ WF_sessionVars(MarkOffline(s))

FairSpecSessions == SpecSessions /\ GoroutinesRun

----------------------------------------------------------------------------
(* Properties.                                                              *)

\* The session table and the presence flags have their types.
SessionsTypeOK ==
    /\ pc \in [Sessions -> Locations]
    /\ machine \in [Sessions -> Machines \cup {NoMachine}]
    /\ table \subseteq Sessions
    /\ up \subseteq Sessions
    /\ greeted \subseteq Sessions
    /\ online \in [Members -> BOOLEAN]

\* Takeover: however connects, drops and late cleanups interleave, the table
\* holds at most one session of a machine, so that a query is never routed to
\* the dead predecessor of a live connection.
OneSessionPerMachine ==
    \A s, t \in table : machine[s] = machine[t] => s = t

\* A member without any running connection handler is shown offline: a
\* superseded handler that marks the member online late still runs its own
\* cleanup, and the last cleanup of the member marks it offline.
NoGhostPresence ==
    \A m \in Members : online[m] => \E s \in Sessions : Serves(s, m)

\* The session table and the presence that is derived from it agree: one
\* session per machine, and nobody online whom no handler serves.
SessionsAreSound == SessionsTypeOK /\ OneSessionPerMachine /\ NoGhostPresence

\* A member all of whose sessions left the table is eventually shown offline,
\* or is connected again.
PresenceSettles ==
    \A m \in Members : SessionsOf(m) = {} ~> (~online[m] \/ SessionsOf(m) # {})
=============================================================================
