---------------------------- MODULE HubDispatch ----------------------------
(* How the Hub moves queries between askers and daemons                     *)
(* (internal/hub/hub.go): the submit handler, the long-poll handler, the    *)
(* Feishu dispatch, the read loop of every daemon connection with its drain *)
(* of the offline queue, the background sweeper, and the waiters they wake. *)
(* It composes HubSessions with the memory of QueryStore; QueryStoreProofs  *)
(* shows that a crash of the Hub does not change that memory.               *)
(*                                                                          *)
(* A handler is a sequence of actions, one per critical section (h.mu, s.mu *)
(* or a frame on a socket) that another handler can tell apart.  The daemon *)
(* and the network are modelled by what they do to the frames:              *)
(* internal/daemon/daemon.go.                                               *)
(* Abstracted: query text, workspaces and lastSeen (any session of the      *)
(* target may be selected), queryTimeouts (a number in the frame),          *)
(* idempotency keys and rate limits (checked before a query is created).    *)
EXTENDS HubSessions, Sequences, QueryStatus

CONSTANTS
    Queries,
    Target,         \* Target[q]: the member q is for
    Waited,         \* queries submitted with wait
    Feishu,         \* queries that came from the Feishu bot (FeishuContext)
    Polled,         \* queries that somebody long-polls
    Expiring,       \* queries whose TTL passes during the run
    Quitting,       \* connections whose daemon is told to stop during the run
    MaxConcurrency, \* sess.maxConcurrency, advertised in daemon_hello
    NoSession,
    Sweeper,        \* the background goroutine, which notifies waiters too
    Outcomes        \* statuses in the query_response frames of this instance

ASSUME DispatchAssumption ==
    /\ Target \in [Queries -> Members]
    /\ Waited \subseteq Queries
    /\ Feishu \subseteq Queries
    /\ Polled \subseteq Queries
    /\ Expiring \subseteq Queries
    /\ Quitting \subseteq Sessions
    /\ Waited \cap Feishu = {}
    /\ MaxConcurrency \in Nat \ {0}
    /\ NoSession \notin Sessions
    /\ Sweeper \notin Sessions
    /\ Outcomes \subseteq Responded \cup {"success"}

VARIABLES
    \* The Store.
    status,         \* QueryDetailResponse.Status
    answered,       \* there is an answer text
    stale,          \* the TTL has passed
    inbound,        \* inboundAudit
    \* Handlers and waiters.
    submit,         \* where the submit (or Feishu) handler of a query is
    chosen,         \* the session it selected
    poll,           \* where the long-poll handler of a query is
    waiters,        \* queryWaiters: which handlers have a channel registered
    mail,           \* what a channel holds: the status of the record sent
    replied,        \* queries for which OnQueryComplete was called
    \* Read loops and sweeper.
    task,           \* what the read loop of a connection (or the sweeper) is doing
    todo,           \* the queries the read loop still has to drain
    current,        \* the query whose waiters it notifies
    held,           \* the channels it has taken out of queryWaiters
    sweepList,      \* the queries the sweeper has still to look at
    \* Daemons.
    probes,         \* probes[s][q]: requests on the wire, waiting or running
    replies,        \* replies[s][q]: responses on the wire
    cancels,        \* query_cancel frames on the wire
    stopping        \* daemons that have begun to shut down

storeVars == <<status, answered, stale, inbound>>
handlerVars == <<submit, chosen, poll, waiters, mail, replied>>
loopVars == <<task, todo, current, held, sweepList>>
wireVars == <<probes, replies, cancels, stopping>>
vars == <<sessionVars, storeVars, handlerVars, loopVars, wireVars>>

Handlers == {"submit", "poll"}

Notifiers == Sessions \cup {Sweeper}

Empty == [q \in Queries |-> 0]

NoMail == [h \in Handlers |-> "none"]

Init ==
    /\ InitSessions
    /\ status = [q \in Queries |-> "absent"]
    /\ answered = [q \in Queries |-> FALSE]
    /\ stale = [q \in Queries |-> FALSE]
    /\ inbound = [m \in Members |-> <<>>]
    /\ submit = [q \in Queries |-> "idle"]
    /\ chosen = [q \in Queries |-> NoSession]
    /\ poll = [q \in Queries |-> "idle"]
    /\ waiters = [q \in Queries |-> {}]
    /\ mail = [q \in Queries |-> NoMail]
    /\ replied = {}
    /\ task = [n \in Notifiers |-> "idle"]
    /\ todo = [s \in Sessions |-> <<>>]
    /\ current = [n \in Notifiers |-> {}]
    /\ held = [n \in Notifiers |-> {}]
    /\ sweepList = {}
    /\ probes = [s \in Sessions |-> Empty]
    /\ replies = [s \in Sessions |-> Empty]
    /\ cancels = [s \in Sessions |-> {}]
    /\ stopping = {}

----------------------------------------------------------------------------
(* The Store, as the handlers use it.                                       *)

\* The statuses after the inline TTL check on the queries of S.
Checked(S) ==
    [q \in Queries |-> IF q \in S THEN ExpireIf(status[q], stale[q]) ELSE status[q]]

\* Mutant: what was already dispatched is not offered again.
QueuedForNotDispatched(m) ==
    Kept(inbound[m], {q \in Queries : Checked(Queries)[q] = "queued"})

\* GetQueuedQueriesForMember: queued and dispatched, oldest first.
QueuedFor(m) ==
    Kept(inbound[m], {q \in Queries : Checked(Queries)[q] \in Active})

TTLPasses(q) ==
    /\ q \in Expiring
    /\ status[q] # "absent"
    /\ ~stale[q]
    /\ stale' = [stale EXCEPT ![q] = TRUE]
    /\ UNCHANGED <<status, answered, inbound, sessionVars, handlerVars, loopVars, wireVars>>

\* A frame reaches the daemon unless the session was closed or its socket is
\* dead; sendEnvelope reports neither.
Reaches(s) == s \in table /\ s \in up

SendRequest(s, q) ==
    probes' = IF Reaches(s) THEN [probes EXCEPT ![s][q] = @ + 1] ELSE probes

----------------------------------------------------------------------------
(* handleQuerySubmit and dispatchFeishuQuery.                               *)

CreateQuery(q) ==
    /\ submit[q] = "idle"
    /\ submit' = [submit EXCEPT ![q] = "created"]
    /\ status' = [status EXCEPT ![q] = "queued"]
    /\ inbound' = [inbound EXCEPT ![Target[q]] = Append(@, q)]
    /\ UNCHANGED <<answered, stale, chosen, poll, waiters, mail, replied,
                   sessionVars, loopVars, wireVars>>

\* What the handler does once the query is dispatched or left in the queue.
AfterDispatch(q) == IF q \in Waited THEN "waiting" ELSE "done"

\* What it does once it has a session, or none, and its channel.
ToDispatch(q, s) == IF s = NoSession THEN AfterDispatch(q) ELSE "selected"

\* Mutant: any connection will do.
SelectAnySession(q) ==
    /\ submit[q] = "created"
    /\ \E s \in table : chosen' = [chosen EXCEPT ![q] = s]
    /\ submit' = [submit EXCEPT ![q] =
                    IF q \in Waited THEN "register" ELSE ToDispatch(q, chosen'[q])]
    /\ UNCHANGED <<poll, waiters, mail, replied, sessionVars, storeVars, loopVars, wireVars>>

\* selectSessionForQuery.
SelectSession(q) ==
    /\ submit[q] = "created"
    /\ \/ /\ SessionsOf(Target[q]) = {}
          /\ chosen' = [chosen EXCEPT ![q] = NoSession]
       \/ \E s \in SessionsOf(Target[q]) : chosen' = [chosen EXCEPT ![q] = s]
    /\ submit' = [submit EXCEPT ![q] =
                    IF q \in Waited THEN "register" ELSE ToDispatch(q, chosen'[q])]
    /\ UNCHANGED <<poll, waiters, mail, replied, sessionVars, storeVars, loopVars, wireVars>>

SubmitRegister(q) ==
    /\ submit[q] = "register"
    /\ submit' = [submit EXCEPT ![q] = ToDispatch(q, chosen[q])]
    /\ waiters' = [waiters EXCEPT ![q] = @ \cup {"submit"}]
    /\ UNCHANGED <<chosen, poll, mail, replied, sessionVars, storeVars, loopVars, wireVars>>

SubmitSend(q) ==
    /\ submit[q] = "selected"
    /\ submit' = [submit EXCEPT ![q] = "sent"]
    /\ SendRequest(chosen[q], q)
    /\ UNCHANGED <<chosen, poll, waiters, mail, replied, replies, cancels, stopping,
                   sessionVars, storeVars, loopVars>>

\* UpdateQueryStatus(dispatched): whatever the status has become meanwhile.
SubmitMark(q) ==
    /\ submit[q] = "sent"
    /\ submit' = [submit EXCEPT ![q] = AfterDispatch(q)]
    /\ chosen' = [chosen EXCEPT ![q] = NoSession]
    /\ status' = [status EXCEPT ![q] = "dispatched"]
    /\ UNCHANGED <<answered, stale, inbound, poll, waiters, mail, replied,
                   sessionVars, loopVars, wireVars>>

SubmitWoken(q) ==
    /\ submit[q] = "waiting"
    /\ mail[q]["submit"] # "none"
    /\ submit' = [submit EXCEPT ![q] = "done"]
    /\ mail' = [mail EXCEPT ![q]["submit"] = "none"]
    /\ UNCHANGED <<chosen, poll, waiters, replied,
                   sessionVars, storeVars, loopVars, wireVars>>

\* Mutant: removeWaiter deletes the entry of the query.
LeaveForAll(q, h) ==
    /\ waiters' = [waiters EXCEPT ![q] = {}]
    /\ mail' = [mail EXCEPT ![q][h] = "none"]
    /\ held' = [n \in Notifiers |-> IF q \in current[n] THEN held[n] \ {h} ELSE held[n]]

\* removeWaiter: the handler leaves and its channel is garbage, also where a
\* notifier still holds it.
Leave(q, h) ==
    /\ waiters' = [waiters EXCEPT ![q] = @ \ {h}]
    /\ mail' = [mail EXCEPT ![q][h] = "none"]
    /\ held' = [n \in Notifiers |-> IF q \in current[n] THEN held[n] \ {h} ELSE held[n]]

SubmitTimeout(q) ==
    /\ submit[q] = "waiting"
    /\ submit' = [submit EXCEPT ![q] = "done"]
    /\ Leave(q, "submit")
    /\ UNCHANGED <<chosen, poll, replied, task, todo, current, sweepList,
                   sessionVars, storeVars, wireVars>>

\* The asker hangs up; the last waiter to go cancels the query.
SubmitHangUp(q) ==
    /\ submit[q] = "waiting"
    /\ Leave(q, "submit")
    /\ submit' = [submit EXCEPT ![q] = IF waiters'[q] = {} THEN "cancelling" ELSE "done"]
    /\ UNCHANGED <<chosen, poll, replied, task, todo, current, sweepList,
                   sessionVars, storeVars, wireVars>>

\* cancelDispatchedQuery: the session is selected again.
CancelDispatched(q) ==
    /\ submit[q] = "cancelling"
    /\ submit' = [submit EXCEPT ![q] = "done"]
    /\ status' = Checked({q})
    /\ \/ /\ status'[q] = "dispatched"
          /\ \E s \in SessionsOf(Target[q]) :
                cancels' = IF Reaches(s) THEN [cancels EXCEPT ![s] = @ \cup {q}] ELSE cancels
       \/ /\ status'[q] # "dispatched" \/ SessionsOf(Target[q]) = {}
          /\ UNCHANGED cancels
    /\ UNCHANGED <<answered, stale, inbound, chosen, poll, waiters, mail, replied,
                   probes, replies, stopping, sessionVars, loopVars>>

----------------------------------------------------------------------------
(* handleQueryDetail with ?wait: the status is read before the channel is   *)
(* registered.                                                              *)

PollRead(q) ==
    /\ q \in Polled
    /\ poll[q] = "idle"
    /\ status[q] # "absent"
    /\ status' = Checked({q})
    /\ poll' = [poll EXCEPT ![q] = IF status'[q] \in Active THEN "read" ELSE "idle"]
    /\ UNCHANGED <<answered, stale, inbound, submit, chosen, waiters, mail, replied,
                   sessionVars, loopVars, wireVars>>

PollRegister(q) ==
    /\ poll[q] = "read"
    /\ poll' = [poll EXCEPT ![q] = "waiting"]
    /\ waiters' = [waiters EXCEPT ![q] = @ \cup {"poll"}]
    /\ UNCHANGED <<submit, chosen, mail, replied,
                   sessionVars, storeVars, loopVars, wireVars>>

PollWoken(q) ==
    /\ poll[q] = "waiting"
    /\ mail[q]["poll"] # "none"
    /\ poll' = [poll EXCEPT ![q] = "idle"]
    /\ mail' = [mail EXCEPT ![q]["poll"] = "none"]
    /\ UNCHANGED <<submit, chosen, waiters, replied,
                   sessionVars, storeVars, loopVars, wireVars>>

\* A timeout reads the query once more; a hang-up does not.
PollEnds(q, rereads) ==
    /\ poll[q] = "waiting"
    /\ poll' = [poll EXCEPT ![q] = "idle"]
    /\ Leave(q, "poll")
    /\ status' = IF rereads THEN Checked({q}) ELSE status
    /\ UNCHANGED <<answered, stale, inbound, submit, chosen, replied,
                   task, todo, current, sweepList, sessionVars, wireVars>>

----------------------------------------------------------------------------
(* notifyWaiters, called by a read loop and by the sweeper.                 *)

TakeWaiters(n, q) ==
    /\ task[n] = "notify"
    /\ q \in current[n]
    /\ task' = [task EXCEPT ![n] = "deliver"]
    /\ held' = [held EXCEPT ![n] = waiters[q]]
    /\ waiters' = [waiters EXCEPT ![q] = {}]
    /\ UNCHANGED <<submit, chosen, poll, mail, replied, todo, current, sweepList,
                   sessionVars, storeVars, wireVars>>

\* The channels get the record as GetQuery now returns it.  Then the caller
\* hands the query to the Feishu bot, for which a read loop reads it again.
Deliver(n, q) ==
    /\ task[n] = "deliver"
    /\ q \in current[n]
    /\ task' = [task EXCEPT ![n] = "idle"]
    /\ current' = [current EXCEPT ![n] = {}]
    /\ held' = [held EXCEPT ![n] = {}]
    /\ status' = IF held[n] # {} \/ (q \in Feishu /\ n # Sweeper) THEN Checked({q}) ELSE status
    /\ mail' = [mail EXCEPT ![q] =
                  [h \in Handlers |-> IF h \in held[n] THEN status'[q] ELSE mail[q][h]]]
    /\ replied' = replied \cup ({q} \cap Feishu)
    /\ UNCHANGED <<answered, stale, inbound, submit, chosen, poll, waiters, todo, sweepList,
                   sessionVars, wireVars>>

----------------------------------------------------------------------------
(* The goroutine of a daemon connection.                                    *)

Connect(s, k) ==
    /\ Accept(s, k)
    /\ probes' = [t \in Sessions |-> IF t \in up' THEN probes[t] ELSE Empty]
    /\ cancels' = [t \in Sessions |-> IF t \in up' THEN cancels[t] ELSE {}]
    /\ stopping' = stopping \cap up'
    /\ UNCHANGED <<replies, storeVars, handlerVars, loopVars>>

\* What drainOfflineQueue sends: the head of the queue, up to maxConcurrency.
DrainList(m) ==
    LET line == QueuedFor(m)
    IN  SubSeq(line, 1, IF Len(line) < MaxConcurrency THEN Len(line) ELSE MaxConcurrency)

\* daemon_hello: the presence, the pending count of hub_ack, and the list
\* that drainOfflineQueue takes after its sweep.
HandleHello(s) ==
    LET list == DrainList(MemberOf(s))
    IN  /\ Hello(s)
        /\ task[s] = "idle"
        /\ status' = Checked(Queries)
        /\ todo' = [todo EXCEPT ![s] = list]
        /\ task' = [task EXCEPT ![s] = IF list = <<>> THEN "idle" ELSE "drain"]
        /\ UNCHANGED <<answered, stale, inbound, current, held, sweepList, handlerVars, wireVars>>

DrainSend(s) ==
    /\ task[s] = "drain"
    /\ task' = [task EXCEPT ![s] = "mark"]
    /\ SendRequest(s, Head(todo[s]))
    /\ UNCHANGED <<todo, current, held, sweepList, replies, cancels, stopping,
                   sessionVars, storeVars, handlerVars>>

DrainMark(s) ==
    /\ task[s] = "mark"
    /\ status' = [status EXCEPT ![Head(todo[s])] = "dispatched"]
    /\ todo' = [todo EXCEPT ![s] = Tail(@)]
    /\ task' = [task EXCEPT ![s] = IF Tail(todo[s]) = <<>> THEN "idle" ELSE "drain"]
    /\ UNCHANGED <<answered, stale, inbound, current, held, sweepList,
                   sessionVars, handlerVars, wireVars>>

\* The status taxonomy has no success.
Normalised(st) == IF st = "success" THEN "completed" ELSE st

\* query_response: GetQuery for the ownership check, then UpdateQueryStatus,
\* which overrides what GetQuery may just have expired.  Only a completed or
\* refused probe carries an answer text.
HandleResponse(s, q, st) ==
    /\ pc[s] = "reading"
    /\ task[s] = "idle"
    /\ replies[s][q] > 0
    /\ Target[q] = MemberOf(s)
    /\ replies' = [replies EXCEPT ![s][q] = @ - 1]
    /\ status' = [status EXCEPT ![q] = Normalised(st)]
    /\ answered' = [answered EXCEPT ![q] = @ \/ Normalised(st) \in {"completed", "refused"}]
    /\ task' = [task EXCEPT ![s] = "notify"]
    /\ current' = [current EXCEPT ![s] = {q}]
    /\ UNCHANGED <<stale, inbound, todo, held, sweepList, probes, cancels, stopping,
                   sessionVars, handlerVars>>

\* The steps of the connection that do not touch queries.
PresenceStep(s) ==
    /\ MarkOnline(s) \/ MarkOffline(s)
    /\ UNCHANGED <<storeVars, handlerVars, loopVars, wireVars>>

LoseSession(s) ==
    /\ Unregister(s)
    /\ task[s] = "idle"
    /\ replies' = [replies EXCEPT ![s] = Empty]
    /\ UNCHANGED <<probes, cancels, stopping, storeVars, handlerVars, loopVars>>

ReconcileInFlight(s) ==
    /\ Reconcile(s)
    /\ status' = [q \in Queries |->
                    IF Target[q] = MemberOf(s) THEN RequeueIf(status[q], stale[q])
                                               ELSE status[q]]
    /\ UNCHANGED <<answered, stale, inbound, handlerVars, loopVars, wireVars>>

----------------------------------------------------------------------------
(* The sweeper: looks at the waiters only when it expired something.        *)

SweepTick ==
    /\ task[Sweeper] = "idle"
    /\ sweepList = {}
    /\ status' = Checked(Queries)
    /\ status' # status
    /\ sweepList' = {q \in Queries : waiters[q] # {}}
    /\ UNCHANGED <<answered, stale, inbound, task, todo, current, held,
                   sessionVars, handlerVars, wireVars>>

SweepLook(q) ==
    /\ task[Sweeper] = "idle"
    /\ q \in sweepList
    /\ sweepList' = sweepList \ {q}
    /\ status' = Checked({q})
    /\ \/ /\ status'[q] = "expired"
          /\ task' = [task EXCEPT ![Sweeper] = "notify"]
          /\ current' = [current EXCEPT ![Sweeper] = {q}]
       \/ /\ status'[q] # "expired"
          /\ UNCHANGED <<task, current>>
    /\ UNCHANGED <<answered, stale, inbound, todo, held, sessionVars, handlerVars, wireVars>>

----------------------------------------------------------------------------
(* Daemons and network.                                                     *)

\* A probe ends, in whatever order: answer, refusal, error or timeout.
DaemonRespond(s, q) ==
    /\ s \in up
    /\ probes[s][q] > 0
    /\ probes' = [probes EXCEPT ![s][q] = @ - 1]
    /\ replies' = [replies EXCEPT ![s][q] = @ + 1]
    /\ UNCHANGED <<cancels, stopping, sessionVars, storeVars, handlerVars, loopVars>>

\* query_cancel: nothing to cancel (or the probe not yet registered), a probe
\* that ends with an error response, or one that leaves the semaphore silently.
DaemonCancel(s, q) ==
    /\ s \in up
    /\ q \in cancels[s]
    /\ cancels' = [cancels EXCEPT ![s] = @ \ {q}]
    /\ \/ UNCHANGED <<probes, replies>>
       \/ /\ probes[s][q] > 0
          /\ probes' = [probes EXCEPT ![s][q] = @ - 1]
          /\ replies' \in {replies, [replies EXCEPT ![s][q] = @ + 1]}
    /\ UNCHANGED <<stopping, sessionVars, storeVars, handlerVars, loopVars>>

DaemonStop(s) ==
    /\ s \in Quitting
    /\ s \in up
    /\ s \notin stopping
    /\ stopping' = stopping \cup {s}
    /\ UNCHANGED <<probes, replies, cancels, sessionVars, storeVars, handlerVars, loopVars>>

\* A stopping daemon declines requests without an answer.
DaemonDecline(s, q) ==
    /\ s \in up \cap stopping
    /\ probes[s][q] > 0
    /\ probes' = [probes EXCEPT ![s][q] = @ - 1]
    /\ UNCHANGED <<replies, cancels, stopping, sessionVars, storeVars, handlerVars, loopVars>>

\* The probes die with the connection; what is on the wire may still be read.
Disconnect(s) ==
    /\ SocketDown(s)
    /\ probes' = [probes EXCEPT ![s] = Empty]
    /\ cancels' = [cancels EXCEPT ![s] = {}]
    /\ stopping' = stopping \ {s}
    /\ UNCHANGED <<replies, storeVars, handlerVars, loopVars>>

\* The Hub process dies and restarts: only the Store survives.
Crash ==
    /\ HubCrash
    /\ submit' = [q \in Queries |-> IF submit[q] = "idle" THEN "idle" ELSE "done"]
    /\ poll' = [q \in Queries |-> "idle"]
    /\ waiters' = [q \in Queries |-> {}]
    /\ mail' = [q \in Queries |-> NoMail]
    /\ task' = [n \in Notifiers |-> "idle"]
    /\ todo' = [s \in Sessions |-> <<>>]
    /\ current' = [n \in Notifiers |-> {}]
    /\ held' = [n \in Notifiers |-> {}]
    /\ sweepList' = {}
    /\ probes' = [s \in Sessions |-> Empty]
    /\ replies' = [s \in Sessions |-> Empty]
    /\ cancels' = [s \in Sessions |-> {}]
    /\ stopping' = {}
    /\ chosen' = [q \in Queries |-> NoSession]
    /\ UNCHANGED <<replied, storeVars>>

----------------------------------------------------------------------------
\* The steps a handler takes by itself once it runs.
SubmitRuns(q) ==
    \/ SelectSession(q)
    \/ SubmitRegister(q)
    \/ SubmitSend(q)
    \/ SubmitMark(q)
    \/ SubmitWoken(q)
    \/ SubmitTimeout(q)
    \/ CancelDispatched(q)

PollRuns(q) ==
    \/ PollRegister(q)
    \/ PollWoken(q)
    \/ \E rereads \in BOOLEAN : PollEnds(q, rereads)

LoopRuns(s) ==
    \/ PresenceStep(s)
    \/ HandleHello(s)
    \/ DrainSend(s)
    \/ DrainMark(s)
    \/ \E q \in Queries, st \in Outcomes : HandleResponse(s, q, st)
    \/ \E q \in Queries : TakeWaiters(s, q) \/ Deliver(s, q)
    \/ LoseSession(s)
    \/ ReconcileInFlight(s)

SweeperRuns ==
    \/ SweepTick
    \/ \E q \in Queries :
          SweepLook(q) \/ TakeWaiters(Sweeper, q) \/ Deliver(Sweeper, q)

\* What askers, daemons and the network do.
Outside ==
    \/ \E q \in Queries :
          CreateQuery(q) \/ SubmitHangUp(q) \/ PollRead(q) \/ TTLPasses(q)
    \/ \E s \in Sessions, k \in Machines : Connect(s, k)
    \/ \E s \in Sessions : DaemonStop(s) \/ Disconnect(s)
    \/ \E s \in Sessions, q \in Queries :
          DaemonRespond(s, q) \/ DaemonCancel(s, q) \/ DaemonDecline(s, q)

Next ==
    \/ \E q \in Queries : SubmitRuns(q) \/ PollRuns(q)
    \/ \E s \in Sessions : LoopRuns(s)
    \/ SweeperRuns
    \/ Outside

Spec == Init /\ [][Next]_vars

CrashSpec == Init /\ [][Next \/ Crash]_vars

\* Goroutines are scheduled, probes end (their budget is bounded), a daemon
\* that has begun to stop closes its socket when its drain is over.
FairSpec ==
    /\ Spec
    /\ \A q \in Queries : WF_vars(SubmitRuns(q)) /\ WF_vars(PollRuns(q))
    /\ \A s \in Sessions :
          /\ WF_vars(LoopRuns(s))
          /\ WF_vars(s \in stopping /\ Disconnect(s))
          /\ \A q \in Queries : WF_vars(DaemonRespond(s, q))
    /\ WF_vars(SweeperRuns)

----------------------------------------------------------------------------
(* Properties.                                                              *)

\* Every variable that HubDispatch adds to HubSessions has its type.
DispatchTypeOK ==
    /\ status \in [Queries -> Status]
    /\ answered \in [Queries -> BOOLEAN]
    /\ stale \in [Queries -> BOOLEAN]
    /\ \A m \in Members : inbound[m] \in Seq(Queries)
    /\ submit \in [Queries -> {"idle", "created", "register", "selected", "sent",
                               "waiting", "cancelling", "done"}]
    /\ chosen \in [Queries -> Sessions \cup {NoSession}]
    /\ poll \in [Queries -> {"idle", "read", "waiting"}]
    /\ waiters \in [Queries -> SUBSET Handlers]
    /\ mail \in [Queries -> [Handlers -> {"none"} \cup Status]]
    /\ replied \subseteq Feishu
    /\ task \in [Notifiers -> {"idle", "drain", "mark", "notify", "deliver"}]
    /\ \A s \in Sessions : todo[s] \in Seq(Queries)
    /\ current \in [Notifiers -> SUBSET Queries]
    /\ held \in [Notifiers -> SUBSET Handlers]
    /\ sweepList \subseteq Queries
    /\ probes \in [Sessions -> [Queries -> Nat]]
    /\ replies \in [Sessions -> [Queries -> Nat]]
    /\ cancels \in [Sessions -> SUBSET Queries]
    /\ stopping \subseteq Sessions

\* The handler of q has made a channel and has not yet left its select.
Listens(q, h) ==
    IF h = "submit" THEN q \in Waited /\ submit[q] \in {"selected", "sent", "waiting"}
                    ELSE poll[q] = "waiting"

HeldBy(n, q, h) == q \in current[n] /\ h \in held[n]

\* However timeouts, hang-ups, takeovers and notifications interleave, a
\* channel that is in queryWaiters, taken by a notifier or full belongs to a
\* handler that is still there to read it: an abandoned entry would stay for
\* ever and would keep the last asker's hang-up from cancelling the query.
NoWaiterLeak ==
    \A q \in Queries, h \in Handlers :
        (\/ h \in waiters[q]
         \/ \E n \in Notifiers : HeldBy(n, q, h)
         \/ mail[q][h] # "none")
        => Listens(q, h)

\* A handler that blocks on its channel can still be reached: the channel is
\* registered, in the hands of a notifier, or already full.  No step of
\* notifyWaiters or of another handler's removeWaiter forgets it.
NoLostWaiter ==
    \A q \in Queries, h \in Handlers :
        Listens(q, h) => \/ h \in waiters[q]
                        \/ \E n \in Notifiers : HeldBy(n, q, h)
                        \/ mail[q][h] # "none"

\* A channel is in one place: it is sent to once, so that the default branch
\* of notifyWaiters' select never drops a record, and it is never both sent to
\* and counted among the waiters that remain.
OnePlace ==
    \A q \in Queries, h \in Handlers, n \in Notifiers :
        /\ h \in waiters[q] => mail[q][h] = "none" /\ ~HeldBy(n, q, h)
        /\ mail[q][h] # "none" => ~HeldBy(n, q, h)
        /\ \A o \in Notifiers : HeldBy(n, q, h) /\ HeldBy(o, q, h) => n = o

\* The bookkeeping of the waiters: a channel is in exactly one place as long as
\* its handler listens, and in none afterwards.  The three parts are inductive
\* only together.
WaitersAreSound == NoWaiterLeak /\ NoLostWaiter /\ OnePlace

\* A question reaches, and an answer comes from, the daemons of the member it
\* is for, also when machines are taken over while the handler that selected
\* a session is still about to send.
RoutedToTarget ==
    \A s \in Sessions, q \in Queries :
        (probes[s][q] > 0 \/ replies[s][q] > 0 \/ q \in cancels[s]) => MemberOf(s) = Target[q]

\* The dispatch state is well-typed and frames stay with the target's daemons.
FramesAreRouted == DispatchTypeOK /\ RoutedToTarget

Lifecycle == INSTANCE QueryLifecycle WITH
    Answers <- {"text"},
    NoAnswer <- "none",
    answer <- [q \in Queries |-> IF answered[q] THEN "text" ELSE "none"]

\* Whatever handlers and daemons do, and across a crash of the Hub, a query
\* only moves along the edges of QueryLifecycle; in particular a late response,
\* a requeue or a re-dispatch never takes an answer away.
ImplementsLifecycle == Lifecycle!Spec

\* Every query whose TTL has passed ends in a terminal status for good: late
\* marks, requeues and responses stop, and what is left over expires.
QueriesSettle ==
    \A q \in Queries : (status[q] # "absent" /\ stale[q]) ~> [](status[q] \in Terminal)

\* A live daemon of member m that the Hub has greeted and that is not stopping.
Attended(m) == \E s \in up \cap greeted : pc[s] = "reading" /\ MemberOf(s) = m /\ s \notin stopping

\* "the query is queued with a TTL [...] and answered automatically as soon as
\* their machine reconnects" (docs/DESIGN.md:20): when a daemon of the target
\* stays connected, no query nobody hangs up on is left behind between the
\* submit handler, the drain of the queue and the cleanup of older connections.
ReconnectAnswers ==
    \A q \in Queries \ Waited :
        <>[]Attended(Target[q]) => (status[q] # "absent" ~> (answered[q] \/ stale[q]))

\* Nobody works on q: no request or response of it is on a connection.
Idle(q) == \A s \in Sessions : probes[s][q] = 0 /\ replies[s][q] = 0

\* "the hub requeues dispatched queries when this socket closes, so declining
\* silently is safe" (internal/daemon/daemon.go:614): an unanswered query that a
\* dead connection leaves dispatched without a worker leaves that status, or is
\* sent out again.
SocketCloseRequeues ==
    \A s \in Sessions, q \in Queries :
        (/\ s \in table \ up
         /\ MemberOf(s) = Target[q]
         /\ status[q] = "dispatched" /\ ~answered[q]
         /\ Idle(q))
        ~> (status[q] # "dispatched" \/ ~Idle(q) \/ stale[q])

\* The table of docs/DESIGN.md:196-200: completed, refused, error, timeout and
\* expired are terminal.
TerminalAbsorbing ==
    [][\A q \in Queries : status[q] \in Terminal => status'[q] = status[q]]_vars
=============================================================================
