----------------------------- MODULE QueryStore -----------------------------
(* The query half of the Hub's Store (internal/store/store.go): the records *)
(* in memory, the append-only events.jsonl behind them, TTL expiry, requeue *)
(* of in-flight queries, log compaction, and a crash of the Hub process     *)
(* followed by the replay of the log.                                       *)
(*                                                                          *)
(* Every method runs under s.mu, so a method is one action.  events.jsonl   *)
(* is represented by what it replays to (the variable disk): applyEvent is  *)
(* a left fold over the lines, so that appending an event maps the image    *)
(* through ApplyCreated or ApplyUpdated.  A method that appends several     *)
(* events can die between two of them: CrashDuringSweep and                 *)
(* CrashDuringRequeue.  A half-written last line is truncated by            *)
(* replayAndOpenFile, which is a crash before that event.                   *)
(* Write errors of the file system are not modelled.                        *)
EXTENDS Naturals, Sequences, FiniteSets, SequencesExt, QueryStatus

CONSTANTS
    Queries,    \* query ids; a set of naturals, compared by Compact's sort
    Members,
    Target,     \* Target[q]: TargetMemberID of q
    Answers,
    NoAnswer,
    TTL,        \* possible times to live of a query, in clock ticks
    MaxTime     \* bound of the clock

ASSUME StoreAssumption ==
    /\ Queries \subseteq Nat
    /\ Target \in [Queries -> Members]
    /\ NoAnswer \notin Answers
    /\ TTL \subseteq Nat \ {0}
    /\ MaxTime \in Nat

VARIABLES
    now,        \* the wall clock; 0 is before every timestamp of the program
    recs,       \* queriesByID
    inbound,    \* inboundAudit[m]: query ids in the order they were inserted
    disk        \* what events.jsonl replays to: the same two indexes

vars == <<now, recs, inbound, disk>>

----------------------------------------------------------------------------
(* Records.  A time of 0 is Go's zero value: not set.                       *)

Record ==
    [status: Status, answer: Answers \cup {NoAnswer}, failed: BOOLEAN,
     createdAt: Nat, ttlExpiresAt: Nat, completedAt: Nat]

NoRecord ==
    [status |-> "absent", answer |-> NoAnswer, failed |-> FALSE,
     createdAt |-> 0, ttlExpiresAt |-> 0, completedAt |-> 0]

NewRecord(created, ttl) ==
    [status |-> "queued", answer |-> NoAnswer, failed |-> FALSE,
     createdAt |-> created, ttlExpiresAt |-> created + ttl, completedAt |-> 0]

\* A query_updated event: what UpdateQueryStatus, an expiry and a requeue log.
\* failed abstracts the error message to whether there is one.
UpdateEvent(st, a, f, t) ==
    [status |-> st, answer |-> a, failed |-> f, completedAt |-> t]

ExpireEvent(t) == UpdateEvent("expired", NoAnswer, TRUE, t)

RequeueEvent == UpdateEvent("queued", NoAnswer, FALSE, 0)

IsStale(r) == r.ttlExpiresAt > 0 /\ now > r.ttlExpiresAt

\* The effect of an expiry on the record in memory.
Expired(r) ==
    [r EXCEPT !.status = "expired", !.failed = TRUE, !.completedAt = now]

ExpiredIfStale(r) == IF r.status \in Active /\ IsStale(r) THEN Expired(r) ELSE r

\* The effect of UpdateQueryStatus on the record in memory.
Updated(r, st, a, f) ==
    [r EXCEPT !.status = st,
              !.answer = IF a = NoAnswer THEN @ ELSE a,
              !.failed = f \/ @,
              !.completedAt = IF st \in Terminal THEN now ELSE @]

\* Mutant: an event without an answer clears the answer.
ReplayedOverwriting(r, ev) ==
    [r EXCEPT !.status = ev.status,
              !.answer = ev.answer,
              !.failed = ev.failed \/ @,
              !.completedAt = IF ev.completedAt > 0 THEN ev.completedAt ELSE @]

\* The effect of replaying a query_updated event.
Replayed(r, ev) ==
    [r EXCEPT !.status = ev.status,
              !.answer = IF ev.answer = NoAnswer THEN @ ELSE ev.answer,
              !.failed = ev.failed \/ @,
              !.completedAt = IF ev.completedAt > 0 THEN ev.completedAt ELSE @]

\* applyEvent for query_created: the inbound list grows only for a new id.
ApplyCreated(img, q, r) ==
    [recs |-> [img.recs EXCEPT ![q] = r],
     inbound |-> IF img.recs[q].status = "absent"
                 THEN [img.inbound EXCEPT ![Target[q]] = Append(@, q)]
                 ELSE img.inbound]

\* applyEvent for a batch of query_updated events, evs[q] the one of query q.
ApplyUpdated(img, evs) ==
    [recs |-> [q \in Queries |->
                 IF q \in DOMAIN evs /\ img.recs[q].status # "absent"
                 THEN Replayed(img.recs[q], evs[q]) ELSE img.recs[q]],
     inbound |-> img.inbound]

Stale(S) == {q \in S : recs[q].status \in Active /\ IsStale(recs[q])}

InFlight(S) == {q \in S : recs[q].status = "dispatched"}

\* The events an expiry of the stale queries of S logs.
ExpireEvents(S) == [q \in Stale(S) |-> ExpireEvent(now)]

\* Mutant: the log says queued where memory says expired.
RequeueEventsIgnoringTTL(S) == [q \in InFlight(S) |-> RequeueEvent]

\* The events RequeueInFlightQueries logs for the in-flight queries of S.
RequeueEvents(S) ==
    [q \in InFlight(S) |->
        IF IsStale(recs[q]) THEN ExpireEvent(now) ELSE RequeueEvent]

----------------------------------------------------------------------------
Init ==
    /\ now = 1
    /\ recs = [q \in Queries |-> NoRecord]
    /\ inbound = [m \in Members |-> <<>>]
    /\ disk = [recs |-> recs, inbound |-> inbound]

Tick ==
    /\ now < MaxTime
    /\ now' = now + 1
    /\ UNCHANGED <<recs, inbound, disk>>

\* The handler reads the clock for CreatedAt before it calls CreateQuery, so
\* two handlers may take s.mu in the other order.
CreateQuery(q, created, ttl) ==
    /\ recs[q].status = "absent"
    /\ recs' = [recs EXCEPT ![q] = NewRecord(created, ttl)]
    /\ inbound' = [inbound EXCEPT ![Target[q]] = Append(@, q)]
    /\ disk' = ApplyCreated(disk, q, NewRecord(created, ttl))
    /\ UNCHANGED now

\* SweepExpiredQueries on every query; GetQuery on the one it reads.
ExpireStale(S) ==
    /\ recs' = [q \in Queries |-> IF q \in S THEN ExpiredIfStale(recs[q]) ELSE recs[q]]
    /\ disk' = ApplyUpdated(disk, ExpireEvents(S))
    /\ UNCHANGED <<now, inbound>>

GetQuery(q) == recs[q].status # "absent" /\ ExpireStale({q})

SweepExpiredQueries == ExpireStale(Queries)

\* Also returns the member's active queries, in the order of inbound[m].
GetQueuedQueriesForMember(m) == ExpireStale(ToSet(inbound[m]))

UpdateQueryStatus(q, st, a, f) ==
    /\ recs[q].status # "absent"
    /\ recs' = [recs EXCEPT ![q] = Updated(@, st, a, f)]
    /\ disk' = ApplyUpdated(disk, [x \in {q} |-> UpdateEvent(st, a, f, now)])
    /\ UNCHANGED <<now, inbound>>

\* The effect of a requeue on the record in memory: an expiry when stale.
Requeued(r) ==
    IF r.status # "dispatched" THEN r
    ELSE IF IsStale(r) THEN Expired(r) ELSE [r EXCEPT !.status = "queued"]

RequeueInFlightQueries(m) ==
    /\ recs' = [q \in Queries |->
                  IF q \in ToSet(inbound[m]) THEN Requeued(recs[q]) ELSE recs[q]]
    /\ disk' = ApplyUpdated(disk, RequeueEvents(ToSet(inbound[m])))
    /\ UNCHANGED <<now, inbound>>

\* calculateQueuePositionLocked: 1-based, 0 when q does not wait (any more).
Waiting(q) == recs[q].status \in Active /\ ~IsStale(recs[q])

QueuePosition(q) ==
    LET line == inbound[Target[q]]
        upto == {i \in DOMAIN line : \E j \in i .. Len(line) : line[j] = q}
    IN  IF Waiting(q) THEN Cardinality({i \in upto : Waiting(line[i])}) ELSE 0

\* The list GetQueuedQueriesForMember returns and drainOfflineQueue sends.
QueuedFor(m) == Kept(inbound[m], {q \in Queries : Waiting(q)})

----------------------------------------------------------------------------
(* Compaction rewrites the log from memory, oldest CreatedAt first.         *)

OlderThan(p, q) ==
    \/ recs[p].createdAt < recs[q].createdAt
    \/ recs[p].createdAt = recs[q].createdAt /\ p < q

Created == {q \in Queries : recs[q].status # "absent"}

SnapshotOrder(m) ==
    LET mine == {q \in Created : Target[q] = m}
        places == 1 .. Cardinality(mine)
    IN  CHOOSE line \in [places -> mine] :
            \A i, j \in places : i < j => OlderThan(line[i], line[j])

\* Mutant: the snapshot is appended to the log instead of replacing it, and
\* replayed by an applyEvent that does not look for the id.
CompactAppending ==
    /\ disk' = [recs |-> recs, inbound |-> [m \in Members |-> disk.inbound[m] \o SnapshotOrder(m)]]
    /\ UNCHANGED <<now, recs, inbound>>

Compact ==
    /\ disk' = [recs |-> recs, inbound |-> [m \in Members |-> SnapshotOrder(m)]]
    /\ UNCHANGED <<now, recs, inbound>>

----------------------------------------------------------------------------
(* The process dies and a new one replays the log.                          *)

RestartFrom(img) ==
    /\ disk' = img
    /\ recs' = img.recs
    /\ inbound' = img.inbound
    /\ UNCHANGED now

Crash == RestartFrom(disk)

\* Map iteration has no order: any part of the expiries may be on disk.
CrashDuringSweep(S) ==
    /\ S \subseteq Stale(Queries)
    /\ RestartFrom(ApplyUpdated(disk, ExpireEvents(S)))

\* The requeue walks inbound[m]: the in-flight queries among the first n.
CrashDuringRequeue(m, n) ==
    RestartFrom(ApplyUpdated(disk,
        RequeueEvents({inbound[m][i] : i \in {j \in DOMAIN inbound[m] : j <= n}})))

----------------------------------------------------------------------------
Next ==
    \/ Tick
    \/ \E q \in Queries, ttl \in TTL, created \in {t \in {now - 1, now} : t > 0} :
          CreateQuery(q, created, ttl)
    \/ \E q \in Queries : GetQuery(q)
    \/ SweepExpiredQueries
    \/ \E m \in Members : GetQueuedQueriesForMember(m)
    \/ \E q \in Queries : UpdateQueryStatus(q, "dispatched", NoAnswer, FALSE)
    \/ \E q \in Queries, st \in Responded, a \in Answers \cup {NoAnswer}, f \in BOOLEAN :
          UpdateQueryStatus(q, st, a, f)
    \/ \E m \in Members : RequeueInFlightQueries(m)
    \/ Compact
    \/ Crash
    \/ \E S \in SUBSET Stale(Queries) : CrashDuringSweep(S)
    \/ \E m \in Members : \E n \in 1 .. Len(inbound[m]) : CrashDuringRequeue(m, n)

Spec == Init /\ [][Next]_vars

----------------------------------------------------------------------------
(* Properties.                                                              *)

Image ==
    [recs: [Queries -> Record], inbound: [Members -> Seq(Queries)]]

\* Every index of the Store, in memory and as replayed, has its Go type.
TypeOK ==
    /\ now \in Nat
    /\ recs \in [Queries -> Record]
    /\ inbound \in [Members -> Seq(Queries)]
    /\ disk \in Image

\* What a caller was told survives a crash at any instant: replaying
\* events.jsonl gives every query the status, answer, error, creation time
\* and TTL that the record in memory has, whichever methods wrote them.
SameOutcome(r, s) ==
    /\ r.status = s.status
    /\ r.answer = s.answer
    /\ r.failed = s.failed
    /\ r.createdAt = s.createdAt
    /\ r.ttlExpiresAt = s.ttlExpiresAt

OutcomeIsDurable == \A q \in Queries : SameOutcome(recs[q], disk.recs[q])

\* A created query is in its target's inbound queue exactly once and in no
\* other, in memory and after any mixture of crashes and compactions: a
\* reconnecting daemon is offered each of its queries, and once.
IndexedOnce(line) ==
    \A m \in Members, q \in Queries :
        Cardinality({i \in DOMAIN line[m] : line[m][i] = q})
            = IF q \in Created /\ Target[q] = m THEN 1 ELSE 0

QueuesAreExact == IndexedOnce(inbound) /\ IndexedOnce(disk.inbound)

\* The queue position GetQuery and GetQueuePosition report to an asker is the
\* place of the query in the list GetQueuedQueriesForMember hands to the
\* drain, though the two methods count separately.
PositionsAgree ==
    \A m \in Members : \A i \in DOMAIN QueuedFor(m) : QueuePosition(QueuedFor(m)[i]) = i

\* The queues are right, in memory and in the log: well-typed, each query once,
\* and every reported position that of the drain.
QueuesAreRight == TypeOK /\ QueuesAreExact /\ PositionsAgree

\* The Store implements the abstract life cycle of a query: no expiry,
\* requeue, crash, replay or compaction loses a query or its answer or moves
\* a query along any other edge; a crash and a compaction are invisible.
Lifecycle == INSTANCE QueryLifecycle WITH
    status <- [q \in Queries |-> recs[q].status],
    answer <- [q \in Queries |-> recs[q].answer]

ImplementsLifecycle == Lifecycle!Spec
=============================================================================
