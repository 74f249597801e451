-------------------------- MODULE QueryStoreProofs --------------------------
(* Durability of query outcomes and the implementation of QueryLifecycle,   *)
(* for every set of queries, members, answers and times to live, and for an *)
(* unbounded clock (MaxTime is any natural number).                         *)
(*                                                                          *)
(* Neither result depends on the order of the queues, so their inductive    *)
(* invariant leaves inbound and disk.inbound out: a requeue and a crash in  *)
(* the middle of one act query by query, whatever list they walk.  The      *)
(* queues themselves come last, with an invariant of their own.             *)
EXTENDS QueryStore, QueueLemmas, TLAPS

RecordsOK ==
    /\ now \in Nat
    /\ recs \in [Queries -> Record]
    /\ disk.recs \in [Queries -> Record]

DurableInv == RecordsOK /\ OutcomeIsDurable

\* The two effects of one logged update, on the record in memory (r) and on
\* the replayed one (d), keep the outcomes equal.
LEMMA UpdatedMatchesReplayed ==
    ASSUME NEW r \in Record, NEW d \in Record, SameOutcome(r, d), now \in Nat,
           NEW st \in Status, NEW a \in Answers \cup {NoAnswer}, NEW f \in BOOLEAN
    PROVE  /\ Updated(r, st, a, f) \in Record
           /\ Replayed(d, UpdateEvent(st, a, f, now)) \in Record
           /\ SameOutcome(Updated(r, st, a, f), Replayed(d, UpdateEvent(st, a, f, now)))
  BY DEF Updated, Replayed, UpdateEvent, SameOutcome, Record

LEMMA ExpiredMatchesReplayed ==
    ASSUME NEW r \in Record, NEW d \in Record, SameOutcome(r, d), now \in Nat
    PROVE  /\ Expired(r) \in Record
           /\ Replayed(d, ExpireEvent(now)) \in Record
           /\ SameOutcome(Expired(r), Replayed(d, ExpireEvent(now)))
  BY StoreAssumption
     DEF Expired, Replayed, ExpireEvent, UpdateEvent, SameOutcome, Record,
         Status, Active, Terminal, Responded

LEMMA RequeuedMatchesReplayed ==
    ASSUME NEW r \in Record, NEW d \in Record, SameOutcome(r, d), now \in Nat
    PROVE  /\ [r EXCEPT !.status = "queued"] \in Record
           /\ Replayed(d, RequeueEvent) \in Record
           /\ SameOutcome([r EXCEPT !.status = "queued"], Replayed(d, RequeueEvent))
  BY StoreAssumption
     DEF Replayed, RequeueEvent, UpdateEvent, SameOutcome, Record,
         Status, Active, Terminal, Responded

LEMMA DurableInit == Init => DurableInv
  BY DEF Init, DurableInv, RecordsOK, OutcomeIsDurable, SameOutcome, NoRecord, Record,
         Status, Active, Terminal, Responded

\* What each kind of step does to memory and to the image of the log.
LEMMA ExpireStalePreserves ==
    ASSUME DurableInv, NEW S, ExpireStale(S)
    PROVE  DurableInv'
  <1>1. ASSUME NEW q \in Queries
        PROVE  /\ recs'[q] \in Record
               /\ disk'.recs[q] \in Record
               /\ SameOutcome(recs'[q], disk'.recs[q])
    <2>1. /\ recs[q] \in Record /\ disk.recs[q] \in Record /\ now \in Nat
          /\ SameOutcome(recs[q], disk.recs[q])
      BY DEF DurableInv, RecordsOK, OutcomeIsDurable
    <2>2. CASE q \in Stale(S)
      <3>1. recs'[q] = Expired(recs[q])
        BY <2>2 DEF ExpireStale, ExpiredIfStale, Stale
      <3>2. disk'.recs[q] = Replayed(disk.recs[q], ExpireEvent(now))
        BY <2>1, <2>2 DEF ExpireStale, ApplyUpdated, ExpireEvents, Stale, SameOutcome, Active
      <3>3. QED
        BY <2>1, <3>1, <3>2, ExpiredMatchesReplayed
    <2>3. CASE q \notin Stale(S)
      <3>1. recs'[q] = recs[q]
        BY <2>3 DEF ExpireStale, ExpiredIfStale, Stale
      <3>2. disk'.recs[q] = disk.recs[q]
        BY <2>3 DEF ExpireStale, ApplyUpdated, ExpireEvents
      <3>3. QED
        BY <2>1, <3>1, <3>2
    <2>4. QED
      BY <2>2, <2>3
  <1>2. /\ now' \in Nat
        /\ recs' = [q \in Queries |-> recs'[q]]
        /\ disk'.recs = [q \in Queries |-> disk'.recs[q]]
    BY DEF ExpireStale, ApplyUpdated, DurableInv, RecordsOK
  <1>3. QED
    BY <1>1, <1>2 DEF DurableInv, RecordsOK, OutcomeIsDurable

LEMMA CreateQueryPreserves ==
    ASSUME DurableInv, NEW q \in Queries, NEW ttl \in TTL,
           NEW created \in Nat, CreateQuery(q, created, ttl)
    PROVE  DurableInv'
  <1>1. NewRecord(created, ttl) \in Record
    BY StoreAssumption
       DEF NewRecord, Record, Status, Active, Terminal, Responded
  <1>2. /\ now' = now
        /\ recs' = [recs EXCEPT ![q] = NewRecord(created, ttl)]
        /\ disk'.recs = [disk.recs EXCEPT ![q] = NewRecord(created, ttl)]
    BY DEF CreateQuery, ApplyCreated
  <1>3. ASSUME NEW x \in Queries
        PROVE  SameOutcome(recs'[x], disk'.recs[x])
    BY <1>1, <1>2 DEF DurableInv, RecordsOK, OutcomeIsDurable, SameOutcome
  <1>4. RecordsOK'
    BY <1>1, <1>2 DEF DurableInv, RecordsOK
  <1>5. QED
    BY <1>3, <1>4 DEF DurableInv, OutcomeIsDurable

LEMMA UpdateQueryStatusPreserves ==
    ASSUME DurableInv, NEW q \in Queries, NEW st \in Status,
           NEW a \in Answers \cup {NoAnswer}, NEW f \in BOOLEAN,
           UpdateQueryStatus(q, st, a, f)
    PROVE  DurableInv'
  <1>1. /\ recs[q] \in Record /\ disk.recs[q] \in Record /\ now \in Nat
        /\ SameOutcome(recs[q], disk.recs[q])
    BY DEF DurableInv, RecordsOK, OutcomeIsDurable
  <1>2. recs' = [recs EXCEPT ![q] = Updated(recs[q], st, a, f)] /\ now' = now
    BY DEF UpdateQueryStatus
  <1>3. disk.recs[q].status # "absent"
    BY <1>1 DEF UpdateQueryStatus, SameOutcome
  <1>4. disk'.recs = [x \in Queries |->
             IF x = q THEN Replayed(disk.recs[x], UpdateEvent(st, a, f, now)) ELSE disk.recs[x]]
    BY <1>3 DEF UpdateQueryStatus, ApplyUpdated
  <1>5. /\ Updated(recs[q], st, a, f) \in Record
        /\ Replayed(disk.recs[q], UpdateEvent(st, a, f, now)) \in Record
        /\ SameOutcome(Updated(recs[q], st, a, f),
                       Replayed(disk.recs[q], UpdateEvent(st, a, f, now)))
    BY <1>1, UpdatedMatchesReplayed
  <1>6. RecordsOK'
    BY <1>2, <1>4, <1>5 DEF DurableInv, RecordsOK
  <1>7. ASSUME NEW x \in Queries
        PROVE  SameOutcome(recs'[x], disk'.recs[x])
    <2>1. CASE x = q
      BY <2>1, <1>2, <1>4, <1>5 DEF DurableInv, RecordsOK
    <2>2. CASE x # q
      BY <2>2, <1>2, <1>4 DEF DurableInv, RecordsOK, OutcomeIsDurable
    <2>3. QED
      BY <2>1, <2>2
  <1>8. QED
    BY <1>6, <1>7 DEF DurableInv, OutcomeIsDurable

\* The image after the requeue events of any set of queries, whether or not
\* the memory was updated too.
LEMMA RequeueEventsReplay ==
    ASSUME DurableInv, NEW S, NEW q \in Queries
    PROVE  LET d == ApplyUpdated(disk, RequeueEvents(S)).recs[q]
               r == IF q \in S THEN Requeued(recs[q]) ELSE recs[q]
           IN  d \in Record /\ r \in Record /\ SameOutcome(r, d)
  <1> DEFINE d == ApplyUpdated(disk, RequeueEvents(S)).recs[q]
             r == IF q \in S THEN Requeued(recs[q]) ELSE recs[q]
  <1>1. /\ recs[q] \in Record /\ disk.recs[q] \in Record /\ now \in Nat
        /\ SameOutcome(recs[q], disk.recs[q])
    BY DEF DurableInv, RecordsOK, OutcomeIsDurable
  <1>2. CASE q \notin InFlight(S)
    <2>1. d = disk.recs[q]
      BY <1>2 DEF ApplyUpdated, RequeueEvents
    <2>2. r = recs[q]
      BY <1>2 DEF Requeued, InFlight
    <2>3. QED
      BY <1>1, <2>1, <2>2
  <1>3. CASE q \in InFlight(S) /\ IsStale(recs[q])
    <2>1. d = Replayed(disk.recs[q], ExpireEvent(now))
      BY <1>1, <1>3 DEF ApplyUpdated, RequeueEvents, InFlight, SameOutcome
    <2>2. r = Expired(recs[q])
      BY <1>3 DEF Requeued, InFlight
    <2>3. QED
      BY <1>1, <2>1, <2>2, ExpiredMatchesReplayed
  <1>4. CASE q \in InFlight(S) /\ ~IsStale(recs[q])
    <2>1. d = Replayed(disk.recs[q], RequeueEvent)
      BY <1>1, <1>4 DEF ApplyUpdated, RequeueEvents, InFlight, SameOutcome
    <2>2. r = [recs[q] EXCEPT !.status = "queued"]
      BY <1>4 DEF Requeued, InFlight
    <2>3. QED
      BY <1>1, <2>1, <2>2, RequeuedMatchesReplayed
  <1>5. QED
    BY <1>2, <1>3, <1>4

\* Restarting from an image whose records are well formed loses nothing that
\* the image holds: memory and image are then the same.
LEMMA RestartPreserves ==
    ASSUME NEW img, img.recs \in [Queries -> Record], now \in Nat, RestartFrom(img)
    PROVE  DurableInv'
  BY DEF RestartFrom, DurableInv, RecordsOK, OutcomeIsDurable, SameOutcome

LEMMA ExpireEventsReplay ==
    ASSUME DurableInv, NEW S, NEW q \in Queries
    PROVE  ApplyUpdated(disk, ExpireEvents(S)).recs[q]
             = IF q \in Stale(S) THEN Replayed(disk.recs[q], ExpireEvent(now))
               ELSE disk.recs[q]
  BY DEF ApplyUpdated, ExpireEvents, Stale, DurableInv, OutcomeIsDurable, SameOutcome,
         RecordsOK, Active

LEMMA DurableNext == DurableInv /\ [Next]_vars => DurableInv'
  <1> SUFFICES ASSUME DurableInv, [Next]_vars
               PROVE  DurableInv'
    OBVIOUS
  <1>0. now \in Nat /\ disk.recs \in [Queries -> Record]
    BY DEF DurableInv, RecordsOK
  <1>1. CASE Tick
    BY <1>1 DEF Tick, DurableInv, RecordsOK, OutcomeIsDurable
  <1>2. ASSUME NEW q \in Queries, NEW ttl \in TTL, 
               NEW created \in {t \in {now - 1, now} : t > 0},
               CreateQuery(q, created, ttl)
        PROVE  DurableInv'
    <2>1. created \in Nat
      BY <1>0
    <2>2. QED
      BY <1>2, <2>1, CreateQueryPreserves
  <1>3. ASSUME NEW q \in Queries, GetQuery(q)
        PROVE  DurableInv'
    BY <1>3, ExpireStalePreserves DEF GetQuery
  <1>4. CASE SweepExpiredQueries
    BY <1>4, ExpireStalePreserves DEF SweepExpiredQueries
  <1>5. ASSUME NEW m \in Members, GetQueuedQueriesForMember(m)
        PROVE  DurableInv'
    BY <1>5, ExpireStalePreserves DEF GetQueuedQueriesForMember
  <1>6. ASSUME NEW q \in Queries, UpdateQueryStatus(q, "dispatched", NoAnswer, FALSE)
        PROVE  DurableInv'
    <2>1. "dispatched" \in Status
      BY DEF Status, Active
    <2>2. QED
      BY <1>6, <2>1, UpdateQueryStatusPreserves
  <1>7. ASSUME NEW q \in Queries, NEW st \in Responded, NEW a \in Answers \cup {NoAnswer},
               NEW f \in BOOLEAN, UpdateQueryStatus(q, st, a, f)
        PROVE  DurableInv'
    <2>1. st \in Status
      BY DEF Status, Terminal
    <2>2. QED
      BY <1>7, <2>1, UpdateQueryStatusPreserves
  <1>8. ASSUME NEW m \in Members, RequeueInFlightQueries(m)
        PROVE  DurableInv'
    <2>1. ASSUME NEW q \in Queries
          PROVE  /\ recs'[q] \in Record
                 /\ disk'.recs[q] \in Record
                 /\ SameOutcome(recs'[q], disk'.recs[q])
      BY <1>8, RequeueEventsReplay DEF RequeueInFlightQueries
    <2>2. /\ now' \in Nat
          /\ recs' = [q \in Queries |-> recs'[q]]
          /\ disk'.recs = [q \in Queries |-> disk'.recs[q]]
      BY <1>0, <1>8 DEF RequeueInFlightQueries, ApplyUpdated
    <2>3. QED
      BY <2>1, <2>2 DEF DurableInv, RecordsOK, OutcomeIsDurable
  <1>9. CASE Compact
    BY <1>9 DEF Compact, DurableInv, RecordsOK, OutcomeIsDurable, SameOutcome
  <1>10. CASE Crash
    BY <1>0, <1>10, RestartPreserves DEF Crash
  <1>11. ASSUME NEW S \in SUBSET Stale(Queries), CrashDuringSweep(S)
         PROVE  DurableInv'
    <2>1. ASSUME NEW q \in Queries
          PROVE  ApplyUpdated(disk, ExpireEvents(S)).recs[q] \in Record
      <3>1. /\ recs[q] \in Record /\ disk.recs[q] \in Record
            /\ SameOutcome(recs[q], disk.recs[q])
        BY DEF DurableInv, RecordsOK, OutcomeIsDurable
      <3>2. Replayed(disk.recs[q], ExpireEvent(now)) \in Record
        BY <1>0, <3>1, ExpiredMatchesReplayed
      <3>3. QED
        BY <3>1, <3>2, ExpireEventsReplay
    <2>2. ApplyUpdated(disk, ExpireEvents(S)).recs \in [Queries -> Record]
      BY <2>1 DEF ApplyUpdated
    <2>3. QED
      BY <1>0, <1>11, <2>2, RestartPreserves DEF CrashDuringSweep
  <1>12. ASSUME NEW m \in Members, NEW n \in 1 .. Len(inbound[m]), CrashDuringRequeue(m, n)
         PROVE  DurableInv'
    <2> DEFINE S == {inbound[m][i] : i \in {j \in DOMAIN inbound[m] : j <= n}}
    <2>1. ASSUME NEW q \in Queries
          PROVE  ApplyUpdated(disk, RequeueEvents(S)).recs[q] \in Record
      BY RequeueEventsReplay
    <2>2. ApplyUpdated(disk, RequeueEvents(S)).recs \in [Queries -> Record]
      BY <2>1 DEF ApplyUpdated
    <2>3. QED
      BY <1>0, <1>12, <2>2, RestartPreserves DEF CrashDuringRequeue
  <1>13. CASE UNCHANGED vars
    BY <1>13 DEF vars, DurableInv, RecordsOK, OutcomeIsDurable
  <1>14. QED
    BY <1>1, <1>2, <1>3, <1>4, <1>5, <1>6, <1>7, <1>8, <1>9, <1>10, <1>11, <1>12, <1>13
       DEF Next

\* Whatever methods, crashes, replays and compactions have run, replaying
\* events.jsonl yields the status, answer, error, creation time and TTL that
\* callers were told.
THEOREM OutcomeDurability == Spec => []OutcomeIsDurable
  <1>1. DurableInv => OutcomeIsDurable
    BY DEF DurableInv
  <1>2. QED
    BY <1>1, DurableInit, DurableNext, PTL DEF Spec

----------------------------------------------------------------------------
(* Implementation of QueryLifecycle.  Edge is Lifecycle!Move on the records *)
(* of one query before and after a step.                                    *)

Edge(r, s) ==
    \/ s.status = r.status /\ s.answer = r.answer
    \/ r.status = "absent" /\ s.status = "queued" /\ s.answer = r.answer
    \/ r.status # "absent" /\ s.status = "dispatched" /\ s.answer = r.answer
    \/ r.status = "dispatched" /\ s.status = "queued" /\ s.answer = r.answer
    \/ r.status \in Active /\ s.status = "expired" /\ s.answer = r.answer
    \/ r.status # "absent" /\ s.status \in Responded /\ s.answer \in Answers \cup {r.answer}

\* An outcome kept on disk gives the same edge as the record in memory.
LEMMA EdgeOfOutcome ==
    ASSUME NEW r, NEW s, NEW d, Edge(r, s), SameOutcome(s, d)
    PROVE  Edge(r, d)
  BY DEF Edge, SameOutcome

LEMMA ExpiredEdge ==
    ASSUME NEW r \in Record, r.status \in Active
    PROVE  Edge(r, Expired(r))
  BY DEF Edge, Expired, Record

LEMMA RequeuedEdge ==
    ASSUME NEW r \in Record
    PROVE  Edge(r, Requeued(r))
  <1>1. CASE r.status # "dispatched"
    BY <1>1 DEF Edge, Requeued
  <1>2. CASE r.status = "dispatched" /\ IsStale(r)
    <2>1. Requeued(r) = Expired(r)
      BY <1>2 DEF Requeued
    <2>2. QED
      BY <1>2, <2>1, ExpiredEdge DEF Active
  <1>3. CASE r.status = "dispatched" /\ ~IsStale(r)
    BY <1>3 DEF Edge, Requeued, Record
  <1>4. QED
    BY <1>1, <1>2, <1>3

LEMMA UpdatedEdge ==
    ASSUME NEW r \in Record, r.status # "absent", NEW st \in Responded \cup {"dispatched"},
           NEW a \in Answers \cup {NoAnswer}, NEW f \in BOOLEAN,
           st = "dispatched" => a = NoAnswer
    PROVE  Edge(r, Updated(r, st, a, f))
  BY DEF Edge, Updated, Record

AbsentIsBlank ==
    \A q \in Queries : recs[q].status = "absent" => recs[q].answer = NoAnswer

LEMMA EveryStepIsAnEdge ==
    ASSUME DurableInv, AbsentIsBlank, Next, NEW q \in Queries
    PROVE  Edge(recs[q], recs'[q])
  <1>0. /\ recs \in [Queries -> Record] /\ disk.recs \in [Queries -> Record]
        /\ recs[q] \in Record /\ disk.recs[q] \in Record
        /\ SameOutcome(recs[q], disk.recs[q]) /\ now \in Nat
    BY DEF DurableInv, RecordsOK, OutcomeIsDurable
  <1>1. ASSUME recs'[q] = recs[q]
        PROVE  Edge(recs[q], recs'[q])
    BY <1>1 DEF Edge
  <1>2. CASE Tick \/ Compact
    BY <1>1, <1>2 DEF Tick, Compact
  <1>3. ASSUME NEW x \in Queries, NEW ttl, NEW created, CreateQuery(x, created, ttl)
        PROVE  Edge(recs[q], recs'[q])
    <2>1. CASE x = q
      <3>1. recs'[q] = NewRecord(created, ttl)
        BY <1>0, <1>3, <2>1 DEF CreateQuery
      <3>2. recs[q].status = "absent"
        BY <1>3, <2>1 DEF CreateQuery
      <3>3. recs[q].answer = NoAnswer
        BY <3>2 DEF AbsentIsBlank
      <3>4. QED
        BY <3>1, <3>2, <3>3 DEF Edge, NewRecord
    <2>2. CASE x # q
      BY <1>0, <1>1, <1>3, <2>2 DEF CreateQuery
    <2>3. QED
      BY <2>1, <2>2
  <1>4. ASSUME NEW S, ExpireStale(S)
        PROVE  Edge(recs[q], recs'[q])
    <2>1. recs'[q] = IF q \in Stale(S) THEN Expired(recs[q]) ELSE recs[q]
      BY <1>4 DEF ExpireStale, ExpiredIfStale, Stale
    <2>2. QED
      BY <1>0, <1>1, <2>1, ExpiredEdge DEF Stale
  <1>5. CASE \/ \E x \in Queries : GetQuery(x)
             \/ SweepExpiredQueries
             \/ \E m \in Members : GetQueuedQueriesForMember(m)
    BY <1>4, <1>5 DEF GetQuery, SweepExpiredQueries, GetQueuedQueriesForMember
  <1>6. ASSUME NEW x \in Queries, NEW st \in Responded \cup {"dispatched"},
               NEW a \in Answers \cup {NoAnswer}, NEW f \in BOOLEAN,
               st = "dispatched" => a = NoAnswer, UpdateQueryStatus(x, st, a, f)
        PROVE  Edge(recs[q], recs'[q])
    <2>1. CASE x = q
      <3>1. recs'[q] = Updated(recs[q], st, a, f) /\ recs[q].status # "absent"
        BY <1>0, <1>6, <2>1 DEF UpdateQueryStatus
      <3>2. QED
        BY <1>0, <1>6, <3>1, UpdatedEdge
    <2>2. CASE x # q
      BY <1>0, <1>1, <1>6, <2>2 DEF UpdateQueryStatus
    <2>3. QED
      BY <2>1, <2>2
  <1>7. ASSUME NEW m \in Members, RequeueInFlightQueries(m)
        PROVE  Edge(recs[q], recs'[q])
    <2>1. recs'[q] = IF q \in ToSet(inbound[m]) THEN Requeued(recs[q]) ELSE recs[q]
      BY <1>7 DEF RequeueInFlightQueries
    <2>2. QED
      BY <1>0, <1>1, <2>1, RequeuedEdge
  <1>8. CASE Crash
    <2>1. recs'[q] = disk.recs[q]
      BY <1>8 DEF Crash, RestartFrom
    <2>2. QED
      BY <1>0, <2>1 DEF Edge, SameOutcome
  <1>9. ASSUME NEW S, CrashDuringSweep(S)
        PROVE  Edge(recs[q], recs'[q])
    <2>1. recs'[q] = IF q \in Stale(S) THEN Replayed(disk.recs[q], ExpireEvent(now))
                     ELSE disk.recs[q]
      BY <1>9, ExpireEventsReplay DEF CrashDuringSweep, RestartFrom
    <2>2. CASE q \in Stale(S)
      <3>1. Edge(recs[q], Expired(recs[q]))
        BY <1>0, <2>2, ExpiredEdge DEF Stale
      <3>2. SameOutcome(Expired(recs[q]), Replayed(disk.recs[q], ExpireEvent(now)))
        BY <1>0, ExpiredMatchesReplayed
      <3>3. QED
        BY <2>1, <2>2, <3>1, <3>2, EdgeOfOutcome
    <2>3. CASE q \notin Stale(S)
      BY <1>0, <2>1, <2>3 DEF Edge, SameOutcome
    <2>4. QED
      BY <2>2, <2>3
  <1>10. ASSUME NEW m, NEW n, CrashDuringRequeue(m, n)
         PROVE  Edge(recs[q], recs'[q])
    <2> DEFINE S == {inbound[m][i] : i \in {j \in DOMAIN inbound[m] : j <= n}}
               r == IF q \in S THEN Requeued(recs[q]) ELSE recs[q]
    <2>1. recs'[q] = ApplyUpdated(disk, RequeueEvents(S)).recs[q]
      BY <1>10 DEF CrashDuringRequeue, RestartFrom
    <2>2. SameOutcome(r, recs'[q])
      BY <2>1, RequeueEventsReplay
    <2>3. Edge(recs[q], r)
      BY <1>0, RequeuedEdge DEF Edge
    <2>4. QED
      BY <2>2, <2>3, EdgeOfOutcome
  <1>11. CASE \E x \in Queries : UpdateQueryStatus(x, "dispatched", NoAnswer, FALSE)
    <2>1. PICK x \in Queries : UpdateQueryStatus(x, "dispatched", NoAnswer, FALSE)
      BY <1>11
    <2>2. QED
      BY <1>6, <2>1
  <1>12. CASE \E x \in Queries, st \in Responded, a \in Answers \cup {NoAnswer}, f \in BOOLEAN :
                 UpdateQueryStatus(x, st, a, f)
    <2>1. PICK x \in Queries, st \in Responded, a \in Answers \cup {NoAnswer}, f \in BOOLEAN :
                 UpdateQueryStatus(x, st, a, f)
      BY <1>12
    <2>2. st # "dispatched"
      BY DEF Responded
    <2>3. QED
      BY <1>6, <2>1, <2>2
  <1>13. QED
    BY <1>2, <1>3, <1>5, <1>7, <1>8, <1>9, <1>10, <1>11, <1>12 DEF Next

\* The mapped variables make a step of Lifecycle, or none.
LEMMA StepImplementsLifecycle ==
    ASSUME DurableInv, DurableInv', AbsentIsBlank, [Next]_vars
    PROVE  [Lifecycle!Next]_(Lifecycle!vars) /\ AbsentIsBlank'
  <1>0. /\ recs \in [Queries -> Record] /\ recs' \in [Queries -> Record]
    BY DEF DurableInv, RecordsOK
  <1>1. CASE UNCHANGED vars
    BY <1>1 DEF vars, Lifecycle!vars, AbsentIsBlank
  <1>2. CASE Next
    <2>1. ASSUME NEW q \in Queries
          PROVE  /\ Lifecycle!Move(q)
                 /\ recs'[q].status = "absent" => recs'[q].answer = NoAnswer
      <3>1. Edge(recs[q], recs'[q])
        BY <1>2, EveryStepIsAnEdge
      <3>2. Lifecycle!Move(q)
        BY <3>1 DEF Edge, Lifecycle!Move, Lifecycle!Stay, Lifecycle!Create,
                    Lifecycle!SetDispatched, Lifecycle!Requeue, Lifecycle!Expire,
                    Lifecycle!Respond, Lifecycle!Active, Lifecycle!Responded,
                    Active, Responded
      <3>3. recs'[q].status = "absent" => recs'[q].answer = NoAnswer
        BY <3>1 DEF Edge, AbsentIsBlank, Responded
      <3>4. QED
        BY <3>2, <3>3
    <2>2. /\ [q \in Queries |-> recs'[q].status] \in [Queries -> Lifecycle!Status]
          /\ [q \in Queries |-> recs'[q].answer] \in [Queries -> Answers \cup {NoAnswer}]
      BY <1>0 DEF Record, Status, Active, Terminal, Responded, Lifecycle!Status,
                  Lifecycle!Active, Lifecycle!Terminal, Lifecycle!Responded
    <2>3. Lifecycle!Next
      BY <2>1, <2>2 DEF Lifecycle!Next
    <2>4. QED
      BY <2>1, <2>3 DEF AbsentIsBlank
  <1>3. QED
    BY <1>1, <1>2

\* The Store, with its log, its crashes and its compactions, implements the
\* abstract life cycle of a query for every set of queries, members, answers
\* and times to live.
THEOREM StoreImplementsLifecycle == Spec => ImplementsLifecycle
  <1>1. Init => Lifecycle!Init /\ AbsentIsBlank
    BY DEF Init, Lifecycle!Init, AbsentIsBlank, NoRecord
  <1>2. QED
    BY <1>1, DurableInit, DurableNext, StepImplementsLifecycle, PTL
       DEF Spec, ImplementsLifecycle, Lifecycle!Spec

----------------------------------------------------------------------------
(* The queues.  A step creates one query, at the end of its queue, or       *)
(* leaves the set of created queries alone and takes each queue over from   *)
(* memory, from the log or from a snapshot.  For a snapshot to be a list at *)
(* all, the created queries must be finitely many.                          *)

Queue == [Members -> Seq(Queries)]

Places(line, q) == {i \in DOMAIN line : line[i] = q}

\* The query is in the list once if here, and not at all otherwise.
IsIn(line, q, here) ==
    IF here THEN \E i : Places(line, q) = {i} ELSE Places(line, q) = {}

AllOnce(lines) ==
    \A m \in Members, q \in Queries : IsIn(lines[m], q, q \in Created /\ Target[q] = m)

QueueInv ==
    /\ disk = [recs |-> disk.recs, inbound |-> disk.inbound]
    /\ inbound \in Queue /\ disk.inbound \in Queue
    /\ IsFiniteSet(Created)
    /\ AllOnce(inbound) /\ AllOnce(disk.inbound)

SameCreated == \A q \in Queries : recs'[q].status = "absent" <=> recs[q].status = "absent"

Snapshot == [m \in Members |-> SnapshotOrder(m)]

Carries ==
    /\ SameCreated
    /\ inbound' \in {inbound, disk.inbound}
    /\ disk'.inbound \in {disk.inbound, Snapshot}
    /\ disk' = [recs |-> disk'.recs, inbound |-> disk'.inbound]

LEMMA SnapshotIsExact ==
    ASSUME DurableInv, IsFiniteSet(Created), NEW m \in Members
    PROVE  /\ SnapshotOrder(m) \in Seq(Queries)
           /\ \A q \in Queries : IsIn(SnapshotOrder(m), q, q \in Created /\ Target[q] = m)
  <1> DEFINE mine == {q \in Created : Target[q] = m}
  <1> DEFINE n == Cardinality(mine)
  <1> DEFINE R == {pq \in mine \X mine : OlderThan(pq[1], pq[2])}
  <1>1. mine \subseteq Queries /\ IsFiniteSet(mine)
    BY FS_Subset DEF Created
  <1>2. \A p, q \in mine : <<p, q>> \in R <=> OlderThan(p, q)
    OBVIOUS
  <1>3. \A q \in mine : recs[q].createdAt \in Nat /\ q \in Nat
    BY <1>1, StoreAssumption DEF DurableInv, RecordsOK, Record
  <1>4. IsStrictOrder(R, mine)
    <2>1. \A p \in mine : ~OlderThan(p, p)
      BY <1>3 DEF OlderThan
    <2>2. \A p, q, r \in mine : OlderThan(p, q) /\ OlderThan(q, r) => OlderThan(p, r)
      BY <1>3 DEF OlderThan
    <2>3. \A p, q \in mine : p # q => OlderThan(p, q) \/ OlderThan(q, p)
      BY <1>3 DEF OlderThan
    <2> HIDE DEF R
    <2>4. QED
      BY <1>2, <2>1, <2>2, <2>3 DEF IsStrictOrder
  <1>5. n \in Nat
    BY <1>1, FS_CardinalityType
  <1> DEFINE line == SnapshotOrder(m)
  <1>6. line \in [1 .. n -> mine] /\ \A i, j \in 1 .. n : i < j => OlderThan(line[i], line[j])
    <2>1. PICK l \in [1 .. n -> mine] : InOrder(l, R, n)
      BY <1>1, <1>4, SortedExists
    <2>2. \A i, j \in 1 .. n : i < j => OlderThan(l[i], l[j])
      BY <1>2, <2>1 DEF InOrder
    <2>3. QED
      BY <2>2 DEF SnapshotOrder
  <1> HIDE DEF line
  <1>7. InOrder(line, R, n)
    BY <1>2, <1>6 DEF InOrder
  <1>8. line \in Seq(Queries) /\ DOMAIN line = 1 .. n
    BY <1>1, <1>5, <1>6
  <1>9. ASSUME NEW q \in Queries
        PROVE  IsIn(line, q, q \in Created /\ Target[q] = m)
    <2>1. CASE q \in mine
      <3>1. PICK i \in 1 .. n : \A j \in 1 .. n : line[j] = q <=> j = i
        <4> HIDE DEF mine, R
        <4>1. Lists(line, mine, R)
          BY <1>6, <1>7 DEF Lists
        <4>2. FoundOnce(line, mine, q)
          BY <1>1, <1>4, <2>1, <4>1, SortedOnce
        <4>3. QED
          BY <4>2 DEF FoundOnce
      <3>2. Places(line, q) = {i}
        BY <1>8, <3>1 DEF Places
      <3>3. q \in Created /\ Target[q] = m
        BY <2>1
      <3>4. QED
        BY <3>2, <3>3 DEF IsIn
    <2>2. CASE q \notin mine
      BY <1>6, <1>8, <2>2 DEF IsIn, Places
    <2>3. QED
      BY <2>1, <2>2
  <1>10. QED
    BY <1>8, <1>9 DEF line

LEMMA AppendIsOnce ==
    ASSUME NEW line \in Seq(Queries), NEW x \in Queries, NEW q \in Queries
    PROVE  /\ x # q => Places(Append(line, x), q) = Places(line, q)
           /\ Places(line, x) = {} => Places(Append(line, x), x) = {Len(line) + 1}
  <1>1. /\ DOMAIN Append(line, x) = 1 .. Len(line) + 1 /\ DOMAIN line = 1 .. Len(line)
        /\ \A i \in 1 .. Len(line) : Append(line, x)[i] = line[i]
        /\ Append(line, x)[Len(line) + 1] = x
        /\ Len(line) \in Nat
    OBVIOUS
  <1>2. QED
    BY <1>1 DEF Places

\* Every step creates a query or carries the queues over.
LEMMA StepKinds ==
    ASSUME DurableInv, QueueInv, Next
    PROVE  \/ \E q \in Queries, ttl \in TTL, created \in Nat : CreateQuery(q, created, ttl)
           \/ Carries
  <1>0. /\ recs \in [Queries -> Record] /\ disk.recs \in [Queries -> Record] /\ now \in Nat
        /\ \A q \in Queries : SameOutcome(recs[q], disk.recs[q])
        /\ disk = [recs |-> disk.recs, inbound |-> disk.inbound]
    BY DEF DurableInv, RecordsOK, OutcomeIsDurable, QueueInv
  <1>1. CASE Tick
    BY <1>0, <1>1 DEF Tick, Carries, SameCreated
  <1>2. CASE \E q \in Queries, ttl \in TTL, created \in {t \in {now - 1, now} : t > 0} :
               CreateQuery(q, created, ttl)
    <2>1. \A t \in {now - 1, now} : t > 0 => t \in Nat
      BY <1>0
    <2>2. QED
      BY <1>2, <2>1
  <1>3. ASSUME NEW S, ExpireStale(S)
        PROVE  Carries
    <2>1. SameCreated
      BY <1>0, <1>3 DEF ExpireStale, ExpiredIfStale, Expired, SameCreated, Active, Record
    <2>2. QED
      BY <1>3, <2>1 DEF Carries, ExpireStale, ApplyUpdated
  <1>4. CASE \/ \E x \in Queries : GetQuery(x)
             \/ SweepExpiredQueries
             \/ \E m \in Members : GetQueuedQueriesForMember(m)
    BY <1>3, <1>4 DEF GetQuery, SweepExpiredQueries, GetQueuedQueriesForMember
  <1>5. ASSUME NEW x \in Queries, NEW st \in Responded \cup {"dispatched"}, NEW a, NEW f,
               UpdateQueryStatus(x, st, a, f)
        PROVE  Carries
    <2>1. SameCreated
      BY <1>0, <1>5 DEF UpdateQueryStatus, Updated, SameCreated, Responded, Record
    <2>2. QED
      BY <1>5, <2>1 DEF Carries, UpdateQueryStatus, ApplyUpdated
  <1>6. ASSUME NEW m \in Members, RequeueInFlightQueries(m)
        PROVE  Carries
    <2>1. SameCreated
      BY <1>0, <1>6 DEF RequeueInFlightQueries, Requeued, Expired, SameCreated, Record
    <2>2. QED
      BY <1>6, <2>1 DEF Carries, RequeueInFlightQueries, ApplyUpdated
  <1>7. CASE Compact
    BY <1>7 DEF Compact, Carries, SameCreated, Snapshot
  <1>8. CASE Crash
    BY <1>0, <1>8 DEF Crash, RestartFrom, Carries, SameCreated, SameOutcome
  <1>9. ASSUME NEW S, CrashDuringSweep(S)
        PROVE  Carries
    <2>1. ASSUME NEW q \in Queries
          PROVE  recs'[q].status = "absent" <=> recs[q].status = "absent"
      <3>1. recs'[q] = IF q \in Stale(S) THEN Replayed(disk.recs[q], ExpireEvent(now))
                       ELSE disk.recs[q]
        BY <1>9, ExpireEventsReplay DEF CrashDuringSweep, RestartFrom
      <3>2. disk.recs[q] \in Record /\ disk.recs[q].status = recs[q].status
        BY <1>0 DEF SameOutcome
      <3>3. QED
        BY <3>1, <3>2 DEF Replayed, ExpireEvent, UpdateEvent, Stale, Active, Record
    <2>2. QED
      BY <1>9, <2>1 DEF Carries, SameCreated, CrashDuringSweep, RestartFrom, ApplyUpdated
  <1>10. ASSUME NEW m, NEW n, CrashDuringRequeue(m, n)
         PROVE  Carries
    <2> DEFINE S == {inbound[m][i] : i \in {j \in DOMAIN inbound[m] : j <= n}}
    <2>1. ASSUME NEW q \in Queries
          PROVE  recs'[q].status = "absent" <=> recs[q].status = "absent"
      <3> DEFINE r == IF q \in S THEN Requeued(recs[q]) ELSE recs[q]
      <3>1. recs'[q] = ApplyUpdated(disk, RequeueEvents(S)).recs[q]
        BY <1>10 DEF CrashDuringRequeue, RestartFrom
      <3>2. SameOutcome(r, recs'[q])
        BY <3>1, RequeueEventsReplay
      <3>3. r.status = "absent" <=> recs[q].status = "absent"
        BY <1>0 DEF Requeued, Expired, Record
      <3>4. QED
        BY <3>2, <3>3 DEF SameOutcome
    <2>2. QED
      BY <1>10, <2>1 DEF Carries, SameCreated, CrashDuringRequeue, RestartFrom, ApplyUpdated
  <1>11. CASE \E x \in Queries : UpdateQueryStatus(x, "dispatched", NoAnswer, FALSE)
    BY <1>5, <1>11
  <1>12. CASE \E x \in Queries, st \in Responded, a \in Answers \cup {NoAnswer}, f \in BOOLEAN :
                 UpdateQueryStatus(x, st, a, f)
    BY <1>5, <1>12
  <1>13. QED
    BY <1>1, <1>2, <1>4, <1>6, <1>7, <1>8, <1>9, <1>10, <1>11, <1>12 DEF Next

LEMMA CarriesPreserves ==
    ASSUME DurableInv, QueueInv, Carries
    PROVE  QueueInv'
  <1>1. Created' = Created
    BY DEF Carries, SameCreated, Created
  <1>2. Snapshot \in Queue /\ AllOnce(Snapshot)
    BY SnapshotIsExact DEF Snapshot, Queue, AllOnce, QueueInv
  <1>3. AllOnce(inbound)' /\ AllOnce(disk.inbound)'
    BY <1>1, <1>2 DEF AllOnce, Carries, QueueInv
  <1>4. QED
    BY <1>1, <1>2, <1>3 DEF Carries, QueueInv

LEMMA CreatePreserves ==
    ASSUME DurableInv, QueueInv, NEW x \in Queries, NEW ttl \in TTL, NEW created \in Nat,
           CreateQuery(x, created, ttl)
    PROVE  QueueInv'
  <1>0. /\ recs \in [Queries -> Record] /\ recs[x].status = "absent"
        /\ disk.recs[x].status = "absent"
        /\ Target[x] \in Members
    BY StoreAssumption DEF CreateQuery, DurableInv, RecordsOK, OutcomeIsDurable, SameOutcome
  <1>1. Created' = Created \cup {x} /\ x \notin Created
    BY <1>0 DEF CreateQuery, NewRecord, Created
  <1>2. IsFiniteSet(Created')
    BY <1>1, FS_AddElement DEF QueueInv
  <1>3. ASSUME NEW lines \in Queue, AllOnce(lines)
        PROVE  /\ [lines EXCEPT ![Target[x]] = Append(@, x)] \in Queue
               /\ \A m \in Members, q \in Queries :
                     IsIn([lines EXCEPT ![Target[x]] = Append(@, x)][m], q,
                          q \in Created' /\ Target[q] = m)
    <2> DEFINE after == [lines EXCEPT ![Target[x]] = Append(@, x)]
    <2>1. after \in Queue /\ \A m \in Members :
             after[m] = IF m = Target[x] THEN Append(lines[m], x) ELSE lines[m]
      BY <1>0 DEF Queue
    <2>2. ASSUME NEW m \in Members, NEW q \in Queries
          PROVE  IsIn(after[m], q, q \in Created' /\ Target[q] = m)
      <3> HIDE DEF after
      <3>1. lines[m] \in Seq(Queries) /\ IsIn(lines[m], q, q \in Created /\ Target[q] = m)
        BY <1>3 DEF Queue, AllOnce
      <3>2. CASE m # Target[x]
        BY <1>1, <2>1, <3>1, <3>2
      <3>3. CASE m = Target[x] /\ q # x
        <4>1. Places(after[m], q) = Places(lines[m], q)
          BY <2>1, <3>1, <3>3, AppendIsOnce
        <4>2. q \in Created' <=> q \in Created
          BY <1>1, <3>3
        <4>3. QED
          BY <3>1, <4>1, <4>2 DEF IsIn
      <3>4. CASE m = Target[x] /\ q = x
        <4>1. Places(lines[m], x) = {}
          BY <1>1, <3>1, <3>4 DEF IsIn
        <4>2. Places(after[m], x) = {Len(lines[m]) + 1}
          BY <2>1, <3>1, <3>4, <4>1, AppendIsOnce
        <4>3. QED
          BY <1>1, <3>4, <4>2 DEF IsIn
      <3>5. QED
        BY <3>2, <3>3, <3>4
    <2>3. QED
      BY <2>1, <2>2
  <1>4. /\ inbound' = [inbound EXCEPT ![Target[x]] = Append(@, x)]
        /\ disk'.inbound = [disk.inbound EXCEPT ![Target[x]] = Append(@, x)]
        /\ disk' = [recs |-> disk'.recs, inbound |-> disk'.inbound]
    BY <1>0 DEF CreateQuery, ApplyCreated
  <1>5. inbound' \in Queue /\ AllOnce(inbound)'
    <2>1. inbound \in Queue /\ AllOnce(inbound)
      BY DEF QueueInv
    <2>2. QED
      BY <1>3, <1>4, <2>1 DEF AllOnce
  <1>6. disk'.inbound \in Queue /\ AllOnce(disk.inbound)'
    <2>1. disk.inbound \in Queue /\ AllOnce(disk.inbound)
      BY DEF QueueInv
    <2>2. QED
      BY <1>3, <1>4, <2>1 DEF AllOnce
  <1>7. QED
    BY <1>2, <1>4, <1>5, <1>6 DEF QueueInv

LEMMA QueueInit == Init => QueueInv
  <1> SUFFICES ASSUME Init PROVE QueueInv
    OBVIOUS
  <1>1. Created = {}
    BY DEF Init, NoRecord, Created
  <1>2. IsFiniteSet(Created)
    BY <1>1, FS_EmptySet
  <1>3. inbound \in Queue /\ \A m \in Members : inbound[m] = <<>>
    BY DEF Init, Queue
  <1>4. AllOnce(inbound)
    BY <1>1, <1>3 DEF AllOnce, IsIn, Places
  <1>5. disk = [recs |-> disk.recs, inbound |-> disk.inbound] /\ disk.inbound = inbound
    BY DEF Init
  <1>6. QED
    BY <1>2, <1>3, <1>4, <1>5 DEF QueueInv

LEMMA QueueNext == ASSUME DurableInv, QueueInv, [Next]_vars PROVE QueueInv'
  <1>1. CASE UNCHANGED vars
    BY <1>1 DEF vars, QueueInv, AllOnce, Created
  <1>2. CASE Next
    BY <1>2, StepKinds, CreatePreserves, CarriesPreserves
  <1>3. QED
    BY <1>1, <1>2

\* What the invariant says of the drain: the j-th query it is handed waits at a
\* place of the inbound list up to which j queries wait.
LEMMA DrainOrder ==
    ASSUME QueueInv, NEW m \in Members, NEW j \in DOMAIN QueuedFor(m)
    PROVE  QueuePosition(QueuedFor(m)[j]) = j
  <1> DEFINE line == inbound[m]
  <1> DEFINE W == {q \in Queries : Waiting(q)}
  <1> DEFINE x == QueuedFor(m)[j]
  <1>1. line \in Seq(Queries)
    BY DEF QueueInv, Queue
  <1>2. KeptOf(QueuedFor(m), Queries, line, W, Len(line))
    BY <1>1, KeptFacts DEF QueuedFor
  <1>3. PICK i \in 1 .. Len(line) : x = line[i] /\ x \in W /\ CountIn(line, W, i) = j
    <2>1. QueuedFor(m) \in Seq(Queries)
      BY <1>2 DEF KeptOf
    <2>2. j \in 1 .. Len(QueuedFor(m))
      BY <2>1
    <2>3. QED
      BY <1>2, <2>2 DEF KeptOf
  <1> HIDE DEF x
  <1>4. i \in Places(line, x)
    BY <1>1, <1>3 DEF Places
  <1>5. Target[x] = m /\ Places(line, x) = {i}
    <2>1. IsIn(line, x, x \in Created /\ Target[x] = m)
      BY <1>3 DEF QueueInv, AllOnce
    <2>2. QED
      BY <1>4, <2>1 DEF IsIn
  <1> DEFINE upto == {k \in DOMAIN line : \E l \in k .. Len(line) : line[l] = x}
  <1>6. upto = 1 .. i
    <2>1. \A l \in 1 .. Len(line) : line[l] = x <=> l = i
      BY <1>1, <1>5 DEF Places
    <2>2. DOMAIN line = 1 .. Len(line) /\ Len(line) \in Nat
      BY <1>1
    <2>3. \A k \in 1 .. Len(line) : k \in upto <=> k <= i
      BY <2>1, <2>2
    <2>4. QED
      BY <2>2, <2>3
  <1>7. {k \in upto : Waiting(line[k])} = {k \in 1 .. i : line[k] \in W}
    BY <1>1, <1>6
  <1>8. QueuePosition(x) = Cardinality({k \in upto : Waiting(line[k])})
    BY <1>3, <1>5 DEF QueuePosition
  <1>9. QED
    BY <1>3, <1>7, <1>8 DEF x, CountIn

LEMMA OnceIsOne ==
    ASSUME NEW lines, AllOnce(lines)
    PROVE  IndexedOnce(lines)
  <1> SUFFICES ASSUME NEW m \in Members, NEW q \in Queries
               PROVE  Cardinality(Places(lines[m], q))
                        = IF q \in Created /\ Target[q] = m THEN 1 ELSE 0
    BY DEF IndexedOnce, Places
  <1>1. IsIn(lines[m], q, q \in Created /\ Target[q] = m)
    BY DEF AllOnce
  <1>2. Cardinality({}) = 0 /\ \A i : Cardinality({i}) = 1
    BY FS_EmptySet, FS_Singleton
  <1>3. QED
    BY <1>1, <1>2 DEF IsIn

\* For every set of queries, members and times to live, and after any mixture
\* of sweeps, requeues, compactions and crashes: each created query is in its
\* target's inbound queue once and in no other, in memory and in what
\* events.jsonl replays to, and the position that calculateQueuePositionLocked
\* reports is the query's place in the list that the drain is handed.
THEOREM QueuesHold == Spec => []QueuesAreRight
  <1>1. DurableInv /\ QueueInv => QueuesAreRight
    <2> SUFFICES ASSUME DurableInv, QueueInv PROVE QueuesAreRight
      OBVIOUS
    <2>1. TypeOK
      <3>1. disk \in Image
        BY DEF DurableInv, RecordsOK, QueueInv, Queue, Image
      <3>2. QED
        BY <3>1 DEF TypeOK, DurableInv, RecordsOK, QueueInv, Queue
    <2>2. QueuesAreExact
      BY OnceIsOne DEF QueueInv, QueuesAreExact
    <2>3. PositionsAgree
      BY DrainOrder DEF PositionsAgree
    <2>4. QED
      BY <2>1, <2>2, <2>3 DEF QueuesAreRight
  <1>2. QED
    BY <1>1, DurableInit, DurableNext, QueueInit, QueueNext, PTL DEF Spec
=============================================================================
