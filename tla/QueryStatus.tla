---------------------------- MODULE QueryStatus ----------------------------
(* The status taxonomy of a query (internal/protocol/envelope.go), and the  *)
(* two status changes the Store makes by itself.  "absent" is a query id    *)
(* that is not yet a key of queriesByID.                                    *)
EXTENDS Integers, Sequences

\* A query that still waits for an answer: the Store may expire or requeue it.
Active == {"queued", "dispatched"}

\* What a daemon's query_response may carry once the Hub has normalised
\* "success" and "" to "completed".
Responded == {"completed", "refused", "error", "timeout"}

Terminal == Responded \cup {"expired"}

Status == {"absent"} \cup Active \cup Terminal

\* Mutant: only what waits in the queue expires.
ExpireQueuedOnly(st, stale) == IF st = "queued" /\ stale THEN "expired" ELSE st

\* The inline TTL check that GetQuery, SweepExpiredQueries and
\* GetQueuedQueriesForMember share; stale says that now > TTLExpiresAt.
ExpireIf(st, stale) == IF st \in Active /\ stale THEN "expired" ELSE st

\* Mutant: requeues whatever the member has, not only what is in flight.
RequeueEverything(st, stale) ==
    IF st = "absent" THEN st ELSE IF stale THEN "expired" ELSE "queued"

\* RequeueInFlightQueries for one query of the member's inbound list.
RequeueIf(st, stale) ==
    IF st # "dispatched" THEN st
    ELSE IF stale THEN "expired" ELSE "queued"

\* The loop of GetQueuedQueriesForMember over an inbound list: what is in S is
\* appended to the result.  It is SelectSeq, as a function the proofs unfold.
Kept(line, S) ==
    LET kept[n \in 0 .. Len(line)] ==
            IF n = 0 THEN <<>>
            ELSE IF line[n] \in S THEN Append(kept[n - 1], line[n]) ELSE kept[n - 1]
    IN  kept[Len(line)]

============================================================================
