----------------------------- MODULE Submission -----------------------------
(* Submitting a query to the Hub (handleQuerySubmit of internal/hub/hub.go  *)
(* up to the dispatch, ratelimit.go and the idempotency index of            *)
(* internal/store/store.go) with client retries under one idempotency key,  *)
(* and the shutdown of the Hub (Stop) under submissions that wait.          *)
(*                                                                          *)
(* A handler takes its locks one after the other, so each part is a step:   *)
(* the rate limiter, the cache, the Store's index, CreateQuery, the cache   *)
(* again, the Store's index again.  The attempts are those of one asker,    *)
(* numbered as they arrive; the query an attempt creates has its number.    *)
(* Dispatch and answers are HubDispatch's subject and here only end a wait. *)
EXTENDS Integers, Sequences, FiniteSets, FiniteSetsExt

CONSTANTS
    NAttempts,  \* number of POST /api/v1/queries requests
    Keys,       \* idempotency keys
    Key,        \* Key[a]: the key of attempt a
    None,
    TTL,        \* time to live of a query, and of its key in the Store
    CacheTTL,   \* time to live of a key in the cache
    Burst,
    Rate,       \* what a clock tick refills, in parts of a token
    Scale,      \* parts of a token
    MaxTime,    \* bound of the clock
    MaxCrashes, \* bound of the number of process ends
    Overlap     \* may an attempt start while another of its key is under way

Attempts == 1 .. NAttempts

ASSUME SubmissionAssumption ==
    /\ Key \in [Attempts -> Keys]
    /\ {NAttempts, TTL, CacheTTL, Burst, Rate, Scale, MaxTime, MaxCrashes} \subseteq Nat
    /\ Burst > 0 /\ Scale > 0 /\ MaxTime > 0 /\ Overlap \in BOOLEAN
    /\ None \notin Nat
    /\ None \notin [query: Attempts, expiresAt: Nat] \cup [tokens: Nat, lastRefill: Nat]

VARIABLES
    now,
    bucket,     \* buckets[asker]; tokens in parts
    cache,      \* idempotencyCache
    index,      \* the Store's idempotencyKeys
    queries,    \* TTLExpiresAt of the query an attempt has created
    handler,    \* where the handler of an attempt is
    got,        \* the query of the response the client has received
    stop,       \* Stop: "no", "closed" (stopCh), "drained", "done"
    crashes,
    passes      \* history: when the bucket has let a request through

vars == <<now, bucket, cache, index, queries, handler, got, stop, crashes, passes>>

hub == <<bucket, cache, index, queries, passes>>

Running == {a \in Attempts : handler[a] \notin {"idle", "over", "lost"}}

Goto(a, l) == handler' = [handler EXCEPT ![a] = l]

Respond(a, q) ==
    /\ Goto(a, "over")
    /\ got' = [got EXCEPT ![a] = q]

----------------------------------------------------------------------------
Init ==
    /\ now = 1
    /\ bucket = None
    /\ cache = [k \in Keys |-> None]
    /\ index = [k \in Keys |-> None]
    /\ queries = [a \in Attempts |-> None]
    /\ handler = [a \in Attempts |-> "idle"]
    /\ got = [a \in Attempts |-> None]
    /\ stop = "no"
    /\ crashes = 0
    /\ passes = <<>>

Tick ==
    /\ now < MaxTime
    /\ now' = now + 1
    /\ UNCHANGED <<hub, handler, got, stop, crashes>>

\* Mutant: the refill is not capped at the burst.
RefilledUncapped == bucket.tokens + (now - bucket.lastRefill) * Rate

Refilled ==
    Min({bucket.tokens + (now - bucket.lastRefill) * Rate, Burst * Scale})

\* rateLimiter.Allow: the first request finds no bucket and is let through.
Allow(ok) ==
    /\ IF bucket = None
       THEN /\ ok
            /\ bucket' = [tokens |-> (Burst - 1) * Scale, lastRefill |-> now]
       ELSE /\ ok <=> Refilled >= Scale
            /\ bucket' = [tokens |-> Refilled - (IF ok THEN Scale ELSE 0), lastRefill |-> now]
    /\ passes' = IF ok THEN Append(passes, now) ELSE passes

\* The request arrives: 429, or on to the idempotency check.
Begin(a) ==
    /\ handler[a] = "idle" /\ stop = "no"
    /\ a > 1 => handler[a - 1] # "idle"
    /\ Overlap \/ ~\E b \in Running : Key[b] = Key[a]
    /\ \E ok \in BOOLEAN :
        /\ Allow(ok)
        /\ Goto(a, IF ok THEN "cache?" ELSE "over")
    /\ UNCHANGED <<now, cache, index, queries, got, stop, crashes>>

\* The cache's record, if GetQuery still finds its query.
CheckCache(a) ==
    LET rec == cache[Key[a]] IN
    /\ handler[a] = "cache?"
    /\ IF rec # None /\ now < rec.expiresAt
       THEN Respond(a, rec.query)
       ELSE Goto(a, "index?") /\ UNCHANGED got
    /\ UNCHANGED <<now, hub, stop, crashes>>

\* GetQueryByIdempotencyKey.
CheckIndex(a) ==
    LET rec == index[Key[a]] IN
    /\ handler[a] = "index?"
    /\ IF rec # None /\ now <= rec.expiresAt
       THEN Respond(a, rec.query)
       ELSE Goto(a, "create") /\ UNCHANGED got
    /\ UNCHANGED <<now, hub, stop, crashes>>

\* ResolveTargetMember fails (no member or several), or CreateQuery fails.
Reject(a) ==
    /\ handler[a] = "create"
    /\ Goto(a, "over")
    /\ UNCHANGED <<now, hub, got, stop, crashes>>

CreateQuery(a) ==
    /\ handler[a] = "create"
    /\ queries' = [queries EXCEPT ![a] = now + TTL]
    /\ Goto(a, "cache!")
    /\ UNCHANGED <<now, bucket, cache, index, got, stop, crashes, passes>>

CacheKey(a) ==
    /\ handler[a] = "cache!"
    /\ cache' = [cache EXCEPT ![Key[a]] = [query |-> a, expiresAt |-> now + CacheTTL]]
    /\ Goto(a, "index!")
    /\ UNCHANGED <<now, bucket, index, queries, got, stop, crashes, passes>>

\* Mutant: the key expires with the cache's record.
SaveIdempotencyKeyForCache(a) ==
    /\ handler[a] = "index!"
    /\ index' = [index EXCEPT ![Key[a]] = [query |-> a, expiresAt |-> now + CacheTTL]]
    /\ Goto(a, "wait")
    /\ UNCHANGED <<now, bucket, cache, queries, got, stop, crashes, passes>>

\* The key lives as long as its query.
SaveIdempotencyKey(a) ==
    /\ handler[a] = "index!"
    /\ index' = [index EXCEPT ![Key[a]] = [query |-> a, expiresAt |-> queries[a]]]
    /\ Goto(a, "wait")
    /\ UNCHANGED <<now, bucket, cache, queries, got, stop, crashes, passes>>

\* The wait ends: the query is finished, or waitTimeout passes.  A request
\* without wait=true does not block here.
WaitEnds(a) ==
    /\ handler[a] = "wait"
    /\ Respond(a, a)
    /\ UNCHANGED <<now, hub, stop, crashes>>

\* Mutant: the wait has no case for stopCh.
WaitStoppedNever(a) == FALSE /\ UNCHANGED vars

\* The wait ends because stopCh is closed.
WaitStopped(a) ==
    /\ handler[a] = "wait" /\ stop = "closed"
    /\ Respond(a, a)
    /\ UNCHANGED <<now, hub, stop, crashes>>

\* The client hangs up while the handler waits (its timeout is far longer
\* than the steps before).
HangUp(a) ==
    /\ handler[a] = "wait"
    /\ Goto(a, "over")
    /\ UNCHANGED <<now, hub, got, stop, crashes>>

----------------------------------------------------------------------------
(* Stop, and the end of the process.                                        *)

StopBegins ==
    /\ stop = "no" /\ crashes < MaxCrashes
    /\ stop' = "closed"
    /\ UNCHANGED <<now, hub, handler, got, crashes>>

\* httpServer.Shutdown returns when no handler is left.
ShutdownReturns ==
    /\ stop = "closed" /\ Running = {}
    /\ stop' = "drained"
    /\ UNCHANGED <<now, hub, handler, got, crashes>>

\* shutdownTimeout passes while a handler is held up in the Store; a handler
\* that stopCh can wake is not held up.
ShutdownTimesOut ==
    /\ stop = "closed" /\ Running # {}
    /\ \A a \in Running : handler[a] # "wait"
    /\ handler' = [a \in Attempts |-> IF a \in Running THEN "lost" ELSE handler[a]]
    /\ stop' = "drained"
    /\ UNCHANGED <<now, hub, got, crashes>>

\* The Feishu clients and the daemons' sessions are closed; each wait has the
\* deadline of Stop's context.
CloseConnections ==
    /\ stop = "drained"
    /\ stop' = "done"
    /\ UNCHANGED <<now, hub, handler, got, crashes>>

\* The process ends, by Stop or by a crash, and a new one replays the Store.
NewProcess ==
    /\ stop = "done" \/ (stop = "no" /\ crashes < MaxCrashes)
    /\ crashes' = IF stop = "done" THEN crashes ELSE crashes + 1
    /\ stop' = "no"
    /\ bucket' = None
    /\ passes' = <<>>
    /\ cache' = [k \in Keys |-> None]
    /\ handler' = [a \in Attempts |-> IF a \in Running THEN "lost" ELSE handler[a]]
    /\ UNCHANGED <<now, index, queries, got>>

Handler(a) ==
    \/ CheckCache(a) \/ CheckIndex(a) \/ Reject(a)
    \/ CreateQuery(a) \/ CacheKey(a) \/ SaveIdempotencyKey(a)

Next ==
    \/ Tick
    \/ \E a \in Attempts :
        Begin(a) \/ Handler(a) \/ WaitEnds(a) \/ WaitStopped(a) \/ HangUp(a)
    \/ StopBegins \/ ShutdownReturns \/ ShutdownTimesOut \/ CloseConnections
    \/ NewProcess

Spec == Init /\ [][Next]_vars

\* Handlers run; a closed stopCh is selected; Stop goes on.  The end of a
\* wait by an answer or by waitTimeout (60 s, Stop's deadline is 10 s) is not
\* assumed.
Fairness ==
    /\ \A a \in Attempts : WF_vars(Handler(a)) /\ WF_vars(WaitStopped(a))
    /\ WF_vars(ShutdownReturns) /\ WF_vars(CloseConnections)

FairSpec == Spec /\ Fairness

----------------------------------------------------------------------------
(* Properties.                                                              *)

Expiring == [query: Attempts, expiresAt: Nat]

\* The type of the Hub's state and of the handlers.
TypeOK ==
    /\ now \in 1 .. MaxTime
    /\ bucket \in [tokens: 0 .. Burst * Scale, lastRefill: Nat] \cup {None}
    /\ cache \in [Keys -> Expiring \cup {None}]
    /\ index \in [Keys -> Expiring \cup {None}]
    /\ queries \in [Attempts -> Nat \cup {None}]
    /\ handler \in [Attempts -> {"idle", "cache?", "index?", "create", "cache!", "index!",
                            "wait", "over", "lost"}]
    /\ got \in [Attempts -> Attempts \cup {None}]
    /\ stop \in {"no", "closed", "drained", "done"}

Live(q) == queries[q] # None /\ now <= queries[q]

\* Clients that retry under one key until they have an answer all learn of
\* the same query while it lives: across the end of the cache's hour, a stop
\* of the Hub and a crash.
RetriesAgree ==
    \A a, b \in Attempts :
        /\ Key[a] = Key[b]
        /\ got[a] # None /\ got[b] # None
        /\ Live(got[a]) /\ Live(got[b])
        => got[a] = got[b]

\* A live query that the next retry would not find belongs to an attempt that
\* was never answered: one still under way, or cut off with its process
\* between CreateQuery and SaveIdempotencyKey.
OrphansAreUnanswered ==
    \A a \in Attempts :
        Live(a) /\ (index[Key[a]] = None \/ index[Key[a]].query # a)
        => handler[a] \in {"cache!", "index!", "lost"} /\ got[a] = None

\* Retries under one key are safe: whoever is answered learns of one query, and
\* a query beside it is one that nobody was told of.
RetriesAreSafe == TypeOK /\ RetriesAgree /\ OrphansAreUnanswered

\* In no period does the token bucket let more through than its burst and
\* what the period refills, however long the asker was idle before.
RateIsBounded ==
    \A i, j \in DOMAIN passes : i <= j =>
        (j - i + 1) * Scale <= Burst * Scale + (passes[j] - passes[i]) * Rate

\* Stop ends: submissions that wait for an answer do not hold it up.
StopReturns == (stop = "closed") ~> (stop # "closed")
=============================================================================
