--------------------------- MODULE HubPartsProofs ---------------------------
(* Parts of the Hub beside the dispatch, for every value of their constants: *)
(* the submission with its retries and its rate limiter (Submission) and the *)
(* replies of the bot (FeishuReplies).                                       *)
EXTENDS HubParts, FiniteSetTheorems, TLAPS

----------------------------------------------------------------------------
(* The submission: types and arithmetic.                                    *)
(*                                                                          *)
(* Retries are safe for a client that waits for the end of an attempt       *)
(* before it sends the next one (~Overlap); attempts that overlap may both  *)
(* miss the index and create two queries.  The bound of the rate needs no   *)
(* such condition.                                                          *)

\* The types, and what the provers need of the bucket and its history.
StateTypes ==
    /\ TypeOK
    /\ passes \in Seq(Nat)
    /\ bucket # None => bucket.lastRefill <= now
    /\ \A a \in Attempts : handler[a] \in {"cache!", "index!", "wait"} => queries[a] # None

LEMMA MinOfTwo ==
    ASSUME NEW x \in Nat, NEW y \in Nat
    PROVE  Min({x, y}) \in {x, y} /\ Min({x, y}) <= x /\ Min({x, y}) <= y
  BY DEF Min

LEMMA Products ==
    ASSUME NEW x \in Nat, NEW y \in Nat
    PROVE  x * y \in Nat
  OBVIOUS

LEMMA IntProducts ==
    ASSUME NEW x \in Int, NEW y \in Int
    PROVE  x * y \in Int
  OBVIOUS

LEMMA Distributes ==
    ASSUME NEW x \in Int, NEW y \in Int, NEW z \in Int
    PROVE  (x + y) * z = x * z + y * z
  OBVIOUS

\* A period that is longer by the time since the last request.
LEMMA LongerPeriod ==
    ASSUME NEW n \in Int, NEW burst \in Int, NEW t \in Int, NEW r \in Int,
           NEW pass \in Int, NEW last \in Int, NEW time \in Int,
           NEW scale \in Int, NEW rate \in Int,
           n * scale + t <= burst + (last - pass) * rate,
           r <= t + (time - last) * rate
    PROVE  n * scale + r <= burst + (time - pass) * rate
  <1>1. (time - pass) * rate = (time - last) * rate + (last - pass) * rate
    <2>1. time - last \in Int /\ last - pass \in Int /\ time - pass = (time - last) + (last - pass)
      OBVIOUS
    <2>2. QED
      BY ONLY <2>1, Distributes, rate \in Int
  <1> DEFINE A == n * scale
             B == (time - last) * rate
             C == (last - pass) * rate
  <1>2. A \in Int /\ B \in Int /\ C \in Int
    OBVIOUS
  <1>3. A + t <= burst + C /\ r <= t + B
    OBVIOUS
  <1> HIDE DEF A, B, C
  <1>4. A + r <= burst + (B + C)
    BY <1>2, <1>3
  <1>5. QED
    BY <1>1, <1>4 DEF A, B, C

\* What Allow computes: at most the burst, and at most what was there and what
\* the time since the last request has added.
LEMMA RefilledBounds ==
    ASSUME StateTypes, bucket # None
    PROVE  /\ Refilled \in 0 .. Burst * Scale
           /\ Refilled <= bucket.tokens + (now - bucket.lastRefill) * Rate
  <1> DEFINE x == bucket.tokens + (now - bucket.lastRefill) * Rate
             y == Burst * Scale
  <1>1. bucket.tokens \in Nat /\ now - bucket.lastRefill \in Nat
    BY SubmissionAssumption DEF StateTypes, TypeOK
  <1>2. (now - bucket.lastRefill) * Rate \in Nat /\ y \in Nat
    BY <1>1, Products, SubmissionAssumption
  <1>3. x \in Nat
    BY <1>1, <1>2
  <1> HIDE DEF x, y
  <1>4. Min({x, y}) \in {x, y} /\ Min({x, y}) <= x /\ Min({x, y}) <= y
    BY <1>2, <1>3, MinOfTwo
  <1>5. Refilled = Min({x, y})
    BY DEF Refilled, x, y
  <1>6. Refilled \in 0 .. y /\ Refilled <= x
    BY <1>2, <1>3, <1>4, <1>5
  <1>7. QED
    BY <1>6 DEF x, y

\* The bucket after a request.
LEMMA AllowedBucket ==
    ASSUME StateTypes, NEW ok \in BOOLEAN, Allow(ok)
    PROVE  /\ bucket' \in [tokens: 0 .. Burst * Scale, lastRefill: Nat]
           /\ bucket'.lastRefill = now
           /\ bucket' # None
           /\ passes' \in Seq(Nat)
  <1>0. now \in Nat /\ Burst * Scale \in Nat /\ Burst - 1 \in Nat /\ Scale \in Nat
    BY Products, SubmissionAssumption DEF StateTypes, TypeOK
  <1>1. (Burst - 1) * Scale \in 0 .. Burst * Scale
    <2>1. (Burst - 1) * Scale \in Nat
      BY <1>0, Products
    <2>2. Burst * Scale = (Burst - 1) * Scale + 1 * Scale
      BY Distributes, SubmissionAssumption
    <2>3. QED
      BY <1>0, <2>1, <2>2
  <1>2. passes' \in Seq(Nat)
    BY <1>0 DEF Allow, StateTypes
  <1>3. /\ bucket' \in [tokens: 0 .. Burst * Scale, lastRefill: Nat]
        /\ bucket'.lastRefill = now
    <2>1. CASE bucket = None
      BY <1>0, <1>1, <2>1 DEF Allow
    <2>2. CASE bucket # None
      <3>1. Refilled \in 0 .. Burst * Scale
        BY <2>2, RefilledBounds
      <3>2. Refilled - (IF ok THEN Scale ELSE 0) \in 0 .. Burst * Scale
        BY <1>0, <2>2, <3>1 DEF Allow
      <3> HIDE DEF Refilled
      <3>3. QED
        BY <1>0, <2>2, <3>2 DEF Allow
    <2>3. QED
      BY <2>1, <2>2
  <1>4. bucket' # None
    <2>1. bucket' \in [tokens: Nat, lastRefill: Nat]
      BY <1>0, <1>3
    <2>2. QED
      BY <2>1, SubmissionAssumption
  <1>5. QED
    BY <1>2, <1>3, <1>4

LEMMA TypesInit == Init => StateTypes
  BY SubmissionAssumption DEF Init, StateTypes, TypeOK

LEMMA TypesNext == StateTypes /\ [Next]_vars => StateTypes'
  <1> SUFFICES ASSUME StateTypes, [Next]_vars
               PROVE  StateTypes'
    OBVIOUS
  <1>0. /\ now \in Nat /\ now + TTL \in Nat /\ now + CacheTTL \in Nat
        /\ Key \in [Attempts -> Keys]
    BY SubmissionAssumption DEF StateTypes, TypeOK
  <1> USE DEF StateTypes
  <1>1. CASE Tick
    BY <1>1, SubmissionAssumption DEF Tick, hub, TypeOK
  <1>2. ASSUME NEW a \in Attempts, Begin(a)
        PROVE  StateTypes'
    <2>1. PICK ok \in BOOLEAN : Allow(ok) /\ Goto(a, IF ok THEN "cache?" ELSE "over")
      BY <1>2 DEF Begin
    <2>2. /\ bucket' \in [tokens: 0 .. Burst * Scale, lastRefill: Nat]
          /\ bucket'.lastRefill = now
          /\ passes' \in Seq(Nat)
      BY <2>1, AllowedBucket
    <2>3. QED
      BY <1>0, <1>2, <2>1, <2>2 DEF Begin, Goto, TypeOK
  <1>3. ASSUME NEW a \in Attempts, CheckCache(a)
        PROVE  StateTypes'
    <2>1. cache[Key[a]] # None => cache[Key[a]].query \in Attempts
      BY <1>0 DEF TypeOK, Expiring
    <2>2. QED
      BY <1>3, <2>1 DEF CheckCache, Respond, Goto, hub, TypeOK
  <1>4. ASSUME NEW a \in Attempts, CheckIndex(a)
        PROVE  StateTypes'
    <2>1. index[Key[a]] # None => index[Key[a]].query \in Attempts
      BY <1>0 DEF TypeOK, Expiring
    <2>2. QED
      BY <1>4, <2>1 DEF CheckIndex, Respond, Goto, hub, TypeOK
  <1>5. ASSUME NEW a \in Attempts, Reject(a) \/ HangUp(a)
        PROVE  StateTypes'
    BY <1>5 DEF Reject, HangUp, Goto, hub, TypeOK
  <1>6. ASSUME NEW a \in Attempts, CreateQuery(a)
        PROVE  StateTypes'
    BY <1>0, <1>6, SubmissionAssumption DEF CreateQuery, Goto, TypeOK
  <1>7. ASSUME NEW a \in Attempts, CacheKey(a)
        PROVE  StateTypes'
    BY <1>0, <1>7 DEF CacheKey, Goto, TypeOK, Expiring
  <1>8. ASSUME NEW a \in Attempts, WaitEnds(a) \/ WaitStopped(a)
        PROVE  StateTypes'
    BY <1>8 DEF WaitEnds, WaitStopped, Respond, Goto, hub, TypeOK
  <1>9. CASE StopBegins \/ ShutdownReturns \/ CloseConnections
    BY <1>9 DEF StopBegins, ShutdownReturns, CloseConnections, hub, TypeOK
  <1>10. CASE ShutdownTimesOut
    BY <1>10 DEF ShutdownTimesOut, hub, TypeOK
  <1>11. CASE NewProcess
    BY <1>11 DEF NewProcess, TypeOK
  <1>12. CASE UNCHANGED vars
    BY <1>12 DEF vars, TypeOK
  <1>13. ASSUME NEW a \in Attempts, SaveIdempotencyKey(a)
         PROVE  StateTypes'
    <2>1. queries[a] \in Nat
      BY <1>13 DEF SaveIdempotencyKey, TypeOK
    <2>2. QED
      BY <1>0, <1>13, <2>1 DEF SaveIdempotencyKey, Goto, TypeOK, Expiring
  <1>14. QED
    BY <1>1, <1>2, <1>3, <1>4, <1>5, <1>6, <1>7, <1>8, <1>9, <1>10, <1>11, <1>12, <1>13
       DEF Next, Handler

----------------------------------------------------------------------------
(* The rate.  The bound of a period that ends now is not inductive: what the *)
(* bucket still holds counts as let through, since the next requests may    *)
(* take it.                                                                 *)

\* What has been let through since pass i, and what is left, is covered by the
\* burst and by the refill since pass i.
TokensAreCovered ==
    /\ bucket = None => passes = <<>>
    /\ bucket # None => \A i \in DOMAIN passes :
        /\ passes[i] <= bucket.lastRefill
        /\ (Len(passes) - i + 1) * Scale + bucket.tokens
             <= Burst * Scale + (bucket.lastRefill - passes[i]) * Rate

RateInv == TokensAreCovered /\ RateIsBounded

\* A request that is let through.
LEMMA PassPreserves ==
    ASSUME StateTypes, StateTypes', RateInv, Allow(TRUE)
    PROVE  RateInv'
  <1>0. /\ now \in Nat /\ Scale \in Nat /\ Rate \in Nat /\ Burst \in Nat /\ Burst * Scale \in Nat
        /\ passes \in Seq(Nat)
    BY Products, SubmissionAssumption DEF StateTypes, TypeOK
  <1>1. /\ passes' = Append(passes, now)
        /\ bucket' \in [tokens: 0 .. Burst * Scale, lastRefill: Nat]
        /\ bucket'.lastRefill = now /\ bucket' # None
    BY AllowedBucket DEF Allow
  <1>2. /\ Len(passes') = Len(passes) + 1
        /\ DOMAIN passes' = 1 .. Len(passes) + 1
        /\ \A i \in DOMAIN passes : passes'[i] = passes[i] /\ i \in 1 .. Len(passes) /\ passes[i] \in Nat
        /\ passes'[Len(passes) + 1] = now
        /\ Len(passes) \in Nat
        /\ DOMAIN passes = 1 .. Len(passes)
    BY <1>0, <1>1
  <1>3. Scale + bucket'.tokens <= Burst * Scale
    <2>1. CASE bucket = None
      <3>1. bucket'.tokens = (Burst - 1) * Scale
        BY <2>1 DEF Allow
      <3>2. Burst * Scale = (Burst - 1) * Scale + 1 * Scale
        BY Distributes, SubmissionAssumption
      <3>3. (Burst - 1) * Scale \in Nat
        BY Products, SubmissionAssumption
      <3>4. QED
        BY <1>0, <3>1, <3>2, <3>3
    <2>2. CASE bucket # None
      <3>1. Refilled \in 0 .. Burst * Scale
        BY <2>2, RefilledBounds
      <3>2. bucket'.tokens = Refilled - Scale
        BY <2>2 DEF Allow
      <3> HIDE DEF Refilled
      <3>3. QED
        BY <1>0, <3>1, <3>2
    <2>3. QED
      BY <2>1, <2>2
  <1>4. ASSUME NEW i \in DOMAIN passes
        PROVE  /\ passes[i] <= now
               /\ (Len(passes) - i + 2) * Scale + bucket'.tokens
                    <= Burst * Scale + (now - passes[i]) * Rate
    <2>1. bucket # None
      BY <1>2 DEF RateInv, TokensAreCovered
    <2>2. /\ bucket.tokens \in Nat /\ bucket.lastRefill \in Nat /\ bucket.lastRefill <= now
          /\ passes[i] \in Nat /\ passes[i] <= bucket.lastRefill
          /\ (Len(passes) - i + 1) * Scale + bucket.tokens
               <= Burst * Scale + (bucket.lastRefill - passes[i]) * Rate
      BY <1>2, <2>1, SubmissionAssumption DEF RateInv, TokensAreCovered, StateTypes, TypeOK
    <2>3. /\ bucket'.tokens = Refilled - Scale
          /\ Refilled <= bucket.tokens + (now - bucket.lastRefill) * Rate
          /\ Refilled \in Int
      BY <1>0, <2>1, RefilledBounds DEF Allow
    <2>4. Len(passes) - i + 1 \in Int /\ Len(passes) - i + 2 = (Len(passes) - i + 1) + 1
      BY <1>2
    <2>5. (Len(passes) - i + 2) * Scale = (Len(passes) - i + 1) * Scale + 1 * Scale
      BY <1>0, <2>4, Distributes
    <2> DEFINE A == (Len(passes) - i + 1) * Scale
               E == Burst * Scale + (now - passes[i]) * Rate
    <2> HIDE DEF Refilled
    <2>6. A + Refilled <= E
      <3>1. /\ Scale \in Int /\ Rate \in Int /\ now \in Int /\ Burst * Scale \in Int
            /\ bucket.tokens \in Int /\ bucket.lastRefill \in Int /\ passes[i] \in Int
        BY <1>0, <2>2
      <3>2. QED
        BY <2>2, <2>3, <2>4, <3>1, LongerPeriod, Zenon
    <2>7. A \in Int
      BY <1>0, <2>4
    <2>8. passes[i] <= now
      BY <1>0, <2>2
    <2> HIDE DEF A, E
    <2>9. (A + 1 * Scale) + bucket'.tokens <= E
      <3>1. (A + 1 * Scale) + bucket'.tokens = A + Refilled
        BY <1>0, <2>3, <2>7
      <3>2. QED
        BY <2>6, <3>1
    <2>10. QED
      BY <2>5, <2>8, <2>9 DEF A, E
  <1>5. TokensAreCovered'
    <2>1. ASSUME NEW i \in DOMAIN passes'
          PROVE  /\ passes'[i] <= bucket'.lastRefill
                 /\ (Len(passes') - i + 1) * Scale + bucket'.tokens
                      <= Burst * Scale + (bucket'.lastRefill - passes'[i]) * Rate
      <3>1. CASE i \in DOMAIN passes
        <4>1. Len(passes') - i + 1 = Len(passes) - i + 2
          BY <1>2, <3>1
        <4>2. QED
          BY <1>1, <1>2, <1>4, <3>1, <4>1
      <3>2. CASE i = Len(passes) + 1
        <4>1. Len(passes') - i + 1 = 1 /\ bucket'.lastRefill - passes'[i] = 0
          BY <1>0, <1>1, <1>2, <3>2
        <4>2. (Len(passes') - i + 1) * Scale = Scale /\ (bucket'.lastRefill - passes'[i]) * Rate = 0
          BY <1>0, <4>1
        <4>3. passes'[i] <= bucket'.lastRefill
          BY <1>0, <1>1, <1>2, <3>2
        <4>4. QED
          BY <1>0, <1>3, <4>2, <4>3
      <3>3. QED
        BY <1>2, <2>1, <3>1, <3>2
    <2>2. QED
      BY <1>1, <2>1 DEF TokensAreCovered
  <1>6. RateIsBounded'
    <2> SUFFICES ASSUME NEW i \in DOMAIN passes', NEW j \in DOMAIN passes', i <= j
                 PROVE  (j - i + 1) * Scale <= Burst * Scale + (passes'[j] - passes'[i]) * Rate
      BY DEF RateIsBounded
    <2>1. CASE j \in DOMAIN passes
      <3>1. i \in DOMAIN passes
        BY <1>2, <2>1
      <3>2. QED
        BY <1>2, <2>1, <3>1 DEF RateInv, RateIsBounded
    <2>2. CASE j = Len(passes) + 1
      <3>1. j - i + 1 = Len(passes') - i + 1 /\ passes'[j] = bucket'.lastRefill
        BY <1>1, <1>2, <2>2
      <3>2. (Len(passes') - i + 1) * Scale + bucket'.tokens
              <= Burst * Scale + (bucket'.lastRefill - passes'[i]) * Rate
        BY <1>1, <1>5 DEF TokensAreCovered
      <3> DEFINE X == (Len(passes') - i + 1) * Scale
                 Y == Burst * Scale + (bucket'.lastRefill - passes'[i]) * Rate
      <3>3. X \in Int /\ Y \in Int /\ bucket'.tokens \in Nat
        <4>1. Len(passes') - i + 1 \in Int /\ bucket'.lastRefill - passes'[i] \in Int
          BY <1>0, <1>1, <1>2
        <4>2. Scale \in Int /\ Rate \in Int
          BY <1>0
        <4>3. X \in Int /\ (bucket'.lastRefill - passes'[i]) * Rate \in Int
          BY <4>1, <4>2, IntProducts, Zenon
        <4> DEFINE C == (bucket'.lastRefill - passes'[i]) * Rate
                   D == Burst * Scale
        <4>4. C \in Int /\ D \in Nat /\ bucket'.tokens \in 0 .. D
          BY <1>0, <1>1, <4>3
        <4> HIDE DEF C, D
        <4>5. D + C \in Int /\ bucket'.tokens \in Nat
          BY <4>4
        <4>6. QED
          BY <4>3, <4>5 DEF C, D
      <3> HIDE DEF X, Y
      <3>4. X <= Y
        BY <3>2, <3>3 DEF X, Y
      <3>5. QED
        BY <3>1, <3>4 DEF X, Y
    <2>3. QED
      BY <1>2, <2>1, <2>2
  <1>7. QED
    BY <1>5, <1>6 DEF RateInv

\* A request that is turned away only brings the bucket up to date.
LEMMA RefusalPreserves ==
    ASSUME StateTypes, StateTypes', RateInv, Allow(FALSE)
    PROVE  RateInv'
  <1>0. /\ now \in Nat /\ Scale \in Nat /\ Rate \in Nat /\ Burst * Scale \in Nat
        /\ passes \in Seq(Nat) /\ bucket # None /\ passes' = passes
    BY Products, SubmissionAssumption DEF Allow, StateTypes, TypeOK
  <1>1. /\ bucket'.lastRefill = now /\ bucket' # None
        /\ bucket'.tokens = Refilled
        /\ Refilled <= bucket.tokens + (now - bucket.lastRefill) * Rate
        /\ Refilled \in Int
    <2>1. /\ bucket'.lastRefill = now /\ bucket' # None
      BY AllowedBucket
    <2>2. Refilled \in Int /\ Refilled <= bucket.tokens + (now - bucket.lastRefill) * Rate
      BY <1>0, RefilledBounds
    <2>3. bucket'.tokens = Refilled - 0
      BY <1>0 DEF Allow
    <2> HIDE DEF Refilled
    <2>4. QED
      BY <2>1, <2>2, <2>3
  <1>2. ASSUME NEW i \in DOMAIN passes
        PROVE  /\ passes[i] <= now
               /\ (Len(passes) - i + 1) * Scale + bucket'.tokens
                    <= Burst * Scale + (now - passes[i]) * Rate
    <2>1. passes[i] \in Nat /\ Len(passes) - i + 1 \in Int
      BY <1>0
    <2>2. /\ bucket.tokens \in Nat /\ bucket.lastRefill \in Nat /\ bucket.lastRefill <= now
          /\ passes[i] <= bucket.lastRefill
          /\ (Len(passes) - i + 1) * Scale + bucket.tokens
               <= Burst * Scale + (bucket.lastRefill - passes[i]) * Rate
      BY <1>0, SubmissionAssumption DEF RateInv, TokensAreCovered, StateTypes, TypeOK
    <2> HIDE DEF Refilled
    <2>3. (Len(passes) - i + 1) * Scale + Refilled <= Burst * Scale + (now - passes[i]) * Rate
      <3>1. /\ Scale \in Int /\ Rate \in Int /\ now \in Int /\ Burst * Scale \in Int
            /\ bucket.tokens \in Int /\ bucket.lastRefill \in Int /\ passes[i] \in Int
        <4>1. \A x \in Nat : x \in Int
          OBVIOUS
        <4>2. QED
          BY <1>0, <2>1, <2>2, <4>1, Zenon
      <3>2. QED
        BY <1>1, <2>1, <2>2, <3>1, LongerPeriod, Zenon
    <2>4. passes[i] <= now
      BY <1>0, <2>1, <2>2
    <2>5. QED
      BY <1>1, <2>3, <2>4, Zenon
  <1>3. TokensAreCovered'
    BY <1>0, <1>1, <1>2 DEF TokensAreCovered
  <1>4. RateIsBounded'
    BY <1>0 DEF RateInv, RateIsBounded
  <1>5. QED
    BY <1>3, <1>4 DEF RateInv

LEMMA RateNext == StateTypes /\ RateInv /\ [Next]_vars => RateInv'
  <1> SUFFICES ASSUME StateTypes, RateInv, [Next]_vars
               PROVE  RateInv'
    OBVIOUS
  <1>0. StateTypes'
    BY TypesNext
  <1>1. ASSUME NEW a \in Attempts, Begin(a)
        PROVE  RateInv'
    <2>1. PICK ok \in BOOLEAN : Allow(ok)
      BY <1>1 DEF Begin
    <2>2. CASE ok
      BY <1>0, <2>1, <2>2, PassPreserves
    <2>3. CASE ~ok
      BY <1>0, <2>1, <2>3, RefusalPreserves
    <2>4. QED
      BY <2>2, <2>3
  <1>2. CASE NewProcess
    BY <1>2 DEF NewProcess, RateInv, TokensAreCovered, RateIsBounded
  <1>3. ASSUME UNCHANGED <<bucket, passes>>
        PROVE  RateInv'
    BY <1>3 DEF RateInv, TokensAreCovered, RateIsBounded
  <1>4. ASSUME NEW a \in Attempts, Handler(a) \/ WaitEnds(a) \/ WaitStopped(a) \/ HangUp(a)
        PROVE  UNCHANGED <<bucket, passes>>
    BY <1>4 DEF Handler, CheckCache, CheckIndex, Reject, CreateQuery, CacheKey,
                SaveIdempotencyKey, WaitEnds, WaitStopped, HangUp, hub
  <1>5. CASE Tick \/ StopBegins \/ ShutdownReturns \/ ShutdownTimesOut \/ CloseConnections
             \/ UNCHANGED vars
    BY <1>3, <1>5 DEF Tick, StopBegins, ShutdownReturns, ShutdownTimesOut, CloseConnections,
                      vars, hub
  <1>6. QED
    BY <1>1, <1>2, <1>3, <1>4, <1>5 DEF Next

\* No period, wherever it begins and ends, lets more requests through than the
\* burst and the refill of that period: rateLimiter.Allow for every burst and
\* rate, and for requests at any times.
THEOREM RateHolds == Spec => []RateIsBounded
  <1>1. Init => RateInv
    BY DEF Init, RateInv, TokensAreCovered, RateIsBounded
  <1>2. RateInv => RateIsBounded
    BY DEF RateInv
  <1>3. QED
    BY <1>1, <1>2, TypesInit, TypesNext, RateNext, PTL DEF Spec

----------------------------------------------------------------------------
(* Retries.  The Store's index is where attempts of different processes     *)
(* meet, so the argument is about it: every live query that somebody was    *)
(* told of is the one in the index (AnswersAreIndexed), and an attempt that *)
(* is about to replace the index's entry has found it dead (ReplacesDead).  *)
(* The cache may run ahead of the index, but only of an attempt that still  *)
(* runs, or in a process in which no attempt reads it any more.             *)

Indexed(a) == index[Key[a]] # None /\ index[Key[a]].query = a

\* A client's attempts under one key do not overlap.
OneAtATime ==
    \A a, b \in Attempts : a \in Running /\ b \in Running /\ Key[a] = Key[b] => a = b

NoneAfterShutdown == stop \in {"drained", "done"} => Running = {}

CreatedLate ==
    \A a \in Attempts : handler[a] \in {"idle", "cache?", "index?", "create"} => queries[a] = None

AnsweredOnce ==
    \A a \in Attempts : got[a] # None => handler[a] = "over" /\ queries[got[a]] # None

IndexIsExact ==
    \A k \in Keys : index[k] # None =>
        Key[index[k].query] = k /\ queries[index[k].query] = index[k].expiresAt

ReplacesDead ==
    \A a \in Attempts : handler[a] \in {"create", "cache!", "index!"} =>
        index[Key[a]] = None \/ now > index[Key[a]].expiresAt

CacheIsIndexed ==
    \A k \in Keys : cache[k] # None =>
        LET q == cache[k].query IN
        /\ Key[q] = k /\ queries[q] # None
        /\ \/ Indexed(q)
           \/ handler[q] = "index!"
           \/ ~Live(q)
           \/ stop \in {"drained", "done"}

AnswersAreIndexed ==
    \A a \in Attempts : got[a] # None /\ Live(got[a]) =>
        index[Key[a]] # None /\ index[Key[a]].query = got[a]

OwnersAreIndexed ==
    \A a \in Attempts : Live(a) /\ handler[a] \in {"wait", "over"} => Indexed(a)

KeyInv ==
    /\ OneAtATime /\ NoneAfterShutdown /\ CreatedLate /\ AnsweredOnce
    /\ IndexIsExact /\ ReplacesDead /\ CacheIsIndexed
    /\ AnswersAreIndexed /\ OwnersAreIndexed

LEMMA KeysInit == Init => KeyInv
  BY DEF Init, KeyInv, OneAtATime, NoneAfterShutdown, CreatedLate, AnsweredOnce, IndexIsExact,
         ReplacesDead, CacheIsIndexed, AnswersAreIndexed, OwnersAreIndexed, Running, Live

LEMMA KeysNext ==
    ASSUME ~Overlap, StateTypes, StateTypes', KeyInv, [Next]_vars
    PROVE  KeyInv'
  <1>0. /\ now \in Nat /\ TTL \in Nat /\ None \notin Nat /\ now' \in Nat
        /\ Key \in [Attempts -> Keys]
        /\ \A k \in Keys : cache[k] # None => cache[k].query \in Attempts
        /\ \A k \in Keys : index[k] # None => index[k].query \in Attempts /\ index[k].expiresAt \in Nat
        /\ \A a \in Attempts : queries[a] # None => queries[a] \in Nat
        /\ \A a \in Attempts : got[a] # None => got[a] \in Attempts
        /\ handler \in [Attempts -> {"idle", "cache?", "index?", "create", "cache!", "index!",
                            "wait", "over", "lost"}]
        /\ queries \in [Attempts -> Nat \cup {None}]
        /\ got \in [Attempts -> Attempts \cup {None}]
        /\ cache \in [Keys -> Expiring \cup {None}]
        /\ index \in [Keys -> Expiring \cup {None}]
    BY SubmissionAssumption DEF StateTypes, TypeOK, Expiring
  <1> USE <1>0 DEF KeyInv, OneAtATime, NoneAfterShutdown, CreatedLate, AnsweredOnce, IndexIsExact,
         ReplacesDead, CacheIsIndexed, AnswersAreIndexed, OwnersAreIndexed, Running, Live, Indexed
  <1>1. CASE Tick
    BY <1>1 DEF Tick, hub
  <1>2. ASSUME NEW a \in Attempts, Begin(a)
        PROVE  KeyInv'
    BY <1>2 DEF Begin, Goto
  <1>3. ASSUME NEW a \in Attempts, CheckCache(a)
        PROVE  KeyInv'
    BY <1>3 DEF CheckCache, Respond, Goto, hub
  <1>4. ASSUME NEW a \in Attempts, CheckIndex(a)
        PROVE  KeyInv'
    BY <1>4 DEF CheckIndex, Respond, Goto, hub
  <1>5. ASSUME NEW a \in Attempts, Reject(a) \/ HangUp(a)
        PROVE  KeyInv'
    BY <1>5 DEF Reject, HangUp, Goto, hub
  <1>6. ASSUME NEW a \in Attempts, CreateQuery(a)
        PROVE  KeyInv'
    BY <1>6 DEF CreateQuery, Goto
  <1>7. ASSUME NEW a \in Attempts, CacheKey(a)
        PROVE  KeyInv'
    BY <1>7 DEF CacheKey, Goto, StateTypes
  <1>8. ASSUME NEW a \in Attempts, WaitEnds(a) \/ WaitStopped(a)
        PROVE  KeyInv'
    <2>1. /\ handler[a] = "wait" /\ queries[a] # None
          /\ handler' = [handler EXCEPT ![a] = "over"] /\ got' = [got EXCEPT ![a] = a]
          /\ UNCHANGED <<now, cache, index, queries, stop>>
      BY <1>8 DEF WaitEnds, WaitStopped, Respond, Goto, hub, StateTypes
    <2>2. AnsweredOnce' /\ AnswersAreIndexed'
      BY <2>1
    <2>3. OneAtATime' /\ NoneAfterShutdown' /\ CreatedLate' /\ ReplacesDead'
      BY <2>1
    <2>4. IndexIsExact' /\ CacheIsIndexed' /\ OwnersAreIndexed'
      BY <2>1
    <2>5. QED
      BY <2>2, <2>3, <2>4
  <1>9. CASE StopBegins \/ ShutdownReturns \/ CloseConnections
    BY <1>9 DEF StopBegins, ShutdownReturns, CloseConnections, hub
  <1>10. CASE ShutdownTimesOut
    BY <1>10 DEF ShutdownTimesOut, hub
  <1>11. CASE NewProcess
    BY <1>11 DEF NewProcess
  <1>12. CASE UNCHANGED vars
    BY <1>12 DEF vars
  <1>13. ASSUME NEW a \in Attempts, SaveIdempotencyKey(a)
         PROVE  KeyInv'
    <2>1. /\ handler[a] = "index!" /\ queries[a] \in Nat
          /\ handler' = [handler EXCEPT ![a] = "wait"]
          /\ index' = [index EXCEPT ![Key[a]] = [query |-> a, expiresAt |-> queries[a]]]
          /\ UNCHANGED <<now, cache, queries, got, stop>>
      BY <1>13 DEF SaveIdempotencyKey, Goto, StateTypes
    <2>2. index'[Key[a]] = [query |-> a, expiresAt |-> queries[a]]
          /\ index'[Key[a]] # None
          /\ \A k \in Keys : k # Key[a] => index'[k] = index[k]
      BY <2>1, SubmissionAssumption
    <2>3. index[Key[a]] # None => ~Live(index[Key[a]].query)
      BY <2>1
    <2>4. AnswersAreIndexed' /\ OwnersAreIndexed'
      BY <2>1, <2>2, <2>3
    <2>5. CacheIsIndexed'
      BY <2>1, <2>2, <2>3
    <2>6. ReplacesDead' /\ OneAtATime'
      BY <2>1, <2>2
    <2>7. IndexIsExact' /\ NoneAfterShutdown' /\ CreatedLate' /\ AnsweredOnce'
      BY <2>1, <2>2
    <2>8. QED
      BY <2>4, <2>5, <2>6, <2>7
  <1>14. QED
    BY <1>1, <1>2, <1>3, <1>4, <1>5, <1>6, <1>7, <1>8, <1>9, <1>10, <1>11, <1>12, <1>13
       DEF Next, Handler

\* Whoever is answered under a key learns of one live query, and a live query
\* beside it is one that nobody was told of: handleQuerySubmit for every
\* sequence of attempts that do not overlap, across the end of the cache's
\* records, stops and crashes.
THEOREM RetriesHold == ASSUME ~Overlap PROVE Spec => []RetriesAreSafe
  <1>1. StateTypes /\ KeyInv => RetriesAreSafe
    <2> SUFFICES ASSUME StateTypes, KeyInv PROVE RetriesAreSafe
      OBVIOUS
    <2>1. TypeOK
      BY DEF StateTypes
    <2>2. RetriesAgree
      BY DEF KeyInv, AnswersAreIndexed, RetriesAgree
    <2>3. OrphansAreUnanswered
      BY <2>1 DEF TypeOK, KeyInv, CreatedLate, OwnersAreIndexed, AnsweredOnce, OrphansAreUnanswered,
                  Indexed, Live
    <2>4. QED
      BY <2>1, <2>2, <2>3 DEF RetriesAreSafe
  <1>2. QED
    BY <1>1, TypesInit, TypesNext, KeysInit, KeysNext, PTL DEF Spec

----------------------------------------------------------------------------
(* The replies of the bot.  The lock of a Client has one holder, which is   *)
(* between its request and the store (LocksAreHeld); a token that has been  *)
(* rejected is never the valid one again (RejectedIsGone), so that it can   *)
(* be neither cached nor on its way to the cache of a reply that retries    *)
(* (RetryIsFresh): the eviction waits for the lock.                         *)

LocksAreHeld ==
    /\ \A r \in Replies : at[r] \notin {"idle", "none"} => client[r] \in Clients
    /\ \A r \in Replies : at[r] \in {"request", "store"} => mu[client[r]] = r

TokensAreIssued ==
    /\ \A c \in Clients : token[c] <= issued
    /\ \A r \in Replies : using[r] <= issued
    /\ \A r \in Replies : at[r] \in {"store", "post"} => using[r] # 0

RejectedIsGone ==
    \A r \in Replies :
        /\ rejected[r] <= issued
        /\ rejected[r] # 0 => valid # rejected[r]
        /\ at[r] = "evict" \/ attempt[r] = 1 => rejected[r] # 0
        /\ at[r] = "idle" => attempt[r] = 0

RetryIsFresh ==
    \A r \in Replies : attempt[r] = 1 /\ at[r] \in {"read", "lock", "request", "store"} =>
        /\ token[client[r]] # rejected[r]
        /\ \A x \in Replies : at[x] = "store" /\ client[x] = client[r] => using[x] # rejected[r]

BotInv == Bot!TokensMoveForward /\ LocksAreHeld /\ TokensAreIssued /\ RejectedIsGone /\ RetryIsFresh

LEMMA BotConstants ==
    ASSUME Bot!ConstantsAreDistinct
    PROVE  /\ Clients \subseteq Nat /\ 0 \notin Clients /\ 1 \in Clients
           /\ MaxTokens \in Nat
           /\ None \notin Replies
  BY DEF Bot!ConstantsAreDistinct

LEMMA BotInit ==
    ASSUME Bot!ConstantsAreDistinct, Bot!Init
    PROVE  BotInv
  BY BotConstants
  DEF Bot!Init, BotInv, Bot!TokensMoveForward, Bot!TypeOK, Bot!NoOldToken,
      Bot!RetryUsesAnotherToken, LocksAreHeld, TokensAreIssued, RejectedIsGone, RetryIsFresh

LEMMA StepKeeps ==
    ASSUME Bot!ConstantsAreDistinct, BotInv, NEW r \in Replies, Bot!Begin(r) \/ Bot!Step(r)
    PROVE  BotInv'
  <1> USE BotConstants DEF BotInv, Bot!TokensMoveForward, Bot!TypeOK, Bot!NoOldToken,
      Bot!RetryUsesAnotherToken, LocksAreHeld, TokensAreIssued, RejectedIsGone, RetryIsFresh,
      Bot!Set, Bot!cacheVars, Bot!serverVars
  <1>1. CASE Bot!Begin(r)
    BY <1>1 DEF Bot!Begin
  <1>2. CASE Bot!ReadToken(r)
    BY <1>2 DEF Bot!ReadToken, Bot!Usable
  <1>3. CASE Bot!LockToken(r)
    BY <1>3 DEF Bot!LockToken, Bot!Usable
  <1>4. CASE Bot!Issue(r)
    BY <1>4 DEF Bot!Issue
  <1>5. CASE Bot!StoreToken(r)
    BY <1>5 DEF Bot!StoreToken
  <1>6. CASE Bot!TokenFails(r)
    BY <1>6 DEF Bot!TokenFails
  <1>7. CASE Bot!Post(r)
    BY <1>7 DEF Bot!Post
  <1>8. CASE Bot!EvictToken(r)
    BY <1>8 DEF Bot!EvictToken
  <1>9. QED
    BY <1>1, <1>2, <1>3, <1>4, <1>5, <1>6, <1>7, <1>8 DEF Bot!Step

LEMMA BotNext ==
    ASSUME Bot!ConstantsAreDistinct, BotInv, [Bot!Next]_Bot!vars
    PROVE  BotInv'
  <1> USE BotConstants DEF BotInv, Bot!TokensMoveForward, Bot!TypeOK, Bot!NoOldToken,
      Bot!RetryUsesAnotherToken, LocksAreHeld, TokensAreIssued, RejectedIsGone, RetryIsFresh,
      Bot!Set, Bot!replyVars, Bot!cacheVars, Bot!serverVars
  <1>1. CASE \E r \in Replies : Bot!Begin(r) \/ Bot!Step(r)
    BY <1>1, StepKeeps
  <1>2. CASE Bot!EvictClient
    BY <1>2 DEF Bot!EvictClient
  <1>3. CASE \E c \in Clients : Bot!TokenAges(c)
    BY <1>3 DEF Bot!TokenAges
  <1>4. CASE Bot!Revoke
    BY <1>4 DEF Bot!Revoke
  <1>5. CASE UNCHANGED Bot!vars
    BY <1>5 DEF Bot!vars
  <1>6. QED
    BY <1>1, <1>2, <1>3, <1>4, <1>5 DEF Bot!Next

\* The cached tenant_access_token only moves forward and the one retry never
\* posts with the token that was just rejected, for any number of replies
\* that share and replace Clients.
THEOREM TokensHold == Bot!Spec => []TokensMoveForward
  <1>1. BotInv => TokensMoveForward
    BY DEF BotInv, TokensMoveForward
  <1>2. Bot!Init => BotInv
    BY BotInit, RepliesAssumption
  <1>3. BotInv /\ [Bot!Next]_Bot!vars => BotInv'
    BY BotNext, RepliesAssumption
  <1>4. QED
    BY <1>1, <1>2, <1>3, PTL DEF Bot!Spec
=============================================================================
