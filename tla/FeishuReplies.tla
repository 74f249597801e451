---------------------------- MODULE FeishuReplies ----------------------------
(* The replies of the Hub to Feishu messages (internal/feishu/feishu.go and *)
(* OnQueryComplete, GetClient and EvictClient of handler.go): goroutines    *)
(* that post concurrently through one Client, whose tenant_access_token is  *)
(* cached, refreshed under the lock mu and evicted when Feishu rejects it.  *)
(*                                                                          *)
(* Tokens are numbered in the order in which Feishu, which is external,     *)
(* issues them; it may revoke the token of the moment at any time.          *)
EXTENDS Integers, FiniteSets

CONSTANTS
    Replies,    \* calls of ReplyMessage
    Clients,    \* Client objects of the bound app, 1 .. n
    MaxTokens,  \* bound of the tokens Feishu issues
    None

VARIABLES
    at,         \* where a reply is
    client,     \* the Client object it uses
    attempt,    \* attempt of doPostWithTokenRetry
    using,      \* the token it has got, 0 for none
    rejected,   \* ghost: the token its first post was rejected with
    current,    \* the object in clients
    token,      \* token of a Client, 0 for ""
    fresh,      \* it is more than 5 minutes from its expiry
    mu,         \* the reply that holds a Client's lock for writing
    valid,      \* the token Feishu accepts, 0 for none
    issued      \* number of tokens issued

replyVars == <<at, client, attempt, using, rejected>>
cacheVars == <<current, token, fresh, mu>>
serverVars == <<valid, issued>>
vars == <<replyVars, cacheVars, serverVars>>

\* What the values of the constants must keep apart.
ConstantsAreDistinct ==
    /\ Clients \subseteq Nat \ {0} /\ 1 \in Clients
    /\ MaxTokens \in Nat
    /\ None \notin Replies

Set(f, x, v) == [f EXCEPT ![x] = v]

Init ==
    /\ at = [r \in Replies |-> "idle"]
    /\ client = [r \in Replies |-> 0]
    /\ attempt = [r \in Replies |-> 0]
    /\ using = [r \in Replies |-> 0]
    /\ rejected = [r \in Replies |-> 0]
    /\ current = 1
    /\ token = [c \in Clients |-> 0]
    /\ fresh = [c \in Clients |-> FALSE]
    /\ mu = [c \in Clients |-> None]
    /\ valid = 0
    /\ issued = 0

\* OnQueryComplete and the offline notice of ProcessEvent: without a binding,
\* or for a status that has no text, nothing is sent; otherwise the reply goes
\* through the Client of the moment.
Begin(r) ==
    /\ at[r] = "idle"
    /\ \/ at' = Set(at, r, "none") /\ UNCHANGED client
       \/ at' = Set(at, r, "read") /\ client' = Set(client, r, current)
    /\ UNCHANGED <<attempt, using, rejected, cacheVars, serverVars>>

\* EvictClient, when the binding is saved again or deleted: the next reply
\* creates a Client, with an empty cache; replies under way keep theirs.
EvictClient ==
    /\ current + 1 \in Clients
    /\ current' = current + 1
    /\ UNCHANGED <<replyVars, token, fresh, mu, serverVars>>

Usable(c) == token[c] # 0 /\ fresh[c]

\* The first look of GetTenantAccessToken, under the read lock.
ReadToken(r) ==
    LET c == client[r]
    IN  /\ at[r] = "read" /\ mu[c] = None
        /\ IF Usable(c)
           THEN at' = Set(at, r, "post") /\ using' = Set(using, r, token[c])
           ELSE at' = Set(at, r, "lock") /\ UNCHANGED using
        /\ UNCHANGED <<client, attempt, rejected, cacheVars, serverVars>>

\* Mutant: the token is requested without the lock.
LockTokenUnlocked(r) ==
    LET c == client[r]
    IN  /\ at[r] = "lock" /\ mu[c] = None
        /\ IF Usable(c)
           THEN at' = Set(at, r, "post") /\ using' = Set(using, r, token[c])
           ELSE at' = Set(at, r, "request") /\ UNCHANGED using
        /\ UNCHANGED <<client, attempt, rejected, cacheVars, serverVars>>

\* The second look, under the write lock, which is kept for the request.
LockToken(r) ==
    LET c == client[r]
    IN  /\ at[r] = "lock" /\ mu[c] = None
        /\ IF Usable(c)
           THEN /\ at' = Set(at, r, "post") /\ using' = Set(using, r, token[c])
                /\ UNCHANGED mu
           ELSE /\ at' = Set(at, r, "request") /\ mu' = Set(mu, c, r)
                /\ UNCHANGED using
        /\ UNCHANGED <<client, attempt, rejected, current, token, fresh, serverVars>>

\* External: Feishu answers with the token of the moment, or a new one.
Issue(r) ==
    /\ at[r] = "request"
    /\ valid # 0 \/ issued < MaxTokens
    /\ at' = Set(at, r, "store")
    /\ issued' = IF valid = 0 THEN issued + 1 ELSE issued
    /\ valid' = issued'
    /\ using' = Set(using, r, issued')
    /\ UNCHANGED <<client, attempt, rejected, cacheVars>>

\* The answer is stored and the lock released.
StoreToken(r) ==
    LET c == client[r]
    IN  /\ at[r] = "store"
        /\ at' = Set(at, r, "post")
        /\ token' = Set(token, c, using[r])
        /\ fresh' = Set(fresh, c, TRUE)
        /\ mu' = Set(mu, c, None)
        /\ UNCHANGED <<client, attempt, using, rejected, current, serverVars>>

\* Mutant: an error returns without releasing the lock.
TokenFailsLocked(r) ==
    /\ at[r] = "request"
    /\ at' = Set(at, r, "failed")
    /\ UNCHANGED <<client, attempt, using, rejected, cacheVars, serverVars>>

\* The request fails, or its answer has no token.
TokenFails(r) ==
    /\ at[r] = "request"
    /\ at' = Set(at, r, "failed")
    /\ mu' = Set(mu, client[r], None)
    /\ UNCHANGED <<client, attempt, using, rejected, current, token, fresh, serverVars>>

\* The post succeeds, fails for a reason of its own, or is rejected for its
\* token (isTokenError).
Post(r) ==
    /\ at[r] = "post"
    /\ \/ using[r] = valid /\ at' = Set(at, r, "sent") /\ UNCHANGED rejected
       \/ at' = Set(at, r, "failed") /\ UNCHANGED rejected
       \/ /\ using[r] # valid
          /\ at' = Set(at, r, "evict")
          /\ rejected' = IF attempt[r] = 0 THEN Set(rejected, r, using[r]) ELSE rejected
    /\ UNCHANGED <<client, attempt, using, cacheVars, serverVars>>

\* EvictToken, whatever token is cached by now; the first rejection is retried.
EvictToken(r) ==
    LET c == client[r]
    IN  /\ at[r] = "evict" /\ mu[c] = None
        /\ token' = Set(token, c, 0)
        /\ fresh' = Set(fresh, c, FALSE)
        /\ at' = Set(at, r, IF attempt[r] = 0 THEN "read" ELSE "failed")
        /\ attempt' = Set(attempt, r, 1)
        /\ UNCHANGED <<client, using, rejected, current, mu, serverVars>>

\* Five minutes before its expiry a token is no longer used.
TokenAges(c) ==
    /\ fresh[c]
    /\ fresh' = Set(fresh, c, FALSE)
    /\ UNCHANGED <<replyVars, current, token, mu, serverVars>>

\* External: Feishu revokes its token.
Revoke ==
    /\ valid # 0
    /\ valid' = 0
    /\ UNCHANGED <<replyVars, cacheVars, issued>>

Step(r) ==
    \/ ReadToken(r) \/ LockToken(r) \/ Issue(r) \/ StoreToken(r)
    \/ TokenFails(r) \/ Post(r) \/ EvictToken(r)

Next ==
    \/ \E r \in Replies : Begin(r) \/ Step(r)
    \/ EvictClient
    \/ \E c \in Clients : TokenAges(c)
    \/ Revoke

Fairness == \A r \in Replies : WF_vars(Step(r))

Spec == Init /\ [][Next]_vars /\ Fairness

----------------------------------------------------------------------------
(* Properties.                                                              *)

\* The type of the replies', the caches' and Feishu's state.
TypeOK ==
    /\ at \in [Replies -> {"idle", "none", "read", "lock", "request", "store", "post", "evict", "sent", "failed"}]
    /\ client \in [Replies -> Clients \cup {0}]
    /\ attempt \in [Replies -> 0 .. 1]
    /\ using \in [Replies -> 0 .. MaxTokens] /\ rejected \in [Replies -> 0 .. MaxTokens]
    /\ current \in Clients
    /\ token \in [Clients -> 0 .. MaxTokens] /\ fresh \in [Clients -> BOOLEAN]
    /\ mu \in [Clients -> Replies \cup {None}]
    /\ valid \in {0, issued} /\ issued \in 0 .. MaxTokens

\* The answer to a slow token request never overwrites a newer token.
NoOldToken == \A r \in Replies : at[r] = "store" => using[r] >= token[client[r]]

\* The one retry is worth making: it never posts again with the token that was
\* just rejected, although other goroutines evict and refresh the same cache.
RetryUsesAnotherToken ==
    \A r \in Replies : at[r] = "post" /\ attempt[r] = 1 => using[r] # rejected[r]

\* The cached token only moves forward, for the cache and for a retry.
TokensMoveForward == TypeOK /\ NoOldToken /\ RetryUsesAnotherToken

\* Every reply ends, also when the request of the goroutine it waits for fails.
RepliesEnd == \A r \in Replies : (at[r] = "read") ~> (at[r] \in {"sent", "failed"})
==============================================================================
