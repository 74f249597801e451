# TalkIntent in TLA+

TalkIntent lets a team ask questions about a colleague's workspace. A central **Hub** (HTTP
and WebSocket server) stores queries and routes them to the **daemon** on the target's
machine; the daemon runs a **probe** (an LLM loop with read-only tools) and sends the answer
back. Askers use the command line or a Feishu bot. If the target is offline, the query waits
in a queue with a time to live (TTL).

This directory holds TLA+ models of that system, the TLC configurations that check them on
small instances, and TLAPS proofs of the main results for every instance. `PROJECT.json`
maps every definition to the lines it models and lists runs, findings, hazards and theorems.

## 1. Inventory

| Part | State | Operations | Hard parts |
|---|---|---|---|
| Store, `internal/store/store.go` | maps of members, invites, tokens, bindings, queries, idempotency keys; per-member inbound and outbound lists; `events.jsonl` | CRUD methods under one mutex, each appends events; replay at start; `Compact` | a crash between the events of one method; replay rules that differ from the methods' rules; inline TTL checks in four places; dropped write errors |
| Hub sessions, `internal/hub/hub.go` `handleWebSocket` | `memberSessions`, `sessionsByID`, presence flag in the Store | accept with takeover, hello, read loop, deferred cleanup | one goroutine per connection; the cleanup acts outside `h.mu` on what it read inside |
| Hub dispatch, `hub.go` | `queryWaiters`, the handlers' local state | submit, long-poll, Feishu dispatch, drain, response, cancel, sweeper | frame and status update are separate steps; waiters against timeouts, hang-ups and notifications |
| Hub REST and administration, `hub.go`, `ratelimit.go` | idempotency cache, token buckets, Feishu clients | pair, invites, members, audits, bindings | check-then-act on idempotency keys; client replacement; a graceful stop under waiting handlers |
| Daemon, `internal/daemon` | connection, `activeQueries`, semaphore, draining flag, status file | reconnect with backoff, heartbeat, handle request, cancel, stop | stop against new requests; duplicates of one query; late responses |
| Feishu, `internal/feishu` | WebSocket state, fragment cache, dedupe ring, token cache | discover, connect, ping, reassemble, acknowledge, reply | redelivery, lost acknowledgements, capacity, token expiry |
| Probe, `internal/probe` | conversation, budgets | tool loop, refusal, redaction, conversion for the LLM API | budgets and cancellation; every call answered; no half of a key in an answer |
| CLI, `internal/cli` | the PID file, a command's local state | ask, daemon start/stop/status, history, pair | deadlines and interrupts of `ask`; stale PID files; pages that move |
| Config, web, deploy | files, flags | loading, static pages | |

Interactions: handlers and read loops call the Store (one critical section per method); the
Hub and the daemon exchange frames (`daemon_hello`, `hub_ack`, `query_request`,
`query_response`, `query_cancel`, heartbeats); the read loop and the sweeper wake handlers
through buffered channels in `queryWaiters` and the Feishu handler through `OnQueryComplete`.

What makes each part correct:

* Store: what a caller was told survives a crash; queues hold each query once; positions
  agree with the queue; a query only moves along the edges of its life cycle.
* Sessions: one session per machine; presence follows connections.
* Dispatch: frames stay with the target; no channel leaks, none is forgotten; queries
  settle; a daemon that stays connected answers everything.
* Daemon: bounded concurrency across reconnects; each request answered once, or dropped for
  a reason; a stop drains, takes nothing new and leaves clean files; a dead connection is left.
* Members: a token that was handed out stays good, an invite pairs one member, memory never
  runs ahead of the log.
* Submission: a retry gets the query of the first attempt; the bucket lets no more through
  than it promises; a stop returns.
* Feishu: a whole event is processed or none of it; a message is asked once while its id is
  remembered; what is acknowledged was taken; a stopped client leaves nothing running; a
  refresh never brings an older token back; a frame decodes to what was encoded.
* Probe: bounded requests, a refusal is final, nothing leaves unredacted, it ends.
* Commands: an exit code of 0 is an answer; one daemon per machine, and `stop` leaves none.

## 2. Modules

| Module | Models |
|---|---|
| `QueryStatus` | status taxonomy and the Store's own status changes (`protocol/envelope.go`, `store.go`) |
| `QueryLifecycle` | **abstract specification** of one query: the edges a status and an answer may take |
| `QueryStore` | query part of the Store: memory, the image the log replays to, clock, crashes, compaction |
| `MemberStore` | the rest of the Store's log: invites, members, tokens, bindings, with writes that fail or tear and compactions that fail |
| `Directory` | who is asked: the client's extraction of a name from a question and the Hub's lookup of it |
| `AuditPages` | the pages of an audit listing while queries arrive |
| `HubSessions` | connection table, takeover, presence, cleanup |
| `HubDispatch` | composes `HubSessions` with the Store's memory and adds handlers, read loops, sweeper, daemons and frames |
| `Submission` | a submission up to its wait: rate limiter, idempotency cache and index, retries, crashes, the Hub's `Stop` |
| `FeishuClient` | the long-connection client and the binding handlers that replace and stop it |
| `FeishuEvents` | fragments, goroutines per frame, deduplication, acknowledgement and redelivery |
| `FeishuReplies` | concurrent replies through one token cache, with retry after a rejected token |
| `FrameCodec` | the protobuf codec of the long connection, as functions on bytes |
| `DaemonContract` | **abstract specification** of a daemon: what becomes of a request |
| `Daemon` | the client daemon: connection loop, heartbeat, requests, slots, cancel functions, files, stop |
| `ProbeAgent` | one run of the probe, and the conversion of its conversation for the Anthropic API |
| `AskLoop` | the `ask` command from submission to exit code |
| `DaemonProcess` | the `daemon` commands, the processes they start, the PID file |
| `StoreParts`, `HubParts`, `FeishuParts`, `ClientParts` | parts of the Store, of the Hub, of the Feishu bot and of the client side by side, each with the properties of its instances |
| `QueryStoreProofs`, `HubDispatchProofs` (with `HubSessions`), `FeishuClientProofs` | theorems about the module of that name |
| `StorePartsProofs` | theorems about `MemberStore`, `Directory` and `AuditPages` |
| `HubPartsProofs` | theorems about `Submission` and `FeishuReplies` |
| `FeishuPartsProofs` | theorems about `FeishuEvents` and `FrameCodec` |
| `ClientPartsProofs` | theorems about `Daemon`, `ProbeAgent`, `AskLoop` and `DaemonProcess` |
| `QueueLemmas` | induction on natural numbers, what a sequence is after an append or a cut, and what a loop keeps of a list and a sort makes of a set |
| `MCStoreParts`, `MCHubDispatch`, `MCHubParts`, `MCFeishuParts`, `MCFeishuClient`, `MCDaemon`, `MCClientParts` | small instances |

`StoreParts`, `HubParts`, `FeishuParts` and `ClientParts` put components that share no state into
one run: `part` chooses in the initial state which of them takes steps, and the others stay where
they are. Each behaviour of such a run is a behaviour of one component, next to constants. The
theorems are about the specification of the component itself (`Team!Spec`, `Who!Spec`, `Ask!Spec`...).

Operators commented `Mutant:` are faulty variants of the definition that follows them. They
are used by no specification; replacing the definition by its variant must break the
property named in `PROJECT.json`, which shows that the property depends on the code.

### How state and actions correspond to the code

`QueryStore`: `recs` is `queriesByID`, `inbound` is `inboundAudit`, `disk` is what
`replayAndOpenFile` would rebuild from `events.jsonl` at this instant. Every method that
appends events changes memory and `disk` in one step, because it holds `s.mu`; each event is
applied to `disk` by the rules of `applyEvent`, which are not the rules of the methods.
`CrashDuringSweep` and `CrashDuringRequeue` stop a method after some of its events. Texts are
abstracted to answers and to whether there is an error; a clock of a few ticks replaces
milliseconds. `CreateQuery` takes a creation time up to one tick old, because the handler
reads the clock before it takes the lock. Token usage, tools and durations are left out.

`HubSessions`: `pc` is where the goroutine of a connection is; `table` is `sessionsByID`
with `memberSessions`; `up` says whether the socket works; `online` is the flag that
`SetMemberOnline` keeps. One action per critical section: accept with takeover, mark online,
hello, cleanup under `h.mu`, requeue, mark offline.

`HubDispatch`: `submit` and `poll` say where the handlers are, `waiters` is `queryWaiters`,
`mail` what a channel holds, `held` the channels a notifier has taken out, `task`, `todo` and
`current` what a read loop (or the sweeper) is doing, `probes`, `replies` and `cancels` what
is on a connection or running behind it. Selecting a session, registering the channel,
writing the frame and updating the status are separate actions. Sections are merged only
where no other handler can tell: the two reads of `daemon_hello`, the ownership check before
a response is stored (it can only expire what the update then overwrites), the read, the
selection and the frame of a cancel. The Store is its memory: `QueryStoreProofs` shows that a
crash does not change what `HubDispatch` uses of it. Workspaces and `lastSeen` are abstracted
to a free choice among the target's sessions. The daemon is modelled by what it does to
frames; `DaemonContract` states the same promise for the daemon's own module.

`Daemon`: `loop` is where `Start` is, including `connectAndServe` (`greeting` to `leaving`);
`conn` numbers its connections, `alive` are those that still carry frames; `task` is where the
goroutine of a request is, from `sent` (the frame is on the wire or in `msgCh`) through the
queue for a slot to its deferred calls; `slots`, `inFlight`, `probes` are `sem`, `inFlightWg`
and `activeProbeCount`; `file` is the status file with the PID file. The status file is
written after the lock that protected the count has been given back, hence `counted` and
`uncounted`. Waits for probes end at any time, because they are bounded by three seconds and
the loop goes on whatever they say. The end of `Start`'s context is a way to request the
shutdown: the loop looks at both in the same places. A request for a query may be repeated,
since `drainOfflineQueue` may send what a submit handler has sent and not yet marked. Whether
the write of an answer succeeds is whether its connection is in `alive`. `dispatchQuery` is
one step: each of its ways out sends one response.

`MemberStore`: a method is one action, since it holds `s.mu`; `Method` logs its events one by one
and applies each once it is logged, and may stop at any of them because the write fails or the
process dies. `log` is the image its lines replay to, with the state of its last line: a torn
one is truncated at the next start. `acked` is what a caller has been told. The order of the
three events of `ConsumeInvite` is the code's; so are the three ways in which `Compact` ends.

`Directory`: texts are short sequences of letters, one of which is wide (three bytes), because the
Hub's rule for aliases counts bytes and the client's counts characters. `ExtractTarget` and the
three passes of `ResolveTargetMember` are operators; profile updates come between the client's
fetch and the Hub's lookup.

`AuditPages`: `Page` is the slice arithmetic of the four listing methods, with the wrap of Go's int.

`Submission`: `handler` is where the handler of an attempt is: each of its critical sections (limiter,
cache, index, `CreateQuery`, cache, index) is a step. `bucket` is kept in parts of a token, so that
the fraction the code keeps in a float is exact. `stop` follows `Stop`: `stopCh`, the HTTP server's
shutdown, the connections. A crash loses the cache and keeps the Store's index.

`FeishuClient`: `loop` is where `runLoop` is, between whose steps `Stop` (four steps of its own) may
run; `reset` is the one place of `pingResetCh`; `frames` are the goroutines of data frames. The
binding handlers are sequences of `OpStore`, `OpTake`, `OpStop`, `OpStart` and `OpPut`.

`FeishuEvents`: a delivery puts the frames of one split on the connection; each is processed by a
goroutine. `job` is such a goroutine after its event is whole, `seen` the Deduplicator,
which evicts at `MaxSize`. Faults (a drop, the age of an entry or an id, a restart) are
counted; Feishu, which is external, delivers until it is acknowledged.

`FeishuReplies`: the read under `RLock`, the second check under `Lock`, the request, the store, the
post and the eviction are steps; tokens are numbered as they are issued.

`FrameCodec`: bytes are numbers below 256. The encoder's and the decoder's cases are translated one
by one; `Unmarshal` takes one field per step, and so does each turn of `unmarshalHeader`, which is a
recursive function. Numbers are not reduced modulo 2^64: what an encoder writes is below that. In the
run a word has 2^16 values rather than 2^32; the theorem is about any even number of them.

`ProbeAgent`: the model and the tools answer anything out of small sets; a text is a sequence of
cells of which two adjacent ones are a key. `Convert` is the merge of tool results into user messages.

`AskLoop`: the Hub moves the query while the command polls, answers get lost, the deadline and an
interrupt come at any time. `DaemonProcess`: commands of one user, one after the other; processes
start, fail, leave and are killed by themselves at any time.

## 3. Runs

| Run | Instance | Shows |
|---|---|---|
| `store` | *queries*: 2 queries, 1 member, clock to 3, TTL 1; *members*: 2 invites, 2 members; *target*: 2 members, names of up to 2 letters, 1 rename; *audit*: 3 queries, page sizes 0, 1, 2 and the largest int | outcomes and pairings survive crashes, queues and indexes are right, refinement of `QueryLifecycle`, the question reaches whom it names, pages miss nothing |
| `routing` | 2 members with a machine each, 1 query waited for and polled, 2 connections, Hub crashes | waiters are sound, frames stay with the target, refinement of `QueryLifecycle` |
| `hub_live` | 1 Feishu query, 1 machine, 2 connections, one daemon that stops | queries settle, a daemon that stays answers, a dead socket gives its queries back |
| `hub_parts` | *submission*: 4 attempts with one key, clock to 4, 1 crash or stop; *sessions*: 2 members, 3 machines, 3 connections; *replies*: 2 replies, 3 tokens, 1 replaced client | retries are safe, the rate is bounded, a stop returns, sessions and presence, tokens only move forward, replies end |
| `feishu_parts` | *events*: a question in 2 or 3 fragments and an event that is not JSON, 2 goroutines, 2 faults, 1 remembered id; *codec*: 3 frames, 4 unknown fields, every cut | sound reception, asked once per memory, events acknowledged in the end, decoded is sent |
| `feishu_client` | 2 clients, a save, a second save and a delete, 2 dials each | a stop is clean, pings follow the configuration, one client per binding, requests end |
| `daemon` | 2 requests of one query, 1 slot, 2 connections | slots, registry, drain, files, refinement of `DaemonContract` |
| `client_parts` | *daemon*: 2 queries, 1 slot, 1 connection; *probe*: 2 steps, up to 2 tools a turn; *ask*: 1 query; *process*: 3 processes, 2 looks | requests are served, a stop completes, a dead connection is left; the probe is safe; exit codes are honest; the commands keep track of the daemon; everything ends |
| `drain_limit` | 2 queries, 1 connection with 1 slot | *violated*: the second query is never sent |
| `terminal` | 1 query, 1 connection | *violated*: a terminal status is overwritten by `dispatched` |
| `socket_close` | 1 query, 2 machines | *violated*: a query lost with one of two machines |
| `cancellable` | 2 requests of one query, 1 connection | *violated*: a running probe that cannot be cancelled |

Most invariants of the runs are conjunctions of named parts, each stated and commented where
it is defined: `QueuesAreRight` is the type, `QueuesAreExact` and `PositionsAgree`;
`PairingIsDurable` is `TokensSurvive` and `OneMemberPerInvite`; `IndexesAgree` the type,
`MemoryIsLogged` and `BotFlagIsBinding`; `RightMemberAsked` is `AsksTheMentioned`,
`LongestMentionWins` and `FullNameWins`; `WaitersAreSound` is `NoWaiterLeak`, `NoLostWaiter` and
`OnePlace`; `FramesAreRouted` the type and `RoutedToTarget`; `SessionsAreSound` the type,
`OneSessionPerMachine` and `NoGhostPresence`; `RetriesAreSafe` the type, `RetriesAgree` and
`OrphansAreUnanswered`; `TokensMoveForward` the type, `NoOldToken` and `RetryUsesAnotherToken`;
`ReceptionIsSound` the type, `ReassemblyIsWhole` and `AckedIsTaken`; `DecodedIsSent` is `RoundTrip`
and `PartialIsHonest`; `BindingsAreServed` the type and `OneClientPerBinding`; `SlotsAreKept` the
type and `ConcurrencyLimit`; `FilesAreRight` is `CleanUpIsFinal` and `ProbesReported`;
`ProbeIsSafe` the type, `CallsAreAnswered`, `RequestsAreBounded`, `RefusalIsFinal` and
`AnswerIsRedacted`; `AskIsHonest` the type, `SuccessIsReal` and `WaitsWhileInFlight`;
`DaemonsAreKept` the type, `OneDaemon`, `DaemonIsNamed` and `StopLeavesNone`; `ClientEnds` is
`RunEnds`, `AskEnds` and `CommandsReturn`.

The violated properties state what a comment, a test or a document says; the findings in
`PROJECT.json` quote the line. The models show further behaviour of the same kind that has no
run of its own: `HubCrash` leaves members shown online that have no connection after a
restart; `Compact` sorts the queues by creation time while memory keeps insertion order; a
`query_updated` event carries a completion time also for statuses that are not terminal, so
that it differs from memory after a replay (completion times are therefore no part of
`OutcomeIsDurable`); `HandleHello` drains a query again that its daemon already works on; a
late `MarkOffline` shows a member offline that is connected again; `CancelDispatched` selects a
session anew and may miss the machine that runs the query; an expiry of a Feishu query without
a waiter is reported to nobody. Of the newer modules: with `Overlap` two submissions of one key
at the same time create two queries, because the check and the save are separate critical
sections; without `Serial` two saves of a binding at the same time leave a client running that
nobody can stop; with the faults `short` and `bare` of `MemberStore` an acknowledged event joins
a damaged line and is lost at the next start; a page whose limit is near the largest int makes
the slice of `GetInboundAudit` panic; a member without a name is found by every target that
nothing else matches (`Around`); the dispatch of a Feishu question may fail after its event has been
acknowledged; a run of the probe whose context ends during the summary is reported as completed;
`ask` sends no idempotency key, so that a lost answer leaves a query behind.

Bounds. Two queries are needed for an order in a queue and for a drain that stops at a
limit; two connections of one machine for a takeover with a late cleanup; three for a
takeover next to another live machine; two machines of a member for "not the last session";
two members for routing. A clock of 3 with a TTL of 1 lets a query be created, become stale
and be written at different ticks. `Expiring` and `Quitting` say which TTLs pass and which
daemons stop, to keep an instance to its question. Requests per connection and query are
bounded by the handlers themselves (one submit, one drain per hello). The runs of
`HubDispatch` and `HubSessions` do not check deadlock: when all connections have been used
the system may rest. `routing` uses symmetry of the connections; it checks
invariants and step properties only. For the daemon, two requests compete for one slot and
overlap in the registry, and a second connection is served while a probe of the first still
runs; after the last connection of its bound (`MaxConns`) dialing only fails, and the runs do
not check deadlock, because a stopped daemon rests. Liveness needs one connection only: a
request of an older one has an excuse.

Two invites and two members are needed for an invite that is used again after a crash; three
queries for pages that move; two names that contain each other, and a wide letter, for the
rules of `Directory` to differ. Four attempts with a cache that ages before the key in the Store
separate the two lookups of `Submission`; a rate that is no multiple of a token leaves a fraction in
the bucket. One event in two splits next to an event that is refused competes for goroutines and
for a Deduplicator of one place, so that eviction happens at once; `MaxFaults` bounds drops,
expiries and restarts. Two dials of a client show a reconnect, two intervals a change of the
ping. The frames of the codec have numbers of one to three bytes, a payload whose length takes
two, negative numbers, and absent and empty blocks. Two steps of a probe with two tools reach the
summary; the answers are cut in the middle of a key. None of these runs checks deadlock: commands
end, and what is bounded rests.

Fairness. `GoroutinesRun` and `FairSpec` assume that a runnable goroutine is scheduled, that
the timers of a waiting handler fire, that a probe ends (its context has a timeout) and that
a daemon which has begun to stop closes its socket (its drain is bounded). `QueriesSettle` is about
queries whose TTL has passed. Nothing is assumed of askers, of connects and drops, or of crashes. `FairSpec`
of `Daemon` assumes the same of the goroutine of `Start` (`StartRuns`), of its tickers
(`Heartbeat`) and of the goroutine of each request (`RequestRuns`): timers fire, `agent.Run`
returns, and a goroutine that waits for a slot gets one in the end, because Go serves the
senders of a channel in order. Frames of the Hub, deaths of connections, cancels and the call of
Stop are not fair.

`Submission` assumes that handlers and `Stop` run, and that a waiting handler sees `stopCh`, not that
answers come, clients hang up or the shutdown's deadline passes. `FeishuClient` assumes that its
goroutines run (fetch, dial and reads are bounded by contexts and by the close of the
connection) and that frames are processed. `FeishuEvents` assumes of Feishu that it delivers until
it is acknowledged, strongly that a frame which arrives again and again is processed and that an
incomplete entry ages (its TTL is 30 seconds, and every new fragment sweeps), and that handlers run;
faults are bounded and not fair. `FeishuReplies`, `ProbeAgent`, `AskLoop` and `DaemonProcess` assume that their own
steps are taken: HTTP requests have timeouts, and `ask` has a deadline. In the `Parts` modules the
conditions are those of the component that runs.

## 4. Proofs

The theorems hold for every value of the constants: any number of queries, members, machines,
connections, attempts, events, clients and processes. They cover every invariant of the
runs and the three refinements.

What they assume of the constants is named in the module that declares them and evaluated by
TLC on every run: `StoreAssumption`, `SessionsAssumption`, `DispatchAssumption`,
`DaemonAssumption`, `SubmissionAssumption`, `ClientAssumption`, `EventsAssumption`, and, for the
modules that are instantiated, `PartsAssumption`, `RepliesAssumption` and `CodecAssumption`, which
gather their `ConstantsAreDistinct`, `ConstantsAreInts`, `ConstantsAreTyped` and `ConstantsAreFrames`. Most of this gives the constants their types and keeps `None` apart
from values. The rest is the code's: the requests of one life of a daemon are finitely many;
the events that carry one message agree on whether it has a text; nobody's member id is a name
or an alias (an id is `mem_` and a random number); limits and offsets are values of Go's int and
offsets are not negative; invite codes and member ids are of different kinds; where the model quotes a
key it quotes both halves of it (a half alone matches no pattern of the redactor); numbers and lengths
of a frame fit into the ten bytes of `encodeVarint` (uint64 does), and an unknown field is one whole
field with a number that the decoder does not know. Three theorems have a
condition on how the system is used, and without it the property is false (section 3 says how):
`RetriesHold` that a client does not send two attempts of one key at the same time (`~Overlap`),
`OneClientServes` that the binding requests of a member come one after the other (`Serial`), and
`PairingHolds` and `IndexesHold` that a failing write leaves no damaged line before further ones
(`WholeLines`). The runs use the same values.

* `QueryStoreProofs`: `OutcomeDurability` and `StoreImplementsLifecycle`. The inductive
  invariant is `DurableInv`: the records have their type, and memory and log agree on the
  outcome of every query. Agreement alone is not inductive, because an expiry or a requeue
  in the log is applied under the replay's own conditions; the type gives that an absent
  record is absent on both sides. The refinement needs in addition that an absent record is
  blank (`AbsentIsBlank`). `QueuesHold` is about the lists. Its invariant `QueueInv` says that
  both images have every created query once; every action either leaves the lists alone
  (`Carries`), appends one new query, or replaces the log's by a sorted one, which
  `SortedOnce` shows to list the same queries once. That the position a caller is told
  is the place in the drained list (`DrainOrder`) compares a count with a selection, by
  induction on the length of the list.
* `HubDispatchProofs`, sessions: `SessionsTyped`, `Takeover`, `PresenceIsServed`, together
  `SessionsHold`. Presence needs
  `TableIsServed`: a session in the table has a goroutine that has not begun its cleanup. It
  keeps the member served when a handler that is not the last one returns without marking
  the member offline.
* `HubDispatchProofs`, waiters: `WaitersDoNotLeak`, `WaitersAreReachable`, `ChannelsInOnePlace`,
  together `WaitersHold`, for `CrashSpec`. The three are inductive only together, with `OneCurrent`
  (a notifier works on one query) and `HoldsWhileDelivering` (it holds channels only inside
  `notifyWaiters`). Without `OnePlace` a handler could leave through one copy of its channel and
  leak another.
* `HubDispatchProofs`, frames: `FramesHold` and `HubImplementsLifecycle`, also for `CrashSpec`. A
  frame goes to a session that was selected some steps earlier, or to the one whose list is drained,
  so `RouteInv` speaks of all that is remembered in between: the selected session
  (`ChoicesAreMine`), the inbound lists (`LinesAreMine`), the list being drained
  (`DrainsAreMine`) and what is on the connections (`FramesAreMine`). These hold only created
  queries of the right member, and stay right because a connection that was accepted keeps its
  member (`LiveSessions`). For the refinement the same parts say that no late mark, requeue or
  response concerns a query that does not exist (`SubmittedAreCreated`).
* `ClientPartsProofs`, daemon: `TypeCorrect`, `LimitHolds`, `DrainHolds`, `CleanUpHolds`, `RegistryHolds`,
  `ReportHolds`, `SlotsHold` and `FilesHold` (the conjunctions that the run checks) and
  `ContractHolds` (the refinement of `DaemonContract`). The invariant
  `DaemonInv` holds what they rest on: `Counters` (semaphore, wait group and probe count are the
  cardinalities of the goroutines in the right places, by one lemma per set on what a single
  move changes), `DrainAfterStop` (a closed `drainDone` means that `stopCh` is closed, so
  nothing is accepted any more), `NothingBefore` (the file is made with a count of zero when no
  probe exists) and `RequestsKnown` (no response before the goroutine is past it). For the
  refinement, excuses stay: a reconnect makes a new connection number and revives no old one.
* `FeishuPartsProofs`, events: `ReceptionIsSafe` and `AskedOnce`. An entry holds parts of one split only,
  also after a redelivery with another one; `MemoryInv` counts the dispatches of a message since its
  id was last lost; `TakenInv` says that an id in the Deduplicator, like an acknowledgement, comes
  after a question that was asked, cut off by a restart, or is in the hands of a goroutine.
* `FeishuPartsProofs`, codec: `DecodedHolds`. The bytes of a number are described by the sequence of
  its quotients by 128 (`Shape`), from which `decodeVarint` rebuilds it (`VarintRoundTrip`). A field is
  read by looking at its own bytes only (`FieldLocal`), so an encoded one (`Piece`) is read alike
  whatever follows, and a beginning of it is refused (`PieceCut`). Hence bytes are a *script*: pieces,
  and the frame there is after each of them (`Script`). The fields of a frame are a script for it
  (`FrameScript`, `HeaderRoundTrip`) and stay one with an unknown field put anywhere (`InsertScript`).
  The invariant `CodecInv` says that what arrived is the first n bytes of some script of the
  frame that was sent, and that the loop stands behind the k-th piece with the k-th frame.
* `FeishuClientProofs`: `StoppedIsSilent` and `PingIsCurrent` for any requests, `OneClientServes` for
  serial ones. `ClientInv` ties connections to the steps of `runLoop` that own them, and the one
  place of `pingResetCh` to the latest interval (`ResetIsLatest`). `BindingInv` says for each
  step of a request which client may still run (`RequestAt`).
* `StorePartsProofs`: `PairingHolds` and `IndexesHold`. `StoreInv` says that memory and the log's
  image are each `Good` (a spent invite made one member, a flag is a binding) and are the `Same`
  except for invites that have expired. A method may stop after any of its events, so
  each event is shown to keep this by itself, in the order of the code; `acked` only
  grows by what is logged. `TargetsHold` is about the two searches (`ExtractIsLongest`,
  `SearchIsExact`) and about what a rename between them can change (`FetchedIsCurrent`).
  `PagesHold`: what is still to be read lies at a place of at most `Len - offset` from the old end,
  which no later query moves (`StillToCome`).
* `HubPartsProofs`: `RateHolds`, `RetriesHold`, `TokensHold`. The bound on the rate is inductive once
  what is left in the bucket counts as let through (`TokensAreCovered`). Retries meet in the
  Store's index: who was told of a live query is told the indexed one, and whoever is about to
  replace an entry has found it dead (`AnswersAreIndexed`, `ReplacesDead`); the cache may run ahead
  of the index only for an attempt that still runs. A rejected token stays out of the cache as long
  as a retry depends on it, because a reply that would store it holds the lock (`RetryIsFresh`).
* `ClientPartsProofs`, commands: `AskHolds`, because `ask` reports only statuses that the query has had
  (`ReportsHistory`), and `DaemonsHold`, because a `daemon` command knows the one process that may
  work (`Followed`).
* `ClientPartsProofs`, probe: `ProbeHolds`. `ProbeInv` has four parts besides the types. `Budget` ties
  the number of requests to the step and the place in the loop. `Refusal`: the `refuse` tool is never
  among the calls to execute. `Secrets`: what the model says holds whole keys only
  (`Quotable`), so that redaction, which comes before the cut, leaves nothing of them to cut.
  `Conversation`: what the messages convert to has every call answered by the next entry, except
  while tools run, when the last entry still owes the answers to the calls that are left (`Owing`).

Induction over data. `QueueLemmas` derives induction for *sets* of natural numbers from the
well-foundedness of `<`, so the provers can use it. For this the loops that the proofs are about are
written as recursive functions or as choices: `Kept` is the loop of `GetQueuedQueriesForMember`
(an assumption of `MCStoreParts` compares it with `SelectSeq`), `SnapshotOrder` the list that
is sorted, shown to exist and to be a permutation (`SortedExists`, `SortedOnce`), and
`AfterFirst` the first events of a method, of which none has more than three. `Redact`, `ConvertAll`,
`encodeVarint`, `Number` and `unmarshalHeader` are recursive functions, whose existence is proved
first, each by an induction of its own (`NumberExists`, `HeaderExists`...). `CodecInv` asks for
*some* script, which TLC cannot search for: TLC checks what follows from it, on every cut and
every place of an unknown field.

Only model-checked: all liveness properties (`QueriesSettle`, `ReconnectAnswers`,
`SocketCloseRequeues`, `StopReturns`, `PresenceSettles`, `RepliesEnd`, `EventsAcknowledged`,
`RequestsEnd`, `RequestsServed`, `StopCompletes`, `DeadConnectionIsLeft`, `ClientEnds`), because
fairness is outside the prover.

## 5. Not modelled

* Store: failing writes of query events. Several methods drop the error of `appendEventLocked`, after
  which memory and log disagree; `QueryStore` has crashes only. The order of queries created
  in the same millisecond after a compaction.
* Hub: routing, JSON and authentication headers; the start of the clients of stored bindings when
  the Hub boots; the time that closing a superseded connection takes while `h.mu` is held.
* Feishu: wording of cards and parsing of message texts; messages without a text are in the
  module (`blank`) and not in the instance; the reconnect limit is a constant, although the server may
  change it; lengths that are negative as a 64-bit int in the codec.
* Daemon: the length of the backoff, the choice of a workspace, failing file writes, the misuse
  checks of its wait group, a cancel that arrives before the goroutine has registered.
* Probe tools: file system and process access. Path containment is a matter of the operating system's
  names and links rather than of a protocol. The HTTP formats of the LLM providers, except for the
  conversion of a conversation.
* Command line: `daemon` in the foreground, which overwrites the PID file, commands that run at the
  same time, reuse of process ids, and the commands that make one request and print.
* Configuration, web console, test doubles and deployment: sequential, without state, or outside
  the program.

`PROJECT.json` gives the reason for each part. A response of a daemon that does not own the
query is rejected by the Hub; the models contain honest daemons only.

## 6. Plan

1. Failing writes in `QueryStore`, as in `MemberStore`.
2. The wrap of numbers at 2^64 in the codec, for peers whose tags or lengths are larger.
