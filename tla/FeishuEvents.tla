---------------------------- MODULE FeishuEvents ----------------------------
(* The messages that reach the Hub through Feishu: the reassembly of the    *)
(* frames of an event (internal/feishu/fragment.go), the goroutine that     *)
(* processes a frame and acknowledges the event (processDataFrame of        *)
(* ws_client.go), the deduplication of events (dedupe.go) and the           *)
(* asynchronous dispatch of a question (ProcessEvent of handler.go).        *)
(*                                                                          *)
(* Feishu itself is external: it delivers an event again, in the same or in *)
(* other fragments, until it is acknowledged with code 200.  A connection   *)
(* may drop with frames on it and with responses not yet written, an id may *)
(* outlive its TTL, and the Hub may restart with an empty memory.           *)
EXTENDS Integers, FiniteSets, FiniteSetsExt

CONSTANTS
    Events,     \* events Feishu delivers
    Message,    \* Message[e]: the message the event is about
    Kind,       \* Kind[e]: "question", "blank" (a message without a text),
                \* "other" (not a user's message) or "bad" (not JSON)
    Sums,       \* Sums[e]: numbers of fragments the event may be split into
    Slots,      \* goroutines of processDataFrame that handle a whole event
    MaxSize,    \* maxSize of the Deduplicator
    MaxFaults,  \* bound of the drops, expiries and restarts
    None

Messages == {Message[e] : e \in Events}

ASSUME EventsAssumption ==
    /\ IsFiniteSet(Events) /\ IsFiniteSet(Messages)
    /\ Events \cap Messages = {}
    /\ Kind \in [Events -> {"question", "blank", "other", "bad"}]
    /\ \A e, f \in Events :       \* the events of a message carry its text
        /\ Message[e] = Message[f]
        /\ {Kind[e], Kind[f]} \subseteq {"question", "blank"}
        => Kind[e] = Kind[f]
    /\ \A e \in Events : Sums[e] \subseteq Nat \ {0} /\ Sums[e] # {}
    /\ MaxSize \in Nat \ {0} /\ MaxFaults \in Nat

Ids == Events \cup Messages

Split(n) == 0 .. n - 1

VARIABLES
    frames,     \* frames received and not yet processed
    entries,    \* entries of the FragmentReassembler: [sum, parts, expired]
    job,        \* the goroutine of a slot: [at, event, code, live]
    seen,       \* ids the Deduplicator remembers
    acked,      \* events Feishu has an acknowledgement of
    asked,      \* messages whose question was given to a dispatch goroutine
    repeats,    \* how often that was since the message id was last lost
    cut,        \* messages a restart has interrupted
    faults      \* faults so far

reception == <<frames, entries>>
ghosts == <<asked, repeats, cut>>
vars == <<reception, job, seen, acked, ghosts, faults>>

Entry(e) ==
    UNION {[sum : {n}, parts : [Split(n) -> Sums[e] \cup {0}], expired : BOOLEAN] : n \in Sums[e]}

Idle == [at |-> "idle", event |-> None, code |-> 0, live |-> FALSE]

----------------------------------------------------------------------------
Init ==
    /\ frames = {}
    /\ entries = [e \in Events |-> None]
    /\ job = [s \in Slots |-> Idle]
    /\ seen = {}
    /\ acked = {}
    /\ asked = {}
    /\ repeats = [m \in Messages |-> 0]
    /\ cut = {}
    /\ faults = 0

\* Ghost: repeats, when seen becomes s and the messages of new are asked.
Count(s, new) ==
    repeats' = [m \in Messages |->
        IF m \in seen \ s THEN 0 ELSE repeats[m] + IF m \in new THEN 1 ELSE 0]

\* External: Feishu delivers an event that it has no acknowledgement of.
Deliver(e) ==
    /\ e \notin acked
    /\ \A f \in frames : f.event # e
    /\ \E n \in Sums[e] :
        frames' = frames \cup [event : {e}, sum : {n}, seq : Split(n), live : {TRUE}]
    /\ UNCHANGED <<entries, job, seen, acked, ghosts, faults>>

Fresh(n) == [sum |-> n, parts |-> [i \in Split(n) |-> 0], expired |-> FALSE]

Complete(entry) == \A i \in DOMAIN entry.parts : entry.parts[i] # 0

\* Mutant: a fragment of another split is accepted.
AddFragmentAnySum(entry, f) ==
    LET old == IF entry = None \/ entry.expired THEN Fresh(f.sum) ELSE entry
    IN  [old EXCEPT !.parts = [i \in DOMAIN old.parts |->
            IF i = f.seq /\ old.parts[i] = 0 THEN f.sum ELSE old.parts[i]]]

\* Mutant: expired entries are not swept.
AddFragmentNoSweep(entry, f) ==
    IF entry # None /\ entry.sum # f.sum THEN entry
    ELSE LET old == IF entry = None THEN Fresh(f.sum) ELSE entry
         IN  [old EXCEPT !.expired = FALSE,
                         !.parts[f.seq] = IF old.parts[f.seq] = 0 THEN f.sum ELSE @]

\* AddFragment: the entry of the event after the fragment f.  An expired entry
\* is swept; a fragment of another split is discarded and does not extend the
\* entry's life; a part that is there already is kept.  A part is written as
\* the split it was cut from.
AddFragment(entry, f) ==
    LET live == IF entry # None /\ entry.expired THEN None ELSE entry
    IN  IF live # None /\ live.sum # f.sum THEN live
        ELSE LET old == IF live = None THEN Fresh(f.sum) ELSE live
             IN  [old EXCEPT !.expired = FALSE,
                             !.parts[f.seq] = IF old.parts[f.seq] = 0 THEN f.sum ELSE @]

Begin(e, live) ==
    [at |-> IF Kind[e] \in {"question", "blank"} THEN "event" ELSE "respond",
     event |-> e, live |-> live,
     code |-> IF Kind[e] = "bad" THEN 500 ELSE 200]

\* Goroutines are interchangeable: a frame takes any free slot.
FreeSlot == CHOOSE s \in Slots : job[s].at = "idle"

\* processDataFrame up to the event handler: an unfragmented frame does not go
\* through the reassembler, and only the fragment that completes the event
\* goes on.  ProcessEvent rejects what is not JSON and ignores what is not a
\* user's message before it looks at the ids.
ProcessFrame(f) ==
    /\ f \in frames
    /\ frames' = frames \ {f}
    /\ LET entry == IF f.sum = 1 THEN entries[f.event] ELSE AddFragment(entries[f.event], f)
       IN  IF f.sum > 1 /\ ~Complete(entry)
           THEN /\ entries' = [entries EXCEPT ![f.event] = entry]
                /\ UNCHANGED job
           ELSE /\ entries' = [entries EXCEPT ![f.event] = IF f.sum = 1 THEN entry ELSE None]
                /\ \E s \in Slots : job[s].at = "idle"
                /\ job' = [job EXCEPT ![FreeSlot] = Begin(f.event, f.live)]
    /\ UNCHANGED <<seen, acked, ghosts, faults>>

\* Mutant: a full Deduplicator records nothing.
RecordsUnlessFull(id) == IF Cardinality(seen) >= MaxSize THEN {seen} ELSE {seen \cup {id}}

\* CheckAndRecord for an id that is not there: at capacity it drops an
\* arbitrary half of the ids, and at least one.
Records(id) ==
    IF Cardinality(seen) < MaxSize THEN {seen \cup {id}}
    ELSE {(seen \ gone) \cup {id} : gone \in kSubset(Max({1, MaxSize \div 2}), seen)}

\* The check of the event id.
CheckEvent(s) ==
    /\ job[s].at = "event"
    /\ IF job[s].event \in seen
       THEN /\ job' = [job EXCEPT ![s].at = "respond"]
            /\ UNCHANGED <<seen, repeats>>
       ELSE /\ job' = [job EXCEPT ![s].at = "message"]
            /\ seen' \in Records(job[s].event)
            /\ Count(seen', {})
    /\ UNCHANGED <<reception, acked, asked, cut, faults>>

\* The check of the message id.  A new question is given to a goroutine of its
\* own, a message without a text is dropped, and ProcessEvent returns.
CheckMessage(s) ==
    /\ job[s].at = "message"
    /\ job' = [job EXCEPT ![s].at = "respond"]
    /\ LET m == Message[job[s].event]
           new == IF Kind[job[s].event] = "question" THEN {m} ELSE {}
       IN  IF m \in seen
           THEN UNCHANGED <<seen, asked, repeats>>
           ELSE /\ seen' \in Records(m)
                /\ Count(seen', new)
                /\ asked' = asked \cup new
    /\ UNCHANGED <<reception, acked, cut, faults>>

\* The response is written if the frame's connection is still the active one.
Respond(s) ==
    /\ job[s].at = "respond"
    /\ job' = [job EXCEPT ![s] = Idle]
    /\ acked' = IF job[s].live /\ job[s].code = 200 THEN acked \cup {job[s].event} ELSE acked
    /\ UNCHANGED <<reception, seen, ghosts, faults>>

----------------------------------------------------------------------------
(* Time and faults.                                                         *)

Fault == faults < MaxFaults /\ faults' = faults + 1

\* The 5 s of an entry pass without a fragment of its split.  That it happens
\* between two frames of one delivery is a fault: they arrive together.
EntryAges(e) ==
    /\ entries[e] # None /\ ~entries[e].expired
    /\ entries' = [entries EXCEPT ![e].expired = TRUE]
    /\ IF \E f \in frames : f.event = e THEN Fault ELSE UNCHANGED faults
    /\ UNCHANGED <<frames, job, seen, acked, ghosts>>

\* The 30 minutes of an id pass.
IdExpires(id) ==
    /\ Fault
    /\ id \in seen
    /\ seen' = seen \ {id}
    /\ Count(seen', {})
    /\ UNCHANGED <<reception, job, acked, asked, cut>>

\* The connection drops: frames that were not read are lost, the goroutines
\* that run can no longer respond.
ConnectionDrops ==
    /\ Fault
    /\ frames # {} \/ \E s \in Slots : job[s].live
    /\ \E kept \in SUBSET frames : frames' = {[f EXCEPT !.live = FALSE] : f \in kept}
    /\ job' = [s \in Slots |-> [job[s] EXCEPT !.live = FALSE]]
    /\ UNCHANGED <<entries, seen, acked, ghosts>>

\* The Hub restarts: nothing of this module's state is persisted.
Restart ==
    /\ Fault
    /\ frames' = {}
    /\ entries' = [e \in Events |-> None]
    /\ job' = [s \in Slots |-> Idle]
    /\ seen' = {}
    /\ Count({}, {})
    /\ cut' = cut \cup {Message[job[s].event] : s \in {t \in Slots : job[t].at = "message"}}
    /\ UNCHANGED <<acked, asked>>

Handle(s) == CheckEvent(s) \/ CheckMessage(s) \/ Respond(s)

Next ==
    \/ \E e \in Events : Deliver(e) \/ EntryAges(e)
    \/ \E f \in frames : ProcessFrame(f)
    \/ \E s \in Slots : Handle(s)
    \/ \E id \in Ids : IdExpires(id)
    \/ ConnectionDrops
    \/ Restart

Spec == Init /\ [][Next]_vars

\* Goroutines run, and Feishu goes on delivering, with pauses of more than the
\* 5 s of an entry (hence the strong fairness of EntryAges).  The slots are a
\* bound of the model: no frame waits for ever for one.
FairSpec ==
    /\ Spec
    /\ \A e \in Events :
        /\ WF_vars(Deliver(e)) /\ SF_vars(EntryAges(e))
        /\ SF_vars(\E f \in frames : f.event = e /\ ProcessFrame(f))
    /\ \A s \in Slots : WF_vars(Handle(s))

----------------------------------------------------------------------------
(* Properties.                                                              *)

\* The type of the reception's, the handlers' and the ghost state.
TypeOK ==
    /\ \A f \in frames : f.event \in Events /\ f.sum \in Sums[f.event] /\ f.seq \in Split(f.sum) /\ f.live \in BOOLEAN
    /\ \A e \in Events : entries[e] = None \/ entries[e] \in Entry(e)
    /\ \A s \in Slots :
        /\ job[s].at \in {"idle", "event", "message", "respond"}
        /\ job[s].event \in Events \cup {None}
    /\ seen \subseteq Ids /\ Cardinality(seen) <= MaxSize
    /\ acked \subseteq Events
    /\ asked \cup cut \subseteq Messages
    /\ repeats \in [Messages -> Nat]
    /\ faults \in 0 .. MaxFaults

\* An event delivered in two different splits is never put together from
\* fragments of both, and an entry never holds a whole event: the fragment
\* that completes it takes it out.
ReassemblyIsWhole ==
    \A e \in Events : entries[e] # None =>
        /\ \A i \in DOMAIN entries[e].parts : entries[e].parts[i] \in {0, entries[e].sum}
        /\ ~Complete(entries[e])

\* A question is dispatched again only after the Deduplicator has lost its
\* message id, by capacity, age or restart, however many redeliveries are
\* between the two checks.  (The event id is no second line of defence: it may
\* come back while the message id goes.)
AskedOncePerMemory == \A m \in Messages : repeats[m] <= 1

\* A question that Feishu will not deliver again has been dispatched, is being
\* dispatched, or was cut off by a restart: neither a fragment on its own, a
\* duplicate nor a response on a newer connection acknowledges it too early.
AckedIsTaken ==
    \A e \in acked : Kind[e] = "question" =>
        LET m == Message[e]
        IN  \/ m \in asked \cup cut
            \/ \E s \in Slots : job[s].at = "message" /\ Message[job[s].event] = m

\* The reception is sound: no event is put together from two splits, and none
\* is acknowledged before its question is taken.
ReceptionIsSound == TypeOK /\ ReassemblyIsWhole /\ AckedIsTaken

\* Every event that the handler accepts is acknowledged in the end, whatever
\* splits it is delivered in and whatever fragments of it were lost.
AcknowledgedInTheEnd == \A e \in Events : Kind[e] # "bad" => <>(e \in acked)
=============================================================================
