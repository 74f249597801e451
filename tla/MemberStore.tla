---------------------------- MODULE MemberStore ----------------------------
(* The membership half of the Hub's Store (internal/store/store.go):        *)
(* invites, members, bearer tokens and Feishu bindings, the events that     *)
(* record them, compaction, and the faults of events.jsonl: an append that  *)
(* fails, an append that is cut short, a process that dies while it writes. *)
(*                                                                          *)
(* Every method holds s.mu, so that a method is one action: it logs its     *)
(* events in order and applies each one to memory once it is logged.  The   *)
(* log is represented by the image it replays to.                           *)
EXTENDS Naturals, Sequences, FiniteSets

CONSTANTS
    Invites,    \* invite codes RandomHex may draw
    Members,    \* member ids RandomHex may draw; a member and its token share one
    Names,
    Aliases,    \* lists of aliases
    Machines,
    Creds,      \* Feishu credentials
    None,       \* an empty string in a request; an absent entry of a map
    Faults      \* which of AllFaults may happen

AllFaults ==
    {"error",    \* Write fails, nothing reaches the file
     "short",    \* Write fails after a part of the line
     "torn",     \* the process dies after a part of the line
     "bare"}     \* the process dies after the line, before its newline

VARIABLES
    mem,        \* the indexes in memory
    log,        \* events.jsonl: img, and the state of its last line
    open,       \* eventsFile # nil
    expired,    \* invites whose ExpiresAt has passed
    drawn,      \* codes and ids RandomHex has returned: it never repeats one
    acked       \* invite codes and tokens a caller has received

vars == <<mem, log, open, expired, drawn, acked>>

----------------------------------------------------------------------------
(* The indexes.                                                             *)

\* from is the invite the member was paired with (its TargetName).
MemberInfo ==
    [from: Invites, name: Names \cup {None}, aliases: Aliases \cup {None},
     online: BOOLEAN, machine: Machines \cup {None}, bot: BOOLEAN]

Image ==
    [invites: [Invites -> {"none", "open", "consumed"}],
     members: [Members -> MemberInfo \cup {None}],
     tokens: SUBSET Members,
     bindings: [Members -> Creds \cup {None}]]

\* What RandomHex draws is of one kind, and None is no value.
ConstantsAreDistinct ==
    /\ Invites \cap Members = {}
    /\ None \notin MemberInfo \cup Creds

Empty ==
    [invites |-> [i \in Invites |-> "none"],
     members |-> [m \in Members |-> None],
     tokens |-> {},
     bindings |-> [m \in Members |-> None]]

NewMember(i) ==
    [from |-> i, name |-> None, aliases |-> None,
     online |-> FALSE, machine |-> None, bot |-> FALSE]

\* Events about a member that is not in the index are ignored.
Change(img, id, r) ==
    [img EXCEPT !.members[id] = IF @ = None THEN None ELSE r]

InviteConsumed(img, code) ==
    [img EXCEPT !.invites[code] = IF @ = "none" THEN "none" ELSE "consumed"]

MemberUpdated(img, ev) ==
    Change(img, ev.id,
           [img.members[ev.id] EXCEPT
              !.name = IF ev.name = None THEN @ ELSE ev.name,
              !.aliases = ev.aliases])

MemberPresence(img, ev) ==
    Change(img, ev.id,
           [img.members[ev.id] EXCEPT
              !.online = ev.online,
              !.machine = IF ev.machine = None THEN @ ELSE ev.machine])

BindingSaved(img, ev) ==
    Change([img EXCEPT !.bindings[ev.id] = ev.creds],
           ev.id, [img.members[ev.id] EXCEPT !.bot = TRUE])

BindingDeleted(img, ev) ==
    Change([img EXCEPT !.bindings[ev.id] = None],
           ev.id, [img.members[ev.id] EXCEPT !.bot = FALSE])

\* The effect of an event: the method that logs it has it on memory, and
\* replaying its line has it on the indexes of the new process.
applyEvent(img, ev) ==
    CASE ev.type = "invite_created"         -> [img EXCEPT !.invites[ev.code] = "open"]
      [] ev.type = "invite_consumed"        -> InviteConsumed(img, ev.code)
      [] ev.type = "member_created"         -> [img EXCEPT !.members[ev.id] = ev.info]
      [] ev.type = "member_token_indexed"   -> [img EXCEPT !.tokens = @ \cup {ev.id}]
      [] ev.type = "member_updated"         -> MemberUpdated(img, ev)
      [] ev.type = "member_presence"        -> MemberPresence(img, ev)
      [] ev.type = "feishu_binding_saved"   -> BindingSaved(img, ev)
      [] ev.type = "feishu_binding_deleted" -> BindingDeleted(img, ev)

----------------------------------------------------------------------------
(* The log.  tail says how its last line ends: "clean" (with a newline),    *)
(* "torn" (bytes that are no event) or "bare" (an event without a newline). *)
(* What is appended to a torn or bare line joins it, and the replay skips   *)
(* the joined line as corrupted; prev is the image without a bare event.    *)

Log == [img: Image, prev: Image, tail: {"clean", "torn", "bare"}]

Clean(img) == [img |-> img, prev |-> img, tail |-> "clean"]

Torn(img) == [img |-> img, prev |-> img, tail |-> "torn"]

\* A whole line is written.
Write(l, ev) ==
    IF l.tail = "clean" THEN Clean(applyEvent(l.img, ev)) ELSE Clean(l.prev)

\* A part of a line is written.
WritePart(l) == Torn(l.prev)

\* A line is written without its newline.
WriteBare(l, ev) ==
    IF l.tail = "clean"
    THEN [img |-> applyEvent(l.img, ev), prev |-> l.img, tail |-> "bare"]
    ELSE Torn(l.prev)

\* The file as the next process finds it and opens it: a torn line at the end
\* is truncated, a bare event is replayed and left without a newline.
replayAndOpenFile(l) == IF l.tail = "torn" THEN Clean(l.img) ELSE l

\* What f makes of x with the first k events of a method; none has more than
\* three.
AfterFirst(f(_, _), x, evs, k) ==
    IF k = 0 THEN x
    ELSE IF k = 1 THEN f(x, evs[1])
    ELSE IF k = 2 THEN f(f(x, evs[1]), evs[2])
    ELSE f(f(f(x, evs[1]), evs[2]), evs[3])

Logged(evs, k) == AfterFirst(Write, log, evs, k)

Remembered(evs, k) == AfterFirst(applyEvent, mem, evs, k)

----------------------------------------------------------------------------
Init ==
    /\ mem = Empty
    /\ log = Clean(Empty)
    /\ open = TRUE
    /\ expired = {}
    /\ drawn = {}
    /\ acked = {}

Restart(l) ==
    /\ log' = replayAndOpenFile(l)
    /\ mem' = log'.img
    /\ open' = TRUE
    /\ UNCHANGED <<expired, acked>>

\* Every append of the method succeeds, and the caller is told.
Succeeds(evs, reply) ==
    /\ open
    /\ log' = Logged(evs, Len(evs))
    /\ mem' = Remembered(evs, Len(evs))
    /\ acked' = acked \cup reply
    /\ UNCHANGED <<open, expired>>

\* Mutant: the event is applied although it was not logged.
FailsAfterApplying(evs) ==
    \E k \in 1 .. Len(evs) :
        /\ log' = Logged(evs, k - 1)
        /\ mem' = Remembered(evs, k)
        /\ UNCHANGED <<open, expired, acked>>

\* The append of event k fails: the method returns the error, and what it
\* logged and remembered before stays.  A closed store fails at once.
Fails(evs) ==
    /\ open
    /\ \E k \in 1 .. Len(evs) :
        /\ \/ "error" \in Faults /\ log' = Logged(evs, k - 1)
           \/ "short" \in Faults /\ log' = WritePart(Logged(evs, k - 1))
        /\ mem' = Remembered(evs, k - 1)
        /\ UNCHANGED <<open, expired, acked>>

\* The process dies while it writes event k, or between two events.
Dies(evs) ==
    /\ open
    /\ \E k \in 1 .. Len(evs) :
        LET l == Logged(evs, k - 1) IN
        \/ "torn" \in Faults /\ Restart(WritePart(l))
        \/ "bare" \in Faults /\ Restart(WriteBare(l, evs[k]))

Method(evs, reply) == Succeeds(evs, reply) \/ Fails(evs) \/ Dies(evs)

----------------------------------------------------------------------------
(* The methods.  A member is identified by its token, so the handlers that  *)
(* change one (handleMemberMeUpdate, the binding handlers, the daemon's     *)
(* hello) act for a member that GetMemberByToken finds.                     *)

GetMemberByToken(m) == m \in acked /\ m \in mem.tokens /\ mem.members[m] # None

CreateInvite(i) ==
    /\ i \notin drawn
    /\ drawn' = drawn \cup {i}
    /\ Method(<<[type |-> "invite_created", code |-> i]>>, {i})

\* Mutant: the member is recorded before the invite is marked.
PairEventsMemberFirst(i, m) ==
    <<[type |-> "member_created", id |-> m, info |-> NewMember(i)],
      [type |-> "invite_consumed", code |-> i],
      [type |-> "member_token_indexed", id |-> m]>>

PairEvents(i, m) ==
    <<[type |-> "invite_consumed", code |-> i],
      [type |-> "member_created", id |-> m, info |-> NewMember(i)],
      [type |-> "member_token_indexed", id |-> m]>>

ConsumeInvite(i, m) ==
    /\ i \in acked
    /\ mem.invites[i] = "open"
    /\ i \notin expired
    /\ m \notin drawn
    /\ drawn' = drawn \cup {m}
    /\ Method(PairEvents(i, m), {m})

UpdateMember(m, name, aliases) ==
    /\ GetMemberByToken(m)
    /\ Method(<<[type |-> "member_updated", id |-> m, name |-> name, aliases |-> aliases]>>, {})
    /\ UNCHANGED drawn

SetMemberOnline(m, online, machine) ==
    /\ GetMemberByToken(m)
    /\ Method(<<[type |-> "member_presence", id |-> m, online |-> online, machine |-> machine]>>, {})
    /\ UNCHANGED drawn

SaveFeishuBinding(m, creds) ==
    /\ GetMemberByToken(m)
    /\ Method(<<[type |-> "feishu_binding_saved", id |-> m, creds |-> creds]>>, {})
    /\ UNCHANGED drawn

DeleteFeishuBinding(m) ==
    /\ GetMemberByToken(m)
    /\ Method(<<[type |-> "feishu_binding_deleted", id |-> m]>>, {})
    /\ UNCHANGED drawn

\* What the lines Compact writes replay to.
Snapshot ==
    [mem EXCEPT !.invites = [i \in Invites |->
                    IF @[i] = "open" /\ i \notin expired THEN "open" ELSE "none"]]

\* Compact writes the snapshot beside the log, closes the log, renames and
\* reopens.  An error before the close changes nothing; a failed rename leaves
\* the old log and a failed reopen the new one, both closed for good.
Compact ==
    /\ open
    /\ \/ log' = Clean(Snapshot) /\ open' = TRUE
       \/ "error" \in Faults /\ log' \in {log, Clean(Snapshot)} /\ open' = FALSE
    /\ UNCHANGED <<mem, expired, drawn, acked>>

\* The process dies before or after the rename of Compact, or at any other
\* time, or Close ends it; the next one opens the log.
Crash ==
    /\ \/ Restart(log)
       \/ open /\ Restart(Clean(Snapshot))
    /\ UNCHANGED drawn

InviteExpires(i) ==
    /\ mem.invites[i] = "open"
    /\ expired' = expired \cup {i}
    /\ UNCHANGED <<mem, log, open, drawn, acked>>

Next ==
    \/ \E i \in Invites : CreateInvite(i) \/ InviteExpires(i)
    \/ \E i \in Invites, m \in Members : ConsumeInvite(i, m)
    \/ \E m \in Members :
        \/ \E n \in Names \cup {None}, a \in Aliases : UpdateMember(m, n, a)
        \/ \E b \in BOOLEAN, k \in Machines \cup {None} : SetMemberOnline(m, b, k)
        \/ \E c \in Creds : SaveFeishuBinding(m, c)
        \/ DeleteFeishuBinding(m)
    \/ Compact
    \/ Crash

Spec == Init /\ [][Next]_vars

----------------------------------------------------------------------------
(* Properties.                                                              *)

\* The type of the indexes, of the log and of the histories.
TypeOK ==
    /\ mem \in Image
    /\ log \in Log
    /\ open \in BOOLEAN
    /\ expired \subseteq Invites
    /\ drawn \subseteq Invites \cup Members
    /\ acked \subseteq drawn

\* A token that ConsumeInvite returned authenticates its member for ever: in
\* this process, and in every process that replays the log after a crash, a
\* failed append or a compaction.
TokensSurvive ==
    \A m \in acked \cap Members :
        \A img \in {mem, log.img} : m \in img.tokens /\ img.members[m] # None

\* An invite pairs at most one member: while it can still be used, and after
\* any crash in which it can be used again, no member has come from it, and
\* never two, whatever ConsumeInvite was doing when it failed.
OneMemberPerInvite ==
    \A img \in {mem, log.img}, i \in Invites :
        LET paired == {m \in Members : img.members[m] # None /\ img.members[m].from = i}
        IN  Cardinality(paired) <= (IF img.invites[i] = "open" THEN 0 ELSE 1)

\* Readers see what the log holds: after a method that failed in the middle,
\* a compaction that failed or a closed store, memory still agrees with what
\* the next process will know (a dead invite may be missing from the log).
MemoryIsLogged ==
    /\ mem.members = log.img.members
    /\ mem.tokens = log.img.tokens
    /\ mem.bindings = log.img.bindings
    /\ \A i \in Invites \ expired : mem.invites[i] = "open" <=> log.img.invites[i] = "open"

\* HasFeishuBot, which the member list shows, is set exactly while a binding
\* exists, through replays and compactions (which store the two separately).
BotFlagIsBinding ==
    \A img \in {mem, log.img}, m \in Members :
        img.members[m] # None => (img.members[m].bot <=> img.bindings[m] # None)

\* Pairing survives crashes and failed writes between its three events: a
\* token that was handed out stays good, and an invite makes one member.
PairingIsDurable == TokensSurvive /\ OneMemberPerInvite

\* The indexes agree with each other and with the log that the next process
\* will replay.
IndexesAgree == TypeOK /\ MemoryIsLogged /\ BotFlagIsBinding
============================================================================
