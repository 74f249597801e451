-------------------------- MODULE StorePartsProofs --------------------------
(* The parts of the Store beside the queries: pairing is durable and the    *)
(* indexes agree with each other and with the log, whatever append fails    *)
(* and whenever the process dies (MemberStore); a question reaches whom it  *)
(* names (Directory); the pages of a listing miss nothing (AuditPages).     *)
EXTENDS StoreParts, QueueLemmas, FiniteSetTheorems, TLAPS

----------------------------------------------------------------------------
(* Invites, members, tokens and bindings.                                   *)
(*                                                                          *)
(* The faults are those that leave the log whole once it is opened again:   *)
(* an append that fails without a trace, and a process that dies within a   *)
(* line.  (A line that is cut short, or that lost its newline, swallows the *)
(* event after it; the README shows where.)                                 *)

WholeLines == Faults \subseteq {"error", "torn"}

\* An image on its own: no binding without its member, the flag of a member is
\* its binding, and the invite a member came from is spent and made no other.
Good(img, d) ==
    /\ img \in Team!Image
    /\ \A m \in Members : img.members[m] = None => img.bindings[m] = None
    /\ \A m \in Members : img.members[m] # None =>
        /\ img.members[m].bot <=> img.bindings[m] # None
        /\ m \in d /\ img.members[m].from \in d
        /\ img.invites[img.members[m].from] # "open"
    /\ \A m, n \in Members :
        img.members[m] # None /\ img.members[n] # None /\ img.members[m].from = img.members[n].from
        => m = n

\* Two images that differ at most in invites that can no longer be used.
Same(a, b, e) ==
    /\ a.members = b.members /\ a.tokens = b.tokens /\ a.bindings = b.bindings
    /\ \A i \in Invites \ e : a.invites[i] = "open" <=> b.invites[i] = "open"

\* The token of m is good.
Known(img, m) == m \in img.tokens /\ img.members[m] # None

StoreInv ==
    /\ log = Team!Clean(log.img)
    /\ Good(mem, drawn) /\ Good(log.img, drawn)
    /\ Same(mem, log.img, expired)
    /\ \A m \in acked \cap Members : Known(mem, m)
    /\ open \in BOOLEAN
    /\ expired \subseteq Invites
    /\ drawn \subseteq Invites \cup Members
    /\ acked \subseteq drawn

----------------------------------------------------------------------------
(* The effect of an event, field by field.                                  *)

LEMMA InviteCreatedFields ==
    ASSUME NEW img \in Team!Image, NEW i \in Invites
    PROVE  LET r == Team!applyEvent(img, [type |-> "invite_created", code |-> i])
           IN  /\ r \in Team!Image
               /\ r.members = img.members /\ r.tokens = img.tokens /\ r.bindings = img.bindings
               /\ r.invites = [img.invites EXCEPT ![i] = "open"]
  BY DEF Team!applyEvent, Team!Image

LEMMA InviteConsumedFields ==
    ASSUME NEW img \in Team!Image, NEW i \in Invites
    PROVE  LET r == Team!applyEvent(img, [type |-> "invite_consumed", code |-> i])
           IN  /\ r \in Team!Image
               /\ r.members = img.members /\ r.tokens = img.tokens /\ r.bindings = img.bindings
               /\ r.invites = [img.invites EXCEPT ![i] = IF @ = "none" THEN "none" ELSE "consumed"]
  BY DEF Team!applyEvent, Team!InviteConsumed, Team!Image

LEMMA MemberCreatedFields ==
    ASSUME NEW img \in Team!Image, NEW i \in Invites, NEW m \in Members
    PROVE  LET r == Team!applyEvent(img, [type |-> "member_created", id |-> m, info |-> Team!NewMember(i)])
           IN  /\ r \in Team!Image
               /\ r.invites = img.invites /\ r.tokens = img.tokens /\ r.bindings = img.bindings
               /\ r.members = [img.members EXCEPT ![m] = Team!NewMember(i)]
  <1>1. Team!NewMember(i) \in Team!MemberInfo
    BY DEF Team!NewMember, Team!MemberInfo
  <1>2. QED
    BY <1>1 DEF Team!applyEvent, Team!Image

LEMMA TokenIndexedFields ==
    ASSUME NEW img \in Team!Image, NEW m \in Members
    PROVE  LET r == Team!applyEvent(img, [type |-> "member_token_indexed", id |-> m])
           IN  /\ r \in Team!Image
               /\ r.invites = img.invites /\ r.members = img.members /\ r.bindings = img.bindings
               /\ r.tokens = img.tokens \cup {m}
  BY DEF Team!applyEvent, Team!Image


\* The events about a member that is there replace its record and its binding,
\* both by what they and the event say, and keep the invite it came from.
Touched(img, r, m, info, b) ==
    /\ r \in Team!Image
    /\ r.invites = img.invites /\ r.tokens = img.tokens
    /\ r.members = [img.members EXCEPT ![m] = info]
    /\ r.bindings = [img.bindings EXCEPT ![m] = b]
    /\ info \in Team!MemberInfo /\ info.from = img.members[m].from
    /\ info.bot <=> b # None

LEMMA ReplacedFields ==
    ASSUME NEW img \in Team!Image, NEW m \in Members, NEW info \in Team!MemberInfo,
           NEW b \in Creds \cup {None},
           info.from = img.members[m].from, info.bot <=> b # None,
           NEW r, r = [[img EXCEPT !.bindings[m] = b] EXCEPT !.members[m] = info]
    PROVE  Touched(img, r, m, info, b)
  BY DEF Team!Image, Touched

LEMMA MemberFields ==
    ASSUME NEW img \in Team!Image, NEW m \in Members, NEW info \in Team!MemberInfo,
           info.from = img.members[m].from, info.bot <=> img.bindings[m] # None,
           NEW r, r = [img EXCEPT !.members[m] = info]
    PROVE  Touched(img, r, m, info, img.bindings[m])
  BY DEF Team!Image, Touched

Renewed(old, n, a) == [old EXCEPT !.name = IF n = None THEN @ ELSE n, !.aliases = a]

LEMMA MemberUpdatedFields ==
    ASSUME Team!ConstantsAreDistinct, NEW d, NEW img, Good(img, d), NEW m \in Members, img.members[m] # None,
           NEW n \in DisplayNames \cup {None}, NEW a \in Aliases
    PROVE  Touched(img, Team!applyEvent(img, [type |-> "member_updated", id |-> m, name |-> n, aliases |-> a]), m,
                   Renewed(img.members[m], n, a), img.bindings[m])
  <1>1. /\ img \in Team!Image /\ img.members[m] \in Team!MemberInfo
        /\ img.members[m].bot <=> img.bindings[m] # None
    BY DEF Good, Team!Image
  <1>2. /\ Renewed(img.members[m], n, a) \in Team!MemberInfo
        /\ Renewed(img.members[m], n, a).from = img.members[m].from
        /\ Renewed(img.members[m], n, a).bot = img.members[m].bot
    BY <1>1 DEF Team!MemberInfo, Renewed
  <1>3. Team!applyEvent(img, [type |-> "member_updated", id |-> m, name |-> n, aliases |-> a])
        = [img EXCEPT !.members[m] = Renewed(img.members[m], n, a)]
    BY <1>1 DEF Team!applyEvent, Team!MemberUpdated, Team!Change, Renewed
  <1>4. QED
    BY <1>1, <1>2, <1>3, MemberFields

Present(old, b, k) == [old EXCEPT !.online = b, !.machine = IF k = None THEN @ ELSE k]

LEMMA MemberPresenceFields ==
    ASSUME Team!ConstantsAreDistinct, NEW d, NEW img, Good(img, d), NEW m \in Members, img.members[m] # None,
           NEW b \in BOOLEAN, NEW k \in Machines \cup {None}
    PROVE  Touched(img, Team!applyEvent(img, [type |-> "member_presence", id |-> m, online |-> b, machine |-> k]), m,
                   Present(img.members[m], b, k), img.bindings[m])
  <1>1. /\ img \in Team!Image /\ img.members[m] \in Team!MemberInfo
        /\ img.members[m].bot <=> img.bindings[m] # None
    BY DEF Good, Team!Image
  <1>2. /\ Present(img.members[m], b, k) \in Team!MemberInfo
        /\ Present(img.members[m], b, k).from = img.members[m].from
        /\ Present(img.members[m], b, k).bot = img.members[m].bot
    BY <1>1 DEF Team!MemberInfo, Present
  <1>3. Team!applyEvent(img, [type |-> "member_presence", id |-> m, online |-> b, machine |-> k])
        = [img EXCEPT !.members[m] = Present(img.members[m], b, k)]
    BY <1>1 DEF Team!applyEvent, Team!MemberPresence, Team!Change, Present
  <1>4. QED
    BY <1>1, <1>2, <1>3, MemberFields

Flagged(old, f) == [old EXCEPT !.bot = f]

LEMMA BindingSavedFields ==
    ASSUME Team!ConstantsAreDistinct, NEW d, NEW img, Good(img, d), NEW m \in Members, img.members[m] # None,
           NEW c \in Creds
    PROVE  Touched(img, Team!applyEvent(img, [type |-> "feishu_binding_saved", id |-> m, creds |-> c]), m,
                   Flagged(img.members[m], TRUE), c)
  <1>1. img \in Team!Image /\ img.members[m] \in Team!MemberInfo
    BY DEF Good, Team!Image
  <1>2. /\ Flagged(img.members[m], TRUE) \in Team!MemberInfo
        /\ Flagged(img.members[m], TRUE).from = img.members[m].from
        /\ Flagged(img.members[m], TRUE).bot = TRUE /\ c # None
    BY <1>1 DEF Team!MemberInfo, Flagged, Team!ConstantsAreDistinct
  <1>3. Team!applyEvent(img, [type |-> "feishu_binding_saved", id |-> m, creds |-> c])
        = [[img EXCEPT !.bindings[m] = c] EXCEPT !.members[m] = Flagged(img.members[m], TRUE)]
    BY <1>1 DEF Team!applyEvent, Team!BindingSaved, Team!Change, Flagged, Team!Image
  <1>4. QED
    BY <1>1, <1>2, <1>3, ReplacedFields

LEMMA BindingDeletedFields ==
    ASSUME Team!ConstantsAreDistinct, NEW d, NEW img, Good(img, d), NEW m \in Members, img.members[m] # None
    PROVE  Touched(img, Team!applyEvent(img, [type |-> "feishu_binding_deleted", id |-> m]), m,
                   Flagged(img.members[m], FALSE), None)
  <1>1. img \in Team!Image /\ img.members[m] \in Team!MemberInfo
    BY DEF Good, Team!Image
  <1>2. /\ Flagged(img.members[m], FALSE) \in Team!MemberInfo
        /\ Flagged(img.members[m], FALSE).from = img.members[m].from
        /\ Flagged(img.members[m], FALSE).bot = FALSE
    BY <1>1 DEF Team!MemberInfo, Flagged
  <1>3. Team!applyEvent(img, [type |-> "feishu_binding_deleted", id |-> m])
        = [[img EXCEPT !.bindings[m] = None] EXCEPT !.members[m] = Flagged(img.members[m], FALSE)]
    BY <1>1 DEF Team!applyEvent, Team!BindingDeleted, Team!Change, Flagged, Team!Image
  <1>4. QED
    BY <1>1, <1>2, <1>3, ReplacedFields

\* A member event keeps an image good and its tokens known, and two images the
\* same if it replaces the same.
LEMMA TouchedIsGood ==
    ASSUME Team!ConstantsAreDistinct, NEW d, NEW img, Good(img, d), NEW m \in Members, img.members[m] # None,
           NEW r, NEW info, NEW b, Touched(img, r, m, info, b)
    PROVE  Good(r, d) /\ \A k \in Members : Known(img, k) => Known(r, k)
  <1>1. /\ img.members \in [Members -> Team!MemberInfo \cup {None}]
        /\ img.bindings \in [Members -> Creds \cup {None}]
        /\ info # None
    BY DEF Good, Team!Image, Touched, Team!ConstantsAreDistinct
  <1>2. /\ r.members[m] = info /\ r.bindings[m] = b
        /\ \A n \in Members : n # m => r.members[n] = img.members[n] /\ r.bindings[n] = img.bindings[n]
    BY <1>1 DEF Touched
  <1>3. \A n \in Members : /\ (r.members[n] = None) <=> (img.members[n] = None)
                           /\ r.members[n] # None => r.members[n].from = img.members[n].from
    BY <1>1, <1>2 DEF Touched
  <1>4. QED
    BY <1>1, <1>2, <1>3 DEF Good, Known, Touched

LEMMA TouchedAreSame ==
    ASSUME NEW x, NEW y, NEW e, Same(x, y, e), NEW m \in Members, NEW rx, NEW ry, NEW info, NEW b,
           Touched(x, rx, m, info, b), Touched(y, ry, m, info, b)
    PROVE  Same(rx, ry, e)
  BY DEF Same, Touched

LEMMA GoodGrows ==
    ASSUME NEW img, NEW d, Good(img, d), NEW d2, d \subseteq d2
    PROVE  Good(img, d2)
  BY DEF Good

----------------------------------------------------------------------------
(* A method, whatever happens to its appends.                               *)

After(img, evs, k) == Team!AfterFirst(Team!applyEvent, img, evs, k)

LEMMA CleanWrite ==
    ASSUME NEW img, NEW ev
    PROVE  Team!Write(Team!Clean(img), ev) = Team!Clean(Team!applyEvent(img, ev))
  BY DEF Team!Write, Team!Clean

LEMMA LoggedIsClean ==
    ASSUME StoreInv, NEW evs, NEW k \in 0 .. 3
    PROVE  Team!Logged(evs, k) = Team!Clean(After(log.img, evs, k))
  <1>1. log = Team!Clean(log.img)
    BY DEF StoreInv
  <1>2. CASE k = 0
    BY <1>1, <1>2 DEF Team!Logged, After, Team!AfterFirst
  <1>3. CASE k = 1
    BY <1>1, <1>3, CleanWrite DEF Team!Logged, After, Team!AfterFirst
  <1>4. CASE k = 2
    BY <1>1, <1>4, CleanWrite DEF Team!Logged, After, Team!AfterFirst
  <1>5. CASE k = 3
    BY <1>1, <1>5, CleanWrite DEF Team!Logged, After, Team!AfterFirst
  <1>6. QED
    BY <1>2, <1>3, <1>4, <1>5

LEMMA SmallIndex ==
    ASSUME NEW n \in 1 .. 3, NEW k \in 1 .. n
    PROVE  k - 1 \in 0 .. 3 /\ k - 1 \in 0 .. n
  OBVIOUS

\* A method leaves the effect of its first k events on the log, and the same on
\* memory, or, if the process has died, what the log holds; it is answered only
\* when k is all of them.
Effect(evs, reply) ==
    \E k \in 0 .. Len(evs) :
        /\ log' = Team!Clean(After(log.img, evs, k))
        /\ mem' = After(mem, evs, k) \/ mem' = After(log.img, evs, k)
        /\ open' = TRUE /\ expired' = expired
        /\ acked' = acked \/ (k = Len(evs) /\ acked' = acked \cup reply)

LEMMA MethodEffect ==
    ASSUME StoreInv, WholeLines, NEW evs, NEW reply, Len(evs) \in 1 .. 3, Team!Method(evs, reply)
    PROVE  Effect(evs, reply)
  <1> USE DEF Effect
  <1>1. CASE Team!Succeeds(evs, reply)
    <2>1. log' = Team!Clean(After(log.img, evs, Len(evs)))
      <3>1. Len(evs) \in 0 .. 3
        OBVIOUS
      <3>2. QED
        BY <1>1, <3>1, LoggedIsClean DEF Team!Succeeds
    <2>2. QED
      BY <1>1, <2>1 DEF Team!Succeeds, Team!Remembered, After
  <1>2. CASE Team!Fails(evs)
    <2>1. PICK k \in 1 .. Len(evs) : /\ log' = Team!Logged(evs, k - 1)
                                     /\ mem' = Team!Remembered(evs, k - 1)
                                     /\ UNCHANGED <<open, expired, acked>>
      BY <1>2 DEF Team!Fails, WholeLines
    <2>2. k - 1 \in 0 .. 3 /\ k - 1 \in 0 .. Len(evs)
      BY SmallIndex
    <2>3. log' = Team!Clean(After(log.img, evs, k - 1))
      BY <2>1, <2>2, LoggedIsClean
    <2>4. QED
      BY <1>2, <2>1, <2>2, <2>3 DEF Team!Fails, Team!Remembered, After
  <1>3. CASE Team!Dies(evs)
    <2>1. PICK k \in 1 .. Len(evs) : Team!Restart(Team!WritePart(Team!Logged(evs, k - 1)))
      BY <1>3 DEF Team!Dies, WholeLines
    <2>2. k - 1 \in 0 .. 3 /\ k - 1 \in 0 .. Len(evs)
      BY SmallIndex
    <2>3. log' = Team!Clean(After(log.img, evs, k - 1))
      <3>1. Team!Logged(evs, k - 1) = Team!Clean(After(log.img, evs, k - 1))
        BY <2>2, LoggedIsClean
      <3>2. QED
        BY <2>1, <3>1 DEF Team!Restart, Team!WritePart, Team!replayAndOpenFile, Team!Clean, Team!Torn
    <2>4. mem' = After(log.img, evs, k - 1) /\ open' = TRUE /\ expired' = expired /\ acked' = acked
      BY <2>1, <2>3 DEF Team!Restart, Team!Clean
    <2>5. QED
      BY <2>2, <2>3, <2>4
  <1>4. QED
    BY <1>1, <1>2, <1>3 DEF Team!Method

\* So a method keeps the invariant if every prefix of its events keeps an image
\* good and its tokens known, and treats memory and log alike.
Keeps(evs, k, d) ==
    /\ \A img \in {mem, log.img} :
        /\ Good(After(img, evs, k), d)
        /\ \A m \in Members : Known(img, m) => Known(After(img, evs, k), m)
    /\ Same(After(mem, evs, k), After(log.img, evs, k), expired)

LEMMA MethodPreserves ==
    ASSUME StoreInv, WholeLines, NEW evs, NEW reply, Len(evs) \in 1 .. 3, Team!Method(evs, reply),
           drawn' \subseteq Invites \cup Members, drawn \subseteq drawn', reply \subseteq drawn',
           \A k \in 0 .. Len(evs) : Keeps(evs, k, drawn'),
           \A m \in reply \cap Members : \A img \in {mem, log.img} : Known(After(img, evs, Len(evs)), m)
    PROVE  StoreInv'
  <1>1. PICK k \in 0 .. Len(evs) :
              /\ log' = Team!Clean(After(log.img, evs, k))
              /\ mem' = After(mem, evs, k) \/ mem' = After(log.img, evs, k)
              /\ open' = TRUE /\ expired' = expired
              /\ acked' = acked \/ (k = Len(evs) /\ acked' = acked \cup reply)
    BY MethodEffect DEF Effect
  <1>2. log'.img = After(log.img, evs, k) /\ log' = Team!Clean(log'.img)
    BY <1>1 DEF Team!Clean
  <1>3. Good(mem', drawn') /\ Good(log'.img, drawn')
    BY <1>1, <1>2 DEF Keeps
  <1>4. Same(mem', log'.img, expired')
    BY <1>1, <1>2 DEF Keeps, Same
  <1>5. \A m \in acked \cap Members : Known(log.img, m) /\ Known(mem, m)
    BY DEF StoreInv, Same, Known
  <1>6. \A m \in acked' \cap Members : Known(mem', m)
    BY <1>1, <1>5 DEF Keeps
  <1>7. QED
    BY <1>1, <1>2, <1>3, <1>4, <1>6 DEF StoreInv

\* The prefix without an event.
LEMMA KeepsNone ==
    ASSUME StoreInv, NEW evs, NEW d, drawn \subseteq d
    PROVE  Keeps(evs, 0, d)
  BY GoodGrows DEF StoreInv, Keeps, After, Team!AfterFirst

LEMMA CreateInvitePreserves ==
    ASSUME StoreInv, WholeLines, Team!ConstantsAreDistinct, NEW i \in Invites, Team!CreateInvite(i)
    PROVE  StoreInv'
  <1> DEFINE ev == [type |-> "invite_created", code |-> i]
             evs == <<ev>>
  <1>1. i \notin drawn /\ drawn' = drawn \cup {i} /\ Team!Method(evs, {i})
    BY DEF Team!CreateInvite
  <1>2. Len(evs) = 1 /\ \A img : After(img, evs, 1) = Team!applyEvent(img, ev)
    BY DEF After, Team!AfterFirst
  <1>3. ASSUME NEW img \in {mem, log.img}
        PROVE  /\ Good(Team!applyEvent(img, ev), drawn')
               /\ \A m \in Members : Known(img, m) => Known(Team!applyEvent(img, ev), m)
    <2>1. Good(img, drawn)
      BY DEF StoreInv
    <2>2. img \in Team!Image
      BY <2>1 DEF Good
    <2>3. LET r == Team!applyEvent(img, ev)
          IN  /\ r \in Team!Image
              /\ r.members = img.members /\ r.tokens = img.tokens /\ r.bindings = img.bindings
              /\ r.invites = [img.invites EXCEPT ![i] = "open"]
      BY <2>2, InviteCreatedFields
    <2> HIDE DEF ev
    <2>4. \A m \in Members : img.members[m] # None => img.members[m].from \in Invites \ {i}
      BY <1>1, <2>1, <2>2 DEF Good, Team!Image, Team!MemberInfo
    <2>5. img.invites \in [Invites -> {"none", "open", "consumed"}]
      BY <2>2 DEF Team!Image
    <2>6. QED
      BY <1>1, <2>1, <2>3, <2>4, <2>5 DEF Good, Known
  <1>4. Same(Team!applyEvent(mem, ev), Team!applyEvent(log.img, ev), expired)
    <2>1. mem \in Team!Image /\ log.img \in Team!Image /\ Same(mem, log.img, expired)
      BY DEF StoreInv, Good
    <2>2. mem.invites \in [Invites -> {"none", "open", "consumed"}]
          /\ log.img.invites \in [Invites -> {"none", "open", "consumed"}]
      BY <2>1 DEF Team!Image
    <2>3. \A img \in {mem, log.img} :
            LET r == Team!applyEvent(img, ev)
            IN  /\ r.members = img.members /\ r.tokens = img.tokens /\ r.bindings = img.bindings
                /\ r.invites = [img.invites EXCEPT ![i] = "open"]
      BY <2>1, InviteCreatedFields
    <2> HIDE DEF ev
    <2>4. QED
      BY <2>1, <2>2, <2>3 DEF Same
  <1> HIDE DEF ev
  <1>5. Keeps(evs, 1, drawn')
    BY <1>2, <1>3, <1>4 DEF Keeps
  <1>6. \A k \in 0 .. Len(evs) : Keeps(evs, k, drawn')
    BY <1>1, <1>2, <1>5, KeepsNone
  <1>7. /\ {i} \cap Members = {} /\ {i} \subseteq drawn' /\ drawn \subseteq drawn'
        /\ drawn' \subseteq Invites \cup Members
        /\ Len(evs) \in 1 .. 3
    BY <1>1, <1>2 DEF Team!ConstantsAreDistinct, StoreInv
  <1> HIDE DEF evs
  <1>8. \A m \in {i} \cap Members : \A img \in {mem, log.img} : Known(After(img, evs, Len(evs)), m)
    BY <1>7
  <1>9. QED
    BY <1>1, <1>6, <1>7, <1>8, MethodPreserves

\* The methods of one event about a member.
LEMMA MemberMethodPreserves ==
    ASSUME StoreInv, WholeLines, Team!ConstantsAreDistinct, NEW m \in Members, mem.members[m] # None,
           NEW ev, NEW info, NEW b, Team!Method(<<ev>>, {}), drawn' = drawn,
           Touched(mem, Team!applyEvent(mem, ev), m, info, b),
           Touched(log.img, Team!applyEvent(log.img, ev), m, info, b)
    PROVE  StoreInv'
  <1> DEFINE evs == <<ev>>
  <1>1. Len(evs) = 1 /\ \A img : After(img, evs, 1) = Team!applyEvent(img, ev)
    BY DEF After, Team!AfterFirst
  <1>2. /\ Good(mem, drawn) /\ Good(log.img, drawn) /\ Same(mem, log.img, expired)
        /\ log.img.members[m] # None
    BY DEF StoreInv, Same
  <1>3. /\ Good(Team!applyEvent(mem, ev), drawn)
        /\ \A k \in Members : Known(mem, k) => Known(Team!applyEvent(mem, ev), k)
    BY <1>2, TouchedIsGood
  <1>4. /\ Good(Team!applyEvent(log.img, ev), drawn)
        /\ \A k \in Members : Known(log.img, k) => Known(Team!applyEvent(log.img, ev), k)
    BY <1>2, TouchedIsGood
  <1>5. Same(Team!applyEvent(mem, ev), Team!applyEvent(log.img, ev), expired)
    BY <1>2, TouchedAreSame
  <1> HIDE DEF evs
  <1>6. Keeps(evs, 1, drawn')
    BY <1>1, <1>3, <1>4, <1>5 DEF Keeps
  <1>7. \A k \in 0 .. Len(evs) : Keeps(evs, k, drawn')
    BY <1>1, <1>6, KeepsNone
  <1>8. Team!Method(evs, {}) /\ Len(evs) \in 1 .. 3
    BY <1>1 DEF evs
  <1>9. drawn' \subseteq Invites \cup Members /\ drawn \subseteq drawn' /\ {} \subseteq drawn'
    BY DEF StoreInv
  <1>10. \A k \in {} \cap Members : \A img \in {mem, log.img} : Known(After(img, evs, Len(evs)), k)
    OBVIOUS
  <1>11. QED
    BY <1>7, <1>8, <1>9, <1>10, MethodPreserves

LEMMA MembersPreserve ==
    ASSUME StoreInv, WholeLines, Team!ConstantsAreDistinct, NEW m \in Members,
           \/ \E n \in DisplayNames \cup {None}, a \in Aliases : Team!UpdateMember(m, n, a)
           \/ \E b \in BOOLEAN, k \in Machines \cup {None} : Team!SetMemberOnline(m, b, k)
           \/ \E c \in Creds : Team!SaveFeishuBinding(m, c)
           \/ Team!DeleteFeishuBinding(m)
    PROVE  StoreInv'
  <1>1. /\ Good(mem, drawn) /\ Good(log.img, drawn) /\ log.img.members[m] = mem.members[m]
        /\ log.img.bindings[m] = mem.bindings[m]
    BY DEF StoreInv, Same
  <1>2. ASSUME NEW n \in DisplayNames \cup {None}, NEW a \in Aliases, Team!UpdateMember(m, n, a)
        PROVE  StoreInv'
    BY <1>1, <1>2, MemberUpdatedFields, MemberMethodPreserves DEF Team!UpdateMember, Team!GetMemberByToken
  <1>3. ASSUME NEW b \in BOOLEAN, NEW k \in Machines \cup {None}, Team!SetMemberOnline(m, b, k)
        PROVE  StoreInv'
    BY <1>1, <1>3, MemberPresenceFields, MemberMethodPreserves DEF Team!SetMemberOnline, Team!GetMemberByToken
  <1>4. ASSUME NEW c \in Creds, Team!SaveFeishuBinding(m, c)
        PROVE  StoreInv'
    BY <1>1, <1>4, BindingSavedFields, MemberMethodPreserves DEF Team!SaveFeishuBinding, Team!GetMemberByToken
  <1>5. CASE Team!DeleteFeishuBinding(m)
    BY <1>1, <1>5, BindingDeletedFields, MemberMethodPreserves
    DEF Team!DeleteFeishuBinding, Team!GetMemberByToken
  <1>6. QED
    BY <1>2, <1>3, <1>4, <1>5

\* The three events of a pairing, on memory or on the log: after the first the
\* invite is spent, after the second it has its one member, after the third the
\* member's token is known.
Paired(img, i, m, k) == After(img, Team!PairEvents(i, m), k)

PairedAs(img, r, i, m, k) ==
    /\ r \in Team!Image
    /\ r.invites = [img.invites EXCEPT ![i] = "consumed"]
    /\ r.members = IF k = 1 THEN img.members ELSE [img.members EXCEPT ![m] = Team!NewMember(i)]
    /\ r.tokens = IF k = 3 THEN img.tokens \cup {m} ELSE img.tokens
    /\ r.bindings = img.bindings

LEMMA PairingFields ==
    ASSUME NEW img \in Team!Image, NEW i \in Invites, NEW m \in Members, img.invites[i] = "open",
           NEW k \in 1 .. 3
    PROVE  PairedAs(img, Paired(img, i, m, k), i, m, k)
  <1> DEFINE one == Team!applyEvent(img, [type |-> "invite_consumed", code |-> i])
             two == Team!applyEvent(one, [type |-> "member_created", id |-> m, info |-> Team!NewMember(i)])
             three == Team!applyEvent(two, [type |-> "member_token_indexed", id |-> m])
  <1>1. /\ one \in Team!Image /\ one.members = img.members /\ one.tokens = img.tokens
        /\ one.bindings = img.bindings /\ one.invites = [img.invites EXCEPT ![i] = "consumed"]
    <2>1. /\ one \in Team!Image /\ one.members = img.members /\ one.tokens = img.tokens
          /\ one.bindings = img.bindings
          /\ one.invites = [img.invites EXCEPT ![i] = IF @ = "none" THEN "none" ELSE "consumed"]
      BY InviteConsumedFields
    <2>2. QED
      BY <2>1 DEF Team!Image
  <1>2. Paired(img, i, m, 1) = one /\ Paired(img, i, m, 2) = two /\ Paired(img, i, m, 3) = three
    BY DEF Paired, Team!PairEvents, After, Team!AfterFirst
  <1> HIDE DEF one
  <1>3. /\ two \in Team!Image /\ two.invites = one.invites /\ two.tokens = one.tokens
        /\ two.bindings = one.bindings /\ two.members = [one.members EXCEPT ![m] = Team!NewMember(i)]
    BY <1>1, MemberCreatedFields
  <1> HIDE DEF two
  <1>4. /\ three \in Team!Image /\ three.invites = two.invites /\ three.members = two.members
        /\ three.bindings = two.bindings /\ three.tokens = two.tokens \cup {m}
    BY <1>3, TokenIndexedFields
  <1> HIDE DEF three
  <1>5. k = 1 \/ k = 2 \/ k = 3
    OBVIOUS
  <1>6. QED
    BY <1>1, <1>2, <1>3, <1>4, <1>5 DEF PairedAs

LEMMA PairingIsGood ==
    ASSUME Team!ConstantsAreDistinct, NEW d, NEW img, Good(img, d), NEW i \in Invites \cap d,
           NEW m \in Members,
           m \notin d, img.invites[i] = "open", NEW k \in 1 .. 3
    PROVE  /\ Good(Paired(img, i, m, k), d \cup {m})
           /\ \A n \in Members : Known(img, n) => Known(Paired(img, i, m, k), n)
           /\ k = 3 => Known(Paired(img, i, m, k), m)
  <1> DEFINE r == Paired(img, i, m, k)
  <1>1. /\ img.invites \in [Invites -> {"none", "open", "consumed"}]
        /\ img.members \in [Members -> Team!MemberInfo \cup {None}]
        /\ img.bindings \in [Members -> Creds \cup {None}] /\ img \in Team!Image
    BY DEF Good, Team!Image
  <1>2. /\ r \in Team!Image
        /\ r.invites = [img.invites EXCEPT ![i] = "consumed"]
        /\ r.members = IF k = 1 THEN img.members ELSE [img.members EXCEPT ![m] = Team!NewMember(i)]
        /\ r.tokens = IF k = 3 THEN img.tokens \cup {m} ELSE img.tokens
        /\ r.bindings = img.bindings
    <2>1. PairedAs(img, Paired(img, i, m, k), i, m, k)
      BY <1>1, PairingFields
    <2>2. QED
      BY <2>1 DEF PairedAs
  <1> HIDE DEF r
  <1>3. /\ Team!NewMember(i) # None /\ Team!NewMember(i).from = i /\ Team!NewMember(i).bot = FALSE
    <2>1. Team!NewMember(i) \in Team!MemberInfo
      BY DEF Team!NewMember, Team!MemberInfo
    <2>2. QED
      BY <2>1 DEF Team!NewMember, Team!ConstantsAreDistinct
  <1>4. img.members[m] = None /\ img.bindings[m] = None
    BY DEF Good
  <1>5. \A n \in Members : img.members[n] # None => img.members[n].from \in Invites \ {i}
    BY <1>1 DEF Good, Team!MemberInfo
  <1>6. /\ \A n \in Members : n # m => r.members[n] = img.members[n]
        /\ r.members[m] = None \/ r.members[m] = Team!NewMember(i)
        /\ k = 3 => r.members[m] = Team!NewMember(i)
    BY <1>1, <1>2, <1>4
  <1>7. r.invites[i] = "consumed" /\ \A j \in Invites : j # i => r.invites[j] = img.invites[j]
    BY <1>1, <1>2
  <1>8. \A n \in Members : r.members[n] # None =>
            /\ r.members[n].bot <=> r.bindings[n] # None
            /\ n \in d \cup {m} /\ r.members[n].from \in d
            /\ r.invites[r.members[n].from] # "open"
    BY <1>2, <1>3, <1>4, <1>5, <1>6, <1>7 DEF Good
  <1>9. \A n, o \in Members :
            r.members[n] # None /\ r.members[o] # None /\ r.members[n].from = r.members[o].from => n = o
    BY <1>3, <1>5, <1>6 DEF Good
  <1>10. \A n \in Members : r.members[n] = None => r.bindings[n] = None
    BY <1>2, <1>4, <1>6 DEF Good
  <1>11. Good(r, d \cup {m})
    BY <1>2, <1>8, <1>9, <1>10 DEF Good
  <1>12. (\A n \in Members : Known(img, n) => Known(r, n)) /\ (k = 3 => Known(r, m))
    BY <1>2, <1>3, <1>4, <1>6 DEF Known
  <1>13. QED
    BY <1>11, <1>12 DEF r

LEMMA ConsumeInvitePreserves ==
    ASSUME StoreInv, WholeLines, Team!ConstantsAreDistinct, NEW i \in Invites, NEW m \in Members,
           Team!ConsumeInvite(i, m)
    PROVE  StoreInv'
  <1> DEFINE evs == Team!PairEvents(i, m)
  <1>1. /\ i \in acked /\ mem.invites[i] = "open" /\ i \notin expired
        /\ m \notin drawn /\ drawn' = drawn \cup {m} /\ Team!Method(evs, {m})
    BY DEF Team!ConsumeInvite
  <1>2. /\ Good(mem, drawn) /\ Good(log.img, drawn) /\ Same(mem, log.img, expired)
        /\ i \in Invites \cap drawn /\ mem \in Team!Image /\ log.img \in Team!Image
    BY <1>1 DEF StoreInv, Good
  <1>3. log.img.invites[i] = "open"
    BY <1>1, <1>2 DEF Same
  <1>4. ASSUME NEW k \in 1 .. 3
        PROVE  Keeps(evs, k, drawn')
    <2>1. /\ Good(Paired(mem, i, m, k), drawn')
          /\ \A n \in Members : Known(mem, n) => Known(Paired(mem, i, m, k), n)
      BY <1>1, <1>2, PairingIsGood
    <2>2. /\ Good(Paired(log.img, i, m, k), drawn')
          /\ \A n \in Members : Known(log.img, n) => Known(Paired(log.img, i, m, k), n)
      BY <1>1, <1>2, <1>3, PairingIsGood
    <2>3. \A img \in {mem, log.img} :
            LET r == Paired(img, i, m, k)
            IN  /\ r.invites = [img.invites EXCEPT ![i] = "consumed"]
                /\ r.members = IF k = 1 THEN img.members ELSE [img.members EXCEPT ![m] = Team!NewMember(i)]
                /\ r.tokens = IF k = 3 THEN img.tokens \cup {m} ELSE img.tokens
                /\ r.bindings = img.bindings
      <3>1. \A img \in {mem, log.img} : PairedAs(img, Paired(img, i, m, k), i, m, k)
        BY <1>1, <1>2, <1>3, PairingFields
      <3>2. QED
        BY <3>1 DEF PairedAs
    <2>4. /\ mem.invites \in [Invites -> {"none", "open", "consumed"}]
          /\ log.img.invites \in [Invites -> {"none", "open", "consumed"}]
      BY <1>2 DEF Team!Image
    <2>5. Same(Paired(mem, i, m, k), Paired(log.img, i, m, k), expired)
      BY <1>2, <2>3, <2>4 DEF Same
    <2>6. QED
      BY <2>1, <2>2, <2>5 DEF Keeps, Paired
  <1>5. Len(evs) = 3
    BY DEF Team!PairEvents
  <1>6. \A img \in {mem, log.img} : Known(After(img, evs, 3), m)
    <2>1. \A k \in 1 .. 3 : k = 3 => Known(Paired(mem, i, m, k), m) /\ Known(Paired(log.img, i, m, k), m)
      BY <1>1, <1>2, <1>3, PairingIsGood
    <2>2. Known(Paired(mem, i, m, 3), m) /\ Known(Paired(log.img, i, m, 3), m)
      BY <2>1
    <2>3. QED
      BY <2>2 DEF Paired
  <1> HIDE DEF evs
  <1>7. Keeps(evs, 0, drawn')
    BY <1>1, KeepsNone
  <1>8. \A k \in 0 .. Len(evs) : Keeps(evs, k, drawn')
    <2> SUFFICES ASSUME NEW k \in 0 .. 3 PROVE Keeps(evs, k, drawn')
      BY <1>5
    <2>1. k = 0 \/ k \in 1 .. 3
      OBVIOUS
    <2>2. QED
      BY <1>4, <1>7, <2>1
  <1>9. /\ drawn' \subseteq Invites \cup Members /\ drawn \subseteq drawn' /\ {m} \subseteq drawn'
        /\ Len(evs) \in 1 .. 3
    BY <1>1, <1>5 DEF StoreInv
  <1>10. \A n \in {m} \cap Members : \A img \in {mem, log.img} : Known(After(img, evs, Len(evs)), n)
    BY <1>5, <1>6
  <1>11. QED
    BY <1>1, <1>8, <1>9, <1>10, MethodPreserves

----------------------------------------------------------------------------
(* Compaction, crashes and time.                                            *)

\* The snapshot that Compact writes has no invite that cannot be used.
LEMMA SnapshotIsGood ==
    ASSUME StoreInv
    PROVE  /\ Good(Team!Snapshot, drawn) /\ Same(mem, Team!Snapshot, expired)
           /\ \A m \in Members : Known(mem, m) => Known(Team!Snapshot, m)
  <1>1. Good(mem, drawn) /\ mem \in Team!Image
    BY DEF StoreInv, Good
  <1>2. /\ Team!Snapshot \in Team!Image
        /\ Team!Snapshot.members = mem.members /\ Team!Snapshot.tokens = mem.tokens
        /\ Team!Snapshot.bindings = mem.bindings
        /\ \A i \in Invites : Team!Snapshot.invites[i] =
              IF mem.invites[i] = "open" /\ i \notin expired THEN "open" ELSE "none"
    BY <1>1 DEF Team!Snapshot, Team!Image
  <1>3. \A m \in Members : mem.members[m] # None => mem.members[m].from \in Invites
    BY <1>1 DEF Team!Image, Team!MemberInfo
  <1>4. QED
    BY <1>1, <1>2, <1>3 DEF Good, Same, Known

LEMMA RestartPreserves ==
    ASSUME StoreInv, NEW img, Good(img, drawn), Team!Restart(Team!Clean(img)), drawn' = drawn,
           \A m \in Members : Known(mem, m) => Known(img, m)
    PROVE  StoreInv'
  <1>1. log' = Team!Clean(img) /\ mem' = img /\ open' = TRUE /\ UNCHANGED <<expired, acked>>
    BY DEF Team!Restart, Team!replayAndOpenFile, Team!Clean
  <1>2. log'.img = img
    BY <1>1 DEF Team!Clean
  <1>3. QED
    BY <1>1, <1>2 DEF StoreInv, Same

LEMMA StoreInit == ASSUME Team!ConstantsAreDistinct, Team!Init PROVE StoreInv
  <1>1. log = Team!Clean(log.img) /\ log.img = Team!Empty /\ mem = Team!Empty
    BY DEF Team!Init, Team!Clean
  <1>2. Good(Team!Empty, drawn)
    BY DEF Good, Team!Empty, Team!Image
  <1>3. QED
    BY <1>1, <1>2 DEF Team!Init, StoreInv, Same

LEMMA StoreNext ==
    ASSUME WholeLines, Team!ConstantsAreDistinct, StoreInv, [Team!Next]_Team!vars
    PROVE  StoreInv'
  <1>1. ASSUME NEW i \in Invites, Team!InviteExpires(i)
        PROVE  StoreInv'
    BY <1>1 DEF Team!InviteExpires, StoreInv, Same
  <1>2. CASE Team!Compact
    <2>1. /\ log' \in {log, Team!Clean(Team!Snapshot)} /\ open' \in BOOLEAN
          /\ UNCHANGED <<mem, expired, drawn, acked>>
      BY <1>2 DEF Team!Compact
    <2>2. CASE log' = log
      BY <2>1, <2>2 DEF StoreInv
    <2>3. CASE log' = Team!Clean(Team!Snapshot)
      <3>1. log'.img = Team!Snapshot
        BY <2>3 DEF Team!Clean
      <3>2. QED
        BY <2>1, <2>3, <3>1, SnapshotIsGood DEF StoreInv
    <2>4. QED
      BY <2>1, <2>2, <2>3
  <1>3. CASE Team!Crash
    <2>1. log = Team!Clean(log.img) /\ Good(log.img, drawn) /\ drawn' = drawn
          /\ \A m \in Members : Known(mem, m) => Known(log.img, m)
      BY <1>3 DEF Team!Crash, StoreInv, Same, Known
    <2>2. CASE Team!Restart(log)
      BY <2>1, <2>2, RestartPreserves
    <2>3. CASE Team!Restart(Team!Clean(Team!Snapshot))
      BY <2>1, <2>3, RestartPreserves, SnapshotIsGood
    <2>4. QED
      BY <1>3, <2>2, <2>3 DEF Team!Crash
  <1>4. CASE UNCHANGED Team!vars
    BY <1>4 DEF Team!vars, StoreInv
  <1>5. QED
    BY <1>1, <1>2, <1>3, <1>4, CreateInvitePreserves, ConsumeInvitePreserves, MembersPreserve DEF Team!Next

LEMMA StoreHolds == ASSUME WholeLines PROVE Team!Spec => []StoreInv
  <1>1. Team!Init => StoreInv
    BY StoreInit, PartsAssumption
  <1>2. StoreInv /\ [Team!Next]_Team!vars => StoreInv'
    BY StoreNext, PartsAssumption
  <1>3. QED
    BY <1>1, <1>2, PTL DEF Team!Spec

----------------------------------------------------------------------------
(* The theorems.                                                            *)

\* The instance counts as FiniteSets does.
LEMMA CountsAlike ==
    ASSUME NEW S
    PROVE  Team!Cardinality(S) = Cardinality(S)
  BY DEF Team!Cardinality, Cardinality, Team!IsFiniteSet, IsFiniteSet

\* A set of which any two elements are equal has at most one.
LEMMA AtMostOne ==
    ASSUME NEW S, \A x, y \in S : x = y
    PROVE  Cardinality(S) \in 0 .. 1 /\ (S = {} => Cardinality(S) = 0)
  <1>1. CASE S = {}
    BY <1>1, FS_EmptySet
  <1>2. ASSUME NEW x \in S
        PROVE  Cardinality(S) = 1
    <2>1. S = {x}
      BY <1>2
    <2>2. QED
      BY <2>1, FS_Singleton
  <1>3. QED
    BY <1>1, <1>2

\* Proves PairingIsDurable for every set of members and invites and any number
\* of failed appends, crashes and compactions: whatever ConsumeInvite was doing
\* when it stopped, a token it returned stays good and its invite made one
\* member at most.
THEOREM PairingHolds == ASSUME WholeLines PROVE Team!Spec => []PairingIsDurable
  <1>1. ASSUME StoreInv
        PROVE  PairingIsDurable
    <2>1. Team!TokensSurvive
      BY <1>1 DEF StoreInv, Team!TokensSurvive, Same, Known
    <2>2. ASSUME NEW img \in {mem, log.img}, NEW i \in Invites
          PROVE  LET paired == {m \in Members : img.members[m] # None /\ img.members[m].from = i}
                 IN  Cardinality(paired) <= (IF img.invites[i] = "open" THEN 0 ELSE 1)
      <3> DEFINE paired == {m \in Members : img.members[m] # None /\ img.members[m].from = i}
      <3>1. Good(img, drawn)
        BY <1>1 DEF StoreInv
      <3>2. \A x, y \in paired : x = y
        BY <3>1 DEF Good
      <3>3. img.invites[i] = "open" => paired = {}
        BY <3>1 DEF Good
      <3> HIDE DEF paired
      <3>4. Cardinality(paired) \in 0 .. 1 /\ (paired = {} => Cardinality(paired) = 0)
        BY <3>2, AtMostOne
      <3>5. Cardinality(paired) <= (IF img.invites[i] = "open" THEN 0 ELSE 1)
        BY <3>3, <3>4
      <3>6. QED
        BY <3>5 DEF paired
    <2>3. Team!OneMemberPerInvite
      BY <2>2, CountsAlike DEF Team!OneMemberPerInvite
    <2>4. QED
      BY <2>1, <2>3 DEF Team!PairingIsDurable, PairingIsDurable
  <1>2. QED
    BY <1>1, StoreHolds, PTL

\* Proves IndexesAgree: what readers see is what the next process replays, and
\* HasFeishuBot is set exactly while a binding exists.
THEOREM IndexesHold == ASSUME WholeLines PROVE Team!Spec => []IndexesAgree
  <1>1. ASSUME StoreInv
        PROVE  IndexesAgree
    <2>1. Team!TypeOK
      BY <1>1 DEF StoreInv, Team!TypeOK, Good, Team!Log, Team!Clean
    <2>2. Team!MemoryIsLogged
      BY <1>1 DEF StoreInv, Team!MemoryIsLogged, Same
    <2>3. Team!BotFlagIsBinding
      BY <1>1 DEF StoreInv, Team!BotFlagIsBinding, Good
    <2>4. QED
      BY <2>1, <2>2, <2>3 DEF Team!IndexesAgree, IndexesAgree
  <1>2. QED
    BY <1>1, StoreHolds, PTL

----------------------------------------------------------------------------
(* Who is asked.  What the client has found in its copy of the directory is *)
(* still so in the Hub's as long as no profile changes (FetchedIsCurrent).  *)
(* The longest mention exists because no mention is longer than the text.   *)

LEMMA MaxExists ==
    ASSUME NEW S, S \subseteq Nat, S # {}, NEW b \in Nat, \A x \in S : x <= b
    PROVE  \E x \in S : \A y \in S : y <= x
  <1> DEFINE R == {ss \in Nat \X Nat : ss[1] < ss[2]}
  <1> DEFINE D == {d \in Nat : b - d \in S}
  <1>1. \A x \in S : b - x \in D /\ b - (b - x) = x
    OBVIOUS
  <1>2. D # {} /\ D \subseteq Nat
    BY <1>1
  <1>3. PICK d \in D : \A e \in D : ~(<<e, d>> \in R)
    BY <1>2, LessIsWellFounded, WFMin
  <1>4. \A e \in D : ~(e < d)
    BY <1>2, <1>3
  <1>5. ASSUME NEW y \in S PROVE y <= b - d
    <2>1. b - y \in D /\ y \in Nat /\ d \in Nat
      BY <1>1, <1>2
    <2>2. ~(b - y < d)
      BY <1>4, <2>1
    <2>3. QED
      BY <2>1, <2>2
  <1>6. b - d \in S
    OBVIOUS
  <1>7. QED
    BY <1>5, <1>6

LEMMA LongestIsMax ==
    ASSUME NEW texts, texts # {}, NEW b \in Nat, \A t \in texts : Len(t) \in Nat /\ Len(t) <= b
    PROVE  /\ Who!Longest(texts) \in {Len(t) : t \in texts}
           /\ \A t \in texts : Len(t) <= Who!Longest(texts)
  <1> DEFINE S == {Len(t) : t \in texts}
  <1>0. S \subseteq Nat /\ S # {} /\ \A x \in S : x <= b
    OBVIOUS
  <1>1. PICK n \in S : \A y \in S : y <= n
    <2> HIDE DEF S
    <2>1. QED
      BY <1>0, MaxExists
  <1>2. \A t \in texts : Len(t) <= n
    BY <1>1
  <1>3. QED
    BY <1>2 DEF Who!Longest

DirectoryTypes ==
    /\ whoPc \in {"start", "fetch", "extract", "submit", "done"}
    /\ whoPc # "start" => directory \in [Members -> Who!Profile] /\ question \in Questions
    /\ whoPc = "extract" => fetched \in [Members -> Who!Profile]
    /\ chosen # None => whoPc \in {"submit", "done"} /\ chosen \in Members
    /\ asked # None => whoPc = "done"
    /\ renames \in Nat

FetchedIsCurrent ==
    /\ whoPc = "extract" /\ renames = 0 => fetched = directory
    /\ whoPc = "submit" /\ chosen # None /\ renames = 0 => target = directory[chosen].name

DirectoryInv == DirectoryTypes /\ FetchedIsCurrent /\ Who!RightMemberAsked

LEMMA MentionsAreShort ==
    ASSUME Who!ConstantsAreDistinct, NEW p \in Who!Profile, NEW text \in Questions,
           NEW t \in Who!Mentions(p, text)
    PROVE  Len(t) \in Nat /\ Len(text) \in Nat /\ Len(t) <= Len(text)
  <1>1. p.name \in Names /\ p.aliases \in AliasSets
    BY DEF Who!Profile
  <1>2. t \in Names \cup UNION AliasSets /\ Who!Occurs(t, text)
    BY <1>1 DEF Who!Mentions
  <1>3. Len(t) \in Nat /\ Len(text) \in Nat
    BY <1>2 DEF Who!ConstantsAreDistinct
  <1>4. 0 .. Len(text) - Len(t) # {}
    BY <1>2 DEF Who!Occurs
  <1>5. QED
    BY <1>3, <1>4

\* The one member with the longest mention is mentioned longer than anybody.
LEMMA ExtractIsLongest ==
    ASSUME Who!ConstantsAreDistinct, NEW members \in [Members -> Who!Profile],
           NEW text \in Questions, NEW c, Who!ExtractTarget(text, members) = {c}
    PROVE  /\ c \in Members
           /\ \E t \in Who!Mentions(members[c], text) :
                \A n \in Members \ {c} :
                    \A u \in Who!Mentions(members[n], text) : Len(u) < Len(t)
  <1> DEFINE found == {m \in Members : Who!Mentions(members[m], text) # {}}
  <1> DEFINE Size(m) == Who!Longest(Who!Mentions(members[m], text))
  <1>1. {m \in found : \A n \in found : Size(n) <= Size(m)} = {c}
    BY DEF Who!ExtractTarget
  <1>2. ASSUME NEW m \in found
        PROVE  /\ Size(m) \in Nat
               /\ \E t \in Who!Mentions(members[m], text) : Size(m) = Len(t)
               /\ \A u \in Who!Mentions(members[m], text) : Len(u) \in Nat /\ Len(u) <= Size(m)
    <2>1. members[m] \in Who!Profile
      OBVIOUS
    <2>2. \A u \in Who!Mentions(members[m], text) :
             Len(u) \in Nat /\ Len(text) \in Nat /\ Len(u) <= Len(text)
      BY <2>1, MentionsAreShort
    <2>3. Len(text) \in Nat /\ Who!Mentions(members[m], text) # {}
      BY DEF Who!ConstantsAreDistinct
    <2>4. /\ Size(m) \in {Len(t) : t \in Who!Mentions(members[m], text)}
          /\ \A t \in Who!Mentions(members[m], text) : Len(t) <= Size(m)
      BY <2>2, <2>3, LongestIsMax
    <2>5. QED
      BY <2>2, <2>4
  <1>3. c \in found /\ \A n \in found : Size(n) <= Size(c)
    BY <1>1
  <1>4. PICK t \in Who!Mentions(members[c], text) : Size(c) = Len(t)
    BY <1>2, <1>3
  <1>5. ASSUME NEW n \in Members \ {c}, NEW u \in Who!Mentions(members[n], text)
        PROVE  Len(u) < Len(t)
    <2>1. n \in found
      OBVIOUS
    <2>2. Size(n) \in Nat /\ Size(c) \in Nat /\ Len(u) \in Nat /\ Len(u) <= Size(n)
      BY <1>2, <1>3, <2>1
    <2>3. Size(n) # Size(c)
      BY <1>1, <1>3, <2>1
    <2>4. Size(n) <= Size(c)
      BY <1>3, <2>1
    <2> HIDE DEF Size
    <2>5. QED
      BY <1>4, <2>2, <2>3, <2>4
  <1>6. QED
    BY <1>3, <1>4, <1>5

LEMMA OneIsSingle ==
    ASSUME Who!ConstantsAreDistinct, NEW S, S \subseteq Members, Who!Cardinality(S) = 1
    PROVE  \E c \in S : S = {c}
  <1>1. IsFiniteSet(Members)
    BY DEF Who!ConstantsAreDistinct, Who!IsFiniteSet, IsFiniteSet
  <1>2. IsFiniteSet(S)
    BY <1>1, FS_Subset
  <1>3. Cardinality(S) = 1
    BY DEF Who!Cardinality, Cardinality, Who!IsFiniteSet, IsFiniteSet
  <1>4. QED
    BY <1>2, <1>3, FS_Singleton

\* The Hub's search: a text given in full decides.
LEMMA SearchIsExact ==
    ASSUME Who!ConstantsAreDistinct, directory \in [Members -> Who!Profile], NEW text
    PROVE  /\ Who!ResolveTargetMember(text) \in Members =>
                \A n \in Members \ {Who!ResolveTargetMember(text)} : n \notin Who!Exactly(text)
           /\ \A c \in Who!Exactly(text) : Who!ResolveTargetMember(text) \in {c, "ambiguous"}
  <1>0. "ambiguous" \notin Members /\ "unknown" \notin Members
    BY DEF Who!ConstantsAreDistinct
  <1>1. \A m \in Members : text = Who!Id(m) => Who!Exactly(text) = {}
    <2>1. \A n \in Members : directory[n].name \in Names /\ directory[n].aliases \in AliasSets
      BY DEF Who!Profile
    <2>2. QED
      BY <2>1 DEF Who!ConstantsAreDistinct, Who!Exactly
  <1>2. CASE Who!Exactly(text) = {}
    BY <1>2
  <1>3. CASE Who!Exactly(text) # {}
    <2>1. Who!ResolveTargetMember(text) = Who!OneOf(Who!Exactly(text))
      BY <1>1, <1>3 DEF Who!ResolveTargetMember
    <2>2. Who!Exactly(text) \subseteq Members
      BY DEF Who!Exactly
    <2>3. CASE Who!Cardinality(Who!Exactly(text)) = 1
      <3>1. PICK c \in Members : Who!Exactly(text) = {c}
        BY <2>2, <2>3, OneIsSingle
      <3>2. Who!OneOf(Who!Exactly(text)) = c
        BY <2>3, <3>1 DEF Who!OneOf
      <3>3. QED
        BY <2>1, <3>1, <3>2
    <2>4. CASE Who!Cardinality(Who!Exactly(text)) # 1
      BY <1>0, <2>1, <2>4 DEF Who!OneOf
    <2>5. QED
      BY <2>3, <2>4
  <1>4. QED
    BY <1>2, <1>3

LEMMA DirectoryInit == ASSUME Who!ConstantsAreDistinct, Who!Init PROVE DirectoryInv
  BY DEF Who!Init, DirectoryInv, DirectoryTypes, FetchedIsCurrent, Who!RightMemberAsked,
         Who!AsksTheMentioned, Who!LongestMentionWins, Who!FullNameWins, Who!ConstantsAreDistinct

LEMMA DirectoryNext ==
    ASSUME Who!ConstantsAreDistinct, DirectoryInv, [Who!Next]_Who!vars
    PROVE  DirectoryInv'
  <1>0. /\ DirectoryTypes /\ FetchedIsCurrent /\ None \notin Members
        /\ Who!AsksTheMentioned /\ Who!LongestMentionWins /\ Who!FullNameWins
    BY DEF DirectoryInv, Who!RightMemberAsked, Who!ConstantsAreDistinct
  <1>1. CASE Who!Ask
    BY <1>0, <1>1 DEF Who!Ask, DirectoryInv, DirectoryTypes, FetchedIsCurrent, Who!RightMemberAsked,
         Who!AsksTheMentioned, Who!LongestMentionWins, Who!FullNameWins
  <1>2. CASE Who!Fetch
    BY <1>0, <1>2 DEF Who!Fetch, DirectoryInv, DirectoryTypes, FetchedIsCurrent,
         Who!RightMemberAsked, Who!AsksTheMentioned, Who!LongestMentionWins, Who!FullNameWins
  <1>3. CASE Who!Extract
    <2> DEFINE found == Who!ExtractTarget(question, fetched)
    <2>0. /\ UNCHANGED <<directory, renames, question, fetched, asked>> /\ whoPc = "extract"
          /\ chosen = None /\ asked = None
          /\ fetched \in [Members -> Who!Profile] /\ question \in Questions
      BY <1>0, <1>3 DEF Who!Extract, DirectoryTypes
    <2>1. CASE Who!Cardinality(found) = 1
      <3>1. found \subseteq Members
        BY DEF Who!ExtractTarget
      <3>2. PICK c \in Members : found = {c}
        BY <2>1, <3>1, OneIsSingle
      <3> HIDE DEF found
      <3>3. /\ chosen' = c /\ target' = fetched[c].name /\ whoPc' \in {"done", "submit"}
        BY <1>3, <2>1, <3>2 DEF Who!Extract, found
      <3>4. \E t \in Who!Mentions(fetched[c], question) :
              \A n \in Members \ {c} :
                  \A u \in Who!Mentions(fetched[n], question) : Len(u) < Len(t)
        BY <2>0, <3>2, ExtractIsLongest DEF found
      <3>5. Who!LongestMentionWins'
        BY <2>0, <3>3, <3>4 DEF Who!LongestMentionWins, Who!Mentions
      <3>6. DirectoryTypes' /\ FetchedIsCurrent'
        BY <1>0, <2>0, <3>3 DEF DirectoryTypes, FetchedIsCurrent
      <3>7. Who!AsksTheMentioned' /\ Who!FullNameWins'
        BY <1>0, <2>0 DEF Who!AsksTheMentioned, Who!FullNameWins
      <3>8. QED
        BY <3>5, <3>6, <3>7 DEF DirectoryInv, Who!RightMemberAsked
    <2>2. CASE Who!Cardinality(found) # 1
      <3>1. whoPc' = "done" /\ UNCHANGED <<chosen, target>>
        BY <1>3, <2>2 DEF Who!Extract
      <3>2. QED
        BY <1>0, <2>0, <3>1 DEF DirectoryInv, DirectoryTypes, FetchedIsCurrent,
           Who!RightMemberAsked, Who!AsksTheMentioned, Who!LongestMentionWins, Who!FullNameWins
    <2>3. QED
      BY <2>1, <2>2
  <1>4. CASE Who!Submit
    <2>0. /\ UNCHANGED <<directory, renames, question, fetched, chosen, target>> /\ whoPc = "submit"
          /\ whoPc' = "done" /\ asked' = Who!ResolveTargetMember(target)
          /\ directory \in [Members -> Who!Profile]
      BY <1>0, <1>4 DEF Who!Submit, DirectoryTypes
    <2>1. DirectoryTypes' /\ FetchedIsCurrent' /\ Who!LongestMentionWins'
      BY <1>0, <2>0 DEF DirectoryTypes, FetchedIsCurrent, Who!LongestMentionWins, Who!Mentions
    <2>2. ASSUME renames = 0, chosen # None
          PROVE  asked' \in {chosen, "ambiguous"}
      <3>1. chosen \in Members /\ target = directory[chosen].name
        BY <1>0, <2>0, <2>2 DEF DirectoryTypes, FetchedIsCurrent
      <3>2. chosen \in Who!Exactly(target)
        BY <3>1 DEF Who!Exactly
      <3>3. QED
        BY <2>0, <3>2, SearchIsExact
    <2>3. Who!AsksTheMentioned'
      BY <2>0, <2>2 DEF Who!AsksTheMentioned
    <2>4. ASSUME asked' \in Members, NEW n \in Members \ {asked'}
          PROVE  target \notin {directory[n].name} \cup directory[n].aliases
      <3>1. n \notin Who!Exactly(target)
        BY <2>0, <2>4, SearchIsExact
      <3>2. QED
        BY <3>1 DEF Who!Exactly
    <2>5. Who!FullNameWins'
      BY <2>0, <2>4 DEF Who!FullNameWins
    <2>6. QED
      BY <2>1, <2>3, <2>5 DEF DirectoryInv, Who!RightMemberAsked
  <1>5. ASSUME NEW m \in Members, Who!UpdateMember(m)
        PROVE  DirectoryInv'
    <2>0. /\ UNCHANGED <<whoPc, question, fetched, chosen, target, asked>>
          /\ renames' = renames + 1 /\ whoPc \in {"fetch", "extract", "submit"}
          /\ directory \in [Members -> Who!Profile] /\ renames \in Nat /\ asked = None
      BY <1>0, <1>5 DEF Who!UpdateMember, DirectoryTypes
    <2>1. directory' \in [Members -> Who!Profile]
      BY <1>5, <2>0 DEF Who!UpdateMember, Who!Profile
    <2>2. renames' \in Nat /\ renames' # 0
      BY <2>0
    <2>3. DirectoryTypes' /\ FetchedIsCurrent'
      BY <1>0, <2>0, <2>1, <2>2 DEF DirectoryTypes, FetchedIsCurrent
    <2>4. Who!AsksTheMentioned' /\ Who!LongestMentionWins' /\ Who!FullNameWins'
      BY <1>0, <2>0, <2>2 DEF Who!AsksTheMentioned, Who!LongestMentionWins, Who!FullNameWins,
                              Who!Mentions
    <2>5. QED
      BY <2>3, <2>4 DEF DirectoryInv, Who!RightMemberAsked
  <1>6. CASE UNCHANGED Who!vars
    BY <1>0, <1>6 DEF Who!vars, DirectoryInv, DirectoryTypes, FetchedIsCurrent, Who!RightMemberAsked,
         Who!AsksTheMentioned, Who!LongestMentionWins, Who!FullNameWins, Who!Mentions
  <1>7. QED
    BY <1>1, <1>2, <1>3, <1>4, <1>5, <1>6 DEF Who!Next

\* A question goes to the member whom it mentions, by the longest mention, and
\* a name or alias given in full is never taken for somebody else: for every
\* team, with any names and aliases that contain each other, and with profiles
\* that change between ExtractTarget and ResolveTargetMember.
THEOREM TargetsHold == Who!Spec => []RightMemberAsked
  <1>1. DirectoryInv => RightMemberAsked
    BY DEF DirectoryInv, RightMemberAsked
  <1>2. Who!Init => DirectoryInv
    BY DirectoryInit, PartsAssumption
  <1>3. DirectoryInv /\ [Who!Next]_Who!vars => DirectoryInv'
    BY DirectoryNext, PartsAssumption
  <1>4. QED
    BY <1>1, <1>2, <1>3, PTL DEF Who!Spec

----------------------------------------------------------------------------
(* The history, page by page.  Pages are counted from the newest query, so  *)
(* what is still to be read of the expected queries lies at the old end of  *)
(* the listing: at a place of at most Len - offset, which no later query    *)
(* moves (StillToCome).                                                     *)

Listed == Audit!Listing(reader.member, reader.inbound)

StillToCome ==
    \A x \in expected :
        x \in seen \/ (reader.open /\ \E i \in 1 .. Len(Listed) - offset : Listed[i] = x)

AuditInv ==
    /\ inboundAudit \in [Members -> Seq(Nat)] /\ outboundAudit \in [Members -> Seq(Nat)]
    /\ next \in Nat
    /\ offset \in Nat
    /\ reader # None =>
        /\ reader \in [member : Members, inbound : BOOLEAN, limit : 1 .. MaxInt, open : BOOLEAN]
        /\ StillToCome

LEMMA Reversed ==
    ASSUME NEW line \in Seq(Nat)
    PROVE  /\ Audit!Reverse(line) \in Seq(Nat)
           /\ Len(Audit!Reverse(line)) = Len(line)
           /\ \A i \in 1 .. Len(line) : Audit!Reverse(line)[i] = line[(Len(line) - i) + 1]
  <1>1. \A i \in 1 .. Len(line) : (Len(line) - i) + 1 \in 1 .. Len(line)
    OBVIOUS
  <1>2. QED
    BY <1>1 DEF Audit!Reverse

\* A slice of the reversed list, by the places of the list itself.
Slice(page, line, a, b) ==
    /\ a <= b => Len(page) = b - a
    /\ \A i \in 1 .. Len(line) :
          Len(line) - b < i /\ i <= Len(line) - a => line[i] \in Audit!ToSet(page)
    /\ \A x \in Audit!ToSet(page) : \E i \in 1 .. Len(line) - a : line[i] = x

LEMMA SliceOfReversed ==
    ASSUME NEW line \in Seq(Nat), NEW a \in Nat, NEW b \in Nat, b <= Len(line)
    PROVE  Slice(SubSeq(Audit!Reverse(line), a + 1, b), line, a, b)
  <1> DEFINE rev == Audit!Reverse(line)
  <1> DEFINE n == Len(line)
  <1> DEFINE page == SubSeq(rev, a + 1, b)
  <1>1. rev \in Seq(Nat) /\ Len(rev) = n /\ \A i \in 1 .. n : rev[i] = line[(n - i) + 1]
    BY Reversed
  <1>2. n \in Nat
    OBVIOUS
  <1> HIDE DEF rev
  <1>3. a <= b => /\ DOMAIN page = 1 .. b - a /\ Len(page) = b - a
                  /\ \A i \in 1 .. b - a : page[i] = rev[a + i]
    BY <1>1, <1>2
  <1>4. ~(a <= b) => page = <<>>
    BY <1>1, <1>2
  <1> HIDE DEF page
  <1>5. ASSUME NEW i \in 1 .. n, n - b < i, i <= n - a
        PROVE  line[i] \in Audit!ToSet(page)
    <2> DEFINE j == (n - i) + 1 - a
    <2>1. a <= b /\ j \in 1 .. b - a /\ a + j \in 1 .. n /\ (n - (a + j)) + 1 = i
      BY <1>2, <1>5
    <2>2. page[j] = line[i] /\ j \in DOMAIN page
      BY <1>1, <1>3, <2>1
    <2>3. QED
      BY <2>2 DEF Audit!ToSet
  <1>6. ASSUME NEW x \in Audit!ToSet(page)
        PROVE  \E i \in 1 .. n - a : line[i] = x
    <2>1. PICK j \in DOMAIN page : page[j] = x
      BY DEF Audit!ToSet
    <2>2. a <= b
      BY <1>4, <2>1
    <2>3. j \in 1 .. b - a /\ x = rev[a + j]
      BY <1>3, <2>1, <2>2
    <2> DEFINE i == (n - (a + j)) + 1
    <2>4. a + j \in 1 .. n /\ i \in 1 .. n - a
      BY <1>2, <2>3
    <2>5. line[i] = x
      BY <1>1, <2>3, <2>4
    <2>6. QED
      BY <2>4, <2>5
  <1>7. QED
    <2>1. Slice(page, line, a, b)
      BY <1>3, <1>5, <1>6 DEF Slice
    <2>2. QED
      BY <2>1 DEF page, rev

\* What a page holds: either the slice is out of range, or the page is the
\* next limit entries, or what is left of them.
LEMMA PageIsNext ==
    ASSUME Audit!ConstantsAreInts, NEW line \in Seq(Nat), NEW limit \in 1 .. MaxInt, NEW from \in Nat,
           Audit!Page(line, limit, from) # None
    PROVE  /\ \A i \in 1 .. Len(line) - from :
                 i > Len(line) - (from + limit) =>
                     line[i] \in Audit!ToSet(Audit!Page(line, limit, from))
           /\ Len(Audit!Page(line, limit, from)) # limit =>
                 \A i \in 1 .. Len(line) - from : i > Len(line) - (from + limit)
  <1> DEFINE total == Len(line)
  <1> DEFINE start == IF from > total THEN total ELSE from
  <1> DEFINE sum == Audit!Wrap(start + limit)
  <1> DEFINE end == IF limit <= 0 \/ sum > total THEN total ELSE sum
  <1>0. total \in Nat /\ start \in Nat /\ start <= total /\ MaxInt \in Nat /\ ~(limit <= 0)
    BY DEF Audit!ConstantsAreInts
  <1>1. Audit!Page(line, limit, from)
          = IF end < start THEN None ELSE SubSeq(Audit!Reverse(line), start + 1, end)
    BY DEF Audit!Page
  <1>2. sum \in Int /\ (sum = start + limit \/ sum < start)
    <2> HIDE DEF start
    <2>1. QED
      BY <1>0 DEF Audit!Wrap
  <1>3. ~(end < start) /\ Audit!Page(line, limit, from) = SubSeq(Audit!Reverse(line), start + 1, end)
    BY <1>1
  <1>4. /\ end \in Nat /\ start <= end /\ end <= total
        /\ end = start + limit \/ (end = total /\ total < start + limit)
    <2> HIDE DEF total, start, sum
    <2>1. limit \in Nat /\ end = IF sum > total THEN total ELSE sum
      BY <1>0
    <2> HIDE DEF end
    <2>2. CASE sum > total
      <3>1. end = total
        BY <2>1, <2>2
      <3>2. sum = start + limit
        BY <1>0, <1>2, <2>2
      <3>3. QED
        BY <1>0, <2>1, <2>2, <3>1, <3>2
    <2>3. CASE ~(sum > total)
      <3>1. end = sum
        BY <2>1, <2>3
      <3>2. sum = start + limit
        BY <1>2, <1>3, <3>1
      <3>3. QED
        BY <1>0, <2>1, <2>3, <3>1, <3>2
    <2>4. QED
      BY <2>2, <2>3
  <1> HIDE DEF end, sum
  <1>5. /\ Len(Audit!Page(line, limit, from)) = end - start
        /\ \A i \in 1 .. total :
              total - end < i /\ i <= total - start =>
                  line[i] \in Audit!ToSet(Audit!Page(line, limit, from))
    <2> HIDE DEF start
    <2>1. Slice(Audit!Page(line, limit, from), line, start, end)
      BY <1>0, <1>3, <1>4, SliceOfReversed
    <2>2. QED
      BY <1>4, <2>1 DEF Slice
  <1>6. ASSUME NEW i \in 1 .. total - from
        PROVE  /\ start = from /\ i \in 1 .. total /\ i <= total - start
               /\ i > total - (from + limit) => total - end < i
               /\ end - start # limit => i > total - (from + limit)
    BY <1>0, <1>4
  <1> HIDE DEF start
  <1>7. QED
    BY <1>5, <1>6

LEMMA AuditInit == Audit!Init => AuditInv
  BY DEF Audit!Init, AuditInv

LEMMA AuditNext ==
    ASSUME Audit!ConstantsAreInts, AuditInv, [Audit!Next]_Audit!vars
    PROVE  AuditInv'
  <1>0. /\ inboundAudit \in [Members -> Seq(Nat)] /\ outboundAudit \in [Members -> Seq(Nat)]
        /\ next \in Nat /\ offset \in Nat /\ MaxInt \in Nat
    BY DEF AuditInv, Audit!ConstantsAreInts
  <1>1. ASSUME NEW a \in Members, NEW t \in Members, Audit!CreateQuery(a, t)
        PROVE  AuditInv'
    <2>1. /\ inboundAudit' \in [Members -> Seq(Nat)] /\ outboundAudit' \in [Members -> Seq(Nat)]
          /\ next' \in Nat
      BY <1>0, <1>1 DEF Audit!CreateQuery
    <2>2. UNCHANGED <<reader, offset, seen, expected>>
      BY <1>1 DEF Audit!CreateQuery
    <2>3. ASSUME reader # None PROVE StillToCome'
      <3>1. /\ reader.member \in Members /\ reader.inbound \in BOOLEAN /\ StillToCome
        BY <2>3 DEF AuditInv
      <3>2. Listed \in Seq(Nat) /\ (Listed' = Listed \/ Listed' = Append(Listed, next))
        BY <1>0, <1>1, <2>2, <3>1 DEF Listed, Audit!Listing, Audit!CreateQuery
      <3> HIDE DEF Listed
      <3>3. /\ Len(Listed) \in Nat /\ Len(Listed') \in Nat /\ Len(Listed) <= Len(Listed')
            /\ \A i \in 1 .. Len(Listed) : Listed'[i] = Listed[i]
        <4>1. CASE Listed' = Listed
          BY <3>2, <4>1
        <4>2. CASE Listed' = Append(Listed, next)
          BY <1>0, <3>2, <4>2
        <4>3. QED
          BY <3>2, <4>1, <4>2
      <3>4. \A i \in 1 .. Len(Listed) - offset :
               i \in 1 .. Len(Listed') - offset /\ i \in 1 .. Len(Listed)
        BY <1>0, <3>3
      <3>5. QED
        BY <2>2, <3>1, <3>3, <3>4 DEF StillToCome
    <2>4. QED
      BY <1>0, <2>1, <2>2, <2>3 DEF AuditInv
  <1>2. ASSUME NEW m \in Members, NEW i \in BOOLEAN, NEW l \in Limits, NEW s \in Skips,
               Audit!Begin(m, i, l, s)
        PROVE  AuditInv'
    <2> DEFINE line == Audit!Listing(m, i)
    <2>1. line \in Seq(Nat) /\ s \in Nat /\ Audit!Limit(l) \in 1 .. MaxInt
      BY <1>0 DEF Audit!Listing, Audit!ConstantsAreInts, Audit!Limit
    <2>2. /\ reader' = [member |-> m, inbound |-> i, limit |-> Audit!Limit(l), open |-> TRUE]
          /\ offset' = s
          /\ expected' = Audit!ToSet(SubSeq(Audit!Reverse(line), s + 1, Len(line)))
          /\ UNCHANGED <<inboundAudit, outboundAudit, next>>
      BY <1>2 DEF Audit!Begin
    <2>3. Listed' = line
      BY <2>2 DEF Listed, Audit!Listing
    <2> HIDE DEF line
    <2>4. \A x \in expected' : \E j \in 1 .. Len(line) - s : line[j] = x
      <3>1. Slice(SubSeq(Audit!Reverse(line), s + 1, Len(line)), line, s, Len(line))
        BY <2>1, SliceOfReversed
      <3>2. QED
        BY <2>2, <3>1 DEF Slice
    <2>5. StillToCome'
      BY <2>2, <2>3, <2>4 DEF StillToCome
    <2>6. QED
      BY <1>0, <2>1, <2>2, <2>5 DEF AuditInv
  <1>3. CASE Audit!Fetch
    <2> DEFINE page == Audit!Page(Listed, reader.limit, offset)
    <2>1. /\ reader \in [member : Members, inbound : BOOLEAN, limit : 1 .. MaxInt, open : BOOLEAN]
          /\ StillToCome /\ reader.open
      BY <1>3 DEF Audit!Fetch, AuditInv
    <2>2. Listed \in Seq(Nat) /\ reader.limit \in 1 .. MaxInt
      BY <1>0, <2>1 DEF Listed, Audit!Listing
    <2>3. /\ IF page = None THEN reader' = None /\ UNCHANGED <<seen, offset>>
             ELSE /\ seen' = seen \cup Audit!ToSet(page)
                  /\ offset' = offset + reader.limit
                  /\ reader' = [reader EXCEPT !.open = Len(page) = reader.limit]
          /\ UNCHANGED <<inboundAudit, outboundAudit, next, expected>>
      BY <1>3 DEF Audit!Fetch, Audit!GetInboundAudit, Audit!GetOutboundAudit, Listed, Audit!Listing
    <2>4. CASE page = None
      BY <1>0, <2>3, <2>4 DEF AuditInv
    <2>5. CASE page # None
      <3>1. /\ \A i \in 1 .. Len(Listed) - offset :
                 i > Len(Listed) - (offset + reader.limit) => Listed[i] \in Audit!ToSet(page)
            /\ Len(page) # reader.limit =>
                 \A i \in 1 .. Len(Listed) - offset : i > Len(Listed) - (offset + reader.limit)
        BY <1>0, <2>2, <2>5, PageIsNext
      <3>2. /\ seen' = seen \cup Audit!ToSet(page)
            /\ offset' = offset + reader.limit
            /\ reader' = [reader EXCEPT !.open = Len(page) = reader.limit]
        BY <2>3, <2>5
      <3> HIDE DEF page
      <3>3. /\ reader' \in [member : Members, inbound : BOOLEAN, limit : 1 .. MaxInt, open : BOOLEAN]
            /\ reader'.open <=> Len(page) = reader.limit
            /\ reader'.member = reader.member /\ reader'.inbound = reader.inbound
        BY <2>1, <3>2
      <3>4. Listed' = Listed
        BY <2>3, <3>3 DEF Listed, Audit!Listing
      <3>5. offset' \in Nat
        BY <1>0, <2>2, <3>2
      <3>6. ASSUME NEW x \in expected
            PROVE  x \in seen' \/ (reader'.open /\ \E i \in 1 .. Len(Listed) - offset' : Listed[i] = x)
        <4>1. CASE x \in seen
          BY <3>2, <4>1
        <4>2. CASE x \notin seen
          <5>1. PICK i \in 1 .. Len(Listed) - offset : Listed[i] = x
            BY <2>1, <4>2 DEF StillToCome
          <5>2. CASE i > Len(Listed) - (offset + reader.limit)
            BY <3>1, <3>2, <5>1, <5>2
          <5>3. CASE ~(i > Len(Listed) - (offset + reader.limit))
            <6>1. reader'.open
              BY <3>1, <3>3, <5>3
            <6>2. i \in 1 .. Len(Listed) - offset'
              BY <1>0, <2>2, <3>2, <5>3
            <6>3. QED
              BY <5>1, <6>1, <6>2
          <5>4. QED
            BY <5>2, <5>3
        <4>3. QED
          BY <4>1, <4>2
      <3>7. StillToCome'
        BY <2>3, <3>4, <3>6 DEF StillToCome
      <3>8. QED
        BY <1>0, <2>3, <3>3, <3>5, <3>7 DEF AuditInv
    <2>6. QED
      BY <2>4, <2>5
  <1>4. CASE Audit!Finish
    BY <1>0, <1>4 DEF Audit!Finish, AuditInv
  <1>5. CASE UNCHANGED Audit!vars
    BY <1>5 DEF Audit!vars, AuditInv, StillToCome, Listed, Audit!Listing
  <1>6. QED
    BY <1>1, <1>2, <1>3, <1>4, <1>5 DEF Audit!Next

\* A reader that pages through the history to its end has seen every query
\* that was there when it began, whatever the page size, however many queries
\* arrive between two pages, and up to the overflow of offset + limit.
THEOREM PagesHold == Audit!Spec => []PagesMissNothing
  <1>1. AuditInv => PagesMissNothing
    BY DEF AuditInv, StillToCome, Audit!PagesMissNothing, PagesMissNothing
  <1>2. AuditInv /\ [Audit!Next]_Audit!vars => AuditInv'
    BY AuditNext, PartsAssumption
  <1>3. QED
    BY <1>1, <1>2, AuditInit, PTL DEF Audit!Spec
============================================================================
