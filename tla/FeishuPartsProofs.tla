------------------------- MODULE FeishuPartsProofs --------------------------
(* The reception of Feishu events, for every set of events and messages,    *)
(* every way of splitting them, every capacity of the Deduplicator and any  *)
(* number of connection drops, expiries and restarts: no event is put       *)
(* together from two splits, none is acknowledged before its question is    *)
(* taken, and no question is dispatched twice while its id is remembered.   *)
(*                                                                          *)
(* Then the codec of the frames, for all frames, unknown fields and cuts:   *)
(* what is decoded is what was sent.                                        *)
EXTENDS FeishuParts, QueueLemmas, FiniteSetTheorems, TLAPS

Jobs ==
    [at : {"idle", "event", "message", "respond"}, event : Events \cup {None},
     code : {0, 200, 500}, live : BOOLEAN]

\* The types, with the parts that TypeOK does not need to say.
ReceptionTypes ==
    /\ TypeOK
    /\ frames \subseteq [event : Events, sum : Nat, seq : Nat, live : BOOLEAN]
    /\ entries = [e \in Events |-> entries[e]]
    /\ job \in [Slots -> Jobs]
    /\ \A s \in Slots : job[s].at # "idle" => job[s].event \in Events
    /\ \A s \in Slots : job[s].at \in {"event", "message"} =>
        Kind[job[s].event] \in {"question", "blank"}

----------------------------------------------------------------------------
(* The Deduplicator.                                                        *)

LEMMA AddOne ==
    ASSUME NEW S, IsFiniteSet(S), NEW x
    PROVE  /\ IsFiniteSet(S \cup {x})
           /\ Cardinality(S) \in Nat /\ Cardinality(S \cup {x}) \in Nat
           /\ Cardinality(S \cup {x}) <= Cardinality(S) + 1
  <1>1. IsFiniteSet(S \cup {x})
        /\ Cardinality(S \cup {x}) = IF x \in S THEN Cardinality(S) ELSE Cardinality(S) + 1
    BY FS_AddElement
  <1>2. Cardinality(S) \in Nat
    BY FS_CardinalityType
  <1>3. QED
    BY <1>1, <1>2

\* CheckAndRecord keeps to its capacity and remembers the new id.
LEMMA RecordsBounds ==
    ASSUME seen \subseteq Ids, Cardinality(seen) <= MaxSize, NEW id \in Ids,
           NEW s \in Records(id)
    PROVE  s \subseteq Ids /\ Cardinality(s) <= MaxSize /\ id \in s /\ s \subseteq seen \cup {id}
  <1>1. IsFiniteSet(Ids)
    BY EventsAssumption, FS_Union DEF Ids
  <1>2. IsFiniteSet(seen) /\ Cardinality(seen) \in Nat
    BY <1>1, FS_Subset, FS_CardinalityType
  <1>3. MaxSize \in Nat \ {0}
    BY EventsAssumption
  <1>4. CASE Cardinality(seen) < MaxSize
    <2>1. s = seen \cup {id}
      BY <1>4 DEF Records
    <2>2. Cardinality(s) <= Cardinality(seen) + 1 /\ Cardinality(s) \in Nat
      BY <1>2, <2>1, AddOne
    <2>3. QED
      BY <1>2, <1>3, <1>4, <2>1, <2>2
  <1>5. CASE ~(Cardinality(seen) < MaxSize)
    <2> DEFINE k == Max({1, MaxSize \div 2})
    <2>1. k \in Nat /\ k >= 1
      BY <1>3 DEF Max
    <2>2. PICK gone \in SUBSET seen : Cardinality(gone) = k /\ s = (seen \ gone) \cup {id}
      BY <1>5 DEF Records, kSubset
    <2> HIDE DEF k
    <2>3. IsFiniteSet(seen \ gone) /\ Cardinality(seen \ gone) = Cardinality(seen) - k
      <3>1. seen \cap gone = gone
        BY <2>2
      <3>2. QED
        BY <1>2, <2>2, <3>1, FS_Difference
    <2>4. Cardinality(s) <= Cardinality(seen \ gone) + 1 /\ Cardinality(s) \in Nat
      BY <2>2, <2>3, AddOne
    <2>5. Cardinality(s) <= MaxSize
      BY <1>2, <1>3, <2>1, <2>3, <2>4
    <2>6. QED
      BY <2>2, <2>5
  <1>6. QED
    BY <1>4, <1>5

\* A smaller memory keeps to the capacity as well.
LEMMA FewerIds ==
    ASSUME seen \subseteq Ids, Cardinality(seen) <= MaxSize, NEW s \in SUBSET seen
    PROVE  s \subseteq Ids /\ Cardinality(s) <= MaxSize
  <1>1. IsFiniteSet(Ids)
    BY EventsAssumption, FS_Union DEF Ids
  <1>2. IsFiniteSet(seen)
    BY <1>1, FS_Subset
  <1>3. Cardinality(s) <= Cardinality(seen) /\ Cardinality(s) \in Nat /\ Cardinality(seen) \in Nat
    BY <1>2, FS_Subset, FS_CardinalityType
  <1>4. QED
    BY <1>3, EventsAssumption

\* A question is given to a goroutine only if its id was not remembered.
MemoryInv ==
    /\ repeats \in [Messages -> Nat]
    /\ \A m \in Messages : repeats[m] <= 1
    /\ \A m \in Messages \ seen : repeats[m] = 0

LEMMA CountPreserves ==
    ASSUME MemoryInv, NEW new, seen' \subseteq Ids, Count(seen', new),
           \A m \in Messages : m \in new => m \notin seen /\ m \in seen'
    PROVE  MemoryInv'
  BY DEF MemoryInv, Count

----------------------------------------------------------------------------
(* The reassembler.                                                         *)

\* The entry of an event holds parts of its own split only.
OwnParts(entry) == \A i \in DOMAIN entry.parts : entry.parts[i] \in {0, entry.sum}

LEMMA AddFragmentOwn ==
    ASSUME NEW e \in Events, NEW entry, entry = None \/ (entry \in Entry(e) /\ OwnParts(entry)),
           NEW f, f.sum \in Sums[e], f.seq \in Split(f.sum)
    PROVE  AddFragment(entry, f) \in Entry(e) /\ OwnParts(AddFragment(entry, f))
  <1> DEFINE live == IF entry # None /\ entry.expired THEN None ELSE entry
             old == IF live = None THEN Fresh(f.sum) ELSE live
  <1>0. f.sum \in Nat \ {0} /\ Sums[e] \subseteq Nat \ {0}
    BY EventsAssumption
  <1>1. Fresh(f.sum) \in Entry(e) /\ OwnParts(Fresh(f.sum)) /\ Fresh(f.sum).sum = f.sum
    BY <1>0 DEF Fresh, Entry, OwnParts
  <1>2. CASE live # None /\ live.sum # f.sum
    BY <1>2 DEF AddFragment
  <1>3. CASE ~(live # None /\ live.sum # f.sum)
    <2>1. old \in Entry(e) /\ OwnParts(old) /\ old.sum = f.sum
      BY <1>1, <1>3
    <2>2. PICK n \in Sums[e] :
            old \in [sum : {n}, parts : [Split(n) -> Sums[e] \cup {0}], expired : BOOLEAN]
      BY <2>1 DEF Entry
    <2>3. n = f.sum /\ DOMAIN old.parts = Split(f.sum)
      BY <2>1, <2>2
    <2> DEFINE new == [old EXCEPT !.expired = FALSE,
                                  !.parts[f.seq] = IF old.parts[f.seq] = 0 THEN f.sum ELSE @]
    <2>4. AddFragment(entry, f) = new
      BY <1>3 DEF AddFragment
    <2> HIDE DEF old
    <2>5. /\ new \in [sum : {n}, parts : [Split(n) -> Sums[e] \cup {0}], expired : BOOLEAN]
          /\ OwnParts(new)
      BY <2>1, <2>2, <2>3 DEF OwnParts
    <2>6. new \in Entry(e)
      BY <2>5 DEF Entry
    <2>7. QED
      BY <2>4, <2>5, <2>6
  <1>4. QED
    BY <1>2, <1>3

\* What ProcessFrame does to the entry of its event and to a free slot.
LEMMA FrameEffect ==
    ASSUME ReceptionTypes, ReassemblyIsWhole, NEW f \in frames, ProcessFrame(f)
    PROVE  /\ f.event \in Events
           /\ \E entry : /\ entry = None \/ (entry \in Entry(f.event) /\ OwnParts(entry) /\ ~Complete(entry))
                         /\ entries' = [entries EXCEPT ![f.event] = entry]
           /\ \/ UNCHANGED job
              \/ \E s \in Slots : job[s].at = "idle" /\ job' = [job EXCEPT ![s] = Begin(f.event, f.live)]
  <1> DEFINE e == f.event
             entry == IF f.sum = 1 THEN entries[e] ELSE AddFragment(entries[e], f)
  <1>1. e \in Events /\ f.sum \in Sums[e] /\ f.seq \in Split(f.sum) /\ f.sum \in Nat \ {0}
    BY EventsAssumption DEF ReceptionTypes, TypeOK
  <1>2. entries[e] = None \/ (entries[e] \in Entry(e) /\ OwnParts(entries[e]) /\ ~Complete(entries[e]))
    BY <1>1 DEF ReceptionTypes, TypeOK, ReassemblyIsWhole, OwnParts
  <1>3. f.sum # 1 => entry \in Entry(e) /\ OwnParts(entry)
    BY <1>1, <1>2, AddFragmentOwn
  <1>4. CASE f.sum > 1 /\ ~Complete(entry)
    <2>1. entries' = [entries EXCEPT ![e] = entry] /\ UNCHANGED job
      BY <1>4 DEF ProcessFrame
    <2>2. entry \in Entry(e) /\ OwnParts(entry) /\ ~Complete(entry)
      BY <1>1, <1>3, <1>4
    <2> HIDE DEF entry
    <2>3. QED
      BY <1>1, <2>1, <2>2
  <1>5. CASE ~(f.sum > 1 /\ ~Complete(entry))
    <2>1. /\ entries' = [entries EXCEPT ![e] = IF f.sum = 1 THEN entry ELSE None]
          /\ \E s \in Slots : job[s].at = "idle"
          /\ job' = [job EXCEPT ![FreeSlot] = Begin(e, f.live)]
      BY <1>5 DEF ProcessFrame
    <2>2. FreeSlot \in Slots /\ job[FreeSlot].at = "idle"
      BY <2>1 DEF FreeSlot
    <2>3. \E s \in Slots : job[s].at = "idle" /\ job' = [job EXCEPT ![s] = Begin(e, f.live)]
      BY <2>1, <2>2
    <2> HIDE DEF FreeSlot
    <2>4. CASE f.sum = 1
      BY <1>1, <1>2, <2>1, <2>3, <2>4
    <2>5. CASE f.sum # 1
      BY <1>1, <2>1, <2>3, <2>5
    <2>6. QED
      BY <2>4, <2>5
  <1>6. QED
    BY <1>4, <1>5

LEMMA BeginType ==
    ASSUME NEW e \in Events, NEW l \in BOOLEAN
    PROVE  /\ Begin(e, l) \in Jobs
           /\ Begin(e, l).event = e
           /\ Begin(e, l).at \in {"event", "respond"}
           /\ Begin(e, l).at = "event" <=> Kind[e] \in {"question", "blank"}
  BY DEF Begin, Jobs

LEMMA DeadJob ==
    ASSUME NEW j \in Jobs
    PROVE  /\ [j EXCEPT !.live = FALSE] \in Jobs
           /\ [j EXCEPT !.live = FALSE].at = j.at
           /\ [j EXCEPT !.live = FALSE].event = j.event
  BY DEF Jobs

LEMMA TypesInit == Init => ReceptionTypes /\ ReassemblyIsWhole
  <1>1. Cardinality({}) = 0
    BY FS_EmptySet
  <1>2. QED
    BY <1>1, EventsAssumption DEF Init, ReceptionTypes, TypeOK, Jobs, Idle, ReassemblyIsWhole

LEMMA TypesNext ==
    ASSUME ReceptionTypes, ReassemblyIsWhole, [Next]_vars
    PROVE  ReceptionTypes' /\ ReassemblyIsWhole'
  <1> USE DEF ReceptionTypes
  <1>0. /\ \A e \in Events : Message[e] \in Messages
        /\ \A e \in Events : Sums[e] \subseteq Nat \ {0}
        /\ MaxFaults \in Nat
    BY EventsAssumption DEF Messages
  <1>1. ASSUME NEW e \in Events, Deliver(e)
        PROVE  ReceptionTypes' /\ ReassemblyIsWhole'
    <2>1. PICK n \in Sums[e] :
            frames' = frames \cup [event : {e}, sum : {n}, seq : Split(n), live : {TRUE}]
      BY <1>1 DEF Deliver
    <2>2. n \in Nat \ {0} /\ Split(n) \subseteq Nat
      BY <1>0 DEF Split
    <2>3. frames' \subseteq [event : Events, sum : Nat, seq : Nat, live : BOOLEAN]
      BY <2>1, <2>2
    <2>4. \A f \in frames' : f.event \in Events /\ f.sum \in Sums[f.event] /\ f.seq \in Split(f.sum)
                              /\ f.live \in BOOLEAN
      BY <2>1, <2>2 DEF TypeOK
    <2>5. QED
      BY <1>1, <2>3, <2>4 DEF Deliver, ghosts, TypeOK, ReassemblyIsWhole
  <1>2. ASSUME NEW e \in Events, EntryAges(e)
        PROVE  ReceptionTypes' /\ ReassemblyIsWhole'
    <2>1. entries[e] \in Entry(e) /\ [entries[e] EXCEPT !.expired = TRUE] \in Entry(e)
      <3>1. entries[e] \in Entry(e)
        BY <1>2 DEF EntryAges, TypeOK
      <3>2. PICK n \in Sums[e] :
              entries[e] \in [sum : {n}, parts : [Split(n) -> Sums[e] \cup {0}], expired : BOOLEAN]
        BY <3>1 DEF Entry
      <3>3. [entries[e] EXCEPT !.expired = TRUE]
              \in [sum : {n}, parts : [Split(n) -> Sums[e] \cup {0}], expired : BOOLEAN]
        BY <3>2
      <3>4. QED
        BY <3>1, <3>3 DEF Entry
    <2>2. /\ entries' = [entries EXCEPT ![e] = [entries[e] EXCEPT !.expired = TRUE]]
          /\ [entries[e] EXCEPT !.expired = TRUE].parts = entries[e].parts
          /\ [entries[e] EXCEPT !.expired = TRUE].sum = entries[e].sum
      BY <1>2, <2>1 DEF EntryAges, Entry
    <2>3. faults' \in 0 .. MaxFaults
      BY <1>0, <1>2 DEF EntryAges, Fault, TypeOK
    <2>4. TypeOK'
      BY <1>2, <2>1, <2>2, <2>3 DEF EntryAges, ghosts, TypeOK
    <2>5. ReassemblyIsWhole'
      BY <1>2, <2>1, <2>2 DEF EntryAges, ReassemblyIsWhole, Complete
    <2>6. QED
      BY <1>2, <2>2, <2>4, <2>5 DEF EntryAges
  <1>3. ASSUME NEW f \in frames, ProcessFrame(f)
        PROVE  ReceptionTypes' /\ ReassemblyIsWhole'
    <2>1. f.event \in Events /\ f.live \in BOOLEAN /\ frames' \subseteq frames
      BY <1>3 DEF TypeOK, ProcessFrame
    <2>2. PICK entry :
            /\ entry = None \/ (entry \in Entry(f.event) /\ OwnParts(entry) /\ ~Complete(entry))
            /\ entries' = [entries EXCEPT ![f.event] = entry]
      BY <1>3, FrameEffect
    <2>3. \/ UNCHANGED job
          \/ \E s \in Slots : job[s].at = "idle" /\ job' = [job EXCEPT ![s] = Begin(f.event, f.live)]
      BY <1>3, FrameEffect
    <2>4. UNCHANGED <<seen, acked, asked, repeats, cut, faults>>
      BY <1>3 DEF ProcessFrame, ghosts
    <2>5. /\ job' \in [Slots -> Jobs]
          /\ \A s \in Slots : job'[s].at # "idle" => job'[s].event \in Events
          /\ \A s \in Slots : job'[s].at \in {"event", "message"} =>
                Kind[job'[s].event] \in {"question", "blank"}
      <3>1. /\ Begin(f.event, f.live) \in Jobs
            /\ Begin(f.event, f.live).event = f.event
            /\ Begin(f.event, f.live).at \in {"event", "respond"}
            /\ Begin(f.event, f.live).at = "event" => Kind[f.event] \in {"question", "blank"}
        BY <2>1, BeginType
      <3>2. QED
        BY <2>1, <2>3, <3>1
    <2>6. /\ \A e \in Events : entries'[e] = None \/ entries'[e] \in Entry(e)
          /\ entries' = [e \in Events |-> entries'[e]]
      BY <2>1, <2>2 DEF TypeOK
    <2>7. ReassemblyIsWhole'
      BY <2>1, <2>2 DEF ReassemblyIsWhole, OwnParts
    <2>8. TypeOK'
      BY <2>1, <2>4, <2>5, <2>6 DEF TypeOK, Jobs
    <2>9. QED
      BY <2>1, <2>5, <2>6, <2>7, <2>8
  <1>4. ASSUME NEW s \in Slots, CheckEvent(s)
        PROVE  ReceptionTypes' /\ ReassemblyIsWhole'
    <2>1. job[s].at = "event" /\ job[s].event \in Events /\ job[s] \in Jobs
      BY <1>4 DEF CheckEvent
    <2>2. /\ \/ job' = [job EXCEPT ![s].at = "respond"]
             \/ job' = [job EXCEPT ![s].at = "message"]
          /\ UNCHANGED <<frames, entries, acked, asked, cut, faults>>
      BY <1>4 DEF CheckEvent, reception
    <2>3. seen' \subseteq Ids /\ Cardinality(seen') <= MaxSize
      <3>1. seen' = seen \/ seen' \in Records(job[s].event)
        BY <1>4 DEF CheckEvent
      <3>2. QED
        BY <2>1, <3>1, RecordsBounds DEF TypeOK, Ids
    <2>4. repeats' \in [Messages -> Nat]
      BY <1>4 DEF CheckEvent, Count, TypeOK
    <2>5. QED
      BY <2>1, <2>2, <2>3, <2>4 DEF TypeOK, Jobs, ReassemblyIsWhole
  <1>5. ASSUME NEW s \in Slots, CheckMessage(s)
        PROVE  ReceptionTypes' /\ ReassemblyIsWhole'
    <2>1. job[s].at = "message" /\ job[s].event \in Events /\ job[s] \in Jobs
      BY <1>5 DEF CheckMessage
    <2> DEFINE m == Message[job[s].event]
    <2>2. m \in Messages /\ m \in Ids
      BY <1>0, <2>1 DEF Ids, Messages
    <2>3. /\ job' = [job EXCEPT ![s].at = "respond"]
          /\ UNCHANGED <<frames, entries, acked, cut, faults>>
      BY <1>5 DEF CheckMessage, reception
    <2>4. seen' \subseteq Ids /\ Cardinality(seen') <= MaxSize
      <3>1. seen' = seen \/ seen' \in Records(m)
        BY <1>5 DEF CheckMessage
      <3>2. QED
        BY <2>2, <3>1, RecordsBounds DEF TypeOK
    <2>5. repeats' \in [Messages -> Nat] /\ asked' \subseteq Messages
      BY <1>5, <2>2 DEF CheckMessage, Count, TypeOK
    <2>6. QED
      BY <2>1, <2>3, <2>4, <2>5 DEF TypeOK, Jobs, ReassemblyIsWhole
  <1>6. ASSUME NEW s \in Slots, Respond(s)
        PROVE  ReceptionTypes' /\ ReassemblyIsWhole'
    BY <1>6 DEF Respond, Idle, reception, ghosts, TypeOK, Jobs, ReassemblyIsWhole
  <1>7. ASSUME NEW id \in Ids, IdExpires(id)
        PROVE  ReceptionTypes' /\ ReassemblyIsWhole'
    <2>1. seen' \subseteq Ids /\ Cardinality(seen') <= MaxSize
      BY <1>7, FewerIds DEF IdExpires, TypeOK
    <2>2. repeats' \in [Messages -> Nat] /\ faults' \in 0 .. MaxFaults
      BY <1>0, <1>7 DEF IdExpires, Count, Fault, TypeOK
    <2>3. QED
      BY <1>7, <2>1, <2>2 DEF IdExpires, reception, TypeOK, ReassemblyIsWhole
  <1>8. CASE ConnectionDrops
    <2>1. PICK kept \in SUBSET frames : frames' = {[f EXCEPT !.live = FALSE] : f \in kept}
      BY <1>8 DEF ConnectionDrops
    <2>2. /\ job' = [s \in Slots |-> [job[s] EXCEPT !.live = FALSE]]
          /\ UNCHANGED <<entries, seen, acked, asked, repeats, cut>>
          /\ faults' \in 0 .. MaxFaults
      BY <1>0, <1>8 DEF ConnectionDrops, Fault, ghosts, TypeOK
    <2>3. ASSUME NEW g \in frames'
          PROVE  /\ g \in [event : Events, sum : Nat, seq : Nat, live : BOOLEAN]
                 /\ g.sum \in Sums[g.event] /\ g.seq \in Split(g.sum)
      <3>1. PICK f \in frames : g = [f EXCEPT !.live = FALSE]
        BY <2>1
      <3>2. /\ f \in [event : Events, sum : Nat, seq : Nat, live : BOOLEAN]
            /\ f.sum \in Sums[f.event] /\ f.seq \in Split(f.sum)
        BY DEF TypeOK
      <3>3. g.event = f.event /\ g.sum = f.sum /\ g.seq = f.seq
        BY <3>1, <3>2
      <3>4. QED
        BY <3>1, <3>2, <3>3
    <2>4. \A f \in frames' : f.event \in Events /\ f.sum \in Sums[f.event] /\ f.seq \in Split(f.sum)
                              /\ f.live \in BOOLEAN
      BY <2>3
    <2>5. \A s \in Slots : /\ job'[s] \in Jobs
                           /\ job'[s].at = job[s].at /\ job'[s].event = job[s].event
      <3> SUFFICES ASSUME NEW s \in Slots
                   PROVE  /\ job'[s] \in Jobs
                          /\ job'[s].at = job[s].at /\ job'[s].event = job[s].event
        OBVIOUS
      <3>1. job[s] \in Jobs /\ job'[s] = [job[s] EXCEPT !.live = FALSE]
        BY <1>0, <2>2
      <3>2. QED
        BY <3>1, DeadJob
    <2>6. job' \in [Slots -> Jobs]
      BY <2>2, <2>5
    <2>7. frames' \subseteq [event : Events, sum : Nat, seq : Nat, live : BOOLEAN]
      BY <2>3
    <2>8. TypeOK'
      BY <2>2, <2>4, <2>5 DEF TypeOK
    <2>9. ReassemblyIsWhole'
      BY <2>2 DEF ReassemblyIsWhole
    <2>10. QED
      BY <2>2, <2>5, <2>6, <2>7, <2>8, <2>9
  <1>9. CASE Restart
    <2>1. Cardinality({}) = 0
      BY FS_EmptySet
    <2>2. cut' \subseteq Messages
      BY <1>0, <1>9 DEF Restart, TypeOK
    <2>3. repeats' \in [Messages -> Nat] /\ faults' \in 0 .. MaxFaults
      BY <1>0, <1>9 DEF Restart, Count, Fault, TypeOK
    <2>4. QED
      BY <1>9, <2>1, <2>2, <2>3, EventsAssumption DEF Restart, Idle, TypeOK, Jobs, ReassemblyIsWhole
  <1>10. CASE UNCHANGED vars
    BY <1>10 DEF vars, reception, ghosts, TypeOK, ReassemblyIsWhole
  <1>11. QED
    BY <1>1, <1>2, <1>3, <1>4, <1>5, <1>6, <1>7, <1>8, <1>9, <1>10 DEF Next, Handle

----------------------------------------------------------------------------
(* The memory of the Deduplicator.                                          *)

LEMMA MemoryNext ==
    ASSUME ReceptionTypes, ReceptionTypes', MemoryInv, [Next]_vars
    PROVE  MemoryInv'
  <1>0. seen' \subseteq Ids
    BY DEF ReceptionTypes, TypeOK
  <1>1. ASSUME UNCHANGED <<seen, repeats>>
        PROVE  MemoryInv'
    BY <1>1 DEF MemoryInv
  <1>2. ASSUME NEW s \in Slots, CheckEvent(s)
        PROVE  MemoryInv'
    <2>1. UNCHANGED <<seen, repeats>> \/ Count(seen', {})
      BY <1>2 DEF CheckEvent
    <2>2. QED
      BY <1>0, <1>1, <2>1, CountPreserves
  <1>3. ASSUME NEW s \in Slots, CheckMessage(s)
        PROVE  MemoryInv'
    <2> DEFINE m == Message[job[s].event]
               new == IF Kind[job[s].event] = "question" THEN {m} ELSE {}
    <2>1. CASE m \in seen
      BY <1>1, <1>3, <2>1 DEF CheckMessage
    <2>2. CASE m \notin seen
      <3>1. seen' \in Records(m) /\ Count(seen', new)
        BY <1>3, <2>2 DEF CheckMessage
      <3>2. m \in Ids
        BY <1>3 DEF CheckMessage, ReceptionTypes, Ids, Messages
      <3>3. m \in seen'
        BY <3>1, <3>2, RecordsBounds DEF ReceptionTypes, TypeOK
      <3>4. \A x \in Messages : x \in new => x \notin seen /\ x \in seen'
        BY <2>2, <3>3
      <3> HIDE DEF new
      <3>5. QED
        BY <1>0, <3>1, <3>4, CountPreserves
    <2>3. QED
      BY <2>1, <2>2
  <1>4. ASSUME NEW id \in Ids, IdExpires(id)
        PROVE  MemoryInv'
    BY <1>0, <1>4, CountPreserves DEF IdExpires
  <1>5. CASE Restart
    <2>1. seen' = {} /\ Count(seen', {})
      BY <1>5 DEF Restart
    <2>2. QED
      BY <1>0, <2>1, CountPreserves
  <1>6. ASSUME NEW e \in Events, Deliver(e) \/ EntryAges(e)
        PROVE  MemoryInv'
    BY <1>1, <1>6 DEF Deliver, EntryAges, ghosts
  <1>7. ASSUME NEW f \in frames, ProcessFrame(f)
        PROVE  MemoryInv'
    BY <1>1, <1>7 DEF ProcessFrame, ghosts
  <1>8. ASSUME NEW s \in Slots, Respond(s)
        PROVE  MemoryInv'
    BY <1>1, <1>8 DEF Respond, ghosts
  <1>9. CASE ConnectionDrops \/ UNCHANGED vars
    BY <1>1, <1>9 DEF ConnectionDrops, ghosts, vars
  <1>10. QED
    BY <1>2, <1>3, <1>4, <1>5, <1>6, <1>7, <1>8, <1>9 DEF Next, Handle

----------------------------------------------------------------------------
(* Acknowledgements.  An event is acknowledged when its goroutine responds, *)
(* and a goroutine may respond at once for an id that is remembered: what   *)
(* the Deduplicator remembers must have been taken already.                 *)

Taken(e) ==
    \/ Message[e] \in asked \cup cut
    \/ \E s \in Slots : job[s].at = "message" /\ Message[job[s].event] = Message[e]

Questions == {e \in Events : Kind[e] = "question"}

TakenInv ==
    /\ \A e \in Questions \cap (seen \cup acked) : Taken(e)
    /\ \A s \in Slots : job[s].at = "respond" /\ job[s].event \in Questions => Taken(job[s].event)
    /\ \A e \in Questions : Message[e] \in seen => Message[e] \in asked

\* Nothing that was taken is forgotten.
LEMMA StaysTaken ==
    ASSUME asked \cup cut \subseteq asked' \cup cut',
           \A s \in Slots : job[s].at = "message" =>
              \/ Message[job[s].event] \in asked' \cup cut'
              \/ job'[s].at = "message" /\ job'[s].event = job[s].event,
           NEW e, Taken(e)
    PROVE  Taken(e)'
  BY DEF Taken

LEMMA TakenNext ==
    ASSUME ReceptionTypes, ReassemblyIsWhole, ReceptionTypes', TakenInv, [Next]_vars
    PROVE  TakenInv'
  <1>0. job \in [Slots -> Jobs] /\ \A s \in Slots : job[s].at # "idle" => job[s].event \in Events
    BY DEF ReceptionTypes
  <1>1. ASSUME UNCHANGED <<job, seen, acked, asked, cut>>
        PROVE  TakenInv'
    BY <1>1 DEF TakenInv, Taken
  <1>2. ASSUME NEW e \in Events, Deliver(e) \/ EntryAges(e)
        PROVE  TakenInv'
    BY <1>1, <1>2 DEF Deliver, EntryAges, ghosts
  <1>3. ASSUME NEW f \in frames, ProcessFrame(f)
        PROVE  TakenInv'
    <2>1. UNCHANGED <<seen, acked, asked, cut>>
      BY <1>3 DEF ProcessFrame, ghosts
    <2>2. f.event \in Events /\ f.live \in BOOLEAN
      BY DEF ReceptionTypes, TypeOK
    <2>3. CASE UNCHANGED job
      BY <1>1, <2>1, <2>3
    <2>4. ASSUME NEW s \in Slots, job[s].at = "idle", job' = [job EXCEPT ![s] = Begin(f.event, f.live)]
          PROVE  TakenInv'
      <3>1. \A e : Taken(e) => Taken(e)'
        BY <1>0, <2>1, <2>4, StaysTaken
      <3>2. job'[s].at = "respond" => job'[s].event \notin Questions
        BY <1>0, <2>2, <2>4, BeginType DEF Questions
      <3>3. \A t \in Slots : t # s => job'[t] = job[t]
        BY <1>0, <2>4
      <3>4. QED
        BY <2>1, <3>1, <3>2, <3>3 DEF TakenInv
    <2>5. QED
      BY <1>3, <2>3, <2>4, FrameEffect
  <1>4. ASSUME NEW s \in Slots, CheckEvent(s)
        PROVE  TakenInv'
    <2>1. /\ job[s].at = "event" /\ job[s].event \in Events /\ UNCHANGED <<acked, asked, cut>>
      BY <1>0, <1>4 DEF CheckEvent
    <2>2. CASE job[s].event \in seen
      <3>1. job' = [job EXCEPT ![s].at = "respond"] /\ seen' = seen
        BY <1>4, <2>2 DEF CheckEvent
      <3>2. \A e : Taken(e) => Taken(e)'
        BY <1>0, <2>1, <3>1, StaysTaken
      <3>3. job'[s].event = job[s].event /\ \A t \in Slots : t # s => job'[t] = job[t]
        BY <1>0, <3>1 DEF Jobs
      <3>4. QED
        BY <2>1, <2>2, <3>1, <3>2, <3>3 DEF TakenInv
    <2>3. CASE job[s].event \notin seen
      <3>1. job' = [job EXCEPT ![s].at = "message"] /\ seen' \in Records(job[s].event)
        BY <1>4, <2>3 DEF CheckEvent
      <3>2. \A e : Taken(e) => Taken(e)'
        BY <1>0, <2>1, <3>1, StaysTaken
      <3>3. /\ job'[s].event = job[s].event /\ job'[s].at = "message"
            /\ \A t \in Slots : t # s => job'[t] = job[t]
        BY <1>0, <3>1 DEF Jobs
      <3>4. Taken(job[s].event)'
        BY <3>3 DEF Taken
      <3>5. seen' \subseteq seen \cup {job[s].event}
        BY <2>1, <3>1, RecordsBounds DEF ReceptionTypes, TypeOK, Ids
      <3>6. \A e \in Questions : Message[e] \in seen' => Message[e] \in seen
        BY <2>1, <3>5, EventsAssumption DEF Questions, Messages
      <3>7. QED
        BY <2>1, <3>2, <3>3, <3>4, <3>5, <3>6 DEF TakenInv
    <2>4. QED
      BY <2>2, <2>3
  <1>5. ASSUME NEW s \in Slots, CheckMessage(s)
        PROVE  TakenInv'
    <2> DEFINE e0 == job[s].event
               m == Message[e0]
               new == IF Kind[e0] = "question" THEN {m} ELSE {}
    <2>1. /\ job[s].at = "message" /\ e0 \in Events /\ Kind[e0] \in {"question", "blank"}
          /\ job' = [job EXCEPT ![s].at = "respond"] /\ UNCHANGED <<acked, cut>>
      BY <1>0, <1>5 DEF CheckMessage, ReceptionTypes
    <2>2. /\ job'[s].event = e0 /\ job'[s].at = "respond"
          /\ \A t \in Slots : t # s => job'[t] = job[t]
      BY <1>0, <2>1 DEF Jobs
    <2>3. \A e \in Questions : Message[e] = m => e0 \in Questions
      BY <2>1, EventsAssumption DEF Questions
    <2>4. /\ asked \subseteq asked'
          /\ e0 \in Questions => m \in asked'
          /\ seen' \subseteq seen \cup {m}
      <3>1. CASE m \in seen
        BY <1>5, <3>1 DEF CheckMessage, TakenInv
      <3>2. CASE m \notin seen
        <4>1. seen' \in Records(m) /\ asked' = asked \cup new
          BY <1>5, <3>2 DEF CheckMessage
        <4>2. m \in Ids
          BY <2>1 DEF Ids, Messages
        <4>3. seen' \subseteq seen \cup {m}
          BY <4>1, <4>2, RecordsBounds DEF ReceptionTypes, TypeOK
        <4>4. QED
          BY <4>1, <4>3 DEF Questions
      <3>3. QED
        BY <3>1, <3>2
    <2>5. \A e \in Questions : Taken(e) => Taken(e)'
      <3> SUFFICES ASSUME NEW e \in Questions, Taken(e) PROVE Taken(e)'
        OBVIOUS
      <3>1. CASE Message[e] \in asked \cup cut
        BY <2>1, <2>4, <3>1 DEF Taken
      <3>2. CASE Message[e] = m
        BY <2>3, <2>4, <3>2 DEF Taken
      <3>3. CASE Message[e] # m /\ \E t \in Slots : job[t].at = "message" /\ Message[job[t].event] = Message[e]
        BY <2>2, <3>3 DEF Taken
      <3>4. QED
        BY <3>1, <3>2, <3>3 DEF Taken
    <2>6. job'[s].event \in Questions => Taken(job[s].event)'
      BY <2>2, <2>4 DEF Taken
    <2>7. \A e \in Questions : e \in seen' => e \in seen
      BY <2>1, <2>4, EventsAssumption DEF Questions, Messages
    <2>8. \A e \in Questions : Message[e] \in seen' => Message[e] \in asked'
      BY <2>3, <2>4 DEF TakenInv
    <2>9. \A t \in Slots : job'[t].at = "respond" /\ job'[t].event \in Questions
                            => Taken(job[t].event)'
      <3> SUFFICES ASSUME NEW t \in Slots, job'[t].at = "respond", job'[t].event \in Questions
                   PROVE  Taken(job[t].event)'
        OBVIOUS
      <3>1. CASE t = s
        BY <2>6, <3>1
      <3>2. CASE t # s
        <4>1. job'[t] = job[t] /\ Taken(job[t].event)
          BY <2>2, <3>2 DEF TakenInv
        <4>2. QED
          BY <2>5, <4>1 DEF Taken
      <3>3. QED
        BY <3>1, <3>2
    <2>10. \A e \in Questions \cap (seen' \cup acked') : Taken(e)'
      BY <2>1, <2>5, <2>7 DEF TakenInv
    <2>11. QED
      BY <2>8, <2>9, <2>10 DEF TakenInv
  <1>6. ASSUME NEW s \in Slots, Respond(s)
        PROVE  TakenInv'
    <2>1. /\ job[s].at = "respond" /\ job' = [job EXCEPT ![s] = Idle]
          /\ acked' \subseteq acked \cup {job[s].event} /\ UNCHANGED <<seen, asked, cut>>
      BY <1>6 DEF Respond, ghosts
    <2>2. \A e : Taken(e) => Taken(e)'
      BY <1>0, <2>1, StaysTaken
    <2>3. job'[s].at = "idle" /\ \A t \in Slots : t # s => job'[t] = job[t]
      BY <1>0, <2>1 DEF Idle
    <2>4. QED
      BY <2>1, <2>2, <2>3 DEF TakenInv
  <1>7. ASSUME NEW id \in Ids, IdExpires(id)
        PROVE  TakenInv'
    BY <1>7 DEF IdExpires, TakenInv, Taken
  <1>8. CASE ConnectionDrops
    <2>1. /\ UNCHANGED <<seen, acked, asked, cut>>
          /\ \A s \in Slots : job'[s].at = job[s].at /\ job'[s].event = job[s].event
      BY <1>0, <1>8 DEF ConnectionDrops, ghosts, Jobs
    <2>2. \A e : Taken(e) => Taken(e)'
      BY <2>1, StaysTaken
    <2>3. QED
      BY <2>1, <2>2 DEF TakenInv
  <1>9. CASE Restart
    <2>1. /\ seen' = {} /\ UNCHANGED <<acked, asked>>
          /\ \A s \in Slots : job'[s].at = "idle"
          /\ cut \subseteq cut'
          /\ \A s \in Slots : job[s].at = "message" => Message[job[s].event] \in cut'
      BY <1>9 DEF Restart, Idle
    <2>2. \A e : Taken(e) => Taken(e)'
      BY <2>1, StaysTaken
    <2>3. QED
      BY <2>1, <2>2 DEF TakenInv
  <1>10. CASE UNCHANGED vars
    BY <1>1, <1>10 DEF vars, ghosts
  <1>11. QED
    BY <1>2, <1>3, <1>4, <1>5, <1>6, <1>7, <1>8, <1>9, <1>10 DEF Next, Handle

----------------------------------------------------------------------------
ReceptionInv == ReceptionTypes /\ ReassemblyIsWhole /\ MemoryInv /\ TakenInv

LEMMA ReceptionHolds == Spec => []ReceptionInv
  <1>1. Init => MemoryInv /\ TakenInv
    BY DEF Init, MemoryInv, TakenInv, Idle, Taken
  <1>2. QED
    BY <1>1, TypesInit, TypesNext, MemoryNext, TakenNext, PTL DEF Spec, ReceptionInv

\* The FragmentReassembler never mixes the fragments of two splits, and an
\* event that Feishu will not deliver again has its question taken: for every
\* set of events and splits, and through drops, expiries and restarts.
THEOREM ReceptionIsSafe == Spec => []ReceptionIsSound
  <1>1. ReceptionInv => ReceptionIsSound
    BY DEF ReceptionInv, ReceptionTypes, TypeOK, TakenInv, Taken, Questions, ReceptionIsSound, AckedIsTaken
  <1>2. QED
    BY <1>1, ReceptionHolds, PTL

\* CheckAndRecord lets a question through once between two losses of its
\* message id, for every capacity of the Deduplicator.
THEOREM AskedOnce == Spec => []AskedOncePerMemory
  <1>1. ReceptionInv => AskedOncePerMemory
    BY DEF ReceptionInv, MemoryInv, AskedOncePerMemory
  <1>2. QED
    BY <1>1, ReceptionHolds, PTL

----------------------------------------------------------------------------
(* The codec (FrameCodec).  What is decoded depends only on the bytes that  *)
(* are decoded, and an encoded field decodes to all of itself: so it is     *)
(* read as what it was, whatever follows, and a part of it is refused.      *)

\* One turn of the recursion of a number.
NumberStep(value, bytes, n) ==
    IF n = 0 THEN 0 ELSE value[n - 1] * 128 + (bytes[Len(bytes) + 1 - n] % 128)

LEMMA NumberExists ==
    ASSUME NEW bytes
    PROVE  \A m \in Nat : \E f : f = [n \in 0 .. m |-> NumberStep(f, bytes, n)]
  <1> DEFINE T == {m \in Nat : \E f : f = [n \in 0 .. m |-> NumberStep(f, bytes, n)]}
  <1>1. 0 \in T
    <2> DEFINE f == [n \in 0 .. 0 |-> 0]
    <2>1. f = [n \in 0 .. 0 |-> NumberStep(f, bytes, n)]
      BY DEF NumberStep
    <2>2. QED
      BY <2>1
  <1>2. ASSUME NEW m \in Nat, m \in T PROVE m + 1 \in T
    <2>1. PICK f : f = [n \in 0 .. m |-> NumberStep(f, bytes, n)]
      BY <1>2
    <2> DEFINE g == [n \in 0 .. m + 1 |-> NumberStep(f, bytes, n)]
    <2>2. ASSUME NEW n \in 0 .. m + 1 PROVE g[n] = NumberStep(g, bytes, n)
      <3>1. CASE n = 0
        BY <3>1 DEF NumberStep
      <3>2. CASE n # 0
        <4>1. n - 1 \in 0 .. m /\ n - 1 \in 0 .. m + 1
          BY <3>2
        <4>2. g[n - 1] = NumberStep(f, bytes, n - 1)
          BY <4>1
        <4>3. f[n - 1] = NumberStep(f, bytes, n - 1)
          BY <4>1, <2>1
        <4>4. g[n - 1] = f[n - 1]
          BY <4>2, <4>3
        <4>5. g[n] = NumberStep(f, bytes, n)
          OBVIOUS
        <4> HIDE DEF g
        <4>6. QED
          BY <4>4, <4>5, <3>2 DEF NumberStep
      <3>3. QED
        BY <3>1, <3>2
    <2>3. g = [n \in 0 .. m + 1 |-> NumberStep(g, bytes, n)]
      BY <2>2
    <2>4. \E h : h = [n \in 0 .. m + 1 |-> NumberStep(h, bytes, n)]
      <3> HIDE DEF g
      <3>1. QED
        BY <2>3
    <2>5. QED
      BY <2>4
  <1>3. QED
    BY <1>1, <1>2, Induction

LEMMA NumberLoop ==
    ASSUME NEW bytes \in Codec!Bytes
    PROVE  \E f : /\ \A n \in 0 .. Len(bytes) : f[n] = NumberStep(f, bytes, n)
                  /\ Codec!Number(bytes) = f[Len(bytes)]
  <1> DEFINE f == CHOOSE g : g = [n \in 0 .. Len(bytes) |-> NumberStep(g, bytes, n)]
  <1>1. f = [n \in 0 .. Len(bytes) |-> NumberStep(f, bytes, n)]
    <2>1. Len(bytes) \in Nat
      BY DEF Codec!Bytes
    <2>2. \E g : g = [n \in 0 .. Len(bytes) |-> NumberStep(g, bytes, n)]
      BY <2>1, NumberExists
    <2>3. QED
      BY <2>2, Zenon
  <1>2. Codec!Number(bytes) = f[Len(bytes)]
    BY DEF Codec!Number, NumberStep
  <1> HIDE DEF f
  <1>3. \A n \in 0 .. Len(bytes) : f[n] = NumberStep(f, bytes, n)
    BY <1>1
  <1>4. QED
    BY <1>2, <1>3

\* The bytes e are the number v: w[i] is what is left of it at the i-th byte.
Shape(e, w, v) ==
    /\ e \in Codec!Bytes /\ Len(e) >= 1
    /\ w \in [1 .. Len(e) -> Nat] /\ w[1] = v
    /\ \A i \in 1 .. Len(e) - 1 : w[i] >= 128 /\ e[i] = (w[i] % 128) + 128 /\ w[i + 1] = w[i] \div 128
    /\ e[Len(e)] = w[Len(e)] /\ w[Len(e)] < 128

LEMMA NumberOfShape ==
    ASSUME NEW e, NEW w, NEW v, Shape(e, w, v)
    PROVE  Codec!Number(e) = v
  <1> DEFINE L == Len(e)
  <1>1. e \in Codec!Bytes /\ L \in Nat /\ L >= 1 /\ w \in [1 .. L -> Nat] /\ w[1] = v
        /\ e[L] = w[L] /\ w[L] < 128
    BY DEF Shape, Codec!Bytes
  <1>0. \A i \in 1 .. L - 1 :
          w[i] >= 128 /\ e[i] = (w[i] % 128) + 128 /\ w[i + 1] = w[i] \div 128
    BY DEF Shape
  <1>2. PICK f : /\ \A n \in 0 .. L : f[n] = NumberStep(f, e, n)
                 /\ Codec!Number(e) = f[L]
    BY <1>1, NumberLoop
  <1> HIDE DEF L
  <1>3. f[0] = 0
    BY <1>1, <1>2 DEF NumberStep
  <1>4. ASSUME NEW n \in 0 .. L - 1 PROVE f[n + 1] = f[n] * 128 + (e[L - n] % 128)
    <2>1. n + 1 \in 0 .. L /\ n + 1 # 0 /\ (n + 1) - 1 = n /\ L + 1 - (n + 1) = L - n
      BY <1>1
    <2>2. f[n + 1] = NumberStep(f, e, n + 1)
      BY <1>2, <2>1
    <2>3. QED
      BY <2>1, <2>2 DEF NumberStep, L
  <1> DEFINE G == {n \in Nat : n + 1 <= L => f[n + 1] = w[L - n]}
  <1>5. 0 \in G
    <2>1. f[0 + 1] = f[0] * 128 + (e[L - 0] % 128)
      BY <1>1, <1>4
    <2>2. f[1] = w[L] % 128
      BY <1>1, <1>3, <2>1
    <2>3. w[L] \in Nat
      BY <1>1
    <2>4. w[L] % 128 = w[L]
      BY <1>1, <2>3
    <2>5. f[0 + 1] = w[L - 0]
      BY <1>1, <2>2, <2>4
    <2>6. QED
      BY <2>5
  <1>6. ASSUME NEW n \in Nat, n \in G PROVE n + 1 \in G
    <2>1. SUFFICES ASSUME (n + 1) + 1 <= L PROVE f[(n + 1) + 1] = w[L - (n + 1)]
      OBVIOUS
    <2> DEFINE i == L - (n + 1)
    <2>2. i \in 1 .. L - 1 /\ i + 1 = L - n /\ n + 1 \in 0 .. L - 1
      BY <1>1, <2>1
    <2>3. f[n + 1] = w[i + 1]
      BY <1>1, <1>6, <2>1, <2>2
    <2>4. f[(n + 1) + 1] = f[n + 1] * 128 + (e[i] % 128)
      BY <1>4, <2>2
    <2> HIDE DEF i
    <2>5. w[i] >= 128 /\ e[i] = (w[i] % 128) + 128 /\ w[i + 1] = w[i] \div 128 /\ w[i] \in Nat
      <3>1. w[i] \in Nat
        BY <1>1, <2>2
      <3>2. QED
        BY <1>0, <2>2, <3>1
    <2>6. (w[i] \div 128) * 128 + (((w[i] % 128) + 128) % 128) = w[i]
      BY <2>5
    <2>7. QED
      BY <2>3, <2>4, <2>5, <2>6 DEF i
  <1>7. L - 1 \in Nat
    BY <1>1
  <1>8. L - 1 \in G
    BY <1>5, <1>6, <1>7, Induction
  <1>9. (L - 1) + 1 = L /\ L - (L - 1) = 1
    BY <1>1
  <1>10. f[L] = w[1]
    BY <1>1, <1>8, <1>9
  <1>11. QED
    BY <1>1, <1>2, <1>10

----------------------------------------------------------------------------
(* encodeVarint.                                                            *)

EncodeStep(f, v) == IF v < 128 THEN <<v>> ELSE <<(v % 128) + 128>> \o f[v \div 128]

LEMMA EncodeExists == \A m \in Nat : \E f : f = [v \in 0 .. m |-> EncodeStep(f, v)]
  <1> DEFINE T == {m \in Nat : \E f : f = [v \in 0 .. m |-> EncodeStep(f, v)]}
  <1>1. 0 \in T
    <2> DEFINE f == [v \in 0 .. 0 |-> <<v>>]
    <2>1. f = [v \in 0 .. 0 |-> EncodeStep(f, v)]
      BY DEF EncodeStep
    <2>2. QED
      BY <2>1
  <1>2. ASSUME NEW m \in Nat, m \in T PROVE m + 1 \in T
    <2>1. PICK f : f = [v \in 0 .. m |-> EncodeStep(f, v)]
      BY <1>2
    <2> DEFINE g == [v \in 0 .. m + 1 |-> EncodeStep(f, v)]
    <2>2. ASSUME NEW v \in 0 .. m + 1 PROVE g[v] = EncodeStep(g, v)
      <3>1. CASE v < 128
        BY <3>1 DEF EncodeStep
      <3>2. CASE ~(v < 128)
        <4>1. v \div 128 \in 0 .. m /\ v \div 128 \in 0 .. m + 1
          BY <3>2
        <4>2. g[v \div 128] = EncodeStep(f, v \div 128)
          BY <4>1
        <4>3. f[v \div 128] = EncodeStep(f, v \div 128)
          BY <4>1, <2>1
        <4>4. g[v \div 128] = f[v \div 128]
          BY <4>2, <4>3
        <4>5. g[v] = EncodeStep(f, v)
          OBVIOUS
        <4> HIDE DEF g
        <4>6. QED
          BY <4>4, <4>5, <3>2 DEF EncodeStep
      <3>3. QED
        BY <3>1, <3>2
    <2>3. g = [v \in 0 .. m + 1 |-> EncodeStep(g, v)]
      BY <2>2
    <2>4. \E h : h = [v \in 0 .. m + 1 |-> EncodeStep(h, v)]
      <3> HIDE DEF g
      <3>1. QED
        BY <2>3
    <2>5. QED
      BY <2>4
  <1>3. QED
    BY <1>1, <1>2, Induction

LEMMA EncodeIs ==
    ASSUME Largest \in Nat
    PROVE  \A v \in 0 .. Largest : Codec!encodeVarint[v] = EncodeStep(Codec!encodeVarint, v)
  <1> DEFINE f == CHOOSE g : g = [v \in 0 .. Largest |-> EncodeStep(g, v)]
  <1>1. f = [v \in 0 .. Largest |-> EncodeStep(f, v)]
    <2>1. \E g : g = [v \in 0 .. Largest |-> EncodeStep(g, v)]
      BY EncodeExists
    <2>2. QED
      BY <2>1, Zenon
  <1>2. Codec!encodeVarint = f
    BY DEF Codec!encodeVarint, EncodeStep
  <1> HIDE DEF f
  <1>3. QED
    BY <1>1, <1>2

\* A byte more in front.
LEMMA ShapeMore ==
    ASSUME NEW d, NEW u, NEW v \in Nat, v >= 128, Shape(d, u, v \div 128)
    PROVE  \E w : Shape(<<(v % 128) + 128>> \o d, w, v)
  <1> DEFINE b == (v % 128) + 128
             e == <<b>> \o d
             w == [i \in 1 .. Len(d) + 1 |-> IF i = 1 THEN v ELSE u[i - 1]]
  <1>1. d \in Seq(0 .. 255) /\ Len(d) >= 1 /\ Len(d) \in Nat /\ u \in [1 .. Len(d) -> Nat]
        /\ u[1] = v \div 128 /\ d[Len(d)] = u[Len(d)] /\ u[Len(d)] < 128
    BY DEF Shape, Codec!Bytes
  <1>2. \A i \in 1 .. Len(d) - 1 :
          u[i] >= 128 /\ d[i] = (u[i] % 128) + 128 /\ u[i + 1] = u[i] \div 128
    BY DEF Shape
  <1>3. b \in 0 .. 255
    OBVIOUS
  <1> HIDE DEF b
  <1>4. /\ e \in Seq(0 .. 255) /\ Len(e) = Len(d) + 1 /\ e[1] = b
        /\ \A i \in 2 .. Len(d) + 1 : e[i] = d[i - 1]
    BY <1>1, <1>3
  <1>5. /\ w \in [1 .. Len(d) + 1 -> Nat] /\ w[1] = v
        /\ \A i \in 2 .. Len(d) + 1 : w[i] = u[i - 1]
    BY <1>1
  <1> HIDE DEF e, w
  <1>6. ASSUME NEW i \in 1 .. Len(e) - 1
        PROVE  w[i] >= 128 /\ e[i] = (w[i] % 128) + 128 /\ w[i + 1] = w[i] \div 128
    <2>1. CASE i = 1
      BY <1>1, <1>4, <1>5, <2>1 DEF b
    <2>2. CASE i # 1
      <3>1. i - 1 \in 1 .. Len(d) - 1 /\ i \in 2 .. Len(d) + 1 /\ i + 1 \in 2 .. Len(d) + 1
            /\ (i - 1) + 1 = i /\ (i + 1) - 1 = i
        BY <1>1, <1>4, <2>2
      <3>2. w[i] = u[i - 1] /\ e[i] = d[i - 1] /\ w[i + 1] = u[i]
        BY <1>4, <1>5, <3>1
      <3>3. u[i - 1] >= 128 /\ d[i - 1] = (u[i - 1] % 128) + 128 /\ u[(i - 1) + 1] = u[i - 1] \div 128
        BY <1>2, <3>1
      <3>4. QED
        BY <3>1, <3>2, <3>3
    <2>3. QED
      BY <2>1, <2>2
  <1>7. e[Len(e)] = w[Len(e)] /\ w[Len(e)] < 128
    <2>1. Len(d) + 1 \in 2 .. Len(d) + 1 /\ (Len(d) + 1) - 1 = Len(d)
      BY <1>1
    <2>2. QED
      BY <1>1, <1>4, <1>5, <2>1
  <1>8. Shape(e, w, v)
    BY <1>1, <1>4, <1>5, <1>6, <1>7 DEF Shape, Codec!Bytes
  <1>9. QED
    BY <1>8 DEF e, b

LEMMA EncodeShape ==
    ASSUME Largest \in Nat
    PROVE  \A v \in 0 .. Largest : \E w : Shape(Codec!encodeVarint[v], w, v)
  <1> DEFINE G == {n \in Nat : \A v \in 0 .. n : v <= Largest => \E w : Shape(Codec!encodeVarint[v], w, v)}
  <1>1. ASSUME NEW v \in 0 .. Largest, v < 128 PROVE \E w : Shape(Codec!encodeVarint[v], w, v)
    <2>1. Codec!encodeVarint[v] = <<v>>
      BY <1>1, EncodeIs DEF EncodeStep
    <2> DEFINE w == [i \in 1 .. 1 |-> v]
    <2>2. w \in [1 .. 1 -> Nat] /\ w[1] = v
      OBVIOUS
    <2>3. <<v>> \in Seq(0 .. 255) /\ Len(<<v>>) = 1 /\ <<v>>[1] = v
      BY <1>1
    <2> HIDE DEF w
    <2>4. Shape(<<v>>, w, v)
      BY <1>1, <2>2, <2>3 DEF Shape, Codec!Bytes
    <2>5. QED
      BY <2>1, <2>4
  <1>2. 0 \in G
    BY <1>1
  <1>3. ASSUME NEW n \in Nat, n \in G PROVE n + 1 \in G
    <2>1. SUFFICES ASSUME NEW v \in 0 .. n + 1, v <= Largest
                   PROVE  \E w : Shape(Codec!encodeVarint[v], w, v)
      OBVIOUS
    <2>2. CASE v < 128
      BY <1>1, <2>1, <2>2
    <2>3. CASE ~(v < 128)
      <3>1. v \div 128 \in 0 .. n /\ v \div 128 <= Largest /\ v \in 0 .. Largest
        BY <2>1, <2>3
      <3>2. PICK u : Shape(Codec!encodeVarint[v \div 128], u, v \div 128)
        BY <1>3, <3>1
      <3>3. Codec!encodeVarint[v] = <<(v % 128) + 128>> \o Codec!encodeVarint[v \div 128]
        BY <2>3, <3>1, EncodeIs DEF EncodeStep
      <3>4. QED
        BY <2>3, <3>2, <3>3, ShapeMore
    <2>4. QED
      BY <2>2, <2>3
  <1>4. Nat \subseteq G
    BY <1>2, <1>3, Induction
  <1>5. QED
    BY <1>4

LEMMA ElementIs ==
    ASSUME NEW T, NEW s \in Seq(T)
    PROVE  Len(s) \in Nat /\ \A i \in 1 .. Len(s) : s[i] \in T
  OBVIOUS

LEMMA BytesAre ==
    ASSUME NEW b \in Codec!Bytes
    PROVE  /\ b \in Seq(0 .. 255) /\ Len(b) \in Nat
           /\ \A i \in 1 .. Len(b) : b[i] \in 0 .. 255 /\ b[i] \in Nat
  <1>1. b \in Seq(0 .. 255) /\ Len(b) \in Nat
    BY DEF Codec!Bytes
  <1>2. \A i \in 1 .. Len(b) : b[i] \in 0 .. 255
    BY <1>1, ElementIs
  <1>3. \A x \in 0 .. 255 : x \in Nat
    OBVIOUS
  <1>4. QED
    BY <1>1, <1>2, <1>3, Zenon

LEMMA ShapeAt ==
    ASSUME NEW e, NEW w, NEW v, Shape(e, w, v), NEW i \in 1 .. Len(e) - 1
    PROVE  /\ w[i] \in Nat /\ w[i + 1] \in Nat /\ w[i] >= 128
           /\ w[i] >= 128 * w[i + 1] /\ e[i] = (w[i] % 128) + 128 /\ e[i] >= 128
  <1>1. Len(e) \in Nat /\ w \in [1 .. Len(e) -> Nat]
    BY DEF Shape, Codec!Bytes
  <1>2. w[i] \in Nat /\ w[i + 1] \in Nat
    BY <1>1
  <1>3. w[i] >= 128 /\ e[i] = (w[i] % 128) + 128 /\ w[i + 1] = w[i] \div 128
    BY DEF Shape
  <1>4. QED
    BY <1>2, <1>3

LEMMA TenDigits ==
    ASSUME NEW a \in Nat, NEW b \in Nat, NEW c \in Nat, NEW d \in Nat, NEW f \in Nat,
           NEW g \in Nat, NEW h \in Nat, NEW i \in Nat, NEW j \in Nat, NEW k \in Nat,
           a >= 128 * b, b >= 128 * c, c >= 128 * d, d >= 128 * f, f >= 128 * g,
           g >= 128 * h, h >= 128 * i, i >= 128 * j, j >= 128 * k, k >= 128
    PROVE  a >= 1180591620717411303424
  OBVIOUS

\* A number of the code fits into ten bytes.
LEMMA ShapeShort ==
    ASSUME NEW e, NEW w, NEW v \in 0 .. Largest, Shape(e, w, v), Codec!ConstantsAreFrames
    PROVE  Len(e) <= 10
  <1> SUFFICES ASSUME Len(e) > 10 PROVE FALSE
    BY DEF Shape, Codec!Bytes
  <1>1. Len(e) \in Nat /\ w[1] = v
    BY DEF Shape, Codec!Bytes
  <1>2. \A i \in 1 .. 10 : i \in 1 .. Len(e) - 1
    BY <1>1
  <1>3. ASSUME NEW i \in 1 .. 10 PROVE w[i] \in Nat /\ w[i] >= 128 /\ w[i] >= 128 * w[i + 1]
    <2>1. i \in 1 .. Len(e) - 1
      BY <1>2
    <2>2. QED
      BY <2>1, ShapeAt
  <1> DEFINE w1 == w[1]  w2 == w[2]  w3 == w[3]  w4 == w[4]  w5 == w[5]
             w6 == w[6]  w7 == w[7]  w8 == w[8]  w9 == w[9]  w10 == w[10]
  <1>4. w1 \in Nat /\ w2 \in Nat /\ w3 \in Nat /\ w4 \in Nat /\ w5 \in Nat
        /\ w6 \in Nat /\ w7 \in Nat /\ w8 \in Nat /\ w9 \in Nat /\ w10 \in Nat
    BY <1>3
  <1>5. /\ w1 >= 128 * w2 /\ w2 >= 128 * w3 /\ w3 >= 128 * w4
        /\ w4 >= 128 * w5 /\ w5 >= 128 * w6 /\ w6 >= 128 * w7
        /\ w7 >= 128 * w8 /\ w8 >= 128 * w9 /\ w9 >= 128 * w10
        /\ w10 >= 128
    <2>1. /\ w[1] >= 128 * w[1 + 1] /\ w[2] >= 128 * w[2 + 1] /\ w[3] >= 128 * w[3 + 1]
          /\ w[4] >= 128 * w[4 + 1] /\ w[5] >= 128 * w[5 + 1] /\ w[6] >= 128 * w[6 + 1]
          /\ w[7] >= 128 * w[7 + 1] /\ w[8] >= 128 * w[8 + 1] /\ w[9] >= 128 * w[9 + 1]
          /\ w[10] >= 128
      BY <1>3
    <2>2. 1 + 1 = 2 /\ 2 + 1 = 3 /\ 3 + 1 = 4 /\ 4 + 1 = 5 /\ 5 + 1 = 6 /\ 6 + 1 = 7
          /\ 7 + 1 = 8 /\ 8 + 1 = 9 /\ 9 + 1 = 10
      OBVIOUS
    <2>3. QED
      BY <2>1, <2>2
  <1>a. w1 = v
    BY <1>1
  <1> HIDE DEF w1, w2, w3, w4, w5, w6, w7, w8, w9, w10
  <1>6. w1 >= 1180591620717411303424
    BY <1>4, <1>5, TenDigits
  <1>7. Largest \in Nat /\ ((Largest \div 2097152) \div 2097152) \div 2097152 < 128
    BY DEF Codec!ConstantsAreFrames
  <1>8. Largest < 1180591620717411303424
    BY <1>7
  <1>9. QED
    BY <1>a, <1>4, <1>6, <1>7, <1>8

----------------------------------------------------------------------------
(* decodeVarint.                                                            *)

LEMMA LeastExists ==
    ASSUME NEW S \in SUBSET Nat, S # {}
    PROVE  \E x \in S : \A y \in S : x <= y
  <1> DEFINE R == {ss \in Nat \X Nat : ss[1] < ss[2]}
  <1>1. PICK x \in S : \A y \in S : ~(<<y, x>> \in R)
    BY LessIsWellFounded, WFMin
  <1>2. \A y \in S : ~(y < x)
    BY <1>1
  <1>3. QED
    BY <1>2

LEMMA MinIs ==
    ASSUME NEW S \in SUBSET Nat, S # {}
    PROVE  Codec!Min(S) \in S /\ \A y \in S : Codec!Min(S) <= y
  BY LeastExists DEF Codec!Min

\* The first byte that ends a number, if there is one.
EndsOf(bytes) == {i \in 1 .. Len(bytes) : bytes[i] < 128}

LEMMA DecodeDef ==
    ASSUME NEW bytes
    PROVE  Codec!decodeVarint(bytes) =
             IF EndsOf(bytes) = {} \/ Codec!Min(EndsOf(bytes)) > 10 THEN Codec!Bad
             ELSE [size |-> Codec!Min(EndsOf(bytes)),
                   value |-> Codec!Number(SubSeq(bytes, 1, Codec!Min(EndsOf(bytes))))]
  BY DEF Codec!decodeVarint, EndsOf

LEMMA SizeIsNotBad ==
    ASSUME NEW r, r.size # 0
    PROVE  r # Codec!Bad
  BY DEF Codec!Bad

\* What a successful decoding says, where the first n bytes are the number.
DecodesTo(bytes, n) ==
    /\ n \in 1 .. Len(bytes) /\ n <= 10
    /\ bytes[n] < 128
    /\ \A i \in 1 .. n - 1 : bytes[i] >= 128

LEMMA DecodeWhen ==
    ASSUME NEW bytes \in Codec!Bytes, NEW n, DecodesTo(bytes, n)
    PROVE  /\ Codec!decodeVarint(bytes) = [size |-> n, value |-> Codec!Number(SubSeq(bytes, 1, n))]
           /\ Codec!decodeVarint(bytes) # Codec!Bad
  <1> DEFINE E == EndsOf(bytes)
  <1>1. bytes \in Seq(0 .. 255) /\ Len(bytes) \in Nat /\ \A i \in 1 .. Len(bytes) : bytes[i] \in Nat
    BY BytesAre
  <1>2. n \in E /\ E \in SUBSET Nat
    BY <1>1 DEF DecodesTo, EndsOf
  <1>3. \A i \in E : n <= i
    <2>1. SUFFICES ASSUME NEW i \in E, i < n PROVE FALSE
      BY <1>1, <1>2
    <2>2. i \in 1 .. n - 1 /\ bytes[i] < 128 /\ bytes[i] \in Nat
      BY <1>1, <2>1 DEF EndsOf, DecodesTo
    <2>3. QED
      BY <2>2 DEF DecodesTo
  <1> HIDE DEF E
  <1>4. Codec!Min(E) = n
    <2>1. Codec!Min(E) \in E /\ \A y \in E : Codec!Min(E) <= y
      BY <1>2, MinIs
    <2>2. Codec!Min(E) <= n /\ n <= Codec!Min(E) /\ n \in Nat /\ Codec!Min(E) \in Nat
      BY <1>2, <1>3, <2>1
    <2>3. QED
      BY <2>2
  <1>5. ~(E = {} \/ n > 10)
    BY <1>2 DEF DecodesTo
  <1>6. Codec!decodeVarint(bytes) = [size |-> n, value |-> Codec!Number(SubSeq(bytes, 1, n))]
    BY <1>4, <1>5, DecodeDef DEF E
  <1>7. Codec!decodeVarint(bytes).size = n /\ n # 0
    BY <1>6 DEF DecodesTo
  <1>8. QED
    BY <1>6, <1>7, SizeIsNotBad

LEMMA DecodeOnlyWhen ==
    ASSUME NEW bytes \in Codec!Bytes, Codec!decodeVarint(bytes) # Codec!Bad
    PROVE  \E n \in Nat : DecodesTo(bytes, n)
  <1> DEFINE E == EndsOf(bytes)
             n == Codec!Min(E)
  <1>1. bytes \in Seq(0 .. 255) /\ Len(bytes) \in Nat /\ \A i \in 1 .. Len(bytes) : bytes[i] \in Nat
    BY BytesAre
  <1>2. E # {} /\ ~(n > 10)
    BY DecodeDef
  <1>3. E \in SUBSET Nat
    BY <1>1 DEF EndsOf
  <1>4. n \in E /\ \A y \in E : n <= y
    <2> HIDE DEF E
    <2>1. QED
      BY <1>2, <1>3, MinIs
  <1> HIDE DEF n
  <1>5. n \in 1 .. Len(bytes) /\ bytes[n] < 128
    BY <1>4 DEF EndsOf
  <1>6. ASSUME NEW i \in 1 .. n - 1 PROVE bytes[i] >= 128
    <2>1. i \in 1 .. Len(bytes) /\ ~(n <= i)
      BY <1>1, <1>5
    <2>2. i \notin E
      BY <1>4, <2>1
    <2>3. ~(bytes[i] < 128) /\ bytes[i] \in Nat
      BY <1>1, <2>1, <2>2 DEF EndsOf
    <2>4. QED
      BY <2>3
  <1>7. n <= 10 /\ n \in Nat
    BY <1>1, <1>2, <1>5
  <1>8. DecodesTo(bytes, n)
    BY <1>5, <1>6, <1>7 DEF DecodesTo
  <1>9. QED
    BY <1>7, <1>8

\* Sequences after each other.
LEMMA JoinIs ==
    ASSUME NEW T, NEW s \in Seq(T), NEW t \in Seq(T)
    PROVE  /\ s \o t \in Seq(T)
           /\ Len(s \o t) = Len(s) + Len(t)
           /\ \A i \in 1 .. Len(s) : (s \o t)[i] = s[i]
           /\ \A i \in 1 .. Len(t) : (s \o t)[Len(s) + i] = t[i]
  OBVIOUS

\* A slice.
LEMMA SliceIs ==
    ASSUME NEW T, NEW s \in Seq(T), NEW a \in Nat, NEW b \in Nat, a <= b, b <= Len(s)
    PROVE  /\ SubSeq(s, a + 1, b) \in Seq(T)
           /\ Len(SubSeq(s, a + 1, b)) = b - a
           /\ \A i \in 1 .. b - a : SubSeq(s, a + 1, b)[i] = s[a + i]
  OBVIOUS

\* What is read of s \o t within s, and what is read of it after s.
LEMMA SliceOfFirst ==
    ASSUME NEW T, NEW s \in Seq(T), NEW t \in Seq(T), NEW a \in Nat, NEW b \in Nat, a <= b, b <= Len(s)
    PROVE  SubSeq(s \o t, a + 1, b) = SubSeq(s, a + 1, b)
  <1>1. s \o t \in Seq(T) /\ b <= Len(s \o t) /\ \A i \in 1 .. Len(s) : (s \o t)[i] = s[i]
    BY JoinIs
  <1> DEFINE u == s \o t
  <1> HIDE DEF u
  <1>2. u \in Seq(T) /\ b <= Len(u) /\ \A i \in 1 .. Len(s) : u[i] = s[i]
    BY <1>1 DEF u
  <1>3. /\ SubSeq(u, a + 1, b) \in Seq(T) /\ Len(SubSeq(u, a + 1, b)) = b - a
        /\ \A i \in 1 .. b - a : SubSeq(u, a + 1, b)[i] = u[a + i]
    BY <1>2, SliceIs
  <1>4. /\ SubSeq(s, a + 1, b) \in Seq(T) /\ Len(SubSeq(s, a + 1, b)) = b - a
        /\ \A i \in 1 .. b - a : SubSeq(s, a + 1, b)[i] = s[a + i]
    BY SliceIs
  <1>5. \A i \in 1 .. b - a : u[a + i] = s[a + i]
    BY <1>2
  <1>6. SubSeq(u, a + 1, b) = SubSeq(s, a + 1, b)
    BY <1>3, <1>4, <1>5, SameSeq
  <1>7. QED
    BY <1>6 DEF u

LEMMA SliceToEnd ==
    ASSUME NEW T, NEW s \in Seq(T), NEW t \in Seq(T), NEW a \in Nat, a <= Len(s)
    PROVE  SubSeq(s \o t, a + 1, Len(s \o t)) = SubSeq(s, a + 1, Len(s)) \o t
  <1> DEFINE u == s \o t
             x == SubSeq(u, a + 1, Len(u))
             h == SubSeq(s, a + 1, Len(s))
             y == h \o t
  <1>1. /\ u \in Seq(T) /\ Len(u) = Len(s) + Len(t) /\ Len(s) \in Nat /\ Len(t) \in Nat
        /\ \A i \in 1 .. Len(s) : u[i] = s[i]
        /\ \A i \in 1 .. Len(t) : u[Len(s) + i] = t[i]
    BY JoinIs
  <1> HIDE DEF u
  <1>2. x \in Seq(T) /\ Len(x) = Len(u) - a /\ \A i \in 1 .. Len(u) - a : x[i] = u[a + i]
    BY <1>1, SliceIs
  <1>3. h \in Seq(T) /\ Len(h) = Len(s) - a /\ \A i \in 1 .. Len(s) - a : h[i] = s[a + i]
    BY SliceIs
  <1> HIDE DEF x, h
  <1>4. /\ y \in Seq(T) /\ Len(y) = Len(h) + Len(t) /\ \A i \in 1 .. Len(h) : y[i] = h[i]
        /\ \A i \in 1 .. Len(t) : y[Len(h) + i] = t[i]
    <2>1. h \in Seq(T)
      BY <1>3
    <2>2. QED
      BY <2>1, JoinIs
  <1> HIDE DEF y
  <1>5. ASSUME NEW i \in 1 .. Len(x) PROVE x[i] = y[i]
    <2>1. CASE i <= Len(s) - a
      <3>1. x[i] = u[a + i] /\ a + i \in 1 .. Len(s) /\ i \in 1 .. Len(h)
        BY <1>1, <1>2, <1>3, <2>1
      <3>2. QED
        BY <1>1, <1>3, <1>4, <3>1
    <2>2. CASE ~(i <= Len(s) - a)
      <3> DEFINE j == i - (Len(s) - a)
      <3>1. j \in 1 .. Len(t) /\ a + i = Len(s) + j /\ i = Len(h) + j
        BY <1>1, <1>2, <1>3, <2>2
      <3> HIDE DEF j
      <3>2. x[i] = u[a + i]
        BY <1>2
      <3>3. QED
        BY <1>1, <1>4, <3>1, <3>2
    <2>3. QED
      BY <2>1, <2>2
  <1>6. Len(x) = Len(y)
    BY <1>1, <1>2, <1>3, <1>4
  <1>7. x = y
    BY <1>2, <1>4, <1>5, <1>6, SameSeq
  <1>8. QED
    BY <1>7 DEF x, y, h, u

\* The bytes behind a number do not change it.
LEMMA DecodeLocal ==
    ASSUME NEW b \in Codec!Bytes, NEW r \in Codec!Bytes, Codec!decodeVarint(b) # Codec!Bad
    PROVE  /\ Codec!decodeVarint(b \o r) = Codec!decodeVarint(b)
           /\ Codec!decodeVarint(b).size \in 1 .. Len(b)
  <1>1. PICK n \in Nat : DecodesTo(b, n)
    BY DecodeOnlyWhen
  <1>2. b \in Seq(0 .. 255) /\ r \in Seq(0 .. 255) /\ Len(b) \in Nat /\ n \in 1 .. Len(b)
    BY <1>1 DEF Codec!Bytes, DecodesTo
  <1> DEFINE c == b \o r
  <1>3. c \in Seq(0 .. 255) /\ Len(c) >= Len(b) /\ Len(c) \in Nat /\ \A i \in 1 .. Len(b) : c[i] = b[i]
    BY <1>2, JoinIs
  <1>4. SubSeq(c, 0 + 1, n) = SubSeq(b, 0 + 1, n)
    BY <1>2, SliceOfFirst
  <1> HIDE DEF c
  <1>5. DecodesTo(c, n)
    BY <1>1, <1>2, <1>3 DEF DecodesTo
  <1>6. c \in Codec!Bytes
    BY <1>3 DEF Codec!Bytes
  <1>7. Codec!decodeVarint(c) = [size |-> n, value |-> Codec!Number(SubSeq(c, 1, n))]
    BY <1>5, <1>6, DecodeWhen
  <1>8. Codec!decodeVarint(b) = [size |-> n, value |-> Codec!Number(SubSeq(b, 1, n))]
    BY <1>1, DecodeWhen
  <1>9. SubSeq(c, 1, n) = SubSeq(b, 1, n)
    BY <1>4
  <1>10. Codec!decodeVarint(b).size = n
    BY <1>8
  <1>11. QED
    BY <1>2, <1>7, <1>8, <1>9, <1>10 DEF c

\* An encoded number is decoded as a whole.
LEMMA VarintRoundTrip ==
    ASSUME Codec!ConstantsAreFrames, NEW v \in 0 .. Largest
    PROVE  /\ Codec!encodeVarint[v] \in Codec!Bytes /\ Len(Codec!encodeVarint[v]) >= 1
           /\ Codec!decodeVarint(Codec!encodeVarint[v]) =
                [size |-> Len(Codec!encodeVarint[v]), value |-> v]
           /\ Codec!decodeVarint(Codec!encodeVarint[v]) # Codec!Bad
  <1> DEFINE e == Codec!encodeVarint[v]
             L == Len(e)
  <1>1. Largest \in Nat
    BY DEF Codec!ConstantsAreFrames
  <1>2. PICK w : Shape(e, w, v)
    BY <1>1, EncodeShape
  <1>3. L <= 10
    BY <1>2, ShapeShort
  <1> HIDE DEF e
  <1>4. e \in Codec!Bytes /\ L >= 1 /\ L \in Nat
    BY <1>2 DEF Shape, Codec!Bytes
  <1>5. DecodesTo(e, L)
    <2>1. e[L] < 128
      BY <1>2 DEF Shape
    <2>2. \A i \in 1 .. L - 1 : e[i] >= 128
      BY <1>2, ShapeAt
    <2>3. QED
      BY <1>3, <1>4, <2>1, <2>2 DEF DecodesTo
  <1>6. SubSeq(e, 1, L) = e
    <2>1. e \in Seq(0 .. 255)
      BY <1>4 DEF Codec!Bytes
    <2>2. QED
      BY <2>1
  <1>7. Codec!Number(e) = v
    BY <1>2, NumberOfShape
  <1>8. QED
    BY <1>4, <1>5, <1>6, <1>7, DecodeWhen DEF e

----------------------------------------------------------------------------
(* Blocks and fields: what is read does not depend on the bytes behind it.  *)

LEMMA NumberIsNat ==
    ASSUME NEW bytes \in Codec!Bytes
    PROVE  Codec!Number(bytes) \in Nat
  <1> DEFINE L == Len(bytes)
  <1>1. L \in Nat /\ \A i \in 1 .. L : bytes[i] \in Nat
    BY BytesAre
  <1>2. PICK f : /\ \A n \in 0 .. L : f[n] = NumberStep(f, bytes, n)
                 /\ Codec!Number(bytes) = f[L]
    BY NumberLoop
  <1> HIDE DEF L
  <1> DEFINE G == {n \in Nat : n <= L => f[n] \in Nat}
  <1>3. 0 \in G
    BY <1>1, <1>2 DEF NumberStep
  <1>4. ASSUME NEW n \in Nat, n \in G PROVE n + 1 \in G
    <2>1. SUFFICES ASSUME n + 1 <= L PROVE f[n + 1] \in Nat
      OBVIOUS
    <2>2. n + 1 \in 0 .. L /\ (n + 1) - 1 = n /\ n + 1 # 0 /\ L + 1 - (n + 1) \in 1 .. L /\ n <= L
      BY <1>1, <2>1
    <2>3. f[n + 1] = NumberStep(f, bytes, n + 1)
      BY <1>2, <2>2
    <2>4. f[n + 1] = f[n] * 128 + (bytes[L + 1 - (n + 1)] % 128)
      BY <2>2, <2>3 DEF NumberStep, L
    <2>5. f[n] \in Nat /\ bytes[L + 1 - (n + 1)] \in Nat
      BY <1>1, <1>4, <2>2
    <2>6. \A x \in Nat, y \in Nat : x * 128 + (y % 128) \in Nat
      OBVIOUS
    <2>7. QED
      BY <2>4, <2>5, <2>6
  <1>5. L \in G
    BY <1>1, <1>3, <1>4, Induction
  <1>6. QED
    BY <1>1, <1>2, <1>5

LEMMA DecodeFacts ==
    ASSUME NEW b \in Codec!Bytes, Codec!decodeVarint(b) # Codec!Bad
    PROVE  Codec!decodeVarint(b).size \in 1 .. Len(b) /\ Codec!decodeVarint(b).value \in Nat
  <1>1. PICK n \in Nat : DecodesTo(b, n)
    BY DecodeOnlyWhen
  <1>2. Codec!decodeVarint(b) = [size |-> n, value |-> Codec!Number(SubSeq(b, 1, n))]
    BY <1>1, DecodeWhen
  <1>3. b \in Seq(0 .. 255) /\ n \in 0 .. Len(b) /\ n \in 1 .. Len(b)
    BY <1>1 DEF Codec!Bytes, DecodesTo
  <1>4. SubSeq(b, 1, n) \in Codec!Bytes
    BY <1>3, CutIs DEF Codec!Bytes
  <1>5. Codec!Number(SubSeq(b, 1, n)) \in Nat
    BY <1>4, NumberIsNat
  <1>6. QED
    BY <1>2, <1>3, <1>5

\* A length and the bytes that it announces are there.
Announces(b, l) ==
    /\ Codec!decodeVarint(b) = l /\ l # Codec!Bad
    /\ l.size \in 1 .. Len(b) /\ l.value \in Nat /\ l.size + l.value <= Len(b)

LEMMA BlockWhen ==
    ASSUME NEW b \in Codec!Bytes, NEW l, Announces(b, l)
    PROVE  /\ Codec!readBlock(b) = [size |-> l.size + l.value,
                                    value |-> SubSeq(b, l.size + 1, l.size + l.value)]
           /\ Codec!readBlock(b) # Codec!Bad
  <1>1. Codec!decodeVarint(b) = l /\ l # Codec!Bad
        /\ l.size \in 1 .. Len(b) /\ l.value \in Nat /\ l.size + l.value <= Len(b) /\ Len(b) \in Nat
    BY DEF Announces, Codec!Bytes
  <1>2. ~(Len(b) - l.size < l.value)
    BY <1>1
  <1>3. Codec!readBlock(b) = [size |-> l.size + l.value,
                              value |-> SubSeq(b, l.size + 1, l.size + l.value)]
    BY <1>1, <1>2 DEF Codec!readBlock
  <1>4. Codec!readBlock(b).size # 0
    BY <1>1, <1>3
  <1>5. QED
    BY <1>3, <1>4, SizeIsNotBad

LEMMA BlockOnlyWhen ==
    ASSUME NEW b \in Codec!Bytes, Codec!readBlock(b) # Codec!Bad
    PROVE  Announces(b, Codec!decodeVarint(b))
  <1> DEFINE l == Codec!decodeVarint(b)
  <1>1. l # Codec!Bad /\ ~(Len(b) - l.size < l.value)
    BY DEF Codec!readBlock
  <1>2. l.size \in 1 .. Len(b) /\ l.value \in Nat /\ Len(b) \in Nat
    BY <1>1, DecodeFacts DEF Codec!Bytes
  <1> HIDE DEF l
  <1>3. l.size + l.value <= Len(b)
    BY <1>1, <1>2
  <1>4. QED
    BY <1>1, <1>2, <1>3 DEF Announces, l

LEMMA BytesJoin ==
    ASSUME NEW b \in Codec!Bytes, NEW r \in Codec!Bytes
    PROVE  /\ b \o r \in Codec!Bytes /\ Len(b \o r) = Len(b) + Len(r)
           /\ Len(b) \in Nat /\ Len(r) \in Nat
  BY JoinIs, BytesAre DEF Codec!Bytes

LEMMA BlockLocal ==
    ASSUME NEW b \in Codec!Bytes, NEW r \in Codec!Bytes, Codec!readBlock(b) # Codec!Bad
    PROVE  /\ Codec!readBlock(b \o r) = Codec!readBlock(b)
           /\ Codec!readBlock(b).size \in 1 .. Len(b)
  <1> DEFINE l == Codec!decodeVarint(b)
             c == b \o r
  <1>1. Announces(b, l)
    BY BlockOnlyWhen
  <1>2. c \in Codec!Bytes /\ Len(c) = Len(b) + Len(r) /\ Len(b) \in Nat /\ Len(r) \in Nat
    BY BytesJoin
  <1>3. Codec!decodeVarint(c) = l
    BY <1>1, DecodeLocal DEF Announces
  <1> HIDE DEF l
  <1>4. l # Codec!Bad /\ l.size \in 1 .. Len(b) /\ l.value \in Nat /\ l.size + l.value <= Len(b)
    BY <1>1 DEF Announces
  <1>5. SubSeq(c, l.size + 1, l.size + l.value) = SubSeq(b, l.size + 1, l.size + l.value)
    <2> DEFINE x == l.size
               y == l.size + l.value
    <2>1. x \in Nat /\ y \in Nat /\ x <= y /\ y <= Len(b) /\ b \in Seq(0 .. 255) /\ r \in Seq(0 .. 255)
      BY <1>2, <1>4 DEF Codec!Bytes
    <2> HIDE DEF x, y
    <2>2. SubSeq(c, x + 1, y) = SubSeq(b, x + 1, y)
      BY <2>1, SliceOfFirst
    <2>3. QED
      BY <2>2 DEF x, y
  <1> HIDE DEF c
  <1>6. Announces(c, l)
    BY <1>2, <1>3, <1>4 DEF Announces
  <1>7. Codec!readBlock(c) = Codec!readBlock(b)
    BY <1>1, <1>2, <1>5, <1>6, BlockWhen
  <1>8. Codec!readBlock(b).size = l.size + l.value
    BY <1>1, BlockWhen
  <1>9. QED
    BY <1>2, <1>4, <1>7, <1>8 DEF c

LEMMA SkipIs ==
    ASSUME NEW b
    PROVE  /\ Codec!skipField(0, b) = Codec!decodeVarint(b)
           /\ Codec!skipField(1, b) = IF Len(b) < 8 THEN Codec!Bad ELSE [size |-> 8, value |-> 0]
           /\ Codec!skipField(2, b) = Codec!readBlock(b)
           /\ Codec!skipField(5, b) = IF Len(b) < 4 THEN Codec!Bad ELSE [size |-> 4, value |-> 0]
           /\ \A wire : wire \notin {0, 1, 2, 5} => Codec!skipField(wire, b) = Codec!Bad
  <1> DEFINE D == Codec!decodeVarint(b)
             B == Codec!readBlock(b)
  <1>1. \A wire : Codec!skipField(wire, b) =
          CASE wire = 0 -> D
            [] wire = 1 -> IF Len(b) < 8 THEN Codec!Bad ELSE [size |-> 8, value |-> 0]
            [] wire = 2 -> B
            [] wire = 5 -> IF Len(b) < 4 THEN Codec!Bad ELSE [size |-> 4, value |-> 0]
            [] OTHER -> Codec!Bad
    BY DEF Codec!skipField
  <1> HIDE DEF D, B
  <1>2. QED
    BY <1>1 DEF D, B

LEMMA SkipLocal ==
    ASSUME NEW b \in Codec!Bytes, NEW r \in Codec!Bytes, NEW wire,
           Codec!skipField(wire, b) # Codec!Bad
    PROVE  /\ Codec!skipField(wire, b \o r) = Codec!skipField(wire, b)
           /\ Codec!skipField(wire, b).size \in 1 .. Len(b)
  <1>1. wire \in {0, 1, 2, 5}
    BY SkipIs
  <1>2. Len(b \o r) = Len(b) + Len(r) /\ Len(b) \in Nat /\ Len(r) \in Nat
    BY BytesJoin
  <1>3. CASE wire = 0
    BY <1>3, SkipIs, DecodeLocal
  <1>4. CASE wire = 2
    BY <1>4, SkipIs, BlockLocal
  <1>5. CASE wire = 1
    <2>1. ~(Len(b) < 8)
      BY <1>5, SkipIs
    <2>2. ~(Len(b \o r) < 8)
      BY <1>2, <2>1
    <2>3. /\ Codec!skipField(1, b) = [size |-> 8, value |-> 0]
          /\ Codec!skipField(1, b \o r) = [size |-> 8, value |-> 0]
      BY <2>1, <2>2, SkipIs
    <2>4. Codec!skipField(1, b).size = 8
      BY <2>3
    <2>5. QED
      BY <1>2, <1>5, <2>1, <2>3, <2>4
  <1>6. CASE wire = 5
    <2>1. ~(Len(b) < 4)
      BY <1>6, SkipIs
    <2>2. ~(Len(b \o r) < 4)
      BY <1>2, <2>1
    <2>3. /\ Codec!skipField(5, b) = [size |-> 4, value |-> 0]
          /\ Codec!skipField(5, b \o r) = [size |-> 4, value |-> 0]
      BY <2>1, <2>2, SkipIs
    <2>4. Codec!skipField(5, b).size = 4
      BY <2>3
    <2>5. QED
      BY <1>2, <1>6, <2>1, <2>3, <2>4
  <1>7. QED
    BY <1>1, <1>3, <1>4, <1>5, <1>6

LEMMA RestIs ==
    ASSUME NEW T, NEW s \in Seq(T), NEW a \in 1 .. Len(s)
    PROVE  SubSeq(s, a + 1, Len(s)) \in Seq(T) /\ Len(SubSeq(s, a + 1, Len(s))) = Len(s) - a
  OBVIOUS

\* The parts of a field: its tag and its content.
Content(b, tag) == Codec!skipField(tag.value % 8, SubSeq(b, tag.size + 1, Len(b)))
Wrong(wires, tag) == tag.value \div 8 \in DOMAIN wires /\ wires[tag.value \div 8] # tag.value % 8

LEMMA FieldIs ==
    ASSUME NEW wires, NEW b, NEW tag, tag = Codec!decodeVarint(b)
    PROVE  Codec!readField(wires, b) =
             IF tag = Codec!Bad \/ Content(b, tag) = Codec!Bad \/ Wrong(wires, tag) THEN Codec!Bad
             ELSE [size |-> tag.size + Content(b, tag).size, num |-> tag.value \div 8,
                   value |-> Content(b, tag).value]
  BY DEF Codec!readField, Content, Wrong

\* The bytes behind a field do not change it.
LEMMA FieldLocal ==
    ASSUME NEW wires, NEW b \in Codec!Bytes, NEW r \in Codec!Bytes,
           Codec!readField(wires, b) # Codec!Bad
    PROVE  /\ Codec!readField(wires, b \o r) = Codec!readField(wires, b)
           /\ Codec!readField(wires, b).size \in 1 .. Len(b)
  <1> DEFINE tag == Codec!decodeVarint(b)
             c == b \o r
             s == SubSeq(b, tag.size + 1, Len(b))
  <1>1. tag # Codec!Bad /\ Content(b, tag) # Codec!Bad /\ ~Wrong(wires, tag)
    BY FieldIs
  <1>2. Codec!decodeVarint(c) = tag /\ tag.size \in 1 .. Len(b)
    BY <1>1, DecodeLocal
  <1>3. b \in Seq(0 .. 255) /\ r \in Seq(0 .. 255) /\ Len(b) \in Nat
    BY DEF Codec!Bytes
  <1> HIDE DEF tag
  <1>4. s \in Seq(0 .. 255) /\ Len(s) = Len(b) - tag.size
    BY <1>2, <1>3, RestIs
  <1>5. SubSeq(c, tag.size + 1, Len(c)) = s \o r
    <2>1. tag.size \in Nat /\ tag.size <= Len(b)
      BY <1>2, <1>3
    <2>2. QED
      BY <1>3, <2>1, SliceToEnd
  <1> HIDE DEF c
  <1>6. s \in Codec!Bytes
    BY <1>4 DEF Codec!Bytes
  <1> HIDE DEF s
  <1>7. Content(b, tag) = Codec!skipField(tag.value % 8, s)
    BY DEF Content, s
  <1>8. Content(c, tag) = Codec!skipField(tag.value % 8, s \o r)
    BY <1>5 DEF Content
  <1>9. Content(c, tag) = Content(b, tag) /\ Content(b, tag).size \in 1 .. Len(s)
    BY <1>1, <1>6, <1>7, <1>8, SkipLocal
  <1>10. Codec!readField(wires, b) = [size |-> tag.size + Content(b, tag).size, num |-> tag.value \div 8,
                                      value |-> Content(b, tag).value]
    BY <1>1, FieldIs DEF tag
  <1>11. Codec!readField(wires, c) = [size |-> tag.size + Content(b, tag).size, num |-> tag.value \div 8,
                                      value |-> Content(b, tag).value]
    <2>1. tag = Codec!decodeVarint(c)
      BY <1>2
    <2>2. QED
      BY <1>1, <1>9, <2>1, FieldIs
  <1>12. Codec!readField(wires, b).size = tag.size + Content(b, tag).size
    BY <1>10
  <1>13. tag.size + Content(b, tag).size \in 1 .. Len(b)
    BY <1>2, <1>3, <1>4, <1>9
  <1>14. QED
    BY <1>10, <1>11, <1>12, <1>13 DEF c

----------------------------------------------------------------------------
(* An encoded field is read as a whole.                                     *)

\* The piece p is a field with this number and this value.
Piece(wires, p, num, value) ==
    /\ p \in Codec!Bytes /\ Len(p) >= 1
    /\ Codec!readField(wires, p) = [size |-> Len(p), num |-> num, value |-> value]
    /\ Codec!readField(wires, p) # Codec!Bad

LEMMA PieceFacts ==
    ASSUME NEW wires, NEW p, NEW num, NEW value, Piece(wires, p, num, value), NEW r \in Codec!Bytes
    PROVE  /\ Codec!readField(wires, p \o r) = [size |-> Len(p), num |-> num, value |-> value]
           /\ Codec!readField(wires, p \o r) # Codec!Bad
  BY FieldLocal DEF Piece

\* A part of a piece is refused.
LEMMA PieceCut ==
    ASSUME NEW wires, NEW p, NEW num, NEW value, Piece(wires, p, num, value),
           NEW q \in Codec!Bytes, NEW r \in Codec!Bytes, p = q \o r, Len(r) >= 1
    PROVE  Codec!readField(wires, q) = Codec!Bad
  <1> SUFFICES ASSUME Codec!readField(wires, q) # Codec!Bad PROVE FALSE
    OBVIOUS
  <1>1. /\ Codec!readField(wires, p) = Codec!readField(wires, q)
        /\ Codec!readField(wires, q).size \in 1 .. Len(q)
    BY FieldLocal
  <1>2. Len(p) = Len(q) + Len(r) /\ Len(q) \in Nat /\ Len(r) \in Nat
    BY BytesJoin
  <1>3. Codec!readField(wires, p).size = Len(p)
    BY DEF Piece
  <1>4. QED
    BY <1>1, <1>2, <1>3

LEMMA OneIs ==
    ASSUME NEW T, NEW x \in T
    PROVE  /\ <<x>> \in Seq(T) /\ Len(<<x>>) = 1 /\ <<x>>[1] = x
  OBVIOUS

LEMMA WholeIs ==
    ASSUME NEW T, NEW s \in Seq(T)
    PROVE  /\ SubSeq(s, 1, Len(s)) = s /\ SubSeq(s, Len(s) + 1, Len(s)) = <<>>
           /\ <<>> \o s = s
  OBVIOUS

\* A tag of one byte.
LEMMA TagIs ==
    ASSUME NEW t \in 0 .. 127, NEW c \in Codec!Bytes
    PROVE  /\ <<t>> \o c \in Codec!Bytes /\ Len(<<t>> \o c) = 1 + Len(c)
           /\ Codec!decodeVarint(<<t>> \o c) = [size |-> 1, value |-> t]
           /\ SubSeq(<<t>> \o c, 1 + 1, Len(<<t>> \o c)) = c
  <1> DEFINE o == <<t>>
             b == o \o c
  <1>0. c \in Seq(0 .. 255) /\ Len(c) \in Nat /\ t \in 0 .. 255
    BY DEF Codec!Bytes
  <1>1. o \in Seq(0 .. 255) /\ Len(o) = 1 /\ o[1] = t
    BY <1>0, OneIs
  <1> HIDE DEF o
  <1>2. /\ b \in Seq(0 .. 255) /\ Len(b) = 1 + Len(c) /\ b[1] = t
    <2>1. b \in Seq(0 .. 255) /\ Len(b) = Len(o) + Len(c) /\ \A i \in 1 .. Len(o) : b[i] = o[i]
      <3>1. o \in Seq(0 .. 255) /\ c \in Seq(0 .. 255)
        BY <1>0, <1>1
      <3>2. QED
        BY <3>1, JoinIs
    <2> HIDE DEF b
    <2>2. QED
      BY <1>1, <2>1
  <1>3. SubSeq(b, 0 + 1, 1) = SubSeq(o, 0 + 1, 1)
    <2>1. 0 \in Nat /\ 1 \in Nat /\ 0 <= 1 /\ 1 <= Len(o)
      BY <1>1
    <2>2. QED
      BY <1>0, <1>1, <2>1, SliceOfFirst
  <1>4. SubSeq(b, 1 + 1, Len(b)) = SubSeq(o, 1 + 1, Len(o)) \o c
    <2>1. 1 \in Nat /\ 1 <= Len(o)
      BY <1>1
    <2>2. QED
      BY <1>0, <1>1, <2>1, SliceToEnd
  <1>5. <<>> \o c = c
    BY <1>0
  <1> HIDE DEF b
  <1>6. b \in Codec!Bytes
    BY <1>2 DEF Codec!Bytes
  <1>7. DecodesTo(b, 1)
    BY <1>0, <1>1, <1>2 DEF DecodesTo
  <1>8. Codec!Number(o) = t
    <2> DEFINE w == [i \in 1 .. 1 |-> t]
    <2>1. w \in [1 .. 1 -> Nat] /\ w[1] = t
      OBVIOUS
    <2> HIDE DEF w
    <2>2. Shape(o, w, t)
      BY <1>1, <2>1 DEF Shape, Codec!Bytes
    <2>3. QED
      BY <2>2, NumberOfShape
  <1>9. SubSeq(b, 1, 1) = o
    <2>1. SubSeq(o, 1, Len(o)) = o
      BY <1>1, WholeIs
    <2>2. QED
      BY <1>1, <1>3, <2>1
  <1>10. Codec!decodeVarint(b) = [size |-> 1, value |-> t]
    BY <1>6, <1>7, <1>8, <1>9, DecodeWhen
  <1>11. SubSeq(b, 1 + 1, Len(b)) = c
    <2>1. SubSeq(o, Len(o) + 1, Len(o)) = <<>>
      BY <1>1, WholeIs
    <2>2. SubSeq(o, 1 + 1, Len(o)) = <<>>
      BY <1>1, <2>1
    <2>3. QED
      BY <1>4, <1>5, <2>2
  <1>12. QED
    BY <1>2, <1>6, <1>10, <1>11 DEF b, o

\* A tag and a content that is read as a whole make a piece.
LEMMA PieceOf ==
    ASSUME NEW wires, NEW t \in 0 .. 127, NEW c \in Codec!Bytes, NEW value,
           Codec!skipField(t % 8, c) = [size |-> Len(c), value |-> value],
           Codec!skipField(t % 8, c) # Codec!Bad,
           t \div 8 \in DOMAIN wires, wires[t \div 8] = t % 8
    PROVE  Piece(wires, <<t>> \o c, t \div 8, value)
  <1> DEFINE b == <<t>> \o c
             tag == [size |-> 1, value |-> t]
  <1>1. b \in Codec!Bytes /\ Len(b) = 1 + Len(c) /\ tag = Codec!decodeVarint(b)
        /\ SubSeq(b, 1 + 1, Len(b)) = c
    BY TagIs
  <1>2. tag.size = 1 /\ tag.value = t
    OBVIOUS
  <1>3. tag # Codec!Bad
    BY <1>2, SizeIsNotBad
  <1> HIDE DEF b, tag
  <1>4. Content(b, tag) = [size |-> Len(c), value |-> value] /\ Content(b, tag) # Codec!Bad
    BY <1>1, <1>2 DEF Content
  <1>5. Content(b, tag).size = Len(c) /\ Content(b, tag).value = value
    BY <1>4
  <1>6. ~Wrong(wires, tag)
    BY <1>2 DEF Wrong
  <1>7. Codec!readField(wires, b) = [size |-> 1 + Len(c), num |-> t \div 8, value |-> value]
    BY <1>1, <1>2, <1>3, <1>4, <1>5, <1>6, FieldIs
  <1>8. Codec!readField(wires, b).size = 1 + Len(c) /\ Len(c) \in Nat
    BY <1>7, BytesAre
  <1>9. 1 + Len(c) # 0 /\ 1 + Len(c) >= 1
    BY <1>8
  <1>10. Codec!readField(wires, b) # Codec!Bad
    BY <1>8, <1>9, SizeIsNotBad
  <1>11. Piece(wires, b, t \div 8, value)
    BY <1>1, <1>7, <1>9, <1>10 DEF Piece
  <1>12. QED
    BY <1>11 DEF b

\* A number as a field.
LEMMA NumberPiece ==
    ASSUME Codec!ConstantsAreFrames, NEW wires, NEW t \in 0 .. 127, t % 8 = 0, NEW v \in 0 .. Largest,
           t \div 8 \in DOMAIN wires, wires[t \div 8] = 0
    PROVE  Piece(wires, <<t>> \o Codec!encodeVarint[v], t \div 8, v)
  <1> DEFINE c == Codec!encodeVarint[v]
  <1>1. c \in Codec!Bytes /\ Codec!decodeVarint(c) = [size |-> Len(c), value |-> v]
        /\ Codec!decodeVarint(c) # Codec!Bad
    BY VarintRoundTrip
  <1> HIDE DEF c
  <1>2. Codec!skipField(t % 8, c) = Codec!decodeVarint(c)
    BY SkipIs
  <1>3. Piece(wires, <<t>> \o c, t \div 8, v)
    BY <1>1, <1>2, PieceOf
  <1>4. QED
    BY <1>3 DEF c

\* A block is read as a whole.
LEMMA BlockIs ==
    ASSUME Codec!ConstantsAreFrames, NEW d \in Codec!Bytes, Len(d) <= Largest
    PROVE  /\ Codec!Block(d) \in Codec!Bytes
           /\ Codec!readBlock(Codec!Block(d)) = [size |-> Len(Codec!Block(d)), value |-> d]
           /\ Codec!readBlock(Codec!Block(d)) # Codec!Bad
  <1> DEFINE e == Codec!encodeVarint[Len(d)]
             b == e \o d
             l == [size |-> Len(e), value |-> Len(d)]
  <1>1. Len(d) \in Nat /\ d \in Seq(0 .. 255) /\ Len(d) \in 0 .. Largest
    <2>1. Len(d) \in Nat /\ d \in Seq(0 .. 255) /\ Largest \in Nat
      BY DEF Codec!Bytes, Codec!ConstantsAreFrames
    <2>2. QED
      BY <2>1
  <1>2. e \in Codec!Bytes /\ Len(e) >= 1 /\ Codec!decodeVarint(e) = l /\ Codec!decodeVarint(e) # Codec!Bad
    BY <1>1, VarintRoundTrip
  <1> HIDE DEF e
  <1>3. e \in Seq(0 .. 255) /\ Len(e) \in Nat
    BY <1>2 DEF Codec!Bytes
  <1>4. b \in Codec!Bytes /\ Len(b) = Len(e) + Len(d)
    BY <1>2, BytesJoin
  <1>5. Codec!decodeVarint(b) = l
    BY <1>2, DecodeLocal
  <1>6. l.size = Len(e) /\ l.value = Len(d)
    OBVIOUS
  <1>7. SubSeq(b, Len(e) + 1, Len(b)) = SubSeq(e, Len(e) + 1, Len(e)) \o d
    <2>1. Len(e) <= Len(e)
      BY <1>3
    <2>2. QED
      BY <1>1, <1>3, <2>1, SliceToEnd
  <1>8. SubSeq(e, Len(e) + 1, Len(e)) = <<>> /\ <<>> \o d = d
    BY <1>1, <1>3
  <1> HIDE DEF b, l
  <1>9. Announces(b, l)
    BY <1>1, <1>2, <1>3, <1>4, <1>5, <1>6 DEF Announces
  <1>10. Codec!readBlock(b) = [size |-> Len(b), value |-> d] /\ Codec!readBlock(b) # Codec!Bad
    BY <1>4, <1>6, <1>7, <1>8, <1>9, BlockWhen
  <1>11. Codec!Block(d) = b
    BY DEF Codec!Block, b, e
  <1>12. QED
    BY <1>4, <1>10, <1>11

LEMMA BlockPiece ==
    ASSUME Codec!ConstantsAreFrames, NEW wires, NEW t \in 0 .. 127, t % 8 = 2,
           NEW d \in Codec!Bytes, Len(d) <= Largest, t \div 8 \in DOMAIN wires, wires[t \div 8] = 2
    PROVE  Piece(wires, <<t>> \o Codec!Block(d), t \div 8, d)
  <1> DEFINE c == Codec!Block(d)
  <1>1. c \in Codec!Bytes /\ Codec!readBlock(c) = [size |-> Len(c), value |-> d]
        /\ Codec!readBlock(c) # Codec!Bad
    BY BlockIs
  <1> HIDE DEF c
  <1>2. Codec!skipField(t % 8, c) = Codec!readBlock(c)
    BY SkipIs
  <1>3. Piece(wires, <<t>> \o c, t \div 8, d)
    BY <1>1, <1>2, PieceOf
  <1>4. QED
    BY <1>3 DEF c

----------------------------------------------------------------------------
(* Headers.                                                                 *)

LEMMA JoinJoin ==
    ASSUME NEW T, NEW s \in Seq(T), NEW t \in Seq(T), NEW u \in Seq(T)
    PROVE  (s \o t) \o u = s \o (t \o u)
  OBVIOUS

\* One turn of the recursion of a header.
HeaderStep(h, bytes, n) == IF n = 0 THEN Codec!NoHeader ELSE Codec!headerTurn(bytes, h[n - 1])

LEMMA HeaderExists ==
    ASSUME NEW bytes
    PROVE  \A m \in Nat : \E f : f = [n \in 0 .. m |-> HeaderStep(f, bytes, n)]
  <1> DEFINE T == {m \in Nat : \E f : f = [n \in 0 .. m |-> HeaderStep(f, bytes, n)]}
  <1>1. 0 \in T
    <2> DEFINE f == [n \in 0 .. 0 |-> Codec!NoHeader]
    <2>1. f = [n \in 0 .. 0 |-> HeaderStep(f, bytes, n)]
      BY DEF HeaderStep
    <2>2. QED
      BY <2>1
  <1>2. ASSUME NEW m \in Nat, m \in T PROVE m + 1 \in T
    <2>1. PICK f : f = [n \in 0 .. m |-> HeaderStep(f, bytes, n)]
      BY <1>2
    <2> DEFINE g == [n \in 0 .. m + 1 |-> HeaderStep(f, bytes, n)]
    <2>2. ASSUME NEW n \in 0 .. m + 1 PROVE g[n] = HeaderStep(g, bytes, n)
      <3>1. CASE n = 0
        BY <3>1 DEF HeaderStep
      <3>2. CASE n # 0
        <4>1. n - 1 \in 0 .. m /\ n - 1 \in 0 .. m + 1
          BY <3>2
        <4>2. g[n - 1] = HeaderStep(f, bytes, n - 1)
          BY <4>1
        <4>3. f[n - 1] = HeaderStep(f, bytes, n - 1)
          BY <4>1, <2>1
        <4>4. g[n - 1] = f[n - 1]
          BY <4>2, <4>3
        <4>5. g[n] = HeaderStep(f, bytes, n)
          OBVIOUS
        <4> HIDE DEF g
        <4>6. QED
          BY <4>4, <4>5, <3>2 DEF HeaderStep
      <3>3. QED
        BY <3>1, <3>2
    <2>3. g = [n \in 0 .. m + 1 |-> HeaderStep(g, bytes, n)]
      BY <2>2
    <2>4. \E h : h = [n \in 0 .. m + 1 |-> HeaderStep(h, bytes, n)]
      <3> HIDE DEF g
      <3>1. QED
        BY <2>3
    <2>5. QED
      BY <2>4
  <1>3. QED
    BY <1>1, <1>2, Induction

LEMMA HeaderLoop ==
    ASSUME NEW bytes \in Codec!Bytes
    PROVE  \E f : /\ \A n \in 0 .. Len(bytes) : f[n] = HeaderStep(f, bytes, n)
                  /\ Codec!unmarshalHeader(bytes) = f[Len(bytes)]
  <1> DEFINE f == CHOOSE g : g = [n \in 0 .. Len(bytes) |-> HeaderStep(g, bytes, n)]
  <1>1. f = [n \in 0 .. Len(bytes) |-> HeaderStep(f, bytes, n)]
    <2>1. Len(bytes) \in Nat
      BY DEF Codec!Bytes
    <2>2. \E g : g = [n \in 0 .. Len(bytes) |-> HeaderStep(g, bytes, n)]
      BY <2>1, HeaderExists
    <2>3. QED
      BY <2>2, Zenon
  <1>2. Codec!unmarshalHeader(bytes) = f[Len(bytes)]
    BY DEF Codec!unmarshalHeader, HeaderStep
  <1> HIDE DEF f
  <1>3. \A n \in 0 .. Len(bytes) : f[n] = HeaderStep(f, bytes, n)
    BY <1>1
  <1>4. QED
    BY <1>2, <1>3

\* A turn that reads a field, and a turn at the end.
LEMMA TurnReads ==
    ASSUME NEW bytes, NEW h, h.ok, h.offset # Len(bytes),
           NEW f, f = Codec!readField(<<2, 2>>, SubSeq(bytes, h.offset + 1, Len(bytes))), f # Codec!Bad
    PROVE  Codec!headerTurn(bytes, h) =
             [offset |-> h.offset + f.size, key |-> IF f.num = 1 THEN f.value ELSE h.key,
              value |-> IF f.num = 2 THEN f.value ELSE h.value, ok |-> TRUE]
  BY DEF Codec!headerTurn

LEMMA TurnAtEnd ==
    ASSUME NEW bytes, NEW h, h.offset = Len(bytes)
    PROVE  Codec!headerTurn(bytes, h) = h
  BY DEF Codec!headerTurn

\* A header is decoded to what it was.
LEMMA HeaderRoundTrip ==
    ASSUME Codec!ConstantsAreFrames, NEW h, h.key \in Codec!Bytes, h.value \in Codec!Bytes,
           Len(h.key) <= Largest, Len(h.value) <= Largest
    PROVE  /\ Codec!marshalHeader(h) \in Codec!Bytes
           /\ Codec!unmarshalHeader(Codec!marshalHeader(h)).key = h.key
           /\ Codec!unmarshalHeader(Codec!marshalHeader(h)).value = h.value
           /\ Codec!unmarshalHeader(Codec!marshalHeader(h)).ok
  <1> DEFINE key == h.key
             value == h.value
  <1>a. key \in Codec!Bytes /\ value \in Codec!Bytes /\ Len(key) <= Largest /\ Len(value) <= Largest
    OBVIOUS
  <1>m. Codec!marshalHeader(h) = ((<<10>> \o Codec!Block(key)) \o <<18>>) \o Codec!Block(value)
    BY DEF Codec!marshalHeader
  <1> HIDE DEF key, value
  <1> DEFINE p == <<10>> \o Codec!Block(key)
             q == <<18>> \o Codec!Block(value)
             b == p \o q
             h1 == [offset |-> Len(p), key |-> key, value |-> <<>>, ok |-> TRUE]
             h2 == [offset |-> Len(b), key |-> key, value |-> value, ok |-> TRUE]
             W == <<2, 2>>
  <1>1. 10 \in 0 .. 127 /\ 10 % 8 = 2 /\ 10 \div 8 = 1 /\ 18 \in 0 .. 127 /\ 18 % 8 = 2 /\ 18 \div 8 = 2
    OBVIOUS
  <1>2. 1 \in DOMAIN W /\ 2 \in DOMAIN W /\ W[1] = 2 /\ W[2] = 2
    OBVIOUS
  <1> HIDE DEF W
  <1>3. Piece(W, p, 1, key)
    <2>1. Piece(W, p, 10 \div 8, key)
      BY <1>1, <1>2, <1>a, BlockPiece
    <2>2. QED
      BY <1>1, <2>1
  <1>4. Piece(W, q, 2, value)
    <2>1. Piece(W, q, 18 \div 8, value)
      BY <1>1, <1>2, <1>a, BlockPiece
    <2>2. QED
      BY <1>1, <2>1
  <1>5. Codec!marshalHeader(h) = b
    <2> DEFINE K == Codec!Block(key)
               V == Codec!Block(value)
    <2>1. K \in Seq(0 .. 255) /\ V \in Seq(0 .. 255)
      BY <1>a, BlockIs DEF Codec!Bytes
    <2>2. Codec!marshalHeader(h) = ((<<10>> \o K) \o <<18>>) \o V
      BY <1>m
    <2> HIDE DEF K, V
    <2>3. <<10>> \in Seq(0 .. 255) /\ <<18>> \in Seq(0 .. 255)
      BY OneIs
    <2>4. <<10>> \o K \in Seq(0 .. 255)
      BY <2>1, <2>3, JoinIs
    <2>5. ((<<10>> \o K) \o <<18>>) \o V = (<<10>> \o K) \o (<<18>> \o V)
      BY <2>1, <2>3, <2>4, JoinJoin
    <2>6. QED
      BY <2>2, <2>5 DEF K, V
  <1> HIDE DEF p, q
  <1>6. p \in Codec!Bytes /\ q \in Codec!Bytes /\ Len(p) >= 1 /\ Len(q) >= 1
    BY <1>3, <1>4 DEF Piece
  <1>7. b \in Codec!Bytes /\ Len(b) = Len(p) + Len(q) /\ Len(p) \in Nat /\ Len(q) \in Nat
    BY <1>6, BytesJoin
  <1>8. Len(b) \in Nat /\ Len(b) >= 2 /\ Len(b) # 0 /\ Len(p) # Len(b)
    BY <1>6, <1>7
  <1>9. SubSeq(b, 0 + 1, Len(b)) = p \o q
    <2>1. b \in Seq(0 .. 255)
      BY <1>7 DEF Codec!Bytes
    <2> HIDE DEF b
    <2>2. SubSeq(b, 1, Len(b)) = b
      BY <2>1, WholeIs
    <2>3. QED
      BY <2>2 DEF b
  <1>10. SubSeq(b, Len(p) + 1, Len(b)) = q
    <2>1. p \in Seq(0 .. 255) /\ q \in Seq(0 .. 255)
      BY <1>6 DEF Codec!Bytes
    <2>2. Len(p) <= Len(p)
      BY <1>7
    <2>3. SubSeq(b, Len(p) + 1, Len(b)) = SubSeq(p, Len(p) + 1, Len(p)) \o q
      BY <1>7, <2>1, <2>2, SliceToEnd
    <2>4. SubSeq(p, Len(p) + 1, Len(p)) = <<>> /\ <<>> \o q = q
      BY <2>1, WholeIs
    <2>5. QED
      BY <2>3, <2>4
  <1>11. Codec!headerTurn(b, Codec!NoHeader) = h1
    <2> DEFINE s == p \o q
    <2>1. /\ Codec!readField(W, s) = [size |-> Len(p), num |-> 1, value |-> key]
          /\ Codec!readField(W, s) # Codec!Bad
      BY <1>3, <1>6, PieceFacts
    <2> HIDE DEF b, s
    <2> DEFINE n == Codec!NoHeader
    <2>2. n.offset = 0 /\ n.ok /\ n.value = <<>>
      BY DEF Codec!NoHeader
    <2> HIDE DEF n
    <2> DEFINE f == Codec!readField(W, s)
    <2>3. f.size = Len(p) /\ f.num = 1 /\ f.value = key /\ f # Codec!Bad
      BY <2>1
    <2>4. s = SubSeq(b, n.offset + 1, Len(b)) /\ n.offset # Len(b)
      BY <1>8, <1>9, <2>2 DEF s
    <2>5. f = Codec!readField(<<2, 2>>, SubSeq(b, n.offset + 1, Len(b)))
      BY <2>4 DEF W
    <2> HIDE DEF f
    <2>6. Codec!headerTurn(b, n) = [offset |-> n.offset + f.size, key |-> IF f.num = 1 THEN f.value ELSE n.key,
                                    value |-> IF f.num = 2 THEN f.value ELSE n.value, ok |-> TRUE]
      BY <2>2, <2>3, <2>4, <2>5, TurnReads
    <2>7. n.offset + Len(p) = Len(p)
      BY <1>7, <2>2
    <2>8. QED
      BY <2>2, <2>3, <2>6, <2>7 DEF n
  <1>12. Codec!headerTurn(b, h1) = h2
    <2>1. /\ Codec!readField(W, q) = [size |-> Len(q), num |-> 2, value |-> value]
          /\ Codec!readField(W, q) # Codec!Bad
      BY <1>4 DEF Piece
    <2>2. h1.offset = Len(p) /\ h1.ok /\ h1.key = key
      OBVIOUS
    <2> HIDE DEF h1, b
    <2> DEFINE f == Codec!readField(W, q)
    <2>3. f.size = Len(q) /\ f.num = 2 /\ f.value = value /\ f # Codec!Bad
      BY <2>1
    <2>4. q = SubSeq(b, h1.offset + 1, Len(b)) /\ h1.offset # Len(b)
      BY <1>8, <1>10, <2>2
    <2>5. f = Codec!readField(<<2, 2>>, SubSeq(b, h1.offset + 1, Len(b)))
      BY <2>4 DEF W
    <2> HIDE DEF f
    <2>6. Codec!headerTurn(b, h1) = [offset |-> h1.offset + f.size, key |-> IF f.num = 1 THEN f.value ELSE h1.key,
                                     value |-> IF f.num = 2 THEN f.value ELSE h1.value, ok |-> TRUE]
      <3>1. h1.ok /\ f # Codec!Bad /\ h1.offset # Len(b)
        BY <2>2, <2>3, <2>4
      <3>2. QED
        BY <3>1, <2>5, TurnReads
    <2>7. QED
      BY <1>7, <2>2, <2>3, <2>6
  <1>13. Codec!headerTurn(b, h2) = h2
    <2>1. h2.offset = Len(b)
      OBVIOUS
    <2> HIDE DEF h2, b
    <2>2. QED
      BY <2>1, TurnAtEnd
  <1>14. h2.key = key /\ h2.value = value /\ h2.ok
    OBVIOUS
  <1> HIDE DEF b, h1, h2
  <1>15. PICK f : /\ \A n \in 0 .. Len(b) : f[n] = HeaderStep(f, b, n)
                  /\ Codec!unmarshalHeader(b) = f[Len(b)]
    BY <1>7, HeaderLoop
  <1>16. f[0] = Codec!NoHeader
    BY <1>8, <1>15 DEF HeaderStep
  <1>17. ASSUME NEW n \in 0 .. Len(b) - 1 PROVE f[n + 1] = Codec!headerTurn(b, f[n])
    <2>1. n + 1 \in 0 .. Len(b) /\ n + 1 # 0 /\ (n + 1) - 1 = n
      BY <1>8
    <2>2. QED
      BY <1>15, <2>1 DEF HeaderStep
  <1>18. f[0 + 1] = h1
    BY <1>8, <1>11, <1>16, <1>17
  <1>19. f[1 + 1] = h2
    BY <1>8, <1>12, <1>17, <1>18
  <1> DEFINE G == {n \in Nat : n + 2 <= Len(b) => f[n + 2] = h2}
  <1>20. 0 \in G
    BY <1>19
  <1>21. ASSUME NEW n \in Nat, n \in G PROVE n + 1 \in G
    <2>1. SUFFICES ASSUME (n + 1) + 2 <= Len(b) PROVE f[(n + 1) + 2] = h2
      OBVIOUS
    <2>2. n + 2 \in 0 .. Len(b) - 1 /\ n + 2 <= Len(b) /\ (n + 1) + 2 = (n + 2) + 1
      BY <1>8, <2>1
    <2>3. QED
      BY <1>13, <1>17, <1>21, <2>2
  <1>22. Len(b) - 2 \in Nat /\ (Len(b) - 2) + 2 = Len(b)
    BY <1>8
  <1>23. Len(b) - 2 \in G
    BY <1>20, <1>21, <1>22, Induction
  <1>24. f[Len(b)] = h2
    BY <1>8, <1>22, <1>23
  <1>25. QED
    BY <1>5, <1>7, <1>14, <1>15, <1>24 DEF key, value

----------------------------------------------------------------------------
(* Pieces after each other: c[k] is what the first k pieces make.           *)

Flows(P, c) ==
    /\ P \in Seq(Codec!Bytes)
    /\ \A k \in 0 .. Len(P) : c[k] \in Codec!Bytes
    /\ c[0] = <<>>
    /\ \A k \in 0 .. Len(P) - 1 : c[k + 1] = c[k] \o P[k + 1]

FlatStep(f, P, n) == IF n = 1 THEN P[n] ELSE f[n - 1] \o P[n]

LEMMA FlatExists ==
    ASSUME NEW P
    PROVE  \A m \in Nat : \E f : f = [n \in 1 .. m |-> FlatStep(f, P, n)]
  <1> DEFINE T == {m \in Nat : \E f : f = [n \in 1 .. m |-> FlatStep(f, P, n)]}
  <1>1. 0 \in T
    <2> DEFINE f == [n \in 1 .. 0 |-> 0]
    <2>1. f = [n \in 1 .. 0 |-> FlatStep(f, P, n)]
      BY DEF FlatStep
    <2>2. QED
      BY <2>1
  <1>2. ASSUME NEW m \in Nat, m \in T PROVE m + 1 \in T
    <2>1. PICK f : f = [n \in 1 .. m |-> FlatStep(f, P, n)]
      BY <1>2
    <2> DEFINE g == [n \in 1 .. m + 1 |-> FlatStep(f, P, n)]
    <2>2. ASSUME NEW n \in 1 .. m + 1 PROVE g[n] = FlatStep(g, P, n)
      <3>1. CASE n = 1
        BY <3>1 DEF FlatStep
      <3>2. CASE n # 1
        <4>1. n - 1 \in 1 .. m /\ n - 1 \in 1 .. m + 1
          BY <3>2
        <4>2. g[n - 1] = FlatStep(f, P, n - 1)
          BY <4>1
        <4>3. f[n - 1] = FlatStep(f, P, n - 1)
          BY <4>1, <2>1
        <4>4. g[n - 1] = f[n - 1]
          BY <4>2, <4>3
        <4>5. g[n] = FlatStep(f, P, n)
          OBVIOUS
        <4> HIDE DEF g
        <4>6. QED
          BY <4>4, <4>5, <3>2 DEF FlatStep
      <3>3. QED
        BY <3>1, <3>2
    <2>3. g = [n \in 1 .. m + 1 |-> FlatStep(g, P, n)]
      BY <2>2
    <2>4. \E h : h = [n \in 1 .. m + 1 |-> FlatStep(h, P, n)]
      <3> HIDE DEF g
      <3>1. QED
        BY <2>3
    <2>5. QED
      BY <2>4
  <1>3. QED
    BY <1>1, <1>2, Induction

LEMMA FlatLoop ==
    ASSUME NEW P, Len(P) \in Nat, Len(P) # 0
    PROVE  \E f : /\ \A n \in 1 .. Len(P) : f[n] = FlatStep(f, P, n)
                  /\ Codec!FlattenSeq(P) = f[Len(P)]
  <1> DEFINE f == CHOOSE g : g = [n \in 1 .. Len(P) |-> FlatStep(g, P, n)]
  <1>1. f = [n \in 1 .. Len(P) |-> FlatStep(f, P, n)]
    <2>1. \E g : g = [n \in 1 .. Len(P) |-> FlatStep(g, P, n)]
      BY FlatExists
    <2>2. QED
      BY <2>1, Zenon
  <1>2. Codec!FlattenSeq(P) = f[Len(P)]
    BY DEF Codec!FlattenSeq, FlatStep
  <1> HIDE DEF f
  <1>3. \A n \in 1 .. Len(P) : f[n] = FlatStep(f, P, n)
    BY <1>1
  <1>4. QED
    BY <1>2, <1>3

LEMMA FlowExists ==
    ASSUME NEW P \in Seq(Codec!Bytes), Len(P) # 0
    PROVE  \E c : Flows(P, c) /\ Codec!FlattenSeq(P) = c[Len(P)]
  <1> DEFINE S == Codec!Bytes
  <1>0. \A x \in S, y \in S : x \o y \in S
    BY BytesJoin
  <1>e. <<>> \in S /\ \A x \in S : <<>> \o x = x
    BY WholeIs DEF Codec!Bytes
  <1> HIDE DEF S
  <1>1. Len(P) \in Nat /\ \A i \in 1 .. Len(P) : P[i] \in S
    BY ElementIs DEF S
  <1>2. PICK f : /\ \A n \in 1 .. Len(P) : f[n] = FlatStep(f, P, n)
                 /\ Codec!FlattenSeq(P) = f[Len(P)]
    BY <1>1, FlatLoop
  <1> DEFINE c == [k \in 0 .. Len(P) |-> IF k = 0 THEN <<>> ELSE f[k]]
  <1>3. c[0] = <<>> /\ \A k \in 1 .. Len(P) : c[k] = f[k]
    BY <1>1
  <1> HIDE DEF c
  <1> DEFINE G == {n \in Nat : n + 1 <= Len(P) => f[n + 1] \in S}
  <1>4. f[1] = P[1]
    BY <1>1, <1>2 DEF FlatStep
  <1>5. ASSUME NEW n \in 1 .. Len(P) - 1 PROVE f[n + 1] = f[n] \o P[n + 1]
    <2>1. n + 1 \in 1 .. Len(P) /\ n + 1 # 1 /\ (n + 1) - 1 = n
      BY <1>1
    <2>2. QED
      BY <1>2, <2>1 DEF FlatStep
  <1>6. 0 \in G
    BY <1>1, <1>4
  <1>7. ASSUME NEW n \in Nat, n \in G PROVE n + 1 \in G
    <2>1. SUFFICES ASSUME (n + 1) + 1 <= Len(P) PROVE f[(n + 1) + 1] \in S
      OBVIOUS
    <2>2. n + 1 \in 1 .. Len(P) - 1 /\ n + 1 <= Len(P) /\ (n + 1) + 1 \in 1 .. Len(P)
      BY <1>1, <2>1
    <2>3. f[(n + 1) + 1] = f[n + 1] \o P[(n + 1) + 1] /\ f[n + 1] \in S /\ P[(n + 1) + 1] \in S
      BY <1>1, <1>5, <1>7, <2>2
    <2>4. QED
      BY <1>0, <2>3
  <1>8. \A k \in 1 .. Len(P) : f[k] \in S
    <2>1. SUFFICES ASSUME NEW k \in 1 .. Len(P) PROVE f[k] \in S
      OBVIOUS
    <2>2. k - 1 \in Nat /\ (k - 1) + 1 = k /\ k <= Len(P)
      BY <1>1
    <2>3. k - 1 \in G
      BY <1>6, <1>7, <2>2, Induction
    <2>4. QED
      BY <2>2, <2>3
  <1>9. ASSUME NEW k \in 0 .. Len(P) - 1 PROVE c[k + 1] = c[k] \o P[k + 1]
    <2>0. k + 1 \in 1 .. Len(P)
      BY <1>1
    <2>1. CASE k = 0
      <3>1. c[k + 1] = P[1] /\ c[k] = <<>> /\ k + 1 = 1 /\ P[1] \in S
        BY <1>1, <1>3, <1>4, <2>0, <2>1
      <3>2. QED
        BY <1>e, <3>1
    <2>2. CASE k # 0
      <3>1. k \in 1 .. Len(P) - 1 /\ k \in 1 .. Len(P)
        BY <1>1, <2>2
      <3>2. QED
        BY <1>3, <1>5, <2>0, <3>1
    <2>3. QED
      BY <2>1, <2>2
  <1>10. \A k \in 0 .. Len(P) : c[k] \in S
    <2>1. SUFFICES ASSUME NEW k \in 0 .. Len(P) PROVE c[k] \in S
      OBVIOUS
    <2>2. CASE k = 0
      BY <1>3, <1>e, <2>2
    <2>3. CASE k # 0
      <3>1. k \in 1 .. Len(P)
        BY <1>1, <2>3
      <3>2. QED
        BY <1>3, <1>8, <3>1
    <2>4. QED
      BY <2>2, <2>3
  <1>11. Flows(P, c)
    BY <1>3, <1>9, <1>10 DEF Flows, S
  <1>12. Codec!FlattenSeq(P) = c[Len(P)]
    BY <1>1, <1>2, <1>3
  <1>13. QED
    BY <1>11, <1>12

\* The piece p lies in F behind the first a elements.
Lies(F, p, a) ==
    /\ a \in Nat /\ Len(p) \in Nat /\ Len(F) \in Nat /\ a + Len(p) <= Len(F)
    /\ \A i \in 1 .. Len(p) : F[a + i] = p[i]

\* Where the piece k + 1 lies.
LEMMA FlowAt ==
    ASSUME NEW P, NEW c, Flows(P, c), NEW k \in 0 .. Len(P) - 1
    PROVE  /\ Lies(c[Len(P)], P[k + 1], Len(c[k]))
           /\ Len(c[k + 1]) = Len(c[k]) + Len(P[k + 1])
  <1> DEFINE S == Codec!Bytes
             p == P[k + 1]
             a == Len(c[k])
  <1>1. ASSUME NEW x \in S, NEW y \in S
        PROVE  /\ Len(x) \in Nat /\ Len(y) \in Nat /\ Len(x \o y) = Len(x) + Len(y)
               /\ \A i \in 1 .. Len(x) : (x \o y)[i] = x[i]
               /\ \A i \in 1 .. Len(y) : (x \o y)[Len(x) + i] = y[i]
    BY JoinIs DEF Codec!Bytes
  <1>2. Len(P) \in Nat /\ \A i \in 1 .. Len(P) : P[i] \in S
    BY ElementIs DEF Flows
  <1> HIDE DEF S
  <1>3. /\ \A j \in 0 .. Len(P) : c[j] \in S
        /\ \A j \in 0 .. Len(P) - 1 : c[j + 1] = c[j] \o P[j + 1]
    BY DEF Flows, S
  <1>4. k + 1 \in 1 .. Len(P) /\ k \in 0 .. Len(P) /\ k + 1 \in 0 .. Len(P) /\ Len(P) \in 0 .. Len(P)
    BY <1>2
  <1>5. p \in S /\ c[k] \in S /\ c[k + 1] = c[k] \o p /\ c[k + 1] \in S /\ c[Len(P)] \in S
    BY <1>2, <1>3, <1>4
  <1>6. a \in Nat /\ Len(p) \in Nat /\ Len(c[k + 1]) = a + Len(p) /\ Len(c[Len(P)]) \in Nat
    BY <1>1, <1>5
  <1>7. \A i \in 1 .. Len(p) : c[k + 1][a + i] = p[i]
    <2> DEFINE x == c[k]
    <2> HIDE DEF p
    <2>1. x \in S /\ p \in S /\ c[k + 1] = x \o p
      BY <1>5
    <2> HIDE DEF x
    <2>2. \A i \in 1 .. Len(p) : (x \o p)[Len(x) + i] = p[i]
      BY <1>1, <2>1
    <2>3. QED
      BY <2>1, <2>2 DEF x
  <1> HIDE DEF p, a
  <1> DEFINE G == {j \in Nat : k + 1 + j <= Len(P) =>
                     /\ Len(c[k + 1 + j]) >= a + Len(p)
                     /\ \A i \in 1 .. Len(p) : c[k + 1 + j][a + i] = p[i]}
  <1>8. 0 \in G
    BY <1>4, <1>6, <1>7
  <1>9. ASSUME NEW j \in Nat, j \in G PROVE j + 1 \in G
    <2>1. SUFFICES ASSUME k + 1 + (j + 1) <= Len(P)
                   PROVE  /\ Len(c[k + 1 + (j + 1)]) >= a + Len(p)
                          /\ \A i \in 1 .. Len(p) : c[k + 1 + (j + 1)][a + i] = p[i]
      OBVIOUS
    <2> DEFINE m == k + 1 + j
    <2>2. m \in 0 .. Len(P) - 1 /\ m \in 0 .. Len(P) /\ m + 1 = k + 1 + (j + 1) /\ m <= Len(P)
          /\ m + 1 \in 1 .. Len(P)
      BY <1>2, <2>1
    <2>3. Len(c[m]) >= a + Len(p) /\ \A i \in 1 .. Len(p) : c[m][a + i] = p[i]
      BY <1>9, <2>2
    <2> HIDE DEF m
    <2> DEFINE x == c[m]
               y == P[m + 1]
               z == c[m + 1]
    <2>4. x \in S /\ y \in S /\ z = x \o y
      BY <1>2, <1>3, <2>2
    <2>5. Len(x) \in Nat /\ Len(y) \in Nat /\ Len(z) = Len(x) + Len(y) /\ \A i \in 1 .. Len(x) : z[i] = x[i]
      <3> HIDE DEF x, y, z
      <3>1. QED
        BY <1>1, <2>4
    <2>6. Len(x) >= a + Len(p) /\ \A i \in 1 .. Len(p) : x[a + i] = p[i]
      BY <2>3
    <2> HIDE DEF x, y, z
    <2>7. Len(z) >= a + Len(p) /\ \A i \in 1 .. Len(p) : z[a + i] = p[i]
      <3>1. Len(z) >= a + Len(p)
        BY <1>6, <2>5, <2>6
      <3>2. ASSUME NEW i \in 1 .. Len(p) PROVE z[a + i] = p[i]
        <4>1. a + i \in 1 .. Len(x)
          BY <1>6, <2>5, <2>6
        <4>2. z[a + i] = x[a + i]
          BY <2>5, <4>1
        <4>3. QED
          BY <2>6, <4>2
      <3>3. QED
        BY <3>1, <3>2
    <2>8. QED
      BY <2>2, <2>7 DEF z
  <1>10. Len(P) - (k + 1) \in Nat /\ k + 1 + (Len(P) - (k + 1)) = Len(P)
    BY <1>2, <1>4
  <1>11. Len(P) - (k + 1) \in G
    BY <1>8, <1>9, <1>10, Induction
  <1>12. Len(c[Len(P)]) >= a + Len(p) /\ \A i \in 1 .. Len(p) : c[Len(P)][a + i] = p[i]
    BY <1>2, <1>10, <1>11
  <1>13. QED
    BY <1>6, <1>12 DEF a, p, Lies

----------------------------------------------------------------------------
(* What the loop of Unmarshal sees of the next piece p: all of it and what  *)
(* follows, or a part of it.                                                *)

\* d is the first n elements of F, and p lies in F behind the first a.
Ahead(T, F, p, a, n, d) ==
    /\ F \in Seq(T) /\ p \in Seq(T) /\ a \in Nat /\ n \in 0 .. Len(F) /\ a <= n
    /\ Lies(F, p, a) /\ d = SubSeq(F, 1, n)

\* The sequence s starts with p; the sequence p starts with s and goes on.
Starts(T, s, p) == \E r \in Seq(T) : s = p \o r
GoesOn(T, s, p) == \E r \in Seq(T) : p = s \o r /\ Len(r) >= 1

LEMMA SeesAll ==
    ASSUME NEW T, NEW F, NEW p, NEW a, NEW n, NEW d, Ahead(T, F, p, a, n, d), a + Len(p) <= n
    PROVE  Starts(T, SubSeq(d, a + 1, Len(d)), p)
  <1> DEFINE s == SubSeq(d, a + 1, Len(d))
             m == Len(p)
             r == SubSeq(F, a + m + 1, n)
             q == p \o r
  <1> USE DEF Ahead
  <1>0. \A i \in 1 .. Len(p) : F[a + i] = p[i]
    BY DEF Lies
  <1>1. m \in Nat /\ Len(F) \in Nat /\ n \in Nat
    OBVIOUS
  <1>2. d \in Seq(T) /\ Len(d) = n /\ \A i \in 1 .. n : d[i] = F[i]
    BY CutIs
  <1>3. s \in Seq(T) /\ Len(s) = n - a /\ \A i \in 1 .. n - a : s[i] = d[a + i]
    <2>1. n <= Len(d) /\ a <= n
      BY <1>1, <1>2
    <2>2. QED
      BY <1>1, <1>2, <2>1, SliceIs
  <1>4. r \in Seq(T) /\ Len(r) = n - (a + m) /\ \A i \in 1 .. n - (a + m) : r[i] = F[a + m + i]
    <2>1. a + m \in Nat /\ a + m <= n /\ n <= Len(F)
      BY <1>1
    <2>2. QED
      BY <1>1, <2>1, SliceIs
  <1> HIDE DEF s, r
  <1>5. q \in Seq(T) /\ Len(q) = m + Len(r) /\ (\A i \in 1 .. m : q[i] = p[i])
        /\ \A i \in 1 .. Len(r) : q[m + i] = r[i]
    <2>1. r \in Seq(T)
      BY <1>4
    <2>2. QED
      BY <2>1, JoinIs
  <1> HIDE DEF q
  <1>6. Len(s) = Len(q)
    BY <1>1, <1>3, <1>4, <1>5
  <1>7. ASSUME NEW i \in 1 .. Len(s) PROVE s[i] = q[i]
    <2>1. a + i \in 1 .. n /\ s[i] = d[a + i]
      BY <1>1, <1>3
    <2>2. s[i] = F[a + i]
      BY <1>2, <2>1
    <2>3. CASE i <= m
      <3>1. i \in 1 .. m
        BY <1>1, <1>3, <2>3
      <3>2. F[a + i] = p[i] /\ q[i] = p[i]
        BY <1>0, <1>5, <3>1
      <3>3. QED
        BY <2>2, <3>2
    <2>4. CASE ~(i <= m)
      <3> DEFINE j == i - m
      <3>1. j \in 1 .. Len(r) /\ m + j = i /\ a + m + j = a + i /\ j \in 1 .. n - (a + m)
        BY <1>1, <1>3, <1>4, <2>4
      <3> HIDE DEF j
      <3>2. q[i] = r[j] /\ r[j] = F[a + m + j]
        BY <1>4, <1>5, <3>1
      <3>3. QED
        BY <2>2, <3>1, <3>2
    <2>5. QED
      BY <1>1, <1>3, <2>3, <2>4
  <1>8. s = q
    BY <1>3, <1>5, <1>6, <1>7, SameSeq
  <1>9. s = p \o r /\ r \in Seq(T)
    BY <1>4, <1>8 DEF q
  <1>10. QED
    BY <1>9 DEF s, Starts

LEMMA SeesPart ==
    ASSUME NEW T, NEW F, NEW p, NEW a, NEW n, NEW d, Ahead(T, F, p, a, n, d), n < a + Len(p)
    PROVE  SubSeq(d, a + 1, Len(d)) \in Seq(T) /\ GoesOn(T, SubSeq(d, a + 1, Len(d)), p)
  <1> DEFINE s == SubSeq(d, a + 1, Len(d))
             m == n - a
             r == SubSeq(p, m + 1, Len(p))
             q == s \o r
  <1> USE DEF Ahead
  <1>0. \A i \in 1 .. Len(p) : F[a + i] = p[i]
    BY DEF Lies
  <1>1. m \in Nat /\ Len(F) \in Nat /\ n \in Nat /\ m < Len(p) /\ Len(p) \in Nat
    OBVIOUS
  <1>2. d \in Seq(T) /\ Len(d) = n /\ \A i \in 1 .. n : d[i] = F[i]
    BY CutIs
  <1>3. s \in Seq(T) /\ Len(s) = m /\ \A i \in 1 .. m : s[i] = d[a + i]
    <2>1. n <= Len(d) /\ a <= n
      BY <1>1, <1>2
    <2>2. QED
      BY <1>1, <1>2, <2>1, SliceIs
  <1> HIDE DEF m
  <1>4. r \in Seq(T) /\ Len(r) = Len(p) - m /\ \A i \in 1 .. Len(p) - m : r[i] = p[m + i]
    <2>1. m <= Len(p) /\ Len(p) <= Len(p)
      BY <1>1
    <2>2. QED
      BY <1>1, <2>1, SliceIs
  <1> HIDE DEF s, r
  <1>5. q \in Seq(T) /\ Len(q) = Len(s) + Len(r) /\ (\A i \in 1 .. Len(s) : q[i] = s[i])
        /\ \A i \in 1 .. Len(r) : q[Len(s) + i] = r[i]
    <2>1. s \in Seq(T) /\ r \in Seq(T)
      BY <1>3, <1>4
    <2>2. QED
      BY <2>1, JoinIs
  <1> HIDE DEF q
  <1>6. Len(p) = Len(q)
    BY <1>1, <1>3, <1>4, <1>5
  <1>7. ASSUME NEW i \in 1 .. Len(p) PROVE p[i] = q[i]
    <2>1. CASE i <= m
      <3>1. i \in 1 .. m /\ a + i \in 1 .. n
        BY <1>1, <2>1 DEF m
      <3>2. q[i] = s[i] /\ s[i] = d[a + i] /\ d[a + i] = F[a + i] /\ F[a + i] = p[i]
        BY <1>0, <1>2, <1>3, <1>5, <3>1
      <3>3. QED
        BY <3>2
    <2>2. CASE ~(i <= m)
      <3> DEFINE j == i - m
      <3>1. j \in 1 .. Len(r) /\ m + j = i /\ j \in 1 .. Len(p) - m
        BY <1>1, <1>4, <2>2
      <3> HIDE DEF j
      <3>2. q[i] = r[j] /\ r[j] = p[m + j]
        BY <1>3, <1>4, <1>5, <3>1
      <3>3. QED
        BY <3>1, <3>2
    <2>3. QED
      BY <1>1, <2>1, <2>2
  <1>8. p = q
    BY <1>5, <1>6, <1>7, SameSeq
  <1>9. p = s \o r /\ r \in Seq(T) /\ Len(r) >= 1 /\ s \in Seq(T)
    BY <1>1, <1>3, <1>4, <1>8 DEF q
  <1>10. QED
    BY <1>9 DEF s, GoesOn

----------------------------------------------------------------------------
(* A script: pieces P, and the frames G that come of reading them one after *)
(* the other.                                                               *)

\* Reading the piece p turns the frame a into b.
Turns(p, a, b) ==
    \E num, value :
        /\ Piece(Codec!Wires, p, num, value)
        /\ num = 5 => Codec!unmarshalHeader(value).ok
        /\ Codec!Filled(a, num, value) = b

\* What PartialIsHonest says of a frame g, when f was sent.
Honest(g, f) ==
    /\ \A k \in DOMAIN g \ {"headers"} : g[k] \in {f[k], Codec!Empty[k]}
    /\ Codec!IsPrefix(g.headers, f.headers)

Script(P, G, f) ==
    /\ P \in Seq(Codec!Bytes) /\ Len(P) # 0
    /\ G[0] = Codec!Empty /\ G[Len(P)] = f
    /\ \A k \in 0 .. Len(P) - 1 : Turns(P[k + 1], G[k], G[k + 1])
    /\ \A k \in 0 .. Len(P) : Honest(G[k], f)

\* The field g takes the loop from the offset o and the frame a to p and b.
Takes(g, o, a, p, b) ==
    /\ g # Codec!Bad /\ ~(g.num = 5 /\ ~Codec!unmarshalHeader(g.value).ok)
    /\ o + g.size = p
    /\ Codec!Filled(a, g.num, g.value) = b

\* The next piece is there.
LEMMA NextPiece ==
    ASSUME NEW P, NEW c, Flows(P, c), NEW k \in 0 .. Len(P) - 1, NEW a, NEW b, Turns(P[k + 1], a, b),
           NEW n \in 0 .. Len(c[Len(P)]), Len(c[k + 1]) <= n, NEW d, d = SubSeq(c[Len(P)], 1, n),
           NEW g, g = Codec!readField(Codec!Wires, SubSeq(d, Len(c[k]) + 1, Len(d)))
    PROVE  Takes(g, Len(c[k]), a, Len(c[k + 1]), b)
  <1> DEFINE p == P[k + 1]
             F == c[Len(P)]
             o == Len(c[k])
  <1>1. PICK num, value :
          /\ Piece(Codec!Wires, p, num, value)
          /\ num = 5 => Codec!unmarshalHeader(value).ok
          /\ Codec!Filled(a, num, value) = b
    BY DEF Turns
  <1>l. Lies(F, p, o) /\ Len(c[k + 1]) = o + Len(p)
    BY FlowAt
  <1>2. o \in Nat /\ Len(p) \in Nat /\ Len(F) \in Nat
    BY <1>l DEF Lies
  <1>3. F \in Seq(0 .. 255) /\ p \in Seq(0 .. 255) /\ Len(p) >= 1
    <2>1. Len(P) \in 0 .. Len(P)
      BY DEF Flows
    <2>2. F \in Codec!Bytes
      BY <2>1 DEF Flows
    <2>3. QED
      BY <1>1, <2>2 DEF Piece, Codec!Bytes
  <1>4. n \in 0 .. Len(F) /\ o + Len(p) <= n /\ d = SubSeq(F, 1, n)
    BY <1>2, <1>l
  <1>a. Len(c[k]) = o /\ Len(c[k + 1]) = o + Len(p) /\ g = Codec!readField(Codec!Wires, SubSeq(d, o + 1, Len(d)))
    BY <1>2, <1>l
  <1> HIDE DEF p, F, o
  <1>5. PICK r \in Seq(0 .. 255) : SubSeq(d, o + 1, Len(d)) = p \o r
    <2> DEFINE S == 0 .. 255
    <2>1. Ahead(S, F, p, o, n, d)
      BY <1>2, <1>3, <1>4, <1>l DEF Ahead
    <2> HIDE DEF S
    <2>2. Starts(S, SubSeq(d, o + 1, Len(d)), p)
      BY <1>4, <2>1, SeesAll
    <2>3. QED
      BY <2>2 DEF S, Starts
  <1>6. r \in Codec!Bytes
    BY <1>5 DEF Codec!Bytes
  <1>7. g = [size |-> Len(p), num |-> num, value |-> value] /\ g # Codec!Bad
    <2>1. /\ Codec!readField(Codec!Wires, p \o r) = [size |-> Len(p), num |-> num, value |-> value]
          /\ Codec!readField(Codec!Wires, p \o r) # Codec!Bad
      BY <1>1, <1>6, PieceFacts
    <2>2. g = Codec!readField(Codec!Wires, p \o r)
      BY <1>5, <1>a
    <2>3. QED
      BY <2>1, <2>2
  <1>8. g.size = Len(p) /\ g.num = num /\ g.value = value
    BY <1>7
  <1>9. Len(c[k]) + g.size = Len(c[k + 1])
    BY <1>a, <1>2, <1>3, <1>4, <1>8
  <1>10. QED
    BY <1>1, <1>7, <1>8, <1>9 DEF Takes

\* A part of the next piece is there, or nothing.
LEMMA NextIsCut ==
    ASSUME NEW P, NEW c, Flows(P, c), NEW k \in 0 .. Len(P) - 1, NEW a, NEW b, Turns(P[k + 1], a, b),
           NEW n \in 0 .. Len(c[Len(P)]), Len(c[k]) <= n, n < Len(c[k + 1]), NEW d, d = SubSeq(c[Len(P)], 1, n)
    PROVE  Codec!readField(Codec!Wires, SubSeq(d, Len(c[k]) + 1, Len(d))) = Codec!Bad
  <1> DEFINE p == P[k + 1]
             F == c[Len(P)]
             o == Len(c[k])
             s == SubSeq(d, o + 1, Len(d))
  <1>1. PICK num, value : Piece(Codec!Wires, p, num, value)
    BY DEF Turns
  <1>l. Lies(F, p, o) /\ Len(c[k + 1]) = o + Len(p)
    BY FlowAt
  <1>2. o \in Nat /\ Len(p) \in Nat /\ Len(F) \in Nat
    BY <1>l DEF Lies
  <1>3. F \in Seq(0 .. 255) /\ p \in Seq(0 .. 255) /\ Len(p) >= 1
    <2>1. Len(P) \in 0 .. Len(P)
      BY DEF Flows
    <2>2. F \in Codec!Bytes
      BY <2>1 DEF Flows
    <2>3. QED
      BY <1>1, <2>2 DEF Piece, Codec!Bytes
  <1>4. n \in 0 .. Len(F) /\ o <= n /\ n < o + Len(p) /\ d = SubSeq(F, 1, n)
    BY <1>2, <1>l
  <1> HIDE DEF p, F, o
  <1>5. s \in Seq(0 .. 255) /\ \E r \in Seq(0 .. 255) : p = s \o r /\ Len(r) >= 1
    <2> DEFINE S == 0 .. 255
    <2>1. Ahead(S, F, p, o, n, d)
      BY <1>2, <1>3, <1>4, <1>l DEF Ahead
    <2> HIDE DEF S
    <2>2. s \in Seq(S) /\ GoesOn(S, s, p)
      BY <1>4, <2>1, SeesPart
    <2>3. QED
      BY <2>2 DEF S, GoesOn
  <1> HIDE DEF s
  <1>6. PICK r \in Seq(0 .. 255) : p = s \o r /\ Len(r) >= 1
    BY <1>5
  <1>7. Codec!readField(Codec!Wires, s) = Codec!Bad
    BY <1>1, <1>5, <1>6, PieceCut DEF Codec!Bytes
  <1>8. QED
    BY <1>7 DEF s, o

----------------------------------------------------------------------------
(* A script with a field more that the decoder does not know.               *)

LEMMA FilledIs ==
    ASSUME NEW to, NEW value
    PROVE  /\ Codec!Filled(to, 1, value) = [to EXCEPT !.seqID = value]
           /\ Codec!Filled(to, 2, value) = [to EXCEPT !.logID = value]
           /\ Codec!Filled(to, 3, value) = [to EXCEPT !.service = Codec!Signed(value)]
           /\ Codec!Filled(to, 4, value) = [to EXCEPT !.method = Codec!Signed(value)]
           /\ Codec!Filled(to, 6, value) = [to EXCEPT !.payloadEncoding = value]
           /\ Codec!Filled(to, 7, value) = [to EXCEPT !.payloadType = value]
           /\ Codec!Filled(to, 8, value) = [to EXCEPT !.payload = value]
           /\ Codec!Filled(to, 9, value) = [to EXCEPT !.logIDNew = value]
  BY DEF Codec!Filled

LEMMA FilledHeader ==
    ASSUME NEW to, NEW value, NEW h, h = Codec!unmarshalHeader(value)
    PROVE  Codec!Filled(to, 5, value) =
             [to EXCEPT !.headers = Append(to.headers, [key |-> h.key, value |-> h.value])]
  BY DEF Codec!Filled

LEMMA FilledOther ==
    ASSUME NEW to, NEW value, NEW num, num \notin 1 .. 9
    PROVE  Codec!Filled(to, num, value) = to
  BY DEF Codec!Filled

LEMMA InsertIs ==
    ASSUME NEW T, NEW P \in Seq(T), NEW i \in 1 .. Len(P) + 1, NEW u \in T, NEW Q, Q = Codec!InsertAt(P, i, u)
    PROVE  /\ Q \in Seq(T) /\ Len(Q) = Len(P) + 1 /\ Q[i] = u
           /\ \A k \in 1 .. Len(P) : k < i => Q[k] = P[k]
           /\ \A k \in 1 .. Len(P) : k >= i => Q[k + 1] = P[k]
  <1> DEFINE a == SubSeq(P, 1, i - 1)
             m == <<u>>
             z == SubSeq(P, i, Len(P))
             b == a \o m
             q == b \o z
  <1>1. Len(P) \in Nat /\ i - 1 \in Nat /\ i \in Nat /\ i - 1 <= Len(P) /\ (i - 1) + 1 = i
    OBVIOUS
  <1>2. a \in Seq(T) /\ Len(a) = i - 1 /\ \A k \in 1 .. i - 1 : a[k] = P[k]
    <2>1. i - 1 \in 0 .. Len(P)
      BY <1>1
    <2>2. QED
      BY <2>1, CutIs
  <1>3. z \in Seq(T) /\ Len(z) = Len(P) - (i - 1) /\ \A k \in 1 .. Len(P) - (i - 1) : z[k] = P[(i - 1) + k]
    <2> DEFINE y == SubSeq(P, (i - 1) + 1, Len(P))
    <2>1. y \in Seq(T) /\ Len(y) = Len(P) - (i - 1) /\ \A k \in 1 .. Len(P) - (i - 1) : y[k] = P[(i - 1) + k]
      <3>1. Len(P) <= Len(P)
        BY <1>1
      <3>2. QED
        BY <1>1, <3>1, SliceIs
    <2>2. z = y
      BY <1>1
    <2> HIDE DEF y, z
    <2>3. QED
      BY <2>1, <2>2
  <1>4. m \in Seq(T) /\ Len(m) = 1 /\ m[1] = u
    BY OneIs
  <1>5. Q = q
    BY DEF Codec!InsertAt
  <1> HIDE DEF a, m, z
  <1>6. b \in Seq(T) /\ Len(b) = Len(a) + Len(m) /\ (\A k \in 1 .. Len(a) : b[k] = a[k])
        /\ \A k \in 1 .. Len(m) : b[Len(a) + k] = m[k]
    <2>1. a \in Seq(T) /\ m \in Seq(T)
      BY <1>2, <1>4
    <2>2. QED
      BY <2>1, JoinIs
  <1> HIDE DEF b
  <1>7. q \in Seq(T) /\ Len(q) = Len(b) + Len(z) /\ (\A k \in 1 .. Len(b) : q[k] = b[k])
        /\ \A k \in 1 .. Len(z) : q[Len(b) + k] = z[k]
    <2>1. b \in Seq(T) /\ z \in Seq(T)
      BY <1>3, <1>6
    <2>2. QED
      BY <2>1, JoinIs
  <1> HIDE DEF q
  <1>8. Len(b) = i
    BY <1>1, <1>2, <1>4, <1>6
  <1>9. q[i] = u
    <2>1. Len(a) + 1 = i /\ 1 \in 1 .. Len(m) /\ i \in 1 .. Len(b)
      BY <1>1, <1>2, <1>4, <1>8
    <2>2. b[Len(a) + 1] = m[1]
      BY <1>6, <2>1
    <2>3. QED
      BY <1>4, <1>7, <2>1, <2>2
  <1>10. ASSUME NEW k \in 1 .. Len(P), k < i PROVE q[k] = P[k]
    <2>1. k \in 1 .. i - 1 /\ k \in 1 .. Len(a) /\ k \in 1 .. Len(b)
      BY <1>1, <1>2, <1>8, <1>10
    <2>2. QED
      BY <1>2, <1>6, <1>7, <2>1
  <1>11. ASSUME NEW k \in 1 .. Len(P), k >= i PROVE q[k + 1] = P[k]
    <2> DEFINE j == k - (i - 1)
    <2>1. j \in 1 .. Len(P) - (i - 1) /\ j \in 1 .. Len(z) /\ Len(b) + j = k + 1 /\ (i - 1) + j = k
      BY <1>1, <1>3, <1>8, <1>11
    <2> HIDE DEF j
    <2>2. q[Len(b) + j] = z[j] /\ z[j] = P[(i - 1) + j]
      BY <1>3, <1>7, <2>1
    <2>3. QED
      BY <2>1, <2>2
  <1>12. Len(q) = Len(P) + 1
    BY <1>1, <1>3, <1>7, <1>8
  <1>13. QED
    BY <1>5, <1>7, <1>9, <1>10, <1>11, <1>12

LEMMA InsertScript ==
    ASSUME NEW P, NEW G, NEW f, Script(P, G, f), NEW i \in 1 .. Len(P) + 1, NEW u, NEW num, NEW value,
           Piece(Codec!Wires, u, num, value), num \notin 1 .. 9, NEW Q, Q = Codec!InsertAt(P, i, u)
    PROVE  \E H : Script(Q, H, f)
  <1> DEFINE S == Codec!Bytes
             L == Len(P)
             H == [k \in 0 .. L + 1 |-> IF k < i THEN G[k] ELSE G[k - 1]]
  <1>1. P \in Seq(S) /\ L \in Nat /\ L # 0 /\ G[0] = Codec!Empty /\ G[L] = f
    BY DEF Script
  <1>2. /\ \A k \in 0 .. L - 1 : Turns(P[k + 1], G[k], G[k + 1])
        /\ \A k \in 0 .. L : Honest(G[k], f)
    BY DEF Script
  <1>3. u \in S
    BY DEF Piece
  <1> HIDE DEF S, L
  <1>4. /\ Q \in Seq(S) /\ Len(Q) = L + 1 /\ Q[i] = u
        /\ \A k \in 1 .. L : k < i => Q[k] = P[k]
        /\ \A k \in 1 .. L : k >= i => Q[k + 1] = P[k]
    BY <1>1, <1>3, InsertIs DEF L
  <1>a. i \in 1 .. L + 1
    BY DEF L
  <1>5. \A k \in 0 .. L + 1 : H[k] = IF k < i THEN G[k] ELSE G[k - 1]
    OBVIOUS
  <1> HIDE DEF H
  <1>6. H[0] = Codec!Empty
    <2>1. 0 < i /\ 0 \in 0 .. L + 1
      BY <1>1, <1>a
    <2>2. QED
      BY <1>1, <1>5, <2>1
  <1>7. H[L + 1] = f
    <2>1. ~(L + 1 < i) /\ L + 1 \in 0 .. L + 1 /\ (L + 1) - 1 = L
      BY <1>1, <1>a
    <2>2. QED
      BY <1>1, <1>5, <2>1
  <1>8. ASSUME NEW k \in 0 .. (L + 1) - 1 PROVE Turns(Q[k + 1], H[k], H[k + 1])
    <2>1. k \in 0 .. L + 1 /\ k + 1 \in 0 .. L + 1 /\ (k + 1) - 1 = k /\ k \in Int
      BY <1>1
    <2>2. CASE k + 1 < i
      <3>1. k < i /\ k + 1 \in 1 .. L /\ k \in 0 .. L - 1
        BY <1>1, <1>a, <2>1, <2>2
      <3>2. H[k] = G[k] /\ H[k + 1] = G[k + 1] /\ Q[k + 1] = P[k + 1]
        BY <1>4, <1>5, <2>1, <2>2, <3>1
      <3>3. QED
        BY <1>2, <3>1, <3>2
    <2>3. CASE k + 1 = i
      <3>1. k < i /\ ~(k + 1 < i)
        BY <1>1, <1>a, <2>1, <2>3
      <3>2. H[k] = G[k] /\ H[k + 1] = G[k] /\ Q[k + 1] = u
        BY <1>4, <1>5, <2>1, <2>3, <3>1
      <3>3. num # 5 /\ Codec!Filled(G[k], num, value) = G[k]
        BY FilledOther
      <3>4. Turns(u, G[k], G[k])
        BY <3>3 DEF Turns
      <3>5. QED
        BY <3>2, <3>4
    <2>4. CASE k + 1 > i
      <3>1. ~(k < i) /\ ~(k + 1 < i) /\ k \in 1 .. L /\ k - 1 \in 0 .. L - 1 /\ (k - 1) + 1 = k /\ k >= i
        BY <1>1, <1>a, <2>1, <2>4
      <3>2. H[k] = G[k - 1] /\ H[k + 1] = G[k] /\ Q[k + 1] = P[k]
        BY <1>4, <1>5, <2>1, <3>1
      <3>3. Turns(P[(k - 1) + 1], G[k - 1], G[(k - 1) + 1])
        BY <1>2, <3>1
      <3>4. QED
        BY <3>1, <3>2, <3>3
    <2>5. QED
      BY <1>1, <1>a, <2>1, <2>2, <2>3, <2>4
  <1>9. ASSUME NEW k \in 0 .. L + 1 PROVE Honest(H[k], f)
    <2>1. CASE k < i
      <3>1. k \in 0 .. L /\ H[k] = G[k]
        BY <1>1, <1>5, <1>a, <2>1
      <3>2. QED
        BY <1>2, <3>1
    <2>2. CASE ~(k < i)
      <3>1. k - 1 \in 0 .. L /\ H[k] = G[k - 1]
        BY <1>1, <1>5, <1>a, <2>2
      <3>2. QED
        BY <1>2, <3>1
    <2>3. QED
      BY <2>1, <2>2
  <1>10. Len(Q) # 0
    BY <1>1, <1>4
  <1>11. Script(Q, H, f)
    BY <1>4, <1>6, <1>7, <1>8, <1>9, <1>10 DEF Script, S
  <1>12. QED
    BY <1>11

----------------------------------------------------------------------------
(* The script of the fields of a frame.                                     *)

\* What the code's types say of a frame.
LEMMA FrameFacts ==
    ASSUME Codec!ConstantsAreFrames, NEW f \in Frames
    PROVE  /\ f = [seqID |-> f.seqID, logID |-> f.logID, service |-> f.service, method |-> f.method,
                   headers |-> f.headers, payloadEncoding |-> f.payloadEncoding,
                   payloadType |-> f.payloadType, payload |-> f.payload, logIDNew |-> f.logIDNew]
           /\ f.seqID \in 0 .. Largest /\ f.logID \in 0 .. Largest
           /\ f.service \in Codec!Signeds /\ f.method \in Codec!Signeds
           /\ f.headers \in Seq([key : Codec!Bytes, value : Codec!Bytes])
           /\ f.payloadEncoding \in Codec!Bytes /\ Len(f.payloadEncoding) <= Largest
           /\ f.payloadType \in Codec!Bytes /\ Len(f.payloadType) <= Largest
           /\ (f.payload # None => f.payload \in Codec!Bytes /\ Len(f.payload) <= Largest)
           /\ f.logIDNew \in Codec!Bytes /\ Len(f.logIDNew) <= Largest
  <1> DEFINE B == Codec!Bytes
             S == Codec!Signeds
             R == 0 .. Largest
             Q == Seq([key : Codec!Bytes, value : Codec!Bytes])
             U == Codec!Bytes \cup {None}
  <1>1. f \in [seqID : R, logID : R, service : S, method : S, headers : Q, payloadEncoding : B,
               payloadType : B, payload : U, logIDNew : B]
    <2>1. f \in Codec!FrameType
      BY DEF Codec!ConstantsAreFrames
    <2>2. QED
      BY <2>1, Zenon DEF Codec!FrameType
  <1>2. /\ Len(f.payloadEncoding) <= Largest /\ Len(f.payloadType) <= Largest
        /\ Len(f.logIDNew) <= Largest /\ (f.payload # None => Len(f.payload) <= Largest)
    <2>1. Codec!Fits(f)
      BY DEF Codec!ConstantsAreFrames
    <2>2. QED
      BY <2>1 DEF Codec!Fits
  <1> HIDE DEF B, S, R, Q, U
  <1>3. /\ f = [seqID |-> f.seqID, logID |-> f.logID, service |-> f.service, method |-> f.method,
                headers |-> f.headers, payloadEncoding |-> f.payloadEncoding,
                payloadType |-> f.payloadType, payload |-> f.payload, logIDNew |-> f.logIDNew]
        /\ f.seqID \in R /\ f.logID \in R /\ f.service \in S /\ f.method \in S /\ f.headers \in Q
        /\ f.payloadEncoding \in B /\ f.payloadType \in B /\ f.payload \in U /\ f.logIDNew \in B
    BY <1>1
  <1>4. f.payload # None => f.payload \in B
    BY <1>3 DEF B, U
  <1>5. QED
    BY <1>2, <1>3, <1>4 DEF B, S, R, Q

LEMMA HeaderFacts ==
    ASSUME Codec!ConstantsAreFrames, NEW f \in Frames, NEW i \in 1 .. Len(f.headers)
    PROVE  /\ f.headers[i] = [key |-> f.headers[i].key, value |-> f.headers[i].value]
           /\ f.headers[i].key \in Codec!Bytes /\ f.headers[i].value \in Codec!Bytes
           /\ Len(f.headers[i].key) <= Largest /\ Len(f.headers[i].value) <= Largest
           /\ Len(Codec!marshalHeader(f.headers[i])) <= Largest
  <1> DEFINE B == Codec!Bytes
             R == [key : B, value : B]
             h == f.headers[i]
  <1>1. f.headers \in Seq(R)
    BY FrameFacts
  <1>2. h \in R /\ DOMAIN f.headers = 1 .. Len(f.headers)
    <2> HIDE DEF R
    <2>1. QED
      BY <1>1, ElementIs
  <1>3. Len(h.key) <= Largest /\ Len(h.value) <= Largest /\ Len(Codec!marshalHeader(h)) <= Largest
    <2>1. Codec!Fits(f)
      BY DEF Codec!ConstantsAreFrames
    <2>2. QED
      BY <1>2, <2>1 DEF Codec!Fits
  <1> HIDE DEF B, h
  <1>4. h = [key |-> h.key, value |-> h.value] /\ h.key \in B /\ h.value \in B
    BY <1>2
  <1>5. QED
    BY <1>3, <1>4 DEF h, B

\* The sign comes back.
LEMMA SignedIs ==
    ASSUME Codec!ConstantsAreFrames, NEW s \in Codec!Signeds
    PROVE  s % Word \in 0 .. Largest /\ Codec!Signed(s % Word) = s
  <1> DEFINE W == Word
             K == Word \div 2
             m == s % Word
  <1>1. K \in Nat /\ W = 2 * K /\ W - 1 \in 0 .. Largest /\ Largest \in Nat
    BY SMT DEF Codec!ConstantsAreFrames
  <1>2. s \in -K .. K - 1
    BY SMT DEF Codec!Signeds
  <1>3. Codec!Signed(m) = IF m % W < K THEN m % W ELSE (m % W) - W
    BY SMT DEF Codec!Signed
  <1> HIDE DEF K
  <1>4. W \in Nat /\ W >= 1 /\ s \in Int /\ s >= -K /\ s < K
    BY <1>1, <1>2, SMT
  <1>5. CASE s >= 0
    <2>1. m = s
      BY <1>1, <1>4, <1>5, SMT
    <2>2. m % W = s
      BY <1>1, <1>4, <1>5, <2>1, SMT
    <2>3. QED
      BY <1>1, <1>3, <1>4, <1>5, <2>1, <2>2, SMT
  <1>6. CASE s < 0
    <2>1. m = s + W
      BY <1>1, <1>4, <1>6, SMT
    <2> HIDE DEF m
    <2>2. m % W = m
      BY <1>1, <1>4, <1>6, <2>1, SMT
    <2>3. QED
      BY <1>1, <1>3, <1>4, <1>6, <2>1, <2>2, SMT DEF m
  <1>7. QED
    BY <1>4, <1>5, <1>6, SMT

LEMMA WiresAre ==
    /\ DOMAIN Codec!Wires = 1 .. 9
    /\ \A i \in 1 .. 4 : Codec!Wires[i] = 0
    /\ \A i \in 5 .. 9 : Codec!Wires[i] = 2
  BY DEF Codec!Wires

\* The pieces of a frame.
LEMMA FramePieces ==
    ASSUME Codec!ConstantsAreFrames, NEW f \in Frames
    PROVE  /\ Piece(Codec!Wires, <<8>> \o Codec!encodeVarint[f.seqID], 1, f.seqID)
           /\ Piece(Codec!Wires, <<16>> \o Codec!encodeVarint[f.logID], 2, f.logID)
           /\ Piece(Codec!Wires, <<24>> \o Codec!encodeVarint[f.service % Word], 3, f.service % Word)
           /\ Piece(Codec!Wires, <<32>> \o Codec!encodeVarint[f.method % Word], 4, f.method % Word)
           /\ Piece(Codec!Wires, <<50>> \o Codec!Block(f.payloadEncoding), 6, f.payloadEncoding)
           /\ Piece(Codec!Wires, <<58>> \o Codec!Block(f.payloadType), 7, f.payloadType)
           /\ f.payload # None => Piece(Codec!Wires, <<66>> \o Codec!Block(f.payload), 8, f.payload)
           /\ Piece(Codec!Wires, <<74>> \o Codec!Block(f.logIDNew), 9, f.logIDNew)
  <1> DEFINE W == Codec!Wires
  <1>w. /\ 1 \in DOMAIN W /\ 2 \in DOMAIN W /\ 3 \in DOMAIN W /\ 4 \in DOMAIN W /\ 6 \in DOMAIN W
        /\ 7 \in DOMAIN W /\ 8 \in DOMAIN W /\ 9 \in DOMAIN W
        /\ W[1] = 0 /\ W[2] = 0 /\ W[3] = 0 /\ W[4] = 0 /\ W[6] = 2 /\ W[7] = 2 /\ W[8] = 2 /\ W[9] = 2
    BY WiresAre
  <1> HIDE DEF W
  <1>n. ASSUME NEW t \in 0 .. 127, t % 8 = 0, NEW v \in 0 .. Largest, t \div 8 \in DOMAIN W, W[t \div 8] = 0
        PROVE  Piece(W, <<t>> \o Codec!encodeVarint[v], t \div 8, v)
    BY <1>n, NumberPiece
  <1>b. ASSUME NEW t \in 0 .. 127, t % 8 = 2, NEW d \in Codec!Bytes, Len(d) <= Largest,
               t \div 8 \in DOMAIN W, W[t \div 8] = 2
        PROVE  Piece(W, <<t>> \o Codec!Block(d), t \div 8, d)
    BY <1>b, BlockPiece
  <1>1. Piece(W, <<8>> \o Codec!encodeVarint[f.seqID], 1, f.seqID)
    <2>1. 8 \in 0 .. 127 /\ 8 % 8 = 0 /\ 8 \div 8 = 1 /\ f.seqID \in 0 .. Largest
      BY FrameFacts
    <2>2. QED
      BY <1>w, <1>n, <2>1
  <1>2. Piece(W, <<16>> \o Codec!encodeVarint[f.logID], 2, f.logID)
    <2>1. 16 \in 0 .. 127 /\ 16 % 8 = 0 /\ 16 \div 8 = 2 /\ f.logID \in 0 .. Largest
      BY FrameFacts
    <2>2. QED
      BY <1>w, <1>n, <2>1
  <1>3. Piece(W, <<24>> \o Codec!encodeVarint[f.service % Word], 3, f.service % Word)
    <2>0. f.service \in Codec!Signeds
      BY FrameFacts
    <2>1. 24 \in 0 .. 127 /\ 24 % 8 = 0 /\ 24 \div 8 = 3 /\ f.service % Word \in 0 .. Largest
      BY <2>0, SignedIs
    <2>2. QED
      BY <1>w, <1>n, <2>1
  <1>4. Piece(W, <<32>> \o Codec!encodeVarint[f.method % Word], 4, f.method % Word)
    <2>0. f.method \in Codec!Signeds
      BY FrameFacts
    <2>1. 32 \in 0 .. 127 /\ 32 % 8 = 0 /\ 32 \div 8 = 4 /\ f.method % Word \in 0 .. Largest
      BY <2>0, SignedIs
    <2>2. QED
      BY <1>w, <1>n, <2>1
  <1>6. Piece(W, <<50>> \o Codec!Block(f.payloadEncoding), 6, f.payloadEncoding)
    <2>1. 50 \in 0 .. 127 /\ 50 % 8 = 2 /\ 50 \div 8 = 6
          /\ f.payloadEncoding \in Codec!Bytes /\ Len(f.payloadEncoding) <= Largest
      BY FrameFacts
    <2>2. QED
      BY <1>w, <1>b, <2>1
  <1>7. Piece(W, <<58>> \o Codec!Block(f.payloadType), 7, f.payloadType)
    <2>1. 58 \in 0 .. 127 /\ 58 % 8 = 2 /\ 58 \div 8 = 7
          /\ f.payloadType \in Codec!Bytes /\ Len(f.payloadType) <= Largest
      BY FrameFacts
    <2>2. QED
      BY <1>w, <1>b, <2>1
  <1>8. ASSUME f.payload # None PROVE Piece(W, <<66>> \o Codec!Block(f.payload), 8, f.payload)
    <2>1. 66 \in 0 .. 127 /\ 66 % 8 = 2 /\ 66 \div 8 = 8
          /\ f.payload \in Codec!Bytes /\ Len(f.payload) <= Largest
      BY <1>8, FrameFacts
    <2>2. QED
      BY <1>w, <1>b, <2>1
  <1>9. Piece(W, <<74>> \o Codec!Block(f.logIDNew), 9, f.logIDNew)
    <2>1. 74 \in 0 .. 127 /\ 74 % 8 = 2 /\ 74 \div 8 = 9
          /\ f.logIDNew \in Codec!Bytes /\ Len(f.logIDNew) <= Largest
      BY FrameFacts
    <2>2. QED
      BY <1>w, <1>b, <2>1
  <1>10. QED
    BY <1>1, <1>2, <1>3, <1>4, <1>6, <1>7, <1>8, <1>9 DEF W

LEMMA HeaderPiece ==
    ASSUME Codec!ConstantsAreFrames, NEW f \in Frames, NEW i \in 1 .. Len(f.headers), NEW b,
           b = Codec!marshalHeader(f.headers[i])
    PROVE  /\ Piece(Codec!Wires, <<42>> \o Codec!Block(b), 5, b)
           /\ Codec!unmarshalHeader(b).key = f.headers[i].key
           /\ Codec!unmarshalHeader(b).value = f.headers[i].value
           /\ Codec!unmarshalHeader(b).ok
  <1> DEFINE W == Codec!Wires
             h == f.headers[i]
  <1>1. /\ h.key \in Codec!Bytes /\ h.value \in Codec!Bytes
        /\ Len(h.key) <= Largest /\ Len(h.value) <= Largest /\ Len(b) <= Largest
    BY HeaderFacts
  <1>2. b = Codec!marshalHeader(h)
    OBVIOUS
  <1> HIDE DEF h, W
  <1>3. /\ b \in Codec!Bytes /\ Codec!unmarshalHeader(b).key = h.key
        /\ Codec!unmarshalHeader(b).value = h.value /\ Codec!unmarshalHeader(b).ok
    BY <1>1, <1>2, HeaderRoundTrip
  <1>4. 42 \in 0 .. 127 /\ 42 % 8 = 2 /\ 42 \div 8 = 5 /\ 5 \in DOMAIN W /\ W[5] = 2
    BY WiresAre DEF W
  <1>5. Piece(W, <<42>> \o Codec!Block(b), 42 \div 8, b)
    BY <1>1, <1>3, <1>4, BlockPiece
  <1>6. QED
    BY <1>3, <1>4, <1>5 DEF W, h

\* The sequence u is s and then t.
Joined(s, t, u) ==
    /\ Len(u) = Len(s) + Len(t)
    /\ \A i \in 1 .. Len(s) : u[i] = s[i]
    /\ \A i \in 1 .. Len(t) : u[Len(s) + i] = t[i]

LEMMA JoinedIs ==
    ASSUME NEW T, NEW s \in Seq(T), NEW t \in Seq(T)
    PROVE  s \o t \in Seq(T) /\ Joined(s, t, s \o t)
  BY JoinIs DEF Joined

\* The parts of a frame's fields: the numbers A, the headers B, encoding and
\* type C, the payload D if there is one, and the new log id E.
Parts(P, A, B, C, D, E) ==
    /\ Len(P) = 7 + Len(B) + Len(D)
    /\ \A i \in 1 .. 4 : P[i] = A[i]
    /\ \A i \in 1 .. Len(B) : P[4 + i] = B[i]
    /\ \A i \in 1 .. 2 : P[4 + Len(B) + i] = C[i]
    /\ \A i \in 1 .. Len(D) : P[6 + Len(B) + i] = D[i]
    /\ P[7 + Len(B) + Len(D)] = E[1]

LEMMA FiveParts ==
    ASSUME NEW T, NEW A \in Seq(T), Len(A) = 4, NEW B \in Seq(T), NEW C \in Seq(T), Len(C) = 2,
           NEW D \in Seq(T), NEW E \in Seq(T), Len(E) = 1
    PROVE  A \o B \o C \o D \o E \in Seq(T) /\ Parts(A \o B \o C \o D \o E, A, B, C, D, E)
  <1> DEFINE AB == A \o B
             AC == AB \o C
             AD == AC \o D
  <1>0. Len(A) \in Nat /\ Len(B) \in Nat /\ Len(C) \in Nat /\ Len(D) \in Nat /\ Len(E) \in Nat
    OBVIOUS
  <1> DEFINE P == AD \o E
  <1>1. AB \in Seq(T) /\ Joined(A, B, AB)
    BY JoinedIs
  <1> HIDE DEF AB
  <1>2. AC \in Seq(T) /\ Joined(AB, C, AC)
    BY <1>1, JoinedIs
  <1> HIDE DEF AC
  <1>3. AD \in Seq(T) /\ Joined(AC, D, AD)
    BY <1>2, JoinedIs
  <1> HIDE DEF AD
  <1>4. P \in Seq(T) /\ Joined(AD, E, P)
    BY <1>3, JoinedIs
  <1> HIDE DEF P
  <1> USE DEF Joined
  <1>5. Len(AC) = 6 + Len(B) /\ Len(AD) = 6 + Len(B) + Len(D) /\ Len(P) = 7 + Len(B) + Len(D)
    BY <1>0, <1>1, <1>2, <1>3, <1>4
  <1>6. ASSUME NEW i \in 1 .. 4 PROVE P[i] = A[i]
    <2>1. i \in 1 .. Len(A) /\ i \in 1 .. Len(AB) /\ i \in 1 .. Len(AC) /\ i \in 1 .. Len(AD)
      BY <1>0, <1>1, <1>5
    <2>2. P[i] = AD[i] /\ AD[i] = AC[i] /\ AC[i] = AB[i] /\ AB[i] = A[i]
      BY <1>1, <1>2, <1>3, <1>4, <2>1
    <2>3. QED
      BY <2>2
  <1>7. ASSUME NEW i \in 1 .. Len(B) PROVE P[4 + i] = B[i]
    <2>1. 4 + i = Len(A) + i /\ 4 + i \in 1 .. Len(AB) /\ 4 + i \in 1 .. Len(AC) /\ 4 + i \in 1 .. Len(AD)
      BY <1>0, <1>1, <1>5
    <2>2. P[4 + i] = AD[4 + i] /\ AD[4 + i] = AC[4 + i] /\ AC[4 + i] = AB[4 + i]
      BY <1>2, <1>3, <1>4, <2>1
    <2>3. AB[Len(A) + i] = B[i]
      BY <1>1
    <2>4. QED
      BY <2>1, <2>2, <2>3
  <1>8. ASSUME NEW i \in 1 .. 2 PROVE P[4 + Len(B) + i] = C[i]
    <2> DEFINE j == 4 + Len(B) + i
    <2>1. j = Len(AB) + i /\ i \in 1 .. Len(C) /\ j \in 1 .. Len(AC) /\ j \in 1 .. Len(AD)
      BY <1>0, <1>1, <1>5
    <2> HIDE DEF j
    <2>2. P[j] = AD[j] /\ AD[j] = AC[j] /\ AC[Len(AB) + i] = C[i]
      BY <1>2, <1>3, <1>4, <2>1
    <2>3. QED
      BY <2>1, <2>2 DEF j
  <1>9. ASSUME NEW i \in 1 .. Len(D) PROVE P[6 + Len(B) + i] = D[i]
    <2> DEFINE j == 6 + Len(B) + i
    <2>1. j = Len(AC) + i /\ j \in 1 .. Len(AD)
      BY <1>0, <1>5
    <2> HIDE DEF j
    <2>2. P[j] = AD[j] /\ AD[Len(AC) + i] = D[i]
      BY <1>3, <1>4, <2>1
    <2>3. QED
      BY <2>1, <2>2 DEF j
  <1>10. P[7 + Len(B) + Len(D)] = E[1]
    <2>1. 7 + Len(B) + Len(D) = Len(AD) + 1 /\ 1 \in 1 .. Len(E)
      BY <1>0, <1>5
    <2>2. P[Len(AD) + 1] = E[1]
      BY <1>4, <2>1
    <2>3. QED
      BY <2>1, <2>2
  <1>11. QED
    BY <1>4, <1>5, <1>6, <1>7, <1>8, <1>9, <1>10 DEF Parts, P, AD, AC, AB

\* How many fields a frame has.
Size(f) == IF f.payload = None THEN Len(f.headers) + 7 ELSE Len(f.headers) + 8

\* What a frame's fields are.
FieldsOf(P, f) ==
    /\ P \in Seq(Codec!Bytes) /\ Len(P) = Size(f)
    /\ P[1] = <<8>> \o Codec!encodeVarint[f.seqID]
    /\ P[2] = <<16>> \o Codec!encodeVarint[f.logID]
    /\ P[3] = <<24>> \o Codec!encodeVarint[f.service % Word]
    /\ P[4] = <<32>> \o Codec!encodeVarint[f.method % Word]
    /\ \A i \in 1 .. Len(f.headers) : P[4 + i] = <<42>> \o Codec!Block(Codec!marshalHeader(f.headers[i]))
    /\ P[Len(f.headers) + 5] = <<50>> \o Codec!Block(f.payloadEncoding)
    /\ P[Len(f.headers) + 6] = <<58>> \o Codec!Block(f.payloadType)
    /\ f.payload # None => P[Len(f.headers) + 7] = <<66>> \o Codec!Block(f.payload)
    /\ P[Size(f)] = <<74>> \o Codec!Block(f.logIDNew)

LEMMA FourIs ==
    ASSUME NEW T, NEW a \in T, NEW b \in T, NEW c \in T, NEW d \in T
    PROVE  <<a, b, c, d>> \in Seq(T) /\ Len(<<a, b, c, d>>) = 4
           /\ <<a, b, c, d>>[1] = a /\ <<a, b, c, d>>[2] = b /\ <<a, b, c, d>>[3] = c /\ <<a, b, c, d>>[4] = d
  OBVIOUS

LEMMA TwoIs ==
    ASSUME NEW T, NEW a \in T, NEW b \in T
    PROVE  <<a, b>> \in Seq(T) /\ Len(<<a, b>>) = 2 /\ <<a, b>>[1] = a /\ <<a, b>>[2] = b
  OBVIOUS

LEMMA MapIs ==
    ASSUME NEW T, NEW n \in Nat, NEW g, \A i \in 1 .. n : g[i] \in T, g = [i \in 1 .. n |-> g[i]]
    PROVE  g \in Seq(T) /\ Len(g) = n
  OBVIOUS

LEMMA FieldsAre ==
    ASSUME Codec!ConstantsAreFrames, NEW f \in Frames
    PROVE  FieldsOf(Codec!Fields(f), f)
  <1> DEFINE T == Codec!Bytes
             H == Len(f.headers)
             p1 == <<8>> \o Codec!encodeVarint[f.seqID]
             p2 == <<16>> \o Codec!encodeVarint[f.logID]
             p3 == <<24>> \o Codec!encodeVarint[f.service % Word]
             p4 == <<32>> \o Codec!encodeVarint[f.method % Word]
             p6 == <<50>> \o Codec!Block(f.payloadEncoding)
             p7 == <<58>> \o Codec!Block(f.payloadType)
             p8 == <<66>> \o Codec!Block(f.payload)
             p9 == <<74>> \o Codec!Block(f.logIDNew)
             A == <<p1, p2, p3, p4>>
             B == [i \in DOMAIN f.headers |-> <<42>> \o Codec!Block(Codec!marshalHeader(f.headers[i]))]
             C == <<p6, p7>>
             D == IF f.payload = None THEN <<>> ELSE <<p8>>
             E == <<p9>>
             P == Codec!Fields(f)
  <1>1. P = A \o B \o C \o D \o E
    BY DEF Codec!Fields
  <1>2. /\ p1 \in T /\ p2 \in T /\ p3 \in T /\ p4 \in T /\ p6 \in T /\ p7 \in T /\ p9 \in T
        /\ f.payload # None => p8 \in T
    BY FramePieces DEF Piece
  <1>3. H \in Nat /\ DOMAIN f.headers = 1 .. H
    <2> DEFINE R == [key : Codec!Bytes, value : Codec!Bytes]
    <2>1. f.headers \in Seq(R)
      BY FrameFacts
    <2> HIDE DEF R
    <2>2. QED
      BY <2>1
  <1>4. \A i \in 1 .. H : B[i] = <<42>> \o Codec!Block(Codec!marshalHeader(f.headers[i])) /\ B[i] \in T
    BY <1>3, HeaderPiece DEF Piece
  <1>5. B \in Seq(T) /\ Len(B) = H
    <2>1. B = [i \in 1 .. H |-> B[i]]
      BY <1>3
    <2> HIDE DEF B, T, H
    <2>2. QED
      BY <1>3, <1>4, <2>1, MapIs
  <1> HIDE DEF p1, p2, p3, p4, p6, p7, p8, p9, B, T, H
  <1>6. A \in Seq(T) /\ Len(A) = 4 /\ A[1] = p1 /\ A[2] = p2 /\ A[3] = p3 /\ A[4] = p4
    BY <1>2, FourIs
  <1>7. C \in Seq(T) /\ Len(C) = 2 /\ C[1] = p6 /\ C[2] = p7
    BY <1>2, TwoIs
  <1>8. E \in Seq(T) /\ Len(E) = 1 /\ E[1] = p9
    BY <1>2, OneIs
  <1>9. D \in Seq(T) /\ (f.payload = None => Len(D) = 0) /\ (f.payload # None => Len(D) = 1 /\ D[1] = p8)
    BY <1>2, OneIs
  <1> HIDE DEF A, C, D, E, P
  <1>p. P \in Seq(T) /\ Parts(P, A, B, C, D, E)
    <2>1. A \in Seq(T) /\ B \in Seq(T) /\ C \in Seq(T) /\ D \in Seq(T) /\ E \in Seq(T)
          /\ Len(A) = 4 /\ Len(C) = 2 /\ Len(E) = 1
      BY <1>5, <1>6, <1>7, <1>8, <1>9
    <2> DEFINE Z == A \o B \o C \o D \o E
    <2>2. Z \in Seq(T) /\ Parts(Z, A, B, C, D, E)
      BY <2>1, FiveParts
    <2>3. P = Z
      BY <1>1
    <2> HIDE DEF Z
    <2>4. QED
      BY <2>2, <2>3
  <1>10. /\ P \in Seq(T) /\ Len(P) = 7 + Len(B) + Len(D)
         /\ \A i \in 1 .. 4 : P[i] = A[i]
         /\ \A i \in 1 .. Len(B) : P[4 + i] = B[i]
         /\ \A i \in 1 .. 2 : P[4 + Len(B) + i] = C[i]
         /\ \A i \in 1 .. Len(D) : P[6 + Len(B) + i] = D[i]
         /\ P[7 + Len(B) + Len(D)] = E[1]
    BY <1>p DEF Parts
  <1>11. 7 + Len(B) + Len(D) = Size(f) /\ Len(D) \in 0 .. 1
    <2>1. CASE f.payload = None
      BY <1>3, <1>5, <1>9, <2>1 DEF Size, H
    <2>2. CASE f.payload # None
      <3>1. Len(D) = 1
        BY <1>9, <2>2
      <3>2. Size(f) = H + 8
        BY <2>2 DEF Size, H
      <3>3. QED
        BY <1>3, <1>5, <3>1, <3>2
    <2>3. QED
      BY <2>1, <2>2
  <1>12. P[1] = p1 /\ P[2] = p2 /\ P[3] = p3 /\ P[4] = p4
    BY <1>6, <1>10
  <1>13. P[H + 5] = p6 /\ P[H + 6] = p7
    <2>1. 4 + H + 1 = H + 5 /\ 4 + H + 2 = H + 6
      BY <1>3
    <2>2. P[4 + H + 1] = C[1] /\ P[4 + H + 2] = C[2]
      BY <1>5, <1>10
    <2>3. QED
      BY <1>7, <2>1, <2>2
  <1>14. ASSUME f.payload # None PROVE P[H + 7] = p8
    <2>1. 6 + H + 1 = H + 7 /\ 1 \in 1 .. Len(D)
      BY <1>3, <1>9, <1>14
    <2>2. P[6 + H + 1] = D[1]
      BY <1>5, <1>10, <2>1
    <2>3. QED
      BY <1>9, <1>14, <2>1, <2>2
  <1>15. \A i \in 1 .. H : P[4 + i] = <<42>> \o Codec!Block(Codec!marshalHeader(f.headers[i]))
    <2>1. SUFFICES ASSUME NEW i \in 1 .. H PROVE P[4 + i] = B[i]
      BY <1>4
    <2>2. QED
      BY <1>5, <1>10
  <1>16. P[Size(f)] = p9 /\ Len(P) = Size(f)
    BY <1>8, <1>10, <1>11
  <1>17. QED
    BY <1>10, <1>12, <1>13, <1>14, <1>15, <1>16 DEF FieldsOf, T, H, P, p1, p2, p3, p4, p6, p7, p8, p9

\* How many headers have been read after k fields.
Heads(f, k) == IF k < 4 THEN 0 ELSE IF k < 4 + Len(f.headers) THEN k - 4 ELSE Len(f.headers)

\* The frame f after its first k fields.
Got(f, k) ==
    [seqID |-> IF k < 1 THEN 0 ELSE f.seqID,
     logID |-> IF k < 2 THEN 0 ELSE f.logID,
     service |-> IF k < 3 THEN 0 ELSE f.service,
     method |-> IF k < 4 THEN 0 ELSE f.method,
     headers |-> SubSeq(f.headers, 1, Heads(f, k)),
     payloadEncoding |-> IF k < Len(f.headers) + 5 THEN <<>> ELSE f.payloadEncoding,
     payloadType |-> IF k < Len(f.headers) + 6 THEN <<>> ELSE f.payloadType,
     payload |-> IF k < Len(f.headers) + 7 THEN None ELSE f.payload,
     logIDNew |-> IF k < Size(f) THEN <<>> ELSE f.logIDNew]

LEMMA HeadersAre ==
    ASSUME Codec!ConstantsAreFrames, NEW f \in Frames
    PROVE  /\ Len(f.headers) \in Nat /\ SubSeq(f.headers, 1, 0) = <<>>
           /\ SubSeq(f.headers, 1, Len(f.headers)) = f.headers
           /\ \A m \in 0 .. Len(f.headers) : Codec!IsPrefix(SubSeq(f.headers, 1, m), f.headers)
           /\ \A i \in 1 .. Len(f.headers) :
                Append(SubSeq(f.headers, 1, i - 1), f.headers[i]) = SubSeq(f.headers, 1, i)
  <1> DEFINE R == [key : Codec!Bytes, value : Codec!Bytes]
             h == f.headers
  <1>1. h \in Seq(R)
    BY FrameFacts
  <1> HIDE DEF R, h
  <1>2. Len(h) \in Nat /\ SubSeq(h, 1, 0) = <<>> /\ SubSeq(h, 1, Len(h)) = h
    BY <1>1
  <1>3. ASSUME NEW m \in 0 .. Len(h) PROVE Codec!IsPrefix(SubSeq(h, 1, m), h)
    <2> DEFINE s == SubSeq(h, 1, m)
    <2>1. s \in Seq(R) /\ Len(s) = m
      BY <1>1, CutIs
    <2>2. SubSeq(h, 1, m) = s
      OBVIOUS
    <2> HIDE DEF s
    <2>3. SubSeq(s, 1, Len(s)) = s
      BY <2>1, WholeIs
    <2>4. Len(s) <= Len(h) /\ SubSeq(s, 1, Len(s)) = SubSeq(h, 1, Len(s))
      BY <1>2, <2>1, <2>2, <2>3
    <2>5. Codec!IsPrefix(s, h)
      BY <2>4 DEF Codec!IsPrefix
    <2>6. QED
      BY <2>5 DEF s
  <1>4. ASSUME NEW i \in 1 .. Len(h) PROVE Append(SubSeq(h, 1, i - 1), h[i]) = SubSeq(h, 1, i)
    BY <1>1
  <1>5. QED
    BY <1>2, <1>3, <1>4 DEF h

LEMMA GotEnds ==
    ASSUME Codec!ConstantsAreFrames, NEW f \in Frames
    PROVE  Got(f, 0) = Codec!Empty /\ Got(f, Size(f)) = f
  <1> DEFINE H == Len(f.headers)
  <1>1. H \in Nat /\ SubSeq(f.headers, 1, 0) = <<>> /\ SubSeq(f.headers, 1, H) = f.headers
    BY HeadersAre
  <1>2. Size(f) = IF f.payload = None THEN H + 7 ELSE H + 8
    BY DEF Size
  <1>3. Heads(f, 0) = 0
    BY DEF Heads
  <1>4. Heads(f, Size(f)) = H
    BY <1>1, <1>2 DEF Heads
  <1>5. Size(f) \in Nat /\ Size(f) >= H + 7
    BY <1>1, <1>2
  <1> HIDE DEF H
  <1>6. Got(f, 0) = Codec!Empty
    <2>1. 0 < H + 5 /\ 0 < H + 6 /\ 0 < H + 7 /\ 0 < Size(f)
      BY <1>1, <1>5
    <2>2. QED
      BY <1>1, <1>3, <2>1 DEF Got, Codec!Empty, H
  <1>7. Got(f, Size(f)) = [seqID |-> f.seqID, logID |-> f.logID, service |-> f.service, method |-> f.method,
                   headers |-> f.headers, payloadEncoding |-> f.payloadEncoding,
                   payloadType |-> f.payloadType, payload |-> f.payload, logIDNew |-> f.logIDNew]
    <2> DEFINE k == Size(f)
    <2>1. ~(k < 1) /\ ~(k < 2) /\ ~(k < 3) /\ ~(k < 4) /\ ~(k < H + 5) /\ ~(k < H + 6)
          /\ ~(k < H + 7) /\ ~(k < Size(f))
      BY <1>1, <1>5
    <2>2. QED
      BY <1>1, <1>4, <2>1 DEF Got, H
  <1>8. QED
    BY <1>6, <1>7, FrameFacts

LEMMA GotHonest ==
    ASSUME Codec!ConstantsAreFrames, NEW f \in Frames, NEW k \in 0 .. Size(f)
    PROVE  Honest(Got(f, k), f)
  <1> DEFINE g == Got(f, k)
             e == Codec!Empty
             H == Len(f.headers)
  <1>1. H \in Nat /\ \A m \in 0 .. H : Codec!IsPrefix(SubSeq(f.headers, 1, m), f.headers)
    BY HeadersAre
  <1>2. Heads(f, k) \in 0 .. H
    BY <1>1 DEF Heads, Size
  <1>3. g.headers = SubSeq(f.headers, 1, Heads(f, k))
    BY DEF Got
  <1>4. /\ DOMAIN g = {"seqID", "logID", "service", "method", "headers", "payloadEncoding", "payloadType",
                       "payload", "logIDNew"}
    BY DEF Got
  <1>5. /\ g["seqID"] \in {f["seqID"], e["seqID"]} /\ g["logID"] \in {f["logID"], e["logID"]}
        /\ g["service"] \in {f["service"], e["service"]} /\ g["method"] \in {f["method"], e["method"]}
    BY DEF Got, Codec!Empty
  <1>6. /\ g["payloadEncoding"] \in {f["payloadEncoding"], e["payloadEncoding"]}
        /\ g["payloadType"] \in {f["payloadType"], e["payloadType"]}
        /\ g["payload"] \in {f["payload"], e["payload"]} /\ g["logIDNew"] \in {f["logIDNew"], e["logIDNew"]}
    BY DEF Got, Codec!Empty
  <1> HIDE DEF g, e
  <1>7. \A x \in DOMAIN g \ {"headers"} : g[x] \in {f[x], e[x]}
    BY <1>4, <1>5, <1>6
  <1>8. Codec!IsPrefix(g.headers, f.headers)
    BY <1>1, <1>2, <1>3
  <1>9. QED
    BY <1>7, <1>8 DEF Honest, g, e

\* A frame of nine values.
Frame(a, b, c, d, e, p, q, r, s) ==
    [seqID |-> a, logID |-> b, service |-> c, method |-> d, headers |-> e, payloadEncoding |-> p,
     payloadType |-> q, payload |-> r, logIDNew |-> s]

LEMMA FrameFilled ==
    ASSUME NEW a, NEW b, NEW c, NEW d, NEW e, NEW p, NEW q, NEW r, NEW s, NEW x, NEW g,
           g = Frame(a, b, c, d, e, p, q, r, s)
    PROVE  /\ \A h : h = Codec!unmarshalHeader(x) =>
                Codec!Filled(g, 5, x) = Frame(a, b, c, d, Append(e, [key |-> h.key, value |-> h.value]), p, q, r, s)
           /\ Codec!Filled(g, 6, x) = Frame(a, b, c, d, e, x, q, r, s)
           /\ Codec!Filled(g, 7, x) = Frame(a, b, c, d, e, p, x, r, s)
           /\ Codec!Filled(g, 8, x) = Frame(a, b, c, d, e, p, q, x, s)
           /\ Codec!Filled(g, 9, x) = Frame(a, b, c, d, e, p, q, r, x)
  <1>1. ASSUME NEW h, h = Codec!unmarshalHeader(x)
        PROVE  Codec!Filled(g, 5, x) = Frame(a, b, c, d, Append(e, [key |-> h.key, value |-> h.value]), p, q, r, s)
    <2> DEFINE n == Append(e, [key |-> h.key, value |-> h.value])
    <2>1. Codec!Filled(g, 5, x) = [g EXCEPT !.headers = Append(g.headers, [key |-> h.key, value |-> h.value])]
      BY <1>1, FilledHeader
    <2>2. g.headers = e
      BY DEF Frame
    <2>3. Codec!Filled(g, 5, x) = [g EXCEPT !.headers = n]
      BY <2>1, <2>2
    <2> HIDE DEF n
    <2>4. [g EXCEPT !.headers = n] = Frame(a, b, c, d, n, p, q, r, s)
      BY DEF Frame
    <2>5. QED
      BY <2>3, <2>4 DEF n
  <1>2. /\ [g EXCEPT !.payloadEncoding = x] = Frame(a, b, c, d, e, x, q, r, s)
        /\ [g EXCEPT !.payloadType = x] = Frame(a, b, c, d, e, p, x, r, s)
        /\ [g EXCEPT !.payload = x] = Frame(a, b, c, d, e, p, q, x, s)
        /\ [g EXCEPT !.logIDNew = x] = Frame(a, b, c, d, e, p, q, r, x)
    BY DEF Frame
  <1>3. QED
    BY <1>1, <1>2, FilledIs

\* A frame whose numbers and the headers have been read.
Later(f, headers, encoding, type, payload, id) ==
    Frame(f.seqID, f.logID, f.service, f.method, headers, encoding, type, payload, id)

\* Got(f, k), once the numbers have been read.
Stage(f, k, H, h) ==
    /\ k < H + 5 => Got(f, k) = Later(f, h, <<>>, <<>>, None, <<>>)
    /\ k = H + 5 => Got(f, k) = Later(f, h, f.payloadEncoding, <<>>, None, <<>>)
    /\ k = H + 6 => Got(f, k) = Later(f, h, f.payloadEncoding, f.payloadType, None, <<>>)
    /\ k = H + 7 /\ k < Size(f) => Got(f, k) = Later(f, h, f.payloadEncoding, f.payloadType, f.payload, <<>>)
    /\ k = Size(f) => Got(f, k) = Later(f, h, f.payloadEncoding, f.payloadType, f.payload, f.logIDNew)

LEMMA GotLater ==
    ASSUME NEW f, NEW k \in Int, k >= 4, Len(f.headers) \in Nat, Size(f) \in Nat,
           Size(f) >= Len(f.headers) + 7
    PROVE  Stage(f, k, Len(f.headers), SubSeq(f.headers, 1, Heads(f, k)))
  <1> DEFINE H == Len(f.headers)
             z == Size(f)
             h == SubSeq(f.headers, 1, Heads(f, k))
  <1>0. H \in Nat /\ z \in Nat /\ z >= H + 7
    OBVIOUS
  <1>1. Got(f, k) = Later(f, h, IF k < H + 5 THEN <<>> ELSE f.payloadEncoding,
                                IF k < H + 6 THEN <<>> ELSE f.payloadType,
                                IF k < H + 7 THEN None ELSE f.payload,
                                IF k < z THEN <<>> ELSE f.logIDNew)
    <2>1. ~(k < 1) /\ ~(k < 2) /\ ~(k < 3) /\ ~(k < 4)
      OBVIOUS
    <2>2. QED
      BY <2>1 DEF Got, Later, Frame
  <1> HIDE DEF H, z, h
  <1>2. k < H + 5 => k < H + 6 /\ k < H + 7 /\ k < z
    BY <1>0
  <1>3. k = H + 5 => ~(k < H + 5) /\ k < H + 6 /\ k < H + 7 /\ k < z
    BY <1>0
  <1>4. k = H + 6 => ~(k < H + 5) /\ ~(k < H + 6) /\ k < H + 7 /\ k < z
    BY <1>0
  <1>5. (k = H + 7 \/ k = z) => ~(k < H + 5) /\ ~(k < H + 6) /\ ~(k < H + 7)
    BY <1>0
  <1>6. k = z => ~(k < z)
    BY <1>0
  <1>7. Stage(f, k, H, h)
    BY <1>1, <1>2, <1>3, <1>4, <1>5, <1>6 DEF Stage, z
  <1>8. QED
    BY <1>7 DEF H, h

\* Reading one field more.
LEMMA GotTurns ==
    ASSUME Codec!ConstantsAreFrames, NEW f \in Frames, NEW P, FieldsOf(P, f), NEW k \in 0 .. Size(f) - 1
    PROVE  Turns(P[k + 1], Got(f, k), Got(f, k + 1))
  <1> DEFINE H == Len(f.headers)
             W == Codec!Wires
             hs == f.headers
  <1>1. H \in Nat /\ SubSeq(hs, 1, 0) = <<>>
        /\ \A i \in 1 .. H : Append(SubSeq(hs, 1, i - 1), hs[i]) = SubSeq(hs, 1, i)
    BY HeadersAre
  <1>2. (f.payload = None => Size(f) = H + 7) /\ (f.payload # None => Size(f) = H + 8) /\ Size(f) \in Nat
    BY <1>1 DEF Size
  <1>3. Size(f) >= H + 7 /\ Size(f) <= H + 8
    BY <1>1, <1>2
  <1>s. ASSUME NEW j \in Int, j >= 4, NEW m, m = Heads(f, j) PROVE Stage(f, j, H, SubSeq(hs, 1, m))
    <2>1. Stage(f, j, H, SubSeq(hs, 1, Heads(f, j)))
      BY <1>1, <1>2, <1>3, <1>s, GotLater
    <2>2. QED
      BY <1>s, <2>1
  <1>t. ASSUME NEW num, NEW value, Piece(W, P[k + 1], num, value), num # 5,
               Codec!Filled(Got(f, k), num, value) = Got(f, k + 1)
        PROVE  Turns(P[k + 1], Got(f, k), Got(f, k + 1))
    BY <1>t DEF Turns
  <1>4. CASE k = 0
    <2>0. k + 1 = 1
      BY <1>4
    <2>1. Piece(W, P[k + 1], 1, f.seqID)
      BY <2>0, FramePieces DEF FieldsOf
    <2>2. [Got(f, k) EXCEPT !.seqID = f.seqID] = Got(f, k + 1)
      <3>1. Heads(f, 0) = 0 /\ Heads(f, 1) = 0
        BY DEF Heads
      <3>2. 0 < H + 5 /\ 0 < H + 6 /\ 0 < H + 7 /\ 0 < Size(f)
            /\ 1 < H + 5 /\ 1 < H + 6 /\ 1 < H + 7 /\ 1 < Size(f)
        BY <1>1, <1>3, <1>2
      <3>3. QED
        BY <1>4, <3>1, <3>2 DEF Got
    <2>3. QED
      BY <1>t, <2>1, <2>2, FilledIs
  <1>5. CASE k = 1
    <2>0. k + 1 = 2
      BY <1>5
    <2>1. Piece(W, P[k + 1], 2, f.logID)
      BY <2>0, FramePieces DEF FieldsOf
    <2>2. [Got(f, k) EXCEPT !.logID = f.logID] = Got(f, k + 1)
      <3>1. Heads(f, 1) = 0 /\ Heads(f, 2) = 0
        BY DEF Heads
      <3>2. 1 < H + 5 /\ 1 < H + 6 /\ 1 < H + 7 /\ 1 < Size(f)
            /\ 2 < H + 5 /\ 2 < H + 6 /\ 2 < H + 7 /\ 2 < Size(f)
        BY <1>1, <1>3, <1>2
      <3>3. QED
        BY <1>5, <3>1, <3>2 DEF Got
    <2>3. QED
      BY <1>t, <2>1, <2>2, FilledIs
  <1>6. CASE k = 2
    <2>0. k + 1 = 3
      BY <1>6
    <2>1. Piece(W, P[k + 1], 3, f.service % Word)
      BY <2>0, FramePieces DEF FieldsOf
    <2>2. [Got(f, k) EXCEPT !.service = f.service] = Got(f, k + 1)
      <3>1. Heads(f, 2) = 0 /\ Heads(f, 3) = 0
        BY DEF Heads
      <3>2. 2 < H + 5 /\ 2 < H + 6 /\ 2 < H + 7 /\ 2 < Size(f)
            /\ 3 < H + 5 /\ 3 < H + 6 /\ 3 < H + 7 /\ 3 < Size(f)
        BY <1>1, <1>3, <1>2
      <3>3. QED
        BY <1>6, <3>1, <3>2 DEF Got
    <2>3. Codec!Signed(f.service % Word) = f.service
      BY FrameFacts, SignedIs
    <2>4. Codec!Filled(Got(f, k), 3, f.service % Word) = Got(f, k + 1)
      <3> HIDE DEF W
      <3>1. Codec!Filled(Got(f, k), 3, f.service % Word) =
              [Got(f, k) EXCEPT !.service = Codec!Signed(f.service % Word)]
        BY FilledIs
      <3>2. QED
        BY <2>2, <2>3, <3>1
    <2>5. QED
      BY <1>t, <2>1, <2>4
  <1>7. CASE k = 3
    <2>0. k + 1 = 4
      BY <1>7
    <2>1. Piece(W, P[k + 1], 4, f.method % Word)
      BY <2>0, FramePieces DEF FieldsOf
    <2>2. [Got(f, k) EXCEPT !.method = f.method] = Got(f, k + 1)
      <3>1. Heads(f, 3) = 0 /\ Heads(f, 4) = 0
        BY <1>1 DEF Heads
      <3>2. 3 < H + 5 /\ 3 < H + 6 /\ 3 < H + 7 /\ 3 < Size(f)
            /\ 4 < H + 5 /\ 4 < H + 6 /\ 4 < H + 7 /\ 4 < Size(f)
        BY <1>1, <1>3, <1>2
      <3>3. QED
        BY <1>7, <3>1, <3>2 DEF Got
    <2>3. Codec!Signed(f.method % Word) = f.method
      BY FrameFacts, SignedIs
    <2>4. Codec!Filled(Got(f, k), 4, f.method % Word) = Got(f, k + 1)
      <3>1. Codec!Filled(Got(f, k), 4, f.method % Word) =
              [Got(f, k) EXCEPT !.method = Codec!Signed(f.method % Word)]
        BY FilledIs
      <3>2. QED
        BY <2>2, <2>3, <3>1
    <2>5. QED
      BY <1>t, <2>1, <2>4
  <1>8. CASE k >= 4 /\ k < H + 4
    <2> DEFINE i == k - 3
               b == Codec!marshalHeader(hs[i])
               h == Codec!unmarshalHeader(b)
    <2>1. i \in 1 .. H /\ 4 + i = k + 1 /\ i - 1 = k - 4 /\ k \in Int
      BY <1>1, <1>3, <1>2, <1>8
    <2>2. P[k + 1] = <<42>> \o Codec!Block(b)
      BY <2>1 DEF FieldsOf
    <2>3. /\ Piece(W, <<42>> \o Codec!Block(b), 5, b)
          /\ h.key = hs[i].key /\ h.value = hs[i].value /\ h.ok
      BY <2>1, HeaderPiece
    <2>4. [key |-> h.key, value |-> h.value] = hs[i]
      BY <2>1, <2>3, HeaderFacts
    <2> HIDE DEF i, b
    <2>5. Heads(f, k) = i - 1 /\ Heads(f, k + 1) = i
      BY <1>1, <1>8, <2>1 DEF Heads, i
    <2>6. Append(SubSeq(hs, 1, i - 1), hs[i]) = SubSeq(hs, 1, i)
      BY <1>1, <2>1
    <2>7. Got(f, k) = Later(f, SubSeq(hs, 1, i - 1), <<>>, <<>>, None, <<>>)
      <3>1. k \in Int /\ k >= 4 /\ k < H + 5
        BY <1>1, <1>8, <2>1
      <3>2. Stage(f, k, H, SubSeq(hs, 1, i - 1))
        BY <1>s, <2>5, <3>1
      <3>3. QED
        BY <3>1, <3>2 DEF Stage
    <2>8. Got(f, k + 1) = Later(f, SubSeq(hs, 1, i), <<>>, <<>>, None, <<>>)
      <3> DEFINE j == k + 1
      <3>1. j \in Int /\ j >= 4 /\ j < H + 5 /\ i = Heads(f, j)
        BY <1>1, <1>8, <2>1, <2>5
      <3> HIDE DEF j
      <3>2. Stage(f, j, H, SubSeq(hs, 1, i))
        BY <1>s, <3>1
      <3>4. Got(f, j) = Later(f, SubSeq(hs, 1, i), <<>>, <<>>, None, <<>>)
        BY <3>1, <3>2 DEF Stage
      <3>5. QED
        BY <3>4 DEF j
    <2>9. Codec!Filled(Got(f, k), 5, b) = Got(f, k + 1)
      <3> DEFINE s == SubSeq(hs, 1, i - 1)
      <3>1. Codec!Filled(Got(f, k), 5, b) =
              Later(f, Append(s, [key |-> h.key, value |-> h.value]), <<>>, <<>>, None, <<>>)
        BY <2>7, FrameFilled DEF Later
      <3>2. Append(s, [key |-> h.key, value |-> h.value]) = SubSeq(hs, 1, i)
        BY <2>4, <2>6
      <3>3. QED
        BY <2>8, <3>1, <3>2
    <2>10. Piece(W, P[k + 1], 5, b) /\ Codec!unmarshalHeader(b).ok
      BY <2>2, <2>3
    <2>11. QED
      BY <2>9, <2>10 DEF Turns
  <1>9. CASE k = H + 4
    <2>0. k + 1 = H + 5
      BY <1>1, <1>9
    <2>1. Piece(W, P[k + 1], 6, f.payloadEncoding)
      BY <2>0, FramePieces DEF FieldsOf
    <2>2. Codec!Filled(Got(f, k), 6, f.payloadEncoding) = Got(f, k + 1)
      <3> DEFINE j == k + 1
                 h == SubSeq(hs, 1, H)
      <3>1. H = Heads(f, k) /\ H = Heads(f, j) /\ k \in Int /\ k >= 4 /\ j \in Int /\ j >= 4
        BY <1>1, <1>2, <1>3, <1>9 DEF Heads
      <3>s. Stage(f, k, H, h) /\ Stage(f, j, H, h)
        <4> HIDE DEF j
        <4>1. QED
          BY <1>s, <3>1
      <3>2. k < H + 5 /\ j = H + 5
        BY <1>1, <1>9
      <3>3. Got(f, k) = Later(f, h, <<>>, <<>>, None, <<>>)
        BY <3>2, <3>s DEF Stage
      <3> HIDE DEF j
      <3>4. Got(f, j) = Later(f, h, f.payloadEncoding, <<>>, None, <<>>)
        BY <3>2, <3>s DEF Stage
      <3>5. Codec!Filled(Got(f, k), 6, f.payloadEncoding) = Later(f, h, f.payloadEncoding, <<>>, None, <<>>)
        BY <3>3, FrameFilled DEF Later
      <3>6. QED
        BY <3>4, <3>5 DEF j
    <2>3. QED
      BY <1>t, <2>1, <2>2
  <1>10. CASE k = H + 5
    <2>0. k + 1 = H + 6
      BY <1>1, <1>10
    <2>1. Piece(W, P[k + 1], 7, f.payloadType)
      BY <2>0, FramePieces DEF FieldsOf
    <2>2. Codec!Filled(Got(f, k), 7, f.payloadType) = Got(f, k + 1)
      <3> DEFINE j == k + 1
                 h == SubSeq(hs, 1, H)
      <3>1. H = Heads(f, k) /\ H = Heads(f, j) /\ k \in Int /\ k >= 4 /\ j \in Int /\ j >= 4
        BY <1>1, <1>2, <1>3, <1>10 DEF Heads
      <3>s. Stage(f, k, H, h) /\ Stage(f, j, H, h)
        <4> HIDE DEF j
        <4>1. QED
          BY <1>s, <3>1
      <3>2. k = H + 5 /\ j = H + 6
        BY <1>1, <1>10
      <3>3. Got(f, k) = Later(f, h, f.payloadEncoding, <<>>, None, <<>>)
        BY <3>2, <3>s DEF Stage
      <3> HIDE DEF j
      <3>4. Got(f, j) = Later(f, h, f.payloadEncoding, f.payloadType, None, <<>>)
        BY <3>2, <3>s DEF Stage
      <3>5. Codec!Filled(Got(f, k), 7, f.payloadType) = Later(f, h, f.payloadEncoding, f.payloadType, None, <<>>)
        BY <3>3, FrameFilled DEF Later
      <3>6. QED
        BY <3>4, <3>5 DEF j
    <2>3. QED
      BY <1>t, <2>1, <2>2
  <1>11. CASE k = H + 6 /\ f.payload # None
    <2>0. k + 1 = H + 7
      BY <1>1, <1>11
    <2>1. Piece(W, P[k + 1], 8, f.payload)
      BY <1>11, <2>0, FramePieces DEF FieldsOf
    <2>2. Codec!Filled(Got(f, k), 8, f.payload) = Got(f, k + 1)
      <3> DEFINE j == k + 1
                 h == SubSeq(hs, 1, H)
      <3>1. H = Heads(f, k) /\ H = Heads(f, j) /\ k \in Int /\ k >= 4 /\ j \in Int /\ j >= 4
        BY <1>1, <1>2, <1>3, <1>11 DEF Heads
      <3>s. Stage(f, k, H, h) /\ Stage(f, j, H, h)
        <4> HIDE DEF j
        <4>1. QED
          BY <1>s, <3>1
      <3>a. Size(f) = H + 8
        BY <1>2, <1>11
      <3>2. k = H + 6 /\ j = H + 7 /\ j < Size(f)
        BY <1>1, <1>11, <3>a
      <3>3. Got(f, k) = Later(f, h, f.payloadEncoding, f.payloadType, None, <<>>)
        BY <3>2, <3>s DEF Stage
      <3> HIDE DEF j
      <3>4. Got(f, j) = Later(f, h, f.payloadEncoding, f.payloadType, f.payload, <<>>)
        BY <3>2, <3>s DEF Stage
      <3>5. Codec!Filled(Got(f, k), 8, f.payload) = Later(f, h, f.payloadEncoding, f.payloadType, f.payload, <<>>)
        BY <3>3, FrameFilled DEF Later
      <3>6. QED
        BY <3>4, <3>5 DEF j
    <2>3. QED
      BY <1>t, <2>1, <2>2
  <1>12. CASE k + 1 = Size(f)
    <2>1. Piece(W, P[k + 1], 9, f.logIDNew)
      BY <1>12, FramePieces DEF FieldsOf
    <2>2. Codec!Filled(Got(f, k), 9, f.logIDNew) = Got(f, k + 1)
      <3> DEFINE j == k + 1
                 h == SubSeq(hs, 1, H)
      <3>1. H = Heads(f, k) /\ H = Heads(f, j) /\ k \in Int /\ k >= 4 /\ j \in Int /\ j >= 4
        BY <1>1, <1>2, <1>3, <1>12 DEF Heads
      <3>s. Stage(f, k, H, h) /\ Stage(f, j, H, h)
        <4> HIDE DEF j
        <4>1. QED
          BY <1>s, <3>1
      <3>2. j = Size(f)
        BY <1>12
      <3>3. Got(f, k) = Later(f, h, f.payloadEncoding, f.payloadType, f.payload, <<>>)
        <4>1. CASE f.payload = None
          <5>1. k = H + 6
            BY <1>1, <1>2, <1>12, <4>1
          <5>2. Got(f, k) = Later(f, h, f.payloadEncoding, f.payloadType, None, <<>>)
            BY <3>s, <5>1 DEF Stage
          <5>3. QED
            BY <4>1, <5>2
        <4>2. CASE f.payload # None
          <5>1. k = H + 7 /\ k < Size(f)
            BY <1>1, <1>2, <1>12, <4>2
          <5>2. QED
            BY <3>s, <5>1 DEF Stage
        <4>3. QED
          BY <4>1, <4>2
      <3> HIDE DEF j
      <3>4. Got(f, j) = Later(f, h, f.payloadEncoding, f.payloadType, f.payload, f.logIDNew)
        BY <3>2, <3>s DEF Stage
      <3>5. Codec!Filled(Got(f, k), 9, f.logIDNew) = Later(f, h, f.payloadEncoding, f.payloadType, f.payload, f.logIDNew)
        BY <3>3, FrameFilled DEF Later
      <3>6. QED
        BY <3>4, <3>5 DEF j
    <2>3. QED
      BY <1>t, <2>1, <2>2
  <1>13. \/ k = 0 \/ k = 1 \/ k = 2 \/ k = 3 \/ (k >= 4 /\ k < H + 4) \/ k = H + 4 \/ k = H + 5
         \/ (k = H + 6 /\ f.payload # None) \/ k + 1 = Size(f)
    <2>1. CASE f.payload = None
      <3>1. Size(f) = H + 7
        BY <1>2, <2>1
      <3>2. QED
        BY <1>1, <3>1
    <2>2. CASE f.payload # None
      <3>1. Size(f) = H + 8
        BY <1>2, <2>2
      <3>2. k = 0 \/ k = 1 \/ k = 2 \/ k = 3 \/ (k >= 4 /\ k < H + 4) \/ k = H + 4 \/ k = H + 5
            \/ k = H + 6 \/ k + 1 = Size(f)
        BY <1>1, <3>1
      <3>3. QED
        BY <2>2, <3>2
    <2>3. QED
      BY <2>1, <2>2
  <1>14. QED
    BY <1>4, <1>5, <1>6, <1>7, <1>8, <1>9, <1>10, <1>11, <1>12, <1>13

\* The fields of a frame make a script for it.
LEMMA FrameScript ==
    ASSUME Codec!ConstantsAreFrames, NEW f \in Frames
    PROVE  \E G : Script(Codec!Fields(f), G, f)
  <1> DEFINE P == Codec!Fields(f)
             n == Size(f)
             G == [k \in 0 .. n |-> Got(f, k)]
  <1>1. FieldsOf(P, f)
    BY FieldsAre
  <1>2. n \in Nat /\ n # 0
    BY HeadersAre DEF Size
  <1> HIDE DEF P
  <1>3. Got(f, 0) = Codec!Empty /\ Got(f, n) = f
    BY GotEnds
  <1>4. \A k \in 0 .. n - 1 : Turns(P[k + 1], Got(f, k), Got(f, k + 1))
    BY <1>1, GotTurns
  <1>5. \A k \in 0 .. n : Honest(Got(f, k), f)
    BY GotHonest
  <1>6. P \in Seq(Codec!Bytes) /\ Len(P) = n
    BY <1>1 DEF FieldsOf
  <1> HIDE DEF n
  <1>7. \A k \in 0 .. n : G[k] = Got(f, k)
    OBVIOUS
  <1> HIDE DEF G
  <1>8. G[0] = Codec!Empty /\ G[n] = f
    BY <1>2, <1>3, <1>7
  <1>9. ASSUME NEW k \in 0 .. n - 1 PROVE Turns(P[k + 1], G[k], G[k + 1])
    <2>1. k \in 0 .. n /\ k + 1 \in 0 .. n
      BY <1>2
    <2>2. QED
      BY <1>4, <1>7, <2>1
  <1>10. Script(P, G, f)
    BY <1>2, <1>5, <1>6, <1>7, <1>8, <1>9 DEF Script
  <1>11. QED
    BY <1>10 DEF P

----------------------------------------------------------------------------
(* The transfer.  From the arrival on, the bytes are the first n of what    *)
(* the pieces of a script for the frame that was sent make; k pieces have   *)
(* been read, and the frame is the script's after k pieces.  Only the plain *)
(* fields of the frame arrive cut.                                          *)

Transfer(P, c, G, n, k) ==
    /\ Script(P, G, sent) /\ Flows(P, c)
    /\ n \in 0 .. Len(c[Len(P)]) /\ data = SubSeq(c[Len(P)], 1, n)
    /\ n < Len(c[Len(P)]) => c[Len(P)] = Codec!FlattenSeq(Codec!Fields(sent))
    /\ k \in 0 .. Len(P) /\ offset = Len(c[k]) /\ offset <= n /\ frame = G[k]
    /\ outcome = "ok" => offset = n
    /\ outcome = "error" => n < Len(c[Len(P)])

CodecInv ==
    /\ outcome = "idle" => offset = 0 /\ frame = Codec!Empty
    /\ outcome # "idle" => \E P, c, G, n, k : Transfer(P, c, G, n, k)

LEMMA TransferFacts ==
    ASSUME NEW P, NEW c, NEW G, NEW n, NEW k, Transfer(P, c, G, n, k)
    PROVE  /\ Len(P) \in Nat /\ c[Len(P)] \in Seq(0 .. 255) /\ Len(c[Len(P)]) \in Nat /\ n \in Nat
           /\ Len(data) = n /\ Len(c[k]) \in Nat
  <1> DEFINE F == c[Len(P)]
  <1>1. Len(P) \in Nat
    BY DEF Transfer, Script
  <1>2. F \in Codec!Bytes /\ c[k] \in Codec!Bytes
    <2>1. Len(P) \in 0 .. Len(P) /\ k \in 0 .. Len(P)
      BY <1>1 DEF Transfer
    <2>2. QED
      BY <2>1 DEF Transfer, Flows
  <1>3. F \in Seq(0 .. 255) /\ Len(F) \in Nat /\ Len(c[k]) \in Nat
    BY <1>2 DEF Codec!Bytes
  <1>4. n \in 0 .. Len(F) /\ data = SubSeq(F, 1, n)
    BY DEF Transfer
  <1> HIDE DEF F
  <1>5. Len(data) = n
    BY <1>3, <1>4, CutIs
  <1>6. QED
    BY <1>1, <1>3, <1>4, <1>5 DEF F

\* When the bytes arrive.
LEMMA TransferBegins ==
    ASSUME CodecInv, outcome = "idle", NEW P, NEW G, Script(P, G, sent'), outcome' = "reading",
           NEW c, Flows(P, c), NEW n \in 0 .. Len(c[Len(P)]), data' = SubSeq(c[Len(P)], 1, n),
           n < Len(c[Len(P)]) => c[Len(P)] = Codec!FlattenSeq(Codec!Fields(sent')),
           UNCHANGED <<offset, frame>>
    PROVE  CodecInv'
  <1>1. offset' = 0 /\ frame' = Codec!Empty
    BY DEF CodecInv
  <1>2. G[0] = Codec!Empty /\ Len(P) \in Nat
    BY DEF Script
  <1>3. c[0] = <<>> /\ Len(<<>>) = 0
    BY DEF Flows
  <1>4. 0 \in 0 .. Len(P) /\ 0 <= n
    BY <1>2
  <1>5. Transfer(P, c, G, n, 0)'
    BY <1>1, <1>2, <1>3, <1>4 DEF Transfer
  <1>6. QED
    BY <1>5 DEF CodecInv

LEMMA UnknownPiece ==
    ASSUME Codec!ConstantsAreFrames, NEW u \in Unknown
    PROVE  \E num, value : Piece(Codec!Wires, u, num, value) /\ num \notin 1 .. 9
  <1> DEFINE r == Codec!readField(Codec!Wires, u)
             tag == Codec!decodeVarint(u)
  <1>1. u \in Codec!Bytes /\ r # Codec!Bad /\ r.size = Len(u) /\ r.num \notin DOMAIN Codec!Wires
    BY DEF Codec!ConstantsAreFrames
  <1>2. r = [size |-> tag.size + Content(u, tag).size, num |-> tag.value \div 8, value |-> Content(u, tag).value]
    BY <1>1, FieldIs
  <1>3. <<>> \in Codec!Bytes
    BY DEF Codec!Bytes
  <1>4. r.size \in 1 .. Len(u) /\ Len(u) \in Nat
    BY <1>1, <1>3, FieldLocal, BytesAre
  <1> HIDE DEF r
  <1>5. r = [size |-> r.size, num |-> r.num, value |-> r.value]
    BY <1>2
  <1>6. Piece(Codec!Wires, u, r.num, r.value)
    BY <1>1, <1>4, <1>5 DEF Piece, r
  <1>7. r.num \notin 1 .. 9
    BY <1>1, WiresAre
  <1>8. QED
    BY <1>6, <1>7

LEMMA CodecStep ==
    ASSUME Codec!ConstantsAreFrames, CodecInv, [Codec!Next]_codecVars
    PROVE  CodecInv'
  <1>1. CASE Codec!Arrives
    <2>1. PICK f \in Frames : sent' = f /\ data' = Codec!FlattenSeq(Codec!Fields(f))
      BY <1>1 DEF Codec!Arrives
    <2> DEFINE P == Codec!Fields(f)
    <2>2. PICK G : Script(P, G, f)
      BY FrameScript
    <2> HIDE DEF P
    <2>3. P \in Seq(Codec!Bytes) /\ Len(P) # 0 /\ Len(P) \in Nat
      BY <2>2 DEF Script
    <2>4. PICK c : Flows(P, c) /\ Codec!FlattenSeq(P) = c[Len(P)]
      BY <2>3, FlowExists
    <2> DEFINE F == c[Len(P)]
               n == Len(F)
    <2>5. F \in Codec!Bytes
      BY <2>3, <2>4 DEF Flows
    <2>6. F \in Seq(0 .. 255) /\ n \in Nat
      BY <2>5 DEF Codec!Bytes
    <2>7. SubSeq(F, 1, n) = F /\ n \in 0 .. n /\ ~(n < n)
      BY <2>6, WholeIs
    <2>8. data' = F
      BY <2>1, <2>4 DEF P
    <2>9. outcome = "idle" /\ outcome' = "reading" /\ UNCHANGED <<offset, frame>>
      BY <1>1 DEF Codec!Arrives
    <2>10. data' = SubSeq(c[Len(P)], 1, n) /\ n \in 0 .. Len(c[Len(P)]) /\ ~(n < Len(c[Len(P)]))
      BY <2>7, <2>8
    <2>11. Script(P, G, sent')
      BY <2>1, <2>2
    <2> HIDE DEF n, F
    <2>12. QED
      BY <2>4, <2>9, <2>10, <2>11, TransferBegins
  <1>2. CASE Codec!ArrivesExtended
    <2>1. PICK f \in Frames, u \in Unknown : \E i \in 1 .. Len(Codec!Fields(f)) + 1 :
            sent' = f /\ data' = Codec!FlattenSeq(Codec!InsertAt(Codec!Fields(f), i, u))
      BY <1>2 DEF Codec!ArrivesExtended
    <2>2. PICK i \in 1 .. Len(Codec!Fields(f)) + 1 :
            sent' = f /\ data' = Codec!FlattenSeq(Codec!InsertAt(Codec!Fields(f), i, u))
      BY <2>1
    <2> DEFINE P == Codec!InsertAt(Codec!Fields(f), i, u)
    <2>3. PICK num, value : Piece(Codec!Wires, u, num, value) /\ num \notin 1 .. 9
      BY UnknownPiece
    <2>4. PICK G : Script(P, G, f)
      <3>1. PICK H : Script(Codec!Fields(f), H, f)
        BY FrameScript
      <3>2. QED
        BY <2>3, <3>1, InsertScript
    <2>a. data' = Codec!FlattenSeq(P) /\ sent' = f
      BY <2>2
    <2> HIDE DEF P
    <2>5. P \in Seq(Codec!Bytes) /\ Len(P) # 0 /\ Len(P) \in Nat
      BY <2>4 DEF Script
    <2>6. PICK c : Flows(P, c) /\ Codec!FlattenSeq(P) = c[Len(P)]
      BY <2>5, FlowExists
    <2> DEFINE F == c[Len(P)]
               n == Len(F)
    <2>7. F \in Codec!Bytes
      BY <2>5, <2>6 DEF Flows
    <2>8. F \in Seq(0 .. 255) /\ n \in Nat
      BY <2>7 DEF Codec!Bytes
    <2>9. SubSeq(F, 1, n) = F /\ n \in 0 .. n /\ ~(n < n)
      BY <2>8, WholeIs
    <2>10. outcome = "idle" /\ outcome' = "reading" /\ UNCHANGED <<offset, frame>>
      BY <1>2 DEF Codec!ArrivesExtended
    <2>11. data' = SubSeq(c[Len(P)], 1, n) /\ n \in 0 .. Len(c[Len(P)]) /\ ~(n < Len(c[Len(P)]))
      BY <2>6, <2>9, <2>a
    <2>12. Script(P, G, sent')
      BY <2>4, <2>a
    <2> HIDE DEF n, F
    <2>13. QED
      BY <2>6, <2>10, <2>11, <2>12, TransferBegins
  <1>3. CASE Codec!ArrivesCut
    <2>1. PICK f \in Frames : \E n \in 0 .. Len(Codec!FlattenSeq(Codec!Fields(f))) - 1 :
            sent' = f /\ data' = SubSeq(Codec!FlattenSeq(Codec!Fields(f)), 1, n)
      BY <1>3 DEF Codec!ArrivesCut
    <2>2. PICK n \in 0 .. Len(Codec!FlattenSeq(Codec!Fields(f))) - 1 :
            sent' = f /\ data' = SubSeq(Codec!FlattenSeq(Codec!Fields(f)), 1, n)
      BY <2>1
    <2> DEFINE P == Codec!Fields(f)
    <2>3. PICK G : Script(P, G, f)
      BY FrameScript
    <2>a. sent' = f /\ n \in 0 .. Len(Codec!FlattenSeq(P)) - 1 /\ data' = SubSeq(Codec!FlattenSeq(P), 1, n)
          /\ P = Codec!Fields(sent')
      BY <2>2
    <2> HIDE DEF P
    <2>4. P \in Seq(Codec!Bytes) /\ Len(P) # 0 /\ Len(P) \in Nat
      BY <2>3 DEF Script
    <2>5. PICK c : Flows(P, c) /\ Codec!FlattenSeq(P) = c[Len(P)]
      BY <2>4, FlowExists
    <2>6. c[Len(P)] \in Codec!Bytes
      BY <2>4, <2>5 DEF Flows
    <2>7. Len(c[Len(P)]) \in Nat
      BY <2>6, BytesAre
    <2>8. n \in 0 .. Len(c[Len(P)]) /\ data' = SubSeq(c[Len(P)], 1, n)
      BY <2>5, <2>7, <2>a
    <2>9. c[Len(P)] = Codec!FlattenSeq(Codec!Fields(sent'))
      BY <2>5, <2>a
    <2>10. outcome = "idle" /\ outcome' = "reading" /\ UNCHANGED <<offset, frame>>
      BY <1>3 DEF Codec!ArrivesCut
    <2>11. Script(P, G, sent')
      BY <2>3, <2>a
    <2>12. QED
      BY <2>5, <2>8, <2>9, <2>10, <2>11, TransferBegins
  <1>4. CASE Codec!Unmarshal
    <2> DEFINE g == Codec!readField(Codec!Wires, SubSeq(data, offset + 1, Len(data)))
    <2>1. outcome = "reading" /\ UNCHANGED <<sent, data>>
      BY <1>4 DEF Codec!Unmarshal
    <2>2. IF offset = Len(data) THEN outcome' = "ok" /\ UNCHANGED <<offset, frame>>
          ELSE IF g = Codec!Bad \/ (g.num = 5 /\ ~Codec!unmarshalHeader(g.value).ok)
          THEN outcome' = "error" /\ UNCHANGED <<offset, frame>>
          ELSE /\ offset' = offset + g.size
               /\ frame' = Codec!Filled(frame, g.num, g.value)
               /\ UNCHANGED outcome
      BY <1>4 DEF Codec!Unmarshal
    <2>3. PICK P, c, G, n, k : Transfer(P, c, G, n, k)
      BY <2>1 DEF CodecInv
    <2> DEFINE F == c[Len(P)]
    <2>4. Len(P) \in Nat /\ Len(F) \in Nat /\ n \in Nat /\ Len(data) = n /\ Len(c[k]) \in Nat
      BY <2>3, TransferFacts
    <2>5. /\ Script(P, G, sent) /\ Flows(P, c)
          /\ n \in 0 .. Len(F) /\ data = SubSeq(F, 1, n)
          /\ (n < Len(F) => F = Codec!FlattenSeq(Codec!Fields(sent)))
          /\ k \in 0 .. Len(P) /\ offset = Len(c[k]) /\ offset <= n /\ frame = G[k]
      BY <2>3 DEF Transfer
    <2> HIDE DEF g, F
    <2>6. CASE offset = n
      <3>1. outcome' = "ok" /\ UNCHANGED <<offset, frame>>
        BY <2>2, <2>4, <2>6
      <3>2. Transfer(P, c, G, n, k)'
        BY <2>1, <2>5, <2>6, <3>1 DEF Transfer, F
      <3>3. QED
        BY <3>1, <3>2 DEF CodecInv
    <2>7. CASE offset # n
      <3>1. offset < n /\ k # Len(P)
        BY <2>4, <2>5, <2>7 DEF F
      <3>2. k \in 0 .. Len(P) - 1 /\ k + 1 \in 0 .. Len(P)
        BY <2>4, <2>5, <3>1
      <3>3. Turns(P[k + 1], G[k], G[k + 1])
        BY <2>5, <3>2 DEF Script
      <3>4. Lies(F, P[k + 1], Len(c[k])) /\ Len(c[k + 1]) = Len(c[k]) + Len(P[k + 1])
        BY <2>5, <3>2, FlowAt DEF F
      <3>5. Len(c[k + 1]) \in Nat /\ Len(c[k + 1]) <= Len(F)
        <4> DEFINE o == Len(c[k])
                   p == P[k + 1]
        <4>1. Lies(F, p, o) /\ Len(c[k + 1]) = o + Len(p)
          BY <3>4
        <4> HIDE DEF o, p
        <4>2. o \in Nat /\ Len(p) \in Nat /\ Len(F) \in Nat /\ o + Len(p) <= Len(F)
          BY <4>1 DEF Lies
        <4>3. QED
          BY <4>1, <4>2
      <3>6. g = Codec!readField(Codec!Wires, SubSeq(data, Len(c[k]) + 1, Len(data)))
        BY <2>5 DEF g
      <3>7. CASE Len(c[k + 1]) <= n
        <4>1. Takes(g, Len(c[k]), G[k], Len(c[k + 1]), G[k + 1])
          BY <2>5, <3>2, <3>3, <3>6, <3>7, NextPiece DEF F
        <4>2. offset' = Len(c[k + 1]) /\ frame' = G[k + 1] /\ outcome' = "reading"
          BY <2>1, <2>2, <2>4, <2>5, <2>7, <4>1 DEF Takes
        <4>3. Transfer(P, c, G, n, k + 1)'
          BY <2>1, <2>5, <3>2, <3>7, <4>2 DEF Transfer, F
        <4>4. QED
          BY <4>2, <4>3 DEF CodecInv
      <3>8. CASE ~(Len(c[k + 1]) <= n)
        <4>1. n < Len(c[k + 1]) /\ Len(c[k]) <= n
          BY <2>4, <2>5, <3>5, <3>8
        <4>2. g = Codec!Bad
          BY <2>5, <3>2, <3>3, <3>6, <4>1, NextIsCut DEF F
        <4>3. outcome' = "error" /\ UNCHANGED <<offset, frame>>
          BY <2>2, <2>4, <2>7, <4>2
        <4>4. n < Len(F)
          BY <2>4, <3>5, <4>1
        <4>5. Transfer(P, c, G, n, k)'
          BY <2>1, <2>5, <4>3, <4>4 DEF Transfer, F
        <4>6. QED
          BY <4>3, <4>5 DEF CodecInv
      <3>9. QED
        BY <3>7, <3>8
    <2>8. QED
      BY <2>6, <2>7
  <1>5. CASE UNCHANGED codecVars
    <2>1. sent' = sent /\ data' = data /\ offset' = offset /\ frame' = frame /\ outcome' = outcome
      BY <1>5 DEF codecVars
    <2>2. CASE outcome = "idle"
      BY <2>1, <2>2 DEF CodecInv
    <2>3. CASE outcome # "idle"
      <3>1. PICK P, c, G, n, k : Transfer(P, c, G, n, k)
        BY <2>3 DEF CodecInv
      <3>2. Transfer(P, c, G, n, k)'
        BY <2>1, <3>1 DEF Transfer
      <3>3. QED
        BY <2>1, <2>3, <3>2 DEF CodecInv
    <2>4. QED
      BY <2>2, <2>3
  <1>6. QED
    BY <1>1, <1>2, <1>3, <1>4, <1>5 DEF Codec!Next

LEMMA CodecInvIsEnough ==
    ASSUME CodecInv
    PROVE  DecodedIsSent
  <1> DEFINE A == Codec!FlattenSeq(Codec!Fields(sent))
  <1>1. CASE outcome = "ok"
    <2>1. PICK P, c, G, n, k : Transfer(P, c, G, n, k)
      BY <1>1 DEF CodecInv
    <2> DEFINE F == c[Len(P)]
    <2>2. Len(P) \in Nat /\ Len(F) \in Nat /\ n \in Nat /\ Len(data) = n /\ Len(c[k]) \in Nat
      BY <2>1, TransferFacts
    <2>3. /\ Script(P, G, sent) /\ Flows(P, c) /\ n \in 0 .. Len(F)
          /\ (n < Len(F) => F = A)
          /\ k \in 0 .. Len(P) /\ offset = Len(c[k]) /\ frame = G[k] /\ offset = n
      BY <1>1, <2>1 DEF Transfer
    <2> HIDE DEF A, F
    <2>4. Honest(frame, sent)
      BY <2>3 DEF Script
    <2>5. ASSUME Len(data) >= Len(A) PROVE frame = sent
      <3>1. n = Len(F)
        BY <2>2, <2>3, <2>5
      <3>2. k = Len(P)
        <4>1. SUFFICES ASSUME k # Len(P) PROVE FALSE
          OBVIOUS
        <4>2. k \in 0 .. Len(P) - 1
          BY <2>2, <2>3, <4>1
        <4>3. Lies(F, P[k + 1], Len(c[k]))
          BY <2>3, <4>2, FlowAt DEF F
        <4>4. Turns(P[k + 1], G[k], G[k + 1])
          BY <2>3, <4>2 DEF Script
        <4>5. Len(P[k + 1]) >= 1
          BY <4>4 DEF Turns, Piece
        <4>6. QED
          BY <2>2, <2>3, <3>1, <4>3, <4>5 DEF Lies
      <3>3. QED
        BY <2>3, <3>2 DEF Script
    <2>6. Codec!PartialIsHonest
      BY <2>4 DEF Codec!PartialIsHonest, Honest
    <2>7. Codec!RoundTrip
      BY <1>1, <2>5 DEF Codec!RoundTrip, A
    <2>8. QED
      BY <2>6, <2>7 DEF DecodedIsSent, Codec!DecodedIsSent
  <1>2. CASE outcome = "error"
    <2>1. PICK P, c, G, n, k : Transfer(P, c, G, n, k)
      BY <1>2 DEF CodecInv
    <2>2. Len(data) = n
      BY <2>1, TransferFacts
    <2>3. n < Len(c[Len(P)]) /\ c[Len(P)] = A
      BY <1>2, <2>1 DEF Transfer
    <2>4. Len(data) < Len(A)
      BY <2>2, <2>3
    <2>5. QED
      BY <1>2, <2>4 DEF DecodedIsSent, Codec!DecodedIsSent, Codec!RoundTrip, Codec!PartialIsHonest
  <1>3. CASE outcome # "ok" /\ outcome # "error"
    BY <1>3 DEF DecodedIsSent, Codec!DecodedIsSent, Codec!RoundTrip, Codec!PartialIsHonest
  <1>4. QED
    BY <1>1, <1>2, <1>3

\* What Unmarshal makes of the bytes of a frame is the frame that Marshal was
\* given, whatever the frame and the unknown field are; and what it makes of a
\* beginning of them is honest.
THEOREM DecodedHolds == Codec!Spec => []DecodedIsSent
  <1>1. Codec!Init => CodecInv
    BY DEF Codec!Init, CodecInv
  <1>2. CodecInv /\ [Codec!Next]_(Codec!vars) => CodecInv'
    BY CodecAssumption, CodecStep DEF Codec!vars, codecVars
  <1>3. CodecInv => DecodedIsSent
    BY CodecInvIsEnough
  <1>4. QED
    BY <1>1, <1>2, <1>3, PTL DEF Codec!Spec
=============================================================================
