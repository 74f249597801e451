----------------------------- MODULE FrameCodec -----------------------------
(* The frames of the Feishu long connection on the wire                     *)
(* (internal/feishu/codec.go): a hand-written protobuf codec.  One side     *)
(* marshals a frame; on the way a newer peer's unknown field may stand      *)
(* between its fields, or the end may be missing; the other side unmarshals *)
(* it field by field.                                                       *)
(*                                                                          *)
(* Bytes are numbers below 256 and strings are sequences of bytes.  Word is *)
(* 2^32 in the code: the fields Service and Method are signed and travel as *)
(* unsigned words.                                                          *)
EXTENDS Integers, FiniteSetsExt, SequencesExt

CONSTANTS
    Frames,     \* the frames that are sent
    Unknown,    \* encoded fields that the decoder does not know
    Word,       \* number of values of a word
    Largest,    \* bound: the largest number that is encoded
    Nil         \* a payload that is absent

VARIABLES
    sent,       \* ghost: the frame that was marshalled
    data,       \* the bytes that arrive
    offset,     \* how many of them are decoded
    frame,      \* the frame being filled
    outcome     \* "reading", "ok" or "error"

vars == <<sent, data, offset, frame, outcome>>

Bad == [size |-> 0]

----------------------------------------------------------------------------
(* Numbers and fields.                                                      *)

encodeVarint[v \in 0 .. Largest] ==
    IF v < 128 THEN <<v>> ELSE <<(v % 128) + 128>> \o encodeVarint[v \div 128]

\* The number that seven bits of each byte make, the lowest first.
Number(bytes) ==
    LET value[n \in 0 .. Len(bytes)] ==
            IF n = 0 THEN 0 ELSE value[n - 1] * 128 + (bytes[Len(bytes) + 1 - n] % 128)
    IN  value[Len(bytes)]

\* A byte below 128 is the last.
decodeVarint(bytes) ==
    LET ends == {i \in 1 .. Len(bytes) : bytes[i] < 128}
    IN  IF ends = {} \/ Min(ends) > 10 THEN Bad
        ELSE [size |-> Min(ends), value |-> Number(SubSeq(bytes, 1, Min(ends)))]

Block(bytes) == encodeVarint[Len(bytes)] \o bytes

\* Mutant: what is there of a block is taken for the whole.
readBlockShort(bytes) ==
    LET l == decodeVarint(bytes)
    IN  IF l = Bad THEN Bad
        ELSE LET end == Min({l.size + l.value, Len(bytes)})
             IN  [size |-> end, value |-> SubSeq(bytes, l.size + 1, end)]

\* A length and so many bytes.
readBlock(bytes) ==
    LET l == decodeVarint(bytes)
    IN  IF l = Bad THEN Bad
        ELSE IF Len(bytes) - l.size < l.value THEN Bad
        ELSE [size |-> l.size + l.value, value |-> SubSeq(bytes, l.size + 1, l.size + l.value)]

\* The content of a field after its tag, by wire type.  (The code compares the
\* length of an unknown block as a signed number; below 2^63 that is the same.)
skipField(wire, bytes) ==
    CASE wire = 0 -> decodeVarint(bytes)
      [] wire = 1 -> IF Len(bytes) < 8 THEN Bad ELSE [size |-> 8, value |-> 0]
      [] wire = 2 -> readBlock(bytes)
      [] wire = 5 -> IF Len(bytes) < 4 THEN Bad ELSE [size |-> 4, value |-> 0]
      [] OTHER -> Bad

\* One field; wires has the wire types of the known ones.
readField(wires, bytes) ==
    LET tag == decodeVarint(bytes) IN
    IF tag = Bad THEN Bad
    ELSE LET num == tag.value \div 8
             wire == tag.value % 8
             content == skipField(wire, SubSeq(bytes, tag.size + 1, Len(bytes)))
         IN  IF content = Bad \/ (num \in DOMAIN wires /\ wires[num] # wire) THEN Bad
             ELSE [size |-> tag.size + content.size, num |-> num, value |-> content.value]

----------------------------------------------------------------------------
(* Headers and frames.                                                      *)

marshalHeader(h) == <<10>> \o Block(h.key) \o <<18>> \o Block(h.value)

\* One turn of the loop over a header: key and value are those of the last
\* fields 1 and 2, other fields are passed over.
headerTurn(bytes, h) ==
    LET f == readField(<<2, 2>>, SubSeq(bytes, h.offset + 1, Len(bytes)))
    IN  IF ~h.ok \/ h.offset = Len(bytes) THEN h
        ELSE IF f = Bad THEN [h EXCEPT !.ok = FALSE]
        ELSE [offset |-> h.offset + f.size,
              key |-> IF f.num = 1 THEN f.value ELSE h.key,
              value |-> IF f.num = 2 THEN f.value ELSE h.value,
              ok |-> TRUE]

NoHeader == [offset |-> 0, key |-> <<>>, value |-> <<>>, ok |-> TRUE]

\* A turn takes a byte at least, so that many turns are enough.
unmarshalHeader(bytes) ==
    LET h[n \in 0 .. Len(bytes)] == IF n = 0 THEN NoHeader ELSE headerTurn(bytes, h[n - 1])
    IN  h[Len(bytes)]

\* The encoded fields of a frame, in order.
Fields(f) ==
    <<<<8>> \o encodeVarint[f.seqID],
      <<16>> \o encodeVarint[f.logID],
      <<24>> \o encodeVarint[f.service % Word],
      <<32>> \o encodeVarint[f.method % Word]>>
    \o [i \in DOMAIN f.headers |-> <<42>> \o Block(marshalHeader(f.headers[i]))]
    \o <<<<50>> \o Block(f.payloadEncoding), <<58>> \o Block(f.payloadType)>>
    \o (IF f.payload = Nil THEN <<>> ELSE <<<<66>> \o Block(f.payload)>>)
    \o <<<<74>> \o Block(f.logIDNew)>>

Empty ==
    [seqID |-> 0, logID |-> 0, service |-> 0, method |-> 0, headers |-> <<>>,
     payloadEncoding |-> <<>>, payloadType |-> <<>>, payload |-> Nil, logIDNew |-> <<>>]

Wires == <<0, 0, 0, 0, 2, 2, 2, 2, 2>>

Signed(v) == IF v % Word < Word \div 2 THEN v % Word ELSE (v % Word) - Word

----------------------------------------------------------------------------
(* What may be sent.                                                        *)

Bytes == Seq(0 .. 255)
Signeds == -(Word \div 2) .. (Word \div 2) - 1

\* The type of a frame, and lengths that can be written.
FrameType ==
    [seqID : 0 .. Largest, logID : 0 .. Largest, service : Signeds, method : Signeds,
     headers : Seq([key : Bytes, value : Bytes]), payloadEncoding : Bytes,
     payloadType : Bytes, payload : Bytes \cup {Nil}, logIDNew : Bytes]

Fits(f) ==
    /\ Len(f.payloadEncoding) <= Largest /\ Len(f.payloadType) <= Largest
    /\ Len(f.logIDNew) <= Largest /\ (f.payload # Nil => Len(f.payload) <= Largest)
    /\ \A i \in DOMAIN f.headers :
          /\ Len(f.headers[i].key) <= Largest /\ Len(f.headers[i].value) <= Largest
          /\ Len(marshalHeader(f.headers[i])) <= Largest

\* Numbers below 2^70 fit into the ten bytes of encodeVarint, and words and
\* lengths are numbers.  An unknown field is a field, whose number is not one
\* of the known ones.
ConstantsAreFrames ==
    /\ Largest \in Nat /\ ((Largest \div 2097152) \div 2097152) \div 2097152 < 128
    /\ Word \div 2 \in Nat /\ Word = 2 * (Word \div 2) /\ Word - 1 \in 0 .. Largest
    /\ \A f \in Frames : f \in FrameType /\ Fits(f)
    /\ \A u \in Unknown : u \in Bytes /\
          LET r == readField(Wires, u) IN r # Bad /\ r.size = Len(u) /\ r.num \notin DOMAIN Wires

----------------------------------------------------------------------------
(* The transfer.                                                            *)

Init ==
    /\ sent = Empty
    /\ data = <<>>
    /\ offset = 0
    /\ frame = Empty
    /\ outcome = "idle"

\* Marshal; the bytes arrive whole.
Arrives ==
    /\ outcome = "idle"
    /\ \E f \in Frames : sent' = f /\ data' = FlattenSeq(Fields(f))
    /\ outcome' = "reading"
    /\ UNCHANGED <<offset, frame>>

\* They arrive with a field more.
ArrivesExtended ==
    /\ outcome = "idle"
    /\ \E f \in Frames, u \in Unknown : \E i \in 1 .. Len(Fields(f)) + 1 :
        sent' = f /\ data' = FlattenSeq(InsertAt(Fields(f), i, u))
    /\ outcome' = "reading"
    /\ UNCHANGED <<offset, frame>>

\* They end early.
ArrivesCut ==
    /\ outcome = "idle"
    /\ \E f \in Frames : LET whole == FlattenSeq(Fields(f)) IN
        \E n \in 0 .. Len(whole) - 1 : sent' = f /\ data' = SubSeq(whole, 1, n)
    /\ outcome' = "reading"
    /\ UNCHANGED <<offset, frame>>

Filled(to, num, value) ==
    CASE num = 1 -> [to EXCEPT !.seqID = value]
      [] num = 2 -> [to EXCEPT !.logID = value]
      [] num = 3 -> [to EXCEPT !.service = Signed(value)]
      [] num = 4 -> [to EXCEPT !.method = Signed(value)]
      [] num = 5 -> LET h == unmarshalHeader(value)
                    IN  [to EXCEPT !.headers = Append(@, [key |-> h.key, value |-> h.value])]
      [] num = 6 -> [to EXCEPT !.payloadEncoding = value]
      [] num = 7 -> [to EXCEPT !.payloadType = value]
      [] num = 8 -> [to EXCEPT !.payload = value]
      [] num = 9 -> [to EXCEPT !.logIDNew = value]
      [] OTHER -> to

\* One turn of the loop of Unmarshal.
Unmarshal ==
    /\ outcome = "reading"
    /\ LET f == readField(Wires, SubSeq(data, offset + 1, Len(data))) IN
        IF offset = Len(data) THEN outcome' = "ok" /\ UNCHANGED <<offset, frame>>
        ELSE IF f = Bad \/ (f.num = 5 /\ ~unmarshalHeader(f.value).ok)
        THEN outcome' = "error" /\ UNCHANGED <<offset, frame>>
        ELSE /\ offset' = offset + f.size
             /\ frame' = Filled(frame, f.num, f.value)
             /\ UNCHANGED outcome
    /\ UNCHANGED <<sent, data>>

Next == Arrives \/ ArrivesExtended \/ ArrivesCut \/ Unmarshal

Spec == Init /\ [][Next]_vars

----------------------------------------------------------------------------
(* Properties.                                                              *)

\* A frame that arrives whole is decoded to what was sent: every number with
\* its sign, headers in order, an absent payload as absent; and a field that
\* the decoder does not know changes nothing.
RoundTrip ==
    /\ outcome = "ok" /\ Len(data) >= Len(FlattenSeq(Fields(sent))) => frame = sent
    /\ outcome = "error" => Len(data) < Len(FlattenSeq(Fields(sent)))

\* Bytes that end in the middle of a field are refused; if they end between
\* two fields, the fields that have arrived have the values that were sent and
\* the others are empty.
PartialIsHonest ==
    outcome = "ok" =>
        /\ \A k \in DOMAIN frame \ {"headers"} : frame[k] \in {sent[k], Empty[k]}
        /\ IsPrefix(frame.headers, sent.headers)

\* What is decoded is what was sent, as far as it has arrived.
DecodedIsSent == RoundTrip /\ PartialIsHonest
=============================================================================
