---------------------------- MODULE MCFeishuParts ----------------------------
(* A small instance of the parts of the Feishu bot.                         *)
(*   events   a question in two or three fragments and an event that is not *)
(*            JSON; the Deduplicator is smaller than the ids it meets       *)
(*   codec    frames with numbers of one to three bytes, with and without   *)
(*            headers and payload, and an unknown field of each wire type   *)
EXTENDS FeishuParts

CONSTANTS e1, bad, m1, m2

MessageOf == [e \in Events |-> IF e = e1 THEN m1 ELSE m2]
KindOf == [e \in Events |-> IF e = bad THEN "bad" ELSE "question"]
SumsOf == [e \in Events |-> IF e = e1 THEN {2, 3} ELSE {1}]

Full ==
    [seqID |-> 300, logID |-> 16384, service |-> -1, method |-> 1,
     headers |-> <<[key |-> <<1>>, value |-> <<2, 3>>], [key |-> <<4>>, value |-> <<>>]>>,
     payloadEncoding |-> <<5>>, payloadType |-> <<>>,
     payload |-> [i \in 1 .. 130 |-> 7], logIDNew |-> <<200>>]

MCFrames ==
    {Full,
     [Full EXCEPT !.payload = <<>>, !.seqID = 127, !.logID = 128, !.service = -300],
     [Full EXCEPT !.payload = None, !.headers = <<>>]}

\* Field 10 with each wire type: a number, 8 bytes, a block, 4 bytes.
MCUnknown ==
    {<<80, 128, 1>>, <<81, 1, 2, 3, 4, 5, 6, 7, 8>>, <<82, 2, 9, 9>>, <<85, 1, 2, 3, 4>>}
==============================================================================
