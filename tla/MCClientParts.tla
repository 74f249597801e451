---------------------------- MODULE MCClientParts ----------------------------
(* A small instance of each part of the client.                             *)
(*   daemon   two requests for two queries, one slot, one connection        *)
(*   probe    two steps, a key that the cuts split, refusals in both forms, *)
(*            one or two tools in a turn                                    *)
(*   ask      one command and one query                                     *)
(*   process  three processes after each other, two looks of daemon stop    *)
EXTENDS ClientParts, Sequences

CONSTANTS q1, q2, r1, r2

MCQueries == {q1, q2}
MCRequests == {r1, r2}
MCDistinct == [r \in MCRequests |-> IF r = r1 THEN q1 ELSE q2]

MCTexts == {<<>>, <<"t", "k1", "k2">>, <<"REFUSED">>, <<"REFUSED", "t", "k1", "k2">>}
MCOutputs == {<<"t">>, <<"t", "k1", "k2">>}
MCBatches == {<<>>, <<"read_file">>, <<"read_file", "unknown">>, <<"read_file", "refuse">>}
==============================================================================
