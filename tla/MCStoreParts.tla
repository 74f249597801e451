----------------------------- MODULE MCStoreParts -----------------------------
(* A small instance of each part of the Store.                               *)
(*   queries  two queries to one member, so that queues have an order, and a *)
(*            clock long enough to create, expire and respond at different   *)
(*            ticks                                                          *)
(*   members  two invites, two members, one alternative of each attribute    *)
(*   target   two members with names and aliases that contain each other,    *)
(*            one change of a profile                                        *)
(*   audit    two members, three queries, page sizes up to the largest int   *)
EXTENDS StoreParts

CONSTANTS m1, m2, a1, k1

MCMembers == {m1, m2}

MCQueries == {1, 2}
MCTarget == [q \in MCQueries |-> m1]
MCAnswers == {a1}
MCTTL == {1}

\* The loop computes what SelectSeq does.
ASSUME KeptIsSelectSeq ==
    \A S \in SUBSET (1 .. 3) : \A line \in SeqOf(1 .. 3, 4) :
        Kept(line, S) = SelectSeq(line, LAMBDA q : q \in S)

MCMachines == {k1}

\* Texts are sequences of characters; c is a wide one.
MCNames == {<<>>, <<"a">>, <<"a", "b">>, <<"c">>}
MCAliasSets == {{}, {<<"a">>}, {<<"c">>}, {<<"a", "b">>}}
MCQuestions == {<<"a">>, <<"a", "b">>, <<"a", "b", "c">>}
===============================================================================
