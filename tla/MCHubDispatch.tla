---------------------------- MODULE MCHubDispatch ----------------------------
(* One target member.  The configurations choose the machines, the sessions *)
(* and which queries are waited for, polled or asked through Feishu.        *)
EXTENDS HubDispatch, TLC

CONSTANTS alice, bob, laptop, desktop, q1, q2

Alice == {alice}
Both == {alice, bob}
OneMachine == {laptop}
TwoMachines == {laptop, desktop}
AllAlices == [k \in Machines |-> alice]
OneEach == [k \in Machines |-> IF k = laptop THEN alice ELSE bob]

OneQuery == {q1}
TwoQueries == {q1, q2}
ForAlice == [q \in Queries |-> alice]
ForEach == [q \in Queries |-> IF q = q1 THEN alice ELSE bob]

\* Connections are interchangeable: no daemon is singled out in Quitting.
SessionSymmetry == Permutations(Sessions)
==============================================================================
