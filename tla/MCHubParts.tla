------------------------------ MODULE MCHubParts ------------------------------
(* A small instance of each part of the Hub.                                 *)
(*   submission  four attempts of one client under one key                   *)
(*   sessions    two members, one of them with two machines, and enough      *)
(*               connections for a machine to be superseded while another    *)
(*               one of its member is live                                   *)
(*   replies     two replies of the Feishu bot, a client that is replaced    *)
(*               once, three tokens                                          *)
EXTENDS HubParts

CONSTANTS k1, alice, bob, laptop, desktop, bobs

OneKey == {k1}
SameKey == [a \in Attempts |-> k1]

MCMembers == {alice, bob}
MCMachines == {laptop, desktop, bobs}
MCOwner == [k \in MCMachines |-> IF k = bobs THEN bob ELSE alice]
===============================================================================
