--------------------------- MODULE DaemonContract ---------------------------
(***************************************************************************)
(* What a client daemon promises the Hub for every query_request it is     *)
(* sent: at most one query_response, and one for certain unless there is   *)
(* an excuse (the connection is lost, the query is cancelled, the daemon   *)
(* is stopping).  HubDispatch relies on it: there a request behind a live  *)
(* connection is answered, cancelled, declined by a stopping daemon or     *)
(* dies with the connection.                                               *)
(***************************************************************************)

CONSTANT Requests

VARIABLES life, excused

contractVars == <<life, excused>>

Init ==
    /\ life = [r \in Requests |-> "absent"]
    /\ excused = {}

\* Several requests may change at once: a lost connection excuses all of its own.
Next ==
    /\ excused \subseteq excused'
    /\ life' = [r \in Requests |-> life'[r]]
    /\ \A r \in Requests :
          \/ life'[r] = life[r]
          \/ life[r] = "absent" /\ life'[r] = "open"
          \/ life[r] = "open" /\ life'[r] = "answered"
          \/ life[r] = "open" /\ life'[r] = "dropped" /\ r \in excused'

Spec == Init /\ [][Next]_contractVars

\* No request is left open for ever without an excuse.
Served == \A r \in Requests : life[r] = "open" ~> (life[r] # "open" \/ r \in excused)
=============================================================================
