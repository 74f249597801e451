--------------------------- MODULE QueryLifecycle ---------------------------
(* What the Hub and its Store promise about one query, whatever handlers,   *)
(* daemons, sweeps, crashes and compactions do: the abstract specification  *)
(* that QueryStore and HubDispatch implement.  A step may move several      *)
(* queries at once (a sweep does), each along one of the edges below.       *)
(*                                                                          *)
(* The edges are those of the code.  In particular SetDispatched starts     *)
(* from every created status: UpdateQueryStatus has no guard on the status  *)
(* it replaces.                                                             *)
EXTENDS QueryStatus

CONSTANTS
    Queries,    \* query ids
    Answers,    \* answer texts
    NoAnswer    \* the empty answer

VARIABLES
    status,     \* status[q], "absent" before CreateQuery
    answer      \* answer[q], the text stored with the query

vars == <<status, answer>>

TypeOK ==
    /\ status \in [Queries -> Status]
    /\ answer \in [Queries -> Answers \cup {NoAnswer}]

Init ==
    /\ status = [q \in Queries |-> "absent"]
    /\ answer = [q \in Queries |-> NoAnswer]

----------------------------------------------------------------------------
(* The edges of one query.                                                  *)

Stay(q) ==
    /\ status'[q] = status[q]
    /\ answer'[q] = answer[q]

Create(q) ==
    /\ status[q] = "absent"
    /\ status'[q] = "queued"
    /\ answer'[q] = answer[q]

SetDispatched(q) ==
    /\ status[q] # "absent"
    /\ status'[q] = "dispatched"
    /\ answer'[q] = answer[q]

Requeue(q) ==
    /\ status[q] = "dispatched"
    /\ status'[q] = "queued"
    /\ answer'[q] = answer[q]

Expire(q) ==
    /\ status[q] \in Active
    /\ status'[q] = "expired"
    /\ answer'[q] = answer[q]

\* A response replaces the answer only when it carries one.
Respond(q) ==
    /\ status[q] # "absent"
    /\ status'[q] \in Responded
    /\ answer'[q] \in Answers \cup {answer[q]}

Move(q) ==
    \/ Stay(q)
    \/ Create(q)
    \/ SetDispatched(q)
    \/ Requeue(q)
    \/ Expire(q)
    \/ Respond(q)

Next ==
    /\ status' \in [Queries -> Status]
    /\ answer' \in [Queries -> Answers \cup {NoAnswer}]
    /\ \A q \in Queries : Move(q)

Spec == Init /\ [][Next]_vars
=============================================================================
