------------------------------ MODULE AskLoop ------------------------------
(* talkintent ask, from the submission to the exit code (ExecuteAsk and     *)
(* renderQueryOutcome in internal/cli/ask.go).  The Hub is the environment: *)
(* it accepts, rejects, and moves the query on while the client polls; the  *)
(* network loses answers, and a proxy answers with something else.          *)
EXTENDS FiniteSets

CONSTANTS
    Outcomes,   \* final statuses of a query
    None

VARIABLES
    pc,         \* where ExecuteAsk is
    wait,       \* RunAskOptions.Wait
    late,       \* the deadline of the client has passed
    interrupted,\* the context is cancelled
    query,      \* the status of the query at the Hub
    had,        \* ghost: the statuses it has had
    reply,      \* the status in the last answer of the Hub
    exit        \* the exit code

vars == <<pc, wait, late, interrupted, query, had, reply, exit>>

InFlight == {"pending", "queued", "dispatched"}

\* What the values of the constants must keep apart.
ConstantsAreDistinct == None # 0 /\ "absent" \notin Outcomes

Init ==
    /\ pc = "start"
    /\ wait = FALSE
    /\ late = FALSE
    /\ interrupted = FALSE
    /\ query = "absent"
    /\ had = {}
    /\ reply = None
    /\ exit = None

Exit(code) == pc' = "done" /\ exit' = code

----------------------------------------------------------------------------
(* The surroundings.                                                        *)

\* The Hub dispatches, requeues or ends the query.
HubMoves ==
    /\ query \in InFlight /\ pc # "done"
    /\ query' \in InFlight \cup Outcomes
    /\ had' = had \cup {query'}
    /\ UNCHANGED <<pc, wait, late, interrupted, reply, exit>>

\* The timeout of the command passes.
Deadline ==
    /\ pc \in {"poll", "sleep", "answered"} /\ ~late
    /\ late' = TRUE
    /\ UNCHANGED <<pc, wait, interrupted, query, had, reply, exit>>

\* Ctrl+C.
Interrupt ==
    /\ pc \in {"submitted", "poll", "sleep"} /\ ~interrupted
    /\ interrupted' = TRUE
    /\ UNCHANGED <<pc, wait, late, query, had, reply, exit>>

----------------------------------------------------------------------------
(* ExecuteAsk.                                                              *)

\* Only an answered query is a success; an error body has no status.
renderQueryOutcome(status) == Exit(IF status \in {"completed", "success"} THEN 0 ELSE 1)

\* No pairing, no question, no target, no HTTP client: nothing is sent.
Refuse ==
    /\ pc = "start"
    /\ Exit(1)
    /\ UNCHANGED <<wait, late, interrupted, query, had, reply>>

Send ==
    /\ pc = "start"
    /\ pc' = "submitted"
    /\ wait' \in BOOLEAN
    /\ UNCHANGED <<late, interrupted, query, had, reply, exit>>

\* The Hub creates the query; until it answers, the query moves on.
HubAccepts ==
    /\ pc = "submitted" /\ query = "absent"
    /\ query' = "queued"
    /\ had' = {"queued"}
    /\ UNCHANGED <<pc, wait, late, interrupted, reply, exit>>

\* The request or its answer is lost, the Hub rejects the query, or the
\* answer cannot be decoded: the query may exist all the same.
SubmitFails ==
    /\ pc = "submitted"
    /\ Exit(1)
    /\ UNCHANGED <<wait, late, interrupted, query, had, reply>>

\* The statuses that end the command in the answer to the submission.
Final == {"completed", "success", "refused", "error"}

\* The answer to the submission: the query with the status it has, or with
\* one it had when the Hub's own wait ended.
Submitted ==
    /\ pc = "submitted" /\ ~interrupted /\ query # "absent"
    /\ reply' \in {query} \cup (had \cap InFlight)
    /\ IF reply' \in Final THEN renderQueryOutcome(reply')
       ELSE IF ~wait THEN Exit(0)
       ELSE pc' = "poll" /\ UNCHANGED exit
    /\ UNCHANGED <<wait, late, interrupted, query, had>>

\* The poll fails, or its answer cannot be decoded: after a second the next.
PollFails ==
    /\ pc = "poll" /\ ~late /\ ~interrupted
    /\ pc' = "sleep"
    /\ UNCHANGED <<wait, late, interrupted, query, had, reply, exit>>

Wake ==
    /\ pc = "sleep"
    /\ pc' = "poll"
    /\ UNCHANGED <<wait, late, interrupted, query, had, reply, exit>>

\* A poll under a cancelled context.
PollInterrupted ==
    /\ pc = "poll" /\ ~late /\ interrupted
    /\ Exit(130)
    /\ UNCHANGED <<wait, late, interrupted, query, had, reply>>

\* The poll is answered: with the status, or with an error body.
Poll ==
    /\ pc = "poll" /\ ~late /\ ~interrupted
    /\ reply' \in {query, "no status"}
    /\ pc' = "answered"
    /\ UNCHANGED <<wait, late, interrupted, query, had, exit>>

\* Mutant: a dispatched query counts as finished.
PollAnsweredDispatched ==
    /\ pc = "answered"
    /\ IF reply \in InFlight \ {"dispatched"} THEN pc' = "poll" /\ UNCHANGED exit
       ELSE renderQueryOutcome(reply)
    /\ UNCHANGED <<wait, late, interrupted, query, had, reply>>

\* Anything but a status in flight ends the command.
PollAnswered ==
    /\ pc = "answered"
    /\ IF reply \in InFlight THEN pc' = "poll" /\ UNCHANGED exit
       ELSE renderQueryOutcome(reply)
    /\ UNCHANGED <<wait, late, interrupted, query, had, reply>>

TimedOut ==
    /\ pc = "poll" /\ late
    /\ Exit(1)
    /\ UNCHANGED <<wait, late, interrupted, query, had, reply>>

\* The steps of the command that end in bounded time.
Work == Refuse \/ Send \/ SubmitFails \/ Submitted \/ Poll \/ PollInterrupted \/ PollAnswered \/ Wake
        \/ TimedOut

Next == Work \/ PollFails \/ HubAccepts \/ HubMoves \/ Deadline \/ Interrupt

\* The requests have timeouts of their own, and the deadline passes.
Fairness == WF_vars(Work) /\ WF_vars(Deadline)

Spec == Init /\ [][Next]_vars /\ Fairness

----------------------------------------------------------------------------
(* Properties.                                                              *)

\* The type of the state.
TypeOK ==
    /\ pc \in {"start", "submitted", "poll", "sleep", "answered", "done"}
    /\ {wait, late, interrupted} \subseteq BOOLEAN
    /\ query \in {"absent"} \cup InFlight \cup Outcomes
    /\ had \subseteq InFlight \cup Outcomes
    /\ reply \in {None, "no status"} \cup InFlight \cup Outcomes
    /\ exit \in {None, 0, 1, 130}

\* A script that sees exit code 0 can rely on it: with --wait the teammate's
\* answer has been printed, without it the Hub has the query.
SuccessIsReal ==
    exit = 0 =>
        /\ query # "absent"
        /\ wait => had \cap {"completed", "success"} # {}

\* The command waits as long as the query is in flight: it gives up on an
\* accepted query only for a final status, for the deadline, for an answer
\* without a status, or when it is interrupted.
WaitsWhileInFlight ==
    (exit # None /\ wait /\ reply # None) =>
        late \/ interrupted \/ reply = "no status" \/ had \cap Outcomes # {}

\* The exit code tells the truth, and the command does not give up early.
AskIsHonest == TypeOK /\ SuccessIsReal /\ WaitsWhileInFlight

\* The command ends, whatever the Hub and the network do.
AskEnds == <>(exit # None)
=============================================================================
