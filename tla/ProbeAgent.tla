----------------------------- MODULE ProbeAgent -----------------------------
(* One run of the probe agent (internal/probe/probe.go): the loop of        *)
(* requests to the model and executions of tools, the structured and the    *)
(* textual refusal, the summary when the steps are used up, and the         *)
(* redaction and truncation of what leaves the machine.  The conversion of  *)
(* the conversation to the Anthropic dialect (internal/probe/llm) is part   *)
(* of it, because that API accepts a tool call only if the next message     *)
(* answers it.                                                              *)
(*                                                                          *)
(* The model and the tools are external: they answer with anything.  A text *)
(* is a sequence of cells; the cells "k1", "k2" next to each other are a    *)
(* key that the redactor knows, and neither half is one on its own.         *)
EXTENDS Integers, SequencesExt

CONSTANTS
    MaxSteps,   \* LLMConfig.Steps
    MaxAnswer,  \* MaxAnswerBytes, in cells
    MaxOutput,  \* MaxToolOutputBytes, in cells
    Texts,      \* texts of the model, with the empty one
    Outputs,    \* outputs of the tools
    Batches     \* lists of tool names the model may call in one turn

VARIABLES
    pc,         \* where Run is
    step,       \* step of the loop
    ctx,        \* "none", or the error of the context
    messages,   \* the conversation
    todo,       \* tool calls of the turn that have not been executed
    requests,   \* ghost: requests sent to the model
    usage,      \* responses counted in totalUsage
    used,       \* toolsUsedMap
    answer,     \* finalAnswer
    failure,    \* executionErr
    refusing,   \* ghost: the model has called the refuse tool
    result      \* the QueryResponsePayload

vars == <<pc, step, ctx, messages, todo, requests, usage, used, answer, failure, refusing, result>>

\* A half of a key occurs only next to the other.
WholeKeys(text) ==
    \A i \in DOMAIN text :
        /\ text[i] = "k1" => i < Len(text) /\ text[i + 1] = "k2"
        /\ text[i] = "k2" => i > 1 /\ text[i - 1] = "k1"

\* The limits are numbers; texts, outputs and lists of names are sequences.
\* Where the model quotes a key, it quotes all of it.
ConstantsAreTyped ==
    /\ {MaxSteps, MaxAnswer, MaxOutput} \subseteq Nat
    /\ \A s \in Texts \cup Outputs \cup Batches : s \in Seq(ToSet(s))
    /\ \A text \in Texts : WholeKeys(text)

Pending == [status |-> "pending", answer |-> <<>>]

User(text) == [role |-> "user", content |-> text, calls |-> <<>>, id |-> <<>>]
Assistant(text, calls) == [role |-> "assistant", content |-> text, calls |-> calls, id |-> <<>>]
Tool(id, text) == [role |-> "tool", content |-> text, calls |-> <<>>, id |-> id]

Init ==
    /\ pc = "start"
    /\ step = 0
    /\ ctx = "none"
    /\ messages = <<User(<<"question">>)>>
    /\ todo = <<>>
    /\ requests = 0
    /\ usage = 0
    /\ used = {}
    /\ answer = <<>>
    /\ failure = "none"
    /\ refusing = FALSE
    /\ result = Pending

----------------------------------------------------------------------------
(* Redaction and truncation.                                                *)

Redact(text) ==
    LET out[n \in 0 .. Len(text)] ==
            IF n = 0 THEN <<>>
            ELSE IF text[n] = "k2" /\ out[n - 1] # <<>> /\ Last(out[n - 1]) = "k1"
            THEN Append(Front(out[n - 1]), "redacted") ELSE Append(out[n - 1], text[n])
    IN  out[Len(text)]

Truncate(text, max) ==
    IF Len(text) <= max THEN text ELSE Append(SubSeq(text, 1, max), "truncated")

\* Mutant: the answer is cut before it is redacted.
OutgoingCutFirst(text) == Redact(Truncate(text, MaxAnswer))

\* What leaves the machine is redacted and then cut.
Outgoing(text) == Truncate(Redact(text), MaxAnswer)

\* The output of a tool is cut to its cap and then redacted.
ToolOutput(text) == Redact(Truncate(text, MaxOutput))

----------------------------------------------------------------------------
(* The run.                                                                 *)

Return(status, text) ==
    /\ result' = [status |-> status, answer |-> Outgoing(text)]
    /\ pc' = "done"

\* No workspace with a root, or no provider: an error without a request.
Start ==
    /\ pc = "start"
    /\ \/ pc' = "top" /\ UNCHANGED result
       \/ Return("error", <<>>)
    /\ UNCHANGED <<step, ctx, messages, todo, requests, usage, used, answer, failure, refusing>>

\* The deadline passes or the caller cancels.
ContextEnds ==
    /\ pc \notin {"start", "done"} /\ ctx = "none"
    /\ ctx' \in {"deadline", "canceled"}
    /\ UNCHANGED <<pc, step, messages, todo, requests, usage, used, answer, failure, refusing, result>>

\* The head of the loop.
Top ==
    /\ pc = "top"
    /\ IF step >= MaxSteps THEN pc' = "summary" /\ UNCHANGED failure
       ELSE IF ctx # "none" THEN pc' = "finish" /\ failure' = ctx
       ELSE pc' = "chat" /\ UNCHANGED failure
    /\ UNCHANGED <<step, ctx, messages, todo, requests, usage, used, answer, refusing, result>>

\* The request fails, in particular because the context has ended.
ChatFails ==
    /\ pc = "chat"
    /\ pc' = "finish"
    /\ requests' = requests + 1
    /\ failure' = IF ctx = "none" THEN "failed" ELSE ctx
    /\ UNCHANGED <<step, ctx, messages, todo, usage, used, answer, refusing, result>>

\* A call of the refuse tool anywhere in the turn is a refusal.
Refuses(calls) == Contains(calls, "refuse")

\* The response: a refusal with the reason of the call, or else what the model
\* said; a final text; or tool calls to execute.
Answered(text, calls) ==
    /\ pc = "chat"
    /\ requests' = requests + 1
    /\ usage' = usage + 1
    /\ refusing' = Contains(calls, "refuse")
    /\ IF Refuses(calls)
       THEN /\ \E reason \in Texts :
                Return("refused", IF reason # <<>> THEN reason
                                  ELSE IF text # <<>> THEN text ELSE <<"reason">>)
            /\ UNCHANGED <<messages, todo, answer>>
       ELSE IF calls = <<>>
       THEN /\ answer' = text
            /\ pc' = IF text = <<>> THEN "summary" ELSE "finish"
            /\ UNCHANGED <<messages, todo, result>>
       ELSE /\ messages' = Append(messages,
                Assistant(text, [i \in DOMAIN calls |-> <<step, i>>]))
            /\ todo' = [i \in DOMAIN calls |-> [id |-> <<step, i>>, name |-> calls[i]]]
            /\ pc' = "tools"
            /\ UNCHANGED <<answer, result>>
    /\ UNCHANGED <<step, ctx, used, failure>>

\* The model answers.
Chat == \E text \in Texts, calls \in Batches : Answered(text, calls)

\* A tool is executed; an unknown one and a failing one answer as well.
ExecuteTool ==
    /\ pc = "tools"
    /\ \E text \in Outputs :
        messages' = Append(messages, Tool(Head(todo).id, ToolOutput(text)))
    /\ used' = used \cup {Head(todo).name}
    /\ todo' = Tail(todo)
    /\ IF todo' = <<>> THEN pc' = "top" /\ step' = step + 1 ELSE UNCHANGED <<pc, step>>
    /\ UNCHANGED <<ctx, requests, usage, answer, failure, refusing, result>>

\* The last thing the model said along with its tool calls.
LastSaid ==
    LET said == {i \in 1 .. Len(messages) :
                    messages[i].role = "assistant" /\ messages[i].content # <<>>}
    IN  IF said = {} THEN <<"step limit">> ELSE messages[Max(said)].content

\* The request for a summary, without tools; a failed or an empty one is
\* replaced by what the model said last.
Summary ==
    /\ pc = "summary"
    /\ pc' = "finish"
    /\ requests' = requests + 1
    /\ \/ \E text \in Texts \ {<<>>} : answer' = text /\ usage' = usage + 1
       \/ answer' = LastSaid /\ UNCHANGED usage
    /\ UNCHANGED <<step, ctx, messages, todo, used, failure, refusing, result>>

Finish ==
    /\ pc = "finish"
    /\ IF failure # "none"
       THEN Return(IF "deadline" \in {failure, ctx} THEN "timeout" ELSE "error", <<>>)
       ELSE IF Head(answer) = "REFUSED"
       THEN Return("refused", IF Tail(answer) = <<>> THEN <<"reason">> ELSE Tail(answer))
       ELSE Return("completed", answer)
    /\ UNCHANGED <<step, ctx, messages, todo, requests, usage, used, answer, failure, refusing>>

Work == Start \/ Top \/ ChatFails \/ Chat \/ ExecuteTool \/ Summary \/ Finish

Next == Work \/ ContextEnds

Fairness == WF_vars(Work)

Spec == Init /\ [][Next]_vars /\ Fairness

----------------------------------------------------------------------------
(* The Anthropic dialect: "tool" messages become blocks of user messages.   *)

Request == IF pc = "summary" THEN Append(messages, User(<<"summarise">>)) ELSE messages

\* One message of the conversation, after those that are converted: a tool
\* result joins the user message before it, anything else is a new message.
Convert(converted, m) ==
    IF m.role = "tool" /\ converted # <<>> /\ Last(converted).role = "user"
    THEN [converted EXCEPT ![Len(converted)].results = Append(@, m.id)]
    ELSE Append(converted,
            [role |-> IF m.role = "assistant" THEN "assistant" ELSE "user", uses |-> m.calls,
             results |-> IF m.role = "tool" THEN <<m.id>> ELSE <<>>])

\* The loop over a conversation.
ConvertAll(conversation) ==
    LET out[n \in 0 .. Len(conversation)] ==
            IF n = 0 THEN <<>> ELSE Convert(out[n - 1], conversation[n])
    IN  out[Len(conversation)]

Converted == ConvertAll(Request)

----------------------------------------------------------------------------
(* Properties.                                                              *)

Asking == pc \in {"chat", "summary"}

\* The type of a run's state.
TypeOK ==
    /\ pc \in {"start", "top", "chat", "tools", "summary", "finish", "done"}
    /\ step \in 0 .. MaxSteps
    /\ ctx \in {"none", "deadline", "canceled"}
    /\ usage \in 0 .. requests
    /\ failure \in {"none", "deadline", "canceled", "failed"}
    /\ refusing \in BOOLEAN
    /\ result.status \in {"pending", "completed", "refused", "timeout", "error"}

\* Whatever the model calls, each request answers the calls of every turn in
\* the message after them, each once and in their order: otherwise the API
\* rejects the whole conversation.
CallsAreAnswered ==
    Asking => \A i \in DOMAIN Converted : Converted[i].uses # <<>> =>
        /\ i < Len(Converted)
        /\ Converted[i + 1].results = Converted[i].uses

\* The model is asked at most once per step, and once more for the summary.
RequestsAreBounded == requests <= MaxSteps + 1

\* A refusal ends the run as refused: no tool of its turn is executed and
\* nothing is asked any more, wherever in the turn the refuse call stands.
RefusalIsFinal ==
    refusing => pc = "done" /\ result.status = "refused" /\ "refuse" \notin used

\* Of a key that the model quotes nothing leaves the machine, neither all of
\* it nor the half that the truncation would leave.
AnswerIsRedacted == ~Contains(result.answer, "k1") /\ ~Contains(result.answer, "k2")

\* A run keeps its budget, its refusal, the rules of the API and the secrets.
ProbeIsSafe ==
    /\ TypeOK
    /\ CallsAreAnswered
    /\ RequestsAreBounded
    /\ RefusalIsFinal
    /\ AnswerIsRedacted

\* Every run ends with a result.
RunEnds == <>(pc = "done")
=============================================================================
