------------------------------- MODULE HubParts -------------------------------
(* Parts of the Hub side by side: the submission of a query with its retries *)
(* and its rate limiter (Submission), the sessions (HubSessions) and the     *)
(* replies of the bot (FeishuReplies).  They share no state: part says which *)
(* of them runs, and the others stay in their initial state.                 *)
EXTENDS HubSessions, Submission

CONSTANTS Replies, Clients, MaxTokens

VARIABLES
    part,
    at, client, attempt, using, rejected, current, token, fresh, mu, valid, issued

submissionVars == vars
replyVars == <<at, client, attempt, using, rejected, current, token, fresh, mu, valid, issued>>
partVars == <<part, submissionVars, sessionVars, replyVars>>

Bot == INSTANCE FeishuReplies

ASSUME RepliesAssumption == Bot!ConstantsAreDistinct

PartsInit ==
    /\ part \in {"submission", "sessions", "replies"}
    /\ Init
    /\ InitSessions
    /\ Bot!Init

SubmissionStep == part = "submission" /\ Next
                  /\ UNCHANGED <<part, sessionVars, replyVars>>
SessionsStep == part = "sessions" /\ NextSessions
                /\ UNCHANGED <<part, submissionVars, replyVars>>
RepliesStep == part = "replies" /\ Bot!Next
               /\ UNCHANGED <<part, submissionVars, sessionVars>>

PartsNext == SubmissionStep \/ SessionsStep \/ RepliesStep

\* No fair step is enabled in the initial state of a part, so that the
\* conditions oblige the part that runs only.
PartsSpec ==
    /\ PartsInit /\ [][PartsNext]_partVars
    /\ Fairness /\ GoroutinesRun /\ Bot!Fairness

\* The cached token only moves forward (FeishuReplies).
TokensMoveForward == Bot!TokensMoveForward
\* Every reply that begins comes to an end (FeishuReplies).
RepliesEnd == Bot!RepliesEnd
===============================================================================
