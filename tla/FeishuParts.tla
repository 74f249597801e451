----------------------------- MODULE FeishuParts -----------------------------
(* Parts of the Feishu bot side by side: the reception of events            *)
(* (FeishuEvents) and the codec of the frames (FrameCodec).  They share no  *)
(* state: part says which of them runs, and the other stays in its initial  *)
(* state.                                                                   *)
EXTENDS FeishuEvents

CONSTANTS Frames, Unknown, Word, Largest

VARIABLES
    part,
    sent, data, offset, frame, outcome

eventVars == vars
codecVars == <<sent, data, offset, frame, outcome>>
partVars == <<part, eventVars, codecVars>>

Codec == INSTANCE FrameCodec WITH Nil <- None

ASSUME CodecAssumption == Codec!ConstantsAreFrames

PartsInit ==
    /\ part \in {"events", "codec"}
    /\ Init
    /\ Codec!Init

InEvents(A) == part = "events" /\ A /\ UNCHANGED <<part, codecVars>>
InCodec(A) == part = "codec" /\ A /\ UNCHANGED <<part, eventVars>>

PartsNext == InEvents(Next) \/ InCodec(Codec!Next)

\* The fairness of FeishuEvents, if it is the part that runs.
PartsSpec ==
    /\ PartsInit /\ [][PartsNext]_partVars
    /\ \A e \in Events :
        /\ WF_vars(InEvents(Deliver(e))) /\ SF_vars(InEvents(EntryAges(e)))
        /\ SF_vars(InEvents(\E f \in frames : f.event = e /\ ProcessFrame(f)))
    /\ \A s \in Slots : WF_vars(InEvents(Handle(s)))

\* Every accepted event is acknowledged in the end (FeishuEvents).
EventsAcknowledged == part = "events" => AcknowledgedInTheEnd

\* What is decoded is what was sent, as far as it has arrived (FrameCodec).
DecodedIsSent == Codec!DecodedIsSent
==============================================================================
