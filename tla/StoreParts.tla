------------------------------ MODULE StoreParts ------------------------------
(* The parts of the Store side by side: the queries (QueryStore), invites,   *)
(* members and bindings (MemberStore), the choice of the member who is asked *)
(* (Directory) and the pages of the history (AuditPages).  They share no     *)
(* state: part says which of them runs, and the others stay in their initial *)
(* state.                                                                    *)
EXTENDS QueryStore

CONSTANTS
    None,
    Invites, DisplayNames, Aliases, Machines, Creds, Faults,
    Names, AliasSets, Questions, Wide, MaxRenames,
    MaxQueries, MaxInt, Limits, Skips, DefaultLimit

VARIABLES
    part,
    mem, log, open, expired, drawn, acked,
    whoPc, directory, renames, question, fetched, chosen, target, asked,
    inboundAudit, outboundAudit, next, reader, offset, seen, expected

queryVars == vars
memberVars == <<mem, log, open, expired, drawn, acked>>
targetVars == <<whoPc, directory, renames, question, fetched, chosen, target, asked>>
auditVars == <<inboundAudit, outboundAudit, next, reader, offset, seen, expected>>
partVars == <<part, queryVars, memberVars, targetVars, auditVars>>

Team == INSTANCE MemberStore WITH Names <- DisplayNames

Who == INSTANCE Directory WITH pc <- whoPc

Audit == INSTANCE AuditPages

ASSUME PartsAssumption ==
    /\ Team!ConstantsAreDistinct
    /\ Who!ConstantsAreDistinct
    /\ Audit!ConstantsAreInts

PartsInit ==
    /\ part \in {"queries", "members", "target", "audit"}
    /\ Init
    /\ Team!Init
    /\ Who!Init
    /\ Audit!Init

QueriesStep == part = "queries" /\ Next
               /\ UNCHANGED <<part, memberVars, targetVars, auditVars>>
MembersStep == part = "members" /\ Team!Next
               /\ UNCHANGED <<part, queryVars, targetVars, auditVars>>
TargetStep == part = "target" /\ Who!Next
              /\ UNCHANGED <<part, queryVars, memberVars, auditVars>>
AuditStep == part = "audit" /\ Audit!Next
             /\ UNCHANGED <<part, queryVars, memberVars, targetVars>>

PartsNext == QueriesStep \/ MembersStep \/ TargetStep \/ AuditStep

PartsSpec == PartsInit /\ [][PartsNext]_partVars

\* Pairing survives crashes and failed writes (MemberStore).
PairingIsDurable == Team!PairingIsDurable
\* The indexes agree with each other and with the log (MemberStore).
IndexesAgree == Team!IndexesAgree

\* The question reaches whom it names (Directory).
RightMemberAsked == Who!RightMemberAsked

\* A reader of the history misses nothing older than its start (AuditPages).
PagesMissNothing == Audit!PagesMissNothing
===============================================================================
