----------------------------- MODULE AuditPages -----------------------------
(* The history of a member, page by page, while queries keep coming         *)
(* (GetInboundAudit, GetOutboundAudit and their detailed variants in        *)
(* internal/store/store.go, the handlers in internal/hub, the history       *)
(* command in internal/cli/history.go).  Pages are counted from the newest  *)
(* query, so every new query moves all older ones by one.                   *)
(*                                                                          *)
(* MaxInt stands for the largest value of Go's int.                         *)
EXTENDS Integers, SequencesExt

CONSTANTS
    Members,
    MaxQueries, \* bound: queries that are created
    MaxInt,
    Limits,     \* page sizes a reader asks for
    Skips,      \* entries a reader skips at the start
    DefaultLimit, \* the page size for a limit that is not positive, 50
    None

VARIABLES
    inboundAudit,   \* the queries for each member, oldest first
    outboundAudit,  \* the queries of each member, oldest first
    next,           \* the number of the next query
    reader,         \* the listing that is read and how, or None
    offset,         \* where the next page starts
    seen,           \* the queries the reader has seen
    expected        \* ghost: what it should see, fixed when it begins

vars == <<inboundAudit, outboundAudit, next, reader, offset, seen, expected>>

\* What the values of the constants must satisfy: they are numbers of type int.
ConstantsAreInts ==
    /\ MaxInt \in Nat
    /\ Limits \subseteq {n \in Int : n <= MaxInt}
    /\ Skips \subseteq Nat
    /\ DefaultLimit \in 1 .. MaxInt

Init ==
    /\ inboundAudit = [m \in Members |-> <<>>]
    /\ outboundAudit = [m \in Members |-> <<>>]
    /\ next = 1
    /\ reader = None
    /\ offset = 0
    /\ seen = {}
    /\ expected = {}

----------------------------------------------------------------------------
(* The store.                                                               *)

Wrap(n) == IF n > MaxInt THEN n - 2 * (MaxInt + 1) ELSE n

\* Mutant: the first entry of a page is left out.
PageOffByOne(qids, limit, from) ==
    LET total == Len(qids)
        start == IF from > total THEN total ELSE from
        end == IF limit <= 0 \/ Wrap(start + limit) > total THEN total ELSE Wrap(start + limit)
    IN  IF end < start THEN None ELSE SubSeq(Reverse(qids), start + 2, end)

\* A page, newest first; None when the slice is out of range.
Page(qids, limit, from) ==
    LET total == Len(qids)
        start == IF from > total THEN total ELSE from
        end == IF limit <= 0 \/ Wrap(start + limit) > total THEN total ELSE Wrap(start + limit)
    IN  IF end < start THEN None ELSE SubSeq(Reverse(qids), start + 1, end)

GetInboundAudit(m, limit, from) == Page(inboundAudit[m], limit, from)
GetOutboundAudit(m, limit, from) == Page(outboundAudit[m], limit, from)

\* The index part of CreateQuery.
CreateQuery(asker, target) ==
    /\ next <= MaxQueries
    /\ next' = next + 1
    /\ inboundAudit' = [inboundAudit EXCEPT ![target] = Append(@, next)]
    /\ outboundAudit' = [outboundAudit EXCEPT ![asker] = Append(@, next)]
    /\ UNCHANGED <<reader, offset, seen, expected>>

----------------------------------------------------------------------------
(* A reader.                                                                *)

Listing(m, inbound) == IF inbound THEN inboundAudit[m] ELSE outboundAudit[m]

\* The handlers replace a limit that is not positive.
Limit(limit) == IF limit <= 0 THEN DefaultLimit ELSE limit

\* history --limit --offset: the first page is about to be fetched.
Begin(m, inbound, limit, skip) ==
    /\ reader = None
    /\ reader' = [member |-> m, inbound |-> inbound, limit |-> Limit(limit), open |-> TRUE]
    /\ offset' = skip
    /\ seen' = {}
    /\ expected' = ToSet(SubSeq(Reverse(Listing(m, inbound)), skip + 1, Len(Listing(m, inbound))))
    /\ UNCHANGED <<inboundAudit, outboundAudit, next>>

\* A page that is not full is the last.  A request that panics ends the
\* reading without an answer.
Fetch ==
    /\ reader # None /\ reader.open
    /\ LET page == IF reader.inbound THEN GetInboundAudit(reader.member, reader.limit, offset)
                   ELSE GetOutboundAudit(reader.member, reader.limit, offset)
       IN  IF page = None THEN reader' = None /\ UNCHANGED <<seen, offset>>
           ELSE /\ seen' = seen \cup ToSet(page)
                /\ offset' = offset + reader.limit
                /\ reader' = [reader EXCEPT !.open = Len(page) = reader.limit]
    /\ UNCHANGED <<inboundAudit, outboundAudit, next, expected>>

Finish ==
    /\ reader # None /\ ~reader.open
    /\ reader' = None
    /\ UNCHANGED <<inboundAudit, outboundAudit, next, offset, seen, expected>>

Next ==
    \/ \E a, t \in Members : CreateQuery(a, t)
    \/ \E m \in Members, i \in BOOLEAN, l \in Limits, s \in Skips : Begin(m, i, l, s)
    \/ Fetch
    \/ Finish

Spec == Init /\ [][Next]_vars

----------------------------------------------------------------------------
(* Properties.                                                              *)

\* A reader that has come to the end has seen every query of the listing that
\* was there when it began: those that arrive meanwhile may be missing, and
\* some may come twice, but no older one falls between two pages.
PagesMissNothing == reader # None /\ ~reader.open => expected \subseteq seen
=============================================================================
