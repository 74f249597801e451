----------------------------- MODULE Directory -----------------------------
(* Who is asked: the client finds a member in the text of the question      *)
(* (ExtractTarget, internal/cli/ask.go) and sends the member's name; the    *)
(* Hub looks the name up again (ResolveTargetMember, internal/store), in a  *)
(* directory that may have changed since.  With --to the given text goes to *)
(* the Hub as it is.                                                        *)
(*                                                                          *)
(* A text is a sequence of letters, already trimmed and in lower case; the  *)
(* letters in Wide take three bytes in UTF-8, the others one.               *)
EXTENDS Integers, FiniteSets, Sequences

CONSTANTS
    Members,
    Names,      \* texts a member may have as name, the empty one included
    AliasSets,  \* sets of texts a member may have as aliases
    Questions,  \* texts of questions and of --to
    Wide,       \* letters of three bytes
    MaxRenames, \* bound: profile updates during the command
    None

VARIABLES
    pc,         \* where ExecuteAsk is
    directory,  \* membersByID
    renames,    \* profile updates so far
    question,   \* the text of the question
    fetched,    \* the directory as the client has fetched it
    chosen,     \* ghost: the member the client has found in the question
    target,     \* the text sent to the Hub
    asked       \* the member the Hub has found, "ambiguous", "unknown"

vars == <<pc, directory, renames, question, fetched, chosen, target, asked>>

Profile == [name : Names, aliases : AliasSets]

Id(m) == <<m>>

\* What the values of the constants must keep apart: in particular nobody's id
\* is a name or an alias (an id is "mem_" and a random number).
ConstantsAreDistinct ==
    /\ IsFiniteSet(Members)
    /\ {None, "ambiguous", "unknown"} \cap Members = {}
    /\ \A m \in Members : Id(m) \notin Names \cup UNION AliasSets
    /\ \A t \in Names \cup UNION AliasSets \cup Questions : Len(t) \in Nat

Occurs(part, text) ==
    \E i \in 0 .. Len(text) - Len(part) : SubSeq(text, i + 1, i + Len(part)) = part

Bytes(text) == Len(text) + 2 * Cardinality({i \in DOMAIN text : text[i] \in Wide})

Init ==
    /\ pc = "start"
    /\ directory = [m \in Members |-> [name |-> <<>>, aliases |-> {}]]
    /\ renames = 0
    /\ question = <<>>
    /\ fetched = None
    /\ chosen = None
    /\ target = <<>>
    /\ asked = None

----------------------------------------------------------------------------
(* The client.                                                              *)

\* The names and aliases of a member that the text mentions.
Mentions(profile, text) ==
    {t \in ({profile.name} \cup profile.aliases) \ {<<>>} : Occurs(t, text)}

Longest(texts) == CHOOSE n \in {Len(t) : t \in texts} : \A t \in texts : Len(t) <= n

\* The members with the longest mention; several make the text ambiguous.
ExtractTarget(text, members) ==
    LET found == {m \in Members : Mentions(members[m], text) # {}}
        Size(m) == Longest(Mentions(members[m], text))
    IN  {m \in found : \A n \in found : Size(n) <= Size(m)}

\* The team at the time of the command, and the question.
Ask ==
    /\ pc = "start"
    /\ directory' \in [Members -> Profile]
    /\ question' \in Questions
    /\ \/ pc' = "fetch" /\ UNCHANGED target
       \/ /\ pc' = "submit"                                    \* --to
          /\ target' \in Questions \cup {Id(m) : m \in Members}
    /\ UNCHANGED <<renames, fetched, chosen, asked>>

\* FetchMembers; a failure is a warning, and the target stays unknown.
Fetch ==
    /\ pc = "fetch"
    /\ \/ fetched' = directory /\ pc' = "extract"
       \/ pc' = "done" /\ UNCHANGED fetched
    /\ UNCHANGED <<directory, renames, question, chosen, target, asked>>

\* The name of the one member found is sent.  Without a member, and with
\* several, the command ends with a message.
Extract ==
    /\ pc = "extract"
    /\ LET found == ExtractTarget(question, fetched) IN
        IF Cardinality(found) = 1
        THEN /\ chosen' = CHOOSE m \in found : TRUE
             /\ target' = fetched[chosen'].name
             /\ pc' = IF target' = <<>> THEN "done" ELSE "submit"
        ELSE pc' = "done" /\ UNCHANGED <<chosen, target>>
    /\ UNCHANGED <<directory, renames, question, fetched, asked>>

----------------------------------------------------------------------------
(* The Hub.                                                                 *)

\* UpdateMember: an empty name leaves the name, the aliases are replaced.
UpdateMember(m) ==
    /\ pc \in {"fetch", "extract", "submit"}
    /\ renames < MaxRenames
    /\ renames' = renames + 1
    /\ \E p \in Profile :
        directory' = [directory EXCEPT ![m] =
            [name |-> IF p.name = <<>> THEN @.name ELSE p.name, aliases |-> p.aliases]]
    /\ UNCHANGED <<pc, question, fetched, chosen, target, asked>>

Exactly(text) == {m \in Members : text = directory[m].name \/ text \in directory[m].aliases}

\* Aliases of one byte count only when they are given exactly.
Long(aliases) == {a \in aliases : Bytes(a) >= 2}

Within(text) ==
    {m \in Members : Occurs(text, directory[m].name)
                     \/ \E a \in Long(directory[m].aliases) : Occurs(text, a)}

Around(text) ==
    {m \in Members : Occurs(directory[m].name, text)
                     \/ \E a \in Long(directory[m].aliases) : Occurs(a, text)}

OneOf(candidates) ==
    IF Cardinality(candidates) = 1 THEN CHOOSE m \in candidates : TRUE ELSE "ambiguous"

\* Mutant: aliases are looked up before names.
ResolveTargetMemberAliasFirst(text) ==
    LET named == {m \in Members : text \in directory[m].aliases}
    IN  IF named # {} THEN OneOf(named)
        ELSE IF Exactly(text) # {} THEN OneOf(Exactly(text))
        ELSE "unknown"

\* By id, by name or alias, by a part of one, by one inside the text.
ResolveTargetMember(text) ==
    IF \E m \in Members : text = Id(m) THEN CHOOSE m \in Members : text = Id(m)
    ELSE IF Exactly(text) # {} THEN OneOf(Exactly(text))
    ELSE IF Within(text) # {} THEN OneOf(Within(text))
    ELSE IF Around(text) # {} THEN OneOf(Around(text))
    ELSE "unknown"

Submit ==
    /\ pc = "submit"
    /\ asked' = ResolveTargetMember(target)
    /\ pc' = "done"
    /\ UNCHANGED <<directory, renames, question, fetched, chosen, target>>

Next == Ask \/ Fetch \/ Extract \/ Submit \/ \E m \in Members : UpdateMember(m)

Spec == Init /\ [][Next]_vars

----------------------------------------------------------------------------
(* Properties.                                                              *)

\* The client sends a name, not an id, and the Hub searches for it again with
\* other rules: unless a profile has changed in between, it still finds the
\* member whom the question mentions, or nobody.
AsksTheMentioned == renames = 0 /\ chosen # None => asked \in {None, chosen, "ambiguous"}

\* A longer mention wins: the member taken from the question is mentioned by
\* a text longer than any mention of somebody else ("alice zhang" and not
\* "alice").
LongestMentionWins ==
    chosen # None =>
        \E t \in Mentions(fetched[chosen], question) :
            \A n \in Members \ {chosen} :
                \A u \in Mentions(fetched[n], question) : Len(u) < Len(t)

\* A name or an alias given in full is never taken for somebody else, whose
\* name contains it or is contained in it.
FullNameWins ==
    asked \in Members =>
        \A n \in Members \ {asked} : target \notin {directory[n].name} \cup directory[n].aliases

\* The question reaches whom it names: through the client's search, the stale
\* list and the Hub's search.
RightMemberAsked == AsksTheMentioned /\ LongestMentionWins /\ FullNameWins
=============================================================================
