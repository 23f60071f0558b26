---------------------------- MODULE SourceContext ----------------------------
(***************************************************************************)
(* What a run reads of the sources a user submits (agent/frontend_intake.py): *)
(* the rules URL, the other URLs and the uploaded files are visited in this  *)
(* order, and each gives the prompts at most a part of its text, out of one  *)
(* budget.  A source that gives nothing, or not all, leaves a warning.       *)
(*                                                                         *)
(* A text is its length, without the white space the code removes.  Every    *)
(* URL is awaited; what it answers is open until then.                      *)
(***************************************************************************)
EXTENDS Naturals, Sequences

CONSTANTS
    MaxSourcePromptChars,   \* of all sources
    MaxSourceCharsPerItem,
    Lengths,                \* of texts
    MaxUrls,                \* of a request: the rules URL and the others
    MaxUploadedFiles

ASSUME BudgetAssumption ==
    /\ MaxSourcePromptChars \in Nat
    /\ MaxSourceCharsPerItem \in Nat \ {0}
    /\ Lengths \subseteq Nat
    /\ MaxUrls \in Nat
    /\ MaxUploadedFiles \in Nat

VARIABLES
    submitted,  \* the sources, in the order they are visited
    visited,    \* how many of them
    used,       \* of the budget
    summaries,
    warnings

sourceVars == <<submitted, visited, used, summaries, warnings>>

\* A page has a length only when it is asked for.  A file has an extension
\* whose text is read, or not; one over the size limit is not even loaded.
FileKinds == {"text", "unsupported", "oversized"}
Urls  == [kind : {"url"}]
Files == [kind : FileKinds, length : Lengths]

Messages == {"unreadable", "unsupported", "oversized", "blank", "limit", "truncated"}

BoundedSeq(S, n) == UNION {[1..k -> S] : k \in 0..n}

Requests == {u \o f : u \in BoundedSeq(Urls, MaxUrls),
                      f \in BoundedSeq(Files, MaxUploadedFiles)}

SourceInit ==
    /\ submitted \in Requests
    /\ visited = 0
    /\ used = 0
    /\ summaries = <<>>
    /\ warnings = <<>>

Current == visited + 1
Source  == submitted[Current]

Visit == visited < Len(submitted) /\ visited' = Current

Warning(m) == [source |-> Current, message |-> m]

Skip(message) ==
    /\ warnings' = Append(warnings, Warning(message))
    /\ UNCHANGED <<submitted, used, summaries>>

\* Each source for itself.
MutantLimit == MaxSourceCharsPerItem

\* How much the next source may use.
Limit == LET remaining == MaxSourcePromptChars - used
         IN  IF remaining < MaxSourceCharsPerItem THEN remaining
                                                  ELSE MaxSourceCharsPerItem

\* A text that is cut loses the space it may end in then.
Cuts(length) == IF length <= Limit THEN {length}
                                   ELSE {n \in {Limit - 1, Limit} : n > 0}

\* _SourceBudget.take, and what its callers do with an empty summary: a text
\* that comes after the budget is spent is also said to be blank.
MutantTake(length) ==
    \/ length = 0 /\ Skip("blank")
    \/ /\ length > 0
       /\ used < MaxSourcePromptChars
       /\ \E n \in Cuts(length) :
             /\ used' = used + n
             /\ summaries' = Append(summaries, [source |-> Current, of |-> length,
                                                length |-> n])
             /\ warnings' = IF n = Limit /\ length > n
                            THEN Append(warnings, Warning("truncated")) ELSE warnings
       /\ UNCHANGED submitted
    \/ /\ length > 0
       /\ used >= MaxSourcePromptChars
       /\ warnings' = warnings \o <<Warning("limit"), Warning("blank")>>
       /\ UNCHANGED <<submitted, used, summaries>>

Take(length) ==
    \/ length = 0 /\ Skip("blank")
    \/ /\ length > 0
       /\ used < MaxSourcePromptChars
       /\ \E n \in Cuts(length) :
             /\ used' = used + n
             /\ summaries' = Append(summaries, [source |-> Current, of |-> length,
                                                length |-> n])
             /\ warnings' = IF length > Limit
                            THEN Append(warnings, Warning("truncated")) ELSE warnings
       /\ UNCHANGED submitted
    \/ /\ length > 0
       /\ used >= MaxSourcePromptChars
       /\ warnings' = warnings \o <<Warning("limit"), Warning("blank")>>
       /\ UNCHANGED <<submitted, used, summaries>>

\* The request times out, is refused, or has a type that is not read; or the
\* page has some text.
SummarizeUrl ==
    /\ Visit
    /\ Source.kind = "url"
    /\ Skip("unreadable") \/ \E length \in Lengths : Take(length)

SummarizeUploadedFile ==
    /\ Visit
    /\ \/ Source.kind \in {"unsupported", "oversized"} /\ Skip(Source.kind)
       \/ Source.kind = "text" /\ Take(Source.length)

SourceNext == SummarizeUrl \/ SummarizeUploadedFile

SourceSpec == SourceInit /\ [][SourceNext]_sourceVars

-----------------------------------------------------------------------------
(* Properties.                                                             *)

Summaries == [source : Nat, of : Nat, length : Nat]
Warnings  == [source : Nat, message : Messages]

\* The context has the shape build_source_context returns, and names only
\* sources it visited.
SourceTypeOK ==
    /\ submitted \in Seq(Urls \cup Files)
    /\ visited \in 0..Len(submitted)
    /\ used \in Nat
    /\ summaries \in Seq(Summaries)
    /\ warnings \in Seq(Warnings)
    /\ \A k \in 1..Len(summaries) : summaries[k].source \in 1..visited
    /\ \A k \in 1..Len(warnings) : warnings[k].source \in 1..visited

InFull(i) == \E k \in 1..Len(summaries) :
                summaries[k].source = i /\ summaries[k].length = summaries[k].of

Told(i) == \E k \in 1..Len(warnings) : warnings[k].source = i

\* Of every source that was visited the prompts have all the text, or the user
\* is warned; and never both.
SourcesAreAccounted == \A i \in 1..visited : InFull(i) <=> ~Told(i)

Characters == LET upTo[k \in 0..Len(summaries)] ==
                      IF k = 0 THEN 0 ELSE upTo[k - 1] + summaries[k].length
              IN  upTo[Len(summaries)]

\* The prompts get no more characters than the budget and the budget counts
\* what they get, whatever the lengths and their order.
PromptIsBounded ==
    /\ Characters = used
    /\ used <= MaxSourcePromptChars
    /\ \A k \in 1..Len(summaries) : summaries[k].length \in 1..MaxSourceCharsPerItem
=============================================================================
