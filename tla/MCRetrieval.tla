---------------------------- MODULE MCRetrieval ----------------------------
(***************************************************************************)
(* A small corpus: a document that shrinks, a log that is emptied, a page    *)
(* that is configured and also submitted by one task, and a page of another. *)
(***************************************************************************)
EXTENDS Retrieval, TLC

CONSTANTS t1, t2, guide, log, rules, page

MCSubmitted == (t1 :> {rules}) @@ (t2 :> {page})

\* Both tasks are given the page that is configured too.
MCSubmittedRules == [t \in Tasks |-> {rules}]

\* The two tasks of the passing run differ in nothing but their name.
TaskSymmetry == Permutations(Tasks)

MCSections ==
       guide :> (1 :> <<"tech_stack", "team_notes">> @@ 2 :> <<"team_notes">>)
    @@ log   :> (1 :> <<"build_log">>                @@ 2 :> <<>>)
    @@ rules :> (1 :> <<"hackathon_rules">>
                 @@ 2 :> <<"hackathon_rules", "scope_warning">>)
    @@ page  :> (1 :> <<"generated_project_doc">>    @@ 2 :> <<"demo_format">>)

=============================================================================
