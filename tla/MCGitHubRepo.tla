---------------------------- MODULE MCGitHubRepo ----------------------------
(* Two projects of the same name: the requested name, a name of the task's   *)
(* own, and a numbered one stand for the seven candidates.  The log writers  *)
(* have the repository of that name.                                        *)
EXTENDS BuildLog

CONSTANTS t1, t2, w1, w2, base, slug1, slug2, second

MCCandidates ==
    [t \in Callers |-> CASE t = t1 -> <<base, slug1, second>>
                         [] t = t2 -> <<base, slug2, second>>
                         [] OTHER  -> <<base>>]

Idle(t) == calls[t].pc = "idle"
Active(w) == appends[w].pc # "idle"

\* A name of one task's own is absent or hidden: no other task or user has it.
\* Two tasks run, or a task and a writer, or two writers.
MCInit ==
    /\ LogInit
    /\ repos[slug1] = repos[slug2]
    /\ repos[slug1].status # "present"
    /\ repos[slug1].head = 0
    /\ \A t \in {t1, t2} : Idle(t) => calls[t].files = {FirstFile}
    /\ \/ ~Idle(t1) /\ ~Idle(t2) /\ ~Active(w1) /\ ~Active(w2)
       \/ /\ Idle(t2)
          /\ Active(w1)
          /\ Idle(t1) = Active(w2)
          /\ repos[slug1].status = "absent"
          /\ repos[second] = repos[slug1]

MCSpec == MCInit /\ [][LogNext]_logVars /\ Fairness
=============================================================================
