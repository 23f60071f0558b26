--------------------------- MODULE TaskLifecycle ---------------------------
(***************************************************************************)
(* What the agent API promises of one build task, without saying how it is  *)
(* run: it is absent until it is accepted, then started, and ends completed *)
(* or failed with a report, unless the process forgets it.  While it is not *)
(* over it may write to GitHub; after a verdict nothing more is written and *)
(* neither the verdict nor its report changes.                             *)
(***************************************************************************)
EXTENDS Naturals

VARIABLES
    phase,     \* "absent", "started", "completed", "failed" or "lost"
    reported,  \* the task has its final report
    written    \* how much the task wrote to GitHub

lifecycle == <<phase, reported, written>>

Init == phase = "absent" /\ reported = FALSE /\ written = 0

Accept ==
    /\ phase = "absent"
    /\ phase' = "started"
    /\ UNCHANGED <<reported, written>>

\* The work of a task shows in what it writes.  A task the API no longer
\* answers for may still be running.
Work ==
    /\ phase \in {"started", "lost"}
    /\ written' \in {written + 1, written + 2}
    /\ UNCHANGED <<phase, reported>>

\* The report of a completed task is stored before its status, that of a
\* failed one with it or after it.
Report ==
    /\ phase \in {"started", "failed"}
    /\ ~reported
    /\ reported' = TRUE
    /\ UNCHANGED <<phase, written>>

Complete ==
    /\ phase = "started"
    /\ reported
    /\ phase' = "completed"
    /\ UNCHANGED <<reported, written>>

Fail ==
    /\ phase = "started"
    /\ phase' = "failed"
    /\ reported' \in {reported, TRUE}
    /\ UNCHANGED written

\* A restart of the process, or a reload of its settings, forgets the task
\* and the report it may have had.
Lose ==
    /\ phase \in {"started", "completed", "failed"}
    /\ phase' = "lost"
    /\ reported' = FALSE
    /\ UNCHANGED written

Next == Accept \/ Work \/ Report \/ Complete \/ Fail \/ Lose

\* An accepted task is not left started, nor failed without its report.
Ends == phase = "started" ~> phase \in {"completed", "failed", "lost"}
IsReported == phase = "failed" ~> reported \/ phase = "lost"

Spec == Init /\ [][Next]_lifecycle /\ Ends /\ IsReported

=============================================================================
