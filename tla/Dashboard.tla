----------------------------- MODULE Dashboard -----------------------------
(***************************************************************************)
(* The dashboard of the browser (frontend/app/page.tsx): a user submits     *)
(* builds, the page follows the one launched last by polling the agent API,  *)
(* a reload of the page resumes it.                                         *)
(*                                                                         *)
(* The page is one thread, whose handlers run between answers and timers.   *)
(* React renders and runs an effect again when its dependencies changed: at  *)
(* once after a click, and a little later after answers, of which several    *)
(* may be taken together.  An effect that is replaced is cancelled, but its  *)
(* request or its timer is still under way.                                  *)
(*                                                                         *)
(* The backend is what the page sees of TaskLifecycle: a status for every    *)
(* task, and 404 once a restart forgot it.  Numbers stand for the           *)
(* submissions and for the tasks they become.  The form, the GitHub sign-in  *)
(* and the texts are left out, and NEXT_PUBLIC_AGENT_API_URL is set.        *)
(***************************************************************************)
EXTENDS Naturals

CONSTANTS
    MaxBuilds,        \* bound: the submissions of the user
    GatewayErrors     \* something between browser and backend answers 5xx

ASSUME MaxBuildsAssumption == MaxBuilds \in Nat
ASSUME GatewayErrorsAssumption == GatewayErrors \in BOOLEAN

VARIABLES
    tasks,            \* the backend: status by task
    launches,         \* the calls of handleSubmit: by build
    taskId,           \* React state of the page
    taskDetail,
    submitState,
    stored,           \* mvpilot_task_id in the session storage
    resume,           \* the task the timer of the mount effect will resume
    effect,           \* the dependencies the polling effect ran with
    poller,           \* the chain of requests of that effect
    cancelled         \* the chains of effects that were replaced

backend == <<tasks, launches>>
page    == <<taskId, taskDetail, submitState, stored, resume>>
polling == <<effect, poller, cancelled>>
vars    == <<tasks, launches, taskId, taskDetail, submitState, stored, resume,
             effect, poller, cancelled>>

-----------------------------------------------------------------------------
\* Builds are numbered as they are submitted.
Builds  == 1 .. MaxBuilds
NoBuild == 0
Ids     == Builds \cup {NoBuild}
Verdict == {"completed", "failed"}
Details == [task : Ids, status : {"none", "started"} \cup Verdict]
Chains  == [task : Ids, stage : {"off", "asking", "answered", "waiting"},
            status : {"none", "started"} \cup Verdict]

NoDetail == [task |-> NoBuild, status |-> "none"]

Chain(t, stage) == [task |-> t, stage |-> stage, status |-> "none"]
Off             == Chain(NoBuild, "off")

Init ==
    /\ tasks = [b \in Builds |-> "absent"]
    /\ launches = [b \in Builds |-> "none"]
    /\ taskId = NoBuild
    /\ taskDetail = NoDetail
    /\ submitState = "idle"
    /\ stored = NoBuild
    /\ resume = NoBuild
    /\ effect = <<NoBuild, "idle">>
    /\ poller = Off
    /\ cancelled = {}

\* The effect with the dependencies t and s, and the cleanup of the one before.
RunsFor(t, s) ==
    /\ effect' = <<t, s>>
    /\ poller' = IF t = NoBuild \/ s = "idle" THEN Off ELSE Chain(t, "asking")
    /\ cancelled' = cancelled \cup ({poller} \ {Off})

RunEffect ==
    /\ effect # <<taskId, submitState>>
    /\ RunsFor(taskId, submitState)
    /\ UNCHANGED <<backend, page>>

-----------------------------------------------------------------------------
(* The user.  The form is on the screen while no task is followed; nothing   *)
(* disables its button while a submission is under way.                      *)

SubmitInvalid ==
    /\ taskId = NoBuild
    /\ submitState' = "error"
    /\ RunsFor(taskId, "error")
    /\ UNCHANGED <<backend, taskId, taskDetail, stored, resume>>

Submit(b) ==
    /\ taskId = NoBuild
    /\ launches[b] = "none" /\ \A a \in 1 .. b - 1 : launches[a] # "none"
    /\ launches' = [launches EXCEPT ![b] = "checking"]
    /\ submitState' = "sending"
    /\ RunsFor(taskId, "sending")
    /\ UNCHANGED <<tasks, taskId, taskDetail, stored, resume>>

\* The button "Start over" of a build shown as stopped.
ResetFlight ==
    /\ taskId # NoBuild
    /\ submitState = "error"
    /\ taskId' = NoBuild
    /\ taskDetail' = NoDetail
    /\ submitState' = "idle"
    /\ stored' = NoBuild
    /\ RunsFor(NoBuild, "idle")
    /\ UNCHANGED <<backend, resume>>

\* The page is loaded anew; what it waited for is lost with it.
Reload ==
    /\ launches' = [b \in Builds |-> IF launches[b] = "none" THEN "none" ELSE "over"]
    /\ taskId' = NoBuild
    /\ taskDetail' = NoDetail
    /\ submitState' = "idle"
    /\ resume' = stored
    /\ effect' = <<NoBuild, "idle">>
    /\ poller' = Off
    /\ cancelled' = {}
    /\ UNCHANGED <<tasks, stored>>

Resume ==
    /\ resume # NoBuild
    /\ taskId' = resume
    /\ submitState' = "sent"
    /\ resume' = NoBuild
    /\ UNCHANGED <<backend, taskDetail, stored, polling>>

-----------------------------------------------------------------------------
(* The rest of handleSubmit: fetchGithubStatus, then the POST.  The timer of  *)
(* Resume has no delay and fires before the network answers.                 *)

Ends(b) == launches' = [launches EXCEPT ![b] = "over"]

CheckPassed(b) ==
    /\ launches[b] = "checking" /\ resume = NoBuild
    /\ launches' = [launches EXCEPT ![b] = "posting"]
    /\ UNCHANGED <<tasks, page, polling>>

\* Not connected, or the answer was not OK.
CheckRefused(b) ==
    /\ launches[b] = "checking" /\ resume = NoBuild
    /\ Ends(b)
    /\ submitState' = "error"
    /\ UNCHANGED <<tasks, taskId, taskDetail, stored, resume, polling>>

\* The fetch rejects outside the try: the handler ends there.
CheckLost(b) ==
    /\ launches[b] = "checking" /\ resume = NoBuild
    /\ Ends(b)
    /\ UNCHANGED <<tasks, page, polling>>

Accept(b) ==
    /\ launches[b] = "posting"
    /\ tasks[b] = "absent"
    /\ tasks' = [tasks EXCEPT ![b] = "started"]
    /\ UNCHANGED <<launches, page, polling>>

PostAnswered(b) ==
    /\ launches[b] = "posting"
    /\ tasks[b] # "absent"
    /\ Ends(b)
    /\ taskId' = b
    /\ stored' = b
    /\ submitState' = "sent"
    /\ UNCHANGED <<tasks, taskDetail, resume, polling>>

\* Refused, unreachable, or accepted with the answer lost.
PostFailed(b) ==
    /\ launches[b] = "posting"
    /\ Ends(b)
    /\ submitState' = "error"
    /\ UNCHANGED <<tasks, taskId, taskDetail, stored, resume, polling>>

-----------------------------------------------------------------------------
(* The backend goes on without the page.                                     *)

Decide(b) ==
    /\ tasks[b] = "started"
    /\ \E verdict \in Verdict : tasks' = [tasks EXCEPT ![b] = verdict]
    /\ UNCHANGED <<launches, page, polling>>

Restart ==
    /\ tasks' = [b \in Builds |-> IF tasks[b] = "absent" THEN "absent" ELSE "lost"]
    /\ UNCHANGED <<launches, page, polling>>

-----------------------------------------------------------------------------
(* pollTask.                                                                 *)

Detail(chain) == [task |-> chain.task, status |-> chain.status]

Asked(chain) == [chain EXCEPT !.stage = "answered", !.status = tasks[chain.task]]

\* The answer is what the backend held when it was asked.
Served ==
    /\ poller.stage = "asking"
    /\ tasks[poller.task] # "lost"
    /\ poller' = Asked(poller)
    /\ UNCHANGED <<backend, page, effect, cancelled>>

\* An answer that is not OK ends the chain.
NotOk ==
    /\ poller.stage = "asking"
    /\ tasks[poller.task] = "lost" \/ GatewayErrors
    /\ poller' = Off
    /\ UNCHANGED <<backend, page, effect, cancelled>>

MutantUnreachable ==
    /\ poller.stage = "asking"
    /\ poller' = Off
    /\ UNCHANGED <<backend, page, effect, cancelled>>

\* The fetch, or the reading of its body, rejects.
Unreachable ==
    /\ poller.stage = "asking"
    /\ poller' = Chain(poller.task, "waiting")
    /\ UNCHANGED <<backend, page, effect, cancelled>>

\* A verdict ends the chain; the effect may run again for the new submitState.
Delivered ==
    /\ poller.stage = "answered"
    /\ taskDetail' = Detail(poller)
    /\ submitState' = CASE poller.status = "completed" -> "sent"
                        [] poller.status = "failed"    -> "error"
                        [] OTHER                       -> submitState
    /\ poller' = IF poller.status \in Verdict THEN Off ELSE Chain(poller.task, "waiting")
    /\ UNCHANGED <<backend, taskId, stored, resume, effect, cancelled>>

Timer ==
    /\ poller.stage = "waiting"
    /\ poller' = Chain(poller.task, "asking")
    /\ UNCHANGED <<backend, page, effect, cancelled>>

\* A chain that was cancelled still asks once more when its timer fires.
CancelledAsks(chain) ==
    /\ \/ /\ chain.stage = "waiting"
          /\ cancelled' = (cancelled \ {chain}) \cup {Chain(chain.task, "asking")}
       \/ /\ chain.stage = "asking"
          /\ tasks[chain.task] # "lost"
          /\ cancelled' = (cancelled \ {chain}) \cup {Asked(chain)}
    /\ UNCHANGED <<backend, page, effect, poller>>

MutantCancelledEnds(chain) ==
    /\ chain.stage \in {"asking", "answered"}
    /\ cancelled' = cancelled \ {chain}
    /\ taskDetail' = IF chain.stage = "answered" THEN Detail(chain) ELSE taskDetail
    /\ UNCHANGED <<backend, taskId, submitState, stored, resume, effect, poller>>

\* Its answer is dropped, and no error starts its timer again.
CancelledEnds(chain) ==
    /\ chain.stage \in {"asking", "answered"}
    /\ cancelled' = cancelled \ {chain}
    /\ UNCHANGED <<backend, page, effect, poller>>

-----------------------------------------------------------------------------
Next ==
    \/ \E b \in Builds : \/ Submit(b)
                         \/ CheckPassed(b) \/ CheckRefused(b) \/ CheckLost(b)
                         \/ Accept(b) \/ PostAnswered(b) \/ PostFailed(b)
                         \/ Decide(b)
    \/ SubmitInvalid \/ ResetFlight \/ Reload \/ Resume
    \/ Restart
    \/ RunEffect
    \/ Served \/ NotOk \/ Unreachable \/ Delivered \/ Timer
    \/ \E chain \in cancelled : CancelledAsks(chain) \/ CancelledEnds(chain)

\* The browser runs effects, timers and continuations; of the requests of a
\* page that goes on asking, the network does not lose every one.
Fairness ==
    /\ WF_vars(RunEffect)
    /\ WF_vars(Timer)
    /\ WF_vars(Delivered)
    /\ SF_vars(Served)

Spec == Init /\ [][Next]_vars /\ Fairness

-----------------------------------------------------------------------------
(* Properties.                                                               *)

TypeOK ==
    /\ tasks \in [Builds -> {"absent", "started", "lost"} \cup Verdict]
    /\ launches \in [Builds -> {"none", "checking", "posting", "over"}]
    /\ taskId \in Ids
    /\ taskDetail \in Details
    /\ submitState \in {"idle", "sending", "sent", "error"}
    /\ stored \in Ids
    /\ resume \in Ids
    /\ effect \in Ids \X {"idle", "sending", "sent", "error"}
    /\ poller \in Chains
    /\ cancelled \subseteq Chains

\* No answer that comes late takes the screen back: nothing is shown once the
\* page was reset, a task whose verdict is shown is never shown as running
\* again, and one task takes the place of another only when it is the one polled
\* (the cancelled flag of the polling effect, over every order of answers,
\* timers, clicks, and second submissions).
ScreenNeverGoesBack ==
    [][taskDetail' # taskDetail /\ taskDetail' # NoDetail =>
           /\ taskId # NoBuild
           /\ \/ taskDetail = NoDetail
              \/ taskDetail'.task = taskDetail.task /\ taskDetail.status = "started"
              \/ taskDetail'.task = effect[1] /\ taskDetail.task # effect[1]]_vars

Shown(b) ==
    /\ taskDetail = [task |-> b, status |-> tasks[b]]
    /\ poller = Off

\* The verdict of the task the page follows reaches the screen, and the polling
\* ends, whatever requests get lost and whichever other submission fails
\* meanwhile; unless the user goes elsewhere or the backend forgets the task
\* (pollTask and its effect).  It says nothing of submitState: a submission
\* refused in the moment a verdict is shown can leave "error" beside it.
VerdictIsShown ==
    \A b \in Builds :
        (taskId = b /\ tasks[b] \in Verdict)
            ~> (Shown(b) \/ taskId # b \/ tasks[b] = "lost")

=============================================================================
