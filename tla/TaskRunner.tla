----------------------------- MODULE TaskRunner -----------------------------
(***************************************************************************)
(* One task of the agent API: the task store (agent/task_store.py), the     *)
(* background coroutine that runs the graph for it and stores a snapshot    *)
(* after every node (agent/service.py), the approvals, and the two ways the *)
(* process forgets a task: a restart, and a reload of the settings, which   *)
(* puts a new empty store in front of the API while the coroutine goes on   *)
(* with the old one (agent/dependencies.py).                                *)
(*                                                                         *)
(* The stream of the graph hands over the state of a node before the next   *)
(* node runs: the coroutine alternates between storing and running.         *)
(***************************************************************************)
EXTENDS Workflow

CONSTANT Approvals      \* the identities an approval may be given

VARIABLES
    runner,    \* where the background coroutine stands
    detail,    \* the TaskDetailResponse the store holds
    carried,   \* the copy of it the failure handler works on
    served     \* the API still answers from this store

runnerVars == <<runner, detail, carried, served>>
allVars    == <<vars, runnerVars>>

Decisions == {"approved", "rejected"}

NoDetail ==
    [status |-> "absent", agent_steps |-> <<>>, tool_calls |-> <<>>,
     generated_artifacts |-> <<>>, build_timeline |-> [p \in Phases |-> "pending"],
     mvp_validation |-> [run |-> FALSE, broken |-> {}],
     final_report |-> NoReport, approvals |-> [a \in Approvals |-> "none"]]

Details ==
    [status : {"absent", "started", "completed", "failed"},
     agent_steps : Seq(Steps), tool_calls : Seq(Calls),
     generated_artifacts : Seq(Origins),
     build_timeline : [Phases -> PhaseStatuses],
     mvp_validation : [run : BOOLEAN, broken : SUBSET Checks],
     final_report : Reports,
     approvals : [Approvals -> {"none", "pending"} \cup Decisions]]

-----------------------------------------------------------------------------
(* The store.                                                              *)

\* snapshot_task replaces every field by the state's, except the approvals.
\* A validation that never ran does not replace one that did.
MutantSnapshot(d, s) ==
    [status |-> s.status, agent_steps |-> s.agent_steps, tool_calls |-> s.tool_calls,
     generated_artifacts |-> s.generated_artifacts,
     build_timeline |-> s.build_timeline,
     mvp_validation |-> IF s.mvp_validation.run THEN s.mvp_validation
                                                ELSE d.mvp_validation,
     final_report |-> s.final_report, approvals |-> NoDetail.approvals]

Snapshot(d, s) ==
    [status |-> s.status, agent_steps |-> s.agent_steps, tool_calls |-> s.tool_calls,
     generated_artifacts |-> s.generated_artifacts,
     build_timeline |-> s.build_timeline,
     mvp_validation |-> IF s.mvp_validation.run THEN s.mvp_validation
                                                ELSE d.mvp_validation,
     final_report |-> s.final_report, approvals |-> d.approvals]

MutantUnexpectedFailure(copy) ==
    [copy EXCEPT !.status       = "failed",
                 !.agent_steps  = <<[node |-> "failed", status |-> "failed"]>>,
                 !.final_report = [status |-> "failed",
                                   mode |-> IF settings.mock_mode THEN "mock" ELSE "live",
                                   summary |-> "failed", artifact_count |-> 0]]

MutantUnexpectedFailureStatus(copy) ==
    [copy EXCEPT !.status       = "TaskStatus.FAILED",
                 !.agent_steps  = Append(@, [node |-> "failed", status |-> "failed"]),
                 !.final_report = [NoReport EXCEPT !.status = "failed"]]

\* _build_unexpected_failure_state: what the store held when the exception
\* was caught, with a failed step and a failed report.
UnexpectedFailure(copy) ==
    [copy EXCEPT !.status       = "failed",
                 !.agent_steps  = Append(@, [node |-> "failed", status |-> "failed"]),
                 !.final_report = [status |-> "failed",
                                   mode |-> IF settings.mock_mode THEN "mock" ELSE "live",
                                   summary |-> "failed", artifact_count |-> 0]]

-----------------------------------------------------------------------------
RunnerInit ==
    /\ Init
    /\ runner  = "idle"
    /\ detail  = NoDetail
    /\ carried = NoDetail
    /\ served  = TRUE

\* POST /agent/run: the task is stored and its coroutine queued.
StartTask ==
    /\ runner = "idle"
    /\ runner' = "queued"
    /\ detail' = [detail EXCEPT !.status = "started"]
    /\ UNCHANGED <<vars, carried, served>>

\* The coroutine builds the initial state, which the stream yields first.
BeginRun ==
    /\ runner = "queued"
    /\ runner' = "storing"
    /\ UNCHANGED <<vars, detail, carried, served>>

MutantStoreSnapshot ==
    /\ runner = "storing"
    /\ detail' = Snapshot(detail, state)
    /\ runner' = IF state.status # "started" THEN "stopped" ELSE "running"
    /\ UNCHANGED <<vars, carried, served>>

StoreSnapshot ==
    /\ runner = "storing"
    /\ detail' = Snapshot(detail, state)
    /\ runner' = IF node = "END" THEN "stopped" ELSE "running"
    /\ UNCHANGED <<vars, carried, served>>

MutantRunNode ==
    /\ runner = "running"
    /\ Next
    /\ runner' = CASE node' = "raised" -> "caught"
                   [] node' = "END"    -> "storing"
                   [] OTHER            -> "running"
    /\ UNCHANGED <<detail, carried, served>>

RunNode ==
    /\ runner = "running"
    /\ Next
    /\ runner' = IF node' = "raised" THEN "caught" ELSE "storing"
    /\ UNCHANGED <<detail, carried, served>>

\* The handler of the exception reads the store and then writes it: other
\* coroutines run in between.
CatchException ==
    /\ runner = "caught"
    /\ carried' = detail
    /\ runner' = "failing"
    /\ UNCHANGED <<vars, detail, served>>

MutantStoreFailure ==
    /\ runner = "failing"
    /\ runner' = "stopped"
    /\ UNCHANGED <<vars, detail, carried, served>>

StoreFailure ==
    /\ runner = "failing"
    /\ detail' = [UnexpectedFailure(carried) EXCEPT !.approvals = detail.approvals]
    /\ runner' = "stopped"
    /\ UNCHANGED <<vars, carried, served>>

\* seed_pending_approval: part of the store's interface, without a caller in
\* the application yet.
SeedApproval(a) ==
    /\ served
    /\ detail.status # "absent"
    /\ detail.approvals[a] = "none"
    /\ detail' = [detail EXCEPT !.approvals[a] = "pending"]
    /\ UNCHANGED <<vars, runner, carried, served>>

\* POST /agent/approve: whatever the task has come to, and again after a
\* first decision.
ResolveApproval(a, decision) ==
    /\ served
    /\ detail.approvals[a] # "none"
    /\ detail' = [detail EXCEPT !.approvals[a] = decision]
    /\ UNCHANGED <<vars, runner, carried, served>>

\* The process stops and starts again: the store is empty and the coroutine
\* is gone, as it is when a shutdown cancels it.
Restart ==
    /\ runner \notin {"idle", "gone"}
    /\ runner' = "gone"
    /\ detail' = NoDetail
    /\ UNCHANGED <<vars, carried, served>>

\* POST /api/github/use-env-token ends in reload_runtime_settings.
ReloadSettings ==
    /\ runner \notin {"idle", "gone"}
    /\ served
    /\ served' = FALSE
    /\ UNCHANGED <<vars, runner, detail, carried>>

\* The steps of the coroutine.
Coroutine == BeginRun \/ StoreSnapshot \/ RunNode \/ CatchException \/ StoreFailure

RunnerNext ==
    \/ StartTask
    \/ Coroutine
    \/ \E a \in Approvals : SeedApproval(a)
    \/ \E a \in Approvals, decision \in Decisions : ResolveApproval(a, decision)
    \/ Restart
    \/ ReloadSettings

\* Starlette runs the background task of a request it has answered, and what
\* the coroutine awaits returns or raises.
RunnerSpec == RunnerInit /\ [][RunnerNext]_allVars /\ WF_allVars(Coroutine)

-----------------------------------------------------------------------------
(* Properties.                                                             *)

\* The coroutine and the store have the shape the service gives them.
RunnerTypeOK ==
    /\ TypeOK
    /\ runner \in {"idle", "queued", "storing", "running", "caught", "failing",
                   "stopped", "gone"}
    /\ detail \in Details
    /\ carried \in Details
    /\ served \in BOOLEAN

OnRecord(tool) ==
    \E i \in 1..Len(detail.tool_calls) : detail.tool_calls[i].tool = tool

\* Whatever ended the run, a coroutine that stopped left a verdict whose
\* report agrees with it, and the repository and the commits it made have
\* their calls on record: what a refused or failed run leaves on the user's
\* account can be found.
StoppedIsSettled ==
    runner = "stopped" =>
        /\ detail.status \in {"completed", "failed"}
        /\ detail.final_report.status = detail.status
        /\ world.repos > 0   => OnRecord("github.create_repo")
        /\ world.commits > 0 => OnRecord("github.commit_files")

\* No node runs before the store holds everything the nodes before it did: an
\* observer is never more than one node behind the effects.
ObserverKeepsUp ==
    /\ runner \in {"running", "caught", "failing"} =>
          /\ detail.tool_calls = state.tool_calls
          /\ detail.agent_steps = state.agent_steps
    /\ runner \in {"storing", "stopped"} =>
          Len(detail.tool_calls) >= Len(state.tool_calls) - 1

IsExtension(s, t) == Len(s) <= Len(t) /\ s = SubSeq(t, 1, Len(s))

\* What a client has read of the trace, the tool calls and the artifacts is
\* never taken back while the store lives: a later read extends it.
HistoryOnlyGrows ==
    [][runner' # "gone" =>
          /\ IsExtension(detail.agent_steps, detail'.agent_steps)
          /\ IsExtension(detail.tool_calls, detail'.tool_calls)
          /\ IsExtension(detail.generated_artifacts, detail'.generated_artifacts)]_allVars

\* An approval that was asked for or decided is not lost to the snapshots the
\* run stores meanwhile.
ApprovalsSurvive ==
    [][runner' # "gone" => \A a \in Approvals :
          /\ detail.approvals[a] # "none" => detail'.approvals[a] # "none"
          /\ detail.approvals[a] \in Decisions =>
                detail'.approvals[a] \in Decisions]_allVars

\* The task keeps the promise of the lifecycle: the store's status is the
\* phase, and a task the API cannot answer for is lost.
Answering == runner # "gone" /\ served

Lifecycle == INSTANCE TaskLifecycle WITH
    phase    <- IF Answering THEN detail.status ELSE "lost",
    reported <- Answering /\ detail.final_report.status # "none",
    written  <- world.repos + world.commits

KeepsThePromise == Lifecycle!Spec
=============================================================================
