------------------------------ MODULE Workflow ------------------------------
(***************************************************************************)
(* One run of the MVPilot build graph (agent/workflow.py).                 *)
(*                                                                         *)
(* The graph is a LangGraph StateGraph of seventeen nodes.  A node reads   *)
(* the workflow state, calls the model, the retrieval layer or the tools,  *)
(* and returns an update which the graph merges into the state; an edge or *)
(* a router then names the next node.  Here one action is one node: the    *)
(* whole handler, the merge of its update and the routing that follows.    *)
(* An exception leaves the state alone and stops the graph.                *)
(*                                                                         *)
(* The text of plans, files and reports is abstracted.  What is kept of a  *)
(* model answer is its mode, of a tool call its name, status and           *)
(* recoverability, of an artifact where its content comes from.            *)
(*                                                                         *)
(* A definition named Mutant... is a slip the code could have had: no       *)
(* specification uses it, and the runs are repeated with it in place of the *)
(* definition that follows it, to see that the properties notice.          *)
(***************************************************************************)
EXTENDS Naturals, Sequences

VARIABLES
    settings,   \* what the process was configured with, and the intake
    node,       \* the node to run next, "END", or "raised" after an exception
    state,      \* the WorkflowState
    world       \* what the run did outside the process

vars == <<settings, node, state, world>>

-----------------------------------------------------------------------------
(* The vocabulary of the state.                                            *)

\* BUILD_TIMELINE_PHASES.
Phases == {"idea_intake", "requirement_expansion", "domain_research",
           "reference_url_analysis", "user_goal_interpretation",
           "feature_system_design", "tech_stack_recommendation",
           "data_model_design", "api_design", "frontend_architecture",
           "backend_architecture", "auth_authorization_design",
           "database_schema_planning", "file_tree_generation",
           "code_implementation", "testing_strategy",
           "documentation_generation", "deployment_instructions",
           "github_repo_export", "build_test_validation",
           "final_project_report"}

Nodes == {"receive_idea", "exchange_github_code", "retrieve_context",
          "scope_mvp", "recommend_stack", "plan_repo", "create_repo",
          "generate_files", "validate_mvp", "debug_generated_files",
          "commit_progress", "verify_build", "handle_blocker",
          "generate_final_package", "remember_outcome", "report_result",
          "failed"}

Modes         == {"mock", "live", "degraded"}
PhaseStatuses == {"pending", "running", "completed", "failed"}
StepStatuses  == {"completed", "failed", "blocked"}

\* Where the content of a generated artifact comes from: the model's
\* manifest, the project scaffold that completes it, the debug report, the
\* final report.
Origins == {"manifest", "scaffold", "debug", "final"}

\* The critical checks of validate_mvp_output: those that look at the content
\* of the files, as one, and the check on the mode of the manifest.
Checks == {"content", "live_manifest_only"}

Steps == [node : Nodes, status : StepStatuses]

Calls == [tool : {"none", "github.create_repo", "github.use_existing_repo",
                  "github.commit_files", "build.verify",
                  "build.apply_recovery_patch"},
          status : {"none", "success", "failed"},
          recoverable : BOOLEAN]

NoCall == [tool |-> "none", status |-> "none", recoverable |-> FALSE]

Reports == [status : {"none", "completed", "failed"},
            mode : Modes \cup {"none"},
            summary : Nodes \cup {"none", "delivered"},
            artifact_count : Nat]

NoReport == [status |-> "none", mode |-> "none", summary |-> "none",
             artifact_count |-> 0]

Settings ==
    [mock_mode : BOOLEAN, nvidia_configured : BOOLEAN,
     allow_idea_aware_partial : BOOLEAN, require_live_file_manifest : BOOLEAN,
     github_connection_id : BOOLEAN, github_service : BOOLEAN,
     use_existing_repo : BOOLEAN]

States ==
    [status : {"started", "completed", "failed"},
     failure_reason : Nodes \cup {"none"},
     github_connection : {"none", "mock_skipped", "missing", "exchanged"},
     blocker_recovered : BOOLEAN,
     model_modes : Seq(Modes),
     file_manifest_mode : Modes \cup {"none"},
     mvp_validation : [run : BOOLEAN, broken : SUBSET Checks],
     build_timeline : [Phases -> PhaseStatuses],
     agent_steps : Seq(Steps),
     tool_calls : Seq(Calls),
     last_tool_result : Calls,
     generated_artifacts : Seq(Origins),
     final_report : Reports]

\* repos: repositories this run created; commits: commits it left on the
\* branch; committed: the origins of the files in them; memories: outcome
\* rows it wrote.
Worlds == [repos : Nat, commits : Nat, committed : SUBSET Origins,
           memories : Nat]

\* A commit call that finds the repository empty makes two commits.
MaxCommitsPerCall == 2

-----------------------------------------------------------------------------
(* What a call to the model may do.                                        *)

\* Live attempts that are exhausted fall back to degraded output only when
\* the settings allow it for this purpose.
AllowsPartialFallback(purpose) ==
    /\ settings.allow_idea_aware_partial
    /\ ~(purpose = "file_manifest" /\ settings.require_live_file_manifest)

\* The modes complete_structured can return, and whether it can raise.
\* Without an API key the client answers at once with degraded output.
ReturnedModes(purpose) ==
    IF settings.mock_mode THEN {"mock"}
    ELSE IF settings.nvidia_configured
         THEN {"live"} \cup {m \in {"degraded"} : AllowsPartialFallback(purpose)}
         ELSE {m \in {"degraded"} : settings.allow_idea_aware_partial}

ModelCallRaises(purpose) ==
    /\ ~settings.mock_mode
    /\ IF settings.nvidia_configured
       THEN ~AllowsPartialFallback(purpose)
       ELSE ~settings.allow_idea_aware_partial

\* _nemotron_purpose_requires_live, and the check of a result against it.
RequiresLive(purpose) ==
    \/ ~settings.allow_idea_aware_partial
    \/ purpose = "file_manifest" /\ settings.require_live_file_manifest

AcceptedModes(purpose) ==
    {m \in ReturnedModes(purpose) :
        settings.mock_mode \/ m = "live" \/ ~RequiresLive(purpose)}

PackagePurposes == {"final_readme", "demo_script", "pitch"}

\* _package_mode of the three results of the package.
PackageMode(modes) == IF "live" \in modes THEN "live" ELSE "mock"

-----------------------------------------------------------------------------
(* Updates of the state that several nodes make.                           *)

\* append_step, append_model_step: the update goes through the additive
\* reducer of agent_steps and graph_trace.
Logged(s, n, status) ==
    [s EXCEPT !.agent_steps = Append(@, [node |-> n, status |-> status])]

\* record_phase, record_phases: the named phases take the status, the others
\* keep theirs.
Phased(s, phases, status) ==
    [s EXCEPT !.build_timeline =
        [p \in Phases |-> IF p \in phases THEN status ELSE @[p]]]

\* A node that called a tool keeps the call twice.
Called(s, call) ==
    [s EXCEPT !.tool_calls = Append(@, call), !.last_tool_result = call]

Answered(s, mode) == [s EXCEPT !.model_modes = Append(@, mode)]

MutantRefused(s, n) == [s EXCEPT !.status = "failed"]

\* The route failures: the state turns failed before the failed node runs.
Refused(s, n) == [s EXCEPT !.status = "failed", !.failure_reason = n]

GoTo(n, s) == node' = n /\ state' = s /\ UNCHANGED settings

-----------------------------------------------------------------------------
(* The routers of the conditional edges.                                   *)

MutantRouteAfterGithubExchange(s) == "retrieve_context"

RouteAfterGithubExchange(s) ==
    IF s.status = "failed" THEN "failed" ELSE "retrieve_context"

MutantRouteAfterCreateRepo(s) == "generate_files"

RouteAfterCreateRepo(s) ==
    IF s.status = "failed" THEN "failed" ELSE "generate_files"

Passed(s) == s.mvp_validation.broken = {}

MutantRouteAfterValidateMvp(s) == "debug_generated_files"

RouteAfterValidateMvp(s) ==
    IF s.status = "failed" \/ ~Passed(s) THEN "failed"
    ELSE "debug_generated_files"

MutantRouteAfterCommitProgress(s) == "verify_build"

RouteAfterCommitProgress(s) ==
    IF s.status = "failed" THEN "failed" ELSE "verify_build"

RouteAfterToolResult(s) ==
    CASE s.last_tool_result.status = "success" -> "generate_final_package"
      [] s.last_tool_result.status # "success"
         /\ s.last_tool_result.recoverable     -> "handle_blocker"
      [] OTHER                                 -> "failed"

-----------------------------------------------------------------------------
InitialState ==
    [status             |-> "started",
     failure_reason     |-> "none",
     github_connection  |-> "none",
     blocker_recovered  |-> FALSE,
     model_modes        |-> <<>>,
     file_manifest_mode |-> "none",
     mvp_validation     |-> [run |-> FALSE, broken |-> {}],
     build_timeline     |-> [p \in Phases |-> "pending"],
     agent_steps        |-> <<>>,
     tool_calls         |-> <<>>,
     last_tool_result   |-> NoCall,
     generated_artifacts |-> <<>>,
     final_report       |-> NoReport]

Init ==
    /\ settings \in Settings
    /\ node = "receive_idea"
    /\ state = InitialState
    /\ world = [repos |-> 0, commits |-> 0, committed |-> {}, memories |-> 0]

-----------------------------------------------------------------------------
(* The nodes.                                                              *)

ReceiveIdea ==
    /\ node = "receive_idea"
    /\ GoTo("exchange_github_code",
            Phased(Logged(state, "receive_idea", "completed"),
                   {"idea_intake"}, "completed"))
    /\ UNCHANGED world

\* What exchange_github_code ends with: a test run skips the exchange; a live
\* one needs a connection and the service, whose exchange may be refused (a
\* GitHubOAuthError) or not.
Exchanges ==
    CASE settings.mock_mode                                -> {"mock_skipped"}
      [] ~settings.mock_mode /\ ~settings.github_connection_id -> {"missing"}
      [] ~settings.mock_mode /\ settings.github_connection_id
         /\ ~settings.github_service                       -> {"none"}
      [] OTHER                                             -> {"none", "exchanged"}

ExchangeGithubCode ==
    /\ node = "exchange_github_code"
    /\ \E outcome \in Exchanges :
         LET ok == outcome \in {"mock_skipped", "exchanged"}
             s  == [Logged(state, node, IF ok THEN "completed" ELSE "failed")
                        EXCEPT !.github_connection = outcome]
             t  == IF ok THEN s ELSE Refused(s, node)
         IN  GoTo(RouteAfterGithubExchange(t), t)
    /\ UNCHANGED world

RetrieveContext ==
    /\ node = "retrieve_context"
    /\ GoTo("scope_mvp",
            Phased(Logged(state, node, "completed"),
                   {"domain_research", "reference_url_analysis"}, "completed"))
    /\ UNCHANGED world

\* The three planning nodes differ in the phases they complete.
ScopePhases == {"requirement_expansion", "user_goal_interpretation",
                "feature_system_design"}

PlanPhases == {"data_model_design", "api_design", "frontend_architecture",
               "backend_architecture", "auth_authorization_design",
               "database_schema_planning"}

Plan(purpose, phases, next) ==
    /\ node = purpose
    /\ \E mode \in AcceptedModes(purpose) :
         GoTo(next, Phased(Answered(Logged(state, node, "completed"), mode),
                           phases, "completed"))
    /\ UNCHANGED world

ScopeMvp       == Plan("scope_mvp", ScopePhases, "recommend_stack")
RecommendStack == Plan("recommend_stack", {"tech_stack_recommendation"}, "plan_repo")
PlanRepo       == Plan("plan_repo", PlanPhases, "create_repo")

\* The live adapter refuses without the credentials of an exchange; it
\* attaches an existing repository without asking GitHub, and may refuse for
\* want of a name; a failed creation may have created the repository.
CreateRepo ==
    /\ node = "create_repo"
    /\ \E ok \in BOOLEAN, made \in 0..1, retry \in BOOLEAN :
         /\ settings.mock_mode => ok
         /\ ok => settings.mock_mode \/ state.github_connection = "exchanged"
         /\ made = 1 => /\ ~settings.mock_mode
                        /\ ~settings.use_existing_repo
                        /\ state.github_connection = "exchanged"
         /\ world' = [world EXCEPT !.repos = @ + made]
         /\ LET call == [tool |-> IF settings.use_existing_repo
                                  THEN "github.use_existing_repo"
                                  ELSE "github.create_repo",
                         status |-> IF ok THEN "success" ELSE "failed",
                         recoverable |-> ~ok /\ ~settings.use_existing_repo /\ retry]
                s == Called(Logged(state, node, IF ok THEN "completed" ELSE "failed"),
                            call)
                t == IF ok THEN Phased(s, {"github_repo_export"}, "completed")
                           ELSE Refused(s, node)
            IN  GoTo(RouteAfterCreateRepo(t), t)

FilePhases == {"file_tree_generation", "code_implementation",
               "documentation_generation"}

\* The manifest of the model is merged with the scaffold of the project: the
\* files the model did not name come from the scaffold.
GenerateFiles ==
    /\ node = "generate_files"
    /\ settings.mock_mode \/ settings.nvidia_configured
    /\ \E mode \in AcceptedModes("file_manifest"),
          files \in {<<"manifest">>, <<"manifest", "scaffold">>} :
         GoTo("validate_mvp",
              [Phased(Answered(Logged(state, node, "completed"), mode),
                      FilePhases, "completed")
                  EXCEPT !.generated_artifacts = @ \o files,
                         !.file_manifest_mode  = mode])
    /\ UNCHANGED world

\* Every live run checks the mode of the manifest, whatever
\* require_live_file_manifest says.
ValidateMvp ==
    /\ node = "validate_mvp"
    /\ \E broken \in SUBSET Checks :
         /\ "live_manifest_only" \in broken
               <=> ~settings.mock_mode /\ state.file_manifest_mode # "live"
         /\ LET outcome == IF broken = {} THEN "completed" ELSE "failed"
                s == [Phased(Logged(state, node, outcome),
                             {"testing_strategy"}, outcome)
                         EXCEPT !.mvp_validation = [run |-> TRUE, broken |-> broken]]
                t == IF broken = {} THEN s ELSE Refused(s, node)
            IN  GoTo(RouteAfterValidateMvp(t), t)
    /\ UNCHANGED world

\* The update repeats the artifacts the state already has, and the reducer of
\* generated_artifacts adds it to them.
DebugGeneratedFiles ==
    /\ node = "debug_generated_files"
    /\ GoTo("commit_progress",
            [Logged(state, node, "completed")
                EXCEPT !.generated_artifacts = (@ \o @) \o <<"debug">>])
    /\ UNCHANGED world

ArtifactOrigins(s) ==
    {s.generated_artifacts[i] : i \in 1..Len(s.generated_artifacts)}

\* The step is logged as completed even when the commit failed, and a failed
\* commit call may have left one or both of its commits on the branch.  The
\* health scaffold joins the files when they lack one it requires.
CommitProgress ==
    /\ node = "commit_progress"
    /\ \E ok \in BOOLEAN, made \in 0..MaxCommitsPerCall,
          retry \in BOOLEAN, extra \in SUBSET {"scaffold"} :
         /\ settings.mock_mode => ok /\ made = 0
         /\ ok /\ ~settings.mock_mode => made > 0
         /\ world' = [world EXCEPT
                        !.commits   = @ + made,
                        !.committed = IF made = 0 THEN @
                                      ELSE @ \cup ArtifactOrigins(state) \cup extra]
         /\ LET call == [tool |-> "github.commit_files",
                         status |-> IF ok THEN "success" ELSE "failed",
                         recoverable |-> ~ok /\ retry]
                s == Called(Logged(state, node, "completed"), call)
                t == IF ok THEN Phased(s, {"github_repo_export"}, "running")
                           ELSE Refused(s, node)
            IN  GoTo(RouteAfterCommitProgress(t), t)

\* The test adapter fails recoverably until the blocker is handled; a failed
\* health check of a live repository is final.  A failure sets the reason but
\* not the status, and no later node clears it.
VerifyBuild ==
    /\ node = "verify_build"
    /\ \E ok \in BOOLEAN :
         /\ settings.mock_mode => ok = state.blocker_recovered
         /\ LET outcome == IF ok THEN "completed" ELSE "failed"
                call == [tool |-> "build.verify",
                         status |-> IF ok THEN "success" ELSE "failed",
                         recoverable |-> ~ok /\ settings.mock_mode]
                s == Phased(Called(Logged(state, node,
                                          IF ok THEN "completed" ELSE "blocked"), call),
                            {"build_test_validation"}, outcome)
                t == IF ok THEN s ELSE [s EXCEPT !.failure_reason = node]
            IN  GoTo(RouteAfterToolResult(t), t)
    /\ UNCHANGED world

RecoveryCall == [tool |-> "build.apply_recovery_patch", status |-> "success",
                 recoverable |-> FALSE]

MutantHandleBlocker ==
    /\ node = "handle_blocker"
    /\ AcceptedModes("blocker_analysis") # {}
    /\ GoTo("commit_progress",
            [Called(Logged(state, node, "completed"), RecoveryCall)
                EXCEPT !.blocker_recovered = TRUE])
    /\ UNCHANGED world

HandleBlocker ==
    /\ node = "handle_blocker"
    /\ AcceptedModes("blocker_analysis") # {}
    /\ GoTo("verify_build",
            [Called(Logged(state, node, "completed"), RecoveryCall)
                EXCEPT !.blocker_recovered = TRUE])
    /\ UNCHANGED world

PackagePhases == {"deployment_instructions", "documentation_generation",
                  "final_project_report"}

\* The report counts the final artifact the same update adds.
GenerateFinalPackage ==
    /\ node = "generate_final_package"
    /\ \E modes \in [PackagePurposes -> Modes] :
         /\ \A p \in PackagePurposes : modes[p] \in AcceptedModes(p)
         /\ GoTo("remember_outcome",
                 [Phased(Logged(state, node, "completed"), PackagePhases, "completed")
                     EXCEPT !.generated_artifacts = Append(@, "final"),
                            !.final_report =
                                [status  |-> "completed",
                                 mode    |-> PackageMode({modes[p] : p \in PackagePurposes}),
                                 summary |-> "delivered",
                                 artifact_count |-> Len(state.generated_artifacts) + 1]])
    /\ UNCHANGED world

\* The row is skipped when the retrieval store is not configured, and a write
\* that fails is only noted in the trace.
RememberOutcome ==
    /\ node = "remember_outcome"
    /\ GoTo("report_result", Logged(state, node, "completed"))
    /\ \E rows \in 0..1 : world' = [world EXCEPT !.memories = @ + rows]

ReportResult ==
    /\ node = "report_result"
    /\ GoTo("END", [Logged(state, node, "completed") EXCEPT !.status = "completed"])
    /\ UNCHANGED world

Failed ==
    /\ node = "failed"
    /\ GoTo("END",
            [Logged(state, node, "failed")
                EXCEPT !.status = "failed",
                       !.final_report =
                           [status  |-> "failed",
                            mode    |-> IF settings.mock_mode THEN "mock" ELSE "live",
                            summary |-> state.failure_reason,
                            artifact_count |-> 0]])
    /\ UNCHANGED world

\* The purposes a node calls the model for.
PurposesOf(n) ==
    CASE n = "generate_files"         -> {"file_manifest"}
      [] n = "generate_final_package" -> PackagePurposes
      [] n = "handle_blocker"         -> {"blocker_analysis"}
      [] n \in {"scope_mvp", "recommend_stack", "plan_repo"} -> {n}
      [] OTHER                        -> {}

\* A node raises: the model call did, or its answer is not live where it must
\* be; the manifest needs an API key; the retrieval layer or the connection
\* store could not be reached.
CanRaise(n) ==
    \/ \E p \in PurposesOf(n) :
          ModelCallRaises(p) \/ AcceptedModes(p) # ReturnedModes(p)
    \/ n = "generate_files" /\ ~settings.mock_mode /\ ~settings.nvidia_configured
    \/ n = "retrieve_context"
    \/ n = "exchange_github_code" /\ Exchanges = {"none", "exchanged"}

Raise ==
    /\ CanRaise(node)
    /\ node' = "raised"
    /\ UNCHANGED <<settings, state, world>>

Next ==
    \/ ReceiveIdea \/ ExchangeGithubCode \/ RetrieveContext
    \/ ScopeMvp \/ RecommendStack \/ PlanRepo
    \/ CreateRepo \/ GenerateFiles \/ ValidateMvp \/ DebugGeneratedFiles
    \/ CommitProgress \/ VerifyBuild \/ HandleBlocker
    \/ GenerateFinalPackage \/ RememberOutcome \/ ReportResult \/ Failed
    \/ Raise

\* A coroutine that is not waiting is run by the event loop, and every call a
\* node awaits returns or raises: each has a timeout.
Fairness == WF_vars(Next)

Spec == Init /\ [][Next]_vars /\ Fairness

-----------------------------------------------------------------------------
(* Properties.                                                             *)

\* The state has the shape WorkflowState declares, in the values the nodes
\* write.
TypeOK ==
    /\ settings \in Settings
    /\ node \in Nodes \cup {"END", "raised"}
    /\ state \in States
    /\ world \in Worlds

\* A run writes to GitHub only with the credentials its own exchange
\* obtained: a test run never does, and a live run whose exchange was refused
\* does not even call a tool.
AuthorisedEffects ==
    /\ world.repos + world.commits > 0 =>
          ~settings.mock_mode /\ state.github_connection = "exchanged"
    /\ ~settings.mock_mode /\ state.github_connection # "exchanged" =>
          state.tool_calls = <<>>

\* Nothing is committed that the validation did not pass, nor built on a
\* manifest the model did not answer live.
CommitsAreValidated ==
    world.commits > 0 => /\ state.mvp_validation = [run |-> TRUE, broken |-> {}]
                         /\ state.file_manifest_mode = "live"
                         /\ settings.nvidia_configured

CommitCalls(s) == {i \in 1..Len(s.tool_calls) :
                      s.tool_calls[i].tool = "github.commit_files"}

\* A run that is reported completed, or remembered as an outcome, delivered:
\* the last build verification succeeded on validated files and, when live,
\* what the model wrote is on the branch.  Its timeline shows no phase that
\* never started or that is still failed.
CompletedIsDelivered ==
    state.status = "completed" \/ world.memories > 0 =>
        /\ state.final_report.status = "completed"
        /\ state.last_tool_result.tool = "build.verify"
        /\ state.last_tool_result.status = "success"
        /\ state.mvp_validation = [run |-> TRUE, broken |-> {}]
        /\ settings.mock_mode \/ "manifest" \in world.committed
        /\ \A p \in Phases : state.build_timeline[p] \in {"running", "completed"}

\* A run that ends failed says which node stopped it, and that node is the
\* one before the failed node in the trace.
FailureIsExplained ==
    node = "END" /\ state.status = "failed" =>
        LET n == Len(state.agent_steps)
        IN  /\ state.final_report.status = "failed"
            /\ state.agent_steps[n].node = "failed"
            /\ state.final_report.summary = state.agent_steps[n - 1].node

\* The blocker loop verifies twice and does not commit again, which keeps the
\* longest run at seventeen supersteps, under the 25 at which LangGraph stops
\* a graph.
LongestRun     == 17
RecursionLimit == 25

LoopIsBounded ==
    /\ Len(state.agent_steps) <= LongestRun
    /\ LongestRun < RecursionLimit
    /\ \A i, j \in CommitCalls(state) : i = j

\* Once the state is failed the run only ends: no tool is called, nothing is
\* written outside, and the status stays.
FailureStopsTheRun ==
    [][state.status = "failed" => /\ node' = "END"
                                  /\ state'.status = "failed"
                                  /\ state'.tool_calls = state.tool_calls
                                  /\ world' = world]_vars

\* What the README says of a live run without the model: with
\* ALLOW_IDEA_AWARE_PARTIAL it produces a partial implementation.  A run
\* allowed to go on without a live manifest is not refused for just that.
PartialIsNotRefused ==
    settings.allow_idea_aware_partial /\ ~settings.require_live_file_manifest =>
        state.mvp_validation.broken # {"live_manifest_only"}
=============================================================================
