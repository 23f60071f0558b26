--------------------------- MODULE WorkflowProofs ---------------------------
(***************************************************************************)
(* Proofs about the build graph, for every setting, and about the task that  *)
(* runs it, for every set of approvals.                                     *)
(*                                                                         *)
(* Each update of the state is shown once to keep the shape of the state and *)
(* to change only its own part of it; then each node is.  From these effects *)
(* of the nodes alone follow the invariants of a run, and from those the     *)
(* invariants of its task and the steps of the lifecycle.                    *)
(***************************************************************************)
EXTENDS TaskRunner, TLAPS

(* The shape of the state. *)

LEMMA WithSteps ==
    ASSUME NEW s \in States, NEW q \in Seq(Steps)
    PROVE  [s EXCEPT !.agent_steps = q] \in States
BY DEF States

LEMMA LoggedType ==
    ASSUME NEW s \in States, NEW n \in Nodes, NEW st \in StepStatuses
    PROVE  Logged(s, n, st) \in States
<1>1. s.agent_steps \in Seq(Steps)
  BY DEF States
<1>2. [node |-> n, status |-> st] \in Steps
  BY DEF Steps
<1>3. Append(s.agent_steps, [node |-> n, status |-> st]) \in Seq(Steps)
  BY <1>1, <1>2
<1> QED BY <1>3, WithSteps DEF Logged

LEMMA PhasedType ==
    ASSUME NEW s \in States, NEW ps, NEW st \in PhaseStatuses
    PROVE  Phased(s, ps, st) \in States
<1> DEFINE line == [p \in Phases |-> IF p \in ps THEN st ELSE s.build_timeline[p]]
<1>1. s.build_timeline \in [Phases -> PhaseStatuses]
  BY DEF States
<1>2. line \in [Phases -> PhaseStatuses]
  BY <1>1
<1> HIDE DEF line
<1>3. [s EXCEPT !.build_timeline = line] \in States
  BY <1>2 DEF States
<1> QED BY <1>3 DEF Phased, line

LEMMA CalledType ==
    ASSUME NEW s \in States, NEW call \in Calls
    PROVE  Called(s, call) \in States
<1> DEFINE q == Append(s.tool_calls, call)
<1>1. s.tool_calls \in Seq(Calls)
  BY DEF States
<1>2. q \in Seq(Calls)
  BY <1>1
<1> HIDE DEF q
<1>3. [s EXCEPT !.tool_calls = q, !.last_tool_result = call] \in States
  BY <1>2 DEF States
<1> QED BY <1>3 DEF Called, q

LEMMA AnsweredType ==
    ASSUME NEW s \in States, NEW mode \in Modes
    PROVE  Answered(s, mode) \in States
<1> DEFINE q == Append(s.model_modes, mode)
<1>1. s.model_modes \in Seq(Modes)
  BY DEF States
<1>2. q \in Seq(Modes)
  BY <1>1
<1> HIDE DEF q
<1>3. [s EXCEPT !.model_modes = q] \in States
  BY <1>2 DEF States
<1> QED BY <1>3 DEF Answered, q

LEMMA RefusedType ==
    ASSUME NEW s \in States, NEW n \in Nodes
    PROVE  Refused(s, n) \in States
BY DEF Refused, States

LEMMA InitialStateType == InitialState \in States
BY DEF InitialState, States, NoCall, Calls, NoReport, Reports, PhaseStatuses

THEOREM InitType == Init => TypeOK
<1> SUFFICES ASSUME Init PROVE TypeOK
  OBVIOUS
<1>1. state \in States
  BY InitialStateType DEF Init
<1>2. world \in Worlds
  BY DEF Init, Worlds
<1>3. node \in Nodes /\ settings \in Settings
  BY DEF Init, Nodes
<1> QED BY <1>1, <1>2, <1>3 DEF TypeOK

LEMMA AcceptedModesType ==
    ASSUME NEW purpose PROVE AcceptedModes(purpose) \subseteq Modes
BY DEF AcceptedModes, ReturnedModes, Modes

\* An answer of the model, logged with the phases of its node.
LEMMA PlanType ==
    ASSUME TypeOK, NEW purpose \in Nodes, NEW phases, NEW next \in Nodes,
           Plan(purpose, phases, next)
    PROVE  TypeOK'
<1>1. PICK mode \in AcceptedModes(purpose) :
         GoTo(next, Phased(Answered(Logged(state, node, "completed"), mode),
                           phases, "completed"))
  BY DEF Plan
<1>2. mode \in Modes /\ node \in Nodes /\ state \in States
  BY AcceptedModesType DEF Plan, TypeOK
<1>3. Logged(state, node, "completed") \in States
  BY <1>2, LoggedType DEF StepStatuses
<1>4. Answered(Logged(state, node, "completed"), mode) \in States
  BY <1>2, <1>3, AnsweredType
<1>5. Phased(Answered(Logged(state, node, "completed"), mode), phases, "completed")
        \in States
  BY <1>4, PhasedType DEF PhaseStatuses
<1>6. UNCHANGED <<settings, world>>
  BY <1>1 DEF Plan, GoTo
<1> QED BY <1>1, <1>5, <1>6 DEF TypeOK, GoTo

LEMMA ReceiveIdeaType == TypeOK /\ ReceiveIdea => TypeOK'
<1> SUFFICES ASSUME TypeOK, ReceiveIdea PROVE TypeOK'
  OBVIOUS
<1>1. Logged(state, "receive_idea", "completed") \in States
  BY LoggedType DEF TypeOK, Nodes, StepStatuses
<1>2. Phased(Logged(state, "receive_idea", "completed"), {"idea_intake"}, "completed")
        \in States
  BY <1>1, PhasedType DEF PhaseStatuses
<1> QED BY <1>2 DEF ReceiveIdea, GoTo, TypeOK, Nodes

LEMMA ExchangeType == TypeOK /\ ExchangeGithubCode => TypeOK'
<1> SUFFICES ASSUME TypeOK, ExchangeGithubCode PROVE TypeOK'
  OBVIOUS
<1>1. PICK outcome \in Exchanges :
         LET ok == outcome \in {"mock_skipped", "exchanged"}
             s  == [Logged(state, node, IF ok THEN "completed" ELSE "failed")
                        EXCEPT !.github_connection = outcome]
             t  == IF ok THEN s ELSE Refused(s, node)
         IN  GoTo(RouteAfterGithubExchange(t), t)
  BY DEF ExchangeGithubCode
<1> DEFINE ok == outcome \in {"mock_skipped", "exchanged"}
           l  == Logged(state, node, IF ok THEN "completed" ELSE "failed")
           s  == [l EXCEPT !.github_connection = outcome]
           t  == IF ok THEN s ELSE Refused(s, node)
<1>2. outcome \in {"none", "mock_skipped", "missing", "exchanged"}
  BY DEF Exchanges
<1>3. node \in Nodes
  BY DEF ExchangeGithubCode, Nodes
<1>4. l \in States
  BY <1>3, LoggedType DEF TypeOK, StepStatuses
<1> HIDE DEF l
<1>5. s \in States
  BY <1>2, <1>4 DEF States
<1>6. t \in States
  BY <1>3, <1>5, RefusedType
<1>7. GoTo(RouteAfterGithubExchange(t), t) /\ UNCHANGED world
  BY <1>1 DEF l, ExchangeGithubCode
<1> HIDE DEF t
<1> QED BY <1>6, <1>7 DEF GoTo, TypeOK, RouteAfterGithubExchange, Nodes

LEMMA RetrieveContextType == TypeOK /\ RetrieveContext => TypeOK'
<1> SUFFICES ASSUME TypeOK, RetrieveContext PROVE TypeOK'
  OBVIOUS
<1>1. node \in Nodes
  BY DEF RetrieveContext, Nodes
<1>2. Logged(state, node, "completed") \in States
  BY <1>1, LoggedType DEF TypeOK, StepStatuses
<1>3. Phased(Logged(state, node, "completed"),
             {"domain_research", "reference_url_analysis"}, "completed") \in States
  BY <1>2, PhasedType DEF PhaseStatuses
<1> QED BY <1>3 DEF RetrieveContext, GoTo, TypeOK, Nodes

LEMMA CreateRepoType == TypeOK /\ CreateRepo => TypeOK'
<1> SUFFICES ASSUME TypeOK, CreateRepo PROVE TypeOK'
  OBVIOUS
<1>1. PICK ok \in BOOLEAN, made \in 0..1, retry \in BOOLEAN :
         /\ settings.mock_mode => ok
         /\ ok => settings.mock_mode \/ state.github_connection = "exchanged"
         /\ made = 1 => /\ ~settings.mock_mode
                        /\ ~settings.use_existing_repo
                        /\ state.github_connection = "exchanged"
         /\ world' = [world EXCEPT !.repos = @ + made]
         /\ LET call == [tool |-> IF settings.use_existing_repo
                                  THEN "github.use_existing_repo"
                                  ELSE "github.create_repo",
                         status |-> IF ok THEN "success" ELSE "failed",
                         recoverable |-> ~ok /\ ~settings.use_existing_repo /\ retry]
                s == Called(Logged(state, node, IF ok THEN "completed" ELSE "failed"),
                            call)
                t == IF ok THEN Phased(s, {"github_repo_export"}, "completed")
                           ELSE Refused(s, node)
            IN  GoTo(RouteAfterCreateRepo(t), t)
  BY DEF CreateRepo
<1> DEFINE call == [tool |-> IF settings.use_existing_repo
                             THEN "github.use_existing_repo"
                             ELSE "github.create_repo",
                    status |-> IF ok THEN "success" ELSE "failed",
                    recoverable |-> ~ok /\ ~settings.use_existing_repo /\ retry]
           l == Logged(state, node, IF ok THEN "completed" ELSE "failed")
           s == Called(l, call)
           t == IF ok THEN Phased(s, {"github_repo_export"}, "completed")
                      ELSE Refused(s, node)
<1>2. node \in Nodes
  BY DEF CreateRepo, Nodes
<1>3. call \in Calls
  BY Zenon DEF Calls
<1>4. l \in States
  BY <1>2, LoggedType DEF TypeOK, StepStatuses
<1>5. s \in States
  BY <1>3, <1>4, CalledType
<1>6. t \in States
  BY <1>2, <1>5, RefusedType, PhasedType DEF PhaseStatuses
<1>7. GoTo(RouteAfterCreateRepo(t), t)
  BY <1>1
<1>8. world' \in Worlds
  BY <1>1 DEF TypeOK, Worlds
<1> HIDE DEF t
<1> QED BY <1>6, <1>7, <1>8 DEF GoTo, TypeOK, RouteAfterCreateRepo, Nodes

LEMMA WithArtifacts ==
    ASSUME NEW s \in States, NEW q \in Seq(Origins)
    PROVE  [s EXCEPT !.generated_artifacts = q] \in States
BY DEF States

LEMMA GenerateFilesType == TypeOK /\ GenerateFiles => TypeOK'
<1> SUFFICES ASSUME TypeOK, GenerateFiles PROVE TypeOK'
  OBVIOUS
<1>1. PICK mode \in AcceptedModes("file_manifest"),
           files \in {<<"manifest">>, <<"manifest", "scaffold">>} :
         GoTo("validate_mvp",
              [Phased(Answered(Logged(state, node, "completed"), mode),
                      FilePhases, "completed")
                  EXCEPT !.generated_artifacts = @ \o files,
                         !.file_manifest_mode  = mode])
  BY DEF GenerateFiles
<1> DEFINE s == Phased(Answered(Logged(state, node, "completed"), mode),
                       FilePhases, "completed")
           q == s.generated_artifacts \o files
<1>2. mode \in Modes /\ node \in Nodes
  BY AcceptedModesType DEF GenerateFiles, Nodes
<1>3. Logged(state, node, "completed") \in States
  BY <1>2, LoggedType DEF TypeOK, StepStatuses
<1>4. Answered(Logged(state, node, "completed"), mode) \in States
  BY <1>2, <1>3, AnsweredType
<1>5. s \in States
  BY <1>4, PhasedType DEF PhaseStatuses
<1>6. GoTo("validate_mvp", [s EXCEPT !.generated_artifacts = q,
                                     !.file_manifest_mode = mode])
  BY <1>1
<1> HIDE DEF s
<1>7. s.generated_artifacts \in Seq(Origins)
  BY <1>5 DEF States
<1>8. files \in Seq(Origins)
  <2>1. <<"manifest">> \in Seq(Origins)
    BY DEF Origins
  <2>2. "manifest" \in Origins /\ "scaffold" \in Origins
    BY DEF Origins
  <2>3. <<"manifest", "scaffold">> \in Seq(Origins)
    BY <2>2
  <2> QED BY <2>1, <2>3
<1>9. q \in Seq(Origins)
  BY <1>7, <1>8
<1> HIDE DEF q
<1>10. [s EXCEPT !.generated_artifacts = q, !.file_manifest_mode = mode] \in States
  BY <1>2, <1>5, <1>9 DEF States
<1> QED BY <1>6, <1>10 DEF GoTo, TypeOK, Nodes, GenerateFiles

LEMMA ValidateMvpType == TypeOK /\ ValidateMvp => TypeOK'
<1> SUFFICES ASSUME TypeOK, ValidateMvp PROVE TypeOK'
  OBVIOUS
<1>1. PICK broken \in SUBSET Checks :
         LET outcome == IF broken = {} THEN "completed" ELSE "failed"
             s == [Phased(Logged(state, node, outcome),
                          {"testing_strategy"}, outcome)
                      EXCEPT !.mvp_validation = [run |-> TRUE, broken |-> broken]]
             t == IF broken = {} THEN s ELSE Refused(s, node)
         IN  GoTo(RouteAfterValidateMvp(t), t)
  BY DEF ValidateMvp
<1> DEFINE outcome == IF broken = {} THEN "completed" ELSE "failed"
           l == Phased(Logged(state, node, outcome), {"testing_strategy"}, outcome)
           s == [l EXCEPT !.mvp_validation = [run |-> TRUE, broken |-> broken]]
           t == IF broken = {} THEN s ELSE Refused(s, node)
<1>2. node \in Nodes
  BY DEF ValidateMvp, Nodes
<1>3. Logged(state, node, outcome) \in States
  BY <1>2, LoggedType DEF TypeOK, StepStatuses
<1>4. l \in States
  BY <1>3, PhasedType DEF PhaseStatuses
<1>5. GoTo(RouteAfterValidateMvp(t), t) /\ UNCHANGED world
  BY <1>1 DEF ValidateMvp
<1> HIDE DEF l
<1>6. s \in States
  BY <1>4 DEF States
<1>7. t \in States
  BY <1>2, <1>6, RefusedType
<1> HIDE DEF t
<1> QED BY <1>5, <1>7 DEF GoTo, TypeOK, RouteAfterValidateMvp, Nodes

LEMMA DebugType == TypeOK /\ DebugGeneratedFiles => TypeOK'
<1> SUFFICES ASSUME TypeOK, DebugGeneratedFiles PROVE TypeOK'
  OBVIOUS
<1> DEFINE s == Logged(state, node, "completed")
           q == (s.generated_artifacts \o s.generated_artifacts) \o <<"debug">>
<1>1. s \in States
  BY LoggedType DEF TypeOK, DebugGeneratedFiles, Nodes, StepStatuses
<1>2. GoTo("commit_progress", [s EXCEPT !.generated_artifacts = q])
  BY DEF DebugGeneratedFiles
<1> HIDE DEF s
<1>3. s.generated_artifacts \in Seq(Origins)
  BY <1>1 DEF States
<1>4. <<"debug">> \in Seq(Origins)
  BY DEF Origins
<1>5. q \in Seq(Origins)
  BY <1>3, <1>4
<1>6. [s EXCEPT !.generated_artifacts = q] \in States
  BY <1>1, <1>5, WithArtifacts
<1> QED BY <1>2, <1>6 DEF GoTo, TypeOK, Nodes, DebugGeneratedFiles

LEMMA ArtifactOriginsType ==
    ASSUME NEW s \in States PROVE ArtifactOrigins(s) \subseteq Origins
<1>1. s.generated_artifacts \in Seq(Origins)
  BY DEF States
<1> QED BY <1>1 DEF ArtifactOrigins

LEMMA CommitProgressType == TypeOK /\ CommitProgress => TypeOK'
<1> SUFFICES ASSUME TypeOK, CommitProgress PROVE TypeOK'
  OBVIOUS
<1>1. PICK ok \in BOOLEAN, made \in 0..MaxCommitsPerCall,
           retry \in BOOLEAN, extra \in SUBSET {"scaffold"} :
         /\ settings.mock_mode => ok /\ made = 0
         /\ ok /\ ~settings.mock_mode => made > 0
         /\ world' = [world EXCEPT
                        !.commits   = @ + made,
                        !.committed = IF made = 0 THEN @
                                      ELSE @ \cup ArtifactOrigins(state) \cup extra]
         /\ LET call == [tool |-> "github.commit_files",
                         status |-> IF ok THEN "success" ELSE "failed",
                         recoverable |-> ~ok /\ retry]
                s == Called(Logged(state, node, "completed"), call)
                t == IF ok THEN Phased(s, {"github_repo_export"}, "running")
                           ELSE Refused(s, node)
            IN  GoTo(RouteAfterCommitProgress(t), t)
  BY DEF CommitProgress
<1> DEFINE call == [tool |-> "github.commit_files",
                    status |-> IF ok THEN "success" ELSE "failed",
                    recoverable |-> ~ok /\ retry]
           l == Logged(state, node, "completed")
           s == Called(l, call)
           t == IF ok THEN Phased(s, {"github_repo_export"}, "running")
                      ELSE Refused(s, node)
<1>2. node \in Nodes
  BY DEF CommitProgress, Nodes
<1>3. call \in Calls
  BY Zenon DEF Calls
<1>4. l \in States
  BY <1>2, LoggedType DEF TypeOK, StepStatuses
<1>5. s \in States
  BY <1>3, <1>4, CalledType
<1>6. t \in States
  BY <1>2, <1>5, RefusedType, PhasedType DEF PhaseStatuses
<1>7. GoTo(RouteAfterCommitProgress(t), t)
  BY <1>1
<1>8. ArtifactOrigins(state) \subseteq Origins /\ extra \subseteq Origins
  BY ArtifactOriginsType DEF TypeOK, Origins
<1>9. world' \in Worlds
  <2>1. world \in Worlds /\ made \in Nat /\ world.commits + made \in Nat
    BY DEF TypeOK, Worlds, MaxCommitsPerCall
  <2> DEFINE c == IF made = 0 THEN world.committed
                  ELSE world.committed \cup ArtifactOrigins(state) \cup extra
             n == world.commits + made
  <2>2. c \subseteq Origins /\ n \in Nat
    BY <2>1, <1>8 DEF Worlds
  <2>3. world' = [world EXCEPT !.commits = n, !.committed = c]
    BY <1>1
  <2> HIDE DEF c, n
  <2> QED BY <2>1, <2>2, <2>3 DEF Worlds
<1> HIDE DEF t
<1> QED BY <1>6, <1>7, <1>9 DEF GoTo, TypeOK, RouteAfterCommitProgress, Nodes

LEMMA VerifyBuildType == TypeOK /\ VerifyBuild => TypeOK'
<1> SUFFICES ASSUME TypeOK, VerifyBuild PROVE TypeOK'
  OBVIOUS
<1>1. PICK ok \in BOOLEAN :
         LET outcome == IF ok THEN "completed" ELSE "failed"
             call == [tool |-> "build.verify",
                      status |-> IF ok THEN "success" ELSE "failed",
                      recoverable |-> ~ok /\ settings.mock_mode]
             s == Phased(Called(Logged(state, node,
                                       IF ok THEN "completed" ELSE "blocked"), call),
                         {"build_test_validation"}, outcome)
             t == IF ok THEN s ELSE [s EXCEPT !.failure_reason = node]
         IN  GoTo(RouteAfterToolResult(t), t)
  BY DEF VerifyBuild
<1> DEFINE outcome == IF ok THEN "completed" ELSE "failed"
           call == [tool |-> "build.verify",
                    status |-> IF ok THEN "success" ELSE "failed",
                    recoverable |-> ~ok /\ settings.mock_mode]
           l == Logged(state, node, IF ok THEN "completed" ELSE "blocked")
           s == Phased(Called(l, call), {"build_test_validation"}, outcome)
           t == IF ok THEN s ELSE [s EXCEPT !.failure_reason = node]
<1>2. node \in Nodes
  BY DEF VerifyBuild, Nodes
<1>3. call \in Calls
  BY Zenon DEF Calls, TypeOK, Settings
<1>4. l \in States
  BY <1>2, LoggedType DEF TypeOK, StepStatuses
<1>5. Called(l, call) \in States
  BY <1>3, <1>4, CalledType
<1>6. s \in States
  BY <1>5, PhasedType DEF PhaseStatuses
<1>7. GoTo(RouteAfterToolResult(t), t) /\ UNCHANGED world
  BY <1>1 DEF VerifyBuild
<1> HIDE DEF s
<1>8. t \in States
  BY <1>2, <1>6 DEF States
<1>9. RouteAfterToolResult(t) \in Nodes
  BY DEF RouteAfterToolResult, Nodes
<1> HIDE DEF t
<1> QED BY <1>7, <1>8, <1>9 DEF GoTo, TypeOK

LEMMA HandleBlockerType == TypeOK /\ HandleBlocker => TypeOK'
<1> SUFFICES ASSUME TypeOK, HandleBlocker PROVE TypeOK'
  OBVIOUS
<1> DEFINE s == Called(Logged(state, node, "completed"), RecoveryCall)
<1>1. Logged(state, node, "completed") \in States
  BY LoggedType DEF TypeOK, HandleBlocker, Nodes, StepStatuses
<1>2. RecoveryCall \in Calls
  BY DEF RecoveryCall, Calls
<1>3. s \in States
  BY <1>1, <1>2, CalledType
<1>4. GoTo("verify_build", [s EXCEPT !.blocker_recovered = TRUE])
  BY DEF HandleBlocker
<1> HIDE DEF s
<1>5. [s EXCEPT !.blocker_recovered = TRUE] \in States
  BY <1>3 DEF States
<1> QED BY <1>4, <1>5 DEF GoTo, TypeOK, Nodes, HandleBlocker

LEMMA GenerateFinalPackageType == TypeOK /\ GenerateFinalPackage => TypeOK'
<1> SUFFICES ASSUME TypeOK, GenerateFinalPackage PROVE TypeOK'
  OBVIOUS
<1>1. PICK modes \in [PackagePurposes -> Modes] :
         GoTo("remember_outcome",
              [Phased(Logged(state, node, "completed"), PackagePhases, "completed")
                  EXCEPT !.generated_artifacts = Append(@, "final"),
                         !.final_report =
                             [status  |-> "completed",
                              mode    |-> PackageMode({modes[p] : p \in PackagePurposes}),
                              summary |-> "delivered",
                              artifact_count |-> Len(state.generated_artifacts) + 1]])
  BY DEF GenerateFinalPackage
<1> DEFINE s == Phased(Logged(state, node, "completed"), PackagePhases, "completed")
           q == Append(s.generated_artifacts, "final")
           r == [status  |-> "completed",
                 mode    |-> PackageMode({modes[p] : p \in PackagePurposes}),
                 summary |-> "delivered",
                 artifact_count |-> Len(state.generated_artifacts) + 1]
<1>2. Logged(state, node, "completed") \in States
  BY LoggedType DEF TypeOK, GenerateFinalPackage, Nodes, StepStatuses
<1>3. s \in States
  BY <1>2, PhasedType DEF PhaseStatuses
<1>4. GoTo("remember_outcome", [s EXCEPT !.generated_artifacts = q, !.final_report = r])
  BY <1>1
<1>5. Len(state.generated_artifacts) + 1 \in Nat
  <2>1. state.generated_artifacts \in Seq(Origins)
    BY DEF TypeOK, States
  <2> QED BY <2>1
<1>6. PackageMode({modes[p] : p \in PackagePurposes}) \in Modes
  BY DEF PackageMode, Modes
<1>7. r \in Reports
  BY <1>5, <1>6 DEF Reports
<1> HIDE DEF s, r
<1>8. s.generated_artifacts \in Seq(Origins)
  BY <1>3 DEF States
<1>9. q \in Seq(Origins)
  BY <1>8 DEF Origins
<1> HIDE DEF q
<1>10. [s EXCEPT !.generated_artifacts = q, !.final_report = r] \in States
  BY <1>3, <1>7, <1>9 DEF States
<1> QED BY <1>4, <1>10 DEF GoTo, TypeOK, Nodes, GenerateFinalPackage

LEMMA RememberOutcomeType == TypeOK /\ RememberOutcome => TypeOK'
<1> SUFFICES ASSUME TypeOK, RememberOutcome PROVE TypeOK'
  OBVIOUS
<1>1. Logged(state, node, "completed") \in States
  BY LoggedType DEF TypeOK, RememberOutcome, Nodes, StepStatuses
<1>2. world' \in Worlds
  BY DEF RememberOutcome, TypeOK, Worlds
<1> QED BY <1>1, <1>2 DEF RememberOutcome, GoTo, TypeOK, Nodes

LEMMA ReportResultType == TypeOK /\ ReportResult => TypeOK'
<1> SUFFICES ASSUME TypeOK, ReportResult PROVE TypeOK'
  OBVIOUS
<1> DEFINE s == Logged(state, node, "completed")
<1>1. s \in States
  BY LoggedType DEF TypeOK, ReportResult, Nodes, StepStatuses
<1>2. GoTo("END", [s EXCEPT !.status = "completed"])
  BY DEF ReportResult
<1> HIDE DEF s
<1>3. [s EXCEPT !.status = "completed"] \in States
  BY <1>1 DEF States
<1> QED BY <1>2, <1>3 DEF GoTo, TypeOK, ReportResult

LEMMA FailedType == TypeOK /\ Failed => TypeOK'
<1> SUFFICES ASSUME TypeOK, Failed PROVE TypeOK'
  OBVIOUS
<1> DEFINE s == Logged(state, node, "failed")
           r == [status  |-> "failed",
                 mode    |-> IF settings.mock_mode THEN "mock" ELSE "live",
                 summary |-> state.failure_reason,
                 artifact_count |-> 0]
<1>1. s \in States
  BY LoggedType DEF TypeOK, Failed, Nodes, StepStatuses
<1>2. state.failure_reason \in Nodes \cup {"none"}
  BY DEF TypeOK, States
<1>3. r \in Reports
  BY <1>2 DEF Reports, Modes
<1>4. GoTo("END", [s EXCEPT !.status = "failed", !.final_report = r])
  BY DEF Failed
<1> HIDE DEF s, r
<1>5. [s EXCEPT !.status = "failed", !.final_report = r] \in States
  BY <1>1, <1>3 DEF States
<1> QED BY <1>4, <1>5 DEF GoTo, TypeOK, Failed

LEMMA NextType == TypeOK /\ [Next]_vars => TypeOK'
<1> SUFFICES ASSUME TypeOK, [Next]_vars PROVE TypeOK'
  OBVIOUS
<1>1. ASSUME ReceiveIdea \/ ExchangeGithubCode \/ RetrieveContext PROVE TypeOK'
  BY <1>1, ReceiveIdeaType, ExchangeType, RetrieveContextType
<1>2. CASE ScopeMvp
  BY <1>2, PlanType DEF ScopeMvp, Nodes
<1>3. CASE RecommendStack
  BY <1>3, PlanType DEF RecommendStack, Nodes
<1>4. CASE PlanRepo
  BY <1>4, PlanType DEF PlanRepo, Nodes
<1>5. ASSUME CreateRepo \/ GenerateFiles \/ ValidateMvp \/ DebugGeneratedFiles
      PROVE  TypeOK'
  BY <1>5, CreateRepoType, GenerateFilesType, ValidateMvpType, DebugType
<1>6. ASSUME CommitProgress \/ VerifyBuild \/ HandleBlocker PROVE TypeOK'
  BY <1>6, CommitProgressType, VerifyBuildType, HandleBlockerType
<1>7. ASSUME GenerateFinalPackage \/ RememberOutcome \/ ReportResult \/ Failed
      PROVE  TypeOK'
  BY <1>7, GenerateFinalPackageType, RememberOutcomeType, ReportResultType, FailedType
<1>8. CASE Raise
  BY <1>8 DEF Raise, TypeOK
<1>9. CASE UNCHANGED vars
  BY <1>9 DEF vars, TypeOK
<1> QED BY <1>1, <1>2, <1>3, <1>4, <1>5, <1>6, <1>7, <1>8, <1>9 DEF Next

\* The state keeps the shape WorkflowState declares through every run, under
\* every setting.
THEOREM TypeCorrect == Spec => []TypeOK
<1>1. Init => TypeOK
  BY InitType
<1>2. TypeOK /\ [Next]_vars => TypeOK'
  BY NextType
<1> QED BY <1>1, <1>2, PTL DEF Spec

-----------------------------------------------------------------------------
(* What a run writes to GitHub.  The two properties are not inductive: that a *)
(* node may write depends on where the run stands, so the invariant says for  *)
(* each part of the graph what the state then holds.                         *)

Early   == {"receive_idea", "exchange_github_code"}
Before  == Early \cup {"retrieve_context", "scope_mvp", "recommend_stack",
                       "plan_repo", "create_repo", "generate_files", "validate_mvp"}
Late    == {"debug_generated_files", "commit_progress", "verify_build",
            "handle_blocker", "generate_final_package", "remember_outcome",
            "report_result"}
Working == (Before \cup Late) \ Early

\* Nothing is written before the exchange, in a test run, or without it.
Authority ==
    /\ settings.mock_mode => world.repos = 0 /\ world.commits = 0
    /\ node \in Early => world.repos = 0 /\ state.tool_calls = <<>>
    /\ ~settings.mock_mode /\ node \in Working => state.github_connection = "exchanged"
    /\ ~settings.mock_mode /\ state.github_connection # "exchanged" =>
          world.repos = 0 /\ world.commits = 0 /\ state.tool_calls = <<>>

\* Nothing is committed before the validation, and what follows the validation
\* keeps its verdict.
Validity ==
    /\ node \in Before => world.commits = 0
    /\ node \in Late \/ world.commits > 0 =>
          state.mvp_validation = [run |-> TRUE, broken |-> {}]
    /\ ~settings.mock_mode /\ node \in Late => state.file_manifest_mode = "live"
    /\ world.commits > 0 => state.file_manifest_mode = "live"
    /\ state.file_manifest_mode = "live" => settings.nvidia_configured

SafetyInv == TypeOK /\ Authority /\ Validity

\* The fields those two are about.
SameFrame(s, t) ==
    /\ t.github_connection  = s.github_connection
    /\ t.mvp_validation     = s.mvp_validation
    /\ t.file_manifest_mode = s.file_manifest_mode

SameCalls(s, t) == SameFrame(s, t) /\ t.tool_calls = s.tool_calls

LEMMA LoggedFrame ==
    ASSUME NEW s \in States, NEW n, NEW st PROVE SameCalls(s, Logged(s, n, st))
BY DEF States, Logged, SameFrame, SameCalls

LEMMA PhasedFrame ==
    ASSUME NEW s \in States, NEW ps, NEW st PROVE SameCalls(s, Phased(s, ps, st))
BY DEF States, Phased, SameFrame, SameCalls

LEMMA AnsweredFrame ==
    ASSUME NEW s \in States, NEW mode PROVE SameCalls(s, Answered(s, mode))
BY DEF States, Answered, SameFrame, SameCalls

LEMMA RefusedFrame ==
    ASSUME NEW s \in States, NEW n
    PROVE  SameCalls(s, Refused(s, n)) /\ Refused(s, n).status = "failed"
BY DEF States, Refused, SameFrame, SameCalls

LEMMA CalledFrame ==
    ASSUME NEW s \in States, NEW call PROVE SameFrame(s, Called(s, call))
BY DEF States, Called, SameFrame

\* A step that changes neither these fields nor what was written, and calls a
\* tool only where tools may be called.
LEMMA QuietStep ==
    ASSUME TypeOK, Authority, Validity,
           UNCHANGED settings,
           world'.repos = world.repos, world'.commits = world.commits,
           SameFrame(state, state'),
           state'.tool_calls = state.tool_calls \/ node \in Working,
           node' \in Early => node \in Early /\ state'.tool_calls = state.tool_calls,
           node' \in Working => node \in Working,
           node' \in Before => node \in Before,
           node' \in Late => node \in Late
    PROVE  Authority' /\ Validity'
BY DEF Authority, Validity, SameFrame

LEMMA PlanSafe ==
    ASSUME TypeOK, Authority, Validity,
           NEW purpose \in {"scope_mvp", "recommend_stack", "plan_repo"}, NEW phases,
           NEW next \in {"recommend_stack", "plan_repo", "create_repo"},
           Plan(purpose, phases, next)
    PROVE  Authority' /\ Validity'
<1>1. PICK mode \in AcceptedModes(purpose) :
         GoTo(next, Phased(Answered(Logged(state, node, "completed"), mode),
                           phases, "completed"))
  BY DEF Plan
<1> DEFINE l == Logged(state, node, "completed")
           a == Answered(l, mode)
<1>2. mode \in Modes /\ node \in Nodes /\ state \in States
  BY AcceptedModesType DEF Plan, TypeOK, Nodes
<1>3. l \in States /\ SameCalls(state, l)
  BY <1>2, LoggedType, LoggedFrame DEF StepStatuses
<1> HIDE DEF l
<1>4. a \in States /\ SameCalls(l, a)
  BY <1>2, <1>3, AnsweredType, AnsweredFrame
<1>5. GoTo(next, Phased(a, phases, "completed")) /\ UNCHANGED world
  BY <1>1 DEF l, Plan
<1> HIDE DEF a
<1>6. SameCalls(a, Phased(a, phases, "completed"))
  BY <1>4, PhasedFrame
<1>7. SameCalls(state, state')
  BY <1>3, <1>4, <1>5, <1>6 DEF SameCalls, SameFrame, GoTo
<1>8. node \in Before \cap Working /\ node' \in Before \cap Working
  BY <1>5 DEF GoTo, Plan, Before, Working, Early
<1>9. node' \notin Early /\ node' \notin Late
  BY <1>5 DEF GoTo, Early, Late
<1> QED BY <1>5, <1>7, <1>8, <1>9, QuietStep DEF SameCalls, GoTo

LEMMA ReceiveIdeaSafe ==
    TypeOK /\ Authority /\ Validity /\ ReceiveIdea => Authority' /\ Validity'
<1> SUFFICES ASSUME TypeOK, Authority, Validity, ReceiveIdea
             PROVE  Authority' /\ Validity'
  OBVIOUS
<1> DEFINE l == Logged(state, "receive_idea", "completed")
<1>1. l \in States /\ SameCalls(state, l)
  BY LoggedType, LoggedFrame DEF TypeOK, StepStatuses, Nodes
<1>2. GoTo("exchange_github_code", Phased(l, {"idea_intake"}, "completed"))
      /\ UNCHANGED world
  BY DEF ReceiveIdea
<1> HIDE DEF l
<1>3. SameCalls(l, Phased(l, {"idea_intake"}, "completed"))
  BY <1>1, PhasedFrame
<1>4. SameCalls(state, state')
  BY <1>1, <1>2, <1>3 DEF SameCalls, SameFrame, GoTo
<1>5. node = "receive_idea" /\ node' = "exchange_github_code"
  BY <1>2 DEF ReceiveIdea, GoTo
<1> QED BY <1>2, <1>4, <1>5, QuietStep
        DEF SameCalls, GoTo, Before, Working, Early, Late

LEMMA RetrieveContextSafe ==
    TypeOK /\ Authority /\ Validity /\ RetrieveContext => Authority' /\ Validity'
<1> SUFFICES ASSUME TypeOK, Authority, Validity, RetrieveContext
             PROVE  Authority' /\ Validity'
  OBVIOUS
<1> DEFINE l == Logged(state, node, "completed")
           ps == {"domain_research", "reference_url_analysis"}
<1>1. l \in States /\ SameCalls(state, l)
  BY LoggedType, LoggedFrame DEF TypeOK, StepStatuses, Nodes, RetrieveContext
<1>2. GoTo("scope_mvp", Phased(l, ps, "completed")) /\ UNCHANGED world
  BY DEF RetrieveContext
<1> HIDE DEF l, ps
<1>3. SameCalls(l, Phased(l, ps, "completed"))
  BY <1>1, PhasedFrame
<1>4. SameCalls(state, state')
  BY <1>1, <1>2, <1>3 DEF SameCalls, SameFrame, GoTo
<1>5. node = "retrieve_context" /\ node' = "scope_mvp"
  BY <1>2 DEF RetrieveContext, GoTo
<1> QED BY <1>2, <1>4, <1>5, QuietStep
        DEF SameCalls, GoTo, Before, Working, Early, Late

\* The exchange is the only step that obtains the connection, and the only way
\* out of the early nodes.
LEMMA ExchangeSafe ==
    TypeOK /\ Authority /\ Validity /\ ExchangeGithubCode => Authority' /\ Validity'
<1> SUFFICES ASSUME TypeOK, Authority, Validity, ExchangeGithubCode
             PROVE  Authority' /\ Validity'
  OBVIOUS
<1>1. PICK outcome \in Exchanges :
         LET ok == outcome \in {"mock_skipped", "exchanged"}
             s  == [Logged(state, node, IF ok THEN "completed" ELSE "failed")
                        EXCEPT !.github_connection = outcome]
             t  == IF ok THEN s ELSE Refused(s, node)
         IN  GoTo(RouteAfterGithubExchange(t), t)
  BY DEF ExchangeGithubCode
<1> DEFINE ok == outcome \in {"mock_skipped", "exchanged"}
           l  == Logged(state, node, IF ok THEN "completed" ELSE "failed")
           s  == [l EXCEPT !.github_connection = outcome]
           t  == IF ok THEN s ELSE Refused(s, node)
<1>2. /\ outcome \in {"none", "mock_skipped", "missing", "exchanged"}
      /\ outcome = "mock_skipped" => settings.mock_mode
  BY DEF Exchanges
<1>3. node = "exchange_github_code" /\ node \in Nodes /\ state \in States
  BY DEF ExchangeGithubCode, Nodes, TypeOK
<1>4. l \in States /\ SameCalls(state, l)
  BY <1>3, LoggedType, LoggedFrame DEF StepStatuses
<1> HIDE DEF l
<1>5. /\ s \in States
      /\ s.github_connection = outcome
      /\ s.tool_calls = l.tool_calls
      /\ s.mvp_validation = l.mvp_validation
      /\ s.file_manifest_mode = l.file_manifest_mode
  BY <1>2, <1>4 DEF States
<1>6. GoTo(RouteAfterGithubExchange(t), t) /\ UNCHANGED world
  BY <1>1 DEF l, ExchangeGithubCode
<1> HIDE DEF s
<1>7. SameCalls(s, t) /\ (~ok => t.status = "failed")
  BY <1>5, RefusedFrame DEF SameCalls, SameFrame
<1> HIDE DEF t
<1>8. /\ state'.github_connection = outcome
      /\ state'.tool_calls = state.tool_calls
      /\ state'.mvp_validation = state.mvp_validation
      /\ state'.file_manifest_mode = state.file_manifest_mode
  BY <1>4, <1>5, <1>6, <1>7 DEF GoTo, SameCalls, SameFrame
<1>9. /\ node' \in {"failed", "retrieve_context"}
      /\ ~ok => node' = "failed"
      /\ UNCHANGED <<settings, world>>
  BY <1>6, <1>7 DEF GoTo, RouteAfterGithubExchange
<1>10. world.repos = 0 /\ world.commits = 0 /\ state.tool_calls = <<>>
  BY <1>3 DEF Authority, Validity, Early, Before
<1>11. ~settings.mock_mode /\ node' \in Working => outcome = "exchanged"
  BY <1>2, <1>9 DEF Working, Before, Late, Early
<1>12. node' \notin Early /\ node' \notin Late
  BY <1>9 DEF Early, Late
<1>13. Authority'
  BY <1>8, <1>9, <1>10, <1>11, <1>12 DEF Authority
<1>14. Validity'
  BY <1>8, <1>9, <1>10, <1>12 DEF Validity
<1> QED BY <1>13, <1>14

LEMMA CreateRepoSafe ==
    TypeOK /\ Authority /\ Validity /\ CreateRepo => Authority' /\ Validity'
<1> SUFFICES ASSUME TypeOK, Authority, Validity, CreateRepo
             PROVE  Authority' /\ Validity'
  OBVIOUS
<1>1. PICK ok \in BOOLEAN, made \in 0..1, retry \in BOOLEAN :
         /\ settings.mock_mode => ok
         /\ ok => settings.mock_mode \/ state.github_connection = "exchanged"
         /\ made = 1 => /\ ~settings.mock_mode
                        /\ ~settings.use_existing_repo
                        /\ state.github_connection = "exchanged"
         /\ world' = [world EXCEPT !.repos = @ + made]
         /\ LET call == [tool |-> IF settings.use_existing_repo
                                  THEN "github.use_existing_repo"
                                  ELSE "github.create_repo",
                         status |-> IF ok THEN "success" ELSE "failed",
                         recoverable |-> ~ok /\ ~settings.use_existing_repo /\ retry]
                s == Called(Logged(state, node, IF ok THEN "completed" ELSE "failed"),
                            call)
                t == IF ok THEN Phased(s, {"github_repo_export"}, "completed")
                           ELSE Refused(s, node)
            IN  GoTo(RouteAfterCreateRepo(t), t)
  BY DEF CreateRepo
<1> DEFINE call == [tool |-> IF settings.use_existing_repo
                             THEN "github.use_existing_repo"
                             ELSE "github.create_repo",
                    status |-> IF ok THEN "success" ELSE "failed",
                    recoverable |-> ~ok /\ ~settings.use_existing_repo /\ retry]
           l == Logged(state, node, IF ok THEN "completed" ELSE "failed")
           s == Called(l, call)
           t == IF ok THEN Phased(s, {"github_repo_export"}, "completed")
                      ELSE Refused(s, node)
<1>2. node = "create_repo" /\ node \in Nodes /\ state \in States
  BY DEF CreateRepo, Nodes, TypeOK
<1>3. call \in Calls
  BY Zenon DEF Calls
<1>4. l \in States /\ SameCalls(state, l)
  BY <1>2, LoggedType, LoggedFrame DEF StepStatuses
<1>5. GoTo(RouteAfterCreateRepo(t), t)
  BY <1>1
<1> HIDE DEF l, call
<1>6. s \in States /\ SameFrame(l, s)
  BY <1>3, <1>4, CalledType, CalledFrame
<1> HIDE DEF s
<1>7. SameFrame(s, t)
  BY <1>6, RefusedFrame, PhasedFrame DEF SameCalls
<1> HIDE DEF t
<1>8. SameFrame(state, state')
  BY <1>4, <1>5, <1>6, <1>7 DEF GoTo, SameCalls, SameFrame
<1>9. node' \in {"failed", "generate_files"} /\ UNCHANGED settings
  BY <1>5 DEF GoTo, RouteAfterCreateRepo
<1>10. /\ world'.commits = world.commits
       /\ settings.mock_mode \/ state.github_connection # "exchanged" =>
             world'.repos = world.repos
  BY <1>1 DEF TypeOK, Worlds
<1>11. /\ node \in Working \cap Before /\ node' \notin Early /\ node' \notin Late
       /\ node' \in Working <=> node' = "generate_files"
  BY <1>2, <1>9 DEF Working, Before, Early, Late
<1>12. Authority'
  BY <1>8, <1>9, <1>10, <1>11 DEF Authority, SameFrame
<1>13. Validity'
  BY <1>8, <1>9, <1>10, <1>11 DEF Validity, SameFrame
<1> QED BY <1>12, <1>13

\* A manifest is live only if the model could be reached.
LEMMA LiveNeedsKey ==
    ASSUME NEW purpose, "live" \in AcceptedModes(purpose)
    PROVE  settings.nvidia_configured
BY DEF AcceptedModes, ReturnedModes

LEMMA GenerateFilesSafe ==
    TypeOK /\ Authority /\ Validity /\ GenerateFiles => Authority' /\ Validity'
<1> SUFFICES ASSUME TypeOK, Authority, Validity, GenerateFiles
             PROVE  Authority' /\ Validity'
  OBVIOUS
<1>1. PICK mode \in AcceptedModes("file_manifest"),
           files \in {<<"manifest">>, <<"manifest", "scaffold">>} :
         GoTo("validate_mvp",
              [Phased(Answered(Logged(state, node, "completed"), mode),
                      FilePhases, "completed")
                  EXCEPT !.generated_artifacts = @ \o files,
                         !.file_manifest_mode  = mode])
  BY DEF GenerateFiles
<1> DEFINE l == Logged(state, node, "completed")
           a == Answered(l, mode)
           s == Phased(a, FilePhases, "completed")
           q == s.generated_artifacts \o files
           t == [s EXCEPT !.generated_artifacts = q, !.file_manifest_mode = mode]
<1>2. mode \in Modes /\ node = "generate_files" /\ node \in Nodes /\ state \in States
  BY AcceptedModesType DEF GenerateFiles, Nodes, TypeOK
<1>3. GoTo("validate_mvp", t) /\ UNCHANGED world
  BY <1>1 DEF GenerateFiles
<1>4. l \in States /\ SameCalls(state, l)
  BY <1>2, LoggedType, LoggedFrame DEF StepStatuses
<1> HIDE DEF l
<1>5. a \in States /\ SameCalls(l, a)
  BY <1>2, <1>4, AnsweredType, AnsweredFrame
<1> HIDE DEF a
<1>6. s \in States /\ SameCalls(a, s)
  BY <1>5, PhasedType, PhasedFrame DEF PhaseStatuses
<1> HIDE DEF s, q
<1>7. /\ t.github_connection = s.github_connection
      /\ t.tool_calls = s.tool_calls
      /\ t.mvp_validation = s.mvp_validation
      /\ t.file_manifest_mode = mode
  BY <1>6 DEF States
<1> HIDE DEF t
<1>8. /\ state'.github_connection = state.github_connection
      /\ state'.tool_calls = state.tool_calls
      /\ state'.file_manifest_mode = mode
      /\ node' = "validate_mvp"
      /\ UNCHANGED settings
  BY <1>3, <1>4, <1>5, <1>6, <1>7 DEF GoTo, SameCalls, SameFrame
<1>9. /\ node \in Working \cap Before
      /\ node' \in Working \cap Before /\ node' \notin Early /\ node' \notin Late
  BY <1>2, <1>8 DEF Working, Before, Early, Late
<1>10. mode = "live" => settings.nvidia_configured
  BY LiveNeedsKey
<1>11. Authority'
  BY <1>3, <1>8, <1>9 DEF Authority
<1>12. Validity'
  BY <1>3, <1>8, <1>9, <1>10 DEF Validity
<1> QED BY <1>11, <1>12

\* The validation is the only way from the nodes before it to those after it.
LEMMA ValidateMvpSafe ==
    TypeOK /\ Authority /\ Validity /\ ValidateMvp => Authority' /\ Validity'
<1> SUFFICES ASSUME TypeOK, Authority, Validity, ValidateMvp
             PROVE  Authority' /\ Validity'
  OBVIOUS
<1>1. PICK broken \in SUBSET Checks :
         /\ "live_manifest_only" \in broken
               <=> ~settings.mock_mode /\ state.file_manifest_mode # "live"
         /\ LET outcome == IF broken = {} THEN "completed" ELSE "failed"
                s == [Phased(Logged(state, node, outcome),
                             {"testing_strategy"}, outcome)
                         EXCEPT !.mvp_validation = [run |-> TRUE, broken |-> broken]]
                t == IF broken = {} THEN s ELSE Refused(s, node)
            IN  GoTo(RouteAfterValidateMvp(t), t)
  BY DEF ValidateMvp
<1> DEFINE outcome == IF broken = {} THEN "completed" ELSE "failed"
           l == Logged(state, node, outcome)
           h == Phased(l, {"testing_strategy"}, outcome)
           s == [h EXCEPT !.mvp_validation = [run |-> TRUE, broken |-> broken]]
           t == IF broken = {} THEN s ELSE Refused(s, node)
<1>2. node = "validate_mvp" /\ node \in Nodes /\ state \in States
  BY DEF ValidateMvp, Nodes, TypeOK
<1>3. l \in States /\ SameCalls(state, l)
  BY <1>2, LoggedType, LoggedFrame DEF StepStatuses
<1>4. GoTo(RouteAfterValidateMvp(t), t) /\ UNCHANGED world
  BY <1>1 DEF ValidateMvp
<1> HIDE DEF l
<1>5. h \in States /\ SameCalls(l, h)
  BY <1>3, PhasedType, PhasedFrame DEF PhaseStatuses
<1> HIDE DEF h
<1>6. /\ s \in States
      /\ s.github_connection = h.github_connection
      /\ s.tool_calls = h.tool_calls
      /\ s.mvp_validation = [run |-> TRUE, broken |-> broken]
      /\ s.file_manifest_mode = h.file_manifest_mode
  BY <1>5 DEF States
<1> HIDE DEF s
<1>7. SameCalls(s, t) /\ (broken # {} => t.status = "failed")
  BY <1>6, RefusedFrame DEF SameCalls, SameFrame
<1> HIDE DEF t
<1>8. /\ state'.github_connection = state.github_connection
      /\ state'.tool_calls = state.tool_calls
      /\ state'.mvp_validation = [run |-> TRUE, broken |-> broken]
      /\ state'.file_manifest_mode = state.file_manifest_mode
      /\ UNCHANGED settings
  BY <1>3, <1>4, <1>5, <1>6, <1>7 DEF GoTo, SameCalls, SameFrame
<1>9. /\ node' \in {"failed", "debug_generated_files"}
      /\ broken # {} => node' = "failed"
  BY <1>4, <1>7 DEF GoTo, RouteAfterValidateMvp
<1>10. /\ node \in Working \cap Before
       /\ node' \notin Early /\ node' \notin Before
       /\ node' \in Late => broken = {}
  BY <1>2, <1>9 DEF Working, Before, Early, Late
<1>11. Authority'
  BY <1>4, <1>8, <1>10 DEF Authority
<1>12. broken = {} => settings.mock_mode \/ state.file_manifest_mode = "live"
  BY <1>1
<1>13. world'.commits = 0
  BY <1>4, <1>10 DEF Validity
<1>14. node' \in Late => state'.mvp_validation = [run |-> TRUE, broken |-> {}]
  BY <1>8, <1>10
<1>15. ~settings'.mock_mode /\ node' \in Late => state'.file_manifest_mode = "live"
  BY <1>8, <1>10, <1>12
<1>16. state'.file_manifest_mode = "live" => settings'.nvidia_configured
  BY <1>8 DEF Validity
<1>17. Validity'
  BY <1>10, <1>13, <1>14, <1>15, <1>16 DEF Validity
<1> QED BY <1>11, <1>17

LEMMA CommitProgressSafe ==
    TypeOK /\ Authority /\ Validity /\ CommitProgress => Authority' /\ Validity'
<1> SUFFICES ASSUME TypeOK, Authority, Validity, CommitProgress
             PROVE  Authority' /\ Validity'
  OBVIOUS
<1>1. PICK ok \in BOOLEAN, made \in 0..MaxCommitsPerCall,
           retry \in BOOLEAN, extra \in SUBSET {"scaffold"} :
         /\ settings.mock_mode => ok /\ made = 0
         /\ ok /\ ~settings.mock_mode => made > 0
         /\ world' = [world EXCEPT
                        !.commits   = @ + made,
                        !.committed = IF made = 0 THEN @
                                      ELSE @ \cup ArtifactOrigins(state) \cup extra]
         /\ LET call == [tool |-> "github.commit_files",
                         status |-> IF ok THEN "success" ELSE "failed",
                         recoverable |-> ~ok /\ retry]
                s == Called(Logged(state, node, "completed"), call)
                t == IF ok THEN Phased(s, {"github_repo_export"}, "running")
                           ELSE Refused(s, node)
            IN  GoTo(RouteAfterCommitProgress(t), t)
  BY DEF CommitProgress
<1> DEFINE call == [tool |-> "github.commit_files",
                    status |-> IF ok THEN "success" ELSE "failed",
                    recoverable |-> ~ok /\ retry]
           l == Logged(state, node, "completed")
           s == Called(l, call)
           t == IF ok THEN Phased(s, {"github_repo_export"}, "running")
                      ELSE Refused(s, node)
<1>2. node = "commit_progress" /\ node \in Nodes /\ state \in States
  BY DEF CommitProgress, Nodes, TypeOK
<1>3. call \in Calls
  BY Zenon DEF Calls
<1>4. l \in States /\ SameCalls(state, l)
  BY <1>2, LoggedType, LoggedFrame DEF StepStatuses
<1>5. GoTo(RouteAfterCommitProgress(t), t)
  BY <1>1
<1> HIDE DEF l, call
<1>6. s \in States /\ SameFrame(l, s)
  BY <1>3, <1>4, CalledType, CalledFrame
<1> HIDE DEF s
<1>7. SameFrame(s, t)
  BY <1>6, RefusedFrame, PhasedFrame DEF SameCalls
<1> HIDE DEF t
<1>8. SameFrame(state, state') /\ UNCHANGED settings
  BY <1>4, <1>5, <1>6, <1>7 DEF GoTo, SameCalls, SameFrame
<1>9. node' \in {"failed", "verify_build"}
  BY <1>5 DEF GoTo, RouteAfterCommitProgress
<1>10. /\ world'.repos = world.repos
       /\ settings.mock_mode => world'.commits = world.commits
       /\ world'.commits \in Nat
  BY <1>1 DEF TypeOK, Worlds, MaxCommitsPerCall
<1>11. /\ node \in Working \cap Late
       /\ node' \notin Early /\ node' \notin Before
  BY <1>2, <1>9 DEF Working, Before, Early, Late
<1>12. Authority'
  BY <1>8, <1>10, <1>11 DEF Authority, SameFrame
<1>13. settings.mock_mode => world'.commits = 0
  BY <1>10 DEF Authority
<1>14. Validity'
  BY <1>8, <1>11, <1>13 DEF Validity, SameFrame
<1> QED BY <1>12, <1>14

LEMMA DebugSafe ==
    TypeOK /\ Authority /\ Validity /\ DebugGeneratedFiles => Authority' /\ Validity'
<1> SUFFICES ASSUME TypeOK, Authority, Validity, DebugGeneratedFiles
             PROVE  Authority' /\ Validity'
  OBVIOUS
<1> DEFINE l == Logged(state, node, "completed")
           q == (l.generated_artifacts \o l.generated_artifacts) \o <<"debug">>
<1>1. l \in States /\ SameCalls(state, l)
  BY LoggedType, LoggedFrame DEF TypeOK, StepStatuses, Nodes, DebugGeneratedFiles
<1>2. GoTo("commit_progress", [l EXCEPT !.generated_artifacts = q])
      /\ UNCHANGED world /\ node = "debug_generated_files"
  BY DEF DebugGeneratedFiles
<1> HIDE DEF l, q
<1>3. SameCalls(l, [l EXCEPT !.generated_artifacts = q])
  BY <1>1 DEF SameCalls, SameFrame, States
<1>4. SameCalls(state, state') /\ node' = "commit_progress" /\ UNCHANGED settings
  BY <1>1, <1>2, <1>3 DEF SameCalls, SameFrame, GoTo
<1> QED BY <1>2, <1>4, QuietStep DEF SameCalls, Before, Working, Early, Late

LEMMA VerifyBuildSafe ==
    TypeOK /\ Authority /\ Validity /\ VerifyBuild => Authority' /\ Validity'
<1> SUFFICES ASSUME TypeOK, Authority, Validity, VerifyBuild
             PROVE  Authority' /\ Validity'
  OBVIOUS
<1>1. PICK ok \in BOOLEAN :
         LET outcome == IF ok THEN "completed" ELSE "failed"
             call == [tool |-> "build.verify",
                      status |-> IF ok THEN "success" ELSE "failed",
                      recoverable |-> ~ok /\ settings.mock_mode]
             s == Phased(Called(Logged(state, node,
                                       IF ok THEN "completed" ELSE "blocked"), call),
                         {"build_test_validation"}, outcome)
             t == IF ok THEN s ELSE [s EXCEPT !.failure_reason = node]
         IN  GoTo(RouteAfterToolResult(t), t)
  BY DEF VerifyBuild
<1> DEFINE outcome == IF ok THEN "completed" ELSE "failed"
           call == [tool |-> "build.verify",
                    status |-> IF ok THEN "success" ELSE "failed",
                    recoverable |-> ~ok /\ settings.mock_mode]
           l == Logged(state, node, IF ok THEN "completed" ELSE "blocked")
           c == Called(l, call)
           s == Phased(c, {"build_test_validation"}, outcome)
           t == IF ok THEN s ELSE [s EXCEPT !.failure_reason = node]
<1>2. node = "verify_build" /\ node \in Nodes /\ state \in States
      /\ settings.mock_mode \in BOOLEAN
  BY DEF VerifyBuild, Nodes, TypeOK, Settings
<1>3. call \in Calls
  BY <1>2, Zenon DEF Calls
<1>4. l \in States /\ SameCalls(state, l)
  BY <1>2, LoggedType, LoggedFrame DEF StepStatuses
<1>5. GoTo(RouteAfterToolResult(t), t) /\ UNCHANGED world
  BY <1>1 DEF VerifyBuild
<1> HIDE DEF l, call
<1>6. c \in States /\ SameFrame(l, c)
  BY <1>3, <1>4, CalledType, CalledFrame
<1> HIDE DEF c
<1>7. s \in States /\ SameFrame(c, s)
  BY <1>6, PhasedType, PhasedFrame DEF SameCalls, PhaseStatuses
<1> HIDE DEF s
<1>8. SameFrame(s, t)
  BY <1>7 DEF SameFrame, States
<1> HIDE DEF t
<1>9. SameFrame(state, state') /\ UNCHANGED settings
  BY <1>4, <1>5, <1>6, <1>7, <1>8 DEF GoTo, SameCalls, SameFrame
<1>10. node' \in {"failed", "handle_blocker", "generate_final_package"}
  BY <1>5 DEF GoTo, RouteAfterToolResult
<1> QED BY <1>2, <1>5, <1>9, <1>10, QuietStep DEF Before, Working, Early, Late

LEMMA HandleBlockerSafe ==
    TypeOK /\ Authority /\ Validity /\ HandleBlocker => Authority' /\ Validity'
<1> SUFFICES ASSUME TypeOK, Authority, Validity, HandleBlocker
             PROVE  Authority' /\ Validity'
  OBVIOUS
<1> DEFINE l == Logged(state, node, "completed")
           c == Called(l, RecoveryCall)
<1>1. l \in States /\ SameCalls(state, l)
  BY LoggedType, LoggedFrame DEF TypeOK, StepStatuses, Nodes, HandleBlocker
<1>2. GoTo("verify_build", [c EXCEPT !.blocker_recovered = TRUE])
      /\ UNCHANGED world /\ node = "handle_blocker"
  BY DEF HandleBlocker
<1>3. RecoveryCall \in Calls
  BY DEF RecoveryCall, Calls
<1> HIDE DEF l
<1>4. c \in States /\ SameFrame(l, c)
  BY <1>1, <1>3, CalledType, CalledFrame
<1> HIDE DEF c
<1>5. SameFrame(c, [c EXCEPT !.blocker_recovered = TRUE])
  BY <1>4 DEF SameFrame, States
<1>6. SameFrame(state, state') /\ node' = "verify_build" /\ UNCHANGED settings
  BY <1>1, <1>2, <1>4, <1>5 DEF SameCalls, SameFrame, GoTo
<1> QED BY <1>2, <1>6, QuietStep DEF Before, Working, Early, Late

LEMMA FinalPackageSafe ==
    TypeOK /\ Authority /\ Validity /\ GenerateFinalPackage => Authority' /\ Validity'
<1> SUFFICES ASSUME TypeOK, Authority, Validity, GenerateFinalPackage
             PROVE  Authority' /\ Validity'
  OBVIOUS
<1>1. PICK modes \in [PackagePurposes -> Modes] :
         GoTo("remember_outcome",
              [Phased(Logged(state, node, "completed"), PackagePhases, "completed")
                  EXCEPT !.generated_artifacts = Append(@, "final"),
                         !.final_report =
                             [status  |-> "completed",
                              mode    |-> PackageMode({modes[p] : p \in PackagePurposes}),
                              summary |-> "delivered",
                              artifact_count |-> Len(state.generated_artifacts) + 1]])
  BY DEF GenerateFinalPackage
<1> DEFINE l == Logged(state, node, "completed")
           s == Phased(l, PackagePhases, "completed")
           q == Append(s.generated_artifacts, "final")
           r == [status  |-> "completed",
                 mode    |-> PackageMode({modes[p] : p \in PackagePurposes}),
                 summary |-> "delivered",
                 artifact_count |-> Len(state.generated_artifacts) + 1]
<1>2. node = "generate_final_package" /\ node \in Nodes /\ state \in States
  BY DEF GenerateFinalPackage, Nodes, TypeOK
<1>3. GoTo("remember_outcome", [s EXCEPT !.generated_artifacts = q, !.final_report = r])
      /\ UNCHANGED world
  BY <1>1 DEF GenerateFinalPackage
<1>4. l \in States /\ SameCalls(state, l)
  BY <1>2, LoggedType, LoggedFrame DEF StepStatuses
<1> HIDE DEF l, r
<1>5. s \in States /\ SameCalls(l, s)
  BY <1>4, PhasedType, PhasedFrame DEF PhaseStatuses
<1> HIDE DEF s, q
<1>6. SameCalls(s, [s EXCEPT !.generated_artifacts = q, !.final_report = r])
  BY <1>5 DEF SameCalls, SameFrame, States
<1>7. SameCalls(state, state') /\ node' = "remember_outcome" /\ UNCHANGED settings
  BY <1>3, <1>4, <1>5, <1>6 DEF SameCalls, SameFrame, GoTo
<1> QED BY <1>2, <1>3, <1>7, QuietStep DEF SameCalls, Before, Working, Early, Late

LEMMA RememberOutcomeSafe ==
    TypeOK /\ Authority /\ Validity /\ RememberOutcome => Authority' /\ Validity'
<1> SUFFICES ASSUME TypeOK, Authority, Validity, RememberOutcome
             PROVE  Authority' /\ Validity'
  OBVIOUS
<1>1. node = "remember_outcome" /\ state \in States /\ world \in Worlds
  BY DEF RememberOutcome, TypeOK
<1>2. SameCalls(state, Logged(state, node, "completed"))
  BY <1>1, LoggedFrame
<1>3. SameCalls(state, state') /\ node' = "report_result" /\ UNCHANGED settings
  BY <1>2 DEF RememberOutcome, GoTo
<1>4. world'.repos = world.repos /\ world'.commits = world.commits
  BY <1>1 DEF RememberOutcome, Worlds
<1> QED BY <1>1, <1>3, <1>4, QuietStep DEF SameCalls, Before, Working, Early, Late

LEMMA ReportResultSafe ==
    TypeOK /\ Authority /\ Validity /\ ReportResult => Authority' /\ Validity'
<1> SUFFICES ASSUME TypeOK, Authority, Validity, ReportResult
             PROVE  Authority' /\ Validity'
  OBVIOUS
<1> DEFINE l == Logged(state, node, "completed")
<1>1. node = "report_result" /\ l \in States /\ SameCalls(state, l)
  BY LoggedType, LoggedFrame DEF TypeOK, StepStatuses, Nodes, ReportResult
<1>2. GoTo("END", [l EXCEPT !.status = "completed"]) /\ UNCHANGED world
  BY DEF ReportResult
<1> HIDE DEF l
<1>3. SameCalls(state, state') /\ node' = "END" /\ UNCHANGED settings
  BY <1>1, <1>2 DEF SameCalls, SameFrame, GoTo, States
<1> QED BY <1>1, <1>2, <1>3, QuietStep DEF SameCalls, Before, Working, Early, Late

LEMMA FailedSafe ==
    TypeOK /\ Authority /\ Validity /\ Failed => Authority' /\ Validity'
<1> SUFFICES ASSUME TypeOK, Authority, Validity, Failed
             PROVE  Authority' /\ Validity'
  OBVIOUS
<1> DEFINE l == Logged(state, node, "failed")
           r == [status  |-> "failed",
                 mode    |-> IF settings.mock_mode THEN "mock" ELSE "live",
                 summary |-> state.failure_reason,
                 artifact_count |-> 0]
<1>1. node = "failed" /\ l \in States /\ SameCalls(state, l)
  BY LoggedType, LoggedFrame DEF TypeOK, StepStatuses, Nodes, Failed
<1>2. GoTo("END", [l EXCEPT !.status = "failed", !.final_report = r])
      /\ UNCHANGED world
  BY DEF Failed
<1> HIDE DEF l, r
<1>3. SameCalls(state, state') /\ node' = "END" /\ UNCHANGED settings
  BY <1>1, <1>2 DEF SameCalls, SameFrame, GoTo, States
<1> QED BY <1>1, <1>2, <1>3, QuietStep DEF SameCalls, Before, Working, Early, Late

LEMMA RaiseSafe ==
    TypeOK /\ Authority /\ Validity /\ Raise => Authority' /\ Validity'
BY QuietStep DEF Raise, SameFrame, Before, Working, Early, Late

LEMMA StutterSafe ==
    TypeOK /\ Authority /\ Validity /\ UNCHANGED vars => Authority' /\ Validity'
BY QuietStep DEF vars, SameFrame

LEMMA InitSafe == Init => Authority /\ Validity
BY DEF Init, InitialState, Authority, Validity, Early, Before, Working, Late

LEMMA NextSafe == SafetyInv /\ [Next]_vars => SafetyInv'
<1> SUFFICES ASSUME TypeOK, Authority, Validity, [Next]_vars
             PROVE  Authority' /\ Validity'
  BY NextType DEF SafetyInv
<1>1. ASSUME ReceiveIdea \/ ExchangeGithubCode \/ RetrieveContext
      PROVE  Authority' /\ Validity'
  BY <1>1, ReceiveIdeaSafe, ExchangeSafe, RetrieveContextSafe
<1>2. CASE ScopeMvp
  BY <1>2, PlanSafe DEF ScopeMvp
<1>3. CASE RecommendStack
  BY <1>3, PlanSafe DEF RecommendStack
<1>4. CASE PlanRepo
  BY <1>4, PlanSafe DEF PlanRepo
<1>5. ASSUME CreateRepo \/ GenerateFiles \/ ValidateMvp \/ DebugGeneratedFiles
      PROVE  Authority' /\ Validity'
  BY <1>5, CreateRepoSafe, GenerateFilesSafe, ValidateMvpSafe, DebugSafe
<1>6. ASSUME CommitProgress \/ VerifyBuild \/ HandleBlocker
      PROVE  Authority' /\ Validity'
  BY <1>6, CommitProgressSafe, VerifyBuildSafe, HandleBlockerSafe
<1>7. ASSUME GenerateFinalPackage \/ RememberOutcome \/ ReportResult \/ Failed
      PROVE  Authority' /\ Validity'
  BY <1>7, FinalPackageSafe, RememberOutcomeSafe, ReportResultSafe, FailedSafe
<1>8. CASE Raise
  BY <1>8, RaiseSafe
<1>9. CASE UNCHANGED vars
  BY <1>9, StutterSafe
<1> QED BY <1>1, <1>2, <1>3, <1>4, <1>5, <1>6, <1>7, <1>8, <1>9 DEF Next

\* The strengthened invariant holds throughout every run: nothing is written
\* to GitHub before the exchange, nothing is committed before the validation,
\* and the nodes after each keep what it established.
THEOREM SafetyInvariant == Spec => []SafetyInv
<1>1. Init => SafetyInv
  BY InitType, InitSafe DEF SafetyInv
<1>2. SafetyInv /\ [Next]_vars => SafetyInv'
  BY NextSafe
<1> QED BY <1>1, <1>2, PTL DEF Spec

LEMMA SafetyImplies == SafetyInv => AuthorisedEffects /\ CommitsAreValidated
<1> SUFFICES ASSUME SafetyInv PROVE AuthorisedEffects /\ CommitsAreValidated
  OBVIOUS
<1>1. world.repos \in Nat /\ world.commits \in Nat
  BY DEF SafetyInv, TypeOK, Worlds
<1>2. world.repos + world.commits > 0 => ~(world.repos = 0 /\ world.commits = 0)
  BY <1>1
<1>3. AuthorisedEffects
  BY <1>2 DEF SafetyInv, Authority, AuthorisedEffects
<1>4. CommitsAreValidated
  BY DEF SafetyInv, Validity, CommitsAreValidated
<1> QED BY <1>3, <1>4

\* Whatever the settings, a run writes to GitHub only with the credentials of
\* its own exchange, and calls no tool without them.
THEOREM AuthorisedAlways == Spec => []AuthorisedEffects
BY SafetyImplies, SafetyInvariant, PTL

\* Whatever the settings, what is on the branch passed the validation and
\* comes from a manifest the model answered live.
THEOREM CommitsValidatedAlways == Spec => []CommitsAreValidated
BY SafetyImplies, SafetyInvariant, PTL
-----------------------------------------------------------------------------
(* What each node does to the parts of the state, so that the invariants      *)
(* below need not look into the updates.                                     *)

Verdict(s) == <<s.status, s.failure_reason, s.blocker_recovered>>
Tools(s)   == <<s.tool_calls, s.last_tool_result>>
Made(s)    == <<s.generated_artifacts, s.final_report>>

Stamped(line, ps, st) == [p \in Phases |-> IF p \in ps THEN st ELSE line[p]]

\* The trace of t is that of s with a step of node n.
Entered(s, t, n) == \E st \in StepStatuses :
    t.agent_steps = Append(s.agent_steps, [node |-> n, status |-> st])

LEMMA LoggedEffect ==
    ASSUME NEW s \in States, NEW n \in Nodes, NEW st \in StepStatuses
    PROVE  /\ Logged(s, n, st) \in States
           /\ Entered(s, Logged(s, n, st), n)
           /\ Verdict(Logged(s, n, st)) = Verdict(s)
           /\ Tools(Logged(s, n, st)) = Tools(s)
           /\ Made(Logged(s, n, st)) = Made(s)
           /\ Logged(s, n, st).build_timeline = s.build_timeline
<1>1. Logged(s, n, st) \in States
  BY LoggedType
<1>2. Logged(s, n, st).agent_steps = Append(s.agent_steps, [node |-> n, status |-> st])
  BY DEF Logged, States
<1>3. Verdict(Logged(s, n, st)) = Verdict(s) /\ Made(Logged(s, n, st)) = Made(s)
  BY DEF Logged, States, Verdict, Made
<1>4. /\ Tools(Logged(s, n, st)) = Tools(s)
      /\ Logged(s, n, st).build_timeline = s.build_timeline
  BY DEF Logged, States, Tools
<1> QED BY <1>1, <1>2, <1>3, <1>4 DEF Entered

LEMMA PhasedEffect ==
    ASSUME NEW s \in States, NEW ps, NEW st \in PhaseStatuses
    PROVE  /\ Phased(s, ps, st) \in States
           /\ Phased(s, ps, st).agent_steps = s.agent_steps
           /\ Verdict(Phased(s, ps, st)) = Verdict(s)
           /\ Tools(Phased(s, ps, st)) = Tools(s)
           /\ Made(Phased(s, ps, st)) = Made(s)
           /\ Phased(s, ps, st).build_timeline = Stamped(s.build_timeline, ps, st)
<1> DEFINE line == Stamped(s.build_timeline, ps, st)
<1>1. Phased(s, ps, st) \in States
  BY PhasedType
<1>2. Phased(s, ps, st) = [s EXCEPT !.build_timeline = line]
  BY DEF Phased, Stamped
<1> HIDE DEF line
<1>3. Verdict(Phased(s, ps, st)) = Verdict(s) /\ Made(Phased(s, ps, st)) = Made(s)
  BY <1>2 DEF States, Verdict, Made
<1>4. /\ Tools(Phased(s, ps, st)) = Tools(s)
      /\ Phased(s, ps, st).agent_steps = s.agent_steps
      /\ Phased(s, ps, st).build_timeline = line
  BY <1>2 DEF States, Tools
<1> QED BY <1>1, <1>3, <1>4 DEF line

LEMMA AnsweredEffect ==
    ASSUME NEW s \in States, NEW mode \in Modes
    PROVE  /\ Answered(s, mode) \in States
           /\ Answered(s, mode).agent_steps = s.agent_steps
           /\ Verdict(Answered(s, mode)) = Verdict(s)
           /\ Tools(Answered(s, mode)) = Tools(s)
           /\ Made(Answered(s, mode)) = Made(s)
           /\ Answered(s, mode).build_timeline = s.build_timeline
<1>1. Answered(s, mode) \in States
  BY AnsweredType
<1>2. Verdict(Answered(s, mode)) = Verdict(s) /\ Made(Answered(s, mode)) = Made(s)
  BY DEF Answered, States, Verdict, Made
<1>3. /\ Tools(Answered(s, mode)) = Tools(s)
      /\ Answered(s, mode).agent_steps = s.agent_steps
      /\ Answered(s, mode).build_timeline = s.build_timeline
  BY DEF Answered, States, Tools
<1> QED BY <1>1, <1>2, <1>3

LEMMA CalledEffect ==
    ASSUME NEW s \in States, NEW call \in Calls
    PROVE  /\ Called(s, call) \in States
           /\ Called(s, call).agent_steps = s.agent_steps
           /\ Verdict(Called(s, call)) = Verdict(s)
           /\ Tools(Called(s, call)) = <<Append(s.tool_calls, call), call>>
           /\ Called(s, call).last_tool_result = call
           /\ Made(Called(s, call)) = Made(s)
           /\ Called(s, call).build_timeline = s.build_timeline
<1>1. Called(s, call) \in States
  BY CalledType
<1>2. Verdict(Called(s, call)) = Verdict(s) /\ Made(Called(s, call)) = Made(s)
  BY DEF Called, States, Verdict, Made
<1>3. /\ Called(s, call).agent_steps = s.agent_steps
      /\ Called(s, call).build_timeline = s.build_timeline
      /\ Called(s, call).tool_calls = Append(s.tool_calls, call)
      /\ Called(s, call).last_tool_result = call
  BY DEF Called, States
<1> QED BY <1>1, <1>2, <1>3 DEF Tools

LEMMA RefusedEffect ==
    ASSUME NEW s \in States, NEW n \in Nodes
    PROVE  /\ Refused(s, n) \in States
           /\ Refused(s, n).agent_steps = s.agent_steps
           /\ Verdict(Refused(s, n)) = <<"failed", n, s.blocker_recovered>>
           /\ Refused(s, n).status = "failed"
           /\ Refused(s, n).last_tool_result = s.last_tool_result
           /\ Tools(Refused(s, n)) = Tools(s)
           /\ Made(Refused(s, n)) = Made(s)
<1>1. Refused(s, n) \in States
  BY RefusedType
<1>2. Refused(s, n).agent_steps = s.agent_steps
  BY DEF Refused, States
<1>3. /\ Refused(s, n).status = "failed"
      /\ Refused(s, n).failure_reason = n
      /\ Refused(s, n).blocker_recovered = s.blocker_recovered
  BY DEF Refused, States
<1>4. /\ Tools(Refused(s, n)) = Tools(s)
      /\ Refused(s, n).last_tool_result = s.last_tool_result
      /\ Made(Refused(s, n)) = Made(s)
  BY DEF Refused, States, Tools, Made
<1> QED BY <1>1, <1>2, <1>3, <1>4 DEF Verdict

LEMMA SameVerdict ==
    ASSUME NEW s, NEW t, Verdict(s) = Verdict(t)
    PROVE  /\ s.status = t.status
           /\ s.failure_reason = t.failure_reason
           /\ s.blocker_recovered = t.blocker_recovered
BY DEF Verdict

\* The step is that of node n, which node m follows.
Moves(n, m) ==
    /\ node = n
    /\ node' = m
    /\ Entered(state, state', n)
    /\ UNCHANGED settings

\* The verdict, the tool calls, the products, the phases or the world are left
\* alone.
SameParts == Verdict(state') = Verdict(state) /\ Made(state') = Made(state)
Stamps(ps, st) == state'.build_timeline = Stamped(state.build_timeline, ps, st)

\* A node that only completes its phases.
Advances(n, m, ps) ==
    /\ Moves(n, m)
    /\ SameParts
    /\ Tools(state') = Tools(state)
    /\ Stamps(ps, "completed")
    /\ world' = world

\* A node that refuses to go on.
Refuses(n) ==
    /\ Moves(n, "failed")
    /\ Verdict(state') = <<"failed", n, state.blocker_recovered>>
    /\ Made(state') = Made(state)

\* A node that calls a tool.
CallsTool(call) ==
    /\ call \in Calls
    /\ Tools(state') = <<Append(state.tool_calls, call), call>>

Alive == node \in Nodes \ {"failed"} => state.status = "started"

(* The nodes that only advance. *)

\* A node that logs its step and completes its phases.
LEMMA PhaseStep ==
    ASSUME TypeOK, NEW n \in Nodes, NEW m, NEW ps, node = n, world' = world,
           GoTo(m, Phased(Logged(state, n, "completed"), ps, "completed"))
    PROVE  Advances(n, m, ps)
<1> DEFINE l == Logged(state, n, "completed")
<1>1. /\ l \in States
      /\ Entered(state, l, n)
      /\ Verdict(l) = Verdict(state) /\ Tools(l) = Tools(state)
      /\ Made(l) = Made(state) /\ l.build_timeline = state.build_timeline
  BY LoggedEffect DEF TypeOK, StepStatuses
<1> HIDE DEF l
<1>2. state' = Phased(l, ps, "completed") /\ node' = m /\ UNCHANGED settings
  BY DEF GoTo, l
<1>3. /\ state'.agent_steps = l.agent_steps
      /\ Verdict(state') = Verdict(l) /\ Tools(state') = Tools(l)
      /\ Made(state') = Made(l)
      /\ state'.build_timeline = Stamped(l.build_timeline, ps, "completed")
  BY <1>1, <1>2, PhasedEffect DEF PhaseStatuses
<1>4. Moves(n, m)
  BY <1>1, <1>2, <1>3 DEF Moves, Entered
<1> QED BY <1>1, <1>3, <1>4 DEF Advances, SameParts, Stamps

LEMMA ReceiveIdeaEffect ==
    TypeOK /\ ReceiveIdea =>
        Advances("receive_idea", "exchange_github_code", {"idea_intake"})
BY PhaseStep DEF ReceiveIdea, Nodes

ContextPhases == {"domain_research", "reference_url_analysis"}

LEMMA RetrieveContextEffect ==
    TypeOK /\ RetrieveContext =>
        Advances("retrieve_context", "scope_mvp", ContextPhases)
<1> SUFFICES ASSUME TypeOK, RetrieveContext
             PROVE  Advances("retrieve_context", "scope_mvp", ContextPhases)
  OBVIOUS
<1>1. /\ node = "retrieve_context" /\ world' = world
      /\ GoTo("scope_mvp",
              Phased(Logged(state, node, "completed"), ContextPhases, "completed"))
  BY DEF RetrieveContext, ContextPhases
<1>2. "retrieve_context" \in Nodes
  BY DEF Nodes
<1> QED BY <1>1, <1>2, PhaseStep

LEMMA PlanEffect ==
    ASSUME TypeOK, NEW purpose \in Nodes, NEW phases, NEW next,
           Plan(purpose, phases, next)
    PROVE  Advances(purpose, next, phases)
<1>1. PICK mode \in AcceptedModes(purpose) :
         GoTo(next, Phased(Answered(Logged(state, node, "completed"), mode),
                           phases, "completed"))
  BY DEF Plan
<1> DEFINE l == Logged(state, node, "completed")
           a == Answered(l, mode)
<1>2. mode \in Modes /\ node = purpose /\ node \in Nodes /\ state \in States
      /\ world' = world
  BY AcceptedModesType DEF Plan, TypeOK
<1>3. /\ l \in States
      /\ Entered(state, l, node)
      /\ Verdict(l) = Verdict(state) /\ Tools(l) = Tools(state)
      /\ Made(l) = Made(state) /\ l.build_timeline = state.build_timeline
  BY <1>2, LoggedEffect DEF StepStatuses
<1> HIDE DEF l
<1>4. /\ a \in States
      /\ a.agent_steps = l.agent_steps
      /\ Verdict(a) = Verdict(l) /\ Tools(a) = Tools(l)
      /\ Made(a) = Made(l) /\ a.build_timeline = l.build_timeline
  BY <1>2, <1>3, AnsweredEffect
<1> HIDE DEF a
<1>5. state' = Phased(a, phases, "completed") /\ node' = next /\ UNCHANGED settings
  BY <1>1 DEF GoTo, a, l
<1>6. /\ state'.agent_steps = a.agent_steps
      /\ Verdict(state') = Verdict(a) /\ Tools(state') = Tools(a)
      /\ Made(state') = Made(a)
      /\ state'.build_timeline = Stamped(a.build_timeline, phases, "completed")
  BY <1>4, <1>5, PhasedEffect DEF PhaseStatuses
<1>7. Moves(purpose, next)
  BY <1>2, <1>3, <1>4, <1>5, <1>6 DEF Moves, Entered
<1> QED BY <1>2, <1>3, <1>4, <1>6, <1>7 DEF Advances, SameParts, Stamps

LEMMA PlansEffect ==
    ASSUME TypeOK
    PROVE  /\ ScopeMvp => Advances("scope_mvp", "recommend_stack", ScopePhases)
           /\ RecommendStack =>
                 Advances("recommend_stack", "plan_repo", {"tech_stack_recommendation"})
           /\ PlanRepo => Advances("plan_repo", "create_repo", PlanPhases)
BY PlanEffect DEF ScopeMvp, RecommendStack, PlanRepo, Nodes

(* The nodes that may refuse. *)

LEMMA ExchangeEffect ==
    ASSUME TypeOK, Alive, ExchangeGithubCode
    PROVE  /\ world' = world
           /\ Tools(state') = Tools(state)
           /\ \/ /\ Moves("exchange_github_code", "retrieve_context")
                 /\ SameParts
                 /\ state'.build_timeline = state.build_timeline
              \/ Refuses("exchange_github_code")
<1>1. PICK outcome \in Exchanges :
         LET ok == outcome \in {"mock_skipped", "exchanged"}
             s  == [Logged(state, node, IF ok THEN "completed" ELSE "failed")
                        EXCEPT !.github_connection = outcome]
             t  == IF ok THEN s ELSE Refused(s, node)
         IN  GoTo(RouteAfterGithubExchange(t), t)
  BY DEF ExchangeGithubCode
<1> DEFINE ok == outcome \in {"mock_skipped", "exchanged"}
           l  == Logged(state, node, IF ok THEN "completed" ELSE "failed")
           s  == [l EXCEPT !.github_connection = outcome]
           t  == IF ok THEN s ELSE Refused(s, node)
<1>2. /\ node = "exchange_github_code" /\ node \in Nodes /\ state \in States
      /\ world' = world
      /\ outcome \in {"none", "mock_skipped", "missing", "exchanged"}
      /\ state.status = "started"
  BY DEF ExchangeGithubCode, Nodes, TypeOK, Exchanges, Alive
<1>3. /\ l \in States
      /\ Entered(state, l, node)
      /\ Verdict(l) = Verdict(state) /\ Tools(l) = Tools(state)
      /\ Made(l) = Made(state) /\ l.build_timeline = state.build_timeline
  BY <1>2, LoggedEffect DEF StepStatuses
<1>4. GoTo(RouteAfterGithubExchange(t), t)
  BY <1>1
<1> HIDE DEF l
<1>5. /\ s \in States
      /\ Verdict(s) = Verdict(l)
      /\ Made(s) = Made(l)
  BY <1>2, <1>3 DEF States, Verdict, Made
<1>6. /\ Tools(s) = Tools(l)
      /\ s.agent_steps = l.agent_steps
      /\ s.build_timeline = l.build_timeline
  BY <1>2, <1>3 DEF States, Tools
<1>7. s.status = "started" /\ s.blocker_recovered = state.blocker_recovered
  BY <1>2, <1>3, <1>5, SameVerdict
<1> HIDE DEF s, ok
<1>8. CASE ok
  <2>1. state' = s /\ node' = "retrieve_context" /\ UNCHANGED settings
    BY <1>4, <1>7, <1>8 DEF GoTo, RouteAfterGithubExchange
  <2>2. Moves("exchange_github_code", "retrieve_context")
    BY <1>2, <1>3, <1>6, <2>1 DEF Moves, Entered
  <2> QED BY <1>2, <1>3, <1>5, <1>6, <2>1, <2>2 DEF SameParts
<1>9. CASE ~ok
  <2>1. state' = Refused(s, node) /\ UNCHANGED settings
        /\ node' = RouteAfterGithubExchange(Refused(s, node))
    BY <1>4, <1>9 DEF GoTo
  <2>2. /\ state'.agent_steps = s.agent_steps
        /\ Verdict(state') = <<"failed", node, s.blocker_recovered>>
        /\ state'.status = "failed"
        /\ Tools(state') = Tools(s) /\ Made(state') = Made(s)
    BY <1>2, <1>5, <2>1, RefusedEffect
  <2>3. node' = "failed"
    BY <2>1, <2>2 DEF RouteAfterGithubExchange
  <2>4. Moves("exchange_github_code", "failed")
    BY <1>2, <1>3, <1>6, <2>1, <2>2, <2>3 DEF Moves, Entered
  <2>5. Refuses("exchange_github_code")
    BY <1>2, <1>3, <1>5, <1>7, <2>2, <2>4 DEF Refuses
  <2> QED BY <1>2, <1>3, <1>6, <2>2, <2>5
<1> QED BY <1>8, <1>9

LEMMA ValidateEffect ==
    ASSUME TypeOK, Alive, ValidateMvp
    PROVE  /\ world' = world
           /\ Tools(state') = Tools(state)
           /\ \/ Advances("validate_mvp", "debug_generated_files", {"testing_strategy"})
              \/ Refuses("validate_mvp")
<1>1. PICK broken \in SUBSET Checks :
         LET outcome == IF broken = {} THEN "completed" ELSE "failed"
             s == [Phased(Logged(state, node, outcome), {"testing_strategy"}, outcome)
                      EXCEPT !.mvp_validation = [run |-> TRUE, broken |-> broken]]
             t == IF broken = {} THEN s ELSE Refused(s, node)
         IN  GoTo(RouteAfterValidateMvp(t), t)
  BY DEF ValidateMvp
<1> DEFINE outcome == IF broken = {} THEN "completed" ELSE "failed"
           l == Logged(state, node, outcome)
           p == Phased(l, {"testing_strategy"}, outcome)
           s == [p EXCEPT !.mvp_validation = [run |-> TRUE, broken |-> broken]]
           t == IF broken = {} THEN s ELSE Refused(s, node)
<1>2. /\ node = "validate_mvp" /\ node \in Nodes /\ state \in States
      /\ world' = world /\ state.status = "started"
      /\ outcome \in StepStatuses /\ outcome \in PhaseStatuses
  BY DEF ValidateMvp, Nodes, TypeOK, Alive, StepStatuses, PhaseStatuses
<1>3. GoTo(RouteAfterValidateMvp(t), t)
  BY <1>1
<1>4. /\ l \in States
      /\ Entered(state, l, node)
      /\ Verdict(l) = Verdict(state) /\ Tools(l) = Tools(state)
      /\ Made(l) = Made(state) /\ l.build_timeline = state.build_timeline
  BY <1>2, LoggedEffect
<1>5. broken = {} => outcome = "completed"
  OBVIOUS
<1> HIDE DEF l, outcome
<1>6. /\ p \in States
      /\ p.agent_steps = l.agent_steps
      /\ Verdict(p) = Verdict(l) /\ Tools(p) = Tools(l) /\ Made(p) = Made(l)
      /\ p.build_timeline = Stamped(l.build_timeline, {"testing_strategy"}, outcome)
  BY <1>2, <1>4, PhasedEffect
<1> HIDE DEF p
<1>7. /\ s \in States
      /\ Verdict(s) = Verdict(p)
      /\ Made(s) = Made(p)
      /\ s.mvp_validation.broken = broken
  BY <1>6 DEF States, Verdict, Made
<1>8. /\ Tools(s) = Tools(p)
      /\ s.agent_steps = p.agent_steps
      /\ s.build_timeline = p.build_timeline
  BY <1>6 DEF States, Tools
<1>9. s.status = "started" /\ s.blocker_recovered = state.blocker_recovered
  BY <1>2, <1>4, <1>6, <1>7, SameVerdict
<1> HIDE DEF s
<1>10. CASE broken = {}
  <2>1. state' = s /\ node' = "debug_generated_files" /\ UNCHANGED settings
    BY <1>3, <1>7, <1>9, <1>10 DEF GoTo, RouteAfterValidateMvp, Passed
  <2>2. Moves("validate_mvp", "debug_generated_files")
    BY <1>2, <1>4, <1>6, <1>8, <2>1 DEF Moves, Entered
  <2>3. SameParts /\ Tools(state') = Tools(state)
    BY <1>4, <1>6, <1>7, <1>8, <2>1 DEF SameParts
  <2>4. Stamps({"testing_strategy"}, "completed")
    BY <1>4, <1>5, <1>6, <1>8, <1>10, <2>1 DEF Stamps
  <2> QED BY <1>2, <2>2, <2>3, <2>4 DEF Advances
<1>11. CASE broken # {}
  <2>1. state' = Refused(s, node) /\ UNCHANGED settings
        /\ node' = RouteAfterValidateMvp(Refused(s, node))
    BY <1>3, <1>11 DEF GoTo
  <2>2. /\ state'.agent_steps = s.agent_steps
        /\ Verdict(state') = <<"failed", node, s.blocker_recovered>>
        /\ state'.status = "failed"
        /\ Tools(state') = Tools(s) /\ Made(state') = Made(s)
    BY <1>2, <1>7, <2>1, RefusedEffect
  <2>3. node' = "failed"
    BY <2>1, <2>2 DEF RouteAfterValidateMvp
  <2>4. Moves("validate_mvp", "failed")
    BY <1>2, <1>4, <1>6, <1>8, <2>1, <2>2, <2>3 DEF Moves, Entered
  <2>5. Refuses("validate_mvp")
    BY <1>2, <1>4, <1>6, <1>7, <1>9, <2>2, <2>4 DEF Refuses
  <2> QED BY <1>2, <1>4, <1>6, <1>8, <2>2, <2>5
<1> QED BY <1>10, <1>11

\* The world gains at most a repository, and only from a call that creates one.
LEMMA CreateRepoEffect ==
    ASSUME TypeOK, Alive, CreateRepo
    PROVE  \E call \in Calls, made \in 0..1 :
              /\ call.tool \in {"github.create_repo", "github.use_existing_repo"}
              /\ made = 1 => call.tool = "github.create_repo"
              /\ CallsTool(call)
              /\ world' = [world EXCEPT !.repos = @ + made]
              /\ \/ /\ Moves("create_repo", "generate_files")
                    /\ SameParts
                    /\ Stamps({"github_repo_export"}, "completed")
                 \/ Refuses("create_repo")
<1>1. PICK ok \in BOOLEAN, made \in 0..1, retry \in BOOLEAN :
         /\ made = 1 => ~settings.use_existing_repo
         /\ world' = [world EXCEPT !.repos = @ + made]
         /\ LET call == [tool |-> IF settings.use_existing_repo
                                  THEN "github.use_existing_repo"
                                  ELSE "github.create_repo",
                         status |-> IF ok THEN "success" ELSE "failed",
                         recoverable |-> ~ok /\ ~settings.use_existing_repo /\ retry]
                s == Called(Logged(state, node, IF ok THEN "completed" ELSE "failed"),
                            call)
                t == IF ok THEN Phased(s, {"github_repo_export"}, "completed")
                           ELSE Refused(s, node)
            IN  GoTo(RouteAfterCreateRepo(t), t)
  BY DEF CreateRepo
<1> DEFINE tool == IF settings.use_existing_repo THEN "github.use_existing_repo"
                                                 ELSE "github.create_repo"
           call == [tool |-> tool, status |-> IF ok THEN "success" ELSE "failed",
                    recoverable |-> ~ok /\ ~settings.use_existing_repo /\ retry]
           l == Logged(state, node, IF ok THEN "completed" ELSE "failed")
           s == Called(l, call)
           t == IF ok THEN Phased(s, {"github_repo_export"}, "completed")
                      ELSE Refused(s, node)
<1>2. /\ node = "create_repo" /\ node \in Nodes /\ state \in States
      /\ state.status = "started"
  BY DEF CreateRepo, Nodes, TypeOK, Alive
<1>3. GoTo(RouteAfterCreateRepo(t), t)
  BY <1>1
<1>4. /\ tool \in {"github.create_repo", "github.use_existing_repo"}
      /\ made = 1 => tool = "github.create_repo"
  BY <1>1
<1> HIDE DEF tool
<1>5. call \in Calls
  BY <1>4 DEF Calls
<1>6. call.tool = tool
  OBVIOUS
<1>7. /\ l \in States
      /\ Entered(state, l, node)
      /\ Verdict(l) = Verdict(state) /\ Tools(l) = Tools(state)
      /\ Made(l) = Made(state) /\ l.build_timeline = state.build_timeline
  BY <1>2, LoggedEffect DEF StepStatuses
<1> HIDE DEF l, call
<1>8. /\ s \in States
      /\ s.agent_steps = l.agent_steps
      /\ Verdict(s) = Verdict(l)
      /\ Tools(s) = <<Append(l.tool_calls, call), call>>
      /\ Made(s) = Made(l) /\ s.build_timeline = l.build_timeline
  BY <1>5, <1>7, CalledEffect
<1>9. l.tool_calls = state.tool_calls
  BY <1>7 DEF Tools
<1> HIDE DEF s
<1>10. /\ s.status = "started"
       /\ s.blocker_recovered = state.blocker_recovered
  BY <1>2, <1>7, <1>8, SameVerdict
<1>11. Tools(state') = Tools(s) /\
       \/ /\ Moves("create_repo", "generate_files")
          /\ SameParts
          /\ Stamps({"github_repo_export"}, "completed")
       \/ Refuses("create_repo")
  <2>1. CASE ok
    <3>1. state' = Phased(s, {"github_repo_export"}, "completed") /\ UNCHANGED settings
          /\ node' = RouteAfterCreateRepo(state')
      BY <1>3, <2>1 DEF GoTo
    <3>2. /\ state'.agent_steps = s.agent_steps
          /\ Verdict(state') = Verdict(s) /\ Tools(state') = Tools(s)
          /\ Made(state') = Made(s)
          /\ state'.build_timeline = Stamped(s.build_timeline, {"github_repo_export"}, "completed")
      BY <1>8, <3>1, PhasedEffect DEF PhaseStatuses
    <3>3. state'.status = "started"
      BY <1>10, <3>2, SameVerdict
    <3>4. node' = "generate_files"
      BY <3>1, <3>3 DEF RouteAfterCreateRepo
    <3>5. Moves("create_repo", "generate_files")
      BY <1>2, <1>7, <1>8, <3>1, <3>2, <3>4 DEF Moves, Entered
    <3> QED BY <1>7, <1>8, <3>2, <3>5 DEF SameParts, Stamps
  <2>2. CASE ~ok
    <3>1. state' = Refused(s, node) /\ UNCHANGED settings
          /\ node' = RouteAfterCreateRepo(state')
      BY <1>3, <2>2 DEF GoTo
    <3>2. /\ state'.agent_steps = s.agent_steps
          /\ Verdict(state') = <<"failed", node, s.blocker_recovered>>
          /\ state'.status = "failed"
          /\ Tools(state') = Tools(s) /\ Made(state') = Made(s)
      BY <1>2, <1>8, <3>1, RefusedEffect
    <3>3. node' = "failed"
      BY <3>1, <3>2 DEF RouteAfterCreateRepo
    <3>4. Moves("create_repo", "failed")
      BY <1>2, <1>7, <1>8, <3>1, <3>2, <3>3 DEF Moves, Entered
    <3> QED BY <1>2, <1>7, <1>8, <1>10, <3>2, <3>4 DEF Refuses
  <2> QED BY <2>1, <2>2
<1>12. CallsTool(call)
  BY <1>5, <1>8, <1>9, <1>11 DEF CallsTool
<1> QED BY <1>1, <1>4, <1>5, <1>6, <1>11, <1>12

\* The commit leaves at most its own files on the branch, and a successful
\* live one leaves everything the run has generated.
LEMMA CommitEffect ==
    ASSUME TypeOK, Alive, CommitProgress
    PROVE  \E call \in Calls, made \in 0..MaxCommitsPerCall :
              /\ call.tool = "github.commit_files"
              /\ CallsTool(call)
              /\ world' = [world EXCEPT !.commits = @ + made, !.committed = world'.committed]
              /\ \/ /\ Moves("commit_progress", "verify_build")
                    /\ SameParts
                    /\ Stamps({"github_repo_export"}, "running")
                    /\ settings.mock_mode
                       \/ ArtifactOrigins(state) \subseteq world'.committed
                 \/ Refuses("commit_progress")
<1>1. PICK ok \in BOOLEAN, made \in 0..MaxCommitsPerCall,
           retry \in BOOLEAN, extra \in SUBSET {"scaffold"} :
         /\ settings.mock_mode => ok /\ made = 0
         /\ ok /\ ~settings.mock_mode => made > 0
         /\ world' = [world EXCEPT
                        !.commits   = @ + made,
                        !.committed = IF made = 0 THEN @
                                      ELSE @ \cup ArtifactOrigins(state) \cup extra]
         /\ LET call == [tool |-> "github.commit_files",
                         status |-> IF ok THEN "success" ELSE "failed",
                         recoverable |-> ~ok /\ retry]
                s == Called(Logged(state, node, "completed"), call)
                t == IF ok THEN Phased(s, {"github_repo_export"}, "running")
                           ELSE Refused(s, node)
            IN  GoTo(RouteAfterCommitProgress(t), t)
  BY DEF CommitProgress
<1> DEFINE call == [tool |-> "github.commit_files",
                    status |-> IF ok THEN "success" ELSE "failed",
                    recoverable |-> ~ok /\ retry]
           l == Logged(state, node, "completed")
           s == Called(l, call)
           t == IF ok THEN Phased(s, {"github_repo_export"}, "running")
                      ELSE Refused(s, node)
<1>2. /\ node = "commit_progress" /\ node \in Nodes /\ state \in States
      /\ state.status = "started" /\ world \in Worlds
  BY DEF CommitProgress, Nodes, TypeOK, Alive
<1>3. GoTo(RouteAfterCommitProgress(t), t)
  BY <1>1
<1>4. call \in Calls /\ call.tool = "github.commit_files"
  BY DEF Calls
<1>5. /\ l \in States
      /\ Entered(state, l, node)
      /\ Verdict(l) = Verdict(state) /\ Tools(l) = Tools(state)
      /\ Made(l) = Made(state) /\ l.build_timeline = state.build_timeline
  BY <1>2, LoggedEffect DEF StepStatuses
<1> HIDE DEF l, call
<1>6. /\ s \in States
      /\ s.agent_steps = l.agent_steps
      /\ Verdict(s) = Verdict(l)
      /\ Tools(s) = <<Append(l.tool_calls, call), call>>
      /\ Made(s) = Made(l) /\ s.build_timeline = l.build_timeline
  BY <1>4, <1>5, CalledEffect
<1>7. l.tool_calls = state.tool_calls
  BY <1>5 DEF Tools
<1> HIDE DEF s
<1>8. /\ s.status = "started"
      /\ s.blocker_recovered = state.blocker_recovered
  BY <1>2, <1>5, <1>6, SameVerdict
<1>9. /\ world' = [world EXCEPT !.commits = @ + made, !.committed = world'.committed]
      /\ made > 0 => ArtifactOrigins(state) \subseteq world'.committed
  BY <1>1, <1>2 DEF Worlds
<1>10. Tools(state') = Tools(s) /\
       \/ /\ Moves("commit_progress", "verify_build")
          /\ SameParts
          /\ Stamps({"github_repo_export"}, "running")
          /\ settings.mock_mode \/ ArtifactOrigins(state) \subseteq world'.committed
       \/ Refuses("commit_progress")
  <2>1. CASE ok
    <3>1. state' = Phased(s, {"github_repo_export"}, "running") /\ UNCHANGED settings
          /\ node' = RouteAfterCommitProgress(state')
      BY <1>3, <2>1 DEF GoTo
    <3>2. /\ state'.agent_steps = s.agent_steps
          /\ Verdict(state') = Verdict(s) /\ Tools(state') = Tools(s)
          /\ Made(state') = Made(s)
          /\ state'.build_timeline = Stamped(s.build_timeline, {"github_repo_export"}, "running")
      BY <1>6, <3>1, PhasedEffect DEF PhaseStatuses
    <3>3. state'.status = "started"
      BY <1>8, <3>2, SameVerdict
    <3>4. node' = "verify_build"
      BY <3>1, <3>3 DEF RouteAfterCommitProgress
    <3>5. Moves("commit_progress", "verify_build")
      BY <1>2, <1>5, <1>6, <3>1, <3>2, <3>4 DEF Moves, Entered
    <3>6. settings.mock_mode \/ ArtifactOrigins(state) \subseteq world'.committed
      BY <1>1, <1>9, <2>1
    <3> QED BY <1>5, <1>6, <3>2, <3>5, <3>6 DEF SameParts, Stamps
  <2>2. CASE ~ok
    <3>1. state' = Refused(s, node) /\ UNCHANGED settings
          /\ node' = RouteAfterCommitProgress(state')
      BY <1>3, <2>2 DEF GoTo
    <3>2. /\ state'.agent_steps = s.agent_steps
          /\ Verdict(state') = <<"failed", node, s.blocker_recovered>>
          /\ state'.status = "failed"
          /\ Tools(state') = Tools(s) /\ Made(state') = Made(s)
      BY <1>2, <1>6, <3>1, RefusedEffect
    <3>3. node' = "failed"
      BY <3>1, <3>2 DEF RouteAfterCommitProgress
    <3>4. Moves("commit_progress", "failed")
      BY <1>2, <1>5, <1>6, <3>1, <3>2, <3>3 DEF Moves, Entered
    <3> QED BY <1>2, <1>5, <1>6, <1>8, <3>2, <3>4 DEF Refuses
  <2> QED BY <2>1, <2>2
<1>11. CallsTool(call)
  BY <1>4, <1>6, <1>7, <1>10 DEF CallsTool
<1> QED BY <1>4, <1>9, <1>10, <1>11

(* The nodes that make files, and those that end the run. *)

\* A node that appends files to the artifacts and keeps the rest.
Generates(files) ==
    /\ Verdict(state') = Verdict(state)
    /\ Tools(state') = Tools(state)
    /\ state'.generated_artifacts = state.generated_artifacts \o files
    /\ world' = world

Manifests == {<<"manifest">>, <<"manifest", "scaffold">>}

LEMMA GenerateEffect ==
    ASSUME TypeOK, GenerateFiles
    PROVE  /\ Moves("generate_files", "validate_mvp")
           /\ \E files \in Manifests : Generates(files)
           /\ state'.final_report = state.final_report
           /\ Stamps(FilePhases, "completed")
<1>1. PICK mode \in AcceptedModes("file_manifest"), files \in Manifests :
         GoTo("validate_mvp",
              [Phased(Answered(Logged(state, node, "completed"), mode),
                      FilePhases, "completed")
                  EXCEPT !.generated_artifacts = @ \o files,
                         !.file_manifest_mode  = mode])
  BY DEF GenerateFiles, Manifests
<1> DEFINE l == Logged(state, node, "completed")
           a == Answered(l, mode)
           p == Phased(a, FilePhases, "completed")
           s == [p EXCEPT !.generated_artifacts = @ \o files,
                          !.file_manifest_mode  = mode]
<1>2. /\ node = "generate_files" /\ node \in Nodes /\ state \in States
      /\ world' = world /\ mode \in Modes
  BY AcceptedModesType DEF GenerateFiles, Nodes, TypeOK
<1>3. /\ l \in States
      /\ Entered(state, l, node)
      /\ Verdict(l) = Verdict(state) /\ Tools(l) = Tools(state)
      /\ Made(l) = Made(state) /\ l.build_timeline = state.build_timeline
  BY <1>2, LoggedEffect DEF StepStatuses
<1>4. state' = s /\ node' = "validate_mvp" /\ UNCHANGED settings
  BY <1>1 DEF GoTo
<1> HIDE DEF l
<1>5. /\ a \in States
      /\ a.agent_steps = l.agent_steps
      /\ Verdict(a) = Verdict(l) /\ Tools(a) = Tools(l)
      /\ Made(a) = Made(l) /\ a.build_timeline = l.build_timeline
  BY <1>2, <1>3, AnsweredEffect
<1> HIDE DEF a
<1>6. /\ p \in States
      /\ p.agent_steps = a.agent_steps
      /\ Verdict(p) = Verdict(a) /\ Tools(p) = Tools(a) /\ Made(p) = Made(a)
      /\ p.build_timeline = Stamped(a.build_timeline, FilePhases, "completed")
  BY <1>5, PhasedEffect DEF PhaseStatuses
<1> HIDE DEF p
<1>7. Verdict(s) = Verdict(p) /\ Tools(s) = Tools(p)
  BY <1>6 DEF States, Verdict, Tools
<1>8. /\ s.agent_steps = p.agent_steps
      /\ s.build_timeline = p.build_timeline
      /\ s.generated_artifacts = p.generated_artifacts \o files
      /\ s.final_report = p.final_report
  BY <1>6 DEF States
<1> HIDE DEF s
<1>9. p.generated_artifacts = state.generated_artifacts
      /\ p.final_report = state.final_report
  BY <1>3, <1>5, <1>6 DEF Made
<1>10. Moves("generate_files", "validate_mvp")
  BY <1>2, <1>3, <1>4, <1>5, <1>6, <1>8 DEF Moves, Entered
<1>11. Generates(files)
  BY <1>2, <1>3, <1>4, <1>5, <1>6, <1>7, <1>8, <1>9 DEF Generates
<1> QED BY <1>3, <1>4, <1>5, <1>6, <1>8, <1>9, <1>10, <1>11 DEF Stamps

LEMMA DebugEffect ==
    ASSUME TypeOK, DebugGeneratedFiles
    PROVE  /\ Moves("debug_generated_files", "commit_progress")
           /\ Verdict(state') = Verdict(state)
           /\ Tools(state') = Tools(state)
           /\ world' = world
           /\ state'.generated_artifacts =
                 (state.generated_artifacts \o state.generated_artifacts) \o <<"debug">>
           /\ state'.final_report = state.final_report
           /\ state'.build_timeline = state.build_timeline
<1> DEFINE l == Logged(state, node, "completed")
           s == [l EXCEPT !.generated_artifacts = (@ \o @) \o <<"debug">>]
<1>1. /\ node = "debug_generated_files" /\ node \in Nodes /\ state \in States
      /\ world' = world
      /\ state' = s /\ node' = "commit_progress" /\ UNCHANGED settings
  BY DEF DebugGeneratedFiles, Nodes, TypeOK, GoTo
<1>2. /\ l \in States
      /\ Entered(state, l, node)
      /\ Verdict(l) = Verdict(state) /\ Tools(l) = Tools(state)
      /\ Made(l) = Made(state) /\ l.build_timeline = state.build_timeline
  BY <1>1, LoggedEffect DEF StepStatuses
<1> HIDE DEF l
<1>3. Verdict(s) = Verdict(l) /\ Tools(s) = Tools(l)
  BY <1>2 DEF States, Verdict, Tools
<1>4. /\ s.agent_steps = l.agent_steps
      /\ s.build_timeline = l.build_timeline
      /\ s.generated_artifacts =
            (l.generated_artifacts \o l.generated_artifacts) \o <<"debug">>
      /\ s.final_report = l.final_report
  BY <1>2 DEF States
<1> HIDE DEF s
<1>5. l.generated_artifacts = state.generated_artifacts
      /\ l.final_report = state.final_report
  BY <1>2 DEF Made
<1>6. Moves("debug_generated_files", "commit_progress")
  BY <1>1, <1>2, <1>4 DEF Moves, Entered
<1> QED BY <1>1, <1>2, <1>3, <1>4, <1>5, <1>6

\* Only a test run can be recovered, and only once.
LEMMA VerifyEffect ==
    ASSUME TypeOK, VerifyBuild
    PROVE  /\ world' = world
           /\ Made(state') = Made(state)
           /\ \E call \in Calls :
                 /\ call.tool = "build.verify"
                 /\ CallsTool(call)
                 /\ \/ /\ Moves("verify_build", "generate_final_package")
                       /\ call.status = "success"
                       /\ Verdict(state') = Verdict(state)
                       /\ Stamps({"build_test_validation"}, "completed")
                       /\ settings.mock_mode => state.blocker_recovered
                    \/ /\ Moves("verify_build", "handle_blocker")
                       /\ settings.mock_mode /\ ~state.blocker_recovered
                       /\ Verdict(state') = <<state.status, "verify_build",
                                              state.blocker_recovered>>
                       /\ Stamps({"build_test_validation"}, "failed")
                    \/ /\ Moves("verify_build", "failed")
                       /\ ~settings.mock_mode
                       /\ Verdict(state') = <<state.status, "verify_build",
                                              state.blocker_recovered>>
<1>1. PICK ok \in BOOLEAN :
         /\ settings.mock_mode => ok = state.blocker_recovered
         /\ LET outcome == IF ok THEN "completed" ELSE "failed"
                call == [tool |-> "build.verify",
                         status |-> IF ok THEN "success" ELSE "failed",
                         recoverable |-> ~ok /\ settings.mock_mode]
                s == Phased(Called(Logged(state, node,
                                          IF ok THEN "completed" ELSE "blocked"), call),
                            {"build_test_validation"}, outcome)
                t == IF ok THEN s ELSE [s EXCEPT !.failure_reason = node]
            IN  GoTo(RouteAfterToolResult(t), t)
  BY DEF VerifyBuild
<1> DEFINE outcome == IF ok THEN "completed" ELSE "failed"
           call == [tool |-> "build.verify",
                    status |-> IF ok THEN "success" ELSE "failed",
                    recoverable |-> ~ok /\ settings.mock_mode]
           l == Logged(state, node, IF ok THEN "completed" ELSE "blocked")
           c == Called(l, call)
           s == Phased(c, {"build_test_validation"}, outcome)
           t == IF ok THEN s ELSE [s EXCEPT !.failure_reason = node]
<1>2. /\ node = "verify_build" /\ node \in Nodes /\ state \in States
      /\ world' = world /\ settings.mock_mode \in BOOLEAN
      /\ outcome \in PhaseStatuses
  BY DEF VerifyBuild, Nodes, TypeOK, Settings, PhaseStatuses
<1>3. GoTo(RouteAfterToolResult(t), t)
  BY <1>1
<1>4. /\ call.tool = "build.verify"
      /\ call.status = (IF ok THEN "success" ELSE "failed")
      /\ call.recoverable = (~ok /\ settings.mock_mode)
  OBVIOUS
<1>5. call \in Calls
  BY <1>2, Zenon DEF Calls
<1>6. /\ l \in States
      /\ Entered(state, l, node)
      /\ Verdict(l) = Verdict(state) /\ Tools(l) = Tools(state)
      /\ Made(l) = Made(state) /\ l.build_timeline = state.build_timeline
  BY <1>2, LoggedEffect DEF StepStatuses
<1>7. outcome = IF ok THEN "completed" ELSE "failed"
  OBVIOUS
<1> HIDE DEF l, call, outcome
<1>8. /\ c \in States
      /\ c.agent_steps = l.agent_steps
      /\ Verdict(c) = Verdict(l)
      /\ Tools(c) = <<Append(l.tool_calls, call), call>>
      /\ Made(c) = Made(l) /\ c.build_timeline = l.build_timeline
  BY <1>5, <1>6, CalledEffect
<1> HIDE DEF c
<1>9. /\ s \in States
      /\ s.agent_steps = c.agent_steps
      /\ Verdict(s) = Verdict(c) /\ Tools(s) = Tools(c) /\ Made(s) = Made(c)
      /\ s.build_timeline = Stamped(c.build_timeline, {"build_test_validation"}, outcome)
  BY <1>2, <1>8, PhasedEffect
<1> HIDE DEF s
<1>10. /\ l.tool_calls = state.tool_calls
       /\ s.last_tool_result = call
  BY <1>6, <1>8, <1>9 DEF Tools
<1>11. /\ Tools(t) = Tools(s) /\ Made(t) = Made(s)
       /\ t.agent_steps = s.agent_steps
  BY <1>2, <1>9 DEF States, Tools, Made
<1>12. /\ t.build_timeline = s.build_timeline
       /\ t.last_tool_result = s.last_tool_result
  BY <1>2, <1>9 DEF States
<1>13. state' = t /\ UNCHANGED settings /\ node' = RouteAfterToolResult(t)
  BY <1>3 DEF GoTo
<1>14. CallsTool(call)
  BY <1>5, <1>8, <1>9, <1>10, <1>11, <1>13 DEF CallsTool
<1>15. Made(state') = Made(state)
  BY <1>6, <1>8, <1>9, <1>11, <1>13
<1>16. Entered(state, state', node)
  BY <1>6, <1>8, <1>9, <1>11, <1>13 DEF Entered
<1>17. Stamps({"build_test_validation"}, outcome)
  BY <1>6, <1>8, <1>9, <1>12, <1>13 DEF Stamps
<1>18. Verdict(s) = Verdict(state)
  BY <1>6, <1>8, <1>9
<1>19. CASE ok
  <2>1. t = s
    BY <1>19
  <2>2. node' = "generate_final_package"
    BY <1>4, <1>10, <1>12, <1>13, <1>19 DEF RouteAfterToolResult
  <2>3. Moves("verify_build", "generate_final_package")
    BY <1>2, <1>13, <1>16, <2>2 DEF Moves
  <2>4. Verdict(state') = Verdict(state)
    BY <1>13, <1>18, <2>1
  <2>5. /\ call.status = "success"
        /\ Stamps({"build_test_validation"}, "completed")
        /\ settings.mock_mode => state.blocker_recovered
    BY <1>1, <1>4, <1>7, <1>17, <1>19
  <2> QED BY <1>2, <1>4, <1>5, <1>14, <1>15, <2>3, <2>4, <2>5
<1>20. CASE ~ok
  <2>1. t = [s EXCEPT !.failure_reason = node]
    BY <1>20
  <2>2. /\ t.failure_reason = node
        /\ t.status = s.status /\ t.blocker_recovered = s.blocker_recovered
    BY <1>2, <1>9, <2>1 DEF States
  <2>3. Verdict(state') = <<state.status, "verify_build", state.blocker_recovered>>
    BY <1>2, <1>13, <1>18, <2>2, SameVerdict DEF Verdict
  <2>4. Stamps({"build_test_validation"}, "failed")
    BY <1>7, <1>17, <1>20
  <2>5. CASE settings.mock_mode
    <3>1. node' = "handle_blocker"
      BY <1>4, <1>10, <1>12, <1>13, <1>20, <2>5 DEF RouteAfterToolResult
    <3>2. Moves("verify_build", "handle_blocker")
      BY <1>2, <1>13, <1>16, <3>1 DEF Moves
    <3>3. ~state.blocker_recovered
      BY <1>1, <1>20, <2>5
    <3> QED BY <1>2, <1>4, <1>5, <1>14, <1>15, <2>3, <2>4, <2>5, <3>2, <3>3
  <2>6. CASE ~settings.mock_mode
    <3>1. node' = "failed"
      BY <1>4, <1>10, <1>12, <1>13, <1>20, <2>6 DEF RouteAfterToolResult
    <3>2. Moves("verify_build", "failed")
      BY <1>2, <1>13, <1>16, <3>1 DEF Moves
    <3> QED BY <1>2, <1>4, <1>5, <1>14, <1>15, <2>3, <2>6, <3>2
  <2> QED BY <2>5, <2>6
<1> QED BY <1>19, <1>20

LEMMA BlockerEffect ==
    ASSUME TypeOK, HandleBlocker
    PROVE  /\ Moves("handle_blocker", "verify_build")
           /\ CallsTool(RecoveryCall)
           /\ Verdict(state') = <<state.status, state.failure_reason, TRUE>>
           /\ Made(state') = Made(state)
           /\ state'.build_timeline = state.build_timeline
           /\ world' = world
<1> DEFINE l == Logged(state, node, "completed")
           c == Called(l, RecoveryCall)
           s == [c EXCEPT !.blocker_recovered = TRUE]
<1>1. /\ node = "handle_blocker" /\ node \in Nodes /\ state \in States
      /\ world' = world
      /\ state' = s /\ node' = "verify_build" /\ UNCHANGED settings
  BY DEF HandleBlocker, Nodes, TypeOK, GoTo
<1>2. RecoveryCall \in Calls
  BY DEF RecoveryCall, Calls
<1>3. /\ l \in States
      /\ Entered(state, l, node)
      /\ Verdict(l) = Verdict(state) /\ Tools(l) = Tools(state)
      /\ Made(l) = Made(state) /\ l.build_timeline = state.build_timeline
  BY <1>1, LoggedEffect DEF StepStatuses
<1> HIDE DEF l
<1>4. /\ c \in States
      /\ c.agent_steps = l.agent_steps
      /\ Verdict(c) = Verdict(l)
      /\ Tools(c) = <<Append(l.tool_calls, RecoveryCall), RecoveryCall>>
      /\ Made(c) = Made(l) /\ c.build_timeline = l.build_timeline
  BY <1>2, <1>3, CalledEffect
<1> HIDE DEF c
<1>5. /\ s.status = c.status /\ s.failure_reason = c.failure_reason
      /\ s.blocker_recovered = TRUE
      /\ s.agent_steps = c.agent_steps
      /\ s.build_timeline = c.build_timeline
  BY <1>4 DEF States
<1>6. Tools(s) = Tools(c) /\ Made(s) = Made(c)
  BY <1>4 DEF States, Tools, Made
<1> HIDE DEF s
<1>7. c.status = state.status /\ c.failure_reason = state.failure_reason
  BY <1>3, <1>4, SameVerdict
<1>8. Moves("handle_blocker", "verify_build")
  BY <1>1, <1>3, <1>4, <1>5 DEF Moves, Entered
<1>9. l.tool_calls = state.tool_calls
  BY <1>3 DEF Tools
<1>10. CallsTool(RecoveryCall)
  BY <1>1, <1>2, <1>4, <1>6, <1>9 DEF CallsTool
<1>11. Verdict(state') = <<state.status, state.failure_reason, TRUE>>
  BY <1>1, <1>5, <1>7 DEF Verdict
<1> QED BY <1>1, <1>3, <1>4, <1>5, <1>6, <1>8, <1>10, <1>11

LEMMA PackageEffect ==
    ASSUME TypeOK, GenerateFinalPackage
    PROVE  /\ Moves("generate_final_package", "remember_outcome")
           /\ Generates(<<"final">>)
           /\ state'.final_report.status = "completed"
           /\ Stamps(PackagePhases, "completed")
<1>1. PICK modes \in [PackagePurposes -> Modes] :
         GoTo("remember_outcome",
              [Phased(Logged(state, node, "completed"), PackagePhases, "completed")
                  EXCEPT !.generated_artifacts = Append(@, "final"),
                         !.final_report =
                             [status  |-> "completed",
                              mode    |-> PackageMode({modes[p] : p \in PackagePurposes}),
                              summary |-> "delivered",
                              artifact_count |-> Len(state.generated_artifacts) + 1]])
  BY DEF GenerateFinalPackage
<1> DEFINE l == Logged(state, node, "completed")
           a == Phased(l, PackagePhases, "completed")
           r == [status  |-> "completed",
                 mode    |-> PackageMode({modes[p] : p \in PackagePurposes}),
                 summary |-> "delivered",
                 artifact_count |-> Len(state.generated_artifacts) + 1]
           s == [a EXCEPT !.generated_artifacts = Append(@, "final"),
                          !.final_report = r]
<1>2. /\ node = "generate_final_package" /\ node \in Nodes /\ state \in States
      /\ world' = world
      /\ state' = s /\ node' = "remember_outcome" /\ UNCHANGED settings
  BY <1>1 DEF GenerateFinalPackage, Nodes, TypeOK, GoTo
<1>3. r.status = "completed"
  OBVIOUS
<1>4. /\ l \in States
      /\ Entered(state, l, node)
      /\ Verdict(l) = Verdict(state) /\ Tools(l) = Tools(state)
      /\ Made(l) = Made(state) /\ l.build_timeline = state.build_timeline
  BY <1>2, LoggedEffect DEF StepStatuses
<1> HIDE DEF l, r
<1>5. /\ a \in States
      /\ a.agent_steps = l.agent_steps
      /\ Verdict(a) = Verdict(l) /\ Tools(a) = Tools(l) /\ Made(a) = Made(l)
      /\ a.build_timeline = Stamped(l.build_timeline, PackagePhases, "completed")
  BY <1>4, PhasedEffect DEF PhaseStatuses
<1> HIDE DEF a
<1>6. Verdict(s) = Verdict(a) /\ Tools(s) = Tools(a)
  BY <1>5 DEF States, Verdict, Tools
<1>7. /\ s.agent_steps = a.agent_steps
      /\ s.build_timeline = a.build_timeline
      /\ s.final_report = r
      /\ s.generated_artifacts = Append(a.generated_artifacts, "final")
  BY <1>5 DEF States
<1> HIDE DEF s
<1>8. a.generated_artifacts = state.generated_artifacts
  BY <1>4, <1>5 DEF Made
<1>9. a.generated_artifacts \in Seq(Origins)
  BY <1>5 DEF States
<1>10. s.generated_artifacts = state.generated_artifacts \o <<"final">>
  <2> DEFINE q == a.generated_artifacts
  <2>1. \A x : q \in Seq(Origins) => Append(q, x) = q \o <<x>>
    OBVIOUS
  <2> HIDE DEF q
  <2> QED BY <1>7, <1>8, <1>9, <2>1 DEF q
<1>11. Moves("generate_final_package", "remember_outcome")
  BY <1>2, <1>4, <1>5, <1>7 DEF Moves, Entered
<1>12. Generates(<<"final">>)
  BY <1>2, <1>4, <1>5, <1>6, <1>10 DEF Generates
<1> QED BY <1>2, <1>3, <1>4, <1>5, <1>7, <1>11, <1>12 DEF Stamps

LEMMA RememberEffect ==
    ASSUME TypeOK, RememberOutcome
    PROVE  /\ Moves("remember_outcome", "report_result")
           /\ SameParts
           /\ Tools(state') = Tools(state)
           /\ state'.build_timeline = state.build_timeline
           /\ \E rows \in 0..1 : world' = [world EXCEPT !.memories = @ + rows]
<1>1. /\ node = "remember_outcome" /\ node \in Nodes /\ state \in States
      /\ state' = Logged(state, node, "completed")
      /\ node' = "report_result" /\ UNCHANGED settings
      /\ \E rows \in 0..1 : world' = [world EXCEPT !.memories = @ + rows]
  BY DEF RememberOutcome, GoTo, Nodes, TypeOK
<1>2. /\ Entered(state, state', node)
      /\ SameParts /\ Tools(state') = Tools(state)
      /\ state'.build_timeline = state.build_timeline
  BY <1>1, LoggedEffect DEF StepStatuses, SameParts
<1> QED BY <1>1, <1>2 DEF Moves

LEMMA ReportEffect ==
    ASSUME TypeOK, ReportResult
    PROVE  /\ Moves("report_result", "END")
           /\ Verdict(state') = <<"completed", state.failure_reason,
                                  state.blocker_recovered>>
           /\ Tools(state') = Tools(state)
           /\ Made(state') = Made(state)
           /\ state'.build_timeline = state.build_timeline
           /\ state'.mvp_validation = state.mvp_validation
           /\ world' = world
<1> DEFINE l == Logged(state, node, "completed")
           s == [l EXCEPT !.status = "completed"]
<1>1. /\ node = "report_result" /\ node \in Nodes /\ state \in States
      /\ world' = world
      /\ state' = s /\ node' = "END" /\ UNCHANGED settings
  BY DEF ReportResult, Nodes, TypeOK, GoTo
<1>2. l.mvp_validation = state.mvp_validation
  BY <1>1 DEF Logged, States
<1>3. /\ l \in States
      /\ Entered(state, l, node)
      /\ Verdict(l) = Verdict(state) /\ Tools(l) = Tools(state)
      /\ Made(l) = Made(state) /\ l.build_timeline = state.build_timeline
  BY <1>1, LoggedEffect DEF StepStatuses
<1> HIDE DEF l
<1>4. /\ s.status = "completed" /\ s.failure_reason = l.failure_reason
      /\ s.blocker_recovered = l.blocker_recovered
      /\ s.mvp_validation = l.mvp_validation
      /\ s.agent_steps = l.agent_steps
      /\ s.build_timeline = l.build_timeline
  BY <1>3 DEF States
<1>5. Tools(s) = Tools(l) /\ Made(s) = Made(l)
  BY <1>3 DEF States, Tools, Made
<1> HIDE DEF s
<1>6. /\ l.failure_reason = state.failure_reason
      /\ l.blocker_recovered = state.blocker_recovered
  BY <1>3, SameVerdict
<1>7. Verdict(state') = <<"completed", state.failure_reason, state.blocker_recovered>>
  BY <1>1, <1>4, <1>6 DEF Verdict
<1>8. Moves("report_result", "END")
  BY <1>1, <1>3, <1>4 DEF Moves, Entered
<1> QED BY <1>1, <1>2, <1>3, <1>4, <1>5, <1>7, <1>8

LEMMA FailedEffect ==
    ASSUME TypeOK, Failed
    PROVE  /\ Moves("failed", "END")
           /\ Verdict(state') = <<"failed", state.failure_reason,
                                  state.blocker_recovered>>
           /\ Tools(state') = Tools(state)
           /\ state'.generated_artifacts = state.generated_artifacts
           /\ state'.final_report.status = "failed"
           /\ state'.final_report.summary = state.failure_reason
           /\ world' = world
<1> DEFINE l == Logged(state, node, "failed")
           r == [status  |-> "failed",
                 mode    |-> IF settings.mock_mode THEN "mock" ELSE "live",
                 summary |-> state.failure_reason,
                 artifact_count |-> 0]
           s == [l EXCEPT !.status = "failed", !.final_report = r]
<1>1. /\ node = "failed" /\ node \in Nodes /\ state \in States
      /\ world' = world
      /\ state' = s /\ node' = "END" /\ UNCHANGED settings
  BY DEF Failed, Nodes, TypeOK, GoTo
<1>2. r.status = "failed" /\ r.summary = state.failure_reason
  OBVIOUS
<1>3. /\ l \in States
      /\ Entered(state, l, node)
      /\ Verdict(l) = Verdict(state) /\ Tools(l) = Tools(state)
      /\ Made(l) = Made(state) /\ l.build_timeline = state.build_timeline
  BY <1>1, LoggedEffect DEF StepStatuses
<1> HIDE DEF l, r
<1>4. /\ s.status = "failed" /\ s.failure_reason = l.failure_reason
      /\ s.blocker_recovered = l.blocker_recovered
      /\ s.agent_steps = l.agent_steps
      /\ s.generated_artifacts = l.generated_artifacts
      /\ s.final_report = r
  BY <1>3 DEF States
<1>5. Tools(s) = Tools(l)
  BY <1>3 DEF States, Tools
<1> HIDE DEF s
<1>6. /\ l.failure_reason = state.failure_reason
      /\ l.blocker_recovered = state.blocker_recovered
      /\ l.generated_artifacts = state.generated_artifacts
  BY <1>3, SameVerdict DEF Made
<1>7. Verdict(state') = <<"failed", state.failure_reason, state.blocker_recovered>>
  BY <1>1, <1>4, <1>6 DEF Verdict
<1>8. Moves("failed", "END")
  BY <1>1, <1>3, <1>4 DEF Moves, Entered
<1> QED BY <1>1, <1>2, <1>3, <1>4, <1>5, <1>6, <1>7, <1>8

-----------------------------------------------------------------------------
(* The control of a run: where a step goes and what it says of the run.      *)

\* The place of a node on the way from the idea to the report.
Position(n) ==
    CASE n = "receive_idea"           -> 0
      [] n = "exchange_github_code"   -> 1
      [] n = "retrieve_context"       -> 2
      [] n = "scope_mvp"              -> 3
      [] n = "recommend_stack"        -> 4
      [] n = "plan_repo"              -> 5
      [] n = "create_repo"            -> 6
      [] n = "generate_files"         -> 7
      [] n = "validate_mvp"           -> 8
      [] n = "debug_generated_files"  -> 9
      [] n = "commit_progress"        -> 10
      [] n = "verify_build"           -> 11
      [] n \in {"handle_blocker", "generate_final_package"} -> 12
      [] n = "remember_outcome"       -> 13
      [] n = "report_result"          -> 14
      [] OTHER                        -> 15

OnTheWay == Nodes \ {"failed"}

\* To the next node, with nothing to say.
Continues ==
    /\ node # "handle_blocker" /\ node' # "handle_blocker"
    /\ node \in OnTheWay /\ node' \in OnTheWay
    /\ Position(node') = Position(node) + 1
    /\ Moves(node, node')
    /\ Verdict(state') = Verdict(state)
    /\ node = "verify_build" /\ settings.mock_mode => state.blocker_recovered

Blocks ==
    /\ Moves("verify_build", "handle_blocker")
    /\ settings.mock_mode /\ ~state.blocker_recovered
    /\ Verdict(state') = <<state.status, "verify_build", state.blocker_recovered>>

Recovers ==
    /\ Moves("handle_blocker", "verify_build")
    /\ Verdict(state') = <<state.status, state.failure_reason, TRUE>>

Refusing == {"exchange_github_code", "create_repo", "validate_mvp", "commit_progress"}

\* A refusal turns the state failed; a failed verification leaves that to the
\* failed node.
Stops ==
    \/ \E n \in Refusing : Refuses(n)
    \/ /\ Moves("verify_build", "failed")
       /\ ~settings.mock_mode
       /\ Verdict(state') = <<state.status, "verify_build", state.blocker_recovered>>

Delivers == /\ Moves("report_result", "END")
            /\ Verdict(state') = <<"completed", state.failure_reason,
                                   state.blocker_recovered>>
            /\ state'.final_report = state.final_report

GivesUp == /\ Moves("failed", "END")
           /\ Verdict(state') = <<"failed", state.failure_reason,
                                  state.blocker_recovered>>
           /\ Tools(state') = Tools(state)
           /\ world' = world
           /\ state'.final_report.status = "failed"
           /\ state'.final_report.summary = state.failure_reason

Raises == /\ node \in OnTheWay \ {"report_result"}
          /\ node' = "raised"
          /\ UNCHANGED <<settings, state, world>>

Control == Continues \/ Blocks \/ Recovers \/ Stops \/ Delivers \/ GivesUp \/ Raises

LEMMA AdvancesContinue ==
    ASSUME NEW n, NEW m, NEW ps, Advances(n, m, ps),
           n \in OnTheWay \ {"handle_blocker", "verify_build"},
           m \in OnTheWay \ {"handle_blocker"}, Position(m) = Position(n) + 1
    PROVE  Continues
BY DEF Advances, Moves, Continues, SameParts

LEMMA Positions ==
    /\ Position("receive_idea") = 0
    /\ Position("exchange_github_code") = 1
    /\ Position("retrieve_context") = 2
    /\ Position("scope_mvp") = 3
    /\ Position("recommend_stack") = 4
    /\ Position("plan_repo") = 5
    /\ Position("create_repo") = 6
    /\ Position("generate_files") = 7
    /\ Position("validate_mvp") = 8
    /\ Position("debug_generated_files") = 9
    /\ Position("commit_progress") = 10
    /\ Position("verify_build") = 11
    /\ Position("handle_blocker") = 12
    /\ Position("generate_final_package") = 12
    /\ Position("remember_outcome") = 13
    /\ Position("report_result") = 14
BY DEF Position

\* Every step of the graph is one of these.
LEMMA NextControl ==
    ASSUME TypeOK, Alive, Next
    PROVE  Control
<1>1. CASE ReceiveIdea
  BY <1>1, ReceiveIdeaEffect, AdvancesContinue, Positions DEF OnTheWay, Nodes, Control
<1>2. CASE ExchangeGithubCode
  <2>1. CASE Refuses("exchange_github_code")
    BY <2>1 DEF Control, Stops, Refusing
  <2>2. CASE Moves("exchange_github_code", "retrieve_context") /\ SameParts
    BY <2>2, Positions DEF Control, Continues, Moves, SameParts, OnTheWay, Nodes
  <2> QED BY <1>2, <2>1, <2>2, ExchangeEffect
<1>3. CASE RetrieveContext
  BY <1>3, RetrieveContextEffect, AdvancesContinue, Positions DEF OnTheWay, Nodes, Control
<1>4. CASE ScopeMvp
  BY <1>4, PlansEffect, AdvancesContinue, Positions DEF OnTheWay, Nodes, Control
<1>5. CASE RecommendStack
  BY <1>5, PlansEffect, AdvancesContinue, Positions DEF OnTheWay, Nodes, Control
<1>6. CASE PlanRepo
  BY <1>6, PlansEffect, AdvancesContinue, Positions DEF OnTheWay, Nodes, Control
<1>7. CASE CreateRepo
  <2>1. CASE Refuses("create_repo")
    BY <2>1 DEF Control, Stops, Refusing
  <2>2. CASE Moves("create_repo", "generate_files") /\ SameParts
    BY <2>2, Positions DEF Control, Continues, Moves, SameParts, OnTheWay, Nodes
  <2> QED BY <1>7, <2>1, <2>2, CreateRepoEffect
<1>8. CASE GenerateFiles
  BY <1>8, GenerateEffect, Positions
     DEF Control, Continues, Moves, Generates, OnTheWay, Nodes
<1>9. CASE ValidateMvp
  <2>1. CASE Refuses("validate_mvp")
    BY <2>1 DEF Control, Stops, Refusing
  <2>2. CASE Advances("validate_mvp", "debug_generated_files", {"testing_strategy"})
    BY <2>2, AdvancesContinue, Positions DEF OnTheWay, Nodes, Control
  <2> QED BY <1>9, <2>1, <2>2, ValidateEffect
<1>10. CASE DebugGeneratedFiles
  BY <1>10, DebugEffect, Positions DEF Control, Continues, Moves, OnTheWay, Nodes
<1>11. CASE CommitProgress
  <2>1. CASE Refuses("commit_progress")
    BY <2>1 DEF Control, Stops, Refusing
  <2>2. CASE Moves("commit_progress", "verify_build") /\ SameParts
    BY <2>2, Positions DEF Control, Continues, Moves, SameParts, OnTheWay, Nodes
  <2> QED BY <1>11, <2>1, <2>2, CommitEffect
<1>12. CASE VerifyBuild
  <2>1. CASE /\ Moves("verify_build", "generate_final_package")
             /\ Verdict(state') = Verdict(state)
             /\ settings.mock_mode => state.blocker_recovered
    BY <2>1, Positions DEF Control, Continues, Moves, OnTheWay, Nodes
  <2>2. CASE Blocks
    BY <2>2 DEF Control
  <2>3. CASE /\ Moves("verify_build", "failed")
             /\ ~settings.mock_mode
             /\ Verdict(state') = <<state.status, "verify_build", state.blocker_recovered>>
    BY <2>3 DEF Control, Stops
  <2> QED BY <1>12, <2>1, <2>2, <2>3, VerifyEffect DEF Blocks
<1>13. CASE HandleBlocker
  BY <1>13, BlockerEffect DEF Control, Recovers
<1>14. CASE GenerateFinalPackage
  BY <1>14, PackageEffect, Positions
     DEF Control, Continues, Moves, Generates, OnTheWay, Nodes
<1>15. CASE RememberOutcome
  BY <1>15, RememberEffect, Positions
     DEF Control, Continues, Moves, SameParts, OnTheWay, Nodes
<1>16. CASE ReportResult
  BY <1>16, ReportEffect DEF Control, Delivers, Made
<1>17. CASE Failed
  BY <1>17, FailedEffect DEF Control, GivesUp
<1>18. CASE Raise
  <2>1. node \in OnTheWay \ {"report_result"}
    BY <1>18 DEF Raise, CanRaise, PurposesOf, OnTheWay, Nodes, TypeOK
  <2> QED BY <1>18, <2>1 DEF Raise, Control, Raises
<1> QED BY <1>1, <1>2, <1>3, <1>4, <1>5, <1>6, <1>7, <1>8, <1>9, <1>10, <1>11, <1>12,
           <1>13, <1>14, <1>15, <1>16, <1>17, <1>18 DEF Next

\* Only a test run recovers, and what was recovered is past the commit.
Recovering ==
    /\ state.blocker_recovered =>
          /\ settings.mock_mode
          /\ node \in {"verify_build", "generate_final_package", "remember_outcome",
                       "report_result", "END", "raised"}
    /\ node = "handle_blocker" => settings.mock_mode /\ ~state.blocker_recovered

\* How many steps a run has logged when it comes to a node.
Traced ==
    /\ node \in OnTheWay =>
          Len(state.agent_steps) =
              Position(node) + (IF state.blocker_recovered THEN 2 ELSE 0)
    /\ node = "failed" => Len(state.agent_steps) \in 1..14
    /\ Len(state.agent_steps) <= LongestRun

LastNode(s) == s.agent_steps[Len(s.agent_steps)].node

\* A verdict is given once, at the end, and a failure names the last node.
Concluded ==
    /\ state.status = "completed" => node = "END"
    /\ state.status = "failed" => node \in {"failed", "END"}
    /\ node = "END" => state.status # "started"
    /\ node = "failed" => LastNode(state) = state.failure_reason
    /\ FailureIsExplained

ControlInv == Alive /\ Recovering /\ Traced /\ Concluded

LEMMA PositionType ==
    ASSUME NEW n \in OnTheWay
    PROVE  Position(n) \in 0..14
BY Positions DEF OnTheWay, Nodes

LEMMA MovesTrace ==
    ASSUME TypeOK, NEW n \in Nodes, NEW m, Moves(n, m)
    PROVE  /\ Len(state.agent_steps) \in Nat
           /\ Len(state'.agent_steps) = Len(state.agent_steps) + 1
           /\ LastNode(state') = n
           /\ \A i \in 1..Len(state.agent_steps) :
                 state'.agent_steps[i] = state.agent_steps[i]
<1> DEFINE q == state.agent_steps
<1>1. q \in Seq(Steps)
  BY DEF TypeOK, States
<1>2. PICK st \in StepStatuses : state'.agent_steps = Append(q, [node |-> n, status |-> st])
  BY DEF Moves, Entered
<1> DEFINE e == [node |-> n, status |-> st]
<1>3. e \in Steps /\ e.node = n
  BY DEF Steps
<1> HIDE DEF q, e
<1>4. /\ Len(q) \in Nat
      /\ Len(Append(q, e)) = Len(q) + 1
      /\ Append(q, e)[Len(q) + 1] = e
      /\ \A i \in 1..Len(q) : Append(q, e)[i] = q[i]
  BY <1>1, <1>3
<1> QED BY <1>2, <1>3, <1>4 DEF LastNode, q, e

LEMMA OneMore ==
    \A k \in Nat, p \in 0..14, c \in {0, 2} : k = p + c => k + 1 = (p + 1) + c
OBVIOUS

LEMMA UpTo17 ==
    \A k : /\ k \in 1..14 => k \in 1..17 /\ k + 1 \in 1..17
           /\ k \in 1..17 => k <= LongestRun /\ k \in 1..k
BY DEF LongestRun

LEMMA TracedOff ==
    ASSUME node' \notin OnTheWay, Len(state'.agent_steps) <= LongestRun,
           node' = "failed" => Len(state'.agent_steps) \in 1..14
    PROVE  Traced'
BY Zenon DEF Traced

LEMMA ControlSteps ==
    ASSUME TypeOK, ControlInv, Control
    PROVE  ControlInv'
<1> USE DEF ControlInv
<1>1. CASE Continues
  <2>1. /\ state'.status = "started" /\ node \in OnTheWay /\ node' \in OnTheWay
        /\ state'.blocker_recovered = state.blocker_recovered
        /\ settings' = settings /\ state.status = "started"
    BY <1>1, SameVerdict DEF Continues, Alive, OnTheWay, Moves
  <2>2. Alive' /\ Concluded'
    BY <2>1 DEF Alive, Concluded, FailureIsExplained, OnTheWay, Nodes
  <2>3. Recovering'
    <3>1. state.blocker_recovered =>
             node \in {"verify_build", "generate_final_package", "remember_outcome",
                       "report_result"}
      BY <2>1 DEF Recovering, OnTheWay, Nodes
    <3>2. state.blocker_recovered =>
             node' \in {"generate_final_package", "remember_outcome", "report_result"}
      BY <1>1, <2>1, <3>1, Positions DEF Continues, OnTheWay, Nodes
    <3> QED BY <1>1, <2>1, <3>2 DEF Recovering, Continues
  <2>4. /\ Len(state.agent_steps) \in Nat
        /\ Len(state'.agent_steps) = Len(state.agent_steps) + 1
    BY <1>1, <2>1, MovesTrace DEF Continues, OnTheWay
  <2>5. Len(state'.agent_steps) =
           Position(node') + (IF state'.blocker_recovered THEN 2 ELSE 0)
    <3>1. /\ Position(node) \in 0..14
          /\ Position(node') = Position(node) + 1
      BY <1>1, <2>1, PositionType DEF Continues
    <3>2. CASE state.blocker_recovered
      <4>1. Len(state.agent_steps) = Position(node) + 2
        BY <2>1, <3>2, Zenon DEF Traced
      <4>2. Len(state'.agent_steps) = Position(node') + 2
        BY <2>4, <3>1, <4>1, OneMore
      <4> QED BY <2>1, <3>2, <4>2, Zenon
    <3>3. CASE ~state.blocker_recovered
      <4>1. Len(state.agent_steps) = Position(node) + 0
        BY <2>1, <3>3, Zenon DEF Traced
      <4>2. Len(state'.agent_steps) = Position(node') + 0
        BY <2>4, <3>1, <4>1, OneMore
      <4> QED BY <2>1, <3>3, <4>2, Zenon
    <3> QED BY <3>2, <3>3
  <2>6. Position(node') \in 0..14
    BY <2>1, PositionType
  <2>7. Traced'
    BY <2>1, <2>5, <2>6 DEF Traced, LongestRun, OnTheWay
  <2> QED BY <2>2, <2>3, <2>7
<1>2. CASE Blocks
  <2>1. /\ state'.status = state.status /\ state.status = "started"
        /\ state'.blocker_recovered = FALSE /\ state.blocker_recovered = FALSE
        /\ settings' = settings /\ node' = "handle_blocker" /\ node = "verify_build"
        /\ settings.mock_mode
    BY <1>2 DEF Blocks, Verdict, Moves, Alive, OnTheWay, Nodes, TypeOK, States
  <2>2. Alive' /\ Concluded' /\ Recovering'
    BY <2>1 DEF Alive, Concluded, FailureIsExplained, Recovering, OnTheWay
  <2>3. /\ Len(state.agent_steps) \in Nat
        /\ Len(state'.agent_steps) = Len(state.agent_steps) + 1
    BY <1>2, <2>1, MovesTrace DEF Blocks, Nodes
  <2>4. Len(state'.agent_steps) = 12
    BY <2>1, <2>3, Positions DEF Traced, OnTheWay, Nodes
  <2>5. Traced'
    BY <2>1, <2>4, Positions DEF Traced, LongestRun
  <2> QED BY <2>2, <2>5
<1>3. CASE Recovers
  <2>1. /\ state'.status = state.status /\ state.status = "started"
        /\ state'.blocker_recovered = TRUE /\ ~state.blocker_recovered
        /\ settings' = settings /\ node' = "verify_build" /\ node = "handle_blocker"
        /\ settings.mock_mode
    BY <1>3 DEF Recovers, Verdict, Moves, Alive, Recovering, OnTheWay, Nodes
  <2>2. Alive' /\ Concluded' /\ Recovering'
    BY <2>1 DEF Alive, Concluded, FailureIsExplained, Recovering, OnTheWay
  <2>3. /\ Len(state.agent_steps) \in Nat
        /\ Len(state'.agent_steps) = Len(state.agent_steps) + 1
    BY <1>3, <2>1, MovesTrace DEF Recovers, Nodes
  <2>4. Len(state'.agent_steps) = 13
    BY <2>1, <2>3, Positions DEF Traced, OnTheWay, Nodes
  <2>5. Traced'
    BY <2>1, <2>4, Positions DEF Traced, LongestRun
  <2> QED BY <2>2, <2>5
<1>4. CASE Stops
  <2>1. PICK n \in Refusing \cup {"verify_build"} :
           /\ Moves(n, "failed")
           /\ state'.failure_reason = n
           /\ state'.blocker_recovered = state.blocker_recovered
           /\ state'.status \in {"failed", state.status}
           /\ n = "verify_build" => ~settings.mock_mode
    BY <1>4 DEF Stops, Refuses, Verdict, Refusing
  <2>2. /\ node = n /\ node' = "failed" /\ n \in OnTheWay /\ state.status = "started"
        /\ settings' = settings
    BY <2>1 DEF Moves, Refusing, OnTheWay, Nodes, Alive
  <2>3. ~state.blocker_recovered
    BY <2>1, <2>2 DEF Recovering, Refusing
  <2>4. /\ Len(state.agent_steps) \in Nat
        /\ Len(state'.agent_steps) = Len(state.agent_steps) + 1
        /\ LastNode(state') = n
    BY <2>1, <2>2, MovesTrace DEF OnTheWay
  <2>5. Len(state'.agent_steps) \in 1..14
    <3>1. Position(n) \in 0..11
      BY <2>1, Positions DEF Refusing
    <3>2. Len(state.agent_steps) = Position(n) + 0
      BY <2>2, <2>3, Zenon DEF Traced
    <3>3. \A k \in Nat, p \in 0..11 : k = p + 0 => k + 1 \in 1..14
      OBVIOUS
    <3> QED BY <2>4, <3>1, <3>2, <3>3
  <2>6. Traced'
    BY <2>2, <2>5, UpTo17, TracedOff DEF OnTheWay
  <2>7. Alive' /\ Concluded' /\ Recovering'
    BY <2>1, <2>2, <2>3, <2>4 DEF Alive, Concluded, FailureIsExplained, Recovering, OnTheWay
  <2> QED BY <2>6, <2>7
<1>5. CASE Delivers
  <2>1. /\ state'.status = "completed" /\ node' = "END" /\ node = "report_result"
        /\ state'.blocker_recovered = state.blocker_recovered
        /\ settings' = settings
    BY <1>5 DEF Delivers, Verdict, Moves
  <2>2. /\ Len(state.agent_steps) \in Nat
        /\ Len(state'.agent_steps) = Len(state.agent_steps) + 1
    BY <1>5, <2>1, MovesTrace DEF Delivers, Nodes
  <2>3. Len(state'.agent_steps) \in 1..17
    <3>1. Position("report_result") = 14 /\ "report_result" \in OnTheWay
      BY Positions DEF OnTheWay, Nodes
    <3>2. Len(state.agent_steps) = Position("report_result")
                                     + (IF state.blocker_recovered THEN 2 ELSE 0)
      BY <2>1, <3>1, Zenon DEF Traced
    <3>3. Len(state.agent_steps) \in {14 + 2, 14 + 0}
      BY <3>1, <3>2
    <3>4. \A k \in {14 + 2, 14 + 0} : k + 1 \in 1..17
      OBVIOUS
    <3> QED BY <2>2, <3>3, <3>4
  <2>4. Traced'
    BY <2>1, <2>3, UpTo17, TracedOff DEF OnTheWay, Nodes
  <2>5. Alive' /\ Concluded' /\ Recovering'
    BY <2>1 DEF Alive, Concluded, FailureIsExplained, Recovering, OnTheWay, Nodes
  <2> QED BY <2>4, <2>5
<1>6. CASE GivesUp
  <2>1. /\ state'.status = "failed" /\ node' = "END" /\ node = "failed"
        /\ state'.blocker_recovered = state.blocker_recovered
        /\ settings' = settings
    BY <1>6 DEF GivesUp, Verdict, Moves
  <2>2. /\ Len(state.agent_steps) \in Nat
        /\ Len(state'.agent_steps) = Len(state.agent_steps) + 1
        /\ LastNode(state') = "failed"
        /\ \A i \in 1..Len(state.agent_steps) :
              state'.agent_steps[i] = state.agent_steps[i]
    BY <1>6, <2>1, MovesTrace DEF GivesUp, Nodes
  <2>3. Len(state.agent_steps) \in 1..14
    BY <2>1 DEF Traced
  <2>4. Traced'
    <3>1. Len(state'.agent_steps) \in 1..17
      BY <2>2, <2>3, UpTo17
    <3> QED BY <2>1, <3>1, UpTo17, TracedOff DEF OnTheWay, Nodes
  <2>5. state'.agent_steps[Len(state'.agent_steps) - 1].node = state.failure_reason
    <3>1. state.agent_steps[Len(state.agent_steps)].node = state.failure_reason
      BY <2>1 DEF Concluded, LastNode
    <3>2. Len(state'.agent_steps) - 1 = Len(state.agent_steps)
      BY <2>2
    <3>3. Len(state.agent_steps) \in 1..Len(state.agent_steps)
      BY <2>3, UpTo17
    <3> QED BY <2>2, <3>1, <3>2, <3>3
  <2>6. FailureIsExplained'
    BY <1>6, <2>1, <2>2, <2>5 DEF FailureIsExplained, GivesUp, LastNode
  <2>7. Alive' /\ Concluded' /\ Recovering'
    BY <2>1, <2>6 DEF Alive, Concluded, Recovering, OnTheWay, Nodes
  <2> QED BY <2>4, <2>7
<1>7. CASE Raises
  BY <1>7 DEF Raises, Alive, Concluded, FailureIsExplained, Recovering, Traced,
              OnTheWay, Nodes, LastNode
<1> QED BY <1>1, <1>2, <1>3, <1>4, <1>5, <1>6, <1>7 DEF Control

LEMMA InitControl == Init => ControlInv
<1> SUFFICES ASSUME Init PROVE ControlInv
  OBVIOUS
<1>1. node = "receive_idea" /\ state.status = "started"
      /\ state.blocker_recovered = FALSE /\ Len(state.agent_steps) = 0
  BY DEF Init, InitialState
<1> QED BY <1>1, Positions DEF ControlInv, Alive, Recovering, Traced, Concluded,
        FailureIsExplained, OnTheWay, Nodes, LongestRun

LEMMA NextControlInv == TypeOK /\ ControlInv /\ [Next]_vars => ControlInv'
<1> SUFFICES ASSUME TypeOK, ControlInv, [Next]_vars PROVE ControlInv'
  OBVIOUS
<1>1. CASE Next
  BY <1>1, NextControl, ControlSteps DEF ControlInv
<1>2. CASE UNCHANGED vars
  BY <1>2 DEF vars, ControlInv, Alive, Concluded, FailureIsExplained, Recovering,
              Traced, LastNode
<1> QED BY <1>1, <1>2

-----------------------------------------------------------------------------
(* What a step leaves outside the process, and its call on record.           *)

\* The step calls no tool and writes nothing to GitHub.
Inward ==
    /\ Tools(state') = Tools(state)
    /\ world'.repos = world.repos
    /\ world'.commits = world.commits

\* It calls one, and what it writes is of that call.
Outward == \E call \in Calls :
    /\ CallsTool(call)
    /\ call.tool = "github.commit_files" => node = "commit_progress"
    /\ \/ world'.repos = world.repos /\ world'.commits = world.commits
       \/ /\ call.tool = "github.create_repo"
          /\ world'.repos = world.repos + 1 /\ world'.commits = world.commits
       \/ /\ call.tool = "github.commit_files"
          /\ world'.repos = world.repos
          /\ world'.commits \in {world.commits + 1, world.commits + 2}

LEMMA NextTools ==
    ASSUME TypeOK, Alive, Next
    PROVE  Inward \/ Outward
<1> USE DEF Inward
<1>1. CASE ReceiveIdea
  BY <1>1, ReceiveIdeaEffect DEF Advances
<1>2. CASE ExchangeGithubCode
  BY <1>2, ExchangeEffect
<1>3. CASE RetrieveContext
  BY <1>3, RetrieveContextEffect DEF Advances
<1>4. CASE ScopeMvp \/ RecommendStack \/ PlanRepo
  BY <1>4, PlansEffect DEF Advances
<1>5. CASE CreateRepo
  <2>1. PICK call \in Calls, made \in 0..1 :
           /\ call.tool \in {"github.create_repo", "github.use_existing_repo"}
           /\ made = 1 => call.tool = "github.create_repo"
           /\ CallsTool(call)
           /\ world' = [world EXCEPT !.repos = @ + made]
    BY <1>5, CreateRepoEffect
  <2>2. /\ world'.repos = world.repos + made
        /\ world'.commits = world.commits
        /\ world.repos \in Nat
    BY <2>1 DEF TypeOK, Worlds
  <2>3. call.tool # "github.commit_files"
    BY <2>1
  <2>4. CASE made = 0
    BY <2>1, <2>2, <2>3, <2>4 DEF Outward
  <2>5. CASE made = 1
    BY <2>1, <2>2, <2>3, <2>5 DEF Outward
  <2> QED BY <2>4, <2>5
<1>6. CASE GenerateFiles
  BY <1>6, GenerateEffect DEF Generates
<1>7. CASE ValidateMvp
  BY <1>7, ValidateEffect
<1>8. CASE DebugGeneratedFiles
  BY <1>8, DebugEffect
<1>9. CASE CommitProgress
  <2>1. PICK call \in Calls, made \in 0..MaxCommitsPerCall :
           /\ call.tool = "github.commit_files"
           /\ CallsTool(call)
           /\ world' = [world EXCEPT !.commits = @ + made, !.committed = world'.committed]
    BY <1>9, CommitEffect
  <2>2. /\ world'.repos = world.repos
        /\ world'.commits = world.commits + made
        /\ world.commits \in Nat
    BY <2>1 DEF TypeOK, Worlds
  <2>3. node = "commit_progress"
    BY <1>9 DEF CommitProgress
  <2>4. made \in {0, 1, 2}
    BY DEF MaxCommitsPerCall
  <2> QED BY <2>1, <2>2, <2>3, <2>4 DEF Outward
<1>10. CASE VerifyBuild
  <2>1. \E call \in Calls : call.tool = "build.verify" /\ CallsTool(call)
    BY <1>10, VerifyEffect
  <2> QED BY <1>10, <2>1, VerifyEffect DEF Outward
<1>11. CASE HandleBlocker
  <2>1. RecoveryCall \in Calls /\ RecoveryCall.tool # "github.commit_files"
    BY DEF RecoveryCall, Calls
  <2> QED BY <1>11, <2>1, BlockerEffect DEF Outward
<1>12. CASE GenerateFinalPackage
  BY <1>12, PackageEffect DEF Generates
<1>13. CASE RememberOutcome
  <2>1. PICK rows \in 0..1 : world' = [world EXCEPT !.memories = @ + rows]
    BY <1>13, RememberEffect
  <2>2. world'.repos = world.repos /\ world'.commits = world.commits
    BY <2>1 DEF TypeOK, Worlds
  <2> QED BY <1>13, <2>2, RememberEffect
<1>14. CASE ReportResult
  BY <1>14, ReportEffect
<1>15. CASE Failed
  BY <1>15, FailedEffect
<1>16. CASE Raise
  BY <1>16 DEF Raise
<1> QED BY <1>1, <1>2, <1>3, <1>4, <1>5, <1>6, <1>7, <1>8, <1>9, <1>10, <1>11, <1>12,
           <1>13, <1>14, <1>15, <1>16 DEF Next

BeforeCommit == {"receive_idea", "exchange_github_code", "retrieve_context",
                 "scope_mvp", "recommend_stack", "plan_repo", "create_repo",
                 "generate_files", "validate_mvp", "debug_generated_files",
                 "commit_progress"}

CommitsOnce ==
    /\ node \in BeforeCommit => CommitCalls(state) = {}
    /\ \A i, j \in CommitCalls(state) : i = j

Recalls(s, tool) == \E i \in 1..Len(s.tool_calls) : s.tool_calls[i].tool = tool

\* What was written outside has its call in the state.
Recorded ==
    /\ world.repos > 0   => Recalls(state, "github.create_repo")
    /\ world.commits > 0 => Recalls(state, "github.commit_files")

LEMMA CallsToolTrace ==
    ASSUME TypeOK, NEW call, CallsTool(call)
    PROVE  /\ Len(state.tool_calls) \in Nat
           /\ Len(state'.tool_calls) = Len(state.tool_calls) + 1
           /\ state'.tool_calls[Len(state.tool_calls) + 1] = call
           /\ \A i \in 1..Len(state.tool_calls) :
                 state'.tool_calls[i] = state.tool_calls[i]
<1> DEFINE q == state.tool_calls
<1>1. q \in Seq(Calls) /\ call \in Calls
  BY DEF TypeOK, States, CallsTool
<1>2. state'.tool_calls = Append(q, call)
  BY DEF CallsTool, Tools
<1> HIDE DEF q
<1>3. /\ Len(q) \in Nat
      /\ Len(Append(q, call)) = Len(q) + 1
      /\ Append(q, call)[Len(q) + 1] = call
      /\ \A i \in 1..Len(q) : Append(q, call)[i] = q[i]
  BY <1>1
<1> QED BY <1>2, <1>3 DEF q

LEMMA RecallsGrow ==
    ASSUME TypeOK, NEW call, CallsTool(call)
    PROVE  /\ \A tool : Recalls(state, tool) => Recalls(state', tool)
           /\ Recalls(state', call.tool)
<1>1. /\ Len(state.tool_calls) \in Nat
      /\ Len(state'.tool_calls) = Len(state.tool_calls) + 1
      /\ state'.tool_calls[Len(state.tool_calls) + 1] = call
      /\ \A i \in 1..Len(state.tool_calls) :
            state'.tool_calls[i] = state.tool_calls[i]
  BY CallsToolTrace
<1> DEFINE k == Len(state.tool_calls)
<1>2. /\ \A i \in 1..k : i \in 1..Len(state'.tool_calls)
      /\ k + 1 \in 1..Len(state'.tool_calls)
  <2> HIDE DEF k
  <2>1. k \in Nat /\ Len(state'.tool_calls) = k + 1
    BY <1>1 DEF k
  <2>2. \A n \in Nat : (\A i \in 1..n : i \in 1..(n + 1)) /\ n + 1 \in 1..(n + 1)
    OBVIOUS
  <2> QED BY <2>1, <2>2
<1>3. ASSUME NEW tool, Recalls(state, tool) PROVE Recalls(state', tool)
  BY <1>1, <1>2, <1>3 DEF Recalls
<1>4. Recalls(state', call.tool)
  BY <1>1, <1>2 DEF Recalls
<1> QED BY <1>3, <1>4

LEMMA RecordedStep ==
    ASSUME TypeOK, Recorded, Inward \/ Outward
    PROVE  Recorded'
<1>1. CASE Inward
  <2>1. state'.tool_calls = state.tool_calls
    BY <1>1 DEF Inward, Tools
  <2> QED BY <1>1, <2>1 DEF Inward, Recorded, Recalls
<1>2. CASE Outward
  <2>1. PICK call \in Calls :
          /\ CallsTool(call)
          /\ \/ world'.repos = world.repos /\ world'.commits = world.commits
             \/ /\ call.tool = "github.create_repo"
                /\ world'.commits = world.commits
             \/ /\ call.tool = "github.commit_files"
                /\ world'.repos = world.repos
    BY <1>2 DEF Outward
  <2> QED BY <2>1, RecallsGrow DEF Recorded
<1> QED BY <1>1, <1>2

LEMMA CommitsOnceStep ==
    ASSUME TypeOK, ControlInv, CommitsOnce, Control, Inward \/ Outward
    PROVE  CommitsOnce'
<1>1. /\ node' \in BeforeCommit => node \in BeforeCommit \ {"commit_progress"}
  <2>1. CASE Continues
    BY <2>1, Positions DEF Continues, OnTheWay, Nodes, BeforeCommit
  <2>2. CASE ~Continues
    BY <2>2 DEF Control, Blocks, Recovers, Stops, Refuses, Delivers, GivesUp, Raises,
                Moves, BeforeCommit
  <2> QED BY <2>1, <2>2
<1>2. CASE Inward
  <2>1. state'.tool_calls = state.tool_calls
    BY <1>2 DEF Inward, Tools
  <2> QED BY <1>1, <2>1 DEF CommitsOnce, CommitCalls
<1>3. CASE Outward
  <2>1. PICK call \in Calls :
          /\ CallsTool(call)
          /\ call.tool = "github.commit_files" => node = "commit_progress"
    BY <1>3 DEF Outward
  <2>2. /\ Len(state.tool_calls) \in Nat
        /\ Len(state'.tool_calls) = Len(state.tool_calls) + 1
        /\ state'.tool_calls[Len(state.tool_calls) + 1] = call
        /\ \A i \in 1..Len(state.tool_calls) :
              state'.tool_calls[i] = state.tool_calls[i]
    BY <2>1, CallsToolTrace
  <2>3. \A i \in 1..Len(state'.tool_calls) :
            i \in 1..Len(state.tool_calls) \/ i = Len(state.tool_calls) + 1
    <3> DEFINE k == Len(state.tool_calls)
    <3>1. k \in Nat /\ Len(state'.tool_calls) = k + 1
      BY <2>2
    <3> HIDE DEF k
    <3>2. \A i \in 1..(k + 1) : i \in 1..k \/ i = k + 1
      BY <3>1
    <3> QED BY <3>1, <3>2 DEF k
  <2>4. CASE call.tool = "github.commit_files"
    <3>1. CommitCalls(state) = {}
      BY <2>1, <2>4 DEF CommitsOnce, BeforeCommit
    <3>2. \A i \in CommitCalls(state') : i = Len(state.tool_calls) + 1
      BY <2>2, <2>3, <3>1 DEF CommitCalls
    <3>3. node' \notin BeforeCommit
      BY <1>1, <2>1, <2>4
    <3> QED BY <3>2, <3>3 DEF CommitsOnce
  <2>5. CASE call.tool # "github.commit_files"
    <3>1. \A i \in CommitCalls(state') : i \in CommitCalls(state)
      BY <2>2, <2>3, <2>5 DEF CommitCalls
    <3> QED BY <1>1, <3>1 DEF CommitsOnce
  <2> QED BY <2>4, <2>5
<1> QED BY <1>2, <1>3

-----------------------------------------------------------------------------
(* What a run holds on its way to a delivery.                                *)

\* The phases that are behind a run when it comes to a node.
AtContext  == {"idea_intake"}
AtScope    == AtContext \cup ContextPhases
AtStack    == AtScope \cup ScopePhases
AtPlan     == AtStack \cup {"tech_stack_recommendation"}
AtRepo     == AtPlan \cup PlanPhases
AtFiles    == AtRepo \cup {"github_repo_export"}
AtValidate == AtFiles \cup FilePhases
AtCommit   == AtValidate \cup {"testing_strategy"}
AtPackage  == AtCommit \cup {"build_test_validation"}

Fine(s, D) == \A p \in D : s.build_timeline[p] \in {"running", "completed"}

PhasesBehind ==
    /\ node \in {"exchange_github_code", "retrieve_context"} => Fine(state, AtContext)
    /\ node = "scope_mvp" => Fine(state, AtScope)
    /\ node = "recommend_stack" => Fine(state, AtStack)
    /\ node = "plan_repo" => Fine(state, AtPlan)
    /\ node = "create_repo" => Fine(state, AtRepo)
    /\ node = "generate_files" => Fine(state, AtFiles)
    /\ node = "validate_mvp" => Fine(state, AtValidate)
    /\ node \in {"debug_generated_files", "commit_progress", "verify_build",
                 "handle_blocker"} => Fine(state, AtCommit)
    /\ node = "generate_final_package" => Fine(state, AtPackage)
    /\ node \in {"remember_outcome", "report_result"} => Fine(state, Phases)

ManifestHeld ==
    /\ node \in {"validate_mvp", "debug_generated_files", "commit_progress"} =>
          "manifest" \in ArtifactOrigins(state)
    /\ node \in {"verify_build", "handle_blocker", "generate_final_package",
                 "remember_outcome", "report_result"} =>
          settings.mock_mode \/ "manifest" \in world.committed

Verified ==
    /\ node \in {"generate_final_package", "remember_outcome", "report_result"} =>
          /\ state.last_tool_result.tool = "build.verify"
          /\ state.last_tool_result.status = "success"
    /\ node \in {"remember_outcome", "report_result"} =>
          state.final_report.status = "completed"

Remembered ==
    world.memories > 0 => node = "report_result" \/ state.status = "completed"

LEMMA FineKept ==
    ASSUME NEW D, Fine(state, D), state'.build_timeline = state.build_timeline
    PROVE  Fine(state', D)
BY DEF Fine

LEMMA FineGrows ==
    ASSUME NEW D, NEW ps, NEW st \in {"running", "completed"},
           D \subseteq Phases, ps \subseteq Phases, Fine(state, D), Stamps(ps, st)
    PROVE  Fine(state', D \cup ps)
BY DEF Fine, Stamps, Stamped

\* A phase outside D may fail.
LEMMA FineBeside ==
    ASSUME NEW D, NEW ps, NEW st, D \subseteq Phases, D \cap ps = {},
           Fine(state, D), Stamps(ps, st)
    PROVE  Fine(state', D)
BY DEF Fine, Stamps, Stamped

LEMMA PhaseSets ==
    /\ AtContext \subseteq Phases /\ AtScope \subseteq Phases
    /\ AtStack \subseteq Phases /\ AtPlan \subseteq Phases
    /\ AtRepo \subseteq Phases /\ AtFiles \subseteq Phases
    /\ AtValidate \subseteq Phases /\ AtCommit \subseteq Phases
    /\ AtPackage \subseteq Phases
    /\ ContextPhases \subseteq Phases /\ ScopePhases \subseteq Phases
    /\ PlanPhases \subseteq Phases /\ FilePhases \subseteq Phases
    /\ PackagePhases \subseteq Phases
    /\ {"idea_intake", "tech_stack_recommendation", "github_repo_export",
        "testing_strategy", "build_test_validation"} \subseteq Phases
    /\ AtPackage \cup PackagePhases = Phases
    /\ "build_test_validation" \notin AtCommit
    /\ "github_repo_export" \in AtCommit
<1> USE DEF Phases, AtContext, AtScope, AtStack, AtPlan, AtRepo, AtFiles, AtValidate,
            AtCommit, AtPackage, ContextPhases, ScopePhases, PlanPhases, FilePhases,
            PackagePhases
<1>1. /\ AtContext \subseteq Phases /\ AtScope \subseteq Phases
      /\ AtStack \subseteq Phases /\ AtPlan \subseteq Phases
      /\ AtRepo \subseteq Phases
  OBVIOUS
<1>2. AtFiles \subseteq Phases /\ AtValidate \subseteq Phases
  OBVIOUS
<1>3. AtCommit \subseteq Phases /\ AtPackage \subseteq Phases
  OBVIOUS
<1>4. /\ ContextPhases \subseteq Phases /\ ScopePhases \subseteq Phases
      /\ PlanPhases \subseteq Phases /\ FilePhases \subseteq Phases
      /\ PackagePhases \subseteq Phases
  OBVIOUS
<1>5. {"idea_intake", "tech_stack_recommendation", "github_repo_export",
       "testing_strategy", "build_test_validation"} \subseteq Phases
  OBVIOUS
<1>6. AtPackage \cup PackagePhases = Phases
  OBVIOUS
<1>7. "build_test_validation" \notin AtCommit /\ "github_repo_export" \in AtCommit
  OBVIOUS
<1> QED BY <1>1, <1>2, <1>3, <1>4, <1>5, <1>6, <1>7

\* The set a run has reached is the one at the node its step goes to.
LEMMA NextPhases ==
    ASSUME TypeOK, ControlInv, PhasesBehind, Next
    PROVE  PhasesBehind'
<1>0. Alive
  BY DEF ControlInv
<1>1. CASE ReceiveIdea
  <2>1. node' = "exchange_github_code" /\ Stamps({"idea_intake"}, "completed")
    BY <1>1, ReceiveIdeaEffect DEF Advances, Moves
  <2>2. Fine(state, {})
    BY DEF Fine
  <2>3. Fine(state', {} \cup {"idea_intake"})
    BY <2>1, <2>2, PhaseSets, FineGrows
  <2> QED BY <2>1, <2>3 DEF PhasesBehind, AtContext
<1>2. CASE ExchangeGithubCode
  <2>1. CASE node' = "failed"
    BY <2>1 DEF PhasesBehind
  <2>2. CASE node = "exchange_github_code" /\ node' = "retrieve_context"
             /\ state'.build_timeline = state.build_timeline
    BY <2>2, FineKept DEF PhasesBehind
  <2> QED BY <1>0, <1>2, <2>1, <2>2, ExchangeEffect DEF Moves, Refuses
<1>3. CASE RetrieveContext
  <2>1. node = "retrieve_context" /\ node' = "scope_mvp"
        /\ Stamps(ContextPhases, "completed")
    BY <1>3, RetrieveContextEffect DEF Advances, Moves
  <2>2. Fine(state', AtScope)
    BY <2>1, PhaseSets, FineGrows DEF PhasesBehind, AtScope
  <2> QED BY <2>1, <2>2 DEF PhasesBehind
<1>4. CASE ScopeMvp
  <2>1. node = "scope_mvp" /\ node' = "recommend_stack" /\ Stamps(ScopePhases, "completed")
    BY <1>4, PlansEffect DEF Advances, Moves
  <2>2. Fine(state', AtStack)
    BY <2>1, PhaseSets, FineGrows DEF PhasesBehind, AtStack
  <2> QED BY <2>1, <2>2 DEF PhasesBehind
<1>5. CASE RecommendStack
  <2>1. node = "recommend_stack" /\ node' = "plan_repo"
        /\ Stamps({"tech_stack_recommendation"}, "completed")
    BY <1>5, PlansEffect DEF Advances, Moves
  <2>2. Fine(state', AtPlan)
    BY <2>1, PhaseSets, FineGrows DEF PhasesBehind, AtPlan
  <2> QED BY <2>1, <2>2 DEF PhasesBehind
<1>6. CASE PlanRepo
  <2>1. node = "plan_repo" /\ node' = "create_repo" /\ Stamps(PlanPhases, "completed")
    BY <1>6, PlansEffect DEF Advances, Moves
  <2>2. Fine(state', AtRepo)
    BY <2>1, PhaseSets, FineGrows DEF PhasesBehind, AtRepo
  <2> QED BY <2>1, <2>2 DEF PhasesBehind
<1>7. CASE CreateRepo
  <2>1. CASE node' = "failed"
    BY <2>1 DEF PhasesBehind
  <2>2. CASE node = "create_repo" /\ node' = "generate_files"
             /\ Stamps({"github_repo_export"}, "completed")
    <3>1. Fine(state', AtFiles)
      BY <2>2, PhaseSets, FineGrows DEF PhasesBehind, AtFiles
    <3> QED BY <2>2, <3>1 DEF PhasesBehind
  <2> QED BY <1>0, <1>7, <2>1, <2>2, CreateRepoEffect DEF Moves, Refuses
<1>8. CASE GenerateFiles
  <2>1. node = "generate_files" /\ node' = "validate_mvp" /\ Stamps(FilePhases, "completed")
    BY <1>8, GenerateEffect DEF Moves
  <2>2. Fine(state', AtValidate)
    BY <2>1, PhaseSets, FineGrows DEF PhasesBehind, AtValidate
  <2> QED BY <2>1, <2>2 DEF PhasesBehind
<1>9. CASE ValidateMvp
  <2>1. CASE node' = "failed"
    BY <2>1 DEF PhasesBehind
  <2>2. CASE node = "validate_mvp" /\ node' = "debug_generated_files"
             /\ Stamps({"testing_strategy"}, "completed")
    <3>1. Fine(state', AtCommit)
      BY <2>2, PhaseSets, FineGrows DEF PhasesBehind, AtCommit
    <3> QED BY <2>2, <3>1 DEF PhasesBehind
  <2> QED BY <1>0, <1>9, <2>1, <2>2, ValidateEffect DEF Advances, Moves, Refuses
<1>10. CASE DebugGeneratedFiles
  <2>1. node = "debug_generated_files" /\ node' = "commit_progress"
        /\ state'.build_timeline = state.build_timeline
    BY <1>10, DebugEffect DEF Moves
  <2> QED BY <2>1, FineKept DEF PhasesBehind
<1>11. CASE CommitProgress
  <2>1. CASE node' = "failed"
    BY <2>1 DEF PhasesBehind
  <2>2. CASE node = "commit_progress" /\ node' = "verify_build"
             /\ Stamps({"github_repo_export"}, "running")
    <3>1. Fine(state', AtCommit \cup {"github_repo_export"})
      BY <2>2, PhaseSets, FineGrows DEF PhasesBehind
    <3>2. Fine(state', AtCommit)
      BY <3>1 DEF Fine
    <3> QED BY <2>2, <3>2 DEF PhasesBehind
  <2> QED BY <1>0, <1>11, <2>1, <2>2, CommitEffect DEF Moves, Refuses
<1>12. CASE VerifyBuild
  <2>1. CASE node' = "failed"
    BY <2>1 DEF PhasesBehind
  <2>2. CASE node = "verify_build" /\ node' = "generate_final_package"
             /\ Stamps({"build_test_validation"}, "completed")
    <3>1. Fine(state', AtPackage)
      BY <2>2, PhaseSets, FineGrows DEF PhasesBehind, AtPackage
    <3> QED BY <2>2, <3>1 DEF PhasesBehind
  <2>3. CASE node = "verify_build" /\ node' = "handle_blocker"
             /\ Stamps({"build_test_validation"}, "failed")
    <3>1. Fine(state', AtCommit)
      BY <2>3, PhaseSets, FineBeside DEF PhasesBehind
    <3> QED BY <2>3, <3>1 DEF PhasesBehind
  <2> QED BY <1>12, <2>1, <2>2, <2>3, VerifyEffect DEF Moves
<1>13. CASE HandleBlocker
  <2>1. node = "handle_blocker" /\ node' = "verify_build"
        /\ state'.build_timeline = state.build_timeline
    BY <1>13, BlockerEffect DEF Moves
  <2> QED BY <2>1, FineKept DEF PhasesBehind
<1>14. CASE GenerateFinalPackage
  <2>1. node = "generate_final_package" /\ node' = "remember_outcome"
        /\ Stamps(PackagePhases, "completed")
    BY <1>14, PackageEffect DEF Moves
  <2>2. Fine(state', AtPackage \cup PackagePhases)
    BY <2>1, PhaseSets, FineGrows DEF PhasesBehind
  <2> QED BY <2>1, <2>2, PhaseSets DEF PhasesBehind
<1>15. CASE RememberOutcome
  <2>1. node = "remember_outcome" /\ node' = "report_result"
        /\ state'.build_timeline = state.build_timeline
    BY <1>15, RememberEffect DEF Moves
  <2> QED BY <2>1, FineKept DEF PhasesBehind
<1>16. CASE ReportResult \/ Failed \/ Raise
  <2>1. node' \in {"END", "raised"}
    BY <1>16, ReportEffect, FailedEffect DEF Moves, Raise
  <2> QED BY <2>1 DEF PhasesBehind
<1> QED BY <1>1, <1>2, <1>3, <1>4, <1>5, <1>6, <1>7, <1>8, <1>9, <1>10, <1>11, <1>12,
           <1>13, <1>14, <1>15, <1>16 DEF Next

LEMMA OriginsOf ==
    ASSUME NEW a \in Seq(Origins), NEW b \in Seq(Origins)
    PROVE  \A s, t : /\ s.generated_artifacts = a \o b
                     /\ t.generated_artifacts \in {a, b}
                     => ArtifactOrigins(t) \subseteq ArtifactOrigins(s)
<1>1. /\ Len(a) \in Nat /\ Len(b) \in Nat
      /\ Len(a \o b) = Len(a) + Len(b)
      /\ \A i \in 1..Len(a) : i \in 1..Len(a \o b) /\ (a \o b)[i] = a[i]
      /\ \A i \in 1..Len(b) :
            Len(a) + i \in 1..Len(a \o b) /\ (a \o b)[Len(a) + i] = b[i]
  OBVIOUS
<1>2. \A i \in 1..Len(b) : \E j \in 1..Len(a \o b) : (a \o b)[j] = b[i]
  BY <1>1
<1>3. \A i \in 1..Len(a) : \E j \in 1..Len(a \o b) : (a \o b)[j] = a[i]
  BY <1>1
<1> DEFINE o(q) == {q[i] : i \in 1..Len(q)}
<1>4. o(a) \subseteq o(a \o b)
  BY <1>3
<1>5. o(b) \subseteq o(a \o b)
  BY <1>2
<1>6. \A s : ArtifactOrigins(s) = o(s.generated_artifacts)
  BY DEF ArtifactOrigins
<1> HIDE DEF o
<1> QED BY <1>4, <1>5, <1>6

LEMMA ManifestOrigin ==
    ASSUME NEW a \in Seq(Origins), NEW files \in Manifests
    PROVE  \A s : s.generated_artifacts = a \o files =>
                     "manifest" \in ArtifactOrigins(s)
<1>1. files \in Seq(Origins) /\ Len(files) \in 1..2 /\ files[1] = "manifest"
  <2>1. CASE files = <<"manifest">>
    BY <2>1 DEF Origins
  <2>2. CASE files = <<"manifest", "scaffold">>
    BY <2>2 DEF Origins
  <2> QED BY <2>1, <2>2 DEF Manifests
<1>2. /\ Len(a) + 1 \in 1..Len(a \o files)
      /\ (a \o files)[Len(a) + 1] = files[1]
  BY <1>1
<1> QED BY <1>1, <1>2 DEF ArtifactOrigins

LEMMA NextManifest ==
    ASSUME TypeOK, Alive, ManifestHeld, Next
    PROVE  ManifestHeld'
<1>1. CASE GenerateFiles
  <2>1. PICK files \in Manifests : Generates(files)
    BY <1>1, GenerateEffect
  <2>2. state.generated_artifacts \in Seq(Origins)
    BY DEF TypeOK, States
  <2>3. "manifest" \in ArtifactOrigins(state')
    BY <2>1, <2>2, ManifestOrigin DEF Generates
  <2>4. node' = "validate_mvp"
    BY <1>1, GenerateEffect DEF Moves
  <2> QED BY <2>3, <2>4 DEF ManifestHeld
<1>2. CASE ValidateMvp
  <2>1. CASE node' = "failed"
    BY <2>1 DEF ManifestHeld
  <2>2. CASE node = "validate_mvp" /\ node' = "debug_generated_files" /\ SameParts
    BY <2>2 DEF ManifestHeld, SameParts, Made, ArtifactOrigins
  <2> QED BY <1>2, <2>1, <2>2, ValidateEffect DEF Advances, Moves, Refuses
<1>3. CASE DebugGeneratedFiles
  <2> DEFINE a == state.generated_artifacts
             t == [state EXCEPT !.generated_artifacts = a \o a]
  <2>1. a \in Seq(Origins) /\ a \o a \in Seq(Origins) /\ <<"debug">> \in Seq(Origins)
        /\ t.generated_artifacts = a \o a
    BY DEF TypeOK, States, Origins
  <2>2. node = "debug_generated_files" /\ node' = "commit_progress"
        /\ state'.generated_artifacts = (a \o a) \o <<"debug">>
    BY <1>3, DebugEffect DEF Moves
  <2>3. ArtifactOrigins(state) \subseteq ArtifactOrigins(t)
    <3> HIDE DEF t
    <3> QED BY <2>1, OriginsOf
  <2>4. ArtifactOrigins(t) \subseteq ArtifactOrigins(state')
    <3> HIDE DEF t
    <3> QED BY <2>1, <2>2, OriginsOf
  <2> QED BY <2>2, <2>3, <2>4 DEF ManifestHeld
<1>4. CASE CommitProgress
  <2>1. CASE node' = "failed"
    BY <2>1 DEF ManifestHeld
  <2>2. CASE /\ node = "commit_progress" /\ node' = "verify_build"
             /\ settings' = settings
             /\ settings.mock_mode \/ ArtifactOrigins(state) \subseteq world'.committed
    BY <2>2 DEF ManifestHeld
  <2> QED BY <1>4, <2>1, <2>2, CommitEffect DEF Moves, Refuses
<1>5. CASE VerifyBuild
  <2>1. /\ node = "verify_build" /\ world' = world /\ settings' = settings
        /\ node' \in {"handle_blocker", "generate_final_package", "failed"}
    BY <1>5, VerifyEffect DEF Moves
  <2> QED BY <2>1 DEF ManifestHeld
<1>6. CASE HandleBlocker
  <2>1. /\ node = "handle_blocker" /\ world' = world /\ settings' = settings
        /\ node' = "verify_build"
    BY <1>6, BlockerEffect DEF Moves
  <2> QED BY <2>1 DEF ManifestHeld
<1>7. CASE GenerateFinalPackage
  <2>1. /\ node = "generate_final_package" /\ world' = world /\ settings' = settings
        /\ node' = "remember_outcome"
    BY <1>7, PackageEffect DEF Moves, Generates
  <2> QED BY <2>1 DEF ManifestHeld
<1>8. CASE RememberOutcome
  <2>1. /\ node = "remember_outcome" /\ settings' = settings
        /\ node' = "report_result"
        /\ \E rows \in 0..1 : world' = [world EXCEPT !.memories = @ + rows]
    BY <1>8, RememberEffect DEF Moves
  <2>2. world'.committed = world.committed
    BY <2>1 DEF TypeOK, Worlds
  <2> QED BY <2>1, <2>2 DEF ManifestHeld
<1>9. CASE ReportResult \/ Failed \/ Raise
  <2>1. node' \in {"END", "raised"}
    BY <1>9, ReportEffect, FailedEffect DEF Moves, Raise
  <2> QED BY <2>1 DEF ManifestHeld
<1>10. CASE \/ ReceiveIdea \/ ExchangeGithubCode \/ RetrieveContext
            \/ ScopeMvp \/ RecommendStack \/ PlanRepo \/ CreateRepo
  <2>1. node' \in {"exchange_github_code", "retrieve_context", "scope_mvp",
                   "recommend_stack", "plan_repo", "create_repo", "generate_files",
                   "failed"}
    BY <1>10, ReceiveIdeaEffect, ExchangeEffect, RetrieveContextEffect, PlansEffect,
       CreateRepoEffect DEF Advances, Moves, Refuses
  <2> QED BY <2>1 DEF ManifestHeld
<1> QED BY <1>1, <1>2, <1>3, <1>4, <1>5, <1>6, <1>7, <1>8, <1>9, <1>10 DEF Next

LEMMA NextVerified ==
    ASSUME TypeOK, Alive, Verified, Control, Next
    PROVE  Verified'
<1>1. CASE VerifyBuild
  <2>1. CASE node' \in {"handle_blocker", "failed"}
    BY <2>1 DEF Verified
  <2>2. CASE /\ node' = "generate_final_package"
             /\ \E call \in Calls : /\ call.tool = "build.verify"
                                    /\ call.status = "success"
                                    /\ CallsTool(call)
    BY <2>2 DEF Verified, CallsTool, Tools
  <2> QED BY <1>1, <2>1, <2>2, VerifyEffect DEF Moves
<1>2. CASE GenerateFinalPackage
  <2>1. /\ node = "generate_final_package" /\ node' = "remember_outcome"
        /\ Tools(state') = Tools(state)
        /\ state'.final_report.status = "completed"
    BY <1>2, PackageEffect DEF Moves, Generates
  <2> QED BY <2>1 DEF Verified, Tools
<1>3. CASE RememberOutcome
  <2>1. /\ node = "remember_outcome" /\ node' = "report_result"
        /\ Tools(state') = Tools(state) /\ Made(state') = Made(state)
    BY <1>3, RememberEffect DEF Moves, SameParts
  <2> QED BY <2>1 DEF Verified, Tools, Made
<1>4. CASE ReportResult \/ Failed \/ Raise
  <2>1. node' \in {"END", "raised"}
    BY <1>4, ReportEffect, FailedEffect DEF Moves, Raise
  <2> QED BY <2>1 DEF Verified
<1>5. CASE \/ ReceiveIdea \/ ExchangeGithubCode \/ RetrieveContext
           \/ ScopeMvp \/ RecommendStack \/ PlanRepo \/ CreateRepo
  <2>1. node' \in {"exchange_github_code", "retrieve_context", "scope_mvp",
                   "recommend_stack", "plan_repo", "create_repo", "generate_files",
                   "failed"}
    BY <1>5, ReceiveIdeaEffect, ExchangeEffect, RetrieveContextEffect, PlansEffect,
       CreateRepoEffect DEF Advances, Moves, Refuses
  <2> QED BY <2>1 DEF Verified
<1>6. CASE GenerateFiles \/ ValidateMvp \/ DebugGeneratedFiles
  <2>1. node' \in {"validate_mvp", "debug_generated_files", "commit_progress", "failed"}
    BY <1>6, GenerateEffect, ValidateEffect, DebugEffect DEF Advances, Moves, Refuses
  <2> QED BY <2>1 DEF Verified
<1>7. CASE CommitProgress \/ HandleBlocker
  <2>1. node' \in {"verify_build", "failed"}
    BY <1>7, CommitEffect, BlockerEffect DEF Moves, Refuses
  <2> QED BY <2>1 DEF Verified
<1> QED BY <1>1, <1>2, <1>3, <1>4, <1>5, <1>6, <1>7 DEF Next

\* At the last node before the report, everything a delivery needs is there.
LEMMA ReadyToReport ==
    ASSUME SafetyInv, PhasesBehind, ManifestHeld, Verified, node = "report_result"
    PROVE  /\ state.final_report.status = "completed"
           /\ state.last_tool_result.tool = "build.verify"
           /\ state.last_tool_result.status = "success"
           /\ state.mvp_validation = [run |-> TRUE, broken |-> {}]
           /\ settings.mock_mode \/ "manifest" \in world.committed
           /\ \A p \in Phases : state.build_timeline[p] \in {"running", "completed"}
<1>1. state.mvp_validation = [run |-> TRUE, broken |-> {}]
  BY DEF SafetyInv, Validity, Late
<1> QED BY <1>1 DEF PhasesBehind, ManifestHeld, Verified, Fine

LEMMA NextRemembered ==
    ASSUME TypeOK, ControlInv, Control, Remembered, Next
    PROVE  Remembered'
<1>0. world.memories \in Nat
  BY DEF TypeOK, Worlds
<1>1. CASE RememberOutcome
  <2>1. node' = "report_result"
    BY <1>1, RememberEffect DEF Moves
  <2> QED BY <2>1 DEF Remembered
<1>2. CASE ~RememberOutcome
  <2>1. world'.memories = world.memories
    <3>1. CASE CreateRepo
      BY <3>1, CreateRepoEffect DEF TypeOK, Worlds, ControlInv
    <3>2. CASE CommitProgress
      BY <3>2, CommitEffect DEF TypeOK, Worlds, ControlInv
    <3>3. CASE ~CreateRepo /\ ~CommitProgress
      <4>1. world' = world
        BY <1>2, <3>3
           DEF Next, ReceiveIdea, ExchangeGithubCode, RetrieveContext, ScopeMvp,
               RecommendStack, PlanRepo, Plan, GenerateFiles, ValidateMvp,
               DebugGeneratedFiles, VerifyBuild, HandleBlocker, GenerateFinalPackage,
               ReportResult, Failed, Raise
      <4> QED BY <4>1
    <3> QED BY <3>1, <3>2, <3>3
  <2>2. CASE world.memories > 0
    <3>1. CASE node = "report_result"
      <4>1. Delivers
        BY <3>1, Positions, PositionType DEF Control, Continues, Blocks, Recovers, Stops, Refusing,
              Refuses, GivesUp, Raises, Moves, OnTheWay, Nodes
      <4> QED BY <4>1 DEF Delivers, Verdict, Remembered
    <3>2. CASE node # "report_result"
      <4>1. state.status = "completed" /\ node = "END"
        BY <2>2, <3>2 DEF Remembered, ControlInv, Concluded
      <4>2. FALSE
        BY <4>1 DEF Control, Continues, Blocks, Recovers, Stops, Refusing,
              Refuses, GivesUp, Raises, Delivers, Moves, OnTheWay, Nodes
      <4> QED BY <4>2
    <3> QED BY <3>1, <3>2
  <2>3. CASE ~(world.memories > 0)
    BY <2>1, <2>3 DEF Remembered
  <2> QED BY <2>2, <2>3
<1> QED BY <1>1, <1>2

LEMMA NextDelivered ==
    ASSUME SafetyInv, SafetyInv', ControlInv', Control, Next,
           ManifestHeld, Verified, PhasesBehind,
           ManifestHeld', Verified', PhasesBehind', Remembered'
    PROVE  CompletedIsDelivered'
<1>1. CASE ~(state'.status = "completed" \/ world'.memories > 0)
  BY <1>1 DEF CompletedIsDelivered
<1>2. CASE node' = "report_result"
  <2>1. state'.mvp_validation = [run |-> TRUE, broken |-> {}]
    BY <1>2 DEF SafetyInv, Validity, Late
  <2>2. /\ state'.final_report.status = "completed"
        /\ state'.last_tool_result.tool = "build.verify"
        /\ state'.last_tool_result.status = "success"
    BY <1>2 DEF Verified
  <2>3. settings'.mock_mode \/ "manifest" \in world'.committed
    BY <1>2 DEF ManifestHeld
  <2>4. \A p \in Phases : state'.build_timeline[p] \in {"running", "completed"}
    BY <1>2 DEF PhasesBehind, Fine
  <2> QED BY <2>1, <2>2, <2>3, <2>4 DEF CompletedIsDelivered
<1>3. CASE node' # "report_result" /\ (state'.status = "completed" \/ world'.memories > 0)
  <2>1. state'.status = "completed" /\ node' = "END"
    BY <1>3 DEF Remembered, ControlInv, Concluded
  <2>2. Delivers
    BY <2>1 DEF Control, Continues, Blocks, Recovers, Stops, Refusing, Refuses,
                GivesUp, Raises, Moves, Verdict, OnTheWay, Nodes
  <2>3. node = "report_result"
    BY <2>2 DEF Delivers, Moves
  <2>4. ReportResult
    BY <2>1, <2>3 DEF Next, ReceiveIdea, ExchangeGithubCode, RetrieveContext, ScopeMvp,
         RecommendStack, PlanRepo, Plan, CreateRepo, CommitProgress, GenerateFiles,
         ValidateMvp, DebugGeneratedFiles, VerifyBuild, HandleBlocker,
         GenerateFinalPackage, RememberOutcome, Failed, Raise
  <2>5. /\ Tools(state') = Tools(state) /\ Made(state') = Made(state)
        /\ state'.build_timeline = state.build_timeline
        /\ state'.mvp_validation = state.mvp_validation
        /\ world' = world /\ settings' = settings
    BY <2>4, ReportEffect DEF SafetyInv, Moves
  <2> QED BY <2>3, <2>5, ReadyToReport DEF CompletedIsDelivered, Tools, Made
<1> QED BY <1>1, <1>2, <1>3

-----------------------------------------------------------------------------
(* All of it, as one invariant of the run.                                   *)

RunInv ==
    /\ SafetyInv /\ ControlInv
    /\ CommitsOnce /\ Recorded
    /\ PhasesBehind /\ ManifestHeld /\ Verified
    /\ Remembered /\ CompletedIsDelivered

LEMMA InitRun == Init => RunInv
<1> SUFFICES ASSUME Init PROVE RunInv
  OBVIOUS
<1>1. SafetyInv /\ ControlInv
  BY InitType, InitSafe, InitControl DEF SafetyInv
<1>2. /\ node = "receive_idea" /\ state.status = "started" /\ state.tool_calls = <<>>
      /\ world.repos = 0 /\ world.commits = 0 /\ world.memories = 0
  BY DEF Init, InitialState
<1>3. CommitsOnce /\ Recorded
  BY <1>2 DEF CommitsOnce, Recorded, CommitCalls
<1>4. PhasesBehind /\ ManifestHeld /\ Verified /\ Remembered /\ CompletedIsDelivered
  BY <1>2 DEF PhasesBehind, ManifestHeld, Verified, Remembered, CompletedIsDelivered
<1> QED BY <1>1, <1>3, <1>4 DEF RunInv

LEMMA NextRun == RunInv /\ [Next]_vars => RunInv'
<1> SUFFICES ASSUME RunInv, [Next]_vars PROVE RunInv'
  OBVIOUS
<1> USE DEF RunInv
<1>1. SafetyInv' /\ ControlInv'
  BY NextSafe, NextControlInv DEF SafetyInv
<1>2. TypeOK /\ Alive
  BY DEF SafetyInv, ControlInv
<1>3. CASE Next
  <2>1. Control /\ (Inward \/ Outward)
    BY <1>2, <1>3, NextControl, NextTools
  <2>2. CommitsOnce' /\ Recorded'
    BY <1>2, <2>1, CommitsOnceStep, RecordedStep
  <2>3. PhasesBehind' /\ ManifestHeld' /\ Verified' /\ Remembered'
    BY <1>2, <1>3, <2>1, NextPhases, NextManifest, NextVerified, NextRemembered
  <2>4. CompletedIsDelivered'
    BY <1>1, <1>3, <2>1, <2>3, NextDelivered
  <2> QED BY <1>1, <2>2, <2>3, <2>4
<1>4. CASE UNCHANGED vars
  <2>1. settings' = settings /\ node' = node /\ state' = state /\ world' = world
    BY <1>4 DEF vars
  <2>2. CommitsOnce' /\ Recorded'
    BY <2>1 DEF CommitsOnce, Recorded, CommitCalls, Recalls
  <2>3. PhasesBehind' /\ ManifestHeld' /\ Verified' /\ Remembered'
    BY <2>1 DEF PhasesBehind, Fine, ManifestHeld, ArtifactOrigins, Verified, Remembered
  <2>4. CompletedIsDelivered'
    BY <2>1 DEF CompletedIsDelivered
  <2> QED BY <1>1, <2>2, <2>3, <2>4
<1> QED BY <1>3, <1>4

\* The invariant of a run: its authority and its validation, where it stands
\* and how many steps brought it there, the calls on record for what it wrote,
\* and what it holds towards a delivery.
THEOREM RunInvariant == Spec => []RunInv
<1>1. Init => RunInv
  BY InitRun
<1>2. RunInv /\ [Next]_vars => RunInv'
  BY NextRun
<1> QED BY <1>1, <1>2, PTL DEF Spec

\* A run that is reported completed, or remembered, delivered.
THEOREM CompletedDeliveredAlways == Spec => []CompletedIsDelivered
<1>1. RunInv => CompletedIsDelivered
  BY DEF RunInv
<1> QED BY <1>1, RunInvariant, PTL

\* A run that ends failed names the node that stopped it.
THEOREM FailureExplainedAlways == Spec => []FailureIsExplained
<1>1. RunInv => FailureIsExplained
  BY DEF RunInv, ControlInv, Concluded
<1> QED BY <1>1, RunInvariant, PTL

\* The blocker loop is taken once, without a second commit, and no run reaches
\* the limit of supersteps.
THEOREM LoopBoundedAlways == Spec => []LoopIsBounded
<1>1. RunInv => LoopIsBounded
  BY DEF RunInv, ControlInv, Traced, CommitsOnce, LoopIsBounded, LongestRun,
         RecursionLimit
<1> QED BY <1>1, RunInvariant, PTL

LEMMA FailureStep ==
    RunInv /\ [Next]_vars =>
        [state.status = "failed" => /\ node' = "END"
                                    /\ state'.status = "failed"
                                    /\ state'.tool_calls = state.tool_calls
                                    /\ world' = world]_vars
<1>1. ASSUME RunInv, Next, state.status = "failed"
      PROVE  /\ node' = "END"
             /\ state'.status = "failed"
             /\ state'.tool_calls = state.tool_calls
             /\ world' = world
  <2>1. node \in {"failed", "END"} /\ TypeOK /\ Alive
    BY <1>1 DEF RunInv, SafetyInv, ControlInv, Concluded
  <2>2. Control
    BY <1>1, <2>1, NextControl
  <2>3. GivesUp
    BY <2>1, <2>2 DEF Control, Continues, Blocks, Recovers, Stops, Refusing, Refuses,
                      Raises, Delivers, Moves, OnTheWay, Nodes
  <2> QED BY <2>3 DEF GivesUp, Moves, Verdict, Tools
<1> QED BY <1>1

\* A run whose state is failed calls no tool and writes nothing any more.
THEOREM FailureStopsAlways == Spec => FailureStopsTheRun
BY FailureStep, RunInvariant, PTL DEF Spec, FailureStopsTheRun

-----------------------------------------------------------------------------
(* The task that runs the graph.  Its store lags behind the run by at most    *)
(* one node, and what it holds is always the beginning of what the run has.   *)

LEMMA Extends ==
    ASSUME NEW S, NEW q \in Seq(S), NEW r \in Seq(S)
    PROVE  /\ IsExtension(q, q)
           /\ IsExtension(q, q \o r)
           /\ IsExtension(<<>>, q)
<1>1. Len(q) \in Nat /\ Len(r) \in Nat /\ Len(q \o r) = Len(q) + Len(r)
  OBVIOUS
<1>2. q = SubSeq(q, 1, Len(q))
  OBVIOUS
<1>3. q = SubSeq(q \o r, 1, Len(q))
  <2> DEFINE p == SubSeq(q \o r, 1, Len(q))
  <2>1. q \o r \in Seq(S) /\ \A i \in 1..Len(q) : (q \o r)[i] = q[i]
    OBVIOUS
  <2>2. p \in Seq(S) /\ Len(p) = Len(q) /\ \A i \in 1..Len(q) : p[i] = (q \o r)[i]
    BY <1>1, <2>1
  <2> HIDE DEF p
  <2>3. q = p
    BY <2>1, <2>2
  <2> QED BY <2>3 DEF p
<1>4. <<>> = SubSeq(q, 1, 0) /\ Len(<<>>) = 0
  OBVIOUS
<1> QED BY <1>1, <1>2, <1>3, <1>4 DEF IsExtension

LEMMA ExtendsByOne ==
    ASSUME NEW S, NEW q \in Seq(S), NEW e \in S
    PROVE  IsExtension(q, Append(q, e))
<1>1. Append(q, e) = q \o <<e>> /\ <<e>> \in Seq(S)
  OBVIOUS
<1> QED BY <1>1, Extends

LEMMA ManifestsType == \A files \in Manifests : files \in Seq(Origins)
<1>1. <<"manifest">> \in Seq(Origins) /\ <<"manifest", "scaffold">> \in Seq(Origins)
  BY DEF Origins
<1> QED BY <1>1, Zenon DEF Manifests

\* Every node keeps the artifacts and, once there is one, the report.
LEMMA NextProducts ==
    ASSUME TypeOK, Alive, Next
    PROVE  /\ \E files \in Seq(Origins) :
                 state'.generated_artifacts = state.generated_artifacts \o files
           /\ state.final_report.status # "none" => state'.final_report.status # "none"
<1> DEFINE a == state.generated_artifacts
           goal == /\ \E files \in Seq(Origins) : state'.generated_artifacts = a \o files
                   /\ state.final_report.status # "none" =>
                         state'.final_report.status # "none"
<1>0. a \in Seq(Origins)
  BY DEF TypeOK, States
<1>1. ASSUME state'.generated_artifacts = a,
             state.final_report.status # "none" => state'.final_report.status # "none"
      PROVE  goal
  <2>1. a = a \o <<>> /\ <<>> \in Seq(Origins)
    BY <1>0
  <2> QED BY <1>1, <2>1
<1>2. ASSUME Made(state') = Made(state) PROVE goal
  BY <1>1, <1>2 DEF Made
<1>3. ASSUME NEW files \in Seq(Origins), Generates(files),
             state.final_report.status # "none" => state'.final_report.status # "none"
      PROVE  goal
  BY <1>3 DEF Generates
<1> SUFFICES goal
  BY DEF goal
<1> HIDE DEF goal
<1>4. CASE ReceiveIdea
  BY <1>2, <1>4, ReceiveIdeaEffect DEF Advances, SameParts
<1>5. CASE ExchangeGithubCode
  BY <1>2, <1>5, ExchangeEffect DEF Refuses, SameParts
<1>6. CASE RetrieveContext
  BY <1>2, <1>6, RetrieveContextEffect DEF Advances, SameParts
<1>7. CASE ScopeMvp \/ RecommendStack \/ PlanRepo
  BY <1>2, <1>7, PlansEffect DEF Advances, SameParts
<1>8. CASE CreateRepo
  BY <1>2, <1>8, CreateRepoEffect DEF Refuses, SameParts
<1>9. CASE GenerateFiles
  <2>1. \A files \in Manifests : files \in Seq(Origins)
    BY Zenon, ManifestsType
  <2> QED BY <1>3, <1>9, <2>1, GenerateEffect
<1>10. CASE ValidateMvp
  BY <1>2, <1>10, ValidateEffect DEF Advances, Refuses, SameParts
<1>11. CASE DebugGeneratedFiles
  <2>1. /\ state'.generated_artifacts = (a \o a) \o <<"debug">>
        /\ state'.final_report = state.final_report
    BY <1>11, DebugEffect
  <2>2. (a \o a) \o <<"debug">> = a \o (a \o <<"debug">>)
        /\ a \o <<"debug">> \in Seq(Origins)
    <3>1. <<"debug">> \in Seq(Origins)
      BY DEF Origins
    <3>2. \A b \in Seq(Origins), c \in Seq(Origins) :
             (b \o b) \o c = b \o (b \o c) /\ b \o c \in Seq(Origins)
      OBVIOUS
    <3> QED BY <1>0, <3>1, <3>2
  <2> QED BY <2>1, <2>2 DEF goal
<1>12. CASE CommitProgress
  BY <1>2, <1>12, CommitEffect DEF Refuses, SameParts
<1>13. CASE VerifyBuild
  BY <1>2, <1>13, VerifyEffect
<1>14. CASE HandleBlocker
  BY <1>2, <1>14, BlockerEffect
<1>15. CASE GenerateFinalPackage
  <2>1. <<"final">> \in Seq(Origins)
    BY DEF Origins
  <2> QED BY <1>3, <1>15, <2>1, PackageEffect
<1>16. CASE RememberOutcome
  BY <1>2, <1>16, RememberEffect DEF SameParts
<1>17. CASE ReportResult
  BY <1>2, <1>17, ReportEffect
<1>18. CASE Failed
  BY <1>1, <1>18, FailedEffect
<1>19. CASE Raise
  BY <1>2, <1>19 DEF Raise
<1> QED
  BY <1>4, <1>5, <1>6, <1>7, <1>8, <1>9, <1>10, <1>11, <1>12, <1>13, <1>14, <1>15, <1>16,
     <1>17, <1>18, <1>19 DEF Next

\* The store holds what the run has.
Holds(d, s) ==
    /\ d.status = s.status
    /\ d.agent_steps = s.agent_steps
    /\ d.tool_calls = s.tool_calls
    /\ d.generated_artifacts = s.generated_artifacts
    /\ d.final_report = s.final_report

\* It holds what the run had a node ago.
Lags(d, s) ==
    /\ IsExtension(d.agent_steps, s.agent_steps)
    /\ IsExtension(d.tool_calls, s.tool_calls)
    /\ IsExtension(d.generated_artifacts, s.generated_artifacts)
    /\ Len(d.tool_calls) >= Len(s.tool_calls) - 1
    /\ d.status \in {"started", "failed"}
    /\ d.status = "failed" => s.status = "failed"
    /\ s.status = "completed" => d.final_report.status # "none"
    /\ d.final_report.status # "none" => s.final_report.status # "none"

LEMMA NodeLags ==
    ASSUME RunInv, Next, Holds(detail, state)
    PROVE  Lags(detail, state')
<1> USE DEF Holds
<1>0. TypeOK /\ Alive /\ ControlInv /\ Verified
  BY DEF RunInv, SafetyInv, ControlInv
<1>1. Control /\ (Inward \/ Outward)
  BY <1>0, NextControl, NextTools
<1>2. IsExtension(state.agent_steps, state'.agent_steps)
  <2>1. state.agent_steps \in Seq(Steps)
    BY <1>0 DEF TypeOK, States
  <2>2. CASE state'.agent_steps = state.agent_steps
    BY <2>1, <2>2, Extends
  <2>3. CASE \E n \in Nodes : Entered(state, state', n)
    BY <2>1, <2>3, ExtendsByOne DEF Entered, Steps
  <2> QED BY <1>0, <1>1, <2>2, <2>3 DEF Control, Continues, Blocks, Recovers, Stops,
             Refuses, Refusing, Delivers, GivesUp, Raises, Moves, OnTheWay, Nodes
<1>3. /\ IsExtension(state.tool_calls, state'.tool_calls)
      /\ Len(state.tool_calls) >= Len(state'.tool_calls) - 1
  <2>1. state.tool_calls \in Seq(Calls) /\ Len(state.tool_calls) \in Nat
    BY <1>0 DEF TypeOK, States
  <2>2. CASE Inward
    BY <2>1, <2>2, Extends DEF Inward, Tools
  <2>3. CASE Outward
    <3>1. PICK call \in Calls : CallsTool(call)
      BY <2>3 DEF Outward
    <3>2. Len(state'.tool_calls) = Len(state.tool_calls) + 1
      BY <1>0, <3>1, CallsToolTrace
    <3>3. state'.tool_calls = Append(state.tool_calls, call)
      BY <3>1 DEF CallsTool, Tools
    <3>4. IsExtension(state.tool_calls, state'.tool_calls)
      BY <2>1, <3>3, ExtendsByOne
    <3> QED BY <2>1, <3>2, <3>4
  <2> QED BY <1>1, <2>2, <2>3
<1>4. /\ IsExtension(state.generated_artifacts, state'.generated_artifacts)
      /\ state.final_report.status # "none" => state'.final_report.status # "none"
  <2>1. state.generated_artifacts \in Seq(Origins)
    BY <1>0 DEF TypeOK, States
  <2> QED BY <1>0, <2>1, NextProducts, Extends
<1>5. /\ state.status \in {"started", "failed"}
      /\ state.status = "failed" => state'.status = "failed"
  <2>1. state.status \in {"started", "completed", "failed"}
    BY <1>0 DEF TypeOK, States
  <2>2. node # "END"
    BY <1>1 DEF Control, Continues, Blocks, Recovers, Stops, Refuses, Refusing, Delivers,
           GivesUp, Raises, Moves, OnTheWay, Nodes
  <2>3. state.status # "completed"
    BY <1>0, <2>2 DEF ControlInv, Concluded
  <2>4. CASE state.status = "failed"
    <3>1. node = "failed"
      BY <1>0, <2>2, <2>4 DEF ControlInv, Concluded
    <3>2. GivesUp
      BY <1>1, <3>1 DEF Control, Continues, Blocks, Recovers, Stops, Refuses, Refusing,
             Delivers, Raises, Moves, OnTheWay, Nodes
    <3> QED BY <2>4, <3>2 DEF GivesUp, Verdict
  <2> QED BY <2>1, <2>3, <2>4
<1>6. state'.status = "completed" => state.final_report.status # "none"
  <2>1. SUFFICES ASSUME state'.status = "completed"
                 PROVE  state.final_report.status # "none"
    OBVIOUS
  <2>2. Delivers
    BY <1>0, <1>1, <1>5, <2>1, SameVerdict DEF Control, Continues, Blocks, Recovers, Stops, Refuses,
           Refusing, GivesUp, Raises, Verdict, Alive, OnTheWay, Moves, Nodes
  <2> QED BY <1>0, <2>2 DEF Delivers, Moves, Verified
<1> QED BY <1>2, <1>3, <1>4, <1>5, <1>6 DEF Lags

(* The shape of what the store holds. *)

LEMMA NoDetailType == NoDetail \in Details
<1>1. /\ <<>> \in Seq(Steps) /\ <<>> \in Seq(Calls) /\ <<>> \in Seq(Origins)
      /\ [p \in Phases |-> "pending"] \in [Phases -> PhaseStatuses]
  BY DEF PhaseStatuses
<1>2. NoReport \in Reports
  BY DEF NoReport, Reports
<1>3. [a \in Approvals |-> "none"] \in [Approvals -> {"none", "pending"} \cup Decisions]
  OBVIOUS
<1> QED BY <1>1, <1>2, <1>3 DEF NoDetail, Details

LEMMA SnapshotType ==
    ASSUME NEW d \in Details, NEW s \in States
    PROVE  /\ Snapshot(d, s) \in Details
           /\ Holds(Snapshot(d, s), s)
           /\ Snapshot(d, s).approvals = d.approvals
<1>1. /\ s.status \in {"absent", "started", "completed", "failed"}
      /\ s.agent_steps \in Seq(Steps) /\ s.tool_calls \in Seq(Calls)
      /\ s.generated_artifacts \in Seq(Origins)
      /\ s.build_timeline \in [Phases -> PhaseStatuses]
      /\ s.mvp_validation \in [run : BOOLEAN, broken : SUBSET Checks]
      /\ s.final_report \in Reports
  BY DEF States
<1>2. /\ d.mvp_validation \in [run : BOOLEAN, broken : SUBSET Checks]
      /\ d.approvals \in [Approvals -> {"none", "pending"} \cup Decisions]
  BY DEF Details
<1> DEFINE v == IF s.mvp_validation.run THEN s.mvp_validation ELSE d.mvp_validation
<1>3. v \in [run : BOOLEAN, broken : SUBSET Checks]
  BY <1>1, <1>2
<1> HIDE DEF v
<1>4. Snapshot(d, s) =
         [status |-> s.status, agent_steps |-> s.agent_steps, tool_calls |-> s.tool_calls,
          generated_artifacts |-> s.generated_artifacts,
          build_timeline |-> s.build_timeline, mvp_validation |-> v,
          final_report |-> s.final_report, approvals |-> d.approvals]
  BY DEF Snapshot, v
<1>5. Snapshot(d, s) \in Details
  BY <1>1, <1>2, <1>3, <1>4 DEF Details
<1> QED BY <1>4, <1>5 DEF Holds

\* A failure the graph did not handle extends the trace and keeps the rest.
LEMMA UnexpectedType ==
    ASSUME NEW c \in Details, NEW d \in Details, settings \in Settings
    PROVE  LET u == [UnexpectedFailure(c) EXCEPT !.approvals = d.approvals]
           IN  /\ u \in Details
               /\ u.status = "failed" /\ u.final_report.status = "failed"
               /\ u.agent_steps = Append(c.agent_steps, [node |-> "failed", status |-> "failed"])
               /\ u.tool_calls = c.tool_calls
               /\ u.generated_artifacts = c.generated_artifacts
               /\ u.approvals = d.approvals
<1> DEFINE e == [node |-> "failed", status |-> "failed"]
           r == [status |-> "failed",
                 mode |-> IF settings.mock_mode THEN "mock" ELSE "live",
                 summary |-> "failed", artifact_count |-> 0]
           q == Append(c.agent_steps, e)
           u == [UnexpectedFailure(c) EXCEPT !.approvals = d.approvals]
<1>1. e \in Steps
  BY DEF Steps, Nodes, StepStatuses
<1>2. r \in Reports /\ r.status = "failed"
  BY DEF Reports, Nodes, Modes
<1>3. u = [[c EXCEPT !.status = "failed", !.agent_steps = q, !.final_report = r]
              EXCEPT !.approvals = d.approvals]
  BY DEF UnexpectedFailure
<1>4. c.agent_steps \in Seq(Steps)
  BY DEF Details
<1> HIDE DEF e, r
<1>5. q \in Seq(Steps)
  BY <1>1, <1>4
<1> HIDE DEF q, u
<1>6. d.approvals \in [Approvals -> {"none", "pending"} \cup Decisions]
  BY DEF Details
<1>7. u \in Details
  BY <1>2, <1>3, <1>5, <1>6 DEF Details
<1>8. /\ u.status = "failed" /\ u.final_report = r /\ u.agent_steps = q
      /\ u.tool_calls = c.tool_calls
      /\ u.generated_artifacts = c.generated_artifacts
      /\ u.approvals = d.approvals
  BY <1>3 DEF Details
<1> QED BY <1>2, <1>7, <1>8 DEF u, q, e

LEMMA ApprovalType ==
    ASSUME NEW d \in Details, NEW a \in Approvals, NEW v \in {"pending"} \cup Decisions
    PROVE  LET u == [d EXCEPT !.approvals[a] = v]
           IN  /\ u \in Details
               /\ u.status = d.status /\ u.final_report = d.final_report
               /\ u.agent_steps = d.agent_steps
               /\ u.tool_calls = d.tool_calls
               /\ u.generated_artifacts = d.generated_artifacts
               /\ u.approvals = [d.approvals EXCEPT ![a] = v]
<1> DEFINE f == [d.approvals EXCEPT ![a] = v]
           u == [d EXCEPT !.approvals[a] = v]
<1>1. d.approvals \in [Approvals -> {"none", "pending"} \cup Decisions]
  BY DEF Details
<1>2. f \in [Approvals -> {"none", "pending"} \cup Decisions]
  BY <1>1
<1>3. u = [d EXCEPT !.approvals = f]
  BY DEF Details
<1> HIDE DEF f, u
<1>4. u \in Details
  BY <1>2, <1>3 DEF Details
<1>5. /\ u.status = d.status /\ u.final_report = d.final_report
      /\ u.agent_steps = d.agent_steps
      /\ u.tool_calls = d.tool_calls
      /\ u.generated_artifacts = d.generated_artifacts
      /\ u.approvals = f
  BY <1>3 DEF Details
<1> QED BY <1>4, <1>5 DEF u, f

LEMMA RunnerInitType == RunnerInit => RunnerTypeOK
BY InitType, NoDetailType DEF RunnerInit, RunnerTypeOK

\* An approval changes the store and nothing else.
Decides ==
    /\ detail.status # "absent" \/ \E a \in Approvals : detail.approvals[a] # "none"
    /\ detail' \in Details
    /\ detail'.status = detail.status /\ detail'.final_report = detail.final_report
    /\ detail'.agent_steps = detail.agent_steps
    /\ detail'.tool_calls = detail.tool_calls
    /\ detail'.generated_artifacts = detail.generated_artifacts
    /\ \E a \in Approvals, v \in {"pending"} \cup Decisions :
          /\ detail'.approvals = [detail.approvals EXCEPT ![a] = v]
          /\ v = "pending" => detail.approvals[a] = "none"
    /\ UNCHANGED <<vars, runner, carried, served>>

LEMMA ApprovalDecides ==
    ASSUME RunnerTypeOK, NEW a \in Approvals,
           SeedApproval(a) \/ \E decision \in Decisions : ResolveApproval(a, decision)
    PROVE  Decides
<1>0. detail \in Details
  BY DEF RunnerTypeOK
<1>1. CASE SeedApproval(a)
  BY <1>0, <1>1, ApprovalType DEF SeedApproval, Decides
<1>2. ASSUME NEW decision \in Decisions, ResolveApproval(a, decision) PROVE Decides
  <2>1. decision # "pending"
    BY DEF Decisions
  <2> QED BY <1>0, <1>2, <2>1, ApprovalType DEF ResolveApproval, Decides
<1> QED BY <1>1, <1>2

LEMMA RunnerVars ==
    ASSUME [RunnerNext]_allVars
    PROVE  [Next]_vars
BY DEF RunnerNext, allVars, runnerVars, Coroutine, StartTask, BeginRun, StoreSnapshot,
       RunNode, CatchException, StoreFailure, SeedApproval, ResolveApproval, Restart,
       ReloadSettings

LEMMA RunnerNextType == RunnerTypeOK /\ [RunnerNext]_allVars => RunnerTypeOK'
<1> SUFFICES ASSUME RunnerTypeOK, [RunnerNext]_allVars PROVE RunnerTypeOK'
  OBVIOUS
<1>0. /\ TypeOK' /\ state \in States /\ settings \in Settings
      /\ detail \in Details /\ carried \in Details /\ served \in BOOLEAN
      /\ runner \in {"idle", "queued", "storing", "running", "caught", "failing",
                     "stopped", "gone"}
  BY NextType, RunnerVars DEF RunnerTypeOK, TypeOK
<1> USE DEF RunnerTypeOK
<1>1. CASE StartTask
  <2>1. [detail EXCEPT !.status = "started"] \in Details
    BY <1>0 DEF Details
  <2> QED BY <1>0, <1>1, <2>1 DEF StartTask
<1>2. CASE BeginRun
  BY <1>0, <1>2 DEF BeginRun
<1>3. CASE StoreSnapshot
  BY <1>0, <1>3, SnapshotType DEF StoreSnapshot
<1>4. CASE RunNode
  BY <1>0, <1>4 DEF RunNode
<1>5. CASE CatchException
  BY <1>0, <1>5 DEF CatchException
<1>6. CASE StoreFailure
  BY <1>0, <1>6, UnexpectedType DEF StoreFailure
<1>7. ASSUME NEW a \in Approvals,
             SeedApproval(a) \/ \E decision \in Decisions : ResolveApproval(a, decision)
      PROVE  RunnerTypeOK'
  BY <1>0, <1>7, ApprovalDecides DEF Decides
<1>8. CASE Restart
  BY <1>0, <1>8, NoDetailType DEF Restart
<1>9. CASE ReloadSettings
  BY <1>0, <1>9 DEF ReloadSettings
<1>10. CASE UNCHANGED allVars
  BY <1>0, <1>10 DEF allVars, runnerVars
<1> QED BY <1>1, <1>2, <1>3, <1>4, <1>5, <1>6, <1>7, <1>8, <1>9, <1>10
        DEF RunnerNext, Coroutine

\* Where the coroutine stands, and what the store then holds.
Standing ==
    /\ runner = "idle" => detail = NoDetail
    /\ runner \in {"idle", "queued"} => state = InitialState
    /\ runner = "queued" =>
          /\ detail.status = "started" /\ detail.final_report = NoReport
          /\ detail.agent_steps = <<>> /\ detail.tool_calls = <<>>
          /\ detail.generated_artifacts = <<>>
    /\ runner \in {"idle", "queued", "storing", "running"} => node # "raised"
    /\ runner = "storing" => Lags(detail, state)
    /\ runner \in {"running", "caught", "failing"} => Holds(detail, state)
    /\ runner \in {"caught", "failing"} => node = "raised"
    /\ runner = "failing" =>
          /\ carried.agent_steps = detail.agent_steps
          /\ carried.tool_calls = detail.tool_calls
          /\ carried.generated_artifacts = detail.generated_artifacts
    /\ runner = "stopped" => detail.tool_calls = state.tool_calls
    /\ runner \notin {"idle", "gone"} => detail.status # "absent"
    /\ StoppedIsSettled

TaskInv == RunnerTypeOK /\ RunInv /\ Standing

LEMMA InitStanding == RunnerInit => TaskInv
<1> SUFFICES ASSUME RunnerInit PROVE TaskInv
  OBVIOUS
<1>1. RunnerTypeOK /\ RunInv
  BY RunnerInitType, InitRun DEF RunnerInit
<1>2. Standing
  BY DEF RunnerInit, Init, Standing, StoppedIsSettled
<1> QED BY <1>1, <1>2 DEF TaskInv

LEMMA StartStanding ==
    ASSUME TaskInv, StartTask
    PROVE  Standing'
<1>1. /\ detail = NoDetail /\ runner' = "queued" /\ state' = state /\ node' = node
      /\ state = InitialState /\ node # "raised"
      /\ detail' = [NoDetail EXCEPT !.status = "started"]
  BY DEF TaskInv, Standing, StartTask, vars
<1>2. /\ detail'.status = "started" /\ detail'.final_report = NoReport
      /\ detail'.agent_steps = <<>> /\ detail'.tool_calls = <<>>
      /\ detail'.generated_artifacts = <<>>
  BY <1>1 DEF NoDetail
<1> QED BY <1>1, <1>2 DEF Standing, StoppedIsSettled

LEMMA BeginStanding ==
    ASSUME TaskInv, BeginRun
    PROVE  Standing'
<1>1. /\ runner = "queued" /\ runner' = "storing"
      /\ state' = state /\ node' = node /\ detail' = detail
  BY DEF BeginRun, vars
<1>2. /\ state = InitialState /\ node # "raised"
      /\ detail.status = "started" /\ detail.final_report = NoReport
      /\ detail.agent_steps = <<>> /\ detail.tool_calls = <<>>
      /\ detail.generated_artifacts = <<>>
  BY <1>1 DEF TaskInv, Standing
<1>3. /\ state.agent_steps = <<>> /\ state.tool_calls = <<>>
      /\ state.generated_artifacts = <<>> /\ state.status = "started"
  BY <1>2 DEF InitialState
<1>4. IsExtension(<<>>, <<>>) /\ Len(<<>>) = 0
  <2>1. <<>> \in Seq({})
    OBVIOUS
  <2> QED BY <2>1, Extends
<1>5. Lags(detail, state)
  BY <1>2, <1>3, <1>4 DEF Lags, NoReport
<1> QED BY <1>1, <1>2, <1>5 DEF Standing, StoppedIsSettled

LEMMA StoreStanding ==
    ASSUME TaskInv, StoreSnapshot
    PROVE  Standing'
<1>1. /\ runner = "storing" /\ detail' = Snapshot(detail, state)
      /\ runner' = IF node = "END" THEN "stopped" ELSE "running"
      /\ state' = state /\ node' = node /\ world' = world
  BY DEF StoreSnapshot, vars
<1>2. Holds(detail', state) /\ state.status \in {"started", "completed", "failed"}
  BY <1>1, SnapshotType DEF TaskInv, RunnerTypeOK, TypeOK, States
<1>3. node # "raised"
  BY <1>1 DEF TaskInv, Standing
<1>4. /\ detail'.status # "absent"
      /\ detail'.tool_calls = state.tool_calls
  BY <1>2 DEF Holds
<1>5. CASE node = "END"
  <2>1. /\ state.status \in {"completed", "failed"}
        /\ state.final_report.status = state.status
    BY <1>2, <1>5 DEF TaskInv, RunInv, ControlInv, Concluded, CompletedIsDelivered,
                      FailureIsExplained
  <2>2. /\ world'.repos > 0   => OnRecord("github.create_repo")'
        /\ world'.commits > 0 => OnRecord("github.commit_files")'
    BY <1>1, <1>4 DEF TaskInv, RunInv, Recorded, Recalls, OnRecord
  <2>3. StoppedIsSettled'
    BY <1>2, <2>1, <2>2 DEF StoppedIsSettled, Holds
  <2>4. runner' = "stopped"
    BY <1>1, <1>5
  <2> QED BY <1>1, <1>3, <1>4, <2>3, <2>4 DEF Standing
<1>6. CASE node # "END"
  BY <1>1, <1>2, <1>3, <1>4, <1>6 DEF Standing, StoppedIsSettled
<1> QED BY <1>5, <1>6

LEMMA RunNodeStanding ==
    ASSUME TaskInv, RunNode
    PROVE  Standing'
<1>1. /\ runner = "running" /\ Next /\ detail' = detail
      /\ runner' = IF node' = "raised" THEN "caught" ELSE "storing"
  BY DEF RunNode
<1>2. Holds(detail, state) /\ RunInv
  BY <1>1 DEF TaskInv, Standing
<1>3. Lags(detail, state')
  BY <1>1, <1>2, NodeLags
<1>4. detail.status # "absent"
  BY <1>3 DEF Lags
<1>5. CASE node' = "raised"
  <2>1. Control
    BY <1>1, <1>2, NextControl DEF RunInv, SafetyInv, ControlInv
  <2>2. state' = state
    BY <1>5, <2>1 DEF Control, Continues, Blocks, Recovers, Stops, Refuses, Refusing,
           Delivers, GivesUp, Raises, Moves, OnTheWay, Nodes
  <2> QED BY <1>1, <1>2, <1>4, <1>5, <2>2 DEF Standing, StoppedIsSettled
<1>6. CASE node' # "raised"
  BY <1>1, <1>3, <1>4, <1>6 DEF Standing, StoppedIsSettled
<1> QED BY <1>5, <1>6

LEMMA CatchStanding ==
    ASSUME TaskInv, CatchException
    PROVE  Standing'
<1>1. /\ runner = "caught" /\ runner' = "failing" /\ carried' = detail
      /\ detail' = detail /\ state' = state /\ node' = node
  BY DEF CatchException, vars
<1> QED BY <1>1 DEF TaskInv, Standing, StoppedIsSettled

LEMMA StoreFailureStanding ==
    ASSUME TaskInv, StoreFailure
    PROVE  Standing'
<1>1. /\ runner = "failing" /\ runner' = "stopped"
      /\ detail' = [UnexpectedFailure(carried) EXCEPT !.approvals = detail.approvals]
      /\ state' = state /\ world' = world /\ node' = node
  BY DEF StoreFailure, vars
<1>2. /\ detail'.status = "failed" /\ detail'.final_report.status = "failed"
      /\ detail'.tool_calls = carried.tool_calls
  BY <1>1, UnexpectedType DEF TaskInv, RunnerTypeOK, TypeOK
<1>3. detail'.tool_calls = state.tool_calls
  BY <1>1, <1>2 DEF TaskInv, Standing, Holds
<1>4. StoppedIsSettled'
  BY <1>1, <1>2, <1>3 DEF TaskInv, RunInv, Recorded, Recalls, OnRecord, StoppedIsSettled
<1> QED BY <1>1, <1>2, <1>3, <1>4 DEF Standing

LEMMA DecidesStanding ==
    ASSUME TaskInv, Decides
    PROVE  Standing'
<1>1. /\ state' = state /\ node' = node /\ world' = world /\ runner' = runner
      /\ carried' = carried
      /\ detail'.status = detail.status /\ detail'.final_report = detail.final_report
      /\ detail'.agent_steps = detail.agent_steps
      /\ detail'.tool_calls = detail.tool_calls
      /\ detail'.generated_artifacts = detail.generated_artifacts
  BY DEF Decides, vars
<1>2. runner # "idle"
  <2>1. SUFFICES ASSUME runner = "idle" PROVE FALSE
    OBVIOUS
  <2>2. detail = NoDetail
    BY <2>1 DEF TaskInv, Standing
  <2> QED BY <2>2 DEF Decides, NoDetail
<1>3. StoppedIsSettled'
  BY <1>1 DEF TaskInv, Standing, StoppedIsSettled, OnRecord
<1>4. Holds(detail, state) => Holds(detail', state')
  BY <1>1 DEF Holds
<1>5. Lags(detail, state) => Lags(detail', state')
  BY <1>1 DEF Lags
<1> QED BY <1>1, <1>2, <1>3, <1>4, <1>5 DEF TaskInv, Standing

LEMMA NextTask == TaskInv /\ [RunnerNext]_allVars => TaskInv'
<1> SUFFICES ASSUME TaskInv, [RunnerNext]_allVars PROVE TaskInv'
  OBVIOUS
<1>0. RunnerTypeOK' /\ RunInv' /\ RunnerTypeOK
  BY RunnerNextType, RunnerVars, NextRun DEF TaskInv
<1> SUFFICES Standing'
  BY <1>0 DEF TaskInv
<1>1. CASE StartTask
  BY <1>1, StartStanding
<1>2. CASE BeginRun
  BY <1>2, BeginStanding
<1>3. CASE StoreSnapshot
  BY <1>3, StoreStanding
<1>4. CASE RunNode
  BY <1>4, RunNodeStanding
<1>5. CASE CatchException
  BY <1>5, CatchStanding
<1>6. CASE StoreFailure
  BY <1>6, StoreFailureStanding
<1>7. ASSUME NEW a \in Approvals,
             SeedApproval(a) \/ \E decision \in Decisions : ResolveApproval(a, decision)
      PROVE  Standing'
  BY <1>0, <1>7, ApprovalDecides, DecidesStanding
<1>8. CASE Restart
  <2>1. runner' = "gone"
    BY <1>8 DEF Restart
  <2> QED BY <2>1 DEF Standing, StoppedIsSettled
<1>9. CASE ReloadSettings \/ UNCHANGED allVars
  <2>1. /\ state' = state /\ node' = node /\ world' = world /\ runner' = runner
        /\ carried' = carried /\ detail' = detail
    BY <1>9 DEF ReloadSettings, allVars, runnerVars, vars
  <2> QED BY <2>1 DEF TaskInv, Standing, StoppedIsSettled, OnRecord, Holds, Lags
<1> QED BY <1>1, <1>2, <1>3, <1>4, <1>5, <1>6, <1>7, <1>8, <1>9 DEF RunnerNext, Coroutine

\* The invariant of a task: the shape of the store, the invariant of the run,
\* and for every place of the coroutine how far the store is behind the run.
THEOREM TaskInvariant == RunnerSpec => []TaskInv
<1>1. RunnerInit => TaskInv
  BY InitStanding
<1>2. TaskInv /\ [RunnerNext]_allVars => TaskInv'
  BY NextTask
<1> QED BY <1>1, <1>2, PTL DEF RunnerSpec

\* The store and the coroutine keep their shape.
THEOREM RunnerTypeCorrect == RunnerSpec => []RunnerTypeOK
<1>1. TaskInv => RunnerTypeOK
  BY DEF TaskInv
<1> QED BY <1>1, TaskInvariant, PTL

\* What is proved of a run holds of the run of a task, whatever the store, the
\* API and the process do meanwhile.
THEOREM TaskKeepsTheRun ==
    RunnerSpec => [](/\ AuthorisedEffects /\ CommitsAreValidated
                     /\ CompletedIsDelivered /\ FailureIsExplained /\ LoopIsBounded)
<1>1. TaskInv => /\ AuthorisedEffects /\ CommitsAreValidated
                 /\ CompletedIsDelivered /\ FailureIsExplained /\ LoopIsBounded
  <2> SUFFICES ASSUME TaskInv
               PROVE  /\ AuthorisedEffects /\ CommitsAreValidated
                      /\ CompletedIsDelivered /\ FailureIsExplained /\ LoopIsBounded
    OBVIOUS
  <2>1. RunInv /\ SafetyInv
    BY DEF TaskInv, RunInv
  <2>2. AuthorisedEffects /\ CommitsAreValidated
    BY <2>1, SafetyImplies
  <2>3. CompletedIsDelivered
    BY <2>1 DEF RunInv
  <2>4. FailureIsExplained
    BY <2>1 DEF RunInv, ControlInv, Concluded
  <2>5. LoopIsBounded
    BY <2>1 DEF RunInv, ControlInv, Traced, CommitsOnce, LoopIsBounded, LongestRun,
           RecursionLimit
  <2> QED BY <2>2, <2>3, <2>4, <2>5
<1> QED BY <1>1, TaskInvariant, PTL

\* Once the run of a task is failed it only ends.
THEOREM TaskFailureStops == RunnerSpec => FailureStopsTheRun
<1>1. TaskInv => RunInv
  BY DEF TaskInv
<1>2. [RunnerNext]_allVars => [Next]_vars
  BY RunnerVars
<1> QED BY <1>1, <1>2, FailureStep, TaskInvariant, PTL DEF RunnerSpec, FailureStopsTheRun

\* A coroutine that stopped left a verdict, a report that agrees with it, and
\* the calls of everything it wrote on record.
THEOREM StoppedSettledAlways == RunnerSpec => []StoppedIsSettled
<1>1. TaskInv => StoppedIsSettled
  BY DEF TaskInv, Standing
<1> QED BY <1>1, TaskInvariant, PTL

\* An observer of the store is never more than one node behind the run.
THEOREM ObserverAlways == RunnerSpec => []ObserverKeepsUp
<1>1. TaskInv => ObserverKeepsUp
  <2> SUFFICES ASSUME TaskInv PROVE ObserverKeepsUp
    OBVIOUS
  <2>1. Len(state.tool_calls) \in Nat
    BY DEF TaskInv, RunInv, SafetyInv, TypeOK, States
  <2>2. runner = "stopped" => Len(detail.tool_calls) >= Len(state.tool_calls) - 1
    BY <2>1 DEF TaskInv, Standing
  <2> QED BY <2>2 DEF TaskInv, Standing, Holds, Lags, ObserverKeepsUp
<1> QED BY <1>1, TaskInvariant, PTL

LEMMA DetailExtends ==
    ASSUME NEW d \in Details, NEW e,
           e.agent_steps = d.agent_steps, e.tool_calls = d.tool_calls,
           e.generated_artifacts = d.generated_artifacts
    PROVE  /\ IsExtension(d.agent_steps, e.agent_steps)
           /\ IsExtension(d.tool_calls, e.tool_calls)
           /\ IsExtension(d.generated_artifacts, e.generated_artifacts)
<1>1. /\ d.agent_steps \in Seq(Steps) /\ d.tool_calls \in Seq(Calls)
      /\ d.generated_artifacts \in Seq(Origins)
  BY DEF Details
<1> QED BY <1>1, Extends

\* What a client has read of a task is never taken back while its store lives.
THEOREM HistoryGrowsAlways == RunnerSpec => HistoryOnlyGrows
<1> DEFINE grows == /\ IsExtension(detail.agent_steps, detail'.agent_steps)
                    /\ IsExtension(detail.tool_calls, detail'.tool_calls)
                    /\ IsExtension(detail.generated_artifacts, detail'.generated_artifacts)
<1>1. ASSUME TaskInv, RunnerNext, runner' # "gone" PROVE grows
  <2>0. RunnerTypeOK /\ detail \in Details
    BY <1>1 DEF TaskInv, RunnerTypeOK
  <2>1. ASSUME detail'.agent_steps = detail.agent_steps,
               detail'.tool_calls = detail.tool_calls,
               detail'.generated_artifacts = detail.generated_artifacts
        PROVE  grows
    BY <2>0, <2>1, DetailExtends
  <2> HIDE DEF grows
  <2>2. CASE detail' = detail
    BY <2>1, <2>2
  <2>3. CASE StartTask
    <3>1. detail' = [detail EXCEPT !.status = "started"]
      BY <2>3 DEF StartTask
    <3>2. /\ detail'.agent_steps = detail.agent_steps
          /\ detail'.tool_calls = detail.tool_calls
          /\ detail'.generated_artifacts = detail.generated_artifacts
      BY <2>0, <3>1 DEF Details
    <3> QED BY <2>1, <3>2
  <2>4. CASE StoreSnapshot
    <3>1. Holds(detail', state) /\ Lags(detail, state)
      BY <1>1, <2>0, <2>4, SnapshotType DEF TaskInv, Standing, StoreSnapshot,
         RunnerTypeOK, TypeOK
    <3> QED BY <3>1 DEF Holds, Lags, grows
  <2>5. CASE StoreFailure
    <3> DEFINE e == [node |-> "failed", status |-> "failed"]
    <3>1. /\ detail'.agent_steps = Append(carried.agent_steps, e)
          /\ detail'.tool_calls = carried.tool_calls
          /\ detail'.generated_artifacts = carried.generated_artifacts
      BY <1>1, <2>5, UnexpectedType DEF TaskInv, StoreFailure, RunnerTypeOK, TypeOK
    <3>2. /\ carried.agent_steps = detail.agent_steps
          /\ carried.tool_calls = detail.tool_calls
          /\ carried.generated_artifacts = detail.generated_artifacts
      BY <1>1, <2>5 DEF TaskInv, Standing, StoreFailure
    <3>3. e \in Steps
      BY DEF Steps, Nodes, StepStatuses
    <3>4. detail.agent_steps \in Seq(Steps) /\ detail.tool_calls \in Seq(Calls)
          /\ detail.generated_artifacts \in Seq(Origins)
      BY <2>0 DEF Details
    <3> HIDE DEF e
    <3> QED BY <3>1, <3>2, <3>3, <3>4, Extends, ExtendsByOne DEF grows
  <2>6. CASE BeginRun \/ RunNode \/ CatchException \/ ReloadSettings
    BY <2>2, <2>6 DEF BeginRun, RunNode, CatchException, ReloadSettings
  <2>7. ASSUME NEW a \in Approvals,
               SeedApproval(a) \/ \E decision \in Decisions : ResolveApproval(a, decision)
        PROVE  grows
    BY <2>0, <2>1, <2>7, ApprovalDecides DEF Decides
  <2>8. CASE Restart
    BY <1>1, <2>8 DEF Restart
  <2> QED BY <1>1, <2>3, <2>4, <2>5, <2>6, <2>7, <2>8 DEF RunnerNext, Coroutine
<1>2. TaskInv /\ [RunnerNext]_allVars => [runner' # "gone" => grows]_allVars
  BY <1>1
<1> QED BY <1>2, TaskInvariant, PTL DEF RunnerSpec, HistoryOnlyGrows

\* An approval that was asked for or decided outlives the snapshots and the
\* failure of the run.
THEOREM ApprovalsSurviveAlways == RunnerSpec => ApprovalsSurvive
<1> DEFINE survive == \A a \in Approvals :
              /\ detail.approvals[a] # "none" => detail'.approvals[a] # "none"
              /\ detail.approvals[a] \in Decisions => detail'.approvals[a] \in Decisions
<1>1. ASSUME TaskInv, RunnerNext, runner' # "gone" PROVE survive
  <2>0. /\ RunnerTypeOK /\ detail \in Details
        /\ detail.approvals \in [Approvals -> {"none", "pending"} \cup Decisions]
    BY <1>1 DEF TaskInv, RunnerTypeOK, Details
  <2>1. CASE detail'.approvals = detail.approvals
    BY <2>1
  <2>2. CASE StartTask
    <3>1. detail'.approvals = detail.approvals
      BY <2>0, <2>2 DEF StartTask, Details
    <3> QED BY <2>1, <3>1
  <2>3. CASE StoreSnapshot
    <3>1. detail'.approvals = detail.approvals
      BY <2>0, <2>3, SnapshotType DEF StoreSnapshot, RunnerTypeOK, TypeOK
    <3> QED BY <2>1, <3>1
  <2>4. CASE StoreFailure
    <3>1. detail'.approvals = detail.approvals
      BY <2>0, <2>4, UnexpectedType DEF StoreFailure, RunnerTypeOK, TypeOK
    <3> QED BY <2>1, <3>1
  <2>5. CASE BeginRun \/ RunNode \/ CatchException \/ ReloadSettings
    BY <2>1, <2>5 DEF BeginRun, RunNode, CatchException, ReloadSettings
  <2>6. ASSUME NEW a \in Approvals,
               SeedApproval(a) \/ \E decision \in Decisions : ResolveApproval(a, decision)
        PROVE  survive
    <3>1. PICK b \in Approvals, v \in {"pending"} \cup Decisions :
             /\ detail'.approvals = [detail.approvals EXCEPT ![b] = v]
             /\ v = "pending" => detail.approvals[b] = "none"
      BY <2>0, <2>6, ApprovalDecides DEF Decides
    <3>2. v # "none" /\ "none" \notin Decisions
      BY DEF Decisions
    <3> QED BY <2>0, <3>1, <3>2
  <2>7. CASE Restart
    BY <1>1, <2>7 DEF Restart
  <2> QED BY <1>1, <2>2, <2>3, <2>4, <2>5, <2>6, <2>7 DEF RunnerNext, Coroutine
<1>2. TaskInv /\ [RunnerNext]_allVars => [runner' # "gone" => survive]_allVars
  BY <1>1
<1> QED BY <1>2, TaskInvariant, PTL DEF RunnerSpec, ApprovalsSurvive

-----------------------------------------------------------------------------
(* The promise of the lifecycle: every step of a task is a step of it, or     *)
(* does not show.  That the task ends is left to model checking.             *)

shownPhase    == IF Answering THEN detail.status ELSE "lost"
shownReport == Answering /\ detail.final_report.status # "none"
shownWrites  == world.repos + world.commits

Promises == Lifecycle!Next \/ UNCHANGED <<shownPhase, shownReport, shownWrites>>

\* A step that leaves the status, the report and the world alone does not show.
LEMMA Unseen ==
    ASSUME detail'.status = detail.status, detail'.final_report = detail.final_report,
           runner' = "gone" <=> runner = "gone", served' = served, world' = world
    PROVE  UNCHANGED <<shownPhase, shownReport, shownWrites>>
BY DEF shownPhase, shownReport, shownWrites, Answering

LEMMA StepPromises ==
    ASSUME TaskInv, RunnerNext
    PROVE  Promises
<1> USE DEF Promises
<1>0. /\ RunnerTypeOK /\ detail \in Details /\ served \in BOOLEAN /\ TypeOK /\ Alive
      /\ RunInv /\ Standing
  BY DEF TaskInv, RunnerTypeOK, RunInv, ControlInv
<1>1. CASE StartTask
  <2>1. /\ runner = "idle" /\ runner' = "queued" /\ served' = served /\ world' = world
        /\ detail = NoDetail /\ detail' = [detail EXCEPT !.status = "started"]
    BY <1>0, <1>1 DEF StartTask, Standing, vars
  <2>2. /\ detail.status = "absent" /\ detail'.status = "started"
        /\ detail'.final_report = detail.final_report
        /\ detail.final_report.status = "none"
    BY <2>1 DEF NoDetail, NoReport
  <2>3. CASE served
    BY <2>1, <2>2, <2>3 DEF Lifecycle!Next, Lifecycle!Accept, Answering
  <2>4. CASE ~served
    BY <2>1, <2>2, <2>4 DEF shownPhase, shownReport, shownWrites, Answering
  <2> QED BY <2>3, <2>4
<1>2. CASE BeginRun
  BY <1>2, Unseen DEF BeginRun, vars
<1>3. CASE StoreSnapshot
  <2>1. /\ runner = "storing" /\ runner' \in {"stopped", "running"}
        /\ served' = served /\ world' = world
        /\ Holds(detail', state) /\ Lags(detail, state)
    BY <1>0, <1>3, SnapshotType DEF StoreSnapshot, Standing, TypeOK, vars
  <2>2. /\ detail'.status = state.status
        /\ detail'.final_report.status = state.final_report.status
        /\ detail.status \in {"started", "failed"}
        /\ detail.status = "failed" => state.status = "failed"
        /\ state.status = "completed" => detail.final_report.status # "none"
        /\ detail.final_report.status # "none" => state.final_report.status # "none"
        /\ state.status \in {"started", "completed", "failed"}
    BY <1>0, <2>1 DEF Holds, Lags, TypeOK, States
  <2>3. CASE served
    <3>1. /\ shownPhase = detail.status /\ shownPhase' = state.status
          /\ shownReport = (detail.final_report.status # "none")
          /\ shownReport' = (state.final_report.status # "none")
          /\ shownWrites' = shownWrites
      BY <2>1, <2>2, <2>3 DEF shownPhase, shownReport, shownWrites, Answering
    <3>2. \/ UNCHANGED <<shownPhase, shownReport, shownWrites>>
          \/ /\ shownPhase \in {"started", "failed"} /\ ~shownReport /\ shownReport' = TRUE
             /\ UNCHANGED <<shownPhase, shownWrites>>
          \/ /\ shownPhase = "started" /\ shownReport /\ shownPhase' = "completed"
             /\ UNCHANGED <<shownReport, shownWrites>>
          \/ /\ shownPhase = "started" /\ shownPhase' = "failed"
             /\ shownReport' \in {shownReport, TRUE} /\ UNCHANGED shownWrites
      BY <2>2, <3>1
    <3> QED BY <3>2 DEF Lifecycle!Next, Lifecycle!Report, Lifecycle!Complete,
                        Lifecycle!Fail, shownPhase, shownReport, shownWrites
  <2>4. CASE ~served
    BY <2>1, <2>4 DEF shownPhase, shownReport, shownWrites, Answering
  <2> QED BY <2>3, <2>4
<1>4. CASE RunNode
  <2>1. /\ runner = "running" /\ runner' \in {"caught", "storing"} /\ Next
        /\ detail' = detail /\ served' = served
        /\ Holds(detail, state)
    BY <1>0, <1>4 DEF RunNode, Standing
  <2>2. Control /\ (Inward \/ Outward)
    BY <1>0, <2>1, NextControl, NextTools
  <2>3. shownPhase' = shownPhase /\ shownReport' = shownReport
    BY <2>1 DEF shownPhase, shownReport, Answering
  <2>4. shownWrites' \in {shownWrites, shownWrites + 1, shownWrites + 2}
    <3>1. world.repos \in Nat /\ world.commits \in Nat
      BY <1>0 DEF TypeOK, Worlds
    <3>2. \/ world'.repos = world.repos /\ world'.commits = world.commits
          \/ world'.repos = world.repos + 1 /\ world'.commits = world.commits
          \/ /\ world'.repos = world.repos
             /\ world'.commits \in {world.commits + 1, world.commits + 2}
      BY <2>2 DEF Inward, Outward
    <3> QED BY <3>1, <3>2 DEF shownWrites
  <2>5. CASE shownWrites' = shownWrites
    BY <2>3, <2>5
  <2>6. CASE shownWrites' # shownWrites
    <3>1. node \notin {"failed", "END"}
      <4>1. CASE node = "failed"
        <5>1. GivesUp
          BY <2>2, <4>1 DEF Control, Continues, Blocks, Recovers, Stops, Refuses, Refusing,
                 Delivers, Raises, Moves, OnTheWay, Nodes
        <5> QED BY <2>6, <5>1 DEF GivesUp, shownWrites
      <4>2. node # "END"
        BY <2>2 DEF Control, Continues, Blocks, Recovers, Stops, Refuses, Refusing, Delivers,
               GivesUp, Raises, Moves, OnTheWay, Nodes
      <4> QED BY <4>1, <4>2
    <3>2. detail.status = "started"
      BY <1>0, <2>1, <3>1 DEF Holds, RunInv, ControlInv, Concluded, TypeOK, States
    <3>3. shownPhase \in {"started", "lost"}
      BY <3>2 DEF shownPhase
    <3> QED BY <2>3, <2>4, <2>6, <3>3
            DEF Lifecycle!Next, Lifecycle!Work, shownPhase, shownReport, shownWrites
  <2> QED BY <2>5, <2>6
<1>5. CASE CatchException
  BY <1>5, Unseen DEF CatchException, vars
<1>6. CASE StoreFailure
  <2>1. /\ runner = "failing" /\ runner' = "stopped"
        /\ served' = served /\ world' = world
        /\ detail'.status = "failed" /\ detail'.final_report.status = "failed"
    BY <1>0, <1>6, UnexpectedType DEF StoreFailure, RunnerTypeOK, TypeOK, vars
  <2>2. detail.status = "started"
    BY <1>0, <2>1 DEF Standing, Holds, RunInv, ControlInv, Concluded, TypeOK, States
  <2>3. CASE served
    BY <2>1, <2>2, <2>3 DEF Lifecycle!Next, Lifecycle!Fail, Answering
  <2>4. CASE ~served
    BY <2>1, <2>4 DEF shownPhase, shownReport, shownWrites, Answering
  <2> QED BY <2>3, <2>4
<1>7. ASSUME NEW a \in Approvals,
             SeedApproval(a) \/ \E decision \in Decisions : ResolveApproval(a, decision)
      PROVE  Promises
  <2>1. Decides
    BY <1>0, <1>7, ApprovalDecides
  <2> QED BY <2>1, Unseen DEF Decides, vars
<1>8. CASE Restart \/ ReloadSettings
  <2>1. /\ runner \notin {"idle", "gone"} /\ world' = world
        /\ ~Answering'
        /\ detail.status \in {"started", "completed", "failed"}
    BY <1>0, <1>8 DEF Restart, ReloadSettings, Standing, Answering, Details, vars
  <2>2. CASE Answering
    BY <2>1, <2>2 DEF Lifecycle!Next, Lifecycle!Lose
  <2>3. CASE ~Answering
    BY <2>1, <2>3 DEF shownPhase, shownReport, shownWrites
  <2> QED BY <2>2, <2>3
<1> QED BY <1>1, <1>2, <1>3, <1>4, <1>5, <1>6, <1>7, <1>8 DEF RunnerNext, Coroutine

\* The task implements the lifecycle, its fairness aside: it starts absent, and
\* accepts, works, reports, completes, fails or is lost as the lifecycle allows.
THEOREM TaskImplementsLifecycle ==
    RunnerSpec => Lifecycle!Init /\ [][Lifecycle!Next]_(Lifecycle!lifecycle)
<1>1. RunnerInit => Lifecycle!Init
  BY DEF RunnerInit, Init, Lifecycle!Init, Answering, NoDetail, NoReport
<1>2. TaskInv /\ [RunnerNext]_allVars => [Lifecycle!Next]_(Lifecycle!lifecycle)
  <2>1. TaskInv /\ RunnerNext => [Lifecycle!Next]_(Lifecycle!lifecycle)
    BY StepPromises DEF Promises, Lifecycle!lifecycle, shownPhase, shownReport, shownWrites
  <2>2. UNCHANGED allVars => UNCHANGED Lifecycle!lifecycle
    BY DEF allVars, runnerVars, vars, Lifecycle!lifecycle, Answering
  <2> QED BY <2>1, <2>2
<1> QED BY <1>1, <1>2, TaskInvariant, PTL DEF RunnerSpec
=============================================================================
