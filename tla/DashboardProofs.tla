-------------------------- MODULE DashboardProofs --------------------------
(***************************************************************************)
(* The page never goes back, for every number of submissions and whether    *)
(* gateways answer or not: the type invariant of Dashboard and its action    *)
(* property ScreenNeverGoesBack.                                            *)
(*                                                                         *)
(* A late answer can do no harm because of three facts about the chain of   *)
(* the running effect: it polls the task of that effect, it exists only     *)
(* while the page follows a task, and what it was answered agrees with a     *)
(* verdict that is already on the screen.  The last one needs that the       *)
(* backend does not change a verdict, only forgets it.                      *)
(***************************************************************************)
EXTENDS Dashboard, TLAPS

\* A status that was read: the backend has kept it since, if it is a verdict.
Kept(t, status) == status \in Verdict => tasks[t] \in {status, "lost"}

\* What the page and its storage name was accepted by the backend.
KnownTasks ==
    /\ taskId # NoBuild    => tasks[taskId] # "absent"
    /\ stored # NoBuild    => tasks[stored] # "absent"
    /\ resume # NoBuild    => tasks[resume] # "absent"
    /\ effect[1] # NoBuild => tasks[effect[1]] # "absent"

Live(chain) ==
    /\ chain.stage # "off"
    /\ chain.task # NoBuild
    /\ tasks[chain.task] # "absent"
    /\ chain.stage = "answered" => chain.status # "none" /\ Kept(chain.task, chain.status)

ChainsOK ==
    /\ poller = Off \/ Live(poller)
    /\ \A chain \in cancelled : Live(chain)

PollerFollows ==
    /\ poller # Off => poller.task = effect[1]
    /\ effect[1] # NoBuild => taskId # NoBuild

DetailOK ==
    taskDetail # NoDetail =>
        /\ taskDetail.task # NoBuild
        /\ taskDetail.status # "none"
        /\ Kept(taskDetail.task, taskDetail.status)

AnswerAgrees ==
    poller.stage = "answered" /\ taskDetail.task = poller.task
        /\ taskDetail.status \in Verdict => poller.status = taskDetail.status

IInv == TypeOK /\ KnownTasks /\ ChainsOK /\ PollerFollows /\ DetailOK /\ AnswerAgrees

-----------------------------------------------------------------------------
LEMMA ChainTypes ==
    /\ Off \in Chains
    /\ \A t \in Ids : \A stage \in {"off", "asking", "answered", "waiting"} :
          /\ Chain(t, stage) \in Chains
          /\ Chain(t, stage).task = t
          /\ Chain(t, stage).stage = stage
    /\ Off.stage = "off"
BY DEF Off, Chain, Chains, Ids, NoBuild

LEMMA AskedType ==
    ASSUME NEW chain \in Chains, NEW s \in {"started"} \cup Verdict, tasks[chain.task] = s
    PROVE  /\ Asked(chain) \in Chains
           /\ Asked(chain).stage = "answered"
           /\ Asked(chain).task = chain.task
           /\ Asked(chain).status = s
<1>. PICK t \in Ids : t = chain.task
  BY DEF Chains
<1>1. Asked(chain) = [chain EXCEPT !.stage = "answered", !.status = s]
  BY DEF Asked
<1>2. Asked(chain) = [task |-> t, stage |-> "answered", status |-> s]
  BY ONLY <1>1, chain \in Chains, t = chain.task DEF Chains
<1> QED
  BY <1>2 DEF Chains

LEMMA InitIInv == Init => IInv
<1> SUFFICES ASSUME Init PROVE IInv
  OBVIOUS
<1>1. TypeOK
  BY ChainTypes DEF Init, TypeOK, Ids, Details, NoDetail, NoBuild, Builds
<1> QED
  BY <1>1 DEF Init, IInv, KnownTasks, ChainsOK, PollerFollows, DetailOK, AnswerAgrees,
              NoBuild, Off, Chain

\* The backend goes on.
LEMMA BackendStep ==
    ASSUME IInv, UNCHANGED <<page, polling>>,
           launches' \in [Builds -> {"none", "checking", "posting", "over"}],
           tasks' \in [Builds -> {"absent", "started", "lost"} \cup Verdict],
           \A b \in Builds : tasks[b] # "absent" => tasks'[b] # "absent",
           \A b \in Builds : \A v \in Verdict :
               tasks[b] \in {v, "lost"} => tasks'[b] \in {v, "lost"}
    PROVE  IInv'
<1>1. TypeOK'
  BY DEF IInv, TypeOK, page, polling
<1>2. KnownTasks'
  BY DEF IInv, TypeOK, KnownTasks, page, polling, Ids, NoBuild
<1>3. \A chain \in Chains : Live(chain) => Live(chain)'
  BY DEF Live, Kept, Chains, Ids, Verdict
<1>4. ChainsOK'
  BY <1>3 DEF IInv, TypeOK, ChainsOK, polling
<1>5. DetailOK'
  BY DEF IInv, TypeOK, DetailOK, Kept, page, Details, Ids, Verdict
<1>6. PollerFollows' /\ AnswerAgrees'
  BY DEF IInv, PollerFollows, AnswerAgrees, page, polling
<1> QED
  BY <1>1, <1>2, <1>4, <1>5, <1>6 DEF IInv

\* The effect runs with what the page holds.
LEMMA EffectStep ==
    ASSUME IInv, UNCHANGED <<tasks, stored, resume>>,
           launches' \in [Builds -> {"none", "checking", "posting", "over"}],
           taskId' \in {taskId, NoBuild},
           submitState' \in {"idle", "sending", "sent", "error"},
           taskDetail' \in {taskDetail, NoDetail},
           RunsFor(taskId', submitState')
    PROVE  IInv'
<1>1. taskId' \in Ids /\ (taskId' # NoBuild => tasks[taskId'] # "absent")
  BY DEF IInv, TypeOK, KnownTasks, Ids
<1>2. poller' = Off \/ (poller' = Chain(taskId', "asking") /\ taskId' # NoBuild)
  BY DEF RunsFor
<1>3. cancelled' = cancelled \cup ({poller} \ {Off}) /\ effect' = <<taskId', submitState'>>
  BY DEF RunsFor
<1>4. poller' \in Chains
  BY <1>1, <1>2, ChainTypes
<1>5. TypeOK'
  BY <1>1, <1>3, <1>4 DEF IInv, TypeOK, Details, NoDetail, Ids
<1>6. KnownTasks'
  BY <1>1, <1>3 DEF IInv, KnownTasks
<1>7. \A chain : Live(chain) => Live(chain)'
  BY DEF Live, Kept
<1>8. poller' = Off \/ Live(poller)'
  BY <1>1, <1>2, ChainTypes DEF Live
<1>9. ChainsOK'
  BY <1>3, <1>7, <1>8 DEF IInv, ChainsOK
<1>10. PollerFollows'
  BY <1>1, <1>2, <1>3, ChainTypes DEF PollerFollows
<1>11. DetailOK'
  BY DEF IInv, DetailOK, Kept
<1>12. AnswerAgrees'
  <2>1. poller'.stage # "answered"
    BY <1>1, <1>2, ChainTypes
  <2> QED
    BY <2>1 DEF AnswerAgrees
<1> QED
  BY <1>5, <1>6, <1>9, <1>10, <1>11, <1>12 DEF IInv

LEMMA UserStep ==
    ASSUME IInv, RunEffect \/ SubmitInvalid \/ (\E b \in Builds : Submit(b)) \/ ResetFlight
    PROVE  IInv'
<1>1. CASE RunEffect
  BY <1>1, EffectStep DEF RunEffect, backend, page, IInv, TypeOK
<1>2. CASE SubmitInvalid
  BY <1>2, EffectStep DEF SubmitInvalid, backend, IInv, TypeOK
<1>3. CASE \E b \in Builds : Submit(b)
  BY <1>3, EffectStep DEF Submit, IInv, TypeOK
<1>4. CASE ResetFlight
  <2>1. /\ UNCHANGED <<tasks, resume, launches>> /\ taskId' = NoBuild
        /\ taskDetail' = NoDetail /\ submitState' = "idle" /\ stored' = NoBuild
        /\ effect' = <<NoBuild, "idle">> /\ poller' = Off
        /\ cancelled' = cancelled \cup ({poller} \ {Off})
    BY <1>4 DEF ResetFlight, RunsFor, backend
  <2>2. TypeOK'
    BY <2>1, ChainTypes DEF IInv, TypeOK, Details, NoDetail, Ids
  <2>3. \A chain : Live(chain) => Live(chain)'
    BY <2>1 DEF Live, Kept
  <2>4. KnownTasks' /\ ChainsOK'
    BY <2>1, <2>3 DEF IInv, KnownTasks, ChainsOK
  <2>5. PollerFollows' /\ DetailOK' /\ AnswerAgrees'
    BY <2>1, ChainTypes DEF PollerFollows, DetailOK, AnswerAgrees
  <2> QED
    BY <2>2, <2>4, <2>5 DEF IInv
<1> QED
  BY <1>1, <1>2, <1>3, <1>4

LEMMA ReloadStep ==
    ASSUME IInv, Reload PROVE IInv'
<1>1. TypeOK'
  BY ChainTypes DEF Reload, IInv, TypeOK, Details, NoDetail, Ids
<1>2. KnownTasks'
  BY DEF Reload, IInv, KnownTasks
<1>3. ChainsOK' /\ PollerFollows' /\ DetailOK' /\ AnswerAgrees'
  BY ChainTypes DEF Reload, ChainsOK, PollerFollows, DetailOK, AnswerAgrees
<1> QED
  BY <1>1, <1>2, <1>3 DEF IInv

\* The page takes up another task: Resume and PostAnswered.
LEMMA FollowStep ==
    ASSUME IInv, NEW t \in Builds, tasks[t] # "absent",
           taskId' = t, submitState' = "sent",
           stored' \in {stored, t}, resume' \in {resume, NoBuild},
           launches' \in [Builds -> {"none", "checking", "posting", "over"}],
           UNCHANGED <<tasks, taskDetail, polling>>
    PROVE  IInv'
<1>. t # NoBuild
  BY DEF Builds, NoBuild
<1>1. TypeOK'
  BY DEF IInv, TypeOK, polling, Ids
<1>2. KnownTasks'
  BY DEF IInv, KnownTasks, polling
<1>3. \A chain : Live(chain) => Live(chain)'
  BY DEF Live, Kept
<1>4. ChainsOK'
  BY <1>3 DEF IInv, ChainsOK, polling
<1>5. PollerFollows' /\ DetailOK' /\ AnswerAgrees'
  BY DEF IInv, PollerFollows, DetailOK, AnswerAgrees, Kept, polling
<1> QED
  BY <1>1, <1>2, <1>4, <1>5 DEF IInv

\* A submission that ends without a task changes no more than its message.
LEMMA MessageStep ==
    ASSUME IInv, submitState' \in {submitState, "error"},
           launches' \in [Builds -> {"none", "checking", "posting", "over"}],
           UNCHANGED <<tasks, taskId, taskDetail, stored, resume, polling>>
    PROVE  IInv'
<1>1. TypeOK'
  BY DEF IInv, TypeOK, polling
<1>2. KnownTasks'
  BY DEF IInv, KnownTasks, polling
<1>3. \A chain : Live(chain) => Live(chain)'
  BY DEF Live, Kept
<1>4. ChainsOK'
  BY <1>3 DEF IInv, ChainsOK, polling
<1>5. PollerFollows' /\ DetailOK' /\ AnswerAgrees'
  BY DEF IInv, PollerFollows, DetailOK, AnswerAgrees, Kept, polling
<1> QED
  BY <1>1, <1>2, <1>4, <1>5 DEF IInv

LEMMA SubmissionStep ==
    ASSUME IInv, NEW b \in Builds,
           CheckPassed(b) \/ CheckRefused(b) \/ CheckLost(b) \/ PostAnswered(b)
               \/ PostFailed(b) \/ Resume
    PROVE  IInv'
<1>1. CASE CheckPassed(b)
  BY <1>1, MessageStep DEF CheckPassed, page, IInv, TypeOK
<1>2. CASE CheckRefused(b)
  BY <1>2, MessageStep DEF CheckRefused, Ends, IInv, TypeOK
<1>3. CASE CheckLost(b)
  BY <1>3, MessageStep DEF CheckLost, Ends, page, IInv, TypeOK
<1>4. CASE PostFailed(b)
  BY <1>4, MessageStep DEF PostFailed, Ends, IInv, TypeOK
<1>5. CASE PostAnswered(b)
  BY <1>5, FollowStep DEF PostAnswered, Ends, IInv, TypeOK
<1>6. CASE Resume
  <2>1. resume \in Builds /\ tasks[resume] # "absent"
    BY <1>6 DEF Resume, IInv, TypeOK, KnownTasks, Ids
  <2> QED
    BY <1>6, <2>1, FollowStep DEF Resume, backend, IInv, TypeOK
<1> QED
  BY <1>1, <1>2, <1>3, <1>4, <1>5, <1>6

LEMMA BackendSteps ==
    ASSUME IInv, Restart \/ \E b \in Builds : Accept(b) \/ Decide(b)
    PROVE  IInv'
<1>1. CASE Restart
  BY <1>1, BackendStep DEF Restart, IInv, TypeOK
<1>2. ASSUME NEW b \in Builds, Accept(b) PROVE IInv'
  BY <1>2, BackendStep DEF Accept, IInv, TypeOK, Verdict
<1>3. ASSUME NEW b \in Builds, Decide(b) PROVE IInv'
  BY <1>3, BackendStep DEF Decide, IInv, TypeOK, Verdict
<1> QED
  BY <1>1, <1>2, <1>3

\* The chain of the running effect moves and the page does not.
LEMMA PollerStep ==
    ASSUME IInv, UNCHANGED <<backend, page, effect, cancelled>>,
           poller' \in Chains, poller # Off,
           poller' = Off \/ (poller'.task = poller.task /\ poller'.stage # "off"),
           poller'.stage = "answered" =>
               /\ tasks[poller.task] = poller'.status /\ poller'.status # "none"
    PROVE  IInv'
<1>1. TypeOK'
  BY DEF IInv, TypeOK, backend, page
<1>2. KnownTasks' /\ DetailOK'
  BY DEF IInv, KnownTasks, DetailOK, Kept, backend, page
<1>3. \A chain : Live(chain) => Live(chain)'
  BY DEF Live, Kept, backend
<1>4. Live(poller)
  BY DEF IInv, ChainsOK
<1>5. poller' = Off \/ Live(poller)'
  BY <1>4 DEF Live, Kept, backend
<1>6. ChainsOK'
  BY <1>3, <1>5 DEF IInv, ChainsOK
<1>7. PollerFollows'
  BY DEF IInv, PollerFollows, page
<1>8. AnswerAgrees'
  <2> SUFFICES ASSUME poller'.stage = "answered", taskDetail.task = poller'.task,
                      taskDetail.status \in Verdict
               PROVE  poller'.status = taskDetail.status
    BY DEF AnswerAgrees, page
  <2>1. poller'.task = poller.task /\ tasks[poller.task] = poller'.status
    BY ChainTypes
  <2>2. taskDetail # NoDetail
    BY DEF NoDetail, Verdict
  <2>3. tasks[poller.task] \in {taskDetail.status, "lost"}
    BY <2>1, <2>2 DEF IInv, DetailOK, Kept
  <2>4. poller'.status # "lost"
    BY DEF Chains, Verdict
  <2> QED
    BY <2>1, <2>3, <2>4
<1> QED
  BY <1>1, <1>2, <1>6, <1>7, <1>8 DEF IInv

LEMMA PollingStep ==
    ASSUME IInv, Served \/ NotOk \/ Unreachable \/ Timer
    PROVE  IInv'
<1>0. poller.stage \in {"asking", "waiting"} /\ poller # Off /\ poller \in Chains
      /\ poller.task \in Ids
  BY ChainTypes DEF Served, NotOk, Unreachable, Timer, IInv, TypeOK, Chains
<1>1. CASE Served
  <2>1. Live(poller)
    BY <1>0 DEF IInv, ChainsOK
  <2>2. tasks[poller.task] \in {"started"} \cup Verdict
    BY <1>1, <1>0, <2>1 DEF Served, Live, IInv, TypeOK, Ids
  <2>. PICK s \in {"started"} \cup Verdict : tasks[poller.task] = s
    BY <2>2
  <2>3. /\ poller' \in Chains /\ poller'.stage = "answered"
        /\ poller'.task = poller.task /\ poller'.status = s
    BY <1>0, <1>1, AskedType DEF Served
  <2> QED
    BY <1>0, <1>1, <2>3, PollerStep DEF Served, Verdict
<1>2. CASE NotOk
  BY <1>0, <1>2, PollerStep, ChainTypes DEF NotOk
<1>3. CASE Unreachable
  BY <1>0, <1>3, PollerStep, ChainTypes DEF Unreachable
<1>4. CASE Timer
  BY <1>0, <1>4, PollerStep, ChainTypes DEF Timer
<1> QED
  BY <1>1, <1>2, <1>3, <1>4

LEMMA DeliveredStep ==
    ASSUME IInv, Delivered PROVE IInv'
<1>0. /\ poller \in Chains /\ poller # Off /\ Live(poller) /\ poller.task \in Ids
      /\ poller.status \in {"started"} \cup Verdict
  BY ChainTypes DEF Delivered, IInv, TypeOK, ChainsOK, Live, Chains
<1>1. taskDetail' = [task |-> poller.task, status |-> poller.status]
  BY DEF Delivered, Detail
<1>2. /\ poller' \in Chains /\ poller'.stage # "answered"
      /\ poller' = Off \/ (poller'.task = poller.task /\ poller'.stage = "waiting")
  BY <1>0, ChainTypes DEF Delivered
<1>3. submitState' \in {"idle", "sending", "sent", "error"}
  BY DEF Delivered, IInv, TypeOK
<1>4. TypeOK'
  BY <1>0, <1>1, <1>2, <1>3 DEF Delivered, IInv, TypeOK, backend, Details
<1>5. KnownTasks'
  BY DEF Delivered, IInv, KnownTasks, backend
<1>6. \A chain : Live(chain) => Live(chain)'
  BY DEF Live, Kept, Delivered, backend
<1>7. poller' = Off \/ Live(poller)'
  BY <1>0, <1>2 DEF Live, Delivered, backend
<1>8. ChainsOK'
  BY <1>6, <1>7 DEF IInv, ChainsOK, Delivered
<1>9. PollerFollows'
  BY <1>0, <1>2 DEF IInv, PollerFollows, Delivered
<1>10. DetailOK'
  BY <1>0, <1>1 DEF DetailOK, Live, Kept, Delivered, backend, Verdict
<1>11. AnswerAgrees'
  BY <1>2 DEF AnswerAgrees
<1> QED
  BY <1>4, <1>5, <1>8, <1>9, <1>10, <1>11 DEF IInv

LEMMA CancelledStep ==
    ASSUME IInv, NEW chain \in cancelled, CancelledAsks(chain) \/ CancelledEnds(chain)
    PROVE  IInv'
<1>0. chain \in Chains /\ Live(chain) /\ chain.task \in Ids
  BY DEF IInv, TypeOK, ChainsOK, Chains
<1>1. UNCHANGED <<backend, page, effect, poller>>
  BY DEF CancelledAsks, CancelledEnds
<1>2. \A c \in cancelled' : c \in cancelled \/ (c \in Chains /\ Live(c))
  <2>1. CASE CancelledEnds(chain)
    BY <2>1 DEF CancelledEnds
  <2>2. CASE CancelledAsks(chain) /\ chain.stage = "waiting"
    BY <2>2, <1>0, ChainTypes DEF CancelledAsks, Live
  <2>3. CASE CancelledAsks(chain) /\ chain.stage # "waiting"
    <3>1. tasks[chain.task] \in {"started"} \cup Verdict
      BY <2>3, <1>0 DEF CancelledAsks, Live, IInv, TypeOK, Ids
    <3>. PICK s \in {"started"} \cup Verdict : tasks[chain.task] = s
      BY <3>1
    <3>2. Asked(chain) \in Chains /\ Live(Asked(chain))
      BY <1>0, AskedType DEF Live, Kept, Verdict
    <3> QED
      BY <2>3, <3>2 DEF CancelledAsks
  <2> QED
    BY <2>1, <2>2, <2>3
<1>3. TypeOK'
  BY <1>1, <1>2 DEF IInv, TypeOK, backend, page
<1>4. \A c : Live(c) => Live(c)'
  BY <1>1 DEF Live, Kept, backend
<1>5. ChainsOK'
  BY <1>1, <1>2, <1>4 DEF IInv, ChainsOK
<1>6. KnownTasks' /\ PollerFollows' /\ DetailOK' /\ AnswerAgrees'
  BY <1>1 DEF IInv, KnownTasks, PollerFollows, DetailOK, AnswerAgrees, Kept, backend, page
<1> QED
  BY <1>3, <1>5, <1>6 DEF IInv

LEMMA NextIInv == IInv /\ [Next]_vars => IInv'
<1> SUFFICES ASSUME IInv, [Next]_vars PROVE IInv'
  OBVIOUS
<1>1. CASE UNCHANGED vars
  <2>1. \A chain : Live(chain) => Live(chain)'
    BY <1>1 DEF vars, Live, Kept
  <2> QED
    BY <1>1, <2>1 DEF vars, IInv, TypeOK, KnownTasks, ChainsOK, PollerFollows, DetailOK,
                      AnswerAgrees, Kept
<1>2. CASE Resume
  <2>1. 1 \in Builds
    BY <1>2, MaxBuildsAssumption DEF Resume, IInv, TypeOK, Ids, Builds
  <2> QED
    BY <1>2, <2>1, SubmissionStep
<1> QED
  BY <1>1, <1>2, UserStep, ReloadStep, SubmissionStep, BackendSteps, PollingStep,
     DeliveredStep, CancelledStep DEF Next

LEMMA Invariance == Spec => []IInv
BY InitIInv, NextIInv, PTL DEF Spec

-----------------------------------------------------------------------------
\* Every variable of the page and of the backend keeps its type: no handler
\* follows a task that has no number, and no request asks for one.
THEOREM DashboardTypeCorrect == Spec => []TypeOK
<1>1. IInv => TypeOK
  BY DEF IInv
<1> QED
  BY <1>1, Invariance, PTL

\* No late answer takes the screen back.
THEOREM NothingIsShownAgain == Spec => ScreenNeverGoesBack
<1> DEFINE Forward ==
        taskDetail' # taskDetail /\ taskDetail' # NoDetail =>
           /\ taskId # NoBuild
           /\ \/ taskDetail = NoDetail
              \/ taskDetail'.task = taskDetail.task /\ taskDetail.status = "started"
              \/ taskDetail'.task = effect[1] /\ taskDetail.task # effect[1]
<1>1. IInv /\ [Next]_vars => [Forward]_vars
  <2> SUFFICES ASSUME IInv, Next, taskDetail' # taskDetail, taskDetail' # NoDetail
               PROVE  Forward
    OBVIOUS
  <2>1. Delivered
    BY DEF Next, Submit, CheckPassed, CheckRefused, CheckLost, Accept, PostAnswered,
           PostFailed, Decide, SubmitInvalid, ResetFlight, Reload, Resume, Restart,
           RunEffect, Served, NotOk, Unreachable, Timer, CancelledAsks, CancelledEnds,
           page
  <2>2. poller # Off /\ poller.task = effect[1] /\ effect[1] # NoBuild /\ taskId # NoBuild
    BY <2>1, ChainTypes DEF Delivered, IInv, ChainsOK, PollerFollows, Live
  <2>3. taskDetail' = [task |-> poller.task, status |-> poller.status]
    BY <2>1 DEF Delivered, Detail
  <2>4. CASE taskDetail # NoDetail /\ taskDetail.task = effect[1]
    <3>1. taskDetail.status \notin Verdict
      <4> SUFFICES ASSUME taskDetail.status \in Verdict PROVE FALSE
        OBVIOUS
      <4>1. poller.status = taskDetail.status
        BY <2>1, <2>2, <2>4 DEF Delivered, IInv, AnswerAgrees
      <4>2. taskDetail = [task |-> taskDetail.task, status |-> taskDetail.status]
        BY DEF IInv, TypeOK, Details
      <4> QED
        BY <2>2, <2>3, <2>4, <4>1, <4>2
    <3>2. taskDetail.status = "started"
      BY <2>4, <3>1 DEF IInv, TypeOK, DetailOK, Details
    <3> QED
      BY <2>2, <2>3, <2>4, <3>2
  <2> QED
    BY <2>2, <2>3, <2>4
<1>2. Spec => [][Forward]_vars
  BY <1>1, Invariance, PTL DEF Spec
<1> QED
  BY <1>2 DEF ScreenNeverGoesBack
=============================================================================
