# A verification development of MVPilot

MVPilot takes a project idea, plans and generates a repository with a language
model, validates it, commits it to the user's GitHub account and reports.  The
modules here specify the parts of its backend that run concurrently, fail, or
decide what is written outside the process; TLC checks them on small instances
and TLAPS proves what matters most of all of them for instances of any size.

## 1. Inventory

| Component | State | Operations | Interacts with |
|---|---|---|---|
| Workflow graph, `agent/workflow.py` | the `WorkflowState` of one run: status, trace, tool calls, artifacts, timeline, validation, report | seventeen nodes, five conditional routers, merge of updates by additive reducers | model client, tool adapter, retrieval, connection service |
| Task store, `agent/task_store.py` | task details by id, under one lock | create, get, snapshot, seed and resolve approvals | written by the service, read by the dashboard |
| Agent service, `agent/service.py` | a background coroutine per task | start, run the graph, store a snapshot after every node, turn an exception into a failed task | graph, store |
| Runtime reload, `agent/dependencies.py` | the services the API answers with | `reload_runtime_settings` replaces all of them | store, connections |
| GitHub connections, `agent/github_oauth.py`, `agent/routers/github.py` | a record per connection (status, code, token, task), in memory or in Supabase | pending, callback, exchange, environment token, disconnect | GitHub OAuth, the exchange node, uploads |
| GitHub tools, `tools/github_tool.py`, `agent/live_adapters.py` | nothing local; repositories and commits at GitHub | create or reuse a repository, commit files, verify | GitHub, the graph |
| Model client, `agent/model_client.py` | attempt, reason and token budget of a call | request, poll, retry, degrade | the graph |
| Session persistence, `agent/project_session_store.py` | six Supabase tables, count of persisted log entries | one write after another at every snapshot | task store |
| Retrieval, `agent/rag/` | chunks and memories in Supabase | index submitted pages, ingest the corpus, reindex the logs (each a delete and an insert), search, remember | the graph, the API |
| Dashboard, `frontend/app/page.tsx` | task id, last detail, submit state, GitHub state | launch, poll, resume, reset, connect | the API |
| Intake, `agent/frontend_intake.py`, `agent/routers/agent.py` | the budget, summaries and warnings of one request | fetch each URL, read each file, warn | the graph's `retrieve_context`, the prompts |
| File nodes, `agent/project_generation.py`, `agent/project_validation.py`, `tools/build_checker.py` | lists of artifacts | merge the manifest with a scaffold, validate, complete for the health check, check the repository | the graph |
| Build log, `tools/repo_writer.py` | nothing local; a file of the repository | append an entry: read, commit, read back, again | GitHub tools; reached through the OpenClaw adapter |
| Tool logger, OpenClaw, templates | none that outlives a call | see `PROJECT.json` | the graph |

What is hard in it:

* several tasks run at once: nodes in worker threads, coroutines on one event
  loop, and between any two awaits of one the others run;
* a record that is read before an HTTP call is written back after it;
* a run writes to GitHub long before it knows whether it will succeed, and any
  call may have had its effect although its answer is lost;
* the state of a task is visible after every node, not only at the end;
* a restart forgets the tasks, a settings reload hides them from the API while
  they keep running.

`PROJECT.json` lists each of these as a hazard at its line, with the property
that is about it.

What makes each component correct, in a sentence each: a *run* writes only with
the authority it obtained and only what was validated, and ends with a verdict
that agrees with what happened; the *store* never takes back what a client read
and ends with a verdict for every accepted task; a *connection* that looks
connected can be used, serves only tasks that were granted it, and stays
disconnected; the *tools* never lose another's commits or files; a *model call*
ends within its budget and as the graph takes it to end; the *tables* are a
beginning of what happened, and complete after a clean snapshot; of every
*source* the prompts have the text or the user has a warning; the *commit* of a
run is what the model listed and the validation read; the *build log* loses an
entry only to a stale read, and reports none that is not in the history; the *store of
chunks* never mixes two readings and loses none in silence; the *dashboard*
never goes back and shows the verdict.

## 2. Modules

| Module | Models | Corresponds to |
|---|---|---|
| `Workflow` | one run of the graph | one action per node: the whole handler, the merge of its update and the router after it; `Raise` for an exception |
| `WorkflowProofs` | theorems about `Workflow` and `TaskRunner`, and that the steps of the second are those of `TaskLifecycle` | |
| `TaskLifecycle` | what the API promises of a task, without saying how it runs | abstract |
| `TaskRunner` (extends `Workflow`) | task store, coroutine, approvals, restart, reload | `StoreSnapshot`/`RunNode` are the two halves of an iteration of `async for snapshot in workflow.astream(...)`; `CatchException`/`StoreFailure` the two awaits of the handler |
| `GitHubConnection` | connections, both stores, overlapping exchanges | an exchange is cut where the code awaits: before the token request, after it, after the user request |
| `GitHubConnectionProofs` | theorems about `GitHubConnection` | |
| `GitHubRepo` | `create_repo` and `commit_files` of several tasks | one action per request to GitHub |
| `BuildLog` (extends `GitHubRepo`) | `append_build_log` of several writers, beside the tasks | one action per read, commit result and check |
| `MCGitHubRepo` | two tasks with the same project name, a task and a writer, or two writers | |
| `GitHubRepoProofs` | theorems about `GitHubRepo` and `BuildLog`, and that the second implements the first | |
| `ModelClient` (`INSTANCE`s `Workflow` for the contract) | one call of the live model client | one action per request to the endpoint with the handling of its answer |
| `ModelClientProofs` | theorems about `ModelClient` | |
| `SessionStore` | the copy of one task in Supabase | one action per request of `_persist_snapshot` |
| `SessionStoreProofs` | theorems about `SessionStore` | |
| `Dashboard` | the page: submissions, the polling effect, reset, reload | one action per click, answer, timer or run of the effect |
| `DashboardProofs` | theorems about `Dashboard` | |
| `SourceContext` | what a run reads of the submitted sources | one action per source, with `_SourceBudget.take` |
| `ProjectFiles` (extends `SourceContext`) | the files of a live build, from the manifest to the links of the report | one action per node that touches files |
| `MCProjectFiles` | manifests of one path | |
| `ProjectFilesProofs` | theorems about `SourceContext` and `ProjectFiles` | |
| `Retrieval` | the store of chunks, who writes it and who searches | an ingest is cut at each page, before the embeddings and before the replacement |
| `RetrievalProofs` | theorems about `Retrieval` | |
| `MCRetrieval` | a corpus of a document, a log and two pages | |

### Workflow

`settings` are the process settings and the two facts of the intake the graph
branches on; they never change during a run.  `node` is the next node; `state`
the `WorkflowState`; `world` what the run left at GitHub and in the memory
table.  A model answer is kept as its mode (`live`, `degraded`, `mock`), a tool
call as its name, status and recoverability, an artifact as the origin of its
content.  The reducers are kept: `DebugGeneratedFiles` doubles the artifacts,
as the code does.  Three operators say what the model client may do with a
call: `ReturnedModes`, `ModelCallRaises`, and `AcceptedModes` for the check the
nodes add.

### TaskRunner and TaskLifecycle

The service's loop alternates between storing what the graph yielded and
running the next node.  `detail` is the stored task, `carried` the deep copy the
failure handler works on.  The handler's second await is a separate action, so
that approvals interleave with it.  `served` becomes false when a reload
replaces the store.  `TaskLifecycle` is the abstract specification; the mapping
takes the stored status as the phase, a task that the API cannot answer for as
lost, and the writes of `world` as the work.  Its two liveness conjuncts say
that no task stays started, and that a failed one gets its report.

### GitHubConnection

A store is found by the generation of the service that owns it: in memory every
reload makes a new one, in Supabase all services share one.  `update` replaces
the whole record, in memory fails on a missing one and in Supabase does nothing;
the exchange writes the copy it read first.  A token is named by the code it was
issued for, or by the generation whose environment configures it.  Each
generation has settings of its own: `offered` holds those that offer the
backend's own token, with the fallback enabled and a token with an owner
configured.  A service that offers none refuses to make such a connection, but
serves one it finds, with the token that is stored: `Refreshed` leaves it alone.
Where the records live, the OAuth application and the encryption key are the
same in all generations.  A code is
spent by the first exchange, also when its answer is lost.  A Supabase that
cannot be reached raises out of the service; `Workflow` has that exit.

### GitHubRepo

Commits are immutable and named by their index; a tree says of each path who
wrote it.  A ref moves only by a fast-forward, as GitHub does without `force`.
Any request may fail; a request that writes may have written before it failed.
The checks of `tools/policy.py` on names and payloads happen before the first
request and are a precondition here.

### BuildLog

An entry is named by the writer it is from, a log is a sequence of entries, and
`logs` has the log of every commit: a writer's commit has the log it read with
its entry at the end, any other commit the log of its parent.  A read may
answer with the file of any commit in the history of the branch, or fail, which
the code takes for an empty log.  The commit itself is the `CommitFiles` of
`GitHubRepo`, request by request: `Tasks` and `LogWriters` are both its
callers.  `LogNext` therefore moves the repositories only as `GitHubRepo` does,
which `GitHubRepoProofs` proves (`LogImplementsRepo`).

### SourceContext and ProjectFiles

A text is its length without the white space the code removes; a page has a
length only when it is asked for.  `Take` is `_SourceBudget.take` with what its
two callers do with an empty summary; a text that is cut may end in a space,
which is removed, so that a cut counts for one less.

A file is who wrote its text (`specific` and `generic` of the model, `scaffold`,
`stub` of the health check, `report`), a list of artifacts with distinct names a
function from paths to texts.  `Hydrated` is `hydrate_file_manifest`; `Newest`
is what the dictionaries over a list with repeated names keep.  The model starts
with the sources, because their reading is part of the same run, and takes over
from `Workflow` what that module has as the origin of an artifact; nodes that do
not touch files, and exceptions, are there.

### ModelClient

`config` holds the settings a call depends on and its purpose; `attempt` and
`effective_max_tokens` are the variables of the retry loop, `poll` what
`_poll_status` counts, `exchange` what went over the wire (requests, tokens
asked for, the failure met last, the clock, the longest request).  An answer is abstracted to how its
handling ends: complete, truncated, not parseable, of the wrong shape, pending,
or one of the errors.  The clock counts units: a pause takes the time the backoff
says, and a request any of `Durations`.  No setting bounds that: the timeouts
given to the HTTP client (`model_client.py:379`) are for each wait, to get a
connection, to write, and for each chunk that is read.  The module
instantiates `Workflow` to state that an answer's mode, and whether there may be
an exception, are what the graph's `ReturnedModes` and `ModelCallRaises` say;
this is what lets `Workflow` treat a call as one step.

### SessionStore

A snapshot is first stored in memory, then sent as a list of requests
(`requests`).  Each is carried out, refused, or carried out without an answer;
the last two end the snapshot, which the code logs and does not repeat.  A part
of the state is deleted and inserted; log entries are inserted from
`persisted_log_count` on.  A part and a log entry are kept as their number.

### Dashboard

`taskId`, `taskDetail` and `submitState` are the React state, `stored` the
session storage, `effect` the dependencies the polling effect last ran with.
`poller` is the chain of request, answer and timer of the current effect,
`cancelled` the chains of those it replaced, which still have a request or a
timer under way.  A click renders at once; after an answer the effect runs as a
step of its own, so that several answers may be batched in one render.
`resume` is the timer without delay the mount effect sets; the network does not
answer before it fires.  The backend is reduced to a status per task, and
`lost` after a restart.

### Retrieval

The content of a source is a version and the types of its chunks.  `versions`
is the world outside, `documents` the version an actor read of each source (0
when it could not be fetched), `rag_chunks` the table.  The Supabase client
blocks, so no coroutine of the process runs between the delete and the insert of
`replace_chunks`; but the insert may be refused, its answer lost, or the process
stop before it.  Which chunks a query matches and how they are ranked is open.

## 3. Runs

| Run | Shows |
|---|---|
| `task_runner` | the graph under every setting, with the store, the coroutine, restarts and reloads at any point, and one approval; refinement of `TaskLifecycle` |
| `github_connection` | two tasks, one OAuth and one environment connection, two codes, up to two reloads or restarts, each with settings that offer the backend's token or not |
| `github_repo` | two tasks, a task and a log writer, or two log writers; three candidate names each, any mix of absent, hidden, empty and used repositories |
| `model_client` | every purpose and setting of a call, all answers in all orders, three starting budgets around the cap |
| `session_store` | six snapshots, each of whose requests may fail or go unanswered, and a stop of the process |
| `dashboard` | three submissions, resets, reloads, lost requests, late answers, a restarting backend |
| `retrieval` | two tasks, an ingest and a reindex on one page, one document and one log that change |
| `project_files` | every request of up to two URLs and a file, every manifest of up to two entries of a path, both outcomes of the scaffold's validation |
| `workflow_partial`, `github_connection_token`, `github_repo_files`, `retrieval_evidence` | four places where a document says something the code does not do; each run checks that one sentence and finds a counterexample |

**Properties of `task_runner`.** Of the graph: `AuthorisedEffects`,
`CommitsAreValidated`, `CompletedIsDelivered` (with the timeline of a completed
run), `FailureIsExplained`, `LoopIsBounded` and the action property
`FailureStopsTheRun`.  Of the store: `StoppedIsSettled` (a verdict and a report that
agree, with every commit on record), `ObserverKeepsUp` (an observer is at most
one node behind the effects), `HistoryOnlyGrows` and `ApprovalsSurvive` (nothing
a client read is taken back by a snapshot or by the failure handler), and
`KeepsThePromise`, the refinement, whose liveness half says that every accepted
task ends or is lost.

**Properties of `github_connection`.** `ConnectedHasCredential`,
`CredentialsAreTheirs` (of links, and of the backend's own token: a task has the
one its service offers; where that offers none, which takes a record left in
Supabase, one that was offered), `DisconnectIsFinal` (for
the exchange in memory only: in Supabase the update of a deleted row succeeds
without effect, and the task gets its credentials), `ExchangesSettle`.

**Properties of `github_repo`.** `CreatorsDoNotShare`, `CommittedIsOnBranch`,
`UserFilesSurvive`, `HistoryIsKept`; of the log `EntriesAreKept` (it is replaced
only by a writer that had not read it as it is), `LoggedIsOnBranch`,
`RepeatsAreBounded`; and `CallsSettle` under fairness.

**Properties of `project_files`.** `SourcesAreAccounted` (of every source all
the text is used, or there is a warning, and never both), `PromptIsBounded`,
`ValidatedIsCommitted` (the second listing, the report and the health scaffold
change nothing the validation read), `ManifestIsCommitted` (a commit against its
definition path by path), `LinksResolve`.

**Properties of `model_client`.** `GraphAssumption` (the contract with
`Workflow`), `BudgetIsKept` (the number of requests, and the time in terms of the
longest of them: besides polling and pauses two per attempt, and not one per
poll), `GivesUpOnlyWhenSpent`, `RetryAsksForMore`.

**Properties of `session_store`.** `LogHasNoHole`, `RowsAreNotRepeated` (unless
an answer was lost), `CleanSnapshotIsComplete`.

**Properties of `dashboard`.** `ScreenNeverGoesBack`, and `VerdictIsShown` under
fairness.

**Properties of `retrieval`.** `OneReadingPerSource` and `LossIsReported`.

**Bounds.** `MaxCommitsPerCall` is exact: a commit call makes at most two
commits.  `MaxGeneration` = 2 lets a task run under a service that was replaced
twice, which gives an older, a current and a newer writer of one record; two
tasks are enough for every pair of overlapping exchanges, and an exchange only
looks at one record.  Two codes give one that was spent and one that replaces
it.  Three candidate names stand for the seven of `repo_name_candidates`: one
both tasks want, one of each task's own, and a last one both want; the loop over
them is the same for each.  One approval is enough, as approvals are
independent.  `Workflow` needs no bound: it is finite apart from the blocker
loop, which `LoopIsBounded` shows ends.  `BuildLogRetryLimit` = 1 is the value of
the code; `BuildLogVerifyAttempts` = 2 gives a first, a further and a last
check.  A writer is paired with one task or one writer, not with both: that
keeps the run small, and every pair of commits is there.  In `ProjectFiles` a
source may be within, at and over each of the two limits; entries for different
paths do not touch each other, so the manifests list one path, once or twice,
out of one that is read, one that another may stand in for, the report's, one
beside the scaffold, one the policy refuses and one that is skipped.
`ModelClient` needs no bound beside its settings: the retries of each purpose
differ (2, 1, 0), the time units are small but polling can end by its deadline
and by its count, a request takes no time, a unit, or more than all polling may,
and the budgets lie below, near and above the cap.
`MaxSnapshots` = 6 lets each of the three parts appear, log entries come with and
without a part, and a clean snapshot follow two failed ones.  `MaxBuilds` = 3
gives a followed task, one launched beside it and one submitted after a reset.
`MaxVersion` = 2 gives a source an old and a new reading; in `MCRetrieval` the
document shrinks, the log is emptied and the page grows.  Both tasks of that run
submit the configured page, hence the symmetry; `retrieval_evidence` has tasks
with pages of their own and no symmetry.

**Fairness.** The event loop runs a coroutine that can go on, and every HTTP
client here has timeouts (20 s for OAuth and the GitHub tools, 30 to 120 s and a
read timeout per purpose for the model).  They are for each wait of a call and
not for the call; with the assumption that no endpoint keeps a call going for
ever by sending it byte after byte, every await returns or raises:
weak fairness of the run, of the coroutine, of each exchange and of each task's
requests, and of each writer's.  In `Dashboard` the effect, the timers and the handling of an answer
run when they can (weak fairness: the browser's event loop), and a poll that is
asked again and again is answered at some time (strong fairness of `Served`: a
network that loses requests, but not all of them).  Nothing is assumed of the
user, of restarts or of reloads.  The invariants of `ModelClient`,
`SessionStore`, `Retrieval` and `ProjectFiles` need no fairness.

**Deadlock** is checked for the dashboard, where a reload is always possible,
for the store of chunks, where a restart is, and for the model client, whose
ended calls stay as they are by a step of their own.  Elsewhere it is not: a run
that has ended, a store without clients and an exchange that was answered stop.

## 4. Findings

1. `workflow_partial`: a live run allowed to continue with degraded output
   (README.md:13) is refused by the validation, after its repository was created.
2. `github_connection_token`: of two overlapping exchanges of one code the one
   that is refused wipes the token the other stored.
3. `github_repo_files`: on an empty repository `commit_files` makes two commits,
   and the one it reports may lack the first file.
4. `retrieval_evidence`: the plan of the build context keeps submitted pages out
   of the global store (frontend-intake-build-context-plan.md:23, :69); the code
   indexes them there, and another task is given them as evidence.

Observed while modelling, without a run of its own:

* a service whose settings disable the fallback to the backend's own token, as
  the plan has it (connected-github-repo-orchestration-plan.md:71), still serves
  tasks with that token if a connection that uses it is in Supabase: the refresh
  returns the record as it is (github_oauth.py:241).  `CredentialsAreTheirs`
  allows it there and nowhere else;
* live runs commit scaffold and debug content beside what the model answered,
  although config.py:289 says they commit only the latter;
* after a failed commit a client can see a failed task without failed step or
  report; the dashboard then points to an event that is not there (page.tsx:580)
  and stops polling;
* with `GatewayErrors = TRUE` `VerdictIsShown` fails: one answer that is not OK
  ends the polling of a running task for good (page.tsx:564);
* the form stays enabled while a submission is under way; a second one launches
  a second build, and its refusal can paint a completed build as stopped;
* when the check of the GitHub connection cannot be sent at all (page.tsx:788),
  the handler ends outside its `try` and the page stays at "sending";
* the decision trace of the validation says "Validated Nemotron manifest only (no
  scaffold merge or repair)." (workflow.py:991) of files `generate_files` has
  merged with the scaffold; `merge_scaffold_over_model`,
  `normalize_nemotron_manifest_artifacts` and `merge_model_manifest` have no
  caller, and the fill of the health scaffold finds nothing to fill;
* a path of which a part starts with `.git` is refused by tools/schemas.py:38: a
  `.gitignore` in a manifest refuses the whole commit, after the repository was
  created and the validation passed;
* a `docs/DEBUG_REPORT.md` of the model's is replaced by the report of the debug
  pass;
* a source that comes after the budget is spent gets, beside the warning that
  says so, one that it "did not contain readable text"; files that are only
  named in a JSON request are neither summarised nor warned about;
* the branch of the final report is "main" whatever the repository has;
* `append_build_log` may report success although its entry is no longer in the
  file, but only in its history; an entry whose commit landed unseen is written
  again by the retry;
* the last snapshot of a run is not written again when its write fails, so the
  tables may say `started` for good; and a run ended by an exception is stored
  there as `TaskStatus.FAILED`, the `str(...)` of the enumeration member
  (project_session_store.py:128, service.py:145).

## 5. Proofs

`WorkflowProofs` proves, for every setting and runs of any length:

* `TypeCorrect`: `Spec => []TypeOK`.  One lemma per update helper (`Logged`,
  `Phased`, `Called`, `Answered`, `Refused`) says that it maps states to states,
  one lemma per node composes them.
* `SafetyInvariant`, and from it `AuthorisedAlways` and
  `CommitsValidatedAlways`.  Neither property is inductive: that a node may
  commit depends on where the run stands.  The invariant therefore divides the
  nodes into those before the exchange (`Early`), before the validation
  (`Before`) and after it (`Late`), and says what holds in each:
  `Authority` (nothing was written before the exchange; in a live run every later
  node has the exchange's credentials) and `Validity` (nothing is committed
  before the validation; after it the verdict stays and the manifest is live).
  `QuietStep` covers the nodes that touch none of this; the exchange, the
  creation of the repository, the manifest, the validation and the commit each
  have a proof of their own.
* `RunInvariant`, and from it `CompletedDeliveredAlways`,
  `FailureExplainedAlways`, `LoopBoundedAlways` and the action property
  `FailureStopsAlways`.  One lemma per node (`CreateRepoEffect`, `VerifyEffect`,
  ...) first says what its step does to the parts of the state: the verdict, the
  tool calls, the products, the timeline, the world.  `NextControl` and
  `NextTools` sum them up: a step continues, blocks, recovers, stops, delivers,
  gives up or raises, and it calls no tool or one, which accounts for what it
  wrote.  The invariant then says for each node how many steps brought the run
  there (`Traced`: its `Position`, and two more after a recovery), that only a
  test run recovers, once and past the commit (`Recovering`, `CommitsOnce`), that
  verdicts are given at the end (`Concluded`), which phases are behind
  (`PhasesBehind`), and where the manifest, the verification and the report are on
  the way to a delivery (`ManifestHeld`, `Verified`).
* `TaskInvariant`, and from it `RunnerTypeCorrect`, `StoppedSettledAlways`,
  `ObserverAlways` and the action properties `HistoryGrowsAlways` and
  `ApprovalsSurviveAlways`.  `Standing` says for each place of the coroutine how
  far the store is behind: it `Holds` what the run has while a node runs, and
  `Lags` by one node while a snapshot is to be stored; the copy of the failure
  handler has the trace of the store.  Every step of the task is a step of the
  run or leaves it alone (`RunnerVars`), so what is proved of a run holds of the
  run of a task (`TaskKeepsTheRun`, `TaskFailureStops`).
* `TaskImplementsLifecycle`: a task starts absent and every step of it is a step
  of `TaskLifecycle` or does not show there (`StepPromises`).  This is the safety
  half of `KeepsThePromise`; that a completed task was reported before, and
  that nothing is written after a verdict, come from `Lags` and from the failed
  node being the last.

Neither module assumes anything of its constants: `Workflow` has none, and
`Approvals` may be any set.

`GitHubConnectionProofs` proves, for any number of connections, tasks, codes and
reloads, in both stores (`Spec` also carries fairness, which these proofs do not
use):

* `ConnectionInvariant`, and from it `ConnectionTypeCorrect`,
  `ConnectedHasCredentialAlways`, `CredentialsAreTheirsAlways` and the action
  property `DisconnectIsFinalAlways`.  What the properties say of the stored
  records is not inductive: an exchange writes back the copy it read before its
  requests, so `GoodRecord` is required of the copies under way as well
  (`CopiesAreGood`).  A callback makes whatever record it finds ready, so only
  connections of OAuth may have codes (`CodesAreOAuth`), and a record keeps only
  codes that were issued; without that a callback could make an environment
  connection wait for an exchange, and serve a task another token than its
  service's.  That a task whose service offers no token of the backend gets it
  only in Supabase rests on `EnvRecordsAreOwn`: in memory such a record is in
  the store of the service that offered its token.  `NothingIsAhead` says that no
  task is launched with a service that is not there yet, so what a later one
  offers takes nothing from what a task was given (`EnvTokenStays`).  `GoodStays` carries a good record
  over any step, because a task that was granted stays so (`GrantedStays`) and a
  code never becomes unissued (`IssuedStays`).  `WriteKeepsRecords` and
  `NoWriteKeepsRecords` then leave to each action only what it writes, and
  `SettleKeepsAttempts` and `MoveStep` what it does to its exchange.
* Assumptions: `MaxGenerationAssumption`, and `NamesAssumption`, which keeps the
  names for "no code", "no token" and "no task" apart from the others and the
  two kinds of connection disjoint.

`RetrievalProofs` proves, for any number of tasks, pages, documents and
versions of them:

* `RetrievalTypeCorrect`, `OneReadingAlways` and the action property
  `LossReportedAlways`.  `OneReadingPerSource` needs only the type invariant:
  `TableSteps` shows that the table changes in two ways, the chunks of a source
  are replaced by those of the one version an actor read, or are deleted by an
  actor that was about to replace them; `RowsReplaced` and `RowsDeleted` say what
  either leaves of every source.
* Assumptions: `BoundsAssumption`.

`GitHubRepoProofs` proves, for any number of tasks, writers, names and retries:

* `RepoTypeCorrect`, `CreatorsAreAlone`, `ReportedCommitsStay`,
  `UserFilesAreKept` and the action property `BranchesGrow`.  The invariant adds
  to the type that every history is of commits there are and keeps the user's
  file (`CommitsOK`), that an absent repository has no head (`HeadsOK`), and what
  a call knows (`CallsOK`): what it created is there, and the commit it is about
  to report is its own and on the branch.  `CallChanges`, `BranchMoves` and their
  kin carry it over what a request may do to one call and one branch;
  histories only grow, which is what keeps the other calls right.
* `LogImplementsRepo`: every step of `BuildLog` is a step of `GitHubRepo` or
  leaves it alone, and the fairness of the one is the fairness the other has, so
  the theorems above hold with the log as well.
* `LogTypeCorrect`, `LoggedEntriesAreThere` and the action property
  `LogsAreKept`.  The invariant `LogIInv` adds that the commits of a history are
  ordered by their index, so that `Parent` is the head a commit was made on
  (`OrderOK`), that a commit of a writer has its entry (`EntriesOK`), and that a
  writer looks for its entry, or reports it, only after its commit call
  succeeded (`WritersOK`), which by `CommittedIsOnBranch` is on the branch.
* `EntriesRepeatBoundedly`.  A writer repeats its entry because it does not know
  what became of its commit, so the number of entries is bounded only by the
  number of attempts that may have committed (`Spent`).  `RepeatsInv` bounds by
  it every log and whatever any writer has read and not committed yet, and says
  that an attempt commits once: the call is past its commit when it is answered
  (`AttemptOK`, `CommitsOnce`).  A commit then adds one entry to a log that had
  no more than its writer had spent before (`ContentBound`).
* `WorkRunsOut`: each step takes from the `Work` of the caller whose step it is,
  and leaves that of all others as it is.  `Work` counts the requests to the end
  of a call (`Stage`), a lookup and a creation for each candidate left, the looks
  for an entry that are left and a whole attempt for each retry.  With this,
  `CallsSettle` needs no more than that a caller that is not at its end can
  always take its step, which is what TLC checks.
* Assumptions: `CandidatesAssumption`, `CallersAssumption`, `FilesAssumption` and
  `LimitsAssumption`.

`ModelClientProofs` proves, for all retries, polls, pauses, token budgets and
durations of a request:

* `ClientTypeCorrect`, `BudgetIsKeptAlways`, `GivesUpLate`, `ContractIsKept`
  (the contract with `Workflow`) and the action property `RetriesAskForMore`.
  `Progress` says how many attempts and status requests the exchange has
  counted, and `Budget` bounds the requests and the clock by what the attempts
  so far may use; the step that starts an attempt pays for one more, and a
  request that is slower than all before raises what each may use
  (`SlowerCostsMore`).  `Asking`
  relates the budget of the next request to the tokens of the last.
* Assumptions: those `ModelClient` names for its settings.

`DashboardProofs` proves, for any number of submissions, `DashboardTypeCorrect`
and the action property `NothingIsShownAgain`.  A late answer cannot do harm
because the detail on the screen is the followed task's (`DetailOK`), the poller
is the effect's (`PollerFollows`), and its answer is no older than what is shown
(`AnswerAgrees`); cancelled chains may end, but write nothing.

`SessionStoreProofs` proves, for any number of snapshots:

* `SessionTypeCorrect`, `LogIsABeginning` and `RowsAreSingle`.  The requests still
  to be sent are always the end of one snapshot's list (`RequestsOK`): the
  deletion of a part comes before its insertion, and the entries of the log start
  where the count stands.  `LogOK` says how far the table may be ahead of the
  count: only by entries whose answer was lost.
* `CleanSnapshotsAreComplete`.  While a snapshot is sent, each of its rows is
  either in its table, with nothing left to send there, or `Awaited` from a
  request no later one undoes (`Repairing`, `RowsComeLast`).  A new snapshot
  establishes this whatever the tables hold (`SnapshotBatch`), an answer preserves
  it (`AwaitedStep`), and when nothing is left it says the snapshot is complete.
* Assumptions: `MaxSnapshotsAssumption`.

`ProjectFilesProofs` proves, for any limits, sources and manifests:

* `FilesTypeCorrect`, `SourcesAreToldOrRead` and `PromptsAreBounded`: the budget
  counts the characters of the summaries, whose sum goes up with each
  (`TotalOfMore`).
* `CommitsAreHealthy`: the health check can fail only for want of an answer.
* `ManifestsAreCommitted`, `ValidatedFilesAreCommitted` and `LinksAlwaysResolve`.
  `HydratedIs` says that the merge of a manifest has of each path what its last
  counting entry says, `ScaffoldStays` and `MergeKeeps` that neither the second
  listing nor the health scaffold replaces it on the way to the commit.
* The sum and the merge are recursive functions.  Their equations need that such
  a function exists (`Recursion`) and what they compute an induction
  (`SetInduction`: a set with 0 that is closed under successor has every number).
  Both are proved here from the library's theorem that a well-founded relation
  has minimal elements, which takes sets only.
* Assumptions: `BudgetAssumption` of `SourceContext`, `PathsAssumption`, and
  `NamesAssumption`, that a name the hydration skips is not a path.

Only model-checked is liveness (`ExchangesSettle`, `CallsSettle`, `VerdictIsShown`,
the liveness half of `KeepsThePromise`), which is outside the prover's reach.
Every invariant and every action property of the passing runs is a theorem.

## 6. Not modelled

Texts of every kind (prompts, plans, file contents, error messages), parsing of
the intake form, the bodies of the project templates, encryption of codes and
tokens, the mock dictionary of the tools, and the tool logger (one insert whose
failure is ignored).  Of the files two spellings of one path, and a build log
listed by the model and appended to as well; of the dashboard the
polling of the GitHub sign-in and the form; of the retrieval the score of a
match, the outcome memory beyond the number of its rows, and how evidence is
turned into a stack; of the model client the connection probe.

## 7. Plan

1. The composition of `Dashboard` with `TaskLifecycle`, and of `SessionStore`
   with `TaskRunner`: today they meet in the statuses of a task.
2. The chunker as a pure operator, checked against a reference definition.

