------------------------------ MODULE BuildLog ------------------------------
(***************************************************************************)
(* append_build_log (tools/repo_writer.py): a writer reads the log of a      *)
(* repository, commits it whole with its entry at the end, and looks for the *)
(* entry.  It does all of that again when the commit or the check fails.     *)
(* Other writers, and the tasks of GitHubRepo, commit in between.            *)
(*                                                                         *)
(* The contents API may answer with the file of an earlier commit.  An entry *)
(* is the writer it is from.                                                *)
(***************************************************************************)
EXTENDS GitHubRepo, FiniteSets

CONSTANTS
    BuildLogRetryLimit,
    BuildLogVerifyAttempts

ASSUME LimitsAssumption ==
    /\ BuildLogRetryLimit \in Nat
    /\ BuildLogVerifyAttempts \in Nat \ {0}

VARIABLES
    appends,    \* append_build_log, by writer
    logs        \* of each commit

logVars == <<vars, appends, logs>>

\* existing: the log the writer read; tries: at finding its entry in the file.
Appends == [pc : {"idle", "reading", "committing", "waiting", "verifying",
                  "logged", "failed"},
            attempt : Nat, existing : Seq(LogWriters), tries : Nat]

LogAt(i) == IF i = 0 THEN <<>> ELSE logs[i]

\* What a request for the file may return.
Readable(w) == {LogAt(i) : i \in History(RepoOf(w).head)} \cup {<<>>}

LogInit ==
    /\ Init
    /\ logs = <<<<>>>>
    /\ \E active \in SUBSET LogWriters :
          appends = [w \in LogWriters |->
                       [pc |-> IF w \in active THEN "reading" ELSE "idle",
                        attempt |-> 0, existing |-> <<>>, tries |-> 0]]

Becomes(w, pc) == appends' = [appends EXCEPT ![w].pc = pc]

MutantAgain(w) == Becomes(w, "reading")

\* Any failure is followed by another attempt, or ends the call.
Again(w) ==
    IF appends[w].attempt < BuildLogRetryLimit
    THEN appends' = [appends EXCEPT ![w].pc = "reading", ![w].attempt = @ + 1]
    ELSE Becomes(w, "failed")

\* A read that fails is taken for a log without entries.
GetFileText(w) ==
    /\ appends[w].pc = "reading"
    /\ \E existing \in Readable(w) :
          appends' = [appends EXCEPT ![w].pc = "committing", ![w].existing = existing,
                                     ![w].tries = 0]
    /\ CommitLog(w)
    /\ UNCHANGED logs

MutantCommitResult(w) ==
    /\ appends[w].pc = "committing"
    /\ calls[w].pc \in {"committed", "failed"}
    /\ Becomes(w, "waiting")
    /\ UNCHANGED <<vars, logs>>

CommitResult(w) ==
    /\ appends[w].pc = "committing"
    /\ \/ calls[w].pc = "committed" /\ Becomes(w, "waiting")
       \/ calls[w].pc = "failed"    /\ Again(w)
    /\ UNCHANGED <<vars, logs>>

Has(log, w) == \E k \in 1..Len(log) : log[k] = w

\* One request for the file, of which any exception ends the attempt.
WaitForFileEntry(w) ==
    LET last == 1 + appends[w].tries = BuildLogVerifyAttempts
    IN  /\ appends[w].pc = "waiting"
        /\ \/ /\ \E log \in Readable(w) : Has(log, w)
              /\ Becomes(w, "logged")
           \/ /\ \E log \in Readable(w) : ~Has(log, w)
              /\ appends' = [appends EXCEPT ![w].pc = IF last THEN "verifying" ELSE @,
                                            ![w].tries = @ + 1]
           \/ Again(w)
        /\ UNCHANGED <<vars, logs>>

\* The entry is not in the file, but its commit is there and has the file.
VerifyLogCommit(w) ==
    /\ appends[w].pc = "verifying"
    /\ Becomes(w, "logged") \/ Again(w)
    /\ UNCHANGED <<vars, logs>>

AppendBuildLog(w) ==
    \/ GetFileText(w) \/ CommitResult(w) \/ WaitForFileEntry(w) \/ VerifyLogCommit(w)

\* The parent of a new commit, or 0.
Parent(commit) ==
    LET under == commit.history \ {Len(commits')}
    IN  IF under = {} THEN 0 ELSE CHOOSE i \in under : \A j \in under : j <= i

MutantContent(commit) ==
    IF commit.by \in LogWriters THEN <<commit.by>> ELSE LogAt(Parent(commit))

\* A writer commits the log it read and its entry; of others the file is as
\* under them.
Content(commit) ==
    IF commit.by \in LogWriters
    THEN Append(appends[commit.by].existing, commit.by)
    ELSE LogAt(Parent(commit))

LogsFollow ==
    logs' = IF commits' = commits THEN logs
                                  ELSE Append(logs, Content(commits'[Len(commits')]))

Act(t) ==
    \/ /\ \/ t \in Tasks /\ CreateRepo(t)
          \/ CommitFiles(t)
       /\ LogsFollow
       /\ UNCHANGED appends
    \/ t \in LogWriters /\ AppendBuildLog(t)

LogNext == \E t \in Callers : Act(t)

\* A request has a timeout of 20 seconds.
Fairness == \A t \in Callers : WF_logVars(Act(t))

LogSpec == LogInit /\ [][LogNext]_logVars /\ Fairness

-----------------------------------------------------------------------------
(* Properties.                                                             *)

\* Calls and logs have the shape the writer gives them; every commit has a log.
LogTypeOK ==
    /\ TypeOK
    /\ appends \in [LogWriters -> Appends]
    /\ logs \in Seq(Seq(LogWriters))
    /\ Len(logs) = Len(commits)

HeadLog(n) == LogAt(repos[n].head)

\* The log of a branch only gets longer, whoever commits; except that a writer
\* whose read failed, or was overtaken, puts its entry after what it had read.
EntriesAreKept ==
    [][\A n \in Names :
          \/ /\ Len(HeadLog(n)) <= Len(HeadLog(n)')
             /\ \A k \in 1..Len(HeadLog(n)) : HeadLog(n)'[k] = HeadLog(n)[k]
          \/ \E w \in LogWriters :
                /\ NameOf(w) = n
                /\ appends[w].existing # HeadLog(n)
                /\ HeadLog(n)' = Append(appends[w].existing, w)]_logVars

\* An append that reports success has its entry in a log on the branch, in the
\* history if not at its head.
LoggedIsOnBranch ==
    \A w \in LogWriters :
        appends[w].pc = "logged" =>
            \E i \in History(RepoOf(w).head) : Has(LogAt(i), w)

Times(log, w) == Cardinality({k \in 1..Len(log) : log[k] = w})

\* Retries of an append that landed repeat its entry, but not more often than
\* the writer tries, whatever it reads back of its own.
RepeatsAreBounded ==
    \A i \in 1..Len(logs), w \in LogWriters :
        Times(logs[i], w) <= 1 + BuildLogRetryLimit

\* Every call ends, whatever the names and commits of others.
CallsSettle ==
    /\ \A t \in Tasks : <>(calls[t].pc \in {"idle", "committed", "failed"})
    /\ \A w \in LogWriters : <>(appends[w].pc \in {"idle", "logged", "failed"})
=============================================================================
