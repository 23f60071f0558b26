----------------------------- MODULE GitHubRepo -----------------------------
(***************************************************************************)
(* The repository tools of the live adapter (tools/github_tool.py): find or  *)
(* create a repository under one of the candidate names, commit the files on *)
(* its default branch, verify the commit.  Build tasks run their nodes in    *)
(* threads, so that two tasks, whose projects may have the same name,        *)
(* interleave between any two requests to GitHub.  One action is one request *)
(* and what the tool does with the answer; any request may fail, and one     *)
(* that writes may have written although its answer is lost.  The writers of *)
(* the build log (BuildLog) commit one file with the same tool, as often as  *)
(* they like.                                                               *)
(*                                                                         *)
(* GitHub is external: repositories, their branch, and the immutable commits *)
(* of one object store.  A commit's tree says of each path who wrote it.     *)
(***************************************************************************)
EXTENDS Naturals, Sequences

CONSTANTS
    Tasks,
    LogWriters,
    Names,          \* of repositories
    Candidates,     \* what repo_name_candidates gives for a task, in order;
                    \* the repository a log writer is given
    FirstFile,      \* the first of the generated files
    OtherFiles,     \* the other generated files
    LogPath,        \* the build log
    UserFile,       \* a file the generated project does not have
    User, Nobody

Callers == Tasks \cup LogWriters

ASSUME CandidatesAssumption == Candidates \in [Callers -> Seq(Names) \ {<<>>}]
ASSUME CallersAssumption ==
    /\ Tasks \cap LogWriters = {}
    /\ {User, Nobody} \cap Callers = {}
    /\ User # Nobody
ASSUME FilesAssumption ==
    /\ UserFile \notin {FirstFile, LogPath} \cup OtherFiles
    /\ LogPath \notin {FirstFile} \cup OtherFiles

VARIABLES
    repos,      \* by name
    commits,    \* the object store; a commit is named by its index
    calls       \* create_repo and commit_files, by caller

vars == <<repos, commits, calls>>

Paths   == {FirstFile, LogPath, UserFile} \cup OtherFiles
Writers == Callers \cup {User, Nobody}
Trees   == [Paths -> Writers]

Files == {FirstFile} \cup OtherFiles

\* The first of the files a caller commits.
First(t) == IF t \in LogWriters THEN LogPath ELSE FirstFile

NoTree   == [p \in Paths |-> Nobody]
UserTree == [NoTree EXCEPT ![UserFile] = User]

TreeOf(i) == IF i = 0 THEN NoTree ELSE commits[i].tree

\* A commit and those under it: the history of a branch at it.
History(i) == IF i = 0 THEN {} ELSE commits[i].history
Commits    == [history : SUBSET Nat, tree : Trees, by : Writers]

\* A name that is hidden is taken, but not shown to a lookup.
Repos == [status : {"absent", "present", "hidden"}, head : Nat]

\* candidate: index of the name being tried; tip: the commit the branch was
\* read at; blob: who wrote the first file when it was read; commit: the
\* caller's own commit.
Calls == [pc : {"idle", "looking", "creating", "confirming", "opening", "seeding",
                "putting", "reading", "updating", "verifying",
                "committed", "failed"},
          candidate : Nat, created : BOOLEAN, seeded : BOOLEAN,
          files : SUBSET Paths, tip : Nat, blob : Writers, commit : Nat]

NameOf(t) == Candidates[t][calls[t].candidate]
RepoOf(t) == repos[NameOf(t)]

NewCall(files) == [pc |-> "idle", candidate |-> 1, created |-> FALSE,
                   seeded |-> FALSE, files |-> files, tip |-> 0,
                   blob |-> Nobody, commit |-> 0]

\* A repository of the user's own may be there, with a file or without any
\* commit.  A task that runs commits one file or all.
Init ==
    /\ commits = <<[history |-> {1}, tree |-> UserTree, by |-> User]>>
    /\ repos \in [Names -> {[status |-> "absent",  head |-> 0],
                            [status |-> "hidden",  head |-> 0],
                            [status |-> "present", head |-> 0],
                            [status |-> "present", head |-> 1]}]
    /\ \E active \in SUBSET Tasks, files \in [Tasks -> {{FirstFile}, Files}] :
          calls = [t \in Callers |->
                     IF t \in LogWriters THEN NewCall({LogPath})
                     ELSE [NewCall(files[t]) EXCEPT
                             !.pc = IF t \in active THEN "looking" ELSE "idle"]]

Goes(t, pc) == calls' = [calls EXCEPT ![t].pc = pc]
Fails(t)    == Goes(t, "failed") /\ UNCHANGED <<repos, commits>>

-----------------------------------------------------------------------------
(* create_repo.                                                            *)

MutantNextCandidate(t) ==
    /\ calls' = [calls EXCEPT
                   ![t].pc = "looking",
                   ![t].candidate = 1 + (@ % Len(Candidates[t]))]
    /\ UNCHANGED <<repos, commits>>

\* The name is taken: the next candidate, or a failure after the last.
NextCandidate(t) ==
    IF calls[t].candidate < Len(Candidates[t])
    THEN /\ calls' = [calls EXCEPT ![t].pc = "looking", ![t].candidate = @ + 1]
         /\ UNCHANGED <<repos, commits>>
    ELSE Fails(t)

\* A repository of that name is reused.
LookUp(t) ==
    /\ calls[t].pc = "looking"
    /\ \/ Goes(t, IF RepoOf(t).status = "present" THEN "opening" ELSE "creating")
          /\ UNCHANGED <<repos, commits>>
       \/ Fails(t)

\* GitHub initialises what it creates with a commit of its own, which has
\* none of the files told apart here.
FirstCommit == [history |-> {1 + Len(commits)}, tree |-> NoTree, by |-> Nobody]

MutantCreateUserRepo(t) ==
    /\ calls[t].pc = "creating"
    /\ \/ /\ RepoOf(t).status # "hidden"
          /\ commits' = Append(commits, FirstCommit)
          /\ repos' = [repos EXCEPT ![NameOf(t)].status = "present",
                                    ![NameOf(t)].head = IF @ = 0 THEN Len(commits') ELSE @]
          /\ calls' = [calls EXCEPT ![t].created = TRUE, ![t].pc = "confirming"]
       \/ RepoOf(t).status = "hidden" /\ NextCandidate(t)
       \/ Fails(t)

\* The name may have been taken since the lookup.
CreateUserRepo(t) ==
    /\ calls[t].pc = "creating"
    /\ \/ /\ RepoOf(t).status = "absent"
          /\ commits' = Append(commits, FirstCommit)
          /\ repos' = [repos EXCEPT ![NameOf(t)] = [status |-> "present",
                                                    head |-> Len(commits')]]
          /\ \E answered \in BOOLEAN :
                calls' = [calls EXCEPT ![t].created = TRUE,
                                       ![t].pc = IF answered THEN "confirming" ELSE "failed"]
       \/ RepoOf(t).status # "absent" /\ NextCandidate(t)
       \/ Fails(t)

Confirm(t) ==
    /\ calls[t].pc = "confirming"
    /\ \E pc \in {"opening", "failed"} : Goes(t, pc)
    /\ UNCHANGED <<repos, commits>>

-----------------------------------------------------------------------------
(* commit_files.                                                           *)

\* A log writer commits, the first time or again.
CommitLog(w) ==
    /\ calls[w].pc \in {"idle", "committed", "failed"}
    /\ calls' = [calls EXCEPT ![w] = [NewCall({LogPath}) EXCEPT !.pc = "opening"]]
    /\ UNCHANGED <<repos, commits>>

\* The branch is read, and the tree of the commit it is at.  A repository
\* without a commit is seeded through the contents API.
GetRef(t) ==
    /\ calls[t].pc = "opening"
    /\ \/ /\ RepoOf(t).status = "present"
          /\ calls' = [calls EXCEPT ![t].tip = RepoOf(t).head,
                                    ![t].pc = IF RepoOf(t).head = 0 THEN "seeding"
                                                                    ELSE "updating"]
          /\ UNCHANGED <<repos, commits>>
       \/ Fails(t)

GetContents(t) ==
    /\ calls[t].pc = "seeding"
    /\ \/ calls' = [calls EXCEPT ![t].blob = TreeOf(RepoOf(t).head)[First(t)],
                                 ![t].pc = "putting"]
          /\ UNCHANGED <<repos, commits>>
       \/ Fails(t)

Written(tree, files, t) == [p \in Paths |-> IF p \in files THEN t ELSE tree[p]]

MutantCommitted(t, parent, files, pc) ==
    /\ commits' = Append(commits, [history |-> History(parent) \cup {1 + Len(commits)},
                                   tree |-> Written(NoTree, files, t), by |-> t])
    /\ repos' = [repos EXCEPT ![NameOf(t)] = [status |-> "present", head |-> Len(commits')]]
    /\ calls' = [calls EXCEPT ![t].pc = pc, ![t].commit = Len(commits')]

\* A commit of these files on top of parent, to which the branch moves.
Committed(t, parent, files, pc) ==
    /\ commits' = Append(commits, [history |-> History(parent) \cup {1 + Len(commits)},
                                   tree |-> Written(TreeOf(parent), files, t), by |-> t])
    /\ repos' = [repos EXCEPT ![NameOf(t)] = [status |-> "present", head |-> Len(commits')]]
    /\ calls' = [calls EXCEPT ![t].pc = pc, ![t].commit = Len(commits')]

\* The first file alone makes a commit of its own; GitHub refuses it if the
\* file is not the one that was read.
PutContents(t) ==
    LET head == RepoOf(t).head
        next == IF calls[t].files = {First(t)} THEN "verifying" ELSE "reading"
    IN  /\ calls[t].pc = "putting"
        /\ \/ /\ TreeOf(head)[First(t)] = calls[t].blob
              /\ \E pc \in {next, "failed"} : Committed(t, head, {First(t)}, pc)
           \/ Fails(t)

\* The branch is read again for the remaining files.
GetRefAgain(t) ==
    /\ calls[t].pc = "reading"
    /\ \/ calls' = [calls EXCEPT ![t].tip = RepoOf(t).head, ![t].pc = "updating",
                                 ![t].seeded = TRUE, ![t].files = @ \ {First(t)}]
          /\ UNCHANGED <<repos, commits>>
       \/ Fails(t)

MutantUpdateRef(t) ==
    /\ calls[t].pc = "updating"
    /\ \/ \E pc \in {"verifying", "failed"} :
                Committed(t, calls[t].tip, calls[t].files, pc)
       \/ Fails(t)

\* Blobs, tree and commit are made on the tip that was read; the branch moves
\* to the commit only if that is a fast-forward.
UpdateRef(t) ==
    /\ calls[t].pc = "updating"
    /\ \/ /\ RepoOf(t).head = calls[t].tip
          /\ \E pc \in {"verifying", "failed"} :
                Committed(t, calls[t].tip, calls[t].files, pc)
       \/ Fails(t)

\* verify_commit: any exception makes a commit that is there unverified.
Verdicts == {"committed", "failed"}

\* A commit that cannot be verified is reported as failed; it stays.
VerifyCommit(t) ==
    /\ calls[t].pc = "verifying"
    /\ \E verdict \in Verdicts : Goes(t, verdict)
    /\ UNCHANGED <<repos, commits>>

CreateRepo(t) == LookUp(t) \/ CreateUserRepo(t) \/ Confirm(t)

CommitFiles(t) ==
    \/ GetRef(t) \/ GetContents(t) \/ PutContents(t) \/ GetRefAgain(t)
    \/ UpdateRef(t) \/ VerifyCommit(t)

Next ==
    \/ \E t \in Tasks : CreateRepo(t)
    \/ \E t \in Callers : CommitFiles(t)
    \/ \E w \in LogWriters : CommitLog(w)

Spec == Init /\ [][Next]_vars

-----------------------------------------------------------------------------
(* Properties.                                                             *)

\* Repositories, commits and calls have the values the tools give them, and no
\* name or commit is out of range.
TypeOK ==
    /\ repos \in [Names -> Repos]
    /\ commits \in Seq(Commits)
    /\ calls \in [Callers -> Calls]
    /\ \A t \in Callers : calls[t].candidate \in 1..Len(Candidates[t])
    /\ \A n \in Names : repos[n].head <= Len(commits)

\* Two tasks never both take themselves for the creator of one repository.
CreatorsDoNotShare ==
    \A t, u \in Callers :
        t # u /\ calls[t].created /\ calls[u].created => NameOf(t) # NameOf(u)

\* No task drops a commit from a branch, its own or another's.
HistoryIsKept ==
    [][\A n \in Names : History(repos[n].head) \subseteq History(repos[n].head)']_vars

\* A call that reports success left its commit on the branch, written by it.
CommittedIsOnBranch ==
    \A t \in Callers :
        calls[t].pc = "committed" =>
            /\ calls[t].commit \in History(RepoOf(t).head)
            /\ commits[calls[t].commit].by = t

\* A file of the user's that the project does not have survives every commit.
UserFilesSurvive ==
    \A n \in Names :
        1 \in History(repos[n].head) => TreeOf(repos[n].head)[UserFile] = User

\* What commit_files says of itself: it commits the files in one commit.  The
\* commit it reports has the content of each of the files it was given, also
\* of the first, which an empty repository gets in a commit before it.
CommitHasAllFiles ==
    \A t \in Callers :
        calls[t].pc = "committed" =>
            \A p \in calls[t].files \cup (IF calls[t].seeded THEN {First(t)} ELSE {}) :
                commits[calls[t].commit].tree[p] = t
=============================================================================
