-------------------------- MODULE GitHubRepoProofs --------------------------
(* What commits of the repository tools never do to a branch, nor the writers *)
(* of the build log to it, for any number of tasks, log writers, names,      *)
(* commits and retries.                                                     *)
EXTENDS BuildLog, FiniteSetTheorems, TLAPS

\* Every commit has a history among the commits there are, and keeps the file
\* of the user's that is in it.
CommitsOK ==
    /\ Len(commits) >= 1
    /\ \A i \in 1..Len(commits) :
          /\ commits[i].history \subseteq 1..Len(commits)
          /\ 1 \in commits[i].history => commits[i].tree[UserFile] = User

HeadsOK == \A n \in Names : repos[n].status = "absent" => repos[n].head = 0

\* Of call c of t, in what there is: it writes no file of the user's, what it
\* created is there, and what it is about to report is on the branch.
CallOK(t, c) ==
    /\ c.candidate \in 1..Len(Candidates[t])
    /\ UserFile \notin c.files
    /\ c.created => /\ c.pc \notin {"looking", "creating"}
                    /\ repos[Candidates[t][c.candidate]].status = "present"
    /\ c.pc \in {"verifying", "committed"} =>
          /\ c.commit \in History(repos[Candidates[t][c.candidate]].head)
          /\ commits[c.commit].by = t

CallsOK == \A t \in Callers : CallOK(t, calls[t])

IInv == TypeOK /\ CommitsOK /\ HeadsOK /\ CallsOK /\ CreatorsDoNotShare

\* No branch loses a commit in a step.
HistoryStep ==
    \A n \in Names : History(repos[n].head) \subseteq History(repos[n].head)'

-----------------------------------------------------------------------------
\* What becomes of a call when its commit has landed.
Landed(c, pc, k) == [c EXCEPT !.pc = pc, !.commit = k]

LEMMA LandedCall ==
    ASSUME NEW c \in Calls, NEW pc \in {"verifying", "reading", "failed"}, NEW k \in Nat
    PROVE  /\ Landed(c, pc, k) \in Calls
           /\ Landed(c, pc, k).pc = pc
           /\ Landed(c, pc, k).commit = k
           /\ Landed(c, pc, k).candidate = c.candidate
           /\ Landed(c, pc, k).created = c.created
           /\ Landed(c, pc, k).files = c.files
BY DEF Calls, Landed

\* The first state of a call.
Begun(files, pc) == [NewCall(files) EXCEPT !.pc = pc]

LEMMA BegunCall ==
    ASSUME NEW files \in SUBSET Paths, NEW pc \in {"idle", "looking", "opening"}
    PROVE  /\ Begun(files, pc) \in Calls
           /\ Begun(files, pc).pc = pc
           /\ Begun(files, pc).candidate = 1
           /\ Begun(files, pc).created = FALSE
           /\ Begun(files, pc).files = files
<1>1. PICK c : c = NewCall(files)
  OBVIOUS
<1>2. c \in Calls /\ c.candidate = 1 /\ c.created = FALSE /\ c.files = files
  BY <1>1 DEF NewCall, Calls, Writers
<1>3. Begun(files, pc) = [c EXCEPT !.pc = pc]
  BY <1>1 DEF Begun
<1> QED
  BY <1>2, <1>3 DEF Calls

LEMMA InitIInv == Init => IInv
<1> SUFFICES ASSUME Init PROVE IInv
  OBVIOUS
<1> USE CandidatesAssumption, CallersAssumption, FilesAssumption
<1>1. UserTree \in Trees /\ UserTree[UserFile] = User
  BY DEF UserTree, NoTree, Trees, Writers, Paths
<1>2. commits \in Seq(Commits) /\ Len(commits) = 1 /\ commits[1] = [history |-> {1}, tree |-> UserTree, by |-> User]
  BY <1>1 DEF Init, Commits, Writers
<1>3. repos \in [Names -> Repos] /\ \A n \in Names : repos[n].head <= 1
  BY DEF Init, Repos
<1>4. PICK active \in SUBSET Tasks, files \in [Tasks -> {{FirstFile}, Files}] :
        calls = [t \in Callers |->
                   IF t \in LogWriters THEN NewCall({LogPath})
                   ELSE [NewCall(files[t]) EXCEPT
                           !.pc = IF t \in active THEN "looking" ELSE "idle"]]
  BY DEF Init
<1>5. ASSUME NEW t \in Callers
      PROVE  calls[t] \in Calls /\ CallOK(t, calls[t]) /\ ~calls[t].created
  <2>1. Candidates[t] \in Seq(Names) /\ Len(Candidates[t]) >= 1
    BY DEF Callers
  <2>2. \A fs \in SUBSET Paths : NewCall(fs) \in Calls
    BY DEF NewCall, Calls, Writers
  <2>3. CASE t \in LogWriters
    <3>1. calls[t] = NewCall({LogPath})
      BY <1>4, <2>3
    <3> QED
      BY <2>1, <2>2, <3>1 DEF CallOK, NewCall, Paths
  <2>4. CASE t \notin LogWriters
    <3>1. t \in Tasks /\ files[t] \in {{FirstFile}, Files}
      BY <1>4, <2>4 DEF Callers
    <3>2. calls[t] = [NewCall(files[t]) EXCEPT !.pc = IF t \in active THEN "looking" ELSE "idle"]
      BY <1>4, <2>4
    <3>3. files[t] \subseteq Paths /\ UserFile \notin files[t]
      BY <3>1 DEF Files, Paths
    <3>. PICK fs \in SUBSET Paths : fs = files[t]
      BY <3>3
    <3>. PICK pc \in {"looking", "idle"} : calls[t] = Begun(fs, pc)
      BY <3>2 DEF Begun
    <3>4. /\ Begun(fs, pc) \in Calls /\ Begun(fs, pc).candidate = 1
          /\ Begun(fs, pc).created = FALSE /\ Begun(fs, pc).files = fs
          /\ Begun(fs, pc).pc = pc
      <4>1. pc \in {"idle", "looking", "opening"}
        OBVIOUS
      <4> QED
        BY ONLY fs \in SUBSET Paths, <4>1, BegunCall
    <3> QED
      BY <2>1, <3>3, <3>4 DEF CallOK
  <2> QED
    BY <2>3, <2>4
<1>6. TypeOK
  <2>1. calls \in [Callers -> Calls]
    BY <1>4, <1>5
  <2>2. \A t \in Callers : calls[t].candidate \in 1..Len(Candidates[t])
    BY <1>5 DEF CallOK
  <2> QED
    BY <1>2, <1>3, <2>1, <2>2 DEF TypeOK
<1>7. CommitsOK
  BY <1>1, <1>2 DEF CommitsOK
<1>8. HeadsOK
  BY DEF Init, HeadsOK
<1> QED
  BY <1>5, <1>6, <1>7, <1>8 DEF IInv, CallsOK, CreatorsDoNotShare

\* A step that only changes a call, which stays where it was if it created
\* its repository.
LEMMA CallChanges ==
    ASSUME IInv, NEW t \in Callers, NEW c \in Calls,
           calls' = [calls EXCEPT ![t] = c],
           UNCHANGED <<repos, commits>>,
           CallOK(t, c),
           c.created => calls[t].created /\ c.candidate = calls[t].candidate
    PROVE  IInv' /\ HistoryStep
<1> USE DEF IInv, TypeOK
<1>1. calls' \in [Callers -> Calls] /\ calls'[t] = c
  OBVIOUS
<1>2. \A u \in Callers : u # t => calls'[u] = calls[u]
  OBVIOUS
<1>3. CallsOK'
  <2>1. ASSUME NEW u \in Callers, NEW d \in Calls, CallOK(u, d)
        PROVE  CallOK(u, d)'
    BY <2>1 DEF CallOK, History
  <2>2. CallOK(t, c)'
    BY <2>1
  <2>3. ASSUME NEW u \in Callers, u # t, NEW d, d = calls[u]
        PROVE  CallOK(u, d)'
    BY <2>1, <2>3 DEF CallsOK
  <2> QED
    BY <1>1, <1>2, <2>2, <2>3 DEF CallsOK
<1>4. TypeOK'
  BY <1>1, <1>3 DEF CallsOK, CallOK
<1>5. CreatorsDoNotShare'
  BY <1>1, <1>2 DEF CreatorsDoNotShare, NameOf
<1>6. HistoryStep
  BY DEF HistoryStep, History
<1> QED
  BY <1>3, <1>4, <1>5, <1>6 DEF CommitsOK, HeadsOK

\* A commit on top of the head of a branch, to which the branch moves.
LEMMA BranchMoves ==
    ASSUME IInv, NEW t \in Callers, NEW commit \in Commits, NEW d \in Calls,
           commit.history = History(RepoOf(t).head) \cup {1 + Len(commits)},
           1 \in History(RepoOf(t).head) => commit.tree[UserFile] = User,
           commits' = Append(commits, commit),
           repos' = [repos EXCEPT ![NameOf(t)] = [status |-> "present",
                                                  head |-> Len(commits')]],
           calls' = [calls EXCEPT ![t] = d],
           d.candidate = calls[t].candidate,
           UserFile \notin d.files,
           d.created => /\ d.pc \notin {"looking", "creating"}
                        /\ calls[t].created \/ RepoOf(t).status = "absent",
           d.pc \in {"verifying", "committed"} => d.commit = 1 + Len(commits) /\ commit.by = t
    PROVE  IInv' /\ HistoryStep
<1> USE CandidatesAssumption
<1>1. NameOf(t) \in Names /\ Candidates[t] \in Seq(Names)
  BY DEF IInv, TypeOK, NameOf, Callers
<1>. PICK n \in Names : n = NameOf(t)
  BY <1>1
<1>. PICK head \in Nat : head = repos[n].head
  BY DEF IInv, TypeOK, Repos
<1> DEFINE new == 1 + Len(commits)
<1>2. commits \in Seq(Commits) /\ Len(commits) \in Nat /\ Len(commits) >= 1
  BY DEF IInv, TypeOK, CommitsOK
<1>3. head \in 0..Len(commits)
  BY <1>2 DEF IInv, TypeOK
<1>4. History(head) \subseteq 1..Len(commits)
  BY <1>2, <1>3 DEF History, IInv, CommitsOK
<1>5. /\ commits' \in Seq(Commits)
      /\ Len(commits') = new
      /\ commits'[new] = commit
      /\ \A i \in 1..Len(commits) : commits'[i] = commits[i]
  BY <1>2
<1>6. commit.history = History(head) \cup {new}
  BY DEF RepoOf
<1>7. /\ repos' \in [Names -> Repos]
      /\ \A m \in Names : m # n => repos'[m] = repos[m]
      /\ repos'[n].head = new /\ repos'[n].status = "present"
  BY <1>2, <1>5 DEF IInv, TypeOK, Repos
<1>8. /\ calls' \in [Callers -> Calls]
      /\ \A u \in Callers : u # t => calls'[u] = calls[u]
      /\ calls'[t] = d
  BY DEF IInv, TypeOK
<1>9. \A m \in Names : /\ repos'[m].head \in 0..new
                       /\ m # n => repos'[m].head \in 0..Len(commits)
  BY <1>2, <1>7 DEF IInv, TypeOK, Repos
<1>10. History(repos[n].head)' = History(head) \cup {new}
  BY <1>2, <1>5, <1>6, <1>7 DEF History
<1>11. \A m \in Names : m # n => History(repos[m].head)' = History(repos[m].head)
  BY <1>5, <1>7, <1>9 DEF History
<1>12. HistoryStep
  BY <1>10, <1>11 DEF HistoryStep
<1>13. TypeOK'
  <2>1. \A u \in Callers : calls'[u].candidate \in 1..Len(Candidates[u])
    BY <1>8 DEF IInv, TypeOK
  <2>2. \A m \in Names : repos'[m].head <= Len(commits')
    BY <1>2, <1>5, <1>9
  <2> QED
    BY <1>5, <1>7, <1>8, <2>1, <2>2 DEF TypeOK
<1>14. CommitsOK'
  <2>1. ASSUME NEW i \in 1..new
        PROVE  /\ commits'[i].history \subseteq 1..new
               /\ 1 \in commits'[i].history => commits'[i].tree[UserFile] = User
    <3>1. CASE i = new
      BY <1>2, <1>4, <1>5, <1>6, <3>1 DEF RepoOf
    <3>2. CASE i # new
      BY <1>2, <1>5, <3>2 DEF IInv, CommitsOK
    <3> QED
      BY <3>1, <3>2
  <2> QED
    BY <1>2, <1>5, <2>1 DEF CommitsOK
<1>15. HeadsOK'
  BY <1>7 DEF HeadsOK, IInv
<1>16. CallsOK'
  <2> SUFFICES ASSUME NEW u \in Callers PROVE CallOK(u, calls[u])'
    BY DEF CallsOK
  <2>1. CallOK(u, calls[u]) /\ calls[u] \in Calls
    BY DEF IInv, CallsOK, TypeOK
  <2>2. Candidates[u][calls[u].candidate] \in Names
    BY <2>1 DEF CallOK, Callers
  <2>3. CASE u = t
    <3>1. commits'[new].by = commit.by
      BY <1>5
    <3> QED
      BY <1>7, <1>8, <1>10, <2>1, <2>3, <3>1 DEF CallOK, NameOf
  <2>4. CASE u # t
    <3>1. calls'[u] = calls[u]
      BY <1>8, <2>4
    <3>. PICK m \in Names : m = Candidates[u][calls[u].candidate]
      BY <2>2
    <3>2. History(repos[m].head) \subseteq History(repos[m].head)'
      BY <1>12 DEF HistoryStep
    <3>3. calls[u].pc \in {"verifying", "committed"} => calls[u].commit \in 1..Len(commits)
      <4>1. \A k \in Names : History(repos[k].head) \subseteq 1..Len(commits)
        BY SMTT(30), <1>2 DEF History, IInv, TypeOK, Repos, CommitsOK
      <4> QED
        BY <2>1, <2>2, <4>1 DEF CallOK
    <3>4. repos'[m].status \in {"present", repos[m].status}
      BY <1>7
    <3> QED
      BY <1>5, <2>1, <3>1, <3>2, <3>3, <3>4 DEF CallOK
  <2> QED
    BY <2>3, <2>4
<1>17. CreatorsDoNotShare'
  <2>1. \A u \in Callers : calls'[u].candidate = calls[u].candidate
    BY <1>8
  <2>2. \A u \in Callers : calls[u].created => repos[NameOf(u)].status = "present"
    BY DEF IInv, CallsOK, CallOK, NameOf
  <2>3. \A u \in Callers :
           calls'[u].created => \/ calls[u].created
                                \/ u = t /\ repos[n].status = "absent"
    BY <1>8 DEF RepoOf
  <2> SUFFICES ASSUME NEW u \in Callers, NEW v \in Callers, u # v,
                      calls'[u].created, calls'[v].created
               PROVE  Candidates[u][calls'[u].candidate] # Candidates[v][calls'[v].candidate]
    BY DEF CreatorsDoNotShare, NameOf
  <2>4. NameOf(u) # NameOf(v)
    BY <2>2, <2>3 DEF CreatorsDoNotShare, IInv
  <2> QED
    BY <2>1, <2>4 DEF NameOf
<1> QED
  BY <1>12, <1>13, <1>14, <1>15, <1>16, <1>17 DEF IInv

\* The same of commit_files.
LEMMA CommitLands ==
    ASSUME IInv, NEW t \in Callers, NEW files \in SUBSET Paths,
           NEW pc \in {"verifying", "reading", "failed"},
           UserFile \notin files,
           Committed(t, RepoOf(t).head, files, pc),
           calls[t].pc \notin {"looking", "creating"}
    PROVE  IInv' /\ HistoryStep
<1>1. NameOf(t) \in Names
  BY CandidatesAssumption DEF IInv, TypeOK, NameOf, Callers
<1>. PICK n \in Names : n = NameOf(t)
  BY <1>1
<1>. PICK head \in Nat : head = RepoOf(t).head
  BY DEF IInv, TypeOK, Repos, RepoOf
<1> DEFINE new == 1 + Len(commits)
<1>2. commits \in Seq(Commits) /\ Len(commits) \in Nat /\ new \in Nat
  BY DEF IInv, TypeOK
<1>3. head \in 0..Len(commits)
  BY <1>2 DEF IInv, TypeOK, RepoOf
<1>4. History(head) \subseteq Nat
  BY <1>2, <1>3 DEF History, IInv, CommitsOK
<1>5. /\ TreeOf(head) \in Trees
      /\ 1 \in History(head) => TreeOf(head)[UserFile] = User
  <2>1. NoTree \in Trees
    BY DEF NoTree, Trees, Writers
  <2>2. ASSUME head # 0 PROVE commits[head] \in Commits
    BY <1>2, <1>3, <2>2
  <2> QED
    BY <1>2, <1>3, <2>1, <2>2 DEF TreeOf, History, Commits, IInv, CommitsOK
<1>6. /\ Written(TreeOf(head), files, t) \in Trees
      /\ Written(TreeOf(head), files, t)[UserFile] = TreeOf(head)[UserFile]
  <2>1. UserFile \in Paths /\ t \in Writers
    BY DEF Paths, Writers
  <2> QED
    BY <1>5, <2>1 DEF Written, Trees
<1>. PICK tree \in Trees : tree = Written(TreeOf(head), files, t)
  BY <1>6
<1>. PICK history \in SUBSET Nat : history = History(head) \cup {new}
  BY <1>2, <1>4
<1>. PICK commit : commit = [history |-> history, tree |-> tree, by |-> t]
  OBVIOUS
<1>7. /\ commit \in Commits
      /\ commit.history = history /\ commit.tree = tree /\ commit.by = t
  BY DEF Commits, Writers
<1>8. commits' = Append(commits, commit)
  BY DEF Committed
<1>. PICK c \in Calls, k \in Nat : c = calls[t] /\ k = new
  BY <1>2 DEF IInv, TypeOK
<1>9. calls' = [calls EXCEPT ![t] = Landed(c, pc, k)]
  <2>1. Len(commits') = k
    BY <1>2, <1>7, <1>8
  <2>2. calls' = [calls EXCEPT ![t].pc = pc, ![t].commit = k]
    BY <2>1 DEF Committed
  <2> QED
    BY <2>2 DEF Landed, IInv, TypeOK
<1>10. /\ Landed(c, pc, k) \in Calls
       /\ Landed(c, pc, k).pc = pc
       /\ Landed(c, pc, k).commit = k
       /\ Landed(c, pc, k).candidate = c.candidate
       /\ Landed(c, pc, k).created = c.created
       /\ Landed(c, pc, k).files = c.files
  BY ONLY SMTT(30), c \in Calls, k \in Nat, pc \in {"verifying", "reading", "failed"}, LandedCall
<1>. PICK d \in Calls : d = Landed(c, pc, k)
  BY <1>10
<1>11. CallOK(t, c)
  BY DEF IInv, CallsOK
<1>12. repos' = [repos EXCEPT ![NameOf(t)] = [status |-> "present", head |-> Len(commits')]]
  BY DEF Committed
<1>13. UserFile \notin d.files /\ (d.created => c.created)
  BY <1>10, <1>11 DEF CallOK
<1>14. 1 \in History(RepoOf(t).head) => commit.tree[UserFile] = User
  BY <1>5, <1>6, <1>7
<1>15. commit.history = History(RepoOf(t).head) \cup {1 + Len(commits)}
  BY <1>7
<1>16. calls' = [calls EXCEPT ![t] = d] /\ d.candidate = calls[t].candidate
  BY <1>9, <1>10
<1>17. d.created => /\ d.pc \notin {"looking", "creating"}
                    /\ calls[t].created \/ RepoOf(t).status = "absent"
  BY <1>10, <1>13
<1>18. d.pc \in {"verifying", "committed"} => d.commit = 1 + Len(commits) /\ commit.by = t
  BY <1>7, <1>10
<1> QED
  BY <1>7, <1>8, <1>12, <1>13, <1>14, <1>15, <1>16, <1>17, <1>18, BranchMoves

-----------------------------------------------------------------------------
\* One request each: what it leaves of a call, and that the invariant and the
\* histories outlive it.

Pcs == {"idle", "looking", "creating", "confirming", "opening", "seeding", "putting",
        "reading", "updating", "verifying", "committed", "failed"}

Moved(c, pc) == [c EXCEPT !.pc = pc]

LEMMA MovedCall ==
    ASSUME NEW c \in Calls, NEW pc \in Pcs
    PROVE  /\ Moved(c, pc) \in Calls
           /\ Moved(c, pc).pc = pc
           /\ Moved(c, pc).commit = c.commit
           /\ Moved(c, pc).candidate = c.candidate
           /\ Moved(c, pc).created = c.created
           /\ Moved(c, pc).files = c.files
BY DEF Calls, Moved, Pcs

\* A call only goes on.
LEMMA CallGoes ==
    ASSUME IInv, NEW t \in Callers, NEW pc \in Pcs,
           Goes(t, pc),
           UNCHANGED <<repos, commits>>,
           pc \in {"looking", "creating"} => ~calls[t].created,
           pc \in {"verifying", "committed"} => calls[t].pc = "verifying"
    PROVE  IInv' /\ HistoryStep
<1>. PICK c \in Calls : c = calls[t]
  BY DEF IInv, TypeOK
<1>1. calls' = [calls EXCEPT ![t] = Moved(c, pc)]
  BY DEF Goes, Moved, IInv, TypeOK
<1>2. /\ Moved(c, pc) \in Calls
      /\ Moved(c, pc).pc = pc
      /\ Moved(c, pc).commit = c.commit
      /\ Moved(c, pc).candidate = c.candidate
      /\ Moved(c, pc).created = c.created
      /\ Moved(c, pc).files = c.files
  BY ONLY c \in Calls, pc \in Pcs, MovedCall
<1>. PICK d \in Calls : d = Moved(c, pc)
  BY <1>2
<1>3. CallOK(t, c)
  BY DEF IInv, CallsOK
<1>4. CallOK(t, d)
  BY <1>2, <1>3 DEF CallOK
<1>5. d.created => calls[t].created /\ d.candidate = calls[t].candidate
  BY <1>2
<1>6. calls' = [calls EXCEPT ![t] = d]
  BY <1>1
<1> QED
  BY <1>4, <1>5, <1>6, CallChanges

LEMMA FailsStep ==
    ASSUME IInv, NEW t \in Callers, Fails(t)
    PROVE  IInv' /\ HistoryStep
<1>. PICK pc \in Pcs : pc = "failed"
  BY DEF Pcs
<1>1. Goes(t, pc) /\ UNCHANGED <<repos, commits>>
  BY DEF Fails
<1> QED
  BY <1>1, CallGoes

LEMMA LookUpStep ==
    ASSUME IInv, NEW t \in Callers, LookUp(t)
    PROVE  IInv' /\ HistoryStep
<1>1. CASE Fails(t)
  BY <1>1, FailsStep
<1>2. CASE ~Fails(t)
  <2>. PICK pc \in Pcs : pc = IF RepoOf(t).status = "present" THEN "opening" ELSE "creating"
    BY DEF Pcs
  <2>1. Goes(t, pc) /\ UNCHANGED <<repos, commits>>
    BY <1>2 DEF LookUp
  <2>2. ~calls[t].created
    BY DEF LookUp, IInv, CallsOK, CallOK
  <2>3. pc \notin {"verifying", "committed"}
    OBVIOUS
  <2> QED
    BY <2>1, <2>2, <2>3, CallGoes
<1> QED
  BY <1>1, <1>2

LEMMA ConfirmStep ==
    ASSUME IInv, NEW t \in Callers, Confirm(t)
    PROVE  IInv' /\ HistoryStep
<1>. PICK pc \in {"opening", "failed"} : Goes(t, pc) /\ UNCHANGED <<repos, commits>>
  BY DEF Confirm
<1>1. pc \in Pcs
  BY DEF Pcs
<1> QED
  BY <1>1, CallGoes

LEMMA VerifyCommitStep ==
    ASSUME IInv, NEW t \in Callers, VerifyCommit(t)
    PROVE  IInv' /\ HistoryStep
<1>. PICK pc \in Verdicts : Goes(t, pc) /\ UNCHANGED <<repos, commits>>
  BY DEF VerifyCommit
<1>1. pc \in Pcs /\ pc \notin {"looking", "creating"}
  BY DEF Pcs, Verdicts
<1>2. calls[t].pc = "verifying"
  BY DEF VerifyCommit
<1> QED
  BY <1>1, <1>2, CallGoes

\* What is read of the branch goes into the call.
Opened(c, tip, pc)   == [c EXCEPT !.tip = tip, !.pc = pc]
Read(c, blob, pc)    == [c EXCEPT !.blob = blob, !.pc = pc]
Reread(c, tip, path) == [c EXCEPT !.tip = tip, !.pc = "updating", !.seeded = TRUE,
                                  !.files = @ \ {path}]

LEMMA ReadingCall ==
    ASSUME NEW c \in Calls, NEW pc \in {"seeding", "updating", "putting"},
           NEW tip \in Nat, NEW blob \in Writers, NEW path, NEW d,
           d \in {Opened(c, tip, pc), Read(c, blob, pc), Reread(c, tip, path)}
    PROVE  /\ d \in Calls
           /\ d.pc \in {"seeding", "updating", "putting"}
           /\ d.candidate = c.candidate
           /\ d.created = c.created
           /\ d.files \subseteq c.files
<1>1. CASE d = Opened(c, tip, pc)
  BY <1>1 DEF Calls, Opened
<1>2. CASE d = Read(c, blob, pc)
  BY <1>2 DEF Calls, Read
<1>3. CASE d = Reread(c, tip, path)
  BY <1>3 DEF Calls, Reread
<1> QED
  BY <1>1, <1>2, <1>3

LEMMA ReadingStep ==
    ASSUME IInv, NEW t \in Callers, NEW c \in Calls, c = calls[t],
           NEW d \in Calls,
           d.pc \in {"seeding", "updating", "putting"},
           d.candidate = c.candidate,
           d.created = c.created,
           d.files \subseteq c.files,
           calls' = [calls EXCEPT ![t] = d],
           UNCHANGED <<repos, commits>>
    PROVE  IInv' /\ HistoryStep
<1>1. CallOK(t, c)
  BY DEF IInv, CallsOK
<1>2. CallOK(t, d)
  BY <1>1 DEF CallOK
<1> QED
  BY <1>2, CallChanges

\* The values read have their types.
LEMMA BranchTypes ==
    ASSUME IInv, NEW t \in Callers
    PROVE  /\ NameOf(t) \in Names
           /\ RepoOf(t) \in Repos
           /\ RepoOf(t).head \in Nat
           /\ TreeOf(RepoOf(t).head) \in Trees
           /\ First(t) \in Paths /\ First(t) # UserFile
<1>1. NameOf(t) \in Names
  BY CandidatesAssumption DEF IInv, TypeOK, NameOf, Callers
<1>. PICK n \in Names : n = NameOf(t)
  BY <1>1
<1>2. repos[n] \in Repos /\ repos[n].head \in Nat /\ repos[n].head <= Len(commits)
  BY DEF IInv, TypeOK, Repos
<1>. PICK head \in Nat : head = repos[n].head
  BY <1>2
<1>3. TreeOf(head) \in Trees
  <2>1. NoTree \in Trees
    BY DEF NoTree, Trees, Writers
  <2>2. ASSUME head # 0 PROVE commits[head] \in Commits
    BY <1>2, <2>2 DEF IInv, TypeOK
  <2> QED
    BY <2>1, <2>2 DEF TreeOf, Commits
<1>4. First(t) \in Paths /\ First(t) # UserFile
  BY FilesAssumption DEF First, Paths
<1> QED
  BY <1>1, <1>2, <1>3, <1>4 DEF RepoOf

LEMMA GetRefStep ==
    ASSUME IInv, NEW t \in Callers, GetRef(t)
    PROVE  IInv' /\ HistoryStep
<1>1. CASE Fails(t)
  BY <1>1, FailsStep
<1>2. CASE ~Fails(t)
  <2>. PICK c \in Calls : c = calls[t]
    BY DEF IInv, TypeOK
  <2>. PICK tip \in Nat : tip = RepoOf(t).head
    BY BranchTypes
  <2>. PICK pc \in {"seeding", "updating", "putting"} :
          pc = IF tip = 0 THEN "seeding" ELSE "updating"
    OBVIOUS
  <2>1. /\ calls' = [calls EXCEPT ![t].tip = tip, ![t].pc = pc]
        /\ UNCHANGED <<repos, commits>>
    BY <1>2 DEF GetRef
  <2>2. calls' = [calls EXCEPT ![t] = Opened(c, tip, pc)]
    BY <2>1 DEF Opened, IInv, TypeOK
  <2>. PICK d : d = Opened(c, tip, pc)
    OBVIOUS
  <2>. PICK blob \in Writers : blob = t
    BY DEF Writers
  <2>3. d \in Calls /\ d.pc \in {"seeding", "updating", "putting"}
        /\ d.candidate = c.candidate /\ d.created = c.created /\ d.files \subseteq c.files
    BY ONLY c \in Calls, pc \in {"seeding", "updating", "putting"}, tip \in Nat,
            blob \in Writers, d = Opened(c, tip, pc), ReadingCall
  <2> QED
    BY <2>1, <2>2, <2>3, ReadingStep
<1> QED
  BY <1>1, <1>2

LEMMA GetContentsStep ==
    ASSUME IInv, NEW t \in Callers, GetContents(t)
    PROVE  IInv' /\ HistoryStep
<1>1. CASE Fails(t)
  BY <1>1, FailsStep
<1>2. CASE ~Fails(t)
  <2>. PICK c \in Calls : c = calls[t]
    BY DEF IInv, TypeOK
  <2>. PICK blob \in Writers : blob = TreeOf(RepoOf(t).head)[First(t)]
    BY BranchTypes DEF Trees
  <2>. PICK pc \in {"seeding", "updating", "putting"} : pc = "putting"
    OBVIOUS
  <2>1. /\ calls' = [calls EXCEPT ![t].blob = blob, ![t].pc = pc]
        /\ UNCHANGED <<repos, commits>>
    BY <1>2 DEF GetContents
  <2>2. calls' = [calls EXCEPT ![t] = Read(c, blob, pc)]
    BY <2>1 DEF Read, IInv, TypeOK
  <2>. PICK d : d = Read(c, blob, pc)
    OBVIOUS
  <2>. PICK tip \in Nat : tip = 0
    OBVIOUS
  <2>3. d \in Calls /\ d.pc \in {"seeding", "updating", "putting"}
        /\ d.candidate = c.candidate /\ d.created = c.created /\ d.files \subseteq c.files
    BY ONLY c \in Calls, pc \in {"seeding", "updating", "putting"}, tip \in Nat,
            blob \in Writers, d = Read(c, blob, pc), ReadingCall
  <2> QED
    BY <2>1, <2>2, <2>3, ReadingStep
<1> QED
  BY <1>1, <1>2

LEMMA GetRefAgainStep ==
    ASSUME IInv, NEW t \in Callers, GetRefAgain(t)
    PROVE  IInv' /\ HistoryStep
<1>1. CASE Fails(t)
  BY <1>1, FailsStep
<1>2. CASE ~Fails(t)
  <2>. PICK c \in Calls : c = calls[t]
    BY DEF IInv, TypeOK
  <2>. PICK tip \in Nat : tip = RepoOf(t).head
    BY BranchTypes
  <2>. PICK path : path = First(t)
    OBVIOUS
  <2>1. /\ calls' = [calls EXCEPT ![t].tip = tip, ![t].pc = "updating",
                                  ![t].seeded = TRUE, ![t].files = @ \ {path}]
        /\ UNCHANGED <<repos, commits>>
    BY <1>2 DEF GetRefAgain
  <2>2. calls' = [calls EXCEPT ![t] = Reread(c, tip, path)]
    BY <2>1 DEF Reread, IInv, TypeOK
  <2>. PICK d : d = Reread(c, tip, path)
    OBVIOUS
  <2>. PICK blob \in Writers : blob = t
    BY DEF Writers
  <2>. PICK pc \in {"seeding", "updating", "putting"} : pc = "updating"
    OBVIOUS
  <2>3. d \in Calls /\ d.pc \in {"seeding", "updating", "putting"}
        /\ d.candidate = c.candidate /\ d.created = c.created /\ d.files \subseteq c.files
    BY ONLY c \in Calls, pc \in {"seeding", "updating", "putting"}, tip \in Nat,
            blob \in Writers, d = Reread(c, tip, path), ReadingCall
  <2> QED
    BY <2>1, <2>2, <2>3, ReadingStep
<1> QED
  BY <1>1, <1>2

\* A call takes the next candidate; a call has created its repository.
Renamed(c)     == [c EXCEPT !.pc = "looking", !.candidate = c.candidate + 1]
Created(c, pc) == [c EXCEPT !.created = TRUE, !.pc = pc]

LEMMA RenamedCall ==
    ASSUME NEW c \in Calls
    PROVE  /\ Renamed(c) \in Calls
           /\ Renamed(c).pc = "looking"
           /\ Renamed(c).candidate = c.candidate + 1
           /\ Renamed(c).created = c.created
           /\ Renamed(c).files = c.files
<1>. PICK k \in Nat : k = c.candidate + 1
  BY DEF Calls
<1>1. Renamed(c) = [c EXCEPT !.pc = "looking", !.candidate = k]
  BY DEF Renamed
<1> QED
  BY <1>1 DEF Calls

LEMMA CreatedCall ==
    ASSUME NEW c \in Calls, NEW pc \in {"confirming", "failed"}
    PROVE  /\ Created(c, pc) \in Calls
           /\ Created(c, pc).pc = pc
           /\ Created(c, pc).candidate = c.candidate
           /\ Created(c, pc).created = TRUE
           /\ Created(c, pc).files = c.files
BY DEF Calls, Created

LEMMA NextCandidateStep ==
    ASSUME IInv, NEW t \in Callers, calls[t].pc = "creating", NextCandidate(t)
    PROVE  IInv' /\ HistoryStep
<1>1. CASE calls[t].candidate < Len(Candidates[t])
  <2>. PICK c \in Calls : c = calls[t]
    BY DEF IInv, TypeOK
  <2>1. CallOK(t, c)
    BY DEF IInv, CallsOK
  <2>2. /\ calls' = [calls EXCEPT ![t] = Renamed(c)]
        /\ UNCHANGED <<repos, commits>>
    BY <1>1 DEF NextCandidate, Renamed, IInv, TypeOK
  <2>3. /\ Renamed(c) \in Calls
        /\ Renamed(c).pc = "looking"
        /\ Renamed(c).candidate = c.candidate + 1
        /\ Renamed(c).created = c.created
        /\ Renamed(c).files = c.files
    BY ONLY c \in Calls, RenamedCall
  <2>. PICK d \in Calls : d = Renamed(c)
    BY <2>3
  <2>4. ~d.created
    BY <2>1, <2>3 DEF CallOK
  <2>5. Len(Candidates[t]) \in Nat /\ c.candidate \in Nat
    BY CandidatesAssumption DEF Callers, Calls
  <2>6. CallOK(t, d)
    BY <1>1, <2>1, <2>3, <2>4, <2>5 DEF CallOK
  <2> QED
    BY <2>2, <2>4, <2>6, CallChanges
<1>2. CASE ~(calls[t].candidate < Len(Candidates[t]))
  BY <1>2, FailsStep DEF NextCandidate
<1> QED
  BY <1>1, <1>2

LEMMA CreateUserRepoStep ==
    ASSUME IInv, NEW t \in Callers, CreateUserRepo(t)
    PROVE  IInv' /\ HistoryStep
<1>1. CASE Fails(t)
  BY <1>1, FailsStep
<1>2. CASE NextCandidate(t)
  BY <1>2, NextCandidateStep DEF CreateUserRepo
<1>3. CASE ~Fails(t) /\ ~NextCandidate(t)
  <2>1. /\ RepoOf(t).status = "absent"
        /\ commits' = Append(commits, FirstCommit)
        /\ repos' = [repos EXCEPT ![NameOf(t)] = [status |-> "present", head |-> Len(commits')]]
    BY <1>3 DEF CreateUserRepo
  <2>2. PICK pc \in {"confirming", "failed"} :
          calls' = [calls EXCEPT ![t].created = TRUE, ![t].pc = pc]
    BY <1>3 DEF CreateUserRepo
  <2>. PICK c \in Calls : c = calls[t]
    BY DEF IInv, TypeOK
  <2>3. calls' = [calls EXCEPT ![t] = Created(c, pc)]
    BY <2>2 DEF Created, IInv, TypeOK
  <2>4. /\ Created(c, pc) \in Calls
        /\ Created(c, pc).pc = pc
        /\ Created(c, pc).candidate = c.candidate
        /\ Created(c, pc).created = TRUE
        /\ Created(c, pc).files = c.files
    BY ONLY c \in Calls, pc \in {"confirming", "failed"}, CreatedCall
  <2>. PICK d \in Calls : d = Created(c, pc)
    BY <2>4
  <2>5. RepoOf(t).head = 0
    BY <2>1, BranchTypes DEF IInv, HeadsOK, RepoOf
  <2>6. History(RepoOf(t).head) = {}
    BY <2>5 DEF History
  <2>7. FirstCommit \in Commits /\ FirstCommit.history = {1 + Len(commits)}
    <3>1. Len(commits) \in Nat
      BY DEF IInv, TypeOK
    <3>2. NoTree \in Trees
      BY DEF NoTree, Trees, Writers
    <3> QED
      BY <3>1, <3>2 DEF FirstCommit, Commits, Writers
  <2>. PICK commit \in Commits : commit = FirstCommit
    BY <2>7
  <2>8. commit.history = History(RepoOf(t).head) \cup {1 + Len(commits)}
    BY <2>6, <2>7
  <2>9. CallOK(t, c)
    BY DEF IInv, CallsOK
  <2>10. UserFile \notin d.files /\ d.candidate = calls[t].candidate
    BY <2>4, <2>9 DEF CallOK
  <2>11. d.pc \notin {"looking", "creating", "verifying", "committed"}
    BY <2>4
  <2>12. commits' = Append(commits, commit) /\ calls' = [calls EXCEPT ![t] = d]
    BY <2>1, <2>3
  <2> QED
    BY <2>1, <2>6, <2>8, <2>10, <2>11, <2>12, BranchMoves
<1> QED
  BY <1>1, <1>2, <1>3

LEMMA PutContentsStep ==
    ASSUME IInv, NEW t \in Callers, PutContents(t)
    PROVE  IInv' /\ HistoryStep
<1>1. CASE Fails(t)
  BY <1>1, FailsStep
<1>2. CASE ~Fails(t)
  <2>1. PICK pc \in {"verifying", "reading", "failed"} :
          Committed(t, RepoOf(t).head, {First(t)}, pc)
    BY <1>2 DEF PutContents
  <2>2. {First(t)} \in SUBSET Paths /\ UserFile \notin {First(t)}
    BY BranchTypes
  <2>3. calls[t].pc \notin {"looking", "creating"}
    BY DEF PutContents
  <2> QED
    BY <2>1, <2>2, <2>3, CommitLands
<1> QED
  BY <1>1, <1>2

LEMMA UpdateRefStep ==
    ASSUME IInv, NEW t \in Callers, UpdateRef(t)
    PROVE  IInv' /\ HistoryStep
<1>1. CASE Fails(t)
  BY <1>1, FailsStep
<1>2. CASE ~Fails(t)
  <2>1. PICK pc \in {"verifying", "reading", "failed"} :
          Committed(t, RepoOf(t).head, calls[t].files, pc)
    BY <1>2 DEF UpdateRef
  <2>2. calls[t].files \in SUBSET Paths /\ UserFile \notin calls[t].files
    BY DEF IInv, TypeOK, Calls, CallsOK, CallOK
  <2>3. calls[t].pc \notin {"looking", "creating"}
    BY DEF UpdateRef
  <2> QED
    BY <2>1, <2>2, <2>3, CommitLands
<1> QED
  BY <1>1, <1>2

LEMMA CommitLogStep ==
    ASSUME IInv, NEW w \in LogWriters, CommitLog(w)
    PROVE  IInv' /\ HistoryStep
<1>. PICK t \in Callers : t = w
  BY DEF Callers
<1>. PICK files \in SUBSET Paths : files = {LogPath}
  BY DEF Paths
<1>. PICK pc \in {"idle", "looking", "opening"} : pc = "opening"
  OBVIOUS
<1>1. /\ calls' = [calls EXCEPT ![t] = Begun(files, pc)]
      /\ UNCHANGED <<repos, commits>>
  BY DEF CommitLog, Begun
<1>2. /\ Begun(files, pc) \in Calls
      /\ Begun(files, pc).pc = pc
      /\ Begun(files, pc).candidate = 1
      /\ Begun(files, pc).created = FALSE
      /\ Begun(files, pc).files = files
  BY ONLY files \in SUBSET Paths, pc \in {"idle", "looking", "opening"}, BegunCall
<1>. PICK d \in Calls : d = Begun(files, pc)
  BY <1>2
<1>3. 1 \in 1..Len(Candidates[t])
  BY CandidatesAssumption DEF Callers
<1>4. CallOK(t, d) /\ ~d.created
  BY <1>2, <1>3, FilesAssumption DEF CallOK
<1>5. calls' = [calls EXCEPT ![t] = d]
  BY <1>1
<1> QED
  BY <1>1, <1>4, <1>5, CallChanges

LEMMA NextIInv == IInv /\ [Next]_vars => IInv' /\ HistoryStep
<1> SUFFICES ASSUME IInv, [Next]_vars PROVE IInv' /\ HistoryStep
  OBVIOUS
<1>1. ASSUME NEW t \in Tasks, CreateRepo(t) PROVE IInv' /\ HistoryStep
  <2>1. t \in Callers
    BY DEF Callers
  <2> QED
    BY <1>1, <2>1, LookUpStep, CreateUserRepoStep, ConfirmStep DEF CreateRepo
<1>2. ASSUME NEW t \in Callers, CommitFiles(t) PROVE IInv' /\ HistoryStep
  BY <1>2, GetRefStep, GetContentsStep, PutContentsStep, GetRefAgainStep, UpdateRefStep,
     VerifyCommitStep DEF CommitFiles
<1>3. ASSUME NEW w \in LogWriters, CommitLog(w) PROVE IInv' /\ HistoryStep
  BY <1>3, CommitLogStep
<1>4. ASSUME UNCHANGED vars PROVE IInv' /\ HistoryStep
  <2>1. CallsOK'
    BY <1>4 DEF vars, IInv, CallsOK, CallOK, History
  <2>2. CreatorsDoNotShare'
    BY <1>4 DEF vars, IInv, CreatorsDoNotShare, NameOf
  <2> QED
    BY <1>4, <2>1, <2>2 DEF vars, IInv, TypeOK, CommitsOK, HeadsOK, History, HistoryStep
<1> QED
  BY <1>1, <1>2, <1>3, <1>4 DEF Next

LEMMA Invariance == Spec => []IInv
<1>1. IInv /\ [Next]_vars => IInv'
  BY NextIInv
<1> QED
  BY InitIInv, <1>1, PTL DEF Spec

-----------------------------------------------------------------------------
\* Every call, commit and branch is well formed, and every head and candidate
\* in range, however many tasks and writers there are.
THEOREM RepoTypeCorrect == Spec => []TypeOK
<1>1. IInv => TypeOK
  BY DEF IInv
<1> QED
  BY <1>1, Invariance, PTL

\* However the tasks interleave over however many names, at most one of them
\* takes itself for the creator of a repository.
THEOREM CreatorsAreAlone == Spec => []CreatorsDoNotShare
<1>1. IInv => CreatorsDoNotShare
  BY DEF IInv
<1> QED
  BY <1>1, Invariance, PTL

\* A reported commit is the caller's and on the branch, for good: those who
\* commit later do so on top of it.
THEOREM ReportedCommitsStay == Spec => []CommittedIsOnBranch
<1>1. IInv => CommittedIsOnBranch
  BY DEF IInv, CallsOK, CallOK, CommittedIsOnBranch, RepoOf, NameOf
<1> QED
  BY <1>1, Invariance, PTL

\* Whoever commits, a file the user had in the repository keeps its content.
THEOREM UserFilesAreKept == Spec => []UserFilesSurvive
<1>1. IInv => UserFilesSurvive
  <2> SUFFICES ASSUME IInv, NEW n \in Names, 1 \in History(repos[n].head)
               PROVE  TreeOf(repos[n].head)[UserFile] = User
    BY DEF UserFilesSurvive
  <2>1. repos[n].head \in 1..Len(commits)
    BY DEF History, IInv, TypeOK, Repos
  <2> QED
    BY <2>1 DEF IInv, CommitsOK, History, TreeOf
<1> QED
  BY <1>1, Invariance, PTL

\* No step of any caller takes a commit out of a branch.
THEOREM BranchesGrow == Spec => HistoryIsKept
<1>1. IInv /\ [Next]_vars => [HistoryStep]_vars
  BY NextIInv
<1>2. [HistoryStep]_vars <=> [\A n \in Names : History(repos[n].head) \subseteq History(repos[n].head)']_vars
  BY DEF HistoryStep
<1> QED
  BY <1>1, <1>2, Invariance, PTL DEF Spec, HistoryIsKept

-----------------------------------------------------------------------------
(* The build log.                                                          *)

\* A commit of a caller's at the head of its repository.
Lands(t, commit) ==
    /\ commits' = Append(commits, commit)
    /\ commit.history = History(RepoOf(t).head) \cup {1 + Len(commits)}
    /\ commit.by \in {t, Nobody}
    /\ repos' = [repos EXCEPT ![NameOf(t)] = [status |-> "present", head |-> Len(commits')]]

\* What a step of the tools does: it concerns one call, and adds one commit or
\* none.
StepShape(t) ==
    /\ \A u \in Callers : u # t => calls'[u] = calls[u]
    /\ \/ UNCHANGED <<repos, commits>>
       \/ \E commit : Lands(t, commit)

LEMMA CommittedShape ==
    ASSUME IInv, NEW t \in Callers, NEW files, NEW pc,
           Committed(t, RepoOf(t).head, files, pc)
    PROVE  StepShape(t)
<1>. PICK commit : commit = [history |-> History(RepoOf(t).head) \cup {1 + Len(commits)},
                             tree |-> Written(TreeOf(RepoOf(t).head), files, t), by |-> t]
  OBVIOUS
<1>1. commits' = Append(commits, commit)
  BY DEF Committed
<1>2. /\ commit.history = History(RepoOf(t).head) \cup {1 + Len(commits)}
      /\ commit.by = t
  OBVIOUS
<1>3. repos' = [repos EXCEPT ![NameOf(t)] = [status |-> "present", head |-> Len(commits')]]
  BY DEF Committed
<1>4. \A u \in Callers : u # t => calls'[u] = calls[u]
  BY DEF Committed, IInv, TypeOK
<1> QED
  BY <1>1, <1>2, <1>3, <1>4 DEF StepShape, Lands

LEMMA CreateUserRepoShape ==
    ASSUME IInv, NEW t \in Callers, CreateUserRepo(t)
    PROVE  StepShape(t)
<1>1. \A u \in Callers : u # t => calls'[u] = calls[u]
  BY DEF CreateUserRepo, NextCandidate, Fails, Goes, IInv, TypeOK
<1>2. CASE UNCHANGED <<repos, commits>>
  BY <1>1, <1>2 DEF StepShape
<1>3. CASE ~UNCHANGED <<repos, commits>>
  <2>1. /\ RepoOf(t).status = "absent"
        /\ commits' = Append(commits, FirstCommit)
        /\ repos' = [repos EXCEPT ![NameOf(t)] = [status |-> "present", head |-> Len(commits')]]
    BY <1>3 DEF CreateUserRepo, NextCandidate, Fails
  <2>2. History(RepoOf(t).head) = {}
    BY <2>1, BranchTypes DEF IInv, HeadsOK, RepoOf, History
  <2>. PICK commit : commit = FirstCommit
    OBVIOUS
  <2>3. commit.history = {1 + Len(commits)} /\ commit.by = Nobody
    BY DEF FirstCommit
  <2>4. Lands(t, commit)
    BY <2>1, <2>2, <2>3 DEF Lands
  <2> QED
    BY <1>1, <2>4 DEF StepShape
<1> QED
  BY <1>2, <1>3

LEMMA CallShape ==
    ASSUME IInv, NEW t \in Callers, CreateRepo(t) \/ CommitFiles(t) \/ CommitLog(t)
    PROVE  StepShape(t)
<1>1. CASE LookUp(t) \/ Confirm(t)
  BY <1>1 DEF LookUp, Confirm, Fails, Goes, StepShape, IInv, TypeOK
<1>2. CASE CreateUserRepo(t)
  BY <1>2, CreateUserRepoShape
<1>3. CASE GetRef(t) \/ GetContents(t) \/ GetRefAgain(t) \/ VerifyCommit(t)
  BY <1>3 DEF GetRef, GetContents, GetRefAgain, VerifyCommit, Fails, Goes, StepShape,
              IInv, TypeOK
<1>4. CASE PutContents(t) \/ UpdateRef(t)
  <2>1. CASE Fails(t)
    BY <2>1 DEF Fails, Goes, StepShape, IInv, TypeOK
  <2>2. CASE ~Fails(t)
    <3>1. \E files, pc : Committed(t, RepoOf(t).head, files, pc)
      BY <1>4, <2>2 DEF PutContents, UpdateRef
    <3> QED
      BY <3>1, CommittedShape
  <2> QED
    BY <2>1, <2>2
<1>5. CASE CommitLog(t)
  BY <1>5 DEF CommitLog, StepShape, IInv, TypeOK
<1> QED
  BY <1>1, <1>2, <1>3, <1>4, <1>5 DEF CreateRepo, CommitFiles

\* A commit is the latest of its history.
OrderOK ==
    \A i \in 1..Len(commits) : /\ commits[i].history \subseteq 1..i
                               /\ i \in commits[i].history

\* Every commit of a writer has its entry.
EntriesOK ==
    \A i \in 1..Len(commits) :
        commits[i].by \in LogWriters => Has(logs[i], commits[i].by)

\* A writer that looks for its entry has a commit to show for it.
WritersOK ==
    \A w \in LogWriters :
        appends[w].pc \in {"waiting", "verifying", "logged"} => calls[w].pc = "committed"

LogIInv == IInv /\ LogTypeOK /\ OrderOK /\ EntriesOK /\ WritersOK /\ LoggedIsOnBranch

LEMMA LogInitIInv == LogInit => LogIInv
<1> SUFFICES ASSUME LogInit PROVE LogIInv
  OBVIOUS
<1>1. IInv
  BY InitIInv DEF LogInit
<1>2. /\ Len(commits) = 1 /\ commits[1].history = {1} /\ commits[1].by = User
  BY DEF LogInit, Init
<1>3. User \notin LogWriters
  BY CallersAssumption DEF Callers
<1>4. logs \in Seq(Seq(LogWriters)) /\ Len(logs) = 1
  BY DEF LogInit
<1>5. /\ appends \in [LogWriters -> Appends]
      /\ \A w \in LogWriters : appends[w].pc \in {"idle", "reading"}
  BY DEF LogInit, Appends
<1>6. LogTypeOK
  BY <1>1, <1>2, <1>4, <1>5 DEF LogTypeOK, IInv
<1>7. OrderOK /\ EntriesOK
  BY <1>2, <1>3 DEF OrderOK, EntriesOK
<1>8. WritersOK /\ LoggedIsOnBranch
  BY <1>5 DEF WritersOK, LoggedIsOnBranch
<1> QED
  BY <1>1, <1>6, <1>7, <1>8 DEF LogIInv

\* Every step with a log is one of the tools.
LEMMA LogStepIsRepoStep == [LogNext]_logVars => [Next]_vars
<1>1. ASSUME NEW t \in Callers, Act(t) PROVE [Next]_vars
  <2>1. CASE t \in Tasks /\ CreateRepo(t)
    BY <2>1 DEF Next
  <2>2. CASE CommitFiles(t)
    BY <2>2 DEF Next
  <2>3. CASE t \in LogWriters /\ AppendBuildLog(t)
    BY <2>3 DEF AppendBuildLog, GetFileText, CommitResult, WaitForFileEntry,
                VerifyLogCommit, Next
  <2> QED
    BY <1>1, <2>1, <2>2, <2>3 DEF Act
<1> QED
  BY <1>1 DEF LogNext, logVars

\* The log of a new commit: the one its writer read and its entry, or the one
\* of the head it is on.
LEMMA ContentOfCommit ==
    ASSUME LogIInv, NEW t \in Callers, NEW commit, Lands(t, commit)
    PROVE  /\ commit.by \in LogWriters =>
                 Content(commit) = Append(appends[commit.by].existing, commit.by)
           /\ commit.by \notin LogWriters => Content(commit) = LogAt(RepoOf(t).head)
           /\ Content(commit) \in Seq(LogWriters)
<1>1. NameOf(t) \in Names /\ RepoOf(t).head \in Nat
  BY BranchTypes DEF LogIInv
<1>. PICK head \in Nat : head = RepoOf(t).head
  BY <1>1
<1>2. commits \in Seq(Commits) /\ Len(commits) \in Nat
  BY DEF LogIInv, IInv, TypeOK
<1>3. head \in 0..Len(commits)
  BY <1>1, <1>2 DEF LogIInv, IInv, TypeOK, RepoOf
<1>4. Len(commits') = 1 + Len(commits)
  BY <1>2 DEF Lands
<1>5. /\ History(head) \subseteq 1..head
      /\ head # 0 => head \in History(head)
  BY <1>2, <1>3 DEF History, LogIInv, OrderOK
<1>6. commit.history \ {Len(commits')} = History(head)
  BY <1>2, <1>3, <1>4, <1>5 DEF Lands
<1>7. Parent(commit) = head
  <2>1. CASE head = 0
    BY <1>6, <2>1 DEF Parent, History
  <2>2. CASE head # 0
    <3>1. \A i \in History(head) : (\A j \in History(head) : j <= i) => i = head
      BY <1>5, <2>2
    <3>2. \A j \in History(head) : j <= head
      BY <1>5
    <3> QED
      BY <1>5, <1>6, <2>2, <3>1, <3>2 DEF Parent
  <2> QED
    BY <2>1, <2>2
<1>8. LogAt(head) \in Seq(LogWriters)
  BY <1>3 DEF LogAt, LogIInv, LogTypeOK
<1>9. \A w \in LogWriters : appends[w].existing \in Seq(LogWriters)
  BY DEF LogIInv, LogTypeOK, Appends
<1> QED
  BY SMTT(30), <1>7, <1>8, <1>9 DEF Content

\* The logs there are stay, and every new commit has one.
LogsStep ==
    /\ logs' \in Seq(Seq(LogWriters))
    /\ Len(logs') = Len(commits')
    /\ \A i \in 1..Len(logs) : logs'[i] = logs[i]
    /\ EntriesOK'

LEMMA LogsGrow ==
    ASSUME LogIInv, NEW t \in Callers, StepShape(t), LogsFollow
    PROVE  LogsStep /\ OrderOK'
<1>1. /\ commits \in Seq(Commits) /\ Len(commits) \in Nat
      /\ logs \in Seq(Seq(LogWriters)) /\ Len(logs) = Len(commits)
  BY DEF LogIInv, IInv, LogTypeOK, TypeOK
<1>2. CASE UNCHANGED <<repos, commits>>
  BY <1>1, <1>2 DEF LogsFollow, LogsStep, OrderOK, EntriesOK, LogIInv, Has
<1>3. CASE ~UNCHANGED <<repos, commits>>
  <2>. PICK commit : Lands(t, commit)
    BY <1>3 DEF StepShape
  <2> DEFINE new == 1 + Len(commits)
  <2>1. /\ Len(commits') = new
        /\ commits'[new] = commit
        /\ \A i \in 1..Len(commits) : commits'[i] = commits[i]
    BY <1>1 DEF Lands
  <2>. PICK content \in Seq(LogWriters) : content = Content(commit)
    BY ContentOfCommit
  <2>2. logs' = Append(logs, content)
    <3>1. commits' # commits
      BY <1>1, <2>1
    <3> QED
      BY <2>1, <3>1 DEF LogsFollow
  <2>3. /\ logs' \in Seq(Seq(LogWriters))
        /\ Len(logs') = new
        /\ logs'[new] = content
        /\ \A i \in 1..Len(logs) : logs'[i] = logs[i]
    BY <1>1, <2>2
  <2>4. commit.by \in LogWriters => Has(content, commit.by)
    <3> SUFFICES ASSUME commit.by \in LogWriters PROVE Has(content, commit.by)
      OBVIOUS
    <3>. PICK w \in LogWriters, existing \in Seq(LogWriters) :
            w = commit.by /\ existing = appends[w].existing
      BY DEF LogIInv, LogTypeOK, Appends
    <3>1. content = Append(existing, w)
      BY ContentOfCommit
    <3>2. content[1 + Len(existing)] = w /\ 1 + Len(existing) \in 1..Len(content)
      BY <3>1
    <3> QED
      BY <3>2 DEF Has
  <2>5. EntriesOK'
    <3> SUFFICES ASSUME NEW i \in 1..new, commits'[i].by \in LogWriters
                 PROVE  Has(logs'[i], commits'[i].by)
      BY <2>1 DEF EntriesOK, Has
    <3>1. CASE i = new
      BY <2>1, <2>3, <2>4, <3>1
    <3>2. CASE i # new
      <4>1. i \in 1..Len(commits) /\ i \in 1..Len(logs)
        BY <1>1, <3>2
      <4>2. commits'[i] = commits[i] /\ logs'[i] = logs[i]
        BY <2>1, <2>3, <4>1
      <4> QED
        BY <4>1, <4>2 DEF LogIInv, EntriesOK
    <3> QED
      BY <3>1, <3>2
  <2>6. OrderOK'
    <3> SUFFICES ASSUME NEW i \in 1..new
                 PROVE  commits'[i].history \subseteq 1..i /\ i \in commits'[i].history
      BY <2>1 DEF OrderOK
    <3>1. History(RepoOf(t).head) \subseteq 1..Len(commits)
      BY <1>1, BranchTypes DEF History, LogIInv, IInv, CommitsOK, TypeOK, RepoOf
    <3>2. CASE i = new
      BY <1>1, <2>1, <3>1, <3>2 DEF Lands
    <3>3. CASE i # new
      BY <1>1, <2>1, <3>3 DEF LogIInv, OrderOK
    <3> QED
      BY <3>2, <3>3
  <2> QED
    BY <2>1, <2>3, <2>5, <2>6 DEF LogsStep
<1> QED
  BY <1>2, <1>3

\* Every step keeps the commits and logs and goes on from them.
LEMMA ActKeepsLogs ==
    ASSUME LogIInv, NEW t \in Callers, Act(t)
    PROVE  /\ IInv' /\ HistoryStep
           /\ StepShape(t)
           /\ LogsStep /\ OrderOK'
           /\ LogsFollow
<1>1. IInv' /\ HistoryStep
  <2>1. [LogNext]_logVars
    BY DEF LogNext
  <2> QED
    BY <2>1, LogStepIsRepoStep, NextIInv DEF LogIInv
<1>2. StepShape(t) /\ LogsFollow
  <2>1. CASE t \in LogWriters /\ AppendBuildLog(t)
    <3>1. CASE GetFileText(t)
      <4>1. UNCHANGED <<logs, commits>> /\ CommitLog(t)
        BY <3>1 DEF GetFileText, CommitLog
      <4> QED
        BY <4>1, CallShape DEF LogsFollow, LogIInv
    <3>2. CASE ~GetFileText(t)
      <4>1. UNCHANGED <<vars, logs>>
        BY <2>1, <3>2 DEF AppendBuildLog, CommitResult, WaitForFileEntry, VerifyLogCommit
      <4> QED
        BY <4>1 DEF vars, StepShape, LogsFollow
    <3> QED
      BY <3>1, <3>2
  <2>2. CASE ~(t \in LogWriters /\ AppendBuildLog(t))
    BY <2>2, CallShape DEF Act, LogIInv
  <2> QED
    BY <2>1, <2>2
<1>3. LogsStep /\ OrderOK'
  BY <1>2, LogsGrow
<1> QED
  BY <1>1, <1>2, <1>3

\* A writer's entry is in a log of a branch.
HasEntry(n, w) == \E i \in History(repos[n].head) : Has(LogAt(i), w)

LEMMA EntriesStay ==
    ASSUME LogIInv, LogsStep, HistoryStep, NEW n \in Names, NEW w, HasEntry(n, w)
    PROVE  HasEntry(n, w)'
<1>. PICK i \in History(repos[n].head) : Has(LogAt(i), w)
  BY DEF HasEntry
<1>1. i \in 1..Len(logs)
  <2>1. repos[n].head \in 0..Len(commits)
    BY DEF LogIInv, IInv, TypeOK, Repos
  <2> QED
    BY <2>1 DEF History, LogIInv, IInv, CommitsOK, LogTypeOK
<1>2. LogAt(i)' = LogAt(i)
  BY <1>1 DEF LogsStep, LogAt
<1>3. i \in History(repos[n].head)'
  BY DEF HistoryStep
<1> QED
  BY <1>2, <1>3 DEF HasEntry, Has

LEMMA NoLog == <<>> \in Seq(LogWriters)
OBVIOUS

\* What a writer may read of the log of its repository.
LEMMA ReadableLogs ==
    ASSUME LogIInv, NEW w \in LogWriters
    PROVE  /\ Readable(w) \subseteq Seq(LogWriters)
           /\ (\E log \in Readable(w) : Has(log, w)) => HasEntry(NameOf(w), w)
<1>. w \in Callers
  BY DEF Callers
<1>1. NameOf(w) \in Names
  BY BranchTypes DEF LogIInv
<1>2. ASSUME NEW i \in History(RepoOf(w).head) PROVE LogAt(i) \in Seq(LogWriters)
  <2>1. RepoOf(w).head \in 0..Len(commits)
    BY <1>1 DEF RepoOf, LogIInv, IInv, TypeOK, Repos
  <2>2. i \in 1..Len(logs)
    BY <1>2, <2>1 DEF History, LogIInv, IInv, CommitsOK, LogTypeOK
  <2> QED
    BY <2>2 DEF LogAt, LogIInv, LogTypeOK
<1>3. ~Has(<<>>, w) /\ <<>> \in Seq(LogWriters)
  BY DEF Has
<1>4. ASSUME NEW log \in Readable(w), log # <<>>
      PROVE  \E i \in History(RepoOf(w).head) : log = LogAt(i)
  BY <1>4 DEF Readable
<1> QED
  BY <1>2, <1>3, <1>4 DEF HasEntry, RepoOf

\* The changes of an append.
Turned(a, pc)      == [a EXCEPT !.pc = pc]
Tried(a, k, pc)    == [a EXCEPT !.pc = pc, !.tries = k]
Retried(a, k)      == [a EXCEPT !.pc = "reading", !.attempt = k]
ReadIn(a, log)     == [a EXCEPT !.pc = "committing", !.existing = log, !.tries = 0]
AppendPcs          == {"idle", "reading", "committing", "waiting", "verifying",
                       "logged", "failed"}

LEMMA ChangedAppend ==
    ASSUME NEW a \in Appends, NEW pc \in AppendPcs, NEW k \in Nat,
           NEW log \in Seq(LogWriters)
    PROVE  /\ Turned(a, pc) \in Appends   /\ Turned(a, pc).pc = pc
           /\ Tried(a, k, pc) \in Appends /\ Tried(a, k, pc).pc = pc
           /\ Retried(a, k) \in Appends   /\ Retried(a, k).pc = "reading"
           /\ ReadIn(a, log) \in Appends  /\ ReadIn(a, log).pc = "committing"
BY DEF Appends, AppendPcs, Turned, Tried, Retried, ReadIn

\* A step of a writer: what it leaves it with, and why it may be so.
Appended(w) ==
    \E a \in Appends :
       /\ appends' = [appends EXCEPT ![w] = a]
       /\ a.pc \in {"waiting", "verifying", "logged"} =>
             /\ UNCHANGED vars
             /\ \/ appends[w].pc = "committing" /\ calls[w].pc = "committed"
                \/ appends[w].pc \in {"waiting", "verifying"}
       /\ a.pc = "logged" => \/ \E log \in Readable(w) : Has(log, w)
                             \/ appends[w].pc = "verifying"

LEMMA TurnedShape ==
    ASSUME LogIInv, NEW w \in LogWriters, NEW pc \in AppendPcs, Becomes(w, pc),
           pc \in {"waiting", "verifying", "logged"} =>
             /\ UNCHANGED vars
             /\ \/ appends[w].pc = "committing" /\ calls[w].pc = "committed"
                \/ appends[w].pc \in {"waiting", "verifying"},
           pc = "logged" => \/ \E log \in Readable(w) : Has(log, w)
                            \/ appends[w].pc = "verifying"
    PROVE  Appended(w)
<1>. PICK log \in Seq(LogWriters) : log = <<>>
  BY NoLog
<1>. PICK a \in Appends, k \in Nat : a = appends[w] /\ k = 0
  BY DEF LogIInv, LogTypeOK
<1>1. appends' = [appends EXCEPT ![w] = Turned(a, pc)]
  BY DEF Becomes, Turned, LogIInv, LogTypeOK
<1>2. Turned(a, pc) \in Appends /\ Turned(a, pc).pc = pc
  BY ONLY a \in Appends, pc \in AppendPcs, k \in Nat, log \in Seq(LogWriters), ChangedAppend
<1>. PICK b \in Appends : b = Turned(a, pc)
  BY <1>2
<1> QED
  BY <1>1, <1>2 DEF Appended

LEMMA AgainShape ==
    ASSUME LogIInv, NEW w \in LogWriters, Again(w)
    PROVE  Appended(w)
<1>1. CASE appends[w].attempt < BuildLogRetryLimit
  <2>. PICK log \in Seq(LogWriters) : log = <<>>
    BY NoLog
  <2>. PICK a \in Appends, k \in Nat, pc \in AppendPcs :
          a = appends[w] /\ k = a.attempt + 1 /\ pc = "idle"
    BY DEF LogIInv, LogTypeOK, Appends, AppendPcs
  <2>1. appends' = [appends EXCEPT ![w].pc = "reading", ![w].attempt = k]
    BY <1>1 DEF Again
  <2>2. appends' = [appends EXCEPT ![w] = Retried(a, k)]
    BY <2>1 DEF Retried, LogIInv, LogTypeOK
  <2>3. Retried(a, k) \in Appends /\ Retried(a, k).pc = "reading"
    BY ONLY a \in Appends, pc \in AppendPcs, k \in Nat, log \in Seq(LogWriters), ChangedAppend
  <2>. PICK b \in Appends : b = Retried(a, k)
    BY <2>3
  <2> QED
    BY <2>2, <2>3 DEF Appended
<1>2. CASE ~(appends[w].attempt < BuildLogRetryLimit)
  <2>. PICK pc \in AppendPcs : pc = "failed"
    BY DEF AppendPcs
  <2>1. Becomes(w, pc)
    BY <1>2 DEF Again
  <2> QED
    BY <2>1, TurnedShape
<1> QED
  BY <1>1, <1>2

LEMMA AppendShape ==
    ASSUME LogIInv, NEW w \in LogWriters, AppendBuildLog(w)
    PROVE  Appended(w)
<1>1. CASE GetFileText(w)
  <2>. PICK a \in Appends, k \in Nat, pc \in AppendPcs :
          a = appends[w] /\ k = 0 /\ pc = "idle"
    BY DEF LogIInv, LogTypeOK, AppendPcs
  <2>. PICK log \in Seq(LogWriters) :
          appends' = [appends EXCEPT ![w].pc = "committing", ![w].existing = log,
                                     ![w].tries = 0]
    BY <1>1, ReadableLogs DEF GetFileText
  <2>1. appends' = [appends EXCEPT ![w] = ReadIn(a, log)]
    BY DEF ReadIn, LogIInv, LogTypeOK
  <2>2. ReadIn(a, log) \in Appends /\ ReadIn(a, log).pc = "committing"
    BY ONLY a \in Appends, pc \in AppendPcs, k \in Nat, log \in Seq(LogWriters), ChangedAppend
  <2>. PICK b \in Appends : b = ReadIn(a, log)
    BY <2>2
  <2> QED
    BY <2>1, <2>2 DEF Appended
<1>2. CASE CommitResult(w)
  <2>1. CASE Again(w)
    BY <2>1, AgainShape
  <2>2. CASE ~Again(w)
    <3>. PICK pc \in AppendPcs : pc = "waiting"
      BY DEF AppendPcs
    <3>1. Becomes(w, pc) /\ UNCHANGED vars /\ calls[w].pc = "committed"
          /\ appends[w].pc = "committing"
      BY <1>2, <2>2 DEF CommitResult
    <3> QED
      BY <3>1, TurnedShape
  <2> QED
    BY <2>1, <2>2
<1>3. CASE WaitForFileEntry(w)
  <2>1. CASE Again(w)
    BY <2>1, AgainShape
  <2>2. CASE Becomes(w, "logged") /\ \E log \in Readable(w) : Has(log, w)
    <3>. PICK pc \in AppendPcs : pc = "logged"
      BY DEF AppendPcs
    <3>1. Becomes(w, pc) /\ UNCHANGED vars /\ appends[w].pc = "waiting"
      BY <1>3, <2>2 DEF WaitForFileEntry
    <3> QED
      BY <2>2, <3>1, TurnedShape
  <2>3. CASE ~Again(w) /\ ~(Becomes(w, "logged") /\ \E log \in Readable(w) : Has(log, w))
    <3>. PICK log \in Seq(LogWriters) : log = <<>>
      BY NoLog
    <3>. PICK a \in Appends : a = appends[w]
      BY DEF LogIInv, LogTypeOK
    <3>. PICK k \in Nat, pc \in {"waiting", "verifying"} :
            appends' = [appends EXCEPT ![w].pc = pc, ![w].tries = k]
      <4>1. UNCHANGED vars /\ appends[w].pc = "waiting"
            /\ appends' = [appends EXCEPT
                 ![w].pc = IF 1 + appends[w].tries = BuildLogVerifyAttempts
                           THEN "verifying" ELSE @,
                 ![w].tries = @ + 1]
        BY <1>3, <2>3 DEF WaitForFileEntry
      <4>. PICK k \in Nat, pc \in {"waiting", "verifying"} :
              k = appends[w].tries + 1
              /\ pc = IF 1 + appends[w].tries = BuildLogVerifyAttempts
                      THEN "verifying" ELSE appends[w].pc
        BY <4>1 DEF LogIInv, LogTypeOK, Appends
      <4>2. appends' = [appends EXCEPT ![w].pc = pc, ![w].tries = k]
        BY <4>1 DEF LogIInv, LogTypeOK
      <4> QED
        BY <4>2
    <3>1. appends' = [appends EXCEPT ![w] = Tried(a, k, pc)]
      BY DEF Tried, LogIInv, LogTypeOK
    <3>2. pc \in AppendPcs
      BY DEF AppendPcs
    <3>3. Tried(a, k, pc) \in Appends /\ Tried(a, k, pc).pc = pc
      BY ONLY a \in Appends, <3>2, k \in Nat, log \in Seq(LogWriters), ChangedAppend
    <3>. PICK b \in Appends : b = Tried(a, k, pc)
      BY <3>3
    <3>4. UNCHANGED vars /\ appends[w].pc = "waiting"
      BY <1>3 DEF WaitForFileEntry
    <3> QED
      BY <3>1, <3>3, <3>4 DEF Appended
  <2> QED
    BY <2>1, <2>2, <2>3
<1>4. CASE VerifyLogCommit(w)
  <2>1. CASE Again(w)
    BY <2>1, AgainShape
  <2>2. CASE ~Again(w)
    <3>. PICK pc \in AppendPcs : pc = "logged"
      BY DEF AppendPcs
    <3>1. Becomes(w, pc) /\ UNCHANGED vars /\ appends[w].pc = "verifying"
      BY <1>4, <2>2 DEF VerifyLogCommit
    <3> QED
      BY <3>1, TurnedShape
  <2> QED
    BY <2>1, <2>2
<1> QED
  BY <1>1, <1>2, <1>3, <1>4 DEF AppendBuildLog

LEMMA LogNextIInv == LogIInv /\ [LogNext]_logVars => LogIInv'
<1> SUFFICES ASSUME LogIInv, [LogNext]_logVars PROVE LogIInv'
  OBVIOUS
<1>1. ASSUME NEW t \in Callers, Act(t) PROVE LogIInv'
  <2>1. /\ IInv' /\ HistoryStep
        /\ StepShape(t)
        /\ LogsStep /\ OrderOK'
    BY <1>1, ActKeepsLogs
  <2>2. /\ appends' \in [LogWriters -> Appends]
        /\ \A w \in LogWriters : w # t => appends'[w] = appends[w]
        /\ UNCHANGED appends \/ (t \in LogWriters /\ Appended(t))
    BY <1>1, AppendShape DEF Act, Appended, LogIInv, LogTypeOK
  <2>3. LogTypeOK'
    BY <2>1, <2>2 DEF LogTypeOK, LogsStep, IInv
  <2>4. ASSUME NEW w \in LogWriters,
               appends'[w].pc \in {"waiting", "verifying", "logged"}
        PROVE  calls'[w] = calls[w] /\ calls[w].pc = "committed"
    <3>. w \in Callers
      BY DEF Callers
    <3>1. CASE w # t
      BY <2>1, <2>2, <2>4, <3>1 DEF StepShape, WritersOK, LogIInv
    <3>2. CASE w = t /\ AppendBuildLog(t)
      <4>. PICK a \in Appends :
              /\ appends' = [appends EXCEPT ![w] = a]
              /\ a.pc \in {"waiting", "verifying", "logged"} =>
                   /\ UNCHANGED vars
                   /\ \/ appends[w].pc = "committing" /\ calls[w].pc = "committed"
                      \/ appends[w].pc \in {"waiting", "verifying"}
        BY <3>2, AppendShape DEF Appended
      <4>1. appends'[w] = a
        BY DEF LogIInv, LogTypeOK
      <4> QED
        BY <2>4, <4>1 DEF vars, WritersOK, LogIInv
    <3>3. CASE w = t /\ ~AppendBuildLog(t)
      <4>1. CommitFiles(t) /\ UNCHANGED appends
        BY <1>1, <3>3, CallersAssumption DEF Act
      <4>2. calls[w].pc # "committed"
        BY <3>3, <4>1 DEF CommitFiles, GetRef, GetContents, PutContents, GetRefAgain,
                          UpdateRef, VerifyCommit
      <4> QED
        BY <2>4, <4>1, <4>2 DEF WritersOK, LogIInv
    <3> QED
      BY <3>1, <3>2, <3>3
  <2>5. WritersOK'
    BY <2>4 DEF WritersOK
  <2>6. LoggedIsOnBranch'
    <3> SUFFICES ASSUME NEW w \in LogWriters, appends'[w].pc = "logged"
                 PROVE  HasEntry(NameOf(w), w)'
      BY DEF LoggedIsOnBranch, HasEntry, RepoOf
    <3>. w \in Callers
      BY DEF Callers
    <3>1. NameOf(w) \in Names /\ NameOf(w)' = NameOf(w)
      BY <2>4, BranchTypes DEF LogIInv, NameOf
    <3>. PICK n \in Names : n = NameOf(w)
      BY <3>1
    <3>2. HasEntry(n, w)
      <4>1. CASE appends[w].pc = "logged"
        BY <4>1 DEF LogIInv, LoggedIsOnBranch, HasEntry, RepoOf
      <4>2. CASE appends[w].pc # "logged"
        <5>. PICK a \in Appends :
               /\ appends' = [appends EXCEPT ![w] = a]
               /\ a.pc \in {"waiting", "verifying", "logged"} =>
                    \/ appends[w].pc = "committing" /\ calls[w].pc = "committed"
                    \/ appends[w].pc \in {"waiting", "verifying"}
               /\ a.pc = "logged" => \/ \E log \in Readable(w) : Has(log, w)
                                     \/ appends[w].pc = "verifying"
          <6>1. w = t /\ Appended(t)
            BY <2>2, <4>2
          <6> QED
            BY <6>1 DEF Appended
        <5>1. appends'[w] = a
          BY DEF LogIInv, LogTypeOK
        <5>2. CASE \E log \in Readable(w) : Has(log, w)
          BY <5>2, ReadableLogs
        <5>3. CASE appends[w].pc = "verifying"
          <6>. PICK i : i = calls[w].commit
            OBVIOUS
          <6>1. calls[w].pc = "committed"
            BY <5>3 DEF LogIInv, WritersOK
          <6>2. i \in History(repos[n].head) /\ commits[i].by = w
            BY <6>1 DEF LogIInv, IInv, CallsOK, CallOK, NameOf
          <6>3. i \in 1..Len(commits)
            BY <6>2 DEF LogIInv, IInv, TypeOK, Repos, CommitsOK, History
          <6>4. Has(LogAt(i), w)
            BY <6>2, <6>3 DEF LogIInv, EntriesOK, LogAt
          <6> QED
            BY <6>2, <6>4 DEF HasEntry
        <5> QED
          BY <5>1, <5>2, <5>3
      <4> QED
        BY <4>1, <4>2
    <3>3. HasEntry(n, w)'
      BY <2>1, <3>2, EntriesStay
    <3> QED
      BY <3>1, <3>3 DEF HasEntry
  <2> QED
    BY <2>1, <2>3, <2>5, <2>6 DEF LogIInv, LogsStep
<1>2. ASSUME UNCHANGED logVars PROVE LogIInv'
  <2>1. UNCHANGED vars
    BY <1>2 DEF logVars
  <2>2. IInv'
    BY <2>1, NextIInv DEF LogIInv
  <2>3. LogTypeOK' /\ OrderOK' /\ WritersOK'
    BY <1>2, <2>1, <2>2 DEF logVars, vars, LogIInv, LogTypeOK, IInv, OrderOK, WritersOK
  <2>4. EntriesOK'
    BY <1>2, <2>1 DEF logVars, vars, LogIInv, EntriesOK, Has
  <2>5. LoggedIsOnBranch'
    BY <1>2, <2>1 DEF logVars, vars, LogIInv, LoggedIsOnBranch, RepoOf, NameOf, History,
                      LogAt, Has
  <2> QED
    BY <2>2, <2>3, <2>4, <2>5 DEF LogIInv
<1> QED
  BY <1>1, <1>2 DEF LogNext

LEMMA LogInvariance == LogSpec => []LogIInv
BY LogInitIInv, LogNextIInv, PTL DEF LogSpec

\* The log of one branch from a step to the next.
LogKept(n) ==
    \/ /\ Len(HeadLog(n)) <= Len(HeadLog(n)')
       /\ \A k \in 1..Len(HeadLog(n)) : HeadLog(n)'[k] = HeadLog(n)[k]
    \/ \E w \in LogWriters :
          /\ NameOf(w) = n
          /\ appends[w].existing # HeadLog(n)
          /\ HeadLog(n)' = Append(appends[w].existing, w)

LEMMA LogKeptStep ==
    ASSUME LogIInv, NEW t \in Callers, Act(t), NEW n \in Names
    PROVE  LogKept(n)
<1>1. StepShape(t) /\ LogsStep /\ LogsFollow
  BY ActKeepsLogs
<1>. PICK head \in Nat : head = repos[n].head
  BY DEF LogIInv, IInv, TypeOK, Repos
<1>2. /\ head \in 0..Len(commits)
      /\ Len(logs) = Len(commits) /\ Len(commits) \in Nat
  BY DEF LogIInv, IInv, LogTypeOK, TypeOK
<1>3. LogAt(head) \in Seq(LogWriters)
  BY <1>2, NoLog DEF LogAt, LogIInv, LogTypeOK
<1>. PICK old \in Seq(LogWriters) : old = HeadLog(n)
  BY <1>3 DEF HeadLog
<1>4. CASE HeadLog(n)' = HeadLog(n)
  BY <1>4 DEF LogKept
<1>5. CASE HeadLog(n)' # HeadLog(n)
  <2>1. repos'[n].head # head
    BY <1>1, <1>2, <1>5 DEF HeadLog, LogAt, LogsStep
  <2>. PICK commit : Lands(t, commit)
    BY <1>1, <2>1 DEF StepShape
  <2>2. /\ Len(commits') = 1 + Len(commits)
        /\ commits'[1 + Len(commits)] = commit
    BY DEF Lands, LogIInv, IInv, TypeOK
  <2>3. NameOf(t) = n /\ repos'[n].head = 1 + Len(commits)
    BY <2>1, <2>2 DEF Lands, LogIInv, IInv, TypeOK
  <2>4. logs' = Append(logs, Content(commit))
    <3>1. commits' # commits
      BY <1>2, <2>2
    <3>2. commits'[Len(commits')] = commit
      BY <2>2
    <3>3. logs' = Append(logs, Content(commits'[Len(commits')]))
      BY <1>1, <3>1 DEF LogsFollow
    <3> QED
      BY <3>2, <3>3
  <2>. PICK content \in Seq(LogWriters) : content = Content(commit)
    BY ContentOfCommit
  <2>5. HeadLog(n)' = content
    <3>1. logs'[1 + Len(commits)] = content
      BY <1>2, <2>4 DEF LogIInv, LogTypeOK
    <3> QED
      BY <1>2, <2>3, <3>1 DEF HeadLog, LogAt
  <2>6. commit.by \in LogWriters
    <3>1. commit.by \notin LogWriters => content = old
      BY <2>3, ContentOfCommit DEF HeadLog, RepoOf
    <3> QED
      BY <1>5, <2>5, <3>1
  <2>. PICK w \in LogWriters : w = commit.by
    BY <2>6
  <2>7. w = t
    BY CallersAssumption DEF Lands, Callers
  <2>. PICK existing \in Seq(LogWriters) : existing = appends[w].existing
    BY DEF LogIInv, LogTypeOK, Appends
  <2>8. content = Append(existing, w)
    BY ContentOfCommit
  <2>9. CASE existing # old
    BY <2>3, <2>5, <2>7, <2>8, <2>9 DEF LogKept
  <2>10. CASE existing = old
    <3>1. /\ Len(old) <= Len(content)
          /\ \A k \in 1..Len(old) : content[k] = old[k]
      BY <2>8, <2>10
    <3> QED
      BY <2>5, <3>1 DEF LogKept
  <2> QED
    BY <2>9, <2>10
<1> QED
  BY <1>4, <1>5

-----------------------------------------------------------------------------
(* How often an entry is repeated.                                         *)

Before == {"opening", "seeding", "putting", "updating"}
Behind == {"verifying", "committed", "failed"}
Settled == {"idle", "committed", "failed"}

\* The attempt a writer is in has not committed yet.
Pending(w) == appends[w].pc = "committing" /\ calls[w].pc \in Before

\* The attempts of a writer that may have committed.
Spent(w) == IF appends[w].pc \in {"idle", "reading"} \/ Pending(w)
            THEN appends[w].attempt
            ELSE 1 + appends[w].attempt

\* A writer commits its one file only while an attempt waits for it.
AttemptOK(w) ==
    /\ appends[w].attempt <= BuildLogRetryLimit
    /\ calls[w].files = {LogPath}
    /\ IF appends[w].pc = "committing" THEN calls[w].pc \in Before \cup Behind
                                       ELSE calls[w].pc \in Settled

AttemptsOK == \A w \in LogWriters : AttemptOK(w)

\* No log, and nothing a writer has read, has more of its entries than that.
SpentOK ==
    /\ \A i \in 1..Len(logs), w \in LogWriters : Times(logs[i], w) <= Spent(w)
    /\ \A v, w \in LogWriters : Times(appends[v].existing, w) <= Spent(w)

RepeatsInv == AttemptsOK /\ SpentOK

LEMMA TimesOfNone == ASSUME NEW w PROVE Times(<<>>, w) = 0
<1>1. {k \in 1..Len(<<>>) : <<>>[k] = w} = {}
  OBVIOUS
<1> QED
  BY <1>1, FS_EmptySet DEF Times

\* An entry more is counted at most once.
LEMMA TimesOfMore ==
    ASSUME NEW log \in Seq(LogWriters), NEW x \in LogWriters, NEW w
    PROVE  /\ Times(log, w) \in Nat
           /\ Times(Append(log, x), w) = IF x = w THEN 1 + Times(log, w) ELSE Times(log, w)
<1>. PICK n \in Nat : n = Len(log)
  OBVIOUS
<1>. PICK more : more = Append(log, x)
  OBVIOUS
<1>1. /\ Len(more) = n + 1 /\ more[n + 1] = x
      /\ \A k \in 1..n : more[k] = log[k]
  OBVIOUS
<1>. PICK K : K = {k \in 1..n : log[k] = w}
  OBVIOUS
<1>2. IsFiniteSet(K)
  <2>1. IsFiniteSet(1..n) /\ K \in SUBSET (1..n)
    BY FS_Interval
  <2> QED
    BY <2>1, FS_Subset
<1>3. Cardinality(K) \in Nat
  BY <1>2, FS_CardinalityType
<1>4. n + 1 \notin K
  OBVIOUS
<1>5. {k \in 1..n + 1 : more[k] = w} = IF x = w THEN K \cup {n + 1} ELSE K
  <2>1. \A k \in 1..n + 1 : k \in 1..n \/ k = n + 1
    OBVIOUS
  <2> QED
    BY <1>1, <2>1
<1>6. Cardinality(K \cup {n + 1}) = Cardinality(K) + 1
  BY <1>2, <1>4, FS_AddElement
<1>7. Times(log, w) = Cardinality(K)
  BY DEF Times
<1>8. Times(more, w) = Cardinality({k \in 1..n + 1 : more[k] = w})
  BY <1>1 DEF Times
<1>9. Times(more, w) = IF x = w THEN Cardinality(K \cup {n + 1}) ELSE Cardinality(K)
  BY <1>5, <1>8
<1> QED
  BY <1>3, <1>6, <1>7, <1>9

LEMMA SpentType ==
    ASSUME LogIInv, NEW w \in LogWriters
    PROVE  Spent(w) \in Nat /\ appends[w].attempt \in Nat
BY DEF LogIInv, LogTypeOK, Appends, Spent

\* A log that is read has no more of an entry than its writer has spent.
LEMMA LogAtBound ==
    ASSUME LogIInv, SpentOK, NEW i \in 0..Len(logs), NEW w \in LogWriters
    PROVE  Times(LogAt(i), w) <= Spent(w)
<1>1. CASE i = 0
  BY <1>1, TimesOfNone, SpentType DEF LogAt
<1>2. CASE i # 0
  <2>1. i \in 1..Len(logs)
    BY <1>2 DEF LogIInv, LogTypeOK
  <2> QED
    BY <1>2, <2>1 DEF LogAt, SpentOK
<1> QED
  BY <1>1, <1>2

LEMMA ReadableBound ==
    ASSUME LogIInv, SpentOK, NEW v \in LogWriters, NEW log \in Readable(v),
           NEW w \in LogWriters
    PROVE  Times(log, w) <= Spent(w)
<1>. v \in Callers
  BY DEF Callers
<1>1. NameOf(v) \in Names
  BY BranchTypes DEF LogIInv
<1>2. ASSUME NEW i \in History(RepoOf(v).head) PROVE i \in 0..Len(logs)
  <2>1. RepoOf(v).head \in 0..Len(commits)
    BY <1>1 DEF RepoOf, LogIInv, IInv, TypeOK, Repos
  <2> QED
    BY <1>2, <2>1 DEF History, LogIInv, IInv, CommitsOK, LogTypeOK
<1>3. CASE log = <<>>
  BY <1>3, TimesOfNone, SpentType
<1>4. CASE log # <<>>
  BY <1>2, <1>4, LogAtBound DEF Readable
<1> QED
  BY <1>3, <1>4

\* What a step of a commit does to the call of a writer.
LEMMA CommitsOnce ==
    ASSUME LogIInv, NEW w \in LogWriters, AttemptOK(w), CommitFiles(w),
           UNCHANGED appends
    PROVE  /\ AttemptOK(w)' /\ appends[w].pc = "committing"
           /\ Pending(w)' => Pending(w)
           /\ commits' # commits => Pending(w) /\ ~Pending(w)'
<1>. PICK c \in Calls : c = calls[w]
  BY DEF LogIInv, IInv, TypeOK, Callers
<1>0. w \in Callers /\ First(w) = LogPath /\ calls \in [Callers -> Calls]
  BY DEF Callers, First, LogIInv, IInv, TypeOK
<1>1. /\ c.files = {LogPath} /\ c.pc \in Before \cup {"verifying"}
      /\ appends[w].pc = "committing" /\ appends[w].attempt <= BuildLogRetryLimit
  <2>1. c.pc \in Before \cup {"verifying", "reading"}
    BY DEF CommitFiles, GetRef, GetContents, PutContents, GetRefAgain, UpdateRef,
           VerifyCommit, Before
  <2> QED
    BY <2>1 DEF AttemptOK, Before, Behind, Settled
<1>2. /\ calls'[w].files = {LogPath}
      /\ \/ commits' = commits /\ c.pc \in Before /\ calls'[w].pc \in Before \cup Behind
         \/ c.pc \in Before /\ calls'[w].pc \in Behind
         \/ commits' = commits /\ calls'[w].pc \in Behind
  <2>1. CASE Fails(w)
    BY <1>0, <1>1, <2>1 DEF Fails, Goes, Behind
  <2>2. CASE (GetRef(w) \/ GetContents(w)) /\ ~Fails(w)
    <3>1. c.pc \in Before /\ commits' = commits
      BY <2>2 DEF GetRef, GetContents, Before
    <3>2. calls'[w].pc \in Before /\ calls'[w].files = c.files
      <4>1. CASE GetRef(w)
        <5>. PICK tip, pc : /\ pc \in {"seeding", "updating"}
                            /\ calls' = [calls EXCEPT ![w].tip = tip, ![w].pc = pc]
          BY <2>2, <4>1 DEF GetRef
        <5> QED
          BY <1>0 DEF Calls, Before
      <4>2. CASE GetContents(w)
        <5>. PICK blob : calls' = [calls EXCEPT ![w].blob = blob, ![w].pc = "putting"]
          BY <2>2, <4>2 DEF GetContents
        <5> QED
          BY <1>0 DEF Calls, Before
      <4> QED
        BY <2>2, <4>1, <4>2
    <3> QED
      BY <1>1, <3>1, <3>2
  <2>3. CASE (PutContents(w) \/ UpdateRef(w)) /\ ~Fails(w)
    <3>1. c.pc \in Before
      BY <2>3 DEF PutContents, UpdateRef, Before
    <3>. PICK parent, files, pc : /\ pc \in {"verifying", "failed"}
                                  /\ Committed(w, parent, files, pc)
      <4>1. CASE PutContents(w)
        <5>1. \E pc \in {"verifying", "failed"} :
                 Committed(w, RepoOf(w).head, {First(w)}, pc)
          BY <1>0, <1>1, <2>3, <4>1 DEF PutContents
        <5> QED
          BY <5>1
      <4>2. CASE UpdateRef(w)
        <5>1. \E pc \in {"verifying", "failed"} :
                 Committed(w, calls[w].tip, calls[w].files, pc)
          BY <2>3, <4>2 DEF UpdateRef
        <5> QED
          BY <5>1
      <4> QED
        BY <2>3, <4>1, <4>2
    <3>2. calls'[w].pc = pc /\ calls'[w].files = c.files
      BY <1>0 DEF Committed, Calls
    <3> QED
      BY <1>1, <3>1, <3>2 DEF Behind
  <2>4. CASE GetRefAgain(w)
    BY <1>1, <2>4 DEF GetRefAgain, Before
  <2>5. CASE VerifyCommit(w)
    BY <1>0, <1>1, <2>5 DEF VerifyCommit, Goes, Verdicts, Behind
  <2> QED
    BY <2>1, <2>2, <2>3, <2>4, <2>5 DEF CommitFiles
<1>3. Before \cap Behind = {}
  BY DEF Before, Behind
<1> QED
  BY <1>1, <1>2, <1>3 DEF AttemptOK, Pending

\* What a step of an append does to what its writer has spent.
LEMMA AppendSpends ==
    ASSUME LogIInv, NEW w \in LogWriters, AttemptOK(w), AppendBuildLog(w)
    PROVE  /\ AttemptOK(w)' /\ Spent(w) <= Spent(w)'
           /\ UNCHANGED <<commits, logs>>
           /\ \/ appends'[w].existing = appends[w].existing
              \/ appends'[w].existing \in Readable(w)
<1>. PICK a \in Appends, n \in Nat : a = appends[w] /\ n = a.attempt
  BY DEF LogIInv, LogTypeOK, Appends
<1>. BuildLogRetryLimit \in Nat
  BY LimitsAssumption
<1>0. w \in Callers /\ calls \in [Callers -> Calls] /\ appends \in [LogWriters -> Appends]
  BY DEF Callers, LogIInv, LogTypeOK, IInv, TypeOK
<1>1. CASE GetFileText(w)
  <2>1. /\ a.pc = "reading" /\ appends'[w].pc = "committing"
        /\ appends'[w].attempt = n /\ appends'[w].existing \in Readable(w)
    BY <1>0, <1>1 DEF GetFileText, Appends
  <2>2. /\ calls'[w].pc = "opening" /\ calls'[w].files = {LogPath}
        /\ UNCHANGED <<commits, logs>>
    BY <1>0, <1>1 DEF GetFileText, CommitLog, NewCall
  <2>3. Pending(w)' /\ Spent(w)' = n /\ Spent(w) = n
    BY <2>1, <2>2 DEF Pending, Spent, Before
  <2> QED
    BY <2>1, <2>2, <2>3 DEF AttemptOK, Before
<1>2. CASE ~GetFileText(w)
  <2>1. UNCHANGED <<vars, logs>> /\ a.pc \in {"committing", "waiting", "verifying"}
    BY <1>2 DEF AppendBuildLog, CommitResult, WaitForFileEntry, VerifyLogCommit
  <2>2. calls[w].pc \in Settled
    BY <1>2 DEF AppendBuildLog, CommitResult, WaitForFileEntry, VerifyLogCommit,
                AttemptOK, Settled
  <2>3. /\ appends'[w].existing = a.existing
        /\ \/ appends'[w].pc = "reading" /\ appends'[w].attempt = n + 1
              /\ n < BuildLogRetryLimit
           \/ appends'[w].pc \in {"waiting", "verifying", "logged", "failed"}
              /\ appends'[w].attempt = n
    <3>1. CASE Again(w)
      BY <1>0, <3>1 DEF Again, Becomes, Appends
    <3>2. CASE ~Again(w)
      BY <1>0, <1>2, <3>2 DEF AppendBuildLog, CommitResult, WaitForFileEntry,
                              VerifyLogCommit, Becomes, Appends
    <3> QED
      BY <3>1, <3>2
  <2>4. ~Pending(w) /\ Spent(w) = n + 1
    BY <2>1, <2>2 DEF Pending, Spent, Before, Settled
  <2>5. Spent(w)' = n + 1
    BY <2>3 DEF Pending, Spent
  <2>6. AttemptOK(w)'
    BY <2>1, <2>2, <2>3 DEF AttemptOK, vars
  <2> QED
    BY <2>1, <2>3, <2>4, <2>5, <2>6 DEF vars
<1> QED
  BY <1>1, <1>2

\* Nobody has spent less after a step, and a writer whose commit lands has
\* spent one attempt more.
LEMMA SpendingStep ==
    ASSUME LogIInv, AttemptsOK, NEW t \in Callers, Act(t), NEW w \in LogWriters
    PROVE  /\ AttemptOK(w)' /\ Spent(w) <= Spent(w)'
           /\ \/ appends'[w].existing = appends[w].existing
              \/ appends'[w].existing \in Readable(w)
           /\ t = w /\ commits' # commits => Spent(w)' = 1 + Spent(w)
<1>0. w \in Callers /\ Spent(w) \in Nat /\ appends[w].attempt \in Nat /\ AttemptOK(w)
  BY SpentType DEF Callers, AttemptsOK
<1>1. CASE t # w
  <2>1. appends'[w] = appends[w]
    BY <1>1, AppendShape DEF Act, Appended, LogIInv, LogTypeOK
  <2>2. calls'[w] = calls[w]
    BY <1>0, <1>1, ActKeepsLogs DEF StepShape
  <2> QED
    BY <1>0, <1>1, <2>1, <2>2 DEF AttemptOK, Spent, Pending
<1>2. CASE t = w /\ AppendBuildLog(w)
  BY <1>0, <1>2, AppendSpends
<1>3. CASE t = w /\ ~AppendBuildLog(w)
  <2>1. CommitFiles(w) /\ UNCHANGED appends
    BY <1>3, CallersAssumption DEF Act
  <2> QED
    BY <1>0, <1>3, <2>1, CommitsOnce DEF Spent
<1> QED
  BY <1>1, <1>2, <1>3

\* Every commit puts at most one entry into the log it is based on, and its
\* writer has spent an attempt on it.
LEMMA ContentBound ==
    ASSUME LogIInv, RepeatsInv, NEW t \in Callers, Act(t), NEW commit, Lands(t, commit),
           NEW w \in LogWriters
    PROVE  Times(Content(commit), w) <= Spent(w)'
<1>1. Spent(w) \in Nat /\ Spent(w)' \in Nat /\ Spent(w) <= Spent(w)'
      /\ (t = w => Spent(w)' = 1 + Spent(w))
  <2>1. commits' # commits
    <3>1. Len(commits) \in Nat /\ Len(commits') = 1 + Len(commits)
      BY DEF Lands, LogIInv, IInv, TypeOK
    <3> QED
      BY <3>1
  <2>2. LogIInv'
    BY LogNextIInv DEF LogNext
  <2>3. Spent(w)' \in Nat
    BY <2>2 DEF LogIInv, LogTypeOK, Appends, Spent
  <2> QED
    BY <2>1, <2>3, SpentType, SpendingStep DEF RepeatsInv
<1>2. CASE commit.by \in LogWriters
  <2>. PICK existing \in Seq(LogWriters) : existing = appends[commit.by].existing
    BY <1>2 DEF LogIInv, LogTypeOK, Appends
  <2>1. Content(commit) = Append(existing, commit.by)
    BY <1>2, ContentOfCommit
  <2>2. commit.by = t
    BY <1>2, CallersAssumption DEF Lands, Callers
  <2>3. Times(existing, w) <= Spent(w) /\ Times(existing, w) \in Nat
    BY <1>2, TimesOfMore DEF RepeatsInv, SpentOK
  <2>4. Times(Append(existing, t), w) = IF t = w THEN 1 + Times(existing, w)
                                                 ELSE Times(existing, w)
    BY <1>2, <2>2, TimesOfMore
  <2> QED
    BY <1>1, <2>1, <2>2, <2>3, <2>4
<1>3. CASE commit.by \notin LogWriters
  <2>. PICK head : head = RepoOf(t).head
    OBVIOUS
  <2>1. head \in 0..Len(logs)
    BY BranchTypes DEF LogIInv, IInv, TypeOK, LogTypeOK, RepoOf, Repos
  <2>2. Content(commit) = LogAt(head) /\ LogAt(head) \in Seq(LogWriters)
    BY <1>3, ContentOfCommit
  <2>3. Times(LogAt(head), w) <= Spent(w)
    BY <2>1, LogAtBound DEF RepeatsInv
  <2>4. Times(LogAt(head), w) \in Nat
    BY <2>2, TimesOfMore
  <2> QED
    BY <1>1, <2>2, <2>3, <2>4
<1> QED
  BY <1>2, <1>3

LEMMA InitRepeats == LogInit => RepeatsInv
<1> SUFFICES ASSUME LogInit PROVE RepeatsInv
  OBVIOUS
<1>. BuildLogRetryLimit \in Nat
  BY LimitsAssumption
<1>1. ASSUME NEW w \in LogWriters
      PROVE  /\ appends[w].pc \in {"idle", "reading"} /\ appends[w].attempt = 0
             /\ appends[w].existing = <<>>
             /\ calls[w].pc = "idle" /\ calls[w].files = {LogPath}
  <2>1. calls[w] = NewCall({LogPath})
    BY DEF LogInit, Init, Callers
  <2>2. calls[w].pc = "idle" /\ calls[w].files = {LogPath}
    BY <2>1 DEF NewCall
  <2>. PICK active \in SUBSET LogWriters :
          appends = [v \in LogWriters |->
                       [pc |-> IF v \in active THEN "reading" ELSE "idle",
                        attempt |-> 0, existing |-> <<>>, tries |-> 0]]
    BY DEF LogInit
  <2>3. appends[w] = [pc |-> IF w \in active THEN "reading" ELSE "idle",
                      attempt |-> 0, existing |-> <<>>, tries |-> 0]
    OBVIOUS
  <2> QED
    BY <2>2, <2>3
<1>2. ASSUME NEW w \in LogWriters PROVE AttemptOK(w) /\ Spent(w) = 0
  BY <1>1 DEF AttemptOK, Spent, Settled
<1>3. Len(logs) = 1 /\ logs[1] = <<>>
  BY DEF LogInit
<1>4. \A i \in 1..Len(logs) : logs[i] = <<>>
  BY <1>3
<1>5. SpentOK
  BY <1>1, <1>2, <1>4, TimesOfNone DEF SpentOK
<1> QED
  BY <1>2, <1>5 DEF RepeatsInv, AttemptsOK

LEMMA RepeatsStep ==
    ASSUME LogIInv, RepeatsInv, NEW t \in Callers, Act(t)
    PROVE  RepeatsInv'
<1>1. LogsStep /\ StepShape(t) /\ LogsFollow
  BY ActKeepsLogs
<1>2. LogIInv'
  BY LogNextIInv DEF LogNext
<1>3. ASSUME NEW w \in LogWriters
      PROVE  /\ AttemptOK(w)'
             /\ Spent(w) \in Nat /\ Spent(w)' \in Nat /\ Spent(w) <= Spent(w)'
  <2>1. Spent(w)' \in Nat
    BY <1>2 DEF LogIInv, LogTypeOK, Appends, Spent
  <2> QED
    BY <2>1, SpentType, SpendingStep DEF RepeatsInv
<1>4. /\ logs \in Seq(Seq(LogWriters)) /\ logs' \in Seq(Seq(LogWriters))
      /\ Len(logs) = Len(commits) /\ commits \in Seq(Commits)
  BY <1>1 DEF LogIInv, LogTypeOK, LogsStep, IInv, TypeOK
<1>5. ASSUME NEW i \in 1..Len(logs'), NEW w \in LogWriters
      PROVE  Times(logs'[i], w) <= Spent(w)'
  <2>1. Times(logs'[i], w) \in Nat
    BY <1>4, TimesOfMore
  <2>2. CASE i \in 1..Len(logs)
    <3>1. logs'[i] = logs[i] /\ Times(logs[i], w) <= Spent(w)
      BY <1>1, <2>2 DEF LogsStep, RepeatsInv, SpentOK
    <3> QED
      BY <1>3, <2>1, <3>1
  <2>3. CASE i \notin 1..Len(logs)
    <3>1. ~UNCHANGED <<repos, commits>>
      BY <1>1, <1>4, <2>3 DEF LogsStep
    <3>. PICK commit : Lands(t, commit)
      BY <1>1, <3>1 DEF StepShape
    <3>2. /\ Len(commits') = 1 + Len(commits) /\ commits' # commits
          /\ commits'[Len(commits')] = commit
      BY <1>4 DEF Lands
    <3>3. logs' = Append(logs, Content(commit))
      BY <1>1, <3>2 DEF LogsFollow
    <3>4. logs'[i] = Content(commit)
      BY <1>4, <2>3, <3>3
    <3> QED
      BY <3>4, ContentBound
  <2> QED
    BY <2>2, <2>3
<1>6. ASSUME NEW v \in LogWriters, NEW w \in LogWriters
      PROVE  Times(appends'[v].existing, w) <= Spent(w)'
  <2>1. Times(appends'[v].existing, w) \in Nat
    <3>1. appends'[v].existing \in Seq(LogWriters)
      BY <1>2 DEF LogIInv, LogTypeOK, Appends
    <3> QED
      BY <3>1, TimesOfMore
  <2>2. Times(appends'[v].existing, w) <= Spent(w)
    BY SpendingStep, ReadableBound DEF RepeatsInv, SpentOK
  <2> QED
    BY <1>3, <2>1, <2>2
<1> QED
  BY <1>3, <1>5, <1>6 DEF RepeatsInv, AttemptsOK, SpentOK

LEMMA NextRepeats == LogIInv /\ RepeatsInv /\ [LogNext]_logVars => RepeatsInv'
<1>1. ASSUME UNCHANGED logVars, RepeatsInv PROVE RepeatsInv'
  <2>1. \A w \in LogWriters : AttemptOK(w)' /\ Spent(w)' = Spent(w)
    BY <1>1 DEF logVars, vars, RepeatsInv, AttemptsOK, AttemptOK, Spent, Pending
  <2> QED
    BY <1>1, <2>1 DEF logVars, RepeatsInv, AttemptsOK, SpentOK
<1> QED
  BY <1>1, RepeatsStep DEF LogNext

-----------------------------------------------------------------------------
(* How much a caller can still do.                                         *)

\* The requests to the end of a call that opened its repository, or looks for
\* it under its last candidate.
Stage(pc) ==
    CASE pc = "looking"    -> 9 [] pc = "creating" -> 8 [] pc = "confirming" -> 7
      [] pc = "opening"    -> 6 [] pc = "seeding"  -> 5 [] pc = "putting"    -> 4
      [] pc = "reading"    -> 3 [] pc = "updating" -> 2 [] pc = "verifying"  -> 1
      [] OTHER             -> 0

\* Every further candidate takes a lookup and a creation.
CallWork(t) ==
    Stage(calls[t].pc)
      + (IF calls[t].pc \in {"looking", "creating"}
         THEN 2 * (Len(Candidates[t]) - calls[t].candidate) ELSE 0)

\* The steps of one attempt: it reads, commits, looks for its entry as often as
\* it may, and verifies the commit.
AttemptWork(w) ==
    CASE appends[w].pc = "reading"    -> BuildLogVerifyAttempts + 10
      [] appends[w].pc = "committing" -> BuildLogVerifyAttempts + 3 + Stage(calls[w].pc)
      [] appends[w].pc = "waiting"    -> BuildLogVerifyAttempts + 2 - appends[w].tries
      [] appends[w].pc = "verifying"  -> 1

Ended == {"idle", "logged", "failed"}

Retries(w) == (BuildLogRetryLimit - appends[w].attempt) * (BuildLogVerifyAttempts + 11)

Work(t) ==
    IF t \in LogWriters
    THEN IF appends[t].pc \in Ended THEN 0 ELSE AttemptWork(t) + Retries(t)
    ELSE CallWork(t)

\* A writer looks for its entry anew in every attempt.
TriesOK ==
    \A w \in LogWriters :
        /\ appends[w].pc = "committing" => appends[w].tries = 0
        /\ appends[w].pc = "waiting" => appends[w].tries < BuildLogVerifyAttempts

WorkInv == RepeatsInv /\ TriesOK

\* The step of a caller leaves it less to do, and the others as much.
Progress ==
    \E t \in Callers :
        /\ Work(t)' < Work(t)
        /\ \A u \in Callers \ {t} : Work(u)' = Work(u)

LEMMA StageType == \A pc : Stage(pc) \in 0 .. 9
BY DEF Stage

Looks == {"looking", "creating"}

\* A request takes a call further, or back to a lookup under another name.
LEMMA RequestMoves ==
    ASSUME IInv, NEW t \in Callers, CreateRepo(t) \/ CommitFiles(t), NEW c \in Calls,
           c = calls[t]
    PROVE  \/ /\ Stage(calls'[t].pc) < Stage(c.pc)
              /\ calls'[t].pc \in Looks => c.pc \in Looks
              /\ calls'[t].candidate = c.candidate
           \/ /\ c.pc = "creating" /\ calls'[t].pc = "looking"
              /\ c.candidate < Len(Candidates[t])
              /\ calls'[t].candidate = c.candidate + 1
<1>0. calls \in [Callers -> Calls]
  BY DEF IInv, TypeOK
<1>1. ASSUME NEW pc, calls'[t].pc = pc, calls'[t].candidate = c.candidate,
             Stage(pc) < Stage(c.pc), pc \notin Looks \/ c.pc \in Looks
      PROVE  /\ Stage(calls'[t].pc) < Stage(c.pc)
             /\ calls'[t].pc \in Looks => c.pc \in Looks
             /\ calls'[t].candidate = c.candidate
  BY <1>1
<1>2. CASE Fails(t) /\ Stage(c.pc) > 0
  <2>1. calls'[t].pc = "failed" /\ calls'[t].candidate = c.candidate
    BY <1>0, <1>2 DEF Fails, Goes, Calls
  <2>2. Stage("failed") = 0 /\ "failed" \notin Looks
    BY DEF Stage, Looks
  <2> QED
    BY <1>1, <1>2, <2>1, <2>2, StageType
<1>3. CASE LookUp(t) /\ ~Fails(t)
  <2>. PICK pc \in {"opening", "creating"} : Goes(t, pc)
    BY <1>3 DEF LookUp
  <2>1. calls'[t].pc = pc /\ calls'[t].candidate = c.candidate
    BY <1>0 DEF Goes, Calls
  <2>2. c.pc = "looking"
    BY <1>3 DEF LookUp
  <2>3. Stage(pc) < Stage(c.pc) /\ c.pc \in Looks
    BY <2>2 DEF Stage, Looks
  <2> QED
    BY <1>1, <2>1, <2>3
<1>4. CASE CreateUserRepo(t) /\ ~Fails(t)
  <2>1. c.pc = "creating"
    BY <1>4 DEF CreateUserRepo
  <2>2. CASE \E answered \in BOOLEAN :
               calls' = [calls EXCEPT ![t].created = TRUE,
                                      ![t].pc = IF answered THEN "confirming" ELSE "failed"]
    <3>. PICK pc : /\ pc \in {"confirming", "failed"}
                   /\ calls' = [calls EXCEPT ![t].created = TRUE, ![t].pc = pc]
      BY <2>2
    <3>1. calls'[t].pc = pc /\ calls'[t].candidate = c.candidate
      BY <1>0 DEF Calls
    <3>2. Stage(pc) < Stage(c.pc) /\ c.pc \in Looks
      BY <2>1 DEF Stage, Looks
    <3> QED
      BY <1>1, <3>1, <3>2
  <2>3. CASE NextCandidate(t)
    <3>1. /\ c.candidate < Len(Candidates[t])
          /\ calls' = [calls EXCEPT ![t].pc = "looking", ![t].candidate = @ + 1]
      BY <1>4, <2>3 DEF NextCandidate
    <3>2. calls'[t].pc = "looking" /\ calls'[t].candidate = c.candidate + 1
      BY <1>0, <3>1 DEF Calls
    <3> QED
      BY <2>1, <3>1, <3>2
  <2> QED
    BY <1>4, <2>2, <2>3 DEF CreateUserRepo
<1>5. CASE Confirm(t)
  <2>. PICK pc \in {"opening", "failed"} : Goes(t, pc)
    BY <1>5 DEF Confirm
  <2>1. calls'[t].pc = pc /\ calls'[t].candidate = c.candidate
    BY <1>0 DEF Goes, Calls
  <2>2. c.pc = "confirming"
    BY <1>5 DEF Confirm
  <2>3. Stage(pc) < Stage(c.pc) /\ pc \notin Looks
    BY <2>2 DEF Stage, Looks
  <2> QED
    BY <1>1, <2>1, <2>3
<1>6. CASE GetRef(t) /\ ~Fails(t)
  <2>. PICK tip, pc : /\ pc \in {"seeding", "updating"}
                      /\ calls' = [calls EXCEPT ![t].tip = tip, ![t].pc = pc]
    BY <1>6 DEF GetRef
  <2>1. calls'[t].pc = pc /\ calls'[t].candidate = c.candidate
    BY <1>0 DEF Calls
  <2>2. c.pc = "opening"
    BY <1>6 DEF GetRef
  <2>3. Stage(pc) < Stage(c.pc) /\ pc \notin Looks
    BY <2>2 DEF Stage, Looks
  <2> QED
    BY <1>1, <2>1, <2>3
<1>7. CASE GetContents(t) /\ ~Fails(t)
  <2>. PICK blob : calls' = [calls EXCEPT ![t].blob = blob, ![t].pc = "putting"]
    BY <1>7 DEF GetContents
  <2>1. calls'[t].pc = "putting" /\ calls'[t].candidate = c.candidate
    BY <1>0 DEF Calls
  <2>2. c.pc = "seeding"
    BY <1>7 DEF GetContents
  <2>3. Stage("putting") < Stage(c.pc) /\ "putting" \notin Looks
    BY <2>2 DEF Stage, Looks
  <2> QED
    BY <1>1, <2>1, <2>3
<1>8. CASE (PutContents(t) \/ UpdateRef(t)) /\ ~Fails(t)
  <2>. PICK parent, files, pc :
          /\ Committed(t, parent, files, pc)
          /\ \/ c.pc = "putting" /\ pc \in {"reading", "verifying", "failed"}
             \/ c.pc = "updating" /\ pc \in {"verifying", "failed"}
    <3>1. CASE PutContents(t)
      <4>. PICK pc : /\ pc \in {"reading", "verifying", "failed"}
                     /\ Committed(t, RepoOf(t).head, {First(t)}, pc)
        BY <1>8, <3>1 DEF PutContents
      <4> QED
        BY <3>1 DEF PutContents
    <3>2. CASE UpdateRef(t)
      <4>. PICK pc : /\ pc \in {"verifying", "failed"}
                     /\ Committed(t, calls[t].tip, calls[t].files, pc)
        BY <1>8, <3>2 DEF UpdateRef
      <4> QED
        BY <3>2 DEF UpdateRef
    <3> QED
      BY <1>8, <3>1, <3>2
  <2>1. calls'[t].pc = pc /\ calls'[t].candidate = c.candidate
    BY <1>0 DEF Committed, Calls
  <2>2. Stage(pc) < Stage(c.pc) /\ pc \notin Looks
    BY DEF Stage, Looks
  <2> QED
    BY <1>1, <2>1, <2>2
<1>9. CASE GetRefAgain(t) /\ ~Fails(t)
  <2>1. /\ c.pc = "reading"
        /\ calls' = [calls EXCEPT ![t].tip = RepoOf(t).head, ![t].pc = "updating",
                                  ![t].seeded = TRUE, ![t].files = @ \ {First(t)}]
    BY <1>9 DEF GetRefAgain
  <2>2. calls'[t].pc = "updating" /\ calls'[t].candidate = c.candidate
    BY <1>0, <2>1 DEF Calls
  <2>3. Stage("updating") < Stage(c.pc) /\ "updating" \notin Looks
    BY <2>1 DEF Stage, Looks
  <2> QED
    BY <1>1, <2>2, <2>3
<1>10. CASE VerifyCommit(t)
  <2>. PICK pc \in {"committed", "failed"} : Goes(t, pc)
    BY <1>10 DEF VerifyCommit, Verdicts
  <2>1. calls'[t].pc = pc /\ calls'[t].candidate = c.candidate
    BY <1>0 DEF Goes, Calls
  <2>2. c.pc = "verifying"
    BY <1>10 DEF VerifyCommit
  <2>3. Stage(pc) < Stage(c.pc) /\ pc \notin Looks
    BY <2>2 DEF Stage, Looks
  <2> QED
    BY <1>1, <2>1, <2>3
<1>11. Stage(c.pc) > 0
  <2>1. c.pc \in {"looking", "creating", "confirming", "opening", "seeding", "putting",
                  "reading", "updating", "verifying"}
    BY DEF CreateRepo, LookUp, CreateUserRepo, Confirm, CommitFiles, GetRef, GetContents,
           PutContents, GetRefAgain, UpdateRef, VerifyCommit
  <2> QED
    BY <2>1 DEF Stage
<1> QED
  BY <1>2, <1>3, <1>4, <1>5, <1>6, <1>7, <1>8, <1>9, <1>10, <1>11
     DEF CreateRepo, CommitFiles

LEMMA OneCandidate ==
    ASSUME NEW k \in Nat PROVE 2 * k \in Nat /\ 9 + 2 * k < 8 + 2 * (k + 1)
OBVIOUS

LEMMA OneFewer ==
    ASSUME NEW l \in Nat, NEW i \in Nat, i < l
    PROVE  \E k \in Nat : k = l - (i + 1) /\ k + 1 = l - i
OBVIOUS

LEMMA CallProgress ==
    ASSUME IInv, NEW t \in Callers, CreateRepo(t) \/ CommitFiles(t)
    PROVE  CallWork(t)' < CallWork(t)
<1>. PICK c \in Calls : c = calls[t]
  BY DEF IInv, TypeOK
<1>. PICK d : d = calls'[t]
  OBVIOUS
<1>. PICK l \in Nat : l = Len(Candidates[t])
  BY CandidatesAssumption
<1>. PICK i \in Nat : i = c.candidate /\ i <= l
  BY DEF IInv, TypeOK
<1>. PICK m \in 0 .. 9, n \in 0 .. 9 : m = Stage(c.pc) /\ n = Stage(d.pc)
  BY StageType
<1>1. CallWork(t) = m + (IF c.pc \in Looks THEN 2 * (l - i) ELSE 0)
  BY DEF CallWork, Looks
<1>2. CallWork(t)' = n + (IF d.pc \in Looks THEN 2 * (l - d.candidate) ELSE 0)
  BY DEF CallWork, Looks
<1>3. CASE n < m /\ (d.pc \in Looks => c.pc \in Looks) /\ d.candidate = i
  <2>. PICK k \in Nat : k = 2 * (l - i)
    <3>1. l - i \in Nat
      OBVIOUS
    <3> QED
      BY <3>1, OneCandidate
  <2>1. CallWork(t) = m + (IF c.pc \in Looks THEN k ELSE 0)
    BY <1>1
  <2>2. CallWork(t)' = n + (IF d.pc \in Looks THEN k ELSE 0)
    BY <1>2, <1>3
  <2> QED
    BY <1>3, <2>1, <2>2
<1>4. CASE c.pc = "creating" /\ d.pc = "looking" /\ i < l /\ d.candidate = i + 1
  <2>1. m = 8 /\ n = 9 /\ c.pc \in Looks /\ d.pc \in Looks
    BY <1>4 DEF Stage, Looks
  <2>. PICK k \in Nat : k = l - d.candidate /\ k + 1 = l - i
    <3>1. i < l /\ d.candidate = i + 1
      BY <1>4
    <3> QED
      BY <3>1, OneFewer
  <2>2. CallWork(t)' = 9 + 2 * k
    <3>1. CallWork(t)' = n + 2 * (l - d.candidate)
      BY <1>2, <2>1
    <3> QED
      BY <2>1, <3>1
  <2>3. CallWork(t) = 8 + 2 * (k + 1)
    <3>1. CallWork(t) = m + 2 * (l - i)
      BY <1>1, <2>1
    <3> QED
      BY <2>1, <3>1
  <2> QED
    BY <2>2, <2>3, OneCandidate
<1> QED
  BY <1>3, <1>4, RequestMoves

LEMMA WorkType ==
    ASSUME LogIInv, WorkInv, NEW t \in Callers PROVE Work(t) \in Nat
<1>1. CASE t \notin LogWriters
  <2>. PICK l \in Nat, i \in Nat : l = Len(Candidates[t]) /\ i = calls[t].candidate /\ i <= l
    BY CandidatesAssumption DEF LogIInv, IInv, TypeOK
  <2>. PICK m \in Nat : m = Stage(calls[t].pc)
    BY StageType
  <2>. PICK k \in Nat : k = 2 * (l - i)
    <3>. PICK j \in Nat : j = l - i
      OBVIOUS
    <3>1. 2 * j \in Nat
      BY OneCandidate
    <3> QED
      BY <3>1
  <2>1. CallWork(t) = m + (IF calls[t].pc \in {"looking", "creating"} THEN k ELSE 0)
    BY DEF CallWork
  <2> QED
    BY <1>1, <2>1 DEF Work
<1>2. CASE t \in LogWriters /\ appends[t].pc \notin Ended
  <2>. PICK a \in Appends : a = appends[t]
    BY <1>2 DEF LogIInv, LogTypeOK
  <2>. PICK v \in Nat, k \in Nat : v = BuildLogVerifyAttempts
                                   /\ k = BuildLogRetryLimit - a.attempt
    <3>1. a.attempt \in Nat /\ a.attempt <= BuildLogRetryLimit
      BY <1>2 DEF Appends, WorkInv, RepeatsInv, AttemptsOK, AttemptOK
    <3> QED
      BY <3>1, LimitsAssumption
  <2>1. Retries(t) \in Nat
    <3>1. k * (v + 11) \in Nat
      OBVIOUS
    <3> QED
      BY <3>1 DEF Retries
  <2>2. a.tries \in Nat /\ (a.pc = "waiting" => a.tries < v)
        /\ a.pc \in {"reading", "committing", "waiting", "verifying"}
    BY <1>2 DEF WorkInv, TriesOK, Appends, Ended
  <2>3. AttemptWork(t) \in Nat
    BY <2>2, StageType DEF AttemptWork
  <2> QED
    BY <1>2, <2>1, <2>3 DEF Work
<1>3. CASE t \in LogWriters /\ appends[t].pc \in Ended
  BY <1>3 DEF Work
<1> QED
  BY <1>1, <1>2, <1>3

\* A new attempt is at most as much as one that is counted.
LEMMA AnotherAttempt ==
    ASSUME NEW k \in Nat, NEW v \in Nat
    PROVE  v + 10 + k * (v + 11) < (k + 1) * (v + 11)
<1>1. (k + 1) * (v + 11) = k * (v + 11) + (v + 11)
  OBVIOUS
<1>2. k * (v + 11) \in Nat
  OBVIOUS
<1> QED
  BY <1>1, <1>2

LEMMA AppendProgress ==
    ASSUME LogIInv, WorkInv, NEW w \in LogWriters, AppendBuildLog(w)
    PROVE  /\ Work(w)' < Work(w)
           /\ appends'[w].pc = "committing" => appends'[w].tries = 0
           /\ appends'[w].pc = "waiting" => appends'[w].tries < BuildLogVerifyAttempts
<1>. PICK a \in Appends : a = appends[w]
  BY DEF LogIInv, LogTypeOK
<1>. PICK v \in Nat \ {0}, l \in Nat, n \in Nat :
        v = BuildLogVerifyAttempts /\ l = BuildLogRetryLimit /\ n = a.attempt /\ n <= l
  BY LimitsAssumption DEF Appends, WorkInv, RepeatsInv, AttemptsOK, AttemptOK
<1>. PICK j \in Nat : j = a.tries
  BY DEF Appends
<1>. PICK r : r = (l - n) * (v + 11)
  OBVIOUS
<1>0. /\ w \in Callers /\ appends \in [LogWriters -> Appends] /\ calls \in [Callers -> Calls]
      /\ Retries(w) = r /\ r \in Nat
      /\ (a.pc = "committing" => j = 0) /\ (a.pc = "waiting" => j < v)
  <2>1. \A k \in Nat : k * (v + 11) \in Nat
    OBVIOUS
  <2>2. l - n \in Nat
    OBVIOUS
  <2>3. r \in Nat
    BY <2>1, <2>2, Zenon
  <2>4. Retries(w) = r
    BY DEF Retries
  <2>5. w \in Callers /\ appends \in [LogWriters -> Appends] /\ calls \in [Callers -> Calls]
    BY DEF Callers, LogIInv, LogTypeOK, IInv, TypeOK
  <2>6. (a.pc = "committing" => j = 0) /\ (a.pc = "waiting" => j < v)
    BY DEF WorkInv, TriesOK
  <2> QED
    BY <2>3, <2>4, <2>5, <2>6
<1>. PICK b : b = appends'[w]
  OBVIOUS
<1>1. CASE GetFileText(w)
  <2>1. /\ a.pc = "reading" /\ b.pc = "committing" /\ b.attempt = n /\ b.tries = 0
    BY <1>0, <1>1 DEF GetFileText, Appends
  <2>2. calls'[w].pc = "opening"
    BY <1>0, <1>1 DEF GetFileText, CommitLog, NewCall
  <2>3. Work(w) = v + 10 + r
    BY <1>0, <2>1 DEF Work, AttemptWork, Ended
  <2>4. AttemptWork(w)' = v + 3 + 6 /\ Retries(w)' = r
    BY <2>1, <2>2 DEF AttemptWork, Stage, Retries
  <2>5. Work(w)' = v + 9 + r
    BY <1>0, <2>1, <2>4 DEF Work, Ended
  <2> QED
    BY <1>0, <2>1, <2>3, <2>5
<1>2. CASE ~GetFileText(w)
  <2>1. UNCHANGED vars /\ a.pc \in {"committing", "waiting", "verifying"}
    BY <1>2 DEF AppendBuildLog, CommitResult, WaitForFileEntry, VerifyLogCommit
  <2>2. /\ Work(w) = AttemptWork(w) + r /\ AttemptWork(w) \in Nat \ {0}
        /\ (a.pc = "committing" => AttemptWork(w) > v + 2)
        /\ (a.pc = "waiting" => AttemptWork(w) = v + 2 - j)
    BY <1>0, <2>1, StageType DEF Work, AttemptWork, Ended
  <2>3. CASE Again(w)
    <3>1. CASE n < l
      <4>1. b.pc = "reading" /\ b.attempt = n + 1
        BY <1>0, <2>3, <3>1 DEF Again, Appends
      <4>. PICK k \in Nat : k = l - (n + 1) /\ k + 1 = l - n
        BY <3>1
      <4>2. Work(w)' = v + 10 + k * (v + 11)
        BY <4>1 DEF Work, AttemptWork, Retries, Ended
      <4>3. v + 10 + k * (v + 11) < r
        BY AnotherAttempt
      <4>4. k * (v + 11) \in Nat
        OBVIOUS
      <4> QED
        BY <1>0, <2>2, <4>1, <4>2, <4>3, <4>4
    <3>2. CASE ~(n < l)
      <4>1. b.pc = "failed"
        BY <1>0, <2>3, <3>2 DEF Again, Becomes, Appends
      <4>2. Work(w)' = 0
        BY <4>1 DEF Work, Ended
      <4> QED
        BY <1>0, <2>2, <4>1, <4>2
    <3> QED
      BY <3>1, <3>2
  <2>4. CASE ~Again(w) /\ a.pc = "committing"
    <3>1. b.pc = "waiting" /\ b.tries = 0 /\ b.attempt = n
      BY <1>0, <1>2, <2>4 DEF AppendBuildLog, CommitResult, WaitForFileEntry,
                              VerifyLogCommit, Becomes, Appends
    <3>2. AttemptWork(w)' = v + 2 - 0 /\ Retries(w)' = r
      BY <3>1 DEF AttemptWork, Retries
    <3>3. Work(w)' = v + 2 + r
      BY <1>0, <3>1, <3>2 DEF Work, Ended
    <3> QED
      BY <1>0, <2>2, <2>4, <3>1, <3>3
  <2>5. CASE ~Again(w) /\ a.pc = "waiting"
    <3>1. \/ b.pc = "logged"
          \/ b.pc = "verifying" /\ b.attempt = n
          \/ b.pc = "waiting" /\ b.tries = j + 1 /\ j + 1 # v /\ b.attempt = n
      <4>1. CASE Becomes(w, "logged")
        BY <1>0, <4>1 DEF Becomes, Appends
      <4>2. CASE ~Becomes(w, "logged")
        <5>1. appends' = [appends EXCEPT
                            ![w].pc = IF 1 + a.tries = v THEN "verifying" ELSE @,
                            ![w].tries = @ + 1]
          BY <1>2, <2>5, <4>2 DEF AppendBuildLog, CommitResult, WaitForFileEntry,
                                  VerifyLogCommit
        <5> QED
          BY <1>0, <2>5, <5>1 DEF Appends
      <4> QED
        BY <4>1, <4>2
    <3>2. CASE b.pc = "logged"
      <4>1. Work(w)' = 0
        BY <3>2 DEF Work, Ended
      <4> QED
        BY <1>0, <2>2, <3>2, <4>1
    <3>3. CASE b.pc = "verifying" /\ b.attempt = n
      <4>1. AttemptWork(w)' = 1 /\ Retries(w)' = r
        BY <3>3 DEF AttemptWork, Retries
      <4>2. Work(w)' = 1 + r
        BY <3>3, <4>1 DEF Work, Ended
      <4> QED
        BY <1>0, <2>2, <2>5, <3>3, <4>2
    <3>4. CASE b.pc = "waiting" /\ b.tries = j + 1 /\ j + 1 # v /\ b.attempt = n
      <4>1. AttemptWork(w)' = v + 2 - (j + 1) /\ Retries(w)' = r
        BY <3>4 DEF AttemptWork, Retries
      <4>2. Work(w)' = v + 2 - (j + 1) + r
        BY <3>4, <4>1 DEF Work, Ended
      <4> QED
        BY <1>0, <2>2, <2>5, <3>4, <4>2
    <3> QED
      BY <3>1, <3>2, <3>3, <3>4
  <2>6. CASE ~Again(w) /\ a.pc = "verifying"
    <3>1. b.pc = "logged"
      BY <1>0, <1>2, <2>6 DEF AppendBuildLog, CommitResult, WaitForFileEntry,
                              VerifyLogCommit, Becomes, Appends
    <3>2. Work(w)' = 0
      BY <3>1 DEF Work, Ended
    <3> QED
      BY <1>0, <2>2, <3>1, <3>2
  <2> QED
    BY <2>1, <2>3, <2>4, <2>5, <2>6
<1> QED
  BY <1>1, <1>2

\* Every step is some caller's, and takes it nearer to its end.
LEMMA ProgressStep ==
    ASSUME LogIInv, WorkInv, NEW t \in Callers, Act(t)
    PROVE  Progress /\ TriesOK'
<1>0. /\ \A u \in Callers : u # t => calls'[u] = calls[u]
      /\ \A u \in LogWriters : u # t => appends'[u] = appends[u]
  <2>1. \A u \in LogWriters : u # t => appends'[u] = appends[u]
    BY AppendShape DEF Act, Appended, LogIInv, LogTypeOK
  <2> QED
    BY <2>1, ActKeepsLogs DEF StepShape
<1>1. ASSUME NEW u \in Callers \ {t} PROVE Work(u)' = Work(u)
  <2>1. CallWork(u)' = CallWork(u)
    BY <1>0 DEF CallWork
  <2>2. u \in LogWriters => AttemptWork(u)' = AttemptWork(u) /\ Retries(u)' = Retries(u)
                            /\ appends'[u].pc = appends[u].pc
    BY <1>0 DEF AttemptWork, Retries
  <2> QED
    BY <2>1, <2>2 DEF Work
<1>2. CASE t \in LogWriters /\ AppendBuildLog(t)
  <2>1. TriesOK'
    BY <1>0, <1>2, AppendProgress DEF TriesOK, WorkInv
  <2> QED
    BY <1>1, <1>2, <2>1, AppendProgress DEF Progress
<1>3. CASE ~(t \in LogWriters /\ AppendBuildLog(t))
  <2>1. ((CreateRepo(t) /\ t \in Tasks) \/ CommitFiles(t)) /\ UNCHANGED appends
    BY <1>3 DEF Act
  <2>2. TriesOK'
    BY <2>1 DEF TriesOK, WorkInv
  <2>3. CallWork(t)' < CallWork(t)
    BY <2>1, CallProgress DEF LogIInv
  <2>4. CASE t \notin LogWriters
    BY <1>1, <2>2, <2>3, <2>4 DEF Progress, Work
  <2>5. CASE t \in LogWriters
    <3>1. CommitFiles(t) /\ AttemptOK(t)
      BY <2>1, <2>5, CallersAssumption DEF WorkInv, RepeatsInv, AttemptsOK
    <3>2. appends[t].pc = "committing" /\ calls[t].pc \in Before \cup Behind
      BY <2>1, <2>5, <3>1, CommitsOnce DEF AttemptOK
    <3>3. AttemptOK(t)'
      BY <2>1, <2>5, <3>1, CommitsOnce
    <3>. PICK m \in 0 .. 9, n \in 0 .. 9 : m = Stage(calls[t].pc) /\ n = Stage(calls'[t].pc)
      BY StageType
    <3>4. n < m
      <4>1. calls[t].pc \notin Looks /\ calls'[t].pc \notin Looks
        BY <2>1, <3>2, <3>3 DEF AttemptOK, Before, Behind, Looks
      <4> QED
        BY <2>3, <4>1 DEF CallWork, Looks
    <3>5. /\ Work(t) = AttemptWork(t) + Retries(t)
          /\ Work(t)' = AttemptWork(t)' + Retries(t)'
          /\ Retries(t)' = Retries(t) /\ Retries(t) \in Nat
      <4>1. Retries(t) \in Nat
        <5>. PICK k \in Nat, v \in Nat : /\ k = BuildLogRetryLimit - appends[t].attempt
                                         /\ v = BuildLogVerifyAttempts
          BY <2>5, <3>1, LimitsAssumption DEF AttemptOK, LogIInv, LogTypeOK, Appends
        <5>1. k * (v + 11) \in Nat
          OBVIOUS
        <5> QED
          BY <5>1 DEF Retries
      <4> QED
        BY <2>1, <2>5, <3>2, <4>1 DEF Work, Retries, Ended
    <3>6. /\ AttemptWork(t) = BuildLogVerifyAttempts + 3 + m
          /\ AttemptWork(t)' = BuildLogVerifyAttempts + 3 + n
      BY <2>1, <3>2 DEF AttemptWork
    <3>7. Work(t)' < Work(t)
      BY <3>4, <3>5, <3>6, LimitsAssumption
    <3> QED
      BY <1>1, <2>2, <3>7 DEF Progress
  <2> QED
    BY <2>4, <2>5
<1> QED
  BY <1>2, <1>3

LEMMA WorkInvariance == LogSpec => [](LogIInv /\ WorkInv)
<1>1. LogInit => TriesOK
  <2> SUFFICES ASSUME LogInit PROVE TriesOK
    OBVIOUS
  <2>1. \A w \in LogWriters : appends[w].pc \in {"idle", "reading"}
    BY DEF LogInit
  <2> QED
    BY <2>1 DEF TriesOK
<1>2. LogIInv /\ WorkInv /\ [LogNext]_logVars => TriesOK'
  BY ProgressStep DEF LogNext, logVars, TriesOK, WorkInv
<1>3. LogInit => LogIInv /\ WorkInv
  BY <1>1, LogInitIInv, InitRepeats DEF WorkInv
<1>4. LogIInv /\ WorkInv /\ [LogNext]_logVars => LogIInv' /\ WorkInv'
  BY <1>2, LogNextIInv, NextRepeats DEF WorkInv
<1> QED
  BY <1>3, <1>4, PTL DEF LogSpec

-----------------------------------------------------------------------------
\* Whatever the writers of the log and the tasks do, the repositories behave as
\* the tools alone make them: all of the above holds with the log as well.
THEOREM LogImplementsRepo == LogSpec => Spec
<1>1. LogInit => Init
  BY DEF LogInit
<1> QED
  BY <1>1, LogStepIsRepoStep, PTL DEF LogSpec, Spec

\* The appends and logs are well formed, and there is a log for every commit.
THEOREM LogTypeCorrect == LogSpec => []LogTypeOK
<1>1. LogIInv => LogTypeOK
  BY DEF LogIInv
<1> QED
  BY <1>1, LogInvariance, PTL

\* An append that reports success left its entry in the history of the branch,
\* for any number of writers, attempts, and stale answers.
THEOREM LoggedEntriesAreThere == LogSpec => []LoggedIsOnBranch
<1>1. LogIInv => LoggedIsOnBranch
  BY DEF LogIInv
<1> QED
  BY <1>1, LogInvariance, PTL

\* The log of a branch only grows, but for a writer that had not read it as it
\* is.
THEOREM LogsAreKept == LogSpec => EntriesAreKept
<1>1. LogIInv /\ [LogNext]_logVars => [\A n \in Names : LogKept(n)]_logVars
  BY LogKeptStep DEF LogNext
<1>2. [\A n \in Names : LogKept(n)]_logVars <=>
        [\A n \in Names :
          \/ /\ Len(HeadLog(n)) <= Len(HeadLog(n)')
             /\ \A k \in 1..Len(HeadLog(n)) : HeadLog(n)'[k] = HeadLog(n)[k]
          \/ \E w \in LogWriters :
                /\ NameOf(w) = n
                /\ appends[w].existing # HeadLog(n)
                /\ HeadLog(n)' = Append(appends[w].existing, w)]_logVars
  BY DEF LogKept
<1> QED
  BY <1>1, <1>2, LogInvariance, PTL DEF LogSpec, EntriesAreKept

\* An append that is repeated, because its commit or the check of it failed,
\* leaves at most one entry for each attempt in any log, for any number of
\* writers, and whatever stale logs they read and commit in between.
THEOREM EntriesRepeatBoundedly == LogSpec => []RepeatsAreBounded
<1>1. LogSpec => [](LogIInv /\ RepeatsInv)
  BY LogInitIInv, InitRepeats, LogNextIInv, NextRepeats, PTL DEF LogSpec
<1>2. LogIInv /\ RepeatsInv => RepeatsAreBounded
  <2> SUFFICES ASSUME LogIInv, RepeatsInv, NEW i \in 1..Len(logs), NEW w \in LogWriters
               PROVE  Times(logs[i], w) <= 1 + BuildLogRetryLimit
    BY DEF RepeatsAreBounded
  <2>1. Times(logs[i], w) \in Nat
    BY TimesOfMore DEF LogIInv, LogTypeOK
  <2>2. Times(logs[i], w) <= Spent(w) /\ AttemptOK(w)
    BY DEF RepeatsInv, SpentOK, AttemptsOK
  <2> QED
    BY <2>1, <2>2, SpentType, LimitsAssumption DEF AttemptOK, Spent
<1> QED
  BY <1>1, <1>2, PTL

\* Every request a caller makes, in any order with those of others, uses up some
\* of a number that nobody else's requests change, and that is never negative:
\* no candidate, retry or repeated look for an entry can go on for ever, for any
\* limits (create_repo, commit_files and append_build_log).
THEOREM WorkRunsOut ==
    LogSpec => [](\A t \in Callers : Work(t) \in Nat) /\ [][Progress]_logVars
<1>1. LogIInv /\ WorkInv => \A t \in Callers : Work(t) \in Nat
  BY WorkType
<1>2. LogIInv /\ WorkInv /\ [LogNext]_logVars => [Progress]_logVars
  BY ProgressStep DEF LogNext
<1> QED
  BY <1>1, <1>2, WorkInvariance, PTL DEF LogSpec
=============================================================================
