---------------------------- MODULE SessionStore ----------------------------
(***************************************************************************)
(* The copy of one task in Supabase (agent/project_session_store.py).      *)
(*                                                                         *)
(* SupabasePersistingTaskStore stores every snapshot in the memory of the  *)
(* process first, and then sends it to five tables in a row of requests    *)
(* without a transaction.  Any request may be refused, or be carried out   *)
(* without the answer arriving; either ends the row, is logged, and is not *)
(* repeated.  The process may stop between two requests.  The API answers  *)
(* from memory alone, so the tables are what is left after a restart.      *)
(*                                                                         *)
(* A snapshot is abstracted to its number, its status, the parts of it     *)
(* that have a table of their own, and the number of its log entries; a    *)
(* log row is the number of its entry.  Tasks share no rows: one is enough.*)
(***************************************************************************)
EXTENDS Naturals, Sequences, SequencesExt

CONSTANT MaxSnapshots       \* bound: snapshots the graph takes

ASSUME MaxSnapshotsAssumption == MaxSnapshots \in Nat

VARIABLES
    run,                    \* "absent", "running", "ended" or "gone"
    state,                  \* the workflow state of the latest snapshot
    memory,                 \* what the in-memory store answers
    persisted_log_count,    \* entries the store believes to be in agent_logs
    requests,               \* what is left to send of the snapshot
    outcome,                \* how sending the latest snapshot went
    tables,                 \* the rows of the task
    answers_lost            \* some request was carried out unanswered

vars == <<run, state, memory, persisted_log_count, requests, outcome, tables,
          answers_lost>>

-----------------------------------------------------------------------------
\* The parts of a state in the order in which the graph comes to them.
Parts  == <<"project_requirements", "project_architectures",
            "validation_results">>
Tables == {Parts[i] : i \in 1 .. Len(Parts)} \cup {"project_sessions", "agent_logs"}

\* parts: how many of the parts the state has; logs: its number of log
\* entries; carries: the state has the list of them at all.
States == [n : Nat, status : {"started", "completed", "failed"},
           parts : 0 .. Len(Parts), logs : Nat, carries : BOOLEAN]

Init ==
    /\ run = "absent"
    /\ state = [n |-> 0, status |-> "started", parts |-> 0, logs |-> 0,
                carries |-> TRUE]
    /\ memory = [n |-> 0, status |-> "absent"]
    /\ persisted_log_count = 0
    /\ requests = <<>>
    /\ outcome = "none"
    /\ tables = [t \in Tables |-> <<>>]
    /\ answers_lost = FALSE

-----------------------------------------------------------------------------
(* The requests of a snapshot.                                             *)

Upsert(row)         == [op |-> "upsert", table |-> "project_sessions",
                        rows |-> <<row>>]
Delete(table)       == [op |-> "delete", table |-> table, rows |-> <<>>]
Insert(table, rows) == [op |-> "insert", table |-> table, rows |-> rows]

MutantReplace(part, s) ==
    IF part <= s.parts THEN <<Insert(Parts[part], <<part>>)>> ELSE <<>>

\* _upsert_json_row, and the same two requests for the validation: the old
\* row is deleted first, whether there is one or not.
Replace(part, s) ==
    IF part <= s.parts
    THEN <<Delete(Parts[part]), Insert(Parts[part], <<part>>)>>
    ELSE <<>>

MutantNewEntries(s) ==
    IF s.logs = 0 THEN <<>> ELSE <<Insert("agent_logs", <<s.logs>>)>>

\* _persist_agent_logs: the entries behind those already counted.
NewEntries(s) ==
    IF ~s.carries \/ s.logs <= persisted_log_count
    THEN <<>>
    ELSE <<Insert("agent_logs", [i \in 1 .. s.logs - persisted_log_count |->
                                    persisted_log_count + i])>>

\* Only the newest part is sent.
MutantPersistSnapshot(s, text) ==
    <<Upsert([status |-> text, n |-> s.n])>>
    \o (IF s.parts = 0 THEN <<>> ELSE Replace(s.parts, s))
    \o NewEntries(s)

\* _persist_snapshot; text is str() of the status.
PersistSnapshot(s, text) ==
    <<Upsert([status |-> text, n |-> s.n])>>
    \o Replace(1, s) \o Replace(2, s) \o Replace(3, s)
    \o NewEntries(s)

-----------------------------------------------------------------------------
(* The run of the task.                                                    *)

\* create_task: the task is in memory before its row is sent, and exists
\* whatever becomes of the row.
CreateTask ==
    /\ run = "absent"
    /\ run' = "running"
    /\ memory' = [n |-> 0, status |-> "started"]
    /\ requests' = <<Upsert([status |-> "started", n |-> 0])>>
    /\ outcome' = "sending"
    /\ UNCHANGED <<state, persisted_log_count, tables, answers_lost>>

\* snapshot_task.
SnapshotTask(s, text) ==
    /\ run = "running"
    /\ requests = <<>>
    /\ state' = s
    /\ memory' = [n |-> s.n, status |-> s.status]
    /\ requests' = PersistSnapshot(s, text)
    /\ outcome' = "sending"
    /\ UNCHANGED <<persisted_log_count, tables, answers_lost>>

\* A node of the graph ends.  It leaves in the state nothing the tables have
\* a place for, a log entry (the nodes up to the stack recommendation do), or
\* the next part (the first of them with a log entry).
RunNode ==
    LET next == [state EXCEPT !.n = @ + 1]
    IN /\ state.n < MaxSnapshots
       /\ \/ SnapshotTask(next, "started")
          \/ /\ state.parts < 2
             /\ SnapshotTask([next EXCEPT !.logs = @ + 1], "started")
          \/ /\ state.parts = 0
             /\ SnapshotTask([next EXCEPT !.parts = 1, !.logs = @ + 1], "started")
          \/ /\ state.parts \in {1, 2}
             /\ SnapshotTask([next EXCEPT !.parts = @ + 1], "started")
       /\ UNCHANGED run

\* The last node sets the final status.
FinishRun ==
    /\ \E st \in {"completed", "failed"} :
          SnapshotTask([state EXCEPT !.n = @ + 1, !.status = st], st)
    /\ run' = "ended"

\* The graph raised: _build_unexpected_failure_state has neither log nor
\* parts, and its status is a member of the enumeration.
StoreFailure ==
    /\ SnapshotTask([n |-> state.n + 1, status |-> "failed", parts |-> 0,
                     logs |-> 0, carries |-> FALSE], "TaskStatus.FAILED")
    /\ run' = "ended"

-----------------------------------------------------------------------------
(* The requests on their way.                                              *)

\* What Supabase does with a request.
Applied(r) ==
    [tables EXCEPT ![r.table] = IF r.op = "insert" THEN @ \o r.rows ELSE r.rows]

Answered ==
    /\ requests # <<>>
    /\ tables' = Applied(Head(requests))
    /\ requests' = Tail(requests)
    /\ outcome' = IF Len(requests) = 1 THEN "stored" ELSE outcome
    /\ persisted_log_count' = IF Head(requests).table = "agent_logs"
                              THEN state.logs
                              ELSE persisted_log_count
    /\ UNCHANGED <<run, state, memory, answers_lost>>

\* The exception of a request reaches snapshot_task, or create_task, which
\* logs it and goes on.
Refused ==
    /\ requests # <<>>
    /\ requests' = <<>>
    /\ outcome' = "failed"
    /\ UNCHANGED <<run, state, memory, persisted_log_count, tables, answers_lost>>

AnswerLost ==
    /\ requests # <<>>
    /\ tables' = Applied(Head(requests))
    /\ requests' = <<>>
    /\ outcome' = "failed"
    /\ answers_lost' = TRUE
    /\ UNCHANGED <<run, state, memory, persisted_log_count>>

\* The process stops, between two requests if there are any, and forgets
\* the task.
Restart ==
    /\ run \in {"running", "ended"}
    /\ run' = "gone"
    /\ memory' = [n |-> 0, status |-> "absent"]
    /\ persisted_log_count' = 0
    /\ requests' = <<>>
    /\ outcome' = IF requests = <<>> THEN outcome ELSE "failed"
    /\ UNCHANGED <<state, tables, answers_lost>>

Next == CreateTask \/ RunNode \/ FinishRun \/ StoreFailure
        \/ Answered \/ Refused \/ AnswerLost \/ Restart

Spec == Init /\ [][Next]_vars

-----------------------------------------------------------------------------
(* Properties.                                                             *)

TypeOK ==
    /\ run \in {"absent", "running", "ended", "gone"}
    /\ state \in States
    /\ memory \in [n : Nat, status : {"absent"} \cup
                                     {"started", "completed", "failed"}]
    /\ persisted_log_count \in 0 .. MaxSnapshots
    /\ \A i \in DOMAIN requests :
          /\ requests[i].op \in {"upsert", "delete", "insert"}
          /\ requests[i].table \in Tables
    /\ outcome \in {"none", "sending", "stored", "failed"}
    /\ DOMAIN tables = Tables
    /\ answers_lost \in BOOLEAN

Stored == {tables["agent_logs"][i] : i \in DOMAIN tables["agent_logs"]}

\* The log of a task in the database has no hole: whichever requests of
\* whichever snapshots failed, it is the beginning of the log the graph wrote,
\* and the store never counts an entry as persisted that is not (the counter
\* of _persist_agent_logs).
LogHasNoHole ==
    /\ \E k \in 0 .. MaxSnapshots : Stored = 1 .. k
    /\ persisted_log_count <= Len(tables["agent_logs"])
    /\ run = "running" => persisted_log_count <= state.logs

\* Every entry and every part is stored once.  Only a request whose answer
\* was lost makes it possible that entries are sent a second time, and the
\* parts stay single even then, since each is deleted before it is inserted
\* (_upsert_json_row).
RowsAreNotRepeated ==
    /\ \A t \in Tables \ {"agent_logs"} : Len(tables[t]) <= 1
    /\ ~answers_lost => tables["agent_logs"] = [i \in 1 .. Len(tables["agent_logs"]) |-> i]

\* A snapshot that was sent without an error repairs what the failures of
\* earlier ones left behind: the tables then hold all of it (the promise of
\* _persist_snapshot, which sends the whole state and not the difference).
CleanSnapshotIsComplete ==
    outcome = "stored" =>
        /\ \A part \in 1 .. state.parts : tables[Parts[part]] = <<part>>
        /\ state.carries => 1 .. state.logs \subseteq Stored
        /\ Last(tables["project_sessions"]).n = state.n

=============================================================================
